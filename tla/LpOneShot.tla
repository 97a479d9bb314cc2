----------------------------- MODULE LpOneShot -----------------------------
(***************************************************************************)
(* What the first-LP operation promises to its owner: each of the two      *)
(* transactions is sent at most once, the mint only after the approval has *)
(* succeeded for good, what the journal says of a transaction is its final *)
(* outcome, and the evidence is published only for two final successes.    *)
(***************************************************************************)
CONSTANTS Agents  \* whoever may act for the owner

Steps == {"approval", "mint"}
Outcomes == {"confirmed", "reverted"}

VARIABLES issued,    \* who sent what
          truth,     \* the outcome each transaction ended with
          recorded,  \* the outcome durably recorded for it
          published  \* whether the evidence is complete

vars == <<issued, truth, recorded, published>>

Init ==
  /\ issued = {}
  /\ truth = [s \in Steps |-> "none"]
  /\ recorded = [s \in Steps |-> "none"]
  /\ published = FALSE

Issue(a, s) ==
  /\ \A b \in Agents : <<b, s>> \notin issued
  /\ s = "mint" => truth["approval"] = "confirmed"
  /\ issued' = issued \cup {<<a, s>>}
  /\ UNCHANGED <<truth, recorded, published>>

Settle(s, o) ==
  /\ truth[s] = "none"
  /\ \E a \in Agents : <<a, s>> \in issued
  /\ s = "mint" => truth["approval"] \in (IF o = "confirmed" THEN {"confirmed"} ELSE Outcomes)
  /\ truth' = [truth EXCEPT ![s] = o]
  /\ UNCHANGED <<issued, recorded, published>>

Record(s) ==
  /\ truth[s] # "none"
  /\ recorded[s] = "none"
  /\ s = "mint" => recorded["approval"] = "confirmed"
  /\ recorded' = [recorded EXCEPT ![s] = truth[s]]
  /\ UNCHANGED <<issued, truth, published>>

Publish ==
  /\ \A s \in Steps : truth[s] = "confirmed"
  /\ published' = TRUE
  /\ UNCHANGED <<issued, truth, recorded>>

(* A power loss may complete a record and the evidence at one stroke. *)
PublishAndRecord(s) ==
  /\ \A t \in Steps : truth[t] = "confirmed"
  /\ recorded[s] = "none"
  /\ recorded' = [recorded EXCEPT ![s] = truth[s]]
  /\ published' = TRUE
  /\ UNCHANGED <<issued, truth>>

Next ==
  \/ \E a \in Agents, s \in Steps : Issue(a, s)
  \/ \E s \in Steps, o \in Outcomes : Settle(s, o)
  \/ \E s \in Steps : Record(s) \/ PublishAndRecord(s)
  \/ Publish

Spec == Init /\ [][Next]_vars
=============================================================================
