------------------------ MODULE AltanaClaimRegister ------------------------
(***************************************************************************)
(* What the grant-claim store promises to its callers: a claim is recorded *)
(* only while no recorded claim shares one of its unique keys, and every   *)
(* answer a caller gets is true when it is given and stays true.           *)
(***************************************************************************)
CONSTANTS Requests,  \* calls of claimSubmission
          Claims,    \* what a call may ask for
          Keys,      \* the values of the four unique columns
          KeysOf,    \* the keys of each claim
          NoClaim    \* before a call has asked

VARIABLES asked,   \* the claim of each call, none before it
          rows,    \* the calls whose claim is recorded
          answer   \* what each call was told

(* not_attempted, rolled_back and conflict deny the write, unknown does not. *)
Denials == {"not_attempted", "rolled_back", "conflict"}
Answers == {"claimed", "already_claimed", "unknown"} \cup Denials

Clash(r, q) == KeysOf[asked[r]] \cap KeysOf[asked[q]] # {}

Init ==
  /\ asked = [r \in Requests |-> NoClaim]
  /\ rows = {}
  /\ answer = [r \in Requests |-> "none"]

Ask(r, c) ==
  /\ asked[r] = NoClaim
  /\ asked' = [asked EXCEPT ![r] = c]
  /\ UNCHANGED <<rows, answer>>

(* A caller told nothing, or that nothing is known, may still be recorded. *)
Record(r) ==
  /\ asked[r] # NoClaim
  /\ answer[r] \in {"none", "unknown"}
  /\ \A q \in rows : ~Clash(r, q)
  /\ rows' = rows \cup {r}
  /\ UNCHANGED <<asked, answer>>

True(r, a) ==
  /\ a = "claimed" => r \in rows
  /\ a = "already_claimed" => r \notin rows /\ \E q \in rows : asked[q] = asked[r]
  /\ a = "conflict" => \E q \in rows : Clash(r, q)
  /\ a \in Denials => r \notin rows

Answer(r, a) ==
  /\ asked[r] # NoClaim
  /\ answer[r] = "none"
  /\ True(r, a)
  /\ answer' = [answer EXCEPT ![r] = a]
  /\ UNCHANGED <<asked, rows>>

Next ==
  \E r \in Requests :
    \/ Record(r)
    \/ \E c \in Claims : Ask(r, c)
    \/ \E a \in Answers : Answer(r, a)

vars == <<asked, rows, answer>>

Spec == Init /\ [][Next]_vars
=============================================================================
