---------------------------- MODULE PoolOneShot ----------------------------
(***************************************************************************)
(* What the initialization of the pool promises to its owner: whoever      *)
(* acts, one signature is made and one transaction is sent, in this order, *)
(* nothing is sent that was ended on record, and what is recorded of it in *)
(* the end is the outcome it can no longer lose.                           *)
(***************************************************************************)
CONSTANTS Agents  \* whoever may act for the owner

Verdicts == {"confirmed", "reverted"}

VARIABLES signers,   \* the signatures made
          senders,   \* the transactions sent
          ended,     \* the claim was ended before any signature
          truth,     \* the outcome the transaction ended with
          recorded   \* the outcome durably recorded

vars == <<signers, senders, ended, truth, recorded>>

Init ==
  /\ signers = <<>>
  /\ senders = <<>>
  /\ ended = FALSE
  /\ truth = "none"
  /\ recorded = "none"

Sign(a) ==
  /\ signers = <<>> /\ ~ended
  /\ signers' = <<a>>
  /\ UNCHANGED <<senders, ended, truth, recorded>>

GiveUp ==
  /\ signers = <<>>
  /\ ended' = TRUE
  /\ UNCHANGED <<signers, senders, truth, recorded>>

Send(a) ==
  /\ signers # <<>> /\ senders = <<>>
  /\ senders' = <<a>>
  /\ UNCHANGED <<signers, ended, truth, recorded>>

(* The network decides; a success in vain is not an outcome to record.     *)
Settle(o) ==
  /\ senders # <<>> /\ truth = "none"
  /\ truth' = o
  /\ UNCHANGED <<signers, senders, ended, recorded>>

Record ==
  /\ truth \in Verdicts /\ recorded = "none"
  /\ recorded' = truth
  /\ UNCHANGED <<signers, senders, ended, truth>>

Next ==
  \/ \E a \in Agents : Sign(a) \/ Send(a)
  \/ GiveUp
  \/ \E o \in Verdicts \cup {"foreign"} : Settle(o)
  \/ Record

Spec == Init /\ [][Next]_vars
=============================================================================
