-------------------------- MODULE AltanaLifecycle --------------------------
(***************************************************************************)
(* What the test action promises to the owner of the account: one action,  *)
(* sent only once the session key has been granted, that takes effect only *)
(* while the key is valid; a key that does not come back once it has       *)
(* expired or is gone; and a published state that says no more than what   *)
(* has happened.                                                           *)
(***************************************************************************)
VARIABLES key,     \* the session key
          action,  \* the one action
          report   \* what is published of it

vars == <<key, action, report>>

Reports == {"execute_pending", "execute_confirmed", "execute_failed", "lifecycle_complete"}

Init ==
  /\ key = "none"
  /\ action = "none"
  /\ report = "nothing"

Grant ==
  /\ key = "none"
  /\ key' = "granted"
  /\ UNCHANGED <<action, report>>

Withdraw ==
  /\ \/ key = "granted" /\ key' \in {"expired", "gone"}
     \/ key = "expired" /\ key' = "gone"
  /\ UNCHANGED <<action, report>>

Send ==
  /\ action = "none" /\ key # "none"
  /\ action' = "pending"
  /\ UNCHANGED <<key, report>>

Settle ==
  /\ action = "pending"
  /\ action' \in {"failed"} \cup {st \in {"landed"} : key = "granted"}
  /\ UNCHANGED <<key, report>>

(* What may be said of the action. *)
Justified(word) ==
  CASE word = "execute_pending" -> action # "none"
    [] word = "execute_confirmed" -> action = "landed"
    [] word = "execute_failed" -> action = "failed"
    [] word = "lifecycle_complete" -> action = "landed" /\ key = "gone"
    [] OTHER -> TRUE

Tell(word) ==
  /\ Justified(word)
  /\ report' = word
  /\ UNCHANGED <<key, action>>

Next ==
  \/ Grant \/ Withdraw \/ Send \/ Settle
  \/ \E word \in Reports \cup {"nothing"} : Tell(word)

Spec == Init /\ [][Next]_vars
=============================================================================
