--------------------------- MODULE AltanaCeremony ---------------------------
(***************************************************************************)
(* The session ceremony, altana-session-ceremony.tsx: the owner grants the *)
(* session key and revokes it, in tabs that share the operation kept in    *)
(* the local storage of the browser and that poll what the worker          *)
(* publishes.  With the worker and the outside it is the whole lifecycle   *)
(* grant, execute, revoke.                                                 *)
(***************************************************************************)
EXTENDS AltanaWorker, FiniteSets

CONSTANTS Tabs,
          MaxAborts  \* how many requests are aborted after the relay accepted them

ASSUME TabsAssumption == Tabs \subseteq Callers /\ Tabs \cap Workers = {}

ASSUME AbortsAssumption == MaxAborts \in Nat

VARIABLES operation,  \* the operation in the local storage
          rendered,   \* the operation a tab shows
          shown,      \* what the worker's state, as a tab shows it, allows
          tab,        \* what a tab is waiting for
          before,     \* the operation a tab had when it began to revoke
          disowned    \* history: the accepted calls whose request was aborted

tabVars == <<operation, rendered, shown, tab, before, disowned>>
vars == <<netVars, workerVars, tabVars>>

(* What is stored: nothing, an operation whose revoke is null, or one with *)
(* a revoke.  Its status and the captured identifiers are only displayed.  *)
Operation == {"none", "grant", "revoke"}

CeremonyTypeOK ==
  /\ operation \in Operation
  /\ rendered \in [Tabs -> Operation]
  /\ shown \in [Tabs -> {"grant", "revoke", "nothing"}]
  /\ tab \in [Tabs -> {"idle", "granting", "granted", "revoking", "revoked"}]
  /\ before \in [Tabs -> Operation]
  /\ disowned \subseteq Nat

TypeOK == NetTypeOK /\ WorkerTypeOK /\ CeremonyTypeOK

Init ==
  /\ NetInit
  /\ WorkerInit
  /\ operation = "none"
  /\ rendered = [t \in Tabs |-> "none"]
  /\ shown = [t \in Tabs |-> "nothing"]
  /\ tab = [t \in Tabs |-> "idle"]
  /\ before = [t \in Tabs |-> "none"]
  /\ disowned = {}

(* altanaTestActionPublicStateSchema: a confirmed execution is shown with  *)
(* its key, a complete lifecycle without.                                  *)
Valid(s) ==
  /\ s.status = "execute_confirmed" => s.present = "yes"
  /\ s.status = "lifecycle_complete" => s.present = "no"

(* What canGrant and canRevoke ask of it. *)
Allows(s) ==
  CASE Valid(s) /\ s = [status |-> "waiting_authority", present |-> "no"] -> "grant"
    [] Valid(s) /\ s.present = "yes" -> "revoke"
    [] OTHER -> "nothing"

(* refreshWorker, every four seconds; the state may not be there to read,  *)
(* for one because the worker is writing it.                               *)
Refresh(t) ==
  /\ \E seen \in {Allows(published), "nothing"} : shown' = [shown EXCEPT ![t] = seen]
  /\ UNCHANGED <<netVars, workerVars, operation, rendered, tab, before, disowned>>

(* The storage event of another tab. *)
Render(t) ==
  /\ rendered' = [rendered EXCEPT ![t] = operation]
  /\ UNCHANGED <<netVars, workerVars, operation, shown, tab, before, disowned>>

(* retainOperation, and the removal of the operation. *)
Retain(t, op) ==
  /\ operation' = op
  /\ rendered' = [rendered EXCEPT ![t] = op]

Forget(t) == before' = [before EXCEPT ![t] = "none"]

Turns(t, from, to) == tab[t] = from /\ tab' = [tab EXCEPT ![t] = to]

Newest(kind, t) == {i \in Of(kind) : calls[i].by = t /\ \A j \in Of(kind) : calls[j].by = t => j <= i}

(* isUserRejection goes by the name of what was thrown, and not by what    *)
(* withRelayCapture has seen: the owner does not confirm and nothing was   *)
(* sent, or the request is aborted although the relay has accepted it, and *)
(* what was captured of the call is dropped.                               *)
UserRejection(t, kind, asking, accepted) ==
  \/ Turns(t, asking, "idle") /\ UNCHANGED disowned
  \/ /\ Turns(t, accepted, "idle")
     /\ Cardinality(disowned) < MaxAborts
     /\ disowned' = disowned \cup Newest(kind, t)

-----------------------------------------------------------------------------
(* grant: the operation is kept before the SDK is called. *)

CanGrant(t) ==
  /\ rendered[t] = "none"
  /\ shown[t] = "grant"

Grant(t) ==
  /\ CanGrant(t)
  /\ Turns(t, "idle", "granting")
  /\ Retain(t, "grant")
  /\ UNCHANGED <<netVars, workerVars, shown, before, disowned>>

(* The operation is removed, and a grant may be offered again. *)
GrantCancelled(t) ==
  /\ UserRejection(t, "grant", "granting", "granted")
  /\ Retain(t, "none")
  /\ UNCHANGED <<netVars, workerVars, shown, before>>

SendGrant(t) ==
  /\ Turns(t, "granting", "granted")
  /\ Accept("grant", t)
  /\ UNCHANGED <<authority, view, workerVars, operation, rendered, shown, before, disowned>>

Landed(kind, c) == \E i \in Of(kind) : calls[i].by = c /\ calls[i].st = "landed"

GrantReturns(t) ==
  /\ Landed("grant", t)
  /\ Turns(t, "granted", "idle")
  /\ Retain(t, "grant")
  /\ UNCHANGED <<netVars, workerVars, shown, before, disowned>>

(* Faulty variant: whatever is thrown ends the operation. *)
ForgetGrant(t) ==
  /\ Turns(t, "granting", "idle") \/ Turns(t, "granted", "idle")
  /\ Retain(t, "none")
  /\ UNCHANGED <<netVars, workerVars, shown, before, disowned>>

GrantThrows(t) ==
  /\ Turns(t, "granting", "idle") \/ Turns(t, "granted", "idle")
  /\ Retain(t, IF operation = "revoke" THEN "revoke" ELSE "grant")
  /\ UNCHANGED <<netVars, workerVars, shown, before, disowned>>

-----------------------------------------------------------------------------
(* revoke *)

CanRevoke(t) ==
  /\ rendered[t] = "grant"
  /\ shown[t] = "revoke"

Revoke(t) ==
  /\ CanRevoke(t)
  /\ Turns(t, "idle", "revoking")
  /\ before' = [before EXCEPT ![t] = rendered[t]]
  /\ Retain(t, "revoke")
  /\ UNCHANGED <<netVars, workerVars, shown, disowned>>

(* The operation is what it was, and a revocation may be offered again. *)
RevokeCancelled(t) ==
  /\ UserRejection(t, "revoke", "revoking", "revoked")
  /\ Retain(t, before[t])
  /\ Forget(t)
  /\ UNCHANGED <<netVars, workerVars, shown>>

SendRevoke(t) ==
  /\ Turns(t, "revoking", "revoked")
  /\ Accept("revoke", t)
  /\ UNCHANGED <<authority, view, workerVars, operation, rendered, shown, before, disowned>>

(* revokeSession returns also when its call has failed or is pending. *)
RevokeReturns(t) ==
  /\ Turns(t, "revoked", "idle")
  /\ Retain(t, "revoke")
  /\ Forget(t)
  /\ UNCHANGED <<netVars, workerVars, shown, disowned>>

RevokeThrows(t) ==
  /\ Turns(t, "revoking", "idle") \/ Turns(t, "revoked", "idle")
  /\ Retain(t, "revoke")
  /\ Forget(t)
  /\ UNCHANGED <<netVars, workerVars, shown, disowned>>

-----------------------------------------------------------------------------
(* The tab is closed and opened again: what it waited for is lost. *)
Reload(t) ==
  /\ tab' = [tab EXCEPT ![t] = "idle"]
  /\ rendered' = [rendered EXCEPT ![t] = operation]
  /\ shown' = [shown EXCEPT ![t] = "nothing"]
  /\ Forget(t)
  /\ UNCHANGED <<netVars, workerVars, operation, disowned>>

Owner(t) ==
  \/ Grant(t) \/ GrantCancelled(t) \/ SendGrant(t) \/ GrantReturns(t) \/ GrantThrows(t)
  \/ Revoke(t) \/ RevokeCancelled(t) \/ SendRevoke(t) \/ RevokeReturns(t) \/ RevokeThrows(t)
  \/ Refresh(t) \/ Render(t) \/ Reload(t)

Next ==
  \/ Outside /\ UNCHANGED <<workerVars, tabVars>>
  \/ WorkerNext /\ UNCHANGED tabVars
  \/ \E t \in Tabs : Owner(t)

Spec == Init /\ [][Next]_vars
=============================================================================
