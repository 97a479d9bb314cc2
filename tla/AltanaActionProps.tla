------------------------- MODULE AltanaActionProps -------------------------
(***************************************************************************)
(* What the test action promises, and the fairness under which it ends.    *)
(***************************************************************************)
EXTENDS AltanaCeremony

(* The one action is sent at most once, by however many workers, restarts  *)
(* and lost answers (submitExecute).                                       *)
SubmitsOnce == \A i, j \in Of("execute") : i = j

Executed(st) == Exists("submission") /\ calls[Pursued].kind = "execute" /\ calls[Pursued].st = st

(* What the worker publishes is what happened: a confirmed execution has   *)
(* its receipt and landed, a complete lifecycle also left no authority     *)
(* behind, a failed one failed, and the one followed is the one sent       *)
(* (runWorker, observeAuthority, confirmedReceipt).                        *)
True(status) ==
  CASE status = "execute_confirmed" -> Written("receipt") /\ Executed("landed")
    [] status = "lifecycle_complete" ->
         Written("receipt") /\ Executed("landed") /\ authority = "gone"
    [] status = "execute_failed" -> Executed("failed")
    [] status = "execute_pending" -> \E st \in {"pending", "landed", "failed"} : Executed(st)
    [] OTHER -> TRUE

PublishedTruth == True(published.status)

(* With one tab, over lost answers, thrown errors and reloads, the         *)
(* operation in the local storage accounts for every grant and revocation  *)
(* the relay accepted: another one is sent only if the request of each     *)
(* earlier one was aborted, and only calls whose request was aborted are   *)
(* missing from what is stored (grant, revoke, readBrowserOperation).      *)
CeremonyFence ==
  (\E t \in Tabs : Tabs = {t}) =>
    /\ \A kind \in {"grant", "revoke"} : \A i, j \in Of(kind) : i < j => i \in disowned
    /\ operation = "none" => Of("grant") \cup Of("revoke") \subseteq disowned
    /\ operation = "grant" => Of("revoke") \subseteq disowned

(* Workers, tabs and endpoints together implement the promise of one       *)
(* action behind one key.                                                  *)
Action == IF Of("execute") = {} THEN "none" ELSE calls[CHOOSE i \in Of("execute") : TRUE].st

Said ==
  IF published.status \in {"execute_pending", "execute_confirmed", "execute_failed",
                           "lifecycle_complete"}
  THEN published.status ELSE "nothing"

Lifecycle == INSTANCE AltanaLifecycle WITH
  key <- authority,
  action <- Action,
  report <- Said

ImplementsLifecycle == Lifecycle!Spec

-----------------------------------------------------------------------------
(* PM2 starts the worker again when it ends and it never stops polling;    *)
(* what the network answers is sometimes what there is.                    *)
Answered(w) ==
  \/ ObserveReceipt(w) \/ ObserveSubmission(w) \/ ObserveClaim(w) \/ ObserveKey(w) \/ ObserveNoKey(w)

FairSpec ==
  /\ Spec
  /\ \A p \in Honest : WF_vars(CatchUp(p) /\ UNCHANGED <<workerVars, tabVars>>)
  /\ \A w \in Workers :
       /\ WF_vars((Turn(w) \/ Throw(w)) /\ UNCHANGED tabVars)
       /\ SF_vars(ReadFiles(w) /\ UNCHANGED tabVars)
       /\ SF_vars(Answered(w) /\ UNCHANGED tabVars)
       /\ SF_vars(Receipts(w) /\ UNCHANGED tabVars)
       /\ SF_vars((Receipt(w) \/ WriteReceipt(w)) /\ UNCHANGED tabVars)
       /\ SF_vars(Publish(w) /\ UNCHANGED tabVars)

Torn == \E f \in Names : files[f].st = "torn"

(* An execution that landed and whose key is gone is published as the      *)
(* complete lifecycle, whatever crashes and failed reads came between,     *)
(* unless a crash left a file unfinished (runWorker).                      *)
Completes ==
  (Written("submission") /\ calls[Pursued].st = "landed" /\ authority = "gone")
     ~> (published.status = "lifecycle_complete" \/ Torn)
=============================================================================
