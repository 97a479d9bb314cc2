------------------------------ MODULE LpProps ------------------------------
(***************************************************************************)
(* What must hold of the first-LP runner, its journal and its evidence.    *)
(***************************************************************************)
EXTENDS LpRunner

Terminated(s) == slots[TerminalSlot(s)].st \in {"written", "durable"}

(***************************************************************************)
(* At most one transaction is signed and at most one is sent for each      *)
(* step, whichever processes ran, crashed, were restarted or raced, and    *)
(* whatever a power loss took from the journal.                            *)
(***************************************************************************)
AtMostOnce ==
  \A r1, r2 \in Runs :
    (signed[r1] \cap signed[r2] # {} \/ sent[r1] \cap sent[r2] # {}) => r1 = r2

(***************************************************************************)
(* A signature and a send leave a trail that no crash can take back: the   *)
(* records that announced them, with the same authorization, are durable.  *)
(***************************************************************************)
WriteAhead ==
  \A r \in Runs, s \in Steps : \A k \in Idx :
    /\ (s \in signed[r] /\ k <= SigningSlot(s)) => Durable(k) /\ slots[k].auth = r
    /\ (s \in sent[r] /\ k <= SubmissionSlot(s)) => Durable(k) /\ slots[k].auth = r

(***************************************************************************)
(* The mint is not even signed before the approval is final and succeeded. *)
(***************************************************************************)
MintGated ==
  (\E r \in Runs : "mint" \in signed[r]) => Settled("approval") = "confirmed"

(***************************************************************************)
(* A terminal record states the outcome the chain can no longer change,    *)
(* although one of the two providers may answer anything.                  *)
(***************************************************************************)
TerminalTruth ==
  \A s \in Steps : Terminated(s) => slots[TerminalSlot(s)].receipt.status = Settled(s)

(***************************************************************************)
(* A provider may answer about the block and about the finalized head at   *)
(* two moments with a reorganisation between them.  Even so a terminal     *)
(* record is right as long as the chain has not moved the transaction to a *)
(* later block, and the mint is signed behind such a record of the         *)
(* approval's success.                                                     *)
(***************************************************************************)
Moved(s, rc) == rc.block < chain[s].receipt.block
FinalReceipt(s, rc) == chain[s].at = "final" /\ chain[s].receipt = rc

WrongOnlyIfMoved ==
  /\ \A s \in Steps : Terminated(s) =>
       LET rc == slots[TerminalSlot(s)].receipt IN FinalReceipt(s, rc) \/ Moved(s, rc)
  /\ (\E r \in Runs : "mint" \in signed[r]) => Durable(4) /\ Outcome(4) = "confirmed"

(***************************************************************************)
(* Readable evidence is about two final successes.                         *)
(***************************************************************************)
EvidenceTruth ==
  evidence \in {"written", "durable"} => \A s \in Steps : Settled(s) = "confirmed"

(***************************************************************************)
(* A record that has reached the disk is never changed, also by a power    *)
(* loss and by a recovery that appends.                                    *)
(***************************************************************************)
AppendOnly == [][\A k \in Idx : Durable(k) => slots'[k] = slots[k]]_vars

(***************************************************************************)
(* Once the process that holds the authorization has ended, nothing is     *)
(* signed or sent any more: every later run only reconciles.               *)
(***************************************************************************)
Orphaned == slots[0].st = "durable" /\ pc[slots[0].auth] = "halted"

RestartOnlyReconciles == [][Orphaned => UNCHANGED <<signed, sent>>]_vars

(***************************************************************************)
(* From then on the journal grows only by the outcome of a step that was   *)
(* submitted: a run that ended before its submission blocks every later    *)
(* run for good, and a recovered approval never leads on to the mint       *)
(* (recoverExisting demands a review by hand).                             *)
(***************************************************************************)
Begun(k) == slots[k].st = "absent" /\ slots'[k].st # "absent"

RecoveryOnlyEnds ==
  [][Orphaned => \A k \in Idx : Begun(k) => k \in {4, 8} /\ Visible(k - 1)]_vars

(***************************************************************************)
(* The runner implements the one-shot promise.                             *)
(***************************************************************************)
OneShot == INSTANCE LpOneShot WITH
  Agents <- Runs,
  issued <- {x \in Runs \X Steps : x[2] \in sent[x[1]]},
  truth <- [s \in Steps |-> Settled(s)],
  recorded <- [s \in Steps |-> IF Durable(TerminalSlot(s)) THEN Outcome(TerminalSlot(s)) ELSE "none"],
  published <- evidence = "durable"

ImplementsOneShot == OneShot!Spec
-----------------------------------------------------------------------------
(***************************************************************************)
(* A run that nothing disturbs (no failed check, no crash, no time-out, no *)
(* rival) completes the evidence, or records a reverted transaction, as    *)
(* soon as every transaction it sends becomes final.                       *)
(***************************************************************************)
Undisturbed == (\E r \in Runs : Start(r) \/ Work(r)) \/ (\E s \in Steps : Network(s))

UndisturbedSpec ==
  Init /\ [][Undisturbed]_vars /\ \A r \in Runs : WF_vars(Start(r)) /\ WF_vars(Work(r))

TransactionsFinalize ==
  \A s \in Steps : (\E r \in Runs : s \in sent[r]) ~> (chain[s].at = "final")

Completes ==
  TransactionsFinalize =>
    <>(evidence = "durable" \/ \E s \in Steps : Terminated(s) /\ Settled(s) = "reverted")
=============================================================================
