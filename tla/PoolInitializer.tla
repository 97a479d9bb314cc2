-------------------------- MODULE PoolInitializer --------------------------
(***************************************************************************)
(* The one-shot initialization of the PTA/WBNB pool: the production runner *)
(* (generation 9, bsc-testnet-pta-wbnb-pool-production-runner) with its    *)
(* composition, signer core, signing worker, submission core and           *)
(* broadcaster, and the runner that sends an existing signature            *)
(* (generation 10), over the three journals and the chain.                 *)
(*                                                                         *)
(* A run is one operating-system process started by the operator.  It may  *)
(* end at any step and be started again; several may be at work at once,   *)
(* since nothing but the exclusive creation of the journal files keeps     *)
(* them apart.  An authorization of the owner lives in one process only    *)
(* and is identified with the run.                                         *)
(***************************************************************************)
EXTENDS PoolJournals, Sequences

CONSTANTS Successors  \* the runs of the release that has generation 10

ASSUME SuccessorsAssumption == Successors \subseteq Runs

VARIABLES pc,       \* where a run stands
          io,       \* how far it is with the file it is creating
          role,     \* what it decided to do on reading the journals
          expired,  \* whether its authorization has expired
          head,     \* the finalized head of its current observation
          seen,     \* the outcome it is about to record
          signed,   \* every signature made, by its run
          sent      \* every send of the transaction, by its run

runVars == <<pc, io, role, expired, head, seen, signed, sent>>
vars == <<tx, finalized, files, runVars>>

Places == {"idle", "dispatch", "probe", "ceremony", "claim", "recheck", "authorize", "give up",
           "start worker", "sign", "commit", "present", "seed", "resume", "prepare", "submit",
           "start", "arm", "send", "head", "receipt", "settle", "halted"}

Authorized == {"initializing", "resuming"}
Roles == Authorized \cup {"none", "reconciling", "reconciling resumed"}

TypeOK ==
  /\ ChainTypeOK
  /\ JournalsTypeOK
  /\ pc \in [Runs -> Places]
  /\ io \in [Runs -> {"none", "create", "write", "sync"}]
  /\ role \in [Runs -> Roles]
  /\ expired \in [Runs -> BOOLEAN]
  /\ head \in [Runs -> 0..MaxHeight]
  /\ seen \in [Runs -> Verdicts \cup {"none"}]
  /\ signed \in Seq(Runs)
  /\ sent \in Seq(Runs)

Init ==
  /\ ChainInit
  /\ JournalsInit
  /\ pc = [r \in Runs |-> "idle"]
  /\ io = [r \in Runs |-> "none"]
  /\ role = [r \in Runs |-> "none"]
  /\ expired = [r \in Runs |-> FALSE]
  /\ head = [r \in Runs |-> 0]
  /\ seen = [r \in Runs |-> "none"]
  /\ signed = <<>>
  /\ sent = <<>>

Goto(r, place) == pc' = [pc EXCEPT ![r] = place]

Move(r, from, to) == pc[r] = from /\ io[r] = "none" /\ Goto(r, to)

TakeRole(r, s) == role' = [role EXCEPT ![r] = s]

Live(r) == pc[r] \notin {"idle", "halted"}

OnSuccessor(r) == role[r] \in {"resuming", "reconciling resumed"}

(* Steps that only look. *)
Unchanged == UNCHANGED <<tx, finalized, files, io, expired, head, seen, signed, sent>>

-----------------------------------------------------------------------------
(* main: the script asks generation 10 first. *)

Start(r) ==
  /\ pc[r] = "idle"
  /\ Goto(r, IF r \in Successors THEN "dispatch" ELSE "probe")
  /\ UNCHANGED role /\ Unchanged

(* The operator starts the command again.  Once a claim is on the disk the *)
(* new process cannot be authorized as an initializer.                     *)
Rerun(r) ==
  /\ pc[r] = "halted"
  /\ Durable("claim")
  /\ Goto(r, IF r \in Successors THEN "dispatch" ELSE "probe")
  /\ TakeRole(r, "none")
  /\ Unchanged

(* Faulty variant: the state of the submission is not compared. *)
PinnedAnyState ==
  /\ SigningStatus = "signed_committed"
  /\ Visible("commit") /\ SameBinding
  /\ \A f \in {"claim", "worker", "started", "signed", "commit"} : Durable(f)
  /\ By("claim") \notin Successors
  /\ (pc[By("claim")] # "halted" => role[By("claim")] \notin Authorized)

(* The hashes of generation 9's records that generation 10 was built for:  *)
(* those of a run of the earlier release, which had ended with a signature *)
(* committed in both journals, on the disk, and nothing submitted.         *)
Pinned ==
  /\ SigningStatus = "signed_committed"
  /\ SubmissionStatus = "signed_committed"
  /\ SameBinding
  /\ \A f \in {"claim", "worker", "started", "signed", "commit"} : Durable(f)
  /\ By("claim") \notin Successors
  /\ (pc[By("claim")] # "halted" => role[By("claim")] \notin Authorized)

(* No state of generation 9: the production runner is entered. *)
NotApplicable(r) ==
  /\ Absent(Signing) /\ Absent(Submission)
  /\ Move(r, "dispatch", "probe")
  /\ UNCHANGED role /\ Unchanged

ResumeFresh(r) ==
  /\ Pinned /\ SuccessorStatus = "empty"
  /\ Move(r, "dispatch", "resume")
  /\ UNCHANGED role /\ Unchanged

ResumeRecovers(r) ==
  /\ Pinned /\ SuccessorStatus = "submission_started"
  /\ Move(r, "dispatch", "head")
  /\ TakeRole(r, "reconciling resumed")
  /\ Unchanged

(* Anything else blocks: another state of generation 9 than the pinned     *)
(* one, a damaged journal of generation 10, or its terminal.               *)
DispatchBlocked(r) ==
  /\ ~(Absent(Signing) /\ Absent(Submission))
  /\ ~(Pinned /\ SuccessorStatus \in {"empty", "submission_started"})
  /\ Move(r, "dispatch", "halted")
  /\ UNCHANGED role /\ Unchanged

-----------------------------------------------------------------------------
(* runProductionOnceFromStdin: read the journals before anything else. *)

ProbeFresh(r) ==
  /\ Absent(Signing) /\ Absent(Submission)
  /\ Move(r, "probe", "ceremony")
  /\ UNCHANGED role /\ Unchanged

(* Faulty variants: a recovery that sends once more, and one that leaves   *)
(* the submission of another process alone.                                *)
ProbeAndResend(r) ==
  /\ SigningStatus = "signed_committed"
  /\ SubmissionStatus = "submission_started"
  /\ SameBinding
  /\ Move(r, "probe", "arm")
  /\ TakeRole(r, "reconciling")
  /\ Unchanged

ProbeOwn(r) ==
  /\ SigningStatus = "signed_committed"
  /\ SubmissionStatus = "submission_started"
  /\ SameBinding /\ By("submission") = r
  /\ Move(r, "probe", "head")
  /\ TakeRole(r, "reconciling")
  /\ Unchanged

(* Only a started submission is reconciled, with a handle that can append  *)
(* the terminal and nothing else.                                          *)
ProbeRecovers(r) ==
  /\ SigningStatus = "signed_committed"
  /\ SubmissionStatus = "submission_started"
  /\ SameBinding
  /\ Move(r, "probe", "head")
  /\ TakeRole(r, "reconciling")
  /\ Unchanged

(* Everything else ends here: mixed or damaged journals, a claim without a *)
(* signature, a signature without a submission, a terminal.                *)
ProbeBlocked(r) ==
  /\ ~(Absent(Signing) /\ Absent(Submission))
  /\ ~(SigningStatus = "signed_committed" /\ SubmissionStatus = "submission_started"
        /\ SameBinding)
  /\ Move(r, "probe", "halted")
  /\ UNCHANGED role /\ Unchanged

(* The owner confirms, custody is unlocked, and the journals are read      *)
(* again at every stage until the composition starts.                      *)
Confirm(r) ==
  /\ Absent(Signing) /\ Absent(Submission)
  /\ Move(r, "ceremony", "claim")
  /\ TakeRole(r, "initializing")
  /\ Unchanged

(* Generation 10: the owner authorizes one send of the existing signature, *)
(* and both generations are read once more.                                *)
ConfirmResume(r) ==
  /\ Pinned /\ SuccessorStatus = "empty"
  /\ Move(r, "resume", "prepare")
  /\ TakeRole(r, "resuming")
  /\ expired' = [expired EXCEPT ![r] = FALSE]
  /\ UNCHANGED <<tx, finalized, files, io, head, seen, signed, sent>>

-----------------------------------------------------------------------------
(* Appending a record.  The file and the record that belong to a place,    *)
(* the state of the journal the append demands, and where the run goes     *)
(* once the record is read back.                                           *)

Target(r) ==
  CASE pc[r] = "claim" -> "claim"
    [] pc[r] \in {"authorize", "give up"} -> "worker"
    [] pc[r] = "start worker" -> "started"
    [] pc[r] = "commit" -> "signed"
    [] pc[r] = "seed" -> "commit"
    [] pc[r] = "start" -> IF OnSuccessor(r) THEN "resume" ELSE "submission"
    [] pc[r] = "settle" -> IF OnSuccessor(r) THEN "settled" ELSE "terminal"

Appending == {"claim", "authorize", "give up", "start worker", "commit", "seed", "start",
              "settle"}

(* The clock is read again for the record: its date may be past the        *)
(* expiry.  Generation 10 does not compare the two.                        *)
Dated(r) == IF expired[r] THEN "late" ELSE "exact"

RecordKind(r) ==
  CASE Target(r) = "worker" -> IF pc[r] = "authorize" THEN "worker_authorized"
                                                       ELSE "failed_before_worker"
    [] Target(r) \in {"commit", "submission"} -> Dated(r)
    [] Target(r) \in {"terminal", "settled"} -> seen[r]
    [] OTHER -> "exact"

Demands(r) ==
  LET f == Target(r) IN
  CASE f = "claim" -> SigningStatus = "empty" /\ Absent(Submission) /\ ~expired[r]
    [] f = "worker" -> SigningStatus = "claimed" /\ By("claim") = r
    [] f = "started" -> SigningStatus = "worker_authorized" /\ By("claim") = r /\ ~expired[r]
    [] f = "signed" -> SigningStatus = "worker_started" /\ By("claim") = r
    [] f = "commit" -> SubmissionStatus = "empty"
    [] f = "submission" -> SubmissionStatus = "signed_committed" /\ By("commit") = r
    [] f = "resume" -> SuccessorStatus = "empty"
    [] f = "terminal" -> SubmissionStatus = "submission_started"
    [] f = "settled" -> SuccessorStatus = "submission_started"

(* A terminal binds the authorization of the submission it ends. *)
Binds(r) ==
  CASE Target(r) = "terminal" -> By("submission")
    [] Target(r) = "settled" -> By("resume")
    [] OTHER -> r

(* The journal is read and its state checked, and then the file created    *)
(* exclusively: another run may get between the two.                       *)
Check(r) ==
  /\ pc[r] \in Appending /\ io[r] = "none"
  /\ Demands(r)
  /\ io' = [io EXCEPT ![r] = "create"]
  /\ UNCHANGED <<tx, finalized, files, pc, role, expired, head, seen, signed, sent>>

Create(r) ==
  /\ io[r] = "create"
  /\ CreateFile(Target(r), Binds(r), RecordKind(r))
  /\ io' = [io EXCEPT ![r] = "write"]
  /\ UNCHANGED <<tx, finalized, pc, role, expired, head, seen, signed, sent>>

(* The journal has moved on, or the file exists: the operation throws.     *)
Refuse(r) ==
  /\ pc[r] \in Appending
  /\ \/ io[r] = "none" /\ ~Demands(r)
     \/ io[r] = "create" /\ files[Target(r)].st # "absent"
  /\ Goto(r, "halted")
  /\ io' = [io EXCEPT ![r] = "none"]
  /\ UNCHANGED <<tx, finalized, files, role, expired, head, seen, signed, sent>>

Write(r) ==
  /\ io[r] = "write"
  /\ WriteFile(Target(r))
  /\ io' = [io EXCEPT ![r] = "sync"]
  /\ UNCHANGED <<tx, finalized, pc, role, expired, head, seen, signed, sent>>

(* Faulty variant: signing although the claim was ended. *)
SignAnyway(r) ==
  CASE pc[r] = "claim" -> "recheck"
    [] pc[r] = "authorize" -> "start worker"
    [] pc[r] \in {"start worker", "give up"} -> "sign"
    [] pc[r] = "commit" -> "present"
    [] pc[r] = "seed" -> IF files["commit"].kind = "exact" THEN "submit" ELSE "halted"
    [] pc[r] = "start" -> IF files[Target(r)].kind = "exact" THEN "arm" ELSE "halted"
    [] pc[r] = "settle" -> "halted"

AfterRecord(r) ==
  CASE pc[r] = "claim" -> "recheck"
    [] pc[r] = "authorize" -> "start worker"
    [] pc[r] = "start worker" -> "sign"
    [] pc[r] = "commit" -> "present"
    [] pc[r] = "seed" -> IF files["commit"].kind = "exact" THEN "submit" ELSE "halted"
    [] pc[r] = "start" -> IF files[Target(r)].kind = "exact" THEN "arm" ELSE "halted"
    [] pc[r] \in {"give up", "settle"} -> "halted"

Sync(r) ==
  /\ io[r] = "sync"
  /\ SyncFile(Target(r))
  /\ io' = [io EXCEPT ![r] = "none"]
  /\ Goto(r, AfterRecord(r))
  /\ UNCHANGED <<tx, finalized, role, expired, head, seen, signed, sent>>

-----------------------------------------------------------------------------
(* signOnce, and the signing worker. *)

(* The post-claim recheck on both providers, and the two clocks after it. *)
RecheckPasses(r) ==
  /\ ~expired[r]
  /\ Ready
  /\ Move(r, "recheck", "authorize")
  /\ UNCHANGED role /\ Unchanged

(* It may be refused or fail for any reason: the claim is ended on record. *)
RecheckFails(r) ==
  /\ Move(r, "recheck", "give up")
  /\ UNCHANGED role /\ Unchanged

(* The deadline is checked once more after the durable start. *)
Sign(r) ==
  /\ ~expired[r]
  /\ Move(r, "sign", "commit")
  /\ signed' = Append(signed, r)
  /\ UNCHANGED <<tx, finalized, files, io, role, expired, head, seen, sent>>

(* The signed commit is read back, and the providers are asked again. *)
Present(r) ==
  /\ ~expired[r]
  /\ Ready
  /\ Move(r, "present", "seed")
  /\ UNCHANGED role /\ Unchanged

(* Generation 10: the same question for the existing signature. *)
Prepare(r) ==
  /\ ~expired[r]
  /\ Ready
  /\ Move(r, "prepare", "submit")
  /\ UNCHANGED role /\ Unchanged

-----------------------------------------------------------------------------
(* submitAndReconcileOnce: submission_started, a last look at the clock,   *)
(* the journal and both providers, and one send.                           *)

Submit(r) ==
  /\ ~expired[r]
  /\ Move(r, "submit", "start")
  /\ UNCHANGED role /\ Unchanged

Arm(r) ==
  /\ ~expired[r]
  /\ Ready
  /\ IF OnSuccessor(r) THEN SuccessorStatus = "submission_started"
                       ELSE SubmissionStatus = "submission_started"
  /\ Move(r, "arm", "send")
  /\ UNCHANGED role /\ Unchanged

Send(r) ==
  /\ ~expired[r]
  /\ Move(r, "send", "head")
  /\ sent' = Append(sent, r)
  /\ Broadcast
  /\ UNCHANGED <<finalized, files, io, role, expired, head, seen, signed>>

(* The sender refuses or the transport fails before anything is sent: the  *)
(* core goes on to reconcile as after a send.                              *)
SendThrows(r) ==
  /\ Move(r, "send", "head")
  /\ UNCHANGED role /\ Unchanged

(* reconcileFromDurableStartedState: the finalized heads are read first.   *)
ReadHead(r) ==
  /\ Move(r, "head", "receipt")
  /\ \E h \in Heads : head' = [head EXCEPT ![r] = h]
  /\ UNCHANGED <<tx, finalized, files, io, role, expired, seen, signed, sent>>

Reconciled(r) ==
  /\ Move(r, "receipt", "settle")
  /\ \E o \in Verdicts : Attested(head[r], o) /\ seen' = [seen EXCEPT ![r] = o]
  /\ UNCHANGED <<tx, finalized, files, io, role, expired, head, signed, sent>>

(* Pending, or evidence that will never be accepted: the command ends. *)
Unreconciled(r) ==
  /\ Move(r, "receipt", "halted")
  /\ ~(tx.at = "mined" /\ tx.block + Depth <= head[r] /\ tx.status \in Verdicts)
  /\ UNCHANGED role /\ Unchanged

-----------------------------------------------------------------------------
(* The environment. *)

(* Any failed check, refused append, exception or crash ends the run. *)
Fail(r) ==
  /\ Live(r)
  /\ Goto(r, "halted")
  /\ io' = [io EXCEPT ![r] = "none"]
  /\ UNCHANGED <<tx, finalized, files, role, expired, head, seen, signed, sent>>

(* The authorization expires, at any moment. *)
Expire(r) ==
  /\ role[r] \in Authorized /\ Live(r)
  /\ ~expired[r]
  /\ expired' = [expired EXCEPT ![r] = TRUE]
  /\ UNCHANGED <<tx, finalized, files, pc, io, role, head, seen, signed, sent>>

PowerLoss ==
  /\ pc' = [r \in Runs |-> IF Live(r) THEN "halted" ELSE pc[r]]
  /\ io' = [r \in Runs |-> "none"]
  /\ LoseUnsynced
  /\ UNCHANGED <<tx, finalized, role, expired, head, seen, signed, sent>>

Decide(r) ==
  \/ NotApplicable(r) \/ ResumeFresh(r) \/ ResumeRecovers(r) \/ DispatchBlocked(r)
  \/ ProbeFresh(r) \/ ProbeRecovers(r) \/ ProbeBlocked(r)
  \/ Confirm(r) \/ ConfirmResume(r)

Journal(r) == Check(r) \/ Create(r) \/ Refuse(r) \/ Write(r) \/ Sync(r)

Act(r) ==
  \/ RecheckPasses(r) \/ Sign(r) \/ Present(r) \/ Prepare(r)
  \/ Submit(r) \/ Arm(r) \/ Send(r)

Reconcile(r) == ReadHead(r) \/ Reconciled(r) \/ Unreconciled(r)

Step(r) == Decide(r) \/ Journal(r) \/ Act(r) \/ Reconcile(r)

Next ==
  \/ \E r \in Runs : Start(r) \/ Rerun(r) \/ Step(r) \/ RecheckFails(r) \/ SendThrows(r)
                       \/ Fail(r) \/ Expire(r)
  \/ Network /\ UNCHANGED <<files, runVars>>
  \/ PowerLoss

Spec == Init /\ [][Next]_vars
=============================================================================
