----------------------------- MODULE PoolProofs -----------------------------
(***************************************************************************)
(* Proofs about the pool initializer, for any runs of the two releases,    *)
(* any depth of the checkpoint and any pair of providers of which one is   *)
(* honest.                                                                 *)
(***************************************************************************)
EXTENDS PoolInv, TLAPS

-----------------------------------------------------------------------------
(* What reading a journal tells about its files.                           *)

LEMMA AbsentFiles ==
  /\ Absent(Signing) <=> \A f \in {"claim", "worker", "started", "signed"} : ~Made(f)
  /\ Absent(Submission) <=> \A f \in {"commit", "submission", "terminal"} : ~Made(f)
  /\ Absent(Successor) <=> ~Made("resume") /\ ~Made("settled")
BY DEF Absent, Signing, Submission, Successor, Made

LEMMA SigningRead ==
  ASSUME JournalsTypeOK
  PROVE  /\ SigningStatus = "empty" => Absent(Signing)
         /\ SigningStatus = "claimed" => Holds(Signing, 1)
         /\ SigningStatus = "worker_authorized" =>
              Holds(Signing, 2) /\ files["worker"].kind = "worker_authorized"
         /\ SigningStatus = "worker_started" => Holds(Signing, 3)
         /\ SigningStatus = "signed_committed" => Holds(Signing, 4)
<1>1. files["worker"].kind \in Kinds
  BY DEF JournalsTypeOK, File, Names
<1>2. files["worker"].kind \notin {"empty", "claimed", "worker_started", "signed_committed"}
  BY <1>1 DEF Kinds, Verdicts
<1> DEFINE k == files["worker"].kind
           a == Absent(Signing)
           h1 == Holds(Signing, 1)
           h2 == Holds(Signing, 2)
           h3 == Holds(Signing, 3) /\ k = "worker_authorized"
           h4 == Holds(Signing, 4) /\ k = "worker_authorized"
<1>3. SigningStatus = CASE a -> "empty" [] h1 -> "claimed" [] h2 -> k [] h3 -> "worker_started"
                        [] h4 -> "signed_committed" [] OTHER -> "unknown_outcome"
  BY DEF SigningStatus
<1>4. h3 => Holds(Signing, 3)
  OBVIOUS
<1>5. h4 => Holds(Signing, 4)
  OBVIOUS
<1> HIDE DEF a, h1, h2, h3, h4
<1>6. /\ SigningStatus = "empty" => a
      /\ SigningStatus = "claimed" => h1
      /\ SigningStatus = "worker_authorized" => h2 /\ k = "worker_authorized"
      /\ SigningStatus = "worker_started" => h3
      /\ SigningStatus = "signed_committed" => h4
  BY <1>2, <1>3
<1> QED
  BY <1>4, <1>5, <1>6 DEF a, h1, h2

LEMMA SigningFiles ==
  ASSUME JournalsTypeOK
  PROVE  /\ Holds(Signing, 1) => Visible("claim") /\ ~Made("worker")
         /\ Holds(Signing, 2) => Visible("worker") /\ By("worker") = By("claim") /\ ~Made("started")
         /\ Holds(Signing, 3) => Visible("started") /\ By("started") = By("claim") /\ ~Made("signed")
         /\ Holds(Signing, 4) =>
              /\ Visible("claim") /\ Visible("worker") /\ Visible("started") /\ Visible("signed")
              /\ By("worker") = By("claim") /\ By("started") = By("claim")
              /\ By("signed") = By("claim")
BY DEF Holds, Signing, Visible, Made, By

LEMMA SubmissionRead ==
  ASSUME JournalsTypeOK
  PROVE  /\ SubmissionStatus = "empty" => Absent(Submission)
         /\ SubmissionStatus = "signed_committed" =>
              Visible("commit") /\ ~Made("submission") /\ ~Made("terminal")
         /\ SubmissionStatus = "submission_started" =>
              /\ Visible("submission") /\ ~Made("terminal")
              /\ files["submission"].kind = "exact"
              /\ By("submission") = By("commit")
<1>1. files["terminal"].kind \in Kinds
  BY DEF JournalsTypeOK, File, Names
<1>2. files["terminal"].kind \notin {"empty", "signed_committed", "submission_started"}
  BY <1>1 DEF Kinds, Verdicts
<1> DEFINE k == files["terminal"].kind
           a == Absent(Submission)
           h1 == Holds(Submission, 1) /\ files["commit"].kind = "exact"
           h2 == Holds(Submission, 2) /\ files["submission"].kind = "exact"
           h3 == Holds(Submission, 3) /\ files["submission"].kind = "exact"
<1>3. SubmissionStatus = CASE a -> "empty" [] h1 -> "signed_committed"
                           [] h2 -> "submission_started" [] h3 -> k
                           [] OTHER -> "unknown_outcome"
  BY DEF SubmissionStatus
<1>4. h1 => Visible("commit") /\ ~Made("submission") /\ ~Made("terminal")
  BY DEF Holds, Submission, Visible, Made, By
<1>5. h2 => /\ Visible("submission") /\ ~Made("terminal")
            /\ files["submission"].kind = "exact"
            /\ By("submission") = By("commit")
  BY DEF Holds, Submission, Visible, Made, By
<1> HIDE DEF a, h1, h2, h3
<1>6. /\ SubmissionStatus = "empty" => a
      /\ SubmissionStatus = "signed_committed" => h1
      /\ SubmissionStatus = "submission_started" => h2
  BY <1>2, <1>3
<1> QED
  BY <1>4, <1>5, <1>6 DEF a

LEMMA SuccessorRead ==
  ASSUME JournalsTypeOK
  PROVE  /\ SuccessorStatus = "empty" => ~Made("resume") /\ ~Made("settled")
         /\ SuccessorStatus = "submission_started" => Visible("resume") /\ ~Made("settled")
<1>1. files["settled"].kind \in Kinds
  BY DEF JournalsTypeOK, File, Names
<1>2. files["settled"].kind \notin {"empty", "submission_started"}
  BY <1>1 DEF Kinds, Verdicts
<1> DEFINE k == files["settled"].kind
           a == Absent(Successor)
           h1 == Holds(Successor, 1)
           h2 == Holds(Successor, 2)
<1>3. SuccessorStatus = CASE a -> "empty" [] h1 -> "submission_started" [] h2 -> k
                          [] OTHER -> "unknown_outcome"
  BY DEF SuccessorStatus
<1>4. h1 => Visible("resume") /\ ~Made("settled")
  BY DEF Holds, Successor, Visible, Made, By
<1> HIDE DEF a, h1, h2
<1>5. /\ SuccessorStatus = "empty" => a
      /\ SuccessorStatus = "submission_started" => h1
  BY <1>2, <1>3
<1> QED
  BY <1>4, <1>5, AbsentFiles DEF a

-----------------------------------------------------------------------------
(* Type correctness.                                                       *)

(* A run has a file open only where it appends one. *)
Appends == \A r \in Runs : io[r] # "none" => pc[r] \in Appending

LEMMA InitType == Init => TypeOK /\ Appends
<1> SUFFICES ASSUME Init PROVE TypeOK /\ Appends
  OBVIOUS
<1>1. ChainTypeOK
  BY HeightAssumption DEF Init, ChainInit, ChainTypeOK, Transaction, Unmined, Statuses
<1>2. JournalsTypeOK
  BY DEF Init, JournalsInit, JournalsTypeOK, File, NoFile, FileState, Kinds
<1> QED
  BY <1>1, <1>2, HeightAssumption DEF Init, TypeOK, Appends, Places, Roles

LEMMA ChainStepType ==
  ASSUME ChainTypeOK, Network \/ (Broadcast /\ UNCHANGED finalized)
  PROVE  ChainTypeOK'
<1> USE HeightAssumption DEF ChainTypeOK, Transaction, Statuses
<1>1. CASE Include
  BY <1>1 DEF Include
<1>2. CASE Reorg
  BY <1>2 DEF Reorg, Unmined
<1>3. CASE Finalize
  BY <1>3 DEF Finalize
<1>4. CASE Broadcast /\ UNCHANGED finalized
  BY <1>4 DEF Broadcast
<1> QED
  BY <1>1, <1>2, <1>3, <1>4 DEF Network

LEMMA FileStepType ==
  ASSUME JournalsTypeOK, NEW f
  PROVE  /\ \A a \in Runs \cup {NoRun}, k \in Kinds : CreateFile(f, a, k) => JournalsTypeOK'
         /\ WriteFile(f) => JournalsTypeOK'
         /\ SyncFile(f) => JournalsTypeOK'
BY DEF JournalsTypeOK, File, FileState, CreateFile, WriteFile, SyncFile

LEMMA PowerLossFiles ==
  ASSUME JournalsTypeOK, LoseUnsynced
  PROVE  /\ JournalsTypeOK'
         /\ \A f \in Names :
              /\ Durable(f) => files'[f] = files[f]
              /\ ~Made(f) => ~Made(f)'
              /\ Made(f)' => /\ files'[f].by = files[f].by
                             /\ files'[f].kind = files[f].kind
              /\ Visible(f)' => Durable(f)' /\ Visible(f)
<1>1. PICK gone \in SUBSET Unsynced, torn \in SUBSET Unsynced :
        files' = [f \in Names |-> Remains(f, gone, torn)]
  BY DEF LoseUnsynced
<1>2. ASSUME NEW f \in Names
      PROVE  /\ files'[f] \in File
             /\ Durable(f) => files'[f] = files[f]
             /\ ~Made(f) => ~Made(f)'
             /\ Made(f)' => /\ files'[f].by = files[f].by
                            /\ files'[f].kind = files[f].kind
             /\ Visible(f)' => Durable(f)' /\ Visible(f)
  <2>1. files[f] \in File /\ NoFile \in File
    BY DEF JournalsTypeOK, File, NoFile, FileState, Kinds
  <2>2. files'[f] = Remains(f, gone, torn)
    BY <1>1
  <2>3. CASE f \in gone
    <3>1. files'[f] = NoFile /\ f \in Unsynced
      BY <2>2, <2>3 DEF Remains
    <3> QED
      BY <2>1, <3>1 DEF Unsynced, NoFile, Durable, Made, Visible, Names
  <2>4. CASE f \notin gone /\ f \in torn
    <3>1. files'[f] = [files[f] EXCEPT !.st = "torn"] /\ f \in Unsynced
      BY <2>2, <2>4 DEF Remains
    <3> QED
      BY <2>1, <3>1 DEF Unsynced, File, FileState, Durable, Made, Visible
  <2>5. CASE f \notin gone /\ f \notin torn
    <3>1. files'[f] = IF Visible(f) THEN [files[f] EXCEPT !.st = "durable"] ELSE files[f]
      BY <2>2, <2>5 DEF Remains
    <3> QED
      BY <2>1, <3>1 DEF File, FileState, Durable, Made, Visible
  <2> QED
    BY <2>3, <2>4, <2>5
<1>3. files' \in [Names -> File]
  BY <1>1, <1>2
<1> QED
  BY <1>2, <1>3 DEF JournalsTypeOK

LEMMA TargetType ==
  ASSUME TypeOK, NEW r \in Runs, pc[r] \in Appending
  PROVE  /\ Target(r) \in Names
         /\ Binds(r) \in Runs \cup {NoRun}
         /\ RecordKind(r) \in Kinds
         /\ AfterRecord(r) \in Places
<1>1. Target(r) \in Names
  BY DEF Appending, Target, Names
<1>2. Binds(r) \in Runs \cup {NoRun}
  BY DEF Binds, By, TypeOK, JournalsTypeOK, File, Names
<1>3. RecordKind(r) \in Kinds
  BY DEF RecordKind, Dated, TypeOK, Kinds
<1>4. AfterRecord(r) \in Places
  BY DEF AfterRecord, Appending, Places
<1> QED
  BY <1>1, <1>2, <1>3, <1>4

(* The steps of a run that only look: the files, the chain and what was    *)
(* signed and sent stay as they are, and no file is open before or after.  *)
Looks(r) ==
  \/ Start(r) \/ Rerun(r) \/ Decide(r)
  \/ RecheckPasses(r) \/ RecheckFails(r) \/ Present(r) \/ Prepare(r)
  \/ Submit(r) \/ Arm(r) \/ SendThrows(r)
  \/ Reconcile(r)

LEMMA NextCases ==
  ASSUME Next
  PROVE  \/ \E r \in Runs :
              \/ Looks(r) \/ Sign(r) \/ Send(r) \/ Fail(r) \/ Expire(r)
              \/ Check(r) \/ Create(r) \/ Refuse(r) \/ Write(r) \/ Sync(r)
         \/ Network /\ UNCHANGED <<files, runVars>>
         \/ PowerLoss
BY DEF Next, Step, Journal, Act, Looks

LEMMA HeadsType ==
  ASSUME ChainTypeOK
  PROVE  \A h \in Heads : h \in 0..MaxHeight
BY HeightAssumption DEF Heads, ChainTypeOK

LEMMA AppendType ==
  ASSUME NEW s \in Seq(Runs), NEW r \in Runs
  PROVE  /\ Append(s, r) \in Seq(Runs)
         /\ Append(s, r) # <<>>
         /\ s = <<>> => Append(s, r) = <<r>>
<1>1. Append(<<>>, r) = <<r>>
  OBVIOUS
<1>2. Append(s, r) \in Seq(Runs) /\ Len(Append(s, r)) = Len(s) + 1
  OBVIOUS
<1>3. Append(s, r) # <<>>
  BY <1>2, Len(<<>>) = 0, Len(s) \in Nat
<1> QED
  BY <1>1, <1>2, <1>3

LEMMA LookType ==
  ASSUME TypeOK, Appends, NEW r \in Runs, Looks(r)
  PROVE  TypeOK' /\ Appends'
<1> USE DEF TypeOK, Appends, Places, Roles, Authorized, Appending
<1>1. CASE Start(r)
  BY <1>1 DEF Start, Goto, Unchanged, ChainTypeOK, JournalsTypeOK
<1>2. CASE Rerun(r)
  BY <1>2 DEF Rerun, Goto, TakeRole, Unchanged, ChainTypeOK, JournalsTypeOK
<1>3. CASE Decide(r)
  <2> USE DEF Move, Goto, TakeRole, Unchanged, ChainTypeOK, JournalsTypeOK
  <2>1. CASE NotApplicable(r) \/ ResumeFresh(r) \/ DispatchBlocked(r)
    BY <2>1 DEF NotApplicable, ResumeFresh, DispatchBlocked
  <2>2. CASE ResumeRecovers(r) \/ ProbeRecovers(r)
    BY <2>2 DEF ResumeRecovers, ProbeRecovers
  <2>3. CASE ProbeFresh(r) \/ ProbeBlocked(r)
    BY <2>3 DEF ProbeFresh, ProbeBlocked
  <2>4. CASE Confirm(r)
    BY <2>4 DEF Confirm
  <2>5. CASE ConfirmResume(r)
    BY <2>5 DEF ConfirmResume
  <2> QED
    BY <1>3, <2>1, <2>2, <2>3, <2>4, <2>5 DEF Decide
<1>4. CASE RecheckPasses(r) \/ RecheckFails(r) \/ Present(r) \/ Prepare(r)
  BY <1>4 DEF RecheckPasses, RecheckFails, Present, Prepare, Move, Goto, Unchanged,
              ChainTypeOK, JournalsTypeOK
<1>5. CASE Submit(r) \/ Arm(r) \/ SendThrows(r)
  BY <1>5 DEF Submit, Arm, SendThrows, Move, Goto, Unchanged, ChainTypeOK, JournalsTypeOK
<1>6. CASE Reconcile(r)
  <2> USE DEF Move, Goto, Unchanged, ChainTypeOK, JournalsTypeOK
  <2>1. CASE ReadHead(r)
    BY <2>1, HeadsType DEF ReadHead
  <2>2. CASE Reconciled(r)
    BY <2>2 DEF Reconciled
  <2>3. CASE Unreconciled(r)
    BY <2>3 DEF Unreconciled
  <2> QED
    BY <1>6, <2>1, <2>2, <2>3 DEF Reconcile
<1> QED
  BY <1>1, <1>2, <1>3, <1>4, <1>5, <1>6 DEF Looks

LEMMA TypeStep ==
  ASSUME TypeOK, Appends, [Next]_vars
  PROVE  TypeOK' /\ Appends'
<1>1. CASE UNCHANGED vars
  BY <1>1 DEF vars, runVars, TypeOK, Appends, ChainTypeOK, JournalsTypeOK
<1>2. ASSUME NEW r \in Runs, Looks(r) PROVE TypeOK' /\ Appends'
  BY <1>2, LookType
<1>3. ASSUME NEW r \in Runs, Check(r) \/ Refuse(r) \/ Fail(r) \/ Expire(r)
      PROVE  TypeOK' /\ Appends'
  BY <1>3 DEF Check, Refuse, Fail, Expire, Goto, TypeOK, Appends, ChainTypeOK, JournalsTypeOK,
              Places, Live
<1>4. ASSUME NEW r \in Runs, Create(r) \/ Write(r) PROVE TypeOK' /\ Appends'
  <2>1. pc[r] \in Appending
    BY <1>4 DEF Create, Write, Appends
  <2>2. JournalsTypeOK'
    BY <1>4, <2>1, TargetType, FileStepType DEF Create, Write, TypeOK
  <2> QED
    BY <1>4, <2>1, <2>2 DEF Create, Write, TypeOK, Appends, ChainTypeOK
<1>5. ASSUME NEW r \in Runs, Sync(r) PROVE TypeOK' /\ Appends'
  <2>1. pc[r] \in Appending
    BY <1>5 DEF Sync, Appends
  <2>2. JournalsTypeOK' /\ AfterRecord(r) \in Places
    BY <1>5, <2>1, TargetType, FileStepType DEF Sync, TypeOK
  <2> QED
    BY <1>5, <2>1, <2>2 DEF Sync, Goto, TypeOK, Appends, ChainTypeOK
<1>6. ASSUME NEW r \in Runs, Sign(r) PROVE TypeOK' /\ Appends'
  <2>1. signed' \in Seq(Runs)
    BY <1>6, AppendType DEF Sign, TypeOK
  <2> QED
    BY <1>6, <2>1 DEF Sign, Move, Goto, TypeOK, Appends, ChainTypeOK, JournalsTypeOK, Places,
                      Appending
<1>7. ASSUME NEW r \in Runs, Send(r) PROVE TypeOK' /\ Appends'
  <2>1. ChainTypeOK'
    BY <1>7, ChainStepType DEF Send, TypeOK
  <2>2. sent' \in Seq(Runs)
    BY <1>7, AppendType DEF Send, TypeOK
  <2> QED
    BY <1>7, <2>1, <2>2 DEF Send, Move, Goto, TypeOK, Appends, JournalsTypeOK, Places, Appending
<1>8. CASE Network /\ UNCHANGED <<files, runVars>>
  <2>1. ChainTypeOK'
    BY <1>8, ChainStepType DEF TypeOK
  <2> QED
    BY <1>8, <2>1 DEF runVars, TypeOK, Appends, JournalsTypeOK
<1>9. CASE PowerLoss
  <2>1. JournalsTypeOK'
    BY <1>9, PowerLossFiles DEF PowerLoss, TypeOK
  <2> QED
    BY <1>9, <2>1 DEF PowerLoss, TypeOK, Appends, ChainTypeOK, Places, Live
<1> QED
  BY <1>1, <1>2, <1>3, <1>4, <1>5, <1>6, <1>7, <1>8, <1>9, NextCases

(***************************************************************************)
(* Type correctness of the initializer, its journals and the chain, for    *)
(* any number of runs (PoolInitializer!TypeOK).                            *)
(***************************************************************************)
THEOREM PoolTypeOK == Spec => []TypeOK
<1>1. Init => TypeOK /\ Appends
  BY InitType
<1>2. TypeOK /\ Appends /\ [Next]_vars => (TypeOK /\ Appends)'
  BY TypeStep
<1> QED
  BY <1>1, <1>2, PTL DEF Spec
-----------------------------------------------------------------------------
(* The steps that only look.                                               *)

Others(r) ==
  \A q \in Runs \ {r} :
    pc'[q] = pc[q] /\ io'[q] = io[q] /\ role'[q] = role[q] /\ head'[q] = head[q] /\ seen'[q] = seen[q]

(* What a look of a run leaves, besides its own part of the invariant.     *)
Looked(r) ==
  /\ UNCHANGED <<tx, finalized, files, io, signed, sent>>
  /\ io[r] = "none"
  /\ pc'[r] # "sign"
  /\ pc'[r] \in ToSend => pc[r] \in ToSend
  /\ Others(r)

Entered(r) ==
  /\ Resuming(r)' => Resuming(r) \/ (r \in Successors /\ Pinned /\ SuccessorStatus = "empty")
  /\ Owns(r)' => \/ Owns(r)
                 \/ ~Made("claim")
                 \/ r \in Successors /\ Pinned

LEMMA LadderDown ==
  ASSUME FileInv
  PROVE  /\ Made("worker") => Durable("claim") /\ By("claim") = By("worker")
         /\ Made("started") => Durable("worker") /\ By("worker") = By("started")
         /\ Made("signed") => Durable("started") /\ By("started") = By("signed")
         /\ Made("commit") => Durable("signed") /\ By("signed") = By("commit")
         /\ Made("commit") => Durable("claim") /\ By("claim") = By("commit")
         /\ Made("submission") \/ Made("terminal") => Durable("commit") /\ Durable("claim")
         /\ Made("submission") => By("submission") = By("claim")
BY DEF FileInv, Ladder, Made, Durable, DurableBy, By

LEMMA PinnedFiles ==
  ASSUME TypeOK, Pinned
  PROVE  Stranded
<1>1. ~Made("submission") /\ ~Made("terminal")
  BY SubmissionRead DEF Pinned, TypeOK
<1> QED
  BY <1>1 DEF Pinned, Stranded, Owns

(* Evidence that both providers give is true when one of them is honest.   *)
LEMMA AttestedSettled ==
  ASSUME ChainTypeOK, NEW h \in 0..MaxHeight, h <= finalized, NEW o, Attested(h, o)
  PROVE  Final /\ o = Settled
<1>1. PICK p \in Providers : p \in Honest
  BY FaultyAssumption DEF Honest
<1>2. tx.at = "mined" /\ tx.block + Depth <= h /\ o = tx.status
  BY <1>1 DEF Attested
<1> QED
  BY <1>2, HeightAssumption DEF Final, Settled, ChainTypeOK, Transaction

LEMMA LookLocal ==
  ASSUME TypeOK, Appends, RunInv, FileInv, SignedInv, TruthInv, NEW r \in Runs, Looks(r)
  PROVE  /\ Looked(r) /\ Entered(r)
         /\ Control(r)' /\ Trail(r)' /\ Follows(r)' /\ Observed(r)'
         /\ (role'[r] = "initializing" /\ pc'[r] \in AfterSigned \cup {"commit"}) => signed # <<>>
<1> DEFINE G == /\ Looked(r) /\ Entered(r)
                /\ Control(r)' /\ Trail(r)' /\ Follows(r)' /\ Observed(r)'
                /\ (role'[r] = "initializing" /\ pc'[r] \in AfterSigned \cup {"commit"})
                      => signed # <<>>
<1>0. /\ Control(r) /\ Trail(r) /\ Follows(r) /\ Observed(r)
      /\ (role[r] = "initializing" /\ pc[r] \in AfterSigned \cup {"commit"}) => signed # <<>>
  BY DEF RunInv, SignedInv, TruthInv
<1>a. /\ pc \in [Runs -> Places] /\ role \in [Runs -> Roles] /\ io \in [Runs -> {"none", "create", "write", "sync"}]
      /\ head \in [Runs -> 0..MaxHeight] /\ seen \in [Runs -> Verdicts \cup {"none"}]
      /\ JournalsTypeOK /\ finalized \in 0..MaxHeight
  BY DEF TypeOK, ChainTypeOK
<1> USE <1>a DEF Undecided, AfterCommit, AfterSigned, AfterStarted, AfterWorker, AfterClaim, Looking,
        ToSend, Control, Trail, Follows, Looked, Others, Entered, Resuming, Owns, Observed,
        OnSuccessor, Authorized, Appending, DurableBy, Durable, Visible, By, Settled, Final, Goto
<1>1. CASE Start(r)
  <2>1. io[r] = "none" /\ role[r] = "none"
    BY <1>0, <1>1 DEF Start, Appends
  <2> QED
    BY <1>0, <1>1, <2>1 DEF Start, Unchanged
<1>2. CASE Rerun(r)
  <2>1. io[r] = "none"
    BY <1>0, <1>2 DEF Rerun
  <2> QED
    BY <1>0, <1>2, <2>1 DEF Rerun, TakeRole, Unchanged
<1>3. CASE NotApplicable(r) \/ ResumeFresh(r) \/ DispatchBlocked(r)
  <2>1. CASE NotApplicable(r)
    BY <1>0, <2>1 DEF NotApplicable, Move, Unchanged
  <2>2. CASE ResumeFresh(r)
    BY <1>0, <2>2 DEF ResumeFresh, Move, Unchanged
  <2>3. CASE DispatchBlocked(r)
    BY <1>0, <2>3 DEF DispatchBlocked, Move, Unchanged
  <2> QED
    BY <1>3, <2>1, <2>2, <2>3
<1>4. CASE ProbeFresh(r) \/ ProbeBlocked(r)
  <2>1. CASE ProbeFresh(r)
    BY <1>0, <2>1 DEF ProbeFresh, Move, Unchanged
  <2>2. CASE ProbeBlocked(r)
    BY <1>0, <2>2 DEF ProbeBlocked, Move, Unchanged
  <2> QED
    BY <1>4, <2>1, <2>2
<1>5. CASE ResumeRecovers(r)
  <2>1. files["resume"].st \in {"written", "durable"}
    BY <1>5, SuccessorRead DEF ResumeRecovers
  <2> QED
    BY <1>0, <1>5, <2>1 DEF ResumeRecovers, Move, TakeRole, Unchanged
<1>6. CASE ProbeRecovers(r)
  <2>1. files["submission"].st \in {"written", "durable"} /\ files["submission"].kind = "exact"
    BY <1>6, SubmissionRead DEF ProbeRecovers
  <2> QED
    BY <1>0, <1>6, <2>1 DEF ProbeRecovers, Move, TakeRole, Unchanged
<1>7. CASE Confirm(r)
  <2>1. ~Made("claim")
    BY <1>7, AbsentFiles DEF Confirm
  <2> QED
    BY <1>0, <1>7, <2>1 DEF Confirm, Move, TakeRole, Unchanged
<1>8. CASE ConfirmResume(r)
  BY <1>0, <1>8 DEF ConfirmResume, Move, TakeRole
<1>9. CASE RecheckPasses(r) \/ RecheckFails(r)
  BY <1>0, <1>9 DEF RecheckPasses, RecheckFails, Move, Unchanged
<1>10. CASE Present(r) \/ Prepare(r)
  <2>1. CASE Present(r)
    BY <1>0, <2>1 DEF Present, Move, Unchanged
  <2>2. CASE Prepare(r)
    BY <1>0, <2>2 DEF Prepare, Move, Unchanged
  <2> QED
    BY <1>10, <2>1, <2>2
<1>11. CASE Submit(r) \/ Arm(r)
  <2>1. CASE Submit(r)
    BY <1>0, <2>1 DEF Submit, Move, Unchanged
  <2>2. CASE Arm(r)
    BY <1>0, <2>2 DEF Arm, Move, Unchanged
  <2> QED
    BY <1>11, <2>1, <2>2
<1>12. CASE SendThrows(r)
  BY <1>0, <1>12 DEF SendThrows, Move, Unchanged
<1>13. CASE ReadHead(r)
  <2>1. \A h \in Heads : h \in 0..MaxHeight /\ h <= finalized
    BY HeightAssumption DEF Heads
  <2> QED
    BY <1>0, <1>13, <2>1 DEF ReadHead, Move
<1>14. CASE Reconciled(r)
  <2>1. PICK o \in Verdicts : Attested(head[r], o) /\ seen' = [seen EXCEPT ![r] = o]
    BY <1>14 DEF Reconciled
  <2>2. o = Settled
    <3>1. head[r] \in 0..MaxHeight /\ head[r] <= finalized
      BY <1>0
    <3> QED
      BY <2>1, <3>1, AttestedSettled DEF TypeOK
  <2> QED
    BY <1>0, <1>14, <2>1, <2>2 DEF Reconciled, Move
<1>15. CASE Unreconciled(r)
  BY <1>0, <1>15 DEF Unreconciled, Move, Unchanged
<1> QED
  BY <1>1, <1>2, <1>3, <1>4, <1>5, <1>6, <1>7, <1>8, <1>9, <1>10, <1>11, <1>12, <1>13, <1>14,
     <1>15 DEF Looks, Decide, Reconcile
(* A run the step does not touch keeps its part of the invariant when the  *)
(* files stay as they are.                                                 *)
LEMMA OtherRuns ==
  ASSUME RunInv, NEW r \in Runs, Others(r), UNCHANGED files, NEW q \in Runs \ {r}
  PROVE  Control(q)' /\ Trail(q)' /\ Follows(q)'
<1>1. Control(q) /\ Trail(q) /\ Follows(q)
  BY DEF RunInv
<1>2. pc'[q] = pc[q] /\ io'[q] = io[q] /\ role'[q] = role[q]
  BY DEF Others
<1> QED
  BY <1>1, <1>2 DEF Control, Trail, Follows, OnSuccessor, DurableBy, Durable, Visible, By

LEMMA OtherTarget ==
  ASSUME NEW r \in Runs, Others(r), NEW q \in Runs \ {r}
  PROVE  Target(q)' = Target(q) /\ Writing(q)' = Writing(q)
BY DEF Others, Target, Writing, OnSuccessor

(* So does every run when no file is open or opened by the one that moves. *)
LEMMA InFlightKept ==
  ASSUME RunInv, NEW r \in Runs, Others(r), UNCHANGED files, ~Writing(r)',
         NEW q \in Runs
  PROVE  InFlight(q)'
<1>1. CASE q = r
  BY <1>1 DEF InFlight, Writing
<1>2. CASE q # r
  <2>1. /\ InFlight(q) /\ pc'[q] = pc[q] /\ io'[q] = io[q]
        /\ Target(q)' = Target(q) /\ Writing(q)' = Writing(q)
    BY <1>2, OtherTarget DEF RunInv, Others
  <2>2. ASSUME NEW p \in Runs, Writing(q)', Writing(p)', Target(q)' = Target(p)' PROVE q = p
    <3>1. p # r
      BY <2>2
    <3>2. Target(p)' = Target(p) /\ Writing(p)' = Writing(p)
      BY <3>1, OtherTarget
    <3> QED
      BY <2>1, <2>2, <3>2 DEF InFlight
  <2> QED
    BY <2>1, <2>2 DEF InFlight, By
<1> QED
  BY <1>1, <1>2

(* What a step of one run must show that leaves the files, the chain and   *)
(* what was signed and sent as they are.                                   *)
LEMMA QuietStep ==
  ASSUME PoolInv, NEW r \in Runs, Others(r), Entered(r),
         UNCHANGED <<tx, finalized, files, signed, sent>>,
         ~Writing(r)', pc'[r] # "sign", pc'[r] \in ToSend => pc[r] \in ToSend,
         Control(r)', Trail(r)', Follows(r)', Observed(r)',
         (role'[r] = "initializing" /\ pc'[r] \in AfterSigned \cup {"commit"}) => signed # <<>>
  PROVE  (RunInv /\ FileInv /\ SignedInv /\ SentInv /\ TruthInv)'
<1>0. TypeOK /\ RunInv /\ FileInv /\ SignedInv /\ SentInv /\ TruthInv
  BY DEF PoolInv
<1>1. RunInv'
  BY <1>0, OtherRuns, InFlightKept DEF RunInv
<1>2. FileInv'
  <2>1. Ladder'
    BY <1>0 DEF FileInv, Ladder, Made, Durable, DurableBy, By
  <2>2. /\ \A f : Made(f)' = Made(f) /\ Durable(f)' = Durable(f) /\ By(f)' = By(f)
        /\ files' = files
    BY DEF Made, Durable, By
  <2>3. \A q \in Runs \ {r} : Owns(q)' = Owns(q) /\ Resuming(q)' = Resuming(q)
    BY DEF Others, Owns, Resuming
  <2>7. ASSUME NEW q \in Runs, By("claim") = q PROVE Owns(By("claim"))' = Owns(q)'
    BY <2>2, <2>7 DEF Owns, By
  <2>4. ASSUME Stranded, By("claim") \in Runs PROVE Stranded'
    <3>1. ~Owns(By("claim"))'
      <4>1. CASE By("claim") = r
        BY <2>4, <2>7, <4>1 DEF Entered, Stranded, Made, Durable
      <4> QED
        BY <2>3, <2>4, <2>7, <4>1 DEF Stranded
    <3> QED
      BY <2>2, <2>4, <3>1 DEF Stranded
  <2>5. Succeeded' => Stranded'
    <3>1. Succeeded' => Stranded
      <4>1. CASE Resuming(r)' /\ ~Resuming(r)
        BY <1>0, <4>1, PinnedFiles DEF Entered
      <4> QED
        BY <1>0, <2>2, <2>3, <4>1 DEF FileInv, Succeeded
    <3>2. Stranded => By("claim") \in Runs
      BY <1>0 DEF FileInv, Ladder, Stranded, Made, Durable
    <3> QED
      BY <2>4, <3>1, <3>2
  <2>6. Ended'
    <3>1. ASSUME Made("terminal"), ~Made("submission") PROVE ~Owns(By("claim"))'
      <4>1. Made("claim") /\ By("claim") \in Runs /\ ~Owns(By("claim"))
        BY <1>0, <3>1, LadderDown DEF FileInv, Ladder, Ended, Made, Durable
      <4>2. ~Pinned
        BY <1>0, <3>1, PinnedFiles DEF Stranded
      <4> QED
        BY <2>3, <2>7, <4>1, <4>2 DEF Entered
    <3> QED
      BY <1>0, <2>2, <3>1 DEF FileInv, Ended
  <2> QED
    BY <2>1, <2>5, <2>6 DEF FileInv
<1>3. SignedInv'
  BY <1>0 DEF SignedInv, Others, DurableBy, Durable, By, Made
<1>4. SentInv'
  BY <1>0 DEF SentInv, Others, DurableBy, Durable, By
<1>5. TruthInv'
  <2>1. \A q \in Runs : Observed(q)'
    BY <1>0 DEF TruthInv, Others, Observed, Settled, Final
  <2> QED
    BY <1>0, <2>1 DEF TruthInv, ChainInv, RecordsTrue, Settled, Final, Made
<1> QED
  BY <1>1, <1>2, <1>3, <1>4, <1>5

LEMMA LookInv ==
  ASSUME PoolInv, Appends, NEW r \in Runs, Looks(r)
  PROVE  (RunInv /\ FileInv /\ SignedInv /\ SentInv /\ TruthInv)'
<1>1. TypeOK /\ RunInv /\ FileInv /\ SignedInv /\ TruthInv
  BY DEF PoolInv
<1>2. ~Writing(r)'
  BY <1>1, LookLocal DEF Looked, Writing
<1> QED
  BY <1>1, <1>2, LookLocal, QuietStep DEF Looked
LEMMA QuietInv ==
  ASSUME PoolInv, Appends, NEW r \in Runs, Check(r) \/ Refuse(r) \/ Fail(r)
  PROVE  (RunInv /\ FileInv /\ SignedInv /\ SentInv /\ TruthInv)'
<1>1. /\ Control(r) /\ Trail(r) /\ Follows(r) /\ Observed(r)
      /\ (role[r] = "initializing" /\ pc[r] \in AfterSigned \cup {"commit"}) => signed # <<>>
  BY DEF PoolInv, RunInv, SignedInv, TruthInv
<1>2. /\ pc \in [Runs -> Places] /\ io \in [Runs -> {"none", "create", "write", "sync"}]
  BY DEF PoolInv, TypeOK
<1> USE DEF Undecided, AfterCommit, AfterSigned, AfterStarted, AfterWorker, AfterClaim, Looking,
        ToSend, Control, Trail, Follows, Others, Entered, Resuming, Owns, Observed,
        OnSuccessor, Authorized, Appending, DurableBy, Durable, Visible, By, Settled, Final, Goto,
        Writing
<1>3. CASE Check(r)
  <2>1. /\ Others(r) /\ Entered(r) /\ UNCHANGED <<tx, finalized, files, signed, sent>>
        /\ ~Writing(r)' /\ pc'[r] # "sign" /\ (pc'[r] \in ToSend => pc[r] \in ToSend)
    BY <1>2, <1>3 DEF Check
  <2>2. /\ Control(r)' /\ Trail(r)' /\ Follows(r)' /\ Observed(r)'
        /\ (role'[r] = "initializing" /\ pc'[r] \in AfterSigned \cup {"commit"}) => signed # <<>>
    BY <1>1, <1>2, <1>3 DEF Check
  <2> QED
    BY <2>1, <2>2, QuietStep
<1>4. CASE Refuse(r) \/ Fail(r)
  <2>1. /\ pc' = [pc EXCEPT ![r] = "halted"] /\ io' = [io EXCEPT ![r] = "none"]
        /\ UNCHANGED <<tx, finalized, files, role, head, seen, signed, sent>>
        /\ pc[r] # "idle" /\ pc[r] # "halted"
    BY <1>4 DEF Refuse, Fail, Live
  <2>2. /\ Others(r) /\ Entered(r)
        /\ ~Writing(r)' /\ pc'[r] # "sign" /\ (pc'[r] \in ToSend => pc[r] \in ToSend)
    BY <1>2, <2>1
  <2>3. /\ Control(r)' /\ Trail(r)' /\ Follows(r)' /\ Observed(r)'
        /\ (role'[r] = "initializing" /\ pc'[r] \in AfterSigned \cup {"commit"}) => signed # <<>>
    BY <1>1, <1>2, <2>1
  <2> QED
    BY <2>1, <2>2, <2>3, QuietStep
<1> QED
  BY <1>3, <1>4

(* The invariant does not mention the expiry of an authorization. *)
LEMMA SameInv ==
  ASSUME PoolInv, UNCHANGED <<tx, finalized, files, pc, io, role, head, seen, signed, sent>>
  PROVE  (RunInv /\ FileInv /\ SignedInv /\ SentInv /\ TruthInv)'
<1> USE DEF PoolInv, Made, Durable, DurableBy, Visible, By, OnSuccessor
<1>1. \A r \in Runs : Target(r)' = Target(r) /\ Writing(r)' = Writing(r)
  BY DEF Target, Writing
<1>2. RunInv'
  <2>1. ASSUME NEW r \in Runs PROVE Control(r)' /\ Trail(r)' /\ Follows(r)'
    BY DEF RunInv, Control, Trail, Follows
  <2>2. ASSUME NEW r \in Runs PROVE InFlight(r)'
    BY <1>1 DEF RunInv, InFlight
  <2> QED
    BY <2>1, <2>2 DEF RunInv
<1>3. FileInv'
  BY DEF FileInv, Ladder, Succeeded, Resuming, Stranded, Ended, Owns
<1>4. SignedInv' /\ SentInv'
  BY DEF SignedInv, SentInv
<1>5. TruthInv'
  BY DEF TruthInv, ChainInv, Observed, RecordsTrue, Settled, Final
<1> QED
  BY <1>2, <1>3, <1>4, <1>5

-----------------------------------------------------------------------------
(* The steps that append a record.                                         *)

Grown ==
  \A g \in Names :
    /\ Made(g) => Made(g)' /\ By(g)' = By(g) /\ files'[g].kind = files[g].kind
    /\ Visible(g) => Visible(g)'
    /\ Durable(g) => Durable(g)'

LEMMA GrownRuns ==
  ASSUME RunInv, NEW r \in Runs, Others(r), Grown, NEW q \in Runs \ {r}
  PROVE  Control(q)' /\ Trail(q)' /\ Follows(q)'
<1>1. Control(q) /\ Trail(q) /\ Follows(q)
  BY DEF RunInv
<1>2. pc'[q] = pc[q] /\ io'[q] = io[q] /\ role'[q] = role[q]
  BY DEF Others
<1>3. \A f \in Names : \A s : DurableBy(f, s) => DurableBy(f, s)'
  BY DEF Grown, DurableBy, Durable, Made
<1>4. \A f \in Names : Visible(f) => Visible(f)' /\ files'[f].kind = files[f].kind
  BY DEF Grown, Visible, Made
<1>5. Control(q)'
  BY <1>1, <1>2 DEF Control
<1>6. Trail(q)'
  <2>1. /\ files["worker"].kind = "worker_authorized" /\ DurableBy("worker", q) =>
             files'["worker"].kind = "worker_authorized"
        /\ files["submission"].kind = "exact" /\ DurableBy("submission", q) =>
             files'["submission"].kind = "exact"
    BY DEF Grown, DurableBy, Durable, Made, Names
  <2> QED
    BY <1>1, <1>2, <1>3, <2>1 DEF Trail, Names
<1>7. Follows(q)'
  BY <1>1, <1>2, <1>3, <1>4 DEF Follows, OnSuccessor, Names
<1> QED
  BY <1>5, <1>6, <1>7

LEMMA CreateEffect ==
  ASSUME TypeOK, Appends, NEW r \in Runs, Create(r)
  PROVE  /\ pc[r] \in Appending /\ Target(r) \in Names /\ io[r] = "create"
         /\ ~Made(Target(r))
         /\ files'[Target(r)] = [st |-> "torn", by |-> Binds(r), kind |-> RecordKind(r)]
         /\ \A g \in Names \ {Target(r)} : files'[g] = files[g]
         /\ Grown /\ Others(r)
<1>1. pc[r] \in Appending
  BY DEF Create, Appends
<1>2. Target(r) \in Names /\ DOMAIN files = Names
  BY <1>1, TargetType DEF TypeOK, JournalsTypeOK
<1>3. /\ files[Target(r)].st = "absent"
      /\ files' = [files EXCEPT ![Target(r)] = [st |-> "torn", by |-> Binds(r), kind |-> RecordKind(r)]]
  BY DEF Create, CreateFile
<1>4. Others(r)
  BY DEF Create, Others, TypeOK
<1> QED
  BY <1>1, <1>2, <1>3, <1>4 DEF Create, Made, Grown, Visible, Durable, By

LEMMA WriteEffect ==
  ASSUME TypeOK, Appends, RunInv, NEW r \in Runs, Write(r)
  PROVE  /\ pc[r] \in Appending /\ Target(r) \in Names /\ io[r] = "write"
         /\ files[Target(r)].st = "torn"
         /\ files'[Target(r)] = [files[Target(r)] EXCEPT !.st = "written"]
         /\ \A g \in Names \ {Target(r)} : files'[g] = files[g]
         /\ Grown /\ Others(r)
<1>1. pc[r] \in Appending
  BY DEF Write, Appends
<1>2. Target(r) \in Names /\ files \in [Names -> File]
  BY <1>1, TargetType DEF TypeOK, JournalsTypeOK
<1>3. files[Target(r)].st = "torn" /\ files' = [files EXCEPT ![Target(r)].st = "written"]
  BY DEF Write, WriteFile, RunInv, InFlight
<1>4. Others(r)
  BY DEF Write, Others, TypeOK
<1>5. files'[Target(r)] = [files[Target(r)] EXCEPT !.st = "written"]
  BY <1>2, <1>3
<1>6. \A g \in Names \ {Target(r)} : files'[g] = files[g]
  BY <1>2, <1>3
<1>7. Grown
  BY <1>2, <1>3, <1>5, <1>6 DEF Grown, Made, Visible, Durable, By, File
<1> QED
  BY <1>1, <1>2, <1>3, <1>4, <1>5, <1>6, <1>7 DEF Write

LEMMA SyncEffect ==
  ASSUME TypeOK, Appends, RunInv, NEW r \in Runs, Sync(r)
  PROVE  /\ pc[r] \in Appending /\ Target(r) \in Names /\ io[r] = "sync"
         /\ files[Target(r)].st = "written"
         /\ files'[Target(r)] = [files[Target(r)] EXCEPT !.st = "durable"]
         /\ \A g \in Names \ {Target(r)} : files'[g] = files[g]
         /\ Grown /\ Others(r)
<1>1. pc[r] \in Appending
  BY DEF Sync, Appends
<1>2. Target(r) \in Names /\ files \in [Names -> File]
  BY <1>1, TargetType DEF TypeOK, JournalsTypeOK
<1>3. files[Target(r)].st = "written" /\ files' = [files EXCEPT ![Target(r)].st = "durable"]
  BY DEF Sync, SyncFile, RunInv, InFlight
<1>4. Others(r)
  BY DEF Sync, Goto, Others, TypeOK
<1>5. files'[Target(r)] = [files[Target(r)] EXCEPT !.st = "durable"]
  BY <1>2, <1>3
<1>6. \A g \in Names \ {Target(r)} : files'[g] = files[g]
  BY <1>2, <1>3
<1>7. Grown
  BY <1>2, <1>3, <1>5, <1>6 DEF Grown, Made, Visible, Durable, By, File
<1> QED
  BY <1>1, <1>2, <1>3, <1>4, <1>5, <1>6, <1>7 DEF Sync
(* A step that appends keeps the ladder, and what rests on the records.    *)
LEMMA GrownRecords ==
  ASSUME PoolInv, Grown, UNCHANGED <<tx, finalized, signed, sent, head, seen>>,
         NEW f \in Names, \A g \in Names \ {f} : files'[g] = files[g],
         Made(f)
  PROVE  /\ Ladder' /\ RecordsTrue' /\ ChainInv'
         /\ \A g \in Names : Made(g)' = Made(g)
<1>1. \A g \in Names : /\ Made(g)' = Made(g)
                       /\ Made(g) => By(g)' = By(g) /\ files'[g].kind = files[g].kind
                       /\ Durable(g) => Durable(g)'
  BY DEF Grown, Made
<1>2. Ladder'
  BY <1>1 DEF PoolInv, FileInv, Ladder, DurableBy, Durable, Made, Names, By
<1>3. RecordsTrue'
  BY <1>1 DEF PoolInv, TruthInv, RecordsTrue, Terminal, Settled, Final, Names
<1> QED
  BY <1>1, <1>2, <1>3 DEF PoolInv, TruthInv, ChainInv

(* No file is made, and no run comes to own a claim or to resume.          *)
LEMMA SameOwners ==
  ASSUME FileInv, \A g \in Names : Made(g)' = Made(g),
         \A g \in Names : Made(g) => /\ By(g)' = By(g) /\ files'[g].kind = files[g].kind
                                     /\ Durable(g) => Durable(g)',
         \A q \in Runs : (Owns(q)' => Owns(q)) /\ (Resuming(q)' => Resuming(q))
  PROVE  (Succeeded => Stranded)' /\ Ended'
<1>1. Made("claim") => By("claim") \in Runs
  BY DEF FileInv, Ladder
<1>2. Made("claim") /\ ~Owns(By("claim")) => ~Owns(By("claim"))'
  <2>1. ASSUME NEW q \in Runs, By("claim") = q, By("claim")' = q
        PROVE  Owns(By("claim")) = Owns(q) /\ Owns(By("claim"))' = Owns(q)'
    BY <2>1 DEF Owns
  <2> QED
    BY <1>1, <2>1 DEF Names
<1>3. Succeeded' => Succeeded
  BY DEF Succeeded, Names
<1>4. Stranded => Stranded'
  BY <1>2 DEF Stranded, Names, Made, Durable
<1>5. Ended'
  BY <1>2, LadderDown DEF FileInv, Ended, Names, Made, Durable
<1> QED
  BY <1>3, <1>4, <1>5 DEF FileInv

LEMMA WriteInv ==
  ASSUME PoolInv, Appends, NEW r \in Runs, Write(r)
  PROVE  (RunInv /\ FileInv /\ SignedInv /\ SentInv /\ TruthInv)'
<1>0. TypeOK /\ RunInv /\ FileInv /\ SignedInv /\ SentInv /\ TruthInv
  BY DEF PoolInv
<1>1. /\ pc[r] \in Appending /\ Target(r) \in Names /\ io[r] = "write"
      /\ files[Target(r)].st = "torn"
      /\ files'[Target(r)] = [files[Target(r)] EXCEPT !.st = "written"]
      /\ \A g \in Names \ {Target(r)} : files'[g] = files[g]
      /\ Grown /\ Others(r)
  BY <1>0, WriteEffect
<1>2. /\ UNCHANGED <<tx, finalized, pc, role, head, seen, signed, sent>>
      /\ io' = [io EXCEPT ![r] = "sync"] /\ io'[r] = "sync"
  BY <1>0 DEF Write, TypeOK
<1>3. Ladder' /\ RecordsTrue' /\ ChainInv' /\ \A g \in Names : Made(g)' = Made(g)
  BY <1>1, <1>2, GrownRecords DEF Made
<1>4. ASSUME NEW g \in Names, Made(g)
      PROVE  By(g)' = By(g) /\ files'[g].kind = files[g].kind /\ (Durable(g) => Durable(g)')
  BY <1>1, <1>4 DEF Grown
<1>5. \A q \in Runs : Target(q)' = Target(q)
  BY <1>2 DEF Target, OnSuccessor
<1>6. RunInv'
  <2>1. Control(r)' /\ Trail(r)' /\ Follows(r)'
    <3>1. Control(r) /\ Trail(r) /\ Follows(r)
      BY <1>0 DEF RunInv
    <3>2. Control(r)'
      BY <1>1, <1>2, <3>1 DEF Control
    <3>3. \A g \in Names : \A s : DurableBy(g, s) => DurableBy(g, s)'
      BY <1>4 DEF DurableBy, Durable, Made
    <3>4. Trail(r)'
      BY <1>2, <1>4, <3>1, <3>3 DEF Trail, Names, DurableBy, Durable, Made
    <3>5. pc[r] \notin ToSend \cup {"head", "receipt"}
      BY <1>1 DEF Appending, ToSend
    <3>6. Follows(r)'
      BY <1>1, <1>2, <1>4, <3>1, <3>5 DEF Follows, OnSuccessor, Names, Grown, Visible, Made
    <3> QED
      BY <3>2, <3>4, <3>6
  <2>2. ASSUME NEW q \in Runs PROVE InFlight(q)'
    <3>1. ASSUME NEW p \in Runs PROVE Writing(p)' = Writing(p)
      BY <1>0, <1>1, <1>2 DEF Writing, TypeOK
    <3>2. CASE q = r
      <4>1. files[Target(r)] \in File /\ InFlight(r)
        BY <1>0, <1>1 DEF TypeOK, JournalsTypeOK, RunInv
      <4>2. /\ files'[Target(r)].st = "written" /\ files'[Target(r)].by = files[Target(r)].by
            /\ files'[Target(r)].kind = files[Target(r)].kind
        BY <1>1, <4>1 DEF File
      <4>3. pc[r] = "authorize" => Target(r) = "worker"
        BY DEF Target
      <4>4. Writing(r) /\ (pc[r] # "settle" => files[Target(r)].by = r)
            /\ (pc[r] = "authorize" => files["worker"].kind = "worker_authorized")
        BY <1>1, <4>1 DEF InFlight, Writing, By
      <4>5. \A p \in Runs : (Writing(p)' /\ Target(r)' = Target(p)') => r = p
        BY <1>5, <3>1, <4>1, <4>4 DEF InFlight
      <4>6. Target(r)' = Target(r) /\ pc'[r] = pc[r] /\ io'[r] = "sync"
        BY <1>2, <1>5
      <4> QED
        BY <3>2, <4>2, <4>3, <4>4, <4>5, <4>6 DEF InFlight, By
    <3>3. CASE q # r
      <4>1. Writing(q) => Target(q) # Target(r)
        BY <1>0, <1>1, <3>3 DEF RunInv, InFlight, Writing
      <4>2. Writing(q) => Target(q) \in Names
        BY <1>0, TargetType DEF Writing, RunInv, Control
      <4>3. Writing(q) => files'[Target(q)] = files[Target(q)]
        BY <1>1, <4>1, <4>2
      <4>4. io'[q] = io[q]
        BY <1>1, <3>3 DEF Others
      <4>5. (Writing(q) /\ pc[q] = "authorize") => Target(q) = "worker"
        BY DEF Target
      <4> QED
        BY <1>0, <1>2, <1>5, <3>1, <4>3, <4>4, <4>5 DEF RunInv, InFlight, By, Writing
    <3> QED
      BY <3>2, <3>3
  <2> QED
    BY <1>0, <1>1, <2>1, <2>2, GrownRuns DEF RunInv
<1>7. FileInv'
  BY <1>0, <1>2, <1>3, <1>4, SameOwners DEF FileInv, Owns, Resuming
<1>8. SignedInv'
  BY <1>0, <1>2, <1>3, <1>4 DEF SignedInv, DurableBy, Durable, Made, Names
<1>9. SentInv'
  BY <1>0, <1>2, <1>4 DEF SentInv, DurableBy, Durable, Made, Names
<1>10. TruthInv'
  BY <1>0, <1>2, <1>3 DEF TruthInv, Observed, Settled, Final
<1> QED
  BY <1>6, <1>7, <1>8, <1>9, <1>10
(* A run that writes another file than the one that changes.               *)
LEMMA OtherInFlight ==
  ASSUME TypeOK, RunInv, NEW r \in Runs, Others(r),
         NEW f \in Names, \A g \in Names \ {f} : files'[g] = files[g],
         NEW q \in Runs \ {r},
         Writing(q) => Target(q) # f,
         Writing(r)' => Target(r)' = f
  PROVE  InFlight(q)'
<1>1. /\ Target(q)' = Target(q) /\ Writing(q)' = Writing(q)
      /\ pc'[q] = pc[q] /\ io'[q] = io[q]
  BY OtherTarget DEF Others
<1>2. /\ Writing(q) => Target(q) \in Names /\ files'[Target(q)] = files[Target(q)]
      /\ InFlight(q)
  BY TargetType DEF Writing, RunInv, Control
<1>3. ASSUME NEW p \in Runs, Writing(q)', Writing(p)', Target(q)' = Target(p)' PROVE q = p
  <2>1. CASE p = r
    BY <1>1, <1>3, <2>1
  <2>2. CASE p # r
    <3>1. Target(p)' = Target(p) /\ Writing(p)' = Writing(p)
      BY <2>2, OtherTarget
    <3> QED
      BY <1>1, <1>2, <1>3, <3>1 DEF InFlight
  <2> QED
    BY <2>1, <2>2
<1>4. pc[q] = "authorize" => Target(q) = "worker"
  BY DEF Target
<1> QED
  BY <1>1, <1>2, <1>3, <1>4 DEF InFlight, By, Writing

LEMMA SyncInv ==
  ASSUME PoolInv, Appends, NEW r \in Runs, Sync(r)
  PROVE  (RunInv /\ FileInv /\ SignedInv /\ SentInv /\ TruthInv)'
<1>0. TypeOK /\ RunInv /\ FileInv /\ SignedInv /\ SentInv /\ TruthInv
  BY DEF PoolInv
<1>1. /\ pc[r] \in Appending /\ Target(r) \in Names /\ io[r] = "sync"
      /\ files[Target(r)].st = "written"
      /\ files'[Target(r)] = [files[Target(r)] EXCEPT !.st = "durable"]
      /\ \A g \in Names \ {Target(r)} : files'[g] = files[g]
      /\ Grown /\ Others(r)
  BY <1>0, SyncEffect
<1>2. /\ UNCHANGED <<tx, finalized, role, head, seen, signed, sent>>
      /\ io'[r] = "none" /\ pc'[r] = AfterRecord(r)
  BY <1>0 DEF Sync, TypeOK, Goto
<1>3. Ladder' /\ RecordsTrue' /\ ChainInv' /\ \A g \in Names : Made(g)' = Made(g)
  BY <1>1, <1>2, GrownRecords DEF Made
<1>4. ASSUME NEW g \in Names, Made(g)
      PROVE  By(g)' = By(g) /\ files'[g].kind = files[g].kind /\ (Durable(g) => Durable(g)')
  BY <1>1, <1>4 DEF Grown
<1>f. PICK f \in Names : f = Target(r)
  BY <1>1
<1>5. /\ Made(f) /\ ~Durable(f) /\ Durable(f)' /\ By(f)' = By(f)
      /\ pc[r] # "settle" => By(f) = r
      /\ pc[r] = "authorize" => files["worker"].kind = "worker_authorized"
  <2>1. InFlight(r) /\ Writing(r)
    BY <1>0, <1>1 DEF RunInv, Writing
  <2>2. files[f] \in File
    BY <1>0 DEF TypeOK, JournalsTypeOK
  <2>3. Made(f) /\ ~Durable(f) /\ Durable(f)' /\ By(f)' = By(f)
    BY <1>1, <1>f, <2>2 DEF Made, Durable, File, By
  <2> QED
    BY <1>f, <2>1, <2>3 DEF InFlight
<1>6. Control(r) /\ Trail(r) /\ Follows(r)
  BY <1>0 DEF RunInv
<1>7. \A g \in Names : \A s : DurableBy(g, s) => DurableBy(g, s)'
  BY <1>4 DEF DurableBy, Durable, Made
<1>8. Control(r)'
  BY <1>1, <1>2, <1>6 DEF Control, AfterRecord, Appending, Undecided, AfterClaim, AfterWorker,
     AfterStarted, AfterSigned, AfterCommit, Looking, Authorized
<1>9. Trail(r)'
  <2>1. pc[r] # "settle" => DurableBy(f, r)'
    BY <1>5 DEF DurableBy
  <2>2. /\ (files["worker"].kind = "worker_authorized" /\ Made("worker"))
              => files'["worker"].kind = "worker_authorized"
        /\ Made("submission") => files'["submission"].kind = files["submission"].kind
    BY <1>4 DEF Names
  <2>3. DurableBy("worker", r) => Made("worker")
    BY DEF DurableBy, Durable, Made
  <2> SUFFICES ASSUME role[r] = "initializing" PROVE Trail(r)'
    BY <1>2 DEF Trail
  <2> USE DEF Trail, AfterRecord, Target, OnSuccessor, AfterClaim, AfterWorker, AfterStarted,
          AfterSigned, AfterCommit, ToSend, Names
  <2>4. CASE pc[r] = "claim"
    BY <1>2, <1>f, <1>7, <2>1, <2>4
  <2>5. CASE pc[r] \in {"authorize", "start worker"}
    BY <1>2, <1>f, <1>5, <1>6, <1>7, <2>1, <2>2, <2>3, <2>5
  <2>6. CASE pc[r] \in {"commit", "seed"}
    BY <1>2, <1>f, <1>6, <1>7, <2>1, <2>2, <2>3, <2>6
  <2>7. CASE pc[r] = "start"
    BY <1>2, <1>f, <1>5, <1>6, <1>7, <2>1, <2>2, <2>3, <2>7
  <2>8. CASE pc[r] \in {"give up", "settle"}
    BY <1>2, <2>8
  <2> QED
    BY <1>1, <2>4, <2>5, <2>6, <2>7, <2>8 DEF Appending
<1>10. Follows(r)'
  <2>1. pc'[r] \notin Looking
    BY <1>1, <1>2 DEF Appending, AfterRecord, Looking
  <2>2. (pc'[r] \in ToSend /\ role[r] = "resuming") => pc[r] = "start" /\ Target(r) = "resume"
    BY <1>1, <1>2 DEF Appending, AfterRecord, ToSend, Target, OnSuccessor
  <2> QED
    BY <1>2, <1>f, <1>5, <2>1, <2>2 DEF Follows, DurableBy
<1>11. RunInv'
  <2>1. InFlight(r)'
    BY <1>2 DEF InFlight, Writing
  <2>2. ASSUME NEW q \in Runs \ {r} PROVE InFlight(q)'
    <3>1. Writing(q) => Target(q) # Target(r)
      BY <1>0, <1>1 DEF RunInv, InFlight, Writing
    <3>2. ~Writing(r)'
      BY <1>2 DEF Writing
    <3> QED
      BY <1>0, <1>1, <3>1, <3>2, OtherInFlight
  <2> QED
    BY <1>0, <1>1, <1>8, <1>9, <1>10, <2>1, <2>2, GrownRuns DEF RunInv
<1>12. FileInv'
  <2>1. \A q \in Runs : (Owns(q)' => Owns(q)) /\ (Resuming(q)' => Resuming(q))
    <3>1. Owns(r)' => Owns(r)
      BY <1>1, <1>2 DEF Owns, Appending
    <3>2. Resuming(r)' => Resuming(r)
      BY <1>1, <1>2, <1>6 DEF Resuming, Appending, AfterRecord, AfterCommit, Control, AfterClaim,
         AfterWorker, AfterStarted, AfterSigned
    <3> QED
      BY <1>1, <1>2, <3>1, <3>2 DEF Owns, Resuming, Others
  <2> QED
    BY <1>0, <1>3, <1>4, <2>1, SameOwners DEF FileInv
<1>13. SignedInv'
  <2>1. signed # <<>> => pc'[r] # "sign"
    <3>1. pc'[r] = "sign" => Target(r) = "started"
      BY <1>1, <1>2 DEF Appending, AfterRecord, Target
    <3> QED
      BY <1>0, <1>f, <1>5, <3>1 DEF SignedInv, DurableBy
  <2>2. (role'[r] = "initializing" /\ pc'[r] \in AfterSigned \cup {"commit"}) =>
          pc[r] \in AfterSigned \cup {"commit"}
    BY <1>1, <1>2 DEF Appending, AfterRecord, AfterSigned, AfterCommit
  <2> QED
    BY <1>0, <1>1, <1>2, <1>3, <1>4, <2>1, <2>2 DEF SignedInv, DurableBy, Durable, Made, Names, Others
<1>14. SentInv'
  <2>1. sent # <<>> => pc'[r] \notin ToSend
    <3>1. pc'[r] \in ToSend => pc[r] = "start" /\ Target(r) \in {"submission", "resume"}
      BY <1>1, <1>2 DEF Appending, AfterRecord, ToSend, Target
    <3>2. ~(Made("submission") /\ Made("resume"))
      BY <1>0 DEF FileInv, Succeeded, Stranded
    <3> QED
      BY <1>0, <1>f, <1>5, <3>1, <3>2 DEF SentInv, DurableBy, Durable, Made
  <2> QED
    BY <1>0, <1>1, <1>2, <1>4, <2>1 DEF SentInv, DurableBy, Durable, Made, Names, Others
<1>15. TruthInv'
  <2>1. Observed(r)'
    BY <1>0, <1>1, <1>2 DEF TruthInv, Observed, Settled, Final, Appending, AfterRecord
  <2> QED
    BY <1>0, <1>1, <1>2, <1>3, <2>1 DEF TruthInv, Observed, Settled, Final, Others
<1> QED
  BY <1>11, <1>12, <1>13, <1>14, <1>15
LEMMA CreateInv ==
  ASSUME PoolInv, Appends, NEW r \in Runs, Create(r)
  PROVE  (RunInv /\ FileInv /\ SignedInv /\ SentInv /\ TruthInv)'
<1>0. TypeOK /\ RunInv /\ FileInv /\ SignedInv /\ SentInv /\ TruthInv
  BY DEF PoolInv
<1>1. /\ pc[r] \in Appending /\ Target(r) \in Names /\ io[r] = "create"
      /\ ~Made(Target(r))
      /\ files'[Target(r)] = [st |-> "torn", by |-> Binds(r), kind |-> RecordKind(r)]
      /\ \A g \in Names \ {Target(r)} : files'[g] = files[g]
      /\ Grown /\ Others(r)
  BY <1>0, CreateEffect
<1>f. PICK f \in Names : f = Target(r)
  BY <1>1
<1>2. /\ UNCHANGED <<tx, finalized, pc, role, head, seen, signed, sent>>
      /\ io'[r] = "write"
  BY <1>0 DEF Create, TypeOK
<1>3. /\ files'[f].st = "torn" /\ files'[f].kind = RecordKind(r)
      /\ pc[r] # "settle" => files'[f].by = r
  <2>1. pc[r] # "settle" => Binds(r) = r
    BY <1>1 DEF Appending, Binds, Target
  <2> QED
    BY <1>1, <1>f, <2>1
<1>4. ASSUME NEW g \in Names
      PROVE  /\ Made(g)' <=> Made(g) \/ g = f
             /\ Made(g) => By(g)' = By(g) /\ files'[g].kind = files[g].kind
             /\ Durable(g)' = Durable(g)
             /\ Visible(g)' = Visible(g)
  BY <1>1, <1>3, <1>4, <1>f DEF Made, By, Durable, Visible
<1>5. Control(r) /\ Trail(r) /\ Follows(r) /\ Observed(r)
  BY <1>0 DEF RunInv, TruthInv
<1>6. /\ \A q \in Runs : Target(q)' = Target(q) /\ Owns(q)' = Owns(q) /\ Resuming(q)' = Resuming(q)
  BY <1>2 DEF Target, OnSuccessor, Owns, Resuming
<1>7. \A g \in Names : \A s : DurableBy(g, s) => DurableBy(g, s)'
  BY <1>4 DEF DurableBy, Durable, Made
(* Which file, by the place and the role of the run. *)
<1>8. /\ f = "claim" => pc[r] = "claim"
      /\ f = "worker" => pc[r] \in {"authorize", "give up"}
      /\ f = "started" => pc[r] = "start worker"
      /\ f = "signed" => pc[r] = "commit"
      /\ f = "commit" => pc[r] = "seed"
      /\ f = "submission" => pc[r] = "start" /\ role[r] = "initializing"
      /\ f = "resume" => pc[r] = "start" /\ role[r] = "resuming"
      /\ f = "terminal" => pc[r] = "settle" /\ ~OnSuccessor(r)
      /\ f = "settled" => pc[r] = "settle" /\ OnSuccessor(r)
      /\ pc[r] \in Appending \ {"settle", "start"} => role[r] = "initializing"
  BY <1>1, <1>f, <1>5 DEF Appending, Target, Control, AfterClaim, AfterWorker, AfterStarted,
     AfterSigned, AfterCommit, Authorized, OnSuccessor
<1>9. RunInv'
  <2>1. Control(r)' /\ Trail(r)' /\ Follows(r)'
    <3>1. Control(r)'
      BY <1>1, <1>2, <1>5 DEF Control
    <3>2. Trail(r)'
      BY <1>2, <1>4, <1>5, <1>7 DEF Trail, Names, DurableBy, Durable, Made
    <3>3. Follows(r)'
      BY <1>2, <1>4, <1>5, <1>7 DEF Follows, OnSuccessor, Names, Visible, Made
    <3> QED
      BY <3>1, <3>2, <3>3
  <2>2. ASSUME NEW q \in Runs PROVE Writing(q) => Target(q) # f
    BY <1>0, <1>1, <1>f DEF RunInv, InFlight, Writing, Made
  <2>3. ASSUME NEW q \in Runs \ {r} PROVE InFlight(q)'
    BY <1>0, <1>1, <1>6, <1>f, <2>2, OtherInFlight
  <2>4. InFlight(r)'
    <3>1. ASSUME NEW p \in Runs, Writing(p)', Target(p)' = f PROVE r = p
      <4>1. p # r => Writing(p) /\ Target(p) = f
        BY <1>1, <3>1, OtherTarget
      <4> QED
        BY <2>2, <4>1
    <3>2. pc[r] = "authorize" => f = "worker" /\ files'[f].kind = "worker_authorized"
      BY <1>3, <1>f DEF Target, RecordKind
    <3> QED
      BY <1>2, <1>3, <1>6, <1>f, <3>1, <3>2 DEF InFlight, By
  <2> QED
    BY <1>0, <1>1, <2>1, <2>3, <2>4, GrownRuns DEF RunInv
<1>10. Ladder'
  <2>1. ~Made(f)
    BY <1>1, <1>f
  <2>2. Ladder
    BY <1>0 DEF FileInv
  <2>3. f # "terminal" /\ f # "settled" => files'[f].by = r
    BY <1>3, <1>8 DEF Names
  <2> USE DEF Trail, AfterClaim, AfterWorker, AfterStarted, AfterSigned, AfterCommit, Appending
  <2>4. f = "worker" => DurableBy("claim", r)'
    BY <1>5, <1>7, <1>8 DEF Names
  <2>5. f = "started" => DurableBy("worker", r)' /\ files'["worker"].kind = "worker_authorized"
    BY <1>4, <1>5, <1>7, <1>8 DEF Names, DurableBy, Durable, Made
  <2>6. f = "signed" => DurableBy("started", r)'
    BY <1>5, <1>7, <1>8 DEF Names
  <2>7. f = "commit" => DurableBy("signed", r)'
    BY <1>5, <1>7, <1>8 DEF Names
  <2>8. f = "submission" => DurableBy("commit", r)'
    BY <1>5, <1>7, <1>8 DEF Names
  <2>9. f = "terminal" => Durable("commit")'
    BY <1>4, <1>5, <1>8, <2>2 DEF Follows, Looking, Visible, Made, Ladder, DurableBy, Names, Durable
  <2> HIDE DEF Trail, AfterClaim, AfterWorker, AfterStarted, AfterSigned, AfterCommit, Appending
  <2>10. Made("claim")' => By("claim")' \in Runs
    BY <1>4, <2>2, <2>3 DEF Ladder, Names, By
  <2>11. Made("worker")' => Durable("claim")' /\ By("claim")' = By("worker")'
    <3>1. CASE f = "worker"
      BY <2>3, <2>4, <3>1 DEF DurableBy, By
    <3>2. CASE f # "worker"
      BY <1>4, <2>2, <3>2 DEF Ladder, DurableBy, Durable, Made, Names
    <3> QED
      BY <3>1, <3>2
  <2>12. Made("started")' => Durable("worker")' /\ By("worker")' = By("started")'
    <3>1. CASE f = "started"
      BY <2>3, <2>5, <3>1 DEF DurableBy, By
    <3>2. CASE f # "started"
      BY <1>4, <2>2, <3>2 DEF Ladder, DurableBy, Durable, Made, Names
    <3> QED
      BY <3>1, <3>2
  <2>13. Made("signed")' => Durable("started")' /\ By("started")' = By("signed")'
    <3>1. CASE f = "signed"
      BY <2>3, <2>6, <3>1 DEF DurableBy, By
    <3>2. CASE f # "signed"
      BY <1>4, <2>2, <3>2 DEF Ladder, DurableBy, Durable, Made, Names
    <3> QED
      BY <3>1, <3>2
  <2>14. Made("commit")' => Durable("signed")' /\ By("signed")' = By("commit")'
    <3>1. CASE f = "commit"
      BY <2>3, <2>7, <3>1 DEF DurableBy, By
    <3>2. CASE f # "commit"
      BY <1>4, <2>2, <3>2 DEF Ladder, DurableBy, Durable, Made, Names
    <3> QED
      BY <3>1, <3>2
  <2>15. Made("submission")' => Durable("commit")' /\ By("commit")' = By("submission")'
    <3>1. CASE f = "submission"
      BY <2>3, <2>8, <3>1 DEF DurableBy, By
    <3>2. CASE f # "submission"
      BY <1>4, <2>2, <3>2 DEF Ladder, DurableBy, Durable, Made, Names
    <3> QED
      BY <3>1, <3>2
  <2>16. Made("started")' => files'["worker"].kind = "worker_authorized"
    BY <1>4, <2>2, <2>5 DEF Ladder, DurableBy, Durable, Made, Names
  <2>17. Made("terminal")' => Durable("commit")'
    BY <1>4, <2>2, <2>9 DEF Ladder, Names
  <2> QED
    BY <2>10, <2>11, <2>12, <2>13, <2>14, <2>15, <2>16, <2>17 DEF Ladder, DurableBy
<1>11. (Succeeded => Stranded)'
  <2>1. Succeeded' => Stranded
    <3>1. f \in {"resume", "settled"} => Succeeded
      BY <1>5, <1>8 DEF Succeeded, Resuming, AfterCommit, Follows, Looking, Visible, Made
    <3> QED
      BY <1>0, <1>4, <1>6, <3>1 DEF FileInv, Succeeded, Names
  <2>2. Stranded => f \notin {"submission", "terminal"}
    <3>1. f = "submission" => DurableBy("claim", r) /\ Owns(r)
      BY <1>5, <1>8 DEF Trail, AfterClaim, AfterWorker, AfterStarted, AfterSigned, AfterCommit,
         Owns, Authorized
    <3>2. f = "terminal" => Made("submission")
      BY <1>5, <1>8 DEF Follows, Looking, Visible, Made
    <3> QED
      BY <3>1, <3>2 DEF Stranded, DurableBy
  <2>3. Stranded /\ f \notin {"submission", "terminal"} => Stranded'
    <3>1. Stranded => /\ By("claim") \in Runs /\ By("claim")' = By("claim")
                      /\ Durable("claim")' /\ Durable("commit")'
      BY <1>0, <1>4 DEF Stranded, FileInv, Ladder, Made, Durable, Names
    <3>2. Stranded => ~Owns(By("claim"))'
      BY <1>2, <3>1 DEF Owns, Stranded
    <3> QED
      BY <1>4, <3>1, <3>2 DEF Stranded, Names
  <2> QED
    BY <2>1, <2>2, <2>3
<1>12. Ended'
  <2>1. (Made("terminal") \/ f = "terminal") /\ (Made("submission") \/ f = "submission") =>
          files'["submission"].kind = "exact"
    <3>1. f = "terminal" => Made("submission") /\ files["submission"].kind = "exact"
      BY <1>5, <1>8 DEF Follows, Looking, Visible, Made
    <3>2. f = "submission" => DurableBy("claim", r) /\ Owns(r) /\ ~Made("submission")
      BY <1>1, <1>f, <1>5, <1>8 DEF Trail, AfterClaim, AfterWorker, AfterStarted, AfterSigned,
         AfterCommit, Owns, Authorized
    <3>3. f = "submission" => ~Made("terminal")
      BY <1>0, <3>2 DEF FileInv, Ended, DurableBy
    <3> QED
      BY <1>0, <1>4, <3>1, <3>3 DEF FileInv, Ended, Names
  <2>2. (Made("terminal") \/ f = "terminal") /\ ~(Made("submission") \/ f = "submission") =>
          ~Owns(By("claim"))'
    <3>1. f = "terminal" => Made("submission")
      BY <1>5, <1>8 DEF Follows, Looking, Visible, Made
    <3>2. Made("terminal") => By("claim")' = By("claim")
      BY <1>0, <1>4, LadderDown DEF Durable, Made, Names
    <3> QED
      BY <1>0, <1>2, <3>1, <3>2 DEF FileInv, Ended, Owns
  <2> QED
    BY <1>4, <2>1, <2>2 DEF Ended, Names
<1>13. SignedInv'
  <2>1. Made("signed")' => signed # <<>>
    BY <1>0, <1>4, <1>8 DEF SignedInv, Names, Appending
  <2> QED
    BY <1>0, <1>2, <1>4, <2>1 DEF SignedInv, DurableBy, Durable, Made, Names
<1>14. SentInv'
  BY <1>0, <1>2, <1>4 DEF SentInv, DurableBy, Durable, Made, Names
<1>15. TruthInv'
  <2>1. f \in Terminal => files'[f].kind = seen[r] /\ pc[r] = "settle"
    BY <1>3, <1>f, <1>8 DEF Terminal, RecordKind
  <2>2. RecordsTrue'
    BY <1>0, <1>2, <1>4, <1>5, <2>1 DEF TruthInv, RecordsTrue, Terminal, Observed, Settled, Final, Names
  <2> QED
    BY <1>0, <1>2, <2>2 DEF TruthInv, ChainInv, Observed, Settled, Final
<1> QED
  BY <1>9, <1>10, <1>11, <1>12, <1>13, <1>14, <1>15 DEF FileInv
-----------------------------------------------------------------------------
(* Signing and sending. *)

LEMMA SignInv ==
  ASSUME PoolInv, NEW r \in Runs, Sign(r)
  PROVE  (RunInv /\ FileInv /\ SignedInv /\ SentInv /\ TruthInv)'
<1>0. TypeOK /\ RunInv /\ FileInv /\ SignedInv /\ SentInv /\ TruthInv
  BY DEF PoolInv
<1>1. /\ pc[r] = "sign" /\ io[r] = "none" /\ pc' = [pc EXCEPT ![r] = "commit"]
      /\ signed' = Append(signed, r)
      /\ UNCHANGED <<tx, finalized, files, io, role, head, seen, sent>>
  BY DEF Sign, Move, Goto
<1>2. Control(r) /\ Trail(r) /\ Follows(r) /\ Observed(r)
  BY <1>0 DEF RunInv, TruthInv
<1>3. /\ role[r] = "initializing"
      /\ DurableBy("claim", r) /\ DurableBy("started", r)
  BY <1>1, <1>2 DEF Control, Trail, AfterClaim, AfterWorker, AfterStarted, AfterCommit, AfterSigned
<1>4. Others(r) /\ ~Writing(r)' /\ pc'[r] = "commit"
  BY <1>0, <1>1 DEF Others, Writing, TypeOK
<1>5. RunInv'
  <2>1. Control(r)' /\ Trail(r)' /\ Follows(r)'
    <3>1. Control(r)'
      BY <1>1, <1>3, <1>4 DEF Control, Undecided, AfterCommit, Looking
    <3>2. Trail(r)'
      BY <1>1, <1>2, <1>3, <1>4 DEF Trail, AfterClaim, AfterWorker, AfterStarted, AfterSigned,
         AfterCommit, ToSend, DurableBy, Durable, By
    <3>3. Follows(r)'
      BY <1>4 DEF Follows, ToSend, Looking
    <3> QED
      BY <3>1, <3>2, <3>3
  <2> QED
    BY <1>0, <1>1, <1>4, <2>1, OtherRuns, InFlightKept DEF RunInv
<1>6. FileInv'
  <2>1. \A q \in Runs : (Owns(q)' => Owns(q)) /\ (Resuming(q)' => Resuming(q))
    BY <1>1, <1>3, <1>4 DEF Owns, Resuming, Others
  <2>2. /\ \A g : Made(g)' = Made(g) /\ Durable(g)' = Durable(g) /\ By(g)' = By(g)
        /\ files' = files
    BY <1>1 DEF Made, Durable, By
  <2>3. (Succeeded => Stranded)' /\ Ended'
    BY <1>0, <2>1, <2>2, SameOwners
  <2>4. Ladder'
    BY <1>0, <2>2 DEF FileInv, Ladder, DurableBy
  <2> QED
    BY <2>3, <2>4 DEF FileInv
<1>7. SignedInv'
  <2>1. signed = <<>>
    BY <1>0, <1>1 DEF SignedInv
  <2>2. signed' = <<r>> /\ Len(signed') = 1 /\ signed'[1] = r /\ signed' # <<>>
    BY <1>0, <1>1, <2>1, AppendType DEF TypeOK
  <2>3. ASSUME NEW q \in Runs PROVE pc'[q] # "sign"
    <3>1. pc[q] = "sign" => DurableBy("claim", q)
      BY <1>0 DEF RunInv, Control, Trail, AfterClaim, AfterWorker, AfterStarted, AfterCommit,
         AfterSigned
    <3> QED
      BY <1>3, <1>4, <3>1 DEF DurableBy, Others
  <2> QED
    BY <1>1, <1>3, <2>2, <2>3 DEF SignedInv, DurableBy, Durable, By
<1>8. SentInv'
  BY <1>0, <1>1, <1>4 DEF SentInv, ToSend, DurableBy, Durable, By, Others
<1>9. TruthInv'
  <2>1. \A q \in Runs : Observed(q)'
    BY <1>0, <1>1, <1>4 DEF TruthInv, Observed, Settled, Final, Others
  <2> QED
    BY <1>0, <1>1, <2>1 DEF TruthInv, ChainInv, RecordsTrue, Settled, Final, Made
<1> QED
  BY <1>5, <1>6, <1>7, <1>8, <1>9

LEMMA SendInv ==
  ASSUME PoolInv, NEW r \in Runs, Send(r)
  PROVE  (RunInv /\ FileInv /\ SignedInv /\ SentInv /\ TruthInv)'
<1>0. TypeOK /\ RunInv /\ FileInv /\ SignedInv /\ SentInv /\ TruthInv
  BY DEF PoolInv
<1>1. /\ pc[r] = "send" /\ io[r] = "none" /\ pc' = [pc EXCEPT ![r] = "head"]
      /\ sent' = Append(sent, r) /\ Broadcast
      /\ UNCHANGED <<finalized, files, io, role, head, seen, signed>>
  BY DEF Send, Move, Goto
<1>2. Control(r) /\ Trail(r) /\ Follows(r) /\ Observed(r)
  BY <1>0 DEF RunInv, TruthInv
<1>3. \A q \in Runs : pc[q] \in ToSend =>
        \/ role[q] = "initializing" /\ DurableBy("submission", q)
             /\ files["submission"].kind = "exact"
        \/ role[q] = "resuming" /\ DurableBy("resume", q)
  BY <1>0 DEF RunInv, Control, Trail, Follows, ToSend, AfterCommit, Authorized
<1>4. Others(r) /\ ~Writing(r)' /\ pc'[r] = "head"
  BY <1>0, <1>1 DEF Others, Writing, TypeOK
<1>5. pc[r] \in ToSend
  BY <1>1 DEF ToSend
<1>6. RunInv'
  <2>1. Control(r)' /\ Trail(r)' /\ Follows(r)'
    <3>1. Control(r)'
      BY <1>1, <1>2, <1>3, <1>4, <1>5 DEF Control, Undecided, AfterCommit, AfterClaim, AfterWorker,
         AfterStarted, AfterSigned, Looking, Appending
    <3>2. Trail(r)'
      BY <1>4 DEF Trail, AfterClaim, AfterWorker, AfterStarted, AfterSigned, AfterCommit, ToSend
    <3>3. Follows(r)'
      BY <1>1, <1>3, <1>4, <1>5 DEF Follows, OnSuccessor, ToSend, DurableBy, Durable, Visible
    <3> QED
      BY <3>1, <3>2, <3>3
  <2> QED
    BY <1>0, <1>1, <1>4, <2>1, OtherRuns, InFlightKept DEF RunInv
<1>7. FileInv'
  <2>1. \A q \in Runs : (Owns(q)' => Owns(q)) /\ (Resuming(q)' => Resuming(q))
    BY <1>1, <1>4 DEF Owns, Resuming, Others, AfterCommit
  <2>2. /\ \A g : Made(g)' = Made(g) /\ Durable(g)' = Durable(g) /\ By(g)' = By(g)
        /\ files' = files
    BY <1>1 DEF Made, Durable, By
  <2>3. (Succeeded => Stranded)' /\ Ended'
    BY <1>0, <2>1, <2>2, SameOwners
  <2>4. Ladder'
    BY <1>0, <2>2 DEF FileInv, Ladder, DurableBy
  <2> QED
    BY <2>3, <2>4 DEF FileInv
<1>8. SignedInv'
  BY <1>0, <1>1, <1>4 DEF SignedInv, AfterSigned, AfterCommit, DurableBy, Durable, By, Made, Others
<1>9. SentInv'
  <2>1. sent = <<>>
    BY <1>0, <1>5 DEF SentInv
  <2>2. sent' = <<r>> /\ Len(sent') = 1 /\ sent'[1] = r /\ sent' # <<>>
    BY <1>0, <1>1, <2>1, AppendType DEF TypeOK
  <2>3. ~(Made("submission") /\ Made("resume"))
    BY <1>0 DEF FileInv, Succeeded, Stranded
  <2>4. ASSUME NEW q \in Runs PROVE pc'[q] \notin ToSend
    <3>1. CASE q = r
      BY <1>4, <3>1 DEF ToSend
    <3>2. CASE q # r
      BY <1>3, <1>4, <1>5, <2>3, <3>2 DEF DurableBy, Durable, Made, Others
    <3> QED
      BY <3>1, <3>2
  <2>5. \/ DurableBy("submission", r)' /\ files'["submission"].kind = "exact"
        \/ DurableBy("resume", r)'
    BY <1>1, <1>3, <1>5 DEF DurableBy, Durable, By
  <2> QED
    BY <2>2, <2>4, <2>5 DEF SentInv, DurableBy
<1>10. TruthInv'
  <2>1. Settled' = Settled /\ (tx'.at = "mined" => tx' = tx)
    BY <1>0, <1>1 DEF Broadcast, Settled, Final, TypeOK, ChainTypeOK, Transaction
  <2>2. \A q \in Runs : Observed(q)'
    BY <1>0, <1>1, <1>4, <2>1 DEF TruthInv, Observed, Others
  <2> QED
    BY <1>0, <1>1, <2>1, <2>2 DEF TruthInv, ChainInv, RecordsTrue, Made
<1> QED
  BY <1>6, <1>7, <1>8, <1>9, <1>10

-----------------------------------------------------------------------------
(* The network, and the loss of power. *)

LEMMA NetworkSettled ==
  ASSUME TypeOK, ChainInv, Network
  PROVE  /\ Settled # "none" => Settled' = Settled
         /\ finalized <= finalized'
         /\ tx'.at # "unseen" => tx.at # "unseen"
         /\ ChainInv'
<1> USE HeightAssumption DEF TypeOK, ChainTypeOK, Transaction, Settled, Final, Statuses, ChainInv
<1>1. CASE Include
  BY <1>1 DEF Include
<1>2. CASE Reorg
  BY <1>2 DEF Reorg, Unmined
<1>3. CASE Finalize
  BY <1>3 DEF Finalize
<1> QED
  BY <1>1, <1>2, <1>3 DEF Network

LEMMA NetworkInv ==
  ASSUME PoolInv, Network, UNCHANGED <<files, runVars>>
  PROVE  (RunInv /\ FileInv /\ SignedInv /\ SentInv /\ TruthInv)'
<1> USE DEF PoolInv, Made, Durable, DurableBy, Visible, By, OnSuccessor, runVars
<1>1. \A r \in Runs : Target(r)' = Target(r) /\ Writing(r)' = Writing(r)
  BY DEF Target, Writing
<1>2. RunInv'
  <2>1. ASSUME NEW r \in Runs PROVE Control(r)' /\ Trail(r)' /\ Follows(r)'
    BY DEF RunInv, Control, Trail, Follows
  <2>2. ASSUME NEW r \in Runs PROVE InFlight(r)'
    BY <1>1 DEF RunInv, InFlight
  <2> QED
    BY <2>1, <2>2 DEF RunInv
<1>3. FileInv'
  BY DEF FileInv, Ladder, Succeeded, Resuming, Stranded, Ended, Owns
<1>4. SignedInv'
  BY DEF SignedInv
<1>5. /\ Settled # "none" => Settled' = Settled
      /\ finalized <= finalized'
      /\ tx'.at # "unseen" => tx.at # "unseen"
      /\ ChainInv'
  BY NetworkSettled DEF TruthInv
<1>6. SentInv'
  BY <1>5 DEF SentInv
<1>7. TruthInv'
  <2>1. "none" \notin Verdicts
    BY DEF Verdicts
  <2>2. ASSUME NEW r \in Runs PROVE Observed(r)'
    <3>1. head[r] <= finalized'
      <4>1. head[r] <= finalized /\ head[r] \in Nat /\ finalized \in Nat /\ finalized' \in Nat
        <5>1. ChainTypeOK'
          BY ChainStepType DEF TypeOK
        <5> QED
          BY <5>1, HeightAssumption DEF TruthInv, Observed, TypeOK, ChainTypeOK
      <4> QED
        BY <1>5, <4>1
    <3> QED
      BY <1>5, <2>1, <3>1 DEF TruthInv, Observed
  <2> QED
    BY <1>5, <2>1, <2>2 DEF TruthInv, RecordsTrue
<1> QED
  BY <1>2, <1>3, <1>4, <1>6, <1>7

LEMMA PowerLossInv ==
  ASSUME PoolInv, PowerLoss
  PROVE  (RunInv /\ FileInv /\ SignedInv /\ SentInv /\ TruthInv)'
<1>0. TypeOK /\ RunInv /\ FileInv /\ SignedInv /\ SentInv /\ TruthInv
  BY DEF PoolInv
<1>1. \A f \in Names :
        /\ Durable(f) => files'[f] = files[f]
        /\ ~Made(f) => ~Made(f)'
        /\ Made(f)' => /\ files'[f].by = files[f].by
                       /\ files'[f].kind = files[f].kind
  BY <1>0, PowerLossFiles DEF PowerLoss, TypeOK
<1>2. /\ UNCHANGED <<tx, finalized, role, head, seen, signed, sent>>
      /\ \A r \in Runs : /\ io'[r] = "none"
                         /\ pc'[r] = "halted" \/ (pc'[r] = "idle" /\ pc[r] = "idle")
  BY <1>0 DEF PowerLoss, Live, TypeOK
<1>3. ASSUME NEW r \in Runs
      PROVE  /\ pc'[r] \in {"idle", "halted"} /\ (pc'[r] = "idle" => role'[r] = "none")
             /\ ~Owns(r)' /\ ~Resuming(r)'
  BY <1>0, <1>2 DEF RunInv, Control, Owns, Resuming, Undecided, Authorized, AfterCommit
<1>4. RunInv'
  <2>1. ASSUME NEW r \in Runs PROVE Control(r)' /\ Trail(r)' /\ Follows(r)' /\ InFlight(r)'
    <3>1. Control(r)'
      BY <1>0, <1>2, <1>3 DEF RunInv, Control, Undecided, AfterCommit, AfterClaim, AfterWorker,
         AfterStarted, AfterSigned, Looking
    <3>2. Trail(r)' /\ Follows(r)'
      BY <1>3 DEF Trail, Follows, AfterCommit, AfterClaim, AfterWorker, AfterStarted, AfterSigned,
         Looking, ToSend
    <3>3. InFlight(r)'
      BY <1>2 DEF InFlight, Writing
    <3> QED
      BY <3>1, <3>2, <3>3
  <2> QED
    BY <2>1 DEF RunInv
<1>5. \A f \in Names : /\ Durable(f) => Durable(f)' /\ By(f)' = By(f)
                       /\ Made(f)' => Made(f) /\ By(f)' = By(f)
  BY <1>1 DEF Durable, Made, By
<1>6. FileInv'
  <2>1. Ladder'
    BY <1>0, <1>1, <1>5 DEF FileInv, Ladder, DurableBy, Names, Made
  <2>2. By("claim")' \in Runs => ~Owns(By("claim"))'
    <3>1. ASSUME NEW r \in Runs, By("claim")' = r PROVE ~Owns(By("claim"))'
      BY <1>3, <3>1 DEF Owns
    <3> QED
      BY <3>1
  <2>3. (Succeeded => Stranded)'
    <3>1. Succeeded' => Succeeded
      BY <1>3, <1>5 DEF Succeeded, Names
    <3>2. Stranded => Stranded'
      BY <1>0, <1>5, <2>2 DEF FileInv, Ladder, Stranded, Names, Made, Durable
    <3> QED
      BY <1>0, <3>1, <3>2 DEF FileInv
  <2>4. Ended'
    <3>1. Made("terminal")' => Durable("claim") /\ By("claim") \in Runs
      BY <1>0, <1>5, LadderDown DEF FileInv, Ladder, Names, Made, Durable
    <3> QED
      BY <1>0, <1>1, <1>5, <2>2, <3>1 DEF FileInv, Ended, Names
  <2> QED
    BY <2>1, <2>3, <2>4 DEF FileInv
<1>7. SignedInv'
  BY <1>0, <1>2, <1>3, <1>5 DEF SignedInv, DurableBy, Names, AfterSigned, AfterCommit
<1>8. SentInv'
  BY <1>0, <1>1, <1>2, <1>3, <1>5 DEF SentInv, DurableBy, Names, ToSend
<1>9. TruthInv'
  <2>1. \A r \in Runs : Observed(r)'
    BY <1>0, <1>2, <1>3 DEF TruthInv, Observed, Settled, Final
  <2>2. RecordsTrue'
    BY <1>0, <1>1, <1>2, <1>5 DEF TruthInv, RecordsTrue, Terminal, Settled, Final, Names
  <2> QED
    BY <1>0, <1>2, <2>1, <2>2 DEF TruthInv, ChainInv
<1> QED
  BY <1>4, <1>6, <1>7, <1>8, <1>9
-----------------------------------------------------------------------------
(* The invariant. *)

LEMMA InitInv == Init => PoolInv
<1> SUFFICES ASSUME Init PROVE PoolInv
  OBVIOUS
<1>1. TypeOK
  BY InitType
<1>2. /\ \A f \in Names : files[f] = NoFile
      /\ \A r \in Runs : pc[r] = "idle" /\ io[r] = "none" /\ role[r] = "none"
                           /\ head[r] = 0 /\ seen[r] = "none"
      /\ signed = <<>> /\ sent = <<>> /\ tx.at = "unseen" /\ finalized = 0
  BY DEF Init, JournalsInit, ChainInit, Unmined
<1>3. \A f \in Names : ~Made(f)
  BY <1>2 DEF Made, NoFile
<1>4. RunInv
  BY <1>2 DEF RunInv, Control, Trail, Follows, InFlight, Writing, Undecided, AfterCommit, AfterClaim,
     AfterWorker, AfterStarted, AfterSigned, Looking, ToSend
<1>5. FileInv
  BY <1>2, <1>3 DEF FileInv, Ladder, Succeeded, Resuming, Ended, Names
<1>6. SignedInv /\ SentInv
  BY <1>2, <1>3 DEF SignedInv, SentInv, Names
<1>7. TruthInv
  BY <1>2, <1>3 DEF TruthInv, ChainInv, Observed, RecordsTrue, Terminal, Names
<1> QED
  BY <1>1, <1>4, <1>5, <1>6, <1>7 DEF PoolInv

LEMMA InvStep ==
  ASSUME PoolInv, [Next]_vars
  PROVE  PoolInv'
<1>1. Appends
  BY DEF Appends, PoolInv, RunInv, Control
<1>2. TypeOK'
  BY <1>1, TypeStep DEF PoolInv
<1> SUFFICES (RunInv /\ FileInv /\ SignedInv /\ SentInv /\ TruthInv)'
  BY <1>2 DEF PoolInv
<1>3. CASE UNCHANGED vars
  BY <1>3, SameInv DEF vars, runVars
<1>4. ASSUME NEW r \in Runs,
             \/ Looks(r) \/ Sign(r) \/ Send(r) \/ Fail(r) \/ Expire(r)
             \/ Check(r) \/ Create(r) \/ Refuse(r) \/ Write(r) \/ Sync(r)
      PROVE  (RunInv /\ FileInv /\ SignedInv /\ SentInv /\ TruthInv)'
  <2>1. CASE Expire(r)
    BY <2>1, SameInv DEF Expire
  <2> QED
    BY <1>1, <1>4, <2>1, LookInv, SignInv, SendInv, QuietInv, CreateInv, WriteInv, SyncInv
<1> QED
  BY <1>3, <1>4, NextCases, NetworkInv, PowerLossInv

THEOREM PoolInvariant == Spec => []PoolInv
<1>1. Init => PoolInv
  BY InitInv
<1>2. PoolInv /\ [Next]_vars => PoolInv'
  BY InvStep
<1> QED
  BY <1>1, <1>2, PTL DEF Spec

LEMMA OneElement ==
  ASSUME NEW s \in Seq(Runs), s = <<>> \/ Len(s) = 1
  PROVE  Len(s) <= 1 /\ (s = <<>> => Range(s) = {}) /\ (s # <<>> => Range(s) = {s[1]})
<1>1. DOMAIN s = 1..Len(s) /\ Len(<<>>) = 0
  OBVIOUS
<1>2. CASE s = <<>>
  BY <1>1, <1>2 DEF Range
<1>3. CASE s # <<>>
  <2>1. DOMAIN s = {1}
    BY <1>1, <1>3
  <2>2. Range(s) = {s[i] : i \in {1}}
    BY <2>1 DEF Range
  <2> QED
    BY <1>1, <1>3, <2>2
<1> QED
  BY <1>2, <1>3

LEMMA OneEach ==
  ASSUME PoolInv
  PROVE  /\ Len(signed) <= 1 /\ Len(sent) <= 1
         /\ Range(signed) = IF signed = <<>> THEN {} ELSE {By("claim")}
         /\ Range(sent) = IF sent = <<>> THEN {} ELSE {sent[1]}
BY OneElement DEF PoolInv, TypeOK, SignedInv, SentInv

LEMMA Trails ==
  ASSUME PoolInv
  PROVE  /\ signed # <<>> =>
              /\ \A f \in {"claim", "worker", "started"} : DurableBy(f, By("claim"))
              /\ files["worker"].kind = "worker_authorized"
         /\ sent # <<>> =>
              /\ Durable("signed") /\ Durable("commit") /\ By("signed") = By("claim")
              /\ signed # <<>>
<1>1. FileInv /\ SignedInv /\ SentInv
  BY DEF PoolInv
<1>2. signed # <<>> => /\ \A f \in {"claim", "worker", "started"} : DurableBy(f, By("claim"))
                       /\ files["worker"].kind = "worker_authorized"
  BY <1>1 DEF FileInv, Ladder, SignedInv, DurableBy, Durable, Made
<1>3. sent # <<>> => Durable("commit")
  BY <1>1 DEF FileInv, Succeeded, Stranded, Ladder, SentInv, DurableBy, Durable, Made
<1>4. Durable("commit") => Made("commit") /\ Made("signed")
  BY <1>1, LadderDown DEF Durable, Made
<1> QED
  BY <1>1, <1>2, <1>3, <1>4, LadderDown DEF SignedInv

(***************************************************************************)
(* One signature and one send, whatever crashes, restarts, races and       *)
(* losses of power (PoolProps!AtMostOnce).                                 *)
(***************************************************************************)
THEOREM PoolAtMostOnce == Spec => []AtMostOnce
<1>1. PoolInv => AtMostOnce
  BY OneEach DEF AtMostOnce
<1> QED
  BY <1>1, PoolInvariant, PTL

(***************************************************************************)
(* Signatures and sends leave durable records of the authorization they    *)
(* were made under (PoolProps!WriteAhead).                                 *)
(***************************************************************************)
THEOREM PoolWriteAhead == Spec => []WriteAhead
<1>1. ASSUME PoolInv PROVE WriteAhead
  <2>1. ASSUME NEW r \in Range(signed)
        PROVE  /\ \A f \in {"claim", "worker", "started"} : DurableBy(f, r)
               /\ files["worker"].kind = "worker_authorized"
    BY <1>1, <2>1, OneEach, Trails
  <2>2. ASSUME NEW r \in Range(sent)
        PROVE  /\ Durable("signed") /\ Durable("commit")
               /\ By("signed") \in Range(signed)
               /\ DurableBy("submission", r) \/ DurableBy("resume", r)
    <3>1. sent # <<>> /\ r = sent[1]
      BY <1>1, <2>2, OneEach
    <3> QED
      BY <1>1, <3>1, OneEach, Trails DEF PoolInv, SentInv
  <2> QED
    BY <2>1, <2>2 DEF WriteAhead
<1> QED
  BY <1>1, PoolInvariant, PTL

(***************************************************************************)
(* Nothing is signed or sent under a claim that was ended on record        *)
(* (PoolProps!EndedForGood).                                               *)
(***************************************************************************)
THEOREM PoolEndedForGood == Spec => []EndedForGood
<1>1. PoolInv => EndedForGood
  BY Trails DEF EndedForGood, GivenUp
<1> QED
  BY <1>1, PoolInvariant, PTL

(***************************************************************************)
(* A late start is never sent on or ended, and the two generations never   *)
(* both start the submission (PoolProps!OneValidStart).                    *)
(***************************************************************************)
THEOREM PoolOneValidStart == Spec => []OneValidStart
<1>1. ASSUME PoolInv PROVE OneValidStart
  <2>1. FileInv /\ SentInv
    BY <1>1 DEF PoolInv
  <2>2. ~(Made("submission") /\ Made("resume"))
    BY <2>1 DEF FileInv, Succeeded, Stranded
  <2>3. LateStart => By("submission") \notin Range(sent)
    BY <1>1, <2>1, <2>2, OneEach DEF SentInv, LateStart, DurableBy, Durable, Made
  <2>4. LateStart => ~Made("terminal")
    BY <2>1 DEF FileInv, Ended, LateStart, Made
  <2> QED
    BY <2>2, <2>3, <2>4 DEF OneValidStart, Made
<1> QED
  BY <1>1, PoolInvariant, PTL

(***************************************************************************)
(* A terminal record that can be read states the outcome the chain cannot  *)
(* lose any more (PoolProps!TerminalTruth).                                *)
(***************************************************************************)
THEOREM PoolTerminalTruth == Spec => []TerminalTruth
<1>1. PoolInv => TerminalTruth
  BY DEF PoolInv, TruthInv, RecordsTrue, TerminalTruth, Terminal, Visible, Made
<1> QED
  BY <1>1, PoolInvariant, PTL

LEMMA KeptRecords ==
  ASSUME PoolInv, [Next]_vars, NEW f \in Names, Durable(f)
  PROVE  files'[f] = files[f]
<1>0. TypeOK /\ RunInv /\ Appends
  BY DEF PoolInv, Appends, RunInv, Control
<1>1. CASE files' = files
  BY <1>1
<1>2. ASSUME NEW r \in Runs, Create(r) \/ Write(r) \/ Sync(r) PROVE files'[f] = files[f]
  BY <1>0, <1>2, CreateEffect, WriteEffect, SyncEffect DEF Durable, Made
<1>3. CASE PowerLoss
  BY <1>0, <1>3, PowerLossFiles DEF PowerLoss, TypeOK
<1>4. ASSUME NEW r \in Runs, Looks(r) PROVE files' = files
  BY <1>0, <1>4, LookLocal DEF PoolInv, Looked
<1>5. ASSUME NEW r \in Runs, Sign(r) \/ Send(r) \/ Fail(r) \/ Expire(r) \/ Check(r) \/ Refuse(r)
      PROVE  files' = files
  BY <1>5 DEF Sign, Send, Fail, Expire, Check, Refuse
<1> QED
  BY <1>1, <1>2, <1>3, <1>4, <1>5, NextCases DEF vars

(***************************************************************************)
(* A record on the disk is never changed (PoolProps!AppendOnly).           *)
(***************************************************************************)
THEOREM PoolAppendOnly == Spec => AppendOnly
<1>1. PoolInv /\ [Next]_vars => [\A f \in Names : Durable(f) => files'[f] = files[f]]_vars
  BY KeptRecords
<1> QED
  BY <1>1, PoolInvariant, PTL DEF Spec, AppendOnly

(* By the start of the submission all the records before it are on disk. *)
LEMMA RecordsOfStart ==
  ASSUME PoolInv, Durable("submission") \/ Durable("resume")
  PROVE  \A f \in {"claim", "worker", "started", "signed", "commit"} : Durable(f)
<1>1. Ladder /\ (Succeeded => Stranded)
  BY DEF PoolInv, FileInv
<1>2. Durable("commit")
  BY <1>1 DEF Ladder, Succeeded, Stranded, DurableBy, Durable, Made
<1> QED
  BY <1>1, <1>2 DEF Ladder, DurableBy, Durable, Made

(***************************************************************************)
(* Once either generation has started the submission, every other record   *)
(* is on the disk, and only the outcome is still to come                   *)
(* (PoolProps!OnlyOutcomesFollow).                                         *)
(***************************************************************************)
THEOREM PoolOnlyOutcomesFollow == Spec => OnlyOutcomesFollow
<1> DEFINE Closed == \A f \in Names \ Terminal :
                       files'[f].st # "absent" => Durable(f) /\ files'[f] = files[f]
<1>1. ASSUME PoolInv, [Next]_vars, PoolInv', Durable("submission") \/ Durable("resume")
      PROVE  Closed
  <2>1. \A f \in Names : Durable(f) => files'[f] = files[f]
    BY <1>1, KeptRecords
  <2>2. FileInv'
    BY <1>1 DEF PoolInv
  <2>3. ~(Made("submission") /\ Made("resume"))'
    BY <2>2 DEF FileInv, Succeeded, Stranded
  <2>4. \A f \in {"claim", "worker", "started", "signed", "commit"} : Durable(f)
    BY <1>1, RecordsOfStart
  <2>5. \A f \in {"submission", "resume"} : files'[f].st # "absent" => Durable(f)
    BY <1>1, <2>1, <2>3 DEF Durable, Made, Names
  <2>6. \A f \in Names \ Terminal : files'[f].st # "absent" => Durable(f)
    BY <2>4, <2>5 DEF Names, Terminal
  <2> QED
    BY <2>1, <2>6
<1>2. PoolInv /\ PoolInv' /\ [Next]_vars =>
        [Durable("submission") \/ Durable("resume") => Closed]_vars
  BY <1>1
<1> QED
  BY <1>2, PoolInvariant, PTL DEF Spec, OnlyOutcomesFollow

LEMMA SignedSteps ==
  ASSUME PoolInv, [Next]_vars
  PROVE  /\ \/ UNCHANGED signed
            \/ \E r \in Runs : Sign(r)
         /\ \/ UNCHANGED sent
            \/ \E r \in Runs : Send(r)
<1>0. TypeOK /\ Appends
  BY DEF PoolInv, Appends, RunInv, Control
<1>1. ASSUME NEW r \in Runs, Looks(r) PROVE UNCHANGED <<signed, sent>>
  BY <1>0, <1>1, LookLocal DEF PoolInv, Looked
<1>2. ASSUME NEW r \in Runs, \/ Fail(r) \/ Expire(r) \/ Check(r) \/ Create(r) \/ Refuse(r)
                             \/ Write(r) \/ Sync(r)
      PROVE  UNCHANGED <<signed, sent>>
  BY <1>2 DEF Fail, Expire, Check, Create, Refuse, Write, Sync
<1>3. ASSUME NEW r \in Runs, Sign(r) PROVE UNCHANGED sent
  BY <1>3 DEF Sign
<1>4. ASSUME NEW r \in Runs, Send(r) PROVE UNCHANGED signed
  BY <1>4 DEF Send
<1>5. PowerLoss \/ (Network /\ UNCHANGED <<files, runVars>>) \/ UNCHANGED vars =>
        UNCHANGED <<signed, sent>>
  BY DEF PowerLoss, runVars, vars
<1> QED
  BY <1>1, <1>2, <1>3, <1>4, <1>5, NextCases

(***************************************************************************)
(* Nothing is signed or sent for an authorization whose process has ended  *)
(* (PoolProps!RestartOnlyReconciles).                                      *)
(***************************************************************************)
THEOREM PoolRestartOnlyReconciles == Spec => RestartOnlyReconciles
<1> DEFINE P == /\ Orphaned("claim") => UNCHANGED signed
                /\ (Orphaned("submission") \/ Orphaned("resume")) => UNCHANGED sent
<1>1. ASSUME PoolInv, [Next]_vars PROVE P
  <2>1. RunInv /\ FileInv
    BY <1>1 DEF PoolInv
  <2>2. ASSUME NEW r \in Runs, Sign(r) PROVE ~Orphaned("claim")
    BY <2>1, <2>2 DEF Sign, Move, RunInv, Control, Trail, AfterClaim, AfterWorker, AfterStarted,
       AfterCommit, AfterSigned, Orphaned, Owns, Authorized, DurableBy
  <2>3. ASSUME NEW r \in Runs, Send(r) PROVE ~Orphaned("submission") /\ ~Orphaned("resume")
    <3>1. Owns(r) /\ \/ role[r] = "initializing" /\ DurableBy("submission", r)
                     \/ role[r] = "resuming" /\ DurableBy("resume", r)
      BY <2>1, <2>3 DEF Send, Move, RunInv, Control, Trail, Follows, AfterCommit, ToSend, Owns,
         Authorized
    <3>2. ~(Made("submission") /\ Made("resume"))
      BY <2>1 DEF FileInv, Succeeded, Stranded
    <3> QED
      BY <3>1, <3>2 DEF Orphaned, DurableBy, Durable, Made
  <2> QED
    BY <1>1, <2>2, <2>3, SignedSteps
<1>2. PoolInv /\ [Next]_vars => [P]_vars
  BY <1>1
<1> QED
  BY <1>2, PoolInvariant, PTL DEF Spec, RestartOnlyReconciles
-----------------------------------------------------------------------------
(* The refinement: every step is one of the promise, or a stutter.         *)

EndedOnRecord == Durable("worker") /\ files["worker"].kind = "failed_before_worker"

Outcome == IF Durable("settled") THEN Recorded("settled") ELSE Recorded("terminal")

(* What is recorded of the outcome is the outcome, once, and only for a    *)
(* claim that was not ended.                                               *)
Promised ==
  /\ Outcome # "none" => Outcome = Settled /\ Settled \in Verdicts /\ ~EndedOnRecord
  /\ (\E f \in Terminal : Durable(f)) => Outcome # "none"
  /\ signed # <<>> => ~EndedOnRecord
  /\ sent # <<>> => signed # <<>>
  /\ Len(signed) <= 1 /\ Len(sent) <= 1

LEMMA PromisedInv == PoolInv => Promised
<1> SUFFICES ASSUME PoolInv PROVE Promised
  OBVIOUS
<1>1. FileInv /\ TruthInv
  BY DEF PoolInv
<1>2. ASSUME NEW f \in Terminal, Durable(f)
      PROVE  Recorded(f) = Settled /\ Settled \in Verdicts
    BY <1>1, <1>2 DEF TruthInv, RecordsTrue, Made, Durable, Recorded
<1>3. Durable("settled") \/ Durable("terminal") => Durable("commit")
  BY <1>1 DEF FileInv, Ladder, Succeeded, Stranded, Made, Durable
<1>4. Durable("commit") => ~EndedOnRecord
  <2>1. Durable("commit") => Made("signed") /\ Made("started")
    BY <1>1, LadderDown DEF Made, Durable
  <2> QED
    BY <1>1, <2>1 DEF FileInv, Ladder, EndedOnRecord
<1>5. "settled" \in Terminal /\ "terminal" \in Terminal /\ "none" \notin Verdicts
  BY DEF Terminal, Verdicts
<1>6. signed # <<>> => ~EndedOnRecord
  BY Trails DEF EndedOnRecord
<1>7. sent # <<>> => signed # <<>>
  BY Trails
<1> QED
  BY <1>2, <1>3, <1>4, <1>5, <1>6, <1>7, OneEach DEF Promised, Outcome, Recorded, Terminal

(* A step that only writes files ends the claim, records the outcome, or   *)
(* does neither.                                                           *)
LEMMA FileSteps ==
  ASSUME PoolInv, Promised', [Next]_vars, UNCHANGED <<tx, finalized, signed, sent>>
  PROVE  \/ UNCHANGED <<EndedOnRecord, Outcome>>
         \/ EndedOnRecord' /\ signed = <<>> /\ UNCHANGED Outcome
         \/ Outcome = "none" /\ Outcome' = Settled /\ Settled \in Verdicts /\ UNCHANGED EndedOnRecord
<1>1. UNCHANGED Settled
  BY DEF Settled, Final
<1>2. ASSUME NEW f \in Names, Durable(f) PROVE Durable(f)' /\ files'[f] = files[f]
  BY <1>2, KeptRecords DEF Durable
<1>3. "worker" \in Names /\ "settled" \in Names /\ "terminal" \in Names
  BY DEF Names
<1>4. EndedOnRecord => EndedOnRecord'
  BY <1>2, <1>3 DEF EndedOnRecord
<1>5. EndedOnRecord \in BOOLEAN /\ EndedOnRecord' \in BOOLEAN
  BY DEF EndedOnRecord
<1>6. /\ Outcome # "none" => Outcome = Settled /\ ~EndedOnRecord
      /\ (\E f \in Terminal : Durable(f)) => Outcome # "none"
      /\ signed # <<>> => ~EndedOnRecord
  BY PromisedInv DEF Promised
<1>7. /\ Outcome' # "none" => Outcome' = Settled /\ Settled \in Verdicts /\ ~EndedOnRecord'
      /\ (\E f \in Terminal : Durable(f)') => Outcome' # "none"
      /\ signed # <<>> => ~EndedOnRecord'
  <2>1. /\ Outcome' # "none" => Outcome' = Settled' /\ Settled' \in Verdicts /\ ~EndedOnRecord'
        /\ (\E f \in Terminal : Durable(f)') => Outcome' # "none"
        /\ signed' # <<>> => ~EndedOnRecord'
    BY DEF Promised
  <2> QED
    BY <1>1, <2>1
<1>8. Outcome # "none" => Outcome' # "none"
  <2>1. Outcome # "none" => Durable("settled") \/ Durable("terminal")
    BY DEF Outcome, Recorded
  <2> QED
    BY <1>2, <1>3, <1>7, <2>1 DEF Terminal
<1> QED
  BY <1>1, <1>4, <1>5, <1>6, <1>7, <1>8

LEMMA PromiseStep ==
  ASSUME PoolInv, PoolInv', Promised', [Next]_vars
  PROVE  OneShot!Next \/ UNCHANGED OneShot!vars
<1> DEFINE abstract == <<signed, sent, EndedOnRecord, Settled, Outcome>>
<1>1. OneShot!vars = abstract /\ (OneShot!vars)' = abstract'
  BY DEF OneShot!vars, EndedOnRecord, Outcome, Recorded
<1>2. TypeOK /\ Appends
  BY DEF PoolInv, Appends, RunInv, Control
<1>3. SUFFICES
        \/ UNCHANGED abstract
        \/ \E r \in Runs :
             /\ signed = <<>> /\ ~EndedOnRecord /\ signed' = <<r>>
             /\ UNCHANGED <<sent, EndedOnRecord, Settled, Outcome>>
        \/ signed = <<>> /\ EndedOnRecord' /\ UNCHANGED <<signed, sent, Settled, Outcome>>
        \/ \E r \in Runs :
             /\ signed # <<>> /\ sent = <<>> /\ sent' = <<r>>
             /\ UNCHANGED <<signed, EndedOnRecord, Settled, Outcome>>
        \/ /\ sent # <<>> /\ Settled = "none" /\ Settled' \in Statuses
           /\ UNCHANGED <<signed, sent, EndedOnRecord, Outcome>>
        \/ /\ Settled \in Verdicts /\ Outcome = "none" /\ Outcome' = Settled
           /\ UNCHANGED <<signed, sent, EndedOnRecord, Settled>>
  BY <1>1 DEF OneShot!Next, OneShot!Sign, OneShot!Send, OneShot!GiveUp, OneShot!Settle,
     OneShot!Record, OneShot!Verdicts, Verdicts, Statuses, EndedOnRecord, Outcome, Recorded
<1>4. files' = files => UNCHANGED <<EndedOnRecord, Outcome>>
  BY DEF EndedOnRecord, Outcome, Recorded, Durable
<1>5. UNCHANGED <<tx, finalized>> => UNCHANGED Settled
  BY DEF Settled, Final
<1>6. CASE UNCHANGED <<tx, finalized, signed, sent>>
  BY <1>5, <1>6, FileSteps
<1>7. ASSUME NEW r \in Runs, Sign(r) PROVE
          /\ signed = <<>> /\ ~EndedOnRecord /\ signed' = <<r>>
          /\ UNCHANGED <<sent, EndedOnRecord, Settled, Outcome>>
  <2>1. files' = files /\ UNCHANGED <<tx, finalized, sent>> /\ signed' = Append(signed, r)
    BY <1>7 DEF Sign
  <2>2. Len(signed') <= 1 /\ Len(signed') = Len(signed) + 1
    <3>1. Len(signed') <= 1
      BY DEF Promised
    <3> QED
      BY <1>2, <2>1, <3>1 DEF TypeOK
  <2>3. signed = <<>> /\ signed' = <<r>> /\ signed' # <<>>
    BY <1>2, <2>1, <2>2, AppendType DEF TypeOK
  <2>4. signed' # <<>> => ~EndedOnRecord'
    BY DEF Promised
  <2> QED
    BY <1>4, <1>5, <2>1, <2>3, <2>4
<1>8. ASSUME NEW r \in Runs, Send(r) PROVE
          /\ signed # <<>> /\ sent = <<>> /\ sent' = <<r>>
          /\ UNCHANGED <<signed, EndedOnRecord, Settled, Outcome>>
  <2>1. files' = files /\ UNCHANGED <<finalized, signed>> /\ sent' = Append(sent, r) /\ Broadcast
    BY <1>8 DEF Send
  <2>2. Len(sent') <= 1 /\ Len(sent') = Len(sent) + 1
    <3>1. Len(sent') <= 1
      BY DEF Promised
    <3> QED
      BY <1>2, <2>1, <3>1 DEF TypeOK
  <2>3. sent = <<>> /\ sent' = <<r>> /\ sent' # <<>>
    BY <1>2, <2>1, <2>2, AppendType DEF TypeOK
  <2>4. sent' # <<>> => signed' # <<>>
    BY DEF Promised
  <2>5. UNCHANGED Settled
    BY <1>2, <2>1 DEF Broadcast, Settled, Final, TypeOK, ChainTypeOK, Transaction
  <2> QED
    BY <1>4, <2>1, <2>3, <2>4, <2>5
<1>9. CASE Network /\ UNCHANGED <<files, runVars>>
  <2>1. UNCHANGED <<files, signed, sent>>
    BY <1>9 DEF runVars
  <2>2. Settled # "none" => Settled' = Settled
    BY <1>2, <1>9, NetworkSettled DEF PoolInv, TruthInv
  <2>3. Settled' # "none" => Settled' \in Statuses /\ sent' # <<>>
    BY DEF PoolInv, TruthInv, ChainInv, SentInv, Settled, Final
  <2> QED
    BY <1>4, <2>1, <2>2, <2>3
<1>10. UNCHANGED <<tx, finalized>> \/ (\E r \in Runs : Send(r)) \/ (Network /\ UNCHANGED <<files, runVars>>)
  <2>1. ASSUME NEW r \in Runs, Looks(r) PROVE UNCHANGED <<tx, finalized>>
    BY <1>2, <2>1, LookLocal DEF PoolInv, Looked
  <2>2. ASSUME NEW r \in Runs, \/ Sign(r) \/ Fail(r) \/ Expire(r) \/ Check(r) \/ Create(r)
                               \/ Refuse(r) \/ Write(r) \/ Sync(r)
        PROVE  UNCHANGED <<tx, finalized>>
    BY <2>2 DEF Sign, Fail, Expire, Check, Create, Refuse, Write, Sync
  <2>3. PowerLoss \/ UNCHANGED vars => UNCHANGED <<tx, finalized>>
    BY DEF PowerLoss, vars
  <2> QED
    BY <2>1, <2>2, <2>3, NextCases
<1> QED
  BY <1>6, <1>7, <1>8, <1>9, <1>10, SignedSteps

(***************************************************************************)
(* The initializer implements the one-shot promise: one signature, one     *)
(* send after it, nothing after the claim was ended, and the true outcome  *)
(* recorded at most once (PoolProps!ImplementsOneShot).                    *)
(***************************************************************************)
THEOREM PoolImplementsOneShot == Spec => ImplementsOneShot
<1>1. Init => OneShot!Init
  <2> SUFFICES ASSUME Init PROVE OneShot!Init
    OBVIOUS
  <2>1. \A f \in Names : ~Durable(f)
    BY DEF Init, JournalsInit, NoFile, Durable
  <2>2. Settled = "none"
    BY DEF Init, ChainInit, Unmined, Settled, Final
  <2> QED
    BY <2>1, <2>2 DEF OneShot!Init, Init, Recorded, Names
<1>2. PoolInv /\ PoolInv' /\ Promised' /\ [Next]_vars => [OneShot!Next]_(OneShot!vars)
  BY PromiseStep
<1> QED
  BY <1>1, <1>2, PromisedInv, PoolInvariant, PTL DEF Spec, ImplementsOneShot, OneShot!Spec
=============================================================================
