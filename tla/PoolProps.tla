----------------------------- MODULE PoolProps -----------------------------
(***************************************************************************)
(* What must hold of the pool initializer, its journals and the chain.     *)
(***************************************************************************)
EXTENDS PoolInitializer

(***************************************************************************)
(* At most one run ever signs and at most one ever sends, over both        *)
(* releases, whatever crashed, was started again or raced, and whatever a  *)
(* power loss took from the journals.                                      *)
(***************************************************************************)
AtMostOnce == Len(signed) <= 1 /\ Len(sent) <= 1

(***************************************************************************)
(* A signature and a send leave a trail that no crash can take back: the   *)
(* records that announced them, of the same authorization, are durable,    *)
(* and the announced send is of a signature that was committed.            *)
(***************************************************************************)
Range(s) == {s[i] : i \in DOMAIN s}

DurableBy(f, r) == Durable(f) /\ By(f) = r

WriteAhead ==
  /\ \A r \in Range(signed) :
       /\ \A f \in {"claim", "worker", "started"} : DurableBy(f, r)
       /\ files["worker"].kind = "worker_authorized"
  /\ \A r \in Range(sent) :
       /\ Durable("signed") /\ Durable("commit")
       /\ By("signed") \in Range(signed)
       /\ DurableBy("submission", r) \/ DurableBy("resume", r)

(***************************************************************************)
(* A claim that was ended before its worker is ended for good: nothing was *)
(* signed or sent under it, and nothing will be.                           *)
(***************************************************************************)
GivenUp == Visible("worker") /\ files["worker"].kind = "failed_before_worker"

EndedForGood == GivenUp => signed = <<>> /\ sent = <<>>

(***************************************************************************)
(* A start recorded after the expiry of its authorization is never sent    *)
(* on, and never gets a terminal; and the submission is not started by     *)
(* both generations.                                                       *)
(***************************************************************************)
LateStart == files["submission"].st # "absent" /\ files["submission"].kind = "late"

OneValidStart ==
  /\ LateStart => By("submission") \notin Range(sent) /\ files["terminal"].st = "absent"
  /\ files["submission"].st = "absent" \/ files["resume"].st = "absent"

(***************************************************************************)
(* A terminal record states the outcome the chain can no longer change,    *)
(* although one of the two providers may answer anything; a success that   *)
(* is not the transaction's own is never recorded.                         *)
(***************************************************************************)
TerminalTruth ==
  \A f \in {"terminal", "settled"} : Visible(f) => files[f].kind = Settled

(***************************************************************************)
(* A record that has reached the disk is never changed, also by a power    *)
(* loss, a rerun or the other release.                                     *)
(***************************************************************************)
AppendOnly == [][\A f \in Names : Durable(f) => files'[f] = files[f]]_vars

(***************************************************************************)
(* Once the process that holds the claim has ended nothing is signed any   *)
(* more, and once the process that started the submission has ended        *)
(* nothing is sent: every later process only reconciles.                   *)
(***************************************************************************)
Owns(r) == pc[r] # "halted" /\ role[r] \in Authorized

Orphaned(f) == Durable(f) /\ ~Owns(By(f))

RestartOnlyReconciles ==
  [][/\ Orphaned("claim") => UNCHANGED signed
     /\ (Orphaned("submission") \/ Orphaned("resume")) => UNCHANGED sent]_vars

(***************************************************************************)
(* The start of the submission, in the journal of either release, closes   *)
(* the record: whatever else there is by then has reached the disk, and no *)
(* run of either release, begun before the start or after it, adds         *)
(* anything but the outcome ("Restart may only inspect durable evidence",  *)
(* production-composition.server.ts:985).                                  *)
(***************************************************************************)
Terminal == {"terminal", "settled"}

OnlyOutcomesFollow ==
  [][Durable("submission") \/ Durable("resume") =>
       \A f \in Names \ Terminal :
         files'[f].st # "absent" => Durable(f) /\ files'[f] = files[f]]_vars

(***************************************************************************)
(* The initializer implements the one-shot promise.                        *)
(***************************************************************************)
Recorded(f) == IF Durable(f) THEN files[f].kind ELSE "none"

OneShot == INSTANCE PoolOneShot WITH
  Agents <- Runs,
  signers <- signed,
  senders <- sent,
  ended <- Durable("worker") /\ files["worker"].kind = "failed_before_worker",
  truth <- Settled,
  recorded <- IF Durable("settled") THEN Recorded("settled") ELSE Recorded("terminal")

ImplementsOneShot == OneShot!Spec
-----------------------------------------------------------------------------
(* The operator starts the command again whenever it has ended, a run does *)
(* not stand still (the waits of the code are bounded, so it goes on or    *)
(* fails), and no step of a recovery crashes, or is answered with old or   *)
(* missing evidence, every time it is tried.  The power holds.             *)
FreshHead(r) == ReadHead(r) /\ head'[r] = finalized

FairSpec ==
  /\ Init
  /\ [][Next /\ ~PowerLoss]_vars
  /\ \A r \in Runs : WF_vars(Start(r) \/ Rerun(r) \/ Step(r) \/ Fail(r))
  /\ SF_vars(\E r \in Runs : ResumeRecovers(r) \/ ProbeRecovers(r))
  /\ SF_vars(\E r \in Runs : FreshHead(r))
  /\ SF_vars(\E r \in Runs : Reconciled(r))
  /\ SF_vars(\E r \in Runs : pc[r] = "settle" /\ Check(r))
  /\ SF_vars(\E r \in Runs : pc[r] = "settle" /\ Create(r))

(***************************************************************************)
(* A transaction that was sent and whose outcome is final is in the end    *)
(* recorded, by its own run or by a later one, unless the run that records *)
(* it crashes in the middle of the record.                                 *)
(***************************************************************************)
Reconcilable ==
  sent # <<>> /\ Settled \in Verdicts /\ tx.block + Depth <= finalized

RecordTorn(f) == files[f].st = "torn" /\ \A r \in Runs : io[r] = "none"

SentIsReconciled ==
  Reconcilable ~> \E f \in Terminal : Visible(f) \/ RecordTorn(f)
=============================================================================
