------------------------------ MODULE PoolInv ------------------------------
(***************************************************************************)
(* The inductive invariant behind the safety properties of PoolProps, in   *)
(* four parts: where a run can stand and what it has on the disk by then;  *)
(* how the files depend on each other; what was signed and sent; and what  *)
(* the observations and the terminal records say about the chain.          *)
(***************************************************************************)
EXTENDS PoolProps

(* The places in their order, by the decision they belong to. *)
Undecided == {"idle", "dispatch", "probe", "ceremony", "resume"}
AfterCommit == {"submit", "start", "arm", "send"}
AfterSigned == AfterCommit \cup {"present", "seed"}
AfterStarted == AfterSigned \cup {"sign", "commit"}
AfterWorker == AfterStarted \cup {"start worker"}
AfterClaim == AfterWorker \cup {"recheck", "authorize", "give up"}
Looking == {"head", "receipt", "settle"}
ToSend == {"arm", "send"}

Control(r) ==
  /\ pc[r] \in Undecided => role[r] = "none"
  /\ pc[r] \in (AfterClaim \cup {"claim"}) \ AfterCommit => role[r] = "initializing"
  /\ pc[r] = "prepare" => role[r] = "resuming"
  /\ pc[r] \in AfterCommit => role[r] \in Authorized
  /\ pc[r] \in Looking => role[r] # "none"
  /\ io[r] # "none" => pc[r] \in Appending
  /\ pc[r] \in {"dispatch", "resume"} => r \in Successors
  /\ role[r] \in {"resuming", "reconciling resumed"} => r \in Successors

(* What an initializing run has on the disk: every record it has passed. *)
Trail(r) ==
  role[r] = "initializing" =>
    /\ pc[r] \in AfterClaim => DurableBy("claim", r)
    /\ pc[r] \in AfterWorker =>
         DurableBy("worker", r) /\ files["worker"].kind = "worker_authorized"
    /\ pc[r] \in AfterStarted => DurableBy("started", r)
    /\ pc[r] \in AfterSigned => DurableBy("signed", r)
    /\ pc[r] \in AfterCommit => DurableBy("commit", r)
    /\ pc[r] \in ToSend => DurableBy("submission", r) /\ files["submission"].kind = "exact"

(* And what a run that sends the existing signature, or reconciles, has. *)
Follows(r) ==
  /\ (role[r] = "resuming" /\ pc[r] \in ToSend) => DurableBy("resume", r)
  /\ pc[r] \in Looking =>
       IF OnSuccessor(r) THEN Visible("resume")
                         ELSE Visible("submission") /\ files["submission"].kind = "exact"

(* A file that is being written is its writer's alone. *)
Writing(r) == io[r] \in {"write", "sync"}

InFlight(r) ==
  /\ io[r] = "write" => files[Target(r)].st = "torn"
  /\ io[r] = "sync" => files[Target(r)].st = "written"
  /\ (Writing(r) /\ pc[r] # "settle") => By(Target(r)) = r
  /\ (Writing(r) /\ pc[r] = "authorize") => files["worker"].kind = "worker_authorized"
  /\ \A q \in Runs : (Writing(r) /\ Writing(q) /\ Target(r) = Target(q)) => r = q

RunInv == \A r \in Runs : Control(r) /\ Trail(r) /\ Follows(r) /\ InFlight(r)

-----------------------------------------------------------------------------
Made(f) == files[f].st # "absent"

(* Every record rests on durable records of the same run before it. *)
Ladder ==
  /\ Made("claim") => By("claim") \in Runs
  /\ Made("worker") => DurableBy("claim", By("worker"))
  /\ Made("started") =>
       DurableBy("worker", By("started")) /\ files["worker"].kind = "worker_authorized"
  /\ Made("signed") => DurableBy("started", By("signed"))
  /\ Made("commit") => DurableBy("signed", By("commit"))
  /\ Made("submission") => DurableBy("commit", By("submission"))
  /\ Made("terminal") => Durable("commit")

(* While generation 10 is at work on the signature, the run that made it   *)
(* has ended without submitting, and cannot submit any more.               *)
Resuming(r) == role[r] = "resuming" /\ pc[r] \in AfterCommit \cup {"prepare"}

Succeeded == Made("resume") \/ Made("settled") \/ \E r \in Runs : Resuming(r)

Stranded ==
  /\ Durable("claim") /\ Durable("commit") /\ By("claim") \notin Successors
  /\ ~Owns(By("claim"))
  /\ ~Made("submission") /\ ~Made("terminal")

(* A terminal is made only for a submission that can be read. *)
Ended ==
  /\ (Made("submission") /\ Made("terminal")) => files["submission"].kind = "exact"
  /\ (Made("terminal") /\ ~Made("submission")) => ~Owns(By("claim"))

FileInv == Ladder /\ (Succeeded => Stranded) /\ Ended

-----------------------------------------------------------------------------
(* A signature is made between the start and the signed record, and a send *)
(* after the start of the submission.                                      *)
SignedInv ==
  /\ signed # <<>> =>
       /\ Len(signed) = 1 /\ signed[1] = By("claim")
       /\ Durable("claim") /\ DurableBy("started", By("claim"))
       /\ \A r \in Runs : pc[r] # "sign"
  /\ Made("signed") => signed # <<>>
  /\ \A r \in Runs :
       (role[r] = "initializing" /\ pc[r] \in AfterSigned \cup {"commit"}) => signed # <<>>

SentInv ==
  /\ sent # <<>> =>
       /\ Len(sent) = 1
       /\ sent[1] \in Runs
       /\ \/ DurableBy("submission", sent[1]) /\ files["submission"].kind = "exact"
          \/ DurableBy("resume", sent[1])
       /\ \A r \in Runs : pc[r] \notin ToSend
  /\ tx.at # "unseen" => sent # <<>>

-----------------------------------------------------------------------------
ChainInv == tx.at = "mined" => tx.status \in Statuses

Observed(r) ==
  /\ head[r] <= finalized
  /\ pc[r] = "settle" => seen[r] \in Verdicts /\ seen[r] = Settled

RecordsTrue == \A f \in Terminal : Made(f) => files[f].kind \in Verdicts /\ files[f].kind = Settled

TruthInv == ChainInv /\ (\A r \in Runs : Observed(r)) /\ RecordsTrue

PoolInv == TypeOK /\ RunInv /\ FileInv /\ SignedInv /\ SentInv /\ TruthInv
=============================================================================
