------------------------------ MODULE LpRunner ------------------------------
(***************************************************************************)
(* The first-LP runner (scripts/run-bsc-testnet-pta-wbnb-first-lp.ts) over *)
(* its journal and the chain.  A run is one operating-system process: it   *)
(* starts at most once, and a restart is another run.  Several may be at   *)
(* work at once, since nothing but the exclusive creation of the journal   *)
(* files keeps them apart.                                                 *)
(*                                                                         *)
(* A run that finds the journal empty asks the owner for an authorization, *)
(* which is identified with the run, and signs, submits and reconciles the *)
(* approval and then the mint ("live").  A run that finds records only     *)
(* reconciles ("recovery") or completes the evidence ("finish").           *)
(***************************************************************************)
EXTENDS LpJournal, FiniteSets

CONSTANTS MaxLive,     \* bound: how many runs are at work at once
          ReleaseOf,   \* the release (commit and runtime manifest) of a run
          QuietReads   \* TRUE: no reorganisation between the block reads and
                       \* the finalized-head reads of one reconciliation

ASSUME MaxLiveAssumption == MaxLive \in Nat
ASSUME ReleaseAssumption == DOMAIN ReleaseOf = Runs
ASSUME QuietReadsAssumption == QuietReads \in BOOLEAN

VARIABLES pc,       \* where a run stands
          mode,     \* what it decided to do on reading the journal
          at,       \* the slot it appends next
          before,   \* the slots present when its last read of the journal began
          age,      \* how far its scope has aged
          seen,     \* the receipts of its current reconciliation
          signed,   \* the steps it has signed: signedOrders of its authorization
          sent,     \* the steps it has sent: #sent of its primary client
          evidence  \* the final evidence file

runVars == <<pc, mode, at, before, age, seen, signed, sent>>
vars == <<chain, slots, evidence, runVars>>

Places == {"idle", "load", "recover", "ceremony", "recheck", "append", "create",
           "write", "sync", "sign", "send", "receipt", "finality", "finish",
           "post", "evidence", "evidenceWrite", "evidenceSync", "halted"}

Modes == {"none", "live", "recovery", "finish"}

(* A scope lives five minutes and its mint deadline is fifteen minutes     *)
(* away: at least two minutes left, less than two, expired, past the       *)
(* deadline.                                                               *)
Ages == 0..3
MayConfirm == {0}
MaySign == {0, 1}
MaySubmit == {0, 1, 2}

TypeOK ==
  /\ ChainTypeOK
  /\ JournalTypeOK
  /\ evidence \in FileState
  /\ pc \in [Runs -> Places]
  /\ mode \in [Runs -> Modes]
  /\ at \in [Runs -> 0..9]
  /\ before \in [Runs -> SUBSET Idx]
  /\ age \in [Runs -> Ages]
  /\ seen \in [Runs -> [Steps -> Receipt]]
  /\ signed \in [Runs -> SUBSET Steps]
  /\ sent \in [Runs -> SUBSET Steps]

Init ==
  /\ ChainInit
  /\ JournalInit
  /\ evidence = "absent"
  /\ pc = [r \in Runs |-> "idle"]
  /\ mode = [r \in Runs |-> "none"]
  /\ at = [r \in Runs |-> 0]
  /\ before = [r \in Runs |-> {}]
  /\ age = [r \in Runs |-> 0]
  /\ seen = [r \in Runs |-> [s \in Steps |-> NoReceipt]]
  /\ signed = [r \in Runs |-> {}]
  /\ sent = [r \in Runs |-> {}]

Goto(r, place) == pc' = [pc EXCEPT ![r] = place]

(* Continue at `place`, which begins by reading the journal. *)
ReadAt(r, place) ==
  /\ Goto(r, place)
  /\ before' = [before EXCEPT ![r] = Present]

Live(r) == pc[r] \notin {"idle", "halted"}

-----------------------------------------------------------------------------
(* main and recoverExisting: read the journal and decide. *)

Start(r) ==
  /\ pc[r] = "idle"
  /\ Cardinality({q \in Runs : Live(q)}) < MaxLive
  /\ ReadAt(r, "load")
  /\ UNCHANGED <<chain, slots, evidence, mode, at, age, seen, signed, sent>>

LoadEmpty(r) ==
  /\ pc[r] = "load"
  /\ Parses(before[r], 0)
  /\ Goto(r, "ceremony")
  /\ mode' = [mode EXCEPT ![r] = "live"]
  /\ UNCHANGED <<chain, slots, evidence, at, before, age, seen, signed, sent>>

LoadOccupied(r) ==
  /\ pc[r] = "load"
  /\ \E n \in 1..9 : Parses(before[r], n)
  /\ ReadAt(r, "recover")
  /\ UNCHANGED <<chain, slots, evidence, mode, at, age, seen, signed, sent>>

(* Faulty variant: a recovery that sends once more. *)
RecoverAndResend(r) ==
  /\ pc[r] = "recover"
  /\ \E n \in {4, 8} :
       /\ Parses(before[r], n)
       /\ at' = [at EXCEPT ![r] = n]
  /\ mode' = [mode EXCEPT ![r] = "recovery"]
  /\ Goto(r, "send")
  /\ UNCHANGED <<chain, slots, evidence, before, age, seen, signed, sent>>

(* Only a submitted step without a terminal is reconciled. *)
RecoverSubmission(r) ==
  /\ pc[r] = "recover"
  /\ \E n \in {4, 8} :
       /\ Parses(before[r], n)
       /\ at' = [at EXCEPT ![r] = n]
  /\ mode' = [mode EXCEPT ![r] = "recovery"]
  /\ Goto(r, "receipt")
  /\ UNCHANGED <<chain, slots, evidence, before, age, seen, signed, sent>>

RecoverConfirmedMint(r) ==
  /\ pc[r] = "recover"
  /\ Parses(before[r], 9)
  /\ Status(9) = "mint_confirmed"
  /\ ReadAt(r, "finish")
  /\ UNCHANGED <<chain, slots, evidence, mode, at, age, seen, signed, sent>>

(* Every other state of the journal needs a review by hand. *)
RecoverBlocked(r) ==
  /\ pc[r] = "recover"
  /\ \E n \in 0..9 :
       /\ Parses(before[r], n)
       /\ Status(n) \notin {"approval_submission_started", "mint_submission_started",
                            "mint_confirmed"}
  /\ Goto(r, "halted")
  /\ UNCHANGED <<chain, slots, evidence, mode, at, before, age, seen, signed, sent>>

(* The owner types CONFIRM while at least two minutes of the scope remain. *)
Confirm(r) ==
  /\ pc[r] = "ceremony"
  /\ age[r] \in MayConfirm
  /\ ReadAt(r, "append")
  /\ UNCHANGED <<chain, slots, evidence, mode, at, age, seen, signed, sent>>

-----------------------------------------------------------------------------
(* Appending a record. *)

(* The state read admits the append.  A live run's authorization must be   *)
(* the one of the owner record; a recovery copies the owner's binding.     *)
Admit(r) ==
  /\ pc[r] = "append"
  /\ MayAppend(before[r], at[r])
  /\ (mode[r] = "live" /\ at[r] > 0) => slots[0].auth = r
  /\ Goto(r, "create")
  /\ UNCHANGED <<chain, slots, evidence, mode, at, before, age, seen, signed, sent>>

Create(r) ==
  /\ pc[r] = "create"
  /\ CreateSlot(at[r], IF mode[r] = "live" THEN r ELSE slots[0].auth)
  /\ Goto(r, "write")
  /\ UNCHANGED <<chain, evidence, mode, at, before, age, seen, signed, sent>>

Write(r) ==
  /\ pc[r] = "write"
  /\ WriteSlot(at[r], IF at[r] \in {4, 8} THEN seen[r][StepOf(at[r])] ELSE NoReceipt)
  /\ Goto(r, "sync")
  /\ UNCHANGED <<chain, evidence, mode, at, before, age, seen, signed, sent>>

(* Faulty variants: signing before it is announced, stopping after the     *)
(* approval, and a recovery of the approval that goes on to the mint.      *)
SignUnannounced(r, k) ==
  CASE k \in {0, 1, 5} -> "sign"
    [] k \in {2, 3, 4, 6, 7} -> "recheck"
    [] k = 8 -> "post"
StopAfterApproval(r, k) ==
  CASE k \in {0, 2, 3, 6, 7} -> "recheck"
    [] k \in {1, 5} -> "sign"
    [] k \in {4, 8} -> "halted"
RecoverAndGoOn(r, k) ==
  CASE k \in {0, 2, 3, 6, 7} -> "recheck"
    [] k \in {1, 5} -> "sign"
    [] k = 4 -> IF Outcome(4) = "confirmed" THEN "recheck" ELSE "halted"
    [] k = 8 -> IF Outcome(8) # "confirmed" THEN "halted"
                ELSE IF mode[r] = "live" THEN "post" ELSE "finish"

(* Where a run continues once slot k is durable. *)
AfterRecord(r, k) ==
  CASE k \in {0, 2, 3, 6, 7} -> "recheck"
    [] k \in {1, 5} -> "sign"
    [] k = 4 -> IF mode[r] = "live" /\ Outcome(4) = "confirmed" THEN "recheck" ELSE "halted"
    [] k = 8 -> IF Outcome(8) # "confirmed" THEN "halted"
                ELSE IF mode[r] = "live" THEN "post" ELSE "finish"

Sync(r) ==
  /\ pc[r] = "sync"
  /\ SyncSlot(at[r])
  /\ Goto(r, AfterRecord(r, at[r]))
  /\ at' = [at EXCEPT ![r] = @ + 1]
  /\ before' = [before EXCEPT ![r] = Present]
  /\ UNCHANGED <<chain, evidence, mode, age, seen, signed, sent>>

-----------------------------------------------------------------------------
(* signSubmitAndReconcile: recheck, record, sign, record, recheck, record, *)
(* recheck, send.                                                          *)

Recheck(r) ==
  /\ pc[r] = "recheck"
  /\ Ready(StepOf(at[r]))
  /\ age[r] \in MaySubmit
  /\ IF at[r] \in {4, 8}
     THEN Goto(r, "send") /\ UNCHANGED before
     ELSE ReadAt(r, "append")
  /\ UNCHANGED <<chain, slots, evidence, mode, at, age, seen, signed, sent>>

Sign(r) ==
  /\ pc[r] = "sign"
  /\ age[r] \in MaySign
  /\ StepOf(at[r]) \notin signed[r]
  /\ signed' = [signed EXCEPT ![r] = @ \cup {StepOf(at[r])}]
  /\ ReadAt(r, "append")
  /\ UNCHANGED <<chain, slots, evidence, mode, at, age, seen, sent>>

Send(r) ==
  /\ pc[r] = "send"
  /\ StepOf(at[r]) \notin sent[r]
  /\ sent' = [sent EXCEPT ![r] = @ \cup {StepOf(at[r])}]
  /\ Broadcast(StepOf(at[r]))
  /\ Goto(r, "receipt")
  /\ UNCHANGED <<slots, evidence, mode, at, before, age, seen, signed>>

-----------------------------------------------------------------------------
(* reconcileReceipt.  The block reads and the reads of the finalized heads *)
(* are concurrent; the order modelled is the one in which the head is read *)
(* last.                                                                   *)

Targets(r) == IF mode[r] = "finish" THEN Steps ELSE {StepOf(at[r])}

ReadReceipt(r) ==
  /\ pc[r] = "receipt"
  /\ \E rcs \in [Steps -> Answers] :
       /\ \A s \in Steps : IF s \in Targets(r) THEN Reported(s, rcs[s])
                                               ELSE rcs[s] = NoReceipt
       /\ seen' = [seen EXCEPT ![r] = rcs]
  /\ Goto(r, "finality")
  /\ UNCHANGED <<chain, slots, evidence, mode, at, before, age, signed, sent>>

(* One of the finalized heads is below the block: wait and read again. *)
PollAgain(r) ==
  /\ pc[r] = "finality"
  /\ \E s \in Targets(r) : chain[s].at # "final"
  /\ Goto(r, "receipt")
  /\ seen' = [seen EXCEPT ![r] = [s \in Steps |-> NoReceipt]]
  /\ UNCHANGED <<chain, slots, evidence, mode, at, before, age, signed, sent>>

Finalized(r) == \A s \in Targets(r) : HeadPassed(s, seen[r][s])

ReconciledStep(r) ==
  /\ pc[r] = "finality"
  /\ mode[r] # "finish"
  /\ Finalized(r)
  /\ ReadAt(r, "append")
  /\ UNCHANGED <<chain, slots, evidence, mode, at, age, seen, signed, sent>>

(* finishRecoveredMintEvidence accepts only two successes whose receipts   *)
(* equal the recorded ones.                                                *)
ReconciledEvidence(r) ==
  /\ pc[r] = "finality"
  /\ mode[r] = "finish"
  /\ Finalized(r)
  /\ \A s \in Steps : /\ seen[r][s].status = "confirmed"
                      /\ seen[r][s] = slots[TerminalSlot(s)].receipt
  /\ Goto(r, "post")
  /\ UNCHANGED <<chain, slots, evidence, mode, at, before, age, seen, signed, sent>>

(* The ninety seconds are over. *)
Timeout(r) ==
  /\ pc[r] = "receipt"
  /\ Goto(r, "halted")
  /\ UNCHANGED <<chain, slots, evidence, mode, at, before, age, seen, signed, sent>>

-----------------------------------------------------------------------------
(* Completing the evidence. *)

(* Only the release that signed may complete it. *)
Finish(r) ==
  /\ pc[r] = "finish"
  /\ Parses(before[r], 9)
  /\ Status(9) = "mint_confirmed"
  /\ ReleaseOf[slots[0].auth] = ReleaseOf[r]
  /\ mode' = [mode EXCEPT ![r] = "finish"]
  /\ Goto(r, "receipt")
  /\ UNCHANGED <<chain, slots, evidence, at, before, age, seen, signed, sent>>

(* verifyMintPostState: the position at the block hash of the receipt. *)
VerifyPostState(r) ==
  /\ pc[r] = "post"
  /\ PositionAt(seen[r]["mint"])
  /\ Goto(r, "evidence")
  /\ UNCHANGED <<chain, slots, evidence, mode, at, before, age, seen, signed, sent>>

CreateEvidence(r) ==
  /\ pc[r] = "evidence"
  /\ evidence = "absent"
  /\ evidence' = "torn"
  /\ Goto(r, "evidenceWrite")
  /\ UNCHANGED <<chain, slots, mode, at, before, age, seen, signed, sent>>

WriteEvidence(r) ==
  /\ pc[r] = "evidenceWrite"
  /\ evidence' = "written"
  /\ Goto(r, "evidenceSync")
  /\ UNCHANGED <<chain, slots, mode, at, before, age, seen, signed, sent>>

SyncEvidence(r) ==
  /\ pc[r] = "evidenceSync"
  /\ evidence' = "durable"
  /\ Goto(r, "halted")
  /\ UNCHANGED <<chain, slots, mode, at, before, age, seen, signed, sent>>

-----------------------------------------------------------------------------
(* The environment. *)

(* Any failed check, refused append, exception or crash ends the run; the  *)
(* failure handler only reads.                                             *)
Fail(r) ==
  /\ Live(r)
  /\ Goto(r, "halted")
  /\ UNCHANGED <<chain, slots, evidence, mode, at, before, age, seen, signed, sent>>

(* Time passes wherever the run will still look at the clock. *)
Age(r) ==
  /\ pc[r] \in {"ceremony", "sign", "recheck"}
  /\ age[r] < 3
  /\ age' = [age EXCEPT ![r] = @ + 1]
  /\ UNCHANGED <<chain, slots, evidence, pc, mode, at, before, seen, signed, sent>>

PowerLoss ==
  /\ pc' = [r \in Runs |-> IF Live(r) THEN "halted" ELSE pc[r]]
  /\ LoseUnsynced
  /\ evidence' \in CASE evidence = "torn" -> {"absent", "torn"}
                     [] evidence = "written" -> {"absent", "torn", "durable"}
                     [] evidence \in {"absent", "durable"} -> {evidence}
  /\ UNCHANGED <<chain, mode, at, before, age, seen, signed, sent>>

Network(s) ==
  /\ \/ Include(s)
     \/ Reorg(s) /\ (QuietReads => \A r \in Runs : pc[r] # "finality")
     \/ Finalize(s)
  /\ UNCHANGED <<slots, evidence, runVars>>

Reconcile(r) == ReadReceipt(r) \/ PollAgain(r) \/ ReconciledStep(r) \/ ReconciledEvidence(r)

Work(r) ==
  \/ LoadEmpty(r) \/ LoadOccupied(r)
  \/ RecoverSubmission(r) \/ RecoverConfirmedMint(r) \/ RecoverBlocked(r)
  \/ Confirm(r)
  \/ Admit(r) \/ Create(r) \/ Write(r) \/ Sync(r)
  \/ Recheck(r) \/ Sign(r) \/ Send(r)
  \/ Reconcile(r)
  \/ Finish(r) \/ VerifyPostState(r)
  \/ CreateEvidence(r) \/ WriteEvidence(r) \/ SyncEvidence(r)

Next ==
  \/ \E r \in Runs : Start(r) \/ Work(r) \/ Timeout(r) \/ Fail(r) \/ Age(r)
  \/ \E s \in Steps : Network(s)
  \/ PowerLoss

Spec == Init /\ [][Next]_vars
=============================================================================
