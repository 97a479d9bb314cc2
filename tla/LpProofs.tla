------------------------------ MODULE LpProofs ------------------------------
(***************************************************************************)
(* Proofs about the first-LP runner, for any set of runs, any bound on     *)
(* reorganisations and any pair of providers of which one is honest.       *)
(***************************************************************************)
EXTENDS LpInv, TLAPS

-----------------------------------------------------------------------------
(* Type correctness.                                                       *)

LEMMA InitType == Init => TypeOK
<1> SUFFICES ASSUME Init PROVE TypeOK
  OBVIOUS
<1>1. ChainTypeOK
  BY DEF Init, ChainInit, ChainTypeOK, Position, Receipt, NoReceipt, Outcomes
<1>2. JournalTypeOK
  BY DEF Init, JournalInit, JournalTypeOK, Slot, EmptySlot, FileState, Receipt, NoReceipt, Outcomes
<1>3. seen \in [Runs -> [Steps -> Receipt]]
  BY DEF Init, Receipt, NoReceipt, Outcomes
<1> QED
  BY <1>1, <1>2, <1>3 DEF Init, TypeOK, FileState, Places, Modes, Ages, Idx

(* The chain keeps its type in every step of the network. *)
LEMMA ChainStepType ==
  ASSUME ChainTypeOK, NEW s \in Steps, Include(s) \/ Reorg(s) \/ Finalize(s) \/ Broadcast(s)
  PROVE  ChainTypeOK'
<1> USE DEF ChainTypeOK, Position, Receipt
<1>1. CASE Include(s)
  BY <1>1 DEF Include
<1>2. CASE Reorg(s)
  <2>1. \A t \in Steps : chain[t].receipt.block + 1 \in Nat
    BY DEF ChainTypeOK
  <2> QED
    BY <1>2, <2>1 DEF Reorg, Fallen
<1>3. CASE Finalize(s)
  BY <1>3 DEF Finalize
<1>4. CASE Broadcast(s)
  BY <1>4 DEF Broadcast
<1> QED
  BY <1>1, <1>2, <1>3, <1>4

(* The slots keep their type in every step of a writer and in a power      *)
(* loss.                                                                   *)
LEMMA SlotStepType ==
  ASSUME JournalTypeOK, NEW k \in Idx
  PROVE  /\ \A a \in Runs \cup {NoRun} : CreateSlot(k, a) => JournalTypeOK'
         /\ \A rc \in Receipt : WriteSlot(k, rc) => JournalTypeOK'
         /\ SyncSlot(k) => JournalTypeOK'
<1>1. NoReceipt \in Receipt
  BY DEF NoReceipt, Receipt
<1>2. ASSUME NEW a \in Runs \cup {NoRun}, CreateSlot(k, a) PROVE JournalTypeOK'
  BY <1>1, <1>2 DEF CreateSlot, JournalTypeOK, Slot, EmptySlot, FileState
<1>3. ASSUME NEW rc \in Receipt, WriteSlot(k, rc) PROVE JournalTypeOK'
  BY <1>3 DEF WriteSlot, JournalTypeOK, Slot, FileState
<1>4. ASSUME SyncSlot(k) PROVE JournalTypeOK'
  BY <1>4 DEF SyncSlot, JournalTypeOK, Slot, FileState
<1> QED
  BY <1>2, <1>3, <1>4

LEMMA PowerLossType ==
  ASSUME JournalTypeOK, LoseUnsynced
  PROVE  JournalTypeOK'
<1>1. NoReceipt \in Receipt
  BY DEF NoReceipt, Receipt
<1>2. PICK gone \in SUBSET Unsynced, torn \in SUBSET Unsynced :
        slots' = [k \in Idx |-> Remains(k, gone, torn)]
  BY DEF LoseUnsynced
<1>3. ASSUME NEW k \in Idx PROVE slots'[k] \in Slot
  <2>1. slots[k] \in Slot /\ EmptySlot \in Slot
    BY <1>1 DEF JournalTypeOK, EmptySlot, Slot, FileState
  <2> QED
    BY <1>1, <1>2, <2>1 DEF Slot, FileState, Remains
<1> QED
  BY <1>2, <1>3 DEF JournalTypeOK

(* The values a run keeps have their types after each of its steps. *)
RunTypeOK ==
  /\ pc \in [Runs -> Places]
  /\ mode \in [Runs -> Modes]
  /\ at \in [Runs -> 0..9]
  /\ before \in [Runs -> SUBSET Idx]
  /\ age \in [Runs -> Ages]
  /\ seen \in [Runs -> [Steps -> Receipt]]
  /\ signed \in [Runs -> SUBSET Steps]
  /\ sent \in [Runs -> SUBSET Steps]

LEMMA StepOfType == \A k \in 0..9 : StepOf(k) \in Steps
BY DEF StepOf, Steps

LEMMA StartType ==
  ASSUME RunTypeOK, NEW r \in Runs, Start(r) \/ Timeout(r) \/ Fail(r) \/ Age(r)
  PROVE  RunTypeOK'
<1> USE DEF RunTypeOK, Places, Goto, ReadAt
<1>1. CASE Start(r)
  BY <1>1 DEF Start, Present
<1>2. CASE Timeout(r)
  BY <1>2 DEF Timeout
<1>3. CASE Fail(r)
  BY <1>3 DEF Fail
<1>4. CASE Age(r)
  BY <1>4 DEF Age, Ages
<1> QED
  BY <1>1, <1>2, <1>3, <1>4

LEMMA WorkType ==
  ASSUME RunTypeOK, NEW r \in Runs, Control(r), Work(r)
  PROVE  RunTypeOK'
<1> USE DEF RunTypeOK, Places, Modes, Goto, ReadAt, Present
<1>1. CASE LoadEmpty(r)
  BY <1>1 DEF LoadEmpty
<1>16. CASE LoadOccupied(r)
  BY <1>16 DEF LoadOccupied
<1>2. CASE RecoverSubmission(r)
  BY <1>2 DEF RecoverSubmission
<1>3. CASE RecoverConfirmedMint(r)
  BY <1>3 DEF RecoverConfirmedMint
<1>17. CASE RecoverBlocked(r)
  BY <1>17 DEF RecoverBlocked
<1>4. CASE Confirm(r)
  BY <1>4 DEF Confirm
<1>15. CASE Admit(r)
  BY <1>15 DEF Admit
<1>13. CASE Create(r) \/ Write(r)
  BY <1>13 DEF Create, Write
<1>5. CASE Sync(r)
  <2>1. at[r] \in Idx
    BY <1>5 DEF Sync, Control, Appending
  <2>2. AfterRecord(r, at[r]) \in Places /\ at[r] + 1 \in 0..9
    BY <2>1 DEF AfterRecord, Idx
  <2> QED
    BY <1>5, <2>2 DEF Sync
<1>6. CASE Recheck(r)
  <2>1. before' \in [Runs -> SUBSET Idx]
    BY <1>6 DEF Recheck
  <2>2. pc' \in [Runs -> Places]
    BY <1>6 DEF Recheck
  <2> QED
    BY <1>6, <2>1, <2>2 DEF Recheck
<1>7. CASE Sign(r)
  <2>1. (signed[r] \cup {StepOf(at[r])}) \in SUBSET Steps
    BY StepOfType
  <2>2. signed' \in [Runs -> SUBSET Steps]
    BY <1>7, <2>1 DEF Sign
  <2> QED
    BY <1>7, <2>2 DEF Sign
<1>14. CASE Send(r)
  <2>1. (sent[r] \cup {StepOf(at[r])}) \in SUBSET Steps
    BY StepOfType
  <2>2. sent' \in [Runs -> SUBSET Steps]
    BY <1>14, <2>1 DEF Send
  <2> QED
    BY <1>14, <2>2 DEF Send
<1>8. CASE ReadReceipt(r)
  BY <1>8 DEF ReadReceipt, Answers, Receipt
<1>9. CASE PollAgain(r)
  BY <1>9 DEF PollAgain, NoReceipt, Receipt
<1>10. CASE ReconciledStep(r) \/ ReconciledEvidence(r)
  BY <1>10 DEF ReconciledStep, ReconciledEvidence
<1>11. CASE Finish(r) \/ VerifyPostState(r)
  BY <1>11 DEF Finish, VerifyPostState
<1>12. CASE CreateEvidence(r) \/ WriteEvidence(r) \/ SyncEvidence(r)
  BY <1>12 DEF CreateEvidence, WriteEvidence, SyncEvidence
<1> QED
  BY <1>1, <1>2, <1>3, <1>4, <1>5, <1>6, <1>7, <1>8, <1>9, <1>10, <1>11, <1>12,
     <1>13, <1>14, <1>15, <1>16, <1>17
     DEF Work, Reconcile

-----------------------------------------------------------------------------
(* The records of a run.                                                   *)

(* A step of r leaves the place and the results of every other run alone. *)
Others(r) ==
  \A q \in Runs \ {r} : /\ pc'[q] = pc[q] /\ mode'[q] = mode[q] /\ at'[q] = at[q]
                        /\ signed'[q] = signed[q] /\ sent'[q] = sent[q]

(* A step of r that leaves the journal alone. *)
LEMMA Quiet ==
  ASSUME RunInv, NEW r \in Runs, Others(r), slots' = slots,
         ~Filling(r)', Control(r)', Trail(r)', Announced(r)'
  PROVE  RunInv'
<1> SUFFICES ASSUME NEW q \in Runs
             PROVE  Control(q)' /\ Trail(q)' /\ InFlight(q)' /\ Announced(q)'
  BY DEF RunInv
<1>1. Control(q) /\ Trail(q) /\ InFlight(q) /\ Announced(q)
  BY DEF RunInv
<1>2. Control(q)'
  BY <1>1 DEF Others, Control
<1>3. Trail(q)'
  BY <1>1 DEF Others, Trail, Durable
<1>4. InFlight(q)'
  BY <1>1 DEF Others, InFlight, Filling
<1>5. Announced(q)'
  BY <1>1 DEF Others, Announced
<1> QED
  BY <1>2, <1>3, <1>4, <1>5

(* A step of r that changes only the slot ahead of it. *)
LEMMA Storing ==
  ASSUME RunInv, NEW r \in Runs, Others(r), at[r] \in Idx,
         \A j \in Idx : j # at[r] => slots'[j] = slots[j],
         Durable(at[r]) => slots'[at[r]] = slots[at[r]],
         \A q \in Runs \ {r} : Filling(q) => at[q] # at[r],
         Control(r)', Trail(r)', InFlight(r)', Announced(r)'
  PROVE  RunInv'
<1> SUFFICES ASSUME NEW q \in Runs \ {r}
             PROVE  Control(q)' /\ Trail(q)' /\ InFlight(q)' /\ Announced(q)'
  BY DEF RunInv
<1>1. Control(q) /\ Trail(q) /\ InFlight(q) /\ Announced(q)
  BY DEF RunInv
<1>2. Control(q)'
  BY <1>1 DEF Others, Control
<1>3. Trail(q)'
  BY <1>1 DEF Others, Trail, Durable
<1>4. InFlight(q)'
  <2>1. Filling(q) => at[q] \in Idx /\ slots'[at[q]] = slots[at[q]]
    BY <1>1 DEF Control, Filling, Appending
  <2>2. \A p \in Runs : (Filling(q)' /\ Filling(p)' /\ at'[q] = at'[p]) => q = p
    <3>1. ASSUME Filling(q)', Filling(r)', at'[q] = at'[r] PROVE q = r
      BY <3>1 DEF InFlight
    <3> QED
      BY <1>1, <3>1 DEF Others, InFlight, Filling
  <2> QED
    BY <1>1, <2>1, <2>2 DEF Others, InFlight, Filling
<1>5. Announced(q)'
  BY <1>1 DEF Others, Announced
<1> QED
  BY <1>2, <1>3, <1>4, <1>5

LEMMA SlotNumbers ==
  \A s \in Steps : SigningSlot(s) \in {1, 5} /\ SubmissionSlot(s) \in {3, 7}
BY DEF Steps, SigningSlot, SubmissionSlot

(* The steps of a run that do not write the journal. *)
LEMMA QuietSteps ==
  ASSUME TypeOK, RunInv, NEW r \in Runs,
         \/ Start(r) \/ Timeout(r) \/ Fail(r) \/ Age(r)
         \/ LoadEmpty(r) \/ LoadOccupied(r)
         \/ RecoverSubmission(r) \/ RecoverConfirmedMint(r) \/ RecoverBlocked(r)
         \/ Confirm(r) \/ Admit(r) \/ Recheck(r) \/ Reconcile(r)
         \/ Finish(r) \/ VerifyPostState(r)
         \/ CreateEvidence(r) \/ WriteEvidence(r) \/ SyncEvidence(r)
  PROVE  RunInv'
<1> USE DEF TypeOK, Goto, ReadAt
<1>0. Control(r) /\ Trail(r) /\ Announced(r)
  BY DEF RunInv
<1>1. CASE Start(r) \/ Timeout(r) \/ Fail(r)
  <2>1. Others(r) /\ slots' = slots
    BY <1>1 DEF Start, Timeout, Fail, Others
  <2>2. ~Filling(r)' /\ Control(r)'
    BY <1>0, <1>1 DEF Start, Timeout, Fail, Control, Filling, Appending, Publishing
  <2>3. Trail(r)' /\ Announced(r)'
    BY <1>0, <1>1 DEF Start, Timeout, Fail, Trail, Announced, Durable
  <2> QED
    BY <2>1, <2>2, <2>3, Quiet
<1>2. CASE Age(r)
  <2>1. Others(r) /\ slots' = slots
    BY <1>2 DEF Age, Others
  <2>2. ~Filling(r)' /\ Control(r)'
    BY <1>0, <1>2 DEF Age, Control, Filling, Appending, Publishing
  <2>3. Trail(r)' /\ Announced(r)'
    BY <1>0, <1>2 DEF Age, Trail, Announced, Durable
  <2> QED
    BY <2>1, <2>2, <2>3, Quiet
<1>3. CASE LoadEmpty(r) \/ LoadOccupied(r)
  <2>1. Others(r) /\ slots' = slots
    BY <1>3 DEF LoadEmpty, LoadOccupied, Others
  <2>2. ~Filling(r)' /\ Control(r)'
    BY <1>0, <1>3 DEF LoadEmpty, LoadOccupied, Control, Filling, Appending, Publishing
  <2>3. Trail(r)'
    BY <1>0, <1>3 DEF LoadEmpty, LoadOccupied, Trail, Control, Idx
  <2>4. Announced(r)'
    BY <1>0, <1>3 DEF LoadEmpty, LoadOccupied, Announced
  <2> QED
    BY <2>1, <2>2, <2>3, <2>4, Quiet
<1>4. CASE RecoverSubmission(r) \/ RecoverConfirmedMint(r) \/ RecoverBlocked(r)
  <2>1. Others(r) /\ slots' = slots
    BY <1>4 DEF RecoverSubmission, RecoverConfirmedMint, RecoverBlocked, Others
  <2>2. ~Filling(r)' /\ Control(r)'
    BY <1>0, <1>4 DEF RecoverSubmission, RecoverConfirmedMint, RecoverBlocked, Control,
                      Filling, Appending, Publishing
  <2>3. mode[r] = "none" /\ mode'[r] # "live"
    BY <1>0, <1>4 DEF RecoverSubmission, RecoverConfirmedMint, RecoverBlocked, Control
  <2>4. Trail(r)'
    BY <2>3 DEF Trail
  <2>5. Announced(r)'
    BY <1>0, <1>4, <2>3 DEF RecoverSubmission, RecoverConfirmedMint, RecoverBlocked, Announced
  <2> QED
    BY <2>1, <2>2, <2>4, <2>5, Quiet
<1>5. CASE Confirm(r) \/ Admit(r)
  <2>1. Others(r) /\ slots' = slots
    BY <1>5 DEF Confirm, Admit, Others
  <2>2. ~Filling(r)' /\ Control(r)'
    BY <1>0, <1>5 DEF Confirm, Admit, Control, Filling, Appending, Publishing, Idx
  <2>3. Trail(r)' /\ Announced(r)'
    BY <1>0, <1>5 DEF Confirm, Admit, Trail, Announced, Durable
  <2> QED
    BY <2>1, <2>2, <2>3, Quiet
<1>6. CASE Recheck(r)
  <2>1. Others(r) /\ slots' = slots
    BY <1>6 DEF Recheck, Others
  <2>2. ~Filling(r)' /\ Control(r)'
    BY <1>0, <1>6 DEF Recheck, Control, Filling, Appending, Publishing, Idx
  <2>3. Trail(r)' /\ Announced(r)'
    BY <1>0, <1>6 DEF Recheck, Trail, Announced, Durable
  <2> QED
    BY <2>1, <2>2, <2>3, Quiet
<1>7. CASE Reconcile(r)
  <2> USE DEF Reconcile, ReadReceipt, PollAgain, ReconciledStep, ReconciledEvidence
  <2>1. Others(r) /\ slots' = slots
    BY <1>7 DEF Others
  <2>2. ~Filling(r)' /\ Control(r)'
    BY <1>0, <1>7 DEF Control, Filling, Appending, Publishing, Idx
  <2>3. Trail(r)' /\ Announced(r)'
    BY <1>0, <1>7 DEF Trail, Announced, Durable
  <2> QED
    BY <2>1, <2>2, <2>3, Quiet
<1>8. CASE Finish(r)
  <2>1. Others(r) /\ slots' = slots
    BY <1>8 DEF Finish, Others
  <2>2. ~Filling(r)' /\ Control(r)' /\ mode[r] # "live" /\ mode'[r] # "live"
    BY <1>0, <1>8 DEF Finish, Control, Filling, Appending, Publishing
  <2>3. Trail(r)'
    BY <2>2 DEF Trail
  <2>4. Announced(r)'
    BY <1>0, <1>8, <2>2 DEF Finish, Announced
  <2> QED
    BY <2>1, <2>2, <2>3, <2>4, Quiet
<1>9. CASE VerifyPostState(r) \/ CreateEvidence(r) \/ WriteEvidence(r) \/ SyncEvidence(r)
  <2> USE DEF VerifyPostState, CreateEvidence, WriteEvidence, SyncEvidence
  <2>1. Others(r) /\ slots' = slots
    BY <1>9 DEF Others
  <2>2. ~Filling(r)' /\ Control(r)'
    BY <1>0, <1>9 DEF Control, Filling, Appending, Publishing
  <2>3. Trail(r)' /\ Announced(r)'
    BY <1>0, <1>9 DEF Trail, Announced, Durable
  <2> QED
    BY <2>1, <2>2, <2>3, Quiet
<1> QED
  BY <1>1, <1>2, <1>3, <1>4, <1>5, <1>6, <1>7, <1>8, <1>9

(* Signing and sending come after the slots that announce them. *)
LEMMA SigningSteps ==
  ASSUME TypeOK, RunInv, NEW r \in Runs, Sign(r) \/ Send(r)
  PROVE  RunInv'
<1> USE DEF TypeOK, Goto, ReadAt, Sign, Send
<1>0. Control(r) /\ Trail(r) /\ Announced(r)
  BY DEF RunInv
<1>1. Others(r) /\ slots' = slots
  BY DEF Others
<1>2. ~Filling(r)' /\ Control(r)'
  BY <1>0 DEF Control, Filling, Appending, Publishing, Idx
<1>3. Trail(r)'
  BY <1>0 DEF Trail, Durable
<1>4. mode'[r] = "live" /\ at'[r] = at[r]
  BY <1>0 DEF Control
<1>5. ASSUME NEW s \in Steps, s \in signed'[r] PROVE at[r] > SigningSlot(s)
  <2>1. CASE s \in signed[r]
    BY <1>0, <2>1 DEF Announced
  <2>2. CASE s \notin signed[r]
    <3>1. Sign(r) /\ s = StepOf(at[r])
      BY <1>5, <2>2
    <3>2. at[r] \in {2, 6}
      BY <1>0, <3>1 DEF Control
    <3> QED
      BY <3>1, <3>2 DEF StepOf, SigningSlot
  <2> QED
    BY <2>1, <2>2
<1>6. ASSUME NEW s \in Steps, s \in sent'[r] PROVE at[r] > SubmissionSlot(s)
  <2>1. CASE s \in sent[r]
    BY <1>0, <2>1 DEF Announced
  <2>2. CASE s \notin sent[r]
    <3>1. Send(r) /\ s = StepOf(at[r])
      BY <1>6, <2>2
    <3>2. at[r] \in {4, 8}
      BY <1>0, <3>1 DEF Control
    <3> QED
      BY <3>1, <3>2 DEF StepOf, SubmissionSlot
  <2> QED
    BY <2>1, <2>2
<1>7. Announced(r)'
  BY <1>4, <1>5, <1>6 DEF Announced, SigningSlot, SubmissionSlot
<1> QED
  BY <1>1, <1>2, <1>3, <1>7, Quiet

(* Filling a slot. *)
LEMMA StoringSteps ==
  ASSUME TypeOK, RunInv, NEW r \in Runs, Create(r) \/ Write(r) \/ Sync(r)
  PROVE  RunInv'
<1> USE DEF TypeOK, Goto
<1>0. Control(r) /\ Trail(r) /\ InFlight(r) /\ Announced(r)
  BY DEF RunInv
<1>1. at[r] \in Idx /\ mode[r] \in {"live", "recovery"} /\ slots \in [Idx -> Slot]
  BY <1>0 DEF Create, Write, Sync, Control, Appending, JournalTypeOK
<1>2. Others(r)
  BY DEF Create, Write, Sync, Others
<1>3. \A j \in Idx : j # at[r] => slots'[j] = slots[j]
  BY <1>1 DEF Create, Write, Sync, CreateSlot, WriteSlot, SyncSlot
<1>4. slots[at[r]].st # "durable"
  BY <1>0 DEF Create, Write, Sync, CreateSlot, InFlight
<1>5. \A q \in Runs \ {r} : Filling(q) => at[q] # at[r]
  <2>1. CASE Create(r)
    BY <2>1 DEF Create, CreateSlot, RunInv, InFlight, Filling
  <2>2. CASE Write(r) \/ Sync(r)
    BY <1>0, <2>2 DEF Write, Sync, InFlight, Filling
  <2> QED
    BY <2>1, <2>2
<1>6. CASE Create(r) \/ Write(r)
  <2>1. Control(r)'
    BY <1>0, <1>1, <1>6 DEF Create, Write, Control, Appending, Publishing
  <2>2. Trail(r)'
    BY <1>0, <1>1, <1>3, <1>6 DEF Create, Write, Trail, Durable, Idx
  <2>3. InFlight(r)'
    <3>1. CASE Create(r)
      <4>1. slots'[at[r]] = [EmptySlot EXCEPT !.st = "torn",
                                              !.auth = IF mode[r] = "live" THEN r ELSE slots[0].auth]
        BY <1>1, <3>1 DEF Create, CreateSlot
      <4>2. slots'[at[r]].st = "torn" /\ (mode[r] = "live" => slots'[at[r]].auth = r)
        BY <4>1 DEF EmptySlot
      <4> QED
        BY <1>2, <1>5, <3>1, <4>2 DEF Create, InFlight, Filling, Others
    <3>2. CASE Write(r)
      <4>1. slots'[at[r]].st = "written" /\ slots'[at[r]].auth = slots[at[r]].auth
        BY <1>1, <3>2 DEF Write, WriteSlot, Slot
      <4> QED
        BY <1>0, <1>2, <1>5, <3>2, <4>1 DEF Write, InFlight, Filling, Others
    <3> QED
      BY <1>6, <3>1, <3>2
  <2>4. Announced(r)'
    BY <1>0, <1>6 DEF Create, Write, Announced
  <2> QED
    BY <1>1, <1>2, <1>3, <1>4, <1>5, <2>1, <2>2, <2>3, <2>4, Storing DEF Durable
<1>7. CASE Sync(r)
  <2>1. slots'[at[r]] = [slots[at[r]] EXCEPT !.st = "durable"]
    BY <1>1, <1>7 DEF Sync, SyncSlot
  <2>2. /\ pc'[r] = AfterRecord(r, at[r]) /\ at'[r] = at[r] + 1 /\ mode' = mode
        /\ signed' = signed /\ sent' = sent
    BY <1>1, <1>7 DEF Sync
  <2>3. /\ at[r] \in {0, 2, 3, 6, 7} => pc'[r] = "recheck"
        /\ at[r] \in {1, 5} => pc'[r] = "sign"
        /\ at[r] = 4 => pc'[r] = "halted" \/ (pc'[r] = "recheck" /\ mode[r] = "live")
        /\ at[r] = 8 => \/ pc'[r] = "halted"
                        \/ pc'[r] = "post" /\ mode[r] = "live"
                        \/ pc'[r] = "finish" /\ mode[r] # "live"
    BY <2>2 DEF AfterRecord
  <2>4. Control(r)' /\ ~Filling(r)'
    BY <1>0, <1>1, <1>7, <2>2, <2>3 DEF Sync, Control, Appending, Publishing, Filling, Idx
  <2>5. Trail(r)'
    <3> SUFFICES ASSUME mode[r] = "live", NEW k \in Idx, k < at[r] + 1
                 PROVE  slots'[k].st = "durable" /\ slots'[k].auth = r
      BY <2>2 DEF Trail, Durable
    <3>1. CASE k = at[r]
      BY <1>0, <1>1, <1>7, <2>1, <3>1 DEF Sync, InFlight, Filling, Slot
    <3>2. CASE k < at[r]
      BY <1>0, <1>1, <1>3, <3>2 DEF Trail, Durable, Idx
    <3> QED
      BY <1>1, <3>1, <3>2 DEF Idx
  <2>6. InFlight(r)'
    BY <2>4 DEF InFlight, Filling
  <2>7. Announced(r)'
    BY <1>0, <1>1, <2>2 DEF Announced, Idx, SigningSlot, SubmissionSlot
  <2> QED
    BY <1>1, <1>2, <1>3, <1>4, <1>5, <2>4, <2>5, <2>6, <2>7, Storing DEF Durable
<1> QED
  BY <1>6, <1>7

(* A power loss ends every run and keeps every durable slot. *)
LEMMA PowerLossKeeps ==
  ASSUME LoseUnsynced, JournalTypeOK, NEW k \in Idx, Durable(k)
  PROVE  slots'[k] = slots[k]
<1>1. PICK gone \in SUBSET Unsynced, torn \in SUBSET Unsynced :
        slots' = [j \in Idx |-> Remains(j, gone, torn)]
  BY DEF LoseUnsynced
<1>2. k \notin gone /\ k \notin torn
  BY DEF Durable, Unsynced
<1>3. slots'[k] = [slots[k] EXCEPT !.st = "durable"]
  BY <1>1, <1>2 DEF Remains, Visible, Durable
<1> QED
  BY <1>3 DEF Durable, JournalTypeOK, Slot

LEMMA PowerLossRuns ==
  ASSUME TypeOK, RunInv, PowerLoss
  PROVE  RunInv'
<1> SUFFICES ASSUME NEW r \in Runs
             PROVE  Control(r)' /\ Trail(r)' /\ InFlight(r)' /\ Announced(r)'
  BY DEF RunInv
<1>0. Control(r) /\ Trail(r) /\ Announced(r)
  BY DEF RunInv
<1>1. /\ \A q \in Runs : pc'[q] \in {"idle", "halted"}
      /\ pc'[r] = "idle" => pc[r] = "idle"
      /\ mode' = mode /\ at' = at /\ signed' = signed /\ sent' = sent
  BY DEF PowerLoss, Live
<1>2. Control(r)'
  BY <1>0, <1>1 DEF Control, Appending, Publishing
<1>3. Trail(r)'
  BY <1>0, <1>1, PowerLossKeeps DEF Trail, Durable, PowerLoss, TypeOK
<1>4. InFlight(r)'
  BY <1>1 DEF InFlight, Filling
<1>5. Announced(r)'
  BY <1>0, <1>1 DEF Announced
<1> QED
  BY <1>2, <1>3, <1>4, <1>5

-----------------------------------------------------------------------------
(* The first layer of the invariant, and what follows from it.             *)

(* What a run's own work can do to the chain, the journal and the evidence *)
(* file.                                                                   *)
LEMMA WorkFrame ==
  ASSUME NEW r \in Runs, Work(r)
  PROVE  /\ chain' = chain \/ Send(r)
         /\ slots' = slots \/ Create(r) \/ Write(r) \/ Sync(r)
         /\ evidence' = evidence \/ CreateEvidence(r) \/ WriteEvidence(r) \/ SyncEvidence(r)
BY DEF Work, Reconcile, LoadEmpty, LoadOccupied, RecoverSubmission, RecoverConfirmedMint,
       RecoverBlocked, Confirm, Admit, Create, Write, Sync, Recheck, Sign, Send, ReadReceipt,
       PollAgain, ReconciledStep, ReconciledEvidence, Finish, VerifyPostState,
       CreateEvidence, WriteEvidence, SyncEvidence

LEMMA NextType == TypeOK /\ RunInv /\ [Next]_vars => TypeOK'
<1> SUFFICES ASSUME TypeOK, RunInv, [Next]_vars PROVE TypeOK'
  OBVIOUS
<1>0. RunTypeOK
  BY DEF TypeOK, RunTypeOK
<1>1. ASSUME NEW r \in Runs, Start(r) \/ Timeout(r) \/ Fail(r) \/ Age(r) PROVE TypeOK'
  <2>1. UNCHANGED <<chain, slots, evidence>>
    BY <1>1 DEF Start, Timeout, Fail, Age
  <2> QED
    BY <1>0, <1>1, <2>1, StartType DEF TypeOK, RunTypeOK, ChainTypeOK, JournalTypeOK
<1>2. ASSUME NEW r \in Runs, Work(r) PROVE TypeOK'
  <2>0. Control(r)
    BY DEF RunInv
  <2>1. RunTypeOK'
    BY <1>0, <1>2, <2>0, WorkType
  <2>2. ChainTypeOK'
    <3>1. CASE Send(r)
      BY <3>1, StepOfType, ChainStepType DEF Send, TypeOK
    <3>2. CASE chain' = chain
      BY <3>2 DEF TypeOK, ChainTypeOK
    <3> QED
      BY <1>2, <3>1, <3>2, WorkFrame
  <2>3. JournalTypeOK'
    <3>1. CASE Create(r)
      <4>1. at[r] \in Idx /\ 0 \in Idx
        BY <2>0, <3>1 DEF Create, Control, Appending, Idx
      <4>2. (IF mode[r] = "live" THEN r ELSE slots[0].auth) \in Runs \cup {NoRun}
        BY <4>1 DEF TypeOK, JournalTypeOK, Slot
      <4> QED
        BY <3>1, <4>1, <4>2, SlotStepType DEF Create, TypeOK
    <3>2. CASE Write(r)
      <4>1. at[r] \in Idx /\ StepOf(at[r]) \in Steps
        BY <2>0, <3>2, StepOfType DEF Write, Control, Appending, Idx
      <4>2. (IF at[r] \in {4, 8} THEN seen[r][StepOf(at[r])] ELSE NoReceipt) \in Receipt
        BY <4>1 DEF TypeOK, NoReceipt, Receipt
      <4> QED
        BY <3>2, <4>1, <4>2, SlotStepType DEF Write, TypeOK
    <3>3. CASE Sync(r)
      <4>1. at[r] \in Idx
        BY <2>0, <3>3 DEF Sync, Control, Appending
      <4> QED
        BY <3>3, <4>1, SlotStepType DEF Sync, TypeOK
    <3>4. CASE slots' = slots
      BY <3>4 DEF TypeOK, JournalTypeOK
    <3> QED
      BY <1>2, <3>1, <3>2, <3>3, <3>4, WorkFrame
  <2>4. evidence' \in FileState
    BY <1>2, WorkFrame DEF TypeOK, CreateEvidence, WriteEvidence, SyncEvidence, FileState
  <2> QED
    BY <2>1, <2>2, <2>3, <2>4 DEF TypeOK, RunTypeOK
<1>3. ASSUME NEW s \in Steps, Network(s) PROVE TypeOK'
  <2>1. ChainTypeOK'
    BY <1>3, ChainStepType DEF Network, TypeOK
  <2> QED
    BY <1>3, <2>1 DEF Network, runVars, TypeOK, JournalTypeOK
<1>4. CASE PowerLoss
  <2>1. JournalTypeOK'
    BY <1>4, PowerLossType DEF PowerLoss, TypeOK
  <2>2. pc' \in [Runs -> Places] /\ evidence' \in FileState
    BY <1>4 DEF PowerLoss, TypeOK, Places, FileState
  <2> QED
    BY <1>4, <2>1, <2>2 DEF PowerLoss, TypeOK, ChainTypeOK
<1>5. CASE UNCHANGED vars
  BY <1>5 DEF vars, runVars, TypeOK, ChainTypeOK, JournalTypeOK
<1> QED
  BY <1>1, <1>2, <1>3, <1>4, <1>5 DEF Next

LEMMA InitRuns == Init => RunInv
BY DEF Init, RunInv, Control, Trail, InFlight, Announced, Filling, Appending, Publishing

LEMMA NextRuns == TypeOK /\ RunInv /\ [Next]_vars => RunInv'
<1> SUFFICES ASSUME TypeOK, RunInv, [Next]_vars PROVE RunInv'
  OBVIOUS
<1>1. ASSUME NEW r \in Runs, Start(r) \/ Work(r) \/ Timeout(r) \/ Fail(r) \/ Age(r)
      PROVE  RunInv'
  <2>1. CASE Create(r) \/ Write(r) \/ Sync(r)
    BY <2>1, StoringSteps
  <2>2. CASE Sign(r) \/ Send(r)
    BY <2>2, SigningSteps
  <2> QED
    BY <1>1, <2>1, <2>2, QuietSteps DEF Work
<1>2. CASE UNCHANGED <<slots, pc, mode, at, signed, sent>>
  BY <1>2 DEF RunInv, Control, Trail, InFlight, Announced, Filling, Durable
<1>3. CASE PowerLoss
  BY <1>3, PowerLossRuns
<1> QED
  BY <1>1, <1>2, <1>3 DEF Next, Network, vars, runVars

(***************************************************************************)
(* Every state a run, the journal and the chain can reach is well typed,   *)
(* and every live run has a durable trail of its own records behind it.    *)
(***************************************************************************)
THEOREM TypeCorrect == Spec => [](TypeOK /\ RunInv)
<1>1. Init => TypeOK /\ RunInv
  BY InitType, InitRuns
<1>2. (TypeOK /\ RunInv) /\ [Next]_vars => (TypeOK /\ RunInv)'
  BY NextType, NextRuns
<1> QED
  BY <1>1, <1>2, PTL DEF Spec

(***************************************************************************)
(* The records that announce a signature or a send are durable, and bear   *)
(* the authorization of the run that signed or sent.                       *)
(***************************************************************************)
LEMMA RunInvWriteAhead == TypeOK /\ RunInv => WriteAhead
<1> SUFFICES ASSUME TypeOK, RunInv, NEW r \in Runs, NEW s \in Steps, NEW k \in Idx
             PROVE  /\ (s \in signed[r] /\ k <= SigningSlot(s)) => Durable(k) /\ slots[k].auth = r
                    /\ (s \in sent[r] /\ k <= SubmissionSlot(s)) => Durable(k) /\ slots[k].auth = r
  BY DEF WriteAhead
<1>1. Trail(r) /\ Announced(r) /\ at[r] \in 0..9
  BY DEF RunInv, TypeOK
<1> QED
  BY <1>1, SlotNumbers DEF Trail, Announced, Idx

THEOREM WriteAheadHolds == Spec => []WriteAhead
<1> QED
  BY TypeCorrect, RunInvWriteAhead, PTL

(***************************************************************************)
(* No transaction is signed by two runs, and none is sent by two.          *)
(***************************************************************************)
LEMMA WriteAheadOnce == TypeOK /\ WriteAhead => AtMostOnce
<1> SUFFICES ASSUME TypeOK, WriteAhead, NEW r1 \in Runs, NEW r2 \in Runs, NEW s \in Steps,
                    (s \in signed[r1] /\ s \in signed[r2]) \/ (s \in sent[r1] /\ s \in sent[r2])
             PROVE  r1 = r2
  BY DEF AtMostOnce, TypeOK
<1> QED
  BY SlotNumbers DEF WriteAhead, Idx

THEOREM AtMostOnceHolds == Spec => []AtMostOnce
<1> QED
  BY TypeCorrect, WriteAheadHolds, WriteAheadOnce, PTL

(***************************************************************************)
(* No step, of a run or of the environment, changes a durable record.      *)
(***************************************************************************)
LEMMA DurableStays ==
  ASSUME TypeOK, RunInv, [Next]_vars, NEW k \in Idx, Durable(k)
  PROVE  slots'[k] = slots[k]
<1>1. ASSUME NEW r \in Runs, Create(r) \/ Write(r) \/ Sync(r) PROVE slots'[k] = slots[k]
  <2>1. slots \in [Idx -> Slot] /\ at[r] \in Idx /\ slots[at[r]].st # "durable"
    BY <1>1 DEF TypeOK, JournalTypeOK, RunInv, Control, InFlight, Appending,
                Create, Write, Sync, CreateSlot
  <2> QED
    BY <1>1, <2>1 DEF Create, Write, Sync, CreateSlot, WriteSlot, SyncSlot, Durable
<1>2. ASSUME NEW r \in Runs, Start(r) \/ Timeout(r) \/ Fail(r) \/ Age(r)
      PROVE  slots'[k] = slots[k]
  BY <1>2 DEF Start, Timeout, Fail, Age
<1>3. CASE PowerLoss
  BY <1>3, PowerLossKeeps DEF PowerLoss, TypeOK
<1>4. ASSUME NEW s \in Steps, Network(s) PROVE slots'[k] = slots[k]
  BY <1>4 DEF Network
<1>5. CASE UNCHANGED vars
  BY <1>5 DEF vars
<1> QED
  BY <1>1, <1>2, <1>3, <1>4, <1>5, WorkFrame DEF Next

THEOREM AppendOnlyHolds == Spec => AppendOnly
<1>1. TypeOK /\ RunInv /\ [Next]_vars => [\A k \in Idx : Durable(k) => slots'[k] = slots[k]]_vars
  BY DurableStays
<1> QED
  BY <1>1, TypeCorrect, PTL DEF Spec, AppendOnly

(***************************************************************************)
(* Nothing is signed or sent once the run that holds the authorization has *)
(* ended.                                                                  *)
(***************************************************************************)
LEMMA OnlyTheOwnerActs ==
  ASSUME TypeOK, RunInv, [Next]_vars, Orphaned
  PROVE  UNCHANGED <<signed, sent>>
<1>1. ASSUME NEW r \in Runs, Sign(r) \/ Send(r) PROVE FALSE
  <2>1. mode[r] = "live" /\ at[r] > 0 /\ pc[r] # "halted"
    BY <1>1 DEF RunInv, Control, Sign, Send
  <2>2. slots[0].auth = r
    BY <2>1 DEF RunInv, Trail, Idx
  <2> QED
    BY <2>1, <2>2 DEF Orphaned
<1>2. ASSUME NEW r \in Runs, Work(r) PROVE UNCHANGED <<signed, sent>>
  BY <1>1, <1>2 DEF Work, Reconcile, LoadEmpty, LoadOccupied, RecoverSubmission,
     RecoverConfirmedMint, RecoverBlocked, Confirm, Admit, Create, Write, Sync, Recheck,
     ReadReceipt, PollAgain, ReconciledStep, ReconciledEvidence, Finish, VerifyPostState,
     CreateEvidence, WriteEvidence, SyncEvidence
<1> QED
  BY <1>2 DEF Next, Start, Timeout, Fail, Age, Network, PowerLoss, vars, runVars

THEOREM RestartOnlyReconcilesHolds == Spec => RestartOnlyReconciles
<1>1. TypeOK /\ RunInv /\ [Next]_vars => [Orphaned => UNCHANGED <<signed, sent>>]_vars
  BY OnlyTheOwnerActs
<1> QED
  BY <1>1, TypeCorrect, PTL DEF Spec, RestartOnlyReconciles

(* A step of r leaves what every other run has read alone. *)
LEMMA OthersRead ==
  ASSUME TypeOK, NEW r \in Runs, Start(r) \/ Work(r) \/ Timeout(r) \/ Fail(r) \/ Age(r),
         NEW q \in Runs \ {r}
  PROVE  pc'[q] = pc[q] /\ mode'[q] = mode[q] /\ at'[q] = at[q] /\ seen'[q] = seen[q]
<1> USE DEF TypeOK, Goto, ReadAt
<1>1. CASE Start(r) \/ Timeout(r) \/ Fail(r) \/ Age(r)
  BY <1>1 DEF Start, Timeout, Fail, Age
<1>2. CASE LoadEmpty(r) \/ LoadOccupied(r) \/ RecoverSubmission(r)
  BY <1>2 DEF LoadEmpty, LoadOccupied, RecoverSubmission
<1>3. CASE RecoverConfirmedMint(r) \/ RecoverBlocked(r) \/ Confirm(r) \/ Admit(r)
  BY <1>3 DEF RecoverConfirmedMint, RecoverBlocked, Confirm, Admit
<1>4. CASE Create(r) \/ Write(r) \/ Sync(r) \/ Recheck(r) \/ Sign(r) \/ Send(r)
  BY <1>4 DEF Create, Write, Sync, Recheck, Sign, Send
<1>5. CASE ReadReceipt(r) \/ PollAgain(r) \/ ReconciledStep(r) \/ ReconciledEvidence(r)
  BY <1>5 DEF ReadReceipt, PollAgain, ReconciledStep, ReconciledEvidence
<1>6. CASE Finish(r) \/ VerifyPostState(r) \/ CreateEvidence(r) \/ WriteEvidence(r) \/ SyncEvidence(r)
  BY <1>6 DEF Finish, VerifyPostState, CreateEvidence, WriteEvidence, SyncEvidence
<1> QED
  BY <1>1, <1>2, <1>3, <1>4, <1>5, <1>6 DEF Work, Reconcile

(***************************************************************************)
(* Short of a power loss a readable record stays readable, so a recovery   *)
(* at work keeps the records it found.                                     *)
(***************************************************************************)
LEMMA VisibleStays ==
  ASSUME TypeOK, RunInv, [Next]_vars, ~PowerLoss, NEW k \in Idx, Visible(k)
  PROVE  Visible(k)'
<1>0. slots \in [Idx -> Slot]
  BY DEF TypeOK, JournalTypeOK
<1>1. ASSUME NEW r \in Runs, Create(r) PROVE Visible(k)'
  <2>1. k # at[r]
    BY <1>1 DEF Create, CreateSlot, Visible
  <2> QED
    BY <1>0, <1>1, <2>1 DEF Create, CreateSlot, Visible
<1>2. ASSUME NEW r \in Runs, Write(r) \/ Sync(r) PROVE Visible(k)'
  BY <1>0, <1>2 DEF Write, WriteSlot, Sync, SyncSlot, Visible, Slot
<1>3. CASE slots' = slots
  BY <1>3 DEF Visible
<1> QED
  BY <1>1, <1>2, <1>3, WorkFrame DEF Next, Start, Timeout, Fail, Age, Network, vars

(* The one step on which a recovery leaves a record behind it is its own. *)
LEMMA BehindSteps ==
  ASSUME TypeOK, RunInv, RecoveryBehind, [Next]_vars, ~PowerLoss, NEW r \in Runs,
         mode'[r] = "recovery", pc'[r] # "halted", NEW k \in Idx, k < at'[r]
  PROVE  Visible(k)'
<1> USE DEF TypeOK, Goto, ReadAt
<1>1. CASE Start(r) \/ Timeout(r) \/ Fail(r) \/ Age(r)
  BY <1>1, VisibleStays DEF Start, Timeout, Fail, Age, RecoveryBehind
<1>2. CASE RecoverSubmission(r)
  <2>1. PICK n \in {4, 8} : Parses(before[r], n) /\ at' = [at EXCEPT ![r] = n]
    BY <1>2 DEF RecoverSubmission
  <2>2. Visible(k)
    BY <2>1 DEF Parses
  <2> QED
    BY <2>2, VisibleStays
<1>3. CASE LoadEmpty(r) \/ LoadOccupied(r) \/ RecoverConfirmedMint(r) \/ RecoverBlocked(r)
  BY <1>3, VisibleStays DEF LoadEmpty, LoadOccupied, RecoverConfirmedMint, RecoverBlocked,
                            RecoveryBehind
<1>4. CASE Confirm(r) \/ Admit(r) \/ Create(r) \/ Write(r)
  BY <1>4, VisibleStays DEF Confirm, Admit, Create, Write, RecoveryBehind
<1>5. CASE Sync(r)
  <2>1. mode[r] = "recovery" /\ pc[r] = "sync" /\ at'[r] = at[r] + 1
    BY <1>5 DEF Sync
  <2>2. k < at[r] \/ (k = at[r] /\ slots[k].st = "written")
    BY <2>1 DEF RunInv, InFlight, Idx
  <2>3. Visible(k)
    BY <2>1, <2>2 DEF RecoveryBehind, Visible
  <2> QED
    BY <2>3, VisibleStays
<1>6. CASE Recheck(r) \/ Sign(r) \/ Send(r) \/ Reconcile(r)
  BY <1>6, VisibleStays DEF Recheck, Sign, Send, Reconcile, ReadReceipt, PollAgain,
                            ReconciledStep, ReconciledEvidence, RecoveryBehind
<1>7. CASE Finish(r) \/ VerifyPostState(r) \/ CreateEvidence(r) \/ WriteEvidence(r)
           \/ SyncEvidence(r)
  BY <1>7, VisibleStays DEF Finish, VerifyPostState, CreateEvidence, WriteEvidence,
                            SyncEvidence, RecoveryBehind
<1>8. ASSUME NEW q \in Runs \ {r}, Start(q) \/ Work(q) \/ Timeout(q) \/ Fail(q) \/ Age(q)
      PROVE  Visible(k)'
  <2>1. pc'[r] = pc[r] /\ mode'[r] = mode[r] /\ at'[r] = at[r]
    BY <1>8, OthersRead
  <2> QED
    BY <2>1, VisibleStays DEF RecoveryBehind
<1>9. CASE (\E s \in Steps : Network(s)) \/ UNCHANGED vars
  BY <1>9, VisibleStays DEF Network, vars, runVars, RecoveryBehind
<1> QED
  BY <1>1, <1>2, <1>3, <1>4, <1>5, <1>6, <1>7, <1>8, <1>9 DEF Next, Work

LEMMA BehindStep == TypeOK /\ RunInv /\ RecoveryBehind /\ [Next]_vars => RecoveryBehind'
<1> SUFFICES ASSUME TypeOK, RunInv, RecoveryBehind, [Next]_vars, NEW r \in Runs,
                    mode'[r] = "recovery", pc'[r] # "halted", NEW k \in Idx, k < at'[r]
             PROVE  Visible(k)'
  BY DEF RecoveryBehind
<1>1. CASE PowerLoss
  <2>1. pc'[r] = "idle" /\ mode[r] = "recovery" /\ pc[r] = "idle"
    BY <1>1 DEF PowerLoss, Live, TypeOK
  <2> QED
    BY <2>1 DEF RunInv, Control
<1> QED
  BY <1>1, BehindSteps

(***************************************************************************)
(* A record begun after the authorized run has ended is a terminal, and    *)
(* the submission it is about can be read before it.                       *)
(***************************************************************************)
LEMMA OnlyEndsAreRecorded ==
  ASSUME TypeOK, RunInv, RecoveryBehind, [Next]_vars, Orphaned, NEW k \in Idx, Begun(k)
  PROVE  k \in {4, 8} /\ Visible(k - 1)
<1>0. slots \in [Idx -> Slot]
  BY DEF TypeOK, JournalTypeOK
<1>1. ASSUME NEW r \in Runs, Create(r) PROVE k \in {4, 8} /\ Visible(k - 1)
  <2>1. at[r] \in Idx /\ mode[r] \in {"live", "recovery"} /\ pc[r] = "create"
    BY <1>1 DEF RunInv, Control, Appending, Create
  <2>2. k = at[r]
    BY <1>0, <1>1, <2>1 DEF Create, CreateSlot, Begun
  <2>3. CASE mode[r] = "live"
    <3>1. at[r] # 0
      BY <1>1 DEF Orphaned, Create, CreateSlot
    <3>2. slots[0].auth = r
      BY <2>1, <2>3, <3>1 DEF RunInv, Trail, Idx
    <3> QED
      BY <2>1, <3>2 DEF Orphaned
  <2>4. CASE mode[r] = "recovery"
    <3>1. at[r] \in {4, 8}
      BY <2>1, <2>4 DEF RunInv, Control, Appending
    <3> QED
      BY <2>1, <2>2, <2>4, <3>1 DEF RecoveryBehind, Idx
  <2> QED
    BY <2>1, <2>3, <2>4
<1>2. ASSUME NEW r \in Runs, Write(r) \/ Sync(r) PROVE FALSE
  <2>1. at[r] \in Idx /\ slots[at[r]].st # "absent"
    BY <1>2 DEF RunInv, Control, Appending, InFlight, Write, Sync
  <2> QED
    BY <1>0, <1>2, <2>1 DEF Write, WriteSlot, Sync, SyncSlot, Begun
<1>3. CASE PowerLoss
  <2>1. PICK gone \in SUBSET Unsynced, torn \in SUBSET Unsynced :
          slots' = [j \in Idx |-> Remains(j, gone, torn)]
    BY <1>3 DEF PowerLoss, LoseUnsynced
  <2>2. k \notin Unsynced /\ ~Visible(k)
    BY DEF Begun, Unsynced, Visible
  <2>3. slots'[k] = slots[k]
    BY <2>1, <2>2 DEF Remains
  <2> QED
    BY <2>3 DEF Begun
<1>4. slots' # slots
  BY DEF Begun
<1> QED
  BY <1>1, <1>2, <1>3, <1>4, WorkFrame
     DEF Next, Start, Timeout, Fail, Age, Network, vars

THEOREM RecoveryOnlyEndsHolds == Spec => RecoveryOnlyEnds
<1>1. Init => RecoveryBehind
  BY DEF Init, RecoveryBehind
<1>2. TypeOK /\ RunInv /\ RecoveryBehind /\ [Next]_vars =>
        [Orphaned => \A k \in Idx : Begun(k) => k \in {4, 8} /\ Visible(k - 1)]_vars
  BY OnlyEndsAreRecorded
<1> QED
  BY <1>1, <1>2, BehindStep, TypeCorrect, PTL DEF Spec, RecoveryOnlyEnds

-----------------------------------------------------------------------------
(* The second layer: the journal and the evidence tell the truth, if no    *)
(* reorganisation falls between the two reads of a reconciliation.         *)

LEMMA OneHonest == Honest # {}
BY FaultyAssumption DEF Honest

(* A transaction that is final stays as it is, and one whose receipt was   *)
(* read stays in its block until the reconciliation is over.               *)
LEMMA FinalStays ==
  ASSUME TypeOK, [Next]_vars, NEW s \in Steps
  PROVE  /\ chain[s].at = "final" => chain'[s] = chain[s]
         /\ (Mined(s) /\ QuietReads /\ \E r \in Runs : pc[r] = "finality") =>
              Mined(s)' /\ chain'[s].receipt = chain[s].receipt
<1>0. chain \in [Steps -> Position]
  BY DEF TypeOK, ChainTypeOK
<1>1. CASE chain' = chain
  BY <1>1 DEF Mined
<1>2. ASSUME NEW t \in Steps, Broadcast(t), chain' # chain
      PROVE  chain'[s] = chain[s] \/ (chain[s].at = "unseen")
  BY <1>0, <1>2 DEF Broadcast
<1>3. ASSUME NEW t \in Steps, Include(t)
      PROVE  chain'[s] = chain[s] \/ (chain[s].at = "pending")
  BY <1>0, <1>3 DEF Include
<1>4. ASSUME NEW t \in Steps, Reorg(t)
      PROVE  chain'[s] = chain[s] \/ (chain[s].at = "mined")
  BY <1>0, <1>4 DEF Reorg, Fallen
<1>5. ASSUME NEW t \in Steps, Finalize(t)
      PROVE  \/ chain'[s] = chain[s]
             \/ /\ chain[s].at = "mined" /\ chain'[s].at = "final"
                /\ chain'[s].receipt = chain[s].receipt
  BY <1>0, <1>5 DEF Finalize, Position
<1>6. \/ chain' = chain
      \/ \E t \in Steps : Broadcast(t) \/ Include(t) \/ Finalize(t)
      \/ \E t \in Steps : Reorg(t) /\ (QuietReads => \A r \in Runs : pc[r] # "finality")
  <2>1. ASSUME NEW r \in Runs, Send(r) PROVE \E t \in Steps : Broadcast(t)
    BY <2>1, StepOfType DEF Send, TypeOK
  <2> QED
    BY <2>1, WorkFrame DEF Next, Start, Timeout, Fail, Age, Network, PowerLoss, vars
<1> QED
  BY <1>0, <1>1, <1>2, <1>3, <1>4, <1>5, <1>6 DEF Mined

LEMMA ChainInvStep ==
  ASSUME TypeOK, ChainInv, [Next]_vars
  PROVE  ChainInv'
<1>0. chain \in [Steps -> Position]
  BY DEF TypeOK, ChainTypeOK
<1>1. ASSUME NEW t \in Steps, Broadcast(t) PROVE ChainInv'
  BY <1>0, <1>1 DEF Broadcast, ChainInv, Mined, Position
<1>2. ASSUME NEW t \in Steps, Include(t) PROVE ChainInv'
  <2>1. PICK o \in Outcomes : chain' = [chain EXCEPT
            ![t] = [at |-> "mined", receipt |-> [chain[t].receipt EXCEPT !.status = o]]]
    BY <1>2 DEF Include
  <2>2. chain'[t].at = "mined" /\ chain'[t].receipt.status = o
    BY <1>0, <2>1 DEF Position, Receipt
  <2> QED
    BY <1>0, <2>1, <2>2 DEF ChainInv, Mined
<1>3. ASSUME NEW t \in Steps, Reorg(t) PROVE ChainInv'
  BY <1>0, <1>3 DEF Reorg, ChainInv, Mined, Outcomes
<1>4. ASSUME NEW t \in Steps, Finalize(t) PROVE ChainInv'
  BY <1>0, <1>4 DEF Finalize, ChainInv, Mined, Position
<1>5. CASE chain' = chain
  BY <1>5 DEF ChainInv, Mined
<1>6. ASSUME NEW r \in Runs, Send(r) PROVE ChainInv'
  BY <1>1, <1>6, StepOfType DEF Send, TypeOK
<1> QED
  BY <1>2, <1>3, <1>4, <1>5, <1>6, WorkFrame
     DEF Next, Start, Timeout, Fail, Age, Network, PowerLoss, vars

(* A record becomes readable only by being written. *)
LEMMA VisibleStep ==
  ASSUME TypeOK, RunInv, [Next]_vars, NEW k \in Idx, Visible(k)'
  PROVE  \/ Visible(k) /\ slots'[k].receipt = slots[k].receipt
         \/ \E r \in Runs : Write(r) /\ at[r] = k
<1>0. slots \in [Idx -> Slot]
  BY DEF TypeOK, JournalTypeOK
<1>1. ASSUME NEW r \in Runs, Create(r) \/ Sync(r)
      PROVE  Visible(k) /\ slots'[k].receipt = slots[k].receipt
  <2>1. at[r] \in Idx /\ (Sync(r) => slots[at[r]].st = "written")
    BY <1>1 DEF RunInv, Control, InFlight, Appending, Create, Sync
  <2>2. CASE Create(r)
    <3>1. slots'[at[r]].st = "torn"
      BY <1>0, <2>1, <2>2 DEF Create, CreateSlot, EmptySlot
    <3> QED
      BY <1>0, <2>1, <2>2, <3>1 DEF Create, CreateSlot, Visible
  <2>3. CASE Sync(r)
    BY <1>0, <2>1, <2>3 DEF Sync, SyncSlot, Visible, Slot
  <2> QED
    BY <1>1, <2>2, <2>3
<1>2. ASSUME NEW r \in Runs, Write(r), at[r] # k
      PROVE  Visible(k) /\ slots'[k].receipt = slots[k].receipt
  BY <1>0, <1>2 DEF Write, WriteSlot, Visible
<1>3. CASE slots' = slots
  BY <1>3 DEF Visible
<1>4. CASE PowerLoss
  <2>1. PICK gone \in SUBSET Unsynced, torn \in SUBSET Unsynced :
          slots' = [j \in Idx |-> Remains(j, gone, torn)]
    BY <1>4 DEF PowerLoss, LoseUnsynced
  <2>2. slots'[k] = Remains(k, gone, torn)
    BY <2>1
  <2>3. CASE k \in gone
    BY <2>2, <2>3 DEF Remains, EmptySlot, Visible
  <2>4. CASE k \in torn \ gone
    <3>1. slots'[k].st = "torn"
      BY <1>0, <2>2, <2>4 DEF Remains, Slot
    <3> QED
      BY <3>1 DEF Visible
  <2>5. CASE k \notin gone /\ k \notin torn
    BY <1>0, <2>2, <2>5 DEF Remains, Visible, Slot
  <2> QED
    BY <2>3, <2>4, <2>5
<1> QED
  BY <1>1, <1>2, <1>3, <1>4, WorkFrame
     DEF Next, Start, Timeout, Fail, Age, Network, vars

LEMMA RecordsStep ==
  ASSUME TypeOK, RunInv, ChainTruth, [Next]_vars
  PROVE  RecordsTrue'
<1> SUFFICES ASSUME NEW s \in Steps, Visible(TerminalSlot(s))'
             PROVE  /\ chain'[s].at = "final"
                    /\ slots'[TerminalSlot(s)].receipt.status = chain'[s].receipt.status
  BY DEF RecordsTrue, Terminated, Visible
<1> DEFINE k == TerminalSlot(s)
<1>1. k \in {4, 8} /\ k \in Idx /\ StepOf(k) = s
  BY DEF TerminalSlot, Steps, StepOf, Idx
<1>2. CASE Visible(k) /\ slots'[k].receipt = slots[k].receipt
  <2>1. chain[s].at = "final" /\ slots[k].receipt.status = chain[s].receipt.status
    BY <1>2 DEF ChainTruth, RecordsTrue, Terminated, Visible
  <2> QED
    BY <1>2, <2>1, FinalStays
<1>3. ASSUME NEW r \in Runs, Write(r), at[r] = k
      PROVE  chain'[s].at = "final" /\ slots'[k].receipt.status = chain'[s].receipt.status
  <2>1. chain[s].at = "final" /\ seen[r][s] = chain[s].receipt
    BY <1>1, <1>3 DEF ChainTruth, ReadsTrue, Write
  <2>2. slots'[k].receipt = seen[r][s]
    BY <1>1, <1>3 DEF Write, WriteSlot, TypeOK, JournalTypeOK, Slot
  <2> QED
    BY <2>1, <2>2, FinalStays
<1> QED
  BY <1>1, <1>2, <1>3, VisibleStep

(* What a run has read stays true while the run itself does nothing. *)
LEMMA ReadsStay ==
  ASSUME QuietReads, TypeOK, ChainTruth, [Next]_vars, NEW q \in Runs,
         pc'[q] = pc[q], mode'[q] = mode[q], at'[q] = at[q], seen'[q] = seen[q]
  PROVE  ReadsTrue(q)'
<1>1. ReadsTrue(q) /\ at[q] \in 0..9
  BY DEF ChainTruth, TypeOK
<1>2. ASSUME pc[q] \in {"append", "create", "write"}, at[q] \in {4, 8}
      PROVE  /\ chain'[StepOf(at[q])].at = "final"
             /\ seen[q][StepOf(at[q])] = chain'[StepOf(at[q])].receipt
  <2>1. chain'[StepOf(at[q])] = chain[StepOf(at[q])]
    BY <1>1, <1>2, StepOfType, FinalStays DEF ReadsTrue
  <2> QED
    BY <1>1, <1>2, <2>1 DEF ReadsTrue
<1>3. ASSUME pc[q] = "finality", NEW s \in Targets(q)
      PROVE  Mined(s)' /\ seen[q][s] = chain'[s].receipt
  <2>1. s \in Steps /\ Mined(s) /\ seen[q][s] = chain[s].receipt
    BY <1>1, <1>3, StepOfType DEF ReadsTrue, Targets
  <2> QED
    BY <1>3, <2>1, FinalStays
<1>4. ASSUME pc[q] \in Publishing, NEW s \in Steps PROVE Settled(s)' = "confirmed"
  <2>1. chain[s].at = "final" /\ Settled(s) = "confirmed"
    BY <1>1, <1>4 DEF ReadsTrue, Settled
  <2> QED
    BY <2>1, FinalStays DEF Settled
<1>5. Targets(q)' = Targets(q)
  BY DEF Targets
<1> QED
  BY <1>2, <1>3, <1>4, <1>5 DEF ReadsTrue

(* A reconciliation that is over was about final receipts. *)
LEMMA ReconciledFinal ==
  ASSUME TypeOK, ChainTruth, NEW r \in Runs, pc[r] = "finality", Finalized(r),
         NEW s \in Targets(r)
  PROVE  chain[s].at = "final" /\ seen[r][s] = chain[s].receipt
<1>1. seen[r][s] = chain[s].receipt
  BY DEF ChainTruth, ReadsTrue
<1>2. PICK p \in Honest : TRUE
  BY OneHonest
<1>3. chain[s].at = "final" \/ chain[s].receipt.block # seen[r][s].block
  BY <1>2 DEF Finalized, HeadPassed
<1> QED
  BY <1>1, <1>3

LEMMA ReadsStep ==
  ASSUME QuietReads, TypeOK, RunInv, ChainTruth, [Next]_vars, NEW q \in Runs
  PROVE  ReadsTrue(q)'
<1> USE DEF Goto, ReadAt
<1>0. Control(q) /\ Trail(q) /\ InFlight(q) /\ ReadsTrue(q) /\ Gate(q) /\ at[q] \in 0..9
  BY DEF RunInv, ChainTruth, TypeOK
<1>t. /\ pc \in [Runs -> Places] /\ at \in [Runs -> 0..9] /\ mode \in [Runs -> Modes]
      /\ seen \in [Runs -> [Steps -> Receipt]]
  BY DEF TypeOK
<1>1. ASSUME NEW r \in Runs \ {q}, Start(r) \/ Work(r) \/ Timeout(r) \/ Fail(r) \/ Age(r)
      PROVE  ReadsTrue(q)'
  BY <1>1, OthersRead, ReadsStay
<1>2. ASSUME pc'[q] \notin {"append", "create", "write", "finality"}, pc'[q] \notin Publishing
      PROVE  ReadsTrue(q)'
  BY <1>2 DEF ReadsTrue
<1>3. ASSUME pc'[q] = pc[q], mode'[q] = mode[q], at'[q] = at[q], seen'[q] = seen[q]
      PROVE  ReadsTrue(q)'
  BY <1>3, ReadsStay
<1>4. CASE Start(q) \/ Timeout(q) \/ Fail(q) \/ LoadEmpty(q) \/ LoadOccupied(q)
           \/ RecoverSubmission(q) \/ RecoverConfirmedMint(q) \/ RecoverBlocked(q)
           \/ PollAgain(q) \/ Finish(q) \/ Send(q) \/ SyncEvidence(q)
  BY <1>2, <1>4, <1>t DEF Start, Timeout, Fail, LoadEmpty, LoadOccupied, RecoverSubmission,
     RecoverConfirmedMint, RecoverBlocked, PollAgain, Finish, Send, SyncEvidence, Publishing
<1>5. CASE Age(q)
  BY <1>3, <1>5 DEF Age
<1>6. CASE Confirm(q) \/ Recheck(q) \/ Sign(q)
  <2>1. at'[q] = at[q] /\ pc'[q] \in {"append", "send"}
        /\ (pc'[q] = "append" => at[q] \notin {4, 8})
    BY <1>0, <1>6, <1>t DEF Confirm, Recheck, Sign, Control
  <2> QED
    BY <2>1 DEF ReadsTrue, Publishing
<1>7. CASE Admit(q) \/ Create(q) \/ Write(q)
  <2>1. /\ pc[q] \in {"append", "create", "write"} /\ pc'[q] \in {"create", "write", "sync"}
        /\ at'[q] = at[q] /\ seen'[q] = seen[q] /\ chain' = chain
    BY <1>7, <1>t DEF Admit, Create, Write
  <2> QED
    BY <1>0, <2>1 DEF ReadsTrue, Publishing
<1>8. CASE Sync(q)
  <2>1. /\ pc'[q] = AfterRecord(q, at[q]) /\ at[q] \in Idx /\ chain' = chain
    BY <1>0, <1>8, <1>t DEF Sync, Control, Appending
  <2>2. pc'[q] \notin {"append", "create", "write", "finality"}
        /\ (pc'[q] \in Publishing => at[q] = 8 /\ Outcome(8) = "confirmed" /\ mode[q] = "live")
    BY <2>1 DEF AfterRecord, Idx, Publishing
  <2>3. ASSUME pc'[q] \in Publishing, NEW s \in Steps PROVE Settled(s) = "confirmed"
    <3>1. slots[8].st = "written" /\ slots[4].st = "durable" /\ Outcome(4) = "confirmed"
      BY <1>0, <1>8, <2>2, <2>3 DEF InFlight, Trail, Gate, Sync, Durable, Idx
    <3> QED
      BY <2>2, <2>3, <3>1 DEF ChainTruth, RecordsTrue, Terminated, TerminalSlot, Steps,
                              Settled, Outcome
  <2> QED
    BY <2>1, <2>2, <2>3 DEF ReadsTrue, Settled
<1>9. CASE ReadReceipt(q)
  <2>1. /\ pc'[q] = "finality" /\ chain' = chain /\ Targets(q)' = Targets(q)
    BY <1>9, <1>t DEF ReadReceipt, Targets
  <2>2. PICK p \in Honest : TRUE
    BY OneHonest
  <2>3. ASSUME NEW s \in Targets(q) PROVE Mined(s) /\ seen'[q][s] = chain[s].receipt
    <3>1. s \in Steps
      BY StepOfType, <1>0 DEF Targets
    <3> QED
      BY <1>9, <1>t, <2>2, <3>1 DEF ReadReceipt, Reported
  <2> QED
    BY <2>1, <2>3 DEF ReadsTrue, Mined, Publishing
<1>10. CASE ReconciledStep(q)
  <2>1. /\ pc'[q] = "append" /\ chain' = chain /\ at' = at /\ seen' = seen
        /\ StepOf(at[q]) \in Targets(q)
    BY <1>10, <1>t DEF ReconciledStep, Targets
  <2>2. chain[StepOf(at[q])].at = "final"
        /\ seen[q][StepOf(at[q])] = chain[StepOf(at[q])].receipt
    BY <1>10, <2>1, ReconciledFinal DEF ReconciledStep
  <2> QED
    BY <2>1, <2>2 DEF ReadsTrue, Publishing
<1>11. CASE ReconciledEvidence(q)
  <2>1. pc'[q] = "post" /\ chain' = chain /\ Targets(q) = Steps
    BY <1>11, <1>t DEF ReconciledEvidence, Targets
  <2>2. ASSUME NEW s \in Steps PROVE Settled(s) = "confirmed"
    BY <1>11, <2>1, ReconciledFinal DEF ReconciledEvidence, Settled
  <2> QED
    BY <2>1, <2>2 DEF ReadsTrue, Settled
<1>12. CASE VerifyPostState(q) \/ CreateEvidence(q) \/ WriteEvidence(q)
  <2>1. pc[q] \in Publishing /\ pc'[q] \in Publishing /\ chain' = chain
    BY <1>12, <1>t DEF VerifyPostState, CreateEvidence, WriteEvidence, Publishing
  <2> QED
    BY <1>0, <2>1 DEF ReadsTrue, Settled, Publishing
<1>13. CASE PowerLoss
  <2>1. pc'[q] \in {"idle", "halted"}
    BY <1>13 DEF PowerLoss, Live
  <2> QED
    BY <2>1 DEF ReadsTrue, Publishing
<1>14. CASE UNCHANGED runVars
  BY <1>3, <1>14 DEF runVars
<1> QED
  BY <1>1, <1>4, <1>5, <1>6, <1>7, <1>8, <1>9, <1>10, <1>11, <1>12, <1>13, <1>14
     DEF Next, Work, Reconcile, Network, vars

LEMMA GateStep ==
  ASSUME TypeOK, RunInv, [Next]_vars, NEW q \in Runs, Gate(q)
  PROVE  Gate(q)'
<1> USE DEF Goto, ReadAt
<1>0. Control(q) /\ Trail(q) /\ Gate(q) /\ at[q] \in 0..9
  BY DEF RunInv, TypeOK
<1>t. /\ pc \in [Runs -> Places] /\ at \in [Runs -> 0..9] /\ mode \in [Runs -> Modes]
      /\ slots \in [Idx -> Slot]
  BY DEF TypeOK, JournalTypeOK
<1>1. (mode[q] = "live" /\ at[q] >= 5) => slots'[4] = slots[4]
  BY <1>0, DurableStays DEF Trail, Idx
<1>2. ASSUME mode'[q] = mode[q], at'[q] = at[q], pc[q] # "halted" \/ pc'[q] = "halted"
      PROVE  Gate(q)'
  BY <1>0, <1>1, <1>2 DEF Gate, Outcome
<1>3. ASSUME NEW r \in Runs \ {q}, Start(r) \/ Work(r) \/ Timeout(r) \/ Fail(r) \/ Age(r)
      PROVE  Gate(q)'
  BY <1>0, <1>1, <1>3, OthersRead DEF Gate, Outcome
<1>4. CASE Start(q) \/ Timeout(q) \/ Fail(q) \/ Age(q) \/ LoadOccupied(q)
           \/ RecoverConfirmedMint(q) \/ RecoverBlocked(q) \/ Confirm(q) \/ Admit(q)
           \/ Create(q) \/ Write(q) \/ Recheck(q) \/ Sign(q) \/ Send(q) \/ Reconcile(q)
           \/ VerifyPostState(q) \/ CreateEvidence(q) \/ WriteEvidence(q) \/ SyncEvidence(q)
  <2>1. mode' = mode /\ at' = at
    BY <1>4 DEF Start, Timeout, Fail, Age, LoadOccupied, RecoverConfirmedMint, RecoverBlocked,
       Confirm, Admit, Create, Write, Recheck, Sign, Send, Reconcile, ReadReceipt, PollAgain,
       ReconciledStep, ReconciledEvidence, VerifyPostState, CreateEvidence, WriteEvidence,
       SyncEvidence
  <2>2. pc[q] # "halted"
    BY <1>4 DEF Start, Timeout, Fail, Live, Age, LoadOccupied, RecoverConfirmedMint,
       RecoverBlocked, Confirm, Admit, Create, Write, Recheck, Sign, Send, Reconcile,
       ReadReceipt, PollAgain, ReconciledStep, ReconciledEvidence, VerifyPostState,
       CreateEvidence, WriteEvidence, SyncEvidence
  <2> QED
    BY <1>2, <2>1, <2>2
<1>5. CASE LoadEmpty(q) \/ RecoverSubmission(q) \/ Finish(q)
  <2>1. mode'[q] # "live" \/ at'[q] = 0
    BY <1>0, <1>5, <1>t DEF LoadEmpty, RecoverSubmission, Finish, Control
  <2> QED
    BY <2>1 DEF Gate
<1>6. CASE Sync(q)
  <2>1. /\ pc[q] = "sync" /\ pc'[q] = AfterRecord(q, at[q]) /\ at'[q] = at[q] + 1
        /\ mode'[q] = mode[q] /\ at[q] \in Idx
    BY <1>0, <1>6, <1>t DEF Sync, Control, Appending
  <2>2. CASE at[q] >= 5
    BY <1>0, <1>1, <2>1, <2>2 DEF Gate, Outcome
  <2>3. CASE at[q] = 4
    <3>1. slots'[4].receipt = slots[4].receipt
      BY <1>6, <1>t, <2>3 DEF Sync, SyncSlot, Slot, Idx
    <3>2. pc'[q] = "halted" \/ Outcome(4) = "confirmed"
      BY <2>1, <2>3 DEF AfterRecord
    <3> QED
      BY <2>1, <2>3, <3>1, <3>2 DEF Gate, Outcome
  <2>4. CASE at[q] < 4
    BY <2>1, <2>4 DEF Gate, Idx
  <2> QED
    BY <1>0, <2>2, <2>3, <2>4
<1>7. CASE PowerLoss
  <2>1. /\ mode' = mode /\ at' = at /\ pc'[q] \in {"idle", "halted"}
        /\ (pc'[q] = "idle" => pc[q] = "idle")
    BY <1>7 DEF PowerLoss, Live
  <2> QED
    BY <1>2, <2>1
<1>8. CASE UNCHANGED <<pc, mode, at, slots>>
  BY <1>0, <1>8 DEF Gate, Outcome
<1> QED
  BY <1>3, <1>4, <1>5, <1>6, <1>7, <1>8 DEF Next, Work, Network, vars, runVars

LEMMA EvidenceStep ==
  ASSUME TypeOK, ChainTruth, [Next]_vars
  PROVE  EvidenceTruth'
<1>1. ASSUME \A s \in Steps : Settled(s) = "confirmed" PROVE EvidenceTruth'
  <2>1. ASSUME NEW s \in Steps PROVE Settled(s)' = "confirmed"
    BY <1>1, <2>1, FinalStays DEF Settled
  <2> QED
    BY <2>1 DEF EvidenceTruth
<1>2. CASE evidence \in {"written", "durable"}
  BY <1>1, <1>2 DEF ChainTruth, EvidenceTruth
<1>3. ASSUME NEW r \in Runs, WriteEvidence(r) \/ SyncEvidence(r) PROVE EvidenceTruth'
  BY <1>1, <1>3 DEF WriteEvidence, SyncEvidence, ChainTruth, ReadsTrue, Publishing
<1>4. CASE evidence' = evidence /\ evidence \notin {"written", "durable"}
  BY <1>4 DEF EvidenceTruth
<1>5. ASSUME NEW r \in Runs, CreateEvidence(r) PROVE EvidenceTruth'
  BY <1>5 DEF CreateEvidence, EvidenceTruth
<1>6. CASE PowerLoss /\ evidence \notin {"written", "durable"}
  BY <1>6 DEF PowerLoss, EvidenceTruth, TypeOK, FileState
<1> QED
  BY <1>2, <1>3, <1>4, <1>5, <1>6, WorkFrame
     DEF Next, Start, Timeout, Fail, Age, Network, vars

LEMMA InitTruth == Init => ChainTruth
<1> SUFFICES ASSUME Init PROVE ChainTruth
  OBVIOUS
<1>1. ChainInv
  BY DEF Init, ChainInit, ChainInv, Mined, NoReceipt, Outcomes
<1>2. RecordsTrue
  BY DEF Init, JournalInit, RecordsTrue, Terminated, EmptySlot, TerminalSlot, Idx, Steps
<1>3. \A r \in Runs : ReadsTrue(r) /\ Gate(r)
  BY DEF Init, ReadsTrue, Gate, Publishing
<1> QED
  BY <1>1, <1>2, <1>3 DEF ChainTruth, EvidenceTruth, Init

(***************************************************************************)
(* The journal and the evidence agree with the final chain, in every state *)
(* and for any number of processes, crashes and power losses, provided one *)
(* of the two providers is honest and no reorganisation falls between the  *)
(* block reads and the finalized-head reads of one reconciliation.         *)
(***************************************************************************)
THEOREM ChainTruthHolds == QuietReads => (Spec => []ChainTruth)
<1> SUFFICES ASSUME QuietReads PROVE Spec => []ChainTruth
  OBVIOUS
<1>1. Init => ChainTruth
  BY InitTruth
<1>2. (TypeOK /\ RunInv) /\ ChainTruth /\ [Next]_vars => ChainTruth'
  BY ChainInvStep, RecordsStep, ReadsStep, GateStep, EvidenceStep DEF ChainTruth
<1> QED
  BY <1>1, <1>2, TypeCorrect, PTL DEF Spec

(***************************************************************************)
(* A terminal record states the final outcome of its transaction.          *)
(***************************************************************************)
THEOREM TerminalTruthHolds == QuietReads => (Spec => []TerminalTruth)
<1> SUFFICES ASSUME QuietReads PROVE Spec => []TerminalTruth
  OBVIOUS
<1>1. ChainTruth => TerminalTruth
  BY DEF ChainTruth, RecordsTrue, TerminalTruth, Settled
<1>2. Spec => []ChainTruth
  BY ChainTruthHolds
<1> QED
  BY <1>1, <1>2, PTL

(***************************************************************************)
(* The mint is signed only after the approval has succeeded for good.      *)
(***************************************************************************)
THEOREM MintGatedHolds == QuietReads => (Spec => []MintGated)
<1> SUFFICES ASSUME QuietReads PROVE Spec => []MintGated
  OBVIOUS
<1>1. TypeOK /\ RunInv /\ ChainTruth => MintGated
  <2> SUFFICES ASSUME TypeOK, RunInv, ChainTruth, NEW r \in Runs, "mint" \in signed[r]
               PROVE  Settled("approval") = "confirmed"
    BY DEF MintGated
  <2>1. mode[r] = "live" /\ at[r] > 5 /\ at[r] \in 0..9
    BY DEF RunInv, Announced, Steps, SigningSlot, TypeOK
  <2>2. Outcome(4) = "confirmed" /\ Durable(4)
    BY <2>1 DEF ChainTruth, Gate, RunInv, Trail, Idx
  <2> QED
    BY <2>2 DEF ChainTruth, RecordsTrue, Terminated, TerminalSlot, Steps, Settled, Outcome,
                Durable
<1>2. Spec => []ChainTruth
  BY ChainTruthHolds
<1> QED
  BY <1>1, <1>2, TypeCorrect, PTL

(***************************************************************************)
(* Readable evidence is about two final successes.                         *)
(***************************************************************************)
THEOREM EvidenceTruthHolds == QuietReads => (Spec => []EvidenceTruth)
<1> SUFFICES ASSUME QuietReads PROVE Spec => []EvidenceTruth
  OBVIOUS
<1>1. ChainTruth => EvidenceTruth
  BY DEF ChainTruth
<1>2. Spec => []ChainTruth
  BY ChainTruthHolds
<1> QED
  BY <1>1, <1>2, PTL
-----------------------------------------------------------------------------
(* Without quiet reads: what a reorganisation between the two reads of a   *)
(* reconciliation can and cannot do to the journal.                        *)

(* The chain gives up a receipt only for a later block. *)
LEMMA ReceiptsGrow ==
  ASSUME TypeOK, [Next]_vars, NEW s \in Steps
  PROVE  /\ chain[s].receipt.block \in Nat /\ chain'[s].receipt.block \in Nat
         /\ chain[s].receipt.block <= chain'[s].receipt.block
         /\ Mined(s) => \/ Mined(s)' /\ chain'[s].receipt = chain[s].receipt
                        \/ chain[s].receipt.block < chain'[s].receipt.block
<1>0. chain \in [Steps -> Position]
  BY DEF TypeOK, ChainTypeOK
<1>1. CASE chain' = chain
  BY <1>0, <1>1 DEF Mined, Position, Receipt
<1>2. ASSUME NEW t \in Steps, Broadcast(t), chain' # chain
      PROVE  chain'[s].receipt = chain[s].receipt /\ (Mined(s) => Mined(s)')
  BY <1>0, <1>2 DEF Broadcast, Mined, Position
<1>3. ASSUME NEW t \in Steps, Include(t)
      PROVE  /\ chain'[s].receipt.block = chain[s].receipt.block
             /\ Mined(s) => chain'[s] = chain[s]
  BY <1>0, <1>3 DEF Include, Mined, Position, Receipt
<1>4. ASSUME NEW t \in Steps, Reorg(t)
      PROVE  chain'[s] = chain[s] \/ chain'[s].receipt.block = chain[s].receipt.block + 1
  BY <1>0, <1>4 DEF Reorg, Fallen
<1>5. ASSUME NEW t \in Steps, Finalize(t)
      PROVE  chain'[s].receipt = chain[s].receipt /\ (Mined(s) => Mined(s)')
  BY <1>0, <1>5 DEF Finalize, Mined, Position
<1>6. \/ chain' = chain
      \/ \E t \in Steps : Broadcast(t) \/ Include(t) \/ Reorg(t) \/ Finalize(t)
  <2>1. ASSUME NEW r \in Runs, Send(r) PROVE \E t \in Steps : Broadcast(t)
    BY <2>1, StepOfType DEF Send, TypeOK
  <2> QED
    BY <2>1, WorkFrame DEF Next, Start, Timeout, Fail, Age, Network, PowerLoss, vars
<1>7. chain[s].receipt.block \in Nat
  BY <1>0 DEF Position, Receipt
<1> QED
  BY <1>1, <1>2, <1>3, <1>4, <1>5, <1>6, <1>7 DEF Mined

(* A receipt that was final, or overtaken, remains one or the other. *)
DatedNext(s, rc) ==
  \/ chain'[s].at = "final" /\ chain'[s].receipt = rc
  \/ rc.block < chain'[s].receipt.block

LEMMA DatedStays ==
  ASSUME TypeOK, [Next]_vars, NEW s \in Steps, NEW rc \in Receipt,
         FinalReceipt(s, rc) \/ Moved(s, rc)
  PROVE  DatedNext(s, rc)
<1>1. CASE FinalReceipt(s, rc)
  BY <1>1, FinalStays DEF FinalReceipt, DatedNext
<1>2. CASE Moved(s, rc)
  BY <1>2, ReceiptsGrow DEF Moved, DatedNext, Receipt
<1> QED
  BY <1>1, <1>2

(* What a run has read remains dated while the run itself does nothing. *)
LEMMA DatedReadsStay ==
  ASSUME TypeOK, [Next]_vars, NEW q \in Runs, ReadsDated(q),
         pc'[q] = pc[q], mode'[q] = mode[q], at'[q] = at[q], seen'[q] = seen[q]
  PROVE  ReadsDated(q)'
<1>0. at[q] \in 0..9 /\ seen[q] \in [Steps -> Receipt]
  BY DEF TypeOK
<1>1. ASSUME pc[q] \in {"append", "create", "write"}, at[q] \in {4, 8}
      PROVE  LET s == StepOf(at[q])
             IN  DatedNext(s, seen[q][s])
  BY <1>0, <1>1, StepOfType, DatedStays DEF ReadsDated
<1>2. ASSUME pc[q] = "finality", NEW s \in Targets(q)
      PROVE  \/ Mined(s)' /\ seen[q][s] = chain'[s].receipt
             \/ seen[q][s].block < chain'[s].receipt.block
  <2>1. s \in Steps /\ seen[q][s] \in Receipt
    BY <1>0, StepOfType DEF Targets
  <2>2. (Mined(s) /\ seen[q][s] = chain[s].receipt) \/ Moved(s, seen[q][s])
    BY <1>2 DEF ReadsDated
  <2> QED
    BY <2>1, <2>2, ReceiptsGrow DEF Moved, Receipt
<1>3. Targets(q)' = Targets(q)
  BY DEF Targets
<1> QED
  BY <1>1, <1>2, <1>3 DEF ReadsDated, FinalReceipt, Moved, DatedNext

(* A reconciliation ends on a receipt that is final or overtaken. *)
LEMMA ReconciledDated ==
  ASSUME TypeOK, NEW r \in Runs, ReadsDated(r), pc[r] = "finality", Finalized(r),
         NEW s \in Targets(r)
  PROVE  FinalReceipt(s, seen[r][s]) \/ Moved(s, seen[r][s])
<1>1. (Mined(s) /\ seen[r][s] = chain[s].receipt) \/ Moved(s, seen[r][s])
  BY DEF ReadsDated
<1>2. PICK p \in Honest : TRUE
  BY OneHonest
<1>3. chain[s].at = "final" \/ chain[s].receipt.block # seen[r][s].block
  BY <1>2 DEF Finalized, HeadPassed
<1> QED
  BY <1>1, <1>3 DEF FinalReceipt

LEMMA DatedReadsStep ==
  ASSUME TypeOK, RunInv, [Next]_vars, NEW q \in Runs, ReadsDated(q)
  PROVE  ReadsDated(q)'
<1> USE DEF Goto, ReadAt
<1>0. Control(q) /\ at[q] \in 0..9 /\ seen[q] \in [Steps -> Receipt]
  BY DEF RunInv, TypeOK
<1>t. /\ pc \in [Runs -> Places] /\ at \in [Runs -> 0..9] /\ mode \in [Runs -> Modes]
      /\ seen \in [Runs -> [Steps -> Receipt]]
  BY DEF TypeOK
<1>1. ASSUME NEW r \in Runs \ {q}, Start(r) \/ Work(r) \/ Timeout(r) \/ Fail(r) \/ Age(r)
      PROVE  ReadsDated(q)'
  BY <1>1, OthersRead, DatedReadsStay
<1>2. ASSUME pc'[q] \notin {"append", "create", "write", "finality"} PROVE ReadsDated(q)'
  BY <1>2 DEF ReadsDated
<1>3. CASE Start(q) \/ Timeout(q) \/ Fail(q) \/ LoadEmpty(q) \/ LoadOccupied(q)
           \/ RecoverSubmission(q) \/ RecoverConfirmedMint(q) \/ RecoverBlocked(q)
           \/ PollAgain(q) \/ Finish(q) \/ Send(q) \/ SyncEvidence(q)
           \/ ReconciledEvidence(q) \/ VerifyPostState(q) \/ CreateEvidence(q)
           \/ WriteEvidence(q)
  BY <1>2, <1>3, <1>t DEF Start, Timeout, Fail, LoadEmpty, LoadOccupied, RecoverSubmission,
     RecoverConfirmedMint, RecoverBlocked, PollAgain, Finish, Send, SyncEvidence,
     ReconciledEvidence, VerifyPostState, CreateEvidence, WriteEvidence
<1>4. CASE Age(q)
  BY <1>4, DatedReadsStay DEF Age
<1>5. CASE Confirm(q) \/ Recheck(q) \/ Sign(q)
  <2>1. at'[q] = at[q] /\ pc'[q] \in {"append", "send"}
        /\ (pc'[q] = "append" => at[q] \notin {4, 8})
    BY <1>0, <1>5, <1>t DEF Confirm, Recheck, Sign, Control
  <2> QED
    BY <2>1 DEF ReadsDated
<1>6. CASE Admit(q) \/ Create(q) \/ Write(q)
  <2>1. /\ pc[q] \in {"append", "create", "write"} /\ pc'[q] \in {"create", "write", "sync"}
        /\ at'[q] = at[q] /\ seen'[q] = seen[q] /\ chain' = chain
    BY <1>6, <1>t DEF Admit, Create, Write
  <2> QED
    BY <2>1 DEF ReadsDated, FinalReceipt, Moved
<1>7. CASE Sync(q)
  <2>1. pc'[q] = AfterRecord(q, at[q]) /\ at[q] \in Idx
    BY <1>0, <1>7, <1>t DEF Sync, Control, Appending
  <2>2. pc'[q] \notin {"append", "create", "write", "finality"}
    BY <2>1 DEF AfterRecord, Idx
  <2> QED
    BY <1>2, <2>2
<1>8. CASE ReadReceipt(q)
  <2>1. pc'[q] = "finality" /\ chain' = chain /\ Targets(q)' = Targets(q)
    BY <1>8, <1>t DEF ReadReceipt, Targets
  <2>2. PICK p \in Honest : TRUE
    BY OneHonest
  <2>3. ASSUME NEW s \in Targets(q) PROVE Mined(s) /\ seen'[q][s] = chain[s].receipt
    <3>1. s \in Steps
      BY StepOfType, <1>0 DEF Targets
    <3> QED
      BY <1>8, <1>t, <2>2, <3>1 DEF ReadReceipt, Reported
  <2> QED
    BY <2>1, <2>3 DEF ReadsDated, Mined
<1>9. CASE ReconciledStep(q)
  <2>1. /\ pc'[q] = "append" /\ chain' = chain /\ at' = at /\ seen' = seen
        /\ StepOf(at[q]) \in Targets(q)
    BY <1>9, <1>t DEF ReconciledStep, Targets
  <2>2. LET s == StepOf(at[q]) IN FinalReceipt(s, seen[q][s]) \/ Moved(s, seen[q][s])
    BY <1>9, <2>1, ReconciledDated DEF ReconciledStep
  <2> QED
    BY <2>1, <2>2 DEF ReadsDated, FinalReceipt, Moved
<1>10. CASE PowerLoss
  <2>1. pc'[q] \in {"idle", "halted"}
    BY <1>10 DEF PowerLoss, Live
  <2> QED
    BY <2>1 DEF ReadsDated
<1>11. CASE UNCHANGED runVars
  BY <1>11, DatedReadsStay DEF runVars
<1> QED
  BY <1>1, <1>3, <1>4, <1>5, <1>6, <1>7, <1>8, <1>9, <1>10, <1>11
     DEF Next, Work, Reconcile, Network, vars

LEMMA DatedRecordsStep ==
  ASSUME TypeOK, RunInv, Dated, [Next]_vars, NEW s \in Steps, Visible(TerminalSlot(s))'
  PROVE  LET rc == slots'[TerminalSlot(s)].receipt
         IN  DatedNext(s, rc)
<1> DEFINE k == TerminalSlot(s)
<1>0. slots \in [Idx -> Slot] /\ \A r \in Runs : seen[r] \in [Steps -> Receipt]
  BY DEF TypeOK, JournalTypeOK
<1>1. k \in {4, 8} /\ k \in Idx /\ StepOf(k) = s
  BY DEF TerminalSlot, Steps, StepOf, Idx
<1>2. CASE Visible(k) /\ slots'[k].receipt = slots[k].receipt
  <2>1. /\ slots[k].receipt \in Receipt
        /\ FinalReceipt(s, slots[k].receipt) \/ Moved(s, slots[k].receipt)
    BY <1>0, <1>1, <1>2 DEF Dated, WrongOnlyIfMoved, Terminated, Visible, Slot
  <2> QED
    BY <1>2, <2>1, DatedStays
<1>3. ASSUME NEW r \in Runs, Write(r), at[r] = k
      PROVE  LET rc == slots'[k].receipt IN DatedNext(s, rc)
  <2>1. /\ seen[r][s] \in Receipt
        /\ FinalReceipt(s, seen[r][s]) \/ Moved(s, seen[r][s])
    BY <1>0, <1>1, <1>3 DEF Dated, ReadsDated, Write
  <2>2. slots'[k].receipt = seen[r][s]
    BY <1>0, <1>1, <1>3 DEF Write, WriteSlot, Slot
  <2> QED
    BY <2>1, <2>2, DatedStays
<1> QED
  BY <1>1, <1>2, <1>3, VisibleStep

(***************************************************************************)
(* With any reorganisations at any moment and one honest provider, a       *)
(* terminal record is exact and final unless the chain has moved its       *)
(* transaction to a later block, and the mint is signed only behind a      *)
(* durable record of the approval's success.                               *)
(***************************************************************************)
THEOREM WrongOnlyIfMovedHolds == Spec => []WrongOnlyIfMoved
<1>1. Init => Dated
  <2> SUFFICES ASSUME Init PROVE Dated
    OBVIOUS
  <2>1. WrongOnlyIfMoved
    BY DEF Init, JournalInit, WrongOnlyIfMoved, Terminated, EmptySlot, TerminalSlot, Idx, Steps
  <2> QED
    BY <2>1 DEF Init, Dated, ReadsDated, Gate
<1>2. TypeOK /\ RunInv /\ TypeOK' /\ RunInv' /\ Dated /\ [Next]_vars => Dated'
  <2> SUFFICES ASSUME TypeOK, RunInv, TypeOK', RunInv', Dated, [Next]_vars PROVE Dated'
    OBVIOUS
  <2>1. \A r \in Runs : Gate(r)' /\ ReadsDated(r)'
    BY GateStep, DatedReadsStep DEF Dated
  <2>2. ASSUME NEW r \in Runs, "mint" \in signed'[r]
        PROVE  Durable(4)' /\ Outcome(4)' = "confirmed"
    <3>1. mode'[r] = "live" /\ at'[r] > 5 /\ at'[r] \in 0..9
      BY <2>2 DEF RunInv, Announced, Steps, SigningSlot, TypeOK
    <3> QED
      BY <2>1, <3>1 DEF Gate, RunInv, Trail, Idx
  <2>3. \A s \in Steps : Terminated(s)' =>
          LET rc == slots'[TerminalSlot(s)].receipt IN DatedNext(s, rc)
    BY DatedRecordsStep DEF Terminated, Visible
  <2>4. WrongOnlyIfMoved'
    BY <2>2, <2>3 DEF WrongOnlyIfMoved, FinalReceipt, Moved, DatedNext
  <2> QED
    BY <2>1, <2>4 DEF Dated
<1>3. Dated => WrongOnlyIfMoved
  BY DEF Dated
<1> QED
  BY <1>1, <1>2, <1>3, TypeCorrect, PTL DEF Spec
=============================================================================
