---------------------------- MODULE LpRefinement ----------------------------
(***************************************************************************)
(* The first-LP runner implements the one-shot promise (LpOneShot), for    *)
(* any set of runs and one honest provider, provided no reorganisation     *)
(* falls between the two reads of a reconciliation (QuietReads).           *)
(***************************************************************************)
EXTENDS LpProofs

-----------------------------------------------------------------------------
(* Nothing is on the chain that no run has sent.                           *)

LEMMA SentGrows ==
  ASSUME TypeOK, [Next]_vars, NEW r \in Runs, NEW s \in sent[r]
  PROVE  s \in sent'[r]
<1>1. ASSUME NEW q \in Runs, Send(q) PROVE s \in sent'[r]
  BY <1>1 DEF Send, TypeOK
<1>2. ASSUME NEW q \in Runs, Work(q), ~Send(q) PROVE sent' = sent
  BY <1>2 DEF Work, Reconcile, LoadEmpty, LoadOccupied, RecoverSubmission,
     RecoverConfirmedMint, RecoverBlocked, Confirm, Admit, Create, Write, Sync, Recheck, Sign,
     ReadReceipt, PollAgain, ReconciledStep, ReconciledEvidence, Finish, VerifyPostState,
     CreateEvidence, WriteEvidence, SyncEvidence
<1> QED
  BY <1>1, <1>2 DEF Next, Start, Timeout, Fail, Age, Network, PowerLoss, vars, runVars

(* The only changes of the chain are a send and the steps of the network. *)
LEMMA ChainCases ==
  ASSUME [Next]_vars
  PROVE  \/ chain' = chain
         \/ \E r \in Runs : Send(r)
         \/ \E s \in Steps : Network(s)
BY WorkFrame DEF Next, Start, Timeout, Fail, Age, PowerLoss, vars

LEMMA SentStep ==
  ASSUME TypeOK, SentInv, [Next]_vars
  PROVE  SentInv'
<1> SUFFICES ASSUME NEW s \in Steps, chain'[s].at # "unseen"
             PROVE  \E r \in Runs : s \in sent'[r]
  BY DEF SentInv
<1>0. chain \in [Steps -> Position]
  BY DEF TypeOK, ChainTypeOK
<1>1. CASE chain[s].at # "unseen"
  BY <1>1, SentGrows DEF SentInv
<1>2. ASSUME NEW r \in Runs, Send(r), chain[s].at = "unseen" PROVE s \in sent'[r]
  <2>1. s = StepOf(at[r])
    BY <1>0, <1>2 DEF Send, Broadcast
  <2> QED
    BY <1>2, <2>1 DEF Send, TypeOK
<1>3. ASSUME NEW t \in Steps, Network(t) PROVE chain[s].at # "unseen"
  <2>1. Include(t) => chain'[s] = chain[s] \/ chain[s].at = "pending"
    BY <1>0 DEF Include
  <2>2. Reorg(t) => chain'[s] = chain[s] \/ chain[s].at = "mined"
    BY <1>0 DEF Reorg, Fallen
  <2>3. Finalize(t) => chain'[s] = chain[s] \/ chain[s].at = "mined"
    BY <1>0 DEF Finalize
  <2> QED
    BY <1>3, <2>1, <2>2, <2>3 DEF Network
<1> QED
  BY <1>1, <1>2, <1>3, ChainCases

-----------------------------------------------------------------------------
(* The mint follows the approval on the chain.                             *)

LEMMA MintFollowsStep ==
  ASSUME TypeOK, ChainInv, MintFollows, [Next]_vars
  PROVE  MintFollows'
<1> DEFINE a == chain["approval"]
           m == chain["mint"]
<1>0. /\ chain \in [Steps -> Position] /\ a \in Position /\ m \in Position
      /\ "approval" \in Steps /\ "mint" \in Steps /\ "approval" # "mint"
  BY DEF TypeOK, ChainTypeOK, Steps
<1>1. /\ (a.at \in {"mined", "final"}) <=> a.receipt.status \in Outcomes
      /\ (m.at \in {"mined", "final"}) <=> m.receipt.status \in Outcomes
  BY <1>0 DEF ChainInv, Mined
<1>2. CASE chain' = chain
  BY <1>2 DEF MintFollows, Mined
<1>3. ASSUME NEW r \in Runs, Send(r), chain' # chain PROVE MintFollows'
  <2>1. PICK s \in Steps : chain[s].at = "unseen" /\ chain' = [chain EXCEPT ![s].at = "pending"]
    BY <1>3, StepOfType DEF Send, Broadcast, TypeOK
  <2>2. CASE s = "approval"
    <3>1. chain'["mint"] = m
      BY <1>0, <2>1, <2>2
    <3> QED
      BY <1>1, <2>1, <2>2, <3>1 DEF MintFollows, Mined, Outcomes
  <2>3. CASE s = "mint"
    <3>1. /\ chain'["approval"] = a /\ chain'["mint"].at = "pending"
          /\ chain'["mint"].receipt = m.receipt
      BY <1>0, <2>1, <2>3 DEF Position
    <3> QED
      BY <1>1, <2>1, <2>3, <3>1 DEF MintFollows, Mined, Outcomes
  <2> QED
    BY <2>2, <2>3 DEF Steps
<1>4. CASE Include("approval")
  <2>1. a.at = "pending" /\ chain'["mint"] = m
    BY <1>0, <1>4 DEF Include
  <2> QED
    BY <1>1, <2>1 DEF MintFollows, Mined, Outcomes
<1>5. CASE Include("mint")
  <2>1. PICK o \in Outcomes :
          /\ o = "confirmed" => Succeeded("approval")
          /\ chain' = [chain EXCEPT !["mint"] =
               [at |-> "mined", receipt |-> [m.receipt EXCEPT !.status = o]]]
    BY <1>5 DEF Include
  <2>2. chain'["approval"] = a /\ chain'["mint"].at = "mined" /\ chain'["mint"].receipt.status = o
    BY <1>0, <2>1 DEF Position, Receipt
  <2> QED
    BY <1>5, <2>1, <2>2 DEF Include, MintFollows, Mined, Succeeded
<1>6. CASE Reorg("approval")
  <2>1. a.at = "mined" /\ m.at # "final"
    BY <1>6 DEF Reorg, MintFollows
  <2>2. m.at = "mined" => chain'["mint"].at = "pending" /\ chain'["mint"].receipt.status = "none"
    BY <1>0, <1>6 DEF Reorg, Fallen
  <2>3. m.at # "mined" => chain'["mint"] = m /\ m.receipt.status \notin Outcomes
    BY <1>0, <1>1, <1>6, <2>1 DEF Reorg, Fallen
  <2> QED
    BY <2>1, <2>2, <2>3 DEF MintFollows, Mined, Outcomes
<1>7. CASE Reorg("mint")
  <2>1. /\ chain'["approval"] = a /\ chain'["mint"].at = "pending"
        /\ chain'["mint"].receipt.status = "none"
    BY <1>0, <1>7 DEF Reorg, Fallen
  <2> QED
    BY <2>1 DEF MintFollows, Mined
<1>8. CASE Finalize("approval")
  <2>1. /\ a.at = "mined" /\ chain'["approval"].at = "final"
        /\ chain'["approval"].receipt = a.receipt /\ chain'["mint"] = m
    BY <1>0, <1>8 DEF Finalize, Position
  <2> QED
    BY <2>1 DEF MintFollows, Mined
<1>9. CASE Finalize("mint")
  <2>1. /\ a.at = "final" /\ chain'["approval"] = a /\ chain'["mint"].at = "final"
        /\ chain'["mint"].receipt = m.receipt
    BY <1>0, <1>9 DEF Finalize, Position
  <2> QED
    BY <2>1 DEF MintFollows, Mined
<1> QED
  BY <1>2, <1>3, <1>4, <1>5, <1>6, <1>7, <1>8, <1>9, ChainCases DEF Network, Steps

-----------------------------------------------------------------------------
(* The records of the mint follow the recorded success of the approval.    *)

LEMMA ApprovalStays ==
  ASSUME TypeOK, RunInv, [Next]_vars, ApprovalRecorded
  PROVE  ApprovalRecorded'
BY DurableStays DEF ApprovalRecorded, Durable, Outcome, Idx

(* A slot comes into being only by Create. *)
LEMMA PresentStep ==
  ASSUME TypeOK, RunInv, [Next]_vars, NEW k \in Idx, slots'[k].st # "absent"
  PROVE  \/ slots[k].st # "absent"
         \/ \E r \in Runs : Create(r) /\ at[r] = k
<1>0. slots \in [Idx -> Slot]
  BY DEF TypeOK, JournalTypeOK
<1>1. ASSUME NEW r \in Runs, Create(r), at[r] # k PROVE slots[k].st # "absent"
  BY <1>0, <1>1 DEF Create, CreateSlot
<1>2. ASSUME NEW r \in Runs, Write(r) \/ Sync(r) PROVE slots[k].st # "absent"
  <2>1. at[r] \in Idx /\ slots[at[r]].st \in {"torn", "written"}
    BY <1>2 DEF RunInv, Control, InFlight, Appending, Write, Sync
  <2> QED
    BY <1>0, <1>2, <2>1 DEF Write, Sync, WriteSlot, SyncSlot
<1>3. CASE PowerLoss
  <2>1. PICK gone \in SUBSET Unsynced, torn \in SUBSET Unsynced :
          slots' = [j \in Idx |-> Remains(j, gone, torn)]
    BY <1>3 DEF PowerLoss, LoseUnsynced
  <2>2. CASE k \in Unsynced
    BY <2>2 DEF Unsynced
  <2>3. CASE k \notin Unsynced
    <3>1. slots'[k] = IF Visible(k) THEN [slots[k] EXCEPT !.st = "durable"] ELSE slots[k]
      BY <2>1, <2>3 DEF Remains
    <3> QED
      BY <3>1 DEF Visible
  <2> QED
    BY <2>2, <2>3
<1>4. CASE slots' = slots
  BY <1>4
<1> QED
  BY <1>1, <1>2, <1>3, <1>4, WorkFrame DEF Next, Start, Timeout, Fail, Age, Network, vars

(* Only RecoverSubmission puts a recovery before the terminal of the mint. *)
LEMMA RecoveryStep ==
  ASSUME TypeOK, RunInv, [Next]_vars, NEW r \in Runs, mode'[r] = "recovery", at'[r] = 8
  PROVE  \/ mode[r] = "recovery" /\ at[r] = 8
         \/ RecoverSubmission(r) /\ \E k \in 5..8 : Visible(k)
<1>0. /\ pc \in [Runs -> Places] /\ mode \in [Runs -> Modes] /\ at \in [Runs -> 0..9]
  BY DEF TypeOK
<1>1. ASSUME NEW q \in Runs \ {r}, Start(q) \/ Work(q) \/ Timeout(q) \/ Fail(q) \/ Age(q)
      PROVE  mode[r] = "recovery" /\ at[r] = 8
  BY <1>1, OthersRead
<1>2. CASE RecoverSubmission(r)
  <2>1. PICK n \in {4, 8} : Parses(before[r], n) /\ at' = [at EXCEPT ![r] = n]
    BY <1>2 DEF RecoverSubmission
  <2>2. n = 8 /\ 5 \in Idx
    BY <1>0, <2>1 DEF Idx
  <2>3. Visible(5)
    BY <2>1, <2>2 DEF Parses
  <2> QED
    BY <1>2, <2>3
<1>3. CASE Sync(r)
  <2>1. at'[r] = at[r] + 1 /\ mode'[r] = mode[r] /\ at[r] \in Idx
        /\ (mode[r] = "recovery" => at[r] \in {4, 8})
    BY <1>0, <1>3 DEF Sync, RunInv, Control, Appending
  <2> QED
    BY <2>1
<1>4. CASE LoadEmpty(r) \/ Finish(r)
  BY <1>0, <1>4 DEF LoadEmpty, Finish
<1>5. CASE Start(r) \/ Timeout(r) \/ Fail(r) \/ Age(r) \/ LoadOccupied(r)
           \/ RecoverConfirmedMint(r) \/ RecoverBlocked(r) \/ Confirm(r) \/ Admit(r)
           \/ Create(r) \/ Write(r) \/ Recheck(r) \/ Sign(r) \/ Send(r) \/ Reconcile(r)
           \/ VerifyPostState(r) \/ CreateEvidence(r) \/ WriteEvidence(r) \/ SyncEvidence(r)
  BY <1>5 DEF Start, Timeout, Fail, Age, LoadOccupied, RecoverConfirmedMint, RecoverBlocked,
     Confirm, Admit, Create, Write, Recheck, Sign, Send, Reconcile, ReadReceipt, PollAgain,
     ReconciledStep, ReconciledEvidence, VerifyPostState, CreateEvidence, WriteEvidence,
     SyncEvidence
<1>6. CASE UNCHANGED <<mode, at>>
  BY <1>6
<1> QED
  BY <1>1, <1>2, <1>3, <1>4, <1>5, <1>6 DEF Next, Work, Network, PowerLoss, vars, runVars

LEMMA MintBehindStep ==
  ASSUME TypeOK, RunInv, ChainTruth, MintBehind, [Next]_vars
  PROVE  MintBehind'
<1>1. ASSUME NEW k \in 5..8, slots'[k].st # "absent" PROVE ApprovalRecorded
  <2>0. k \in Idx
    BY DEF Idx
  <2>1. CASE slots[k].st # "absent"
    BY <2>1 DEF MintBehind
  <2>2. ASSUME NEW r \in Runs, Create(r), at[r] = k PROVE ApprovalRecorded
    <3>1. pc[r] = "create" /\ (mode[r] = "recovery" => at[r] = 8) /\ mode[r] \in {"live", "recovery"}
      BY <2>2 DEF Create, RunInv, Control, Appending
    <3>2. CASE mode[r] = "live"
      BY <2>2, <3>1, <3>2 DEF ChainTruth, Gate, RunInv, Trail, ApprovalRecorded, Idx
    <3>3. CASE mode[r] = "recovery"
      BY <3>1, <3>3 DEF MintBehind
    <3> QED
      BY <3>1, <3>2, <3>3
  <2> QED
    BY <1>1, <2>0, <2>1, <2>2, PresentStep
<1>2. ASSUME NEW r \in Runs, mode'[r] = "recovery", at'[r] = 8 PROVE ApprovalRecorded
  BY <1>2, RecoveryStep DEF MintBehind, Visible
<1> QED
  BY <1>1, <1>2, ApprovalStays DEF MintBehind

-----------------------------------------------------------------------------
(* One run at a time fills the evidence file.                              *)

LEMMA DraftStep ==
  ASSUME TypeOK, RunInv, DraftInv, [Next]_vars
  PROVE  DraftInv'
<1> USE DEF Goto, ReadAt
<1>0. pc \in [Runs -> Places]
  BY DEF TypeOK
<1>1. ASSUME NEW r \in Runs, CreateEvidence(r) PROVE DraftInv'
  BY <1>0, <1>1 DEF CreateEvidence, DraftInv, Drafting
<1>2. ASSUME NEW r \in Runs, WriteEvidence(r) PROVE DraftInv'
  BY <1>0, <1>2 DEF WriteEvidence, DraftInv, Drafting
<1>3. ASSUME NEW r \in Runs, SyncEvidence(r) PROVE DraftInv'
  BY <1>0, <1>3 DEF SyncEvidence, DraftInv, Drafting
<1>4. ASSUME evidence' = evidence, \A q \in Runs : pc'[q] = pc[q] \/ ~Drafting(q)' PROVE DraftInv'
  BY <1>4 DEF DraftInv, Drafting
<1>5. CASE PowerLoss
  BY <1>0, <1>5 DEF PowerLoss, DraftInv, Drafting, Live
<1>6. ASSUME NEW r \in Runs, Start(r) \/ Timeout(r) \/ Fail(r) \/ Age(r)
      PROVE  DraftInv'
  BY <1>0, <1>4, <1>6 DEF Start, Timeout, Fail, Age, Drafting
<1>7. ASSUME NEW r \in Runs, Work(r), ~CreateEvidence(r), ~WriteEvidence(r), ~SyncEvidence(r)
      PROVE  DraftInv'
  <2>1. evidence' = evidence
    BY <1>7, WorkFrame
  <2>2. CASE Sync(r)
    <3>1. AfterRecord(r, at[r]) \notin {"evidenceWrite", "evidenceSync"} /\ at[r] \in Idx
      BY <2>2 DEF AfterRecord, Idx, Sync, RunInv, Control, Appending
    <3> QED
      BY <1>0, <1>4, <2>1, <2>2, <3>1 DEF Sync, Drafting
  <2>3. CASE ~Sync(r)
    <3>1. \A q \in Runs : pc'[q] = pc[q] \/ ~Drafting(q)'
      BY <1>0, <1>7, <2>3 DEF Drafting, Work, Reconcile, LoadEmpty, LoadOccupied,
         RecoverSubmission, RecoverConfirmedMint, RecoverBlocked, Confirm, Admit, Create, Write,
         Recheck, Sign, Send, ReadReceipt, PollAgain, ReconciledStep, ReconciledEvidence,
         Finish, VerifyPostState
    <3> QED
      BY <1>4, <2>1, <3>1
  <2> QED
    BY <2>2, <2>3
<1>8. CASE UNCHANGED <<pc, evidence>>
  BY <1>4, <1>8
<1> QED
  BY <1>1, <1>2, <1>3, <1>5, <1>6, <1>7, <1>8 DEF Next, Network, vars, runVars

(***************************************************************************)
(* Sends, blocks, records and evidence come in the order of the ceremony.  *)
(***************************************************************************)
THEOREM OrderedHolds == QuietReads => (Spec => []Ordered)
<1> SUFFICES ASSUME QuietReads PROVE Spec => []Ordered
  OBVIOUS
<1>1. Init => Ordered
  BY DEF Init, ChainInit, JournalInit, EmptySlot, NoReceipt, Ordered, SentInv, MintFollows,
     Mined, MintBehind, DraftInv, Drafting, Idx, Steps
<1>2. (TypeOK /\ RunInv) /\ ChainTruth /\ Ordered /\ [Next]_vars => Ordered'
  BY SentStep, MintFollowsStep, MintBehindStep, DraftStep DEF Ordered, ChainTruth
<1>3. Spec => []ChainTruth
  BY ChainTruthHolds
<1> QED
  BY <1>1, <1>2, <1>3, TypeCorrect, PTL DEF Spec

-----------------------------------------------------------------------------
(* The mapping, step by step.                                              *)

Issued == {x \in Runs \X Steps : x[2] \in sent[x[1]]}
Truth == [s \in Steps |-> Settled(s)]
Entry(s) == IF Durable(TerminalSlot(s)) THEN Outcome(TerminalSlot(s)) ELSE "none"
Recorded == [s \in Steps |-> Entry(s)]
Published == evidence = "durable"

LEMMA TerminalSlots ==
  \A s \in Steps : TerminalSlot(s) \in {4, 8} /\ TerminalSlot(s) \in Idx /\ StepOf(TerminalSlot(s)) = s
BY DEF TerminalSlot, Steps, StepOf, Idx

(* What is readable as a terminal is the final outcome. *)
LEMMA EntryTrue ==
  ASSUME ChainTruth, NEW s \in Steps, Visible(TerminalSlot(s))
  PROVE  Settled(s) = Outcome(TerminalSlot(s)) /\ Settled(s) \in Outcomes
BY DEF ChainTruth, ChainInv, RecordsTrue, Terminated, Visible, Settled, Outcome, Mined

(* An outcome is settled by finality alone, and of a transaction that was  *)
(* sent.                                                                   *)
LEMMA TruthStep ==
  ASSUME TypeOK, ChainTruth, Ordered, NEW s \in Steps, Network(s)
  PROVE  \/ UNCHANGED Truth
         \/ \E o \in Outcomes :
              /\ Truth[s] = "none"
              /\ \E r \in Runs : <<r, s>> \in Issued
              /\ s = "mint" => Truth["approval"] \in (IF o = "confirmed" THEN {"confirmed"} ELSE Outcomes)
              /\ Truth' = [Truth EXCEPT ![s] = o]
<1>0. chain \in [Steps -> Position] /\ "approval" \in Steps /\ "mint" \in Steps
  BY DEF TypeOK, ChainTypeOK, Steps
<1>1. CASE Include(s)
  <2>1. \A t \in Steps : Settled(t)' = Settled(t)
    BY <1>0, <1>1 DEF Include, Settled
  <2> QED
    BY <2>1 DEF Truth
<1>2. CASE Reorg(s)
  <2>1. \A t \in Steps : Settled(t)' = Settled(t)
    BY <1>0, <1>2 DEF Reorg, Fallen, Settled, Position
  <2> QED
    BY <2>1 DEF Truth
<1>3. CASE Finalize(s)
  <2> DEFINE o == chain[s].receipt.status
  <2>1. chain[s].at = "mined" /\ o \in Outcomes
    BY <1>3 DEF Finalize, ChainTruth, ChainInv, Mined
  <2>2. Truth[s] = "none"
    BY <2>1 DEF Truth, Settled
  <2>3. \E r \in Runs : <<r, s>> \in Issued
    BY <2>1 DEF Ordered, SentInv, Issued
  <2>4. ASSUME s = "mint"
        PROVE  Truth["approval"] \in (IF o = "confirmed" THEN {"confirmed"} ELSE Outcomes)
    <3>1. chain["approval"].at = "final" /\ chain["approval"].receipt.status \in Outcomes
      BY <1>0, <1>3, <2>4 DEF Finalize, ChainTruth, ChainInv, Mined
    <3>2. Truth["approval"] = chain["approval"].receipt.status
      BY <1>0, <3>1 DEF Truth, Settled
    <3> QED
      BY <2>4, <3>1, <3>2 DEF Ordered, MintFollows
  <2>5. \A t \in Steps : Settled(t)' = IF t = s THEN o ELSE Settled(t)
    BY <1>0, <1>3 DEF Finalize, Settled, Position
  <2>6. Truth' = [Truth EXCEPT ![s] = o]
    BY <2>5 DEF Truth
  <2> QED
    BY <2>1, <2>2, <2>3, <2>4, <2>6
<1> QED
  BY <1>1, <1>2, <1>3 DEF Network

(* A terminal is recorded by its sync, or by what a power loss spares.     *)
LEMMA EntryStep ==
  ASSUME TypeOK, RunInv, [Next]_vars, NEW s \in Steps, Entry(s)' # Entry(s)
  PROVE  /\ ~Durable(TerminalSlot(s)) /\ Visible(TerminalSlot(s))
         /\ Entry(s)' = Outcome(TerminalSlot(s))
<1> DEFINE k == TerminalSlot(s)
<1>0. slots \in [Idx -> Slot] /\ k \in Idx
  BY TerminalSlots DEF TypeOK, JournalTypeOK
<1>1. ~Durable(k)
  BY <1>0, DurableStays DEF Entry, Durable, Outcome
<1>2. Durable(k)'
  BY <1>1 DEF Entry
<1>3. \/ Visible(k) /\ slots'[k].receipt = slots[k].receipt
      \/ \E r \in Runs : Write(r) /\ at[r] = k
  BY <1>0, <1>2, VisibleStep DEF Durable, Visible
<1>4. ASSUME NEW r \in Runs, Write(r), at[r] = k PROVE FALSE
  BY <1>0, <1>2, <1>4 DEF Write, WriteSlot, Durable, Slot
<1> QED
  BY <1>1, <1>2, <1>3, <1>4 DEF Entry, Outcome

(* At most one terminal is recorded at a time, and that of the mint after  *)
(* that of the approval.                                                   *)
LEMMA RecordedStep ==
  ASSUME TypeOK, RunInv, ChainTruth, Ordered, [Next]_vars
  PROVE  \/ UNCHANGED Recorded
         \/ \E s \in Steps :
              /\ Truth[s] # "none" /\ Recorded[s] = "none"
              /\ s = "mint" => Recorded["approval"] = "confirmed"
              /\ Recorded' = [Recorded EXCEPT ![s] = Truth[s]]
<1>1. ASSUME NEW s \in Steps, Entry(s)' # Entry(s)
      PROVE  /\ Truth[s] # "none" /\ Recorded[s] = "none" /\ Entry(s)' = Truth[s]
             /\ Visible(TerminalSlot(s)) /\ ~Durable(TerminalSlot(s))
  <2>1. /\ ~Durable(TerminalSlot(s)) /\ Visible(TerminalSlot(s))
        /\ Entry(s)' = Outcome(TerminalSlot(s))
    BY <1>1, EntryStep
  <2>2. Settled(s) = Outcome(TerminalSlot(s)) /\ Settled(s) \in Outcomes
    BY <2>1, EntryTrue
  <2> QED
    BY <2>1, <2>2 DEF Truth, Recorded, Entry, Outcomes
<1>2. ASSUME Entry("mint")' # Entry("mint") PROVE Durable(4) /\ Entry("approval") = "confirmed"
  <2>1. Visible(8)
    BY <1>1, <1>2 DEF Steps, TerminalSlot
  <2>2. ApprovalRecorded
    BY <2>1 DEF Ordered, MintBehind, Visible
  <2> QED
    BY <2>2 DEF ApprovalRecorded, Entry, TerminalSlot
<1>3. Entry("approval")' # Entry("approval") => ~Durable(4)
  BY <1>1 DEF Steps, TerminalSlot
<1>4. CASE Entry("approval")' # Entry("approval")
  <2>1. Entry("mint")' = Entry("mint")
    BY <1>2, <1>3, <1>4
  <2>2. \A t \in Steps : Entry(t)' = IF t = "approval" THEN Truth["approval"] ELSE Entry(t)
    BY <1>1, <1>4, <2>1 DEF Steps
  <2>3. Recorded' = [Recorded EXCEPT !["approval"] = Truth["approval"]]
    BY <2>2 DEF Recorded
  <2> QED
    BY <1>1, <1>4, <2>3 DEF Steps
<1>5. CASE Entry("mint")' # Entry("mint")
  <2>1. Entry("approval")' = Entry("approval") /\ Recorded["approval"] = "confirmed"
    BY <1>2, <1>3, <1>5 DEF Recorded, Steps
  <2>2. \A t \in Steps : Entry(t)' = IF t = "mint" THEN Truth["mint"] ELSE Entry(t)
    BY <1>1, <1>5, <2>1 DEF Steps
  <2>3. Recorded' = [Recorded EXCEPT !["mint"] = Truth["mint"]]
    BY <2>2 DEF Recorded
  <2> QED
    BY <1>1, <1>5, <2>1, <2>3 DEF Steps
<1>6. CASE \A s \in Steps : Entry(s)' = Entry(s)
  BY <1>6 DEF Recorded
<1> QED
  BY <1>4, <1>5, <1>6 DEF Steps

(* Evidence is published only of two final successes. *)
LEMMA PublishedStep ==
  ASSUME TypeOK, ChainTruth, Ordered, [Next]_vars
  PROVE  \/ UNCHANGED Published
         \/ Published' = TRUE /\ \A s \in Steps : Truth[s] = "confirmed"
<1>1. ASSUME NEW r \in Runs, SyncEvidence(r)
      PROVE  Published' = TRUE /\ \A s \in Steps : Truth[s] = "confirmed"
  BY <1>1 DEF SyncEvidence, Published, Truth, ChainTruth, ReadsTrue, Publishing
<1>2. ASSUME NEW r \in Runs, CreateEvidence(r) \/ WriteEvidence(r)
      PROVE  ~Published /\ ~Published'
  BY <1>2 DEF CreateEvidence, WriteEvidence, Published, Ordered, DraftInv
<1>3. CASE PowerLoss
  <2>1. CASE evidence = "written"
    <3>1. \A s \in Steps : Truth[s] = "confirmed"
      BY <2>1 DEF ChainTruth, EvidenceTruth, Truth
    <3> QED
      BY <1>3, <2>1, <3>1 DEF PowerLoss, Published
  <2>2. CASE evidence # "written"
    BY <1>3, <2>2 DEF PowerLoss, Published, TypeOK, FileState
  <2> QED
    BY <2>1, <2>2
<1>4. CASE evidence' = evidence
  BY <1>4 DEF Published
<1>5. Published \in BOOLEAN /\ Published' \in BOOLEAN
  BY DEF Published
<1> QED
  BY <1>1, <1>2, <1>3, <1>4, <1>5, WorkFrame DEF Next, Start, Timeout, Fail, Age, Network, vars

-----------------------------------------------------------------------------
(* Who has sent what changes only by a send, and the send is the first.    *)

LEMMA SendIssues ==
  ASSUME TypeOK, RunInv, AtMostOnce', ChainTruth, NEW r \in Runs, Send(r)
  PROVE  \E s \in Steps :
           /\ \A b \in Runs : <<b, s>> \notin Issued
           /\ s = "mint" => Truth["approval"] = "confirmed"
           /\ Issued' = Issued \cup {<<r, s>>}
           /\ UNCHANGED <<Truth, Recorded, Published>>
<1> DEFINE s == StepOf(at[r])
<1>0. /\ chain \in [Steps -> Position] /\ sent \in [Runs -> SUBSET Steps]
      /\ at[r] \in 0..9 /\ s \in Steps
  BY StepOfType DEF TypeOK, ChainTypeOK
<1>1. s \notin sent[r] /\ sent' = [sent EXCEPT ![r] = @ \cup {s}] /\ Broadcast(s)
      /\ UNCHANGED <<slots, evidence>>
  BY DEF Send
<1>2. ASSUME NEW b \in Runs PROVE <<b, s>> \notin Issued
  <2>1. SUFFICES ASSUME s \in sent[b] PROVE FALSE
    BY DEF Issued
  <2>2. s \in sent'[b] /\ s \in sent'[r] /\ b # r
    BY <1>0, <1>1, <2>1
  <2>3. sent'[b] \cap sent'[r] # {}
    BY <2>2
  <2> QED
    BY <2>2, <2>3 DEF AtMostOnce
<1>3. ASSUME s = "mint" PROVE Truth["approval"] = "confirmed"
  <2>1. mode[r] = "live" /\ at[r] = 8
    BY <1>3 DEF Send, RunInv, Control, StepOf
  <2>2. Durable(4) /\ Outcome(4) = "confirmed"
    BY <2>1 DEF Send, ChainTruth, Gate, RunInv, Trail, Idx
  <2>3. Settled("approval") = "confirmed"
    BY <2>2, EntryTrue DEF Steps, TerminalSlot, Visible, Durable
  <2> QED
    BY <2>3 DEF Truth, Steps
<1>4. Issued' = Issued \cup {<<r, s>>}
  <2>1. \A b \in Runs, t \in Steps : t \in sent'[b] <=> t \in sent[b] \/ <<b, t>> = <<r, s>>
    BY <1>0, <1>1
  <2> QED
    BY <1>0, <2>1 DEF Issued
<1>5. ASSUME NEW t \in Steps PROVE Settled(t)' = Settled(t)
  <2> HIDE DEF s
  <2>1. CASE chain' = chain
    BY <2>1 DEF Settled
  <2>2. CASE chain[s].at = "unseen" /\ chain' = [chain EXCEPT ![s].at = "pending"]
    <3>1. chain'[t] = chain[t] \/ (chain[t].at = "unseen" /\ chain'[t].at = "pending")
      BY <1>0, <2>2 DEF Position
    <3> QED
      BY <3>1 DEF Settled
  <2> QED
    BY <1>1, <2>1, <2>2 DEF Broadcast
<1>6. UNCHANGED <<Truth, Recorded, Published>>
  BY <1>1, <1>5 DEF Truth, Recorded, Entry, Durable, Outcome, Published
<1> QED
  BY <1>0, <1>2, <1>3, <1>4, <1>6

LEMMA IssuedStep ==
  ASSUME [Next]_vars, \A r \in Runs : ~Send(r)
  PROVE  UNCHANGED Issued
<1>1. ASSUME NEW r \in Runs, Work(r) PROVE sent' = sent
  BY <1>1 DEF Work, Reconcile, LoadEmpty, LoadOccupied, RecoverSubmission,
     RecoverConfirmedMint, RecoverBlocked, Confirm, Admit, Create, Write, Sync, Recheck, Sign,
     ReadReceipt, PollAgain, ReconciledStep, ReconciledEvidence, Finish, VerifyPostState,
     CreateEvidence, WriteEvidence, SyncEvidence
<1>2. sent' = sent
  BY <1>1 DEF Next, Start, Timeout, Fail, Age, Network, PowerLoss, vars, runVars
<1> QED
  BY <1>2 DEF Issued

LEMMA PromiseStep ==
  ASSUME TypeOK, RunInv, AtMostOnce', ChainTruth, Ordered, [Next]_vars
  PROVE  OneShot!Next \/ UNCHANGED OneShot!vars
<1> DEFINE abstract == <<Issued, Truth, Recorded, Published>>
<1>1. OneShot!vars = abstract /\ (OneShot!vars)' = abstract'
  BY DEF OneShot!vars, Issued, Truth, Recorded, Entry, Published
<1>2. SUFFICES
        \/ UNCHANGED abstract
        \/ \E r \in Runs, s \in Steps :
             /\ \A b \in Runs : <<b, s>> \notin Issued
             /\ s = "mint" => Truth["approval"] = "confirmed"
             /\ Issued' = Issued \cup {<<r, s>>}
             /\ UNCHANGED <<Truth, Recorded, Published>>
        \/ \E s \in Steps, o \in Outcomes :
             /\ Truth[s] = "none"
             /\ \E r \in Runs : <<r, s>> \in Issued
             /\ s = "mint" => Truth["approval"] \in (IF o = "confirmed" THEN {"confirmed"} ELSE Outcomes)
             /\ Truth' = [Truth EXCEPT ![s] = o]
             /\ UNCHANGED <<Issued, Recorded, Published>>
        \/ \E s \in Steps :
             /\ Truth[s] # "none" /\ Recorded[s] = "none"
             /\ s = "mint" => Recorded["approval"] = "confirmed"
             /\ Recorded' = [Recorded EXCEPT ![s] = Truth[s]]
             /\ UNCHANGED <<Issued, Truth>>
             /\ \/ UNCHANGED Published
                \/ Published' = TRUE /\ \A t \in Steps : Truth[t] = "confirmed"
        \/ /\ \A s \in Steps : Truth[s] = "confirmed"
           /\ Published' = TRUE
           /\ UNCHANGED <<Issued, Truth, Recorded>>
  BY <1>1 DEF OneShot!Next, OneShot!Issue, OneShot!Settle, OneShot!Record, OneShot!Publish,
     OneShot!PublishAndRecord, OneShot!Steps, OneShot!Outcomes, Steps, Outcomes,
     Issued, Truth, Recorded, Entry, Published
<1>3. ASSUME NEW s \in Steps, Network(s)
      PROVE  UNCHANGED <<Issued, Recorded, Published>>
  BY <1>3 DEF Network, runVars, Issued, Recorded, Entry, Durable, Outcome, Published
<1>4. CASE \E s \in Steps : Network(s)
  BY <1>3, <1>4, TruthStep
<1>5. CASE chain' = chain /\ \A r \in Runs : ~Send(r)
  <2>1. UNCHANGED Truth
    BY <1>5 DEF Truth, Settled
  <2> QED
    BY <1>5, <2>1, IssuedStep, RecordedStep, PublishedStep
<1>6. CASE \E r \in Runs : Send(r)
  BY <1>6, SendIssues
<1> QED
  BY <1>4, <1>5, <1>6, ChainCases

(***************************************************************************)
(* The runner implements the one-shot promise: each transaction is sent    *)
(* once and the mint only after a final successful approval, the journal   *)
(* records the final outcomes in order, and the evidence is published of   *)
(* two final successes only (LpProps!ImplementsOneShot).                   *)
(***************************************************************************)
THEOREM RunnerImplementsOneShot == QuietReads => (Spec => ImplementsOneShot)
<1> SUFFICES ASSUME QuietReads PROVE Spec => ImplementsOneShot
  OBVIOUS
<1>1. Init => OneShot!Init
  <2> SUFFICES ASSUME Init PROVE OneShot!Init
    OBVIOUS
  <2>1. \A s \in Steps : ~Durable(TerminalSlot(s)) /\ Settled(s) = "none"
    BY TerminalSlots DEF Init, ChainInit, JournalInit, EmptySlot, Durable, Settled
  <2>2. Issued = {} /\ Truth = [s \in Steps |-> "none"] /\ Recorded = [s \in Steps |-> "none"]
    BY <2>1 DEF Init, Issued, Truth, Recorded, Entry
  <2> QED
    BY <2>2 DEF Init, OneShot!Init, OneShot!Steps, Steps, Issued, Truth, Recorded, Entry
<1>2. /\ (TypeOK /\ RunInv) /\ AtMostOnce' /\ ChainTruth /\ Ordered /\ [Next]_vars
      => [OneShot!Next]_(OneShot!vars)
  BY PromiseStep
<1>3. (Spec => []ChainTruth) /\ (Spec => []Ordered)
  BY ChainTruthHolds, OrderedHolds
<1> QED
  BY <1>1, <1>2, <1>3, TypeCorrect, AtMostOnceHolds, PTL DEF Spec, ImplementsOneShot, OneShot!Spec
=============================================================================
