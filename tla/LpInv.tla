------------------------------- MODULE LpInv -------------------------------
(***************************************************************************)
(* The inductive invariant behind the safety properties of LpProps, in two *)
(* layers: what a run may rely on about its own records, and what the      *)
(* records say about the chain.                                            *)
(***************************************************************************)
EXTENDS LpProps

Appending == {"append", "create", "write", "sync"}
Publishing == {"post", "evidence", "evidenceWrite", "evidenceSync"}

(* Where a run can stand with which slot ahead of it. *)
Control(r) ==
  /\ pc[r] \in {"idle", "load", "recover"} => mode[r] = "none" /\ at[r] = 0
  /\ pc[r] = "ceremony" => mode[r] = "live" /\ at[r] = 0
  /\ pc[r] \in Appending => /\ mode[r] \in {"live", "recovery"} /\ at[r] \in Idx
                            /\ mode[r] = "recovery" => at[r] \in {4, 8}
  /\ pc[r] = "recheck" => mode[r] = "live" /\ at[r] \in {1, 3, 4, 5, 7, 8}
  /\ pc[r] = "sign" => mode[r] = "live" /\ at[r] \in {2, 6}
  /\ pc[r] = "send" => mode[r] = "live" /\ at[r] \in {4, 8}
  /\ pc[r] \in {"receipt", "finality"} =>
       mode[r] = "finish" \/ (mode[r] \in {"live", "recovery"} /\ at[r] \in {4, 8})
  /\ pc[r] = "finish" => mode[r] # "live"
  /\ pc[r] \in Publishing => mode[r] = "finish" \/ (mode[r] = "live" /\ at[r] = 9)

(* A live run has left durable records of its own behind it. *)
Trail(r) ==
  mode[r] = "live" => \A k \in Idx : k < at[r] => Durable(k) /\ slots[k].auth = r

(* The slot a run is filling is its own. *)
Filling(r) == pc[r] \in {"write", "sync"}

InFlight(r) ==
  /\ pc[r] = "write" => slots[at[r]].st = "torn"
  /\ pc[r] = "sync" => slots[at[r]].st = "written"
  /\ (Filling(r) /\ mode[r] = "live") => slots[at[r]].auth = r
  /\ \A q \in Runs : (Filling(r) /\ Filling(q) /\ at[r] = at[q]) => r = q

(* What is signed or sent was announced in the slots behind. *)
Announced(r) ==
  \A s \in Steps :
    /\ s \in signed[r] => mode[r] = "live" /\ at[r] > SigningSlot(s)
    /\ s \in sent[r] => mode[r] = "live" /\ at[r] > SubmissionSlot(s)

(* A recovery at work has the records up to the submission behind it. *)
RecoveryBehind ==
  \A r \in Runs : (mode[r] = "recovery" /\ pc[r] # "halted") =>
    \A k \in Idx : k < at[r] => Visible(k)

RunInv == \A r \in Runs : Control(r) /\ Trail(r) /\ InFlight(r) /\ Announced(r)

-----------------------------------------------------------------------------
(* A transaction has a status exactly when it is mined. *)
ChainInv == \A s \in Steps : Mined(s) <=> chain[s].receipt.status \in Outcomes

(* Readable terminal records agree with the final chain. *)
RecordsTrue ==
  \A s \in Steps : Terminated(s) =>
    /\ chain[s].at = "final"
    /\ slots[TerminalSlot(s)].receipt.status = chain[s].receipt.status

(* The receipts a run still acts upon. *)
ReadsTrue(r) ==
  /\ (pc[r] \in {"append", "create", "write"} /\ at[r] \in {4, 8}) =>
       /\ chain[StepOf(at[r])].at = "final"
       /\ seen[r][StepOf(at[r])] = chain[StepOf(at[r])].receipt
  /\ pc[r] = "finality" =>
       \A s \in Targets(r) : Mined(s) /\ seen[r][s] = chain[s].receipt
  /\ pc[r] \in Publishing => \A s \in Steps : Settled(s) = "confirmed"

(* What a run has read while blocks may move between its two reads. *)
ReadsDated(r) ==
  /\ (pc[r] \in {"append", "create", "write"} /\ at[r] \in {4, 8}) =>
       LET s == StepOf(at[r]) IN FinalReceipt(s, seen[r][s]) \/ Moved(s, seen[r][s])
  /\ pc[r] = "finality" => \A s \in Targets(r) :
       (Mined(s) /\ seen[r][s] = chain[s].receipt) \/ Moved(s, seen[r][s])

(* A live run goes on to the mint only with a confirmed approval. *)
Gate(r) ==
  (mode[r] = "live" /\ at[r] >= 5 /\ (at[r] = 5 => pc[r] # "halted")) =>
    Outcome(4) = "confirmed"

Dated ==
  /\ WrongOnlyIfMoved
  /\ \A r \in Runs : ReadsDated(r) /\ Gate(r)

ChainTruth ==
  /\ ChainInv
  /\ RecordsTrue
  /\ \A r \in Runs : ReadsTrue(r) /\ Gate(r)
  /\ EvidenceTruth
-----------------------------------------------------------------------------
(* What the refinement of LpOneShot needs besides.                         *)

(* Nothing is on the chain that no run has sent. *)
SentInv == \A s \in Steps : chain[s].at # "unseen" => \E r \in Runs : s \in sent[r]

(* The mint is mined, succeeds and becomes final behind the approval. *)
MintFollows ==
  /\ Mined("mint") => Mined("approval")
  /\ chain["mint"].receipt.status = "confirmed" => chain["approval"].receipt.status = "confirmed"
  /\ chain["mint"].at = "final" => chain["approval"].at = "final"

(* A record of the mint, and a run about to write its terminal, have the   *)
(* recorded success of the approval behind them.                           *)
ApprovalRecorded == Durable(4) /\ Outcome(4) = "confirmed"

MintBehind ==
  /\ \A k \in 5..8 : slots[k].st # "absent" => ApprovalRecorded
  /\ \A r \in Runs : (mode[r] = "recovery" /\ at[r] = 8) => ApprovalRecorded

(* The evidence file is filled by the run that created it. *)
Drafting(r) == pc[r] \in {"evidenceWrite", "evidenceSync"}

DraftInv ==
  \A r \in Runs :
    /\ pc[r] = "evidenceWrite" => evidence = "torn"
    /\ pc[r] = "evidenceSync" => evidence = "written"
    /\ \A q \in Runs : (Drafting(r) /\ Drafting(q)) => q = r

Ordered == SentInv /\ MintFollows /\ MintBehind /\ DraftInv
=============================================================================
