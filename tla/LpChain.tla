------------------------------ MODULE LpChain ------------------------------
(***************************************************************************)
(* The BSC testnet and the two fixed RPC endpoints as the first-LP runner  *)
(* uses them (scripts/run-bsc-testnet-pta-wbnb-first-lp.ts).  The chain is *)
(* outside the repository: it is modelled only as far as the runner can    *)
(* tell executions apart, that is, how far each of the two transactions    *)
(* got, in which block, and what a provider may answer about it.           *)
(***************************************************************************)
EXTENDS Naturals

CONSTANTS Faulty,    \* the providers whose answers are not to be believed
          MaxReorgs  \* bound: how often a transaction may change its block

Steps == {"approval", "mint"}
Outcomes == {"confirmed", "reverted"}
Providers == {"primary", "corroborator"}

ASSUME FaultyAssumption == Faulty \subseteq Providers /\ Faulty # Providers
ASSUME MaxReorgsAssumption == MaxReorgs \in Nat

VARIABLE chain  \* the position of the transaction of each step

(* What reading a transaction yields: its status and its block.  A         *)
(* reorganisation gives the transaction another block.                     *)
Receipt == [status : Outcomes \cup {"none"}, block : Nat]

NoReceipt == [status |-> "none", block |-> 0]

Position == [at : {"unseen", "pending", "mined", "final"}, receipt : Receipt]

ChainTypeOK == chain \in [Steps -> Position]

ChainInit == chain = [s \in Steps |-> [at |-> "unseen", receipt |-> NoReceipt]]

Mined(s) == chain[s].at \in {"mined", "final"}
Succeeded(s) == Mined(s) /\ chain[s].receipt.status = "confirmed"

(* The outcome that can no longer change. *)
Settled(s) == IF chain[s].at = "final" THEN chain[s].receipt.status ELSE "none"

-----------------------------------------------------------------------------
(* What the two endpoints may answer.  An answer is used only when both    *)
(* give it, and a faulty endpoint may give any, so it is enough to say     *)
(* what the others can have seen.                                          *)

Honest == Providers \ Faulty
Answers == [status : Outcomes \cup {"none"}, block : 0..MaxReorgs]

(* Faulty variants: the receipt of the primary alone, and no wait for      *)
(* finality.                                                               *)
ReportedByPrimary(s, rc) == "primary" \in Honest => Mined(s) /\ rc = chain[s].receipt
HeadNotAwaited(s, rc) == TRUE

(* A receipt in the canonical chain. *)
Reported(s, rc) == \A p \in Honest : Mined(s) /\ rc = chain[s].receipt

(* The finalized head has passed the block of a receipt read earlier.  If  *)
(* the transaction has moved to another block, the old height may be       *)
(* passed without that block.                                              *)
HeadPassed(s, rc) ==
  \A p \in Honest : chain[s].at = "final" \/ chain[s].receipt.block # rc.block

(* preSubmissionObservation: the nonce of the step is the next one, and    *)
(* the allowance is zero before the approval and the exact capital before  *)
(* the mint.                                                               *)
Ready(s) ==
  \A p \in Honest :
    /\ ~Mined(s)
    /\ s = "mint" => Succeeded("approval")

(* The position of the mint, read at the block hash of its receipt. *)
PositionAt(rc) == \A p \in Honest : Succeeded("mint") /\ rc = chain["mint"].receipt

-----------------------------------------------------------------------------
(* Steps of the network.                                                   *)

(* A broadcast reaches the mempool or is lost; the runner ignores the      *)
(* response either way.                                                    *)
Broadcast(s) ==
  \/ /\ chain[s].at = "unseen"
     /\ chain' = [chain EXCEPT ![s].at = "pending"]
  \/ UNCHANGED chain

(* The nonces are consecutive: the mint cannot be mined before the         *)
(* approval, and it succeeds only with the approval's allowance.           *)
Include(s) ==
  /\ chain[s].at = "pending"
  /\ s = "mint" => Mined("approval")
  /\ \E o \in Outcomes :
       /\ (s = "mint" /\ o = "confirmed") => Succeeded("approval")
       /\ chain' = [chain EXCEPT
            ![s] = [at |-> "mined", receipt |-> [@.receipt EXCEPT !.status = o]]]

(* A reorganisation undoes a mined transaction that is not yet final; the  *)
(* mint falls with the approval.                                           *)
Fallen(s) == {s} \cup {t \in Steps : s = "approval" /\ chain[t].at = "mined"}

Reorg(s) ==
  /\ chain[s].at = "mined"
  /\ \A t \in Fallen(s) : chain[t].receipt.block < MaxReorgs
  /\ chain' = [t \in Steps |->
       IF t \in Fallen(s)
       THEN [at |-> "pending",
             receipt |-> [status |-> "none", block |-> chain[t].receipt.block + 1]]
       ELSE chain[t]]

Finalize(s) ==
  /\ chain[s].at = "mined"
  /\ s = "mint" => chain["approval"].at = "final"
  /\ chain' = [chain EXCEPT ![s].at = "final"]
=============================================================================
