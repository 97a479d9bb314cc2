----------------------------- MODULE PoolChain -----------------------------
(***************************************************************************)
(* The BSC testnet and the two fixed RPC endpoints as the initializer of   *)
(* the PTA/WBNB pool uses them                                             *)
(* (bsc-testnet-pta-wbnb-pool-production-rpc.server.ts and                 *)
(* -submission-reconciler.server.ts).  The chain itself is outside the     *)
(* repository: there is one transaction, it may be mined, fall out again   *)
(* while its block is not finalized, and succeed, revert, or succeed in    *)
(* vain because somebody else created the pool first.                      *)
(***************************************************************************)
EXTENDS Naturals

CONSTANTS Faulty,    \* the providers whose answers are not to be believed
          Depth,     \* the checkpoint: so many blocks after the receipt
          MaxHeight  \* bound: the last block

Providers == {"primary", "corroborator"}

ASSUME FaultyAssumption == Faulty \subseteq Providers /\ Faulty # Providers
ASSUME HeightAssumption == Depth \in Nat /\ MaxHeight \in Nat

VARIABLES tx,        \* the transaction
          finalized  \* the height of the finalized block

chainVars == <<tx, finalized>>

Verdicts == {"confirmed", "reverted"}
Statuses == Verdicts \cup {"foreign"}

Transaction ==
  [at : {"unseen", "pending", "mined"}, block : 0..MaxHeight, status : Statuses \cup {"none"}]

Unmined(place) == [at |-> place, block |-> 0, status |-> "none"]

ChainTypeOK == tx \in Transaction /\ finalized \in 0..MaxHeight

ChainInit == tx = Unmined("unseen") /\ finalized = 0

Final == tx.at = "mined" /\ tx.block <= finalized

(* The outcome that can no longer change. *)
Settled == IF Final THEN tx.status ELSE "none"

-----------------------------------------------------------------------------
(* What the endpoints may answer.  Evidence is used only when both give    *)
(* it, and a faulty endpoint may give any, so it is enough to say what the *)
(* others can have seen.                                                   *)
Honest == Providers \ Faulty

(* acquireBscTestnetPtaWbnbPoolProductionPreSubmission: no pool, and the   *)
(* transaction neither mined nor pending.                                  *)
Ready == \A p \in Honest : tx.at = "unseen"

(* A finalized head, which may lag behind. *)
Heads == 0..finalized

(* Faulty variants of Attested: the primary alone, and a checkpoint above  *)
(* the head.                                                               *)
AttestedByPrimary(h, o) ==
  "primary" \in Honest => tx.at = "mined" /\ tx.block + Depth <= h /\ o = tx.status
CheckpointNotAwaited(h, o) == \A p \in Honest : tx.at = "mined" /\ o = tx.status

(* reconcileEvidence accepts outcome o under the head h read first: the    *)
(* receipt's block, its checkpoint Depth blocks later and every block in   *)
(* between are canonical under h, and a success shows the events and the   *)
(* state of the pool that this transaction creates.                        *)
Attested(h, o) ==
  \A p \in Honest : tx.at = "mined" /\ tx.block + Depth <= h /\ o = tx.status

-----------------------------------------------------------------------------
(* Steps of the network. *)

(* The raw transaction reaches the mempool or is lost; the sender ignores  *)
(* the response either way.                                                *)
Broadcast ==
  \/ tx.at = "unseen" /\ tx' = [tx EXCEPT !.at = "pending"]
  \/ UNCHANGED tx

Include ==
  /\ tx.at = "pending"
  /\ \E b \in finalized + 1 .. MaxHeight, o \in Statuses :
       tx' = [at |-> "mined", block |-> b, status |-> o]
  /\ UNCHANGED finalized

Reorg ==
  /\ tx.at = "mined"
  /\ tx.block > finalized
  /\ tx' = Unmined("pending")
  /\ UNCHANGED finalized

Finalize ==
  /\ finalized < MaxHeight
  /\ finalized' = finalized + 1
  /\ UNCHANGED tx

Network == Include \/ Reorg \/ Finalize
=============================================================================
