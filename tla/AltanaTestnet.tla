--------------------------- MODULE AltanaTestnet ---------------------------
(***************************************************************************)
(* What the test-action worker (scripts/altana-test-action-worker.mjs) and *)
(* the session ceremony of the browser (altana-session-ceremony.tsx) see   *)
(* of the outside: the Altana relay, which accepts calls and lands them or *)
(* not, the one session key they are about, and the two fixed RPC          *)
(* endpoints.  All of it is outside the repository.                        *)
(*                                                                         *)
(* The key is registered by a grant and is gone for good once it is        *)
(* revoked: the revocation is monotonic (docs/deployment.md).  When it     *)
(* expires it is no longer valid, whether or not the account goes on       *)
(* listing it, and a grant that lands later brings it back no more, since  *)
(* each grant names its own expiry.  A second grant that renews an expired *)
(* key is left out.                                                        *)
(***************************************************************************)
EXTENDS Naturals, Sequences

CONSTANTS Faulty,   \* the endpoints whose answers are not to be believed
          Callers   \* whoever sends calls to the relay

Providers == {"publicnode", "bnbchain"}

Honest == Providers \ Faulty

ASSUME FaultyAssumption == Faulty \subseteq Providers /\ Faulty # Providers

VARIABLES calls,      \* the calls the relay accepted
          authority,  \* the session key
          view        \* the key as an honest endpoint sees it

netVars == <<calls, authority, view>>

Call == [kind : {"grant", "execute", "revoke"}, by : Callers,
         st : {"pending", "landed", "failed"}]

Authority == {"none", "granted", "expired", "gone"}

NetTypeOK ==
  /\ calls \in Seq(Call)
  /\ authority \in Authority
  /\ view \in [Honest -> Authority]

NetInit ==
  /\ calls = <<>>
  /\ authority = "none"
  /\ view = [p \in Honest |-> "none"]

Accept(kind, c) == calls' = Append(calls, [kind |-> kind, by |-> c, st |-> "pending"])

Of(kind) == {i \in DOMAIN calls : calls[i].kind = kind}

-----------------------------------------------------------------------------
(* What the endpoints and the relay answer. *)

(* isValidKey and getKeys of one endpoint: both say that the key is there, *)
(* or both that it is not (an expired key that is still listed is a        *)
(* mismatch); an endpoint that lags serves an older block.                 *)
Says(p, present) ==
  p \in Honest => view[p] \in IF present THEN {"granted"} ELSE {"none", "gone"}

(* Faulty variant: one endpoint decides. *)
FirstSays(present) == Says("publicnode", present)

(* observeAuthority: the two endpoints agree. *)
Observed(present) == \A p \in Providers : Says(p, present)

(* wallet_getCallsStatus: the relay may lag, answer with a status nobody   *)
(* knows, or report a success early or without the transaction's hash.     *)
Reported(i) ==
  {"pending", "unknown", "confirmed", "confirmed without hash"} \cup
    IF calls[i].st = "failed" THEN {"failed"} ELSE {}

(* eth_getTransactionReceipt of one endpoint: a success. *)
HasReceipt(p, i) == p \in Honest => calls[i].st = "landed"

-----------------------------------------------------------------------------
(* Steps of the outside. *)

(* A call lands, with what it does to the key. *)
Land(i) ==
  /\ calls[i].st = "pending"
  /\ calls[i].kind = "grant" => authority \in {"none", "granted"}
  /\ calls[i].kind = "execute" => authority = "granted"
  /\ calls[i].kind = "revoke" => authority \in {"granted", "expired"}
  /\ calls' = [calls EXCEPT ![i].st = "landed"]
  /\ authority' = CASE calls[i].kind = "grant" -> "granted"
                    [] calls[i].kind = "revoke" -> "gone"
                    [] OTHER -> authority
  /\ UNCHANGED view

(* The action fails.  A grant or a revocation that fails is one that never *)
(* lands: its caller may give up at any time, and nobody else asks.        *)
Fall(i) ==
  /\ calls[i].kind = "execute"
  /\ calls[i].st = "pending"
  /\ calls' = [calls EXCEPT ![i].st = "failed"]
  /\ UNCHANGED <<authority, view>>

Lapse ==
  /\ authority = "granted"
  /\ authority' \in {"expired", "gone"}
  /\ UNCHANGED <<calls, view>>

CatchUp(p) ==
  /\ view[p] # authority
  /\ view' = [view EXCEPT ![p] = authority]
  /\ UNCHANGED <<calls, authority>>

Outside ==
  \/ \E i \in DOMAIN calls : Land(i) \/ Fall(i)
  \/ Lapse
  \/ \E p \in Honest : CatchUp(p)
=============================================================================
