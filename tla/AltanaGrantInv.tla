---------------------------- MODULE AltanaGrantInv ----------------------------
(***************************************************************************)
(* Why a grant keeps its promises: what the ledger, the relay, the secret  *)
(* and the probes have to do with the record.                              *)
(***************************************************************************)
EXTENDS AltanaGrant

(* The ledger holds one claim of the bootstrap, and only its tab goes on.  *)
Claiming ==
  /\ \A t \in rows : asked[t] # NoClaim
  /\ \A t, u \in rows : t = u
  /\ granted \subseteq rows

(* What a tab was told of a failure is final. *)
Final ==
  /\ \A t \in Tabs : /\ outcome[t] = "wallet_rejected" => relay = "refused"
                     /\ outcome[t] = "known_failed" => relay = "failed"
  /\ DeadEnds

(* From provisioning to cleanup the secret is there. *)
Provided == {"grant_ready", "grant_submitting", "grant_outcome_unknown", "grant_rejected",
             "grant_failed", "authority_pending", "execution_enabled", "grant_expired"}
Kept == record.status \in Provided => secret = "kept"

(* An exact observation is as recent as the clocks allow. *)
Observed ==
  /\ authority = "exact" => lastExact = now
  /\ lastExact <= now
  /\ \A p \in probes : p.seen = "exact" => lastExact # Never /\ lastExact >= p.at - Skew

IInv == TypeOK /\ Claiming /\ Final /\ Kept /\ Observed

(* Exact authority was granted, on the chain and in every observation.     *)
Origin ==
  /\ relay \in {"pending", "landed"} => granted # {}
  /\ authority = "exact" => relay = "landed"
  /\ \A p \in probes : p.seen = "exact" => relay = "landed"
  /\ record.status = "execution_enabled" => relay = "landed"

(* A grant given up for its age, and its cleanup. *)
Over == {"grant_expired", "cleanup_pending", "cleanup_failed", "cleaned"}

(* Before it awaits authority a record has no observation. *)
Unobserved ==
  record.status \notin Over \cup {"authority_pending", "execution_enabled"} =>
    record.observedAt = Never

(* While clocks agree no probe is untimely, and the record remembers the   *)
(* newest of those reconciled.                                             *)
Remembered ==
  /\ now >= IssuedAt
  /\ \A p \in probes : p.at >= IssuedAt /\ p.at <= now
  /\ IF record.status \in {"authority_pending", "execution_enabled"}
       THEN record.observedAt = newest
       ELSE record.status \notin Over => newest = Never /\ record.observedAt = Never
=============================================================================
