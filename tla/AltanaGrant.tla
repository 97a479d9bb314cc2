---------------------------- MODULE AltanaGrant ----------------------------
(***************************************************************************)
(* One Altana bootstrap record, from its preparation to an enabled session *)
(* or a cleaned secret: the pure transitions of altana-bootstrap.ts on the *)
(* stored record, the browser tabs that each ask the claim store for the   *)
(* one submission and call the SDK (altana-grant.ts), authority probes     *)
(* that arrive late, again and out of order, and clocks that disagree.     *)
(* The claim store is its abstract register, which AltanaClaim implements. *)
(***************************************************************************)
EXTENDS Integers, FiniteSets

CONSTANTS Tabs,       \* whoever submits or reconciles the grant
          NoClaim,
          Expiry,     \* bootstrapExpiresAt
          MaxAge,     \* MAX_AUTHORITY_PROBE_AGE_SECONDS
          Skew,       \* how far two clocks may disagree
          MaxTime,    \* bound: the last instant
          MaxProbes   \* bound: probes taken

Times == 0..MaxTime
IssuedAt == 1
Never == -1

ASSUME TimeAssumption ==
  /\ Expiry \in Times /\ IssuedAt < Expiry
  /\ MaxAge \in Nat /\ Skew \in Nat /\ MaxTime \in Nat /\ MaxProbes \in Nat
ASSUME NoClaimAssumption == NoClaim \notin Times

VARIABLES now,        \* real time
          record,     \* the stored bootstrap record
          asked, rows, answer,  \* the claim store
          pc,         \* where each tab is
          outcome,    \* what the SDK call of a tab came to
          relay,      \* the authorization batch
          authority,  \* the session key's authority on the chain
          probes,     \* authority observations on their way
          secret,     \* the session secret at its provider
          granted,    \* history: the tabs that called grantSession
          lastExact,  \* history: the last instant of exact authority
          newest      \* history: the latest observation reconciled

claimVars == <<asked, rows, answer>>
tabVars == <<pc, outcome, granted>>
chainVars == <<relay, authority, lastExact>>
vars == <<now, record, claimVars, tabVars, chainVars, probes, secret, newest>>

Ledger == INSTANCE AltanaClaimRegister WITH
            Requests <- Tabs, Claims <- Times, Keys <- {"bootstrap"},
            KeysOf <- [t \in Times |-> {"bootstrap"}]

Outcomes == {"sdk_confirmed", "wallet_rejected", "known_failed", "sdk_pending",
             "relay_timeout", "indeterminate_error"}
Authorities == {"absent", "exact", "other"}
Statuses ==
  {"bootstrap_ready", "secret_provisioning", "secret_outcome_unknown", "grant_ready",
   "grant_submitting", "grant_outcome_unknown", "grant_rejected", "grant_failed",
   "authority_pending", "execution_enabled", "grant_expired",
   "cleanup_pending", "cleanup_failed", "cleaned"}

(* lastAuthorityObservedAt and authorityObservedAt are one field here.     *)
Records == [status : Statuses, updatedAt : Times, submittedAt : Times \cup {Never},
            observedAt : Times \cup {Never}, handle : BOOLEAN]
Probes == [seen : Authorities \cup {"unavailable"}, at : Times]

(* What a clock may show. *)
Clock == {t \in Times : now - Skew <= t /\ t <= now + Skew}

Init ==
  /\ now = IssuedAt
  /\ record = [status |-> "bootstrap_ready", updatedAt |-> IssuedAt,
               submittedAt |-> Never, observedAt |-> Never, handle |-> FALSE]
  /\ Ledger!Init
  /\ pc = [t \in Tabs |-> "idle"]
  /\ outcome = [t \in Tabs |-> "none"]
  /\ relay = "none"
  /\ authority = "absent"
  /\ probes = {}
  /\ secret = "absent"
  /\ granted = {}
  /\ lastExact = Never
  /\ newest = Never

-----------------------------------------------------------------------------
(* Transitions of the stored record.                                       *)

(* transitionAt: a clock behind the record's last update is refused. *)
TransitionTimes == {t \in Clock : t >= record.updatedAt}

Become(status, at) == record' = [record EXCEPT !.status = status, !.updatedAt = at]

BeginProvisioning ==
  /\ record.status = "bootstrap_ready"
  /\ \E at \in TransitionTimes : at < Expiry /\ Become("secret_provisioning", at)
  /\ UNCHANGED <<now, claimVars, tabVars, chainVars, probes, secret, newest>>

(* createOrGet at the provider, which the caller may not hear of. *)
ProviderCreates ==
  /\ record.status = "secret_provisioning"
  /\ secret = "absent"
  /\ secret' = "kept"
  /\ UNCHANGED <<now, record, claimVars, tabVars, chainVars, probes, newest>>

Provisioned ==
  /\ record.status = "secret_provisioning"
  /\ secret = "kept"
  /\ \E at \in TransitionTimes :
       record' = [record EXCEPT !.status = IF at < Expiry THEN "grant_ready"
                                                          ELSE "grant_expired",
                                !.updatedAt = at, !.handle = TRUE]
  /\ UNCHANGED <<now, claimVars, tabVars, chainVars, probes, secret, newest>>

ProvisioningUnknown ==
  /\ record.status = "secret_provisioning"
  /\ \E at \in TransitionTimes : Become("secret_outcome_unknown", at)
  /\ UNCHANGED <<now, claimVars, tabVars, chainVars, probes, secret, newest>>

(* Faulty variant: a timeout taken for a failure. *)
TimeoutFails(o) ==
  CASE o = "sdk_confirmed"   -> "authority_pending"
    [] o = "wallet_rejected" -> "grant_rejected"
    [] o = "sdk_pending"     -> "grant_outcome_unknown"
    [] OTHER                 -> "grant_failed"

(* What settleAltanaBootstrapGrant makes of an SDK outcome. *)
SettledStatus(o) ==
  CASE o = "sdk_confirmed"   -> "authority_pending"
    [] o = "wallet_rejected" -> "grant_rejected"
    [] o = "known_failed"    -> "grant_failed"
    [] OTHER                 -> "grant_outcome_unknown"

(* A response settles only the submission it was made for. *)
Settle(t) ==
  /\ pc[t] = "responded"
  /\ record.status = "grant_submitting"
  /\ record.submittedAt = asked[t]
  /\ \E at \in TransitionTimes :
       Become(IF at >= Expiry THEN "grant_expired" ELSE SettledStatus(outcome[t]), at)
  /\ pc' = [pc EXCEPT ![t] = "done"]
  /\ UNCHANGED <<now, claimVars, outcome, granted, chainVars, probes, secret, newest>>

AwaitingAuthority == record.status \in {"authority_pending", "grant_outcome_unknown"}

(* An observation that cannot be one: of the future, or before issuance. *)
Untimely(p, at) == p.at > at \/ p.at < IssuedAt

(* Faulty variants: no order among observations, and no age limit. *)
NeverOutdated(p) == FALSE
AlwaysFresh(p, at) == TRUE

Outdated(p) == record.status = "authority_pending" /\ p.at <= record.observedAt

Fresh(p, at) == at - p.at <= MaxAge

Reconciled(p, at) ==
  LET pending(observed) == [record EXCEPT !.status = "authority_pending",
                                          !.updatedAt = at, !.observedAt = observed]
  IN CASE at >= Expiry -> [record EXCEPT !.status = "grant_expired", !.updatedAt = at]
       [] at < Expiry /\ Untimely(p, at) -> pending(Never)
       [] at < Expiry /\ ~Untimely(p, at) /\ Outdated(p) -> pending(record.observedAt)
       [] at < Expiry /\ ~Untimely(p, at) /\ ~Outdated(p)
            /\ Fresh(p, at) /\ p.seen = "exact" ->
            [record EXCEPT !.status = "execution_enabled", !.updatedAt = at,
                           !.observedAt = p.at]
       [] OTHER -> pending(p.at)

(* reconcileAltanaBootstrapAuthority; a probe may be reconciled again. *)
Reconcile(p) ==
  /\ AwaitingAuthority
  /\ p \in probes
  /\ \E at \in TransitionTimes :
       /\ record' = Reconciled(p, at)
       /\ newest' = IF at < Expiry /\ ~Untimely(p, at) /\ p.at > newest
                      THEN p.at ELSE newest
  /\ UNCHANGED <<now, claimVars, tabVars, chainVars, probes, secret>>

(* Faulty variant: an enabled session's secret is an orphan after expiry. *)
MayCleanEnabled(at) ==
  /\ record.handle
  /\ record.status \notin {"cleanup_pending", "cleaned"}
  /\ at >= Expiry \/ record.status = "grant_expired"

MayClean(at) ==
  /\ record.handle
  /\ record.status \notin {"execution_enabled", "cleanup_pending", "cleaned"}
  /\ at >= Expiry \/ record.status = "grant_expired"

BeginCleanup ==
  /\ \E at \in TransitionTimes : MayClean(at) /\ Become("cleanup_pending", at)
  /\ UNCHANGED <<now, claimVars, tabVars, chainVars, probes, secret, newest>>

(* deleteByHandle at the provider. *)
ProviderDeletes ==
  /\ record.status = "cleanup_pending"
  /\ secret' = "deleted"
  /\ UNCHANGED <<now, record, claimVars, tabVars, chainVars, probes, newest>>

Cleaned ==
  /\ record.status = "cleanup_pending"
  /\ secret = "deleted"
  /\ \E at \in TransitionTimes :
       record' = [record EXCEPT !.status = "cleaned", !.updatedAt = at, !.handle = FALSE]
  /\ UNCHANGED <<now, claimVars, tabVars, chainVars, probes, secret, newest>>

CleanupFails ==
  /\ record.status = "cleanup_pending"
  /\ \E at \in TransitionTimes : Become("cleanup_failed", at)
  /\ UNCHANGED <<now, claimVars, tabVars, chainVars, probes, secret, newest>>

-----------------------------------------------------------------------------
(* Tabs.                                                                   *)

(* beginAltanaBootstrapGrant on the tab's copy, and the request made of it. *)
Begin(t) ==
  /\ pc[t] = "idle"
  /\ record.status = "grant_ready"
  /\ \E at \in TransitionTimes : at < Expiry /\ Ledger!Ask(t, at)
  /\ pc' = [pc EXCEPT ![t] = "prepared"]
  /\ UNCHANGED <<now, record, outcome, granted, chainVars, probes, secret, newest>>

(* submitAltanaGrant: the clock is read once, before the claim. *)
Submit(t) ==
  /\ pc[t] = "prepared"
  /\ \E at \in Clock :
       pc' = [pc EXCEPT ![t] = IF at >= asked[t] /\ at < Expiry THEN "claiming"
                                                               ELSE "stopped"]
  /\ UNCHANGED <<now, record, claimVars, outcome, granted, chainVars, probes, secret, newest>>

(* The claim is the compare-and-swap of grant_ready to grant_submitting; *)
(* the ledger itself does not look at the record.                        *)
Claim(t) ==
  /\ pc[t] \in {"claiming", "gone", "done"}
  /\ Ledger!Record(t)
  /\ record' = IF record.status = "grant_ready"
                 THEN [record EXCEPT !.status = "grant_submitting",
                                     !.updatedAt = asked[t], !.submittedAt = asked[t]]
                 ELSE record
  /\ UNCHANGED <<now, tabVars, chainVars, probes, secret, newest>>

(* Faulty variant: a replayed claim goes on to the SDK as well. *)
ClaimedOrReplayed(t, a) ==
  /\ pc[t] = "claiming"
  /\ Ledger!Answer(t, a)
  /\ IF a \in {"claimed", "already_claimed"}
       THEN /\ pc' = [pc EXCEPT ![t] = "granting"]
            /\ granted' = granted \cup {t}
       ELSE /\ pc' = [pc EXCEPT ![t] = "done"]
            /\ UNCHANGED granted
  /\ UNCHANGED <<now, record, outcome, chainVars, probes, secret, newest>>

(* Only "claimed" goes on to the SDK; every other answer is an error. *)
Claimed(t, a) ==
  /\ pc[t] = "claiming"
  /\ Ledger!Answer(t, a)
  /\ IF a = "claimed"
       THEN /\ pc' = [pc EXCEPT ![t] = "granting"]
            /\ granted' = granted \cup {t}
       ELSE /\ pc' = [pc EXCEPT ![t] = "done"]
            /\ UNCHANGED granted
  /\ UNCHANGED <<now, record, outcome, chainVars, probes, secret, newest>>

(* What classifyGrantThrow and the exact-result test can tell of the SDK. *)
Possible ==
  {"sdk_pending", "relay_timeout", "indeterminate_error"}
    \cup (CASE relay = "none"   -> {"wallet_rejected"}
            [] relay = "landed" -> {"sdk_confirmed"}
            [] relay = "failed" -> {"known_failed"}
            [] OTHER            -> {})

Respond(t) ==
  /\ pc[t] = "granting"
  /\ \E o \in Possible :
       /\ outcome' = [outcome EXCEPT ![t] = o]
       (* a rejected prompt can no longer send anything *)
       /\ relay' = IF relay = "none" /\ o = "wallet_rejected" THEN "refused" ELSE relay
  /\ pc' = [pc EXCEPT ![t] = "responded"]
  /\ UNCHANGED <<now, record, claimVars, granted, authority, lastExact, probes, secret, newest>>

(* The tab is closed or reloaded; a claim it has sent may still be recorded. *)
Close(t) ==
  /\ pc[t] \notin {"idle", "done", "stopped", "gone"}
  /\ pc' = [pc EXCEPT ![t] = IF @ = "prepared" THEN "stopped" ELSE "gone"]
  /\ UNCHANGED <<now, record, claimVars, outcome, granted, chainVars, probes, secret, newest>>

-----------------------------------------------------------------------------
(* The wallet, the relay, the chain and time.                              *)

WalletSends ==
  /\ relay = "none" /\ granted # {}
  /\ relay' = "pending"
  /\ UNCHANGED <<now, record, claimVars, tabVars, authority, lastExact, probes, secret, newest>>

RelayLands ==
  /\ relay = "pending"
  /\ \/ relay' = "landed" /\ authority' = "exact" /\ lastExact' = now
     \/ relay' = "failed" /\ UNCHANGED <<authority, lastExact>>
  /\ UNCHANGED <<now, record, claimVars, tabVars, probes, secret, newest>>

(* The owner revokes the session key or narrows what it may do. *)
WalletRevokes ==
  /\ authority = "exact"
  /\ authority' \in {"absent", "other"}
  /\ UNCHANGED <<now, record, claimVars, tabVars, relay, lastExact, probes, secret, newest>>

(* The prober reads the chain and stamps what it saw with its own clock. *)
Probe ==
  /\ Cardinality(probes) < MaxProbes
  /\ \E seen \in {authority, "unavailable"}, at \in Clock :
       probes' = probes \cup {[seen |-> seen, at |-> at]}
  /\ UNCHANGED <<now, record, claimVars, tabVars, chainVars, secret, newest>>

Tick ==
  /\ now < MaxTime
  /\ now' = now + 1
  /\ lastExact' = IF authority = "exact" THEN now + 1 ELSE lastExact
  /\ UNCHANGED <<record, claimVars, tabVars, relay, authority, probes, secret, newest>>

-----------------------------------------------------------------------------
Tab(t) ==
  \/ Begin(t) \/ Submit(t) \/ Claim(t) \/ Respond(t) \/ Settle(t) \/ Close(t)
  \/ \E a \in Ledger!Answers : Claimed(t, a)

Server ==
  \/ BeginProvisioning \/ ProviderCreates \/ Provisioned \/ ProvisioningUnknown
  \/ \E p \in probes : Reconcile(p)
  \/ BeginCleanup \/ ProviderDeletes \/ Cleaned \/ CleanupFails

World == WalletSends \/ RelayLands \/ WalletRevokes \/ Probe \/ Tick

Next == (\E t \in Tabs : Tab(t)) \/ Server \/ World

Spec == Init /\ [][Next]_vars

-----------------------------------------------------------------------------
(* The variables hold what the code can put there. *)
TypeOK ==
  /\ now \in Times
  /\ record \in Records
  /\ asked \in [Tabs -> Times \cup {NoClaim}]
  /\ rows \subseteq Tabs
  /\ answer \in [Tabs -> Ledger!Answers \cup {"none"}]
  /\ pc \in [Tabs -> {"idle", "prepared", "claiming", "granting", "responded",
                      "done", "stopped", "gone"}]
  /\ outcome \in [Tabs -> Outcomes \cup {"none"}]
  /\ relay \in {"none", "pending", "landed", "failed", "refused"}
  /\ authority \in Authorities
  /\ probes \subseteq Probes
  /\ secret \in {"absent", "kept", "deleted"}
  /\ granted \subseteq Tabs
  /\ lastExact \in Times \cup {Never}
  /\ newest \in Times \cup {Never}

(* However many tabs submit, reload or lose the store's answer, the SDK is *)
(* asked for one grant at most, and only for a recorded claim ("performs   *)
(* exactly one reviewed grant attempt", altana-grant.ts:690).              *)
AtMostOneGrant == granted \subseteq rows /\ \A t, u \in granted : t = u

(* A session is enabled only if the exact authority was on the chain no    *)
(* longer ago than the probe's age limit and the clocks' disagreement      *)
(* allow, so a relay status or an old probe never enables one.             *)
EnabledTruth ==
  [][record'.status = "execution_enabled" /\ record.status # "execution_enabled" =>
       lastExact # Never /\ lastExact >= now - MaxAge - 2 * Skew]_vars

(* A session is enabled only by the grant of a recorded claim: one tab     *)
(* alone has called the SDK, its claim is there, and what it asked for has *)
(* landed (no observation can stand in for it, altana-bootstrap.ts:1012).  *)
EnabledByClaim ==
  record.status = "execution_enabled" =>
    relay = "landed" /\ \E t \in rows : granted = {t}

(* "Never let an older snapshot replace a newer authority observation"     *)
(* (altana-bootstrap.ts:998): what enables a session is the newest         *)
(* observation that was reconciled.                                        *)
NewerWins == record.status = "execution_enabled" => record.observedAt = newest

(* However far the clocks disagree, the time of the last observation goes  *)
(* back only on an observation of the future or from before issuance,      *)
(* which clears it (altana-bootstrap.ts:988 and :991): without those the   *)
(* newest observation decides.                                             *)
OnlyUntimelyRewinds ==
  [][record'.observedAt < record.observedAt =>
       \E p \in probes : Reconcile(p) /\ Untimely(p, record'.updatedAt)]_vars

(* The secret of an enabled session is there and stays, and the session    *)
(* is never taken for an orphan, also when a cleanup, a probe and a late   *)
(* grant cross (beginAltanaBootstrapOrphanCleanup).                        *)
SecretKept ==
  [][/\ record'.status = "execution_enabled" => secret' = "kept"
     /\ record.status = "execution_enabled" => record' = record]_vars

(* A grant reported rejected or failed can no longer land.                 *)
DeadEnds ==
  record.status \in {"grant_rejected", "grant_failed"} =>
    relay \in {"refused", "failed"}
=============================================================================
