-------------------------- MODULE AltanaGrantProofs --------------------------
(***************************************************************************)
(* Proofs about the Altana grant, for any number of tabs, any expiry, age  *)
(* limit and disagreement of clocks.                                       *)
(***************************************************************************)
EXTENDS AltanaGrantInv, TLAPS

-----------------------------------------------------------------------------
(* Type correctness.                                                       *)

LEMMA InitType == Init => TypeOK
<1> SUFFICES ASSUME Init PROVE TypeOK
  OBVIOUS
<1>1. now \in Times /\ record \in Records
  BY TimeAssumption DEF Init, Times, IssuedAt, Records, Statuses
<1>2. /\ asked \in [Tabs -> Times \cup {NoClaim}]
      /\ rows \subseteq Tabs
      /\ answer \in [Tabs -> Ledger!Answers \cup {"none"}]
  BY DEF Init, Ledger!Init
<1>3. /\ pc \in [Tabs -> {"idle", "prepared", "claiming", "granting", "responded",
                          "done", "stopped", "gone"}]
      /\ outcome \in [Tabs -> Outcomes \cup {"none"}]
  BY DEF Init
<1> QED
  BY <1>1, <1>2, <1>3 DEF Init, TypeOK, Authorities

(* A transition at a time of the clock keeps the record's type. *)
LEMMA BecomeType ==
  ASSUME TypeOK, NEW s \in Statuses, NEW at \in Times, Become(s, at)
  PROVE  record' \in Records
BY DEF TypeOK, Become, Records

LEMMA ReconciledType ==
  ASSUME TypeOK, NEW p \in Probes, NEW at \in Times
  PROVE  Reconciled(p, at) \in Records
<1>0. record \in Records /\ p.at \in Times
  BY DEF TypeOK, Probes
<1>1. CASE at >= Expiry
  BY <1>0, <1>1 DEF Reconciled, Records, Statuses
<1>2. CASE at < Expiry /\ Untimely(p, at)
  BY <1>0, <1>2 DEF Reconciled, Records, Statuses
<1>3. CASE at < Expiry /\ ~Untimely(p, at)
  BY <1>0, <1>3 DEF Reconciled, Records, Statuses
<1> QED
  BY <1>1, <1>2, <1>3, TimeAssumption DEF Times

LEMMA ServerType ==
  ASSUME TypeOK, Server
  PROVE  TypeOK'
<1> USE DEF claimVars, tabVars, chainVars
<1>0. \A at \in TransitionTimes : at \in Times
  BY DEF TransitionTimes, Clock
<1>1. CASE BeginProvisioning
  BY <1>0, <1>1, BecomeType DEF BeginProvisioning, TypeOK, Statuses
<1>2. CASE ProviderCreates
  BY <1>2 DEF ProviderCreates, TypeOK
<1>3. CASE Provisioned
  <2>1. PICK at \in TransitionTimes :
          record' = [record EXCEPT !.status = IF at < Expiry THEN "grant_ready"
                                                            ELSE "grant_expired",
                                   !.updatedAt = at, !.handle = TRUE]
    BY <1>3 DEF Provisioned
  <2>2. record \in Records /\ at \in Times
    BY <1>0 DEF TypeOK
  <2>3. record' \in Records
    BY <2>1, <2>2 DEF Records, Statuses
  <2> QED
    BY <1>3, <2>3 DEF Provisioned, TypeOK
<1>4. CASE ProvisioningUnknown
  BY <1>0, <1>4, BecomeType DEF ProvisioningUnknown, TypeOK, Statuses
<1>5. ASSUME NEW p \in probes, Reconcile(p) PROVE TypeOK'
  <2>1. PICK at \in TransitionTimes :
          /\ record' = Reconciled(p, at)
          /\ newest' = IF at < Expiry /\ ~Untimely(p, at) /\ p.at > newest
                         THEN p.at ELSE newest
    BY <1>5 DEF Reconcile
  <2>2. p \in Probes
    BY DEF TypeOK
  <2>3. record' \in Records
    BY <1>0, <2>1, <2>2, ReconciledType
  <2>4. newest' \in Times \cup {Never}
    BY <2>1, <2>2 DEF TypeOK, Probes
  <2> QED
    BY <1>5, <2>3, <2>4 DEF Reconcile, TypeOK
<1>6. CASE BeginCleanup
  BY <1>0, <1>6, BecomeType DEF BeginCleanup, TypeOK, Statuses
<1>7. CASE ProviderDeletes
  BY <1>7 DEF ProviderDeletes, TypeOK
<1>8. CASE Cleaned
  <2>1. PICK at \in TransitionTimes :
          record' = [record EXCEPT !.status = "cleaned", !.updatedAt = at, !.handle = FALSE]
    BY <1>8 DEF Cleaned
  <2>2. record \in Records /\ at \in Times
    BY <1>0 DEF TypeOK
  <2>3. record' \in Records
    BY <2>1, <2>2 DEF Records, Statuses
  <2> QED
    BY <1>8, <2>3 DEF Cleaned, TypeOK
<1>9. CASE CleanupFails
  BY <1>0, <1>9, BecomeType DEF CleanupFails, TypeOK, Statuses
<1> QED
  BY <1>1, <1>2, <1>3, <1>4, <1>5, <1>6, <1>7, <1>8, <1>9 DEF Server

LEMMA TabType ==
  ASSUME TypeOK, NEW t \in Tabs, Tab(t)
  PROVE  TypeOK'
<1> USE DEF claimVars, tabVars, chainVars
<1>0. \A at \in TransitionTimes : at \in Times
  BY DEF TransitionTimes, Clock
<1>1. CASE Begin(t)
  BY <1>0, <1>1 DEF Begin, TypeOK, Ledger!Ask
<1>2. CASE Submit(t)
  BY <1>2 DEF Submit, TypeOK
<1>3. CASE Claim(t)
  <2>1. asked[t] \in Times
    BY <1>3 DEF Claim, TypeOK, Ledger!Record
  <2>2. record' \in Records
    BY <1>3, <2>1 DEF Claim, TypeOK, Records, Statuses
  <2> QED
    BY <1>3, <2>2 DEF Claim, TypeOK, Ledger!Record
<1>4. CASE Respond(t)
  <2>1. Possible \subseteq Outcomes
    BY DEF Possible, Outcomes
  <2> QED
    BY <1>4, <2>1 DEF Respond, TypeOK
<1>5. CASE Settle(t)
  <2>1. outcome[t] \in Outcomes \cup {"none"} => SettledStatus(outcome[t]) \in Statuses
    BY DEF SettledStatus, Statuses
  <2>2. record' \in Records
    BY <1>0, <1>5, <2>1, BecomeType DEF Settle, TypeOK, Statuses
  <2> QED
    BY <1>5, <2>2 DEF Settle, TypeOK
<1>6. CASE Close(t)
  BY <1>6 DEF Close, TypeOK
<1>7. ASSUME NEW a \in Ledger!Answers, Claimed(t, a) PROVE TypeOK'
  BY <1>7 DEF Claimed, TypeOK, Ledger!Answer
<1> QED
  BY <1>1, <1>2, <1>3, <1>4, <1>5, <1>6, <1>7 DEF Tab

LEMMA WorldType ==
  ASSUME TypeOK, World
  PROVE  TypeOK'
<1> USE DEF claimVars, tabVars, chainVars
<1>1. CASE WalletSends
  BY <1>1 DEF WalletSends, TypeOK
<1>2. CASE RelayLands
  BY <1>2 DEF RelayLands, TypeOK, Authorities
<1>3. CASE WalletRevokes
  BY <1>3 DEF WalletRevokes, TypeOK, Authorities
<1>4. CASE Probe
  BY <1>4 DEF Probe, TypeOK, Probes, Clock
<1>5. CASE Tick
  <2>1. now + 1 \in Times
    BY <1>5, TimeAssumption DEF Tick, TypeOK, Times
  <2> QED
    BY <1>5, <2>1 DEF Tick, TypeOK
<1> QED
  BY <1>1, <1>2, <1>3, <1>4, <1>5 DEF World

LEMMA StepType == TypeOK /\ [Next]_vars => TypeOK'
<1> SUFFICES ASSUME TypeOK, [Next]_vars PROVE TypeOK'
  OBVIOUS
<1>1. CASE UNCHANGED vars
  BY <1>1 DEF vars, claimVars, tabVars, chainVars, TypeOK
<1> QED
  BY <1>1, TabType, ServerType, WorldType DEF Next
-----------------------------------------------------------------------------
(* One claim.                                                              *)

(* All claims are of the one bootstrap, so a second is never recorded. *)
LEMMA ClaimingKept ==
  ASSUME TypeOK, Claiming, [Next]_vars
  PROVE  Claiming'
<1> USE DEF TypeOK, Claiming, claimVars, tabVars
<1>1. CASE Server \/ World \/ UNCHANGED vars
  BY <1>1 DEF Server, BeginProvisioning, ProviderCreates, Provisioned, ProvisioningUnknown,
       Reconcile, BeginCleanup, ProviderDeletes, Cleaned, CleanupFails,
       World, WalletSends, RelayLands, WalletRevokes, Probe, Tick, vars
<1>2. ASSUME NEW t \in Tabs, Submit(t) \/ Respond(t) \/ Settle(t) \/ Close(t)
      PROVE  Claiming'
  BY <1>2 DEF Submit, Respond, Settle, Close
<1>3. ASSUME NEW t \in Tabs, Begin(t) PROVE Claiming'
  <2>1. \A u \in rows : asked'[u] = asked[u]
    BY <1>3 DEF Begin, Ledger!Ask
  <2> QED
    BY <1>3, <2>1 DEF Begin, Ledger!Ask
<1>4. ASSUME NEW t \in Tabs, Claim(t) PROVE Claiming'
  <2>1. \A u \in rows : Ledger!Clash(t, u)
    BY <1>4 DEF Claim, Ledger!Record, Ledger!Clash
  <2>2. rows = {}
    BY <1>4, <2>1 DEF Claim, Ledger!Record
  <2> QED
    BY <1>4, <2>2 DEF Claim, Ledger!Record
<1>5. ASSUME NEW t \in Tabs, NEW a \in Ledger!Answers, Claimed(t, a) PROVE Claiming'
  <2>1. a = "claimed" => t \in rows
    BY <1>5 DEF Claimed, Ledger!Answer, Ledger!True
  <2> QED
    BY <1>5, <2>1 DEF Claimed, Ledger!Answer
<1> QED
  BY <1>1, <1>2, <1>3, <1>4, <1>5 DEF Next, Tab

-----------------------------------------------------------------------------
(* Failures are final.                                                     *)

LEMMA FinalKept ==
  ASSUME TypeOK, Final, [Next]_vars
  PROVE  Final'
<1> USE DEF TypeOK, Final, DeadEnds, chainVars, tabVars, Become, Records
<1>1. CASE Server \/ UNCHANGED vars
  <2>1. UNCHANGED <<outcome, relay>>
    BY <1>1 DEF Server, BeginProvisioning, ProviderCreates, Provisioned, ProvisioningUnknown,
         Reconcile, BeginCleanup, ProviderDeletes, Cleaned, CleanupFails, vars
  <2>2. record' = record \/ record'.status \notin {"grant_rejected", "grant_failed"}
    <3>1. CASE \E p \in probes : Reconcile(p)
      <4>1. PICK p \in probes, at \in TransitionTimes : record' = Reconciled(p, at)
        BY <3>1 DEF Reconcile
      <4> QED
        BY <4>1 DEF Reconciled
    <3>2. CASE BeginProvisioning \/ ProvisioningUnknown \/ BeginCleanup \/ CleanupFails
      BY <3>2 DEF BeginProvisioning, ProvisioningUnknown, BeginCleanup, CleanupFails
    <3>3. CASE Provisioned \/ Cleaned
      BY <3>3 DEF Provisioned, Cleaned
    <3>4. CASE ProviderCreates \/ ProviderDeletes \/ UNCHANGED vars
      BY <3>4 DEF ProviderCreates, ProviderDeletes, vars
    <3> QED
      BY <1>1, <3>1, <3>2, <3>3, <3>4 DEF Server
  <2> QED
    BY <2>1, <2>2
<1>2. CASE World
  BY <1>2 DEF World, WalletSends, RelayLands, WalletRevokes, Probe, Tick
<1>3. ASSUME NEW t \in Tabs, Begin(t) \/ Submit(t) \/ Close(t) PROVE Final'
  BY <1>3 DEF Begin, Submit, Close
<1>4. ASSUME NEW t \in Tabs, Claim(t) PROVE Final'
  BY <1>4 DEF Claim
<1>5. ASSUME NEW t \in Tabs, NEW a \in Ledger!Answers, Claimed(t, a) PROVE Final'
  BY <1>5 DEF Claimed
<1>6. ASSUME NEW t \in Tabs, Respond(t) PROVE Final'
  <2>1. PICK o \in Possible :
          /\ outcome' = [outcome EXCEPT ![t] = o]
          /\ relay' = IF relay = "none" /\ o = "wallet_rejected" THEN "refused" ELSE relay
    BY <1>6 DEF Respond
  <2>2. /\ o = "wallet_rejected" => relay = "none"
        /\ o = "known_failed" => relay = "failed"
    BY DEF Possible
  <2>3. record' = record
    BY <1>6 DEF Respond
  <2> QED
    BY <2>1, <2>2, <2>3
<1>7. ASSUME NEW t \in Tabs, Settle(t) PROVE Final'
  <2>1. UNCHANGED <<outcome, relay>>
    BY <1>7 DEF Settle
  <2>2. /\ record'.status = "grant_rejected" => outcome[t] = "wallet_rejected"
        /\ record'.status = "grant_failed" => outcome[t] = "known_failed"
    BY <1>7 DEF Settle, SettledStatus
  <2> QED
    BY <2>1, <2>2
<1> QED
  BY <1>1, <1>2, <1>3, <1>4, <1>5, <1>6, <1>7 DEF Next, Tab

-----------------------------------------------------------------------------
(* The secret stays.                                                       *)

(* How a step can move the record into the span in which a secret is kept. *)
LEMMA KeptKept ==
  ASSUME TypeOK, Kept, [Next]_vars
  PROVE  Kept'
<1> USE DEF TypeOK, Kept, Provided, Become, Records
<1>1. CASE UNCHANGED <<record, secret>>
  BY <1>1
<1>2. CASE Server
  <2>1. CASE BeginProvisioning
    BY <2>1 DEF BeginProvisioning
  <2>2. CASE ProviderCreates
    BY <2>2 DEF ProviderCreates
  <2>3. CASE Provisioned
    BY <2>3 DEF Provisioned
  <2>4. CASE ProvisioningUnknown
    BY <2>4 DEF ProvisioningUnknown
  <2>5. ASSUME NEW p \in probes, Reconcile(p) PROVE Kept'
    BY <2>5 DEF Reconcile, AwaitingAuthority
  <2>6. CASE BeginCleanup
    BY <2>6 DEF BeginCleanup
  <2>7. CASE ProviderDeletes
    BY <2>7 DEF ProviderDeletes
  <2>8. CASE Cleaned
    BY <2>8 DEF Cleaned
  <2>9. CASE CleanupFails
    BY <2>9 DEF CleanupFails
  <2> QED
    BY <1>2, <2>1, <2>2, <2>3, <2>4, <2>5, <2>6, <2>7, <2>8, <2>9 DEF Server
<1>3. ASSUME NEW t \in Tabs, Tab(t) PROVE Kept'
  <2>1. CASE Claim(t)
    BY <2>1 DEF Claim
  <2>2. CASE Settle(t)
    BY <2>2 DEF Settle
  <2>3. CASE UNCHANGED <<record, secret>>
    BY <2>3
  <2> QED
    BY <1>3, <2>1, <2>2, <2>3 DEF Tab, Begin, Submit, Respond, Close, Claimed
<1>4. CASE World \/ UNCHANGED vars
  BY <1>1, <1>4 DEF World, WalletSends, RelayLands, WalletRevokes, Probe, Tick, vars
<1> QED
  BY <1>2, <1>3, <1>4 DEF Next

(* An enabled record is never changed again. *)
LEMMA EnabledStays ==
  ASSUME TypeOK, [Next]_vars, record.status = "execution_enabled"
  PROVE  record' = record
<1>1. CASE Server
  BY <1>1 DEF Server, BeginProvisioning, ProviderCreates, Provisioned, ProvisioningUnknown,
       Reconcile, AwaitingAuthority, BeginCleanup, MayClean, ProviderDeletes, Cleaned,
       CleanupFails
<1>2. ASSUME NEW t \in Tabs, Tab(t) PROVE record' = record
  BY <1>2 DEF Tab, Begin, Submit, Respond, Close, Claimed, Claim, Settle
<1>3. CASE World \/ UNCHANGED vars
  BY <1>3 DEF World, WalletSends, RelayLands, WalletRevokes, Probe, Tick, vars
<1> QED
  BY <1>1, <1>2, <1>3 DEF Next

-----------------------------------------------------------------------------
(* Observations are recent.                                                *)

LEMMA ObservedKept ==
  ASSUME TypeOK, Observed, [Next]_vars
  PROVE  Observed'
<1> USE TimeAssumption DEF TypeOK, Observed, Times, Never, Authorities, chainVars
<1>1. CASE UNCHANGED <<now, authority, lastExact, probes>>
  BY <1>1
<1>2. CASE Server \/ UNCHANGED vars
  BY <1>1, <1>2 DEF Server, BeginProvisioning, ProviderCreates, Provisioned,
       ProvisioningUnknown, Reconcile, BeginCleanup, ProviderDeletes, Cleaned,
       CleanupFails, vars
<1>3. ASSUME NEW t \in Tabs, Tab(t) PROVE Observed'
  BY <1>1, <1>3 DEF Tab, Begin, Submit, Respond, Close, Claimed, Claim, Settle
<1>4. CASE WalletSends
  BY <1>1, <1>4 DEF WalletSends
<1>5. CASE RelayLands
  BY <1>5 DEF RelayLands, Probes
<1>6. CASE WalletRevokes
  BY <1>6 DEF WalletRevokes
<1>7. CASE Probe
  <2>1. PICK seen \in {authority, "unavailable"}, at \in Clock :
          probes' = probes \cup {[seen |-> seen, at |-> at]}
    BY <1>7 DEF Probe
  <2>2. UNCHANGED <<now, authority, lastExact>>
    BY <1>7 DEF Probe
  <2>3. seen = "exact" => lastExact = now /\ lastExact >= at - Skew
    BY <2>1 DEF Clock
  <2> QED
    BY <2>1, <2>2, <2>3
<1>8. CASE Tick
  BY <1>8 DEF Tick, Probes
<1> QED
  BY <1>2, <1>3, <1>4, <1>5, <1>6, <1>7, <1>8 DEF Next, World

(* What enables a session. *)
LEMMA Enabling ==
  ASSUME TypeOK, [Next]_vars, record'.status = "execution_enabled",
         record.status # "execution_enabled"
  PROVE  /\ record.status \in {"authority_pending", "grant_outcome_unknown"}
         /\ secret' = secret
         /\ \E p \in probes, at \in Clock :
              at < Expiry /\ ~Untimely(p, at) /\ Fresh(p, at) /\ p.seen = "exact"
<1> USE DEF TypeOK, Records, Become
<1>1. ASSUME NEW p \in probes, Reconcile(p)
      PROVE  /\ record.status \in {"authority_pending", "grant_outcome_unknown"}
             /\ secret' = secret
             /\ \E q \in probes, at \in Clock :
                  at < Expiry /\ ~Untimely(q, at) /\ Fresh(q, at) /\ q.seen = "exact"
  <2>1. PICK at \in TransitionTimes : record' = Reconciled(p, at)
    BY <1>1 DEF Reconcile
  <2>2. at < Expiry /\ ~Untimely(p, at) /\ Fresh(p, at) /\ p.seen = "exact"
    BY <2>1 DEF Reconciled
  <2> QED
    BY <1>1, <2>2 DEF Reconcile, AwaitingAuthority, TransitionTimes
<1>2. ASSUME NEW t \in Tabs, Tab(t) PROVE FALSE
  <2>1. CASE Claim(t)
    BY <2>1 DEF Claim
  <2>2. CASE Settle(t)
    BY <2>2 DEF Settle, SettledStatus
  <2> QED
    BY <1>2, <2>1, <2>2 DEF Tab, Begin, Submit, Respond, Close, Claimed
<1>3. CASE World \/ UNCHANGED vars
  BY <1>3 DEF World, WalletSends, RelayLands, WalletRevokes, Probe, Tick, vars
<1>4. CASE BeginProvisioning \/ ProviderCreates \/ Provisioned \/ ProvisioningUnknown
             \/ BeginCleanup \/ ProviderDeletes \/ Cleaned \/ CleanupFails
  BY <1>4 DEF BeginProvisioning, ProviderCreates, Provisioned, ProvisioningUnknown,
       BeginCleanup, ProviderDeletes, Cleaned, CleanupFails
<1> QED
  BY <1>1, <1>2, <1>3, <1>4 DEF Next, Server

-----------------------------------------------------------------------------
(* The invariant and what follows from it.                                 *)

LEMMA InitInv == Init => IInv
<1> SUFFICES ASSUME Init PROVE IInv
  OBVIOUS
<1>1. Claiming /\ Final /\ Kept
  BY DEF Init, Ledger!Init, Claiming, Final, DeadEnds, Kept, Provided
<1>2. Observed
  BY DEF Init, Observed, Never, IssuedAt
<1> QED
  BY <1>1, <1>2, InitType DEF IInv

LEMMA StepInv == IInv /\ [Next]_vars => IInv'
BY StepType, ClaimingKept, FinalKept, KeptKept, ObservedKept DEF IInv

(* Every reachable state is well typed and satisfies the invariant.        *)
THEOREM TypeCorrect == Spec => [](TypeOK /\ IInv)
<1>1. IInv => TypeOK
  BY DEF IInv
<1> QED
  BY <1>1, InitInv, StepInv, PTL DEF Spec

(* However many tabs submit, reload or lose the claim's answer, the SDK is *)
(* asked for one grant at most, and only for the recorded claim.           *)
THEOREM AtMostOneGrantHolds == Spec => []AtMostOneGrant
<1>1. IInv => AtMostOneGrant
  BY DEF IInv, Claiming, AtMostOneGrant
<1> QED
  BY <1>1, InitInv, StepInv, PTL DEF Spec

(* A grant that the record calls rejected or failed never lands.           *)
THEOREM DeadEndsHolds == Spec => []DeadEnds
<1>1. IInv => DeadEnds
  BY DEF IInv, Final
<1> QED
  BY <1>1, InitInv, StepInv, PTL DEF Spec

(* The secret of a session that is enabled is there, and cleanup never     *)
(* touches the record of an enabled session.                               *)
THEOREM SecretKeptHolds == Spec => SecretKept
<1>1. ASSUME IInv, [Next]_vars
      PROVE  /\ record'.status = "execution_enabled" => secret' = "kept"
             /\ record.status = "execution_enabled" => record' = record
  <2>1. Kept'
    BY <1>1, KeptKept DEF IInv
  <2> QED
    BY <1>1, <2>1, EnabledStays DEF IInv, Kept, Provided
<1> QED
  BY <1>1, InitInv, StepInv, PTL DEF Spec, SecretKept

(* A session is enabled only by authority that was exact on the chain no   *)
(* longer ago than the age limit and twice the clocks' disagreement.       *)
THEOREM EnabledTruthHolds == Spec => EnabledTruth
<1>1. ASSUME IInv, [Next]_vars, record'.status = "execution_enabled",
             record.status # "execution_enabled"
      PROVE  lastExact # Never /\ lastExact >= now - MaxAge - 2 * Skew
  <2>1. PICK p \in probes, at \in Clock : Fresh(p, at) /\ p.seen = "exact"
    BY <1>1, Enabling DEF IInv
  <2>2. lastExact # Never /\ lastExact >= p.at - Skew
    BY <1>1, <2>1 DEF IInv, Observed
  <2>3. p.at >= at - MaxAge /\ at >= now - Skew
    BY <1>1, <2>1, TimeAssumption DEF IInv, TypeOK, Probes, Fresh, Clock, Times
  <2> QED
    BY <1>1, <2>1, <2>2, <2>3, TimeAssumption DEF IInv, TypeOK, Probes, Clock, Times, Never
<1> QED
  BY <1>1, InitInv, StepInv, PTL DEF Spec, EnabledTruth

-----------------------------------------------------------------------------
(* The newest observation decides, while clocks agree.                     *)

LEMMA RememberedKept ==
  ASSUME TypeOK, Remembered, [Next]_vars, Skew = 0
  PROVE  Remembered'
<1> USE DEF Remembered
<1>0. \A at \in Clock : at = now
  BY TimeAssumption DEF Clock, TypeOK, Times
<1>1. CASE UNCHANGED <<now, record, probes, newest>>
  BY <1>1
<1>2. ASSUME UNCHANGED <<now, probes, newest>>, record'.status \in Over
      PROVE  Remembered'
  BY <1>2 DEF Over
<1>3. ASSUME UNCHANGED <<now, probes, newest>>, record'.observedAt = record.observedAt,
             record.status \notin Over \cup {"authority_pending", "execution_enabled"}
      PROVE  Remembered'
  BY <1>3
<1>4. CASE Server
  <2> USE DEF TypeOK, Records, Become
  <2>1. CASE BeginProvisioning \/ ProvisioningUnknown \/ Provisioned
    BY <1>3, <2>1 DEF BeginProvisioning, ProvisioningUnknown, Provisioned, Over
  <2>2. CASE BeginCleanup \/ CleanupFails \/ Cleaned
    BY <1>2, <2>2 DEF BeginCleanup, CleanupFails, Cleaned, Over
  <2>3. CASE ProviderCreates \/ ProviderDeletes
    BY <1>1, <2>3 DEF ProviderCreates, ProviderDeletes
  <2>4. ASSUME NEW p \in probes, Reconcile(p) PROVE Remembered'
    <3>1. p \in Probes /\ p.at \in Nat /\ p.at >= IssuedAt /\ p.at <= now /\ now \in Nat
      BY DEF Probes, Times
    <3>2. ~Untimely(p, now)
      BY <3>1 DEF Untimely, IssuedAt
    <3>3. /\ record' = Reconciled(p, now)
          /\ newest' = IF now < Expiry /\ p.at > newest THEN p.at ELSE newest
          /\ UNCHANGED <<now, probes>>
      BY <1>0, <2>4, <3>2 DEF Reconcile, TransitionTimes
    <3>4. newest \in Times \cup {Never} /\ record.observedAt = newest
      BY <2>4 DEF Reconcile, AwaitingAuthority, Over
    <3>5. CASE now >= Expiry
      <4>1. ~(now < Expiry)
        BY <3>1, <3>5, TimeAssumption DEF Times
      <4>2. record'.status = "grant_expired"
        BY <3>3, <3>5, <4>1 DEF Reconciled
      <4> QED
        BY <1>2, <3>3, <4>1, <4>2 DEF Over
    <3>6. CASE now < Expiry /\ Outdated(p)
      <4>1. ~(p.at > newest)
        BY <3>1, <3>4, <3>6 DEF Outdated, Times, Never
      <4>2. ~(now >= Expiry)
        BY <3>1, <3>6, TimeAssumption DEF Times
      <4>3. /\ record'.status = "authority_pending"
            /\ record'.observedAt = record.observedAt
        BY <3>2, <3>3, <3>6, <4>2 DEF Reconciled
      <4> QED
        BY <3>3, <3>4, <4>1, <4>3
    <3>7. CASE now < Expiry /\ ~Outdated(p)
      <4>1. p.at > newest
        BY <2>4, <3>1, <3>4, <3>7 DEF Reconcile, AwaitingAuthority, Outdated, Times, Never, Over
      <4>2. ~(now >= Expiry)
        BY <3>1, <3>7, TimeAssumption DEF Times
      <4>3. /\ record'.status \in {"authority_pending", "execution_enabled"}
            /\ record'.observedAt = p.at
        BY <3>2, <3>3, <3>7, <4>2 DEF Reconciled
      <4> QED
        BY <3>3, <3>7, <4>1, <4>3
    <3> QED
      BY <3>1, <3>5, <3>6, <3>7, TimeAssumption DEF Times
  <2> QED
    BY <1>4, <2>1, <2>2, <2>3, <2>4 DEF Server
<1>5. ASSUME NEW t \in Tabs, Tab(t) PROVE Remembered'
  <2>1. CASE Claim(t)
    BY <1>1, <1>3, <2>1 DEF Claim, TypeOK, Records, Over
  <2>2. CASE Settle(t)
    BY <1>3, <2>2 DEF Settle, Become, TypeOK, Records, Over
  <2>3. CASE UNCHANGED <<now, record, probes, newest>>
    BY <1>1, <2>3
  <2> QED
    BY <1>5, <2>1, <2>2, <2>3 DEF Tab, Begin, Submit, Respond, Close, Claimed
<1>6. CASE WalletSends \/ RelayLands \/ WalletRevokes \/ UNCHANGED vars
  BY <1>1, <1>6 DEF WalletSends, RelayLands, WalletRevokes, vars
<1>7. CASE Probe
  BY <1>0, <1>7 DEF Probe, TypeOK, Times
<1>8. CASE Tick
  BY <1>8 DEF Tick, TypeOK, Times, Probes, IssuedAt
<1> QED
  BY <1>4, <1>5, <1>6, <1>7, <1>8 DEF Next, World

(* While clocks agree, what enables a session is the newest observation    *)
(* that was reconciled.                                                    *)
THEOREM NewerWinsHolds ==
  ASSUME Skew = 0
  PROVE  Spec => []NewerWins
<1>1. ASSUME Init PROVE TypeOK /\ Remembered
  <2>1. TypeOK
    BY <1>1, InitType
  <2> QED
    BY <1>1, <2>1 DEF Init, Remembered, IssuedAt
<1>2. TypeOK /\ Remembered /\ [Next]_vars => TypeOK' /\ Remembered'
  BY StepType, RememberedKept
<1>3. Remembered => NewerWins
  BY DEF Remembered, NewerWins
<1> QED
  BY <1>1, <1>2, <1>3, PTL DEF Spec

-----------------------------------------------------------------------------
(* A session is enabled by its own grant, and the tabs are clients of the  *)
(* claim store's register.                                                 *)

LEMMA OriginKept ==
  ASSUME TypeOK, Origin, [Next]_vars
  PROVE  Origin'
<1> USE DEF TypeOK, chainVars, tabVars
<1>1. record'.status = "execution_enabled" => relay = "landed"
  <2>1. CASE record.status = "execution_enabled"
    BY <2>1 DEF Origin
  <2>2. CASE record.status # "execution_enabled"
    BY <2>2, Enabling DEF Origin
  <2> QED
    BY <2>1, <2>2
<1>2. ASSUME UNCHANGED <<relay, authority, probes>>, granted \subseteq granted'
      PROVE  Origin'
  BY <1>1, <1>2 DEF Origin
<1>3. CASE Server \/ UNCHANGED vars
  BY <1>2, <1>3 DEF Server, BeginProvisioning, ProviderCreates, Provisioned,
       ProvisioningUnknown, Reconcile, BeginCleanup, ProviderDeletes, Cleaned,
       CleanupFails, vars
<1>4. ASSUME NEW t \in Tabs, Begin(t) \/ Submit(t) \/ Claim(t) \/ Settle(t) \/ Close(t)
                               \/ \E a \in Ledger!Answers : Claimed(t, a)
      PROVE  Origin'
  BY <1>2, <1>4 DEF Begin, Submit, Claim, Settle, Close, Claimed
<1>5. ASSUME NEW t \in Tabs, Respond(t) PROVE Origin'
  <2>1. relay' = relay \/ (relay = "none" /\ relay' = "refused")
    BY <1>5 DEF Respond
  <2>2. UNCHANGED <<authority, probes, granted>>
    BY <1>5 DEF Respond
  <2> QED
    BY <1>1, <2>1, <2>2 DEF Origin
<1>6. CASE WalletSends
  BY <1>1, <1>6 DEF WalletSends, Origin
<1>7. CASE RelayLands
  BY <1>1, <1>7 DEF RelayLands, Origin
<1>8. CASE WalletRevokes
  BY <1>1, <1>8 DEF WalletRevokes, Origin
<1>9. CASE Probe
  <2>1. PICK seen \in {authority, "unavailable"}, at \in Clock :
          probes' = probes \cup {[seen |-> seen, at |-> at]}
    BY <1>9 DEF Probe
  <2>2. UNCHANGED <<relay, authority, granted>>
    BY <1>9 DEF Probe
  <2> QED
    BY <1>1, <2>1, <2>2 DEF Origin
<1>10. CASE Tick
  BY <1>2, <1>10 DEF Tick
<1> QED
  BY <1>3, <1>4, <1>5, <1>6, <1>7, <1>8, <1>9, <1>10 DEF Next, Tab, World

(* Whatever probes see and however many tabs race, a session is enabled    *)
(* only by the landed grant of the one tab whose claim is recorded         *)
(* (AltanaGrant!EnabledByClaim).                                           *)
THEOREM EnabledByClaimHolds == Spec => []EnabledByClaim
<1>1. Init => Origin
  BY DEF Init, Origin
<1>2. IInv /\ Origin /\ [Next]_vars => Origin'
  BY OriginKept DEF IInv
<1>3. IInv /\ Origin => EnabledByClaim
  BY DEF IInv, Claiming, Origin, EnabledByClaim
<1> QED
  BY <1>1, <1>2, <1>3, InitInv, StepInv, PTL DEF Spec

(* The tabs ask the claim store, and are answered, only as its register    *)
(* allows: the register is the whole of what they rely on, and             *)
(* AltanaClaimProofs!RegisterImplemented shows that the transaction        *)
(* provides it.                                                            *)
THEOREM LedgerUsed == Spec => Ledger!Spec
<1>1. Init => Ledger!Init
  BY DEF Init
<1>2. ASSUME TypeOK, [Next]_vars PROVE Ledger!Next \/ UNCHANGED Ledger!vars
  <2> USE DEF Ledger!vars, claimVars
  <2>1. CASE Server \/ World \/ UNCHANGED vars
    BY <2>1 DEF Server, BeginProvisioning, ProviderCreates, Provisioned,
         ProvisioningUnknown, Reconcile, BeginCleanup, ProviderDeletes, Cleaned,
         CleanupFails, World, WalletSends, RelayLands, WalletRevokes, Probe, Tick, vars
  <2>2. ASSUME NEW t \in Tabs, Submit(t) \/ Respond(t) \/ Settle(t) \/ Close(t)
        PROVE  UNCHANGED Ledger!vars
    BY <2>2 DEF Submit, Respond, Settle, Close
  <2>3. ASSUME NEW t \in Tabs, Begin(t) PROVE Ledger!Next
    <3>1. PICK at \in TransitionTimes : Ledger!Ask(t, at)
      BY <2>3 DEF Begin
    <3> QED
      BY <3>1 DEF Ledger!Next, TransitionTimes, Clock
  <2>4. ASSUME NEW t \in Tabs, Claim(t) PROVE Ledger!Next
    BY <2>4 DEF Claim, Ledger!Next
  <2>5. ASSUME NEW t \in Tabs, NEW a \in Ledger!Answers, Claimed(t, a) PROVE Ledger!Next
    BY <2>5 DEF Claimed, Ledger!Next
  <2> QED
    BY <1>2, <2>1, <2>2, <2>3, <2>4, <2>5 DEF Next, Tab
<1>3. TypeOK /\ [Next]_vars => [Ledger!Next]_Ledger!vars
  BY <1>2
<1>4. IInv => TypeOK
  BY DEF IInv
<1> QED
  BY <1>1, <1>3, <1>4, InitInv, StepInv, PTL DEF Spec, Ledger!Spec

-----------------------------------------------------------------------------
(* What a disagreement of clocks can do, and what it cannot.               *)

LEMMA ReconcileCases ==
  ASSUME TypeOK, NEW p \in probes, Reconcile(p)
  PROVE  /\ \/ record'.status = "grant_expired" /\ record'.observedAt = record.observedAt
            \/ /\ record'.status \in {"authority_pending", "execution_enabled"}
               /\ \/ Untimely(p, record'.updatedAt)
                  \/ record'.observedAt = record.observedAt
                  \/ ~Outdated(p) /\ record'.observedAt = p.at
<1>1. PICK at \in TransitionTimes : record' = Reconciled(p, at)
  BY DEF Reconcile
<1>2. record \in Records /\ at \in Times
  BY <1>1 DEF TypeOK, TransitionTimes, Clock
<1>3. CASE at >= Expiry
  BY <1>1, <1>2, <1>3 DEF Reconciled, Records
<1>4. CASE ~(at >= Expiry)
  <2>1. at < Expiry
    BY <1>2, <1>4, TimeAssumption DEF Times
  <2>2. record'.updatedAt = at /\ record'.status \in {"authority_pending", "execution_enabled"}
    BY <1>1, <1>2, <1>4, <2>1 DEF Reconciled, Records
  <2>3. Untimely(p, at) \/ record'.observedAt = record.observedAt
          \/ (~Outdated(p) /\ record'.observedAt = p.at)
    BY <1>1, <1>2, <1>4, <2>1 DEF Reconciled, Records
  <2> QED
    BY <2>2, <2>3
<1> QED
  BY <1>3, <1>4

LEMMA UnobservedKept ==
  ASSUME TypeOK, Unobserved, [Next]_vars
  PROVE  /\ Unobserved'
         /\ \/ record'.observedAt = record.observedAt
            \/ \E p \in probes : Reconcile(p)
<1> USE DEF TypeOK, Records, Become, Unobserved
<1>1. ASSUME NEW p \in probes, Reconcile(p) PROVE Unobserved'
  BY <1>1, ReconcileCases DEF Over
<1>2. CASE BeginProvisioning \/ ProvisioningUnknown \/ Provisioned
  BY <1>2 DEF BeginProvisioning, ProvisioningUnknown, Provisioned, Over
<1>3. CASE BeginCleanup \/ CleanupFails \/ Cleaned
  BY <1>3 DEF BeginCleanup, CleanupFails, Cleaned, Over
<1>4. CASE ProviderCreates \/ ProviderDeletes \/ World \/ UNCHANGED vars
  BY <1>4 DEF ProviderCreates, ProviderDeletes, World, WalletSends, RelayLands, WalletRevokes,
       Probe, Tick, vars
<1>5. ASSUME NEW t \in Tabs, Claim(t)
      PROVE  Unobserved' /\ record'.observedAt = record.observedAt
  BY <1>5 DEF Claim, Over
<1>6. ASSUME NEW t \in Tabs, Settle(t)
      PROVE  Unobserved' /\ record'.observedAt = record.observedAt
  BY <1>6 DEF Settle, Over
<1>7. ASSUME NEW t \in Tabs, \/ Begin(t) \/ Submit(t) \/ Respond(t) \/ Close(t)
                             \/ \E a \in Ledger!Answers : Claimed(t, a)
      PROVE  Unobserved' /\ record'.observedAt = record.observedAt
  BY <1>7 DEF Begin, Submit, Respond, Close, Claimed
<1> QED
  BY <1>1, <1>2, <1>3, <1>4, <1>5, <1>6, <1>7 DEF Next, Server, Tab

(* With any disagreement of clocks, only an observation that is dated in   *)
(* the future or before issuance makes the record forget a newer one       *)
(* (AltanaGrant!OnlyUntimelyRewinds); NewerWins fails in no other way.     *)
THEOREM OnlyUntimelyRewindsHolds == Spec => OnlyUntimelyRewinds
<1> DEFINE Rewound == record'.observedAt < record.observedAt =>
                        \E p \in probes : Reconcile(p) /\ Untimely(p, record'.updatedAt)
<1>1. ASSUME TypeOK, Unobserved, [Next]_vars PROVE Rewound
  <2>1. record.observedAt \in Times \cup {Never}
    BY <1>1 DEF TypeOK, Records
  <2>2. CASE record'.observedAt = record.observedAt
    BY <2>1, <2>2 DEF Times, Never
  <2>3. ASSUME NEW p \in probes, Reconcile(p) PROVE Rewound
    <3>1. CASE Untimely(p, record'.updatedAt)
      BY <2>3, <3>1
    <3>2. CASE ~Outdated(p) /\ record'.observedAt = p.at
      <4>1. p.at \in Times
        BY <1>1 DEF TypeOK, Probes
      <4>2. record.status = "authority_pending" \/ record.observedAt = Never
        BY <1>1, <2>3 DEF Reconcile, AwaitingAuthority, Unobserved, Over
      <4> QED
        BY <2>1, <3>2, <4>1, <4>2 DEF Outdated, Times, Never
    <3> QED
      BY <1>1, <2>2, <2>3, <3>1, <3>2, ReconcileCases
  <2> QED
    BY <1>1, <2>2, <2>3, UnobservedKept
<1>2. Init => Unobserved
  BY DEF Init, Unobserved
<1>3. TypeOK /\ Unobserved /\ [Next]_vars => Unobserved'
  BY UnobservedKept
<1>4. TypeOK /\ Unobserved /\ [Next]_vars =>
        [record'.observedAt < record.observedAt =>
           \E p \in probes : Reconcile(p) /\ Untimely(p, record'.updatedAt)]_vars
  BY <1>1
<1>5. IInv => TypeOK
  BY DEF IInv
<1> QED
  BY <1>2, <1>3, <1>4, <1>5, InitInv, StepInv, PTL DEF Spec, OnlyUntimelyRewinds
=============================================================================
