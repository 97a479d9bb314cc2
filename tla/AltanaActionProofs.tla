------------------------- MODULE AltanaActionProofs -------------------------
(***************************************************************************)
(* Proofs about the test action, for any number of workers and tabs, any   *)
(* calls the relay accepts and any pair of endpoints of which one is       *)
(* honest, as long as what is written to the disk stays there.             *)
(***************************************************************************)
EXTENDS AltanaActionInv, TLAPS

-----------------------------------------------------------------------------
(* The steps of the outside and of the callers, by what they do to the     *)
(* calls.                                                                  *)

LEMMA AcceptedCall ==
  ASSUME NetTypeOK, NEW kind \in {"grant", "execute", "revoke"}, NEW c \in Callers,
         Accept(kind, c)
  PROVE  /\ calls' \in Seq(Call)
         /\ Len(calls') = Len(calls) + 1
         /\ DOMAIN calls' = DOMAIN calls \cup {Len(calls) + 1}
         /\ Len(calls) + 1 \notin DOMAIN calls
         /\ \A i \in DOMAIN calls : calls'[i] = calls[i]
         /\ calls'[Len(calls) + 1] = [kind |-> kind, by |-> c, st |-> "pending"]
BY DEF NetTypeOK, Accept, Call

(* The calls only grow, and a call that landed or failed stays so. *)
Grows ==
  /\ DOMAIN calls \subseteq DOMAIN calls'
  /\ \A i \in DOMAIN calls :
       /\ calls'[i].kind = calls[i].kind /\ calls'[i].by = calls[i].by
       /\ calls[i].st # "pending" => calls'[i].st = calls[i].st

LEMMA AcceptedOf ==
  ASSUME NetTypeOK, NEW kind \in {"grant", "execute", "revoke"}, NEW c \in Callers,
         Accept(kind, c)
  PROVE  /\ Grows
         /\ Of(kind)' = Of(kind) \cup {Len(calls) + 1}
         /\ \A k \in {"grant", "execute", "revoke"} : k # kind => Of(k)' = Of(k)
<1> DEFINE n == Len(calls) + 1
<1>1. /\ DOMAIN calls' = DOMAIN calls \cup {n}
      /\ n \notin DOMAIN calls
      /\ \A i \in DOMAIN calls : calls'[i] = calls[i]
      /\ calls'[n] = [kind |-> kind, by |-> c, st |-> "pending"]
  BY AcceptedCall
<1> HIDE DEF n
<1>2. Grows
  BY <1>1 DEF Grows
<1>3. Of(kind)' = Of(kind) \cup {n}
  BY <1>1 DEF Of
<1>4. \A k \in {"grant", "execute", "revoke"} : k # kind => Of(k)' = Of(k)
  BY <1>1 DEF Of
<1> QED
  BY <1>2, <1>3, <1>4 DEF n

LEMMA OutsideType == NetTypeOK /\ Outside => NetTypeOK'
<1> SUFFICES ASSUME NetTypeOK, Outside PROVE NetTypeOK'
  OBVIOUS
<1>1. ASSUME NEW i \in DOMAIN calls, NEW st \in {"landed", "failed"},
             calls' = [calls EXCEPT ![i].st = st]
      PROVE  calls' \in Seq(Call)
  <2>1. calls[i] \in Call
    BY DEF NetTypeOK
  <2>2. [calls[i] EXCEPT !.st = st] \in Call
    BY <2>1 DEF Call
  <2>3. calls' = [calls EXCEPT ![i] = [calls[i] EXCEPT !.st = st]]
    BY <1>1
  <2> QED
    BY <2>2, <2>3 DEF NetTypeOK
<1>2. CASE \E i \in DOMAIN calls : Land(i) \/ Fall(i)
  <2>1. calls' \in Seq(Call)
    BY <1>1, <1>2 DEF Land, Fall
  <2>2. authority' \in Authority /\ UNCHANGED view
    BY <1>2 DEF NetTypeOK, Land, Fall, Authority
  <2> QED
    BY <2>1, <2>2 DEF NetTypeOK
<1>3. CASE Lapse
  BY <1>3 DEF NetTypeOK, Lapse, Authority
<1>4. CASE \E p \in Honest : CatchUp(p)
  BY <1>4 DEF NetTypeOK, CatchUp
<1> QED
  BY <1>2, <1>3, <1>4 DEF Outside

LEMMA OutsideOf ==
  ASSUME NetTypeOK, Outside
  PROVE  Grows /\ (\A k : Of(k)' = Of(k))
<1>1. CASE \E i \in DOMAIN calls : Land(i) \/ Fall(i)
  <2>1. PICK i \in DOMAIN calls : Land(i) \/ Fall(i)
    BY <1>1
  <2>2. \E st \in {"landed", "failed"} : calls' = [calls EXCEPT ![i].st = st]
    BY <2>1 DEF Land, Fall
  <2>3. calls[i].st = "pending"
    BY <2>1 DEF Land, Fall
  <2>4. DOMAIN calls' = DOMAIN calls
    BY <2>2 DEF NetTypeOK
  <2>5. \A j \in DOMAIN calls :
          /\ calls'[j].kind = calls[j].kind /\ calls'[j].by = calls[j].by
          /\ calls[j].st # "pending" => calls'[j].st = calls[j].st
    BY <2>2, <2>3 DEF NetTypeOK, Call
  <2> QED
    BY <2>4, <2>5 DEF Grows, Of
<1>2. CASE Lapse \/ \E p \in Honest : CatchUp(p)
  BY <1>2 DEF Lapse, CatchUp, Grows, Of
<1> QED
  BY <1>1, <1>2 DEF Outside

-----------------------------------------------------------------------------
(* Type correctness.                                                       *)

LEMMA InitType == Init => TypeOK
BY DEF Init, TypeOK, NetInit, NetTypeOK, Authority, WorkerInit, WorkerTypeOK, NoFile, File,
       Names, Statuses, Places, CeremonyTypeOK, Operation

(* While only one execution was sent, it is the one of its sender. *)
LEMMA MineTyped ==
  ASSUME NetTypeOK, SubmitsOnce, NEW w \in Workers, \E i \in Of("execute") : calls[i].by = w
  PROVE  Mine(w) \in Of("execute") /\ calls[Mine(w)].by = w
<1>1. PICK i \in Of("execute") : calls[i].by = w
  OBVIOUS
<1>2. i \in Nat
  BY DEF NetTypeOK, Of
<1>3. \A j \in Of("execute") : calls[j].by = w => j <= i
  BY <1>1, <1>2 DEF SubmitsOnce
<1> QED
  BY <1>1, <1>3 DEF Mine

Ownerless == \A w \in Workers : place[w] = "submission" => \E i \in Of("execute") : calls[i].by = w

LEMMA SubmissionTyped ==
  ASSUME NetTypeOK, SubmitsOnce, Ownerless, NEW w \in Workers, place[w] = "submission"
  PROVE  Mine(w) \in Nat
<1>1. \E i \in Of("execute") : calls[i].by = w
  BY DEF Ownerless
<1>2. Mine(w) \in Of("execute")
  BY <1>1, MineTyped
<1> QED
  BY <1>2 DEF NetTypeOK, Of

LEMMA WorkerType ==
  ASSUME TypeOK, SubmitsOnce, Ownerless,
         NEW w \in Workers, Turn(w) \/ Throw(w) \/ Crash(w)
  PROVE  NetTypeOK' /\ WorkerTypeOK'
<1> USE DEF TypeOK, WorkerTypeOK, Move, Goto, Report, EndTurn, netVars
<1>2. CASE ReadFiles(w)
  BY <1>2 DEF ReadFiles, NetTypeOK, Places
<1>3. CASE ObserveReceipt(w) \/ ObserveSubmission(w) \/ ObserveClaim(w) \/ ObserveKey(w)
             \/ ObserveNoKey(w)
  BY <1>3 DEF ObserveReceipt, ObserveSubmission, ObserveClaim, ObserveKey, ObserveNoKey,
              Observe, NetTypeOK, Places, Statuses
<1>4. CASE Claim(w)
  BY <1>4 DEF Claim, CreateOnly, NetTypeOK, Places, File, Names
<1>5. CASE WriteClaim(w)
  BY <1>5 DEF WriteClaim, Write, NetTypeOK, Places, File, Names
<1>6. CASE Announce(w)
  BY <1>6 DEF Announce, NetTypeOK, Places, Statuses
<1>8. CASE Execute(w)
  <2>1. w \in Callers
    BY WorkersAssumption
  <2>2. calls' \in Seq(Call)
    BY <1>8, <2>1, AcceptedCall DEF Execute
  <2> QED
    BY <1>8, <2>2 DEF Execute, NetTypeOK, Places, Statuses
<1>9. CASE Submission(w)
  <2>1. Mine(w) \in Nat
    BY <1>9, SubmissionTyped DEF Submission, CreateOnly
  <2> QED
    BY <1>9, <2>1 DEF Submission, CreateOnly, NetTypeOK, Places, File, Names
<1>10. CASE WriteSubmission(w)
  BY <1>10 DEF WriteSubmission, NetTypeOK, Places, Statuses, File, Names
<1>11. CASE Relay(w)
  BY <1>11 DEF Relay, NetTypeOK, Places, Statuses
<1>12. CASE Receipts(w) \/ NoReceipts(w)
  BY <1>12 DEF Receipts, NoReceipts, NetTypeOK, Places, Statuses
<1>13. CASE Receipt(w)
  BY <1>13 DEF Receipt, CreateOnly, Pursued, NetTypeOK, Places, File, Names
<1>14. CASE WriteReceipt(w)
  BY <1>14 DEF WriteReceipt, NetTypeOK, Places, Statuses, File, Names
<1>15. CASE Publish(w) \/ Throw(w)
  <2>1. published' \in [status : Statuses \cup {"none"}, present : {"yes", "no", "unknown"}]
    BY <1>15 DEF Publish, Throw, Statuses
  <2> QED
    BY <1>15, <2>1 DEF Publish, Throw, NetTypeOK, Places, Statuses
<1>16. CASE Crash(w)
  BY <1>16 DEF Crash, NetTypeOK, Places, Statuses
<1> QED
  BY <1>2, <1>3, <1>4, <1>5, <1>6, <1>8, <1>9, <1>10, <1>11, <1>12, <1>13, <1>14,
     <1>15, <1>16 DEF Turn

(* The steps of a tab that call nothing. *)
QuietTab(t) ==
  \/ Grant(t) \/ GrantCancelled(t) \/ GrantReturns(t) \/ GrantThrows(t)
  \/ Revoke(t) \/ RevokeCancelled(t) \/ RevokeReturns(t) \/ RevokeThrows(t)
  \/ Refresh(t) \/ Render(t) \/ Reload(t)

LEMMA OwnerSteps ==
  ASSUME NEW t \in Tabs, Owner(t)
  PROVE  QuietTab(t) \/ SendGrant(t) \/ SendRevoke(t)
BY DEF Owner, QuietTab

LEMMA QuietNet ==
  ASSUME NEW t \in Tabs, QuietTab(t)
  PROVE  UNCHANGED <<netVars, workerVars>>
BY DEF QuietTab, Grant, GrantCancelled, GrantReturns, GrantThrows, Revoke, RevokeCancelled,
       RevokeReturns, RevokeThrows, Refresh, Render, Reload

LEMMA NewestNat ==
  ASSUME NetTypeOK, NEW kind, NEW t
  PROVE  Newest(kind, t) \subseteq Nat
BY DEF NetTypeOK, Newest, Of

LEMMA SendNet ==
  ASSUME NEW t \in Tabs, SendGrant(t) \/ SendRevoke(t), NetTypeOK
  PROVE  /\ UNCHANGED <<authority, view, workerVars>>
         /\ t \in Callers
         /\ Grows
         /\ Of("execute")' = Of("execute")
<1>1. t \in Callers
  BY TabsAssumption
<1>2. CASE SendGrant(t)
  BY <1>1, <1>2, AcceptedOf DEF SendGrant
<1>3. CASE SendRevoke(t)
  BY <1>1, <1>3, AcceptedOf DEF SendRevoke
<1> QED
  BY <1>1, <1>2, <1>3

LEMMA TabType ==
  ASSUME TypeOK, NEW t \in Tabs, Owner(t)
  PROVE  NetTypeOK' /\ CeremonyTypeOK'
<1>1. CASE QuietTab(t)
  <2>1. NetTypeOK'
    BY <1>1, QuietNet DEF TypeOK, NetTypeOK, netVars
  <2> SUFFICES CeremonyTypeOK'
    BY <2>1
  <2> USE DEF TypeOK, CeremonyTypeOK, Retain, Turns, Forget, Operation
  <2>2. CASE Grant(t)
    BY <2>2 DEF Grant
  <2>3. CASE GrantCancelled(t)
    BY <2>3, NewestNat DEF GrantCancelled, UserRejection
  <2>4. CASE GrantReturns(t)
    BY <2>4 DEF GrantReturns
  <2>5. CASE GrantThrows(t)
    BY <2>5 DEF GrantThrows
  <2>6. CASE Revoke(t)
    BY <2>6 DEF Revoke
  <2>7. CASE RevokeCancelled(t)
    BY <2>7, NewestNat DEF RevokeCancelled, UserRejection
  <2>8. CASE RevokeReturns(t) \/ RevokeThrows(t)
    BY <2>8 DEF RevokeReturns, RevokeThrows
  <2>9. CASE Refresh(t) \/ Render(t) \/ Reload(t)
    BY <2>9 DEF Refresh, Render, Reload, Allows
  <2> QED
    BY <1>1, <2>2, <2>3, <2>4, <2>5, <2>6, <2>7, <2>8, <2>9 DEF QuietTab
<1>2. CASE SendGrant(t) \/ SendRevoke(t)
  <2>1. t \in Callers
    BY TabsAssumption
  <2>2. calls' \in Seq(Call)
    BY <1>2, <2>1, AcceptedCall DEF SendGrant, SendRevoke, TypeOK
  <2> QED
    BY <1>2, <2>2 DEF SendGrant, SendRevoke, TypeOK, NetTypeOK, CeremonyTypeOK, Turns
<1> QED
  BY <1>1, <1>2, OwnerSteps

(* The steps of Next, by who takes them. *)
LEMMA Steps ==
  ASSUME [Next]_vars
  PROVE  \/ Outside /\ UNCHANGED <<workerVars, tabVars>>
         \/ /\ \E w \in Workers : Turn(w) \/ Throw(w) \/ Crash(w)
            /\ UNCHANGED tabVars
         \/ \E t \in Tabs : Owner(t)
         \/ UNCHANGED vars
BY DEF Next, WorkerNext

LEMMA TypeStep ==
  ASSUME TypeOK, SubmitsOnce, Ownerless, [Next]_vars
  PROVE  TypeOK'
<1>1. CASE Outside /\ UNCHANGED <<workerVars, tabVars>>
  BY <1>1, OutsideType DEF TypeOK, WorkerTypeOK, CeremonyTypeOK, workerVars, tabVars
<1>2. CASE (\E w \in Workers : Turn(w) \/ Throw(w) \/ Crash(w)) /\ UNCHANGED tabVars
  <2>1. NetTypeOK' /\ WorkerTypeOK'
    BY <1>2, WorkerType
  <2> QED
    BY <1>2, <2>1 DEF TypeOK, CeremonyTypeOK, tabVars
<1>3. CASE \E t \in Tabs : Owner(t)
  <2>1. NetTypeOK' /\ CeremonyTypeOK'
    BY <1>3, TabType
  <2>2. UNCHANGED workerVars
    BY <1>3, OwnerSteps, QuietNet, SendNet DEF TypeOK
  <2> QED
    BY <2>1, <2>2 DEF TypeOK, WorkerTypeOK, workerVars
<1>4. CASE UNCHANGED vars
  BY <1>4 DEF vars, netVars, workerVars, tabVars, TypeOK, NetTypeOK, WorkerTypeOK, CeremonyTypeOK
<1> QED
  BY <1>1, <1>2, <1>3, <1>4, Steps

-----------------------------------------------------------------------------
(* The claim has one owner, which sends once.                              *)

(* The steps of a worker that is not the owner, or that ends its ownership. *)
Neutral(w) ==
  \/ ReadFiles(w) \/ ObserveReceipt(w) \/ ObserveSubmission(w) \/ ObserveClaim(w)
  \/ ObserveKey(w) \/ ObserveNoKey(w) \/ WriteSubmission(w) \/ Relay(w) \/ Receipts(w)
  \/ NoReceipts(w) \/ Receipt(w) \/ WriteReceipt(w) \/ Publish(w) \/ Throw(w) \/ Crash(w)

LEMMA WorkerSteps ==
  ASSUME NEW w \in Workers, Turn(w) \/ Throw(w) \/ Crash(w)
  PROVE  \/ Neutral(w)
         \/ Claim(w) \/ WriteClaim(w) \/ Announce(w) \/ Execute(w) \/ Submission(w)
BY DEF Turn, Neutral

LEMMA NeutralStep ==
  ASSUME TypeOK, Pursuit, NEW w \in Workers, Neutral(w)
  PROVE  /\ UNCHANGED netVars
         /\ \A v \in Workers : v # w => place'[v] = place[v]
         /\ place'[w] \notin Owning
         /\ \A f \in {"claim", "submission"} :
              (files[f].st = "absent") = (files'[f].st = "absent")
         /\ \A f \in {"claim", "submission"} : files'[f].call = files[f].call
<1> USE DEF TypeOK, WorkerTypeOK, Move, Goto, Report, EndTurn, Owning, BeforeSend, AfterSend
<1>1. CASE ReadFiles(w)
  BY <1>1 DEF ReadFiles
<1>2. CASE ObserveReceipt(w) \/ ObserveSubmission(w) \/ ObserveClaim(w) \/ ObserveKey(w)
             \/ ObserveNoKey(w)
  BY <1>2 DEF ObserveReceipt, ObserveSubmission, ObserveClaim, ObserveKey, ObserveNoKey
<1>3. CASE Relay(w) \/ Receipts(w) \/ NoReceipts(w)
  BY <1>3 DEF Relay, Receipts, NoReceipts
<1>4. CASE Publish(w) \/ Throw(w) \/ Crash(w)
  BY <1>4 DEF Publish, Throw, Crash
<1>5. CASE WriteSubmission(w)
  <2>1. files["submission"].st # "absent"
    BY <1>5 DEF WriteSubmission, Pursuit, Exists
  <2> QED
    BY <1>5, <2>1 DEF WriteSubmission, File, Names
<1>6. CASE Receipt(w) \/ WriteReceipt(w)
  BY <1>6 DEF Receipt, CreateOnly, WriteReceipt, File, Names
<1> QED
  BY <1>1, <1>2, <1>3, <1>4, <1>5, <1>6 DEF Neutral

LEMMA NeutralOwnership ==
  ASSUME TypeOK, Pursuit, Ownership, SubmitsOnce, NEW w \in Workers, Neutral(w)
  PROVE  Ownership' /\ SubmitsOnce'
<1>1. /\ UNCHANGED calls
      /\ \A v \in Workers : v # w => place'[v] = place[v]
      /\ place'[w] \notin Owning
      /\ \A f \in {"claim", "submission"} : Exists(f)' <=> Exists(f)
  BY NeutralStep DEF netVars, Exists
<1>2. Of("execute")' = Of("execute")
  BY <1>1 DEF Of
<1>3. \A v \in Workers : place'[v] \in Owning => v # w /\ place'[v] = place[v]
  BY <1>1
<1>4. \A v \in Workers :
        (place'[v] \in BeforeSend \/ place'[v] \in AfterSend) => v # w /\ place'[v] = place[v]
  BY <1>3 DEF Owning
<1>5. SubmitsOnce'
  BY <1>2 DEF SubmitsOnce
<1>6. \A i \in Of("execute") : calls'[i].by = calls[i].by
  BY <1>1
<1> QED
  BY <1>1, <1>2, <1>3, <1>4, <1>5, <1>6 DEF Ownership, Sent

LEMMA OwnerOwnership ==
  ASSUME TypeOK, Pursuit, Ownership, SubmitsOnce, NEW w \in Workers,
         Claim(w) \/ WriteClaim(w) \/ Announce(w) \/ Execute(w) \/ Submission(w)
  PROVE  Ownership' /\ SubmitsOnce'
<1> USE DEF TypeOK, WorkerTypeOK, Move, Goto, Owning, BeforeSend, AfterSend
<1>1. CASE Claim(w)
  <2>1. /\ ~Exists("claim") /\ Exists("claim")'
        /\ (Exists("submission"))' = Exists("submission")
        /\ UNCHANGED calls
        /\ place' = [place EXCEPT ![w] = "write claim"]
    BY <1>1 DEF Claim, CreateOnly, Exists, Names, netVars
  <2>2. ~Sent /\ \A v \in Workers : place[v] \notin Owning
    BY <2>1 DEF Ownership
  <2>3. Of("execute")' = Of("execute")
    BY <2>1 DEF Of
  <2>4. ~Exists("submission")
    BY <2>2 DEF Pursuit, Sent
  <2> QED
    BY <2>1, <2>2, <2>3, <2>4 DEF Ownership, SubmitsOnce, Sent
<1>2. CASE WriteClaim(w) \/ Announce(w)
  <2>0. place[w] \in BeforeSend /\ \E p \in BeforeSend : place' = [place EXCEPT ![w] = p]
    BY <1>2 DEF WriteClaim, Write, Announce
  <2>a. Exists("claim")
    BY <2>0 DEF Ownership
  <2>1. /\ Exists("claim") /\ Exists("claim")'
        /\ (Exists("submission"))' = Exists("submission")
        /\ UNCHANGED calls
    BY <1>2, <2>a DEF WriteClaim, Write, Announce, Exists, Names, netVars, File
  <2>2. Of("execute")' = Of("execute")
    BY <2>1 DEF Of
  <2> QED
    BY <2>0, <2>1, <2>2 DEF Ownership, SubmitsOnce, Sent
<1>3. CASE Execute(w)
  <2>1. w \in Callers
    BY WorkersAssumption
  <2>2. place[w] = "execute" /\ UNCHANGED files
    BY <1>3 DEF Execute
  <2>3. Of("execute") = {} /\ Exists("claim")
    BY <2>2 DEF Ownership, Sent
  <2>4. Of("execute")' = {Len(calls) + 1}
    BY <1>3, <2>1, <2>3, AcceptedOf DEF Execute
  <2>5. calls'[Len(calls) + 1].by = w
    <3>1. calls'[Len(calls) + 1] = [kind |-> "execute", by |-> w, st |-> "pending"]
      BY <1>3, <2>1, AcceptedCall DEF Execute
    <3> QED
      BY <3>1
  <2>6. place' = [place EXCEPT ![w] = "submission"]
    BY <1>3 DEF Execute
  <2>7. \A v \in Workers : place'[v] \in Owning => v = w /\ place'[v] = "submission"
    BY <2>2, <2>6 DEF Ownership
  <2>8. Exists("claim")'
    BY <2>2, <2>3 DEF Exists
  <2> QED
    <3>1. SubmitsOnce'
      BY <2>4 DEF SubmitsOnce
    <3>2. \A v \in Workers : place'[v] \notin BeforeSend
      BY <2>7
    <3>3. \A v \in Workers : place'[v] \in AfterSend => \E i \in Of("execute")' : calls'[i].by = v
      BY <2>4, <2>5, <2>7
    <3>4. \A u, v \in Workers : (place'[u] \in Owning /\ place'[v] \in Owning) => u = v
      BY <2>7
    <3> HIDE DEF Owning, BeforeSend, AfterSend
    <3>5. Ownership'
      BY <2>8, <3>2, <3>3, <3>4 DEF Ownership
    <3> QED
      BY <3>1, <3>5
<1>4. CASE Submission(w)
  <2>1. /\ Exists("claim") /\ Exists("claim")'
        /\ UNCHANGED calls
        /\ place[w] = "submission"
        /\ place' = [place EXCEPT ![w] = "write submission"]
    BY <1>4 DEF Submission, CreateOnly, Exists, Names, netVars, Ownership, File
  <2>2. Of("execute")' = Of("execute")
    BY <2>1 DEF Of
  <2>3. \A v \in Workers : place'[v] \in Owning => v = w /\ place'[v] = "write submission"
    BY <2>1 DEF Ownership
  <2>4. \E i \in Of("execute") : calls[i].by = w
    BY <2>1 DEF Ownership
  <2>5. SubmitsOnce'
    BY <2>2 DEF SubmitsOnce
  <2>6. \A v \in Workers : place'[v] \in AfterSend => \E i \in Of("execute")' : calls'[i].by = v
    BY <2>1, <2>2, <2>3, <2>4
  <2> QED
    BY <2>1, <2>3, <2>5, <2>6 DEF Ownership
<1> QED
  BY <1>1, <1>2, <1>3, <1>4

LEMMA OwnershipStep ==
  ASSUME TypeOK, Pursuit, Ownership, SubmitsOnce, [Next]_vars
  PROVE  Ownership' /\ SubmitsOnce'
<1>1. ASSUME UNCHANGED workerVars, Grows, Of("execute")' = Of("execute")
      PROVE  Ownership' /\ SubmitsOnce'
  <2>1. UNCHANGED <<files, place>>
    BY <1>1 DEF workerVars
  <2>2. \A i \in Of("execute") : calls'[i].by = calls[i].by
    BY <1>1 DEF Grows, Of
  <2>3. SubmitsOnce'
    BY <1>1 DEF SubmitsOnce
  <2>4. Exists("claim")' = Exists("claim") /\ Exists("submission")' = Exists("submission")
    BY <2>1 DEF Exists
  <2>5. Sent' = Sent
    BY <1>1 DEF Sent
  <2>6. \A w \in Workers : place[w] \in AfterSend => \E i \in Of("execute")' : calls'[i].by = w
    BY <1>1, <2>2 DEF Ownership
  <2> QED
    BY <2>1, <2>3, <2>4, <2>5, <2>6 DEF Ownership
<1>2. CASE Outside /\ UNCHANGED <<workerVars, tabVars>>
  <2>1. Grows /\ Of("execute")' = Of("execute")
    BY <1>2, OutsideOf DEF TypeOK
  <2> QED
    BY <1>1, <1>2, <2>1
<1>3. CASE \E w \in Workers : Turn(w) \/ Throw(w) \/ Crash(w)
  BY <1>3, WorkerSteps, NeutralOwnership, OwnerOwnership
<1>4. CASE \E t \in Tabs : Owner(t)
  <2>1. PICK t \in Tabs : Owner(t)
    BY <1>4
  <2>2. CASE QuietTab(t)
    <3>1. UNCHANGED workerVars /\ UNCHANGED calls
      BY <2>2, QuietNet DEF netVars
    <3> QED
      BY <1>1, <3>1 DEF Grows, Of
  <2>3. CASE SendGrant(t) \/ SendRevoke(t)
    BY <1>1, <2>3, SendNet DEF TypeOK
  <2> QED
    BY <2>1, <2>2, <2>3, OwnerSteps
<1>5. CASE UNCHANGED vars
  BY <1>1, <1>5 DEF vars, netVars, Grows, Of
<1> QED
  BY <1>2, <1>3, <1>4, <1>5, Steps

-----------------------------------------------------------------------------
(* The submission names the call that was sent, the receipt one that       *)
(* landed.                                                                 *)

(* What was executed stays so while the submission is the same. *)
LEMMA ExecutedStable ==
  ASSUME TypeOK, NetTypeOK', Grows, Of("execute") \subseteq Of("execute")',
         Exists("submission") => Pursued \in Of("execute"),
         Exists("submission")' = Exists("submission"), Pursued' = Pursued
  PROVE  /\ Executed("landed") => Executed("landed")'
         /\ Executed("failed") => Executed("failed")'
         /\ (\E st \in {"pending", "landed", "failed"} : Executed(st)) =>
              (\E st \in {"pending", "landed", "failed"} : Executed(st))'
<1>1. CASE ~Exists("submission")
  BY <1>1 DEF Executed
<1>2. CASE Exists("submission")
  <2>1. Pursued \in DOMAIN calls /\ calls[Pursued].kind = "execute"
    BY <1>2 DEF Of
  <2>2. Pursued' \in DOMAIN calls' /\ calls'[Pursued'].kind = "execute"
    BY <2>1 DEF Grows
  <2>3. calls[Pursued].st # "pending" => calls'[Pursued'].st = calls[Pursued].st
    BY <2>1 DEF Grows
  <2>4. calls'[Pursued'].st \in {"pending", "landed", "failed"}
    <3>1. calls'[Pursued'] \in Call
      BY <2>2 DEF NetTypeOK
    <3> QED
      BY <3>1 DEF Call
  <2>5. Exists("submission")'
    BY <1>2
  <2> QED
    BY <2>1, <2>2, <2>3, <2>4, <2>5 DEF Executed
<1> QED
  BY <1>1, <1>2

(* What every step keeps, but the one that makes the submission. *)
Keeps ==
  /\ Grows
  /\ Of("execute") \subseteq Of("execute")'
  /\ Exists("submission")' = Exists("submission") /\ Pursued' = Pursued

LEMMA WorkerKeeps ==
  ASSUME TypeOK, Pursuit, NEW w \in Workers,
         Neutral(w) \/ Claim(w) \/ WriteClaim(w) \/ Announce(w) \/ Execute(w)
  PROVE  Keeps
<1>1. CASE Neutral(w)
  <2>1. UNCHANGED calls /\ Exists("submission")' = Exists("submission") /\ Pursued' = Pursued
    BY <1>1, NeutralStep DEF netVars, Exists, Pursued
  <2> QED
    BY <2>1 DEF Keeps, Grows, Of
<1>2. CASE Claim(w) \/ WriteClaim(w) \/ Announce(w)
  <2>1. UNCHANGED calls /\ files'["submission"] = files["submission"]
    BY <1>2 DEF Claim, WriteClaim, Announce, CreateOnly, Write, netVars, TypeOK,
                WorkerTypeOK, Names
  <2> QED
    BY <2>1 DEF Keeps, Grows, Of, Exists, Pursued
<1>3. CASE Execute(w)
  <2>1. w \in Callers
    BY WorkersAssumption
  <2>2. Grows /\ Of("execute") \subseteq Of("execute")'
    BY <1>3, <2>1, AcceptedOf DEF Execute, TypeOK
  <2>3. UNCHANGED files
    BY <1>3 DEF Execute
  <2> QED
    BY <2>2, <2>3 DEF Keeps, Exists, Pursued
<1> QED
  BY <1>1, <1>2, <1>3

LEMMA OtherKeeps ==
  ASSUME TypeOK, UNCHANGED workerVars,
         Outside \/ (\E t \in Tabs : Owner(t)) \/ UNCHANGED vars
  PROVE  Keeps
<1>1. Grows /\ Of("execute") \subseteq Of("execute")'
  <2>1. CASE Outside
    BY <2>1, OutsideOf DEF TypeOK
  <2>2. CASE \E t \in Tabs : Owner(t)
    <3>1. PICK t \in Tabs : Owner(t)
      BY <2>2
    <3>2. CASE QuietTab(t)
      BY <3>2, QuietNet DEF netVars, Grows, Of
    <3>3. CASE SendGrant(t) \/ SendRevoke(t)
      BY <3>3, SendNet DEF TypeOK
    <3> QED
      BY <3>1, <3>2, <3>3, OwnerSteps
  <2>3. CASE UNCHANGED vars
    BY <2>3 DEF vars, netVars, Grows, Of
  <2> QED
    BY <2>1, <2>2, <2>3
<1> QED
  BY <1>1 DEF Keeps, workerVars, Exists, Pursued

(* The places of Pursuit, worker by worker. *)
Pursues(w) ==
  /\ place[w] = "observe receipt" => Written("receipt")
  /\ place[w] \in {"observe submission", "relay", "receipt", "write submission"} =>
       Exists("submission")
  /\ place[w] = "receipt" => Executed("landed")
  /\ place[w] = "write receipt" => Exists("receipt")

LEMMA PursuesAll ==
  Pursuit <=> /\ Exists("submission") => Pursued \in Of("execute")
              /\ Exists("receipt") => Executed("landed")
              /\ \A w \in Workers : Pursues(w)
BY DEF Pursuit, Pursues

(* What does not touch the receipt, nor move a worker, keeps the pursuit. *)
LEMMA PursuesStable ==
  ASSUME TypeOK, NetTypeOK', Pursuit, Keeps,
         NEW w \in Workers, place'[w] = place[w],
         Exists("receipt") => Exists("receipt")', Written("receipt") => Written("receipt")'
  PROVE  Pursues(w)'
<1>1. Executed("landed") => Executed("landed")'
  BY ExecutedStable DEF Keeps, Pursuit
<1>2. Pursues(w)
  BY PursuesAll
<1> QED
  BY <1>1, <1>2 DEF Pursues, Keeps

LEMMA NeutralPursuit ==
  ASSUME TypeOK, NetTypeOK', Pursuit, NEW w \in Workers, Neutral(w)
  PROVE  Pursuit'
<1>1. Keeps
  BY WorkerKeeps
<1>2. /\ Executed("landed") => Executed("landed")'
      /\ Exists("submission")' = Exists("submission")
  BY <1>1, ExecutedStable DEF Keeps, Pursuit
<1>3. Exists("submission")' => (Pursued \in Of("execute"))'
  BY <1>1 DEF Keeps, Pursuit
<1>4. \A v \in Workers : v # w => place'[v] = place[v]
  BY NeutralStep
<1> USE DEF Move, Goto, Report, EndTurn
<1>5. /\ Exists("receipt") => Exists("receipt")'
      /\ Written("receipt") => Written("receipt")'
      /\ Exists("receipt")' => Executed("landed")'
      /\ Pursues(w)'
  <2>1. CASE Receipt(w)
    <3>1. ~Exists("receipt") /\ Executed("landed") /\ Exists("submission")
      BY <2>1 DEF Receipt, CreateOnly, Pursuit
    <3>2. Exists("receipt")' /\ place'[w] = "write receipt"
      BY <2>1 DEF Receipt, CreateOnly, Exists, TypeOK, WorkerTypeOK, Names
    <3> QED
      BY <1>2, <3>1, <3>2 DEF Pursues, Written, Exists
  <2>2. CASE WriteReceipt(w)
    <3>1. Exists("receipt") /\ Executed("landed")
      BY <2>2 DEF WriteReceipt, Pursuit
    <3>2. Exists("receipt")' /\ Written("receipt")' /\ place'[w] = "publish"
      BY <2>2 DEF WriteReceipt, Exists, Written, TypeOK, WorkerTypeOK, Names, File
    <3> QED
      BY <1>2, <3>1, <3>2 DEF Pursues
  <2>3. CASE WriteSubmission(w)
    <3>1. files'["receipt"] = files["receipt"] /\ place'[w] = "publish"
      BY <2>3 DEF WriteSubmission, TypeOK, WorkerTypeOK, Names
    <3> QED
      BY <1>2, <3>1 DEF Pursues, Pursuit, Exists, Written
  <2>4. CASE Receipts(w)
    <3>1. UNCHANGED <<files, calls>> /\ place[w] = "relay" /\ place'[w] = "receipt"
      BY <2>4 DEF Receipts, TypeOK, WorkerTypeOK, netVars
    <3>2. Exists("submission") /\ Pursued \in Of("execute")
      BY <3>1 DEF Pursuit
    <3>3. calls[Pursued].st = "landed"
      BY <2>4, FaultyAssumption DEF Receipts, HasReceipt, Honest
    <3>4. Executed("landed")
      BY <3>2, <3>3 DEF Executed, Of
    <3>5. Exists("receipt")' = Exists("receipt") /\ Written("receipt")' = Written("receipt")
      BY <3>1 DEF Exists, Written
    <3> QED
      BY <1>2, <3>1, <3>2, <3>4, <3>5 DEF Pursues, Pursuit
  <2>5. CASE ObserveSubmission(w)
    <3>1. UNCHANGED files /\ place[w] = "observe submission" /\ place'[w] = "relay"
      BY <2>5 DEF ObserveSubmission, TypeOK, WorkerTypeOK
    <3> QED
      BY <1>2, <3>1 DEF Pursues, Pursuit, Exists, Written
  <2>6. CASE ReadFiles(w)
    <3>1. /\ UNCHANGED files
          /\ place'[w] \in {"observe receipt", "observe submission", "observe claim", "observe nothing"}
          /\ place'[w] = "observe receipt" => Written("receipt")
          /\ place'[w] = "observe submission" => Written("submission")
      BY <2>6 DEF ReadFiles, TypeOK, WorkerTypeOK
    <3> QED
      BY <1>2, <3>1 DEF Pursues, Pursuit, Exists, Written
  <2>7. CASE ObserveReceipt(w) \/ ObserveClaim(w) \/ ObserveKey(w) \/ ObserveNoKey(w)
               \/ Relay(w) \/ NoReceipts(w) \/ Publish(w) \/ Throw(w) \/ Crash(w)
    <3>1. UNCHANGED files /\ place'[w] \in {"read", "publish", "claim"}
      BY <2>7 DEF ObserveReceipt, ObserveClaim, ObserveKey, ObserveNoKey, Relay,
                  NoReceipts, Publish, Throw, Crash, TypeOK, WorkerTypeOK
    <3> QED
      BY <1>2, <3>1 DEF Pursues, Pursuit, Exists, Written
  <2> QED
    BY <2>1, <2>2, <2>3, <2>4, <2>5, <2>6, <2>7 DEF Neutral
<1>6. \A v \in Workers : v # w => Pursues(v)'
  BY <1>1, <1>4, <1>5, PursuesStable
<1>7. (\A v \in Workers : Pursues(v))'
  BY <1>5, <1>6
<1> QED
  BY <1>3, <1>5, <1>7 DEF Pursuit, Pursues

LEMMA OwnerPursuit ==
  ASSUME TypeOK, NetTypeOK', Pursuit, Ownership, SubmitsOnce, NEW w \in Workers,
         Claim(w) \/ WriteClaim(w) \/ Announce(w) \/ Execute(w) \/ Submission(w)
  PROVE  Pursuit'
<1> USE DEF Move, Goto, EndTurn
<1>1. /\ files'["receipt"] = files["receipt"]
      /\ \A v \in Workers : v # w => place'[v] = place[v]
  BY DEF Claim, WriteClaim, Announce, Execute, Submission, CreateOnly, Write, TypeOK,
         WorkerTypeOK, Names
<1>2. Exists("receipt")' = Exists("receipt") /\ Written("receipt")' = Written("receipt")
  BY <1>1 DEF Exists, Written
<1>3. CASE ~Submission(w)
  <2>1. Keeps
    BY <1>3, WorkerKeeps
  <2>2. Executed("landed") => Executed("landed")'
    BY <2>1, ExecutedStable DEF Keeps, Pursuit
  <2>3. place'[w] \in {"write claim", "announce", "execute", "submission"}
    BY <1>3 DEF Claim, WriteClaim, Announce, Execute, CreateOnly, Write, TypeOK,
                WorkerTypeOK
  <2>4. Pursues(w)'
    BY <2>3 DEF Pursues
  <2>5. \A v \in Workers : v # w => Pursues(v)'
    BY <2>1, <1>1, <1>2, PursuesStable
  <2> QED
    BY <1>2, <2>1, <2>2, <2>4, <2>5 DEF Pursuit, Pursues, Keeps
<1>4. CASE Submission(w)
  <2>1. /\ UNCHANGED calls
        /\ ~Exists("submission") /\ Exists("submission")'
        /\ Pursued' = Mine(w)
        /\ place[w] = "submission" /\ place'[w] = "write submission"
    BY <1>4 DEF Submission, CreateOnly, Exists, Pursued, TypeOK, WorkerTypeOK, Names, netVars
  <2>2. \E i \in Of("execute") : calls[i].by = w
    BY <2>1 DEF Ownership, AfterSend
  <2>3. Pursued' \in Of("execute")'
    BY <2>1, <2>2, MineTyped DEF TypeOK, Of
  <2>4. ~Executed("landed")
    BY <2>1 DEF Executed
  <2>5. ~Exists("receipt") /\ ~Written("receipt")
    BY <2>4 DEF Pursuit, Exists, Written
  <2>6. \A v \in Workers : Pursues(v)'
    BY <1>1, <1>2, <2>1, <2>4, <2>5 DEF Pursuit, Pursues
  <2> QED
    BY <1>2, <2>3, <2>5, <2>6 DEF Pursuit, Pursues
<1> QED
  BY <1>3, <1>4

LEMMA PursuitStep ==
  ASSUME TypeOK, NetTypeOK', Pursuit, Ownership, SubmitsOnce, [Next]_vars
  PROVE  Pursuit'
<1>1. CASE UNCHANGED workerVars /\ (Outside \/ (\E t \in Tabs : Owner(t)) \/ UNCHANGED vars)
  <2>1. Keeps
    BY <1>1, OtherKeeps
  <2>2. Executed("landed") => Executed("landed")'
    BY <2>1, ExecutedStable DEF Keeps, Pursuit
  <2>3. UNCHANGED <<files, place>>
    BY <1>1 DEF workerVars
  <2> QED
    BY <2>1, <2>2, <2>3 DEF Pursuit, Keeps, Exists, Written
<1>2. CASE \E w \in Workers : Turn(w) \/ Throw(w) \/ Crash(w)
  BY <1>2, WorkerSteps, NeutralPursuit, OwnerPursuit
<1>3. (\E t \in Tabs : Owner(t)) => UNCHANGED workerVars
  BY OwnerSteps, QuietNet, SendNet DEF TypeOK
<1>4. UNCHANGED vars => UNCHANGED workerVars
  BY DEF vars
<1> QED
  BY <1>1, <1>2, <1>3, <1>4, Steps

-----------------------------------------------------------------------------
(* A key that was seen is granted, or gone for good.                       *)

Ahead ==
  /\ \A p \in Honest : view[p] # "none" => authority # "none"
  /\ \A p \in Honest : view[p] = "gone" => authority = "gone"

(* The views of the honest endpoints never go back to before the grant. *)
LEMMA OutsideViews ==
  ASSUME NetTypeOK, Ahead, Outside
  PROVE  /\ Ahead'
         /\ \A p \in Honest : view[p] # "none" => view'[p] # "none"
         /\ authority = "gone" => authority' = "gone"
<1>1. CASE \E i \in DOMAIN calls : Land(i)
  BY <1>1 DEF Land, Ahead, NetTypeOK, Call, Authority
<1>2. CASE \E i \in DOMAIN calls : Fall(i)
  BY <1>2 DEF Fall, Ahead
<1>3. CASE Lapse
  BY <1>3 DEF Lapse, Ahead
<1>4. CASE \E p \in Honest : CatchUp(p)
  <2>1. PICK p \in Honest : CatchUp(p)
    BY <1>4
  <2>2. view' = [view EXCEPT ![p] = authority] /\ authority' = authority
    BY <2>1 DEF CatchUp
  <2>3. view[p] # "none" => authority # "none"
    BY DEF Ahead, NetTypeOK, Authority
  <2> QED
    BY <2>2, <2>3 DEF Ahead, NetTypeOK
<1> QED
  BY <1>1, <1>2, <1>3, <1>4 DEF Outside

LEMMA ViewsStep ==
  ASSUME TypeOK, Pursuit, Ownership, SubmitsOnce, Views, [Next]_vars
  PROVE  Views' /\ (authority = "gone" => authority' = "gone")
<1> DEFINE Seen == Sent \/ \E w \in Workers : place[w] \in Owning \cup {"claim"}
<1>1. Views <=> Ahead /\ (Seen => \A p \in Honest : view[p] # "none")
  BY DEF Views, Ahead
<1>2. Views' <=> Ahead' /\ (Seen' => \A p \in Honest : view'[p] # "none")
  BY DEF Views, Ahead
<1>3. CASE Outside /\ UNCHANGED <<workerVars, tabVars>>
  <2>1. Seen' => Seen
    BY <1>3, OutsideOf DEF TypeOK, Sent, workerVars
  <2> QED
    BY <1>1, <1>2, <1>3, <2>1, OutsideViews DEF TypeOK
<1>4. CASE \E w \in Workers : Turn(w) \/ Throw(w) \/ Crash(w)
  <2>1. PICK w \in Workers : Turn(w) \/ Throw(w) \/ Crash(w)
    BY <1>4
  <2>2. UNCHANGED <<authority, view>>
    <3>1. CASE Neutral(w)
      BY <3>1, NeutralStep DEF netVars
    <3>2. CASE ~Neutral(w)
      BY <2>1, <3>2, WorkerSteps DEF Claim, WriteClaim, Announce, Execute, Submission,
                                     netVars
    <3> QED
      BY <3>1, <3>2
  <2>3. Ahead'
    BY <1>1, <2>2 DEF Ahead
  <2>4. CASE ObserveKey(w)
    <3>1. \A p \in Honest : view[p] = "granted"
      BY <2>4 DEF ObserveKey, Observe, Observed, Says, Honest
    <3> QED
      BY <1>2, <2>2, <2>3, <3>1
  <2>5. CASE Neutral(w) /\ ~ObserveKey(w)
    <3>1. /\ UNCHANGED calls
          /\ \A v \in Workers : v # w => place'[v] = place[v]
          /\ place'[w] \notin Owning
      BY <2>5, NeutralStep DEF netVars
    <3>2. place'[w] # "claim"
      BY <2>5 DEF Neutral, ReadFiles, ObserveReceipt, ObserveSubmission, ObserveClaim,
            ObserveNoKey, WriteSubmission, Relay, Receipts, NoReceipts, Receipt, CreateOnly,
            WriteReceipt, Publish, Throw, Crash,
            Move, Goto, Report, EndTurn, TypeOK, WorkerTypeOK
    <3>3. Seen' => Seen
      BY <3>1, <3>2 DEF Sent, Of
    <3> QED
      BY <1>1, <1>2, <2>2, <2>3, <3>3
  <2>6. CASE Claim(w) \/ WriteClaim(w) \/ Announce(w) \/ Execute(w) \/ Submission(w)
    <3>1. place[w] \in Owning \cup {"claim"}
      BY <2>6 DEF Claim, WriteClaim, Announce, Execute, Submission, CreateOnly, Write,
                  Move, Owning, BeforeSend, AfterSend
    <3> QED
      BY <1>1, <1>2, <2>2, <2>3, <3>1
  <2> QED
    BY <2>1, <2>4, <2>5, <2>6, WorkerSteps
<1>5. CASE (\E t \in Tabs : Owner(t)) \/ UNCHANGED vars
  <2>1. UNCHANGED <<authority, view, workerVars>> /\ Of("execute")' = Of("execute")
    <3>1. CASE \E t \in Tabs : Owner(t)
      <4>1. PICK t \in Tabs : Owner(t)
        BY <3>1
      <4>2. CASE QuietTab(t)
        BY <4>2, QuietNet DEF netVars, Of
      <4>3. CASE SendGrant(t) \/ SendRevoke(t)
        BY <4>3, SendNet DEF TypeOK
      <4> QED
        BY <4>1, <4>2, <4>3, OwnerSteps
    <3>2. CASE UNCHANGED vars
      BY <3>2 DEF vars, netVars, Of
    <3> QED
      BY <1>5, <3>1, <3>2
  <2>2. Seen' => Seen
    BY <2>1 DEF Sent, workerVars
  <2>3. Ahead'
    BY <1>1, <2>1 DEF Ahead
  <2> QED
    BY <1>1, <1>2, <2>1, <2>2, <2>3
<1> QED
  BY <1>3, <1>4, <1>5, Steps

-----------------------------------------------------------------------------
(* What is published, or about to be, is true.                             *)

LEMMA TrueStable ==
  ASSUME TypeOK, NetTypeOK', Pursuit, Keeps,
         Written("receipt") => Written("receipt")',
         authority = "gone" => authority' = "gone"
  PROVE  \A s : True(s) => True(s)'
<1>1. /\ Executed("landed") => Executed("landed")'
      /\ Executed("failed") => Executed("failed")'
      /\ (\E st \in {"pending", "landed", "failed"} : Executed(st)) =>
           (\E st \in {"pending", "landed", "failed"} : Executed(st))'
  BY ExecutedStable DEF Keeps, Pursuit
<1> HIDE DEF Executed
<1>2. TAKE s
<1>3. CASE s = "execute_confirmed"
  BY <1>1, <1>3 DEF True
<1>4. CASE s = "lifecycle_complete"
  BY <1>1, <1>4 DEF True
<1>5. CASE s = "execute_failed"
  BY <1>1, <1>5 DEF True
<1>6. CASE s = "execute_pending"
  BY <1>1, <1>6 DEF True
<1>7. CASE s \notin {"execute_confirmed", "lifecycle_complete", "execute_failed", "execute_pending"}
  BY <1>7 DEF True
<1> QED
  BY <1>3, <1>4, <1>5, <1>6, <1>7

(* The statuses that claim nothing. *)
Plain == {"none", "waiting_authority", "submitting_execute", "execute_outcome_unknown",
          "worker_blocked"}

LEMMA PlainTrue == \A s \in Plain : True(s) /\ True(s)'
BY DEF Plain, True

LEMMA PendingTrue ==
  ASSUME TypeOK, Pursuit, Exists("submission")
  PROVE  True("execute_pending")
<1>1. Pursued \in DOMAIN calls /\ calls[Pursued].kind = "execute"
  BY DEF Pursuit, Of
<1>2. calls[Pursued] \in Call
  BY <1>1 DEF TypeOK, NetTypeOK
<1>3. calls[Pursued].st \in {"pending", "landed", "failed"}
  BY <1>2 DEF Call
<1>4. \E st \in {"pending", "landed", "failed"} : Executed(st)
  BY <1>1, <1>3 DEF Executed
<1> QED
  BY <1>4 DEF True

LEMMA ReceiptTrue ==
  ASSUME TypeOK, Pursuit, Views, NEW w \in Workers, ObserveReceipt(w)
  PROVE  True(word'[w])
<1>1. place[w] = "observe receipt" /\ Written("receipt") /\ Exists("receipt")
  BY DEF ObserveReceipt, Report, Move, Pursuit, Written, Exists
<1>2. Executed("landed")
  BY <1>1 DEF Pursuit
<1>3. PICK p \in BOOLEAN :
        Observed(p) /\ word'[w] = (IF p THEN "execute_confirmed" ELSE "lifecycle_complete")
  BY DEF ObserveReceipt, Observe, Report, TypeOK, WorkerTypeOK
<1>4. CASE p
  BY <1>1, <1>2, <1>3, <1>4 DEF True
<1>5. CASE ~p
  <2>1. PICK h \in Honest : TRUE
    BY FaultyAssumption DEF Honest
  <2>2. view[h] \in {"none", "gone"}
    BY <1>3, <1>5, <2>1 DEF Observed, Says, Honest
  <2>3. Sent
    BY <1>2 DEF Executed, Pursuit, Sent
  <2>4. view[h] # "none"
    BY <2>1, <2>3 DEF Views
  <2>5. authority = "gone"
    BY <2>1, <2>2, <2>4 DEF Views, TypeOK, NetTypeOK, Authority
  <2> QED
    BY <1>1, <1>2, <1>3, <1>5, <2>5 DEF True
<1> QED
  BY <1>3, <1>4, <1>5

LEMMA WorkerTruth ==
  ASSUME TypeOK, TypeOK', Pursuit, Pursuit', Ownership, SubmitsOnce, Views, Truth,
         authority = "gone" => authority' = "gone",
         NEW w \in Workers, Turn(w) \/ Throw(w) \/ Crash(w)
  PROVE  Truth'
<1> USE DEF Move, Goto, Report, EndTurn
<1>0. Written("receipt") => Written("receipt")'
  <2>1. CASE Receipt(w)
    BY <2>1 DEF Receipt, CreateOnly, Exists, Written
  <2>2. CASE WriteReceipt(w)
    BY <2>2 DEF WriteReceipt, Written, TypeOK, WorkerTypeOK, Names, File
  <2>3. CASE ~Receipt(w) /\ ~WriteReceipt(w)
    <3>1. files'["receipt"] = files["receipt"]
      BY <2>3 DEF Turn, ReadFiles, ObserveReceipt, ObserveSubmission, ObserveClaim,
            ObserveKey, ObserveNoKey, Claim, WriteClaim, Announce, Execute, Submission,
            WriteSubmission, CreateOnly, Write, Relay, Receipts, NoReceipts,
            Publish, Throw, Crash, TypeOK, WorkerTypeOK, Names
    <3> QED
      BY <3>1 DEF Written
  <2> QED
    BY <2>1, <2>2, <2>3
<1>1. \A s : s = published.status \/ (\E v \in Workers : place[v] = "publish" /\ s = word[v]) =>
        True(s)'
  <2>1. CASE ~Submission(w)
    <3>1. Keeps
      BY <2>1, WorkerSteps, WorkerKeeps
    <3>2. \A s : True(s) => True(s)'
      BY <1>0, <3>1, TrueStable DEF TypeOK
    <3> QED
      BY <3>2 DEF Truth
  <2>2. CASE Submission(w)
    <3>1. ~Exists("submission")
      BY <2>2 DEF Submission, CreateOnly
    <3>2. \A st : ~Executed(st)
      BY <3>1 DEF Executed
    <3>3. \A s : True(s) =>
            s \notin {"execute_confirmed", "lifecycle_complete", "execute_failed", "execute_pending"}
      BY <3>2 DEF True
    <3>4. \A s : s \notin {"execute_confirmed", "lifecycle_complete", "execute_failed",
                           "execute_pending"} => True(s)'
      BY DEF True
    <3> QED
      BY <3>3, <3>4 DEF Truth
  <2> QED
    BY <2>1, <2>2
<1>2. True(published.status)'
  <2>1. CASE Publish(w)
    <3>1. published'.status = word[w] /\ place[w] = "publish"
      BY <2>1 DEF Publish
    <3> QED
      BY <1>1, <3>1 DEF True
  <2>2. CASE Throw(w) \/ Announce(w)
    <3>1. published'.status \in Plain \/ published' = published
      BY <2>2 DEF Throw, Announce, Plain
    <3> QED
      BY <1>1, <3>1, PlainTrue DEF True
  <2>3. CASE ~Publish(w) /\ ~Throw(w) /\ ~Announce(w)
    <3>1. published' = published
      BY <2>3 DEF Turn, ReadFiles, ObserveReceipt, ObserveSubmission, ObserveClaim,
            ObserveKey, ObserveNoKey, Claim, WriteClaim, Execute, Submission,
            WriteSubmission, Relay, Receipts, NoReceipts, Receipt, WriteReceipt, Crash
    <3> QED
      BY <1>1, <3>1 DEF True
  <2> QED
    BY <2>1, <2>2, <2>3
<1>3. \A v \in Workers : v # w => place'[v] = place[v] /\ word'[v] = word[v]
  BY DEF Turn, ReadFiles, ObserveReceipt, ObserveSubmission, ObserveClaim,
        ObserveKey, ObserveNoKey, Claim, WriteClaim, Announce, Execute, Submission,
        WriteSubmission, CreateOnly, Write, Relay, Receipts, NoReceipts, Receipt,
        WriteReceipt, Publish, Throw, Crash, TypeOK, WorkerTypeOK
<1>4. place'[w] = "publish" => True(word[w])'
  <2>1. CASE ObserveReceipt(w)
    <3>1. True(word'[w])
      BY <2>1, ReceiptTrue
    <3>2. Keeps
      BY <2>1, WorkerKeeps DEF Neutral
    <3>3. \A s : True(s) => True(s)'
      BY <1>0, <3>2, TrueStable DEF TypeOK
    <3> QED
      BY <3>1, <3>3 DEF True
  <2>2. CASE ObserveClaim(w) \/ ObserveNoKey(w)
    <3>1. word'[w] \in Plain
      BY <2>2 DEF ObserveClaim, ObserveNoKey, TypeOK, WorkerTypeOK, Plain
    <3> QED
      BY <3>1, PlainTrue DEF True
  <2>3. CASE Relay(w)
    <3>1. UNCHANGED <<files, netVars>> /\ place[w] = "relay"
      BY <2>3 DEF Relay
    <3>2. Exists("submission") /\ True("execute_pending")
      BY <3>1, PendingTrue DEF Pursuit
    <3>3. \/ word'[w] = "execute_failed" /\ "failed" \in Reported(Pursued)
          \/ word'[w] \in {"execute_pending", "execute_outcome_unknown"}
      BY <2>3 DEF Relay, TypeOK, WorkerTypeOK
    <3>4. True(word'[w])
      <4>1. CASE word'[w] = "execute_failed" /\ "failed" \in Reported(Pursued)
        <5>1. calls[Pursued].st = "failed"
          BY <4>1 DEF Reported
        <5>2. Executed("failed")
          BY <3>2, <5>1 DEF Executed, Pursuit, Of
        <5> QED
          BY <4>1, <5>2 DEF True
      <4>2. CASE word'[w] = "execute_pending"
        BY <3>2, <4>2
      <4>3. CASE word'[w] = "execute_outcome_unknown"
        BY <4>3, PlainTrue DEF Plain
      <4> QED
        BY <3>3, <4>1, <4>2, <4>3
    <3>5. Keeps
      BY <2>3, WorkerKeeps DEF Neutral
    <3>6. \A s : True(s) => True(s)'
      BY <1>0, <3>5, TrueStable DEF TypeOK
    <3> QED
      BY <3>4, <3>6 DEF True
  <2>4. CASE WriteSubmission(w)
    <3>1. word'[w] = "execute_pending" /\ Exists("submission")
      BY <2>4 DEF WriteSubmission, TypeOK, WorkerTypeOK, Pursuit
    <3>2. True("execute_pending")
      BY <3>1, PendingTrue
    <3>3. Keeps
      BY <2>4, WorkerKeeps DEF Neutral
    <3>4. \A s : True(s) => True(s)'
      BY <1>0, <3>3, TrueStable DEF TypeOK
    <3> QED
      BY <3>1, <3>2, <3>4 DEF True
  <2>5. CASE WriteReceipt(w)
    <3>1. word'[w] = "execute_confirmed"
      BY <2>5 DEF WriteReceipt, TypeOK, WorkerTypeOK
    <3>2. Exists("receipt") /\ Written("receipt")'
      BY <2>5 DEF WriteReceipt, TypeOK, WorkerTypeOK, Pursuit, Written, Names, File
    <3>3. Executed("landed")'
      BY <3>2 DEF Pursuit, Written, Exists
    <3> QED
      BY <3>1, <3>2, <3>3 DEF True
  <2>6. CASE ~ObserveReceipt(w) /\ ~ObserveClaim(w) /\ ~ObserveNoKey(w) /\ ~Relay(w)
               /\ ~WriteSubmission(w) /\ ~WriteReceipt(w)
    <3>1. place'[w] # "publish"
      BY <2>6 DEF Turn, ReadFiles, ObserveSubmission, ObserveKey, Claim, WriteClaim,
            Announce, Execute, Submission, CreateOnly, Write, Receipts,
            NoReceipts, Receipt, Publish, Throw, Crash, TypeOK, WorkerTypeOK
    <3> QED
      BY <3>1
  <2> QED
    BY <2>1, <2>2, <2>3, <2>4, <2>5, <2>6
<1>5. \A v \in Workers : place'[v] = "publish" => True(word[v])'
  BY <1>1, <1>3, <1>4 DEF True
<1> QED
  BY <1>2, <1>5 DEF Truth

LEMMA TruthStep ==
  ASSUME TypeOK, TypeOK', Pursuit, Pursuit', Ownership, SubmitsOnce, Views, Truth,
         authority = "gone" => authority' = "gone", [Next]_vars
  PROVE  Truth'
<1>1. CASE UNCHANGED workerVars /\ (Outside \/ (\E t \in Tabs : Owner(t)) \/ UNCHANGED vars)
  <2>1. Keeps
    BY <1>1, OtherKeeps
  <2>2. UNCHANGED <<files, place, word, published>>
    BY <1>1 DEF workerVars
  <2>3. Written("receipt") => Written("receipt")'
    BY <2>2 DEF Written
  <2>4. \A s : True(s) => True(s)'
    BY <2>1, <2>3, TrueStable DEF TypeOK
  <2> QED
    BY <2>2, <2>4 DEF Truth
<1>2. CASE \E w \in Workers : Turn(w) \/ Throw(w) \/ Crash(w)
  BY <1>2, WorkerTruth
<1>3. (\E t \in Tabs : Owner(t)) => UNCHANGED workerVars
  BY OwnerSteps, QuietNet, SendNet DEF TypeOK
<1>4. UNCHANGED vars => UNCHANGED workerVars
  BY DEF vars
<1> QED
  BY <1>1, <1>2, <1>3, <1>4, Steps

-----------------------------------------------------------------------------
(* One tab: the storage accounts for every call that was not disowned.     *)

(* Of the calls of one kind only the last one was perhaps not disowned. *)
OneEach(kind) == \A i, j \in Of(kind) : i < j => i \in disowned

Accounted ==
  /\ OneEach("grant") /\ OneEach("revoke")
  /\ operation = "none" => Of("grant") \cup Of("revoke") \subseteq disowned
  /\ operation = "grant" => Of("revoke") \subseteq disowned

(* An abort disowns what was left. *)
LEMMA AbortDisowns ==
  ASSUME NetTypeOK, NEW t, NEW kind, OneEach(kind), \A i \in Of(kind) : calls[i].by = t
  PROVE  Of(kind) \subseteq disowned \cup Newest(kind, t)
<1> SUFFICES ASSUME NEW i \in Of(kind), i \notin disowned PROVE i \in Newest(kind, t)
  OBVIOUS
<1>1. Of(kind) \subseteq Nat
  BY DEF NetTypeOK, Of
<1>2. \A j \in Of(kind) : j <= i
  BY <1>1 DEF OneEach
<1> QED
  BY <1>2 DEF Newest

(* Whether nothing was sent or the request was aborted, no call of the     *)
(* kind is left that is not disowned.                                      *)
LEMMA RejectionDisowns ==
  ASSUME TypeOK, NEW t \in Tabs, NEW kind, NEW asking, NEW accepted,
         OneEach(kind), \A i \in Of(kind) : calls[i].by = t,
         tab[t] = asking => Of(kind) \subseteq disowned,
         UserRejection(t, kind, asking, accepted)
  PROVE  /\ tab[t] \in {asking, accepted} /\ tab'[t] = "idle"
         /\ disowned \subseteq disowned'
         /\ Of(kind) \subseteq disowned'
<1>1. CASE Turns(t, asking, "idle") /\ UNCHANGED disowned
  BY <1>1 DEF Turns, TypeOK, CeremonyTypeOK
<1>2. CASE Turns(t, accepted, "idle") /\ disowned' = disowned \cup Newest(kind, t)
  BY <1>2, AbortDisowns DEF Turns, TypeOK, CeremonyTypeOK
<1> QED
  BY <1>1, <1>2 DEF UserRejection

LEMMA QuietFence ==
  ASSUME TypeOK, NEW t \in Tabs, Tabs = {t}, Fence(t), Accounted, QuietTab(t)
  PROVE  Fence(t)' /\ Accounted'
<1> USE DEF TypeOK, CeremonyTypeOK, Operation, Turns, Retain, Forget
<1>1. UNCHANGED calls /\ Of("grant")' = Of("grant") /\ Of("revoke")' = Of("revoke")
  BY QuietNet DEF netVars, Of
<1>2. ASSUME disowned \subseteq disowned' PROVE OneEach("grant")' /\ OneEach("revoke")'
  BY <1>1, <1>2 DEF Accounted, OneEach
<1>3. CASE Grant(t)
  <2>1. operation = "none" /\ UNCHANGED disowned
    BY <1>3 DEF Grant, CanGrant, Fence
  <2>2. operation' = "grant" /\ rendered'[t] = operation' /\ tab'[t] = "granting"
    BY <1>3 DEF Grant
  <2> QED
    BY <1>1, <1>2, <2>1, <2>2 DEF Fence, Accounted
<1>4. CASE GrantCancelled(t)
  <2>1. operation' = "none" /\ rendered'[t] = operation'
    BY <1>4 DEF GrantCancelled
  <2>2. /\ tab[t] \in {"granting", "granted"} /\ tab'[t] = "idle"
        /\ disowned \subseteq disowned' /\ Of("grant") \subseteq disowned'
    BY <1>4, RejectionDisowns DEF GrantCancelled, Fence, Accounted
  <2>3. Of("revoke") \subseteq disowned
    BY <2>2 DEF Fence, Accounted
  <2> QED
    BY <1>1, <1>2, <2>1, <2>2, <2>3 DEF Fence, Accounted
<1>5. CASE GrantReturns(t) \/ GrantThrows(t)
  <2>1. /\ tab[t] \in {"granting", "granted"} /\ tab'[t] = "idle"
        /\ rendered'[t] = operation' /\ UNCHANGED disowned
    BY <1>5 DEF GrantReturns, GrantThrows
  <2>2. operation = "grant"
    BY <2>1 DEF Fence
  <2>3. operation' = "grant"
    BY <1>5, <2>2 DEF GrantReturns, GrantThrows
  <2> QED
    BY <1>1, <1>2, <2>1, <2>2, <2>3 DEF Fence, Accounted
<1>6. CASE Revoke(t)
  <2>1. /\ operation' = "revoke" /\ rendered'[t] = operation' /\ UNCHANGED disowned
        /\ tab'[t] = "revoking" /\ before'[t] = "grant" /\ operation = "grant"
    BY <1>6 DEF Revoke, CanRevoke, Fence
  <2> QED
    BY <1>1, <1>2, <2>1 DEF Fence, Accounted
<1>7. CASE RevokeCancelled(t)
  <2>1. /\ tab[t] \in {"revoking", "revoked"} /\ tab'[t] = "idle"
        /\ disowned \subseteq disowned' /\ Of("revoke") \subseteq disowned'
    BY <1>7, RejectionDisowns DEF RevokeCancelled, Fence, Accounted
  <2>2. operation' = "grant" /\ rendered'[t] = operation'
    BY <1>7, <2>1 DEF RevokeCancelled, Fence
  <2> QED
    BY <1>1, <1>2, <2>1, <2>2 DEF Fence, Accounted
<1>8. CASE RevokeReturns(t) \/ RevokeThrows(t)
  <2>1. /\ operation' = "revoke" /\ rendered'[t] = operation'
        /\ tab'[t] = "idle" /\ UNCHANGED disowned
    BY <1>8 DEF RevokeReturns, RevokeThrows
  <2> QED
    BY <1>1, <1>2, <2>1 DEF Fence, Accounted
<1>9. CASE Refresh(t) \/ Render(t)
  <2>1. UNCHANGED <<operation, tab, before, disowned>> /\ rendered'[t] = operation
    BY <1>9 DEF Refresh, Render, Fence
  <2> QED
    BY <1>1, <1>2, <2>1 DEF Fence, Accounted
<1>10. CASE Reload(t)
  <2>1. UNCHANGED <<operation, disowned>> /\ rendered'[t] = operation /\ tab'[t] = "idle"
    BY <1>10 DEF Reload
  <2> QED
    BY <1>1, <1>2, <2>1 DEF Fence, Accounted
<1> QED
  BY <1>3, <1>4, <1>5, <1>6, <1>7, <1>8, <1>9, <1>10 DEF QuietTab

(* A call that is sent comes after those that were disowned. *)
LEMMA AcceptedOneEach ==
  ASSUME NetTypeOK, NEW kind \in {"grant", "revoke"}, NEW t \in Callers, Accept(kind, t),
         Of(kind) \subseteq disowned, UNCHANGED disowned,
         \A i \in Of("grant") \cup Of("revoke") : calls[i].by = t
  PROVE  /\ OneEach(kind)'
         /\ \A k \in {"grant", "revoke"} : k # kind => Of(k)' = Of(k)
         /\ \A i \in Of("grant")' \cup Of("revoke")' : calls'[i].by = t
<1> DEFINE n == Len(calls) + 1
<1>1. /\ Of(kind)' = Of(kind) \cup {n}
      /\ \A k \in {"grant", "revoke"} : k # kind => Of(k)' = Of(k)
  BY AcceptedOf
<1>2. /\ \A i \in DOMAIN calls : calls'[i] = calls[i] /\ i \in Nat /\ i < n
      /\ calls'[n] = [kind |-> kind, by |-> t, st |-> "pending"]
      /\ n \in Nat
  BY AcceptedCall DEF NetTypeOK
<1> HIDE DEF n
<1>3. OneEach(kind)'
  BY <1>1, <1>2 DEF OneEach, Of
<1>4. \A k \in {"grant", "revoke"} : \A i \in Of(k) : calls'[i].by = t
  BY <1>2 DEF Of
<1>5. calls'[n].by = t
  BY <1>2
<1> QED
  BY <1>1, <1>3, <1>4, <1>5

LEMMA FenceStep ==
  ASSUME TypeOK, NEW t \in Tabs, Tabs = {t}, Fence(t), Accounted, Owner(t)
  PROVE  Fence(t)' /\ Accounted'
<1>1. t \in Callers
  BY TabsAssumption
<1>2. CASE SendGrant(t)
  <2>1. /\ tab[t] = "granting" /\ tab'[t] = "granted" /\ Accept("grant", t)
        /\ UNCHANGED <<operation, rendered, before, disowned>>
    BY <1>2 DEF SendGrant, Turns, TypeOK, CeremonyTypeOK
  <2>2. Of("grant") \subseteq disowned /\ operation = "grant"
    BY <2>1 DEF Fence
  <2>3. /\ OneEach("grant")' /\ Of("revoke")' = Of("revoke")
        /\ \A i \in Of("grant")' \cup Of("revoke")' : calls'[i].by = t
    BY <1>1, <2>1, <2>2, AcceptedOneEach DEF TypeOK, Fence
  <2>4. OneEach("revoke")'
    BY <2>1, <2>3 DEF Accounted, OneEach
  <2> QED
    BY <2>1, <2>2, <2>3, <2>4 DEF Fence, Accounted
<1>3. CASE SendRevoke(t)
  <2>1. /\ tab[t] = "revoking" /\ tab'[t] = "revoked" /\ Accept("revoke", t)
        /\ UNCHANGED <<operation, rendered, before, disowned>>
    BY <1>3 DEF SendRevoke, Turns, TypeOK, CeremonyTypeOK
  <2>2. Of("revoke") \subseteq disowned /\ operation = "revoke" /\ before[t] = "grant"
    BY <2>1 DEF Fence
  <2>3. /\ OneEach("revoke")' /\ Of("grant")' = Of("grant")
        /\ \A i \in Of("grant")' \cup Of("revoke")' : calls'[i].by = t
    BY <1>1, <2>1, <2>2, AcceptedOneEach DEF TypeOK, Fence
  <2>4. OneEach("grant")'
    BY <2>1, <2>3 DEF Accounted, OneEach
  <2> QED
    BY <2>1, <2>2, <2>3, <2>4 DEF Fence, Accounted
<1> QED
  BY <1>2, <1>3, OwnerSteps, QuietFence

LEMMA CeremonyStep ==
  ASSUME TypeOK, Pursuit, Ownership, CeremonyInv, [Next]_vars
  PROVE  CeremonyInv'
<1> SUFFICES ASSUME NEW t \in Tabs, Tabs = {t}
             PROVE  Fence(t)' /\ Accounted'
  BY DEF CeremonyInv, CeremonyFence, Accounted, OneEach
<1>1. Fence(t) /\ Accounted
  BY DEF CeremonyInv, CeremonyFence, Accounted, OneEach
<1>2. ASSUME UNCHANGED tabVars, Grows,
             Of("grant")' = Of("grant"), Of("revoke")' = Of("revoke")
      PROVE  Fence(t)' /\ Accounted'
  <2>1. \A i \in Of("grant") \cup Of("revoke") : calls'[i].by = calls[i].by
    BY <1>2 DEF Grows, Of
  <2>2. OneEach("grant")' = OneEach("grant") /\ OneEach("revoke")' = OneEach("revoke")
    BY <1>2 DEF OneEach, tabVars
  <2> QED
    BY <1>1, <1>2, <2>1, <2>2 DEF tabVars, Fence, Accounted
<1>3. CASE Outside /\ UNCHANGED <<workerVars, tabVars>>
  BY <1>2, <1>3, OutsideOf DEF TypeOK
<1>4. CASE (\E w \in Workers : Turn(w) \/ Throw(w) \/ Crash(w)) /\ UNCHANGED tabVars
  <2>1. PICK w \in Workers : Turn(w) \/ Throw(w) \/ Crash(w)
    BY <1>4
  <2>2. CASE Execute(w)
    <3>1. w \in Callers
      BY WorkersAssumption
    <3>2. Grows /\ Of("grant")' = Of("grant") /\ Of("revoke")' = Of("revoke")
      BY <2>2, <3>1, AcceptedOf DEF Execute, TypeOK
    <3> QED
      BY <1>2, <1>4, <3>2
  <2>3. CASE ~Execute(w)
    <3>1. UNCHANGED calls
      BY <2>1, <2>3, WorkerSteps, NeutralStep DEF netVars, Claim, WriteClaim, Announce,
                                                  Submission
    <3> QED
      BY <1>2, <1>4, <3>1 DEF Of, Grows
  <2> QED
    BY <2>2, <2>3
<1>5. CASE \E u \in Tabs : Owner(u)
  BY <1>1, <1>5, FenceStep
<1>6. CASE UNCHANGED vars
  BY <1>2, <1>6 DEF vars, netVars, Of, Grows
<1> QED
  BY <1>3, <1>4, <1>5, <1>6, Steps

-----------------------------------------------------------------------------
(* The invariant, and what it proves.                                      *)

LEMMA InvInit == Init => ActionInv
<1> SUFFICES ASSUME Init PROVE ActionInv
  OBVIOUS
<1>1. TypeOK
  BY InitType
<1>2. \A kind : Of(kind) = {}
  BY DEF Init, NetInit, Of
<1>3. \A f \in Names : ~Exists(f)
  BY DEF Init, WorkerInit, NoFile, Exists
<1>4. \A w \in Workers : place[w] = "read"
  BY DEF Init, WorkerInit
<1>5. Ownership /\ SubmitsOnce
  BY <1>2, <1>4 DEF Ownership, SubmitsOnce, Sent, Owning, BeforeSend, AfterSend
<1>6. Pursuit
  BY <1>3, <1>4 DEF Pursuit, Names
<1>7. Views
  BY <1>2, <1>4 DEF Views, Sent, Owning, BeforeSend, AfterSend, Init, NetInit
<1>8. Truth
  BY <1>4 DEF Truth, True, Init, WorkerInit
<1>9. CeremonyInv
  BY <1>2 DEF CeremonyInv, CeremonyFence, Fence, Init
<1> QED
  BY <1>1, <1>5, <1>6, <1>7, <1>8, <1>9 DEF ActionInv

LEMMA InvStep ==
  ASSUME ActionInv, [Next]_vars
  PROVE  ActionInv'
<1> USE DEF ActionInv
<1>1. TypeOK'
  <2>1. Ownerless
    BY DEF Ownerless, Ownership, AfterSend
  <2> QED
    BY <2>1, TypeStep
<1>2. Ownership' /\ SubmitsOnce'
  BY OwnershipStep
<1>3. Pursuit'
  BY <1>1, PursuitStep DEF TypeOK
<1>4. Views' /\ (authority = "gone" => authority' = "gone")
  BY ViewsStep
<1>5. Truth'
  BY <1>1, <1>3, <1>4, TruthStep
<1>6. CeremonyInv'
  BY CeremonyStep
<1> QED
  BY <1>1, <1>2, <1>3, <1>4, <1>5, <1>6

(* Whatever the workers, the owner and the outside do, and however often a *)
(* worker is started again, the invariant of the test action holds.        *)
THEOREM ActionInvariant == Spec => []ActionInv
BY InvInit, InvStep, PTL DEF Spec

(* Every state of the test action has the shape of the code's state: the   *)
(* files of the worker, what it published, the operation of the browser.   *)
THEOREM ActionTypeCorrect == Spec => []TypeOK
<1>1. ActionInv => TypeOK
  BY DEF ActionInv
<1> QED
  BY <1>1, ActionInvariant, PTL

(* Any number of worker processes, restarted at any time, send the one     *)
(* action at most once (submitExecute).                                    *)
THEOREM ActionSubmittedOnce == Spec => []SubmitsOnce
<1>1. ActionInv => SubmitsOnce
  BY DEF ActionInv
<1> QED
  BY <1>1, ActionInvariant, PTL

(* What any worker publishes is true of the calls and of the session key,  *)
(* and stays true, with one endpoint answering whatever it likes.          *)
THEOREM ActionPublishedTruth == Spec => []PublishedTruth
<1>1. ActionInv => PublishedTruth
  BY DEF ActionInv, Truth, PublishedTruth
<1> QED
  BY <1>1, ActionInvariant, PTL

(* However often the one tab of a browser loses an answer, throws, is      *)
(* reloaded or sees a request aborted after the relay accepted it, another *)
(* grant or revocation is sent only when the requests of all earlier ones  *)
(* were aborted, and no other call is missing from what is stored (grant,  *)
(* revoke, isUserRejection).                                               *)
THEOREM ActionCeremonyFence == Spec => []CeremonyFence
<1>1. ActionInv => CeremonyFence
  BY DEF ActionInv, CeremonyInv, CeremonyFence
<1> QED
  BY <1>1, ActionInvariant, PTL

-----------------------------------------------------------------------------
(* The workers, the tabs and the endpoints implement AltanaLifecycle.      *)

(* What the mapped state is, and that what is said is justified in it. *)
Mapped ==
  /\ Of("execute") = {} => Action = "none"
  /\ \A i \in Of("execute") : Action = calls[i].st
  /\ Lifecycle!Justified(Said)

LEMMA InvMapped == ActionInv => Mapped
<1> SUFFICES ASSUME ActionInv PROVE Mapped
  OBVIOUS
<1>1. /\ Of("execute") = {} => Action = "none"
      /\ \A i \in Of("execute") : Action = calls[i].st
  BY DEF ActionInv, SubmitsOnce, Action
<1>2. ASSUME NEW st, Executed(st) PROVE Action = st /\ Of("execute") # {}
  <2>1. Pursued \in Of("execute") /\ calls[Pursued].st = st
    BY <1>2 DEF Executed, ActionInv, Pursuit
  <2> QED
    BY <1>1, <2>1
<1>3. Lifecycle!Justified(Said)
  <2>1. True(published.status)
    BY DEF ActionInv, Truth
  <2>2. CASE Said = "execute_pending"
    <3>1. \E st \in {"pending", "landed", "failed"} : Executed(st)
      BY <2>1, <2>2 DEF Said, True
    <3> QED
      BY <1>2, <2>2, <3>1 DEF Lifecycle!Justified
  <2>3. CASE Said = "execute_confirmed"
    BY <1>2, <2>1, <2>3 DEF Said, True, Lifecycle!Justified
  <2>4. CASE Said = "execute_failed"
    BY <1>2, <2>1, <2>4 DEF Said, True, Lifecycle!Justified
  <2>5. CASE Said = "lifecycle_complete"
    BY <1>2, <2>1, <2>5 DEF Said, True, Lifecycle!Justified
  <2>6. CASE Said = "nothing"
    BY <2>6 DEF Lifecycle!Justified
  <2> QED
    BY <2>2, <2>3, <2>4, <2>5, <2>6 DEF Said
<1> QED
  BY <1>1, <1>3 DEF Mapped

(* A step that leaves the calls and the key alone can only tell. *)
LEMMA TellStep ==
  ASSUME Mapped', UNCHANGED <<calls, authority>>
  PROVE  [Lifecycle!Next]_(Lifecycle!vars)
<1>1. Action' = Action
  BY DEF Action, Of
<1>2. Said' \in Lifecycle!Reports \cup {"nothing"}
  BY DEF Said, Lifecycle!Reports
<1>3. Lifecycle!Justified(Said')
  BY <1>1 DEF Mapped, Lifecycle!Justified
<1> QED
  BY <1>1, <1>2, <1>3 DEF Lifecycle!Next, Lifecycle!Tell

(* The outside settles the action, or changes the key, never both. *)
LEMMA OutsideLifecycle ==
  ASSUME ActionInv, Mapped, Mapped', Outside, UNCHANGED workerVars
  PROVE  [Lifecycle!Next]_(Lifecycle!vars)
<1>0. NetTypeOK /\ Said' = Said
  BY DEF ActionInv, TypeOK, workerVars, Said
<1>1. Of("execute")' = Of("execute")
  BY <1>0, OutsideOf
<1>2. ASSUME NEW i \in DOMAIN calls, Land(i) \/ Fall(i), calls[i].kind = "execute"
      PROVE  [Lifecycle!Next]_(Lifecycle!vars)
  <2>1. i \in Of("execute") /\ i \in Of("execute")'
    BY <1>1, <1>2 DEF Of
  <2>2. Action = calls[i].st /\ Action' = calls'[i].st
    BY <2>1 DEF Mapped
  <2>3. CASE Land(i)
    <3>1. authority = "granted" /\ authority' = authority
      BY <1>2, <2>3 DEF Land
    <3>2. calls[i].st = "pending" /\ calls'[i].st = "landed"
      <4>1. calls[i] \in Call /\ calls' = [calls EXCEPT ![i] = [calls[i] EXCEPT !.st = "landed"]]
        BY <1>0, <2>3 DEF Land, NetTypeOK
      <4> QED
        BY <1>0, <4>1, <2>3 DEF Land, Call, NetTypeOK
    <3>3. Action = "pending" /\ Action' = "landed"
      BY <2>2, <3>2
    <3> QED
      BY <1>0, <3>1, <3>3 DEF Lifecycle!Next, Lifecycle!Settle
  <2>4. CASE Fall(i)
    <3>1. authority' = authority
      BY <2>4 DEF Fall
    <3>2. calls[i].st = "pending" /\ calls'[i].st = "failed"
      <4>1. calls[i] \in Call /\ calls' = [calls EXCEPT ![i] = [calls[i] EXCEPT !.st = "failed"]]
        BY <1>0, <2>4 DEF Fall, NetTypeOK
      <4> QED
        BY <1>0, <4>1, <2>4 DEF Fall, Call, NetTypeOK
    <3>3. Action = "pending" /\ Action' = "failed"
      BY <2>2, <3>2
    <3> QED
      BY <1>0, <3>1, <3>3 DEF Lifecycle!Next, Lifecycle!Settle
  <2> QED
    BY <1>2, <2>3, <2>4
<1>3. ASSUME NEW i \in DOMAIN calls, Land(i) \/ Fall(i), calls[i].kind # "execute"
      PROVE  [Lifecycle!Next]_(Lifecycle!vars)
  <2>1. \A j \in Of("execute") : calls'[j] = calls[j]
    BY <1>0, <1>3 DEF Land, Fall, Of, NetTypeOK
  <2>2. Action' = Action
    <3>1. CASE Of("execute") = {}
      BY <1>1, <3>1 DEF Mapped
    <3>2. CASE Of("execute") # {}
      <4>1. PICK j \in Of("execute") : TRUE
        BY <3>2
      <4> QED
        BY <1>1, <2>1, <4>1 DEF Mapped
    <3> QED
      BY <3>1, <3>2
  <2>3. CASE authority' = authority
    BY <1>0, <2>2, <2>3 DEF Lifecycle!vars
  <2>4. CASE authority' # authority
    <3>1. Land(i) /\ calls[i].kind \in {"grant", "revoke"}
      BY <1>0, <1>3, <2>4 DEF Land, Fall, NetTypeOK, Call
    <3>2. \/ authority = "none" /\ authority' = "granted"
          \/ authority \in {"granted", "expired"} /\ authority' = "gone"
      BY <2>4, <3>1 DEF Land
    <3> QED
      BY <1>0, <2>2, <3>2 DEF Lifecycle!Next, Lifecycle!Grant, Lifecycle!Withdraw
  <2> QED
    BY <2>3, <2>4
<1>4. CASE Lapse
  <2>1. Action' = Action
    BY <1>4 DEF Lapse, Action, Of
  <2> QED
    BY <1>0, <1>4, <2>1 DEF Lapse, Lifecycle!Next, Lifecycle!Withdraw
<1>5. CASE \E p \in Honest : CatchUp(p)
  BY <1>5, TellStep DEF CatchUp
<1> QED
  BY <1>2, <1>3, <1>4, <1>5 DEF Outside

(* The one execution comes after the grant: its worker saw the key. *)
LEMMA ExecuteLifecycle ==
  ASSUME ActionInv, Mapped, Mapped', NEW w \in Workers, Execute(w)
  PROVE  [Lifecycle!Next]_(Lifecycle!vars)
<1>0. NetTypeOK /\ w \in Callers /\ Accept("execute", w)
  BY WorkersAssumption DEF ActionInv, TypeOK, Execute
<1>1. authority' = authority /\ Said' = Said
  BY DEF Execute, Said
<1>2. Of("execute") = {} /\ authority # "none"
  <2>1. place[w] \in BeforeSend
    BY DEF Execute, Move, BeforeSend
  <2>2. PICK p \in Honest : TRUE
    BY FaultyAssumption DEF Honest
  <2>3. view[p] # "none"
    BY <2>1, <2>2 DEF ActionInv, Views, Owning
  <2> QED
    BY <2>1, <2>2, <2>3 DEF ActionInv, Ownership, Sent, Views
<1>3. Action = "none"
  BY <1>2 DEF Mapped
<1>4. Action' = "pending"
  <2>1. Len(calls) + 1 \in Of("execute")'
    BY <1>0, AcceptedOf
  <2>2. calls'[Len(calls) + 1].st = "pending"
    <3>1. calls'[Len(calls) + 1] = [kind |-> "execute", by |-> w, st |-> "pending"]
      BY <1>0, AcceptedCall
    <3> QED
      BY <3>1
  <2> QED
    BY <2>1, <2>2 DEF Mapped
<1> QED
  BY <1>1, <1>2, <1>3, <1>4 DEF Lifecycle!Next, Lifecycle!Send

(* A grant or a revocation that is sent is no action. *)
LEMMA SendLifecycle ==
  ASSUME ActionInv, Mapped, Mapped', NEW t \in Tabs, SendGrant(t) \/ SendRevoke(t)
  PROVE  [Lifecycle!Next]_(Lifecycle!vars)
<1>0. NetTypeOK
  BY DEF ActionInv, TypeOK
<1>1. authority' = authority /\ Said' = Said /\ Of("execute")' = Of("execute")
  BY <1>0, SendNet DEF Said, workerVars
<1>2. \A j \in Of("execute") : calls'[j] = calls[j]
  BY <1>0, TabsAssumption, AcceptedCall DEF SendGrant, SendRevoke, Of
<1>3. Action' = Action
  <2>1. CASE Of("execute") = {}
    BY <1>1, <2>1 DEF Mapped
  <2>2. CASE Of("execute") # {}
    <3>1. PICK j \in Of("execute") : TRUE
      BY <2>2
    <3> QED
      BY <1>1, <1>2, <3>1 DEF Mapped
  <2> QED
    BY <2>1, <2>2
<1> QED
  BY <1>1, <1>3 DEF Lifecycle!vars

LEMMA LifecycleStep ==
  ASSUME ActionInv, Mapped, Mapped', [Next]_vars
  PROVE  [Lifecycle!Next]_(Lifecycle!vars)
<1>1. CASE Outside /\ UNCHANGED <<workerVars, tabVars>>
  BY <1>1, OutsideLifecycle
<1>2. ASSUME NEW w \in Workers, Turn(w) \/ Throw(w) \/ Crash(w)
      PROVE  [Lifecycle!Next]_(Lifecycle!vars)
  <2>1. CASE Neutral(w)
    BY <2>1, NeutralStep, TellStep DEF ActionInv, netVars
  <2>2. CASE Claim(w) \/ WriteClaim(w) \/ Announce(w) \/ Submission(w)
    BY <2>2, TellStep DEF Claim, WriteClaim, Announce, Submission, netVars
  <2> QED
    BY <1>2, <2>1, <2>2, WorkerSteps, ExecuteLifecycle
<1>3. ASSUME NEW t \in Tabs, Owner(t) PROVE [Lifecycle!Next]_(Lifecycle!vars)
  <2>1. CASE QuietTab(t)
    BY <2>1, QuietNet, TellStep DEF netVars
  <2> QED
    BY <1>3, <2>1, OwnerSteps, SendLifecycle
<1>4. CASE UNCHANGED vars
  BY <1>4, TellStep DEF vars, netVars
<1> QED
  BY <1>1, <1>2, <1>3, <1>4, Steps

(***************************************************************************)
(* With any workers, tabs, restarts and one honest endpoint, the action is *)
(* sent once and behind a grant, takes effect while the key is valid, and  *)
(* what is published is justified at the moment it is published.           *)
(***************************************************************************)
THEOREM ActionImplementsLifecycle == Spec => ImplementsLifecycle
<1>1. Init => Lifecycle!Init
  BY DEF Init, NetInit, WorkerInit, Lifecycle!Init, Action, Said, Of
<1>2. ActionInv /\ Mapped /\ Mapped' /\ [Next]_vars => [Lifecycle!Next]_(Lifecycle!vars)
  BY LifecycleStep
<1> QED
  BY <1>1, <1>2, InvMapped, ActionInvariant, PTL DEF Spec, ImplementsLifecycle, Lifecycle!Spec
=============================================================================
