------------------------- MODULE AltanaClaimProofs -------------------------
(***************************************************************************)
(* Proofs about the grant-claim store, for any number of calls, any claims *)
(* with any keys and any pool: every answer is true for good (the store    *)
(* implements its register), and clashing claims have one winner.          *)
(***************************************************************************)
EXTENDS AltanaClaimInv, TLAPS

-----------------------------------------------------------------------------
(* Type correctness.                                                       *)

LEMMA SendType ==
  ASSUME TypeOK, NEW r \in Requests, NEW s \in Statements, Send(r, s)
  PROVE  /\ pc' \in [Requests -> Places]
         /\ query' \in [Requests -> Statements \cup {"none"}]
         /\ reply' \in [Requests -> {"none", "ok", "error", "other", "row", "empty", "exact"}]
<1> USE DEF TypeOK, Send, Goto, Places
<1>1. CASE conn[r] = "up"
  BY <1>1
<1>2. CASE conn[r] # "up"
  BY <1>2
<1> QED
  BY <1>1, <1>2

(* What a call's own steps do to the types, one action at a time. *)
LEMMA StoreType ==
  ASSUME TypeOK, NEW r \in Requests, Store(r)
  PROVE  TypeOK'
<1> USE DEF TypeOK, callVars, wireVars, Goto, Answer, Places, Statements,
            Register!Answers, Register!Denials
<1>1. ASSUME NEW c \in Claims, Call(r, c) PROVE TypeOK'
  BY <1>1 DEF Call
<1>2. CASE Refuse(r)
  BY <1>2 DEF Refuse
<1>3. CASE Connect(r)
  BY <1>3 DEF Connect
<1>4. CASE Acquired(r)
  BY <1>4 DEF Acquired
<1>5. CASE AcquireFails(r)
  BY <1>5 DEF AcquireFails
<1>6. CASE AcquireTimeout(r)
  BY <1>6 DEF AcquireTimeout
<1>7. CASE LateClient(r)
  BY <1>7 DEF LateClient, Destroy
<1>8. CASE Proceed(r)
  <2>1. wrote' \in [Requests -> BOOLEAN]
    BY <1>8 DEF Proceed
  <2>2. PICK s \in Statements : Send(r, s)
    BY <1>8 DEF Proceed
  <2> QED
    BY <1>8, <2>1, <2>2, SendType DEF Proceed
<1>9. CASE BeginFails(r)
  BY <1>9 DEF BeginFails, Destroy
<1>10. CASE Inserted(r)
  BY <1>10, SendType DEF Inserted
<1>11. CASE NotInserted(r)
  BY <1>11, SendType DEF NotInserted
<1>12. CASE ExactReplay(r)
  BY <1>12, SendType DEF ExactReplay
<1>13. CASE RollBack(r)
  BY <1>13, SendType DEF RollBack
<1>14. CASE Committed(r)
  BY <1>14 DEF Committed, Release
<1>15. CASE CommitFails(r)
  BY <1>15 DEF CommitFails, Destroy
<1>16. CASE RolledBack(r)
  BY <1>16 DEF RolledBack, Release
<1>17. CASE RollbackFails(r)
  BY <1>17 DEF RollbackFails, Destroy, Unsettled
<1>18. CASE GiveUp(r)
  BY <1>18 DEF GiveUp, Destroy, Unsettled
<1>19. CASE Crash(r)
  BY <1>19 DEF Crash
<1> QED
  BY <1>1, <1>2, <1>3, <1>4, <1>5, <1>6, <1>7, <1>8, <1>9, <1>10, <1>11, <1>12,
     <1>13, <1>14, <1>15, <1>16, <1>17, <1>18, <1>19 DEF Store

LEMMA ServerType ==
  ASSUME TypeOK, NEW r \in Requests, Server(r)
  PROVE  TypeOK'
<1> USE DEF TypeOK, callVars, wireVars, Executes, Statements
<1>1. CASE ServerBegins(r)
  BY <1>1 DEF ServerBegins
<1>2. CASE ServerReads(r)
  BY <1>2 DEF ServerReads
<1>3. CASE ServerInserts(r)
  BY <1>3 DEF ServerInserts
<1>4. CASE ServerReadsConflict(r)
  BY <1>4 DEF ServerReadsConflict
<1>5. CASE ServerCommits(r)
  BY <1>5 DEF ServerCommits
<1>6. CASE ServerRollsBack(r)
  BY <1>6 DEF ServerRollsBack
<1>7. CASE ServerFails(r)
  BY <1>7 DEF ServerFails
<1>8. CASE Garble(r)
  BY <1>8 DEF Garble
<1>9. CASE Break(r)
  BY <1>9 DEF Break
<1>10. CASE Disconnect(r)
  BY <1>10 DEF Disconnect
<1> QED
  BY <1>1, <1>2, <1>3, <1>4, <1>5, <1>6, <1>7, <1>8, <1>9, <1>10 DEF Server

LEMMA StepType == TypeOK /\ [Next]_vars => TypeOK'
<1> SUFFICES ASSUME TypeOK, [Next]_vars PROVE TypeOK'
  OBVIOUS
<1>1. CASE Verify \/ Lapse \/ UNCHANGED vars
  BY <1>1 DEF Verify, Lapse, TypeOK, vars, callVars, wireVars
<1> QED
  BY <1>1, StoreType, ServerType DEF Next

LEMMA InitType == Init => TypeOK
<1> SUFFICES ASSUME Init PROVE TypeOK
  OBVIOUS
<1>1. /\ asked \in [Requests -> Claims \cup {NoClaim}]
      /\ rows \subseteq Requests
      /\ answer \in [Requests -> Register!Answers \cup {"none"}]
  BY DEF Init, Register!Init
<1>2. pc \in [Requests -> Places]
  BY DEF Init, Places
<1>3. query \in [Requests -> Statements \cup {"none"}]
  BY DEF Init
<1>4. /\ ready \in BOOLEAN
      /\ result \in [Requests -> {"none", "claimed", "already_claimed", "conflict"}]
      /\ wrote \in [Requests -> BOOLEAN]
  BY DEF Init
<1>5. /\ conn \in [Requests -> {"none", "waiting", "up", "down", "released", "destroyed"}]
      /\ reply \in [Requests -> {"none", "ok", "error", "other", "row", "empty", "exact"}]
      /\ tx \in [Requests -> {"none", "idle", "open", "written", "aborted"}]
  BY DEF Init
<1> QED
  BY <1>1, <1>2, <1>3, <1>4, <1>5 DEF TypeOK
-----------------------------------------------------------------------------
(* A step of one call leaves the others alone.                             *)

Same(q) ==
  /\ pc'[q] = pc[q] /\ asked'[q] = asked[q] /\ answer'[q] = answer[q]
  /\ result'[q] = result[q] /\ wrote'[q] = wrote[q]
  /\ conn'[q] = conn[q] /\ query'[q] = query[q] /\ reply'[q] = reply[q] /\ tx'[q] = tx[q]

Apart(r) == \A q \in Requests : q # r => Same(q)

LEMMA StoreApart ==
  ASSUME TypeOK, NEW r \in Requests, Store(r)
  PROVE  Apart(r) /\ rows' = rows
<1> USE DEF TypeOK, Apart, Same, callVars, wireVars, Goto, Answer
<1>1. ASSUME NEW c \in Claims, Call(r, c) PROVE Apart(r) /\ rows' = rows
  BY <1>1 DEF Call
<1>2. CASE Refuse(r)
  BY <1>2 DEF Refuse
<1>3. CASE Connect(r)
  BY <1>3 DEF Connect
<1>4. CASE Acquired(r)
  BY <1>4 DEF Acquired
<1>5. CASE AcquireFails(r)
  BY <1>5 DEF AcquireFails
<1>6. CASE AcquireTimeout(r)
  BY <1>6 DEF AcquireTimeout
<1>7. CASE LateClient(r)
  BY <1>7 DEF LateClient, Destroy
<1>8. CASE Proceed(r)
  BY <1>8 DEF Proceed, Send
<1>9. CASE BeginFails(r)
  BY <1>9 DEF BeginFails, Destroy
<1>10. CASE Inserted(r)
  BY <1>10 DEF Inserted, Send
<1>11. CASE NotInserted(r)
  BY <1>11 DEF NotInserted, Send
<1>12. CASE ExactReplay(r)
  BY <1>12 DEF ExactReplay, Send
<1>13. CASE RollBack(r)
  BY <1>13 DEF RollBack, Send
<1>14. CASE Committed(r)
  BY <1>14 DEF Committed, Release
<1>15. CASE CommitFails(r)
  BY <1>15 DEF CommitFails, Destroy
<1>16. CASE RolledBack(r)
  BY <1>16 DEF RolledBack, Release
<1>17. CASE RollbackFails(r)
  BY <1>17 DEF RollbackFails, Destroy
<1>18. CASE GiveUp(r)
  BY <1>18 DEF GiveUp, Destroy
<1>19. CASE Crash(r)
  BY <1>19 DEF Crash
<1> QED
  BY <1>1, <1>2, <1>3, <1>4, <1>5, <1>6, <1>7, <1>8, <1>9, <1>10, <1>11, <1>12, <1>13, <1>14, <1>15, <1>16, <1>17, <1>18, <1>19 DEF Store

LEMMA ServerApart ==
  ASSUME TypeOK, NEW r \in Requests, Server(r)
  PROVE  Apart(r) /\ rows \subseteq rows' /\ rows' \subseteq rows \cup {r} /\ UNCHANGED asked
<1> USE DEF TypeOK, Apart, Same, callVars, wireVars, Executes
<1>1. CASE ServerBegins(r)
  BY <1>1 DEF ServerBegins
<1>2. CASE ServerReads(r)
  BY <1>2 DEF ServerReads
<1>3. CASE ServerInserts(r)
  BY <1>3 DEF ServerInserts
<1>4. CASE ServerReadsConflict(r)
  BY <1>4 DEF ServerReadsConflict
<1>5. CASE ServerCommits(r)
  BY <1>5 DEF ServerCommits
<1>6. CASE ServerRollsBack(r)
  BY <1>6 DEF ServerRollsBack
<1>7. CASE ServerFails(r)
  BY <1>7 DEF ServerFails
<1>8. CASE Garble(r)
  BY <1>8 DEF Garble
<1>9. CASE Break(r)
  BY <1>9 DEF Break
<1>10. CASE Disconnect(r)
  BY <1>10 DEF Disconnect
<1> QED
  BY <1>1, <1>2, <1>3, <1>4, <1>5, <1>6, <1>7, <1>8, <1>9, <1>10 DEF Server

(* A call asks once. *)
LEMMA StoreAsked ==
  ASSUME TypeOK, NEW r \in Requests, Store(r), pc[r] # "idle"
  PROVE  UNCHANGED asked
BY DEF Store, Call, Refuse, Connect, Acquired, AcquireFails, AcquireTimeout, LateClient,
       Proceed, BeginFails, Inserted, NotInserted, ExactReplay, RollBack, Committed,
       CommitFails, RolledBack, RollbackFails, GiveUp, Crash, callVars

(* What was recorded and asked stays. *)
Lasting(r) ==
  /\ rows \subseteq rows' /\ rows' \subseteq rows \cup {r}
  /\ \A q \in rows : asked'[q] = asked[q]
  /\ pc[r] # "idle" => asked' = asked

LEMMA StepLasting ==
  ASSUME IInv, NEW r \in Requests, Store(r) \/ Server(r)
  PROVE  Lasting(r)
<1>1. CASE Server(r)
  BY <1>1, ServerApart DEF Lasting, IInv
<1>2. CASE Store(r)
  <2>1. rows' = rows /\ \A q \in Requests : q # r => asked'[q] = asked[q]
    BY <1>2, StoreApart DEF IInv, Apart, Same
  <2>2. r \in rows => pc[r] # "idle"
    BY DEF IInv, CallInv, Recorded
  <2>3. pc[r] # "idle" => asked' = asked
    BY <1>2, StoreAsked DEF IInv
  <2> QED
    BY <2>1, <2>2, <2>3 DEF Lasting, IInv, TypeOK
<1> QED
  BY <1>1, <1>2

LEMMA EvidenceLasts ==
  ASSUME IInv, NEW r \in Requests, Lasting(r), NEW q \in Requests, asked'[q] = asked[q]
  PROVE  /\ Copied(q) => Copied(q)'
         /\ Rivals(q) # {} => Rivals(q)' # {}
<1>1. Copied(q) => Copied(q)'
  BY DEF Copied, Lasting
<1>2. ASSUME NEW p \in Rivals(q) PROVE p \in Rivals(q)'
  BY DEF Rivals, Clash, Register!Clash, Lasting
<1> QED
  BY <1>1, <1>2

LEMMA OthersKeep ==
  ASSUME IInv, NEW r \in Requests, NEW q \in Requests, q # r, Same(q), Lasting(r)
  PROVE  CallInv(q)'
<1> USE DEF Same, IInv, CallInv
<1>1. q \in rows <=> q \in rows'
  BY DEF Lasting
<1>2. Untouched(q)' /\ Awaiting(q)'
  BY DEF Untouched, Awaiting
<1>3. Writing(q)' /\ Recorded(q)'
  BY <1>1 DEF Writing, Recorded
<1>4. /\ Copied(q) => Copied(q)'
      /\ Rivals(q) # {} => Rivals(q)' # {}
  BY EvidenceLasts
<1>5. Replied(q)'
  BY <1>1, <1>4 DEF Replied
<1>6. Established(q)'
  BY <1>1, <1>4 DEF Established
<1> QED
  BY <1>2, <1>3, <1>5, <1>6


-----------------------------------------------------------------------------
(* A call's own step keeps what its place says.                            *)

LEMMA StoreKeeps ==
  ASSUME IInv, NEW r \in Requests, Store(r)
  PROVE  CallInv(r)'
<1> USE DEF IInv, TypeOK, CallInv, callVars, wireVars, Goto, Answer, CheckedOut, Statements, Open,
            Untouched, Awaiting, Writing, Recorded, Replied, Established
<1>0. pc[r] # "idle" => /\ Copied(r) => Copied(r)'
                        /\ Rivals(r) # {} => Rivals(r)' # {}
  BY StepLasting, EvidenceLasts DEF Lasting
<1>1. ASSUME NEW c \in Claims, Call(r, c) PROVE CallInv(r)'
  BY <1>1, NoClaimAssumption DEF Call
<1>2. CASE Refuse(r)
  BY <1>0, <1>2 DEF Refuse
<1>3. CASE Connect(r)
  BY <1>0, <1>3 DEF Connect
<1>4. CASE Acquired(r)
  BY <1>0, <1>4 DEF Acquired
<1>5. CASE AcquireFails(r)
  BY <1>0, <1>5 DEF AcquireFails
<1>6. CASE AcquireTimeout(r)
  BY <1>0, <1>6 DEF AcquireTimeout
<1>7. CASE LateClient(r)
  BY <1>0, <1>7 DEF LateClient, Destroy
<1>8. CASE Proceed(r)
  BY <1>0, <1>8 DEF Proceed, Send
<1>9. CASE BeginFails(r)
  BY <1>0, <1>9 DEF BeginFails, Destroy
<1>10. CASE Inserted(r)
  BY <1>0, <1>10 DEF Inserted, Send
<1>11. CASE NotInserted(r)
  BY <1>0, <1>11 DEF NotInserted, Send
<1>12. CASE ExactReplay(r)
  BY <1>0, <1>12 DEF ExactReplay, Send
<1>13. CASE RollBack(r)
  BY <1>0, <1>13 DEF RollBack, Send
<1>14. CASE Committed(r)
  BY <1>0, <1>14 DEF Committed, Release
<1>15. CASE CommitFails(r)
  BY <1>0, <1>15 DEF CommitFails, Destroy
<1>16. CASE RolledBack(r)
  BY <1>0, <1>16 DEF RolledBack, Release
<1>17. CASE RollbackFails(r)
  BY <1>0, <1>17 DEF RollbackFails, Destroy, Unsettled
<1>18. CASE GiveUp(r)
  BY <1>0, <1>18 DEF GiveUp, Destroy, Unsettled
<1>19. CASE Crash(r)
  BY <1>0, <1>19 DEF Crash
<1> QED
  BY <1>1, <1>2, <1>3, <1>4, <1>5, <1>6, <1>7, <1>8, <1>9, <1>10, <1>11, <1>12, <1>13, <1>14, <1>15, <1>16, <1>17, <1>18, <1>19 DEF Store

LEMMA ServerKeeps ==
  ASSUME IInv, NEW r \in Requests, Server(r)
  PROVE  CallInv(r)'
<1> USE DEF IInv, TypeOK, CallInv, callVars, wireVars, Executes, CheckedOut, Statements, Open,
            Untouched, Awaiting, Writing, Recorded, Replied, Established
<1>0. /\ Copied(r) => Copied(r)'
      /\ Rivals(r) # {} => Rivals(r)' # {}
  BY StepLasting, EvidenceLasts, ServerApart
<1>1. CASE ServerBegins(r)
  BY <1>0, <1>1 DEF ServerBegins
<1>2. CASE ServerReads(r)
  BY <1>0, <1>2 DEF ServerReads
<1>3. CASE ServerInserts(r)
  BY <1>0, <1>3 DEF ServerInserts
<1>4. CASE ServerReadsConflict(r)
  <2>1. (\E q \in rows : Rivals(r) = {q} /\ asked[q] = asked[r]) => Copied(r)
    BY DEF Copied
  <2> QED
    BY <1>0, <1>4, <2>1 DEF ServerReadsConflict
<1>5. CASE ServerCommits(r)
  BY <1>0, <1>5 DEF ServerCommits
<1>6. CASE ServerRollsBack(r)
  BY <1>0, <1>6 DEF ServerRollsBack
<1>7. CASE ServerFails(r)
  BY <1>0, <1>7 DEF ServerFails
<1>8. CASE Garble(r)
  BY <1>0, <1>8 DEF Garble
<1>9. CASE Break(r)
  BY <1>0, <1>9 DEF Break
<1>10. CASE Disconnect(r)
  BY <1>0, <1>10 DEF Disconnect
<1> QED
  BY <1>1, <1>2, <1>3, <1>4, <1>5, <1>6, <1>7, <1>8, <1>9, <1>10 DEF Server

(* Only an insert makes a call hold its keys, and only while no rival holds *)
(* any of them.                                                             *)
LEMMA StoreHolds ==
  ASSUME TypeOK, NEW r \in Requests, Store(r)
  PROVE  tx' = tx \/ (pc[r] = "connect" /\ tx' = [tx EXCEPT ![r] = "idle"])
BY DEF Store, Call, Refuse, Connect, Acquired, AcquireFails, AcquireTimeout, LateClient,
       Proceed, BeginFails, Inserted, NotInserted, ExactReplay, RollBack, Committed,
       CommitFails, RolledBack, RollbackFails, GiveUp, Crash

LEMMA ServerHolds ==
  ASSUME IInv, NEW r \in Requests, Server(r), ~ServerInserts(r)
  PROVE  \A q \in Requests : Holds(q)' => Holds(q)
<1> USE DEF IInv, TypeOK, Holds, Executes
<1>1. CASE ServerCommits(r)
  BY <1>1 DEF ServerCommits
<1>2. CASE rows' = rows /\ \A q \in Requests : tx'[q] = "written" => tx[q] = "written"
  BY <1>2
<1> QED
  BY <1>1, <1>2 DEF Server, ServerBegins, ServerReads, ServerReadsConflict,
       ServerRollsBack, ServerFails, Garble, Break, Disconnect

(* Whoever holds keys has asked, and what it asked does not change. *)
LEMMA HoldersAsked ==
  ASSUME IInv, NEW r \in Requests, Store(r) \/ Server(r), NEW q \in Requests, Holds(q)
  PROVE  asked'[q] = asked[q]
<1>1. pc[q] # "idle"
  BY DEF Holds, IInv, CallInv, Recorded, Writing
<1>2. CASE q = r
  BY <1>1, <1>2, StepLasting DEF Lasting
<1>3. CASE q # r
  BY <1>3, StoreApart, ServerApart DEF IInv, Apart, Same
<1> QED
  BY <1>2, <1>3

LEMMA ExclusiveKept ==
  ASSUME IInv, NEW r \in Requests, Store(r) \/ Server(r)
  PROVE  Exclusive'
<1> USE DEF IInv
<1>1. ASSUME \A q \in Requests : Holds(q)' => Holds(q)
      PROVE  Exclusive'
  <2> SUFFICES ASSUME NEW p \in Requests, NEW q \in Requests, Holds(p)', Holds(q)', p # q
               PROVE  ~Clash(p, q)'
    BY DEF Exclusive
  <2>1. ~Clash(p, q)
    BY <1>1 DEF Exclusive
  <2>2. asked'[p] = asked[p] /\ asked'[q] = asked[q]
    BY <1>1, HoldersAsked
  <2> QED
    BY <2>1, <2>2 DEF Clash, Register!Clash
<1>2. CASE Store(r)
  BY <1>1, <1>2, StoreHolds, StoreApart DEF Holds, TypeOK
<1>3. CASE ServerInserts(r)
  <2>1. \A q \in Requests : Holds(q)' => Holds(q) \/ q = r
    BY <1>3 DEF ServerInserts, Executes, Holds, TypeOK
  <2>2. UNCHANGED asked
    BY <1>3 DEF ServerInserts, Executes, callVars
  <2>3. Holds(r)' => Holds(r) \/ \A q \in Requests : Holds(q) => ~Clash(r, q)
    BY <1>3 DEF ServerInserts, Executes, Holds, Rivals, TypeOK
  <2>4. \A p, q \in Requests : /\ Clash(p, q)' = Clash(p, q)
                              /\ Clash(p, q) = Clash(q, p)
    BY <2>2 DEF Clash, Register!Clash
  <2> QED
    BY <2>1, <2>3, <2>4 DEF Exclusive
<1>4. CASE Server(r) /\ ~ServerInserts(r)
  BY <1>1, <1>4, ServerHolds
<1> QED
  BY <1>2, <1>3, <1>4

LEMMA InitInv == Init => IInv
<1> SUFFICES ASSUME Init PROVE IInv
  OBVIOUS
<1>1. TypeOK
  BY InitType
<1>2. ASSUME NEW r \in Requests PROVE CallInv(r)
  BY DEF Init, Register!Init, CallInv, Untouched, Awaiting, Writing, Recorded, Replied,
         Established, CheckedOut, Statements
<1>3. Exclusive
  BY DEF Init, Register!Init, Exclusive, Holds
<1> QED
  BY <1>1, <1>2, <1>3 DEF IInv

LEMMA StepInv == IInv /\ [Next]_vars => IInv'
<1> SUFFICES ASSUME IInv, [Next]_vars PROVE IInv'
  OBVIOUS
<1>1. TypeOK'
  BY StepType DEF IInv
<1>2. ASSUME NEW r \in Requests, Store(r) \/ Server(r) PROVE IInv'
  <2>1. ASSUME NEW q \in Requests PROVE CallInv(q)'
    <3>1. CASE q = r
      BY <1>2, <3>1, StoreKeeps, ServerKeeps
    <3>2. CASE q # r
      <4>1. Same(q)
        BY <1>2, <3>2, StoreApart, ServerApart DEF IInv, Apart
      <4> QED
        BY <1>2, <3>2, <4>1, StepLasting, OthersKeep
    <3> QED
      BY <3>1, <3>2
  <2> QED
    BY <1>1, <1>2, <2>1, ExclusiveKept DEF IInv
<1>3. CASE Verify \/ Lapse \/ UNCHANGED vars
  <2>1. UNCHANGED <<callVars, wireVars, rows, tx>>
    BY <1>3 DEF Verify, Lapse, vars
  <2>2. ASSUME NEW r \in Requests PROVE CallInv(r)'
    BY <2>1 DEF IInv, CallInv, callVars, wireVars, Untouched, Awaiting, Writing, Recorded,
         Replied, Established, Copied, Rivals, Clash, Register!Clash
  <2>3. Exclusive'
    BY <2>1 DEF IInv, Exclusive, Holds, callVars, Clash, Register!Clash
  <2> QED
    BY <1>1, <2>2, <2>3 DEF IInv
<1> QED
  BY <1>2, <1>3 DEF Next

(* The inductive invariant holds in every reachable state, whatever the    *)
(* server and the network do; types are its first part.                    *)
THEOREM TypeCorrect == Spec => [](TypeOK /\ IInv)
<1>1. IInv => TypeOK
  BY DEF IInv
<1> QED
  BY <1>1, InitInv, StepInv, PTL DEF Spec

(* Of calls whose claims share a unique key at most one is told "claimed": *)
(* only then may the browser prompt for the grant (altana-grant.ts:766).   *)
THEOREM AtMostOneClaimedHolds == Spec => []AtMostOneClaimed
<1>1. IInv => AtMostOneClaimed
  BY DEF IInv, CallInv, Replied, Exclusive, Holds, AtMostOneClaimed
<1> QED
  BY <1>1, InitInv, StepInv, PTL DEF Spec

(* A client goes back to the pool only outside a transaction.              *)
THEOREM CleanReleaseHolds == Spec => []CleanRelease
<1>1. IInv => CleanRelease
  BY DEF IInv, CallInv, Awaiting, CleanRelease
<1> QED
  BY <1>1, InitInv, StepInv, PTL DEF Spec

(* A call that has ended, by a timeout or a crash too, keeps no client.    *)
THEOREM NoLeakHolds == Spec => []NoLeak
<1>1. IInv => NoLeak
  BY DEF IInv, CallInv, Awaiting, NoLeak, CheckedOut, Statements
<1> QED
  BY <1>1, InitInv, StepInv, PTL DEF Spec

-----------------------------------------------------------------------------
(* The store implements its register.                                      *)

(* To answer the truth is a step of the register. *)
Told(r, a) == answer' = [answer EXCEPT ![r] = a] /\ UNCHANGED <<asked, rows>>

LEMMA TruthRefines ==
  ASSUME IInv, NEW r \in Requests, pc[r] \notin {"idle", "done"},
         NEW a \in Register!Answers, Told(r, a), Register!True(r, a)
  PROVE  Register!Next
<1>1. asked[r] # NoClaim /\ answer[r] = "none"
  BY DEF IInv, TypeOK, CallInv, Awaiting
<1> QED
  BY <1>1 DEF Register!Next, Register!Answer, Told

(* A claim not yet committed may be denied, for good.                      *)
LEMMA DenialRefines ==
  ASSUME IInv, NEW r \in Requests, pc[r] \notin {"idle", "done", "commit", "crashed"},
         NEW a \in {"not_attempted", "rolled_back"}, Told(r, a)
  PROVE  Register!Next
<1>1. r \notin rows
  BY DEF IInv, CallInv, Recorded
<1>2. a \in Register!Answers /\ Register!True(r, a)
  BY <1>1 DEF Register!Answers, Register!Denials, Register!True
<1> QED
  BY <1>2, TruthRefines

LEMMA UnknownRefines ==
  ASSUME IInv, NEW r \in Requests, pc[r] \notin {"idle", "done"}, Told(r, "unknown")
  PROVE  Register!Next
<1>1. "unknown" \in Register!Answers /\ Register!True(r, "unknown")
  BY DEF Register!Answers, Register!Denials, Register!True
<1> QED
  BY <1>1, TruthRefines

LEMMA StoreRefines ==
  ASSUME IInv, NEW r \in Requests, Store(r)
  PROVE  Register!Next \/ UNCHANGED Register!vars
<1> USE DEF callVars, Goto, Answer, Told
<1>1. ASSUME NEW c \in Claims, Call(r, c) PROVE Register!Next
  <2>1. asked[r] = NoClaim
    BY <1>1 DEF Call, IInv, CallInv, Awaiting
  <2> QED
    BY <1>1, <2>1 DEF Call, Register!Next, Register!Ask
<1>2. CASE Refuse(r) \/ AcquireFails(r) \/ AcquireTimeout(r) \/ BeginFails(r)
  BY <1>2, DenialRefines DEF Refuse, AcquireFails, AcquireTimeout, BeginFails
<1>3. CASE Committed(r)
  <2>1. Told(r, result[r]) /\ pc[r] = "commit" /\ reply[r] = "ok"
    BY <1>3 DEF Committed
  <2>2. CASE result[r] = "claimed"
    <3>1. r \in rows
      BY <2>1, <2>2 DEF IInv, CallInv, Replied
    <3>2. result[r] \in Register!Answers /\ Register!True(r, result[r])
      BY <2>2, <3>1 DEF Register!Answers, Register!Denials, Register!True
    <3> QED
      BY <2>1, <3>2, TruthRefines
  <2>3. CASE result[r] = "already_claimed"
    <3>1. r \notin rows /\ Copied(r)
      BY <2>3 DEF IInv, CallInv, Established
    <3>2. result[r] \in Register!Answers /\ Register!True(r, result[r])
      BY <2>3, <3>1 DEF Register!Answers, Register!Denials, Register!True, Copied
    <3> QED
      BY <2>1, <3>2, TruthRefines
  <2> QED
    BY <2>1, <2>2, <2>3 DEF IInv, CallInv, Replied
<1>4. CASE CommitFails(r)
  BY <1>4, UnknownRefines DEF CommitFails
<1>5. CASE RolledBack(r)
  <2>1. pc[r] = "rollback"
    BY <1>5 DEF RolledBack
  <2>2. CASE result[r] = "conflict"
    <3>1. r \notin rows /\ Rivals(r) # {}
      BY <2>2 DEF IInv, CallInv, Established
    <3>2. "conflict" \in Register!Answers /\ Register!True(r, "conflict")
      BY <3>1 DEF Register!Answers, Register!Denials, Register!True, Rivals, Clash
    <3>3. Told(r, "conflict")
      BY <1>5, <2>2 DEF RolledBack
    <3> QED
      BY <2>1, <3>2, <3>3, TruthRefines
  <2>3. CASE result[r] # "conflict"
    <3>1. Told(r, "rolled_back") \/ Told(r, "not_attempted")
      BY <1>5, <2>3 DEF RolledBack
    <3> QED
      BY <2>1, <3>1, DenialRefines
  <2> QED
    BY <2>2, <2>3
<1>6. CASE RollbackFails(r) \/ GiveUp(r)
  <2>1. Told(r, Unsettled(r)) /\ pc[r] \in Statements
    BY <1>6 DEF RollbackFails, GiveUp, Statements
  <2>2. CASE wrote[r]
    BY <2>1, <2>2, UnknownRefines DEF Unsettled, Statements
  <2>3. CASE ~wrote[r]
    <3>1. pc[r] # "commit"
      BY <2>3 DEF IInv, CallInv, Replied
    <3> QED
      BY <2>1, <2>3, <3>1, DenialRefines DEF Unsettled, Statements
  <2> QED
    BY <2>2, <2>3
<1>7. CASE Connect(r) \/ Acquired(r) \/ LateClient(r) \/ Proceed(r) \/ Inserted(r)
             \/ NotInserted(r) \/ ExactReplay(r) \/ RollBack(r) \/ Crash(r)
  BY <1>7 DEF Connect, Acquired, LateClient, Proceed, Inserted, NotInserted, ExactReplay,
       RollBack, Crash, Register!vars
<1> QED
  BY <1>1, <1>2, <1>3, <1>4, <1>5, <1>6, <1>7 DEF Store

(* A row is recorded by its COMMIT, while no recorded row clashes with it. *)
LEMMA ServerRefines ==
  ASSUME IInv, NEW r \in Requests, Server(r)
  PROVE  Register!Next \/ UNCHANGED Register!vars
<1> USE DEF callVars, Executes, Register!vars
<1>1. CASE ServerCommits(r) /\ tx[r] = "written"
  <2>1. asked[r] # NoClaim /\ answer[r] \in Open /\ r \notin rows
    BY <1>1 DEF IInv, CallInv, Writing, Awaiting
  <2>2. \A q \in rows : ~Clash(r, q)
    BY <1>1, <2>1 DEF IInv, TypeOK, Exclusive, Holds
  <2> QED
    BY <1>1, <2>1, <2>2 DEF ServerCommits, Register!Next, Register!Record, Open, Clash
<1>2. CASE ServerCommits(r) /\ tx[r] # "written"
  BY <1>2 DEF ServerCommits
<1>3. CASE ~ServerCommits(r)
  BY <1>3 DEF Server, ServerBegins, ServerReads, ServerInserts, ServerReadsConflict,
       ServerRollsBack, ServerFails, Garble, Break, Disconnect
<1> QED
  BY <1>1, <1>2, <1>3

(* Every answer is true when it is given and stays true: what was denied   *)
(* is never recorded later, although abandoned statements may still be     *)
(* executed, and what was reported claimed is recorded.                    *)
THEOREM RegisterImplemented == Spec => ImplementsRegister
<1>1. Init => Register!Init
  BY DEF Init
<1>2. IInv /\ [Next]_vars => [Register!Next]_Register!vars
  <2> SUFFICES ASSUME IInv, [Next]_vars PROVE Register!Next \/ UNCHANGED Register!vars
    OBVIOUS
  <2>1. CASE Verify \/ Lapse \/ UNCHANGED vars
    BY <2>1 DEF Verify, Lapse, vars, callVars, Register!vars
  <2> QED
    BY <2>1, StoreRefines, ServerRefines DEF Next
<1> QED
  BY <1>1, <1>2, InitInv, StepInv, PTL DEF Spec, ImplementsRegister, Register!Spec

-----------------------------------------------------------------------------
(* What the register promises: its answers stay true, whoever implements   *)
(* it.                                                                     *)

(* A call that was answered, or is recorded, has asked. *)
Kept ==
  /\ asked \in [Requests -> Claims \cup {NoClaim}]
  /\ answer \in [Requests -> Register!Answers \cup {"none"}]
  /\ rows \subseteq Requests
  /\ \A r \in Requests : answer[r] # "none" \/ r \in rows => asked[r] # NoClaim
  /\ AnswersTrue

LEMMA RegisterStarts == Register!Init => Kept
  BY DEF Register!Init, Kept, AnswersTrue

(* A claim asked for changes the truth of no answer, for whoever has an    *)
(* answer or a row has asked already.                                      *)
LEMMA AskKeeps ==
  ASSUME Kept, NEW r \in Requests, NEW c \in Claims, Register!Ask(r, c)
  PROVE  Kept'
<1>1. answer[r] = "none" /\ r \notin rows
  BY DEF Kept, Register!Ask
<1>2. /\ asked' \in [Requests -> Claims \cup {NoClaim}]
      /\ \A q \in Requests : q # r => asked'[q] = asked[q]
      /\ asked'[r] = c /\ c # NoClaim
      /\ UNCHANGED <<rows, answer>>
  BY NoClaimAssumption DEF Kept, Register!Ask
<1>3. ASSUME NEW q \in Requests, answer[q] # "none" PROVE Register!True(q, answer[q])'
  <2>1. q # r /\ Register!True(q, answer[q])
    BY <1>1, <1>3 DEF Kept, AnswersTrue
  <2>2. \A p \in rows : p # r /\ p \in Requests
    BY <1>1 DEF Kept
  <2> QED
    BY <1>2, <2>1, <2>2 DEF Register!True, Register!Clash
<1> QED
  BY <1>1, <1>2, <1>3 DEF Kept, AnswersTrue

(* Only a call told nothing, or that nothing is known, is recorded. *)
LEMMA RecordKeeps ==
  ASSUME Kept, NEW r \in Requests, Register!Record(r)
  PROVE  Kept'
<1>1. /\ rows' = rows \cup {r}
      /\ asked[r] # NoClaim /\ answer[r] \in Open
      /\ UNCHANGED <<asked, answer>>
  BY DEF Register!Record, Open
<1>2. ASSUME NEW q \in Requests, answer[q] # "none" PROVE Register!True(q, answer[q])'
  <2>1. Register!True(q, answer[q])
    BY <1>2 DEF Kept, AnswersTrue
  <2>2. CASE q = r
    BY <1>1, <1>2, <2>2 DEF Register!True, Register!Denials, Open
  <2>3. CASE q # r
    BY <1>1, <2>1, <2>3 DEF Register!True, Register!Clash
  <2> QED
    BY <2>2, <2>3
<1> QED
  BY <1>1, <1>2 DEF Kept, AnswersTrue

LEMMA AnswerKeeps ==
  ASSUME Kept, NEW r \in Requests, NEW a \in Register!Answers, Register!Answer(r, a)
  PROVE  Kept'
<1>1. /\ answer' \in [Requests -> Register!Answers \cup {"none"}]
      /\ answer'[r] = a /\ \A q \in Requests : q # r => answer'[q] = answer[q]
      /\ asked[r] # NoClaim /\ Register!True(r, a)
      /\ UNCHANGED <<asked, rows>>
  BY DEF Kept, Register!Answer
<1>2. ASSUME NEW q \in Requests, answer'[q] # "none" PROVE Register!True(q, answer[q])'
  BY <1>1, <1>2 DEF Kept, AnswersTrue, Register!True, Register!Clash
<1> QED
  BY <1>1, <1>2 DEF Kept, AnswersTrue

LEMMA RegisterKeeps == Kept /\ [Register!Next]_Register!vars => Kept'
<1> SUFFICES ASSUME Kept, Register!Next \/ UNCHANGED Register!vars PROVE Kept'
  OBVIOUS
<1>1. CASE UNCHANGED Register!vars
  BY <1>1 DEF Register!vars, Kept, AnswersTrue, Register!True, Register!Clash
<1> QED
  BY <1>1, AskKeeps, RecordKeeps, AnswerKeeps DEF Register!Next

(* The register keeps its answers true, and the store is a register: what  *)
(* a caller was told stays so, however late the abandoned statements of    *)
(* its transaction are executed.                                           *)
THEOREM AnswersTrueHolds == Spec => []AnswersTrue
<1>1. Kept => AnswersTrue
  BY DEF Kept
<1> QED
  BY <1>1, RegisterStarts, RegisterKeeps, RegisterImplemented, PTL
     DEF ImplementsRegister, Register!Spec

-----------------------------------------------------------------------------
(* No statement is tried twice.                                            *)

Forward(r) ==
  /\ pc'[r] # pc[r] => Stage(pc[r]) < Stage(pc'[r])
  /\ answer[r] # "none" => answer'[r] = answer[r]

LEMMA StoreForward ==
  ASSUME TypeOK, NEW r \in Requests, Awaiting(r), Store(r)
  PROVE  Forward(r)
<1> USE DEF TypeOK, Forward, Stage, Goto, Answer
<1>1. pc[r] # "done" => answer[r] = "none"
  BY DEF Awaiting
<1>2. ASSUME NEW c \in Claims, Call(r, c) PROVE Forward(r)
  BY <1>2 DEF Call
<1>3. CASE Refuse(r) \/ Connect(r)
  BY <1>1, <1>3 DEF Refuse, Connect
<1>4. CASE Acquired(r) \/ AcquireFails(r) \/ AcquireTimeout(r)
  BY <1>1, <1>4 DEF Acquired, AcquireFails, AcquireTimeout
<1>5. CASE LateClient(r)
  BY <1>5 DEF LateClient, callVars
<1>6. CASE Proceed(r)
  BY <1>6 DEF Proceed, Send
<1>7. CASE BeginFails(r)
  BY <1>1, <1>7 DEF BeginFails
<1>8. CASE Inserted(r) \/ NotInserted(r) \/ ExactReplay(r)
  BY <1>8 DEF Inserted, NotInserted, ExactReplay, Send
<1>9. CASE RollBack(r)
  BY <1>9 DEF RollBack, Send
<1>10. CASE Committed(r) \/ CommitFails(r)
  BY <1>1, <1>10 DEF Committed, CommitFails
<1>11. CASE RolledBack(r) \/ RollbackFails(r)
  BY <1>1, <1>11 DEF RolledBack, RollbackFails
<1>12. CASE GiveUp(r)
  BY <1>1, <1>12 DEF GiveUp, Statements
<1>13. CASE Crash(r)
  BY <1>13 DEF Crash, Places, Statements
<1> QED
  BY <1>2, <1>3, <1>4, <1>5, <1>6, <1>7, <1>8, <1>9, <1>10, <1>11, <1>12, <1>13 DEF Store

(* Whatever fails, times out or is late, no call sends a statement a       *)
(* second time and none is answered twice (AltanaClaim!NoRetry).           *)
THEOREM NoRetryHolds == Spec => NoRetry
<1>1. ASSUME IInv, [Next]_vars, NEW q \in Requests PROVE Forward(q)
  <2>1. ASSUME Same(q) PROVE Forward(q)
    BY <2>1 DEF Same, Forward
  <2>2. CASE Verify \/ Lapse \/ UNCHANGED vars
    BY <2>2 DEF Verify, Lapse, vars, callVars, Forward
  <2>3. ASSUME NEW r \in Requests, r # q, Store(r) \/ Server(r) PROVE Forward(q)
    BY <1>1, <2>1, <2>3, StoreApart, ServerApart DEF IInv, Apart
  <2>4. CASE Store(q)
    BY <1>1, <2>4, StoreForward DEF IInv, CallInv
  <2>5. CASE Server(q)
    BY <2>5 DEF Server, ServerBegins, ServerReads, ServerInserts, ServerReadsConflict,
         ServerCommits, ServerRollsBack, ServerFails, Garble, Break, Disconnect, Executes,
         callVars, Forward
  <2> QED
    BY <1>1, <2>2, <2>3, <2>4, <2>5 DEF Next
<1>2. IInv /\ [Next]_vars => [\A r \in Requests :
                               /\ pc'[r] # pc[r] => Stage(pc[r]) < Stage(pc'[r])
                               /\ answer[r] # "none" => answer'[r] = answer[r]]_vars
  BY <1>1 DEF Forward
<1> QED
  BY <1>2, InitInv, StepInv, PTL DEF Spec, NoRetry
=============================================================================
