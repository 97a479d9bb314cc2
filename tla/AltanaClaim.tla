---------------------------- MODULE AltanaClaim ----------------------------
(***************************************************************************)
(* The PostgreSQL grant-claim store: claimSubmission runs one fixed        *)
(* transaction (BEGIN, settings, receipt, INSERT ON CONFLICT DO NOTHING,   *)
(* conflict read, COMMIT) on one pooled client, every await bounded by a   *)
(* timer. The server executes a statement some time after it was sent, its *)
(* reply may be late, lost or unreadable, and a statement of a client that *)
(* has been destroyed may still be executed.                               *)
(***************************************************************************)
EXTENDS FiniteSets, Naturals

CONSTANTS Requests,       \* calls of claimSubmission
          Claims,         \* what a call may ask for
          Keys, KeysOf,   \* the values of the four unique columns each claim has
          NoClaim,
          MaxConnections  \* the size of the pool

ASSUME KeysAssumption == KeysOf \in [Claims -> (SUBSET Keys) \ {{}}]
ASSUME NoClaimAssumption == NoClaim \notin Claims
ASSUME ConnectionsAssumption == MaxConnections \in Nat \ {0}

VARIABLES asked,   \* the claim of each call
          rows,    \* the calls whose INSERT is committed
          answer,  \* what each call returned, or the claimOutcome it threw
          ready,   \* whether the pool has a fresh verification capability
          pc,      \* what each call awaits
          result,  \* what its statements have established
          wrote,   \* writeAttempted
          conn,    \* its pooled client
          query,   \* the statement the server has yet to execute for it
          reply,   \* the server's reply, not yet delivered
          tx       \* its transaction at the server

callVars == <<asked, pc, result, wrote, answer>>
wireVars == <<conn, query, reply>>
vars == <<callVars, wireVars, rows, tx, ready>>

Register == INSTANCE AltanaClaimRegister

Statements == {"begin", "settings", "receipt", "insert", "conflict", "commit", "rollback"}
Places == Statements \cup {"idle", "check", "connect", "done", "crashed"}
CheckedOut == {"up", "down"}

Clash(r, q) == Register!Clash(r, q)

(* The committed claims that have a key of r's claim. *)
Rivals(r) == {q \in rows : Clash(r, q)}

Init ==
  /\ Register!Init
  /\ ready = FALSE
  /\ pc = [r \in Requests |-> "idle"]
  /\ result = [r \in Requests |-> "none"]
  /\ wrote = [r \in Requests |-> FALSE]
  /\ conn = [r \in Requests |-> "none"]
  /\ query = [r \in Requests |-> "none"]
  /\ reply = [r \in Requests |-> "none"]
  /\ tx = [r \in Requests |-> "none"]

-----------------------------------------------------------------------------
(* Steps of the store.                                                     *)

Goto(r, place) == pc' = [pc EXCEPT ![r] = place]
Answer(r, a) == Goto(r, "done") /\ answer' = [answer EXCEPT ![r] = a]

(* Faulty variant: a timeout taken for a rollback. *)
AssumeRolledBack(r) == IF wrote[r] THEN "rolled_back" ELSE "not_attempted"

(* The only claim a statement that was never acknowledged can support. *)
Unsettled(r) == IF wrote[r] THEN "unknown" ELSE "not_attempted"

(* client.query: on a broken connection it rejects at once. *)
Send(r, s) ==
  /\ Goto(r, s)
  /\ IF conn[r] = "up"
       THEN /\ query' = [query EXCEPT ![r] = s]
            /\ reply' = [reply EXCEPT ![r] = "none"]
       ELSE /\ reply' = [reply EXCEPT ![r] = "error"]
            /\ UNCHANGED query

Release(r) == conn' = [conn EXCEPT ![r] = "released"]
Destroy(r) == conn' = [conn EXCEPT ![r] = "destroyed"]

(* verifyReadiness binds a capability; its expiry, an idle error of the    *)
(* pool, a failed verification and close take it away.                     *)
Verify == ~ready /\ ready' = TRUE /\ UNCHANGED <<callVars, wireVars, rows, tx>>
Lapse == ready /\ ready' = FALSE /\ UNCHANGED <<callVars, wireVars, rows, tx>>

Call(r, c) ==
  /\ pc[r] = "idle"
  /\ asked' = [asked EXCEPT ![r] = c]
  /\ Goto(r, "check")
  /\ UNCHANGED <<wireVars, rows, tx, ready, result, wrote, answer>>

Refuse(r) ==
  /\ pc[r] = "check"
  /\ ~ready
  /\ Answer(r, "not_attempted")
  /\ UNCHANGED <<wireVars, rows, tx, ready, asked, result, wrote>>

Connect(r) ==
  /\ pc[r] = "check"
  /\ ready
  /\ Goto(r, "connect")
  /\ conn' = [conn EXCEPT ![r] = "waiting"]
  /\ UNCHANGED <<query, reply, rows, tx, ready, asked, result, wrote, answer>>

(* The pool hands out a client while it has one to spare. *)
HasClient(r) ==
  /\ conn[r] = "waiting"
  /\ Cardinality({q \in Requests : conn[q] \in CheckedOut}) < MaxConnections

Acquired(r) ==
  /\ pc[r] = "connect"
  /\ HasClient(r)
  /\ conn' = [conn EXCEPT ![r] = "up"]
  /\ tx' = [tx EXCEPT ![r] = "idle"]
  /\ query' = [query EXCEPT ![r] = "begin"]
  /\ Goto(r, "begin")
  /\ UNCHANGED <<reply, rows, ready, asked, result, wrote, answer>>

(* connect rejects, or yields something that is not a client. *)
AcquireFails(r) ==
  /\ pc[r] = "connect"
  /\ conn' = [conn EXCEPT ![r] = "none"]
  /\ Answer(r, "not_attempted")
  /\ UNCHANGED <<query, reply, rows, tx, ready, asked, result, wrote>>

AcquireTimeout(r) ==
  /\ pc[r] = "connect"
  /\ Answer(r, "not_attempted")
  /\ UNCHANGED <<wireVars, rows, tx, ready, asked, result, wrote>>

(* A client that arrives after the call gave up is destroyed. *)
LateClient(r) ==
  /\ pc[r] = "done"
  /\ HasClient(r)
  /\ Destroy(r)
  /\ UNCHANGED <<callVars, query, reply, rows, tx, ready>>

(* The statements before the insert succeed. *)
Proceed(r) ==
  /\ reply[r] = "ok"
  /\ \/ pc[r] = "begin" /\ Send(r, "settings") /\ UNCHANGED wrote
     \/ pc[r] = "settings" /\ Send(r, "receipt") /\ UNCHANGED wrote
     \/ /\ pc[r] = "receipt"
        /\ wrote' = [wrote EXCEPT ![r] = TRUE]
        /\ Send(r, "insert")
  /\ UNCHANGED <<conn, rows, tx, ready, asked, result, answer>>

BeginFails(r) ==
  /\ pc[r] = "begin"
  /\ reply[r] = "error"
  /\ Destroy(r)
  /\ Answer(r, "not_attempted")
  /\ UNCHANGED <<query, reply, rows, tx, ready, asked, result, wrote>>

Inserted(r) ==
  /\ pc[r] = "insert"
  /\ reply[r] = "row"
  /\ result' = [result EXCEPT ![r] = "claimed"]
  /\ Send(r, "commit")
  /\ UNCHANGED <<conn, rows, tx, ready, asked, wrote, answer>>

(* Faulty variant: no row returned, none read. *)
BlindClaim(r) ==
  /\ pc[r] = "insert"
  /\ reply[r] = "empty"
  /\ result' = [result EXCEPT ![r] = "claimed"]
  /\ Send(r, "commit")
  /\ UNCHANGED <<conn, rows, tx, ready, asked, wrote, answer>>

NotInserted(r) ==
  /\ pc[r] = "insert"
  /\ reply[r] = "empty"
  /\ Send(r, "conflict")
  /\ UNCHANGED <<conn, rows, tx, ready, asked, result, wrote, answer>>

ExactReplay(r) ==
  /\ pc[r] = "conflict"
  /\ reply[r] = "exact"
  /\ result' = [result EXCEPT ![r] = "already_claimed"]
  /\ Send(r, "commit")
  /\ UNCHANGED <<conn, rows, tx, ready, asked, wrote, answer>>

(* A rejection, a result of the wrong shape, an unexpected receipt or a    *)
(* conflicting row: the transaction is rolled back.                        *)
RollBack(r) ==
  /\ \/ pc[r] \in {"settings", "receipt", "insert", "conflict"} /\ reply[r] = "error"
     \/ pc[r] = "receipt" /\ reply[r] = "other"
     \/ pc[r] = "conflict" /\ reply[r] = "other"
  /\ result' = [result EXCEPT ![r] = IF pc[r] = "conflict" /\ reply[r] = "other"
                                       THEN "conflict" ELSE "none"]
  /\ Send(r, "rollback")
  /\ UNCHANGED <<conn, rows, tx, ready, asked, wrote, answer>>

Committed(r) ==
  /\ pc[r] = "commit"
  /\ reply[r] = "ok"
  /\ Release(r)
  /\ Answer(r, result[r])
  /\ UNCHANGED <<query, reply, rows, tx, ready, asked, result, wrote>>

CommitFails(r) ==
  /\ pc[r] = "commit"
  /\ reply[r] = "error"
  /\ Destroy(r)
  /\ Answer(r, "unknown")
  /\ UNCHANGED <<query, reply, rows, tx, ready, asked, result, wrote>>

RolledBack(r) ==
  /\ pc[r] = "rollback"
  /\ reply[r] = "ok"
  /\ Release(r)
  /\ Answer(r, IF result[r] = "conflict" THEN "conflict"
               ELSE IF wrote[r] THEN "rolled_back" ELSE "not_attempted")
  /\ UNCHANGED <<query, reply, rows, tx, ready, asked, result, wrote>>

(* Faulty variant: the client of a failed rollback is reused. *)
ReuseAfterRollback(r) ==
  /\ pc[r] = "rollback"
  /\ reply[r] = "error"
  /\ Release(r)
  /\ Answer(r, Unsettled(r))
  /\ UNCHANGED <<query, reply, rows, tx, ready, asked, result, wrote>>

RollbackFails(r) ==
  /\ pc[r] = "rollback"
  /\ reply[r] = "error"
  /\ Destroy(r)
  /\ Answer(r, Unsettled(r))
  /\ UNCHANGED <<query, reply, rows, tx, ready, asked, result, wrote>>

(* Faulty variants: a timeout that keeps the client, and a COMMIT awaited *)
(* without a bound.                                                       *)
GiveUpHolding(r) ==
  /\ pc[r] \in Statements
  /\ Answer(r, Unsettled(r))
  /\ UNCHANGED <<wireVars, rows, tx, ready, asked, result, wrote>>

GiveUpBeforeCommit(r) ==
  /\ pc[r] \in Statements \ {"commit"}
  /\ Destroy(r)
  /\ Answer(r, Unsettled(r))
  /\ UNCHANGED <<query, reply, rows, tx, ready, asked, result, wrote>>

(* The timer of the awaited statement or of the whole transaction fires. *)
GiveUp(r) ==
  /\ pc[r] \in Statements
  /\ Destroy(r)
  /\ Answer(r, Unsettled(r))
  /\ UNCHANGED <<query, reply, rows, tx, ready, asked, result, wrote>>

(* The application's process ends. *)
Crash(r) ==
  /\ pc[r] \notin {"idle", "done", "crashed"}
  /\ Goto(r, "crashed")
  /\ conn' = [conn EXCEPT ![r] = IF @ \in CheckedOut THEN "destroyed" ELSE "none"]
  /\ UNCHANGED <<query, reply, rows, tx, ready, asked, result, wrote, answer>>

-----------------------------------------------------------------------------
(* Steps of PostgreSQL and of the network.                                 *)

Executes(r, s, a) ==
  /\ query[r] = s
  /\ query' = [query EXCEPT ![r] = "none"]
  /\ reply' = [reply EXCEPT ![r] = IF conn[r] = "up" THEN a ELSE @]
  /\ UNCHANGED <<callVars, conn, ready>>

ServerBegins(r) ==
  /\ Executes(r, "begin", "ok")
  /\ tx' = [tx EXCEPT ![r] = "open"]
  /\ UNCHANGED rows

(* The receipt may be of another deployment. *)
ServerReads(r) ==
  /\ \/ Executes(r, "settings", "ok")
     \/ \E a \in {"ok", "other"} : Executes(r, "receipt", a)
  /\ UNCHANGED <<rows, tx>>

(* INSERT ON CONFLICT DO NOTHING waits for an uncommitted rival. *)
ServerInserts(r) ==
  /\ query[r] = "insert"
  /\ \/ /\ Rivals(r) # {}
        /\ Executes(r, "insert", "empty")
        /\ UNCHANGED tx
     \/ /\ Rivals(r) = {}
        /\ \A q \in Requests : tx[q] = "written" => ~Clash(r, q)
        /\ Executes(r, "insert", "row")
        /\ tx' = [tx EXCEPT ![r] = "written"]
  /\ UNCHANGED rows

ServerReadsConflict(r) ==
  /\ query[r] = "conflict"
  /\ Executes(r, "conflict",
              IF \E q \in rows : Rivals(r) = {q} /\ asked[q] = asked[r]
                THEN "exact" ELSE IF Rivals(r) # {} THEN "other" ELSE "error")
  /\ UNCHANGED <<rows, tx>>

ServerCommits(r) ==
  /\ Executes(r, "commit", "ok")
  /\ rows' = IF tx[r] = "written" THEN rows \cup {r} ELSE rows
  /\ tx' = [tx EXCEPT ![r] = "idle"]

ServerRollsBack(r) ==
  /\ Executes(r, "rollback", "ok")
  /\ tx' = [tx EXCEPT ![r] = "idle"]
  /\ UNCHANGED rows

(* An error, a lock or statement timeout: an open transaction is aborted,  *)
(* a failed COMMIT has ended it.                                           *)
ServerFails(r) ==
  /\ query[r] # "none"
  /\ Executes(r, query[r], "error")
  /\ tx' = [tx EXCEPT ![r] = IF query[r] = "commit" THEN "idle"
                             ELSE IF @ = "idle" THEN "idle" ELSE "aborted"]
  /\ UNCHANGED rows

(* A result the client cannot read. *)
Garble(r) ==
  /\ conn[r] = "up"
  /\ reply[r] \notin {"none", "error"}
  /\ reply' = [reply EXCEPT ![r] = "error"]
  /\ UNCHANGED <<callVars, conn, query, rows, tx, ready>>

Break(r) ==
  /\ conn[r] = "up"
  /\ conn' = [conn EXCEPT ![r] = "down"]
  /\ reply' = [reply EXCEPT ![r] = "error"]
  /\ UNCHANGED <<callVars, query, rows, tx, ready>>

(* The server ends the session of a lost client and forgets what it held. *)
Disconnect(r) ==
  /\ conn[r] \in {"down", "destroyed"}
  /\ tx[r] # "none"
  /\ tx' = [tx EXCEPT ![r] = "none"]
  /\ query' = [query EXCEPT ![r] = "none"]
  /\ UNCHANGED <<callVars, conn, reply, rows, ready>>

-----------------------------------------------------------------------------
Store(r) ==
  \/ \E c \in Claims : Call(r, c)
  \/ Refuse(r) \/ Connect(r)
  \/ Acquired(r) \/ AcquireFails(r) \/ AcquireTimeout(r) \/ LateClient(r)
  \/ Proceed(r) \/ BeginFails(r)
  \/ Inserted(r) \/ NotInserted(r) \/ ExactReplay(r) \/ RollBack(r)
  \/ Committed(r) \/ CommitFails(r) \/ RolledBack(r) \/ RollbackFails(r)
  \/ GiveUp(r) \/ Crash(r)

Server(r) ==
  \/ ServerBegins(r) \/ ServerReads(r) \/ ServerInserts(r) \/ ServerReadsConflict(r)
  \/ ServerCommits(r) \/ ServerRollsBack(r) \/ ServerFails(r)
  \/ Garble(r) \/ Break(r) \/ Disconnect(r)

Next == Verify \/ Lapse \/ \E r \in Requests : Store(r) \/ Server(r)

(* Only the timers and the check before them are sure to be served: the    *)
(* database and the pool may stay silent.                                  *)
Fairness ==
  \A r \in Requests : /\ WF_vars(GiveUp(r) \/ AcquireTimeout(r))
                      /\ WF_vars(Refuse(r) \/ Connect(r))

Spec == Init /\ [][Next]_vars /\ Fairness

-----------------------------------------------------------------------------
(* The variables hold what the code can put there. *)
TypeOK ==
  /\ asked \in [Requests -> Claims \cup {NoClaim}]
  /\ rows \subseteq Requests
  /\ answer \in [Requests -> Register!Answers \cup {"none"}]
  /\ ready \in BOOLEAN
  /\ pc \in [Requests -> Places]
  /\ result \in [Requests -> {"none", "claimed", "already_claimed", "conflict"}]
  /\ wrote \in [Requests -> BOOLEAN]
  /\ conn \in [Requests -> {"none", "waiting", "up", "down", "released", "destroyed"}]
  /\ query \in [Requests -> Statements \cup {"none"}]
  /\ reply \in [Requests -> {"none", "ok", "error", "other", "row", "empty", "exact"}]
  /\ tx \in [Requests -> {"none", "idle", "open", "written", "aborted"}]

(* Of all calls whose claims share a unique key, at most one is ever told  *)
(* "claimed", the answer that lets the browser prompt for the grant        *)
(* (altana-grant.ts:766).                                                  *)
AtMostOneClaimed ==
  \A r, q \in Requests :
    answer[r] = "claimed" /\ answer[q] = "claimed" /\ r # q => ~Clash(r, q)

(* A client goes back to the pool only with no transaction open on it and  *)
(* no statement under way: otherwise the next user of the client would act *)
(* inside this call's transaction (dispose, transaction.ts:479).           *)
CleanRelease ==
  \A r \in Requests : conn[r] = "released" => tx[r] = "idle" /\ query[r] = "none"

(* A call that has answered keeps no client checked out (dispose and the   *)
(* late-client handler), so failing calls cannot exhaust the pool.         *)
NoLeak == \A r \in Requests : pc[r] \in {"done", "crashed"} => conn[r] \notin CheckedOut

(* What a call was told is true for as long as it can be remembered: after *)
(* not_attempted, rolled_back or conflict no abandoned statement records   *)
(* its claim any more, so a caller that was denied the grant may ask again *)
(* (transaction.ts:661), and the row behind claimed, already_claimed or    *)
(* conflict stays.                                                         *)
AnswersTrue == \A r \in Requests : answer[r] # "none" => Register!True(r, answer[r])

(* Denials (not_attempted, rolled_back, conflict) stay true: a statement   *)
(* still under way cannot record a claim its caller was told is not there, *)
(* and what was reported claimed is recorded. All of this is the abstract  *)
(* register.                                                               *)
ImplementsRegister == Register!Spec

(* A call goes once through its statements, whatever fails ("there is no   *)
(* retry", transaction.ts:426): it never returns to one it has sent, and   *)
(* what it answered is its only answer: no call awaits more than seven     *)
(* times.                                                                  *)
Stage(place) ==
  CASE place = "idle" -> 0
    [] place = "check" -> 1
    [] place = "connect" -> 2
    [] place = "begin" -> 3
    [] place = "settings" -> 4
    [] place = "receipt" -> 5
    [] place = "insert" -> 6
    [] place = "conflict" -> 7
    [] place \in {"commit", "rollback"} -> 8
    [] place \in {"done", "crashed"} -> 9

NoRetry ==
  [][\A r \in Requests :
       /\ pc'[r] # pc[r] => Stage(pc[r]) < Stage(pc'[r])
       /\ answer[r] # "none" => answer'[r] = answer[r]]_vars

(* Every call ends, even if neither the pool nor the server ever answers   *)
(* (the bounded awaits and the transaction timer).                         *)
Answered == \A r \in Requests : pc[r] # "idle" ~> pc[r] \in {"done", "crashed"}
=============================================================================
