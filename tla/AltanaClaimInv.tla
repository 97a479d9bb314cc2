--------------------------- MODULE AltanaClaimInv ---------------------------
(***************************************************************************)
(* Why the claim store keeps its promise: what the place of a call says of *)
(* its statements and of its transaction, and the exclusion of rivals by   *)
(* the unique indexes.                                                     *)
(***************************************************************************)
EXTENDS AltanaClaim

Open == {"none", "unknown"}

Copied(r) == \E q \in rows : asked[q] = asked[r]

(* A call that has not been given a client has touched nothing. *)
Untouched(r) ==
  pc[r] \in {"idle", "check", "connect"} =>
    /\ conn[r] \in {"none", "waiting"} /\ query[r] = "none" /\ reply[r] = "none"
    /\ tx[r] = "none" /\ ~wrote[r] /\ result[r] = "none" /\ answer[r] = "none"

(* A call that awaits a statement has a client; if the client is up, the   *)
(* only statement under way is the one awaited.                            *)
Awaiting(r) ==
  /\ pc[r] \in Statements =>
       /\ conn[r] \in CheckedOut
       /\ conn[r] = "down" => reply[r] = "error"
       /\ conn[r] = "up" => query[r] \in {"none", pc[r]}
       /\ query[r] # "none" => reply[r] \in {"none", "error"}
  /\ conn[r] \in CheckedOut => pc[r] \in Statements
  /\ conn[r] = "released" => pc[r] = "done" /\ tx[r] = "idle" /\ query[r] = "none"
  /\ pc[r] = "idle" <=> asked[r] = NoClaim
  /\ answer[r] # "none" => pc[r] = "done"

(* An uncommitted row belongs to a call that may still be told anything. *)
Writing(r) ==
  /\ tx[r] = "written" =>
       /\ wrote[r] /\ answer[r] \in Open /\ result[r] \in {"none", "claimed"}
       /\ pc[r] \in {"insert", "commit", "rollback", "done", "crashed"}
       /\ r \notin rows
  /\ query[r] = "insert" =>
       /\ wrote[r] /\ answer[r] \in Open /\ result[r] = "none"
       /\ pc[r] \in {"insert", "rollback", "done", "crashed"}
       /\ r \notin rows /\ tx[r] # "written"
  /\ query[r] = "commit" =>
       /\ wrote[r] /\ answer[r] \in Open
       /\ result[r] \in {"claimed", "already_claimed"}
       /\ pc[r] \in {"commit", "done", "crashed"}
       /\ r \notin rows
       /\ result[r] = "claimed" <=> tx[r] = "written"

Recorded(r) ==
  r \in rows =>
    /\ wrote[r] /\ answer[r] \in Open \cup {"claimed"} /\ result[r] = "claimed"
    /\ pc[r] \in {"commit", "done", "crashed"}
    /\ tx[r] # "written" /\ query[r] \notin {"insert", "commit"}

(* What a reply says is so. *)
Replied(r) ==
  /\ pc[r] = "insert" /\ reply[r] = "row" => tx[r] = "written"
  /\ pc[r] = "insert" /\ reply[r] = "empty" => tx[r] # "written"
  /\ pc[r] = "insert" => result[r] = "none" /\ wrote[r]
  /\ pc[r] = "conflict" =>
       /\ tx[r] # "written" /\ wrote[r] /\ result[r] = "none" /\ query[r] # "insert"
       /\ reply[r] = "exact" => Copied(r)
       /\ reply[r] = "other" => Rivals(r) # {}
  /\ pc[r] = "commit" =>
       /\ result[r] \in {"claimed", "already_claimed"} /\ wrote[r]
       /\ reply[r] = "ok" => tx[r] = "idle" /\ query[r] = "none"
       /\ reply[r] = "ok" /\ result[r] = "claimed" => r \in rows
  /\ pc[r] = "rollback" =>
       /\ result[r] \in {"none", "conflict"}
       /\ reply[r] = "ok" => tx[r] = "idle" /\ query[r] = "none"
  /\ pc[r] \in {"begin", "settings", "receipt"} => ~wrote[r] /\ result[r] = "none"
  /\ answer[r] = "claimed" => r \in rows

Established(r) ==
  /\ result[r] = "already_claimed" =>
       /\ pc[r] \in {"commit", "done", "crashed"}
       /\ r \notin rows /\ tx[r] # "written" /\ query[r] # "insert"
       /\ Copied(r)
  /\ result[r] = "conflict" =>
       /\ pc[r] \in {"rollback", "done", "crashed"}
       /\ r \notin rows /\ tx[r] # "written" /\ query[r] \notin {"insert", "commit"}
       /\ Rivals(r) # {}

CallInv(r) ==
  /\ Untouched(r) /\ Awaiting(r) /\ Writing(r)
  /\ Recorded(r) /\ Replied(r) /\ Established(r)

(* Two calls that hold a key, committed or not, have no key in common. *)
Holds(r) == r \in rows \/ tx[r] = "written"
Exclusive == \A r, q \in Requests : Holds(r) /\ Holds(q) /\ r # q => ~Clash(r, q)

IInv == TypeOK /\ (\A r \in Requests : CallInv(r)) /\ Exclusive
=============================================================================
