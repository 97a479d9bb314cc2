---------------------------- MODULE PoolJournals ----------------------------
(***************************************************************************)
(* The three append-only journals of the pool initializer, each a          *)
(* directory of files that are created exclusively and never rewritten:    *)
(*   signing     claim, worker, started, signed                            *)
(*               (bsc-testnet-pta-wbnb-pool-local-journal.server.ts)       *)
(*   submission  commit, submission, terminal                              *)
(*               (bsc-testnet-pta-wbnb-pool-submission-journal.server.ts)  *)
(*   successor   resume, settled                                           *)
(*               (bsc-testnet-pta-wbnb-pool-generation-10-journal)         *)
(*                                                                         *)
(* A file goes "absent" -> "torn" (created, not completely written) ->     *)
(* "written" -> "durable".  A crash of the writer leaves it where it is; a *)
(* power loss may take back whatever was not synced.  A record keeps the   *)
(* run whose authorization it binds, and what its readers branch on: the   *)
(* kind of the second signing record, the outcome of a terminal, and       *)
(* whether it was recorded before the authorization expired.               *)
(***************************************************************************)
EXTENDS PoolChain

CONSTANTS Runs,  \* the processes of the operator
          NoRun  \* "no authorization"

ASSUME NoRunAssumption == NoRun \notin Runs

VARIABLE files

Signing == <<"claim", "worker", "started", "signed">>
Submission == <<"commit", "submission", "terminal">>
Successor == <<"resume", "settled">>

Names == {"claim", "worker", "started", "signed", "commit", "submission", "terminal",
          "resume", "settled"}

Kinds == {"none", "exact", "late", "worker_authorized", "failed_before_worker"} \cup Verdicts

FileState == {"absent", "torn", "written", "durable"}

File == [st : FileState, by : Runs \cup {NoRun}, kind : Kinds]

NoFile == [st |-> "absent", by |-> NoRun, kind |-> "none"]

JournalsTypeOK == files \in [Names -> File]

JournalsInit == files = [f \in Names |-> NoFile]

Visible(f) == files[f].st \in {"written", "durable"}
Durable(f) == files[f].st = "durable"
By(f) == files[f].by

-----------------------------------------------------------------------------
(* Reading.  A snapshot lists the directory and then reads every file of   *)
(* the list.  Since files are only ever added at the end and completed,    *)
(* its result is the one of a single moment in between, so a read is one   *)
(* step here.                                                              *)

Absent(j) == \A i \in DOMAIN j : files[j[i]].st = "absent"

(* Exactly the first n files exist, and they are complete records of one   *)
(* authorization.                                                          *)
Holds(j, n) ==
  /\ \A i \in DOMAIN j : IF i <= n THEN Visible(j[i]) ELSE files[j[i]].st = "absent"
  /\ \A i \in 1..n : By(j[i]) = By(j[1])

(* readSnapshot and stateFrom of the signing journal: every directory that *)
(* does not parse is "unknown_outcome".                                    *)
SigningStatus ==
  CASE Absent(Signing) -> "empty"
    [] Holds(Signing, 1) -> "claimed"
    [] Holds(Signing, 2) -> files["worker"].kind
    [] Holds(Signing, 3) /\ files["worker"].kind = "worker_authorized" -> "worker_started"
    [] Holds(Signing, 4) /\ files["worker"].kind = "worker_authorized" -> "signed_committed"
    [] OTHER -> "unknown_outcome"

(* readSnapshot of the submission journal: a record made after the expiry  *)
(* of the authorization invalidates the journal.                           *)
SubmissionStatus ==
  CASE Absent(Submission) -> "empty"
    [] Holds(Submission, 1) /\ files["commit"].kind = "exact" -> "signed_committed"
    [] Holds(Submission, 2) /\ files["submission"].kind = "exact" -> "submission_started"
    [] Holds(Submission, 3) /\ files["submission"].kind = "exact" -> files["terminal"].kind
    [] OTHER -> "unknown_outcome"

(* The two signing and submission journals bind the same authorization.    *)
SameBinding == By("commit") = By("claim")

SuccessorStatus ==
  CASE Absent(Successor) -> "empty"
    [] Holds(Successor, 1) -> "submission_started"
    [] Holds(Successor, 2) -> files["settled"].kind
    [] OTHER -> "unknown_outcome"

-----------------------------------------------------------------------------
(* createExclusive: open "wx", write, sync. *)

(* Faulty variants: a file that may be overwritten, and one never synced. *)
OverwriteFile(f, r, k) == files' = [files EXCEPT ![f] = [st |-> "torn", by |-> r, kind |-> k]]
LeaveUnsynced(f) == UNCHANGED files

CreateFile(f, r, k) ==
  /\ files[f].st = "absent"
  /\ files' = [files EXCEPT ![f] = [st |-> "torn", by |-> r, kind |-> k]]

WriteFile(f) == files' = [files EXCEPT ![f].st = "written"]

SyncFile(f) == files' = [files EXCEPT ![f].st = "durable"]

(* A power loss may take back any file that was not synced, or leave it    *)
(* empty; what it spares has reached the disk.                             *)
Unsynced == {f \in Names : files[f].st \in {"torn", "written"}}

Remains(f, gone, torn) ==
  CASE f \in gone -> NoFile
    [] f \in torn \ gone -> [files[f] EXCEPT !.st = "torn"]
    [] OTHER -> IF Visible(f) THEN [files[f] EXCEPT !.st = "durable"] ELSE files[f]

LoseUnsynced ==
  \E gone, torn \in SUBSET Unsynced : files' = [f \in Names |-> Remains(f, gone, torn)]
=============================================================================
