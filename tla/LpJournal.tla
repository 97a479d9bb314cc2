----------------------------- MODULE LpJournal -----------------------------
(***************************************************************************)
(* The append-only journal of the first-LP runner                          *)
(* (bsc-testnet-pta-wbnb-lp-journal.server.ts): nine files in one          *)
(* directory, each created exclusively, written, synced and audited.       *)
(*                                                                         *)
(* A slot goes "absent" -> "torn" (created, not completely written) ->     *)
(* "written" (readable, not yet synced) -> "durable".  A crash of the      *)
(* writer leaves it where it is; a power loss may take back whatever was   *)
(* not synced.  The kind and step of a record are determined by its index, *)
(* so a record keeps only the authorization whose fields it binds (the     *)
(* scope, runtime and challenge digests) and the receipt of a terminal.    *)
(***************************************************************************)
EXTENDS LpChain

CONSTANTS Runs,  \* the processes that may ever be started
          NoRun  \* "no authorization"

ASSUME NoRunAssumption == NoRun \notin Runs

VARIABLE slots

Idx == 0..8

FileState == {"absent", "torn", "written", "durable"}

Slot == [st : FileState, auth : Runs \cup {NoRun}, receipt : Receipt]

EmptySlot == [st |-> "absent", auth |-> NoRun, receipt |-> NoReceipt]

JournalTypeOK == slots \in [Idx -> Slot]

JournalInit == slots = [k \in Idx |-> EmptySlot]

(* The step a slot belongs to, and the slots that matter for a step. *)
StepOf(k) == IF k <= 4 THEN "approval" ELSE "mint"
SigningSlot(s) == IF s = "approval" THEN 1 ELSE 5
SignedSlot(s) == IF s = "approval" THEN 2 ELSE 6
SubmissionSlot(s) == IF s = "approval" THEN 3 ELSE 7
TerminalSlot(s) == IF s = "approval" THEN 4 ELSE 8

Visible(k) == slots[k].st \in {"written", "durable"}
Durable(k) == slots[k].st = "durable"
Present == {k \in Idx : slots[k].st # "absent"}
Outcome(k) == slots[k].receipt.status

(***************************************************************************)
(* loadState reads the nine files in parallel, so it sees each slot as it  *)
(* was at some moment between the start and the end of the read.  `before` *)
(* is the set of slots that were present at the start.  The parser accepts *)
(* a contiguous prefix of n complete records: those must be complete by    *)
(* now, and the rest must have been absent when the read began.  A torn    *)
(* record, a gap or a mismatch of the bindings is JOURNAL_INVALID.         *)
(***************************************************************************)
Parses(before, n) ==
  /\ \A k \in Idx : k < n => Visible(k) /\ slots[k].auth = slots[0].auth
  /\ \A k \in before : k < n
  /\ n > 5 => Outcome(4) = "confirmed"

(* deriveStatus, for a journal of n records. *)
Status(n) ==
  CASE n = 0 -> "empty"
    [] n = 1 -> "owner_confirmed"
    [] n = 2 -> "approval_signing_started"
    [] n = 3 -> "approval_signed"
    [] n = 4 -> "approval_submission_started"
    [] n = 5 -> IF Outcome(4) = "confirmed" THEN "approval_confirmed" ELSE "approval_reverted"
    [] n = 6 -> "mint_signing_started"
    [] n = 7 -> "mint_signed"
    [] n = 8 -> "mint_submission_started"
    [] n = 9 -> IF Outcome(8) = "confirmed" THEN "mint_confirmed" ELSE "mint_reverted"

(* The status each commit operation demands before it appends slot k. *)
ExpectedStatus ==
  <<"owner_confirmed", "approval_signing_started", "approval_signed",
    "approval_submission_started", "approval_confirmed",
    "mint_signing_started", "mint_signed", "mint_submission_started">>

MayAppend(before, k) ==
  \E n \in 0..9 :
    /\ Parses(before, n)
    /\ Status(n) = IF k = 0 THEN "empty" ELSE ExpectedStatus[k]

-----------------------------------------------------------------------------
(* createExclusive: open "wx", write, sync. *)

(* Faulty variants: a file that may be overwritten, and one never synced. *)
OverwriteSlot(k, a) ==
  slots' = [slots EXCEPT ![k] = [EmptySlot EXCEPT !.st = "torn", !.auth = a]]
LeaveUnsynced(k) == UNCHANGED slots

CreateSlot(k, a) ==
  /\ slots[k].st = "absent"
  /\ slots' = [slots EXCEPT ![k] = [EmptySlot EXCEPT !.st = "torn", !.auth = a]]

WriteSlot(k, rc) == slots' = [slots EXCEPT ![k].st = "written", ![k].receipt = rc]

SyncSlot(k) == slots' = [slots EXCEPT ![k].st = "durable"]

(* A power loss may take back any file that was not synced, or leave it    *)
(* empty; what it spares has reached the disk.                             *)
Unsynced == {k \in Idx : slots[k].st \in {"torn", "written"}}

Remains(k, gone, torn) ==
  CASE k \in gone -> EmptySlot
    [] k \in torn \ gone -> [slots[k] EXCEPT !.st = "torn", !.receipt = NoReceipt]
    [] OTHER -> IF Visible(k) THEN [slots[k] EXCEPT !.st = "durable"] ELSE slots[k]

LoseUnsynced ==
  \E gone, torn \in SUBSET Unsynced : slots' = [k \in Idx |-> Remains(k, gone, torn)]
=============================================================================
