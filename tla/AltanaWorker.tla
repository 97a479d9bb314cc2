---------------------------- MODULE AltanaWorker ----------------------------
(***************************************************************************)
(* The test-action worker, scripts/altana-test-action-worker.mjs: a loop   *)
(* that reads its files, asks both endpoints about the session key, and    *)
(* once executes the one action the key is for.  Its memory is the         *)
(* directory: three files made with the flag "wx", and the state it        *)
(* publishes, which it overwrites.  The topology starts one process and    *)
(* starts it again when it ends; nothing else keeps a second one away.     *)
(***************************************************************************)
EXTENDS AltanaTestnet

CONSTANT Workers  \* the processes

ASSUME WorkersAssumption == Workers \subseteq Callers

VARIABLES files,      \* the claim, the submission and the receipt
          published,  \* public-state.json
          place,      \* where a worker stands in its loop
          present,    \* the key, as it observed it in this turn
          word        \* the status it is about to publish

workerVars == <<files, published, place, present, word>>

Names == {"claim", "submission", "receipt"}

(* A file in its writer's hands, or left unfinished by it, is torn. *)
File == [st : {"absent", "torn", "written"}, call : Nat]

Statuses == {"waiting_authority", "submitting_execute", "execute_pending", "execute_confirmed",
             "execute_failed", "execute_outcome_unknown", "lifecycle_complete", "worker_blocked"}

Places == {"read", "observe receipt", "observe submission", "observe claim", "observe nothing",
           "claim", "write claim", "announce", "execute", "submission",
           "write submission", "relay", "receipt", "write receipt", "publish"}

WorkerTypeOK ==
  /\ files \in [Names -> File]
  /\ published \in [status : Statuses \cup {"none"}, present : {"yes", "no", "unknown"}]
  /\ place \in [Workers -> Places]
  /\ present \in [Workers -> BOOLEAN]
  /\ word \in [Workers -> Statuses]

NoFile == [st |-> "absent", call |-> 0]

WorkerInit ==
  /\ files = [f \in Names |-> NoFile]
  /\ published = [status |-> "none", present |-> "unknown"]
  /\ place = [w \in Workers |-> "read"]
  /\ present = [w \in Workers |-> FALSE]
  /\ word = [w \in Workers |-> "worker_blocked"]

Exists(f) == files[f].st # "absent"
Written(f) == files[f].st = "written"

Goto(w, p) == place' = [place EXCEPT ![w] = p]

Move(w, from, to) == place[w] = from /\ Goto(w, to)

(* What a turn knew is forgotten with it. *)
EndTurn(w, p) ==
  /\ Goto(w, p)
  /\ present' = [present EXCEPT ![w] = FALSE]
  /\ word' = [word EXCEPT ![w] = "worker_blocked"]

(* To publish a status is a step of its own. *)
Report(w, from, status) == Move(w, from, "publish") /\ word' = [word EXCEPT ![w] = status]

-----------------------------------------------------------------------------
(* One turn of runWorker. *)

(* exactJsonFile of the three files.  They are only ever added in this     *)
(* order, so that the turn is decided by the last one there is; a file     *)
(* that does not parse ends it (Throw).                                    *)
ReadFiles(w) ==
  /\ \A f \in Names : files[f].st # "torn"
  /\ Move(w, "read", CASE Written("receipt") -> "observe receipt"
                       [] Written("submission") /\ ~Written("receipt") -> "observe submission"
                       [] Written("claim") /\ ~Written("submission") /\ ~Written("receipt") -> "observe claim"
                       [] OTHER -> "observe nothing")
  /\ UNCHANGED <<netVars, files, published, present, word>>

Observe(w, p) == Observed(p) /\ present' = [present EXCEPT ![w] = p]

ObserveReceipt(w) ==
  /\ \E p \in BOOLEAN :
       /\ Observe(w, p)
       /\ Report(w, "observe receipt", IF p THEN "execute_confirmed" ELSE "lifecycle_complete")
  /\ UNCHANGED <<netVars, files, published>>

(* Faulty variant: the submission is followed only while the key is there. *)
ObservePresentSubmission(w) ==
  /\ Observe(w, TRUE)
  /\ Move(w, "observe submission", "relay")
  /\ UNCHANGED <<netVars, files, published, word>>

ObserveSubmission(w) ==
  /\ \E p \in BOOLEAN : Observe(w, p)
  /\ Move(w, "observe submission", "relay")
  /\ UNCHANGED <<netVars, files, published, word>>

(* A claim without a submission: the outcome stays unknown. *)
ObserveClaim(w) ==
  /\ \E p \in BOOLEAN : Observe(w, p)
  /\ Report(w, "observe claim", "execute_outcome_unknown")
  /\ UNCHANGED <<netVars, files, published>>

(* Faulty variant: the action goes on without the key. *)
ObserveAnything(w) ==
  /\ \E p \in BOOLEAN : Observe(w, p)
  /\ Move(w, "observe nothing", "claim")
  /\ UNCHANGED <<netVars, files, published, word>>

ObserveKey(w) ==
  /\ Observe(w, TRUE)
  /\ Move(w, "observe nothing", "claim")
  /\ UNCHANGED <<netVars, files, published, word>>

ObserveNoKey(w) ==
  /\ Observe(w, FALSE)
  /\ Report(w, "observe nothing", "waiting_authority")
  /\ UNCHANGED <<netVars, files, published>>

-----------------------------------------------------------------------------
(* writeCreateOnlyJson: the file is created, and then written. *)

(* Faulty variant: the flag "w". *)
OverwriteOnly(w, f, at, to, i) ==
  /\ Move(w, at, to)
  /\ files' = [files EXCEPT ![f] = [st |-> "torn", call |-> i]]

CreateOnly(w, f, at, to, i) ==
  /\ ~Exists(f)
  /\ Move(w, at, to)
  /\ files' = [files EXCEPT ![f] = [st |-> "torn", call |-> i]]

Write(w, f, at, to) ==
  /\ Move(w, at, to)
  /\ files' = [files EXCEPT ![f].st = "written"]

(* submitExecute: the expiry was checked, by the clock of the host. *)
Claim(w) ==
  /\ CreateOnly(w, "claim", "claim", "write claim", 0)
  /\ UNCHANGED <<netVars, published, present, word>>

WriteClaim(w) ==
  /\ Write(w, "claim", "write claim", "announce")
  /\ UNCHANGED <<netVars, published, present, word>>

Announce(w) ==
  /\ Move(w, "announce", "execute")
  /\ published' = [status |-> "submitting_execute", present |-> "yes"]
  /\ UNCHANGED <<netVars, files, present, word>>

(* simulateAction, signerFromCustody and client.execute: the relay accepts *)
(* the call.  That the answer is lost, that the simulation or the custody  *)
(* fails, or that nothing is accepted, is an exception like any other.     *)
Execute(w) ==
  /\ Move(w, "execute", "submission")
  /\ Accept("execute", w)
  /\ UNCHANGED <<authority, view, files, published, present, word>>

(* The identifier of the call just made. *)
Mine(w) == CHOOSE i \in Of("execute") : calls[i].by = w /\ \A j \in Of("execute") : calls[j].by = w => j <= i

Submission(w) ==
  /\ CreateOnly(w, "submission", "submission", "write submission", Mine(w))
  /\ UNCHANGED <<netVars, published, present, word>>

WriteSubmission(w) ==
  /\ files' = [files EXCEPT !["submission"].st = "written"]
  /\ Report(w, "write submission", "execute_pending")
  /\ UNCHANGED <<netVars, published, present>>

-----------------------------------------------------------------------------
(* The reconciliation of the submission. *)

Pursued == files["submission"].call

Relay(w) ==
  /\ \/ Report(w, "relay", "execute_failed") /\ "failed" \in Reported(Pursued)
     \/ Report(w, "relay", "execute_pending") /\ "pending" \in Reported(Pursued)
     \/ Report(w, "relay", "execute_outcome_unknown")
          /\ {"unknown", "confirmed without hash"} \cap Reported(Pursued) # {}
  /\ UNCHANGED <<netVars, files, published, present>>

(* The relay says confirmed, which proves nothing, and confirmedReceipt    *)
(* asks both endpoints: both have the receipt of a success, or the turn    *)
(* ends without a word.                                                    *)
Receipts(w) ==
  /\ Move(w, "relay", "receipt")
  /\ "confirmed" \in Reported(Pursued)
  /\ \A p \in Providers : HasReceipt(p, Pursued)
  /\ UNCHANGED <<netVars, files, published, present, word>>

NoReceipts(w) ==
  /\ place[w] = "relay"
  /\ "confirmed" \in Reported(Pursued)
  /\ EndTurn(w, "read")
  /\ UNCHANGED <<netVars, files, published>>

Receipt(w) ==
  /\ CreateOnly(w, "receipt", "receipt", "write receipt", Pursued)
  /\ UNCHANGED <<netVars, published, present, word>>

WriteReceipt(w) ==
  /\ files' = [files EXCEPT !["receipt"].st = "written"]
  /\ Report(w, "write receipt", "execute_confirmed")
  /\ UNCHANGED <<netVars, published, present>>

(* writePublicState *)
Publish(w) ==
  /\ place[w] = "publish"
  /\ EndTurn(w, "read")
  /\ published' = [status |-> word[w], present |-> IF present[w] THEN "yes" ELSE "no"]
  /\ UNCHANGED <<netVars, files>>

(* Any exception of the turn: a failed read, a disagreement of the         *)
(* endpoints, a refused simulation, an existing or an unfinished file, a   *)
(* lost answer.  It is caught, and what is published then may fail to be   *)
(* written; what another process reads changes only in that step.          *)
Throw(w) ==
  /\ EndTurn(w, "read")
  /\ published' \in {published, [status |-> "worker_blocked", present |-> "unknown"]}
  /\ UNCHANGED <<netVars, files>>

-----------------------------------------------------------------------------
(* The process ends and is started again.  What it checks before its loop  *)
(* does not change; one that is not started takes no step.                 *)
Crash(w) ==
  /\ place[w] # "read"
  /\ EndTurn(w, "read")
  /\ UNCHANGED <<netVars, files, published>>

Turn(w) ==
  \/ ReadFiles(w)
  \/ ObserveReceipt(w) \/ ObserveSubmission(w) \/ ObserveClaim(w) \/ ObserveKey(w) \/ ObserveNoKey(w)
  \/ Claim(w) \/ WriteClaim(w) \/ Announce(w) \/ Execute(w)
  \/ Submission(w) \/ WriteSubmission(w)
  \/ Relay(w) \/ Receipts(w) \/ NoReceipts(w) \/ Receipt(w) \/ WriteReceipt(w)
  \/ Publish(w)

WorkerNext == \E w \in Workers : Turn(w) \/ Throw(w) \/ Crash(w)
=============================================================================
