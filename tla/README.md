# ProofEra in TLA+

TLA+ models of the parts of ProofEra that must not do a thing twice, must not
believe an answer too early, and must survive a crash half way: the runner of
the first liquidity position on the BSC testnet, the initializer of its pool
over two releases, the grant of an Altana session, and the one action made
under such a session with the ceremony that grants and revokes it; and of the
one calculation whose rounding decides about capital, the liquidity quote.
Every module is a translation of the TypeScript (and SQL) it names;
`PROJECT.json` maps each definition to its lines.

Contents: [the system](#1-the-system), [the models](#2-the-models),
[the runs](#3-the-runs), [fairness](#4-fairness), [the proofs](#5-the-proofs),
[findings](#6-findings), [what is not modelled](#7-what-is-not-modelled-and-why),
[plan](#8-plan).

## 1. The system

ProofEra is a TypeScript monorepo: a web application that shows what analyzer
agents recommend for PancakeSwap, Venus and Lista positions, the machinery
that turns a recommendation into a bounded session grant of an Altana wallet,
and a set of operator tools that made a small number of irreversible
transactions on the BSC testnet, each exactly once. The components, with the
state each keeps:

| Component | State | Operations | Interacts with |
|---|---|---|---|
| First-LP journal (`packages/integrations/src/bsc-testnet-pta-wbnb-lp-journal.server.ts`) | nine create-only files in one directory | commit of each record, read of the prefix, status | the file system (exclusive create, write, sync, power loss) |
| First-LP runner (`scripts/run-bsc-testnet-pta-wbnb-first-lp.ts`) | process memory; the evidence file | ceremony, recheck, sign, send, reconcile, recover, finish | journal, execution authority, two RPC providers |
| First-LP execution authority (`…-lp-execution.server.ts`) | orders already signed by one authorization | confirm, sign approval, sign mint | runner |
| Altana bootstrap record (`altana-bootstrap.ts`) | one record with a status, three times, a secret handle | provisioning, grant, settlement, authority reconciliation, orphan cleanup | secret provider, grant submission, authority prober |
| Altana grant submission (`altana-grant.ts`) | a browser tab's copy of the request | build, submit, classify the SDK's answer | claim store, Altana SDK, wallet |
| Grant-claim store (`altana-grant-claim-*.ts`, migration 0002) | table `submission_claims` with four unique keys; a pool; a readiness capability | verify readiness, claim | PostgreSQL |
| Altana operations (`altana-operations.ts`) | execute and revoke lifecycles | begin, settle, reconcile | SDK call status, authority prober |
| Test-action worker (`scripts/altana-test-action-worker.mjs`) | create-only claim, submission, receipt; a published state file | poll loop | SDK, two RPC reads, the ceremony through its published state |
| Session ceremony (`apps/web/app/operator-ceremony/altana-session-ceremony.tsx`) | the operation in the browser's local storage; what each tab shows | grant, revoke, poll the worker's state | Altana SDK, worker |
| Liquidity quote (`packages/domain/src/pancake-v3-liquidity-quote.ts`) | none | one synchronous calculation | calldata builder, activation |
| LP reservation and handoff (`altana-lp-*.ts`, migration 0001) | table of reservations | consume or read | PostgreSQL, policy, attestation |
| Pool initializer (`bsc-testnet-pta-wbnb-pool-*.ts`) | claim journal, submission journal, several generations of both | claim, recheck, sign in a worker, start, send, reconcile, recover | two RPC providers, a signing worker, a private broadcaster |
| PTA deployment (`bsc-testnet-pta-*.ts`) | create-only journal of claim, authorization, start, signed record, one recovery and one reconstruction | claim, sign, recover, reconstruct | signing worker, two RPC providers |
| Domain evaluators (`packages/domain/src`) | none | mandate admission, activation policy, proof score, recommendation, preview, publication, liquidity quote | called by all of the above |
| Readers, benchmarks | none | read, validate | RPC, HTTP |
| Analyzer agents (`agents/`) | each server's table of idle transports | analyze | web application, RPC |
| Operator ceremony server (`scripts/operator-ceremony-server.mjs`) | which lane is running | start a timed runner, commit its capture | child processes, git |
| Web application (`apps/web`) | an in-memory run limit | pages, `/api/analyzer-run` | analyzers |
| Contracts (`contracts/`) | token balances; receipts | transfer, record | the chain |

What is hard in it, and what makes each part correct:

* **First LP.** Any number of processes may be started on the same journal;
  nothing but exclusive file creation keeps them apart. Each of thirteen
  awaited steps may be the last one; a power loss takes back what was not
  synced; one of two providers may lie; receipts, canonical block and
  finalized head are read at different moments. Correct is: nothing is
  signed or sent twice, everything is announced durably first, the mint
  waits for the final approval, what is recorded is final, restarts only
  reconcile, and an undisturbed run completes.
* **Grant-claim store.** A COMMIT whose answer is lost, an INSERT executed
  after its caller gave up, a pool that hands out a client too late. Correct
  is: one winner per unique key, true answers, clean clients, an answer in
  bounded time.
* **Altana grant.** Two tabs, a reload after a lost claim answer, an SDK call
  that times out and lands later, probes that arrive late and out of order,
  clocks that disagree, and a cleanup that runs at the same time. Correct
  is: one grant, no failure that can still succeed, no session enabled by old
  or superseded authority, no live session without its secret.
* **Pool initializer.** Three journals written by two releases of the code; a
  claim that may be ended before its worker, a worker that signs once, a send
  that one generation made ready and another may finish; an authorization that
  expires between any two of these; a pool that somebody else may create first.
  Correct is: one signature and one send over both releases, each announced on
  the disk; a claim ended is ended for good; a start recorded too late is never
  sent on; terminals state the final outcome; and what was sent is in the end
  reconciled.
* **Test action and ceremony.** A worker that is restarted for ever and may run
  twice, files that a crash leaves torn, a relay and two endpoints that lag or
  lie, a browser that reloads between a click and its answer. Correct is: the
  action is sent once, what is published is true, one tab sends a grant or a
  revocation again only if the request of each earlier one was aborted, and a
  finished lifecycle is published in the end.
* **Liquidity quote.** Every step rounds, in one direction or the other, and the
  amounts of the calldata must never exceed the capital they come from. The code
  checks its own arithmetic and does not expect the checks to fail.
* **Operations, reservation, deployment**: the same questions for other
  artefacts; see what is not modelled, and the plan.

`PROJECT.json` lists the hazards with their lines: those of the modelled parts
with the properties that cover them, the others with the reason.

## 2. The models

### First LP

| Module | Models |
|---|---|
| `LpChain` | the chain and its providers, as far as the runner can tell executions apart. External |
| `LpJournal` | the nine files: exclusive creation, write, sync, parsing, status, the status each commit demands, power loss |
| `LpRunner` | the processes: everything from reading the journal to synced evidence |
| `LpOneShot` | the abstract promise: issue, settle, record, publish |
| `LpProps` | the properties, the refinement mapping to `LpOneShot`, the fair specification |
| `LpInv` | the inductive invariant |
| `LpProofs`, `LpRefinement` | the theorems; the refinement of the promise |
| `MCLpRunner` | instances for TLC |

*State.* A run is one process; `pc[r]` says which awaited step it is at,
`mode[r]` what it decided on reading the journal, `at[r]` which of the nine
records is its next, `before[r]` which files were there when its last read
began (files are read concurrently while others append, so a read may mix
moments), `age[r]` how much of its scope is left, `seen[r]` the receipts of its
current reconciliation. `slots[k]` is file k: absent, torn (created but not
completely written), written (readable, not yet synced), or durable, with the
authorization it is bound to and, for the terminal records, the receipt.
`chain[s]` is the position of the transaction of step s.

*Actions.* Each is a stretch of code between two awaits that others can
observe: `Admit`/`Create`/`Write`/`Sync` are one `createExclusive` with the read
before it; `Recheck` is `dualPreSubmissionRecheck`; `ReadReceipt` is the two
receipts and the canonical block, `ReconciledStep`/`PollAgain` the finalized
heads; `Fail` is every failed check, exception and crash, which all end the
process. A provider in `Faulty` may answer anything; since every answer is used
only when both providers give it, the model says what the honest one can have
seen. The file system is NTFS through Node: what `sync` returned for is durable.

Facts of the code that the model shows and that a reader may not expect:

* A second process that finds a submission may reconcile and write the terminal
  record first; the live process then fails its own append
  (`JOURNAL_OCCUPIED`) and ends, although its transaction succeeded.
* A process that ends between owner confirmation and submission, or in the
  middle of writing a record, blocks the journal for every later run: recovery
  by hand is intended.
* The rechecks before the send look at the mint deadline and not at the
  scope's expiry: a transaction signed in time may be sent after it.
* The final evidence file is created exclusively as well: a torn one blocks its
  completion.

### Altana

| Module | Models |
|---|---|
| `AltanaClaimRegister` | the abstract promise of the claim store |
| `AltanaClaim` | the fixed transaction on one pooled client, the server, the wire |
| `AltanaClaimInv`, `AltanaClaimProofs` | its invariant and theorems |
| `AltanaGrant` | the bootstrap record, the tabs, the relay, the chain, the prober, over the abstract register |
| `AltanaGrantInv`, `AltanaGrantProofs` | its invariants and theorems |
| `MCAltanaClaim`, `MCAltanaGrant` | instances for TLC |

*Claim store.* `pc[r]` is the statement the call awaits; `query[r]` the one the
server has yet to execute, `reply[r]` the reply under way, `tx[r]` the
transaction at the server, `conn[r]` the pooled client. A call may give up at
any await (`GiveUp`, the bounded awaits and the transaction timer); the server
may still execute what was sent (`ServerInserts`, `ServerCommits`), answer late,
unreadably (`Garble`), or lose the connection. An INSERT waits for a rival's
open transaction and fails on a committed one, as PostgreSQL's unique indexes
do. Readiness comes and goes (`Verify`, `Lapse`). `KeysOf` gives each claim its
values of the four unique columns.

*Grant.* `record` is the stored bootstrap record; each transition function of
`altana-bootstrap.ts` is an action, with the time it is given taken from a
clock that may be `Skew` off the real time. `probes` are authority observations
on their way: they are never removed, so that each may be reconciled late,
again and in any order. The tabs use the claim store through its abstract
register, which `AltanaClaim` is shown to implement. `granted`, `lastExact` and
`newest` are history variables. `lastAuthorityObservedAt` and
`authorityObservedAt` are one field, since no status has both.

Assumed of what the repository does not contain:

* The record's persistence is not in the repository (the functions are pure):
  a transition is applied to the record that is stored when it is applied. The
  one race that has a mechanism in the code is modelled with it: the claim is
  the compare-and-swap from `grant_ready` to `grant_submitting`
  (`altana-grant.ts:332-334`), and the ledger does not look at the record, so
  that a claim may be recorded for a bootstrap that has expired meanwhile.
* The SDK tells the truth about what it knows: a rejected prompt has sent and
  will send nothing, a known failure is one the relay reported as terminal, a
  confirmation follows the landing. Everything else is
  pending, timed out or indeterminate, and may still land.
* The session outlives the bootstrap (the descriptor checks demand it), so
  that its expiry adds no condition to those modelled.
* Any two clocks disagree by at most `Skew` from the real time.

### Pool initializer

| Module | Models |
|---|---|
| `PoolChain` | one transaction, finality, the two endpoints as reconciliation uses them. External |
| `PoolJournals` | the nine files of the signing, submission and successor journals: creation, write, sync, status, power loss |
| `PoolInitializer` | the processes of both releases, from the command to the terminal record |
| `PoolOneShot` | the abstract promise: one signature, one send, no send of what was ended, a true outcome |
| `PoolProps` | the properties, the refinement mapping, the fair specification |
| `PoolInv`, `PoolProofs` | the inductive invariant and the theorems |
| `MCPool` | instances for TLC |

*State.* `files[f]` is a file with its state on the disk, the run whose
authorization it binds and the one thing its readers branch on (`kind`: whether
the worker was authorized or the claim ended; whether a record is dated after
the expiry; the outcome of a terminal). A run is an operating-system process:
`pc[r]` its awaited step, `io[r]` how far it is with the file it is creating,
`role[r]` what it decided on reading the journals, `expired[r]` whether the
authorization it holds has expired, `head[r]`/`seen[r]` its current observation.
`signed` and `sent` are the history of signatures and sends. `Successors` are
the runs of the release that has generation 10.

*Actions.* The dispatcher (`NotApplicable` … `DispatchBlocked`) and the probe
(`ProbeFresh` … `ProbeBlocked`) are the two decisions made on start. Every
append is `Check` (read the journal, compare its state), `Create`, `Write`,
`Sync`, or `Refuse`; another process may get between any two. `Target`,
`RecordKind`, `Demands` and `AfterRecord` say, for each place, which file, with
what in it, on which state and then what. `Fail` is every failed check,
exception and crash. Reading a journal is one step: a read lists the directory and
then reads the files of the list, and since files are only added at the end, its
result is that of a moment in between. `Pinned` is the comparison of generation
9's records with the hashes compiled into generation 10: they are those of a run
of the earlier release that had ended with a signature committed in both journals
and nothing submitted.

Facts a reader may not expect:

* The submission's start is dated when it is written. A start dated after the
  expiry makes the journal unreadable ("unknown_outcome") for good: nothing is
  sent, and nothing will be recorded.
* Generation 10 does not compare the date of its own start with the expiry, but
  checks the clock again before the send.
* In the release with generation 10 the dispatcher answers first; see the
  findings.

### Altana test action

| Module | Models |
|---|---|
| `AltanaTestnet` | the relay, the session key, the two endpoints. External |
| `AltanaWorker` | the poll loop with its three create-only files and the published state |
| `AltanaCeremony` | the tabs that grant and revoke, over the worker and the outside |
| `AltanaLifecycle` | the abstract promise: one action behind one key, published truthfully |
| `AltanaActionProps` | the properties, the refinement mapping to `AltanaLifecycle`, the fair specification |
| `AltanaActionInv`, `AltanaActionProofs` | the inductive invariant and the theorems |
| `MCAction` | instances for TLC |

*State.* `files[f]` is absent, torn or written, and names the call it is about;
`published` is `public-state.json`; `place[w]` the step of a worker's turn.
`operation` is what the browser keeps, `rendered[t]` what a tab shows of it,
`shown[t]` what the polled state allows. `calls` is the relay's list of accepted
calls, `view[p]` the key as an endpoint last saw it. `disowned` is a history
variable: the accepted calls whose request was aborted.

*Actions.* One turn of `runWorker` is `ReadFiles`, an observation of the key,
and what the files call for: claim, announce, execute, record the submission; or
follow the submission through the relay and the receipts; then `Publish`.
`Throw` is any exception with the catch that follows it, which publishes
`worker_blocked` or fails to; `Crash` is the end of the process and its next
start, whose checks of descriptor and custody do not change anything. The three
files are only ever added in order, so that reading them is one step, decided by
the last one. An endpoint that lags serves older views; its view of the key only
moves on.

A request of the ceremony ends in one of three ways, for a grant as for a
revocation: it returns, it throws, or it throws what `isUserRejection`
(`altana-session-ceremony.tsx:284-290`) takes for the owner's refusal
(`GrantCancelled`, `RevokeCancelled`). That function goes by the name of the error
alone, `NotAllowedError` or `AbortError`, and not by the `callsId` that
`withRelayCapture` may have captured. The refusal is therefore possible both before
anything was sent and after the relay has accepted the call; in the second case the
call joins `disowned`.

Assumed of the outside: the key does not come back. A revocation is for good
(`docs/deployment.md:145`: "the KeyStore revocation is monotonic and this
signer/config is consumed"), and a grant's permission ends at its own time, an hour
after it was asked for (`altana-test-action.ts:189`), so that an older grant that
lands late is no longer valid. Left out is a second grant, after an aborted one that
landed and expired unused, that renews the key.

Facts a reader may not expect:

* The worker claims (`altana-test-action-worker.mjs:670`) before it simulates
  (`:679`): a refused simulation uses up the claim and the action is never made.
  `docs/deployment.md` describes simulation first.
* Its files are not synced: the claim is durable against a crash of the process,
  not of the machine; the model has process crashes only.
* A key that has expired and is still listed by the account is a mismatch for
  the worker: every turn is blocked while it lasts.
* The receipts it waits for are those of the latest block, not a final one.
* Local storage orders nothing between tabs; `CeremonyFence` is about one.
* A request that is aborted after the relay accepted its call counts as
  cancelled. The ceremony forgets the grant, or puts the operation back to what it
  was before the revocation, and offers the button again: the relay may then have
  two grants or two revocations. That is the exception in `CeremonyFence`; see
  section 6.
* When such a forgotten grant lands, the ceremony offers neither grant (the key is
  there) nor revoke (there is no operation).
* After a revocation that returned, or whose answer was lost, the ceremony
  offers no other, whether or not the key is gone; see section 6.

### Liquidity quote

| Module | Models |
|---|---|
| `LiquidityQuote` | `calculatePancakeV3LiquidityQuote` with its helpers; the properties |
| `LiquidityProofs` | lemmas on division, deltas and the square root; the theorems |
| `MCLiquidity` | an instance for TLC |

The function is synchronous; its stages (`Validate`, `Measure`, `RoundUp`,
`Remeasure`, `BoundBelow`, `Conclude`) are actions so that each early return has
its place, and every iteration of `integerSquareRoot` is a step (`Refine`).
Integers are unbounded like the code's `bigint`; the scale (2^96), the greatest
liquidity (2^128 - 1), the basis (10 000) and the inputs are constants. The table
of tick ratios is a constant function of which only its strict increase is
assumed (`RatioAssumption`); that of `sqrtRatioAtTick` was evaluated at each of
its 1 774 545 ticks. The checks "unexpectedly exceed" are `Expect`.

## 3. The runs

| Run | Instance | Shows |
|---|---|---|
| `lp_two_runs` | two concurrent runs, one provider faulty, one reorganisation, power losses | `AtMostOnce`, `TerminalTruth`, `WriteAhead`, `MintGated`, `EvidenceTruth`, `AppendOnly`, `RestartOnlyReconciles`, `RecoveryOnlyEnds`, `ImplementsOneShot` |
| `lp_completes` | undisturbed runs, one reorganisation, fair | `Completes` |
| `lp_finality_race` | two runs, reorganisations also between the reads of one reconciliation | finding: `TerminalTruth` is violated |
| `claim_calls` | two calls, three claims (rivals, replay, stranger), pool of one client, fair timers | `AnswersTrue`, `AtMostOneClaimed`, `CleanRelease`, `NoLeak`, `ImplementsRegister`, `Answered` |
| `grant_tabs` | two tabs, clocks agree, five instants, two probes | `AtMostOneGrant`, `DeadEnds`, `NewerWins`, `SecretKept`, `EnabledTruth` |
| `grant_rewound` | one tab, clocks a second apart, three probes | finding: `NewerWins` is violated |
| `pool_releases` | one run of each release, each restarted at will, crashes, power losses, expiry, primary provider faulty | `AtMostOnce`, `WriteAhead`, `EndedForGood`, `OneValidStart`, `TerminalTruth`, `AppendOnly`, `RestartOnlyReconciles`, `OnlyOutcomesFollow`, `ImplementsOneShot` |
| `pool_recovery` | the same runs, the power holds, fair | `SentIsReconciled` |
| `pool_stranded` | a run of the release with generation 10 alone, fair | finding: `SentIsReconciled` is violated |
| `action_workers` | two worker processes, one tab, crashes, one endpoint faulty | `SubmitsOnce`, `PublishedTruth`, `ImplementsLifecycle` |
| `action_completes` | one worker that is restarted, one tab, one request aborted after its acceptance, fair | `CeremonyFence`, `Completes` |
| `liquidity_quote` | four ticks, eight prices, six amounts of each token, five slippages, scale 16 | `ArithmeticHolds`, `RootExact`, `DriftsDown`, `Ends` |

The type invariants (`TypeOK` of each state machine) are theorems and the first
part of each inductive invariant, and no run spends itself on them.

Bounds, and why they are enough:

* `Runs`, `MaxLive` (first LP): two live processes make every race for one file,
  and one of them restarted after the other has ended is a recovery. A third run,
  and runs of different releases, are beyond TLC's time together with power
  losses; the theorems hold for any number of either.
* `MaxReorgs`: a second reorganisation of the same transaction repeats the
  first with another block; the receipts compare blocks for equality only.
* `Ages`: four ages of a scope distinguish every comparison of the code (two
  minutes left, expiry, mint deadline).
* `Requests`, `Claims`, `MaxConnections`: two calls make each pair of INSERT and
  COMMIT; the three claims are the relations two claims can have (equal, sharing
  some keys, none). A client that a call abandons is destroyed and its place in
  the pool is free, while the server may still execute what it was sent: with a
  pool of one the next call then runs beside the abandoned statements.
* `MaxTime`, `Expiry`, `MaxAge`, `MaxProbes`: the code compares times, and the
  instants suffice for a probe to be fresh, too old, from the future and from
  before issuance, on both sides of the expiry. `grant_rewound` needs three
  probes (newer, untimely, older), the other two. `grant_tabs` lets the clocks
  agree; with clocks that do not, `DeadEnds` and `EnabledTruth` are theorems.
* `Runs` (pool): generation 10 continues what a run of the earlier release left,
  so that one of each is the smallest instance with both paths; each may be
  started again and again. `Depth`, `MaxHeight`: one block between receipt and
  checkpoint tells them apart; `pool_recovery` lets them coincide.
* `Workers`, `Tabs` (action): two workers make every race for one file. The
  lifecycle has one key, and a second tab could only break `CeremonyFence`, which
  is about one. `CeremonyFence` and `Completes` are checked with one worker, to stay
  within TLC's time; the fence is a theorem for any number.
* `MaxAborts`: how many requests are aborted after the relay accepted them. One, in
  `action_completes`, is of either kind and makes a second grant or a second
  revocation possible; none in `action_workers`, where it would multiply the states
  of two workers beyond TLC's time. The theorems hold for any number.
* `liquidity_quote`: the ratios, the scale and the amounts are chosen so that
  every answer of the function occurs: each of its refusals, the failing check at
  the lowest price, and quotes with one and with two minimums.
* Symmetry is used for runs, tabs and workers only where no liveness is checked
  and no constant tells them apart.
* `CHECK_DEADLOCK FALSE` in all but the two runs of the test action: processes
  end, tabs finish, claims are answered, quotes are given, and then nothing need
  happen. The worker's loop never ends, and its runs check that.

The safety theorems below need none of these bounds except the named ones.

Every property is also broken by a plausible bug of the code: the "faulty
variants" in the modules (a signature before its announcement, a receipt of one
provider, a replay taken for a claim, a timeout taken for a failure, a rounding
in the other direction, …) are the mutants of `PROJECT.json`. Nothing uses them in
the specifications.

## 4. Fairness

* `LpProps!UndisturbedSpec` (for `Completes`) is weakly fair to each run's own
  steps, since an awaited promise that resolves is resumed. It leaves out
  failures, crashes, time-outs and the clock, and is not fair to the
  network: instead `Completes` assumes that what is sent becomes final.
* `AltanaClaim`'s `Fairness` covers the timers and the synchronous check before
  them, and nothing else: `setTimeout` fires, while the pool and the server may
  stay silent for ever. `Answered` holds under just that.
* `AltanaGrant` states no fairness: nothing in the code makes a tab go on, a
  probe arrive or an expired record be cleaned.
* `PoolProps!FairSpec`: the operator starts the command again when it has ended,
  a run's awaits are bounded so that it goes on or fails (weak), and no step of a
  recovery fails, or is answered with old or missing evidence, every time it is
  tried (strong). Nothing is assumed of the chain: `SentIsReconciled` starts from
  a final outcome below the head. Its goal allows a terminal record that a crash
  left torn, because such a journal needs a review by hand.
* `AltanaActionProps!FairSpec`: the process manager restarts the worker
  (`deploy/windows/ecosystem.config.cjs`, `autorestart`) and its loop never ends
  (weak); a read, an answer of the relay, a pair of receipts or a write that is
  tried for ever succeeds once (strong), since the code's answer to each failure
  is the next turn. Endpoints catch up with the chain. `Completes` starts from a
  landed execution and a key that is gone, and allows a torn file.
* `LiquidityQuote!FairSpec`: a synchronous function runs to its end.

## 5. The proofs

The seven proof modules hold for any number of runs, calls, tabs, workers,
claims and keys, any pool size, times, heights and bounds, any table of ratios and
any scale; the named assumptions of the modules only type the constants
(`FaultyAssumption`: one provider is honest; `KeysAssumption`: a claim has a key;
`RatioAssumption`: ratios increase).

`LpProofs`. `RunInv` is the inductive invariant for what runs do: where a run
can stand with which record ahead (`Control`), the durable records of its own
behind it (`Trail`), that two runs never fill one file (`InFlight`), and that
what it signed or sent was announced in them (`Announced`). `AtMostOnce`
follows because two runs that signed the same step would both have their
authorization in the same durable file. `WriteAhead`, `AppendOnly` and
`RestartOnlyReconciles` follow from the same invariant. `ChainTruth` adds the
chain: recorded terminals agree with a final chain, receipts read between the
block and the head are still the chain's, and the mint is ahead only of a
confirmed approval; from it `TerminalTruth`, `MintGated` and `EvidenceTruth`
follow under `QuietReads` (no reorganisation between the block reads and the
head reads of one reconciliation). Without that assumption they do not hold: see
the findings. What is left of them without it is `WrongOnlyIfMoved`: a terminal
record is the final outcome, or the chain has moved the transaction to a later
block since its receipt was read. `Dated` is its invariant: every receipt a run
holds, and every recorded one, is the chain's or lies in an earlier block than the
chain's, because a reorganisation only ever moves a transaction on.
`RecoveryOnlyEnds` (once the process with the authorization has ended, the journal
grows only by a terminal behind a submission) rests on `RecoveryBehind`: the records
that a recovery has read stay visible behind it, so that the next one of the prefix
is a terminal, and a run that completes the evidence begins none.

`LpRefinement`. `Ordered` adds what the promise's guards ask for and the records
alone do not say: what is on the chain was sent by some run, the mint is on it
only behind an approval, and a terminal being written is about a receipt that is
already final. With `RunInv` and `ChainTruth` each step of the runners, the chain
and the machine is then one step of `LpOneShot` or none.

`AltanaClaimProofs`. `IInv` relates, per call, the await it is at with the
statement, reply and transaction on the wire, and says which answers the wire
can still make true; rows are pairwise free of clashes because an INSERT
executes only without a committed or open rival. `RegisterImplemented` is the
safety refinement: initial states map to initial states and each step is a step
of the register or a stutter (a late INSERT's COMMIT of a call that was told
"unknown" is `Record`). `AnswersTrueHolds` is then proved of the register alone
(`Kept`: whoever was answered or is recorded has asked; a record is added only for a
call told nothing or "unknown") and inherited through the refinement. `NoRetry`
orders the awaits of a call (`Stage`): each of its steps goes forward, so that with
`Answered` every call ends after at most seven awaits.

`AltanaGrantProofs`. `IInv` has one part per property: the ledger has one row
and only its tab is granting (`Claiming`), what a tab was told of a failure is
final (`Final`), the secret is there from provisioning to cleanup (`Kept`), and
an exact observation is no newer than the last instant of exact authority allows
(`Observed`). `EnabledTruth` follows with the age limit and twice the skew: one
for the prober's clock, one for the server's. `NewerWins` is proved from
`Remembered` for clocks that agree (`Skew = 0`); for clocks that do not, it is
false, and `OnlyUntimelyRewinds` says how: the time of the last observation goes back
only when an observation of the future or from before issuance is reconciled.
`EnabledByClaim` follows the authority back (`Origin`): what a probe calls exact has
landed, what has landed was granted, and the one tab that granted has the recorded
claim. `LedgerUsed` closes the composition: the tabs use the store only through
steps of the register, which `RegisterImplemented` shows the transaction to provide.

`PoolProofs`. `PoolInv` has four parts: where a run can stand and what it has on
the disk by then (`RunInv`: `Control`, `Trail`, `Follows`, `InFlight`); how the
files rest on each other, with the fact that generation 10 is only ever at work on
a signature whose maker has ended without submitting (`FileInv`: `Ladder`,
`Stranded`, `Ended`); that the one signature and the one send are between their
records (`SignedInv`, `SentInv`); and that what was observed, and recorded of it,
is settled (`TruthInv`). `Stranded` is the part that keeps the two generations
apart: without it nothing in the two journals excludes that both start.
`PoolImplementsOneShot` follows from it and the frames of the actions.
`OnlyOutcomesFollow` needs `Ladder` and `Stranded` for what is on the disk when either
generation starts, and `AppendOnly` and the exclusion of a second start for what may
still be added.

`AltanaActionProofs`. `ActionInv`: the creator of the claim is the only one that
can be at the send (`Ownership`), the submission names that call (`Pursuit`), an
honest endpoint has seen the key of whatever was claimed and sees it gone only
when it is (`Views`), what is about to be published is true already (`Truth`), and
the browser's storage knows of each call before it is made, until its request is
aborted (`Fence`). `CeremonyFence` follows for any number of such aborts: each call
joins `disowned` in the step that forgets it (`AbortDisowns`). For the refinement of `AltanaLifecycle`, `Mapped` says that the one call is the promise's
action and what is published is justified; a step of a worker that publishes is then
`Tell`, the relay's verdict on the call `Settle`, and the key's history `Grant` and
`Withdraw`.

`LiquidityProofs`. Division rounded down and up (`DivideDown`, `DivideUpBound` and
its monotony); a liquidity that an amount allows needs no more than it
(`Amount0Fits`, `Amount1Fits`); the position holds less of token 0 and more of
token 1 as the price rises (`PricesMonotone`), by tick or by price (`TickIsPrice`);
Newton's candidates never fall below the root, and where they stop improving is
the root (`NewtonStep`, `RootBelow`, `RootAbove`). `LInv` carries these from stage
to stage. The clamp of the lower price is the one place where a price "below" is
above the observed one, and only at `AtTheEdge` does it matter. `RootIsExact` says that the iteration of
`integerSquareRoot` divides by no zero and ends with the exact root; `QuoteDriftsDown`
that the rounding of the calldata only ever lowers the liquidity, and not at all for a
position all in token 1; `QuoteApproaches` is the part of termination that needs no
fairness: every step lowers the rank of the stage, or keeps it and lowers the root
under way, and both are natural numbers.

| Theorem | Of | Property |
|---|---|---|
| `LpProofs!TypeCorrect`, `WriteAheadHolds`, `AtMostOnceHolds`, `AppendOnlyHolds`, `RestartOnlyReconcilesHolds`, `RecoveryOnlyEndsHolds`, `WrongOnlyIfMovedHolds` | `LpRunner!Spec` | the property of the same name |
| `LpProofs!ChainTruthHolds`, `TerminalTruthHolds`, `MintGatedHolds`, `EvidenceTruthHolds` | `LpRunner!Spec`, `QuietReads` | the same |
| `LpRefinement!RunnerImplementsOneShot` | `LpRunner!Spec`, `QuietReads` | `ImplementsOneShot` |
| `AltanaClaimProofs!TypeCorrect`, `AtMostOneClaimedHolds`, `CleanReleaseHolds`, `NoLeakHolds`, `RegisterImplemented`, `AnswersTrueHolds`, `NoRetryHolds` | `AltanaClaim!Spec` | `TypeOK`, `AtMostOneClaimed`, `CleanRelease`, `NoLeak`, `ImplementsRegister`, `AnswersTrue`, `NoRetry` |
| `AltanaGrantProofs!TypeCorrect`, `AtMostOneGrantHolds`, `DeadEndsHolds`, `SecretKeptHolds`, `EnabledTruthHolds`, `EnabledByClaimHolds`, `OnlyUntimelyRewindsHolds` | `AltanaGrant!Spec` | the same |
| `AltanaGrantProofs!LedgerUsed` | `AltanaGrant!Spec` | `Ledger!Spec`, the register the claim store implements |
| `AltanaGrantProofs!NewerWinsHolds` | `AltanaGrant!Spec`, `Skew = 0` | `NewerWins` |
| `PoolProofs!PoolTypeOK`, `PoolAtMostOnce`, `PoolWriteAhead`, `PoolEndedForGood`, `PoolOneValidStart`, `PoolTerminalTruth`, `PoolAppendOnly`, `PoolRestartOnlyReconciles`, `PoolOnlyOutcomesFollow`, `PoolImplementsOneShot` | `PoolInitializer!Spec` | the same |
| `AltanaActionProofs!ActionTypeCorrect`, `ActionSubmittedOnce`, `ActionPublishedTruth`, `ActionCeremonyFence`, `ActionImplementsLifecycle` | `AltanaCeremony!Spec` | `TypeOK`, `SubmitsOnce`, `PublishedTruth`, `CeremonyFence`, `ImplementsLifecycle` |
| `LiquidityProofs!QuoteArithmetic`, `RootIsExact`, `QuoteDriftsDown`, `QuoteApproaches` | `LiquidityQuote!Spec` | `ArithmeticHolds`, `RootExact`, `DriftsDown`, `Approaches` |

Proved without a run of their own are the type invariants, `WrongOnlyIfMoved`,
`NoRetry`, `EnabledByClaim`, `OnlyUntimelyRewinds`, `LedgerUsed` and `Approaches`. TLC
found all but `LedgerUsed` and their invariants true on the instances of the runs before
they were proved (of `LedgerUsed` it explored ten million states without a violation,
and did not finish): `WrongOnlyIfMoved` and `Dated` on that of `lp_two_runs` with
`QuietReads = FALSE` and up to two reorganisations, `OnlyUntimelyRewinds` on that of
`grant_rewound`.

Only model-checked: the liveness properties `Completes` (both), `Answered`,
`SentIsReconciled` and `Ends`: the proof system has no support for reasoning about
fairness. Of `Answered` and `Ends` the part that is not about fairness is proved
(`NoRetry`, `Approaches`).

## 6. Findings

* **`lp_finality_race`.** `docs/security.md:160` says that both providers
  "observe each receipt block as canonical below their finalized heads". The
  runner asks each provider for the canonical block and for the finalized head
  concurrently (`scripts/run-bsc-testnet-pta-wbnb-first-lp.ts:821`) and compares
  heights; a reorganisation between the two answers lets the journal record an
  outcome for a block that is no longer canonical. The window is one round
  trip.
* **`grant_rewound`.** `altana-bootstrap.ts:998-999` says that an older
  snapshot never replaces a newer authority observation. A probe from the
  future (line 988), or from before issuance (line 991), sets
  `lastAuthorityObservedAt` back to null, and an older exact probe that is still
  within the age limit then enables the session. `EnabledTruth` bounds what
  this can cost: the authority was exact no longer ago than the age limit and
  the clocks' disagreement allow.
* **`pool_stranded`.** `bsc-testnet-pta-wbnb-pool-production-composition.server.ts:985`
  says that a restart "may only inspect durable evidence and reconcile a matching
  submission_started state", and `docs/security.md:33` that a "start-present restart
  is reconciliation-only". In the release with generation 10 the dispatcher
  (`…-generation-10-runner.server.ts:126`) answers each state of generation 9 but the
  pinned one with "blocked", before the production runner is entered: a submission
  that this release's own generation-9 path has started is never reconciled. With the
  one pinned incident, which is the case the release was made for, and with runs of
  the earlier release beside it (`pool_recovery`), what was sent is reconciled.

Two divergences of the session ceremony have no run of their own; the model has the
behaviour of both:

* `docs/requirements-traceability.md:45` (ACT-01) promises "an immediate revoke path
  whenever active authority exists". The ceremony offers to revoke only with an
  operation that has no revoke (`altana-session-ceremony.tsx:408-409`). There is no
  path while the key is active after a revocation that failed, whose answer was lost,
  or that a reload closed between the click and the answer, nor after a grant that
  was taken for cancelled and landed. The ceremony's own message says so of the
  lost answer ("No blind retry is allowed", `:530`), so that document and code
  contradict each other; `CeremonyFence` states the side that the code takes.
* `docs/pitch-deck.md:88` promises "no blind retry when SDK grant outcome is unknown",
  and the other caller of the same SDK (`altana-grant.ts:640-681`) calls an `AbortError`
  indeterminate. The ceremony takes each `AbortError` for a cancellation, says "no grant
  or transaction was recorded" (`altana-session-ceremony.tsx:463-466`) and offers the
  grant again, also when the relay has the first one. Without the exception for
  `disowned`, `CeremonyFence` fails on the instance of `action_completes`.

Not a finding, but a fact of the liquidity quote: at the least price of the
protocol, with a range that begins at the least tick, the clamp of the lower price
puts it above the observed price, and the check that is "unexpected" to fail can
fail. The answer is a refusal, and no document says otherwise.

## 7. What is not modelled, and why

* Content of records, hashes, bindings and schemas: each check either passes or
  ends the operation, and the models have both. Records of two operations are
  never mixed in one directory or one row.
* Key custody, signing and encoding of transactions: a signature is an event.
* Rehearsal and custody-probe modes of the runners: they change no state.
* The recovery of a claim without effect that the first three generations of the
  pool's journal had: it is disabled for the generation the runner uses.
* The provisioning of the worker's custody files, a manual command before its
  first start; power losses of the worker's machine (its files are not synced, so
  that after one nothing of the above could be promised).
* The bit products of `sqrtRatioAtTick`: only their order matters, see above.
* Altana execute and revoke operations (`altana-operations.ts`): no driver in the
  repository calls their transitions, the ceremony and the worker call the SDK
  themselves. A model would have to invent the order of the calls.
* PTA deployment and LP reservations: the forms of the pool's journals and of the
  claim store's transaction; see the plan.
* Verification of database schemas: read-only; the claim store's model takes
  the verdict.
* Domain evaluators other than the quote, calldata, attestation: comparisons and
  encodings of parsed fields, which a model would restate.
* Analyzer agents: floating-point analyses behind request handlers.
* Readers, benchmarks, pages, capture and release scripts: pure or read-only,
  sequential, no state between calls.
* The operator ceremony server: process and git I/O around one variable.
* Contracts: single-transaction, few operations.

## 8. Plan

Done: first LP with its refinement, claim store, grant, pool initializer over two
releases, test action with its ceremony, liquidity quote. What would come next:

1. **PTA deployment** (`PtaJournal`): claim, authorization, start, signed record
   as in `PoolJournals`, and the recovery and the reconstruction of the one pinned
   incident: never two signed contents.
2. **LP reservation and handoff** (`LpReservation`): the claim store's
   transaction with consume-or-read, over an abstract register that a second call
   reads, and the receipt checks after the await.
3. **Altana operations** (`AltanaOperations`), once something drives them: a
   submission of unknown outcome without a call identifier can never be settled,
   and a revocation is final only after the authority was seen absent.
4. **Small state machines**: the run limit of the analyzer route, the transports
   of the agents, the lanes of the ceremony server.
