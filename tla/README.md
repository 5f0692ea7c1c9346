# Railguard verification

TLA+ models of Railguard, the spend-enforcement layer for AI-agent stablecoin
payments in this repository, with TLC runs on small instances and TLAPS proofs
for every instance. `PROJECT.json` lists components, runs, mutants, the
correspondence to source lines, findings, hazards and theorems. Paths below
are relative to the repository.

## 1. Inventory

Railguard has an on-chain half (Solidity) and an off-chain half, SignGate (Go
with Postgres and Redis), connected by signatures in one direction and by an
event log in the other.

| Component | State it keeps | Operations |
|---|---|---|
| Account adapter, `contracts/src/RailguardAccountAdapter.sol` | `sessions` (one configuration per nonce lane) | `registerSession`, `revokeSession`, `executeWithSession` |
| Execution hook, `contracts/src/RailguardExecutionHook.sol` | `adapter`, `sessionSpend`, `sessionExecutionSeq`, `usedExecutions` | `setAdapter`, `preCheck`, `postCheck` |
| Session validator, `RailguardSessionValidator.sol` | none | `validateSessionKey`, a view on the adapter's sessions |
| Reservation service, `signgate/internal/reservation` | Redis: `reserve:<session>`, `idem:<session>:<key>`, `resmeta:<id>`, the ZSET `reserve-expiry`, `reserve-lock:<session>` | `Reserve` (with `SweepExpired`), `ReleaseReservation`, `CommitReservation` |
| Handlers, `signgate/internal/api/server.go` | none of their own | `evaluateIntent`, `registerSession`, `reserveBudget`, `userOpSubmitted`, `userOpFinalized` |
| Store, `signgate/internal/store` | Postgres: intents, `policy_decisions`, `sessions`, `budget_reservations`, `userop_lifecycle`, receipts, `chain_executions`, `watcher_state` | one method per statement or transaction |
| Chain watcher, `signgate/internal/watcher` | `lastBlock` in memory, the cursor in Postgres | `Run`, `tick`, `poll`, `ingestLog` |
| Policy, `policy/railguard.rego`, `internal/policy` | none | `Evaluate` |
| Process, `signgate/cmd/api`, `internal/config`, `internal/api/auth.go` | configuration, policy and store of the running process | start (`Load`, `Validate`, choice of the store), shutdown, `requireAPIKey` |
| Identifiers and signatures, `internal/session`, `internal/eip712`, `internal/intent`, `internal/receipt`, `sdk/src` | none | pure encoders and hashes |

How they interact:

1. An agent submits an intent; `evaluateIntent` asks the policy and stores a
   decision. `registerSession` turns one ALLOW decision into one session and
   returns Railguard's signature; with the owner's signature the session is
   registered at the adapter.
2. Before a payment the agent asks `reserveBudget`, which reads the session in
   Postgres, reserves in Redis and stores a reservation row, in that order.
3. `executeWithSession` calls `hook.preCheck`, the token, `hook.postCheck`. The
   token call is external code in the middle of the account's operation.
4. The agent reports `userOpSubmitted` and `userOpFinalized`; independently the
   watcher reads `ExecutionAllowed` events and commits the reservation row
   whose execution digest matches.

What is hard here, and what makes each part correct:

- *Hook and adapter.* The token may call the account again between preCheck
  and postCheck, a nested call may fail and be swallowed, and the sequence
  number written by postCheck is the one preCheck read. Correct: no session
  spends more than its signed total; the tokens that left the account for a
  session are the spend the hook recorded, in its token and to its recipient;
  a digest is used once; nothing moves outside the window or after revocation.
- *Reservations.* Requests interleave between Redis commands, stop half way,
  outlive keys; the lock has no owner; amounts are given back by sweeps,
  releases and compensations. Correct: a session is never over-booked, no
  budget leaks, a reservation is given back at most once.
- *Handlers and the two stores.* Postgres and Redis change in separate steps,
  each of which may fail; reports arrive late or twice and race the watcher.
  Correct: the stores agree on what is reserved, terminal states agree with the
  chain and are not undone, spent budget stays counted.
- *Watcher.* Restarts, RPC errors, the rescan window, reorganisations, an
  execution seen before its digest is bound, a node that cannot be dialled when
  the process starts. Correct: every confirmed execution
  is recorded once, in the end, and the cursor never passes one that is not.
- *Authorization.* Requests race for one decision, session id or lane, end
  between two statements, are cut off by a shutdown, or meet a process that was
  started in another environment, with another policy, or without Postgres.
  Correct: one decision, one session, with the terms that were allowed; budget
  is reserved for such sessions only; production never signs or reserves
  without its own key, adapter and store.
- *Policy.* Rego rules on undefined and malformed fields. Correct: it allows
  nothing that the hook refuses.

`PROJECT.json` lists each of these hazards at its line, with the properties
that cover it and, where they cover it under a condition or not at all, why.

## 2. Modules

| Module | Models |
|---|---|
| `SessionHook` | adapter and hook, composed, with the EVM call stack |
| `MCSessionHook` | configurations and executions for TLC |
| `BudgetLedger` | abstract: what a caller of the reservation service relies on |
| `Reservation` | the service, one action per Redis command or pipeline |
| `Settlement` | `reserveBudget`, `userOpSubmitted`, `userOpFinalized` with the reservation service's commands between them, the watcher's commit, agents and their reports |
| `Watcher` | the chain with reorganisations, and `Run`, `tick`, `poll` |
| `Policy` | the Rego rules and the decoding of their result, as operators |
| `Service` | configuration, start, API key, receipt and EIP-712 signers, as operators |
| `Authorization` (EXTENDS `Policy`, `Service`) | the process and its restarts, `evaluateIntent`, `registerSession` with the transaction of `AuthorizeSession`, the checks of `reserveBudget` |
| `MCReservation`, `MCSettlement`, `MCWatcher`, `MCPolicy`, `MCAuthorization` | instances for TLC |
| `SessionHookProofs`, `ReservationProofs`, `SettlementProofs`, `WatcherProofs`, `PolicyProofs`, `AuthorizationProofs` | inductive invariants and theorems of the module each is named after |
| `SumProofs` | lemmas on sums over finite sets, used by `ReservationProofs` and `SessionHookProofs` |

### SessionHook

The variables are the storage of the two contracts under their own names, plus
`moved` (the tokens' view: what left the account per session, token and
recipient), `log` (`ExecutionAllowed` events), `now` (`block.timestamp`) and
`stack`. A stack entry is an `executeWithSession` in progress: the `HookContext`
that preCheck returned, the calls of the frame and how many have been made, and
the storage to restore if it reverts.

| Action | Code |
|---|---|
| `SetAdapter` | `setAdapter`: once, by the deployer |
| `RegisterSession` | `registerSession`: validity of the configuration, derived id, free lane, both signatures |
| `RevokeSession` | `revokeSession` by the owner |
| `ExecuteWithSession` | the session key's call up to the return of `preCheck`: activity, call type, every leaf, cap, digest not used |
| `TokenCall` | the next leaf's token transfer succeeds |
| `TokenCallFails` | it fails: the frame reverts, and with it everything made since it began |
| `PostCheck` | digest, spend, sequence number and event, or a revert on cap or replay |
| `Tick` | a later block; only between transactions |

All the account's operations are possible while a frame is on the stack: that
is reentrancy. A call that reverts before it reaches external code changes
nothing and is not a step. Hashes are injective: a session id is the record of
the fields it is derived from (without `policyHash` and `revoked`, as in
`SessionId.sol`), a digest the record of its preimage. Whether a signature is
valid is membership in `OwnerSigned` or `RailguardSigned`. An amount above
`MaxUint` stands for `uint256` overflow, which reverts under Solidity 0.8.
`validateSessionKey` is the validator's own copy of the activity test; a
signature is represented by the key that made it.

### Reservation and BudgetLedger

A process is a request with a program counter; each action is one Redis command
or one MULTI/EXEC pipeline, and commands of different requests interleave. Two
are merged: the ZRANGE that looks for a member and the pipeline that removes it
(members are never added again). `Crash` ends a request anywhere: a server
crash, or a client that disconnects, which cancels the context of the deferred
DEL of the lock as well. Keys carry the time at which they are gone; `Tick`
drops them. `ledger` is a history variable: what became of each id. An id is
released when its amount is first subtracted and committed when
`CommitReservation` runs on it while it is reserved.

`BudgetLedger` is the promise: `Grant` only within what is booked, then at most
one of `Commit` and `Release`. It names one deviation, `Overdraw`: the amount of
a reservation that was given back is taken off once more, at the expense of the
others. Whether an implementation may overdraw is the constant `Overdraws`. Two
modules implement it, each with its `ImplementsLedger`:

- `Reservation`, without `Overdraw`, under `booked <- ` the stored aggregate and
  `ledger <- ` the history without scores: Redis command by Redis command, before
  reservations expire or are released.
- `Settlement`, with `Overdraw`, under `booked <- ` the stored aggregate and a
  `ledger` in which a reservation is committed by the *execution of its payment
  on the chain*: the handlers, the two stores, the watcher and the chain together,
  sweeps included. A reservation whose payment was executed and whose own amount
  was taken off maps to a status the ledger does not have.

That Settlement needs `Overdraw` is the finding of `sweep_race`, seen from the
handlers: two sweeps of one expired member subtract its amount twice, and the
second subtraction is the budget of another reservation. What the refinement
shows is that this is the only way in which the session's budget is not a ledger.

### Settlement

A process is an HTTP request; a step is one statement of Postgres or one command
of Redis. Only the sections under the session lock are taken together: SETNX,
GET, the write and the deferred DEL are one step (`SweepRelease`,
`MakeReservation`, `ReleaseAmount`), which a request skips with BUDGET_BUSY when
the lock is taken. `Busy(p)` says when it can be: another request is just before
or just after such a section, so that it may be inside it, or a request has
stopped and left the lock behind. `Reservation` takes these sections apart and
shows that the lock makes them atomic (`LockExclusive`) unless a request stalls
for longer than the lock lives.

`aggregate`, `members`, `meta` and `idem` are the Redis keys; `counted` and
`overdrawn` are history: the ids whose amount was added and not taken off since,
and how often an amount was taken off once more. `Subtract` is `releaseAmount`,
which does not know whether it was done before. `rows` is
`budget_reservations`, `userops` is `userop_lifecycle`.

| Actions | Code |
|---|---|
| `StartReserve`, `SweepExpired`, `SweepRelease`, `SweepRemove` | `reserveBudget` up to the reservation service; the members that are due are read once, then given back and removed one by one, and a BUDGET_BUSY ends the request |
| `CheckIdem` | the GET of the idempotency key, before the lock: two copies of a request may both find nothing |
| `MakeReservation` | the budget test and the pipeline of `Reserve` |
| `SaveReservation`, `LookupIdempotency` | the insert and, if it fails or conflicts, the lookup by idempotency key |
| `ReadMeta`, `ReleaseAmount`, `ForgetReleased` | `ReleaseReservation`, by the metadata, as the compensation of `reserveBudget` and for a reverted operation; both callers drop its error, BUDGET_BUSY included |
| `StartSubmitted`, `UpdateSubmitted`, `BindDigest`, `SaveUserOp` | `userOpSubmitted`, in the order of its statements |
| `StartFinalized`, `FinalizeUserOp`, `CommitReservation`, `UpdateSettled` | `userOpFinalized`, which drops the errors of its last two calls |
| `IngestExecution`, `MarkStale` | the watcher's updates |
| `SubmitOp`, `IncludeOp` | the agent and the chain |
| `Expire`, `ExpireMeta` | the pre-submit TTL of a reservation and its idempotency key, and the longer one of its metadata |
| `Stop` | a request that ends anywhere |

Agents are honest (one reservation per operation, true outcomes) and their
reports are late or repeated when `Ordered = FALSE`. `Slow = FALSE` says that a
payment is reported as final before the TTL of its reservation has elapsed. Time
stays before `validUntil`, at which the aggregate expires (`Reservation` goes on
to it).

### Watcher

`chain` is a sequence of blocks of events, `Mine` adds one and `Reorg` replaces
the last ones, between any two steps of a poll: `BlockNumber` (head,
confirmations and rescan window), `FilterLogs`, then for each event `Insert`
and `Commit`, and for each block `SetCursor`. `PollFails` is an error of any
call (the cursor may have been written all the same) and `Stop` ends the
process. `Run` dials the node first; if that fails the goroutine returns and
`poll` is `Ended`: the process lives on without a watcher, and only a `Stop` and
another `Run` bring it back. An event is a key, `(tx_hash, log_index)`, and a digest; that a chain
never has a digest twice is `DigestsUnique` of `SessionHook`. The rows of
`chain_executions` are kept in the order of `created_at`, which is what
`GetChainExecutionBySessionID` sorts by. Block numbers wrap at `Width` where the
code subtracts unsigned numbers.

### Policy, Service and Authorization

`Policy` has one operator per rule; a field that is undefined in Rego is an
empty set, so a rule that mentions it does not apply, and a malformed amount is
a value on which `to_number` is undefined. `Evaluate` decodes the result as
`policy.go` does, field names included. `HookAllows` states the hook's checks
on the same input.

`Service` has what a process is made of: `Load` (the default API key of a local
process; a CHAIN_ID that is not a number becomes 0), `Validate`, `Repositories` (Postgres, or in a local process the store
that keeps nothing), `requireAPIKey`, the receipt signer and the EIP-712 signer
whose `Domain` is the chain and the adapter of the process. The chain that an
intent asks for goes into its hash, the policy's input and the receipt; the one
that the session id and the signature are made with is the process's.

In `Authorization` a step is one statement in Postgres. The transaction of
`AuthorizeSession` is `LockDecision`, `ConsumeDecision`, `InsertSession`,
`Commit`: its writes take effect at the commit, and its statements wait for row
locks and for uncommitted entries of unique indexes of other transactions.
`Stop` ends a request (and rolls its transaction back), a commit's answer may
be lost. `Start` is `main`, with an environment and the policy file as it is
then; `Shutdown` is a signal or a crash. It cuts off all requests:
`http.Server.ListenAndServe` returns as soon as `Shutdown` is called, and `main`
then ends the process without waiting for the five seconds of grace. `server` is
`Down` or what the running process holds. `cosigned` has the signatures that
were answered. `asked` in a decision is history: what the policy was asked
about. `Admitted` is `reserveBudget` up to the call of the reservation service;
it reads only, so it is an operator. `GetReceipt` is the receipts route.

## 3. Runs

| Run | Instance | Shows |
|---|---|---|
| `hook` | two lanes with different windows, a configuration offered under another's id and one already marked revoked, eight executions of which five are invalid for some session, three calls deep, failures at every depth | caps, accounting, digests, events, permanence of sessions, windows and revocation, also where the validator would refuse the session key: eight properties |
| `reserve_race` | two requests at a time, four ids, one crash, no expiry of reservations | `NoOverbooking` and `ImplementsLedger`: the lock makes read-test-write atomic, whatever is lost on the way; `LockFreed`: a session is not blocked for ever by a request that crashed |
| `reserve_expiry` | two requests, expiry, sweeps, releases, commits, one crash, up to `validUntil` itself | `TypeOK`, `LockExclusive`, `NoLeak`, and `BudgetHeld`: until `validUntil` a repeated subtraction is the only thing that makes the aggregate too small |
| `sweep_race` (violation) | two requests, one expired reservation | `NoOverbooking` fails: see Findings |
| `authorize` | two requests, two intents that differ in a limit, two idempotency keys, two lanes, one stop, lost answer or shutdown; a production and a local environment with different chains and adapters, five environments that must not start, two policies, Postgres or no store; five budget requests | one decision, one session, one lane; no orphan of a transaction; signed terms are the allowed terms and those of the receipt, the allowed chain is the policy's and the signed one the process's; no signature under an old policy, and none that production must not make (`SignedAsConfigured`); budget only for what was granted (`ReservedIsGranted`); every request ends |
| `policy` | 15 000 inputs | `NotLooserThanHook`, `BlockedForAReason` |
| `watcher` | confirmation depth 1, rescan window 2, one reorganisation of depth 1, two failed calls, failed dials or stops, up to two events per block | `CursorSound`, `RowsOnChain`, `CommitEvidence`, `ReconciledIsLatest`; `ConfirmedRecorded` and `BoundCommitted` in the end |
| `watcher_reorg` | no confirmations, two reorganisations, one execution that may move to another transaction, start block 2 | `RecordedOnce`; `SettledUnlessDisplaced` in the end |
| `watcher_rebundled` (violation) | the same with one reorganisation, from block 1 | `SettledRecorded` fails: see Findings |
| `settle` | two requests, two keys, three reservations against a total of one, one operation, expiry and sweeps, no failing statement, reports in order and in time | `StoresAgree`, `SpendCovered`, `TerminalStays`, `ImplementsLedger`; `Converges` |
| `settle_reports` | one failing statement, late and repeated reports, slow payments | `TerminalTrue` |
| `retry` (violation) | one client that repeats its request, one failing statement | `Backed` fails: see Findings |

Why the bounds are enough to be interesting. On chain, a total of 3 with
transfers of 1 and 2 lets a session be used up, overrun by one, and split over
nested calls; depth 3 has a call inside a call inside a call, so a frame that is
neither the first nor the last; three executions exhaust the cap. `MaxTime`
reaches before one of the two validity windows, inside both and after the other. In Redis,
amounts 1 and 2 against a total of 3 (2 against 5 where sweeps make the state
space large) and three or four ids fill the budget and ask for more; two
requests are what every race here needs; times to live are of one to three
ticks, so that each key expires in some run before and in some run after the
request that uses it has ended. In `settle` a total of 1 and three ids are the
smallest case in which two sweeps take an expired amount off twice while a third
reservation, or an executed payment, is what they take it from; two keys and two
requests have copies of one request that both pass the idempotency GET, and a
compensation that finds the lock taken. Each of these was seen in the state
space: `overdrawn` above 1, more ids counted than the total allows, an executed
payment with an empty aggregate, and a counted id with neither row nor request.
The chain has four blocks: enough for a block
to be confirmed, read, replaced or rewound to, and read again after a
restart. Two decisions, two lanes and two intents are what two registrations
can compete for. Every bound is a CONSTANT.

`SYMMETRY` (`reserve_expiry`, `settle_reports`) permutes requests, keys and
operations, which no action tells apart; those runs have invariants only.
`CHECK_DEADLOCK FALSE` is used where an instance stops when its bounds are used
up; `authorize` checks for deadlock, since its requests wait for locks.

Fairness:

- `Reservation`: weak fairness of `Tick` and of `Continue(p)`: time passes, and a
  request in progress gets an answer to its next command unless it crashes. A
  request that finds the lock taken is answered BUDGET_BUSY, so nobody waits.
  `LockFreed` needs both: the lock is freed by its holder, or by its time to
  live if the holder is gone.
- `Watcher`: weak fairness of mining, of `Run` and of the steps of a poll. The
  chain goes on, the ticker of `Run` fires until the process ends, RPC calls
  and statements return, and a process that stopped is started again (as its
  deployment does). Failures and stops are bounded. A watcher that ended because
  its dial failed is not restarted by anything: there is no fairness for leaving
  `Ended`, and the liveness properties are for behaviours in which the watcher is
  not `Gone`, that is, not ended for good.
- `Settlement`: weak fairness of `Handle(p)`: the HTTP server goes on with a
  request it has accepted. Nothing obliges an agent to report.
- `Authorization`: strong fairness of `Handle(p)`: Postgres queues those who
  wait for a row lock, so a waiting statement is not overtaken for ever.

Each property of a passing run has a mutant in the modules (`...IgnoresRevoked`,
`...NoCap`, `SetPlain` and so on): one guard, key, index, update or call of the
code with one plausible mistake, under which TLC reports the property
violated.

Two points a reader may not expect:

- *The sequence number is not monotone under reentrancy.* postCheck writes
  `ctx.executionSeq + 1`, the number preCheck read, so an outer call sets it
  back after inner ones have used larger numbers. What holds is `DigestsUnique`
  (the replay table, not the counter, prevents a repeat) and, for a session
  whose numbers were announced once each, `SequenceFresh`: the next digest is
  never one that was used, so a repeated payment is not refused as a replay.
- *The lock has no owner.* A request that stalls for longer than the lock lives
  (10 s) writes over another's aggregate and deletes another's lock. The runs
  assume it does not (`Stalls = FALSE`); `LockExclusive` fails with
  `Stalls = TRUE`.

## 4. Findings

- `sweep_race`, `reservation.go:80`: two requests that have both read an expired
  member subtract its amount each, under the lock, one after the other. The
  aggregate is then too small and the session is over-booked, which
  `docs/THREE_PROJECT_SYSTEM_DIAGRAM.md:236` says Redis reservations prevent.
  A sweep that stops between `releaseAmount` and ZREM has the same effect. The
  hook still enforces the cap on chain.
- `retry`, `server.go:340`: one failing SELECT takes the budget away from a
  reservation that was granted. TLC's trace: a request reserves, its insert
  succeeds and the agent is told RESERVED. A copy of the request gets the same id
  from the idempotency key (`reservation.go:116`), its insert conflicts with the
  row, and the lookup of that row by idempotency key fails. The handler takes the
  reservation for one that was not persisted and releases its amount; the row
  stays BUDGET_RESERVED and Redis counts nothing for it. One step longer is the
  trace that begins with a failing insert: the amount is released, the
  idempotency key stays, and the retry's insert succeeds under the released id.
  `docs/PORTFOLIO.md:69` says "every budget reserves atomically".
- `watcher_rebundled`, `store.go:373`: after a reorganisation an execution that
  was recorded can be in another transaction. ON CONFLICT names
  `(tx_hash, log_index)` only, so the insert violates the unique index on the
  digest, the poll ends with that error and so does every later one: nothing
  behind that block is recorded. `docs/SECURITY_REVIEW.md:45` calls the rescan
  window idempotent. `SettledUnlessDisplaced` shows that this is the only
  reorganisation within the window that is not absorbed.

### Where the passing runs stop

The conditions under which the properties are checked are constants, and TLC
shows at once what happens beyond them:

- `validUntil` (`server.go:301` and `323`): the aggregate lives until
  `validUntil`, requests are accepted until `validUntil` inclusive. `BudgetHeld`
  therefore speaks of the time before it. With
  `ValidUntil = PreSubmitTTL = MaxTime = 2` `NoOverbooking` fails for one client:
  in that second the budget is counted from zero.
- `Stalls = TRUE` (`reservation.go:121`): `LockExclusive` fails. The locked
  sections of `Settlement` are single steps under the same assumption.
- Repeated subtractions (`reservation.go:80`): `settle` has them, and its
  properties say what is left. `StoresAgree`, `SpendCovered` and
  `ImplementsLedger` bound the shortfall of the aggregate by `overdrawn`; without
  that term each of them fails in the same run.
- BUDGET_BUSY (`reservation.go:227`, dropped at `server.go:340` and `408`): a
  compensation that finds the lock taken leaves an amount counted that belongs to
  no row. `settle` reaches this; `StoresAgree` says that the id is then still in
  the expiry index, so that a sweep gives it back.
- The chain (`server.go:221`, `config.go:34`): the policy allows, and the receipt
  tells, the `chainId` of the intent; the session id and the signature are for
  the CHAIN_ID of the process, and nothing compares the two. `authorize` has a
  process whose CHAIN_ID is not a number and therefore 0, which registers
  sessions for decisions about the policy's chain. `CosignedIsAllowed` states
  each half and does not state that they are equal: that would fail. The adapter
  derives the domain and the id from its own chain, so such a signature
  registers nothing there.
- A failed dial (`watcher.go:50`): the watcher is gone while the process lives
  on. `ConfirmedRecorded`, `BoundCommitted` and `SettledUnlessDisplaced` except
  behaviours in which it stays so.
- `Ordered = FALSE` (`server.go:360`): `TerminalStays` fails, because the update
  of `userOpSubmitted` has no condition on the status; a repeated submitted
  report undoes a commit. `docs/PORTFOLIO.md:69` says "every terminal payment
  state converges to chain evidence".
- `Slow = TRUE` (`reservation.go:70`, `store.go:459`): `SpendCovered` fails.
  Neither a submitted report nor the watcher's commit takes the reservation out
  of the expiry index, so a sweep gives the budget of an executed payment back
  when the finalized report comes after five minutes or not at all.
- A failing statement in `userOpFinalized`: `Converges` fails, since the server
  does not repeat the update and answers as if it had been made.
- A start block above 1 with a rescan window (`watcher.go:126`):
  `ReconciledIsLatest` fails. `poll` rewinds below the start block; when the
  poll fails half way the cursor stays there and the next one rewinds further,
  so rows of earlier blocks are created after those of later ones and
  `GetChainExecutionBySessionID` answers with an old execution (TLC:
  `StartBlock = 4`, `RescanBlocks = 2`, no confirmations, no reorganisation).
  The proof of `LatestIsReconciled` found this condition.
- A digest bound after its block has left the rescan window is accepted and
  never matched (`server.go:365`); `BoundCommitted` speaks of digests bound
  before the execution is recorded.
- Nonce keys written in two ways (7 and 07): `UNIQUE (account, nonce_key)`
  compares texts (`001_init.sql:21`) and the session id numbers, so with both
  in `NonceTexts` `OneDecisionOneSession` fails. `docs/SESSION_MODEL.md:7` says "one
  active session per account + nonceKey"; the adapter accepts one of the two.
- A revocation on the chain does not reach `sessions.status`, which has one
  value only: `reserveBudget` goes on reserving for a revoked session
  (`server.go:296`). The hook refuses the payment (`OnlyActiveSpend`) and the
  reservation expires.
- Receipts: `server.go:136` does not set `allowBatch`, so a receipt says false
  for an intent that allows batches. `Payload` models this; `CosignedIsAllowed`
  compares the other terms.
- Reasons: `policy.go:45` decodes `reasonCodes`, the policy's document has
  `reason_codes` (`railguard.rego:94`), so decisions and receipts carry no
  reason; `docs/RECEIPT_SCHEMA.md:8` shows one. `Evaluate` models this.

## 5. Proofs

Every safety property that a passing run checks is also a theorem, for all
constants that satisfy the assumptions of its module: any number of requests,
keys, sessions, blocks, failures and any depth of nested calls. Where a property
needs a condition on the environment, the run's constants satisfy it and the
theorem names it; section 4 says what happens without it.

| Theorem | States | Under | Inductive invariant |
|---|---|---|---|
| `SessionHookProofs!TypeCorrect` | `[]TypeOK` | | `TypeInv` |
| `CapRespected` | `[]SpendWithinCap` | | `CapInv` |
| `DigestsNeverRepeat` | `[]DigestsUnique` | | `DigestInv` |
| `Conservation` | `[]MovedIsAccounted` | | `MovedInv` |
| `LanesArePermanent` | `SessionsPermanent` | | `LaterInv` |
| `RefusedNeverSpends` | `OnlyActiveSpend` | | `LaterInv`, `ActiveInv` |
| `EventsAreAnAccount` | `[]EventTotals` | | `TotalsInv` |
| `SequenceIsFresh` | `[]SequenceFresh` | | `SeqInv` |
| `ReservationProofs!TypeCorrect` | `[]TypeOK` | | `StateInv` |
| `LockExcludes` | `[]LockExclusive` | `~Stalls` | `LockInv` |
| `BudgetIsHeld` | `[]BudgetHeld` | `~Stalls` | `FullInv` |
| `NothingLeaks` | `[]NoLeak` | `~Stalls` | `FullInv` |
| `OverbookedIfOverdrawn` | before `ValidUntil` and with nothing subtracted twice, `NoOverbooking` | `~Stalls` | `FullInv` |
| `NeverOverbooked` | `[]NoOverbooking` | `~Stalls`, `BeforeExpiry` | `EarlyInv` |
| `ServiceIsLedger` | `ImplementsLedger`, without `Overdraw` | `~Stalls`, `BeforeExpiry` | `EarlyInv` |
| `SettlementProofs!TypeCorrect` | `[]TypeOK` | | `SettleInv` |
| `TerminalIsTrue` | `[]TerminalTrue` | | `SettleInv` |
| `TerminalIsFinal` | `TerminalStays` | `Ordered` | `OrderInv` |
| `StoresStayTogether` | `[]StoresAgree` | `Ordered`, `MaxFailures = 0` | `Sums`, `StoreInv`, `ReleasedRows` |
| `SpendStaysCounted` | `[]SpendCovered` | `~Slow`, `MaxFailures = 0` | `Sums`, `SpendInv`, `QuickInv` |
| `SettlementIsLedger` | `ImplementsLedger`, with `Overdraw` | `~Slow`, `MaxFailures = 0` | `QuickInv` |
| `WatcherProofs!TypeCorrect` | `[]TypeOK` | | `StateInv` |
| `ExecutionsRecordedOnce` | `[]RecordedOnce` | | `StateInv` |
| `NothingSkipped`, `RecordedIsOnChain`, `CommittedHasEvidence` | `[]CursorSound`, `[]RowsOnChain`, `[]CommitEvidence` | `ReorgDepth <= Confirmation` | `EvidenceInv` |
| `LatestIsReconciled` | `[]ReconciledIsLatest` | the same, and `StartBlock <= 1 \/ RescanBlocks = 0` | `OrderInv` |
| `AuthorizationProofs!TypeCorrect` | `[]TypeOK` | | `AuthInv` |
| `ConsumedTogether`, `CosignedAllowed`, `ReservedGranted` | `[]ConsumedHasSession`, `[]CosignedIsAllowed`, `[]ReservedIsGranted` | | `AuthInv` |
| `OneDecision` | `[]OneDecisionOneSession` | `NonceValue` injective on `NonceTexts` | `AuthInv` |
| `SignedConfigured` | `SignedAsConfigured` | | `AuthInv` |
| `PolicyProofs!AllowedByHook`, `NoReasonAllows` | for every policy and every payment, what is allowed passes the hook, and what no reason speaks against is allowed | | none |
| `PolicyNotLooser`, `PolicyGivesReasons` | `[]NotLooserThanHook`, `[]BlockedForAReason` | | the state of `MCPolicy` |

### Assumptions

The ASSUMEs of the modules type the constants and are evaluated by TLC in the
runs. Beyond types they say: in `SessionHook`, `NoSession` is no configuration
and the account is not the zero address; in `Settlement`, no operation is the
missing digest; in `Watcher`, block numbers are below `Width` and the start
block is one the modelled chain can reach next; in `Authorization`, intents and
the intents that budget requests name are intents. The conditions of the third
column, and where they come from:

- `~Stalls`: no request is between two commands of a critical section for longer
  than `LockTTL` (10 s). The lock has no owner, so nothing else protects it.
- `BeforeExpiry`: times stay below `PreSubmitTTL` and `ValidUntil`, and nothing is
  released. Crashes, commits, lost locks and idempotency keys remain. It is
  what run `reserve_race` instantiates; once reservations are
  swept, `NoOverbooking` can fail (run `sweep_race`). What is true
  without the condition is `OverbookedIfOverdrawn`: before `ValidUntil`, a
  session is over-booked *only* after an amount was subtracted twice.
- `Ordered`, `~Slow`, `MaxFailures = 0`: agents report once and in order; the
  finalized report arrives within the TTL; no statement fails. `TerminalTrue`
  needs none of them. `SpendCovered` and the ledger do not need `Ordered`.
- `ReorgDepth <= Confirmation`: what the confirmation depth is chosen for.
- `StartBlock <= 1 \/ RescanBlocks = 0`: see section 4.
- `NonceValue` injective: nonce keys are spelled in one way; see section 4.

### The arguments

*SessionHook.* A revert brings back the storage that a stack entry saved, so
whatever is claimed of the current state has to be claimed of every saved state
too. `TypeInv` adds the types of the entries and that each was admitted;
`CapInv`, `DigestInv`, `TotalsInv` say the same of the current storage and of
each snapshot. `MovedIsAccounted` speaks of an empty stack only; `MovedInv`
closes that gap with an account of what is in flight: tokens moved for a session
are its recorded spend plus, for every frame on the stack, the part already
transferred, and the snapshot of an entry satisfies the equation for the frames
below it. `LaterInv` orders the snapshots: along the stack, and from its top to
the current storage, sessions only gain lanes and revocations, and the log only grows. `ActiveInv` says
that the session of every frame was active at its snapshot, which is what a
postCheck after a revocation comes down to. `SeqInv` says of every
open frame that the number it has read is still the counter of its session, or
was announced since.
`PopConserved`, `PushConserved`, `ApplyConserved` and `StackShape` treat the ways
in which the stack changes.

*Reservation.* `LockHeld` says that the lock of a request in its critical section
is there; with it `LockExclusive` is inductive, and with that `ReadFresh`: what a
request has read of the aggregate is still its value when it writes. `IndexInv`
says that reserved ids are in the index and that a request about to forget an id
has given it back. `SumInv` is then preserved because each write changes the
aggregate and the sum of what is held by the same amount, or is a subtraction
that the history records as repeated.

*Settlement.* `SettleInv` ties each request to the payment it is about: a
submitted report carries the reservation its operation uses, a finalized one the
outcome the chain decided. `Sums` relates the aggregate to the history:
`aggregate <= |counted| <= aggregate + overdrawn`, which every subtraction
preserves, first or repeated, cut off at zero or not. With it the two bounds on
the shortfall reduce to claims about sets of ids. `TakenOff` says that an id which
a sweep or a release is about to forget was taken off. `StoreInv` says that every
id has a key it was made for, with which Redis, Postgres and the requests agree,
and that an id is counted unless its row lost against another of the same key
(`Rejected`), its TTL elapsed or its payment was reverted (`CountedUnless`); an
id that is counted has a row, or a member that a sweep will find, also after a
compensation that was refused the lock. `ReleasedRows` covers reverted reports.
`SpendInv` says that the reservation of a payment under way is counted
(`PaymentsCounted`), that it is in no set of due members that a sweep has read
(`DueUnpaid`), and out of the expiry index by the time its TTL elapses
(`SettledIsOut`). `QuickInv` joins these. The refinement then has four kinds of
visible step: a request grants one, a first subtraction releases one, a repeated
one overdraws, the chain commits one; all others leave the ledger as it is.

*Watcher.* `EvidenceInv` says that rows lie in settled blocks, that the poll in
progress holds the events of the chain from the cursor on, and that both cursors
are sound; reorganisations within the confirmation depth do not reach what it
speaks of. `OrderInv` adds that nothing below
the start block is read and that the rows have no gap, so a row that is new lies
behind none of the others.

*Authorization.* `AuthInv` says what each request knows at each program counter,
who holds which row lock and index entry (`LocksOK`, `LockedOK`), and that rows
written by a transaction are consistent with the decision it has locked. Every
signature's domain is that of an environment a process was started in.

*Sums.* The ledger's sums are the community modules' `MapThenSumSet`, a recursive
function on subsets. That it exists and does not depend on the order in which
elements are taken is an induction; `SumProofs` does it with the least number
for which a claim fails (`LeastNumber`, from the well-foundedness of `<`), which
needs no theorem with an operator parameter. `SpendAfterAdds` in
`SessionHookProofs` does the same for the sum over the calls of a frame.

### Only model-checked

The liveness properties `LockFreed`, `RequestsEnd`, `ConfirmedRecorded`,
`BoundCommitted`, `SettledUnlessDisplaced` and `Converges`: they rest on fairness
and ENABLED, which the prover does not have. The three properties that the
violation runs refute are of course not proved.

## 6. Plan

Modelled and checked: all modules of section 2; proved: all their safety
properties. Left, in this order:

1. The safety core of the liveness properties, for every instance: that a
   request in progress always has a next step, and that each step of a poll
   brings the cursor closer to the safe head.
2. `StoresAgree` with failing statements, in the weaker form that only
   reservations a failure has touched can disagree.
3. Settlement over several sessions and amounts, and its events taken from
   `SessionHook`'s log. The instances above keep these apart because each of the
   compositions multiplies state spaces that are already in the hundred
   thousands.

## 7. Not modelled

The TypeScript SDK (pure encoders, checked against shared vectors by the
repository's tests), scripts, recorded evidence, web assets and logging.
`SaveSessionDraft` and `EnsureExecutionDigestSchema` have no caller. Private keys
that are set but malformed (signing then fails before any statement) and texts
with blanks around them are left out; of the environment, only the variables that
other parts depend on are modelled, and the numbers of the watcher are constants
of its module. The session key, the target and the selector of a registration
are fixed by the instance or by the code, so that a session configuration is told
apart by its other fields.
`transferOwnership` and `renounceOwnership` are inherited from OpenZeppelin: the
owner is a constant. `ExecutionBlocked` events are always undone by the revert
that follows them. Requests with missing or unparsable fields are refused before
any state is touched and are left out; texts that differ in letter case only are
one value, except nonce keys, which keep their text.
