----------------------------- MODULE Settlement -----------------------------
(***************************************************************************)
(* The life of a payment in SignGate: the handlers reserveBudget,          *)
(* userOpSubmitted and userOpFinalized (signgate/internal/api/server.go)   *)
(* over the rows in Postgres (signgate/internal/store) and the budget in   *)
(* Redis, with the watcher's commit and the agents that report.            *)
(*                                                                         *)
(* A step of a handler is one statement of Postgres or one command of      *)
(* Redis, but for the sections that the session lock protects: SETNX, GET, *)
(* the write and DEL are one step, which a request that finds the lock     *)
(* taken skips with BUDGET_BUSY (module Reservation takes them apart, and  *)
(* has requests that outlive the lock).  There is one session, before its  *)
(* validUntil, and every payment has amount 1.                             *)
(*                                                                         *)
(* Agents are honest: they use one reservation per user operation, and     *)
(* report a user operation as finalized when it was executed and as        *)
(* reverted when it was reverted.  Their reports may be late or repeated.  *)
(***************************************************************************)
EXTENDS Integers, FiniteSets

CONSTANTS
    Procs,         \* concurrent requests
    Keys,          \* idempotency keys
    Ops,           \* user operations, each with its execution digest
    MaxTotal,      \* maxTotalSpend of the session
    MaxIds,        \* bound on reservations made
    MaxFailures,   \* bound on failed statements and stopped requests
    Ordered,       \* do agents report once, and in order?
    Slow           \* may a payment take longer than the pre-submit TTL?

VARIABLES
    aggregate,  \* Redis: the amount counted for the session
    members,    \* Redis: ids in the expiry index
    meta,       \* Redis: ids that have their metadata
    idem,       \* Redis: idempotency key -> id, 0 if there is none
    issued,     \* number of ids made
    counted,    \* history: ids whose amount was added and not taken off since
    overdrawn,  \* history: how often an amount was taken off once more
    expired,    \* ids whose pre-submit TTL has elapsed
    rows,       \* Postgres: budget_reservations
    userops,    \* Postgres: userop_lifecycle
    proc,       \* the requests in progress
    granted,    \* ids an agent was told are RESERVED
    uses,       \* user operation -> the reservation it is paid from
    fate,       \* user operation -> what happened to it on the chain
    reported,   \* user operation -> how far the agent is with its reports
    failures

budgetVars == <<aggregate, counted, overdrawn>>
redisVars == <<budgetVars, members, meta, idem, issued>>
agentVars == <<granted, uses, fate>>
vars == <<redisVars, expired, rows, userops, proc, agentVars, reported, failures>>

Ids == 1 .. MaxIds

NoRow == [status |-> "none"]
NoDigest == "none"

Reserved == "BUDGET_RESERVED"
Submitted == "USEROP_SUBMITTED"
Committed == "BUDGET_COMMITTED"
Released == "BUDGET_RELEASED"

ASSUME SettlementAssumption ==
    /\ {MaxTotal, MaxIds, MaxFailures} \subseteq Nat
    /\ {Ordered, Slow} \subseteq BOOLEAN
    /\ NoDigest \notin Ops

Idle == [pc |-> "idle"]

At(p, label) == proc[p].pc = label
Goto(p, label) == proc' = [proc EXCEPT ![p].pc = label]
Return(p) == proc' = [proc EXCEPT ![p] = Idle]

Pending(i) == rows[i].status \in {Reserved, Submitted}

Init ==
    /\ aggregate = 0 /\ members = {} /\ meta = {} /\ issued = 0
    /\ counted = {} /\ overdrawn = 0
    /\ idem = [k \in Keys |-> 0]
    /\ expired = {}
    /\ rows = [i \in Ids |-> NoRow]
    /\ userops = [o \in Ops |-> NoRow]
    /\ proc = [p \in Procs |-> Idle]
    /\ granted = {}
    /\ uses = [o \in Ops |-> 0]
    /\ fate = [o \in Ops |-> "unsent"]
    /\ reported = [o \in Ops |-> "no"]
    /\ failures = 0

\* A statement or a command fails.
Fails == failures < MaxFailures /\ failures' = failures + 1

-----------------------------------------------------------------------------
(* The reservation service.                                                *)

\* The steps just before and just after a section that the lock protects.
LockSteps == {"next", "make", "release", "rem", "save", "forget"}

\* SETNX finds the lock taken: by another request, which may be anywhere
\* between its own SETNX and its deferred DEL, or by one that has stopped.
Busy(p) == failures > 0 \/ \E q \in Procs \ {p} : proc[q].pc \in LockSteps

\* releaseAmount: down to zero, and whether or not it was done before.
Subtract(i) ==
    /\ aggregate' = IF aggregate = 0 THEN 0 ELSE aggregate - 1
    /\ counted' = counted \ {i}
    /\ overdrawn' = IF i \in counted THEN overdrawn ELSE overdrawn + 1

\* The metadata and the member of the expiry index.
Forget(i) ==
    /\ meta' = meta \ {i}
    /\ members' = members \ {i}

\* The reservation service returns.  reserveBudget answers with an error, and
\* userOpFinalized goes on whatever it was.
Done(p) ==
    proc' = [proc EXCEPT ![p] =
               IF @.op = "finalized" THEN [@ EXCEPT !.pc = "status"] ELSE Idle]

-----------------------------------------------------------------------------
(* reserveBudget.                                                          *)

StartReserve(p, k) ==
    /\ At(p, "idle")
    /\ proc' = [proc EXCEPT ![p] = [op |-> "reserve", pc |-> "sweep",
                                    key |-> k, id |-> 0, due |-> {}]]
    /\ UNCHANGED <<redisVars, expired, rows, userops, agentVars, reported, failures>>

\* Mutant of Due: whatever was made and has expired, committed or not.
DueCommitted == (1 .. issued) \cap expired

\* The members of the index whose time has come.
Due == members \cap expired

SweepExpired(p) ==
    /\ At(p, "sweep")
    /\ proc' = [proc EXCEPT ![p].pc = "next", ![p].due = Due]
    /\ UNCHANGED <<redisVars, expired, rows, userops, agentVars, reported, failures>>

\* The loop over the members that were read, in any order.
SweepRelease(p) ==
    /\ At(p, "next")
    /\ \/ /\ Busy(p) /\ proc[p].due # {}
          /\ Return(p)
          /\ UNCHANGED budgetVars
       \/ \E i \in proc[p].due :
             /\ Subtract(i)
             /\ proc' = [proc EXCEPT ![p].pc = "rem", ![p].id = i]
    /\ UNCHANGED <<members, meta, idem, issued, expired, rows, userops, agentVars,
                   reported, failures>>

\* DEL of the metadata and ZREM of the member.
SweepRemove(p) ==
    /\ At(p, "rem")
    /\ Forget(proc[p].id)
    /\ proc' = [proc EXCEPT ![p].pc = "next", ![p].id = 0,
                            ![p].due = @ \ {proc[p].id}]
    /\ UNCHANGED <<budgetVars, idem, issued, expired, rows, userops, agentVars,
                   reported, failures>>

\* The answer to an earlier request with the key.  An error is none.
CheckIdem(p) ==
    LET earlier == idem[proc[p].key]
    IN  /\ At(p, "next") /\ proc[p].due = {}
        /\ \/ /\ earlier # 0
              /\ proc' = [proc EXCEPT ![p].pc = "save", ![p].id = earlier]
              /\ UNCHANGED failures
           \/ earlier = 0 /\ Goto(p, "make") /\ UNCHANGED failures
           \/ Fails /\ Goto(p, "make")
        /\ UNCHANGED <<redisVars, expired, rows, userops, agentVars, reported>>

WithinBudget == aggregate + 1 <= MaxTotal

\* The locked section of Reserve: budget test, and the pipeline that writes.
MakeReservation(p) ==
    /\ At(p, "make")
    /\ \/ /\ Busy(p) \/ ~WithinBudget
          /\ Return(p)
          /\ UNCHANGED redisVars
       \/ /\ WithinBudget /\ issued < MaxIds
          /\ issued' = issued + 1
          /\ aggregate' = aggregate + 1
          /\ counted' = counted \cup {issued'}
          /\ members' = members \cup {issued'}
          /\ meta' = meta \cup {issued'}
          /\ idem' = [idem EXCEPT ![proc[p].key] = issued']
          /\ proc' = [proc EXCEPT ![p].pc = "save", ![p].id = issued']
          /\ UNCHANGED overdrawn
    /\ UNCHANGED <<expired, rows, userops, agentVars, reported, failures>>

\* Mutant of Conflicts: idempotency_key is not unique.
ConflictsIdOnly(i, k) == rows[i] # NoRow

\* The unique constraints on reservation_id and idempotency_key.
Conflicts(i, k) == \E j \in Ids : rows[j] # NoRow /\ (j = i \/ rows[j].key = k)

NewRow(k) == [key |-> k, status |-> Reserved, digest |-> NoDigest]

\* SaveReservation.  If the statement fails it may have had its effect.
SaveReservation(p) ==
    LET i == proc[p].id
        k == proc[p].key
        inserted == [rows EXCEPT ![i] = NewRow(k)]
    IN  /\ At(p, "save")
        /\ \/ /\ ~Conflicts(i, k)
              /\ rows' = inserted
              /\ granted' = granted \cup {i}
              /\ Return(p)
              /\ UNCHANGED failures
           \/ /\ Conflicts(i, k)
              /\ Goto(p, "lookup")
              /\ UNCHANGED <<rows, granted, failures>>
           \/ /\ Fails
              /\ \/ UNCHANGED rows
                 \/ ~Conflicts(i, k) /\ rows' = inserted
              /\ Goto(p, "lookup")
              /\ UNCHANGED granted
        /\ UNCHANGED <<redisVars, expired, userops, uses, fate, reported>>

\* Mutant of Answers: any row with the key will do.
AnswersAny(i, k) == \E j \in Ids : rows[j] # NoRow /\ rows[j].key = k

\* Is the row with the key the one of this reservation?
Answers(i, k) == rows[i] # NoRow /\ rows[i].key = k

\* GetReservationIDByIdempotency, and the comparison of the ids.
LookupIdempotency(p) ==
    LET i == proc[p].id
        mine == Answers(i, proc[p].key)
    IN  /\ At(p, "lookup")
        /\ \/ mine /\ granted' = granted \cup {i} /\ Return(p) /\ UNCHANGED failures
           \/ ~mine /\ Goto(p, "meta") /\ UNCHANGED <<granted, failures>>
           \/ Fails /\ Goto(p, "meta") /\ UNCHANGED granted
        /\ UNCHANGED <<redisVars, expired, rows, userops, uses, fate, reported>>

-----------------------------------------------------------------------------
(* ReleaseReservation, called by reserveBudget and userOpFinalized.        *)

\* Is the metadata there?
ReadMeta(p) ==
    /\ At(p, "meta")
    /\ \/ proc[p].id \in meta /\ Goto(p, "release") /\ UNCHANGED failures
       \/ proc[p].id \notin meta /\ Done(p) /\ UNCHANGED failures
       \/ Fails /\ Done(p)
    /\ UNCHANGED <<redisVars, expired, rows, userops, agentVars, reported>>

ReleaseAmount(p) ==
    /\ At(p, "release")
    /\ \/ Subtract(proc[p].id) /\ Goto(p, "forget") /\ UNCHANGED failures
       \/ Busy(p) /\ Done(p) /\ UNCHANGED <<budgetVars, failures>>
       \/ Fails /\ Done(p) /\ UNCHANGED budgetVars
    /\ UNCHANGED <<members, meta, idem, issued, expired, rows, userops, agentVars,
                   reported>>

ForgetReleased(p) ==
    /\ At(p, "forget")
    /\ \/ Forget(proc[p].id) /\ UNCHANGED failures
       \/ Fails /\ UNCHANGED <<members, meta>>
    /\ Done(p)
    /\ UNCHANGED <<budgetVars, idem, issued, expired, rows, userops, agentVars, reported>>

-----------------------------------------------------------------------------
(* The agent and the chain.                                                *)

SubmitOp(o, i) ==
    /\ fate[o] = "unsent"
    /\ i \in granted /\ \A other \in Ops : uses[other] # i
    /\ Slow \/ i \notin expired
    /\ fate' = [fate EXCEPT ![o] = "pending"]
    /\ uses' = [uses EXCEPT ![o] = i]
    /\ UNCHANGED <<redisVars, expired, rows, userops, proc, granted, reported, failures>>

IncludeOp(o) ==
    /\ fate[o] = "pending"
    /\ \E outcome \in {"executed", "reverted"} : fate' = [fate EXCEPT ![o] = outcome]
    /\ UNCHANGED <<redisVars, expired, rows, userops, proc, granted, uses, reported, failures>>

-----------------------------------------------------------------------------
(* userOpSubmitted.                                                        *)

StartSubmitted(p, o) ==
    /\ At(p, "idle")
    /\ fate[o] # "unsent"
    /\ Ordered => reported[o] = "no"
    /\ reported' = [reported EXCEPT ![o] = IF @ = "no" THEN "submitting" ELSE @]
    /\ \E digest \in {o, NoDigest} :
          proc' = [proc EXCEPT ![p] = [op |-> "submitted", pc |-> "update",
                                       id |-> uses[o], userop |-> o,
                                       digest |-> digest]]
    /\ UNCHANGED <<redisVars, expired, rows, userops, agentVars, failures>>

\* UPDATE of the status of a row, whatever it is; no row is no error.
UpdateReservationStatus(i, status) ==
    rows' = IF rows[i] = NoRow THEN rows ELSE [rows EXCEPT ![i].status = status]

AfterUpdate(p) == IF proc[p].digest = NoDigest THEN "userop" ELSE "bind"

UpdateSubmitted(p) ==
    /\ At(p, "update")
    /\ \/ /\ UpdateReservationStatus(proc[p].id, Submitted)
          /\ Goto(p, AfterUpdate(p))
          /\ UNCHANGED failures
       \/ Fails /\ Return(p) /\ UNCHANGED rows
    /\ UNCHANGED <<redisVars, expired, userops, agentVars, reported>>

\* BindReservationExecutionDigest, of a pending row only.
BindDigest(p) ==
    LET i == proc[p].id
    IN  /\ At(p, "bind")
        /\ \/ /\ Pending(i)
              /\ rows' = [rows EXCEPT ![i].digest = proc[p].digest]
              /\ Goto(p, "userop")
              /\ UNCHANGED failures
           \/ /\ ~Pending(i)
              /\ Return(p)
              /\ UNCHANGED <<rows, failures>>
           \/ Fails /\ Return(p) /\ UNCHANGED rows
        /\ UNCHANGED <<redisVars, expired, userops, agentVars, reported>>

\* SaveUserOp, an upsert that keeps the reservation of an earlier row.
SaveUserOp(p) ==
    LET o == proc[p].userop
    IN  /\ At(p, "userop")
        /\ \/ /\ userops' = [userops EXCEPT ![o] =
                    [status |-> Submitted,
                     reservation |-> IF @ = NoRow THEN proc[p].id ELSE @.reservation]]
              /\ reported' = [reported EXCEPT ![o] =
                    IF @ = "submitting" THEN "submitted" ELSE @]
              /\ UNCHANGED failures
           \/ Fails /\ UNCHANGED <<userops, reported>>
        /\ Return(p)
        /\ UNCHANGED <<redisVars, expired, rows, agentVars>>

-----------------------------------------------------------------------------
(* userOpFinalized.                                                        *)

StartFinalized(p, o) ==
    /\ At(p, "idle")
    /\ fate[o] \in {"executed", "reverted"}
    /\ Ordered => reported[o] = "submitted"
    /\ reported' = [reported EXCEPT ![o] = IF @ = "submitted" THEN "finalizing" ELSE @]
    /\ proc' = [proc EXCEPT ![p] = [op |-> "finalized", pc |-> "finalize", id |-> 0,
                                    userop |-> o, executed |-> fate[o] = "executed"]]
    /\ UNCHANGED <<redisVars, expired, rows, userops, agentVars, failures>>

\* Mutant of Finalizable: only a user operation that is still SUBMITTED.
FinalizableSubmitted(o) == userops[o].status = Submitted

\* The WHERE clause of FinalizeUserOp.
Finalizable(o) == userops[o] # NoRow

\* FinalizeUserOp and GetReservationIDByUserOp, which reads a column that is
\* never changed.
FinalizeUserOp(p) ==
    LET o == proc[p].userop
    IN  /\ At(p, "finalize")
        /\ \/ /\ Finalizable(o)
              /\ userops' = [userops EXCEPT ![o].status =
                    IF proc[p].executed THEN "USEROP_FINALIZED" ELSE "USEROP_REVERTED"]
              /\ proc' = [proc EXCEPT ![p].pc = IF proc[p].executed THEN "commit" ELSE "meta",
                                      ![p].id = userops[o].reservation]
              /\ UNCHANGED failures
           \/ /\ ~Finalizable(o)
              /\ Return(p)
              /\ UNCHANGED <<userops, failures>>
           \/ Fails /\ Return(p) /\ UNCHANGED userops
        /\ UNCHANGED <<redisVars, expired, rows, agentVars, reported>>

\* Mutant of Committing: the member stays in the expiry index.
CommittingIndexed(i) == meta' = meta \ {i} /\ UNCHANGED members

\* What CommitReservation takes away.  The aggregate keeps the amount.
Committing(i) == Forget(i)

\* The error of CommitReservation is ignored.
CommitReservation(p) ==
    /\ At(p, "commit")
    /\ \/ Committing(proc[p].id) /\ UNCHANGED failures
       \/ Fails /\ UNCHANGED <<members, meta>>
    /\ Done(p)
    /\ UNCHANGED <<budgetVars, idem, issued, expired, rows, userops, agentVars, reported>>

\* And so is the error of the last update.
UpdateSettled(p) ==
    /\ At(p, "status")
    /\ \/ /\ UpdateReservationStatus(proc[p].id,
                IF proc[p].executed THEN Committed ELSE Released)
          /\ UNCHANGED failures
       \/ Fails /\ UNCHANGED rows
    /\ reported' = [reported EXCEPT ![proc[p].userop] =
            IF @ = "finalizing" THEN "finalized" ELSE @]
    /\ Return(p)
    /\ UNCHANGED <<redisVars, expired, userops, agentVars>>

-----------------------------------------------------------------------------
(* The watcher, the passing of time, and requests that stop.               *)

\* Mutant of Matches: first in, first out.
MatchesFifo(i, o) == Pending(i) /\ \A j \in 1 .. i - 1 : ~Pending(j)

\* The pending row that is bound to the execution digest.
Matches(i, o) == Pending(i) /\ rows[i].digest = o

\* CommitBudgetOnChainExecution, in Postgres only.  The watcher may read an
\* event more than once (module Watcher).
IngestExecution(o) ==
    /\ fate[o] = "executed"
    /\ \E i \in Ids :
          /\ Matches(i, o)
          /\ rows' = [rows EXCEPT ![i].status = Committed]
    /\ UNCHANGED <<redisVars, expired, userops, proc, agentVars, reported, failures>>

MarkStale(o) ==
    /\ userops[o].status = Submitted
    /\ userops' = [userops EXCEPT ![o].status = "RECONCILIATION_REQUIRED"]
    /\ UNCHANGED <<redisVars, expired, rows, proc, agentVars, reported, failures>>

InProgress(i) == \E p \in {q \in Procs : ~At(q, "idle")} : proc[p].id = i

\* The pre-submit TTL of a reservation elapses, and with it the life of its
\* idempotency key.  Requests are shorter than that, and unless payments are
\* slow so is the time from the reservation to the finalized report.
Expire(i) ==
    /\ i \in 1 .. issued /\ i \notin expired
    /\ ~InProgress(i)
    /\ Slow \/ \A o \in Ops : uses[o] = i => reported[o] = "finalized"
    /\ expired' = expired \cup {i}
    /\ idem' = [k \in Keys |-> IF idem[k] = i THEN 0 ELSE idem[k]]
    /\ UNCHANGED <<budgetVars, members, meta, issued, rows, userops, proc, agentVars,
                   reported, failures>>

\* The metadata lives twice as long.
ExpireMeta(i) ==
    /\ i \in meta \cap expired
    /\ meta' = meta \ {i}
    /\ UNCHANGED <<budgetVars, members, idem, issued, expired, rows, userops, proc,
                   agentVars, reported, failures>>

Stop(p) ==
    /\ ~At(p, "idle")
    /\ Fails
    /\ Return(p)
    /\ UNCHANGED <<redisVars, expired, rows, userops, agentVars, reported>>

\* The request is in the reservation service.
ServiceStep(p) ==
    \/ SweepExpired(p) \/ SweepRelease(p) \/ SweepRemove(p)
    \/ CheckIdem(p) \/ MakeReservation(p)
    \/ ReadMeta(p) \/ ReleaseAmount(p) \/ ForgetReleased(p)
    \/ CommitReservation(p)

Handle(p) ==
    \/ ServiceStep(p)
    \/ SaveReservation(p) \/ LookupIdempotency(p)
    \/ UpdateSubmitted(p) \/ BindDigest(p) \/ SaveUserOp(p)
    \/ FinalizeUserOp(p) \/ UpdateSettled(p)

Next ==
    \/ \E p \in Procs :
          \/ \E k \in Keys : StartReserve(p, k)
          \/ \E o \in Ops : StartSubmitted(p, o) \/ StartFinalized(p, o)
          \/ Handle(p) \/ Stop(p)
    \/ \E o \in Ops :
          \/ \E i \in Ids : SubmitOp(o, i)
          \/ IncludeOp(o) \/ IngestExecution(o) \/ MarkStale(o)
    \/ \E i \in Ids : Expire(i) \/ ExpireMeta(i)

\* The server goes on with every request it has accepted.
Fairness == \A p \in Procs : WF_vars(Handle(p))

Spec == Init /\ [][Next]_vars /\ Fairness

-----------------------------------------------------------------------------
(* Properties.                                                             *)

Statuses == {Reserved, Submitted, Committed, Released}

\* Types; no two rows have one idempotency key.
TypeOK ==
    /\ aggregate \in 0 .. MaxTotal /\ overdrawn \in Nat
    /\ members \cup meta \cup counted \subseteq 1 .. issued
    /\ idem \in [Keys -> 0 .. issued]
    /\ expired \subseteq Ids /\ issued \in 0 .. MaxIds
    /\ rows \in [Ids -> {NoRow} \cup
            [key : Keys, status : Statuses, digest : Ops \cup {NoDigest}]]
    /\ \A i, j \in Ids : i # j /\ rows[i] # NoRow /\ rows[j] # NoRow
                            => rows[i].key # rows[j].key
    /\ \A o \in Ops : userops[o] # NoRow => userops[o].reservation \in Ids
    /\ \A p \in Procs : ~At(p, "idle") => proc[p].id \in 0 .. issued
    /\ granted \subseteq 1 .. issued
    /\ uses \in [Ops -> {0} \cup granted]
    /\ failures \in 0 .. MaxFailures

\* The reservations that Postgres shows as pending or committed: their TTL has
\* not elapsed, and no reverted report is giving them back.
Shown ==
    {i \in (1 .. issued) \ expired :
        /\ rows[i].status \in {Reserved, Submitted, Committed}
        /\ \A p \in Procs : proc[p] # Idle /\ proc[p].op = "finalized" /\ proc[p].id = i
                               => proc[p].executed}

\* Budgets are reserved atomically: the aggregate in Redis covers the
\* reservations that Postgres shows as pending or committed (reserveBudget).
Backed == Cardinality(Shown) <= aggregate

\* The two stores agree, whatever copies of a request race and whichever find
\* the lock taken.  A reservation in Postgres was counted in Redis and not
\* given back, and the aggregate falls short of these reservations by no more
\* than what was taken off repeatedly.  An agent is told RESERVED of a row that
\* is there.  And the aggregate holds nothing for ever: what it counts are
\* reservations that have a row or that a sweep will find (insert, lookup and
\* compensation of reserveBudget).
StoresAgree ==
    /\ Shown \subseteq counted
    /\ Cardinality(Shown) <= aggregate + overdrawn
    /\ \A i \in granted : rows[i] # NoRow
    /\ aggregate <= Cardinality(counted)
    /\ \A i \in counted : rows[i] # NoRow \/ i \in members

\* What was spent stays counted: no sweep, compensation or report takes the
\* amount of an executed payment off, and the aggregate falls short of the
\* executed payments only by what was taken off repeatedly for others
\* (SweepExpired goes by the index, which CommitReservation has left by then).
SpendCovered ==
    LET executed == {o \in Ops : fate[o] = "executed"}
    IN  /\ \A o \in executed : uses[o] \in counted
        /\ Cardinality(executed) <= aggregate + overdrawn

\* A terminal state is backed by the chain, in whatever order reports and the
\* watcher arrive and whatever fails: committed rows and finalized operations
\* were executed, released rows and reverted operations were reverted.
TerminalTrue ==
    /\ \A i \in Ids :
          /\ rows[i].status = Committed =>
                \E o \in Ops : uses[o] = i /\ fate[o] = "executed"
          /\ rows[i].status = Released =>
                \E o \in Ops : uses[o] = i /\ fate[o] = "reverted"
    /\ \A o \in Ops :
          /\ userops[o].status = "USEROP_FINALIZED" => fate[o] = "executed"
          /\ userops[o].status = "USEROP_REVERTED" => fate[o] = "reverted"

\* A terminal state of a reservation is final: the watcher's commit and the
\* steps of a submitted report may interleave, and no step sets a committed
\* or released row back (userOpSubmitted updates the status before it binds
\* the digest by which the watcher finds the row).
TerminalStays ==
    [][\A i \in Ids : rows[i].status \in {Committed, Released}
                         => rows'[i].status = rows[i].status]_vars

\* A finalized report that was accepted for an executed payment commits the
\* reservation in the end, whatever the watcher does to the rows meanwhile.
Converges ==
    \A o \in Ops :
        (\E p \in {q \in Procs : ~At(q, "idle")} :
            proc[p].op = "finalized" /\ proc[p].userop = o /\ proc[p].executed)
        ~> (uses[o] # 0 /\ rows[uses[o]].status = Committed)

\* Across the two stores and the chain the session's budget is a ledger, but
\* for one thing: the amount of a reservation that was given back may be taken
\* off once more, by another sweep or compensation that found it meanwhile.
\* Otherwise every step grants within what is booked, releases what was not
\* paid, commits by the execution of the payment, or shows nothing; what was
\* paid is neither released nor taken off.
Ledger == INSTANCE BudgetLedger WITH
    Sessions <- {"session"},
    Amounts <- {1},
    MaxTotal <- [s \in {"session"} |-> MaxTotal],
    Overdraws <- TRUE,
    booked <- [s \in {"session"} |-> aggregate],
    ledger <- [i \in Ids |->
        LET executed == \E o \in Ops : uses[o] = i /\ fate[o] = "executed"
        IN  IF i > issued THEN [status |-> "unissued"]
            ELSE [session |-> "session", amount |-> 1,
                  status |-> IF i \in counted
                                 THEN IF executed THEN "committed" ELSE "reserved"
                                 ELSE IF executed THEN "lost" ELSE "released"]]

ImplementsLedger == Ledger!LedgerSpec
=============================================================================
