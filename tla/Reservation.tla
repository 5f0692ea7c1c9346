---------------------------- MODULE Reservation ----------------------------
(***************************************************************************)
(* SignGate's budget reservations (signgate/internal/reservation), at the  *)
(* granularity of Redis commands.  Every HTTP request that uses the        *)
(* service is a process: Redis runs one command, or one MULTI/EXEC         *)
(* pipeline, at a time, and commands of different requests interleave.     *)
(*                                                                         *)
(* A request may stop between two commands: the server crashes, or the     *)
(* client disconnects, which cancels the context of every later command,   *)
(* the deferred release of the lock included.                              *)
(*                                                                         *)
(* Time is discrete.  A key with time to live n set at time t is gone from *)
(* time t + n on; Tick drops the keys that expire.                         *)
(***************************************************************************)
EXTENDS Integers, FiniteSets, FiniteSetsExt

CONSTANTS
    Procs,          \* concurrent requests
    Sessions,
    Keys,           \* idempotency keys
    Amounts,        \* amounts requested, all positive
    MaxTotal,       \* session -> maxTotalSpend
    MaxIds,         \* bound on reservations made
    PreSubmitTTL,   \* life of a reservation (5 minutes)
    LockTTL,        \* life of the session lock (10 seconds)
    ValidUntil,     \* end of the validity of the sessions
    MinTTL,         \* least life of the aggregate (1 minute)
    MaxTime,        \* bound on the clock
    MaxCrashes,     \* bound on requests that stop half way
    Stalls,         \* may a request outlive the lock it holds?
    Releases,       \* do callers report reverted user operations?
    Commits         \* do callers report finalized user operations?

VARIABLES
    now,
    aggregate,   \* reserve:<session>        -> [amount, exp] or Nil
    idem,        \* idem:<session>:<key>     -> [id, exp] or Nil
    meta,        \* resmeta:<id>             -> exp or 0
    index,       \* reserve-expiry, the ZSET of members (score in ledger)
    lock,        \* reserve-lock:<session>   -> exp or 0
    proc,        \* the requests in progress
    issued,      \* number of ids made so far
    ledger,      \* what became of each id (history)
    crashes

vars == <<now, aggregate, idem, meta, index, lock, proc, issued, ledger, crashes>>

Ids == 1 .. MaxIds

Nil == [exp |-> 0]

\* The exp of a key that SET ... KEEPTTL has created without a time to live.
Never == MaxTime + 1

ASSUME ReservationAssumption ==
    /\ Amounts \subseteq Nat \ {0}
    /\ MaxTotal \in [Sessions -> Nat \ {0}]
    /\ {MaxIds, MaxTime, MaxCrashes, ValidUntil} \subseteq Nat
    /\ {PreSubmitTTL, LockTTL, MinTTL} \subseteq Nat \ {0}
    /\ {Stalls, Releases, Commits} \subseteq BOOLEAN

\* A request that is not in progress.
Idle == [pc |-> "idle"]

\* What a ZSET member encodes about its reservation, with the member's score.
Unissued == [status |-> "unissued"]

Amount(s) == IF aggregate[s] = Nil THEN 0 ELSE aggregate[s].amount

Goto(p, label) == proc' = [proc EXCEPT ![p].pc = label]

Return(p) == proc' = [proc EXCEPT ![p] = Idle]

At(p, label) == proc[p].pc = label

Init ==
    /\ now = 0
    /\ aggregate = [s \in Sessions |-> Nil]
    /\ idem = [k \in Sessions \X Keys |-> Nil]
    /\ meta = [i \in Ids |-> 0]
    /\ index = {}
    /\ lock = [s \in Sessions |-> 0]
    /\ proc = [p \in Procs |-> Idle]
    /\ issued = 0
    /\ ledger = [i \in Ids |-> Unissued]
    /\ crashes = 0

-----------------------------------------------------------------------------
(* Reserve: the sweep, the idempotency key, the lock, the budget.          *)

\* The handler lets a request through up to and including validUntil.  The
\* requests here are those that agree with the session on agent, intent and
\* maxPerTransfer; the others are refused before they reach the service.
StartReserve(p, s, k, a) ==
    /\ At(p, "idle")
    /\ now <= ValidUntil
    /\ issued + Cardinality({q \in Procs : ~At(q, "idle")}) < MaxIds
    /\ proc' = [proc EXCEPT ![p] =
            [op |-> "reserve", pc |-> "sweep", session |-> s, key |-> k,
             amount |-> a, members |-> {}, member |-> 0, read |-> 0]]
    /\ UNCHANGED <<now, aggregate, idem, meta, index, lock, issued, ledger, crashes>>

\* ZRANGEBYSCORE 0 now
SweepRange(p) ==
    /\ At(p, "sweep")
    /\ proc' = [proc EXCEPT ![p].pc = "next",
                            ![p].members = {i \in index : ledger[i].score <= now}]
    /\ UNCHANGED <<now, aggregate, idem, meta, index, lock, issued, ledger, crashes>>

\* The loop over the members, in the order of their scores, and its end.
SweepNext(p) ==
    /\ At(p, "next")
    /\ LET members == proc[p].members
       IN  \/ /\ members = {}
              /\ Goto(p, "idem")
           \/ \E i \in members :
                 /\ \A j \in members : ledger[i].score <= ledger[j].score
                 /\ proc' = [proc EXCEPT ![p].pc = "relLock",
                                         ![p].members = @ \ {i},
                                         ![p].member = i]
    /\ UNCHANGED <<now, aggregate, idem, meta, index, lock, issued, ledger, crashes>>

\* GET idem: an earlier answer to the same request is returned.
CheckIdem(p) ==
    /\ At(p, "idem")
    /\ IF idem[<<proc[p].session, proc[p].key>>] # Nil
       THEN Return(p)
       ELSE Goto(p, "lock")
    /\ UNCHANGED <<now, aggregate, idem, meta, index, lock, issued, ledger, crashes>>

\* Mutant of LockUntil: SETNX without a time to live.
LockUntilNever == Never

LockUntil == now + LockTTL

\* Mutant of SetNX: SET instead of SETNX.
SetPlain(p, s, label) ==
    Goto(p, label) /\ lock' = [lock EXCEPT ![s] = LockUntil]

\* SETNX with a time to live, without an owner; BUDGET_BUSY if it is taken.
SetNX(p, s, label) ==
    IF lock[s] # 0
    THEN Return(p) /\ UNCHANGED lock
    ELSE Goto(p, label) /\ lock' = [lock EXCEPT ![s] = LockUntil]

AcquireLock(p) ==
    /\ At(p, "lock")
    /\ SetNX(p, proc[p].session, "get")
    /\ UNCHANGED <<now, aggregate, idem, meta, index, issued, ledger, crashes>>

\* Mutant of Fits: the amount of this request is not in the test.
FitsBefore(s, read, a) == read < MaxTotal[s]

Fits(s, read, a) == read + a <= MaxTotal[s]

\* GET of the aggregate; BUDGET_DENIED goes straight to the deferred DEL.
ReadBudget(p) ==
    /\ At(p, "get")
    /\ LET read == Amount(proc[p].session)
           fits == Fits(proc[p].session, read, proc[p].amount)
       IN  proc' = [proc EXCEPT ![p].pc = IF fits THEN "exec" ELSE "unlock",
                                ![p].read = read]
    /\ UNCHANGED <<now, aggregate, idem, meta, index, lock, issued, ledger, crashes>>

\* Mutant of SessionTTL: the life of the session is not looked at.
SessionTTLMin == MinTTL

SessionTTL == IF ValidUntil - now < MinTTL THEN MinTTL ELSE ValidUntil - now

\* Mutant of Indexed: only metadata, no member in the expiry index.
IndexedNot(i) == index

Indexed(i) == index \cup {i}

\* The MULTI/EXEC pipeline that makes the reservation.
MakeReservation(p) ==
    LET s == proc[p].session
        i == issued + 1
    IN  /\ At(p, "exec")
        /\ issued' = i
        /\ aggregate' = [aggregate EXCEPT ![s] =
                [amount |-> proc[p].read + proc[p].amount, exp |-> now + SessionTTL]]
        /\ idem' = [idem EXCEPT ![<<s, proc[p].key>>] =
                [id |-> i, exp |-> now + PreSubmitTTL]]
        /\ meta' = [meta EXCEPT ![i] = now + 2 * PreSubmitTTL]
        /\ index' = Indexed(i)
        /\ ledger' = [ledger EXCEPT ![i] =
                [session |-> s, amount |-> proc[p].amount,
                 score |-> now + PreSubmitTTL, status |-> "reserved",
                 overdrawn |-> FALSE]]
        /\ Goto(p, "unlock")
        /\ UNCHANGED <<now, lock, crashes>>

\* The deferred DEL of the lock, whoever holds it by now.
Unlock(p) ==
    /\ At(p, "unlock")
    /\ lock' = [lock EXCEPT ![proc[p].session] = 0]
    /\ Return(p)
    /\ UNCHANGED <<now, aggregate, idem, meta, index, issued, ledger, crashes>>

-----------------------------------------------------------------------------
(* releaseAmount, for the member that a sweep or a release is working on.  *)

Member(p) == ledger[proc[p].member]

ReleaseLock(p) ==
    /\ At(p, "relLock")
    /\ SetNX(p, Member(p).session, "relGet")
    /\ UNCHANGED <<now, aggregate, idem, meta, index, issued, ledger, crashes>>

\* A reservation is released when its amount is subtracted from the aggregate,
\* and overdrawn if that happens after it was settled or released.
Released(i) ==
    IF ledger[i].status = "reserved"
    THEN [ledger EXCEPT ![i].status = "released"]
    ELSE [ledger EXCEPT ![i].overdrawn = TRUE]

\* GET of the aggregate.  If it has expired there is nothing to subtract from,
\* and the reservation is given back all the same.
ReleaseRead(p) ==
    LET s == Member(p).session
    IN  /\ At(p, "relGet")
        /\ IF aggregate[s] = Nil
           THEN /\ Goto(p, "relUnlock")
                /\ ledger' = IF Member(p).status = "reserved"
                             THEN Released(proc[p].member) ELSE ledger
           ELSE /\ proc' = [proc EXCEPT ![p].pc = "relSet", ![p].read = Amount(s)]
                /\ UNCHANGED ledger
        /\ UNCHANGED <<now, aggregate, idem, meta, index, lock, issued, crashes>>

\* Mutant of Reduced: the difference may be negative.
ReducedBelowZero(read, a) == read - a

Reduced(read, a) == IF read < a THEN 0 ELSE read - a

\* SET ... KEEPTTL of the difference.
ReleaseWrite(p) ==
    LET s == Member(p).session
    IN  /\ At(p, "relSet")
        /\ aggregate' = [aggregate EXCEPT ![s] =
                [amount |-> Reduced(proc[p].read, Member(p).amount),
                 exp    |-> IF @ = Nil THEN Never ELSE @.exp]]
        /\ ledger' = Released(proc[p].member)
        /\ Goto(p, "relUnlock")
        /\ UNCHANGED <<now, idem, meta, index, lock, issued, crashes>>

ReleaseUnlock(p) ==
    /\ At(p, "relUnlock")
    /\ lock' = [lock EXCEPT ![Member(p).session] = 0]
    /\ Goto(p, "del")
    /\ UNCHANGED <<now, aggregate, idem, meta, index, issued, ledger, crashes>>

-----------------------------------------------------------------------------
(* The end of one round of the sweep.                                      *)

SweepDelMeta(p) ==
    /\ At(p, "del") /\ proc[p].op = "reserve"
    /\ meta' = [meta EXCEPT ![proc[p].member] = 0]
    /\ Goto(p, "rem")
    /\ UNCHANGED <<now, aggregate, idem, index, lock, issued, ledger, crashes>>

SweepRem(p) ==
    /\ At(p, "rem")
    /\ index' = index \ {proc[p].member}
    /\ Goto(p, "next")
    /\ UNCHANGED <<now, aggregate, idem, meta, lock, issued, ledger, crashes>>

-----------------------------------------------------------------------------
(* ReleaseReservation and CommitReservation of a reservation that was made.*)

StartRelease(p, i) ==
    /\ Releases
    /\ At(p, "idle")
    /\ i <= issued
    /\ proc' = [proc EXCEPT ![p] =
            [op |-> "release", pc |-> "meta", member |-> i, read |-> 0]]
    /\ UNCHANGED <<now, aggregate, idem, meta, index, lock, issued, ledger, crashes>>

\* GET of the metadata: without it there is nothing to release.
ReadMeta(p) ==
    /\ At(p, "meta")
    /\ IF meta[proc[p].member] = 0 THEN Return(p) ELSE Goto(p, "relLock")
    /\ UNCHANGED <<now, aggregate, idem, meta, index, lock, issued, ledger, crashes>>

\* The ZRANGE that finds the member, then DEL and ZREM in one pipeline.  A
\* member is never added again, so the two are one step.
ForgetReleased(p) ==
    /\ At(p, "del") /\ proc[p].op = "release"
    /\ meta' = [meta EXCEPT ![proc[p].member] = 0]
    /\ index' = index \ {proc[p].member}
    /\ Return(p)
    /\ UNCHANGED <<now, aggregate, idem, lock, issued, ledger, crashes>>

CommitReservation(p, i) ==
    /\ Commits
    /\ At(p, "idle")
    /\ i <= issued
    /\ meta' = [meta EXCEPT ![i] = 0]
    /\ index' = index \ {i}
    /\ ledger' = IF ledger[i].status = "reserved"
                 THEN [ledger EXCEPT ![i].status = "committed"] ELSE ledger
    /\ UNCHANGED <<now, aggregate, idem, lock, proc, issued, crashes>>

-----------------------------------------------------------------------------
(* The environment.                                                        *)

\* The request stops; its lock stays until it expires.
Crash(p) ==
    /\ ~At(p, "idle")
    /\ crashes < MaxCrashes
    /\ crashes' = crashes + 1
    /\ Return(p)
    /\ UNCHANGED <<now, aggregate, idem, meta, index, lock, issued, ledger>>

\* A key, if it has not expired.
Alive(v, t) == IF v.exp <= t THEN Nil ELSE v

\* The commands a request makes while it holds the session lock.
Critical == {"get", "exec", "unlock", "relGet", "relSet", "relUnlock"}

\* Unless requests stall, the few commands of a critical section take far
\* less than the life of the lock.
Tick ==
    LET t == now + 1
    IN  /\ now < MaxTime
        /\ Stalls \/ \A p \in Procs : proc[p].pc \notin Critical
        /\ now' = t
        /\ aggregate' = [s \in Sessions |-> Alive(aggregate[s], t)]
        /\ idem' = [k \in Sessions \X Keys |-> Alive(idem[k], t)]
        /\ meta' = [i \in Ids |-> IF meta[i] <= t THEN 0 ELSE meta[i]]
        /\ lock' = [s \in Sessions |-> IF lock[s] <= t THEN 0 ELSE lock[s]]
        /\ UNCHANGED <<index, proc, issued, ledger, crashes>>

\* A request that is in progress goes on.
Continue(p) ==
    \/ SweepRange(p) \/ SweepNext(p)
    \/ CheckIdem(p) \/ AcquireLock(p) \/ ReadBudget(p)
    \/ MakeReservation(p) \/ Unlock(p)
    \/ ReleaseLock(p) \/ ReleaseRead(p) \/ ReleaseWrite(p) \/ ReleaseUnlock(p)
    \/ SweepDelMeta(p) \/ SweepRem(p)
    \/ ReadMeta(p) \/ ForgetReleased(p)

Next ==
    \/ \E p \in Procs :
          \/ \E s \in Sessions, k \in Keys, a \in Amounts : StartReserve(p, s, k, a)
          \/ Continue(p)
          \/ \E i \in Ids : StartRelease(p, i) \/ CommitReservation(p, i)
          \/ Crash(p)
    \/ Tick

\* Redis answers, and time passes.
Fairness == WF_vars(Tick) /\ \A p \in Procs : WF_vars(Continue(p))

Spec == Init /\ [][Next]_vars /\ Fairness

-----------------------------------------------------------------------------
(* Properties.                                                             *)

\* The steps at which a request has a reservation to work on.
MemberSteps == {"relLock", "relGet", "relSet", "relUnlock", "del"}

ReserveSteps == {"sweep", "next", "idem", "lock", "get", "exec", "unlock", "rem"}

ReserveRequest ==
    [op : {"reserve"}, pc : ReserveSteps \cup MemberSteps, session : Sessions,
     key : Keys, amount : Amounts, members : SUBSET Ids, member : 0 .. MaxIds,
     read : Nat]

ReleaseRequest ==
    [op : {"release"}, pc : {"meta"} \cup MemberSteps, member : Ids, read : Nat]

Request == {Idle} \cup ReserveRequest \cup ReleaseRequest

IssuedType ==
    [session : Sessions, amount : Amounts, score : Nat,
     status : {"reserved", "committed", "released"}, overdrawn : BOOLEAN]

\* Types; ids are issued in order.
TypeOK ==
    /\ now \in 0 .. MaxTime
    /\ aggregate \in [Sessions -> {Nil} \cup [amount : Nat, exp : Nat]]
    /\ idem \in [Sessions \X Keys -> {Nil} \cup [id : Ids, exp : Nat]]
    /\ meta \in [Ids -> Nat]
    /\ index \subseteq 1 .. issued
    /\ lock \in [Sessions -> Nat]
    /\ proc \in [Procs -> Request]
    /\ issued \in 0 .. MaxIds
    /\ \A i \in Ids :
          ledger[i] \in IF i <= issued THEN IssuedType ELSE {Unissued}
    /\ crashes \in 0 .. MaxCrashes

\* The sum of what is reserved or committed in session s.
Held(s) ==
    MapThenSumSet(LAMBDA i : ledger[i].amount,
        {i \in 1 .. issued : /\ ledger[i].session = s
                             /\ ledger[i].status \in {"reserved", "committed"}})

\* The session a request holds the lock of, if it is in a critical section.
LockedBy(p) ==
    IF proc[p].op = "reserve" /\ proc[p].pc \in {"get", "exec", "unlock"}
    THEN proc[p].session
    ELSE Member(p).session

\* At most one request is between the SETNX and the DEL of a session lock.
LockExclusive ==
    \A p, q \in Procs :
        /\ p # q
        /\ proc[p].pc \in Critical
        /\ proc[q].pc \in Critical
        => LockedBy(p) # LockedBy(q)

\* A session is not blocked for ever: its lock is free in the end, although
\* the request that took it may have crashed (the lock has a time to live).
LockFreed ==
    \A s \in Sessions : lock[s] # 0 /\ now < MaxTime ~> lock[s] = 0

\* Redis reservations prevent over-booking: what is reserved and committed
\* together never exceeds the session's maximum (Reserve's budget test).
NoOverbooking == \A s \in Sessions : Held(s) <= MaxTotal[s]

\* Whatever interleaves, expires or crashes, until the session ends the
\* aggregate falls short of what is reserved and committed only after the
\* amount of a settled or released reservation was subtracted: the aggregate
\* lives as long as the session, and the read-modify-write sequences of
\* Reserve and releaseAmount lose no other update.
BudgetHeld ==
    (now < ValidUntil /\ \A i \in 1 .. issued : ~ledger[i].overdrawn) =>
        \A s \in Sessions : Held(s) <= Amount(s)

\* No budget leaks: the aggregate counts nothing but live reservations, and a
\* reservation that was not settled is in the index, where a sweep finds it,
\* even if its metadata has expired.
NoLeak ==
    /\ \A s \in Sessions : Amount(s) <= Held(s)
    /\ \A i \in 1 .. issued : ledger[i].status = "reserved" => i \in index

\* The service implements the ledger its callers rely on: every step grants
\* one new reservation within the budget, settles or releases one, or does
\* nothing that the ledger shows.
Ledger == INSTANCE BudgetLedger WITH
    Overdraws <- FALSE,
    booked <- [s \in Sessions |-> Amount(s)],
    ledger <- [i \in Ids |-> IF i > issued THEN ledger[i] ELSE
                [session |-> ledger[i].session, amount |-> ledger[i].amount,
                 status |-> ledger[i].status]]

ImplementsLedger == Ledger!LedgerSpec
=============================================================================
