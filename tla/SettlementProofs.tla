-------------------------- MODULE SettlementProofs --------------------------
(***************************************************************************)
(* Proofs about Settlement.  A terminal status is backed by the chain for  *)
(* every number of requests, user operations and failures, in whatever     *)
(* order reports arrive; with agents that report once and in order it is   *)
(* final as well; and while no statement fails and payments keep within    *)
(* the pre-submit TTL, the two stores agree and what was spent stays       *)
(* counted, up to the amounts that racing sweeps and compensations take    *)
(* off repeatedly, and the whole is a BudgetLedger with that deviation.    *)
(***************************************************************************)
EXTENDS Settlement, FiniteSetTheorems, TLAPS

-----------------------------------------------------------------------------
(* The requests, and what each knows of the payment it is about.           *)

\* The steps of Reserve before there is a reservation, and of
\* ReleaseReservation.
SearchSteps == {"sweep", "next", "make"}

ReleaseSteps == {"meta", "release", "forget"}

ReserveRequest ==
    [op : {"reserve"}, pc : SearchSteps \cup {"rem", "save", "lookup"} \cup ReleaseSteps,
     key : Keys, id : Nat, due : SUBSET Nat]

SubmittedRequest ==
    [op : {"submitted"}, pc : {"update", "bind", "userop"}, id : Nat,
     userop : Ops, digest : Ops \cup {NoDigest}]

FinalizedRequest ==
    [op : {"finalized"}, pc : {"finalize", "commit", "status"} \cup ReleaseSteps, id : Nat,
     userop : Ops, executed : BOOLEAN]

Request == {Idle} \cup ReserveRequest \cup SubmittedRequest \cup FinalizedRequest

\* A sweep is about reservations whose time has come.
ReserveOK(r) ==
    /\ r.id \in 0 .. issued /\ (r.pc \in SearchSteps <=> r.id = 0)
    /\ r.due \subseteq expired
    /\ r.pc = "rem" => r.id \in expired

\* A submitted report names the reservation its payment uses.
SubmittedOK(r) ==
    /\ fate[r.userop] # "unsent"
    /\ r.id = uses[r.userop]
    /\ r.digest \in {r.userop, NoDigest}

\* A finalized report says what became of the payment, and settles the
\* reservation the payment uses.
FinalizedOK(r) ==
    /\ fate[r.userop] = IF r.executed THEN "executed" ELSE "reverted"
    /\ r.id = IF r.pc = "finalize" THEN 0 ELSE uses[r.userop]
    /\ r.pc = "commit" => r.executed
    /\ r.pc \in ReleaseSteps => ~r.executed

RequestOK(r) ==
    \/ r = Idle
    \/ r \in ReserveRequest /\ ReserveOK(r)
    \/ r \in SubmittedRequest /\ SubmittedOK(r)
    \/ r \in FinalizedRequest /\ FinalizedOK(r)

Row == [key : Keys, status : Statuses, digest : Ops \cup {NoDigest}]

UserOpStatuses ==
    {Submitted, "USEROP_FINALIZED", "USEROP_REVERTED", "RECONCILIATION_REQUIRED"}

UserOp == [status : UserOpStatuses, reservation : Ids]

Fates == {"unsent", "pending", "executed", "reverted"}

Reports == {"no", "submitting", "submitted", "finalizing", "finalized"}

RedisOK ==
    /\ aggregate \in 0 .. MaxTotal /\ overdrawn \in Nat
    /\ members \subseteq 1 .. issued /\ meta \subseteq 1 .. issued
    /\ counted \subseteq 1 .. issued
    /\ idem \in [Keys -> 0 .. issued]
    /\ expired \subseteq 1 .. issued
    /\ issued \in 0 .. MaxIds

RowsOK ==
    /\ rows \in [Ids -> {NoRow} \cup Row]
    /\ \A i, j \in Ids : i # j /\ rows[i] # NoRow /\ rows[j] # NoRow
                            => rows[i].key # rows[j].key
    /\ \A i \in Ids : rows[i] # NoRow /\ rows[i].digest # NoDigest
                            => uses[rows[i].digest] = i

UserOpsOK ==
    /\ userops \in [Ops -> {NoRow} \cup UserOp]
    /\ \A o \in Ops : userops[o] # NoRow =>
          userops[o].reservation = uses[o] /\ fate[o] # "unsent"

AgentOK ==
    /\ granted \subseteq 1 .. issued
    /\ uses \in [Ops -> {0} \cup granted]
    /\ fate \in [Ops -> Fates]
    /\ \A o \in Ops : uses[o] = 0 <=> fate[o] = "unsent"
    /\ reported \in [Ops -> Reports]
    /\ failures \in 0 .. MaxFailures

ProcOK == proc \in [Procs -> Request] /\ \A p \in Procs : RequestOK(proc[p])

\* The inductive invariant behind TypeOK and TerminalTrue.
SettleInv == RedisOK /\ RowsOK /\ UserOpsOK /\ AgentOK /\ ProcOK /\ TerminalTrue

LEMMA ConstantTypes ==
    MaxTotal \in Nat /\ MaxIds \in Nat /\ MaxFailures \in Nat /\ NoDigest \notin Ops
BY SettlementAssumption

USE ConstantTypes

\* A payment that was submitted uses a reservation that was made and granted.
LEMMA UsedId ==
    ASSUME AgentOK, issued \in 0 .. MaxIds, NEW o \in Ops, fate[o] # "unsent"
    PROVE  uses[o] \in granted /\ uses[o] \in Ids /\ uses[o] \in 1 .. issued /\ uses[o] # 0
<1>1. uses[o] \in granted   BY DEF AgentOK
<1>2. uses[o] \in 1 .. issued   BY <1>1 DEF AgentOK
<1> QED BY <1>1, <1>2 DEF Ids

-----------------------------------------------------------------------------
(* The steps of the reservation service and the passing of time change     *)
(* what is in Redis, and no other step does.                               *)

BudgetStep ==
    \/ \E p \in Procs : ServiceStep(p)
    \/ \E i \in Ids : Expire(i) \/ ExpireMeta(i)

LEMMA BudgetFrame ==
    BudgetStep => /\ UNCHANGED <<rows, userops, granted, uses, fate, reported>>
                  /\ (UNCHANGED failures \/ Fails)
<1>1. ASSUME NEW p \in Procs, ServiceStep(p)
      PROVE  /\ UNCHANGED <<rows, userops, granted, uses, fate, reported>>
             /\ (UNCHANGED failures \/ Fails)
  BY <1>1
  DEF ServiceStep, SweepExpired, SweepRelease, SweepRemove, CheckIdem, MakeReservation, ReadMeta,
      ReleaseAmount, ForgetReleased, CommitReservation, agentVars
<1>2. ASSUME NEW i \in Ids, Expire(i) \/ ExpireMeta(i)
      PROVE  UNCHANGED <<rows, userops, granted, uses, fate, reported, failures>>
  BY <1>2 DEF Expire, ExpireMeta, agentVars
<1> QED BY <1>1, <1>2 DEF BudgetStep

LEMMA OtherFrame == [Next]_vars => BudgetStep \/ UNCHANGED <<redisVars, expired>>
BY DEF Next, vars, Handle, BudgetStep, Stop, StartReserve, StartSubmitted, StartFinalized,
       SaveReservation, LookupIdempotency, UpdateSubmitted, BindDigest, SaveUserOp, FinalizeUserOp,
       UpdateSettled, SubmitOp, IncludeOp, IngestExecution, MarkStale

\* The ways in which Redis changes.

Makes(p) ==
    /\ At(p, "make") /\ WithinBudget /\ issued < MaxIds
    /\ issued' = issued + 1
    /\ aggregate' = aggregate + 1
    /\ counted' = counted \cup {issued'}
    /\ members' = members \cup {issued'}
    /\ meta' = meta \cup {issued'}
    /\ idem' = [idem EXCEPT ![proc[p].key] = issued']
    /\ proc' = [proc EXCEPT ![p].pc = "save", ![p].id = issued']
    /\ UNCHANGED <<overdrawn, expired>>

TakesOff(p, i) ==
    /\ Subtract(i)
    /\ \/ /\ At(p, "next") /\ i \in proc[p].due
          /\ proc' = [proc EXCEPT ![p].pc = "rem", ![p].id = i]
       \/ At(p, "release") /\ i = proc[p].id /\ Goto(p, "forget")
    /\ UNCHANGED <<members, meta, idem, issued, expired>>

Forgets(p) ==
    /\ proc[p].pc \in {"rem", "forget", "commit"}
    /\ Forget(proc[p].id)
    /\ UNCHANGED <<budgetVars, idem, issued, expired>>

Expires(i) ==
    /\ i \in 1 .. issued /\ ~InProgress(i)
    /\ Slow \/ \A o \in Ops : uses[o] = i => reported[o] = "finalized"
    /\ expired' = expired \cup {i}
    /\ idem' = [k \in Keys |-> IF idem[k] = i THEN 0 ELSE idem[k]]
    /\ UNCHANGED <<budgetVars, members, meta, issued, proc>>

MetaGoes == meta' \subseteq meta /\ UNCHANGED <<budgetVars, members, idem, issued, expired>>

RedisStep ==
    \/ UNCHANGED <<redisVars, expired>>
    \/ \E p \in Procs : Makes(p)
    \/ \E p \in Procs : \E i : TakesOff(p, i)
    \/ \E p \in Procs : Forgets(p)
    \/ \E i \in Ids : Expires(i)
    \/ MetaGoes

LEMMA RedisChange == [Next]_vars => RedisStep
<1> SUFFICES ASSUME [Next]_vars PROVE RedisStep   OBVIOUS
<1>1. ASSUME NEW p \in Procs, MakeReservation(p) PROVE RedisStep
  BY <1>1 DEF MakeReservation, RedisStep, Makes
<1>2. ASSUME NEW p \in Procs, SweepRelease(p) PROVE RedisStep
  <2>1. CASE UNCHANGED budgetVars   BY <1>2, <2>1 DEF SweepRelease, RedisStep, redisVars
  <2>2. ASSUME NEW i \in proc[p].due, Subtract(i),
               proc' = [proc EXCEPT ![p].pc = "rem", ![p].id = i]
        PROVE  RedisStep
    <3>1. TakesOff(p, i)   BY <1>2, <2>2 DEF SweepRelease, TakesOff
    <3> QED BY <3>1 DEF RedisStep
  <2> QED BY <1>2, <2>1, <2>2 DEF SweepRelease
<1>3. ASSUME NEW p \in Procs, ReleaseAmount(p) PROVE RedisStep
  <2>1. CASE UNCHANGED budgetVars   BY <1>3, <2>1 DEF ReleaseAmount, RedisStep, redisVars
  <2>2. CASE Subtract(proc[p].id) /\ Goto(p, "forget")
    <3>1. TakesOff(p, proc[p].id)   BY <1>3, <2>2 DEF ReleaseAmount, TakesOff
    <3> QED BY <3>1 DEF RedisStep
  <2> QED BY <1>3, <2>1, <2>2 DEF ReleaseAmount
<1>4. ASSUME NEW p \in Procs, SweepRemove(p) PROVE RedisStep
  <2>1. Forgets(p)   BY <1>4 DEF SweepRemove, Forgets, At
  <2> QED BY <2>1 DEF RedisStep
<1>5. ASSUME NEW p \in Procs, ForgetReleased(p) \/ CommitReservation(p) PROVE RedisStep
  <2>1. CASE Forget(proc[p].id)
    <3>1. Forgets(p)   BY <1>5, <2>1 DEF ForgetReleased, CommitReservation, Forgets, At
    <3> QED BY <3>1 DEF RedisStep
  <2>2. CASE UNCHANGED <<members, meta>>
    BY <1>5, <2>2 DEF ForgetReleased, CommitReservation, RedisStep, redisVars
  <2> QED BY <1>5, <2>1, <2>2 DEF ForgetReleased, CommitReservation, Committing
<1>6. ASSUME NEW i \in Ids, Expire(i) PROVE RedisStep
  <2>1. Expires(i)   BY <1>6 DEF Expire, Expires
  <2> QED BY <2>1 DEF RedisStep
<1>7. ASSUME NEW i \in Ids, ExpireMeta(i) PROVE RedisStep
  BY <1>7 DEF ExpireMeta, MetaGoes, RedisStep
<1>8. ASSUME UNCHANGED <<redisVars, expired>> PROVE RedisStep
  BY <1>8 DEF RedisStep
<1>9. ASSUME NEW p \in Procs, SweepExpired(p) \/ CheckIdem(p) \/ ReadMeta(p) PROVE RedisStep
  BY <1>8, <1>9 DEF SweepExpired, CheckIdem, ReadMeta
<1> QED
  BY <1>1, <1>2, <1>3, <1>4, <1>5, <1>6, <1>7, <1>8, <1>9, OtherFrame DEF BudgetStep, ServiceStep

\* Fates are decided once, a payment keeps its reservation, and what has
\* expired stays expired.
PaymentsKept ==
    /\ issued \in Nat /\ issued' \in Nat /\ issued <= issued'
    /\ expired \subseteq expired'
    /\ uses' \in [Ops -> Nat] /\ fate' \in [Ops -> Fates]
    /\ \A o \in Ops :
          /\ fate[o] # "unsent" => uses'[o] = uses[o] /\ fate'[o] # "unsent"
          /\ fate[o] \in {"executed", "reverted"} => fate'[o] = fate[o]

LEMMA RequestKept ==
    ASSUME NEW r, RequestOK(r), PaymentsKept
    PROVE  RequestOK(r)'
<1>1. CASE r \in ReserveRequest /\ ReserveOK(r)
  BY <1>1 DEF RequestOK, PaymentsKept, ReserveOK, ReserveRequest
<1> QED
  BY <1>1 DEF RequestOK, PaymentsKept, SubmittedOK, FinalizedOK, SubmittedRequest, FinalizedRequest

LEMMA ProcKept ==
    ASSUME ProcOK, PaymentsKept, NEW p \in Procs, NEW r,
           proc' = [proc EXCEPT ![p] = r], r \in Request, RequestOK(r)'
    PROVE  ProcOK'
<1>1. proc' \in [Procs -> Request] BY DEF ProcOK
<1>2. ASSUME NEW q \in Procs PROVE RequestOK(proc[q])'
  <2>1. PICK x : x = proc[q]   OBVIOUS
  <2>2. RequestOK(x)'   BY <2>1, RequestKept DEF ProcOK
  <2>3. proc'[q] = r \/ proc'[q] = x   BY <2>1 DEF ProcOK
  <2> QED BY <2>2, <2>3 DEF RequestOK, ReserveOK, SubmittedOK, FinalizedOK
<1> QED BY <1>1, <1>2 DEF ProcOK

LEMMA InitSettle == Init => SettleInv
<1> SUFFICES ASSUME Init PROVE SettleInv   OBVIOUS
<1>1. RedisOK   BY DEF Init, RedisOK, Ids
<1>2. ProcOK   BY DEF Init, ProcOK, Request, RequestOK
<1>3. TerminalTrue   BY DEF Init, TerminalTrue, NoRow, Committed, Released
<1>4. AgentOK   BY DEF Init, AgentOK, Fates, Reports
<1> QED BY <1>1, <1>2, <1>3, <1>4 DEF Init, SettleInv, RowsOK, UserOpsOK

LEMMA PaymentsStep == SettleInv /\ [Next]_vars => PaymentsKept
<1> SUFFICES ASSUME SettleInv, [Next]_vars PROVE PaymentsKept   OBVIOUS
<1>0. /\ issued \in Nat /\ uses \in [Ops -> Nat] /\ fate \in [Ops -> Fates]
      /\ \A o \in Ops : uses[o] = 0 <=> fate[o] = "unsent"
  <2>1. issued \in Nat /\ {0} \cup granted \subseteq Nat
    BY DEF SettleInv, RedisOK, AgentOK
  <2> QED BY <2>1 DEF SettleInv, AgentOK
<1>r. issued' \in Nat /\ issued <= issued' /\ expired \subseteq expired'
  <2>1. CASE UNCHANGED <<redisVars, expired>>   BY <1>0, <2>1 DEF redisVars
  <2>2. ASSUME NEW p \in Procs, Makes(p) PROVE <1>r   BY <1>0, <2>2 DEF Makes
  <2>3. ASSUME NEW p \in Procs, NEW i, TakesOff(p, i) PROVE <1>r   BY <1>0, <2>3 DEF TakesOff
  <2>4. ASSUME NEW p \in Procs, Forgets(p) PROVE <1>r   BY <1>0, <2>4 DEF Forgets
  <2>5. ASSUME NEW i \in Ids, Expires(i) PROVE <1>r   BY <1>0, <2>5 DEF Expires
  <2>6. CASE MetaGoes   BY <1>0, <2>6 DEF MetaGoes
  <2> QED BY <2>1, <2>2, <2>3, <2>4, <2>5, <2>6, RedisChange DEF RedisStep
<1> USE <1>0, <1>r DEF PaymentsKept
<1>2. ASSUME NEW o \in Ops, NEW i \in Ids, SubmitOp(o, i) PROVE PaymentsKept
  BY <1>2 DEF SubmitOp, Ids, Fates
<1>3. ASSUME NEW o \in Ops, IncludeOp(o) PROVE PaymentsKept
  BY <1>3 DEF IncludeOp, Fates
<1>5. ASSUME UNCHANGED <<uses, fate>> PROVE PaymentsKept
  BY <1>5
<1>6. ASSUME BudgetStep PROVE PaymentsKept
  <2>1. UNCHANGED <<uses, fate>>   BY <1>6, BudgetFrame
  <2> QED BY <1>5, <2>1
<1>7. \/ BudgetStep
      \/ UNCHANGED <<uses, fate>>
      \/ \E o \in Ops : IncludeOp(o) \/ \E i \in Ids : SubmitOp(o, i)
  BY DEF Next, vars, Handle, BudgetStep, Stop, StartReserve, StartSubmitted, StartFinalized,
      SaveReservation, LookupIdempotency, UpdateSubmitted, BindDigest, SaveUserOp, FinalizeUserOp,
      UpdateSettled, IngestExecution, MarkStale, agentVars
<1> HIDE DEF PaymentsKept
<1> QED BY <1>2, <1>3, <1>5, <1>6, <1>7

LEMMA RedisTypes == SettleInv /\ [Next]_vars => RedisOK'
<1> SUFFICES ASSUME SettleInv, [Next]_vars PROVE RedisOK'   OBVIOUS
<1>0. RedisOK /\ ProcOK /\ issued \in Nat /\ aggregate \in Nat   BY DEF SettleInv, RedisOK
<1>1. ASSUME NEW p \in Procs, Makes(p) PROVE RedisOK'
  <2>0. PICK n : n = issued + 1   OBVIOUS
  <2>1. /\ issued' = n /\ n \in Nat /\ n <= MaxIds
        /\ 1 .. issued \subseteq 1 .. n /\ 0 .. issued \subseteq 0 .. n /\ n \in 1 .. n
        /\ n \in 0 .. n /\ n \in 0 .. MaxIds
    BY <1>0, <1>1, <2>0 DEF Makes, RedisOK
  <2>2. idem' \in [Keys -> 0 .. n]
    <3>1. idem \in [Keys -> 0 .. n]   BY <1>0, <2>1 DEF RedisOK
    <3> QED BY <1>1, <2>1, <3>1 DEF Makes
  <2>3. aggregate' \in 0 .. MaxTotal   BY <1>0, <1>1 DEF Makes, WithinBudget
  <2>4. /\ members' \subseteq 1 .. n /\ meta' \subseteq 1 .. n /\ counted' \subseteq 1 .. n
        /\ expired' \subseteq 1 .. n /\ overdrawn' \in Nat
    BY <1>0, <1>1, <2>1 DEF Makes, RedisOK
  <2> QED BY <2>1, <2>2, <2>3, <2>4 DEF RedisOK
<1>2. ASSUME NEW p \in Procs, NEW i, TakesOff(p, i) PROVE RedisOK'
  BY <1>0, <1>2 DEF TakesOff, Subtract, RedisOK
<1>3. ASSUME NEW p \in Procs, Forgets(p) PROVE RedisOK'
  BY <1>0, <1>3 DEF Forgets, Forget, RedisOK, budgetVars
<1>4. ASSUME NEW i \in Ids, Expires(i) PROVE RedisOK'
  <2>1. idem' \in [Keys -> 0 .. issued]   BY <1>0, <1>4 DEF RedisOK, Expires
  <2> QED BY <1>0, <1>4, <2>1 DEF Expires, RedisOK, budgetVars
<1>5. CASE MetaGoes   BY <1>0, <1>5 DEF MetaGoes, RedisOK, budgetVars
<1>6. CASE UNCHANGED <<redisVars, expired>>
  BY <1>0, <1>6 DEF RedisOK, redisVars, budgetVars
<1> QED BY <1>1, <1>2, <1>3, <1>4, <1>5, <1>6, RedisChange DEF RedisStep

\* The kind of request that is at a step.
LEMMA RequestAt ==
    ASSUME ProcOK, NEW p \in Procs
    PROVE  /\ proc[p].pc \in SearchSteps \cup {"rem", "save", "lookup"}
                => proc[p] \in ReserveRequest /\ ReserveOK(proc[p])
           /\ proc[p].pc \in {"update", "bind", "userop"}
                => proc[p] \in SubmittedRequest /\ SubmittedOK(proc[p])
           /\ proc[p].pc \in {"finalize", "commit", "status"}
                => proc[p] \in FinalizedRequest /\ FinalizedOK(proc[p])
           /\ proc[p].pc \in ReleaseSteps
                => \/ proc[p] \in ReserveRequest /\ ReserveOK(proc[p])
                   \/ proc[p] \in FinalizedRequest /\ FinalizedOK(proc[p])
BY DEF ProcOK, RequestOK, Idle, ReserveRequest, SubmittedRequest, FinalizedRequest, SearchSteps,
       ReleaseSteps

\* The reservation that a reserve request works on was made.
LEMMA ReservingAt ==
    ASSUME ProcOK, issued \in 0 .. MaxIds, NEW p \in Procs,
           proc[p] \in ReserveRequest, proc[p].pc \notin SearchSteps
    PROVE  proc[p].id \in 1 .. issued /\ proc[p].id \in Ids /\ proc[p].key \in Keys
<1>1. ReserveOK(proc[p])
  BY DEF ProcOK, RequestOK, ReserveRequest, SubmittedRequest, FinalizedRequest, Idle
<1>2. proc[p].id \in 1 .. issued   BY <1>1 DEF ReserveOK, ReserveRequest
<1> QED BY <1>2 DEF Ids, ReserveRequest

LEMMA AgentStep == SettleInv /\ [Next]_vars => AgentOK'
<1> SUFFICES ASSUME SettleInv, [Next]_vars PROVE AgentOK'   OBVIOUS
<1>0. AgentOK /\ issued \in Nat /\ issued' \in Nat /\ issued <= issued'
  BY PaymentsStep DEF SettleInv, PaymentsKept
<1>f. failures' \in 0 .. MaxFailures
  <2>1. UNCHANGED failures \/ Fails
    BY BudgetFrame
    DEF Next, vars, Handle, Stop, StartReserve, StartSubmitted, StartFinalized, SaveReservation,
        LookupIdempotency, UpdateSubmitted, SubmitOp, IncludeOp, BindDigest, SaveUserOp,
        FinalizeUserOp, UpdateSettled, IngestExecution, MarkStale, BudgetStep
  <2> QED BY <1>0, <2>1 DEF AgentOK, Fails
<1>r. reported' \in [Ops -> Reports]
  <2>1. \/ UNCHANGED reported
        \/ \E p \in Procs :
              \/ \E o \in Ops : StartSubmitted(p, o) \/ StartFinalized(p, o)
              \/ SaveUserOp(p) \/ UpdateSettled(p)
    BY BudgetFrame
    DEF Next, vars, Handle, Stop, StartReserve, SaveReservation, LookupIdempotency, UpdateSubmitted,
        SubmitOp, IncludeOp, BindDigest, FinalizeUserOp, IngestExecution, MarkStale, BudgetStep
  <2> QED
    BY <1>0, <2>1 DEF AgentOK, Reports, StartSubmitted, StartFinalized, SaveUserOp, UpdateSettled
<1>1. ASSUME NEW i, i \in 1 .. issued, granted' = granted \cup {i}, UNCHANGED <<uses, fate>>
      PROVE  AgentOK'
  BY <1>0, <1>1, <1>f, <1>r DEF AgentOK
<1>2. ASSUME NEW o \in Ops, NEW i \in Ids, SubmitOp(o, i) PROVE AgentOK'
  BY <1>0, <1>2, <1>f, <1>r DEF AgentOK, SubmitOp, Ids, Fates
<1>3. ASSUME NEW o \in Ops, IncludeOp(o) PROVE AgentOK'
  BY <1>0, <1>3, <1>f, <1>r DEF AgentOK, IncludeOp, Fates
<1>4. ASSUME UNCHANGED agentVars PROVE AgentOK'
  BY <1>0, <1>4, <1>f, <1>r DEF AgentOK, agentVars
<1>5. ASSUME NEW p \in Procs, SaveReservation(p) PROVE AgentOK'
  <2>1. proc[p].id \in 1 .. issued
    BY <1>0, <1>5, RequestAt, ReservingAt DEF SettleInv, RedisOK, SaveReservation, At, SearchSteps
  <2> QED BY <1>1, <1>4, <1>5, <2>1 DEF SaveReservation, agentVars
<1>6. ASSUME NEW p \in Procs, LookupIdempotency(p) PROVE AgentOK'
  <2>1. proc[p].id \in 1 .. issued
    BY <1>0, <1>6, RequestAt, ReservingAt DEF SettleInv, RedisOK, LookupIdempotency, At, SearchSteps
  <2> QED BY <1>1, <1>4, <1>6, <2>1 DEF LookupIdempotency, agentVars
<1>7. CASE BudgetStep   BY <1>4, <1>7, BudgetFrame DEF agentVars
<1> QED
  BY <1>2, <1>3, <1>4, <1>5, <1>6, <1>7
  DEF Next, vars, Handle, Stop, StartReserve, StartSubmitted, StartFinalized, UpdateSubmitted,
      BindDigest, SaveUserOp, FinalizeUserOp, UpdateSettled, IngestExecution, MarkStale,
      BudgetStep

LEMMA UserOpsStep == SettleInv /\ [Next]_vars => UserOpsOK'
<1> SUFFICES ASSUME SettleInv, [Next]_vars PROVE UserOpsOK'   OBVIOUS
<1>0. UserOpsOK /\ ProcOK /\ AgentOK /\ PaymentsKept /\ issued \in 0 .. MaxIds
  BY PaymentsStep DEF SettleInv, RedisOK
<1>1. ASSUME UNCHANGED userops PROVE UserOpsOK'
  BY <1>0, <1>1 DEF UserOpsOK, PaymentsKept
<1>2. ASSUME NEW p \in Procs, SaveUserOp(p) PROVE UserOpsOK'
  <2>1. /\ proc[p] \in SubmittedRequest /\ SubmittedOK(proc[p]) /\ proc[p].userop \in Ops
        /\ UNCHANGED <<uses, fate>>
    BY <1>0, <1>2, RequestAt DEF SaveUserOp, At, SubmittedRequest, agentVars
  <2>2. proc[p].id \in Ids
    BY <1>0, <2>1, UsedId DEF SubmittedOK
  <2>3. CASE userops' = [userops EXCEPT ![proc[p].userop] =
                    [status |-> Submitted,
                     reservation |-> IF @ = NoRow THEN proc[p].id ELSE @.reservation]]
    BY <1>0, <2>1, <2>2, <2>3 DEF UserOpsOK, UserOp, UserOpStatuses, SubmittedOK
  <2> QED BY <1>1, <1>2, <2>3 DEF SaveUserOp
<1>3. ASSUME NEW o \in Ops, NEW status \in UserOpStatuses, userops[o] # NoRow,
             userops' = [userops EXCEPT ![o].status = status]
      PROVE  UserOpsOK'
  BY <1>0, <1>3 DEF UserOpsOK, UserOp, PaymentsKept
<1>4. ASSUME NEW p \in Procs, FinalizeUserOp(p) PROVE UserOpsOK'
  <2>1. proc[p].userop \in Ops
    BY <1>0, <1>4, RequestAt DEF FinalizeUserOp, At, FinalizedRequest
  <2> QED BY <1>1, <1>3, <1>4, <2>1 DEF FinalizeUserOp, Finalizable, UserOpStatuses
<1>5. ASSUME NEW o \in Ops, MarkStale(o) PROVE UserOpsOK'
  <2>1. userops[o] # NoRow   BY <1>5 DEF MarkStale, NoRow, Submitted
  <2>2. "RECONCILIATION_REQUIRED" \in UserOpStatuses   BY DEF UserOpStatuses
  <2> QED BY <1>3, <1>5, <2>1, <2>2 DEF MarkStale
<1> QED
  BY <1>1, <1>2, <1>4, <1>5, BudgetFrame
  DEF Next, vars, Handle, Stop, StartReserve, StartSubmitted, StartFinalized, SaveReservation,
      LookupIdempotency, UpdateSubmitted, SubmitOp, IncludeOp, BindDigest, UpdateSettled,
      IngestExecution, BudgetStep

\* The ways in which a row changes.
RowStep ==
    \/ UNCHANGED rows
    \/ \E p \in Procs :
          /\ At(p, "save") /\ ~Conflicts(proc[p].id, proc[p].key)
          /\ rows' = [rows EXCEPT ![proc[p].id] = NewRow(proc[p].key)]
    \/ \E p \in Procs :
          /\ At(p, "update") /\ rows[proc[p].id] # NoRow
          /\ rows' = [rows EXCEPT ![proc[p].id].status = Submitted]
    \/ \E p \in Procs :
          /\ At(p, "bind") /\ Pending(proc[p].id)
          /\ rows' = [rows EXCEPT ![proc[p].id].digest = proc[p].digest]
    \/ \E p \in Procs :
          /\ At(p, "status") /\ rows[proc[p].id] # NoRow
          /\ rows' = [rows EXCEPT ![proc[p].id].status =
                        IF proc[p].executed THEN Committed ELSE Released]
    \/ \E o \in Ops, i \in Ids :
          /\ fate[o] = "executed" /\ Matches(i, o)
          /\ rows' = [rows EXCEPT ![i].status = Committed]

LEMMA RowChange == [Next]_vars => RowStep
<1> SUFFICES ASSUME [Next]_vars PROVE RowStep   OBVIOUS
<1>1. ASSUME NEW p \in Procs, SaveReservation(p) PROVE RowStep
  BY <1>1 DEF SaveReservation, RowStep
<1>2. ASSUME NEW p \in Procs, UpdateSubmitted(p) PROVE RowStep
  BY <1>2 DEF UpdateSubmitted, UpdateReservationStatus, RowStep
<1>3. ASSUME NEW p \in Procs, BindDigest(p) PROVE RowStep
  BY <1>3 DEF BindDigest, RowStep
<1>4. ASSUME NEW p \in Procs, UpdateSettled(p) PROVE RowStep
  BY <1>4 DEF UpdateSettled, UpdateReservationStatus, RowStep
<1>5. ASSUME NEW o \in Ops, IngestExecution(o) PROVE RowStep
  BY <1>5 DEF IngestExecution, RowStep
<1>6. ASSUME UNCHANGED rows PROVE RowStep
  BY <1>6 DEF RowStep
<1> QED
  BY <1>1, <1>2, <1>3, <1>4, <1>5, <1>6, BudgetFrame
  DEF Next, vars, Handle, Stop, StartReserve, StartSubmitted, StartFinalized, LookupIdempotency,
      SubmitOp, IncludeOp, SaveUserOp, FinalizeUserOp, MarkStale, BudgetStep

LEMMA RowsStep == SettleInv /\ [Next]_vars => RowsOK' /\ TerminalTrue'
<1> SUFFICES ASSUME SettleInv, [Next]_vars PROVE RowsOK' /\ TerminalTrue'   OBVIOUS
<1>0. /\ RowsOK /\ ProcOK /\ AgentOK /\ TerminalTrue /\ UserOpsOK /\ PaymentsKept
      /\ issued \in 0 .. MaxIds
  BY PaymentsStep DEF SettleInv, RedisOK
<1>u. \A o \in Ops :
        /\ userops'[o].status = "USEROP_FINALIZED" => fate'[o] = "executed"
        /\ userops'[o].status = "USEROP_REVERTED" => fate'[o] = "reverted"
  <2>1. CASE UNCHANGED userops
    BY <1>0, <2>1 DEF TerminalTrue, PaymentsKept
  <2>2. ASSUME NEW p \in Procs, SaveUserOp(p) PROVE <1>u
    BY <1>0, <2>1, <2>2 DEF SaveUserOp, TerminalTrue, PaymentsKept, UserOpsOK, Submitted
  <2>3. ASSUME NEW p \in Procs, FinalizeUserOp(p) PROVE <1>u
    <3>1. /\ proc[p].userop \in Ops
          /\ fate[proc[p].userop] = IF proc[p].executed THEN "executed" ELSE "reverted"
      BY <1>0, <2>3, RequestAt DEF FinalizeUserOp, At, FinalizedRequest, FinalizedOK
    <3> QED
      BY <1>0, <2>1, <2>3, <3>1
      DEF FinalizeUserOp, Finalizable, TerminalTrue, PaymentsKept, UserOpsOK, UserOp
  <2>4. ASSUME NEW o \in Ops, MarkStale(o) PROVE <1>u
    BY <1>0, <2>4 DEF MarkStale, TerminalTrue, PaymentsKept, UserOpsOK
  <2> QED
    BY <2>1, <2>2, <2>3, <2>4, BudgetFrame
    DEF Next, vars, Handle, Stop, StartReserve, StartSubmitted, StartFinalized, SaveReservation,
        LookupIdempotency, UpdateSubmitted, SubmitOp, IncludeOp, BindDigest, UpdateSettled,
        IngestExecution, BudgetStep
\* Where the rows stay as they are, so does what they are backed by.
<1>k. \A i \in Ids :
        /\ rows[i].status = Committed => \E o \in Ops : uses'[o] = i /\ fate'[o] = "executed"
        /\ rows[i].status = Released => \E o \in Ops : uses'[o] = i /\ fate'[o] = "reverted"
  BY <1>0 DEF TerminalTrue, PaymentsKept
<1>d. \A i \in Ids : rows[i] # NoRow /\ rows[i].digest # NoDigest
                        => rows[i].digest \in Ops /\ uses'[rows[i].digest] = i
  <2> SUFFICES ASSUME NEW i \in Ids, rows[i] # NoRow, rows[i].digest # NoDigest
               PROVE  rows[i].digest \in Ops /\ uses'[rows[i].digest] = i
    OBVIOUS
  <2>1. rows[i].digest \in Ops /\ uses[rows[i].digest] = i   BY <1>0 DEF RowsOK, Row
  <2>2. i # 0   BY DEF Ids
  <2> QED BY <1>0, <2>1, <2>2 DEF AgentOK, PaymentsKept
<1>1. CASE UNCHANGED rows
  BY <1>0, <1>1, <1>u, <1>k, <1>d DEF RowsOK, TerminalTrue
<1>2. ASSUME NEW p \in Procs, At(p, "save"), ~Conflicts(proc[p].id, proc[p].key),
             rows' = [rows EXCEPT ![proc[p].id] = NewRow(proc[p].key)]
      PROVE  RowsOK' /\ TerminalTrue'
  <2>1. proc[p].id \in Ids /\ proc[p].key \in Keys
    BY <1>0, <1>2, RequestAt, ReservingAt DEF At, SearchSteps
  <2>2. NewRow(proc[p].key) \in Row   BY <2>1 DEF NewRow, Row, Statuses
  <2>3. RowsOK'
    BY <1>0, <1>2, <1>d, <2>1, <2>2 DEF RowsOK, Conflicts, NewRow
  <2> QED BY <1>0, <1>2, <1>u, <1>k, <2>1, <2>3 DEF TerminalTrue, NewRow, RowsOK, Reserved, Committed, Released
\* A status is written to a row that is there.
<1>3. ASSUME NEW i \in Ids, rows[i] # NoRow, NEW status \in Statuses,
             rows' = [rows EXCEPT ![i].status = status],
             status = Committed => \E o \in Ops : uses'[o] = i /\ fate'[o] = "executed",
             status = Released => \E o \in Ops : uses'[o] = i /\ fate'[o] = "reverted"
      PROVE  RowsOK' /\ TerminalTrue'
  <2>1. RowsOK'
    BY <1>0, <1>3, <1>d DEF RowsOK, Row
  <2> QED BY <1>0, <1>3, <1>u, <1>k, <2>1 DEF TerminalTrue, RowsOK
<1>4. ASSUME NEW p \in Procs, At(p, "update"), rows[proc[p].id] # NoRow,
             rows' = [rows EXCEPT ![proc[p].id].status = Submitted]
      PROVE  RowsOK' /\ TerminalTrue'
  <2>1. proc[p].id \in Ids
    <3>1. proc[p].userop \in Ops /\ SubmittedOK(proc[p])
      BY <1>0, <1>4, RequestAt DEF At, SubmittedRequest
    <3> QED BY <1>0, <3>1, UsedId DEF SubmittedOK
  <2> QED BY <1>3, <1>4, <2>1 DEF Statuses, Submitted, Committed, Released
<1>5. ASSUME NEW p \in Procs, At(p, "bind"), Pending(proc[p].id),
             rows' = [rows EXCEPT ![proc[p].id].digest = proc[p].digest]
      PROVE  RowsOK' /\ TerminalTrue'
  <2>1. /\ proc[p].userop \in Ops /\ SubmittedOK(proc[p])
        /\ proc[p].digest \in Ops \cup {NoDigest}
    BY <1>0, <1>5, RequestAt DEF At, SubmittedRequest
  <2>2. proc[p].id \in Ids
    BY <1>0, <2>1, UsedId DEF SubmittedOK
  <2>3. rows[proc[p].id] # NoRow   BY <1>5 DEF Pending, NoRow, Reserved, Submitted
  <2>4. RowsOK'
    BY <1>0, <1>5, <1>d, <2>1, <2>2, <2>3 DEF RowsOK, Row, SubmittedOK, PaymentsKept
  <2> QED BY <1>0, <1>5, <1>u, <1>k, <2>2, <2>3, <2>4 DEF TerminalTrue, RowsOK
<1>6. ASSUME NEW p \in Procs, At(p, "status"), rows[proc[p].id] # NoRow,
             rows' = [rows EXCEPT ![proc[p].id].status =
                        IF proc[p].executed THEN Committed ELSE Released]
      PROVE  RowsOK' /\ TerminalTrue'
  <2>1. proc[p].userop \in Ops /\ FinalizedOK(proc[p]) /\ proc[p].id = uses[proc[p].userop]
    BY <1>0, <1>6, RequestAt DEF At, FinalizedRequest, FinalizedOK
  <2>2. proc[p].id \in Ids
    BY <1>0, <2>1, UsedId DEF FinalizedOK
  <2>3. /\ uses'[proc[p].userop] = proc[p].id
        /\ fate'[proc[p].userop] = IF proc[p].executed THEN "executed" ELSE "reverted"
    BY <1>0, <2>1 DEF FinalizedOK, PaymentsKept
  <2> QED BY <1>3, <1>6, <2>1, <2>2, <2>3 DEF Statuses, Committed, Released
<1>7. ASSUME NEW o \in Ops, NEW i \in Ids, fate[o] = "executed", Matches(i, o),
             rows' = [rows EXCEPT ![i].status = Committed]
      PROVE  RowsOK' /\ TerminalTrue'
  <2>1. rows[i] # NoRow /\ rows[i].digest = o
    BY <1>7 DEF Matches, Pending, NoRow, Reserved, Submitted
  <2>2. uses'[o] = i /\ fate'[o] = "executed"
    BY <1>0, <1>7, <1>d, <2>1 DEF PaymentsKept
  <2> QED BY <1>3, <1>7, <2>1, <2>2 DEF Statuses, Committed, Released
<1> QED BY <1>1, <1>2, <1>4, <1>5, <1>6, <1>7, RowChange DEF RowStep

\* What a request is after a step of its own in the reservation service.
Follows(p, r) ==
    /\ proc' = [proc EXCEPT ![p] = r]
    /\ \/ r = Idle
       \/ /\ proc[p] \in ReserveRequest /\ r \in ReserveRequest
          /\ r.key = proc[p].key
       \/ /\ proc[p] \in FinalizedRequest /\ r \in FinalizedRequest
          /\ r.userop = proc[p].userop /\ r.executed = proc[p].executed

LEMMA ServiceProc ==
    ASSUME SettleInv, [Next]_vars, NEW p \in Procs, ServiceStep(p)
    PROVE  \E r \in Request : Follows(p, r) /\ RequestOK(r)'
<1> DEFINE Goal == \E r \in Request : Follows(p, r) /\ RequestOK(r)'
<1>0. /\ ProcOK /\ PaymentsKept /\ issued \in 0 .. MaxIds /\ issued \in Nat
      /\ idem \in [Keys -> 0 .. issued] /\ expired \subseteq 1 .. issued
  BY PaymentsStep DEF SettleInv, RedisOK
<1>1. ASSUME Return(p) PROVE Goal
  <2>1. Idle \in Request /\ RequestOK(Idle)'   BY DEF Request, RequestOK
  <2> QED BY <1>1, <2>1 DEF Return, Follows
\* A reserve request goes on.
<1>2. ASSUME proc[p] \in ReserveRequest, NEW r \in ReserveRequest, r.key = proc[p].key,
             proc' = [proc EXCEPT ![p] = r], ReserveOK(r)'
      PROVE  Goal
  BY <1>2 DEF Follows, Request, RequestOK
<1>3. ASSUME proc[p] \in ReserveRequest, NEW label, Goto(p, label),
             \/ proc[p].pc \in SearchSteps /\ label \in SearchSteps
             \/ proc[p].pc \in ReleaseSteps /\ label \in ReleaseSteps
      PROVE  Goal
  <2>1. PICK r : r = [proc[p] EXCEPT !.pc = label]   OBVIOUS
  <2>2. /\ r \in ReserveRequest /\ r.key = proc[p].key /\ r.pc = label
        /\ r.id = proc[p].id /\ r.due = proc[p].due
    BY <1>3, <2>1 DEF ReserveRequest
  <2>3. proc' = [proc EXCEPT ![p] = r]   BY <1>3, <2>1 DEF Goto
  <2>4. ReserveOK(proc[p])
    BY <1>0, <1>3 DEF ProcOK, RequestOK, ReserveRequest, SubmittedRequest, FinalizedRequest, Idle
  <2>5. r.id \in Nat /\ r.id \in 0 .. issued'   BY <1>0, <2>2, <2>4 DEF ReserveOK, PaymentsKept, ReserveRequest
  <2>6. r.due \subseteq expired'   BY <1>0, <2>2, <2>4 DEF ReserveOK, PaymentsKept
  <2>7. ReserveOK(r)'
    BY <1>3, <2>2, <2>4, <2>5, <2>6 DEF ReserveOK, SearchSteps, ReleaseSteps
  <2> QED BY <1>2, <1>3, <2>2, <2>3, <2>7
\* And so does a finalized report.
<1>4. ASSUME proc[p] \in FinalizedRequest, NEW label, Goto(p, label), proc[p].pc # "finalize",
             label = "status" \/ (label \in ReleaseSteps /\ proc[p].pc \in ReleaseSteps)
      PROVE  Goal
  <2>1. PICK r : r = [proc[p] EXCEPT !.pc = label]   OBVIOUS
  <2>2. /\ r \in FinalizedRequest /\ r.userop = proc[p].userop /\ r.pc = label
        /\ r.id = proc[p].id /\ r.executed = proc[p].executed
    BY <1>4, <2>1 DEF FinalizedRequest
  <2>3. proc' = [proc EXCEPT ![p] = r]   BY <1>4, <2>1 DEF Goto
  <2>4. FinalizedOK(proc[p])
    BY <1>0, <1>4 DEF ProcOK, RequestOK, ReserveRequest, SubmittedRequest, FinalizedRequest, Idle
  <2>5. FinalizedOK(r)
    BY <1>4, <2>2, <2>4 DEF FinalizedOK, ReleaseSteps
  <2>6. RequestOK(r)'   BY <1>0, <2>2, <2>5, RequestKept DEF RequestOK
  <2> QED BY <1>4, <2>2, <2>3, <2>6 DEF Follows, Request
<1>5. ASSUME Done(p), proc[p] \in ReserveRequest \/ (proc[p] \in FinalizedRequest /\ proc[p].pc # "finalize")
      PROVE  Goal
  <2>1. CASE proc[p] \in ReserveRequest
    <3>1. Return(p)   BY <1>0, <1>5, <2>1 DEF Done, Return, ReserveRequest, ProcOK
    <3> QED BY <1>1, <3>1
  <2>2. CASE proc[p] \in FinalizedRequest /\ proc[p].pc # "finalize"
    <3>1. Goto(p, "status")   BY <1>0, <1>5, <2>2 DEF Done, Goto, FinalizedRequest, ProcOK
    <3> QED BY <1>4, <2>2, <3>1
  <2> QED BY <1>5, <2>1, <2>2
<1>6. CASE SweepExpired(p)
  <2>1. proc[p] \in ReserveRequest /\ ReserveOK(proc[p]) /\ proc[p].id = 0
    BY <1>0, <1>6, RequestAt DEF SweepExpired, At, SearchSteps, ReserveOK
  <2>n. expired \subseteq Nat   BY <1>0
  <2>2. Due \subseteq expired /\ Due \subseteq Nat   BY <2>n DEF Due
  <2>3. PICK r : r = [proc[p] EXCEPT !.pc = "next", !.due = Due]   OBVIOUS
  <2>4. /\ r \in ReserveRequest /\ r.key = proc[p].key /\ r.id = 0 /\ r.pc = "next" /\ r.due = Due
    BY <2>1, <2>2, <2>3 DEF ReserveRequest, SearchSteps
  <2>5. proc' = [proc EXCEPT ![p] = r]   BY <1>0, <1>6, <2>3 DEF SweepExpired, ProcOK
  <2>6. ReserveOK(r)'
    BY <1>0, <2>2, <2>4 DEF ReserveOK, PaymentsKept, SearchSteps
  <2> QED BY <1>2, <2>1, <2>4, <2>5, <2>6
<1>7. CASE SweepRelease(p)
  <2>1. proc[p] \in ReserveRequest /\ ReserveOK(proc[p])
    BY <1>0, <1>7, RequestAt DEF SweepRelease, At, SearchSteps
  <2>2. ASSUME NEW i \in proc[p].due, proc' = [proc EXCEPT ![p].pc = "rem", ![p].id = i]
        PROVE  Goal
    <3>1. i \in expired /\ i \in 1 .. issued /\ i \in Nat /\ i # 0
      BY <1>0, <2>1, <2>2 DEF ReserveOK
    <3>2. PICK r : r = [proc[p] EXCEPT !.pc = "rem", !.id = i]   OBVIOUS
    <3>3. /\ r \in ReserveRequest /\ r.key = proc[p].key /\ r.id = i /\ r.pc = "rem"
          /\ r.due = proc[p].due
      BY <2>1, <3>1, <3>2 DEF ReserveRequest
    <3>4. proc' = [proc EXCEPT ![p] = r]   BY <1>0, <2>2, <3>2 DEF ProcOK
    <3>5. r.id \in 0 .. issued' /\ r.id \in expired'   BY <1>0, <3>1, <3>3 DEF PaymentsKept
    <3>6. r.due \subseteq expired'   BY <1>0, <2>1, <3>3 DEF ReserveOK, PaymentsKept
    <3>7. ReserveOK(r)'   BY <3>1, <3>3, <3>5, <3>6 DEF ReserveOK, SearchSteps
    <3> QED BY <1>2, <2>1, <3>3, <3>4, <3>7
  <2> QED BY <1>1, <1>7, <2>2 DEF SweepRelease
<1>8. CASE SweepRemove(p)
  <2>1. proc[p] \in ReserveRequest /\ ReserveOK(proc[p])
    BY <1>0, <1>8, RequestAt DEF SweepRemove, At
  <2>2. PICK r : r = [proc[p] EXCEPT !.pc = "next", !.id = 0, !.due = @ \ {proc[p].id}]   OBVIOUS
  <2>3. /\ r \in ReserveRequest /\ r.key = proc[p].key /\ r.id = 0 /\ r.pc = "next"
        /\ r.due \subseteq proc[p].due
    BY <2>1, <2>2 DEF ReserveRequest, SearchSteps
  <2>4. proc' = [proc EXCEPT ![p] = r]   BY <1>0, <1>8, <2>2 DEF SweepRemove, ProcOK
  <2>5. r.id \in 0 .. issued'   BY <1>0, <2>3 DEF PaymentsKept
  <2>6. r.due \subseteq expired'   BY <1>0, <2>1, <2>3 DEF ReserveOK, PaymentsKept
  <2>7. ReserveOK(r)'   BY <2>3, <2>5, <2>6 DEF ReserveOK, SearchSteps
  <2> QED BY <1>2, <2>1, <2>3, <2>4, <2>7
\* A reservation was found, or made.
<1>9. ASSUME proc[p] \in ReserveRequest, ReserveOK(proc[p]), NEW i, i \in 1 .. issued',
             proc' = [proc EXCEPT ![p].pc = "save", ![p].id = i]
      PROVE  Goal
  <2>1. i \in Nat /\ i # 0   BY <1>0, <1>9 DEF PaymentsKept
  <2>2. PICK r : r = [proc[p] EXCEPT !.pc = "save", !.id = i]   OBVIOUS
  <2>3. /\ r \in ReserveRequest /\ r.key = proc[p].key /\ r.id = i /\ r.pc = "save"
        /\ r.due = proc[p].due
    BY <1>9, <2>1, <2>2 DEF ReserveRequest
  <2>4. proc' = [proc EXCEPT ![p] = r]   BY <1>0, <1>9, <2>2 DEF ProcOK
  <2>5. i \in 0 .. issued'   BY <1>0, <1>9 DEF PaymentsKept
  <2>6. ReserveOK(r)'
    BY <1>0, <1>9, <2>1, <2>3, <2>5 DEF ReserveOK, PaymentsKept, SearchSteps
  <2> QED BY <1>2, <1>9, <2>3, <2>4, <2>6
<1>10. CASE CheckIdem(p)
  <2>1. proc[p] \in ReserveRequest /\ ReserveOK(proc[p]) /\ proc[p].key \in Keys
    BY <1>0, <1>10, RequestAt DEF CheckIdem, At, SearchSteps, ReserveRequest
  <2>2. CASE Goto(p, "make")   BY <1>3, <1>10, <2>1, <2>2 DEF CheckIdem, At, SearchSteps
  <2>3. CASE idem[proc[p].key] # 0
             /\ proc' = [proc EXCEPT ![p].pc = "save", ![p].id = idem[proc[p].key]]
    <3>1. PICK i : i = idem[proc[p].key]   OBVIOUS
    <3>2. i \in 1 .. issued'   BY <1>0, <2>1, <2>3, <3>1 DEF PaymentsKept
    <3> QED BY <1>9, <2>1, <2>3, <3>1, <3>2
  <2> QED BY <1>10, <2>2, <2>3 DEF CheckIdem
<1>11. CASE MakeReservation(p)
  <2>1. proc[p] \in ReserveRequest /\ ReserveOK(proc[p])
    BY <1>0, <1>11, RequestAt DEF MakeReservation, At, SearchSteps
  <2>2. CASE issued' = issued + 1 /\ proc' = [proc EXCEPT ![p].pc = "save", ![p].id = issued']
    <3>1. PICK i : i = issued'   OBVIOUS
    <3>2. i \in 1 .. issued'   BY <1>0, <2>2, <3>1
    <3> QED BY <1>9, <2>1, <2>2, <3>1, <3>2
  <2> QED BY <1>1, <1>11, <2>2 DEF MakeReservation
<1>12. CASE ReadMeta(p) \/ ReleaseAmount(p) \/ ForgetReleased(p)
  <2>1. /\ proc[p].pc \in ReleaseSteps /\ proc[p].pc # "finalize"
        /\ proc[p] \in ReserveRequest \/ proc[p] \in FinalizedRequest
    <3>1. proc[p].pc \in ReleaseSteps   BY <1>12 DEF ReadMeta, ReleaseAmount, ForgetReleased, At, ReleaseSteps
    <3> QED BY <1>0, <3>1, RequestAt DEF ReleaseSteps
  <2>2. Done(p) \/ Goto(p, "release") \/ Goto(p, "forget")
    BY <1>12 DEF ReadMeta, ReleaseAmount, ForgetReleased
  <2>3. {"release", "forget"} \subseteq ReleaseSteps   BY DEF ReleaseSteps
  <2> QED BY <1>3, <1>4, <1>5, <2>1, <2>2, <2>3
<1>13. CASE CommitReservation(p)
  <2>1. proc[p] \in FinalizedRequest /\ proc[p].pc # "finalize"
    BY <1>0, <1>13, RequestAt DEF CommitReservation, At
  <2> QED BY <1>5, <1>13, <2>1 DEF CommitReservation
<1> QED
  BY <1>6, <1>7, <1>8, <1>10, <1>11, <1>12, <1>13 DEF ServiceStep

LEMMA ProcStep == SettleInv /\ [Next]_vars => ProcOK'
<1> SUFFICES ASSUME SettleInv, [Next]_vars PROVE ProcOK'   OBVIOUS
<1>0. /\ ProcOK /\ AgentOK /\ UserOpsOK /\ PaymentsKept /\ issued \in 0 .. MaxIds
  BY PaymentsStep DEF SettleInv, RedisOK
<1>i. Idle \in Request /\ RequestOK(Idle)'   BY DEF Request, RequestOK
\* A request ends.
<1>1. ASSUME NEW p \in Procs, Return(p) PROVE ProcOK'
  BY <1>0, <1>1, <1>i, ProcKept DEF Return
\* A request goes on as the same request.
<1>2. ASSUME NEW p \in Procs, NEW r \in Request, RequestOK(r)', proc' = [proc EXCEPT ![p] = r]
      PROVE  ProcOK'
  BY <1>0, <1>2, ProcKept
<1>3. ASSUME NEW p \in Procs, NEW label, proc[p] # Idle, Goto(p, label),
             \/ proc[p] \in ReserveRequest /\ label \in {"lookup", "meta"}
                  /\ proc[p].pc \in {"save", "lookup"}
             \/ proc[p] \in SubmittedRequest /\ label \in {"bind", "userop"}
      PROVE  ProcOK'
  <2>1. PICK r : r = [proc[p] EXCEPT !.pc = label]   OBVIOUS
  <2>2. proc' = [proc EXCEPT ![p] = r]   BY <1>3, <2>1 DEF Goto
  <2>3. r \in Request
    BY <1>3, <2>1 DEF Request, ReserveRequest, SubmittedRequest, ReleaseSteps
  <2>4. RequestOK(r)
    BY <1>0, <1>3, <2>1
    DEF ProcOK, RequestOK, ReserveOK, SubmittedOK, FinalizedOK, ReserveRequest, SubmittedRequest,
        FinalizedRequest, SearchSteps, ReleaseSteps
  <2> QED BY <1>0, <1>2, <2>2, <2>3, <2>4, RequestKept
<1>4. ASSUME NEW p \in Procs, NEW k \in Keys, StartReserve(p, k) PROVE ProcOK'
  <2>1. PICK r : r = [op |-> "reserve", pc |-> "sweep", key |-> k, id |-> 0, due |-> {}]   OBVIOUS
  <2>2. r \in ReserveRequest /\ r \in Request   BY <2>1 DEF Request, ReserveRequest, SearchSteps
  <2>3. RequestOK(r)'   BY <1>0, <2>1, <2>2 DEF RequestOK, ReserveOK, PaymentsKept, SearchSteps
  <2> QED BY <1>2, <1>4, <2>1, <2>2, <2>3 DEF StartReserve
<1>5. ASSUME NEW p \in Procs, NEW o \in Ops, StartSubmitted(p, o) PROVE ProcOK'
  <2>0. fate[o] # "unsent" /\ uses[o] \in Nat /\ uses' = uses /\ fate' = fate
    <3>1. fate[o] # "unsent" /\ uses' = uses /\ fate' = fate   BY <1>5 DEF StartSubmitted, agentVars
    <3> QED BY <1>0, <3>1, UsedId DEF Ids
  <2>1. PICK digest \in {o, NoDigest} :
           proc' = [proc EXCEPT ![p] = [op |-> "submitted", pc |-> "update", id |-> uses[o],
                                        userop |-> o, digest |-> digest]]
    BY <1>5 DEF StartSubmitted
  <2>2. PICK r : r = [op |-> "submitted", pc |-> "update", id |-> uses[o], userop |-> o,
                      digest |-> digest]
    OBVIOUS
  <2>3. r \in SubmittedRequest /\ r \in Request   BY <2>0, <2>1, <2>2 DEF Request, SubmittedRequest
  <2>4. RequestOK(r)'   BY <2>0, <2>1, <2>2, <2>3 DEF RequestOK, SubmittedOK
  <2> QED BY <1>2, <2>1, <2>2, <2>3, <2>4
<1>6. ASSUME NEW p \in Procs, NEW o \in Ops, StartFinalized(p, o) PROVE ProcOK'
  <2>1. PICK r : r = [op |-> "finalized", pc |-> "finalize", id |-> 0, userop |-> o,
                      executed |-> (fate[o] = "executed")]
    OBVIOUS
  <2>2. r \in FinalizedRequest /\ r \in Request   BY <2>1 DEF Request, FinalizedRequest
  <2>3. fate' = fate /\ fate[o] \in {"executed", "reverted"} /\ proc' = [proc EXCEPT ![p] = r]
    BY <1>6, <2>1 DEF StartFinalized, agentVars
  <2>4. RequestOK(r)'   BY <2>1, <2>2, <2>3 DEF RequestOK, FinalizedOK, ReleaseSteps
  <2> QED BY <1>2, <2>2, <2>3, <2>4
<1>7. ASSUME NEW p \in Procs, ServiceStep(p) PROVE ProcOK'
  <2>1. PICK r \in Request : Follows(p, r) /\ RequestOK(r)'   BY <1>7, ServiceProc
  <2> QED BY <1>2, <2>1 DEF Follows
<1>8. ASSUME NEW p \in Procs, FinalizeUserOp(p) PROVE ProcOK'
  <2>1. proc[p] \in FinalizedRequest /\ FinalizedOK(proc[p]) /\ proc[p].userop \in Ops
    BY <1>0, <1>8, RequestAt DEF FinalizeUserOp, At, FinalizedRequest
  <2>2. CASE Finalizable(proc[p].userop) /\ UNCHANGED agentVars
             /\ proc' = [proc EXCEPT
                   ![p].pc = IF proc[p].executed THEN "commit" ELSE "meta",
                   ![p].id = userops[proc[p].userop].reservation]
    <3>1. PICK i : i = uses[proc[p].userop]   OBVIOUS
    <3>2. userops[proc[p].userop].reservation = i /\ i \in Nat
      BY <1>0, <2>1, <2>2, <3>1, UsedId DEF Finalizable, UserOpsOK, Ids
    <3>l. PICK label : label = IF proc[p].executed THEN "commit" ELSE "meta"   OBVIOUS
    <3>3. PICK r : r = [proc[p] EXCEPT !.pc = label, !.id = i]   OBVIOUS
    <3>4. proc' = [proc EXCEPT ![p] = r]   BY <1>0, <2>2, <3>l, <3>2, <3>3 DEF ProcOK
    <3>5. /\ r \in FinalizedRequest /\ r \in Request /\ r.id = i /\ r.pc = label
          /\ r.userop = proc[p].userop /\ r.executed = proc[p].executed
      BY <2>1, <3>l, <3>2, <3>3 DEF Request, FinalizedRequest, ReleaseSteps
    <3>6. RequestOK(r)'
      BY <2>1, <2>2, <3>1, <3>l, <3>5 DEF RequestOK, FinalizedOK, ReleaseSteps, agentVars
    <3> QED BY <1>2, <3>4, <3>5, <3>6
  <2> QED BY <1>1, <1>8, <2>2 DEF FinalizeUserOp
<1>9. ASSUME NEW p \in Procs, SaveReservation(p) \/ LookupIdempotency(p) PROVE ProcOK'
  <2>1. proc[p] \in ReserveRequest /\ proc[p].pc \in {"save", "lookup"} /\ proc[p] # Idle
    BY <1>0, <1>9, RequestAt DEF SaveReservation, LookupIdempotency, At, Idle
  <2> QED BY <1>1, <1>3, <1>9, <2>1 DEF SaveReservation, LookupIdempotency
<1>10. ASSUME NEW p \in Procs, UpdateSubmitted(p) \/ BindDigest(p) PROVE ProcOK'
  <2>1. proc[p] \in SubmittedRequest /\ proc[p] # Idle
    BY <1>0, <1>10, RequestAt DEF UpdateSubmitted, BindDigest, At, Idle
  <2> QED BY <1>1, <1>3, <1>10, <2>1 DEF UpdateSubmitted, BindDigest, AfterUpdate
<1>11. ASSUME UNCHANGED proc PROVE ProcOK'
  <2> SUFFICES ASSUME NEW q \in Procs PROVE RequestOK(proc[q])'
    BY <1>0, <1>11 DEF ProcOK
  <2>1. PICK r : r = proc[q]   OBVIOUS
  <2>2. RequestOK(r)'   BY <1>0, <2>1, RequestKept DEF ProcOK
  <2> QED BY <1>11, <2>1, <2>2
<1>12. ASSUME NEW i \in Ids, Expire(i) \/ ExpireMeta(i) PROVE ProcOK'
  BY <1>11, <1>12 DEF Expire, ExpireMeta
<1> QED
  BY <1>1, <1>4, <1>5, <1>6, <1>7, <1>8, <1>9, <1>10, <1>11, <1>12
  DEF Next, vars, Handle, Stop, SubmitOp, IncludeOp, SaveUserOp, UpdateSettled, IngestExecution,
      MarkStale

LEMMA SettleStep == SettleInv /\ [Next]_vars => SettleInv'
BY RedisTypes, RowsStep, UserOpsStep, AgentStep, ProcStep DEF SettleInv

LEMMA SettleTypes == SettleInv => TypeOK
<1> SUFFICES ASSUME SettleInv PROVE TypeOK   OBVIOUS
<1>0. ProcOK /\ AgentOK /\ issued \in 0 .. MaxIds   BY DEF SettleInv, RedisOK
<1>1. ASSUME NEW p \in Procs, ~At(p, "idle") PROVE proc[p].id \in 0 .. issued
  <2>1. CASE proc[p] \in ReserveRequest /\ ReserveOK(proc[p])
    BY <2>1 DEF ReserveOK
  <2>2. CASE proc[p] \in SubmittedRequest /\ SubmittedOK(proc[p])
    BY <1>0, <2>2, UsedId DEF SubmittedRequest, SubmittedOK
  <2>3. CASE proc[p] \in FinalizedRequest /\ FinalizedOK(proc[p])
    BY <1>0, <2>3, UsedId DEF FinalizedRequest, FinalizedOK
  <2> QED BY <1>0, <1>1, <2>1, <2>2, <2>3 DEF ProcOK, RequestOK, At, Idle
<1>2. rows \in [Ids -> {NoRow} \cup
            [key : Keys, status : Statuses, digest : Ops \cup {NoDigest}]]
  BY DEF SettleInv, RowsOK, Row
<1>3. \A o \in Ops : userops[o] # NoRow => userops[o].reservation \in Ids
  BY DEF SettleInv, UserOpsOK, UserOp
<1>4. expired \subseteq Ids /\ members \cup meta \cup counted \subseteq 1 .. issued
  BY <1>0 DEF SettleInv, RedisOK, Ids
<1> QED BY <1>1, <1>2, <1>3, <1>4 DEF SettleInv, RedisOK, RowsOK, AgentOK, TypeOK

LEMMA SettleAlways == Spec => []SettleInv
BY InitSettle, SettleStep, PTL DEF Spec

\* Types, and what the unique constraints of the tables promise: for every
\* number of requests, keys, user operations and failures, the aggregate stays
\* within maxTotalSpend and no idempotency key has two rows.
THEOREM TypeCorrect == Spec => []TypeOK
BY SettleAlways, SettleTypes, PTL

\* A terminal state is backed by the chain: however requests, repeated reports,
\* failing statements, expiry and the watcher's commits interleave, a committed
\* row was paid, a released one reverted, and a user operation is closed as what
\* happened to it (UpdateReservationStatus, FinalizeUserOp,
\* CommitBudgetOnChainExecution).
THEOREM TerminalIsTrue == Spec => []TerminalTrue
<1>1. SettleInv => TerminalTrue   BY DEF SettleInv
<1> QED BY <1>1, SettleAlways, PTL

----------------------------------------------------------------------------------------------------------------------------------------------------------
(* Terminal states are final when agents report once and in order.  The    *)
(* submitted report of a payment is then the only one, so that the row it  *)
(* is about to update can be neither bound nor settled.                    *)

Fresh(i) ==
    rows[i] # NoRow => rows[i].status \in {Reserved, Submitted} /\ rows[i].digest = NoDigest

Reporting(p, o) == proc[p] \in SubmittedRequest /\ proc[p].userop = o

OnePaymentEach ==
    \A o, other \in Ops : uses[o] = uses[other] /\ uses[o] # 0 => o = other

ReportsInOrder ==
    /\ \A p \in Procs, o \in Ops : Reporting(p, o) => reported[o] = "submitting"
    /\ \A p, q \in Procs, o \in Ops : Reporting(p, o) /\ Reporting(q, o) => p = q
    /\ \A p \in Procs : proc[p] \in FinalizedRequest
                           => reported[proc[p].userop] \in {"finalizing", "finalized"}

UpdatesAreFresh ==
    \A o \in Ops :
        /\ fate[o] # "unsent"
        /\ \/ reported[o] = "no"
           \/ \E p \in Procs : Reporting(p, o) /\ At(p, "update")
        => Fresh(uses[o])

OrderInv == OnePaymentEach /\ (Ordered => ReportsInOrder /\ UpdatesAreFresh)

LEMMA InitOrder == Init => OrderInv
BY DEF Init, OrderInv, OnePaymentEach, ReportsInOrder, UpdatesAreFresh, Reporting, Idle,
       SubmittedRequest, FinalizedRequest

LEMMA OnePaymentStep == SettleInv /\ OnePaymentEach /\ [Next]_vars => OnePaymentEach'
<1> SUFFICES ASSUME SettleInv, OnePaymentEach, [Next]_vars PROVE OnePaymentEach'   OBVIOUS
<1>1. UNCHANGED uses \/ \E o \in Ops, i \in Ids : SubmitOp(o, i)
  BY BudgetFrame
  DEF Next, vars, Handle, Stop, StartReserve, StartSubmitted, StartFinalized, SaveReservation,
      LookupIdempotency, UpdateSubmitted, IncludeOp, SaveUserOp, BindDigest, FinalizeUserOp,
      UpdateSettled, IngestExecution, MarkStale, agentVars, BudgetStep
<1> QED BY <1>1 DEF OnePaymentEach, SubmitOp, SettleInv, AgentOK

\* What a step that makes no report does to request q.
Onward(q) ==
    \/ proc'[q] = proc[q]
    \/ proc'[q] \in {Idle} \cup ReserveRequest
    \/ /\ proc[q] \in SubmittedRequest /\ proc'[q] \in SubmittedRequest
       /\ proc'[q].userop = proc[q].userop /\ proc'[q].pc # "update"
    \/ /\ proc[q] \in FinalizedRequest /\ proc'[q] \in FinalizedRequest
       /\ proc'[q].userop = proc[q].userop

MakesReport == \E p \in Procs, o \in Ops : StartSubmitted(p, o) \/ StartFinalized(p, o)

LEMMA OnwardStep ==
    ASSUME SettleInv, [Next]_vars, ~MakesReport, NEW q \in Procs
    PROVE  Onward(q)
<1>0. ProcOK   BY DEF SettleInv
<1>1. ASSUME NEW p \in Procs, Return(p) PROVE Onward(q)
  BY <1>0, <1>1 DEF Return, Onward, ProcOK
<1>2. ASSUME NEW p \in Procs, NEW k \in Keys, StartReserve(p, k) PROVE Onward(q)
  BY <1>0, <1>2 DEF StartReserve, Onward, ProcOK, ReserveRequest, SearchSteps
<1>3. ASSUME NEW p \in Procs, ServiceStep(p) PROVE Onward(q)
  <2>1. PICK r \in Request : Follows(p, r)   BY <1>3, ServiceProc
  <2> QED BY <1>0, <2>1 DEF Follows, Onward, ProcOK
<1>4. ASSUME NEW p \in Procs, NEW label, label # "update", Goto(p, label) PROVE Onward(q)
  <2>1. ProcOK'   BY ProcStep
  <2> QED
    BY <1>0, <1>4, <2>1 DEF Goto, Onward, ProcOK, RequestOK, Idle, ReserveRequest, SubmittedRequest,
      FinalizedRequest
<1>5. ASSUME NEW p \in Procs, FinalizeUserOp(p) PROVE Onward(q)
  <2>1. proc[p] \in FinalizedRequest   BY <1>0, <1>5, RequestAt DEF FinalizeUserOp, At
  <2>2. ASSUME NEW i, NEW label \in {"commit", "meta"},
               proc' = [proc EXCEPT ![p].pc = label, ![p].id = i]
        PROVE  Onward(q)
    <3>1. ProcOK'   BY ProcStep
    <3>2. CASE q = p
      <4>1. /\ proc'[p].pc = label /\ proc'[p].op = "finalized" /\ proc'[p].userop = proc[p].userop
        BY <1>0, <2>1, <2>2 DEF ProcOK, FinalizedRequest
      <4>2. proc'[p] \in FinalizedRequest
        BY <3>1, <4>1 DEF ProcOK, RequestOK, Idle, SubmittedRequest, ReserveRequest
      <4> QED BY <2>1, <3>2, <4>1, <4>2 DEF Onward
    <3> QED BY <1>0, <2>2, <3>2 DEF Onward, ProcOK
  <2>3. CASE proc' = [proc EXCEPT
                    ![p].pc = IF proc[p].executed THEN "commit" ELSE "meta",
                    ![p].id = userops[proc[p].userop].reservation]
    <3>1. PICK label \in {"commit", "meta"} :
             label = IF proc[p].executed THEN "commit" ELSE "meta"
      OBVIOUS
    <3> QED BY <2>2, <2>3, <3>1
  <2> QED BY <1>1, <1>5, <2>3 DEF FinalizeUserOp
<1>6. ASSUME UNCHANGED proc PROVE Onward(q)
  BY <1>6 DEF Onward
<1> QED
  BY <1>1, <1>2, <1>3, <1>4, <1>5, <1>6
  DEF Next, vars, MakesReport, Handle, Stop, SaveReservation, LookupIdempotency, UpdateSubmitted,
      AfterUpdate, BindDigest, SaveUserOp, UpdateSettled, SubmitOp, IncludeOp, IngestExecution,
      MarkStale, Expire, ExpireMeta

LEMMA ReportsStep ==
    ASSUME SettleInv, Ordered, ReportsInOrder, [Next]_vars
    PROVE  ReportsInOrder'
<1>0. ProcOK /\ reported \in [Ops -> Reports]   BY DEF SettleInv, AgentOK
<1>k. ~(Idle \in SubmittedRequest) /\ ~(Idle \in FinalizedRequest)
      /\ ReserveRequest \cap SubmittedRequest = {} /\ ReserveRequest \cap FinalizedRequest = {}
      /\ SubmittedRequest \cap FinalizedRequest = {}
  BY DEF Idle, ReserveRequest, SubmittedRequest, FinalizedRequest
<1>u. \A r : r \in SubmittedRequest \/ r \in FinalizedRequest => r.userop \in Ops
  BY DEF SubmittedRequest, FinalizedRequest
<1>1. CASE UNCHANGED reported /\ ~MakesReport
  <2>1. \A q \in Procs : Onward(q)   BY <1>1, OnwardStep
  <2>2. \A q \in Procs, o \in Ops : Reporting(q, o)' => Reporting(q, o)
    BY <1>k, <2>1 DEF Onward, Reporting
  <2>3. \A q \in Procs : proc'[q] \in FinalizedRequest
            => proc[q] \in FinalizedRequest /\ proc'[q].userop = proc[q].userop
    BY <1>k, <2>1 DEF Onward
  <2> QED BY <1>1, <2>2, <2>3 DEF ReportsInOrder
<1>2. ASSUME NEW p \in Procs, NEW o \in Ops, StartSubmitted(p, o) PROVE ReportsInOrder'
  <2>1. reported[o] = "no" /\ reported' = [reported EXCEPT ![o] = "submitting"]
    BY <1>2 DEF StartSubmitted
  <2>2. /\ \A q \in Procs : q # p => proc'[q] = proc[q]
        /\ proc'[p].userop = o /\ proc'[p].op = "submitted"
    BY <1>0, <1>2 DEF StartSubmitted, ProcOK
  <2>3. proc'[p] \notin FinalizedRequest   BY <2>2 DEF FinalizedRequest
  <2>4. \A q \in Procs : ~Reporting(q, o)   BY <2>1 DEF ReportsInOrder
  <2> QED BY <1>0, <1>u, <2>1, <2>2, <2>3, <2>4 DEF ReportsInOrder, Reporting
<1>3. ASSUME NEW p \in Procs, NEW o \in Ops, StartFinalized(p, o) PROVE ReportsInOrder'
  <2>1. reported[o] = "submitted" /\ reported' = [reported EXCEPT ![o] = "finalizing"]
    BY <1>3 DEF StartFinalized
  <2>2. /\ \A q \in Procs : q # p => proc'[q] = proc[q]
        /\ proc'[p].userop = o /\ proc'[p].op = "finalized"
    BY <1>0, <1>3 DEF StartFinalized, ProcOK
  <2>3. proc'[p] \notin SubmittedRequest   BY <2>2 DEF SubmittedRequest
  <2>4. \A q \in Procs : ~Reporting(q, o)   BY <2>1 DEF ReportsInOrder
  <2> QED BY <1>0, <1>u, <2>1, <2>2, <2>3, <2>4 DEF ReportsInOrder, Reporting
<1>4. ASSUME NEW p \in Procs, SaveUserOp(p) PROVE ReportsInOrder'
  <2>0. PICK o : o = proc[p].userop   OBVIOUS
  <2>1. proc[p] \in SubmittedRequest /\ o \in Ops
    BY <1>0, <1>4, <1>u, <2>0, RequestAt DEF SaveUserOp, At
  <2>2. /\ proc'[p] = Idle /\ \A q \in Procs : q # p => proc'[q] = proc[q]
        /\ reported' = reported \/ reported' = [reported EXCEPT ![o] = IF @ = "submitting"
                                                          THEN "submitted" ELSE @]
    BY <1>0, <1>4, <2>0 DEF SaveUserOp, Return, ProcOK
  <2>3. \A q \in Procs : Reporting(q, o) => q = p   BY <2>0, <2>1 DEF ReportsInOrder, Reporting
  <2>4. \A q \in Procs : Reporting(q, o)' => FALSE
    BY <1>k, <2>2, <2>3 DEF Reporting
  <2> QED BY <1>0, <1>k, <1>u, <2>1, <2>2, <2>4 DEF ReportsInOrder, Reporting
<1>5. ASSUME NEW p \in Procs, UpdateSettled(p) PROVE ReportsInOrder'
  <2>0. PICK o : o = proc[p].userop   OBVIOUS
  <2>1. proc[p] \in FinalizedRequest /\ o \in Ops
    BY <1>0, <1>5, <1>u, <2>0, RequestAt DEF UpdateSettled, At
  <2>2. /\ proc'[p] = Idle /\ \A q \in Procs : q # p => proc'[q] = proc[q]
        /\ reported' = [reported EXCEPT ![o] = IF @ = "finalizing" THEN "finalized" ELSE @]
    BY <1>0, <1>5, <2>0 DEF UpdateSettled, Return, ProcOK
  <2> QED BY <1>0, <1>k, <1>u, <2>0, <2>1, <2>2 DEF ReportsInOrder, Reporting
<1> QED
  BY <1>1, <1>2, <1>3, <1>4, <1>5, BudgetFrame
  DEF MakesReport, Next, vars, Handle, Stop, StartReserve, SaveReservation, LookupIdempotency,
      UpdateSubmitted, BindDigest, FinalizeUserOp, SubmitOp, IncludeOp, IngestExecution,
      MarkStale, BudgetStep

\* Terminal rows are not updated, and fresh ones stay fresh while the report
\* on their payment has not got past its update.
LEMMA FreshStep ==
    ASSUME SettleInv, Ordered, OrderInv, [Next]_vars
    PROVE  UpdatesAreFresh'
<1>0. /\ RowsOK /\ ProcOK /\ AgentOK /\ TerminalTrue /\ PaymentsKept /\ RowStep
      /\ issued \in 0 .. MaxIds /\ OnePaymentEach /\ ReportsInOrder /\ UpdatesAreFresh
  BY PaymentsStep, RowChange DEF SettleInv, RedisOK, OrderInv
<1> SUFFICES ASSUME NEW o \in Ops, fate'[o] # "unsent",
                    \/ reported'[o] = "no"
                    \/ \E p \in Procs : (Reporting(p, o) /\ At(p, "update"))'
             PROVE  Fresh(uses[o])'
  BY DEF UpdatesAreFresh
\* The payment is new, or its report had not got past the update before.
<1>1. CASE fate[o] = "unsent"
  <2>1. PICK i \in Ids : SubmitOp(o, i)
    <3>1. \/ UNCHANGED fate \/ \E x \in Ops : IncludeOp(x)
          \/ \E x \in Ops, i \in Ids : SubmitOp(x, i)
      BY BudgetFrame
      DEF Next, vars, Handle, Stop, StartReserve, StartSubmitted, StartFinalized, SaveReservation,
          LookupIdempotency, UpdateSubmitted, SaveUserOp, BindDigest, FinalizeUserOp,
          UpdateSettled, IngestExecution, MarkStale, agentVars, BudgetStep
    <3> QED BY <1>0, <1>1, <3>1 DEF IncludeOp, SubmitOp, AgentOK
  <2>2. /\ \A x \in Ops : uses[x] # i
        /\ uses'[o] = i /\ rows' = rows
    BY <1>0, <2>1 DEF SubmitOp, AgentOK
  <2>3. rows[i] # NoRow => rows[i] \in Row /\ rows[i].digest = NoDigest
    BY <1>0, <2>2 DEF RowsOK, Row
  <2>4. rows[i].status # Committed /\ rows[i].status # Released
    BY <1>0, <2>2 DEF TerminalTrue
  <2>5. rows[i] # NoRow => rows[i].status \in {Reserved, Submitted}
    BY <2>3, <2>4 DEF Row, Statuses
  <2>6. Fresh(i)   BY <2>3, <2>5 DEF Fresh
  <2> QED BY <2>2, <2>6 DEF Fresh
<1>2. CASE fate[o] # "unsent"
  <2>1. reported[o] = "no" \/ \E p \in Procs : Reporting(p, o) /\ At(p, "update")
    <3>1. CASE reported'[o] = "no"
      <4>1. \/ UNCHANGED reported
            \/ \E p \in Procs :
                  \/ \E x \in Ops : StartSubmitted(p, x) \/ StartFinalized(p, x)
                  \/ SaveUserOp(p) \/ UpdateSettled(p)
        BY BudgetFrame
        DEF Next, vars, Handle, Stop, StartReserve, SaveReservation, LookupIdempotency,
            UpdateSubmitted, SubmitOp, IncludeOp, BindDigest, FinalizeUserOp,
            IngestExecution, MarkStale, BudgetStep
      <4> QED
        BY <1>0, <3>1, <4>1
        DEF AgentOK, StartSubmitted, StartFinalized, SaveUserOp, UpdateSettled
    <3>2. ASSUME NEW p \in Procs, (Reporting(p, o) /\ At(p, "update"))' PROVE <2>1
      <4>1. CASE ~MakesReport
        BY <3>2, <4>1, OnwardStep
        DEF Onward, Reporting, At, Idle, ReserveRequest, SubmittedRequest, FinalizedRequest
      <4>2. ASSUME NEW q \in Procs, NEW x \in Ops, StartSubmitted(q, x) PROVE <2>1
        BY <1>0, <3>2, <4>2 DEF StartSubmitted, ProcOK, Reporting, At
      <4>3. ASSUME NEW q \in Procs, NEW x \in Ops, StartFinalized(q, x) PROVE <2>1
        BY <1>0, <3>2, <4>3 DEF StartFinalized, ProcOK, Reporting, At
      <4> QED BY <4>1, <4>2, <4>3 DEF MakesReport
    <3> QED BY <3>1, <3>2
  <2>2. PICK i : i = uses[o] /\ i = uses'[o]   BY <1>0, <1>2 DEF PaymentsKept
  <2>3. /\ i \in Ids /\ i # 0 /\ Fresh(i)
        /\ rows[i] # NoRow => rows[i].digest = NoDigest
    <3>1. Fresh(i)   BY <1>0, <1>2, <2>1, <2>2 DEF UpdatesAreFresh
    <3>2. i \in Ids /\ i # 0   BY <1>0, <1>2, <2>2, UsedId
    <3> QED BY <3>1, <3>2 DEF Fresh
  \* Another payment uses another reservation.
  <2>o. \A x \in Ops : uses[x] = i => x = o   BY <1>0, <2>2, <2>3 DEF OnePaymentEach
  <2>4. ASSUME NEW p \in Procs, At(p, "save"), ~Conflicts(proc[p].id, proc[p].key),
               rows' = [rows EXCEPT ![proc[p].id] = NewRow(proc[p].key)]
        PROVE  Fresh(i)'
    BY <1>0, <2>3, <2>4 DEF Fresh, NewRow, RowsOK
  <2>5. ASSUME NEW p \in Procs, At(p, "update"), rows[proc[p].id] # NoRow,
               rows' = [rows EXCEPT ![proc[p].id].status = Submitted]
        PROVE  Fresh(i)'
    BY <1>0, <2>3, <2>5 DEF Fresh, RowsOK, Row
  <2>6. ASSUME NEW p \in Procs, At(p, "bind"), Pending(proc[p].id),
               rows' = [rows EXCEPT ![proc[p].id].digest = proc[p].digest]
        PROVE  Fresh(i)'
    <3>1. /\ proc[p].userop \in Ops /\ Reporting(p, proc[p].userop)
          /\ proc[p].id = uses[proc[p].userop]
      BY <1>0, <2>6, RequestAt DEF At, SubmittedRequest, Reporting, SubmittedOK
    <3>2. proc[p].userop # o
      BY <1>0, <2>1, <2>6, <3>1 DEF ReportsInOrder, At
    <3>3. proc[p].id # i   BY <2>o, <3>1, <3>2
    <3> QED BY <1>0, <2>3, <2>6, <3>3 DEF Fresh, RowsOK
  <2>7. ASSUME NEW p \in Procs, At(p, "status"), rows[proc[p].id] # NoRow,
               rows' = [rows EXCEPT ![proc[p].id].status =
                          IF proc[p].executed THEN Committed ELSE Released]
        PROVE  Fresh(i)'
    <3>1. /\ proc[p].userop \in Ops /\ proc[p] \in FinalizedRequest
          /\ proc[p].id = uses[proc[p].userop]
      BY <1>0, <2>7, RequestAt DEF At, FinalizedRequest, FinalizedOK
    <3>2. proc[p].userop # o
      BY <1>0, <2>1, <3>1 DEF ReportsInOrder
    <3>3. proc[p].id # i   BY <2>o, <3>1, <3>2
    <3> QED BY <1>0, <2>3, <2>7, <3>3 DEF Fresh, RowsOK
  <2>8. ASSUME NEW other \in Ops, NEW j \in Ids, Matches(j, other),
               rows' = [rows EXCEPT ![j].status = Committed]
        PROVE  Fresh(i)'
    <3>1. rows[j] # NoRow /\ rows[j].digest # NoDigest
      BY <2>8 DEF Matches, Pending, NoRow, Reserved, Submitted
    <3>2. j # i   BY <2>3, <3>1
    <3> QED BY <1>0, <2>3, <2>8, <3>2 DEF Fresh, RowsOK
  <2>9. CASE UNCHANGED rows   BY <2>2, <2>3, <2>9 DEF Fresh
  <2> QED BY <1>0, <2>2, <2>4, <2>5, <2>6, <2>7, <2>8, <2>9 DEF RowStep, Fresh
<1> QED BY <1>1, <1>2

LEMMA OrderStep == SettleInv /\ OrderInv /\ [Next]_vars => OrderInv'
BY OnePaymentStep, ReportsStep, FreshStep DEF OrderInv

LEMMA OrderAlways == Spec => [](SettleInv /\ OrderInv)
BY InitSettle, SettleStep, InitOrder, OrderStep, PTL DEF Spec

LEMMA TerminalKept ==
    ASSUME SettleInv, OrderInv, Ordered, [Next]_vars, NEW i \in Ids,
           rows[i].status \in {Committed, Released}
    PROVE  rows'[i].status = rows[i].status
<1>0. /\ RowsOK /\ ProcOK /\ AgentOK /\ TerminalTrue /\ RowStep
      /\ issued \in 0 .. MaxIds /\ OnePaymentEach /\ ReportsInOrder /\ UpdatesAreFresh
  BY RowChange DEF SettleInv, RedisOK, OrderInv
<1>1. rows[i] # NoRow /\ ~Pending(i)
  BY DEF NoRow, Pending, Reserved, Submitted, Committed, Released
<1>2. ASSUME NEW p \in Procs, At(p, "save"), ~Conflicts(proc[p].id, proc[p].key),
             rows' = [rows EXCEPT ![proc[p].id] = NewRow(proc[p].key)]
      PROVE  rows'[i] = rows[i]
  BY <1>0, <1>1, <1>2 DEF Conflicts, RowsOK
<1>3. ASSUME NEW p \in Procs, At(p, "update"), rows[proc[p].id] # NoRow,
             rows' = [rows EXCEPT ![proc[p].id].status = Submitted]
      PROVE  rows'[i] = rows[i]
  <2>1. /\ proc[p].userop \in Ops /\ Reporting(p, proc[p].userop)
        /\ fate[proc[p].userop] # "unsent" /\ proc[p].id = uses[proc[p].userop]
    BY <1>0, <1>3, RequestAt DEF At, SubmittedRequest, Reporting, SubmittedOK
  <2>2. Fresh(proc[p].id)   BY <1>0, <1>3, <2>1 DEF UpdatesAreFresh
  <2>3. proc[p].id # i   BY <1>1, <2>2 DEF Fresh, Pending
  <2> QED BY <1>0, <1>3, <2>3 DEF RowsOK
<1>4. ASSUME NEW p \in Procs, Pending(proc[p].id),
             rows' = [rows EXCEPT ![proc[p].id].digest = proc[p].digest]
      PROVE  rows'[i] = rows[i]
  BY <1>0, <1>1, <1>4 DEF RowsOK
<1>5. ASSUME NEW p \in Procs, At(p, "status"), rows[proc[p].id] # NoRow,
             rows' = [rows EXCEPT ![proc[p].id].status =
                        IF proc[p].executed THEN Committed ELSE Released]
      PROVE  rows'[i].status = rows[i].status
  <2>1. /\ proc[p].userop \in Ops /\ proc[p].id = uses[proc[p].userop]
        /\ fate[proc[p].userop] = IF proc[p].executed THEN "executed" ELSE "reverted"
    BY <1>0, <1>5, RequestAt DEF At, FinalizedRequest, FinalizedOK
  <2>2. CASE proc[p].id # i   BY <1>0, <1>5, <2>2 DEF RowsOK
  <2>3. CASE proc[p].id = i
    <3>1. PICK o \in Ops : /\ uses[o] = i
                           /\ rows[i].status = Committed => fate[o] = "executed"
                           /\ rows[i].status = Released => fate[o] = "reverted"
      BY <1>0 DEF TerminalTrue, Committed, Released
    <3>2. i # 0   BY DEF Ids
    <3>3. o = proc[p].userop   BY <1>0, <2>1, <2>3, <3>1, <3>2 DEF OnePaymentEach
    <3>4. rows'[i].status = IF proc[p].executed THEN Committed ELSE Released
      BY <1>0, <1>1, <1>5, <2>3 DEF RowsOK, Row
    <3> QED BY <2>1, <3>1, <3>3, <3>4
  <2> QED BY <2>2, <2>3
<1>6. ASSUME NEW o \in Ops, NEW j \in Ids, Matches(j, o),
             rows' = [rows EXCEPT ![j].status = Committed]
      PROVE  rows'[i] = rows[i]
  BY <1>0, <1>1, <1>6 DEF RowsOK, Matches
<1> QED BY <1>0, <1>2, <1>3, <1>4, <1>5, <1>6 DEF RowStep

\* A committed or released reservation is never set back, for every number of
\* requests and payments, whatever fails and however slow payments are, as long
\* as agents report once and in order: the update of userOpSubmitted and the
\* watcher's commit of the same row cannot pass each other.
THEOREM TerminalIsFinal == ASSUME Ordered PROVE Spec => TerminalStays
<1> DEFINE Stays == \A i \in Ids : rows[i].status \in {Committed, Released}
                                      => rows'[i].status = rows[i].status
<1>1. SettleInv /\ OrderInv /\ [Next]_vars => [Stays]_vars   BY TerminalKept
<1> QED BY <1>1, OrderAlways, PTL DEF TerminalStays, Spec

-----------------------------------------------------------------------------
(* The stored aggregate and what it is for.  Whatever races and            *)
(* whatever fails, the aggregate counts no more than the reservations that *)
(* were made and not given back, and fewer only by what was taken off once *)
(* more.  What a request has taken off it may take out of the index.       *)

Sums ==
    /\ IsFiniteSet(counted) /\ aggregate <= Cardinality(counted)
    /\ Cardinality(counted) <= aggregate + overdrawn

TakenOff == \A p \in Procs : proc[p].pc \in {"rem", "forget"} => proc[p].id \notin counted

LEMMA CountedTypes ==
    ASSUME SettleInv
    PROVE  /\ aggregate \in Nat /\ overdrawn \in Nat /\ issued \in Nat
           /\ counted \subseteq 1 .. issued /\ IsFiniteSet(counted)
           /\ Cardinality(counted) \in Nat
<1>1. /\ aggregate \in Nat /\ overdrawn \in Nat /\ issued \in Nat /\ counted \subseteq 1 .. issued
  BY DEF SettleInv, RedisOK
<1>2. 1 \in Int /\ issued \in Int   BY <1>1
<1>3. IsFiniteSet(1 .. issued)   BY <1>2, FS_Interval
<1>4. IsFiniteSet(counted)   BY <1>1, <1>3, FS_Subset
<1> QED BY <1>1, <1>4, FS_CardinalityType

LEMMA SumsStep == SettleInv /\ Sums /\ [Next]_vars => Sums'
<1> SUFFICES ASSUME SettleInv, Sums, [Next]_vars PROVE Sums'   OBVIOUS
<1>0. /\ aggregate \in Nat /\ overdrawn \in Nat /\ issued \in Nat
      /\ counted \subseteq 1 .. issued /\ IsFiniteSet(counted)
      /\ Cardinality(counted) \in Nat
      /\ aggregate <= Cardinality(counted) /\ Cardinality(counted) <= aggregate + overdrawn
  BY CountedTypes DEF Sums
<1>1. ASSUME NEW p \in Procs, Makes(p) PROVE Sums'
  <2>1. PICK n : n = issued + 1   OBVIOUS
  <2>2. /\ counted' = counted \cup {n} /\ n \notin counted
        /\ aggregate' = aggregate + 1 /\ overdrawn' = overdrawn
    BY <1>0, <1>1, <2>1 DEF Makes
  <2>3. IsFiniteSet(counted') /\ Cardinality(counted') = Cardinality(counted) + 1
    BY <1>0, <2>2, FS_AddElement
  <2> QED BY <1>0, <2>2, <2>3 DEF Sums
<1>2. ASSUME NEW p \in Procs, NEW i, TakesOff(p, i) PROVE Sums'
  <2>1. Subtract(i)   BY <1>2 DEF TakesOff
  <2>2. CASE i \in counted
    <3>1. IsFiniteSet(counted') /\ Cardinality(counted') = Cardinality(counted) - 1
      BY <1>0, <2>1, <2>2, FS_RemoveElement DEF Subtract
    <3>2. overdrawn' = overdrawn /\ aggregate' = IF aggregate = 0 THEN 0 ELSE aggregate - 1
      BY <2>1, <2>2 DEF Subtract
    <3>3. Cardinality(counted') \in Nat   BY <3>1, FS_CardinalityType
    <3> QED BY <1>0, <3>1, <3>2, <3>3 DEF Sums
  <2>3. CASE i \notin counted
    <3>1. /\ counted' = counted /\ overdrawn' = overdrawn + 1
          /\ aggregate' = IF aggregate = 0 THEN 0 ELSE aggregate - 1
      BY <2>1, <2>3 DEF Subtract
    <3> QED BY <1>0, <3>1 DEF Sums
  <2> QED BY <2>2, <2>3
<1>3. ASSUME UNCHANGED budgetVars PROVE Sums'
  BY <1>3 DEF Sums, budgetVars
<1> QED
  BY <1>1, <1>2, <1>3, RedisChange DEF RedisStep, redisVars, Forgets, Expires, MetaGoes

\* The step of one request leaves the others as they are.
Acts(p) ==
    \/ \E k \in Keys : StartReserve(p, k)
    \/ \E o \in Ops : StartSubmitted(p, o) \/ StartFinalized(p, o)
    \/ Handle(p) \/ Stop(p)

LEMMA WhoActs ==
    ASSUME SettleInv, [Next]_vars, NEW p \in Procs PROVE proc'[p] = proc[p] \/ Acts(p)
<1>0. proc \in [Procs -> Request]   BY DEF SettleInv, ProcOK
<1>1. ASSUME NEW q \in Procs, Acts(q), q # p PROVE proc'[p] = proc[p]
  <2>1. ASSUME ServiceStep(q) PROVE proc'[p] = proc[p]
    <3>1. PICK r \in Request : Follows(q, r)   BY <2>1, ServiceProc
    <3> QED BY <1>0, <1>1, <3>1 DEF Follows
  <2> QED
    BY <1>0, <1>1, <2>1
    DEF Acts, Goto, Return, Handle, Stop, StartReserve, StartSubmitted, StartFinalized,
        SaveReservation, LookupIdempotency, UpdateSubmitted, BindDigest, SaveUserOp,
        FinalizeUserOp, UpdateSettled
<1>2. ASSUME UNCHANGED proc PROVE proc'[p] = proc[p]
  BY <1>2
<1> QED
  BY <1>1, <1>2
  DEF Next, vars, Acts, SubmitOp, IncludeOp, IngestExecution, MarkStale, Expire, ExpireMeta

\* The step that takes request p to where it is.
LEMMA PcAfter ==
    ASSUME SettleInv, NEW p \in Procs, Acts(p)
    PROVE  /\ proc'[p].pc = "rem" => SweepRelease(p)
           /\ proc'[p].pc = "save" => CheckIdem(p) \/ MakeReservation(p)
           /\ proc'[p].pc = "lookup" => SaveReservation(p)
           /\ proc'[p].pc = "meta" => LookupIdempotency(p) \/ FinalizeUserOp(p)
           /\ proc'[p].pc = "release" => ReadMeta(p)
           /\ proc'[p].pc = "forget" => ReleaseAmount(p)
           /\ proc'[p].pc = "commit" => FinalizeUserOp(p)
           /\ proc'[p].pc = "status" =>
                 ReadMeta(p) \/ ReleaseAmount(p) \/ ForgetReleased(p) \/ CommitReservation(p)
<1>0. ProcOK /\ proc \in [Procs -> Request] /\ Idle.pc = "idle"   BY DEF SettleInv, ProcOK, Idle
<1>1. ASSUME NEW label, Goto(p, label) PROVE proc'[p].pc = label
  BY <1>0, <1>1 DEF Goto, Request, Idle, ReserveRequest, SubmittedRequest, FinalizedRequest
<1>2. ASSUME Return(p) PROVE proc'[p].pc = "idle"   BY <1>0, <1>2 DEF Return, Idle
<1>3. ASSUME Done(p), proc[p] \in ReserveRequest \cup FinalizedRequest
      PROVE  proc'[p].pc \in {"idle", "status"}
  BY <1>0, <1>3 DEF Done, Idle, ReserveRequest, FinalizedRequest
<1>4. ASSUME NEW k \in Keys, StartReserve(p, k) PROVE proc'[p].pc = "sweep"
  BY <1>0, <1>4 DEF StartReserve
<1>5. ASSUME NEW o \in Ops, StartSubmitted(p, o) PROVE proc'[p].pc = "update"
  BY <1>0, <1>5 DEF StartSubmitted
<1>6. ASSUME NEW o \in Ops, StartFinalized(p, o) PROVE proc'[p].pc = "finalize"
  BY <1>0, <1>6 DEF StartFinalized
<1>7. ASSUME SweepExpired(p) \/ SweepRemove(p) PROVE proc'[p].pc = "next"
  <2>1. proc[p] \in ReserveRequest
    BY <1>0, <1>7, RequestAt DEF SweepExpired, SweepRemove, At, SearchSteps
  <2> QED BY <1>0, <1>7, <2>1 DEF SweepExpired, SweepRemove, ReserveRequest
<1>8. ASSUME SweepRelease(p) PROVE proc'[p].pc \in {"idle", "rem"}
  <2>1. proc[p] \in ReserveRequest   BY <1>0, <1>8, RequestAt DEF SweepRelease, At, SearchSteps
  <2> QED BY <1>0, <1>2, <1>8, <2>1 DEF SweepRelease, ReserveRequest
<1>9. ASSUME CheckIdem(p) PROVE proc'[p].pc \in {"save", "make"}
  <2>1. proc[p] \in ReserveRequest   BY <1>0, <1>9, RequestAt DEF CheckIdem, At, SearchSteps
  <2> QED BY <1>0, <1>1, <1>9, <2>1 DEF CheckIdem, ReserveRequest
<1>10. ASSUME MakeReservation(p) PROVE proc'[p].pc \in {"idle", "save"}
  <2>1. proc[p] \in ReserveRequest   BY <1>0, <1>10, RequestAt DEF MakeReservation, At, SearchSteps
  <2> QED BY <1>0, <1>2, <1>10, <2>1 DEF MakeReservation, ReserveRequest
<1>11. ASSUME ReadMeta(p) \/ ReleaseAmount(p) \/ ForgetReleased(p)
       PROVE  proc[p] \in ReserveRequest \cup FinalizedRequest
  BY <1>0, <1>11, RequestAt DEF ReadMeta, ReleaseAmount, ForgetReleased, At, ReleaseSteps
<1>12. ASSUME ReadMeta(p) PROVE proc'[p].pc \in {"release", "idle", "status"}
  BY <1>1, <1>3, <1>11, <1>12 DEF ReadMeta
<1>13. ASSUME ReleaseAmount(p) PROVE proc'[p].pc \in {"forget", "idle", "status"}
  BY <1>1, <1>3, <1>11, <1>13 DEF ReleaseAmount
<1>14. ASSUME ForgetReleased(p) PROVE proc'[p].pc \in {"idle", "status"}
  BY <1>3, <1>11, <1>14 DEF ForgetReleased
<1>15. ASSUME CommitReservation(p) PROVE proc'[p].pc \in {"idle", "status"}
  <2>1. proc[p] \in FinalizedRequest   BY <1>0, <1>15, RequestAt DEF CommitReservation, At
  <2> QED BY <1>3, <1>15, <2>1 DEF CommitReservation
<1>16. ASSUME SaveReservation(p) PROVE proc'[p].pc \in {"idle", "lookup"}
  BY <1>1, <1>2, <1>16 DEF SaveReservation
<1>17. ASSUME LookupIdempotency(p) PROVE proc'[p].pc \in {"idle", "meta"}
  BY <1>1, <1>2, <1>17 DEF LookupIdempotency
<1>18. ASSUME UpdateSubmitted(p) \/ BindDigest(p) PROVE proc'[p].pc \in {"idle", "userop", "bind"}
  BY <1>1, <1>2, <1>18 DEF UpdateSubmitted, BindDigest, AfterUpdate
<1>19. ASSUME SaveUserOp(p) \/ UpdateSettled(p) \/ Stop(p) PROVE proc'[p].pc = "idle"
  BY <1>2, <1>19 DEF SaveUserOp, UpdateSettled, Stop
<1>20. ASSUME FinalizeUserOp(p) PROVE proc'[p].pc \in {"idle", "commit", "meta"}
  <2>1. proc[p] \in FinalizedRequest   BY <1>0, <1>20, RequestAt DEF FinalizeUserOp, At
  <2> QED BY <1>0, <1>2, <1>20, <2>1 DEF FinalizeUserOp, FinalizedRequest
<1> QED
  BY <1>4, <1>5, <1>6, <1>7, <1>8, <1>9, <1>10, <1>12, <1>13, <1>14, <1>15, <1>16, <1>17, <1>18,
     <1>19, <1>20
  DEF Acts, Handle, ServiceStep

LEMMA TakenOffStep == SettleInv /\ TakenOff /\ [Next]_vars => TakenOff'
<1> SUFFICES ASSUME SettleInv, TakenOff, [Next]_vars, NEW p \in Procs,
                    proc'[p].pc \in {"rem", "forget"}
             PROVE  proc'[p].id \notin counted'
  BY DEF TakenOff
<1>0. ProcOK /\ issued \in Nat /\ counted \subseteq 1 .. issued   BY CountedTypes DEF SettleInv
\* Only new reservations are counted again.
<1>1. counted' \subseteq counted \cup ({issued'} \ (1 .. issued))
  <2>1. ASSUME NEW q \in Procs, Makes(q) PROVE <1>1   BY <1>0, <2>1 DEF Makes
  <2>2. ASSUME NEW q \in Procs, NEW i, TakesOff(q, i) PROVE <1>1   BY <2>2 DEF TakesOff, Subtract
  <2>3. ASSUME UNCHANGED counted PROVE <1>1   BY <2>3
  <2> QED
    BY <2>1, <2>2, <2>3, RedisChange
    DEF RedisStep, redisVars, budgetVars, Forgets, Expires, MetaGoes
<1>2. CASE proc'[p] = proc[p]
  <2>1. proc[p].id \in 0 .. issued /\ proc[p].id \in 1 .. issued
    <3>1. CASE proc[p] \in ReserveRequest
      BY <1>0, <1>2, <3>1, ReservingAt DEF SettleInv, RedisOK, SearchSteps
    <3>2. CASE proc[p] \in FinalizedRequest /\ FinalizedOK(proc[p])
      <4>1. proc[p].userop \in Ops /\ fate[proc[p].userop] # "unsent" /\ proc[p].id = uses[proc[p].userop]
        BY <1>2, <3>2 DEF FinalizedRequest, FinalizedOK
      <4> QED BY <1>0, <4>1, UsedId DEF SettleInv, RedisOK
    <3> QED BY <1>0, <1>2, <3>1, <3>2, RequestAt DEF ReleaseSteps
  <2> QED BY <1>1, <1>2, <2>1 DEF TakenOff
<1>3. CASE proc'[p] # proc[p]
  <2>1. Acts(p)   BY <1>3, WhoActs
  <2>3. CASE SweepRelease(p)
    <3>1. proc[p] \in ReserveRequest   BY <1>0, <2>3, RequestAt DEF SweepRelease, At, SearchSteps
    <3>2. ~Return(p)   BY <1>0 DEF Return, ProcOK, Idle
    <3>3. PICK j \in proc[p].due : Subtract(j) /\ proc' = [proc EXCEPT ![p].pc = "rem", ![p].id = j]
      BY <2>3, <3>2 DEF SweepRelease
    <3>4. proc'[p].id = j   BY <1>0, <3>1, <3>3 DEF ProcOK, ReserveRequest
    <3> QED BY <3>3, <3>4 DEF Subtract
  <2>4. CASE ReleaseAmount(p)
    <3>1. proc[p] \in ReserveRequest \cup FinalizedRequest
      BY <1>0, <2>4, RequestAt DEF ReleaseAmount, At, ReleaseSteps
    <3>2. ~Done(p)   BY <1>0, <3>1 DEF Done, ProcOK, Idle, ReserveRequest, FinalizedRequest
    <3>3. Subtract(proc[p].id) /\ Goto(p, "forget")   BY <2>4, <3>2 DEF ReleaseAmount
    <3>4. proc'[p].id = proc[p].id
      BY <1>0, <3>1, <3>3 DEF Goto, ProcOK, ReserveRequest, FinalizedRequest
    <3> QED BY <3>3, <3>4 DEF Subtract
  <2> QED BY <2>1, <2>3, <2>4, PcAfter
<1> QED BY <1>2, <1>3

-----------------------------------------------------------------------------
(* The two stores, while no statement fails.  Every reservation belongs to *)
(* the idempotency key it was made for: its row, the entry in Redis and    *)
(* the requests that work on it agree on the key.  A reservation is        *)
(* counted unless its row lost against another one with the same key, or   *)
(* its payment was reverted.                                               *)

Reserving(p) == proc[p] \in ReserveRequest

\* The reservation in hand is the one the request is for, not one that its
\* sweep has found.
Holding(p) == Reserving(p) /\ proc[p].id # 0 /\ ~At(p, "rem")

Releasing(p) == proc[p].pc \in ReleaseSteps

OwnedBy(owner) ==
    /\ \A k \in Keys : idem[k] # 0 => owner[idem[k]] = k
    /\ \A p \in Procs : Holding(p) => owner[proc[p].id] = proc[p].key
    /\ \A i \in Ids : rows[i] # NoRow => i \in 1 .. issued /\ owner[i] = rows[i].key

Rejected(i, k) == rows[i] = NoRow /\ \E j \in Ids : rows[j] # NoRow /\ rows[j].key = k

Reverted(i) == \E o \in Ops : uses[o] = i /\ fate[o] = "reverted"

CountedUnless(owner) ==
    \A i \in (1 .. issued) \ expired : i \in counted \/ Rejected(i, owner[i]) \/ Reverted(i)

StoreInv ==
    /\ \A i \in granted : rows[i] # NoRow
    /\ \A i \in counted \ members : rows[i] # NoRow
    /\ \A p \in Procs : At(p, "lookup") => Conflicts(proc[p].id, proc[p].key)
    /\ \A p \in Procs : Reserving(p) /\ Releasing(p) => Rejected(proc[p].id, proc[p].key)
    /\ TakenOff
    /\ \E owner \in [1 .. issued -> Keys] : OwnedBy(owner) /\ CountedUnless(owner)

\* The parts of a step.

RowsKept ==
    \A i \in Ids :
        /\ rows[i] # NoRow => rows'[i] # NoRow /\ rows'[i].key = rows[i].key
        /\ rows[i] = NoRow /\ rows'[i] # NoRow =>
              \E p \in Procs : /\ At(p, "save") /\ proc[p].id = i
                               /\ ~Conflicts(i, proc[p].key)
                               /\ rows'[i].key = proc[p].key

\* Request p takes the amount of reservation i off.
MayTake(p, i) ==
    \/ At(p, "next") /\ Reserving(p) /\ i \in proc[p].due
    \/ At(p, "release") /\ proc[p].id = i

CountedStep ==
    /\ \A i \in counted \ counted' : \E p \in Procs : MayTake(p, i)
    /\ counted' \ counted \subseteq {issued'} \ (1 .. issued)
    /\ members' \ members \subseteq {issued'} \ (1 .. issued)
    /\ \A i \in counted' \ members' :
          \/ i \in counted \ members
          \/ \E p \in Procs : proc[p].pc \in {"rem", "forget", "commit"} /\ proc[p].id = i

LEMMA NothingFails == ASSUME SettleInv, MaxFailures = 0 PROVE ~Fails
BY DEF SettleInv, AgentOK, Fails

LEMMA RowsKeptStep == SettleInv /\ [Next]_vars => RowsKept
<1> SUFFICES ASSUME SettleInv, [Next]_vars PROVE RowsKept   OBVIOUS
<1>1. RowsOK /\ RowStep   BY RowChange DEF SettleInv
<1>2. \A k : NewRow(k) # NoRow /\ NewRow(k).key = k   BY DEF NewRow, NoRow, Reserved
<1>3. ASSUME NEW i, rows[i] # NoRow, NEW value,
             rows' = [rows EXCEPT ![i].status = value] \/ rows' = [rows EXCEPT ![i].digest = value]
      PROVE  RowsKept
  BY <1>1, <1>3 DEF RowsKept, RowsOK, Row, NoRow
<1>4. ASSUME NEW p \in Procs, At(p, "save"), ~Conflicts(proc[p].id, proc[p].key),
             rows' = [rows EXCEPT ![proc[p].id] = NewRow(proc[p].key)]
      PROVE  RowsKept
  BY <1>1, <1>2, <1>4 DEF RowsKept, RowsOK, Conflicts
<1>5. \A i : Pending(i) => rows[i] # NoRow   BY DEF Pending, NoRow, Reserved, Submitted
<1>6. CASE UNCHANGED rows   BY <1>6 DEF RowsKept
<1> QED BY <1>1, <1>3, <1>4, <1>5, <1>6 DEF RowStep, Matches

LEMMA CountedSteps == ASSUME SettleInv, [Next]_vars PROVE CountedStep
<1>0. /\ ProcOK /\ issued \in Nat /\ counted \subseteq 1 .. issued
      /\ members \subseteq 1 .. issued
  BY DEF SettleInv, RedisOK
<1>1. ASSUME NEW p \in Procs, Makes(p) PROVE CountedStep
  BY <1>0, <1>1 DEF Makes, CountedStep
<1>2. ASSUME NEW p \in Procs, NEW i, TakesOff(p, i) PROVE CountedStep
  <2>1. counted' = counted \ {i} /\ members' = members   BY <1>2 DEF TakesOff, Subtract
  <2>2. At(p, "next") => Reserving(p)   BY <1>0, RequestAt DEF At, SearchSteps, Reserving
  <2>3. MayTake(p, i)   BY <1>2, <2>2 DEF TakesOff, MayTake
  <2> QED BY <2>1, <2>3 DEF CountedStep
<1>3. ASSUME NEW p \in Procs, Forgets(p) PROVE CountedStep
  BY <1>3 DEF Forgets, Forget, CountedStep, budgetVars
<1>4. ASSUME UNCHANGED <<counted, members>> PROVE CountedStep
  BY <1>4 DEF CountedStep
<1> QED
  BY <1>1, <1>2, <1>3, <1>4, RedisChange
  DEF RedisStep, redisVars, budgetVars, Expires, MetaGoes

\* What a step may do to request p.
ReserveStepOf(p) ==
    /\ Holding(p)' =>
          /\ Reserving(p) /\ proc'[p].key = proc[p].key
          /\ \/ Holding(p) /\ proc'[p].id = proc[p].id
             \/ proc'[p].id = idem[proc[p].key]
             \/ Makes(p) /\ proc'[p].id = issued'
    /\ At(p, "lookup")' /\ ~At(p, "lookup") =>
          /\ Conflicts(proc[p].id, proc[p].key) /\ proc'[p].id = proc[p].id
          /\ proc'[p].key = proc[p].key
    /\ At(p, "lookup")' /\ At(p, "lookup") => proc'[p] = proc[p]
    /\ (Reserving(p) /\ Releasing(p))' =>
          /\ proc'[p].id = proc[p].id /\ proc'[p].key = proc[p].key
          /\ \/ Reserving(p) /\ Releasing(p)
             \/ At(p, "lookup") /\ ~Answers(proc[p].id, proc[p].key)

LEMMA ReserveSteps ==
    ASSUME SettleInv, MaxFailures = 0, [Next]_vars, NEW p \in Procs
    PROVE  ReserveStepOf(p)
<1>0. /\ ProcOK /\ ProcOK' /\ proc \in [Procs -> Request] /\ RowsOK
      /\ issued \in 0 .. MaxIds /\ issued \in Nat /\ ~Fails
  BY NothingFails, ProcStep DEF SettleInv, RedisOK, ProcOK
<1>k. \A r : r \in ReserveRequest => r # Idle /\ r \notin SubmittedRequest /\ r \notin FinalizedRequest
  BY DEF Idle, ReserveRequest, SubmittedRequest, FinalizedRequest
<1>1. ASSUME proc'[p] = proc[p] PROVE ReserveStepOf(p)
  <2>1. /\ Holding(p)' => Holding(p)
        /\ (Reserving(p) /\ Releasing(p))' => Reserving(p) /\ Releasing(p)
        /\ At(p, "lookup")' => At(p, "lookup")
    BY <1>1 DEF Holding, Reserving, Releasing, At
  <2> QED BY <1>1, <2>1 DEF ReserveStepOf, Holding
\* A request that ends, or that has no reservation in hand afterwards.
<1>2. ASSUME ~Reserving(p)' \/ (proc'[p].id = 0 /\ proc'[p].pc \in SearchSteps)
             \/ proc'[p].pc = "rem"
      PROVE  ReserveStepOf(p)
  <2>1. ~Holding(p)' /\ ~(Reserving(p) /\ Releasing(p))'
    BY <1>2 DEF Holding, Reserving, Releasing, At, SearchSteps, ReleaseSteps
  <2>2. ~At(p, "lookup")'
    <3>1. At(p, "lookup")' => Reserving(p)'
      BY <1>0 DEF ProcOK, RequestOK, At, Reserving, Idle, SubmittedRequest, FinalizedRequest, ReleaseSteps
    <3> QED BY <1>2, <3>1 DEF At, SearchSteps
  <2> QED BY <2>1, <2>2 DEF ReserveStepOf
<1>3. ASSUME NEW r, r = Idle \/ r \in SubmittedRequest \/ r \in FinalizedRequest, proc'[p] = r
      PROVE  ReserveStepOf(p)
  BY <1>2, <1>3, <1>k DEF Reserving
<1>4. ASSUME NEW label, Goto(p, label), Reserving(p)
      PROVE  /\ proc'[p].pc = label /\ proc'[p].id = proc[p].id /\ proc'[p].key = proc[p].key
  BY <1>0, <1>4 DEF Goto, Reserving, ReserveRequest
<1>5. ASSUME Reserving(p), Return(p) \/ Done(p) PROVE ReserveStepOf(p)
  <2>1. proc'[p] = Idle   BY <1>0, <1>5 DEF Return, Done, Reserving, ReserveRequest
  <2> QED BY <1>3, <2>1
<1>6. ASSUME NEW k \in Keys, StartReserve(p, k) PROVE ReserveStepOf(p)
  BY <1>0, <1>2, <1>6 DEF StartReserve, SearchSteps
<1>7. ASSUME SweepExpired(p) \/ SweepRemove(p) PROVE ReserveStepOf(p)
  <2>1. proc[p] \in ReserveRequest /\ ReserveOK(proc[p]) /\ (At(p, "sweep") \/ At(p, "rem"))
    BY <1>0, <1>7, RequestAt DEF SweepExpired, SweepRemove, At, SearchSteps
  <2>2. proc'[p].pc = "next" /\ proc'[p].id = 0
    BY <1>0, <1>7, <2>1 DEF SweepExpired, SweepRemove, ReserveRequest, ReserveOK, SearchSteps, At
  <2> QED BY <1>2, <2>2 DEF SearchSteps
<1>8. ASSUME SweepRelease(p) PROVE ReserveStepOf(p)
  <2>1. Reserving(p)   BY <1>0, <1>8, RequestAt DEF SweepRelease, At, SearchSteps, Reserving
  <2>2. ASSUME NEW i, proc' = [proc EXCEPT ![p].pc = "rem", ![p].id = i] PROVE proc'[p].pc = "rem"
    BY <1>0, <2>1, <2>2 DEF Reserving, ReserveRequest
  <2> QED BY <1>2, <1>5, <1>8, <2>1, <2>2 DEF SweepRelease
<1>9. ASSUME Reserving(p), NEW i,
             i = idem[proc[p].key] \/ (Makes(p) /\ i = issued'),
             proc' = [proc EXCEPT ![p].pc = "save", ![p].id = i]
      PROVE  ReserveStepOf(p)
  <2>1. proc'[p].pc = "save" /\ proc'[p].id = i /\ proc'[p].key = proc[p].key
    BY <1>0, <1>9 DEF Reserving, ReserveRequest
  <2>2. ~At(p, "lookup")' /\ ~Releasing(p)'   BY <2>1 DEF At, Releasing, ReleaseSteps
  <2> QED BY <1>9, <2>1, <2>2 DEF ReserveStepOf
<1>10. ASSUME CheckIdem(p) PROVE ReserveStepOf(p)
  <2>1. Reserving(p) /\ proc[p].id = 0
    BY <1>0, <1>10, RequestAt DEF CheckIdem, At, SearchSteps, Reserving, ReserveOK
  <2>2. CASE Goto(p, "make")   BY <1>2, <1>4, <2>1, <2>2 DEF SearchSteps
  <2> QED BY <1>0, <1>9, <1>10, <2>1, <2>2 DEF CheckIdem
<1>11. ASSUME MakeReservation(p) PROVE ReserveStepOf(p)
  <2>1. Reserving(p)   BY <1>0, <1>11, RequestAt DEF MakeReservation, At, SearchSteps, Reserving
  <2>2. CASE Return(p)   BY <1>5, <2>1, <2>2
  <2>3. CASE ~Return(p)
    <3>1. Makes(p)   BY <1>11, <2>3 DEF MakeReservation, Makes
    <3>2. proc' = [proc EXCEPT ![p].pc = "save", ![p].id = issued']   BY <3>1 DEF Makes
    <3> QED BY <1>9, <2>1, <3>1, <3>2
  <2> QED BY <2>2, <2>3
<1>12. ASSUME ReadMeta(p) \/ ReleaseAmount(p) \/ ForgetReleased(p), Reserving(p)
       PROVE  ReserveStepOf(p)
  <2>1. Releasing(p) /\ proc[p].id # 0 /\ ~At(p, "rem") /\ ~At(p, "lookup")
    <3>1. proc[p].pc \in ReleaseSteps
      BY <1>12 DEF ReadMeta, ReleaseAmount, ForgetReleased, At, ReleaseSteps
    <3>2. proc[p].pc \notin SearchSteps   BY <3>1 DEF ReleaseSteps, SearchSteps
    <3>3. proc[p].id \in 1 .. issued   BY <1>0, <1>12, <3>2, ReservingAt DEF Reserving
    <3> QED BY <3>1, <3>3 DEF Releasing, ReleaseSteps, At
  <2>2. ASSUME NEW label \in {"release", "forget"}, Goto(p, label) PROVE ReserveStepOf(p)
    <3>1. /\ proc'[p].pc = label /\ proc'[p].id = proc[p].id /\ proc'[p].key = proc[p].key
      BY <1>4, <1>12, <2>2
    <3>2. ~At(p, "lookup")'   BY <3>1 DEF At
    <3>3. Holding(p)   BY <1>12, <2>1 DEF Holding
    <3> QED BY <1>12, <2>1, <3>1, <3>2, <3>3 DEF ReserveStepOf
  <2> QED BY <1>5, <1>12, <2>2 DEF ReadMeta, ReleaseAmount, ForgetReleased
<1>13. ASSUME SaveReservation(p) PROVE ReserveStepOf(p)
  <2>1. Reserving(p) /\ proc[p].pc = "save" /\ proc[p].id # 0
    BY <1>0, <1>13, RequestAt, ReservingAt DEF SaveReservation, At, Reserving, SearchSteps
  <2>2. CASE Return(p)   BY <1>5, <2>1, <2>2
  <2>3. CASE Conflicts(proc[p].id, proc[p].key) /\ Goto(p, "lookup")
    <3>1. /\ proc'[p].pc = "lookup" /\ proc'[p].id = proc[p].id /\ proc'[p].key = proc[p].key
      BY <1>4, <2>1, <2>3
    <3>2. ~Releasing(p)'   BY <3>1 DEF Releasing, ReleaseSteps
    <3>3. Holding(p) /\ ~At(p, "lookup")   BY <2>1 DEF Holding, At
    <3> QED BY <2>1, <2>3, <3>1, <3>2, <3>3 DEF ReserveStepOf
  <2> QED BY <1>0, <1>13, <2>2, <2>3 DEF SaveReservation
<1>14. ASSUME LookupIdempotency(p) PROVE ReserveStepOf(p)
  <2>1. Reserving(p) /\ proc[p].pc = "lookup" /\ proc[p].id # 0
    BY <1>0, <1>14, RequestAt, ReservingAt DEF LookupIdempotency, At, Reserving, SearchSteps
  <2>2. CASE Return(p)   BY <1>5, <2>1, <2>2
  <2>3. CASE ~Answers(proc[p].id, proc[p].key) /\ Goto(p, "meta")
    <3>1. /\ proc'[p].pc = "meta" /\ proc'[p].id = proc[p].id /\ proc'[p].key = proc[p].key
      BY <1>4, <2>1, <2>3
    <3>2. ~At(p, "lookup")'   BY <3>1 DEF At
    <3>3. Holding(p) /\ At(p, "lookup")   BY <2>1 DEF Holding, At
    <3> QED BY <2>1, <2>3, <3>1, <3>2, <3>3 DEF ReserveStepOf
  <2> QED BY <1>0, <1>14, <2>2, <2>3 DEF LookupIdempotency
<1>15. ASSUME NEW o \in Ops, StartSubmitted(p, o) \/ StartFinalized(p, o) PROVE ReserveStepOf(p)
  <2>1. proc'[p].op \in {"submitted", "finalized"}
    BY <1>0, <1>15 DEF StartSubmitted, StartFinalized
  <2> QED BY <1>2, <2>1 DEF Reserving, ReserveRequest
<1>16. ASSUME ~Reserving(p), Handle(p) PROVE ReserveStepOf(p)
  <2>1. CASE ServiceStep(p)
    <3>1. PICK r \in Request : Follows(p, r)   BY <2>1, ServiceProc
    <3>2. r = Idle \/ r \in FinalizedRequest   BY <1>16, <3>1 DEF Follows, Reserving
    <3> QED BY <1>0, <1>3, <3>1, <3>2 DEF Follows
  <2>2. CASE SaveReservation(p) \/ LookupIdempotency(p)   BY <1>13, <1>14, <2>2
  <2>3. CASE \/ UpdateSubmitted(p) \/ BindDigest(p) \/ SaveUserOp(p)
             \/ FinalizeUserOp(p) \/ UpdateSettled(p)
    <3>1. proc[p] \in SubmittedRequest \cup FinalizedRequest
      BY <1>0, <2>3, RequestAt
      DEF At, UpdateSubmitted, BindDigest, SaveUserOp, FinalizeUserOp, UpdateSettled
    <3>3. proc'[p] = Idle \/ proc'[p].op \in {"submitted", "finalized"}
      <4>1. ASSUME FinalizeUserOp(p) PROVE <3>3
        <5>1. proc[p] \in FinalizedRequest   BY <1>0, <4>1, RequestAt DEF FinalizeUserOp, At
        <5> QED BY <1>0, <4>1, <5>1 DEF Return, FinalizeUserOp, FinalizedRequest
      <4>2. ASSUME NEW label, Goto(p, label) PROVE <3>3
        BY <1>0, <3>1, <4>2 DEF Goto, SubmittedRequest, FinalizedRequest
      <4>3. ASSUME Return(p) PROVE <3>3   BY <1>0, <4>3 DEF Return
      <4> QED
        BY <2>3, <4>1, <4>2, <4>3 DEF UpdateSubmitted, BindDigest, SaveUserOp, UpdateSettled
    <3> QED BY <1>2, <3>3 DEF Reserving, ReserveRequest, Idle
  <2> QED BY <1>16, <2>1, <2>2, <2>3 DEF Handle
<1>17. ASSUME Reserving(p), Handle(p)
       PROVE  \/ SweepExpired(p) \/ SweepRelease(p) \/ SweepRemove(p) \/ CheckIdem(p)
              \/ MakeReservation(p) \/ ReadMeta(p) \/ ReleaseAmount(p) \/ ForgetReleased(p)
              \/ SaveReservation(p) \/ LookupIdempotency(p)
  BY <1>17
  DEF Handle, ServiceStep, Reserving, ReserveRequest, SearchSteps, ReleaseSteps, At,
      CommitReservation, UpdateSubmitted, BindDigest, SaveUserOp, FinalizeUserOp, UpdateSettled
<1> QED
  BY <1>0, <1>1, <1>6, <1>7, <1>8, <1>10, <1>11, <1>12, <1>13, <1>14, <1>15, <1>16, <1>17, WhoActs
  DEF Acts, Stop

LEMMA InitStore == Init => StoreInv
<1> SUFFICES ASSUME Init PROVE StoreInv   OBVIOUS
<1>1. OwnedBy([i \in 1 .. issued |-> CHOOSE k \in Keys : TRUE])
  BY DEF Init, OwnedBy, Holding, Reserving, Idle, ReserveRequest
<1>2. CountedUnless([i \in 1 .. issued |-> CHOOSE k \in Keys : TRUE])
  BY DEF Init, CountedUnless
<1>3. [i \in 1 .. issued |-> CHOOSE k \in Keys : TRUE] \in [1 .. issued -> Keys]
  BY DEF Init
<1> QED BY <1>1, <1>2, <1>3 DEF Init, StoreInv, TakenOff, Releasing, ReleaseSteps, At, Idle

\* A request at its insert or after has its own reservation in hand.
LEMMA SavingHolds ==
    ASSUME ProcOK, NEW p \in Procs, At(p, "save") \/ At(p, "lookup") \/ (Reserving(p) /\ Releasing(p))
    PROVE  /\ Holding(p) /\ Reserving(p) /\ ReserveOK(proc[p]) /\ proc[p].id \in 0 .. issued
           /\ proc[p].key \in Keys
<1>1. proc[p] \in ReserveRequest /\ ReserveOK(proc[p]) /\ proc[p].pc \notin SearchSteps /\ ~At(p, "rem")
  <2>1. CASE At(p, "save") \/ At(p, "lookup")   BY <2>1, RequestAt DEF At, SearchSteps
  <2>2. CASE Reserving(p) /\ Releasing(p)
    BY <2>2 DEF ProcOK, RequestOK, Reserving, Releasing, Idle, At, ReserveRequest, SubmittedRequest,
       FinalizedRequest, SearchSteps, ReleaseSteps
  <2> QED BY <2>1, <2>2
<1> QED BY <1>1 DEF Holding, Reserving, ReserveOK, ReserveRequest

\* A request whose row lost against another one stays in that state.
LEMMA RejectedKept ==
    ASSUME SettleInv, StoreInv, RowsKept, NEW i \in Ids, NEW k \in Keys, Rejected(i, k),
           NEW owner, OwnedBy(owner), owner[i] = k
    PROVE  Rejected(i, k)'
<1>0. ProcOK   BY DEF SettleInv
<1>1. PICK j \in Ids : rows[j] # NoRow /\ rows[j].key = k   BY DEF Rejected
<1>2. rows'[j] # NoRow /\ rows'[j].key = k   BY <1>1 DEF RowsKept
<1>3. rows'[i] = NoRow
  <2> SUFFICES ASSUME rows'[i] # NoRow PROVE FALSE   OBVIOUS
  <2>1. PICK p \in Procs : At(p, "save") /\ proc[p].id = i /\ ~Conflicts(i, proc[p].key)
    BY DEF RowsKept, Rejected
  <2>2. Holding(p)   BY <1>0, <2>1, SavingHolds
  <2>3. proc[p].key = k   BY <2>1, <2>2 DEF OwnedBy
  <2> QED BY <1>1, <2>1, <2>3 DEF Conflicts
<1> QED BY <1>1, <1>2, <1>3 DEF Rejected

LEMMA OwnerStep ==
    ASSUME SettleInv, StoreInv, MaxFailures = 0, [Next]_vars
    PROVE  \E owner \in [1 .. issued' -> Keys] : OwnedBy(owner)' /\ CountedUnless(owner)'
<1>0. /\ ProcOK /\ RedisOK /\ RowsOK /\ AgentOK /\ PaymentsKept /\ RowsKept /\ CountedStep
      /\ issued \in 0 .. MaxIds /\ issued \in Nat /\ expired \subseteq expired'
      /\ \A p \in Procs : ReserveStepOf(p)
  BY PaymentsStep, RowsKeptStep, CountedSteps, ReserveSteps DEF SettleInv, RedisOK, PaymentsKept
<1>1. PICK owner \in [1 .. issued -> Keys] : OwnedBy(owner) /\ CountedUnless(owner)
  BY DEF StoreInv
<1>2. \/ /\ issued' = issued /\ \A k \in Keys : idem'[k] \in {0, idem[k]}
         /\ \A p \in Procs : ~Makes(p)
      \/ \E p \in Procs : Makes(p)
  <2>1. ASSUME NEW i \in Ids, Expires(i) PROVE issued' = issued /\ \A k \in Keys : idem'[k] \in {0, idem[k]}
    BY <1>0, <2>1 DEF Expires, RedisOK
  <2> QED
    BY <2>1, RedisChange DEF RedisStep, redisVars, TakesOff, Forgets, MetaGoes
<1>4. ASSUME NEW i \in (1 .. issued) \ expired'
      PROVE  i \in counted' \/ Rejected(i, owner[i])' \/ Reverted(i)'
  <2>0. i \in Ids /\ i # 0 /\ i \notin expired /\ owner[i] \in Keys
    BY <1>0, <1>1 DEF Ids
  <2>1. CASE Rejected(i, owner[i])   BY <1>0, <1>1, <2>0, <2>1, RejectedKept
  <2>2. CASE Reverted(i)   BY <1>0, <2>2 DEF Reverted, PaymentsKept
  <2>3. ASSUME NEW p \in Procs, MayTake(p, i) PROVE Rejected(i, owner[i]) \/ Reverted(i)
    <3>1. ~(At(p, "next") /\ Reserving(p) /\ i \in proc[p].due)
      BY <1>0, <2>0, RequestAt DEF At, SearchSteps, ReserveOK
    <3>2. At(p, "release") /\ proc[p].id = i /\ Releasing(p)
      BY <2>3, <3>1 DEF MayTake, At, Releasing, ReleaseSteps
    <3>3. CASE Reserving(p)
      <4>1. Rejected(i, proc[p].key)   BY <3>2, <3>3 DEF StoreInv
      <4>2. Holding(p)   BY <1>0, <3>2, <3>3, SavingHolds
      <4> QED BY <1>1, <3>2, <4>1, <4>2 DEF OwnedBy
    <3>4. CASE ~Reserving(p)
      <4>1. proc[p] \in FinalizedRequest /\ FinalizedOK(proc[p])
        BY <1>0, <3>2, <3>4, RequestAt DEF Reserving, Releasing
      <4>2. ~proc[p].executed /\ proc[p].pc # "finalize" /\ proc[p].userop \in Ops
        BY <3>2, <4>1 DEF FinalizedOK, Releasing, ReleaseSteps, FinalizedRequest
      <4> QED BY <3>2, <4>1, <4>2 DEF FinalizedOK, Reverted
    <3> QED BY <3>3, <3>4
  <2> QED BY <1>0, <1>1, <2>0, <2>1, <2>2, <2>3 DEF CountedUnless, CountedStep
<1>5. CASE /\ issued' = issued /\ \A k \in Keys : idem'[k] \in {0, idem[k]}
           /\ \A p \in Procs : ~Makes(p)
  <2>1. CountedUnless(owner)'   BY <1>4, <1>5 DEF CountedUnless
  <2>2. ASSUME NEW p \in Procs, Holding(p)'
        PROVE  owner[proc'[p].id] = proc'[p].key
    <3>1. /\ Reserving(p) /\ proc'[p].key = proc[p].key /\ proc'[p].id # 0
          /\ \/ Holding(p) /\ proc'[p].id = proc[p].id
             \/ proc'[p].id = idem[proc[p].key]
      BY <1>0, <1>5, <2>2 DEF ReserveStepOf, Holding
    <3>2. proc[p].key \in Keys   BY <3>1 DEF Reserving, ReserveRequest
    <3> QED BY <1>1, <3>1, <3>2 DEF OwnedBy
  <2>3. ASSUME NEW i \in Ids, rows'[i] # NoRow PROVE i \in 1 .. issued' /\ owner[i] = rows'[i].key
    <3>1. CASE rows[i] # NoRow   BY <1>0, <1>1, <1>5, <3>1 DEF OwnedBy, RowsKept
    <3>2. CASE rows[i] = NoRow
      <4>1. PICK p \in Procs : At(p, "save") /\ proc[p].id = i /\ rows'[i].key = proc[p].key
        BY <1>0, <2>3, <3>2 DEF RowsKept
      <4>2. Holding(p) /\ proc[p].id \in 0 .. issued   BY <1>0, <4>1, SavingHolds
      <4>3. proc[p].id # 0   BY <4>2 DEF Holding
      <4> QED BY <1>1, <1>0, <1>5, <4>1, <4>2, <4>3 DEF OwnedBy
    <3> QED BY <3>1, <3>2
  <2>4. OwnedBy(owner)'   BY <1>1, <1>5, <2>2, <2>3 DEF OwnedBy
  <2> QED BY <1>1, <1>5, <2>1, <2>4
<1>6. ASSUME NEW p \in Procs, Makes(p)
      PROVE  \E new \in [1 .. issued' -> Keys] : OwnedBy(new)' /\ CountedUnless(new)'
  <2>0. PICK k : k = proc[p].key   OBVIOUS
  <2>m. /\ issued' = issued + 1 /\ idem' = [idem EXCEPT ![k] = issued'] /\ issued' \in counted'
        /\ At(p, "make")
    BY <1>6, <2>0 DEF Makes
  <2>1. Reserving(p) /\ k \in Keys
    BY <1>0, <2>m, <2>0, RequestAt DEF Reserving, At, ReserveRequest, SearchSteps
  <2>2. PICK n : n = issued + 1   OBVIOUS
  <2>3. PICK new : new = [i \in 1 .. n |-> IF i = n THEN k ELSE owner[i]]   OBVIOUS
  <2>4. /\ new \in [1 .. n -> Keys] /\ new[n] = k /\ n \notin 1 .. issued
        /\ \A i \in 1 .. issued : new[i] = owner[i]
    BY <1>0, <1>1, <2>1, <2>2, <2>3
  <2>5. CountedUnless(new)'
    <3>1. ASSUME NEW i \in (1 .. issued') \ expired'
          PROVE  i \in counted' \/ Rejected(i, new[i])' \/ Reverted(i)'
      <4>1. i = n \/ i \in 1 .. issued   BY <1>0, <2>m, <2>2
      <4> QED BY <1>4, <2>m, <2>2, <2>4, <4>1
    <3> QED BY <3>1 DEF CountedUnless
  <2>6. ASSUME NEW x \in Keys, idem'[x] # 0 PROVE new[idem'[x]] = x
    <3>1. CASE x = k   BY <1>0, <2>m, <2>1, <2>2, <2>4, <3>1 DEF RedisOK
    <3>2. CASE x # k
      <4>1. idem'[x] = idem[x] /\ idem[x] \in 1 .. issued
        BY <1>0, <2>m, <2>6, <3>2 DEF RedisOK
      <4> QED BY <1>1, <2>4, <4>1 DEF OwnedBy
    <3> QED BY <3>1, <3>2
  <2>7. ASSUME NEW q \in Procs, Holding(q)'
        PROVE  new[proc'[q].id] = proc'[q].key
    <3>1. Reserving(q) /\ proc'[q].key = proc[q].key /\ proc[q].key \in Keys /\ proc'[q].id # 0
      BY <1>0, <2>7 DEF ReserveStepOf, Holding, Reserving, ReserveRequest
    <3>2. proc[q].id \in 0 .. issued /\ idem[proc[q].key] \in 0 .. issued
      <4>1. ReserveOK(proc[q])
        <5>1. RequestOK(proc[q])   BY <1>0 DEF ProcOK
        <5> QED
          BY <3>1, <5>1 DEF Reserving, RequestOK, Idle, ReserveRequest, SubmittedRequest,
             FinalizedRequest
      <4> QED BY <1>0, <3>1, <4>1 DEF ReserveOK, RedisOK
    <3>3. CASE \/ Holding(q) /\ proc'[q].id = proc[q].id
               \/ proc'[q].id = idem[proc[q].key]
      BY <1>0, <1>1, <2>4, <3>1, <3>2, <3>3 DEF OwnedBy
    <3>4. CASE Makes(q) /\ proc'[q].id = issued'
      <4>1. q = p
        <5>1. q # p => proc'[q] = proc[q]   BY <1>0, <1>6 DEF Makes, ProcOK
        <5>2. proc'[q] # proc[q]   BY <1>0, <2>m, <3>2, <3>4
        <5> QED BY <5>1, <5>2
      <4> QED BY <2>0, <2>m, <2>2, <2>4, <3>1, <3>4, <4>1
    <3> QED BY <1>0, <2>7, <3>3, <3>4 DEF ReserveStepOf
  <2>8. ASSUME NEW i \in Ids, rows'[i] # NoRow PROVE i \in 1 .. issued' /\ new[i] = rows'[i].key
    <3>2. CASE rows[i] # NoRow
      BY <1>0, <1>1, <2>m, <2>4, <3>2 DEF OwnedBy, RowsKept
    <3>3. CASE rows[i] = NoRow
      <4>1. PICK q \in Procs : At(q, "save") /\ proc[q].id = i /\ rows'[i].key = proc[q].key
        BY <1>0, <2>8, <3>3 DEF RowsKept
      <4>2. Holding(q) /\ proc[q].id \in 0 .. issued   BY <1>0, <4>1, SavingHolds
      <4>3. proc[q].id # 0   BY <4>2 DEF Holding
      <4> QED BY <1>0, <1>1, <2>m, <2>4, <4>1, <4>2, <4>3 DEF OwnedBy
    <3> QED BY <3>2, <3>3
  <2> QED BY <2>m, <2>2, <2>4, <2>5, <2>6, <2>7, <2>8 DEF OwnedBy
<1> QED BY <1>2, <1>5, <1>6

LEMMA StoreStep ==
    ASSUME SettleInv, StoreInv, MaxFailures = 0, [Next]_vars
    PROVE  StoreInv'
<1>0. /\ ProcOK /\ ProcOK' /\ RedisOK /\ RedisOK' /\ RowsOK /\ AgentOK /\ AgentOK'
      /\ PaymentsKept /\ RowsKept /\ CountedStep
      /\ issued \in 0 .. MaxIds /\ issued \in Nat /\ issued' \in Nat
      /\ \A p \in Procs : ReserveStepOf(p)
  BY PaymentsStep, RowsKeptStep, CountedSteps, ReserveSteps, ProcStep, RedisTypes, AgentStep
  DEF SettleInv, RedisOK
<1>1. PICK owner \in [1 .. issued -> Keys] : OwnedBy(owner) /\ CountedUnless(owner)
  BY DEF StoreInv
<1>2. TakenOff'   BY TakenOffStep DEF StoreInv
<1>3. \A i \in granted' : rows'[i] # NoRow
  <2>1. ASSUME NEW p \in Procs, SaveReservation(p) PROVE <1>3
    <3>1. proc[p].id \in Ids
      BY <1>0, <2>1, RequestAt, ReservingAt DEF SaveReservation, At, SearchSteps
    <3>2. CASE rows' = [rows EXCEPT ![proc[p].id] = NewRow(proc[p].key)]
               /\ granted' = granted \cup {proc[p].id}
      <4>1. rows'[proc[p].id] # NoRow
        BY <1>0, <3>1, <3>2 DEF RowsOK, NewRow, NoRow, Reserved
      <4> QED BY <1>0, <3>2, <4>1 DEF StoreInv, RowsKept, AgentOK, Ids
    <3> QED BY <1>0, <2>1, <3>2 DEF SaveReservation, StoreInv, RowsKept, AgentOK, Ids
  <2>2. ASSUME NEW p \in Procs, LookupIdempotency(p) PROVE <1>3
    BY <2>2 DEF LookupIdempotency, Answers, StoreInv
  <2>3. ASSUME UNCHANGED granted PROVE <1>3
    BY <1>0, <2>3 DEF StoreInv, RowsKept, AgentOK, Ids
  <2>4. CASE BudgetStep   BY <2>3, <2>4, BudgetFrame
  <2> QED
    BY <2>1, <2>2, <2>3, <2>4
    DEF Next, vars, Handle, BudgetStep, Stop, StartReserve, StartSubmitted, StartFinalized,
        UpdateSubmitted, SubmitOp, IncludeOp, BindDigest, SaveUserOp, FinalizeUserOp,
        UpdateSettled, IngestExecution, MarkStale, agentVars
<1>4. ASSUME NEW i \in counted' \ members' PROVE rows'[i] # NoRow
  <2>1. CASE i \in counted \ members
    BY <1>0, <2>1 DEF StoreInv, RowsKept, RedisOK, Ids
  <2>2. ASSUME NEW p \in Procs, At(p, "commit"), proc[p].id = i PROVE rows'[i] # NoRow
    <3>1. proc[p].userop \in Ops /\ fate[proc[p].userop] # "unsent" /\ i = uses[proc[p].userop]
      BY <1>0, <2>2, RequestAt DEF At, FinalizedRequest, FinalizedOK
    <3>2. i \in granted /\ i \in Ids   BY <1>0, <3>1, UsedId
    <3> QED BY <1>0, <3>2 DEF StoreInv, RowsKept
  <2>3. i \in counted
    <3> SUFFICES ASSUME i \notin counted PROVE FALSE   OBVIOUS
    <3>1. ASSUME NEW p \in Procs, Makes(p) PROVE FALSE
      BY <1>4, <3>1 DEF Makes
    <3>2. counted' \subseteq counted
      BY <3>1, RedisChange
      DEF RedisStep, redisVars, budgetVars, TakesOff, Subtract, Forgets, Expires, MetaGoes
    <3> QED BY <1>4, <3>2
  <2>4. ASSUME NEW p \in Procs, proc[p].pc \in {"rem", "forget"}, proc[p].id = i PROVE FALSE
    BY <2>3, <2>4 DEF StoreInv, TakenOff
  <2> QED BY <1>0, <2>1, <2>2, <2>4 DEF CountedStep, At
<1>5. ASSUME NEW p \in Procs, At(p, "lookup")' PROVE Conflicts(proc[p].id, proc[p].key)'
  <2>1. PICK i, k : i = proc[p].id /\ k = proc[p].key   OBVIOUS
  <2>2. Conflicts(i, k) /\ proc'[p].id = i /\ proc'[p].key = k
    BY <1>0, <1>5, <2>1 DEF ReserveStepOf, StoreInv
  <2>3. Conflicts(i, k)'   BY <1>0, <2>2 DEF Conflicts, RowsKept
  <2> QED BY <2>2, <2>3 DEF Conflicts
<1>6. ASSUME NEW p \in Procs, (Reserving(p) /\ Releasing(p))'
      PROVE  Rejected(proc[p].id, proc[p].key)'
  <2>1. PICK i, k : i = proc[p].id /\ k = proc[p].key   OBVIOUS
  <2>2. /\ proc'[p].id = i /\ proc'[p].key = k
        /\ \/ Reserving(p) /\ Releasing(p)
           \/ At(p, "lookup") /\ ~Answers(i, k)
    BY <1>0, <1>6, <2>1 DEF ReserveStepOf
  <2>3. Holding(p) /\ i # 0 /\ i \in 0 .. issued /\ k \in Keys
    BY <1>0, <2>1, <2>2, SavingHolds DEF Holding
  <2>4. i \in Ids /\ owner[i] = k   BY <1>0, <1>1, <2>1, <2>3 DEF OwnedBy, Ids
  <2>5. Rejected(i, k)
    <3>1. CASE Reserving(p) /\ Releasing(p)   BY <2>1, <3>1 DEF StoreInv
    <3>2. CASE At(p, "lookup") /\ ~Answers(i, k)
      <4>1. Conflicts(i, k)   BY <2>1, <3>2 DEF StoreInv
      <4>2. rows[i] = NoRow   BY <1>1, <2>4, <3>2 DEF Answers, OwnedBy
      <4> QED BY <4>1, <4>2 DEF Conflicts, Rejected
    <3> QED BY <2>2, <3>1, <3>2
  <2>6. Rejected(i, k)'   BY <1>0, <1>1, <2>3, <2>4, <2>5, RejectedKept
  <2> QED BY <2>2, <2>6 DEF Rejected
<1>8. (\E own \in [1 .. issued -> Keys] : OwnedBy(own) /\ CountedUnless(own))'
  BY OwnerStep
<1> QED BY <1>2, <1>3, <1>4, <1>5, <1>6, <1>8 DEF StoreInv

\* A reverted report that is under way gives reservation i back.
GivingBack(p, i) == proc[p] \in FinalizedRequest /\ proc[p].id = i /\ ~proc[p].executed

\* A row whose amount is no longer counted is released, or about to be.
ReleasedRows ==
    \A i \in (1 .. issued) \ (counted \cup expired) :
        rows[i] # NoRow =>
            rows[i].status = Released \/ \E p \in Procs : GivingBack(p, i)

\* A report that gives a reservation back goes on until its row is released.
LEMMA ReleaseStep ==
    ASSUME SettleInv, MaxFailures = 0, [Next]_vars, NEW p \in Procs, NEW i \in Ids,
           GivingBack(p, i), rows[i] # NoRow
    PROVE  GivingBack(p, i)' \/ rows'[i].status = Released
<1>0. ProcOK /\ ProcOK' /\ RowsOK /\ AgentOK /\ issued \in 0 .. MaxIds /\ ~Fails
  BY NothingFails, ProcStep DEF SettleInv, RedisOK
<1>1. /\ proc[p] \in FinalizedRequest /\ proc[p].id = i /\ ~proc[p].executed /\ i # 0
      /\ FinalizedOK(proc[p])
  <2>1. proc[p] \in FinalizedRequest /\ proc[p].id = i /\ ~proc[p].executed   BY DEF GivingBack
  <2>2. RequestOK(proc[p])   BY <1>0 DEF ProcOK
  <2>3. FinalizedOK(proc[p])
    BY <2>1, <2>2 DEF RequestOK, Idle, ReserveRequest, SubmittedRequest, FinalizedRequest
  <2>4. i # 0   BY DEF Ids
  <2> QED BY <2>1, <2>3, <2>4
<1>2. proc[p].pc \in ReleaseSteps \cup {"status"}
  BY <1>1 DEF FinalizedOK, FinalizedRequest
<1>3. ASSUME UpdateSettled(p) PROVE rows'[i].status = Released
  BY <1>0, <1>1, <1>3 DEF UpdateSettled, UpdateReservationStatus, RowsOK, Row
<1>4. ASSUME NEW label, Goto(p, label) PROVE GivingBack(p, i)'
  <2>1. /\ proc'[p].op = "finalized" /\ proc'[p].id = i /\ proc'[p].executed = proc[p].executed
    BY <1>0, <1>1, <1>4 DEF Goto, ProcOK, FinalizedRequest
  <2>2. RequestOK(proc[p])'   BY <1>0 DEF ProcOK
  <2>3. proc'[p] # Idle
    <3>1. "op" \in DOMAIN proc'[p]   BY <1>0, <1>1, <1>4 DEF Goto, ProcOK, FinalizedRequest
    <3> QED BY <3>1 DEF Idle
  <2>4. proc'[p] \in FinalizedRequest
    BY <2>1, <2>2, <2>3 DEF RequestOK, ReserveRequest, SubmittedRequest
  <2> QED BY <1>1, <2>1, <2>4 DEF GivingBack
<1>5. ASSUME Done(p) PROVE GivingBack(p, i)'
  <2>1. Goto(p, "status")   BY <1>0, <1>1, <1>5 DEF Done, Goto, ProcOK, FinalizedRequest
  <2> QED BY <1>4, <2>1
<1>6. ASSUME proc'[p] = proc[p] PROVE GivingBack(p, i)'   BY <1>6 DEF GivingBack
<1>7. ASSUME Acts(p) PROVE ReadMeta(p) \/ ReleaseAmount(p) \/ ForgetReleased(p) \/ UpdateSettled(p)
  BY <1>0, <1>2, <1>7
  DEF Acts, Handle, ServiceStep, ReleaseSteps, At, Stop, StartReserve, StartSubmitted,
      StartFinalized, SweepExpired, SweepRelease, SweepRemove, CheckIdem, MakeReservation,
      CommitReservation, SaveReservation, LookupIdempotency, UpdateSubmitted, BindDigest,
      SaveUserOp, FinalizeUserOp
<1> QED
  BY <1>3, <1>4, <1>5, <1>6, <1>7, WhoActs DEF ReadMeta, ReleaseAmount, ForgetReleased

LEMMA ReleasedStep ==
    ASSUME SettleInv, OrderInv, StoreInv, ReleasedRows, Ordered, MaxFailures = 0, [Next]_vars
    PROVE  ReleasedRows'
<1> SUFFICES ASSUME NEW i \in (1 .. issued') \ (counted' \cup expired'), rows'[i] # NoRow
             PROVE  rows'[i].status = Released \/ \E p \in Procs : GivingBack(p, i)'
  BY DEF ReleasedRows
<1>0. /\ ProcOK /\ RedisOK /\ RowsOK /\ AgentOK /\ RowsKept /\ CountedStep
      /\ issued \in 0 .. MaxIds /\ issued \in Nat /\ issued' \in 0 .. MaxIds
      /\ expired \subseteq expired'
  BY RowsKeptStep, CountedSteps, RedisTypes, PaymentsStep DEF SettleInv, RedisOK, PaymentsKept
<1>1. PICK owner \in [1 .. issued -> Keys] : OwnedBy(owner) /\ CountedUnless(owner)
  BY DEF StoreInv
<1>2. i \in Ids /\ i \notin expired   BY <1>0 DEF Ids
\* Its row was there before.
<1>3. ASSUME i \notin counted PROVE i \in 1 .. issued /\ rows[i] # NoRow
  <2>1. i \in 1 .. issued
    <3>1. CASE rows[i] # NoRow   BY <1>1, <1>2, <3>1 DEF OwnedBy
    <3>2. CASE rows[i] = NoRow
      <4>1. PICK p \in Procs : At(p, "save") /\ proc[p].id = i   BY <1>0, <1>2, <3>2 DEF RowsKept
      <4>2. Holding(p) /\ proc[p].id \in 0 .. issued   BY <1>0, <4>1, SavingHolds
      <4> QED BY <1>0, <4>1, <4>2 DEF Holding
    <3> QED BY <3>1, <3>2
  <2>2. rows[i] # NoRow
    <3> SUFFICES ASSUME rows[i] = NoRow PROVE FALSE   OBVIOUS
    <3>1. PICK p \in Procs : At(p, "save") /\ proc[p].id = i /\ ~Conflicts(i, proc[p].key)
      BY <1>0, <1>2 DEF RowsKept
    <3>2. Holding(p)   BY <1>0, <3>1, SavingHolds
    <3>3. ~Rejected(i, owner[i])   BY <1>1, <3>1, <3>2 DEF OwnedBy, Rejected, Conflicts
    <3>4. ~Reverted(i)
      <4> SUFFICES ASSUME NEW o \in Ops, uses[o] = i, fate[o] = "reverted" PROVE FALSE
        BY DEF Reverted
      <4>1. i \in granted   BY <1>0, UsedId
      <4> QED BY <4>1 DEF StoreInv
    <3> QED BY <1>1, <1>2, <1>3, <2>1, <3>3, <3>4 DEF CountedUnless
  <2> QED BY <2>1, <2>2
<1>4. CASE i \in counted
  <2>1. PICK p \in Procs : MayTake(p, i)   BY <1>0, <1>4 DEF CountedStep
  <2>2. ~(At(p, "next") /\ Reserving(p) /\ i \in proc[p].due)
    BY <1>0, <1>2, RequestAt DEF At, SearchSteps, ReserveOK
  <2>3. At(p, "release") /\ proc[p].id = i /\ Releasing(p)
    BY <2>1, <2>2 DEF MayTake, At, Releasing, ReleaseSteps
  <2>4. ASSUME Reserving(p) PROVE FALSE
    <3>1. PICK k : k = proc[p].key   OBVIOUS
    <3>2. Holding(p) /\ k \in Keys   BY <1>0, <2>3, <2>4, <3>1, SavingHolds
    <3>3. Rejected(i, k) /\ owner[i] = k   BY <1>1, <2>3, <2>4, <3>1, <3>2 DEF StoreInv, OwnedBy
    <3>4. Rejected(i, k)'   BY <1>0, <1>1, <1>2, <3>2, <3>3, RejectedKept
    <3> QED BY <3>4 DEF Rejected
  <2>5. proc[p] \in FinalizedRequest /\ FinalizedOK(proc[p])
    BY <1>0, <2>3, <2>4, RequestAt DEF Reserving, Releasing
  <2>6. GivingBack(p, i)   BY <2>3, <2>5 DEF GivingBack, FinalizedOK, Releasing
  <2>7. rows[i] # NoRow
    <3>1. /\ proc[p].userop \in Ops /\ fate[proc[p].userop] # "unsent" /\ i = uses[proc[p].userop]
      BY <2>3, <2>5 DEF FinalizedOK, FinalizedRequest, At
    <3>2. i \in granted   BY <1>0, <3>1, UsedId
    <3> QED BY <3>2 DEF StoreInv
  <2> QED BY <1>2, <2>6, <2>7, ReleaseStep
<1>5. CASE i \notin counted
  <2>1. i \in 1 .. issued /\ rows[i] # NoRow   BY <1>3, <1>5
  <2>2. CASE rows[i].status = Released   BY <1>2, <2>2, TerminalKept
  <2>3. ASSUME NEW p \in Procs, GivingBack(p, i)
        PROVE  GivingBack(p, i)' \/ rows'[i].status = Released
    BY <1>2, <2>1, <2>3, ReleaseStep
  <2> QED BY <1>2, <1>5, <2>1, <2>2, <2>3 DEF ReleasedRows
<1> QED BY <1>4, <1>5

LEMMA StoresAgreeNow ==
    ASSUME SettleInv, Sums, StoreInv, ReleasedRows PROVE StoresAgree
<1>0. /\ aggregate \in Nat /\ overdrawn \in Nat /\ IsFiniteSet(counted)
      /\ Cardinality(counted) \in Nat /\ Cardinality(counted) <= aggregate + overdrawn
  BY CountedTypes DEF Sums
<1>1. Shown \subseteq counted
  <2> SUFFICES ASSUME NEW i \in Shown, i \notin counted PROVE FALSE   OBVIOUS
  <2>1. /\ i \in (1 .. issued) \ expired /\ rows[i].status \in {Reserved, Submitted, Committed}
        /\ \A p \in Procs : proc[p] # Idle /\ proc[p].op = "finalized" /\ proc[p].id = i
                               => proc[p].executed
    BY DEF Shown
  <2>2. rows[i] # NoRow /\ rows[i].status # Released
    BY <2>1 DEF NoRow, Reserved, Submitted, Committed, Released
  <2>3. PICK p \in Procs : GivingBack(p, i)   BY <2>1, <2>2 DEF ReleasedRows
  <2>4. proc[p] # Idle /\ proc[p].op = "finalized"
    BY <2>3 DEF GivingBack, FinalizedRequest, Idle
  <2> QED BY <2>1, <2>3, <2>4 DEF GivingBack
<1>2. Cardinality(Shown) <= Cardinality(counted) /\ Cardinality(Shown) \in Nat
  BY <1>0, <1>1, FS_Subset, FS_CardinalityType
<1>3. Cardinality(Shown) <= aggregate + overdrawn   BY <1>0, <1>2
<1>4. \A i \in counted : rows[i] # NoRow \/ i \in members   BY DEF StoreInv
<1> QED BY <1>1, <1>3, <1>4 DEF StoresAgree, Sums, StoreInv

\* The insert into Postgres, the lookup by idempotency key and the compensation
\* of reserveBudget keep the two stores together, for every number of requests
\* that race for a key, sweep the same members or find the lock taken, and of
\* payments, provided that no statement fails and that agents report once and
\* in order.  The aggregate is short of the reservations in Postgres only by
\* what racing sweeps and compensations took off once more, and holds only
\* what has a row or is still in the expiry index.  (Out of order, a submitted
\* report that arrives after the release sets the row back; a failed statement
\* leaves a granted row without its amount, see the run retry.)
THEOREM StoresStayTogether ==
    ASSUME Ordered, MaxFailures = 0 PROVE Spec => []StoresAgree
<1>1. Init => ReleasedRows   BY DEF Init, ReleasedRows, Ids
<1>2. Init => Sums   BY FS_EmptySet DEF Init, Sums
<1> QED
  BY <1>1, <1>2, InitSettle, SettleStep, InitOrder, OrderStep, InitStore, StoreStep, ReleasedStep,
     SumsStep, StoresAgreeNow, PTL
  DEF Spec

-----------------------------------------------------------------------------
(* What was spent stays counted, while payments keep within the TTL.  The  *)
(* reservation of a payment that is pending or executed is counted, by the *)
(* time its TTL elapses the report has taken it out of the expiry index,   *)
(* and so no sweep has it on its list.                                     *)

Paying(o) == fate[o] \in {"pending", "executed"}

PaymentsCounted ==
    \A o \in Ops : Paying(o) =>
        /\ uses[o] \in counted
        /\ uses[o] \in expired => fate[o] = "executed" /\ uses[o] \notin members

DueUnpaid ==
    \A p \in Procs : Reserving(p) =>
        \A o \in Ops : Paying(o) => uses[o] \notin proc[p].due

SettledIsOut ==
    /\ \A p \in Procs : At(p, "status") /\ proc[p].executed => proc[p].id \notin members
    /\ \A o \in Ops : reported[o] = "finalized" =>
          /\ fate[o] \in {"executed", "reverted"}
          /\ fate[o] = "executed" => uses[o] \notin members

SpendInv == PaymentsCounted /\ DueUnpaid /\ SettledIsOut

\* The TTL of a payment's reservation elapses after its last report.
LEMMA ExpiryStep ==
    ASSUME ~Slow, [Next]_vars
    PROVE  \/ UNCHANGED expired
           \/ /\ UNCHANGED <<uses, fate, members, reported>>
              /\ \E i \in Ids : /\ expired' = expired \cup {i}
                                /\ \A o \in Ops : uses[o] = i => reported[o] = "finalized"
<1>1. ASSUME NEW i \in Ids, Expire(i)
      PROVE  /\ UNCHANGED <<uses, fate, members, reported>>
             /\ expired' = expired \cup {i}
             /\ \A o \in Ops : uses[o] = i => reported[o] = "finalized"
  BY <1>1 DEF Expire, agentVars
<1>2. ASSUME NEW p \in Procs, ServiceStep(p) PROVE UNCHANGED expired
  BY <1>2
  DEF ServiceStep, SweepExpired, SweepRelease, SweepRemove, CheckIdem, MakeReservation, ReadMeta,
      ReleaseAmount, ForgetReleased, CommitReservation
<1>3. ASSUME NEW i \in Ids, ExpireMeta(i) PROVE UNCHANGED expired   BY <1>3 DEF ExpireMeta
<1> QED BY <1>1, <1>2, <1>3, OtherFrame DEF BudgetStep

\* How a payment gets under way.
LEMMA PayingStep ==
    ASSUME SettleInv, ~Slow, [Next]_vars, NEW o \in Ops, Paying(o)'
    PROVE  \/ Paying(o) /\ uses'[o] = uses[o] /\ (fate[o] = "executed" => fate'[o] = "executed")
           \/ /\ uses'[o] \in granted \ expired /\ \A other \in Ops : uses[other] # uses'[o]
              /\ UNCHANGED <<counted, members, expired, proc>>
<1>0. AgentOK   BY DEF SettleInv
<1>1. ASSUME NEW i \in Ids, SubmitOp(o, i)
      PROVE  /\ uses'[o] \in granted \ expired /\ \A other \in Ops : uses[other] # uses'[o]
             /\ UNCHANGED <<counted, members, expired, proc>>
  BY <1>0, <1>1 DEF SubmitOp, AgentOK, redisVars, budgetVars
<1>2. ASSUME NEW other \in Ops, NEW i \in Ids, SubmitOp(other, i), other # o
      PROVE  uses'[o] = uses[o] /\ fate'[o] = fate[o]
  BY <1>0, <1>2 DEF SubmitOp, AgentOK
<1>3. ASSUME NEW other \in Ops, IncludeOp(other)
      PROVE  Paying(o) /\ uses'[o] = uses[o] /\ (fate[o] = "executed" => fate'[o] = "executed")
  BY <1>0, <1>3 DEF IncludeOp, AgentOK, Paying
<1>4. ASSUME UNCHANGED <<uses, fate>>
      PROVE  uses'[o] = uses[o] /\ fate'[o] = fate[o]
  BY <1>4
<1>5. \/ UNCHANGED <<uses, fate>>
      \/ \E other \in Ops : IncludeOp(other) \/ \E i \in Ids : SubmitOp(other, i)
  <2>1. CASE BudgetStep   BY <2>1, BudgetFrame
  <2> QED
    BY <2>1
    DEF Next, vars, Handle, BudgetStep, Stop, StartReserve, StartSubmitted, StartFinalized,
        SaveReservation, LookupIdempotency, UpdateSubmitted, BindDigest, SaveUserOp,
        FinalizeUserOp, UpdateSettled, IngestExecution, MarkStale, agentVars
<1>6. CASE uses'[o] = uses[o] /\ fate'[o] = fate[o]   BY <1>6 DEF Paying
<1> QED BY <1>1, <1>2, <1>3, <1>4, <1>5, <1>6

\* A sweep reads its list once, and then only shortens it.
LEMMA DueStep ==
    ASSUME SettleInv, [Next]_vars, NEW p \in Procs, Reserving(p)'
    PROVE  proc'[p].due \subseteq Due \/ (Reserving(p) /\ proc'[p].due \subseteq proc[p].due)
<1> DEFINE Goal == proc'[p].due \subseteq Due \/ (Reserving(p) /\ proc'[p].due \subseteq proc[p].due)
<1>0. ProcOK /\ proc \in [Procs -> Request]   BY DEF SettleInv, ProcOK
<1>i. ~Return(p)   BY <1>0 DEF Return, Reserving, ReserveRequest, Idle
<1>1. CASE proc'[p] = proc[p]   BY <1>1 DEF Reserving
<1>2. ASSUME NEW k \in Keys, StartReserve(p, k) PROVE Goal
  BY <1>0, <1>2 DEF StartReserve
<1>3. ASSUME NEW o \in Ops, StartSubmitted(p, o) \/ StartFinalized(p, o) PROVE FALSE
  BY <1>0, <1>3 DEF StartSubmitted, StartFinalized, Reserving, ReserveRequest
<1>4. ASSUME NEW label, Goto(p, label), Reserving(p) PROVE Goal
  BY <1>0, <1>4 DEF Goto, Reserving, ReserveRequest
<1>5. ASSUME NEW i, NEW label, Reserving(p), proc' = [proc EXCEPT ![p].pc = label, ![p].id = i]
      PROVE  Goal
  BY <1>0, <1>5 DEF Reserving, ReserveRequest
<1>6. CASE SweepExpired(p)
  <2>1. Reserving(p)   BY <1>0, <1>6, RequestAt DEF SweepExpired, At, SearchSteps, Reserving
  <2> QED BY <1>0, <1>6, <2>1 DEF SweepExpired, Reserving, ReserveRequest
<1>7. CASE SweepRemove(p)
  <2>1. Reserving(p)   BY <1>0, <1>7, RequestAt DEF SweepRemove, At, Reserving
  <2>2. proc'[p].due = proc[p].due \ {proc[p].id}
    BY <1>0, <1>7, <2>1 DEF SweepRemove, Reserving, ReserveRequest
  <2> QED BY <2>1, <2>2
<1>8. CASE SweepRelease(p) \/ CheckIdem(p) \/ MakeReservation(p)
  <2>1. Reserving(p)
    BY <1>0, <1>8, RequestAt
    DEF SweepRelease, CheckIdem, MakeReservation, At, SearchSteps, Reserving
  <2> QED BY <1>i, <1>4, <1>5, <1>8, <2>1 DEF SweepRelease, CheckIdem, MakeReservation
<1>9. CASE SaveReservation(p) \/ LookupIdempotency(p)
  <2>1. Reserving(p)
    BY <1>0, <1>9, RequestAt DEF SaveReservation, LookupIdempotency, At, Reserving
  <2> QED BY <1>i, <1>4, <1>9, <2>1 DEF SaveReservation, LookupIdempotency
<1>10. CASE ReadMeta(p) \/ ReleaseAmount(p) \/ ForgetReleased(p) \/ CommitReservation(p)
  <2>0. ServiceStep(p)   BY <1>10 DEF ServiceStep
  <2>1. PICK r \in Request : Follows(p, r)   BY <2>0, ServiceProc
  <2>2. Reserving(p) /\ proc'[p] = r /\ r \in ReserveRequest
    BY <1>0, <2>1 DEF Follows, Reserving, ReserveRequest, FinalizedRequest, Idle
  <2>3. ~Done(p)   BY <1>0, <2>2 DEF Done, Reserving, ReserveRequest, Idle
  <2> QED
    BY <1>4, <1>10, <2>2, <2>3 DEF ReadMeta, ReleaseAmount, ForgetReleased, CommitReservation
<1>11. CASE UpdateSubmitted(p) \/ BindDigest(p) \/ SaveUserOp(p) \/ FinalizeUserOp(p)
            \/ UpdateSettled(p) \/ Stop(p)
  <2>1. CASE Stop(p)   BY <1>i, <2>1 DEF Stop
  <2>2. CASE ~Stop(p)
    <3>1. proc[p] \in SubmittedRequest \cup FinalizedRequest
      BY <1>0, <1>11, <2>2, RequestAt
      DEF At, UpdateSubmitted, BindDigest, SaveUserOp, FinalizeUserOp, UpdateSettled
    <3>2. ASSUME NEW label, Goto(p, label) PROVE FALSE
      BY <1>0, <3>1, <3>2
      DEF Goto, Reserving, SubmittedRequest, FinalizedRequest, ReserveRequest
    <3>3. ASSUME NEW i, NEW label, proc' = [proc EXCEPT ![p].pc = label, ![p].id = i] PROVE FALSE
      BY <1>0, <3>1, <3>3
      DEF Reserving, SubmittedRequest, FinalizedRequest, ReserveRequest
    <3> QED
      BY <1>i, <1>11, <2>2, <3>2, <3>3
      DEF UpdateSubmitted, BindDigest, SaveUserOp, FinalizeUserOp, UpdateSettled
  <2> QED BY <2>1, <2>2
<1> QED
  BY <1>1, <1>2, <1>3, <1>6, <1>7, <1>8, <1>9, <1>10, <1>11, WhoActs
  DEF Acts, Handle, ServiceStep

LEMMA DueUnpaidStep ==
    ASSUME SettleInv, SpendInv, ~Slow, [Next]_vars PROVE DueUnpaid'
<1> SUFFICES ASSUME NEW p \in Procs, Reserving(p)', NEW o \in Ops, Paying(o)'
             PROVE  uses'[o] \notin proc'[p].due
  BY DEF DueUnpaid
<1>0. ProcOK   BY DEF SettleInv
<1>1. ASSUME Reserving(p) PROVE proc[p].due \subseteq expired
  BY <1>0, <1>1
  DEF ProcOK, RequestOK, Reserving, ReserveOK, ReserveRequest, SubmittedRequest, FinalizedRequest, Idle
<1>2. CASE Paying(o) /\ uses'[o] = uses[o]
  <2>1. uses[o] \notin Due   BY <1>2 DEF SpendInv, PaymentsCounted, Due
  <2>2. Reserving(p) => uses[o] \notin proc[p].due   BY <1>2 DEF SpendInv, DueUnpaid
  <2> QED BY <1>2, <2>1, <2>2, DueStep
<1>3. CASE uses'[o] \notin expired
  <2>1. proc'[p].due \subseteq expired   BY <1>1, DueStep DEF Due
  <2> QED BY <1>3, <2>1
<1> QED BY <1>2, <1>3, PayingStep

LEMMA SettledStep ==
    ASSUME SettleInv, SettledIsOut, MaxFailures = 0, [Next]_vars
    PROVE  SettledIsOut'
<1>0. /\ ProcOK /\ AgentOK /\ RedisOK /\ PaymentsKept /\ ~Fails /\ CountedStep
      /\ issued \in 0 .. MaxIds /\ issued \in Nat
  BY NothingFails, PaymentsStep, CountedSteps DEF SettleInv, RedisOK
<1>m. members' \ members \subseteq {issued'} \ (1 .. issued)   BY <1>0 DEF CountedStep
<1>1. ASSUME NEW o \in Ops, reported[o] = "finalized"
      PROVE  /\ fate'[o] \in {"executed", "reverted"}
             /\ fate'[o] = "executed" => uses'[o] \notin members'
  <2>1. fate[o] # "unsent" /\ fate'[o] = fate[o] /\ uses'[o] = uses[o]
    BY <1>0, <1>1 DEF SettledIsOut, PaymentsKept
  <2>2. uses[o] \in 1 .. issued   BY <1>0, <2>1, UsedId
  <2> QED BY <1>m, <1>1, <2>1, <2>2 DEF SettledIsOut
<1>2. ASSUME NEW p \in Procs, At(p, "status")
      PROVE  /\ fate'[proc[p].userop] = IF proc[p].executed THEN "executed" ELSE "reverted"
             /\ uses'[proc[p].userop] = proc[p].id /\ proc[p].userop \in Ops
             /\ proc[p].executed => proc[p].id \notin members'
  <2>1. /\ proc[p].userop \in Ops /\ proc[p].id = uses[proc[p].userop]
        /\ fate[proc[p].userop] = IF proc[p].executed THEN "executed" ELSE "reverted"
    BY <1>0, <1>2, RequestAt DEF At, FinalizedRequest, FinalizedOK
  <2>2. proc[p].id \in 1 .. issued   BY <1>0, <2>1, UsedId
  <2>3. fate'[proc[p].userop] = fate[proc[p].userop] /\ uses'[proc[p].userop] = uses[proc[p].userop]
    BY <1>0, <2>1 DEF PaymentsKept
  <2> QED BY <1>m, <1>2, <2>1, <2>2, <2>3 DEF SettledIsOut
<1>3. ASSUME NEW o \in Ops, reported'[o] = "finalized"
      PROVE  reported[o] = "finalized" \/ \E p \in Procs : At(p, "status") /\ proc[p].userop = o
  <2>1. ASSUME NEW p \in Procs, UpdateSettled(p)
        PROVE  reported[o] = "finalized" \/ (At(p, "status") /\ proc[p].userop = o)
    <3>1. proc[p].userop \in Ops
      BY <1>0, <2>1, RequestAt DEF UpdateSettled, At, FinalizedRequest
    <3>2. reported' = [reported EXCEPT ![proc[p].userop] =
                          IF @ = "finalizing" THEN "finalized" ELSE @]
      BY <2>1 DEF UpdateSettled
    <3> QED BY <1>0, <1>3, <2>1, <3>1, <3>2 DEF UpdateSettled, AgentOK
  <2>2. ASSUME \/ UNCHANGED reported
               \/ \E p \in Procs, other \in Ops : StartSubmitted(p, other) \/ StartFinalized(p, other)
               \/ \E p \in Procs : SaveUserOp(p)
        PROVE  reported[o] = "finalized"
    <3>0. reported \in [Ops -> Reports]   BY <1>0 DEF AgentOK
    <3>1. CASE UNCHANGED reported   BY <1>3, <3>1
    <3>2. ASSUME NEW p, NEW other, StartSubmitted(p, other) \/ StartFinalized(p, other)
          PROVE  reported[o] = "finalized"
      BY <1>3, <3>0, <3>2 DEF StartSubmitted, StartFinalized
    <3>3. ASSUME NEW p, SaveUserOp(p) PROVE reported[o] = "finalized"
      BY <1>3, <3>0, <3>3 DEF SaveUserOp
    <3> QED BY <2>2, <3>1, <3>2, <3>3
  <2>3. CASE BudgetStep   BY <2>2, <2>3, BudgetFrame
  <2> QED
    BY <2>1, <2>2, <2>3
    DEF Next, vars, Handle, BudgetStep, Stop, StartReserve, SaveReservation, LookupIdempotency,
        UpdateSubmitted, BindDigest, FinalizeUserOp, IngestExecution, MarkStale, SubmitOp,
        IncludeOp
<1>4. ASSUME NEW p \in Procs, At(p, "status")', proc'[p].executed
      PROVE  proc'[p].id \notin members'
  <2>1. ASSUME CommitReservation(p) PROVE proc'[p].id \notin members'
    <3>1. proc[p] \in FinalizedRequest   BY <1>0, <2>1, RequestAt DEF CommitReservation, At
    <3>2. proc'[p] = [proc[p] EXCEPT !.pc = "status"]
      BY <1>0, <2>1, <3>1 DEF CommitReservation, Done, ProcOK, FinalizedRequest
    <3>3. proc'[p].id = proc[p].id   BY <3>1, <3>2 DEF FinalizedRequest
    <3> QED BY <1>0, <2>1, <3>3 DEF CommitReservation, Committing, Forget
  <2>2. ASSUME proc'[p] = proc[p] PROVE proc'[p].id \notin members'
    BY <1>2, <1>4, <2>2 DEF At
  <2>3. ASSUME ReadMeta(p) \/ ReleaseAmount(p) \/ ForgetReleased(p) PROVE FALSE
    <3>1. proc[p].pc \in ReleaseSteps
      BY <2>3 DEF ReadMeta, ReleaseAmount, ForgetReleased, At, ReleaseSteps
    <3>2. CASE proc[p] \in FinalizedRequest /\ FinalizedOK(proc[p])
      <4>0. ServiceStep(p)   BY <2>3 DEF ServiceStep
      <4>1. PICK r \in Request : Follows(p, r)   BY <4>0, ServiceProc
      <4>2. proc'[p] = r   BY <1>0, <4>1 DEF Follows, ProcOK
      <4>3. r.executed = proc[p].executed
        BY <1>4, <3>2, <4>1, <4>2 DEF Follows, At, Idle, FinalizedRequest, ReserveRequest
      <4> QED BY <1>4, <3>1, <3>2, <4>2, <4>3 DEF FinalizedOK
    <3>3. CASE proc[p] \in ReserveRequest
      <4>1. ASSUME Done(p) PROVE proc'[p].pc = "idle"
        BY <1>0, <3>3, <4>1 DEF Done, ReserveRequest, Idle, ProcOK
      <4>2. ASSUME NEW label, Goto(p, label) PROVE proc'[p].pc = label
        BY <1>0, <3>3, <4>2 DEF Goto, ReserveRequest, ProcOK
      <4> QED BY <1>4, <2>3, <4>1, <4>2 DEF ReadMeta, ReleaseAmount, ForgetReleased, At
    <3> QED BY <1>0, <3>1, <3>2, <3>3, RequestAt
  <2> QED BY <1>4, <2>1, <2>2, <2>3, WhoActs, PcAfter DEF At
<1> QED BY <1>1, <1>2, <1>3, <1>4 DEF SettledIsOut

\* No sweep, compensation or reverted report is about a payment's reservation.
LEMMA PaidNotTaken ==
    ASSUME SettleInv, OnePaymentEach, StoreInv, SpendInv, NEW o \in Ops, Paying(o), NEW p \in Procs
    PROVE  ~MayTake(p, uses[o])
<1> SUFFICES ASSUME MayTake(p, uses[o]) PROVE FALSE   OBVIOUS
<1>0. ProcOK /\ AgentOK /\ issued \in 0 .. MaxIds   BY DEF SettleInv, RedisOK
<1>1. uses[o] \in granted /\ uses[o] # 0   BY <1>0, UsedId DEF Paying
<1>2. CASE At(p, "next") /\ Reserving(p) /\ uses[o] \in proc[p].due
  BY <1>2 DEF SpendInv, DueUnpaid
<1>3. CASE At(p, "release") /\ proc[p].id = uses[o]
  <2>0. Releasing(p)   BY <1>3 DEF Releasing, At, ReleaseSteps
  <2>1. CASE Reserving(p)
    <3>1. Rejected(proc[p].id, proc[p].key)   BY <2>0, <2>1 DEF StoreInv
    <3> QED BY <1>1, <1>3, <3>1 DEF StoreInv, Rejected
  <2>2. CASE proc[p] \in FinalizedRequest /\ FinalizedOK(proc[p])
    <3>1. /\ proc[p].userop \in Ops /\ proc[p].id = uses[proc[p].userop]
          /\ fate[proc[p].userop] = "reverted"
      BY <1>3, <2>0, <2>2 DEF Releasing, At, ReleaseSteps, FinalizedRequest, FinalizedOK
    <3>2. proc[p].userop = o   BY <1>1, <1>3, <3>1 DEF OnePaymentEach
    <3> QED BY <3>1, <3>2 DEF Paying
  <2> QED BY <1>0, <2>0, <2>1, <2>2, RequestAt DEF Releasing, Reserving
<1> QED BY <1>2, <1>3 DEF MayTake

LEMMA PaymentsCountedStep ==
    ASSUME SettleInv, OnePaymentEach, StoreInv, SpendInv, ~Slow, MaxFailures = 0, [Next]_vars
    PROVE  PaymentsCounted'
<1> SUFFICES ASSUME NEW o \in Ops, Paying(o)'
             PROVE  /\ uses'[o] \in counted'
                    /\ uses'[o] \in expired' => fate'[o] = "executed" /\ uses'[o] \notin members'
  BY DEF PaymentsCounted
<1>0. /\ ProcOK /\ AgentOK /\ RedisOK /\ CountedStep
      /\ PaymentsCounted /\ DueUnpaid /\ SettledIsOut
      /\ issued \in 0 .. MaxIds /\ issued \in Nat
  BY CountedSteps DEF SettleInv, RedisOK, SpendInv
<1>m. members' \ members \subseteq {issued'} \ (1 .. issued)   BY <1>0 DEF CountedStep
<1>1. PICK owner \in [1 .. issued -> Keys] : OwnedBy(owner) /\ CountedUnless(owner)
  BY DEF StoreInv
<1>2. CASE Paying(o) /\ uses'[o] = uses[o] /\ (fate[o] = "executed" => fate'[o] = "executed")
  <2>1. /\ uses[o] \in counted /\ uses[o] \in granted /\ uses[o] \in 1 .. issued /\ uses[o] # 0
        /\ uses[o] \in expired => fate[o] = "executed" /\ uses[o] \notin members
    BY <1>0, <1>2, UsedId DEF PaymentsCounted, Paying
  <2>2. \A p \in Procs : ~MayTake(p, uses[o])   BY <1>2, PaidNotTaken
  <2>4. uses[o] \in counted'   BY <1>0, <2>1, <2>2 DEF CountedStep
  <2>5. uses[o] \notin members => uses[o] \notin members'   BY <1>m, <2>1
  <2>6. CASE UNCHANGED expired   BY <1>2, <2>1, <2>4, <2>5, <2>6
  <2>7. CASE /\ UNCHANGED <<uses, fate, members, reported>>
             /\ \E i \in Ids : /\ expired' = expired \cup {i}
                               /\ \A other \in Ops : uses[other] = i => reported[other] = "finalized"
    BY <1>0, <1>2, <2>1, <2>4, <2>7 DEF SettledIsOut, Paying
  <2> QED BY <2>6, <2>7, ExpiryStep
<1>3. CASE /\ uses'[o] \in granted \ expired /\ \A other \in Ops : uses[other] # uses'[o]
           /\ UNCHANGED <<counted, members, expired, proc>>
  <2>1. PICK i : i = uses'[o]   OBVIOUS
  <2>2. i \in (1 .. issued) \ expired /\ rows[i] # NoRow
    BY <1>0, <1>3, <2>1 DEF AgentOK, StoreInv
  <2>3. ~Reverted(i) /\ ~Rejected(i, owner[i])   BY <1>3, <2>1, <2>2 DEF Reverted, Rejected
  <2>4. i \in counted   BY <1>1, <2>2, <2>3 DEF CountedUnless
  <2> QED BY <1>3, <2>1, <2>4
<1> QED BY <1>2, <1>3, PayingStep

LEMMA SpendIsCovered ==
    ASSUME SettleInv, OnePaymentEach, Sums, SpendInv PROVE SpendCovered
<1> DEFINE done == {o \in Ops : fate[o] = "executed"}
<1>0. /\ aggregate \in Nat /\ overdrawn \in Nat /\ IsFiniteSet(counted) /\ AgentOK
      /\ Cardinality(counted) \in Nat /\ Cardinality(counted) <= aggregate + overdrawn
  BY CountedTypes DEF Sums, SettleInv
<1>1. \A o \in done : uses[o] \in counted   BY DEF SpendInv, PaymentsCounted, Paying
<1>2. PICK f : f = [o \in done |-> uses[o]]   OBVIOUS
<1>3. f \in [done -> counted]   BY <1>1, <1>2
<1>4. \A o \in done : uses[o] # 0   BY <1>0 DEF AgentOK
<1>5. ASSUME NEW a \in done, NEW b \in done, f[a] = f[b] PROVE a = b
  BY <1>2, <1>4, <1>5 DEF OnePaymentEach
<1>6. f \in Injection(done, counted)   BY <1>3, <1>5 DEF Injection, IsInjective
<1>7. IsFiniteSet(done) /\ Cardinality(done) <= Cardinality(counted)
  BY <1>0, <1>6, FS_Injection
<1>8. Cardinality(done) \in Nat   BY <1>7, FS_CardinalityType
<1>9. Cardinality(done) <= aggregate + overdrawn   BY <1>0, <1>7, <1>8
<1> QED BY <1>1, <1>9 DEF SpendCovered

\* What holds while no statement fails and payments are quick.
QuickInv == SettleInv /\ OnePaymentEach /\ Sums /\ StoreInv /\ SpendInv

LEMMA SpendAlways == ASSUME ~Slow, MaxFailures = 0 PROVE Spec => []QuickInv
<1>1. Init => SpendInv
  BY DEF Init, SpendInv, PaymentsCounted, DueUnpaid, SettledIsOut, Paying, At, Idle
<1>2. OrderInv => OnePaymentEach   BY DEF OrderInv
<1>3. Init => Sums   BY FS_EmptySet DEF Init, Sums
<1>4. SettleInv /\ OrderInv /\ StoreInv /\ SpendInv /\ [Next]_vars => SpendInv'
  BY <1>2, SettledStep, PaymentsCountedStep, DueUnpaidStep DEF SpendInv
<1> QED
  BY <1>1, <1>2, <1>3, <1>4, InitSettle, SettleStep, InitOrder, OrderStep, InitStore, StoreStep,
     SumsStep, PTL
  DEF Spec, QuickInv

\* The budget of an executed payment is never given back, for every number of
\* requests and payments, in whatever order the reports come and whatever
\* sweeps and copies of a request race, provided that the finalized report
\* arrives within the pre-submit TTL and no statement fails: the sweep finds the
\* reservation out of the expiry index (SweepExpired, CommitReservation), and a
\* compensation or a release is never for it.  The aggregate falls short of
\* what was spent only by the amounts of other reservations that were taken off
\* once more.
THEOREM SpendStaysCounted ==
    ASSUME ~Slow, MaxFailures = 0 PROVE Spec => []SpendCovered
<1>1. QuickInv => SpendCovered   BY SpendIsCovered DEF QuickInv
<1> QED BY <1>1, SpendAlways, PTL

-----------------------------------------------------------------------------
(* The ledger across the two stores and the chain.                         *)

\* The state of the ledger.
Executed(i) == \E o \in Ops : uses[o] = i /\ fate[o] = "executed"

StatusNow(i) ==
    IF i \in counted THEN IF Executed(i) THEN "committed" ELSE "reserved"
                     ELSE IF Executed(i) THEN "lost" ELSE "released"

Entry(status) == [session |-> "session", amount |-> 1, status |-> status]

EntryNow(i) == IF i > issued THEN [status |-> "unissued"] ELSE Entry(StatusNow(i))

LedgerNow == [i \in Ids |-> EntryNow(i)]

BookedNow == [s \in {"session"} |-> aggregate]

\* A reservation that was paid is counted, so no entry is lost.
NothingLost ==
    \A i : /\ Executed(i) => i \in counted /\ StatusNow(i) = "committed"
           /\ i \in counted /\ ~Executed(i) => StatusNow(i) = "reserved"
           /\ i \notin counted => StatusNow(i) = "released"

LEMMA StatusIs == SpendCovered => NothingLost
<1> SUFFICES ASSUME SpendCovered, NEW i
             PROVE  /\ Executed(i) => i \in counted /\ StatusNow(i) = "committed"
                    /\ i \in counted /\ ~Executed(i) => StatusNow(i) = "reserved"
                    /\ i \notin counted => StatusNow(i) = "released"
  BY DEF NothingLost
<1>1. Executed(i) => i \in counted   BY DEF Executed, SpendCovered
<1> HIDE DEF Executed
<1> QED BY <1>1 DEF StatusNow

LEMMA QuickStatus == QuickInv => NothingLost
BY SpendIsCovered, StatusIs DEF QuickInv

LEMMA StatusWillBe == QuickInv' => NothingLost'
BY QuickStatus, PTL

\* The entry of a reservation that is neither made, paid nor given back.
LEMMA EntryKept ==
    ASSUME NEW i, i > issued' <=> i > issued, i \in counted' <=> i \in counted,
           Executed(i)' <=> Executed(i)
    PROVE  EntryNow(i)' = EntryNow(i)
<1> HIDE DEF Executed
<1> QED BY DEF EntryNow, Entry, StatusNow

\* The amount of a reservation goes off: for the first time, or once more.
LEMMA TakesOffEntry ==
    ASSUME SettleInv, NothingLost, NothingLost', NEW n \in 1 .. issued, ~Executed(n),
           Subtract(n), UNCHANGED <<issued, uses, fate>>
    PROVE  Ledger!LedgerNext
<1>0. /\ issued \in Nat /\ issued <= MaxIds /\ aggregate \in Nat /\ n \in Ids /\ ~(n > issued)
  <2>1. issued \in Nat /\ issued <= MaxIds /\ aggregate \in Nat   BY DEF SettleInv, RedisOK
  <2> QED BY <2>1 DEF Ids
<1>1. counted' = counted \ {n} /\ aggregate' = IF aggregate = 0 THEN 0 ELSE aggregate - 1
  BY DEF Subtract
<1>2. \A i : Executed(i)' <=> Executed(i)   BY DEF Executed
<1>3. ASSUME NEW i, i # n PROVE EntryNow(i)' = EntryNow(i)
  <2>1. i \in counted' <=> i \in counted   BY <1>1, <1>3
  <2>2. i > issued' <=> i > issued   OBVIOUS
  <2> QED BY <1>2, <2>1, <2>2, EntryKept
<1>4. EntryNow(n)' = Entry("released")
  <2>1. StatusNow(n)' = "released"   BY <1>1 DEF NothingLost
  <2> QED BY <1>0, <2>1 DEF EntryNow, Entry
<1>5. BookedNow' = [BookedNow EXCEPT !["session"] = IF @ < 1 THEN 0 ELSE @ - 1]
  BY <1>0, <1>1 DEF BookedNow
<1>6. LedgerNow' = [i \in Ids |-> EntryNow(i)']   BY DEF LedgerNow
<1>7. CASE n \in counted
  <2>1. EntryNow(n) = Entry("reserved")
    <3>1. StatusNow(n) = "reserved"   BY <1>7 DEF NothingLost
    <3> QED BY <1>0, <3>1 DEF EntryNow, Entry
  <2>2. [Entry("reserved") EXCEPT !.status = "released"] = Entry("released")   BY DEF Entry
  <2>3. LedgerNow' = [LedgerNow EXCEPT ![n] = Entry("released")] /\ LedgerNow[n] = Entry("reserved")
    <3> HIDE DEF EntryNow
    <3> QED BY <1>0, <1>3, <1>4, <1>6, <2>1 DEF LedgerNow
  <2>4. LedgerNow' = [LedgerNow EXCEPT ![n].status = "released"]   BY <2>2, <2>3
  <2>5. LedgerNow[n].status = "reserved" /\ LedgerNow[n].session = "session" /\ LedgerNow[n].amount = 1
    BY <2>3 DEF Entry
  <2>6. BookedNow' = [BookedNow EXCEPT ![LedgerNow[n].session] =
                         IF @ < LedgerNow[n].amount THEN 0 ELSE @ - LedgerNow[n].amount]
    BY <1>5, <2>5
  <2>7. Ledger!Release(n)
    BY <2>4, <2>5, <2>6
    DEF Ledger!Release, Ledger!TakeOff, LedgerNow, BookedNow, EntryNow, Entry, StatusNow, Executed
  <2> QED BY <1>0, <2>7 DEF Ledger!LedgerNext
<1>8. CASE n \notin counted
  <2>1. EntryNow(n) = Entry("released")
    <3>1. StatusNow(n) = "released"   BY <1>8 DEF NothingLost
    <3> QED BY <1>0, <3>1 DEF EntryNow, Entry
  <2>2. LedgerNow' = LedgerNow /\ LedgerNow[n] = Entry("released")
    <3> HIDE DEF EntryNow
    <3> QED BY <1>0, <1>3, <1>4, <1>6, <2>1 DEF LedgerNow
  <2>3. LedgerNow[n].status = "released" /\ LedgerNow[n].session = "session" /\ LedgerNow[n].amount = 1
    BY <2>2 DEF Entry
  <2>4. BookedNow' = [BookedNow EXCEPT ![LedgerNow[n].session] =
                         IF @ < LedgerNow[n].amount THEN 0 ELSE @ - LedgerNow[n].amount]
    BY <1>5, <2>3
  <2>5. Ledger!Overdraw(n)
    BY <2>2, <2>3, <2>4
    DEF Ledger!Overdraw, Ledger!TakeOff, LedgerNow, BookedNow, EntryNow, Entry, StatusNow, Executed
  <2> QED BY <1>0, <2>5 DEF Ledger!LedgerNext
<1> QED BY <1>7, <1>8

\* The locked section of Reserve grants a reservation.
LEMMA Grants ==
    ASSUME SettleInv, NothingLost, NothingLost', NEW p \in Procs, Makes(p), UNCHANGED <<uses, fate>>
    PROVE  Ledger!LedgerNext
<1>0. /\ issued \in Nat /\ counted \subseteq 1 .. issued /\ issued' = issued + 1
      /\ issued < MaxIds /\ counted' = counted \cup {issued'} /\ aggregate + 1 <= MaxTotal
      /\ aggregate' = aggregate + 1
  BY DEF SettleInv, RedisOK, Makes, WithinBudget
<1>1. PICK n \in Ids : n = issued'   BY <1>0 DEF Ids
<1>2. n > issued /\ n \notin counted /\ n \in counted' /\ ~(n > issued')   BY <1>0, <1>1 DEF Ids
<1>3. LedgerNow[n] = Ledger!Unissued   BY <1>2 DEF LedgerNow, EntryNow, Ledger!Unissued
<1>4. \A i : Executed(i)' <=> Executed(i)   BY DEF Executed
<1>5. EntryNow(n)' = Entry("reserved")
  <2>1. ~Executed(n)   BY <1>2 DEF NothingLost
  <2>2. ~Executed(n)'   BY <1>4, <2>1
  <2>3. StatusNow(n)' = "reserved"   BY <1>2, <2>2 DEF NothingLost
  <2> QED BY <1>2, <2>3 DEF EntryNow, Entry
<1>6. ASSUME NEW i \in Ids, i # n PROVE EntryNow(i)' = EntryNow(i)
  <2>1. i > issued' <=> i > issued   BY <1>0, <1>1, <1>6 DEF Ids
  <2>2. i \in counted' <=> i \in counted   BY <1>0, <1>1, <1>6
  <2> QED BY <1>4, <2>1, <2>2, EntryKept
<1>7. LedgerNow' = [LedgerNow EXCEPT ![n] = Entry("reserved")]
  <2>1. LedgerNow' = [i \in Ids |-> EntryNow(i)']   BY DEF LedgerNow
  <2> HIDE DEF EntryNow
  <2> QED BY <1>5, <1>6, <2>1 DEF LedgerNow
<1>8. LedgerNow' = [LedgerNow EXCEPT ![n] =
                       [session |-> "session", amount |-> 1, status |-> "reserved"]]
  BY <1>7 DEF Entry
<1>9. BookedNow["session"] + 1 <= [s \in {"session"} |-> MaxTotal]["session"]
  BY <1>0 DEF BookedNow
<1>10. BookedNow' = [BookedNow EXCEPT !["session"] = @ + 1]   BY <1>0 DEF BookedNow
<1>11. Ledger!Grant(n, "session", 1)
  BY <1>3, <1>8, <1>9, <1>10
  DEF Ledger!Grant, LedgerNow, BookedNow, EntryNow, Entry, StatusNow, Executed
<1>12. "session" \in {"session"} /\ 1 \in {1}   OBVIOUS
<1> QED BY <1>11, <1>12 DEF Ledger!LedgerNext

\* The execution of a payment commits its reservation.
LEMMA Commits ==
    ASSUME SettleInv, OnePaymentEach, SpendInv, NothingLost, NothingLost',
           NEW o \in Ops, IncludeOp(o)
    PROVE  Ledger!LedgerNext \/ UNCHANGED <<BookedNow, LedgerNow>>
<1>0. /\ AgentOK /\ fate[o] = "pending" /\ UNCHANGED <<aggregate, counted, issued, uses>>
      /\ issued \in Nat /\ counted \subseteq 1 .. issued
      /\ (fate' = [fate EXCEPT ![o] = "executed"] \/ fate' = [fate EXCEPT ![o] = "reverted"])
  <2>1. AgentOK /\ issued \in Nat /\ counted \subseteq 1 .. issued   BY DEF SettleInv, RedisOK
  <2>2. fate[o] = "pending" /\ UNCHANGED <<aggregate, counted, issued, uses>>   BY DEF IncludeOp, redisVars, budgetVars
  <2>3. PICK outcome \in {"executed", "reverted"} : fate' = [fate EXCEPT ![o] = outcome]
    BY DEF IncludeOp
  <2>4. outcome = "executed" \/ outcome = "reverted"   OBVIOUS
  <2> QED BY <2>1, <2>2, <2>3, <2>4
<1>1. BookedNow' = BookedNow   BY <1>0 DEF BookedNow
<1>2. CASE fate' = [fate EXCEPT ![o] = "reverted"]
  <2>1. \A i : Executed(i)' <=> Executed(i)   BY <1>0, <1>2 DEF Executed, AgentOK
  <2>2. \A i : EntryNow(i)' = EntryNow(i)
    <3> HIDE DEF Executed
    <3> QED BY <1>0, <2>1 DEF EntryNow, Entry, StatusNow
  <2>3. LedgerNow' = LedgerNow
    <3> HIDE DEF EntryNow
    <3> QED BY <2>2 DEF LedgerNow
  <2> QED BY <1>1, <2>3
<1>3. CASE fate' = [fate EXCEPT ![o] = "executed"]
  <2>1. PICK n \in Ids : n = uses[o] /\ n \in counted /\ ~(n > issued) /\ n # 0
    <3>1. /\ uses[o] \in Ids /\ uses[o] \in 1 .. issued /\ uses[o] # 0 /\ uses[o] \in counted
      BY <1>0, UsedId DEF SpendInv, PaymentsCounted, Paying, SettleInv, RedisOK
    <3>2. ~(uses[o] > issued)   BY <1>0, <3>1
    <3> QED BY <3>1, <3>2
  <2>2. ~Executed(n)   BY <1>0, <2>1 DEF Executed, OnePaymentEach
  <2>3. Executed(n)'   BY <1>0, <1>3, <2>1 DEF Executed, AgentOK
  <2>4. \A i : i # n => (Executed(i)' <=> Executed(i))
    BY <1>0, <1>3, <2>1 DEF Executed, AgentOK
  <2>5. EntryNow(n) = Entry("reserved") /\ EntryNow(n)' = Entry("committed")
    <3>1. StatusNow(n) = "reserved" /\ StatusNow(n)' = "committed"
      BY <2>1, <2>2, <2>3 DEF NothingLost
    <3> QED BY <1>0, <2>1, <3>1 DEF EntryNow, Entry
  <2>6. \A i : i # n => EntryNow(i)' = EntryNow(i)
    <3> HIDE DEF Executed
    <3> QED BY <1>0, <2>4 DEF EntryNow, Entry, StatusNow
  <2>7. [Entry("reserved") EXCEPT !.status = "committed"] = Entry("committed")   BY DEF Entry
  <2>8. LedgerNow' = [LedgerNow EXCEPT ![n].status = "committed"] /\ LedgerNow[n] = Entry("reserved")
    <3>1. LedgerNow' = [i \in Ids |-> EntryNow(i)']   BY DEF LedgerNow
    <3>2. LedgerNow' = [LedgerNow EXCEPT ![n] = Entry("committed")] /\ LedgerNow[n] = Entry("reserved")
      <4> HIDE DEF EntryNow
      <4> QED BY <2>5, <2>6, <3>1 DEF LedgerNow
    <3> QED BY <2>7, <3>2
  <2>9. LedgerNow[n].status = "reserved"   BY <2>8 DEF Entry
  <2>10. Ledger!Commit(n)
    BY <1>1, <2>8, <2>9
    DEF Ledger!Commit, LedgerNow, BookedNow, EntryNow, Entry, StatusNow, Executed
  <2> QED BY <2>10 DEF Ledger!LedgerNext
<1> QED BY <1>0, <1>2, <1>3

\* Every step is one of the ledger, or one it does not show.
LEMMA LedgerSimulates ==
    ASSUME QuickInv, QuickInv', [Next]_vars
    PROVE  Ledger!LedgerNext \/ UNCHANGED <<BookedNow, LedgerNow>>
<1>0. /\ SettleInv /\ OnePaymentEach /\ StoreInv /\ SpendInv /\ ProcOK /\ AgentOK
      /\ issued \in 0 .. MaxIds /\ issued \in Nat /\ expired \subseteq 1 .. issued
  BY DEF QuickInv, SettleInv, RedisOK
<1>1. NothingLost /\ NothingLost'   BY QuickStatus, StatusWillBe
\* Outside the budget's own steps only the fates of payments show.
<1>2. ASSUME UNCHANGED <<aggregate, counted, issued>>, \A i : Executed(i)' <=> Executed(i)
      PROVE  UNCHANGED <<BookedNow, LedgerNow>>
  <2>1. \A i : EntryNow(i)' = EntryNow(i)   BY <1>2, EntryKept
  <2>2. LedgerNow' = LedgerNow
    <3> HIDE DEF EntryNow
    <3> QED BY <2>1 DEF LedgerNow
  <2> QED BY <1>2, <2>2 DEF BookedNow
<1>3. ASSUME UNCHANGED <<aggregate, counted, issued, uses, fate>>
      PROVE  UNCHANGED <<BookedNow, LedgerNow>>
  <2>1. \A i : Executed(i)' <=> Executed(i)   BY <1>3 DEF Executed
  <2> QED BY <1>2, <1>3, <2>1
<1>4. ASSUME NEW p \in Procs, Makes(p), UNCHANGED <<uses, fate>> PROVE Ledger!LedgerNext
  BY <1>0, <1>1, <1>4, Grants
<1>5. ASSUME NEW p \in Procs, NEW i, TakesOff(p, i), UNCHANGED <<uses, fate>>
      PROVE  Ledger!LedgerNext
  <2>1. At(p, "next") => Reserving(p) /\ ReserveOK(proc[p])
    BY <1>0, RequestAt DEF At, SearchSteps, Reserving
  <2>2. MayTake(p, i)   BY <1>5, <2>1 DEF TakesOff, MayTake
  <2>3. i \in 1 .. issued
    <3>1. CASE At(p, "next") /\ i \in proc[p].due   BY <1>0, <2>1, <3>1 DEF ReserveOK
    <3>2. CASE At(p, "release") /\ i = proc[p].id
      <4>1. CASE proc[p] \in ReserveRequest
        BY <1>0, <3>2, <4>1, ReservingAt DEF At, SearchSteps
      <4>2. CASE proc[p] \in FinalizedRequest /\ FinalizedOK(proc[p])
        <5>1. /\ proc[p].userop \in Ops /\ fate[proc[p].userop] # "unsent"
              /\ proc[p].id = uses[proc[p].userop]
          BY <3>2, <4>2 DEF FinalizedRequest, FinalizedOK, At
        <5> QED BY <1>0, <3>2, <5>1, UsedId
      <4> QED BY <1>0, <3>2, <4>1, <4>2, RequestAt DEF At, ReleaseSteps
    <3> QED BY <1>5, <3>1, <3>2 DEF TakesOff
  <2>4. ~Executed(i)
    <3> SUFFICES ASSUME Executed(i) PROVE FALSE   OBVIOUS
    <3>1. PICK o \in Ops : uses[o] = i /\ fate[o] = "executed"   BY DEF Executed
    <3>2. Paying(o)   BY <3>1 DEF Paying
    <3>3. ~MayTake(p, uses[o])   BY <1>0, <3>2, PaidNotTaken
    <3> QED BY <2>2, <3>1, <3>3
  <2>5. Subtract(i) /\ UNCHANGED issued   BY <1>5 DEF TakesOff
  <2> QED BY <1>0, <1>1, <1>5, <2>3, <2>4, <2>5, TakesOffEntry
\* The budget's own steps leave the payments alone.
<1>6. CASE BudgetStep
  <2>1. UNCHANGED <<uses, fate>>   BY <1>6, BudgetFrame
  <2>2. \/ UNCHANGED <<aggregate, counted, issued>>
        \/ \E p \in Procs : Makes(p)
        \/ \E p \in Procs : \E i : TakesOff(p, i)
    BY RedisChange DEF RedisStep, redisVars, budgetVars, Forgets, Expires, MetaGoes
  <2> QED BY <1>3, <1>4, <1>5, <2>1, <2>2
<1>7. ASSUME UNCHANGED <<aggregate, counted, issued>>, NEW o \in Ops, NEW i \in Ids, SubmitOp(o, i)
      PROVE  UNCHANGED <<BookedNow, LedgerNow>>
  <2>1. \A j : Executed(j)' <=> Executed(j)   BY <1>0, <1>7 DEF Executed, SubmitOp, AgentOK
  <2> QED BY <1>2, <1>7, <2>1
<1>8. ASSUME NEW o \in Ops, IncludeOp(o)
      PROVE  Ledger!LedgerNext \/ UNCHANGED <<BookedNow, LedgerNow>>
  BY <1>0, <1>1, <1>8, Commits
<1>9. CASE UNCHANGED <<redisVars, expired>>
  <2>1. UNCHANGED <<aggregate, counted, issued>>   BY <1>9 DEF redisVars, budgetVars
  <2>2. \/ BudgetStep
        \/ UNCHANGED <<uses, fate>>
        \/ \E o \in Ops : IncludeOp(o) \/ \E i \in Ids : SubmitOp(o, i)
    BY DEF Next, vars, Handle, BudgetStep, Stop, StartReserve, StartSubmitted, StartFinalized,
        SaveReservation, LookupIdempotency, UpdateSubmitted, BindDigest, SaveUserOp, FinalizeUserOp,
        UpdateSettled, IngestExecution, MarkStale, agentVars
  <2> QED BY <1>3, <1>6, <1>7, <1>8, <2>1, <2>2
<1> QED BY <1>6, <1>9, OtherFrame

LEMMA LedgerStarts == ASSUME Init PROVE Ledger!LedgerInit
<1>1. BookedNow = [s \in {"session"} |-> 0]   BY DEF Init, BookedNow
<1>2. \A i \in Ids : i > issued   BY DEF Init, Ids
<1>3. LedgerNow = [i \in Ids |-> Ledger!Unissued]
  BY <1>2 DEF LedgerNow, EntryNow, Ledger!Unissued
<1> QED
  BY <1>1, <1>3
  DEF Ledger!LedgerInit, BookedNow, LedgerNow, EntryNow, Entry, StatusNow, Executed

(***************************************************************************)
(* ImplementsLedger: the handlers, the two stores, the watcher and the     *)
(* chain together are a ledger that may be overdrawn, for every number of  *)
(* requests, payments and reservations, with sweeps that race, copies of a *)
(* request, a lock that is taken and reverted payments: a reservation is   *)
(* granted once and within what the aggregate shows, the execution of its  *)
(* payment commits it, what is committed is never given back or taken off, *)
(* and the one deviation is that the amount of a reservation that was      *)
(* given back may go off again.  It takes that no statement fails and that *)
(* the finalized report arrives within the pre-submit TTL; the order of    *)
(* the reports does not matter.                                            *)
(***************************************************************************)
THEOREM SettlementIsLedger == ASSUME ~Slow, MaxFailures = 0 PROVE Spec => ImplementsLedger
<1>1. Init => Ledger!LedgerInit   BY LedgerStarts
<1>2. Spec => []QuickInv   BY SpendAlways
<1>3. QuickInv /\ QuickInv' /\ [Next]_vars => [Ledger!LedgerNext]_(Ledger!ledgerVars)
  BY LedgerSimulates
  DEF Ledger!ledgerVars, BookedNow, LedgerNow, EntryNow, Entry, StatusNow, Executed
<1> QED BY <1>1, <1>2, <1>3, PTL DEF Spec, ImplementsLedger, Ledger!LedgerSpec
=============================================================================
