------------------------- MODULE ReservationProofs --------------------------
(***************************************************************************)
(* Proofs about Reservation, for any number of requests, sessions, keys    *)
(* and ids, and any times to live.  While no request outlives the lock it  *)
(* holds, the lock excludes; every amount read under it is still there     *)
(* when it is used; and so the aggregate is, up to the double release of   *)
(* a settled reservation, the sum of what is reserved and committed.       *)
(***************************************************************************)
EXTENDS Reservation, SumProofs

-----------------------------------------------------------------------------
(* The shape of the state.                                                 *)

\* The ids a request knows were issued.
RequestOK(r) ==
    /\ r \in Request
    /\ r \in ReserveRequest => r.members \subseteq 1 .. issued
    /\ r.pc \in MemberSteps \cup {"meta", "rem"} => r.member \in 1 .. issued

\* The requests in progress, and those that may yet make a reservation.
Working == {p \in Procs : proc[p].pc # "idle"}

Reserving == {p \in Working : proc[p].op = "reserve" /\ proc[p].pc # "unlock"}

\* There is an id left for each of them.
IdsLeft ==
    /\ IsFiniteSet(Working)
    /\ issued + Cardinality(Reserving) <= MaxIds

StoreOK ==
    /\ now \in 0 .. MaxTime
    /\ aggregate \in [Sessions -> {Nil} \cup [amount : Nat, exp : Nat]]
    /\ idem \in [Sessions \X Keys -> {Nil} \cup [id : Ids, exp : Nat]]
    /\ meta \in [Ids -> Nat]
    /\ lock \in [Sessions -> Nat]
    /\ crashes \in 0 .. MaxCrashes

LedgerOK ==
    /\ issued \in 0 .. MaxIds
    /\ index \subseteq 1 .. issued
    /\ ledger \in [Ids -> IssuedType \cup {Unissued}]
    /\ \A i \in Ids : ledger[i] \in IssuedType <=> i <= issued

ProcOK ==
    /\ proc \in [Procs -> Request]
    /\ \A p \in Procs : RequestOK(proc[p])

StateInv == StoreOK /\ LedgerOK /\ ProcOK /\ IdsLeft

-----------------------------------------------------------------------------
(* What a reservation that was given back, or is to be, leaves in Redis.   *)

\* A request that is about to forget a reservation has given it back.
ForgetsReleased ==
    \A p \in Procs : proc[p].pc \in {"relUnlock", "del", "rem"} =>
        ledger[proc[p].member].status # "reserved"

\* A reservation that was not settled is where a sweep finds it.
ReservedIndexed ==
    \A i \in 1 .. issued : ledger[i].status = "reserved" => i \in index

IndexInv == ForgetsReleased /\ ReservedIndexed

-----------------------------------------------------------------------------
(* What holds while no request outlives the lock it holds.                 *)

LockHeld ==
    \A p \in Procs : proc[p].pc \in Critical => lock[LockedBy(p)] # 0

\* What was read under the lock is still so when it is used.
ReadFresh ==
    \A p \in Procs :
        /\ proc[p].pc = "exec" =>
              /\ proc[p].read = Amount(proc[p].session)
              /\ proc[p].read + proc[p].amount <= MaxTotal[proc[p].session]
        /\ proc[p].pc = "relSet" =>
              /\ aggregate[Member(p).session] # Nil
              /\ proc[p].read = Amount(Member(p).session)

\* The aggregate is within the budget, and lives as long as the session.
AggregateOK ==
    \A s \in Sessions :
        /\ Amount(s) <= MaxTotal[s]
        /\ aggregate[s] # Nil => aggregate[s].exp >= ValidUntil

LockInv == LockHeld /\ LockExclusive /\ ReadFresh /\ AggregateOK

SumInv == BudgetHeld /\ \A s \in Sessions : Amount(s) <= Held(s)

-----------------------------------------------------------------------------
(* The shape of the state is an invariant.                                 *)

LEMMA ConstantTypes ==
    /\ Amounts \subseteq Nat \ {0} /\ \A s \in Sessions : MaxTotal[s] \in Nat \ {0}
    /\ MaxIds \in Nat /\ MaxTime \in Nat /\ MaxCrashes \in Nat /\ ValidUntil \in Nat
    /\ PreSubmitTTL \in Nat \ {0} /\ LockTTL \in Nat \ {0} /\ MinTTL \in Nat \ {0}
    /\ Stalls \in BOOLEAN /\ Releases \in BOOLEAN /\ Commits \in BOOLEAN
BY ReservationAssumption

LEMMA Updated ==
    ASSUME NEW A, NEW B, NEW f \in [A -> B], NEW x \in A, NEW v \in B
    PROVE  /\ [f EXCEPT ![x] = v] \in [A -> B] /\ [f EXCEPT ![x] = v][x] = v
           /\ \A y \in A \ {x} : [f EXCEPT ![x] = v][y] = f[y]
OBVIOUS

\* What the step that a request is at says about it.
LEMMA RequestFields ==
    ASSUME NEW r \in Request
    PROVE  /\ r.pc = "idle" <=> r = Idle
           /\ r.pc = "meta" => r \in ReleaseRequest
           /\ r.pc \in ReserveSteps => r \in ReserveRequest
           /\ r.pc \in MemberSteps => r \in ReserveRequest \cup ReleaseRequest
           /\ r \in ReserveRequest <=> r.pc # "idle" /\ r.op = "reserve"
           /\ r \in ReleaseRequest <=> r.pc # "idle" /\ r.op = "release"
<1>1. CASE r = Idle
  BY <1>1 DEF Idle, ReserveRequest, ReleaseRequest, ReserveSteps, MemberSteps
<1>2. CASE r \in ReserveRequest
  BY <1>2 DEF Idle, ReserveRequest, ReleaseRequest, ReserveSteps, MemberSteps
<1>3. CASE r \in ReleaseRequest
  BY <1>3 DEF Idle, ReserveRequest, ReleaseRequest, ReserveSteps, MemberSteps
<1> QED BY <1>1, <1>2, <1>3 DEF Request

\* The steps of one request: what it becomes.
Becomes(p, r) ==
    /\ proc' = [proc EXCEPT ![p] = r]
    /\ RequestOK(r)'

\* Everything a request does but making a reservation and forgetting ids.
LEMMA GotoBecomes ==
    ASSUME StateInv, NEW p \in Procs, NEW label, proc[p] # Idle, Goto(p, label),
           issued' = issued, proc[p] \in ReserveRequest => label \in ReserveSteps \cup MemberSteps,
           proc[p] \in ReleaseRequest => label \in MemberSteps,
           label \in MemberSteps \cup {"rem"} => proc[p].member \in 1 .. issued
    PROVE  Becomes(p, [proc[p] EXCEPT !.pc = label])
<1>1. PICK r : r = [proc[p] EXCEPT !.pc = label]   OBVIOUS
<1>2. proc[p] \in ReserveRequest \cup ReleaseRequest /\ RequestOK(proc[p]) /\ proc \in [Procs -> Request]
  BY DEF StateInv, ProcOK, Request
<1>3. proc' = [proc EXCEPT ![p] = r]   BY <1>1, <1>2 DEF Goto
<1>4. CASE proc[p] \in ReserveRequest
  <2>1. r \in ReserveRequest /\ r.members = proc[p].members /\ r.pc = label /\ r.member = proc[p].member
    BY <1>1, <1>4 DEF ReserveRequest
  <2>2. label # "meta"   BY <1>4 DEF ReserveSteps, MemberSteps
  <2>3. RequestOK(r)'   BY <1>2, <1>4, <2>1, <2>2 DEF RequestOK, Request
  <2> QED BY <1>1, <1>3, <2>3 DEF Becomes
<1>5. CASE proc[p] \in ReleaseRequest
  <2>1. r \in ReleaseRequest /\ r.pc = label /\ r.member = proc[p].member
    BY <1>1, <1>5 DEF ReleaseRequest
  <2>2. r \notin ReserveRequest   BY <2>1 DEF ReleaseRequest, ReserveRequest
  <2>3. r.member \in 1 .. issued   BY <1>5, <2>1 DEF ReserveSteps, MemberSteps
  <2>4. RequestOK(r)'   BY <2>1, <2>2, <2>3 DEF RequestOK, Request
  <2> QED BY <1>1, <1>3, <2>4 DEF Becomes
<1> QED BY <1>2, <1>4, <1>5

LEMMA ReturnBecomes ==
    ASSUME NEW p \in Procs, Return(p)
    PROVE  Becomes(p, Idle)
<1>1. Idle \notin ReserveRequest /\ Idle.pc = "idle"   BY DEF Idle, ReserveRequest
<1> QED BY <1>1 DEF Becomes, Return, RequestOK, Request, MemberSteps

\* The requests in progress after such a step.
LEMMA BecomesOK ==
    ASSUME StateInv, NEW p \in Procs, NEW r, Becomes(p, r), issued' \in Nat, issued <= issued'
    PROVE  ProcOK' /\ IsFiniteSet(Working') /\ IsFiniteSet(Reserving) /\ IsFiniteSet(Reserving')
<1>0. proc \in [Procs -> Request] /\ issued \in Nat
  BY ConstantTypes DEF StateInv, ProcOK, LedgerOK
<1>1. r \in Request /\ RequestOK(r)'   BY DEF Becomes, RequestOK
<1>2. /\ proc' \in [Procs -> Request] /\ proc'[p] = r
      /\ \A q \in Procs \ {p} : proc'[q] = proc[q]
  BY <1>0, <1>1, Updated DEF Becomes
<1>3. ASSUME NEW q \in Procs, q # p PROVE RequestOK(proc[q])'
  <2>1. RequestOK(proc[q]) /\ proc'[q] = proc[q]   BY <1>2, <1>3 DEF StateInv, ProcOK
  <2>2. 1 .. issued \subseteq 1 .. issued'   BY <1>0
  <2> QED BY <2>1, <2>2 DEF RequestOK
<1>4. ProcOK'   BY <1>1, <1>2, <1>3 DEF ProcOK
<1>5. Working' \in SUBSET (Working \cup {p})   BY <1>2 DEF Working
<1>6. IsFiniteSet(Working \cup {p})   BY FS_AddElement DEF StateInv, IdsLeft
<1>7. IsFiniteSet(Working')   BY <1>5, <1>6, FS_Subset
<1>8. Reserving \in SUBSET Working /\ Reserving' \in SUBSET Working'   BY DEF Reserving
<1> QED BY <1>4, <1>7, <1>8, FS_Subset DEF StateInv, IdsLeft

\* Ids stay left if the request was to make a reservation already, or is not.
LEMMA IdsStayLeft ==
    ASSUME StateInv, NEW p \in Procs, NEW r, Becomes(p, r), issued' = issued,
           r.pc = "idle" \/ r.op # "reserve" \/ r.pc = "unlock" \/ p \in Reserving
    PROVE  ProcOK' /\ IdsLeft'
<1>0. issued \in Nat /\ proc \in [Procs -> Request]
  BY ConstantTypes DEF StateInv, LedgerOK, ProcOK
<1>1. ProcOK' /\ IsFiniteSet(Working') /\ IsFiniteSet(Reserving) /\ IsFiniteSet(Reserving')
  BY <1>0, BecomesOK
<1>2. Reserving' \in SUBSET Reserving
  <2>1. proc'[p] = r /\ \A q \in Procs \ {p} : proc'[q] = proc[q]
    BY <1>0 DEF Becomes
  <2> QED BY <2>1 DEF Reserving, Working
<1>3. Cardinality(Reserving') <= Cardinality(Reserving)   BY <1>1, <1>2, FS_Subset
<1>4. Cardinality(Reserving') \in Nat /\ Cardinality(Reserving) \in Nat
  BY <1>1, FS_CardinalityType
<1> QED BY <1>0, <1>1, <1>3, <1>4, ConstantTypes DEF StateInv, IdsLeft

\* Where a request is says what it is.
LEMMA AtFields ==
    ASSUME StateInv, NEW p \in Procs
    PROVE  /\ proc \in [Procs -> Request] /\ proc[p] \in Request /\ RequestOK(proc[p])
           /\ proc[p].pc = "idle" <=> proc[p] = Idle
           /\ proc[p].pc = "meta" => proc[p] \in ReleaseRequest
           /\ proc[p].pc \in ReserveSteps => proc[p] \in ReserveRequest
           /\ proc[p].pc \in MemberSteps => proc[p] \in ReserveRequest \cup ReleaseRequest
           /\ proc[p] \in ReserveRequest <=> proc[p].pc # "idle" /\ proc[p].op = "reserve"
           /\ proc[p] \in ReleaseRequest <=> proc[p].pc # "idle" /\ proc[p].op = "release"
           /\ proc[p] \in ReserveRequest => proc[p].members \subseteq 1 .. issued
           /\ proc[p].pc \in MemberSteps \cup {"meta", "rem"} => proc[p].member \in 1 .. issued
           /\ proc[p] \in ReserveRequest /\ proc[p].pc # "unlock" => p \in Reserving
<1>1. proc \in [Procs -> Request] /\ proc[p] \in Request /\ RequestOK(proc[p])
  BY DEF StateInv, ProcOK
<1> QED BY <1>1, RequestFields DEF RequestOK, Reserving, Working

\* The ledger entry of an id that was issued.
LEMMA IssuedEntry ==
    ASSUME StateInv, NEW i \in 1 .. issued
    PROVE  /\ i \in Ids /\ ledger[i] \in IssuedType /\ ledger[i].session \in Sessions
           /\ ledger[i].amount \in Nat \ {0} /\ ledger[i].score \in Nat
           /\ ledger[i].status \in {"reserved", "committed", "released"}
           /\ ledger[i].overdrawn \in BOOLEAN
<1>1. i \in Ids /\ i <= issued   BY ConstantTypes DEF StateInv, LedgerOK, Ids
<1>2. ledger[i] \in IssuedType   BY <1>1 DEF StateInv, LedgerOK
<1> QED BY <1>1, <1>2, ConstantTypes DEF IssuedType

\* Steps that leave the ledger alone, and take a request from one step to
\* another without its wanting an id it did not want before.
LEMMA QuietStep ==
    ASSUME StateInv, NEW p \in Procs, NEW r, Becomes(p, r), UNCHANGED <<issued, ledger>>,
           index' \subseteq index, StoreOK',
           r.pc = "idle" \/ r.op # "reserve" \/ r.pc = "unlock" \/ p \in Reserving
    PROVE  StateInv'
<1>1. ProcOK' /\ IdsLeft'   BY IdsStayLeft
<1>2. LedgerOK'   BY DEF StateInv, LedgerOK
<1> QED BY <1>1, <1>2 DEF StateInv

LEMMA StoreKept ==
    ASSUME StateInv, UNCHANGED <<now, aggregate, idem, crashes>>,
           meta' \in [Ids -> Nat], lock' \in [Sessions -> Nat]
    PROVE  StoreOK'
BY DEF StateInv, StoreOK

LEMMA QuietGoto ==
    ASSUME StateInv, NEW p \in Procs, NEW label, proc[p] # Idle, Goto(p, label),
           UNCHANGED <<issued, ledger>>, index' \subseteq index, StoreOK',
           proc[p] \in ReserveRequest => label \in ReserveSteps \cup MemberSteps,
           proc[p] \in ReleaseRequest => label \in MemberSteps,
           label \in MemberSteps \cup {"rem"} => proc[p].member \in 1 .. issued,
           proc[p] \in ReserveRequest => p \in Reserving \/ label = "unlock"
    PROVE  StateInv'
<1>1. PICK r : r = [proc[p] EXCEPT !.pc = label]   OBVIOUS
<1>2. Becomes(p, r)   BY <1>1, GotoBecomes
<1>3. proc[p] \in ReserveRequest \cup ReleaseRequest   BY AtFields DEF Request
<1>4. r.op = proc[p].op /\ r.pc = label   BY <1>1, <1>3 DEF ReserveRequest, ReleaseRequest
<1>5. r.op # "reserve" \/ r.pc = "unlock" \/ p \in Reserving
  BY <1>3, <1>4 DEF ReleaseRequest
<1> QED BY <1>2, <1>5, QuietStep

LEMMA QuietReturn ==
    ASSUME StateInv, NEW p \in Procs, Return(p), UNCHANGED <<issued, ledger>>,
           index' \subseteq index, StoreOK'
    PROVE  StateInv'
<1>1. Idle.pc = "idle"   BY DEF Idle
<1> QED BY <1>1, ReturnBecomes, QuietStep

\* A request starts, or stops half way.
LEMMA StartStep ==
    ASSUME StateInv, NEW p \in Procs
    PROVE  /\ (\E s \in Sessions, k \in Keys, a \in Amounts : StartReserve(p, s, k, a)) => StateInv'
           /\ (\E i \in Ids : StartRelease(p, i)) => StateInv'
           /\ Crash(p) => StateInv'
<1>0. /\ proc \in [Procs -> Request] /\ issued \in Nat /\ meta \in [Ids -> Nat]
      /\ lock \in [Sessions -> Nat] /\ MaxIds \in Nat
  BY ConstantTypes DEF StateInv, ProcOK, LedgerOK, StoreOK
<1>1. ASSUME NEW s \in Sessions, NEW k \in Keys, NEW a \in Amounts, StartReserve(p, s, k, a)
      PROVE  StateInv'
  <2>1. PICK r : r = [op |-> "reserve", pc |-> "sweep", session |-> s, key |-> k,
                      amount |-> a, members |-> {}, member |-> 0, read |-> 0]
    OBVIOUS
  <2>2. r \in ReserveRequest /\ r.pc = "sweep" /\ r.members = {}
    BY <1>0, <2>1 DEF ReserveRequest, ReserveSteps
  <2>3. Becomes(p, r)
    <3>1. RequestOK(r)'   BY <2>2 DEF RequestOK, Request, MemberSteps
    <3>2. proc' = [proc EXCEPT ![p] = r]   BY <1>1, <2>1 DEF StartReserve
    <3> QED BY <3>1, <3>2 DEF Becomes
  <2>4. StoreOK' /\ LedgerOK' /\ issued' = issued
    BY <1>1 DEF StartReserve, StateInv, StoreOK, LedgerOK
  <2>5. ProcOK' /\ IsFiniteSet(Working') /\ IsFiniteSet(Reserving')   BY <1>0, <2>3, <2>4, BecomesOK
  <2>6. p \notin Working /\ issued + Cardinality(Working) < MaxIds
    BY <1>1 DEF StartReserve, Working, At
  <2>7. Reserving' \in SUBSET (Working \cup {p})
    <3>1. \A q \in Procs \ {p} : proc'[q] = proc[q]   BY <1>0, <2>3 DEF Becomes
    <3> QED BY <3>1 DEF Reserving, Working
  <2>8. IsFiniteSet(Working)   BY DEF StateInv, IdsLeft
  <2>9. IsFiniteSet(Working \cup {p}) /\ Cardinality(Working \cup {p}) = Cardinality(Working) + 1
    BY <2>6, <2>8, FS_AddElement
  <2>10. Cardinality(Reserving') <= Cardinality(Working \cup {p})   BY <2>7, <2>9, FS_Subset
  <2>11. Cardinality(Working) \in Nat /\ Cardinality(Reserving') \in Nat
    BY <2>5, <2>8, FS_CardinalityType
  <2>12. issued' + Cardinality(Reserving') <= MaxIds
    BY <1>0, <2>4, <2>6, <2>9, <2>10, <2>11
  <2> QED BY <2>4, <2>5, <2>12 DEF StateInv, IdsLeft
<1>2. ASSUME NEW i \in Ids, StartRelease(p, i) PROVE StateInv'
  <2>1. PICK r : r = [op |-> "release", pc |-> "meta", member |-> i, read |-> 0]   OBVIOUS
  <2>2. r \in ReleaseRequest /\ r.op = "release" /\ r.member = i
    BY <2>1 DEF ReleaseRequest
  <2>3. r \notin ReserveRequest   BY <2>2 DEF ReserveRequest
  <2>4. i \in 1 .. issued' /\ UNCHANGED <<now, aggregate, idem, meta, index, lock, issued, ledger, crashes>>
    BY <1>0, <1>2 DEF StartRelease, Ids
  <2>5. RequestOK(r)'   BY <2>2, <2>3, <2>4 DEF RequestOK, Request
  <2>6. proc' = [proc EXCEPT ![p] = r]   BY <1>2, <2>1 DEF StartRelease
  <2>7. Becomes(p, r)   BY <2>5, <2>6 DEF Becomes
  <2> QED BY <1>0, <2>2, <2>4, <2>7, QuietStep, StoreKept
<1>3. ASSUME Crash(p) PROVE StateInv'
  <2>1. StoreOK'   BY <1>3, ConstantTypes DEF Crash, StateInv, StoreOK
  <2> QED BY <1>3, <2>1, QuietReturn DEF Crash
<1> QED BY <1>1, <1>2, <1>3

\* The sweep that comes before a reservation, and its idempotency key.
LEMMA SweepStep ==
    ASSUME StateInv, NEW p \in Procs,
           SweepRange(p) \/ SweepNext(p) \/ CheckIdem(p) \/ SweepDelMeta(p) \/ SweepRem(p)
    PROVE  StateInv'
<1>0. /\ meta \in [Ids -> Nat] /\ lock \in [Sessions -> Nat] /\ issued \in Nat
      /\ index \subseteq 1 .. issued /\ 1 .. issued \subseteq Ids
  BY ConstantTypes DEF StateInv, StoreOK, LedgerOK, Ids
<1>1. ASSUME SweepRange(p) PROVE StateInv'
  <2>1. proc[p] \in ReserveRequest /\ p \in Reserving
    BY <1>1, AtFields DEF SweepRange, At, ReserveSteps
  <2>2. PICK m : m = {i \in index : ledger[i].score <= now}   OBVIOUS
  <2>3. PICK r : r = [proc[p] EXCEPT !.pc = "next", !.members = m]   OBVIOUS
  <2>4. m \subseteq 1 .. issued /\ m \subseteq Ids   BY <1>0, <2>2
  <2>5. r \in ReserveRequest /\ r.pc = "next" /\ r.members = m
    BY <2>1, <2>3, <2>4 DEF ReserveRequest, ReserveSteps
  <2>6. UNCHANGED <<now, aggregate, idem, meta, index, lock, issued, ledger, crashes>>
    BY <1>1 DEF SweepRange
  <2>7. RequestOK(r)'   BY <2>4, <2>5, <2>6 DEF RequestOK, Request, MemberSteps
  <2>8. proc' = [proc EXCEPT ![p] = r]   BY <1>1, <2>2, <2>3 DEF SweepRange
  <2>9. Becomes(p, r)   BY <2>7, <2>8 DEF Becomes
  <2> QED BY <1>0, <2>1, <2>6, <2>9, QuietStep, StoreKept
<1>2. ASSUME SweepNext(p) PROVE StateInv'
  <2>1. proc[p] \in ReserveRequest /\ p \in Reserving /\ proc[p] # Idle
    BY <1>2, AtFields DEF SweepNext, At, ReserveSteps, Idle
  <2>2. UNCHANGED <<now, aggregate, idem, meta, index, lock, issued, ledger, crashes>>
    BY <1>2 DEF SweepNext
  <2>3. StoreOK'   BY <1>0, <2>2, StoreKept
  <2>4. CASE Goto(p, "idem")
    <3>1. "idem" \in ReserveSteps \ (MemberSteps \cup {"rem"})   BY DEF ReserveSteps, MemberSteps
    <3>2. proc[p] \notin ReleaseRequest   BY <2>1 DEF ReserveRequest, ReleaseRequest
    <3> QED BY <2>1, <2>2, <2>3, <2>4, <3>1, <3>2, QuietGoto
  <2>5. CASE \E i \in proc[p].members :
                proc' = [proc EXCEPT ![p].pc = "relLock", ![p].members = @ \ {i}, ![p].member = i]
    <3>1. PICK i \in proc[p].members :
             proc' = [proc EXCEPT ![p].pc = "relLock", ![p].members = @ \ {i}, ![p].member = i]
      BY <2>5
    <3>2. PICK m : m = proc[p].members \ {i}   OBVIOUS
    <3>3. i \in 1 .. issued /\ m \subseteq 1 .. issued   BY <2>1, <3>2, AtFields
    <3>4. i \in 0 .. MaxIds /\ m \subseteq Ids   BY <1>0, <3>3 DEF Ids
    <3>5. PICK r : r = [proc[p] EXCEPT !.pc = "relLock", !.members = m, !.member = i]   OBVIOUS
    <3>6. r \in ReserveRequest /\ r.pc = "relLock" /\ r.members = m /\ r.member = i
      BY <2>1, <3>4, <3>5 DEF ReserveRequest, MemberSteps
    <3>7. RequestOK(r)'   BY <2>2, <3>3, <3>6 DEF RequestOK, Request
    <3>8. proc' = [proc EXCEPT ![p] = r]   BY <3>1, <3>2, <3>5, AtFields
    <3>9. Becomes(p, r)   BY <3>7, <3>8 DEF Becomes
    <3> QED BY <2>1, <2>2, <2>3, <3>9, QuietStep
  <2> QED BY <1>2, <2>4, <2>5 DEF SweepNext
<1>3. ASSUME CheckIdem(p) PROVE StateInv'
  <2>1. proc[p] \in ReserveRequest /\ p \in Reserving /\ proc[p] # Idle
    BY <1>3, AtFields DEF CheckIdem, At, ReserveSteps, Idle
  <2>2. UNCHANGED <<now, aggregate, idem, meta, index, lock, issued, ledger, crashes>>
    BY <1>3 DEF CheckIdem
  <2>3. StoreOK'   BY <1>0, <2>2, StoreKept
  <2>4. CASE Return(p)   BY <2>2, <2>3, <2>4, QuietReturn
  <2>5. CASE Goto(p, "lock")
    <3>1. "lock" \in ReserveSteps \ (MemberSteps \cup {"rem"})   BY DEF ReserveSteps, MemberSteps
    <3>2. proc[p] \notin ReleaseRequest   BY <2>1 DEF ReserveRequest, ReleaseRequest
    <3> QED BY <2>1, <2>2, <2>3, <2>5, <3>1, <3>2, QuietGoto
  <2> QED BY <1>3, <2>4, <2>5 DEF CheckIdem
<1>4. ASSUME SweepDelMeta(p) PROVE StateInv'
  <2>1. proc[p] \in ReserveRequest /\ p \in Reserving /\ proc[p] # Idle /\ proc[p].member \in 1 .. issued
    BY <1>4, AtFields DEF SweepDelMeta, At, MemberSteps, Idle
  <2>2. UNCHANGED <<now, aggregate, idem, index, lock, issued, ledger, crashes>> /\ Goto(p, "rem")
    BY <1>4 DEF SweepDelMeta
  <2>3. meta' \in [Ids -> Nat]   BY <1>0, <1>4 DEF SweepDelMeta
  <2>4. StoreOK'   BY <1>0, <2>2, <2>3, StoreKept
  <2>5. "rem" \in ReserveSteps   BY DEF ReserveSteps
  <2>6. proc[p] \notin ReleaseRequest   BY <2>1 DEF ReserveRequest, ReleaseRequest
  <2> QED BY <2>1, <2>2, <2>4, <2>5, <2>6, QuietGoto
<1>5. ASSUME SweepRem(p) PROVE StateInv'
  <2>1. proc[p] \in ReserveRequest /\ p \in Reserving /\ proc[p] # Idle
    BY <1>5, AtFields DEF SweepRem, At, ReserveSteps, Idle
  <2>2. /\ UNCHANGED <<now, aggregate, idem, meta, lock, issued, ledger, crashes>>
        /\ Goto(p, "next") /\ index' \subseteq index
    BY <1>5 DEF SweepRem
  <2>3. StoreOK'   BY <1>0, <2>2, StoreKept
  <2>4. "next" \in ReserveSteps \ (MemberSteps \cup {"rem"})   BY DEF ReserveSteps, MemberSteps
  <2>5. proc[p] \notin ReleaseRequest   BY <2>1 DEF ReserveRequest, ReleaseRequest
  <2> QED BY <2>1, <2>2, <2>3, <2>4, <2>5, QuietGoto
<1> QED BY <1>1, <1>2, <1>3, <1>4, <1>5

\* SETNX takes a free lock, or the request is refused.
LEMMA SetNXStep ==
    ASSUME StateInv, NEW p \in Procs, NEW s \in Sessions, NEW label, SetNX(p, s, label),
           proc[p] # Idle, proc[p] \in ReserveRequest => p \in Reserving,
           proc[p] \in ReserveRequest => label \in ReserveSteps \cup MemberSteps,
           proc[p] \in ReleaseRequest => label \in MemberSteps,
           label \in MemberSteps \cup {"rem"} => proc[p].member \in 1 .. issued,
           UNCHANGED <<now, aggregate, idem, meta, index, issued, ledger, crashes>>
    PROVE  StateInv'
<1>0. /\ meta \in [Ids -> Nat] /\ lock \in [Sessions -> Nat] /\ now \in Nat
  BY ConstantTypes DEF StateInv, StoreOK
<1>1. CASE Return(p) /\ UNCHANGED lock   BY <1>0, <1>1, StoreKept, QuietReturn
<1>2. CASE Goto(p, label) /\ lock' = [lock EXCEPT ![s] = LockUntil]
  <2>1. LockUntil \in Nat   BY <1>0, ConstantTypes DEF LockUntil
  <2>2. lock' \in [Sessions -> Nat]   BY <1>0, <1>2, <2>1
  <2> QED BY <1>0, <1>2, <2>2, StoreKept, QuietGoto
<1> QED BY <1>1, <1>2 DEF SetNX

\* Reserve under the lock, but for the pipeline.
LEMMA LockStep ==
    ASSUME StateInv, NEW p \in Procs, AcquireLock(p) \/ ReadBudget(p) \/ Unlock(p)
    PROVE  StateInv'
<1>0. /\ meta \in [Ids -> Nat] /\ lock \in [Sessions -> Nat]
      /\ aggregate \in [Sessions -> {Nil} \cup [amount : Nat, exp : Nat]]
  BY ConstantTypes DEF StateInv, StoreOK
<1>1. /\ proc[p] \in ReserveRequest /\ proc[p] # Idle /\ proc[p].session \in Sessions
      /\ proc[p] \notin ReleaseRequest
  <2>1. proc[p].pc \in ReserveSteps \ {"idle"}
    BY DEF AcquireLock, ReadBudget, Unlock, At, ReserveSteps
  <2>2. proc[p] \in ReserveRequest   BY <2>1, AtFields
  <2> QED BY <2>1, <2>2 DEF Idle, ReserveRequest, ReleaseRequest
<1>2. CASE AcquireLock(p)
  <2>1. p \in Reserving   BY <1>1, <1>2, AtFields DEF AcquireLock, At
  <2>2. "get" \in ReserveSteps \ (MemberSteps \cup {"rem"})   BY DEF ReserveSteps, MemberSteps
  <2> QED BY <1>1, <1>2, <2>1, <2>2, SetNXStep DEF AcquireLock
<1>3. CASE ReadBudget(p)
  <2>1. p \in Reserving   BY <1>1, <1>3, AtFields DEF ReadBudget, At
  <2>2. PICK n : n = Amount(proc[p].session)   OBVIOUS
  <2>3. n \in Nat
    <3>1. CASE aggregate[proc[p].session] = Nil   BY <2>2, <3>1 DEF Amount
    <3>2. CASE aggregate[proc[p].session] # Nil
      <4>1. aggregate[proc[p].session] \in [amount : Nat, exp : Nat]   BY <1>0, <1>1, <3>2
      <4> QED BY <2>2, <3>2, <4>1 DEF Amount
    <3> QED BY <3>1, <3>2
  <2>4. PICK label \in {"exec", "unlock"} :
           proc' = [proc EXCEPT ![p].pc = label, ![p].read = n]
    BY <1>3, <2>2 DEF ReadBudget
  <2>5. PICK r : r = [proc[p] EXCEPT !.pc = label, !.read = n]   OBVIOUS
  <2>6. r \in ReserveRequest /\ r.pc = label /\ r.members = proc[p].members
    BY <1>1, <2>3, <2>5 DEF ReserveRequest, ReserveSteps
  <2>7. UNCHANGED <<now, aggregate, idem, meta, index, lock, issued, ledger, crashes>>
    BY <1>3 DEF ReadBudget
  <2>8. RequestOK(r)'
    <3>1. r.members \subseteq 1 .. issued'   BY <1>1, <2>6, <2>7, AtFields
    <3>2. r.pc \notin MemberSteps \cup {"meta", "rem"}   BY <2>6 DEF MemberSteps
    <3> QED BY <2>6, <3>1, <3>2 DEF RequestOK, Request
  <2>9. proc' = [proc EXCEPT ![p] = r]   BY <2>4, <2>5, AtFields
  <2>10. Becomes(p, r)   BY <2>8, <2>9 DEF Becomes
  <2> QED BY <1>0, <2>1, <2>7, <2>10, QuietStep, StoreKept
<1>4. CASE Unlock(p)
  <2>1. lock' \in [Sessions -> Nat]   BY <1>0, <1>1, <1>4 DEF Unlock
  <2> QED BY <1>0, <1>4, <2>1, StoreKept, QuietReturn DEF Unlock
<1> QED BY <1>2, <1>3, <1>4

\* One reservation is settled or given back, or given back once more.
Settles(i, e) ==
    /\ i \in 1 .. issued /\ ledger' = [ledger EXCEPT ![i] = e]
    /\ e \in IssuedType
    /\ e.session = ledger[i].session /\ e.amount = ledger[i].amount /\ e.score = ledger[i].score
    /\ \/ /\ ledger[i].status = "reserved" /\ e.status \in {"committed", "released"}
          /\ e.overdrawn = ledger[i].overdrawn
       \/ ledger[i].status # "reserved" /\ e.status = ledger[i].status /\ e.overdrawn = TRUE

LEMMA ReleasedSettles ==
    ASSUME StateInv, NEW i \in 1 .. issued, ledger' = Released(i)
    PROVE  \E e : Settles(i, e) /\ (ledger[i].status = "reserved" => e.status = "released")
<1>0. /\ ledger \in [Ids -> IssuedType \cup {Unissued}] /\ i \in Ids /\ ledger[i] \in IssuedType
  BY IssuedEntry DEF StateInv, LedgerOK
<1>1. CASE ledger[i].status = "reserved"
  <2>1. PICK e : e = [ledger[i] EXCEPT !.status = "released"]   OBVIOUS
  <2>2. /\ e \in IssuedType /\ e.session = ledger[i].session /\ e.amount = ledger[i].amount
        /\ e.score = ledger[i].score /\ e.status = "released" /\ e.overdrawn = ledger[i].overdrawn
    BY <1>0, <2>1 DEF IssuedType
  <2>3. ledger' = [ledger EXCEPT ![i] = e]   BY <1>0, <1>1, <2>1 DEF Released
  <2> QED BY <1>1, <2>2, <2>3 DEF Settles
<1>2. CASE ledger[i].status # "reserved"
  <2>1. PICK e : e = [ledger[i] EXCEPT !.overdrawn = TRUE]   OBVIOUS
  <2>2. /\ e \in IssuedType /\ e.session = ledger[i].session /\ e.amount = ledger[i].amount
        /\ e.score = ledger[i].score /\ e.status = ledger[i].status /\ e.overdrawn = TRUE
    BY <1>0, <2>1 DEF IssuedType
  <2>3. ledger' = [ledger EXCEPT ![i] = e]   BY <1>0, <1>2, <2>1 DEF Released
  <2> QED BY <1>2, <2>2, <2>3 DEF Settles
<1> QED BY <1>1, <1>2

LEMMA SettlesOK ==
    ASSUME StateInv, NEW i, NEW e, Settles(i, e), issued' = issued, index' \subseteq index
    PROVE  LedgerOK'
<1>0. /\ ledger \in [Ids -> IssuedType \cup {Unissued}] /\ i \in Ids /\ e \in IssuedType
      /\ i <= issued
  BY IssuedEntry, ConstantTypes DEF StateInv, LedgerOK, Settles
<1>1. /\ ledger' \in [Ids -> IssuedType \cup {Unissued}] /\ ledger'[i] = e
      /\ \A j \in Ids \ {i} : ledger'[j] = ledger[j]
  BY <1>0, Updated DEF Settles
<1> QED BY <1>0, <1>1 DEF StateInv, LedgerOK

\* releaseAmount.
LEMMA ReleaseStep ==
    ASSUME StateInv, NEW p \in Procs,
           ReleaseLock(p) \/ ReleaseRead(p) \/ ReleaseWrite(p) \/ ReleaseUnlock(p)
    PROVE  StateInv'
<1>0. /\ meta \in [Ids -> Nat] /\ lock \in [Sessions -> Nat]
      /\ aggregate \in [Sessions -> {Nil} \cup [amount : Nat, exp : Nat]]
  BY ConstantTypes DEF StateInv, StoreOK
<1>1. PICK i : i = proc[p].member   OBVIOUS
<1>2. /\ proc[p].pc \in MemberSteps \ {"idle"} /\ proc[p] # Idle /\ i \in 1 .. issued
      /\ proc[p] \in ReserveRequest \cup ReleaseRequest
      /\ proc[p] \in ReserveRequest => p \in Reserving
      /\ ledger[i].session \in Sessions /\ ledger[i].amount \in Nat
  <2>1. proc[p].pc \in MemberSteps \ {"idle", "unlock"}
    BY DEF ReleaseLock, ReleaseRead, ReleaseWrite, ReleaseUnlock, At, MemberSteps
  <2>2. proc[p] # Idle   BY <2>1 DEF Idle
  <2> QED BY <1>1, <2>1, <2>2, AtFields, IssuedEntry
<1>3. PICK s : s = ledger[i].session   OBVIOUS
<1>4. s \in Sessions /\ Member(p) = ledger[i]   BY <1>1, <1>2, <1>3 DEF Member
<1>5. ASSUME NEW label \in MemberSteps, Goto(p, label), issued' = issued, StoreOK', LedgerOK'
      PROVE  StateInv'
  <2>1. PICK r : r = [proc[p] EXCEPT !.pc = label]   OBVIOUS
  <2>2. Becomes(p, r)   BY <1>1, <1>2, <1>5, <2>1, GotoBecomes
  <2>3. r.op = proc[p].op /\ r.pc = label
    BY <1>2, <2>1 DEF ReserveRequest, ReleaseRequest
  <2>4. r.op # "reserve" \/ p \in Reserving   BY <1>2, <2>3 DEF ReleaseRequest
  <2> QED BY <1>5, <2>2, <2>4, IdsStayLeft DEF StateInv
<1>6. CASE ReleaseLock(p)
  <2>1. "relGet" \in MemberSteps   BY DEF MemberSteps
  <2>2. /\ SetNX(p, s, "relGet")
        /\ UNCHANGED <<now, aggregate, idem, meta, index, issued, ledger, crashes>>
    BY <1>3, <1>4, <1>6 DEF ReleaseLock
  <2> QED BY <1>1, <1>2, <1>4, <2>1, <2>2, SetNXStep
<1>7. CASE ReleaseRead(p)
  <2>0. /\ UNCHANGED <<now, aggregate, idem, meta, index, lock, issued, crashes>>
        /\ index' \subseteq index
    BY <1>7 DEF ReleaseRead
  <2>1. StoreOK'   BY <1>0, <2>0, StoreKept
  <2>2. CASE aggregate[s] = Nil
    <3>1. Goto(p, "relUnlock") /\ ledger' = IF Member(p).status = "reserved"
                                            THEN Released(i) ELSE ledger
      BY <1>1, <1>3, <1>4, <1>7, <2>2 DEF ReleaseRead
    <3>2. LedgerOK'
      <4>1. CASE UNCHANGED ledger   BY <2>0, <4>1 DEF StateInv, LedgerOK
      <4>2. CASE ledger' = Released(i)   BY <1>2, <2>0, <4>2, ReleasedSettles, SettlesOK
      <4> QED BY <3>1, <4>1, <4>2
    <3>3. "relUnlock" \in MemberSteps   BY DEF MemberSteps
    <3> QED BY <1>5, <2>0, <2>1, <3>1, <3>2, <3>3
  <2>3. CASE aggregate[s] # Nil
    <3>1. PICK n : n = Amount(s)   OBVIOUS
    <3>2. n \in Nat   BY <1>0, <1>4, <2>3, <3>1 DEF Amount
    <3>3. PICK r : r = [proc[p] EXCEPT !.pc = "relSet", !.read = n]   OBVIOUS
    <3>4. proc' = [proc EXCEPT ![p].pc = "relSet", ![p].read = n] /\ UNCHANGED ledger
      BY <1>3, <1>4, <1>7, <2>3, <3>1 DEF ReleaseRead
    <3>5. proc' = [proc EXCEPT ![p] = r]   BY <3>3, <3>4, AtFields
    <3>6. r.pc = "relSet" /\ r.member = i /\ r.op = proc[p].op
      BY <1>1, <1>2, <3>3 DEF ReserveRequest, ReleaseRequest
    <3>7. CASE proc[p] \in ReserveRequest
      <4>1. r \in ReserveRequest /\ r.members = proc[p].members
        BY <3>2, <3>3, <3>7 DEF ReserveRequest, MemberSteps
      <4>2. RequestOK(r)'   BY <1>2, <2>0, <3>6, <3>7, <4>1, AtFields DEF RequestOK, Request
      <4>3. Becomes(p, r)   BY <3>5, <4>2 DEF Becomes
      <4> QED BY <1>2, <2>0, <2>1, <3>4, <3>7, <4>3, QuietStep
    <3>8. CASE proc[p] \in ReleaseRequest
      <4>1. r \in ReleaseRequest   BY <3>2, <3>3, <3>8 DEF ReleaseRequest, MemberSteps
      <4>2. r \notin ReserveRequest /\ r.op # "reserve"   BY <4>1 DEF ReleaseRequest, ReserveRequest
      <4>3. RequestOK(r)'   BY <1>2, <2>0, <3>6, <4>1, <4>2 DEF RequestOK, Request
      <4>4. Becomes(p, r)   BY <3>5, <4>3 DEF Becomes
      <4> QED BY <2>0, <2>1, <3>4, <4>2, <4>4, QuietStep
    <3> QED BY <1>2, <3>7, <3>8
  <2> QED BY <2>2, <2>3
<1>8. CASE ReleaseWrite(p)
  <2>1. /\ UNCHANGED <<now, idem, meta, index, lock, issued, crashes>> /\ Goto(p, "relUnlock")
        /\ ledger' = Released(i) /\ index' \subseteq index
    BY <1>1, <1>8 DEF ReleaseWrite
  <2>2. PICK n, x : /\ n = Reduced(proc[p].read, ledger[i].amount)
                    /\ x = IF aggregate[s] = Nil THEN Never ELSE aggregate[s].exp
    OBVIOUS
  <2>3. proc[p].read \in Nat   BY <1>2 DEF ReserveRequest, ReleaseRequest
  <2>4. n \in Nat   BY <1>2, <2>2, <2>3 DEF Reduced
  <2>5. x \in Nat
    <3>1. CASE aggregate[s] = Nil   BY <2>2, <3>1, ConstantTypes DEF Never
    <3>2. CASE aggregate[s] # Nil   BY <1>0, <1>4, <2>2, <3>2
    <3> QED BY <3>1, <3>2
  <2>6. aggregate' = [aggregate EXCEPT ![s] = [amount |-> n, exp |-> x]]
    BY <1>1, <1>3, <1>4, <1>8, <2>2 DEF ReleaseWrite
  <2>7. [amount |-> n, exp |-> x] \in [amount : Nat, exp : Nat]   BY <2>4, <2>5
  <2>8. aggregate' \in [Sessions -> {Nil} \cup [amount : Nat, exp : Nat]]
    BY <1>0, <1>4, <2>6, <2>7, Updated
  <2>9. StoreOK'   BY <2>1, <2>8 DEF StateInv, StoreOK
  <2>10. LedgerOK'   BY <1>2, <2>1, ReleasedSettles, SettlesOK
  <2>11. "relUnlock" \in MemberSteps   BY DEF MemberSteps
  <2> QED BY <1>5, <2>1, <2>9, <2>10, <2>11
<1>9. CASE ReleaseUnlock(p)
  <2>1. /\ UNCHANGED <<now, aggregate, idem, meta, index, issued, ledger, crashes>>
        /\ Goto(p, "del") /\ lock' = [lock EXCEPT ![s] = 0]
    BY <1>3, <1>4, <1>9 DEF ReleaseUnlock
  <2>2. lock' \in [Sessions -> Nat]   BY <1>0, <1>4, <2>1
  <2>3. StoreOK'   BY <1>0, <2>1, <2>2, StoreKept
  <2>4. LedgerOK' /\ "del" \in MemberSteps   BY <2>1 DEF StateInv, LedgerOK, MemberSteps
  <2> QED BY <1>5, <2>1, <2>3, <2>4
<1> QED BY <1>6, <1>7, <1>8, <1>9

\* A payment is reported executed.
LEMMA CommitSettles ==
    ASSUME StateInv, NEW p \in Procs, NEW i \in Ids, CommitReservation(p, i)
    PROVE  \/ UNCHANGED ledger
           \/ /\ ledger[i].status = "reserved"
              /\ \E e : Settles(i, e) /\ e.status = "committed"
<1>1. i \in 1 .. issued   BY ConstantTypes DEF CommitReservation, StateInv, LedgerOK, Ids
<1>2. CASE ledger[i].status = "reserved"
  <2>1. PICK e : e = [ledger[i] EXCEPT !.status = "committed"]   OBVIOUS
  <2>2. ledger[i] \in IssuedType /\ ledger \in [Ids -> IssuedType \cup {Unissued}]
    BY <1>1, IssuedEntry DEF StateInv, LedgerOK
  <2>3. /\ e \in IssuedType /\ e.session = ledger[i].session /\ e.amount = ledger[i].amount
        /\ e.score = ledger[i].score /\ e.status = "committed"
        /\ e.overdrawn = ledger[i].overdrawn
    BY <2>1, <2>2 DEF IssuedType
  <2>4. ledger' = [ledger EXCEPT ![i] = e]   BY <1>2, <2>1, <2>2 DEF CommitReservation
  <2> QED BY <1>1, <1>2, <2>3, <2>4 DEF Settles
<1>3. CASE ledger[i].status # "reserved"   BY <1>3 DEF CommitReservation
<1> QED BY <1>2, <1>3

\* ReleaseReservation around releaseAmount, and CommitReservation.
LEMMA ReportStep ==
    ASSUME StateInv, NEW p \in Procs
    PROVE  /\ ReadMeta(p) => StateInv'
           /\ ForgetReleased(p) => StateInv'
           /\ (\E i \in Ids : CommitReservation(p, i)) => StateInv'
<1>0. /\ meta \in [Ids -> Nat] /\ lock \in [Sessions -> Nat]
  BY ConstantTypes DEF StateInv, StoreOK
<1>1. ASSUME ReadMeta(p) PROVE StateInv'
  <2>1. proc[p] \in ReleaseRequest /\ proc[p] # Idle /\ proc[p].member \in 1 .. issued
    BY <1>1, AtFields DEF ReadMeta, At, Idle
  <2>2. UNCHANGED <<now, aggregate, idem, meta, index, lock, issued, ledger, crashes>>
    BY <1>1 DEF ReadMeta
  <2>3. StoreOK'   BY <1>0, <2>2, StoreKept
  <2>4. CASE Return(p)   BY <2>2, <2>3, <2>4, QuietReturn
  <2>5. CASE Goto(p, "relLock")
    <3>1. "relLock" \in MemberSteps   BY DEF MemberSteps
    <3>2. proc[p] \notin ReserveRequest   BY <2>1 DEF ReserveRequest, ReleaseRequest
    <3> QED BY <2>1, <2>2, <2>3, <2>5, <3>1, <3>2, QuietGoto
  <2> QED BY <1>1, <2>4, <2>5 DEF ReadMeta
<1>2. ASSUME ForgetReleased(p) PROVE StateInv'
  <2>1. /\ UNCHANGED <<now, aggregate, idem, lock, issued, ledger, crashes>> /\ Return(p)
        /\ meta' = [meta EXCEPT ![proc[p].member] = 0] /\ index' \subseteq index
    BY <1>2 DEF ForgetReleased
  <2>2. meta' \in [Ids -> Nat]   BY <1>0, <2>1
  <2> QED BY <1>0, <2>1, <2>2, StoreKept, QuietReturn
<1>3. ASSUME NEW i \in Ids, CommitReservation(p, i) PROVE StateInv'
  <2>1. /\ UNCHANGED <<now, aggregate, idem, lock, proc, issued, crashes>> /\ i \in 1 .. issued
        /\ meta' = [meta EXCEPT ![i] = 0] /\ index' \subseteq index
    BY <1>3, ConstantTypes DEF CommitReservation, StateInv, LedgerOK, Ids
  <2>2. meta' \in [Ids -> Nat]   BY <1>0, <2>1
  <2>3. StoreOK'   BY <1>0, <2>1, <2>2, StoreKept
  <2>4. LedgerOK'
    <3>1. CASE UNCHANGED ledger   BY <2>1, <3>1 DEF StateInv, LedgerOK
    <3>2. CASE \E e : Settles(i, e)   BY <2>1, <3>2, SettlesOK
    <3> QED BY <1>3, <3>1, <3>2, CommitSettles
  <2>5. ProcOK' /\ IdsLeft'
    BY <2>1 DEF StateInv, ProcOK, RequestOK, IdsLeft, Working, Reserving
  <2> QED BY <2>3, <2>4, <2>5 DEF StateInv
<1> QED BY <1>1, <1>2, <1>3

\* The pipeline makes a reservation: there was an id left.
LEMMA MakeStep ==
    ASSUME StateInv, NEW p \in Procs, MakeReservation(p)
    PROVE  /\ StateInv' /\ issued + 1 \in Ids /\ issued + 1 \notin 1 .. issued
           /\ proc[p] \in ReserveRequest
           /\ ledger'[issued + 1] = [session |-> proc[p].session, amount |-> proc[p].amount,
                 score |-> now + PreSubmitTTL, status |-> "reserved", overdrawn |-> FALSE]
           /\ \A j \in Ids \ {issued + 1} : ledger'[j] = ledger[j]
           /\ Goto(p, "unlock")
<1>0. /\ meta \in [Ids -> Nat] /\ issued \in Nat /\ now \in Nat /\ index \subseteq 1 .. issued
      /\ aggregate \in [Sessions -> {Nil} \cup [amount : Nat, exp : Nat]]
      /\ idem \in [Sessions \X Keys -> {Nil} \cup [id : Ids, exp : Nat]]
      /\ ledger \in [Ids -> IssuedType \cup {Unissued}]
  BY ConstantTypes DEF StateInv, StoreOK, LedgerOK
<1>1. PICK s, k, a, n, i, t, ttl : /\ s = proc[p].session /\ k = proc[p].key /\ a = proc[p].amount
                     /\ n = proc[p].read + proc[p].amount /\ i = issued + 1
                     /\ t = now + PreSubmitTTL /\ ttl = now + SessionTTL
  OBVIOUS
<1>2. proc[p] \in ReserveRequest /\ proc[p] # Idle /\ p \in Reserving /\ proc[p] \notin ReleaseRequest
  <2>1. proc[p].pc = "exec"   BY DEF MakeReservation, At
  <2>2. proc[p] \in ReserveRequest /\ p \in Reserving   BY <2>1, AtFields DEF ReserveSteps
  <2> QED BY <2>1, <2>2 DEF Idle, ReserveRequest, ReleaseRequest
<1>3. /\ s \in Sessions /\ k \in Keys /\ a \in Amounts /\ a \in Nat /\ n \in Nat /\ t \in Nat
  <2>1. /\ s \in Sessions /\ k \in Keys /\ a \in Amounts /\ proc[p].read \in Nat
    BY <1>1, <1>2 DEF ReserveRequest
  <2>2. a \in Nat /\ PreSubmitTTL \in Nat   BY <2>1, ConstantTypes
  <2> QED BY <1>0, <1>1, <2>1, <2>2
<1>4. ttl \in Nat
  <2>1. SessionTTL \in Nat   BY <1>0, ConstantTypes DEF SessionTTL
  <2> QED BY <1>0, <1>1, <2>1
<1>5. /\ issued' = i /\ Goto(p, "unlock") /\ index' = index \cup {i} /\ UNCHANGED <<now, lock, crashes>>
      /\ aggregate' = [aggregate EXCEPT ![s] = [amount |-> n, exp |-> ttl]]
      /\ idem' = [idem EXCEPT ![<<s, k>>] = [id |-> i, exp |-> t]]
      /\ meta' = [meta EXCEPT ![i] = now + 2 * PreSubmitTTL]
      /\ ledger' = [ledger EXCEPT ![i] = [session |-> s, amount |-> a, score |-> t,
                                          status |-> "reserved", overdrawn |-> FALSE]]
  BY <1>1 DEF MakeReservation, Indexed
<1>6. IsFiniteSet(Reserving)
  <2>1. Reserving \in SUBSET Working   BY DEF Reserving
  <2> QED BY <2>1, FS_Subset DEF StateInv, IdsLeft
<1>7. /\ Cardinality(Reserving) \in Nat /\ Cardinality(Reserving \ {p}) \in Nat
      /\ Cardinality(Reserving \ {p}) = Cardinality(Reserving) - 1
  BY <1>2, <1>6, FS_CardinalityType, FS_RemoveElement
<1>8. i \in Ids /\ i \in Nat /\ i \in 0 .. MaxIds /\ i \notin 1 .. issued
      /\ i + Cardinality(Reserving \ {p}) <= MaxIds
  BY <1>0, <1>1, <1>7, ConstantTypes DEF StateInv, IdsLeft, Ids
<1>9. StoreOK'
  <2>1. aggregate' \in [Sessions -> {Nil} \cup [amount : Nat, exp : Nat]]
    <3>1. [amount |-> n, exp |-> ttl] \in [amount : Nat, exp : Nat]   BY <1>3, <1>4
    <3> QED BY <1>0, <1>3, <1>5, <3>1, Updated
  <2>2. idem' \in [Sessions \X Keys -> {Nil} \cup [id : Ids, exp : Nat]]
    <3>1. <<s, k>> \in Sessions \X Keys /\ [id |-> i, exp |-> t] \in [id : Ids, exp : Nat]
      BY <1>3, <1>8
    <3> QED BY <1>0, <1>5, <3>1, Updated
  <2>3. meta' \in [Ids -> Nat]
    <3>1. now + 2 * PreSubmitTTL \in Nat   BY <1>0, ConstantTypes
    <3> QED BY <1>0, <1>5, <1>8, <3>1, Updated
  <2> QED BY <1>5, <2>1, <2>2, <2>3 DEF StateInv, StoreOK
<1>10. PICK e : e = [session |-> s, amount |-> a, score |-> t, status |-> "reserved", overdrawn |-> FALSE]
  OBVIOUS
<1>11. e \in IssuedType   BY <1>3, <1>10 DEF IssuedType
<1>12. /\ ledger' \in [Ids -> IssuedType \cup {Unissued}] /\ ledger'[i] = e
       /\ \A j \in Ids \ {i} : ledger'[j] = ledger[j]
  BY <1>0, <1>5, <1>8, <1>10, <1>11, Updated
<1>13. LedgerOK'
  <2>1. index' \subseteq 1 .. i   BY <1>0, <1>1, <1>5
  <2>2. ASSUME NEW j \in Ids PROVE ledger'[j] \in IssuedType <=> j <= i
    <3>1. CASE j = i   BY <1>8, <1>11, <1>12, <3>1
    <3>2. CASE j # i
      <4>1. ledger'[j] = ledger[j] /\ (ledger[j] \in IssuedType <=> j <= issued)
        BY <1>12, <3>2 DEF StateInv, LedgerOK
      <4>2. j \in Nat   BY ConstantTypes DEF Ids
      <4> QED BY <1>0, <1>1, <3>2, <4>1, <4>2
    <3> QED BY <3>1, <3>2
  <2> QED BY <1>5, <1>8, <1>12, <2>1, <2>2 DEF LedgerOK
<1>14. PICK r : r = [proc[p] EXCEPT !.pc = "unlock"]   OBVIOUS
<1>15. r \in ReserveRequest /\ r.pc = "unlock" /\ r.members = proc[p].members
  BY <1>2, <1>14 DEF ReserveRequest, ReserveSteps
<1>16. Becomes(p, r)
  <2>1. r.members \subseteq 1 .. issued'
    <3>1. 1 .. issued \subseteq 1 .. issued'   BY <1>0, <1>1, <1>5
    <3> QED BY <1>2, <1>15, <3>1, AtFields
  <2>2. RequestOK(r)'   BY <1>15, <2>1 DEF RequestOK, Request, MemberSteps
  <2>3. proc' = [proc EXCEPT ![p] = r]   BY <1>5, <1>14, AtFields DEF Goto
  <2> QED BY <2>2, <2>3 DEF Becomes
<1>17. ProcOK' /\ IsFiniteSet(Working')   BY <1>0, <1>1, <1>5, <1>16, BecomesOK
<1>18. Reserving' = Reserving \ {p}
  <2>1. proc'[p] = r /\ \A q \in Procs \ {p} : proc'[q] = proc[q]
    BY <1>16, AtFields DEF Becomes
  <2>2. p \notin Reserving'   BY <1>15, <2>1 DEF Reserving
  <2>3. \A q \in Procs \ {p} : q \in Reserving' <=> q \in Reserving   BY <2>1 DEF Reserving, Working
  <2>4. Reserving \subseteq Procs /\ Reserving' \subseteq Procs   BY DEF Reserving, Working
  <2> QED BY <2>2, <2>3, <2>4
<1>19. IdsLeft'   BY <1>5, <1>8, <1>17, <1>18 DEF IdsLeft
<1>20. StateInv'   BY <1>9, <1>13, <1>17, <1>19 DEF StateInv
<1> QED BY <1>1, <1>2, <1>5, <1>8, <1>10, <1>12, <1>20

\* Time passes, and keys expire.
LEMMA TickStep ==
    ASSUME StateInv, Tick
    PROVE  /\ StateInv' /\ now' = now + 1 /\ UNCHANGED <<index, proc, issued, ledger>>
           /\ \A s \in Sessions : aggregate'[s] = Alive(aggregate[s], now + 1)
<1>0. /\ meta \in [Ids -> Nat] /\ lock \in [Sessions -> Nat] /\ now \in Nat /\ now < MaxTime
      /\ aggregate \in [Sessions -> {Nil} \cup [amount : Nat, exp : Nat]]
      /\ idem \in [Sessions \X Keys -> {Nil} \cup [id : Ids, exp : Nat]]
  BY ConstantTypes DEF StateInv, StoreOK, Tick
<1>1. aggregate' \in [Sessions -> {Nil} \cup [amount : Nat, exp : Nat]]
  BY <1>0 DEF Tick, Alive
<1>2. idem' \in [Sessions \X Keys -> {Nil} \cup [id : Ids, exp : Nat]]
  BY <1>0 DEF Tick, Alive
<1>3. meta' \in [Ids -> Nat] /\ lock' \in [Sessions -> Nat]   BY <1>0 DEF Tick
<1>4. now' = now + 1 /\ UNCHANGED <<index, proc, issued, ledger, crashes>>   BY DEF Tick
<1>5. now' \in 0 .. MaxTime   BY <1>0, <1>4, ConstantTypes
<1>6. StoreOK'   BY <1>1, <1>2, <1>3, <1>4, <1>5 DEF StateInv, StoreOK
<1>7. LedgerOK' /\ ProcOK' /\ IdsLeft'
  BY <1>4 DEF StateInv, LedgerOK, ProcOK, RequestOK, IdsLeft, Working, Reserving
<1>8. \A s \in Sessions : aggregate'[s] = Alive(aggregate[s], now + 1)   BY DEF Tick
<1> QED BY <1>4, <1>6, <1>7, <1>8 DEF StateInv

LEMMA StateStep == ASSUME StateInv, [Next]_vars PROVE StateInv'
<1>1. CASE UNCHANGED vars
  BY <1>1 DEF vars, StateInv, StoreOK, LedgerOK, ProcOK, RequestOK, IdsLeft, Working, Reserving
<1>2. CASE Tick   BY <1>2, TickStep
<1>3. ASSUME NEW p \in Procs, Continue(p) PROVE StateInv'
  BY <1>3, SweepStep, LockStep, ReleaseStep, ReportStep, MakeStep DEF Continue
<1> QED BY <1>1, <1>2, <1>3, StartStep, ReportStep DEF Next

LEMMA StateInit == ASSUME Init PROVE StateInv
<1>1. StoreOK   BY ConstantTypes DEF Init, StoreOK
<1>2. LedgerOK
  <2>1. \A i \in Ids : ledger[i] \notin IssuedType /\ ~(i <= issued)
    BY ConstantTypes DEF Init, Ids, IssuedType, Unissued
  <2> QED BY <2>1, ConstantTypes DEF Init, LedgerOK
<1>3. ProcOK
  <2>1. \A p \in Procs : proc[p] = Idle   BY DEF Init
  <2>2. Idle.pc = "idle" /\ Idle \notin ReserveRequest   BY DEF Idle, ReserveRequest
  <2>3. proc \in [Procs -> Request]   BY DEF Init, Request
  <2> QED BY <2>1, <2>2, <2>3 DEF ProcOK, RequestOK, Request, MemberSteps
<1>4. Working = {} /\ Reserving = {}   BY DEF Init, Working, Reserving, Idle
<1>5. issued = 0   BY DEF Init
<1>6. IdsLeft   BY <1>4, <1>5, FS_EmptySet, ConstantTypes DEF IdsLeft
<1> QED BY <1>1, <1>2, <1>3, <1>6 DEF StateInv

THEOREM StateAlways == Spec => []StateInv
<1>1. Init => StateInv   BY StateInit
<1>2. StateInv /\ [Next]_vars => StateInv'   BY StateStep
<1> QED BY <1>1, <1>2, PTL DEF Spec

(***************************************************************************)
(* Types: whatever requests interleave, crash or stall, every key holds    *)
(* what its command wrote, and an id that was issued has its entry.        *)
(***************************************************************************)
THEOREM TypeCorrect == Spec => []TypeOK
<1>1. StateInv => TypeOK
  <2>1. SUFFICES ASSUME StateInv PROVE TypeOK   OBVIOUS
  <2>2. ASSUME NEW i \in Ids PROVE ledger[i] \in IF i <= issued THEN IssuedType ELSE {Unissued}
    BY <2>1 DEF StateInv, LedgerOK
  <2> QED BY <2>1, <2>2 DEF StateInv, StoreOK, LedgerOK, ProcOK, TypeOK
<1> QED BY <1>1, StateAlways, PTL

-----------------------------------------------------------------------------
(* What a step does to the ledger and to the requests.                     *)

\* The ledger is left alone, one entry is settled, or one is added.
LedgerStep ==
    \/ UNCHANGED <<issued, ledger>>
    \/ issued' = issued /\ \E i, e : Settles(i, e)
    \/ \E p \in Procs : MakeReservation(p)

LEMMA LedgerChange == ASSUME StateInv, [Next]_vars PROVE LedgerStep
<1>1. CASE UNCHANGED vars   BY <1>1 DEF vars, LedgerStep
<1>2. CASE Tick   BY <1>2 DEF Tick, LedgerStep
<1>3. ASSUME NEW p \in Procs, Continue(p) PROVE LedgerStep
  <2>1. ASSUME ReleaseRead(p) \/ ReleaseWrite(p) PROVE LedgerStep
    <3>1. proc[p].member \in 1 .. issued   BY <2>1, AtFields DEF ReleaseRead, ReleaseWrite, At, MemberSteps
    <3>2. issued' = issued /\ (UNCHANGED ledger \/ ledger' = Released(proc[p].member))
      BY <2>1 DEF ReleaseRead, ReleaseWrite
    <3> QED BY <3>1, <3>2, ReleasedSettles DEF LedgerStep
  <2>2. ASSUME SweepRange(p) \/ SweepNext(p) \/ CheckIdem(p) \/ AcquireLock(p) \/ ReadBudget(p)
               \/ Unlock(p) \/ ReleaseLock(p) \/ ReleaseUnlock(p) \/ SweepDelMeta(p)
               \/ SweepRem(p) \/ ReadMeta(p) \/ ForgetReleased(p)
        PROVE  UNCHANGED <<issued, ledger>>
    BY <2>2 DEF SweepRange, SweepNext, CheckIdem, AcquireLock, ReadBudget, Unlock, ReleaseLock,
                ReleaseUnlock, SweepDelMeta, SweepRem, ReadMeta, ForgetReleased
  <2> QED BY <1>3, <2>1, <2>2 DEF Continue, LedgerStep
<1>4. ASSUME NEW p \in Procs, NEW i \in Ids, CommitReservation(p, i) PROVE LedgerStep
  <2>1. issued' = issued   BY <1>4 DEF CommitReservation
  <2> QED BY <1>4, <2>1, CommitSettles DEF LedgerStep
<1>5. ASSUME NEW p \in Procs, \/ \E s \in Sessions, k \in Keys, a \in Amounts : StartReserve(p, s, k, a)
                              \/ \E i \in Ids : StartRelease(p, i)
                              \/ Crash(p)
      PROVE  LedgerStep
  BY <1>5 DEF StartReserve, StartRelease, Crash, LedgerStep
<1> QED BY <1>1, <1>2, <1>3, <1>4, <1>5 DEF Next

\* An entry keeps its session, amount and score, and is not reserved again.
LEMMA EntryStays ==
    ASSUME StateInv, LedgerStep, NEW i \in 1 .. issued
    PROVE  /\ i \in 1 .. issued' /\ ledger'[i].session = ledger[i].session
           /\ ledger'[i].amount = ledger[i].amount /\ ledger'[i].score = ledger[i].score
           /\ ledger[i].status # "reserved" => ledger'[i].status = ledger[i].status
           /\ ~ledger'[i].overdrawn => ~ledger[i].overdrawn
<1>0. i \in Ids /\ issued \in Nat /\ ledger \in [Ids -> IssuedType \cup {Unissued}]
  BY IssuedEntry, ConstantTypes DEF StateInv, LedgerOK
<1>1. CASE UNCHANGED <<issued, ledger>>   BY <1>1
<1>2. CASE issued' = issued /\ \E j, e : Settles(j, e)
  <2>1. PICK j, e : Settles(j, e)   BY <1>2
  <2>2. j \in Ids   BY <2>1, IssuedEntry DEF Settles
  <2>3. ledger'[i] = IF i = j THEN e ELSE ledger[i]   BY <1>0, <2>1, <2>2 DEF Settles
  <2>4. CASE i = j   BY <1>2, <2>1, <2>3, <2>4 DEF Settles
  <2>5. CASE i # j   BY <1>2, <2>3, <2>5
  <2> QED BY <2>4, <2>5
<1>3. CASE \E p \in Procs : MakeReservation(p)
  <2>1. PICK p \in Procs : MakeReservation(p)   BY <1>3
  <2>2. ledger'[i] = ledger[i]   BY <1>0, <2>1, MakeStep
  <2>3. issued' = issued + 1   BY <2>1 DEF MakeReservation
  <2> QED BY <1>0, <2>2, <2>3
<1> QED BY <1>1, <1>2, <1>3 DEF LedgerStep

LEMMA GotoFields ==
    ASSUME StateInv, NEW p \in Procs, NEW label, proc[p] # Idle, Goto(p, label)
    PROVE  /\ proc'[p].pc = label /\ proc'[p].op = proc[p].op
           /\ proc'[p].member = proc[p].member /\ proc'[p].read = proc[p].read
           /\ proc[p] \in ReserveRequest => proc'[p].session = proc[p].session
                                            /\ proc'[p].amount = proc[p].amount
                                            /\ proc'[p].members = proc[p].members
<1>1. PICK r : r = [proc[p] EXCEPT !.pc = label]   OBVIOUS
<1>2. proc[p] \in ReserveRequest \cup ReleaseRequest /\ proc'[p] = r
  BY <1>1, AtFields DEF Goto, Request
<1>3. CASE proc[p] \in ReserveRequest   BY <1>1, <1>2, <1>3 DEF ReserveRequest
<1>4. CASE proc[p] \in ReleaseRequest
  <2>1. proc[p] \notin ReserveRequest   BY <1>4 DEF ReserveRequest, ReleaseRequest
  <2> QED BY <1>1, <1>2, <1>4, <2>1 DEF ReleaseRequest
<1> QED BY <1>2, <1>3, <1>4

LEMMA ReturnFields ==
    ASSUME StateInv, NEW p \in Procs, Return(p)
    PROVE  proc'[p].pc = "idle"
BY AtFields DEF Return, Idle

\* The other requests stay where they are.
LEMMA OthersStay ==
    ASSUME StateInv, NEW p \in Procs,
           \/ Continue(p) \/ Crash(p)
           \/ \E s \in Sessions, k \in Keys, a \in Amounts : StartReserve(p, s, k, a)
           \/ \E i \in Ids : StartRelease(p, i) \/ CommitReservation(p, i)
    PROVE  \A q \in Procs \ {p} : proc'[q] = proc[q]
<1>0. proc \in [Procs -> Request]   BY DEF StateInv, ProcOK
<1>1. CASE proc' = proc   BY <1>1
<1>2. CASE \E r : proc' = [proc EXCEPT ![p] = r]   BY <1>0, <1>2
<1>3. CASE Continue(p)
  <2>1. ASSUME NEW label, Goto(p, label) PROVE \A q \in Procs \ {p} : proc'[q] = proc[q]
    BY <1>0, <2>1 DEF Goto
  <2>2. ASSUME Return(p) PROVE \A q \in Procs \ {p} : proc'[q] = proc[q]
    BY <1>0, <2>2 DEF Return
  <2>3. CASE SweepRange(p)   BY <1>0, <2>3 DEF SweepRange
  <2>4. CASE SweepNext(p)   BY <1>0, <2>1, <2>4 DEF SweepNext
  <2>5. CASE ReadBudget(p)   BY <1>0, <2>5 DEF ReadBudget
  <2>6. CASE ReleaseRead(p)   BY <1>0, <2>1, <2>6 DEF ReleaseRead
  <2>7. CASE CheckIdem(p) \/ AcquireLock(p) \/ MakeReservation(p) \/ Unlock(p)
    BY <2>1, <2>2, <2>7 DEF CheckIdem, AcquireLock, SetNX, MakeReservation, Unlock
  <2>8. CASE ReleaseLock(p) \/ ReleaseWrite(p) \/ ReleaseUnlock(p)
    BY <2>1, <2>2, <2>8 DEF ReleaseLock, SetNX, ReleaseWrite, ReleaseUnlock
  <2>9. CASE SweepDelMeta(p) \/ SweepRem(p) \/ ReadMeta(p) \/ ForgetReleased(p)
    BY <2>1, <2>2, <2>9 DEF SweepDelMeta, SweepRem, ReadMeta, ForgetReleased
  <2> QED BY <1>3, <2>3, <2>4, <2>5, <2>6, <2>7, <2>8, <2>9 DEF Continue
<1>4. CASE Crash(p)   BY <1>2, <1>4 DEF Crash, Return
<1>5. CASE \E s \in Sessions, k \in Keys, a \in Amounts : StartReserve(p, s, k, a)
  BY <1>2, <1>5 DEF StartReserve
<1>6. CASE \E i \in Ids : StartRelease(p, i) \/ CommitReservation(p, i)
  BY <1>1, <1>2, <1>6 DEF StartRelease, CommitReservation
<1> QED BY <1>3, <1>4, <1>5, <1>6

\* The steps of a request outside the critical sections.
Outside(p) ==
    \/ SweepRange(p) \/ SweepNext(p) \/ CheckIdem(p) \/ SweepRem(p)
    \/ ReadMeta(p) \/ ForgetReleased(p) \/ Crash(p)
    \/ \E s \in Sessions, k \in Keys, a \in Amounts : StartReserve(p, s, k, a)
    \/ \E i \in Ids : StartRelease(p, i)

LEMMA OutsideLock ==
    ASSUME StateInv, NEW p \in Procs, Outside(p)
    PROVE  /\ proc'[p].pc \in {"idle", "sweep", "next", "idem", "lock", "relLock", "meta"}
           /\ UNCHANGED <<now, aggregate, lock, issued, ledger>>
<1>0. proc \in [Procs -> Request]   BY DEF StateInv, ProcOK
<1>1. CASE SweepRange(p)
  <2>1. proc[p] \in ReserveRequest   BY <1>1, AtFields DEF SweepRange, At, ReserveSteps
  <2>2. PICK m : proc' = [proc EXCEPT ![p].pc = "next", ![p].members = m]   BY <1>1 DEF SweepRange
  <2>3. proc'[p].pc = "next"   BY <1>0, <2>1, <2>2 DEF ReserveRequest
  <2> QED BY <1>1, <2>3 DEF SweepRange
<1>2. CASE SweepNext(p)
  <2>1. proc[p] \in ReserveRequest /\ proc[p] # Idle
    BY <1>2, AtFields DEF SweepNext, At, ReserveSteps, Idle
  <2>2. CASE Goto(p, "idem")   BY <1>2, <2>1, <2>2, GotoFields DEF SweepNext
  <2>3. CASE \E i \in proc[p].members :
                proc' = [proc EXCEPT ![p].pc = "relLock", ![p].members = @ \ {i}, ![p].member = i]
    <3>1. PICK i : proc' = [proc EXCEPT ![p].pc = "relLock", ![p].members = @ \ {i}, ![p].member = i]
      BY <2>3
    <3>2. proc'[p].pc = "relLock"   BY <1>0, <2>1, <3>1 DEF ReserveRequest
    <3> QED BY <1>2, <3>2 DEF SweepNext
  <2> QED BY <1>2, <2>2, <2>3 DEF SweepNext
<1>3. CASE CheckIdem(p)
  <2>1. proc[p] # Idle   BY <1>3 DEF CheckIdem, At, Idle
  <2> QED BY <1>3, <2>1, GotoFields, ReturnFields DEF CheckIdem
<1>4. CASE SweepRem(p)
  <2>1. proc[p] # Idle   BY <1>4 DEF SweepRem, At, Idle
  <2> QED BY <1>4, <2>1, GotoFields DEF SweepRem
<1>5. CASE ReadMeta(p)
  <2>1. proc[p] # Idle   BY <1>5 DEF ReadMeta, At, Idle
  <2> QED BY <1>5, <2>1, GotoFields, ReturnFields DEF ReadMeta
<1>6. CASE ForgetReleased(p) \/ Crash(p)   BY <1>6, ReturnFields DEF ForgetReleased, Crash
<1>7. CASE \E s \in Sessions, k \in Keys, a \in Amounts : StartReserve(p, s, k, a)
  BY <1>0, <1>7 DEF StartReserve
<1>8. CASE \E i \in Ids : StartRelease(p, i)   BY <1>0, <1>8 DEF StartRelease
<1> QED BY <1>1, <1>2, <1>3, <1>4, <1>5, <1>6, <1>7, <1>8 DEF Outside

\* The session lock that a request holds.
LEMMA LockedSession ==
    ASSUME StateInv, NEW p \in Procs, proc[p].pc \in Critical
    PROVE  /\ LockedBy(p) \in Sessions /\ proc[p] # Idle
           /\ proc[p].pc \in {"get", "exec", "unlock"} =>
                 proc[p] \in ReserveRequest /\ LockedBy(p) = proc[p].session
           /\ proc[p].pc \in {"relGet", "relSet", "relUnlock"} =>
                 proc[p].member \in 1 .. issued /\ LockedBy(p) = Member(p).session
<1>1. CASE proc[p].pc \in {"get", "exec", "unlock"}
  <2>1. proc[p] \in ReserveRequest   BY <1>1, AtFields DEF ReserveSteps
  <2>2. proc[p].op = "reserve" /\ proc[p].session \in Sessions   BY <2>1 DEF ReserveRequest
  <2> QED BY <1>1, <2>1, <2>2 DEF LockedBy, Idle
<1>2. CASE proc[p].pc \in {"relGet", "relSet", "relUnlock"}
  <2>1. proc[p].member \in 1 .. issued   BY <1>2, AtFields DEF MemberSteps
  <2>2. Member(p).session \in Sessions   BY <2>1, IssuedEntry DEF Member
  <2> QED BY <1>2, <2>1, <2>2 DEF LockedBy, Idle
<1> QED BY <1>1, <1>2 DEF Critical

\* It stays the same while the request does.
LEMMA LockedStays ==
    ASSUME StateInv, LedgerStep, NEW p \in Procs, proc[p].pc \in Critical, proc'[p] = proc[p]
    PROVE  LockedBy(p)' = LockedBy(p)
<1>1. CASE proc[p].pc \in {"get", "exec", "unlock"}
  <2>1. proc[p].op = "reserve"   BY <1>1, LockedSession DEF ReserveRequest
  <2> QED BY <1>1, <2>1 DEF LockedBy
<1>2. CASE proc[p].pc \in {"relGet", "relSet", "relUnlock"}
  <2>1. proc[p].member \in 1 .. issued   BY <1>2, LockedSession
  <2>2. ledger'[proc[p].member].session = ledger[proc[p].member].session   BY <2>1, EntryStays
  <2> QED BY <1>2, <2>2 DEF LockedBy, Member
<1> QED BY <1>1, <1>2 DEF Critical

\* SETNX: the request is refused, or takes a lock that was free.
LEMMA TakesLock ==
    ASSUME StateInv, NEW p \in Procs, AcquireLock(p) \/ ReleaseLock(p)
    PROVE  /\ UNCHANGED <<now, aggregate, index, issued, ledger>>
           /\ \/ proc'[p].pc = "idle" /\ UNCHANGED lock
              \/ /\ proc'[p].pc \in {"get", "relGet"}
                 /\ LockedBy(p)' \in Sessions /\ lock[LockedBy(p)'] = 0
                 /\ lock' = [lock EXCEPT ![LockedBy(p)'] = LockUntil] /\ LockUntil \in Nat \ {0}
<1>0. LockUntil \in Nat \ {0}   BY ConstantTypes DEF LockUntil, StateInv, StoreOK
<1>1. CASE AcquireLock(p)
  <2>1. proc[p] \in ReserveRequest /\ proc[p] # Idle
    BY <1>1, AtFields DEF AcquireLock, At, ReserveSteps, Idle
  <2>2. PICK s \in Sessions : s = proc[p].session   BY <2>1 DEF ReserveRequest
  <2>3. SetNX(p, s, "get") /\ UNCHANGED <<now, aggregate, index, issued, ledger>>
    BY <1>1, <2>2 DEF AcquireLock
  <2>4. CASE lock[s] # 0   BY <2>3, <2>4, ReturnFields DEF SetNX
  <2>5. CASE lock[s] = 0
    <3>1. Goto(p, "get") /\ lock' = [lock EXCEPT ![s] = LockUntil]   BY <2>3, <2>5 DEF SetNX
    <3>2. proc'[p].pc = "get" /\ proc'[p].op = "reserve" /\ proc'[p].session = s
      BY <2>1, <2>2, <3>1, GotoFields DEF ReserveRequest
    <3>3. LockedBy(p)' = s   BY <3>2 DEF LockedBy
    <3> QED BY <1>0, <2>3, <2>5, <3>1, <3>2, <3>3
  <2> QED BY <2>4, <2>5
<1>2. CASE ReleaseLock(p)
  <2>1. proc[p].member \in 1 .. issued /\ proc[p] # Idle
    BY <1>2, AtFields DEF ReleaseLock, At, MemberSteps, Idle
  <2>2. PICK s \in Sessions : s = ledger[proc[p].member].session   BY <2>1, IssuedEntry
  <2>3. SetNX(p, s, "relGet") /\ UNCHANGED <<now, aggregate, index, issued, ledger>>
    BY <1>2, <2>2 DEF ReleaseLock, Member
  <2>4. CASE lock[s] # 0   BY <2>3, <2>4, ReturnFields DEF SetNX
  <2>5. CASE lock[s] = 0
    <3>1. Goto(p, "relGet") /\ lock' = [lock EXCEPT ![s] = LockUntil]   BY <2>3, <2>5 DEF SetNX
    <3>2. proc'[p].pc = "relGet" /\ proc'[p].member = proc[p].member
      BY <2>1, <3>1, GotoFields
    <3>3. LockedBy(p)' = s   BY <2>2, <2>3, <3>2 DEF LockedBy, Member
    <3> QED BY <1>0, <2>3, <2>5, <3>1, <3>2, <3>3
  <2> QED BY <2>4, <2>5
<1> QED BY <1>1, <1>2

\* The commands of a critical section.
LEMMA UnderLock ==
    ASSUME StateInv, NEW p \in Procs
    PROVE  /\ ReadBudget(p) =>
                 /\ proc[p].pc = "get" /\ proc'[p].pc \in {"exec", "unlock"}
                 /\ proc'[p].session = proc[p].session /\ proc'[p].amount = proc[p].amount
                 /\ proc'[p].op = "reserve" /\ proc'[p].read = Amount(proc[p].session)
                 /\ proc'[p].pc = "exec" =>
                       Amount(proc[p].session) + proc[p].amount <= MaxTotal[proc[p].session]
                 /\ UNCHANGED <<now, aggregate, index, lock, issued, ledger>>
           /\ MakeReservation(p) =>
                 /\ proc[p].pc = "exec" /\ proc'[p].pc = "unlock" /\ proc'[p].op = "reserve"
                 /\ proc'[p].session = proc[p].session /\ UNCHANGED <<now, lock>>
           /\ ReleaseRead(p) =>
                 /\ proc[p].pc = "relGet" /\ proc'[p].member = proc[p].member
                 /\ \/ /\ proc'[p].pc = "relUnlock" /\ aggregate[Member(p).session] = Nil
                       /\ ledger' = IF Member(p).status = "reserved"
                                    THEN Released(proc[p].member) ELSE ledger
                    \/ /\ proc'[p].pc = "relSet" /\ aggregate[Member(p).session] # Nil
                       /\ proc'[p].read = Amount(Member(p).session) /\ UNCHANGED ledger
                 /\ UNCHANGED <<now, aggregate, index, lock, issued>>
           /\ ReleaseWrite(p) =>
                 /\ proc[p].pc = "relSet" /\ proc'[p].pc = "relUnlock"
                 /\ proc'[p].member = proc[p].member /\ ledger' = Released(proc[p].member)
                 /\ UNCHANGED <<now, index, lock, issued>>
<1>0. proc \in [Procs -> Request]   BY DEF StateInv, ProcOK
<1>1. ASSUME ReadBudget(p)
      PROVE  /\ proc[p].pc = "get" /\ proc'[p].pc \in {"exec", "unlock"}
             /\ proc'[p].session = proc[p].session /\ proc'[p].amount = proc[p].amount
             /\ proc'[p].op = "reserve" /\ proc'[p].read = Amount(proc[p].session)
             /\ proc'[p].pc = "exec" =>
                   Amount(proc[p].session) + proc[p].amount <= MaxTotal[proc[p].session]
             /\ UNCHANGED <<now, aggregate, index, lock, issued, ledger>>
  <2>1. proc[p] \in ReserveRequest /\ proc[p].pc = "get"
    BY <1>1, AtFields DEF ReadBudget, At, ReserveSteps
  <2>2. PICK n : n = Amount(proc[p].session)   OBVIOUS
  <2>3. PICK label \in {"exec", "unlock"} :
           /\ proc' = [proc EXCEPT ![p].pc = label, ![p].read = n]
           /\ label = "exec" => n + proc[p].amount <= MaxTotal[proc[p].session]
    BY <1>1, <2>2 DEF ReadBudget, Fits
  <2>4. PICK r : r = [proc[p] EXCEPT !.pc = label, !.read = n]   OBVIOUS
  <2>5. proc'[p] = r   BY <1>0, <2>3, <2>4
  <2>6. /\ r.pc = label /\ r.session = proc[p].session /\ r.amount = proc[p].amount
        /\ r.op = "reserve" /\ r.read = n
    BY <2>1, <2>4 DEF ReserveRequest
  <2> QED BY <1>1, <2>1, <2>2, <2>3, <2>5, <2>6 DEF ReadBudget
<1>2. ASSUME MakeReservation(p)
      PROVE  /\ proc[p].pc = "exec" /\ proc'[p].pc = "unlock" /\ proc'[p].op = "reserve"
             /\ proc'[p].session = proc[p].session /\ UNCHANGED <<now, lock>>
  <2>1. proc[p] \in ReserveRequest /\ proc[p] # Idle /\ proc[p].pc = "exec"
    BY <1>2, AtFields DEF MakeReservation, At, ReserveSteps, Idle
  <2>2. Goto(p, "unlock") /\ UNCHANGED <<now, lock>>   BY <1>2 DEF MakeReservation
  <2> QED BY <2>1, <2>2, GotoFields DEF ReserveRequest
<1>3. ASSUME ReleaseRead(p)
      PROVE  /\ proc[p].pc = "relGet" /\ proc'[p].member = proc[p].member
             /\ \/ /\ proc'[p].pc = "relUnlock" /\ aggregate[Member(p).session] = Nil
                   /\ ledger' = IF Member(p).status = "reserved"
                                THEN Released(proc[p].member) ELSE ledger
                \/ /\ proc'[p].pc = "relSet" /\ aggregate[Member(p).session] # Nil
                   /\ proc'[p].read = Amount(Member(p).session) /\ UNCHANGED ledger
             /\ UNCHANGED <<now, aggregate, index, lock, issued>>
  <2>1. proc[p] \in ReserveRequest \cup ReleaseRequest /\ proc[p] # Idle /\ proc[p].pc = "relGet"
    BY <1>3, AtFields DEF ReleaseRead, At, MemberSteps, Idle
  <2>2. UNCHANGED <<now, aggregate, index, lock, issued>>   BY <1>3 DEF ReleaseRead
  <2>3. CASE aggregate[Member(p).session] = Nil
    <3>1. /\ Goto(p, "relUnlock")
          /\ ledger' = IF Member(p).status = "reserved" THEN Released(proc[p].member) ELSE ledger
      BY <1>3, <2>3 DEF ReleaseRead
    <3> QED BY <2>1, <2>2, <2>3, <3>1, GotoFields
  <2>4. CASE aggregate[Member(p).session] # Nil
    <3>1. PICK n : n = Amount(Member(p).session)   OBVIOUS
    <3>2. proc' = [proc EXCEPT ![p].pc = "relSet", ![p].read = n] /\ UNCHANGED ledger
      BY <1>3, <2>4, <3>1 DEF ReleaseRead
    <3>3. PICK r : r = [proc[p] EXCEPT !.pc = "relSet", !.read = n]   OBVIOUS
    <3>4. proc'[p] = r   BY <1>0, <3>2, <3>3
    <3>5. r.pc = "relSet" /\ r.read = n /\ r.member = proc[p].member
      BY <2>1, <3>3 DEF ReserveRequest, ReleaseRequest
    <3> QED BY <2>1, <2>2, <2>4, <3>1, <3>2, <3>4, <3>5
  <2> QED BY <2>3, <2>4
<1>4. ASSUME ReleaseWrite(p)
      PROVE  /\ proc[p].pc = "relSet" /\ proc'[p].pc = "relUnlock"
             /\ proc'[p].member = proc[p].member /\ ledger' = Released(proc[p].member)
             /\ UNCHANGED <<now, index, lock, issued>>
  <2>1. proc[p] # Idle /\ proc[p].pc = "relSet"   BY <1>4 DEF ReleaseWrite, At, Idle
  <2>2. Goto(p, "relUnlock") /\ ledger' = Released(proc[p].member) /\ UNCHANGED <<now, index, lock, issued>>
    BY <1>4 DEF ReleaseWrite
  <2> QED BY <2>1, <2>2, GotoFields
<1> QED BY <1>1, <1>2, <1>3, <1>4

\* The DEL of the lock, and what follows it.
LEMMA FreesLock ==
    ASSUME StateInv, NEW p \in Procs
    PROVE  /\ Unlock(p) \/ ReleaseUnlock(p) =>
                 /\ proc[p].pc \in Critical /\ lock' = [lock EXCEPT ![LockedBy(p)] = 0]
                 /\ UNCHANGED <<now, aggregate, index, issued, ledger>>
           /\ Unlock(p) => proc'[p].pc = "idle"
           /\ ReleaseUnlock(p) =>
                 /\ proc[p].pc = "relUnlock" /\ proc'[p].pc = "del"
                 /\ proc'[p].member = proc[p].member
           /\ SweepDelMeta(p) =>
                 /\ proc[p].pc = "del" /\ proc'[p].pc = "rem"
                 /\ proc'[p].member = proc[p].member
                 /\ UNCHANGED <<now, aggregate, index, lock, issued, ledger>>
<1>1. ASSUME Unlock(p)
      PROVE  /\ proc[p].pc \in Critical /\ lock' = [lock EXCEPT ![LockedBy(p)] = 0]
             /\ UNCHANGED <<now, aggregate, index, issued, ledger>> /\ proc'[p].pc = "idle"
  <2>1. proc[p].pc = "unlock"   BY <1>1 DEF Unlock, At
  <2>2. proc[p].pc \in Critical   BY <2>1 DEF Critical
  <2>3. LockedBy(p) = proc[p].session   BY <2>1, <2>2, LockedSession
  <2> QED BY <1>1, <2>2, <2>3, ReturnFields DEF Unlock
<1>2. ASSUME ReleaseUnlock(p)
      PROVE  /\ proc[p].pc \in Critical /\ lock' = [lock EXCEPT ![LockedBy(p)] = 0]
             /\ UNCHANGED <<now, aggregate, index, issued, ledger>>
             /\ proc[p].pc = "relUnlock" /\ proc'[p].pc = "del" /\ proc'[p].member = proc[p].member
  <2>1. proc[p].pc = "relUnlock" /\ proc[p] # Idle   BY <1>2 DEF ReleaseUnlock, At, Idle
  <2>2. proc[p].pc \in Critical   BY <2>1 DEF Critical
  <2>3. LockedBy(p) = Member(p).session   BY <2>1, <2>2, LockedSession
  <2> QED BY <1>2, <2>1, <2>2, <2>3, GotoFields DEF ReleaseUnlock
<1>3. ASSUME SweepDelMeta(p)
      PROVE  /\ proc[p].pc = "del" /\ proc'[p].pc = "rem" /\ proc'[p].member = proc[p].member
             /\ UNCHANGED <<now, aggregate, index, lock, issued, ledger>>
  <2>1. proc[p].pc = "del" /\ proc[p] # Idle   BY <1>3 DEF SweepDelMeta, At, Idle
  <2> QED BY <1>3, <2>1, GotoFields DEF SweepDelMeta
<1> QED BY <1>1, <1>2, <1>3

-----------------------------------------------------------------------------
(* A reservation stays in the index until it is settled or given back.     *)

LEMMA ReleasedEntry ==
    ASSUME StateInv, NEW i \in 1 .. issued, ledger' = Released(i)
    PROVE  ledger'[i].status # "reserved"
<1>1. PICK e : Settles(i, e)   BY ReleasedSettles
<1>2. ledger'[i] = e   BY <1>1, IssuedEntry DEF Settles, StateInv, LedgerOK
<1> QED BY <1>1, <1>2 DEF Settles

LEMMA IndexStep == ASSUME StateInv, IndexInv, [Next]_vars PROVE IndexInv'
<1>0. LedgerStep /\ StateInv' /\ issued \in Nat
  BY LedgerChange, StateStep, ConstantTypes DEF StateInv, LedgerOK
<1>1. ASSUME NEW q \in Procs, proc'[q] = proc[q], proc'[q].pc \in {"relUnlock", "del", "rem"}
      PROVE  ledger'[proc'[q].member].status # "reserved"
  <2>1. proc[q].member \in 1 .. issued   BY <1>1, AtFields DEF MemberSteps
  <2>2. ledger[proc[q].member].status # "reserved"   BY <1>1 DEF IndexInv, ForgetsReleased
  <2> QED BY <1>0, <1>1, <2>1, <2>2, EntryStays
<1>2. ASSUME NEW i \in 1 .. issued, ledger'[i].status = "reserved" PROVE i \in index
  BY <1>0, <1>2, EntryStays DEF IndexInv, ReservedIndexed
<1>3. ASSUME UNCHANGED proc PROVE ForgetsReleased'   BY <1>1, <1>3 DEF ForgetsReleased
<1>4. ASSUME UNCHANGED <<index, issued>> PROVE ReservedIndexed'   BY <1>2, <1>4 DEF ReservedIndexed
<1>5. ASSUME NEW p \in Procs, \A q \in Procs \ {p} : proc'[q] = proc[q],
             \/ proc'[p].pc \notin {"relUnlock", "del", "rem"}
             \/ ledger'[proc'[p].member].status # "reserved"
      PROVE  ForgetsReleased'
  BY <1>1, <1>5 DEF ForgetsReleased
<1>6. ASSUME NEW i, ledger'[i].status # "reserved", issued' = issued, index' = index \ {i}
      PROVE  ReservedIndexed'
  BY <1>2, <1>6 DEF ReservedIndexed
<1>7. CASE UNCHANGED vars \/ Tick   BY <1>3, <1>4, <1>7 DEF vars, Tick, IndexInv
<1>8. ASSUME NEW p \in Procs, NEW i \in Ids, CommitReservation(p, i) PROVE IndexInv'
  <2>1. UNCHANGED <<proc, issued>> /\ index' = index \ {i} /\ i \in 1 .. issued
    BY <1>8, ConstantTypes DEF CommitReservation, Ids, StateInv, LedgerOK
  <2>2. ledger'[i].status # "reserved"
    <3>1. CASE ledger[i].status = "reserved"
      <4>1. ledger' = [ledger EXCEPT ![i].status = "committed"]
        BY <1>8, <3>1 DEF CommitReservation
      <4>2. ledger[i] \in IssuedType /\ ledger \in [Ids -> IssuedType \cup {Unissued}]
        BY <2>1, IssuedEntry DEF StateInv, LedgerOK
      <4> QED BY <4>1, <4>2 DEF IssuedType
    <3>2. CASE ledger[i].status # "reserved"   BY <1>8, <3>2 DEF CommitReservation
    <3> QED BY <3>1, <3>2
  <2> QED BY <1>3, <1>6, <2>1, <2>2 DEF IndexInv
<1>9. ASSUME NEW p \in Procs, Outside(p) PROVE IndexInv'
  <2>1. /\ \A q \in Procs \ {p} : proc'[q] = proc[q]
        /\ proc'[p].pc \notin {"relUnlock", "del", "rem"} /\ UNCHANGED <<issued, ledger>>
    BY <1>9, OthersStay, OutsideLock DEF Outside, Continue
  <2>2. ReservedIndexed'
    <3>1. CASE SweepRem(p) \/ ForgetReleased(p)
      <4>1. proc[p].pc \in {"del", "rem"} /\ index' = index \ {proc[p].member}
        BY <3>1 DEF SweepRem, ForgetReleased, At
      <4>2. ledger'[proc[p].member].status # "reserved"
        BY <2>1, <4>1 DEF IndexInv, ForgetsReleased
      <4> QED BY <1>6, <2>1, <4>1, <4>2
    <3>2. CASE ~(SweepRem(p) \/ ForgetReleased(p))
      <4>1. UNCHANGED index
        BY <1>9, <3>2 DEF Outside, SweepRange, SweepNext, CheckIdem, ReadMeta, Crash, StartReserve, StartRelease
      <4> QED BY <1>4, <2>1, <4>1
    <3> QED BY <3>1, <3>2
  <2> QED BY <1>5, <2>1, <2>2 DEF IndexInv
<1>10. ASSUME NEW p \in Procs, Continue(p), ~Outside(p) PROVE IndexInv'
  <2>0. \A q \in Procs \ {p} : proc'[q] = proc[q]   BY <1>10, OthersStay
  <2>1. CASE AcquireLock(p) \/ ReleaseLock(p)
    BY <1>4, <1>5, <2>0, <2>1, TakesLock DEF IndexInv
  <2>2. CASE ReadBudget(p)   BY <1>4, <1>5, <2>0, <2>2, UnderLock DEF IndexInv
  <2>3. CASE MakeReservation(p)
    <3>1. index' = index \cup {issued + 1} /\ issued' = issued + 1   BY <2>3 DEF MakeReservation, Indexed
    <3>2. ReservedIndexed'   BY <1>0, <1>2, <3>1 DEF ReservedIndexed
    <3> QED BY <1>5, <2>0, <2>3, <3>2, UnderLock DEF IndexInv
  <2>4. CASE ReleaseRead(p)
    <3>1. proc[p].pc = "relGet"   BY <2>4, UnderLock
    <3>2. proc[p].member \in 1 .. issued   BY <3>1, AtFields DEF MemberSteps
    <3>3. \/ proc'[p].pc = "relSet"
          \/ /\ proc'[p].member = proc[p].member
             /\ ledger' = IF ledger[proc[p].member].status = "reserved"
                          THEN Released(proc[p].member) ELSE ledger
      BY <2>4, UnderLock DEF Member
    <3>4. proc'[p].pc = "relSet" \/ ledger'[proc'[p].member].status # "reserved"
      BY <3>2, <3>3, ReleasedEntry
    <3> QED BY <1>4, <1>5, <2>0, <2>4, <3>4, UnderLock DEF IndexInv
  <2>5. CASE ReleaseWrite(p)
    <3>1. proc[p].pc = "relSet" /\ ledger' = Released(proc[p].member) /\ proc'[p].member = proc[p].member
      BY <2>5, UnderLock
    <3>2. proc[p].member \in 1 .. issued   BY <3>1, AtFields DEF MemberSteps
    <3>3. ledger'[proc'[p].member].status # "reserved"   BY <3>1, <3>2, ReleasedEntry
    <3> QED BY <1>4, <1>5, <2>0, <2>5, <3>3, UnderLock DEF IndexInv
  <2>6. CASE Unlock(p)   BY <1>4, <1>5, <2>0, <2>6, FreesLock DEF IndexInv
  <2>7. CASE ReleaseUnlock(p) \/ SweepDelMeta(p)
    <3>1. /\ proc[p].pc \in {"relUnlock", "del"} /\ proc'[p].member = proc[p].member
          /\ UNCHANGED <<index, issued, ledger>>
      BY <2>7, FreesLock
    <3>2. ledger'[proc'[p].member].status # "reserved"   BY <3>1 DEF IndexInv, ForgetsReleased
    <3> QED BY <1>4, <1>5, <2>0, <3>1, <3>2 DEF IndexInv
  <2> QED BY <1>10, <2>1, <2>2, <2>3, <2>4, <2>5, <2>6, <2>7 DEF Continue, Outside
<1> QED BY <1>7, <1>8, <1>9, <1>10 DEF Next, Outside

LEMMA IndexInit == ASSUME Init PROVE IndexInv
<1>1. issued = 0 /\ \A p \in Procs : proc[p].pc = "idle"   BY DEF Init, Idle
<1> QED BY <1>1 DEF IndexInv, ForgetsReleased, ReservedIndexed

-----------------------------------------------------------------------------
(* The lock excludes while no request outlives it.                         *)

LEMMA LockStepHeld ==
    ASSUME StateInv, LockHeld, LockExclusive, [Next]_vars, ~Stalls
    PROVE  LockHeld' /\ LockExclusive'
<1>0. LedgerStep /\ lock \in [Sessions -> Nat]   BY LedgerChange DEF StateInv, StoreOK
<1>1. ASSUME NEW q \in Procs, proc'[q] = proc[q], proc'[q].pc \in Critical
      PROVE  /\ proc[q].pc \in Critical /\ LockedBy(q)' = LockedBy(q) /\ LockedBy(q) \in Sessions
             /\ lock[LockedBy(q)] # 0
  BY <1>0, <1>1, LockedStays, LockedSession DEF LockHeld
<1>2. CASE UNCHANGED <<proc, lock>>
  <2>1. LockHeld'   BY <1>1, <1>2 DEF LockHeld
  <2>2. LockExclusive'   BY <1>1, <1>2 DEF LockExclusive
  <2> QED BY <2>1, <2>2
<1>3. CASE Tick
  <2>1. \A p \in Procs : proc'[p].pc \notin Critical   BY <1>3 DEF Tick
  <2> QED BY <2>1 DEF LockHeld, LockExclusive
<1>4. ASSUME NEW p \in Procs, \A q \in Procs \ {p} : proc'[q] = proc[q],
             proc'[p].pc \notin Critical, lock' = lock
      PROVE  LockHeld' /\ LockExclusive'
  <2>1. LockHeld'   BY <1>1, <1>4 DEF LockHeld
  <2>2. LockExclusive'   BY <1>1, <1>4 DEF LockExclusive
  <2> QED BY <2>1, <2>2
<1>5. ASSUME NEW p \in Procs, \A q \in Procs \ {p} : proc'[q] = proc[q],
             proc[p].pc \in Critical, LockedBy(p)' = LockedBy(p), lock' = lock
      PROVE  LockHeld' /\ LockExclusive'
  <2>1. LockHeld'   BY <1>1, <1>5 DEF LockHeld
  <2>2. LockExclusive'   BY <1>1, <1>5 DEF LockExclusive
  <2> QED BY <2>1, <2>2
<1>6. ASSUME NEW p \in Procs, Outside(p) PROVE LockHeld' /\ LockExclusive'
  <2>1. /\ \A q \in Procs \ {p} : proc'[q] = proc[q]
        /\ lock' = lock /\ proc'[p].pc \notin Critical
    BY <1>6, OthersStay, OutsideLock DEF Outside, Continue, Critical
  <2> QED BY <1>4, <2>1
<1>7. ASSUME NEW p \in Procs, Continue(p), ~Outside(p) PROVE LockHeld' /\ LockExclusive'
  <2>0. \A q \in Procs \ {p} : proc'[q] = proc[q]   BY <1>7, OthersStay
  <2>1. CASE AcquireLock(p) \/ ReleaseLock(p)
    <3>1. CASE proc'[p].pc = "idle" /\ UNCHANGED lock   BY <1>4, <2>0, <3>1 DEF Critical
    <3>2. CASE ~(proc'[p].pc = "idle" /\ UNCHANGED lock)
      <4>1. PICK s \in Sessions : s = LockedBy(p)'   BY <2>1, <3>2, TakesLock
      <4>2. lock[s] = 0 /\ lock' = [lock EXCEPT ![s] = LockUntil] /\ LockUntil # 0
        BY <2>1, <3>2, <4>1, TakesLock
      <4>3. ASSUME NEW q \in Procs \ {p}, proc'[q].pc \in Critical
            PROVE  LockedBy(q)' # s /\ LockedBy(q)' \in Sessions /\ lock[LockedBy(q)'] # 0
        BY <1>1, <2>0, <4>2, <4>3
      <4>4. LockHeld'   BY <1>0, <4>1, <4>2, <4>3 DEF LockHeld
      <4>5. LockExclusive'   BY <1>1, <2>0, <4>1, <4>3 DEF LockExclusive
      <4> QED BY <4>4, <4>5
    <3> QED BY <3>1, <3>2
  <2>2. CASE ReadBudget(p) \/ MakeReservation(p)
    <3>1. /\ proc[p].pc \in {"get", "exec"} /\ proc'[p].pc \in {"exec", "unlock"} /\ lock' = lock
          /\ proc'[p].op = "reserve" /\ proc'[p].session = proc[p].session
      BY <2>2, UnderLock
    <3>2. proc[p].pc \in Critical   BY <3>1 DEF Critical
    <3>3. LockedBy(p) = proc[p].session /\ LockedBy(p)' = proc[p].session
      BY <3>1, <3>2, LockedSession DEF LockedBy
    <3> QED BY <1>5, <2>0, <3>1, <3>2, <3>3
  <2>3. CASE ReleaseRead(p) \/ ReleaseWrite(p)
    <3>1. /\ proc[p].pc \in {"relGet", "relSet"} /\ proc'[p].pc \in {"relSet", "relUnlock"}
          /\ lock' = lock /\ proc'[p].member = proc[p].member
      BY <2>3, UnderLock
    <3>2. proc[p].pc \in Critical   BY <3>1 DEF Critical
    <3>3. proc[p].member \in 1 .. issued /\ LockedBy(p) = ledger[proc[p].member].session
      BY <3>1, <3>2, LockedSession DEF Member
    <3>4. ledger'[proc[p].member].session = ledger[proc[p].member].session
      BY <1>0, <3>3, EntryStays
    <3>5. LockedBy(p)' = ledger'[proc[p].member].session   BY <3>1 DEF LockedBy, Member
    <3> QED BY <1>5, <2>0, <3>1, <3>2, <3>3, <3>4, <3>5
  <2>4. CASE Unlock(p) \/ ReleaseUnlock(p)
    <3>1. /\ proc[p].pc \in Critical /\ proc'[p].pc \notin Critical
          /\ lock' = [lock EXCEPT ![LockedBy(p)] = 0]
      BY <2>4, FreesLock DEF Critical
    <3>2. ASSUME NEW q \in Procs \ {p}, proc'[q].pc \in Critical
          PROVE  LockedBy(q)' # LockedBy(p) /\ LockedBy(q)' \in Sessions /\ lock[LockedBy(q)'] # 0
      BY <1>1, <2>0, <3>1, <3>2 DEF LockExclusive
    <3>3. LockHeld'   BY <1>0, <3>1, <3>2 DEF LockHeld
    <3>4. LockExclusive'   BY <1>1, <2>0, <3>1 DEF LockExclusive
    <3> QED BY <3>3, <3>4
  <2>5. CASE SweepDelMeta(p)   BY <1>4, <2>0, <2>5, FreesLock DEF Critical
  <2> QED BY <1>7, <2>1, <2>2, <2>3, <2>4, <2>5 DEF Continue, Outside
<1>8. ASSUME NEW p \in Procs, NEW i \in Ids, CommitReservation(p, i) PROVE UNCHANGED <<proc, lock>>
  BY <1>8 DEF CommitReservation
<1>9. CASE UNCHANGED vars   BY <1>2, <1>9 DEF vars
<1> QED BY <1>2, <1>3, <1>6, <1>7, <1>8, <1>9 DEF Next, Outside

(***************************************************************************)
(* LockExclusive: while no request outlives the lock it holds, at most one *)
(* is between the SETNX and the DEL of a session lock, whichever requests  *)
(* crash and leave their locks to expire.                                  *)
(***************************************************************************)
THEOREM LockExcludes == ASSUME ~Stalls PROVE Spec => []LockExclusive
<1> DEFINE Inv == StateInv /\ LockHeld /\ LockExclusive
<1>1. Init => Inv
  <2>1. SUFFICES ASSUME Init PROVE Inv   OBVIOUS
  <2>2. \A p \in Procs : proc[p].pc \notin Critical   BY <2>1 DEF Init, Idle, Critical
  <2> QED BY <2>1, <2>2, StateInit DEF LockHeld, LockExclusive
<1>2. Inv /\ [Next]_vars => Inv'   BY StateStep, LockStepHeld
<1>3. Inv => LockExclusive   OBVIOUS
<1> QED BY <1>1, <1>2, <1>3, PTL DEF Spec

-----------------------------------------------------------------------------
(* What was read under the lock is still there when it is used.            *)

\* The commands that write an aggregate.
Makes(p, s, n) ==
    /\ MakeReservation(p) /\ s = proc[p].session /\ n = proc[p].amount
    /\ aggregate' = [aggregate EXCEPT ![s] =
            [amount |-> proc[p].read + n, exp |-> now + SessionTTL]]

Lowers(p, s, n) ==
    /\ ReleaseWrite(p) /\ s = Member(p).session /\ n = Member(p).amount
    /\ aggregate' = [aggregate EXCEPT ![s] =
            [amount |-> Reduced(proc[p].read, n),
             exp    |-> IF aggregate[s] = Nil THEN Never ELSE aggregate[s].exp]]

LEMMA AggregateChange ==
    ASSUME StateInv, [Next]_vars
    PROVE  \/ UNCHANGED aggregate /\ (UNCHANGED now \/ Tick)
           \/ Tick
           \/ UNCHANGED now /\ \E p \in Procs, s \in Sessions, n \in Nat \ {0} :
                 /\ proc[p].pc \in Critical /\ LockedBy(p) = s
                 /\ Makes(p, s, n) \/ Lowers(p, s, n)
<1>1. ASSUME NEW p \in Procs, MakeReservation(p)
      PROVE  \E s \in Sessions, n \in Nat \ {0} :
                 proc[p].pc \in Critical /\ LockedBy(p) = s /\ Makes(p, s, n)
  <2>1. proc[p].pc = "exec"   BY <1>1, UnderLock
  <2>2. proc[p].pc \in Critical   BY <2>1 DEF Critical
  <2>3. LockedBy(p) = proc[p].session /\ proc[p] \in ReserveRequest   BY <2>1, <2>2, LockedSession
  <2>4. proc[p].session \in Sessions /\ proc[p].amount \in Nat \ {0}
    BY <2>3, ConstantTypes DEF ReserveRequest
  <2>5. Makes(p, proc[p].session, proc[p].amount)   BY <1>1 DEF Makes, MakeReservation
  <2> QED BY <2>2, <2>3, <2>4, <2>5
<1>2. ASSUME NEW p \in Procs, ReleaseWrite(p)
      PROVE  \E s \in Sessions, n \in Nat \ {0} :
                 proc[p].pc \in Critical /\ LockedBy(p) = s /\ Lowers(p, s, n)
  <2>1. proc[p].pc = "relSet"   BY <1>2, UnderLock
  <2>2. proc[p].pc \in Critical   BY <2>1 DEF Critical
  <2>3. LockedBy(p) = Member(p).session /\ proc[p].member \in 1 .. issued   BY <2>1, <2>2, LockedSession
  <2>4. Member(p).session \in Sessions /\ Member(p).amount \in Nat \ {0}
    BY <2>3, IssuedEntry DEF Member
  <2>5. Lowers(p, Member(p).session, Member(p).amount)   BY <1>2 DEF Lowers, ReleaseWrite
  <2> QED BY <2>2, <2>3, <2>4, <2>5
<1>3. ASSUME NEW p \in Procs, Continue(p), ~MakeReservation(p), ~ReleaseWrite(p)
      PROVE  UNCHANGED <<now, aggregate>>
  <2>1. CASE Outside(p)   BY <2>1, OutsideLock
  <2>2. CASE AcquireLock(p) \/ ReleaseLock(p)   BY <2>2, TakesLock
  <2>3. CASE ReadBudget(p) \/ ReleaseRead(p)   BY <2>3, UnderLock
  <2>4. CASE Unlock(p) \/ ReleaseUnlock(p) \/ SweepDelMeta(p)   BY <2>4, FreesLock
  <2> QED BY <1>3, <2>1, <2>2, <2>3, <2>4 DEF Continue, Outside
<1>4. ASSUME NEW p \in Procs, Outside(p) PROVE UNCHANGED <<now, aggregate>>   BY <1>4, OutsideLock
<1>5. ASSUME NEW p \in Procs, NEW i \in Ids, CommitReservation(p, i) PROVE UNCHANGED <<now, aggregate>>
  BY <1>5 DEF CommitReservation
<1>6. ASSUME NEW p \in Procs, MakeReservation(p) \/ ReleaseWrite(p) PROVE UNCHANGED now
  BY <1>6, UnderLock
<1>7. CASE UNCHANGED vars   BY <1>7 DEF vars
<1>8. CASE \E p \in Procs : MakeReservation(p) \/ ReleaseWrite(p)   BY <1>1, <1>2, <1>6, <1>8
<1> QED BY <1>3, <1>4, <1>5, <1>7, <1>8 DEF Next, Outside

\* The aggregate before and after it is written.
LEMMA WrittenAmount ==
    ASSUME StateInv, ReadFresh, NEW p \in Procs, NEW s \in Sessions, NEW n \in Nat \ {0},
           Makes(p, s, n) \/ Lowers(p, s, n)
    PROVE  /\ Makes(p, s, n) =>
                 /\ Amount(s)' = Amount(s) + n /\ Amount(s) + n <= MaxTotal[s]
                 /\ aggregate'[s].exp >= ValidUntil
           /\ Lowers(p, s, n) =>
                 /\ Amount(s)' = Reduced(Amount(s), n)
                 /\ aggregate[s] # Nil /\ aggregate'[s].exp = aggregate[s].exp
           /\ aggregate'[s] # Nil
           /\ \A t \in Sessions \ {s} : aggregate'[t] = aggregate[t]
           /\ Amount(s) \in Nat
<1>0. /\ aggregate \in [Sessions -> {Nil} \cup [amount : Nat, exp : Nat]] /\ now \in Nat
      /\ ValidUntil \in Nat /\ MinTTL \in Nat
  BY ConstantTypes DEF StateInv, StoreOK
<1>1. Amount(s) \in Nat
  <2>1. CASE aggregate[s] = Nil   BY <2>1 DEF Amount
  <2>2. CASE aggregate[s] # Nil   BY <1>0, <2>2 DEF Amount
  <2> QED BY <2>1, <2>2
<1>2. ASSUME NEW a \in Nat, NEW x, aggregate' = [aggregate EXCEPT ![s] = [amount |-> a, exp |-> x]]
      PROVE  /\ Amount(s)' = a /\ aggregate'[s].exp = x /\ aggregate'[s] # Nil
             /\ \A t \in Sessions \ {s} : aggregate'[t] = aggregate[t]
  <2>1. aggregate'[s] = [amount |-> a, exp |-> x] /\ \A t \in Sessions \ {s} : aggregate'[t] = aggregate[t]
    BY <1>0, <1>2
  <2>2. [amount |-> a, exp |-> x] # Nil   BY DEF Nil
  <2> QED BY <2>1, <2>2 DEF Amount
<1>3. CASE Makes(p, s, n)
  <2>1. proc[p].pc = "exec" /\ s = proc[p].session /\ n = proc[p].amount
    BY <1>3, UnderLock DEF Makes
  <2>2. proc[p].read = Amount(s) /\ Amount(s) + n <= MaxTotal[s]   BY <2>1 DEF ReadFresh
  <2>3. PICK x : x = now + SessionTTL   OBVIOUS
  <2>4. x >= ValidUntil   BY <1>0, <2>3 DEF SessionTTL
  <2>5. PICK a \in Nat : a = Amount(s) + n   BY <1>1
  <2>6. aggregate' = [aggregate EXCEPT ![s] = [amount |-> a, exp |-> x]]
    BY <1>3, <2>2, <2>3, <2>5 DEF Makes
  <2>7. ~Lowers(p, s, n)   BY <2>1, UnderLock DEF Lowers
  <2> QED BY <1>1, <1>2, <2>2, <2>4, <2>5, <2>6, <2>7
<1>4. CASE Lowers(p, s, n)
  <2>1. proc[p].pc = "relSet" /\ s = Member(p).session /\ n = Member(p).amount
    BY <1>4, UnderLock DEF Lowers
  <2>2. proc[p].read = Amount(s) /\ aggregate[s] # Nil   BY <2>1 DEF ReadFresh
  <2>3. PICK x : x = aggregate[s].exp   OBVIOUS
  <2>4. PICK a \in Nat : a = Reduced(Amount(s), n)   BY <1>1 DEF Reduced
  <2>5. aggregate' = [aggregate EXCEPT ![s] = [amount |-> a, exp |-> x]]
    BY <1>4, <2>2, <2>3, <2>4 DEF Lowers
  <2>6. ~Makes(p, s, n)   BY <2>1, UnderLock DEF Makes
  <2> QED BY <1>1, <1>2, <2>2, <2>3, <2>4, <2>5, <2>6
<1> QED BY <1>3, <1>4

LEMMA ReadStep ==
    ASSUME StateInv, LockHeld, LockExclusive, ReadFresh, [Next]_vars, ~Stalls
    PROVE  ReadFresh'
<1>0. LedgerStep   BY LedgerChange
\* A request that stays where it is.
<1>1. ASSUME NEW q \in Procs, proc'[q] = proc[q], proc'[q].pc \in {"exec", "relSet"},
             aggregate'[LockedBy(q)] = aggregate[LockedBy(q)]
      PROVE  /\ proc'[q].pc = "exec" =>
                   /\ proc'[q].read = Amount(proc[q].session)'
                   /\ proc'[q].read + proc'[q].amount <= MaxTotal[proc'[q].session]
             /\ proc'[q].pc = "relSet" =>
                   /\ aggregate'[Member(q).session'] # Nil
                   /\ proc'[q].read = Amount(Member(q).session)'
  <2>1. proc[q].pc \in Critical   BY <1>1 DEF Critical
  <2>2. CASE proc[q].pc = "exec"
    <3>1. LockedBy(q) = proc[q].session   BY <2>1, <2>2, LockedSession
    <3> QED BY <1>1, <2>2, <3>1 DEF ReadFresh, Amount
  <2>3. CASE proc[q].pc = "relSet"
    <3>1. LockedBy(q) = Member(q).session /\ proc[q].member \in 1 .. issued
      BY <2>1, <2>3, LockedSession
    <3>2. Member(q)'.session = Member(q).session   BY <1>0, <1>1, <3>1, EntryStays DEF Member
    <3> QED BY <1>1, <2>3, <3>1, <3>2 DEF ReadFresh, Amount
  <2> QED BY <1>1, <2>2, <2>3
\* One request moves, and the others keep what they have read.
<1>2. ASSUME NEW p \in Procs, \A q \in Procs \ {p} : proc'[q] = proc[q],
             \A q \in Procs \ {p} : proc[q].pc \in Critical =>
                 aggregate'[LockedBy(q)] = aggregate[LockedBy(q)],
             proc'[p].pc = "exec" =>
                   /\ proc'[p].read = Amount(proc[p].session)'
                   /\ proc'[p].read + proc'[p].amount <= MaxTotal[proc'[p].session],
             proc'[p].pc = "relSet" =>
                   /\ aggregate'[Member(p).session'] # Nil
                   /\ proc'[p].read = Amount(Member(p).session)'
      PROVE  ReadFresh'
  BY <1>1, <1>2 DEF ReadFresh, Critical
<1>3. CASE UNCHANGED <<proc, aggregate>>   BY <1>1, <1>3 DEF ReadFresh
<1>4. CASE Tick
  <2>1. \A p \in Procs : proc'[p].pc \notin Critical   BY <1>4 DEF Tick
  <2> QED BY <2>1 DEF ReadFresh, Critical
<1>5. ASSUME NEW p \in Procs, Outside(p) PROVE ReadFresh'
  <2>1. /\ \A q \in Procs \ {p} : proc'[q] = proc[q]
        /\ UNCHANGED aggregate /\ proc'[p].pc \notin {"exec", "relSet"}
    BY <1>5, OthersStay, OutsideLock DEF Outside, Continue
  <2> QED BY <1>2, <2>1
<1>6. ASSUME NEW p \in Procs, Continue(p), ~Outside(p) PROVE ReadFresh'
  <2>0. \A q \in Procs \ {p} : proc'[q] = proc[q]   BY <1>6, OthersStay
  <2>1. ASSUME UNCHANGED aggregate, proc'[p].pc \notin {"exec", "relSet"} PROVE ReadFresh'
    BY <1>2, <2>0, <2>1
  <2>2. CASE AcquireLock(p) \/ ReleaseLock(p)   BY <2>1, <2>2, TakesLock
  <2>3. CASE Unlock(p) \/ ReleaseUnlock(p) \/ SweepDelMeta(p)   BY <2>1, <2>3, FreesLock
  <2>4. CASE ReadBudget(p)
    <3>1. /\ UNCHANGED aggregate /\ proc'[p].pc # "relSet" /\ proc'[p].read = Amount(proc[p].session)
          /\ proc'[p].session = proc[p].session /\ proc'[p].amount = proc[p].amount
          /\ proc'[p].pc = "exec" =>
                Amount(proc[p].session) + proc[p].amount <= MaxTotal[proc[p].session]
      BY <2>4, UnderLock
    <3>2. Amount(proc[p].session)' = Amount(proc[p].session)   BY <3>1 DEF Amount
    <3> QED BY <1>2, <2>0, <3>1, <3>2
  <2>5. CASE ReleaseRead(p)
    <3>1. CASE proc'[p].pc = "relUnlock"   BY <2>1, <2>5, <3>1, UnderLock
    <3>2. CASE proc'[p].pc = "relSet"
      <4>1. /\ UNCHANGED <<aggregate, ledger>> /\ proc'[p].read = Amount(Member(p).session)
            /\ aggregate[Member(p).session] # Nil /\ proc'[p].member = proc[p].member
        BY <2>5, <3>2, UnderLock
      <4>2. Member(p)' = Member(p)   BY <4>1 DEF Member
      <4>3. Amount(Member(p).session)' = Amount(Member(p).session)   BY <4>1, <4>2 DEF Amount
      <4> QED BY <1>2, <2>0, <3>2, <4>1, <4>2, <4>3
    <3> QED BY <2>5, <3>1, <3>2, UnderLock
  <2>6. CASE MakeReservation(p) \/ ReleaseWrite(p)
    <3>1. proc[p].pc \in Critical /\ proc'[p].pc \notin {"exec", "relSet"}
      BY <2>6, UnderLock DEF Critical
    <3>2. \A t \in Sessions \ {LockedBy(p)} : aggregate'[t] = aggregate[t]
      <4>1. CASE MakeReservation(p)
        <5>1. proc[p].pc = "exec"   BY <4>1, UnderLock
        <5>2. LockedBy(p) = proc[p].session   BY <3>1, <5>1, LockedSession
        <5> QED BY <4>1, <5>2 DEF MakeReservation, StateInv, StoreOK
      <4>2. CASE ReleaseWrite(p)
        <5>1. proc[p].pc = "relSet"   BY <4>2, UnderLock
        <5>2. LockedBy(p) = Member(p).session   BY <3>1, <5>1, LockedSession
        <5> QED BY <4>2, <5>2 DEF ReleaseWrite, StateInv, StoreOK
      <4> QED BY <2>6, <4>1, <4>2
    <3>3. ASSUME NEW q \in Procs \ {p}, proc[q].pc \in Critical
          PROVE  aggregate'[LockedBy(q)] = aggregate[LockedBy(q)]
      BY <3>1, <3>2, <3>3, LockedSession DEF LockExclusive
    <3> QED BY <1>2, <2>0, <3>1, <3>3
  <2> QED BY <1>6, <2>2, <2>3, <2>4, <2>5, <2>6 DEF Continue, Outside
<1>7. ASSUME NEW p \in Procs, NEW i \in Ids, CommitReservation(p, i)
      PROVE  UNCHANGED <<proc, aggregate>>
  BY <1>7 DEF CommitReservation
<1>8. CASE UNCHANGED vars   BY <1>3, <1>8 DEF vars
<1> QED BY <1>3, <1>4, <1>5, <1>6, <1>7, <1>8 DEF Next, Outside

-----------------------------------------------------------------------------
(* The aggregate and the sum of what is reserved and committed.            *)

\* The reservations that Held adds up, and the amount of each.
Counted(s) ==
    {i \in 1 .. issued : /\ ledger[i].session = s
                         /\ ledger[i].status \in {"reserved", "committed"}}

Booked == [i \in 1 .. issued |-> ledger[i].amount]

LEMMA CountedFinite ==
    ASSUME issued \in Nat, NEW s
    PROVE  IsFiniteSet(Counted(s)) /\ Counted(s) \subseteq 1 .. issued
<1>1. IsFiniteSet(1 .. issued)   BY FS_Interval
<1>2. Counted(s) \in SUBSET (1 .. issued)   BY DEF Counted
<1> QED BY <1>1, <1>2, FS_Subset

LEMMA HeldIsTotal ==
    ASSUME issued \in Nat, NEW s
    PROVE  Held(s) = Total(Booked, Counted(s))
<1>1. PICK S : S = Counted(s)   OBVIOUS
<1>2. IsFiniteSet(S) /\ S \subseteq 1 .. issued   BY <1>1, CountedFinite
<1> DEFINE Sums(h) ==
      h = [t \in SUBSET S |->
             IF t = {} THEN 0
             ELSE ledger[CHOOSE x \in t : TRUE].amount + h[t \ {CHOOSE x \in t : TRUE}]]
<1>3. \A h : SumBy(h, Booked, S) <=> Sums(h)
  <2>1. SUFFICES ASSUME NEW h PROVE SumBy(h, Booked, S) <=> Sums(h)   OBVIOUS
  <2>2. ASSUME NEW t \in SUBSET S, t # {}
        PROVE  Booked[Pick(t)] = ledger[CHOOSE x \in t : TRUE].amount
    <3>1. Pick(t) \in 1 .. issued   BY <1>2, <2>2, PickInSet
    <3> QED BY <3>1 DEF Pick, Booked
  <2> QED BY <2>2 DEF SumBy, Pick
<1>4. \E h : SumBy(h, Booked, S)   BY <1>2, SumByExists
<1>5. \E h : Sums(h)   <2> HIDE DEF Sums   <2> QED BY <1>3, <1>4
<1>6. Sums(CHOOSE h : Sums(h))   BY <1>5, Zenon
<1>7. Held(s) = (CHOOSE h : Sums(h))[S]   BY <1>1 DEF Counted, Held, MapThenSumSet, MapThenFoldSet
<1> HIDE DEF Sums
<1>8. SumBy(CHOOSE h : Sums(h), Booked, S)   BY <1>3, <1>6
<1> QED BY <1>1, <1>2, <1>7, <1>8, TotalIs

HeldAdds ==
    \A s \in Sessions :
        /\ Held(s) = Total(Booked, Counted(s)) /\ Held(s) \in Nat
        /\ IsFiniteSet(Counted(s)) /\ Counted(s) \subseteq 1 .. issued
        /\ \A i \in Counted(s) : Booked[i] = ledger[i].amount /\ Booked[i] \in Nat

LEMMA HeldTotal == StateInv => HeldAdds
<1>1. SUFFICES ASSUME StateInv, NEW s \in Sessions
               PROVE  /\ Held(s) = Total(Booked, Counted(s)) /\ Held(s) \in Nat
                      /\ IsFiniteSet(Counted(s)) /\ Counted(s) \subseteq 1 .. issued
                      /\ \A i \in Counted(s) : Booked[i] = ledger[i].amount /\ Booked[i] \in Nat
  BY DEF HeldAdds
<1>2. issued \in Nat   BY <1>1, ConstantTypes DEF StateInv, LedgerOK
<1>3. IsFiniteSet(Counted(s)) /\ Counted(s) \subseteq 1 .. issued   BY <1>2, CountedFinite
<1>4. \A i \in Counted(s) : Booked[i] = ledger[i].amount /\ Booked[i] \in Nat
  BY <1>1, <1>3, IssuedEntry DEF Booked
<1>5. Held(s) = Total(Booked, Counted(s))   BY <1>2, HeldIsTotal
<1>6. Total(Booked, Counted(s)) \in Nat   BY <1>3, <1>4, TotalType
<1> QED BY <1>3, <1>4, <1>5, <1>6

LEMMA HeldTotalNext == StateInv' => HeldAdds'
BY HeldTotal, PTL

\* Amounts do not change, so only the set of what is counted matters.
LEMMA HeldBySet ==
    ASSUME StateInv, StateInv', LedgerStep, NEW s \in Sessions
    PROVE  /\ Counted(s)' = Counted(s) => Held(s)' = Held(s)
           /\ \A i \in Counted(s) : Counted(s)' = Counted(s) \ {i} =>
                 Held(s) = ledger[i].amount + Held(s)'
           /\ \A i : i \notin Counted(s) /\ Counted(s)' = Counted(s) \cup {i} =>
                 Held(s)' = ledger'[i].amount + Held(s)
<1>0. HeldAdds /\ HeldAdds'   BY HeldTotal, HeldTotalNext
<1>1. PICK S, T, f, g : S = Counted(s) /\ T = Counted(s)' /\ f = Booked /\ g = Booked'   OBVIOUS
<1>2. /\ Held(s) = Total(f, S) /\ IsFiniteSet(S) /\ S \subseteq 1 .. issued
      /\ \A i \in S : f[i] = ledger[i].amount /\ f[i] \in Nat
  BY <1>0, <1>1 DEF HeldAdds
<1>3. /\ Held(s)' = Total(g, T) /\ IsFiniteSet(T)
      /\ \A i \in T : g[i] = ledger'[i].amount /\ g[i] \in Nat
  BY <1>0, <1>1 DEF HeldAdds
<1>4. \A i \in S \cap T : g[i] = f[i]   BY <1>2, <1>3, EntryStays
<1>5. ASSUME T = S PROVE Held(s)' = Held(s)
  <2>1. \A i \in S : f[i] = g[i]   BY <1>4, <1>5
  <2>2. Total(f, S) = Total(g, S)   BY <1>2, <2>1, TotalSame
  <2> QED BY <1>2, <1>3, <1>5, <2>2
<1>6. ASSUME NEW i \in S, T = S \ {i} PROVE Held(s) = ledger[i].amount + Held(s)'
  <2>1. \A j \in T : f[j] = g[j]   BY <1>4, <1>6
  <2>2. Total(f, T) = Total(g, T)   BY <1>3, <2>1, TotalSame
  <2>3. \A j \in S : f[j] \in Nat   BY <1>2
  <2>4. Total(f, S) = f[i] + Total(f, S \ {i})   BY <1>2, <2>3, TotalRemove
  <2>5. f[i] = ledger[i].amount   BY <1>2
  <2> QED BY <1>2, <1>3, <1>6, <2>2, <2>4, <2>5
<1>7. ASSUME NEW i, i \notin S, T = S \cup {i} PROVE Held(s)' = ledger'[i].amount + Held(s)
  <2>1. \A j \in S : f[j] = g[j]   BY <1>4, <1>7
  <2>2. Total(f, S) = Total(g, S)   BY <1>2, <2>1, TotalSame
  <2>3. \A j \in S \cup {i} : g[j] \in Nat   BY <1>3, <1>7
  <2>4. Total(g, S \cup {i}) = g[i] + Total(g, S)   BY <1>2, <1>7, <2>3, TotalAdd
  <2>5. g[i] = ledger'[i].amount   BY <1>3, <1>7
  <2> QED BY <1>2, <1>3, <1>7, <2>2, <2>4, <2>5
<1> QED BY <1>1, <1>5, <1>6, <1>7

\* What each change of the ledger does to the sum.
LEMMA HeldChange ==
    ASSUME StateInv, StateInv', NEW s \in Sessions
    PROVE  /\ UNCHANGED <<issued, ledger>> => Held(s)' = Held(s)
           /\ \A i, e : Settles(i, e) /\ issued' = issued =>
                 IF ledger[i].session = s /\ ledger[i].status = "reserved" /\ e.status = "released"
                 THEN Held(s) = ledger[i].amount + Held(s)' ELSE Held(s)' = Held(s)
           /\ \A p \in Procs : MakeReservation(p) =>
                 IF proc[p].session = s
                 THEN Held(s)' = proc[p].amount + Held(s) ELSE Held(s)' = Held(s)
<1>0. /\ ledger \in [Ids -> IssuedType \cup {Unissued}] /\ issued \in Nat
      /\ \A i \in 1 .. issued : i \in Ids
  BY IssuedEntry, ConstantTypes DEF StateInv, LedgerOK
<1>1. ASSUME UNCHANGED <<issued, ledger>> PROVE Held(s)' = Held(s)
  <2>1. Counted(s)' = Counted(s) /\ LedgerStep   BY <1>1 DEF Counted, LedgerStep
  <2> QED BY <2>1, HeldBySet
<1>2. ASSUME NEW i, NEW e, Settles(i, e), issued' = issued
      PROVE  IF ledger[i].session = s /\ ledger[i].status = "reserved" /\ e.status = "released"
             THEN Held(s) = ledger[i].amount + Held(s)' ELSE Held(s)' = Held(s)
  <2>1. LedgerStep   BY <1>2 DEF LedgerStep
  <2>2. i \in 1 .. issued /\ i \in Ids   BY <1>0, <1>2 DEF Settles
  <2>3. \A j \in 1 .. issued : ledger'[j] = IF j = i THEN e ELSE ledger[j]
    BY <1>0, <1>2, <2>2 DEF Settles
  <2>4. CASE ledger[i].session = s /\ ledger[i].status = "reserved" /\ e.status = "released"
    <3>1. i \in Counted(s)   BY <2>2, <2>4 DEF Counted
    <3>2. Counted(s)' = Counted(s) \ {i}   BY <1>2, <2>3, <2>4 DEF Counted
    <3> QED BY <2>1, <2>4, <3>1, <3>2, HeldBySet
  <2>5. CASE ~(ledger[i].session = s /\ ledger[i].status = "reserved" /\ e.status = "released")
    <3>1. ASSUME NEW j \in 1 .. issued PROVE j \in Counted(s)' <=> j \in Counted(s)
      <4>1. CASE j = i   BY <1>2, <2>2, <2>3, <2>5, <4>1 DEF Counted, Settles
      <4>2. CASE j # i   BY <1>2, <2>3, <4>2 DEF Counted
      <4> QED BY <4>1, <4>2
    <3>2. Counted(s)' = Counted(s)   BY <1>2, <3>1 DEF Counted
    <3> QED BY <2>1, <2>5, <3>2, HeldBySet
  <2> QED BY <2>4, <2>5
<1>3. ASSUME NEW p \in Procs, MakeReservation(p)
      PROVE  IF proc[p].session = s
             THEN Held(s)' = proc[p].amount + Held(s) ELSE Held(s)' = Held(s)
  <2>1. LedgerStep   BY <1>3 DEF LedgerStep
  <2>2. PICK i, e : /\ i = issued + 1
                    /\ e = [session |-> proc[p].session, amount |-> proc[p].amount,
                            score |-> now + PreSubmitTTL, status |-> "reserved", overdrawn |-> FALSE]
    OBVIOUS
  <2>3. /\ ledger'[i] = e /\ \A j \in 1 .. issued : ledger'[j] = ledger[j]
        /\ i \notin 1 .. issued
    BY <1>0, <1>3, <2>2, MakeStep
  <2>4. issued' = i /\ 1 .. i = (1 .. issued) \cup {i}   BY <1>0, <1>3, <2>2 DEF MakeReservation
  <2>5. e.session = proc[p].session /\ e.amount = proc[p].amount /\ e.status = "reserved"
    BY <2>2
  <2>6. CASE proc[p].session = s
    <3>1. i \notin Counted(s)   BY <2>3 DEF Counted
    <3>2. Counted(s)' = Counted(s) \cup {i}   BY <2>3, <2>4, <2>5, <2>6 DEF Counted
    <3>3. Held(s)' = ledger'[i].amount + Held(s)   BY <2>1, <3>1, <3>2, HeldBySet
    <3> QED BY <2>3, <2>5, <2>6, <3>3
  <2>7. CASE proc[p].session # s
    <3>1. Counted(s)' = Counted(s)   BY <2>3, <2>4, <2>5, <2>7 DEF Counted
    <3> QED BY <2>1, <2>7, <3>1, HeldBySet
  <2> QED BY <2>6, <2>7
<1> QED BY <1>1, <1>2, <1>3

LEMMA AmountType == ASSUME StateInv, NEW s \in Sessions PROVE Amount(s) \in Nat
<1>0. aggregate[s] \in {Nil} \cup [amount : Nat, exp : Nat]   BY DEF StateInv, StoreOK
<1>1. CASE aggregate[s] = Nil   BY <1>1 DEF Amount
<1>2. CASE aggregate[s] # Nil   BY <1>0, <1>2 DEF Amount
<1> QED BY <1>1, <1>2

LEMMA TickAmount ==
    ASSUME StateInv, Tick, NEW s \in Sessions
    PROVE  \/ aggregate'[s] = aggregate[s] /\ Amount(s)' = Amount(s)
           \/ aggregate'[s] = Nil /\ Amount(s)' = 0 /\ aggregate[s].exp <= now'
<1>1. aggregate'[s] = Alive(aggregate[s], now + 1) /\ now' = now + 1   BY TickStep
<1>2. CASE aggregate[s].exp <= now + 1
  <2>1. aggregate'[s] = Nil   BY <1>1, <1>2 DEF Alive
  <2> QED BY <1>1, <1>2, <2>1 DEF Amount
<1>3. CASE ~(aggregate[s].exp <= now + 1)
  <2>1. aggregate'[s] = aggregate[s]   BY <1>1, <1>3 DEF Alive
  <2> QED BY <2>1 DEF Amount
<1> QED BY <1>2, <1>3

LEMMA AggregateStep ==
    ASSUME StateInv, ReadFresh, AggregateOK, [Next]_vars
    PROVE  AggregateOK'
<1>0. SUFFICES ASSUME NEW t \in Sessions
               PROVE  /\ Amount(t)' <= MaxTotal[t]
                      /\ aggregate'[t] # Nil => aggregate'[t].exp >= ValidUntil
  BY DEF AggregateOK
<1>1. /\ Amount(t) \in Nat /\ MaxTotal[t] \in Nat \ {0} /\ Amount(t) <= MaxTotal[t]
      /\ aggregate[t] # Nil => aggregate[t].exp >= ValidUntil
  BY AmountType, ConstantTypes DEF AggregateOK
<1>2. CASE aggregate'[t] = aggregate[t]   BY <1>1, <1>2 DEF Amount
<1>3. CASE Tick   BY <1>1, <1>3, TickAmount
<1>4. ASSUME NEW p \in Procs, NEW s \in Sessions, NEW n \in Nat \ {0},
             Makes(p, s, n) \/ Lowers(p, s, n)
      PROVE  /\ Amount(t)' <= MaxTotal[t]
             /\ aggregate'[t] # Nil => aggregate'[t].exp >= ValidUntil
  <2>1. CASE t # s   BY <1>2, <1>4, <2>1, WrittenAmount
  <2>2. CASE t = s /\ Makes(p, s, n)   BY <1>1, <1>4, <2>2, WrittenAmount
  <2>3. CASE t = s /\ Lowers(p, s, n)
    <3>1. Amount(t)' = Reduced(Amount(t), n) /\ aggregate[t] # Nil /\ aggregate'[t].exp = aggregate[t].exp
      BY <1>4, <2>3, WrittenAmount
    <3>2. Reduced(Amount(t), n) <= Amount(t) /\ Reduced(Amount(t), n) \in Nat
      BY <1>1 DEF Reduced
    <3> QED BY <1>1, <3>1, <3>2
  <2> QED BY <1>4, <2>1, <2>2, <2>3
<1> QED BY <1>2, <1>3, <1>4, AggregateChange

\* A step after which the aggregate and the sum of session t are related as
\* BudgetHeld and NoLeak say, if they were before.
InStep(t) ==
    /\ Amount(t) <= Held(t) => Amount(t)' <= Held(t)'
    /\ /\ Held(t) <= Amount(t) /\ now' < ValidUntil
       /\ \A i \in 1 .. issued' : ~ledger'[i].overdrawn
       => Held(t)' <= Amount(t)'

LEMMA SumsInStep ==
    ASSUME StateInv, ReadFresh, AggregateOK, [Next]_vars, NEW t \in Sessions
    PROVE  InStep(t)
<1>0. /\ StateInv' /\ LedgerStep /\ HeldAdds /\ HeldAdds'
  BY StateStep, LedgerChange, HeldTotal, HeldTotalNext
<1>1. Amount(t) \in Nat /\ Held(t) \in Nat /\ Held(t)' \in Nat   BY <1>0, AmountType DEF HeldAdds
<1>2. ASSUME UNCHANGED <<aggregate, issued, ledger>> PROVE InStep(t)
  <2>1. Held(t)' = Held(t) /\ Amount(t)' = Amount(t)   BY <1>0, <1>2, HeldChange DEF Amount
  <2> QED BY <2>1 DEF InStep
<1>3. CASE Tick
  <2>1. Held(t)' = Held(t)   BY <1>0, <1>3, HeldChange, TickStep
  <2>2. CASE Amount(t)' = Amount(t)   BY <2>1, <2>2 DEF InStep
  <2>3. CASE Amount(t)' = 0 /\ aggregate[t].exp <= now' /\ aggregate[t] # Nil
    <3>1. aggregate[t].exp >= ValidUntil /\ aggregate[t].exp \in Nat
      BY <2>3 DEF AggregateOK, StateInv, StoreOK
    <3>2. ~(now' < ValidUntil)   BY <1>0, <2>3, <3>1, ConstantTypes DEF StateInv, StoreOK
    <3> QED BY <1>1, <2>1, <2>3, <3>2 DEF InStep
  <2>4. CASE Amount(t)' = 0 /\ aggregate[t] = Nil   BY <2>1, <2>4 DEF InStep, Amount
  <2> QED BY <1>3, <2>2, <2>3, <2>4, TickAmount
<1>4. ASSUME NEW p \in Procs, MakeReservation(p) PROVE InStep(t)
  <2>1. PICK s \in Sessions, n \in Nat \ {0} : Makes(p, s, n)
    <3>1. proc[p] \in ReserveRequest   BY <1>4, MakeStep
    <3>2. proc[p].session \in Sessions /\ proc[p].amount \in Nat \ {0}
      BY <3>1, ConstantTypes DEF ReserveRequest
    <3>3. Makes(p, proc[p].session, proc[p].amount)   BY <1>4 DEF Makes, MakeReservation
    <3> QED BY <3>2, <3>3
  <2>2. IF s = t THEN Held(t)' = n + Held(t) ELSE Held(t)' = Held(t)
    BY <1>0, <1>4, <2>1, HeldChange DEF Makes
  <2>3. CASE s = t
    <3>1. Amount(t)' = Amount(t) + n   BY <2>1, <2>3, WrittenAmount
    <3> QED BY <1>1, <2>2, <2>3, <3>1 DEF InStep
  <2>4. CASE s # t
    <3>1. Amount(t)' = Amount(t)   BY <2>1, <2>4, WrittenAmount DEF Amount
    <3> QED BY <2>2, <2>4, <3>1 DEF InStep
  <2> QED BY <2>3, <2>4
<1>5. ASSUME NEW p \in Procs, ReleaseWrite(p) PROVE InStep(t)
  <2>1. proc[p].pc = "relSet" /\ ledger' = Released(proc[p].member) /\ issued' = issued
    BY <1>5, UnderLock
  <2>2. PICK i \in 1 .. issued : i = proc[p].member   BY <2>1, AtFields DEF MemberSteps
  <2>3. PICK e : Settles(i, e) /\ (ledger[i].status = "reserved" => e.status = "released")
    BY <2>1, <2>2, ReleasedSettles
  <2>4. PICK s \in Sessions, n \in Nat \ {0} : s = ledger[i].session /\ n = ledger[i].amount
    BY <2>2, IssuedEntry
  <2>5. Lowers(p, s, n)   BY <1>5, <2>2, <2>4 DEF Lowers, ReleaseWrite, Member
  <2>6. CASE s # t
    <3>1. Amount(t)' = Amount(t)   BY <2>5, <2>6, WrittenAmount DEF Amount
    <3>2. Held(t)' = Held(t)   BY <1>0, <2>1, <2>3, <2>4, <2>6, HeldChange
    <3> QED BY <3>1, <3>2 DEF InStep
  <2>7. CASE s = t /\ ledger[i].status = "reserved"
    <3>1. Amount(t)' = Reduced(Amount(t), n)   BY <2>5, <2>7, WrittenAmount
    <3>2. Held(t) = n + Held(t)'   BY <1>0, <2>1, <2>3, <2>4, <2>7, HeldChange
    <3> QED BY <1>1, <2>4, <3>1, <3>2 DEF InStep, Reduced
  <2>8. CASE s = t /\ ledger[i].status # "reserved"
    <3>1. Amount(t)' = Reduced(Amount(t), n)   BY <2>5, <2>8, WrittenAmount
    <3>2. Held(t)' = Held(t)   BY <1>0, <2>1, <2>3, <2>8, HeldChange
    <3>3. Reduced(Amount(t), n) <= Amount(t) /\ Reduced(Amount(t), n) \in Nat   BY <1>1 DEF Reduced
    <3>4. e.overdrawn = TRUE   BY <2>3, <2>8 DEF Settles
    <3>5. ledger'[i] = e   BY <2>2, <2>3, IssuedEntry DEF Settles, StateInv, LedgerOK
    <3>6. i \in 1 .. issued' /\ ledger'[i].overdrawn   BY <2>1, <3>4, <3>5
    <3> QED BY <1>1, <3>1, <3>2, <3>3, <3>6 DEF InStep
  <2> QED BY <2>6, <2>7, <2>8
<1>6. ASSUME NEW p \in Procs, ReleaseRead(p) PROVE InStep(t)
  <2>1. proc[p].pc = "relGet" /\ UNCHANGED <<aggregate, issued>>   BY <1>6, UnderLock
  <2>2. PICK i \in 1 .. issued : i = proc[p].member   BY <2>1, AtFields DEF MemberSteps
  <2>3. CASE UNCHANGED ledger   BY <1>2, <2>1, <2>3
  <2>4. CASE aggregate[ledger[i].session] = Nil /\ ledger' = Released(i)
    <3>1. PICK e : Settles(i, e)   BY <2>4, ReleasedSettles
    <3>2. Amount(t)' = Amount(t) /\ ledger[i].amount \in Nat   BY <2>1, IssuedEntry DEF Amount
    <3>3. CASE ledger[i].session = t
      <4>1. Amount(t) = 0   BY <2>4, <3>3 DEF Amount
      <4>2. Held(t)' = Held(t) \/ Held(t) = ledger[i].amount + Held(t)'
        BY <1>0, <2>1, <3>1, HeldChange
      <4> QED BY <1>1, <3>2, <4>1, <4>2 DEF InStep
    <3>4. CASE ledger[i].session # t
      <4>1. Held(t)' = Held(t)   BY <1>0, <2>1, <3>1, <3>4, HeldChange
      <4> QED BY <3>2, <4>1 DEF InStep
    <3> QED BY <3>3, <3>4
  <2>5. UNCHANGED ledger \/ (aggregate[ledger[i].session] = Nil /\ ledger' = Released(i))
    BY <1>6, <2>2, UnderLock DEF Member
  <2> QED BY <2>3, <2>4, <2>5
<1>7. ASSUME NEW p \in Procs, NEW i \in Ids, CommitReservation(p, i) PROVE InStep(t)
  <2>1. UNCHANGED <<aggregate, issued>>   BY <1>7 DEF CommitReservation
  <2>2. CASE UNCHANGED ledger   BY <1>2, <2>1, <2>2
  <2>3. CASE \E e : Settles(i, e) /\ e.status = "committed"
    <3>1. Held(t)' = Held(t) /\ Amount(t)' = Amount(t)
      BY <1>0, <2>1, <2>3, HeldChange DEF Amount
    <3> QED BY <3>1 DEF InStep
  <2> QED BY <1>7, <2>2, <2>3, CommitSettles
<1>8. ASSUME NEW p \in Procs, Continue(p) PROVE InStep(t)
  <2>1. CASE Outside(p)   BY <1>2, <2>1, OutsideLock
  <2>2. CASE AcquireLock(p) \/ ReleaseLock(p)   BY <1>2, <2>2, TakesLock
  <2>3. CASE ReadBudget(p)   BY <1>2, <2>3, UnderLock
  <2>4. CASE Unlock(p) \/ ReleaseUnlock(p) \/ SweepDelMeta(p)   BY <1>2, <2>4, FreesLock
  <2> QED BY <1>4, <1>5, <1>6, <1>8, <2>1, <2>2, <2>3, <2>4 DEF Continue, Outside
<1>9. ASSUME NEW p \in Procs, Outside(p) PROVE InStep(t)   BY <1>2, <1>9, OutsideLock
<1>10. CASE UNCHANGED vars   BY <1>2, <1>10 DEF vars
<1> QED BY <1>3, <1>7, <1>8, <1>9, <1>10 DEF Next, Outside

\* Time only goes on, and an overdrawn reservation stays overdrawn.
LEMMA SumStep ==
    ASSUME StateInv, ReadFresh, AggregateOK, SumInv, [Next]_vars
    PROVE  SumInv'
<1>0. LedgerStep /\ \A t \in Sessions : InStep(t)   BY LedgerChange, SumsInStep
<1>1. now \in Nat /\ now' \in Nat /\ now <= now' /\ ValidUntil \in Nat
  <2>1. now \in Nat /\ (UNCHANGED now \/ Tick)   BY AggregateChange, ConstantTypes DEF StateInv, StoreOK
  <2> QED BY <2>1, TickStep, ConstantTypes
<1>2. \A s \in Sessions : Amount(s)' <= Held(s)'   BY <1>0 DEF InStep, SumInv
<1>3. BudgetHeld'
  <2>1. SUFFICES ASSUME now' < ValidUntil, \A i \in 1 .. issued' : ~ledger'[i].overdrawn
                 PROVE  \A s \in Sessions : Held(s)' <= Amount(s)'
    BY DEF BudgetHeld
  <2>2. now < ValidUntil   BY <1>1, <2>1
  <2>3. \A i \in 1 .. issued : ~ledger[i].overdrawn   BY <1>0, <2>1, EntryStays
  <2>4. \A s \in Sessions : Held(s) <= Amount(s)   BY <2>2, <2>3 DEF SumInv, BudgetHeld
  <2> QED BY <1>0, <2>1, <2>4 DEF InStep
<1> QED BY <1>2, <1>3 DEF SumInv

FullInv == StateInv /\ IndexInv /\ LockInv /\ SumInv

LEMMA FullInit == ASSUME Init PROVE FullInv
<1>0. StateInv /\ IndexInv   BY StateInit, IndexInit
<1>1. \A p \in Procs : proc[p].pc = "idle"   BY DEF Init, Idle
<1>2. \A s \in Sessions : aggregate[s] = Nil /\ Amount(s) = 0   BY DEF Init, Amount
<1>3. LockInv
  BY <1>1, <1>2, ConstantTypes DEF LockInv, LockHeld, LockExclusive, ReadFresh, AggregateOK, Critical
<1>4. ASSUME NEW s \in Sessions PROVE Held(s) = 0
  <2>1. Counted(s) = {}   BY DEF Init, Counted
  <2>2. Held(s) = Total(Booked, Counted(s))   BY <1>0, HeldTotal DEF HeldAdds
  <2> QED BY <2>1, <2>2, TotalEmpty
<1>5. SumInv   BY <1>2, <1>4 DEF SumInv, BudgetHeld
<1> QED BY <1>0, <1>3, <1>5 DEF FullInv

THEOREM FullAlways == ASSUME ~Stalls PROVE Spec => []FullInv
<1>1. Init => FullInv   BY FullInit
<1>2. FullInv /\ [Next]_vars => FullInv'
  <2>1. SUFFICES ASSUME FullInv, [Next]_vars PROVE FullInv'   OBVIOUS
  <2>2. StateInv /\ IndexInv /\ LockHeld /\ LockExclusive /\ ReadFresh /\ AggregateOK /\ SumInv
    BY <2>1 DEF FullInv, LockInv
  <2>3. StateInv' /\ IndexInv' /\ SumInv'   BY <2>1, <2>2, StateStep, IndexStep, SumStep
  <2>4. LockHeld' /\ LockExclusive' /\ ReadFresh' /\ AggregateOK'
    BY <2>1, <2>2, LockStepHeld, ReadStep, AggregateStep
  <2> QED BY <2>3, <2>4 DEF FullInv, LockInv
<1> QED BY <1>1, <1>2, PTL DEF Spec

(***************************************************************************)
(* BudgetHeld: for any number of requests, sweeps, releases and crashes,   *)
(* until the session ends the aggregate covers what is reserved and        *)
(* committed, unless a settled or released reservation was subtracted      *)
(* once more.  Reserve and releaseAmount lose no other update.             *)
(***************************************************************************)
THEOREM BudgetIsHeld == ASSUME ~Stalls PROVE Spec => []BudgetHeld
<1>1. FullInv => BudgetHeld   BY DEF FullInv, SumInv
<1> QED BY <1>1, FullAlways, PTL

(***************************************************************************)
(* NoLeak: the aggregate never counts more than live reservations, and     *)
(* what is reserved is in the index, where a sweep finds it.               *)
(***************************************************************************)
THEOREM NothingLeaks == ASSUME ~Stalls PROVE Spec => []NoLeak
<1>1. FullInv => NoLeak   BY DEF FullInv, SumInv, IndexInv, ReservedIndexed, NoLeak
<1> QED BY <1>1, FullAlways, PTL

-----------------------------------------------------------------------------
(* Until the first reservation lapses.                                     *)

(***************************************************************************)
(* NoOverbooking, whatever is swept, released, committed or crashes: until *)
(* the session ends, more than the maximum is reserved and committed only  *)
(* after some reservation was subtracted from the aggregate once it had    *)
(* been settled or released already.                                       *)
(***************************************************************************)
THEOREM OverbookedIfOverdrawn ==
    ASSUME ~Stalls
    PROVE  Spec => []((now < ValidUntil /\ \A i \in 1 .. issued : ~ledger[i].overdrawn)
                        => NoOverbooking)
<1>1. FullInv => ((now < ValidUntil /\ \A i \in 1 .. issued : ~ledger[i].overdrawn)
                    => NoOverbooking)
  <2>1. SUFFICES ASSUME FullInv, now < ValidUntil, \A i \in 1 .. issued : ~ledger[i].overdrawn,
                        NEW s \in Sessions
                 PROVE  Held(s) <= MaxTotal[s]
    BY DEF NoOverbooking
  <2>2. StateInv /\ Held(s) <= Amount(s) /\ Amount(s) <= MaxTotal[s]
    BY <2>1 DEF FullInv, SumInv, BudgetHeld, LockInv, AggregateOK
  <2>3. Held(s) \in Nat /\ Amount(s) \in Nat /\ MaxTotal[s] \in Nat
    BY <2>2, HeldTotal, AmountType, ConstantTypes DEF HeldAdds
  <2> QED BY <2>2, <2>3
<1> QED BY <1>1, FullAlways, PTL

\* No reservation lapses, the session goes on and no payment is reported
\* reverted.
BeforeExpiry == MaxTime < PreSubmitTTL /\ MaxTime < ValidUntil /\ ~Releases

\* Then nothing is given back: every score is in the future.
NotLapsed == \A i \in 1 .. issued : ledger[i].score > MaxTime /\ ~ledger[i].overdrawn

NotReleasing(r) ==
    /\ r.pc \notin MemberSteps \cup {"meta", "rem"}
    /\ r \in ReserveRequest => r.members = {}

NoneGivenBack == NotLapsed /\ \A p \in Procs : NotReleasing(proc[p])

\* None of releaseAmount and what follows it is reached.
LEMMA NoRelease ==
    ASSUME NoneGivenBack, BeforeExpiry, NEW p \in Procs
    PROVE  /\ ~ReleaseLock(p) /\ ~ReleaseRead(p) /\ ~ReleaseWrite(p) /\ ~ReleaseUnlock(p)
           /\ ~SweepDelMeta(p) /\ ~SweepRem(p) /\ ~ReadMeta(p) /\ ~ForgetReleased(p)
           /\ \A i : ~StartRelease(p, i)
<1>1. proc[p].pc \notin {"relLock", "relGet", "relSet", "relUnlock", "del", "meta", "rem"}
  BY DEF NoneGivenBack, NotReleasing, MemberSteps
<1> QED BY <1>1 DEF ReleaseLock, ReleaseRead, ReleaseWrite, ReleaseUnlock, SweepDelMeta,
                    SweepRem, ReadMeta, ForgetReleased, StartRelease, At, BeforeExpiry

LEMMA NotLapsedStep ==
    ASSUME StateInv, NoneGivenBack, BeforeExpiry, [Next]_vars
    PROVE  NotLapsed'
<1>0. /\ now \in Nat /\ now <= MaxTime /\ MaxTime \in Nat /\ PreSubmitTTL \in Nat /\ issued \in Nat
      /\ NotLapsed /\ MaxTime < PreSubmitTTL
  BY ConstantTypes DEF StateInv, StoreOK, LedgerOK, NoneGivenBack, BeforeExpiry
<1>1. ASSUME UNCHANGED <<issued, ledger>> PROVE NotLapsed'   BY <1>0, <1>1 DEF NotLapsed
<1>2. ASSUME NEW p \in Procs, NEW i \in Ids, CommitReservation(p, i) PROVE NotLapsed'
  <2>1. issued' = issued   BY <1>2 DEF CommitReservation
  <2>2. CASE UNCHANGED ledger   BY <1>1, <2>1, <2>2
  <2>3. CASE ledger[i].status = "reserved" /\ \E e : Settles(i, e)
    <3>1. PICK e : Settles(i, e)   BY <2>3
    <3>2. e.score = ledger[i].score /\ e.overdrawn = ledger[i].overdrawn /\ i \in 1 .. issued
      BY <2>3, <3>1 DEF Settles
    <3>3. \A j \in 1 .. issued : ledger'[j] = IF j = i THEN e ELSE ledger[j]
      BY <3>1, IssuedEntry DEF Settles, StateInv, LedgerOK
    <3> QED BY <1>0, <2>1, <3>2, <3>3 DEF NotLapsed
  <2> QED BY <1>2, <2>2, <2>3, CommitSettles
<1>3. ASSUME NEW p \in Procs, MakeReservation(p) PROVE NotLapsed'
  <2>1. PICK i, e : /\ i = issued + 1
                    /\ e = [session |-> proc[p].session, amount |-> proc[p].amount,
                            score |-> now + PreSubmitTTL, status |-> "reserved", overdrawn |-> FALSE]
    OBVIOUS
  <2>2. ledger'[i] = e /\ i \in Ids /\ \A j \in 1 .. issued : ledger'[j] = ledger[j]
    BY <1>3, <2>1, MakeStep, IssuedEntry
  <2>3. issued' = i /\ \A j \in 1 .. i : j \in 1 .. issued \/ j = i
    BY <1>0, <1>3, <2>1 DEF MakeReservation
  <2>4. e.score > MaxTime /\ e.overdrawn = FALSE   BY <1>0, <2>1
  <2> QED BY <1>0, <2>2, <2>3, <2>4 DEF NotLapsed
<1>4. ASSUME NEW p \in Procs, Continue(p), ~MakeReservation(p) PROVE UNCHANGED <<issued, ledger>>
  BY <1>4, NoRelease DEF Continue, SweepRange, SweepNext, CheckIdem, AcquireLock, ReadBudget, Unlock
<1>5. ASSUME NEW p \in Procs, \/ \E s \in Sessions, k \in Keys, a \in Amounts : StartReserve(p, s, k, a)
                              \/ Crash(p)
      PROVE  UNCHANGED <<issued, ledger>>
  BY <1>5 DEF StartReserve, Crash
<1>6. CASE UNCHANGED vars   BY <1>1, <1>6 DEF vars
<1>7. CASE Tick   BY <1>1, <1>7 DEF Tick
<1> QED BY <1>1, <1>2, <1>3, <1>4, <1>5, <1>6, <1>7, NoRelease DEF Next

LEMMA NoneGivenBackStep ==
    ASSUME StateInv, NoneGivenBack, BeforeExpiry, [Next]_vars
    PROVE  NoneGivenBack'
<1>0. NotLapsed' /\ proc \in [Procs -> Request] /\ \A p \in Procs : NotReleasing(proc[p])
  BY NotLapsedStep DEF StateInv, ProcOK, NoneGivenBack
<1>1. ASSUME NEW p \in Procs, NotReleasing(proc'[p]), \A q \in Procs \ {p} : proc'[q] = proc[q]
      PROVE  NoneGivenBack'
  BY <1>0, <1>1 DEF NoneGivenBack
<1>2. ASSUME UNCHANGED proc PROVE NoneGivenBack'   BY <1>0, <1>2 DEF NoneGivenBack
<1>3. ASSUME NEW p \in Procs, NEW label, proc[p] # Idle, Goto(p, label),
             label \notin MemberSteps \cup {"meta", "rem"}
      PROVE  NotReleasing(proc'[p])
  <2>1. proc'[p].pc = label /\ proc'[p].op = proc[p].op   BY <1>3, GotoFields
  <2>2. ASSUME proc'[p] \in ReserveRequest PROVE proc'[p].members = {}
    <3>1. proc[p] \in ReserveRequest
      BY <1>3, <2>1, <2>2, AtFields DEF ReserveRequest, ReleaseRequest, Request
    <3> QED BY <1>0, <1>3, <3>1, GotoFields DEF NotReleasing
  <2> QED BY <1>3, <2>1, <2>2 DEF NotReleasing
<1>4. ASSUME NEW p \in Procs, Return(p) PROVE NotReleasing(proc'[p])
  <2>1. proc'[p] = Idle   BY <1>0, <1>4 DEF Return
  <2>2. Idle \notin ReserveRequest /\ Idle.pc = "idle"   BY RequestFields DEF Idle, ReserveRequest, ReserveSteps, MemberSteps
  <2> QED BY <2>1, <2>2 DEF NotReleasing, MemberSteps
<1>5. ASSUME NEW p \in Procs, NEW r \in ReserveRequest, proc' = [proc EXCEPT ![p] = r], r.members = {},
             r.pc \notin MemberSteps \cup {"rem"}
      PROVE  NotReleasing(proc'[p])
  BY <1>0, <1>5 DEF NotReleasing, ReserveRequest, ReserveSteps, MemberSteps
<1>6. ASSUME NEW p \in Procs, SweepRange(p) PROVE NotReleasing(proc'[p])
  <2>1. proc[p].pc = "sweep" /\ proc[p] \in ReserveRequest
    BY <1>6, AtFields DEF SweepRange, At, ReserveSteps
  <2>2. {i \in index : ledger[i].score <= now} = {}
    <3>1. ASSUME NEW i \in index PROVE ~(ledger[i].score <= now)
      <4>1. i \in 1 .. issued   BY <3>1 DEF StateInv, LedgerOK
      <4>2. ledger[i].score \in Nat /\ ledger[i].score > MaxTime
        BY <4>1, IssuedEntry DEF NoneGivenBack, NotLapsed
      <4> QED BY <4>2, ConstantTypes DEF StateInv, StoreOK
    <3> QED BY <3>1
  <2>3. PICK r : r = [proc[p] EXCEPT !.pc = "next", !.members = {}]   OBVIOUS
  <2>4. r \in ReserveRequest /\ r.members = {} /\ r.pc = "next"
    BY <2>1, <2>3 DEF ReserveRequest, ReserveSteps
  <2>5. proc' = [proc EXCEPT ![p] = r]   BY <1>0, <1>6, <2>2, <2>3 DEF SweepRange
  <2>6. "next" \notin MemberSteps \cup {"rem"}   BY DEF MemberSteps
  <2> QED BY <1>5, <2>4, <2>5, <2>6
<1>7. ASSUME NEW p \in Procs, SweepNext(p) PROVE NotReleasing(proc'[p])
  <2>1. proc[p].pc = "next" /\ proc[p] \in ReserveRequest
    BY <1>7, AtFields DEF SweepNext, At, ReserveSteps
  <2>2. proc[p].members = {} /\ proc[p] # Idle   BY <1>0, <2>1 DEF NotReleasing, Idle
  <2>3. Goto(p, "idem")   BY <1>7, <2>2 DEF SweepNext
  <2>4. "idem" \notin MemberSteps \cup {"meta", "rem"}   BY DEF MemberSteps
  <2> QED BY <1>3, <2>2, <2>3, <2>4
<1>8. ASSUME NEW p \in Procs, ReadBudget(p) PROVE NotReleasing(proc'[p])
  <2>1. proc[p].pc = "get" /\ proc[p] \in ReserveRequest
    BY <1>8, AtFields DEF ReadBudget, At, ReserveSteps
  <2>2. proc[p].members = {} /\ proc[p].session \in Sessions
    BY <1>0, <2>1 DEF NotReleasing, ReserveRequest
  <2>3. PICK n \in Nat : n = Amount(proc[p].session)   BY <2>2, AmountType
  <2>4. PICK label \in {"exec", "unlock"} :
           proc' = [proc EXCEPT ![p].pc = label, ![p].read = n]
    BY <1>8, <2>3 DEF ReadBudget
  <2>5. PICK r : r = [proc[p] EXCEPT !.pc = label, !.read = n]   OBVIOUS
  <2>6. r \in ReserveRequest /\ r.members = {} /\ r.pc = label
    BY <2>1, <2>2, <2>5 DEF ReserveRequest, ReserveSteps
  <2>7. proc' = [proc EXCEPT ![p] = r]   BY <1>0, <2>4, <2>5
  <2>8. label \notin MemberSteps \cup {"rem"}   BY DEF MemberSteps
  <2> QED BY <1>5, <2>6, <2>7, <2>8
<1>9. ASSUME NEW p \in Procs, CheckIdem(p) \/ AcquireLock(p) \/ MakeReservation(p) \/ Unlock(p)
      PROVE  NotReleasing(proc'[p])
  <2>1. proc[p] # Idle
    BY <1>9 DEF CheckIdem, AcquireLock, MakeReservation, Unlock, At, Idle
  <2>2. Return(p) \/ \E label \in {"lock", "get", "unlock"} : Goto(p, label)
    BY <1>9 DEF CheckIdem, AcquireLock, SetNX, MakeReservation, Unlock
  <2>3. \A label \in {"lock", "get", "unlock"} : label \notin MemberSteps \cup {"meta", "rem"}
    BY DEF MemberSteps
  <2> QED BY <1>3, <1>4, <2>1, <2>2, <2>3
<1>10. ASSUME NEW p \in Procs, NEW s \in Sessions, NEW k \in Keys, NEW a \in Amounts,
              StartReserve(p, s, k, a)
       PROVE  NotReleasing(proc'[p])
  <2>1. PICK r : r = [op |-> "reserve", pc |-> "sweep", session |-> s, key |-> k,
                      amount |-> a, members |-> {}, member |-> 0, read |-> 0]
    OBVIOUS
  <2>2. proc' = [proc EXCEPT ![p] = r]   BY <1>10, <2>1 DEF StartReserve
  <2>3. r \in ReserveRequest /\ r.members = {} /\ r.pc = "sweep"
    BY <2>1, ConstantTypes DEF ReserveRequest, ReserveSteps
  <2>4. "sweep" \notin MemberSteps \cup {"rem"}   BY DEF MemberSteps
  <2> QED BY <1>5, <2>2, <2>3, <2>4
<1>11. ASSUME NEW p \in Procs, Continue(p) PROVE NotReleasing(proc'[p])
  BY <1>6, <1>7, <1>8, <1>9, <1>11, NoRelease DEF Continue
<1>12. ASSUME NEW p \in Procs, Crash(p) PROVE NotReleasing(proc'[p])   BY <1>4, <1>12 DEF Crash
<1>13. ASSUME NEW p \in Procs, NEW i \in Ids, CommitReservation(p, i) PROVE UNCHANGED proc
  BY <1>13 DEF CommitReservation
<1>14. CASE UNCHANGED vars   BY <1>2, <1>14 DEF vars
<1>15. CASE Tick   BY <1>2, <1>15 DEF Tick
<1> QED BY <1>1, <1>2, <1>10, <1>11, <1>12, <1>13, <1>14, <1>15, OthersStay, NoRelease DEF Next

LEMMA NoneGivenBackInit == ASSUME Init PROVE NoneGivenBack
<1>1. issued = 0 /\ \A p \in Procs : proc[p] = Idle   BY DEF Init
<1>2. Idle \notin ReserveRequest /\ Idle.pc = "idle" /\ "idle" \notin MemberSteps \cup {"meta", "rem"}
  BY RequestFields DEF Idle, ReserveRequest, ReserveSteps, MemberSteps
<1>3. NotLapsed   BY <1>1 DEF NotLapsed
<1> QED BY <1>1, <1>2, <1>3 DEF NoneGivenBack, NotReleasing

EarlyInv == FullInv /\ NoneGivenBack

LEMMA EarlyAlways == ASSUME ~Stalls, BeforeExpiry PROVE Spec => []EarlyInv
<1>1. Spec => []FullInv   BY FullAlways
<1>2. Init => NoneGivenBack   BY NoneGivenBackInit
<1>3. FullInv /\ NoneGivenBack /\ [Next]_vars => NoneGivenBack'
  BY NoneGivenBackStep DEF FullInv
<1> QED BY <1>1, <1>2, <1>3, PTL DEF Spec, EarlyInv

(***************************************************************************)
(* NoOverbooking: for any number of requests, sessions and crashes, what   *)
(* is reserved and committed together is within the maximum, as long as    *)
(* no reservation lapses, none is reported reverted and the session goes   *)
(* on.  Past that point the sweep can subtract a reservation twice, which  *)
(* is the counterexample the run ReservationSweepRace records.             *)
(***************************************************************************)
THEOREM NeverOverbooked == ASSUME ~Stalls, BeforeExpiry PROVE Spec => []NoOverbooking
<1>1. EarlyInv => NoOverbooking
  <2>1. SUFFICES ASSUME EarlyInv, NEW s \in Sessions PROVE Held(s) <= MaxTotal[s]
    BY DEF NoOverbooking
  <2>2. StateInv /\ Amount(s) <= MaxTotal[s]
    BY <2>1 DEF EarlyInv, FullInv, LockInv, AggregateOK
  <2>3. now < ValidUntil   BY <2>2, ConstantTypes DEF BeforeExpiry, StateInv, StoreOK
  <2>4. Held(s) <= Amount(s)
    BY <2>1, <2>3 DEF EarlyInv, FullInv, SumInv, BudgetHeld, NoneGivenBack, NotLapsed
  <2>5. Held(s) \in Nat /\ Amount(s) \in Nat /\ MaxTotal[s] \in Nat
    BY <2>2, HeldTotal, AmountType, ConstantTypes DEF HeldAdds
  <2> QED BY <2>2, <2>4, <2>5
<1> QED BY <1>1, EarlyAlways, PTL

-----------------------------------------------------------------------------
(* The ledger that the service implements.                                 *)

\* The state of the ledger.
BookedNow == [s \in Sessions |-> Amount(s)]

EntryNow(i) ==
    IF i > issued THEN ledger[i] ELSE
       [session |-> ledger[i].session, amount |-> ledger[i].amount, status |-> ledger[i].status]

LedgerNow == [i \in Ids |-> EntryNow(i)]

LEMMA UnissuedEntry == ASSUME StateInv, NEW i \in Ids, i > issued PROVE ledger[i] = Unissued
<1>1. ~(i <= issued)   BY ConstantTypes DEF Ids, StateInv, LedgerOK
<1> QED BY <1>1 DEF StateInv, LedgerOK

\* The pipeline of Reserve grants a reservation.
LEMMA MakeGrants ==
    ASSUME StateInv, ReadFresh, NEW p \in Procs, MakeReservation(p)
    PROVE  Ledger!LedgerNext
<1>0. /\ issued \in Nat /\ ledger \in [Ids -> IssuedType \cup {Unissued}]
      /\ aggregate \in [Sessions -> {Nil} \cup [amount : Nat, exp : Nat]]
  BY ConstantTypes DEF StateInv, StoreOK, LedgerOK
<1>1. PICK s \in Sessions, a \in Amounts, i \in Ids :
         s = proc[p].session /\ a = proc[p].amount /\ i = issued + 1
  BY MakeStep DEF ReserveRequest
<1>2. a \in Nat \ {0}   BY ConstantTypes
<1>3. Makes(p, s, a)   BY <1>1 DEF Makes, MakeReservation
<1>4. /\ Amount(s)' = Amount(s) + a /\ Amount(s) + a <= MaxTotal[s]
      /\ \A t \in Sessions \ {s} : Amount(t)' = Amount(t)
  BY <1>2, <1>3, WrittenAmount DEF Amount
<1>5. \A t \in Sessions : Amount(t) \in Nat   BY AmountType
<1>8. BookedNow[s] + a <= MaxTotal[s] /\ BookedNow' = [BookedNow EXCEPT ![s] = @ + a]
  <2>1. BookedNow' = [t \in Sessions |-> Amount(t)']   BY DEF BookedNow
  <2> QED BY <1>4, <2>1 DEF BookedNow
<1>9. LedgerNow[i] = Ledger!Unissued
  <2>1. i > issued   BY <1>0, <1>1
  <2> QED BY <2>1, UnissuedEntry DEF LedgerNow, EntryNow, Ledger!Unissued, Unissued
<1>10. PICK e : e = [session |-> s, amount |-> a, status |-> "reserved"]   OBVIOUS
<1>11. LedgerNow' = [LedgerNow EXCEPT ![i] = e]
  <2>1. issued' = i   BY <1>1 DEF MakeReservation
  <2>2. PICK d : d = [session |-> s, amount |-> a, score |-> now + PreSubmitTTL,
                      status |-> "reserved", overdrawn |-> FALSE]
    OBVIOUS
  <2>3. ledger'[i] = d /\ \A j \in Ids \ {i} : ledger'[j] = ledger[j]   BY <1>1, <2>2, MakeStep
  <2>4. ~(i > i)   BY <1>0, <1>1
  <2>5. EntryNow(i)' = e   BY <2>1, <2>2, <2>3, <2>4, <1>10 DEF EntryNow
  <2>6. \A j \in Ids \ {i} : EntryNow(j)' = EntryNow(j)
    <3>1. \A j \in Ids \ {i} : j > i <=> j > issued   BY <1>0, <1>1, ConstantTypes DEF Ids
    <3> QED BY <2>1, <2>3, <3>1 DEF EntryNow
  <2>7. LedgerNow' = [j \in Ids |-> EntryNow(j)']   BY DEF LedgerNow
  <2> HIDE DEF EntryNow
  <2> QED BY <2>5, <2>6, <2>7 DEF LedgerNow
<1>12. Ledger!Grant(i, s, a)
  BY <1>8, <1>9, <1>10, <1>11 DEF Ledger!Grant, BookedNow, LedgerNow, EntryNow
<1> QED BY <1>12 DEF Ledger!LedgerNext

\* A reported execution settles the reservation.
LEMMA CommitCommits ==
    ASSUME StateInv, NEW p \in Procs, NEW i \in Ids, CommitReservation(p, i)
    PROVE  Ledger!LedgerNext \/ UNCHANGED <<BookedNow, LedgerNow>>
<1>0. issued' = issued /\ aggregate' = aggregate   BY DEF CommitReservation
<1>1. BookedNow' = BookedNow   BY <1>0 DEF BookedNow, Amount
<1>2. CASE UNCHANGED ledger   BY <1>0, <1>1, <1>2 DEF LedgerNow, EntryNow
<1>3. CASE ledger[i].status = "reserved" /\ \E e : Settles(i, e) /\ e.status = "committed"
  <2>1. PICK e : Settles(i, e) /\ e.status = "committed"   BY <1>3
  <2>2. i \in 1 .. issued /\ ~(i > issued)
    <3>1. i \in 1 .. issued   BY <2>1 DEF Settles
    <3> QED BY <3>1, ConstantTypes DEF StateInv, LedgerOK
  <2>3. \A j \in Ids : ledger'[j] = IF j = i THEN e ELSE ledger[j]
    BY <2>1 DEF Settles, StateInv, LedgerOK
  <2>4. PICK d : d = [session |-> ledger[i].session, amount |-> ledger[i].amount,
                      status |-> "committed"]
    OBVIOUS
  <2>5. EntryNow(i)' = d
    BY <1>0, <2>1, <2>2, <2>3, <2>4 DEF EntryNow, Settles
  <2>6. \A j \in Ids \ {i} : EntryNow(j)' = EntryNow(j)   BY <1>0, <2>3 DEF EntryNow
  <2>7. LedgerNow[i] = [session |-> ledger[i].session, amount |-> ledger[i].amount,
                        status |-> "reserved"]
    BY <1>3, <2>2 DEF LedgerNow, EntryNow
  <2>8. [LedgerNow[i] EXCEPT !.status = "committed"] = d   BY <2>4, <2>7
  <2>9. LedgerNow' = [LedgerNow EXCEPT ![i].status = "committed"]
    <3>1. LedgerNow' = [j \in Ids |-> EntryNow(j)']   BY DEF LedgerNow
    <3>2. LedgerNow' = [LedgerNow EXCEPT ![i] = d]
      <4> HIDE DEF EntryNow
      <4> QED BY <2>5, <2>6, <3>1 DEF LedgerNow
    <3> QED BY <2>8, <3>2
  <2>10. LedgerNow[i].status = "reserved"   BY <2>7
  <2>11. Ledger!Commit(i)
    BY <1>1, <2>9, <2>10 DEF Ledger!Commit, BookedNow, LedgerNow, EntryNow
  <2> QED BY <2>11 DEF Ledger!LedgerNext
<1> QED BY <1>2, <1>3, CommitSettles

\* Every step is one of the ledger, or one it does not show.
LEMMA LedgerSimulates ==
    ASSUME EarlyInv, BeforeExpiry, [Next]_vars
    PROVE  Ledger!LedgerNext \/ UNCHANGED <<BookedNow, LedgerNow>>
<1>0. /\ StateInv /\ ReadFresh /\ AggregateOK /\ NoneGivenBack
  BY DEF EarlyInv, FullInv, LockInv
<1>1. ASSUME UNCHANGED <<aggregate, issued, ledger>> PROVE UNCHANGED <<BookedNow, LedgerNow>>
  BY <1>1 DEF BookedNow, Amount, LedgerNow, EntryNow
<1>2. CASE Tick
  <2>1. ASSUME NEW s \in Sessions PROVE Amount(s)' = Amount(s)
    <3>1. CASE aggregate[s] = Nil
      <4>1. Amount(s) = 0 /\ (Amount(s)' = Amount(s) \/ Amount(s)' = 0)
        BY <1>0, <1>2, <3>1, TickAmount DEF Amount
      <4> QED BY <4>1
    <3>2. CASE aggregate[s] # Nil
      <4>1. aggregate[s].exp >= ValidUntil /\ aggregate[s].exp \in Nat
        BY <1>0, <3>2 DEF AggregateOK, StateInv, StoreOK
      <4>2. now' \in Nat /\ now' <= MaxTime /\ MaxTime < ValidUntil
        BY <1>0, <1>2, StateStep, ConstantTypes DEF StateInv, StoreOK, BeforeExpiry
      <4>3. ~(aggregate[s].exp <= now')   BY <4>1, <4>2, ConstantTypes
      <4> QED BY <1>0, <1>2, <4>3, TickAmount
    <3> QED BY <3>1, <3>2
  <2>2. UNCHANGED <<issued, ledger>>   BY <1>2 DEF Tick
  <2>3. BookedNow' = BookedNow   BY <2>1 DEF BookedNow
  <2> QED BY <2>2, <2>3 DEF LedgerNow, EntryNow
<1>3. ASSUME NEW p \in Procs, Continue(p), ~MakeReservation(p)
      PROVE  UNCHANGED <<aggregate, issued, ledger>>
  BY <1>0, <1>3, NoRelease
     DEF Continue, SweepRange, SweepNext, CheckIdem, AcquireLock, ReadBudget, Unlock
<1>4. ASSUME NEW p \in Procs, \/ \E s \in Sessions, k \in Keys, a \in Amounts : StartReserve(p, s, k, a)
                              \/ Crash(p)
      PROVE  UNCHANGED <<aggregate, issued, ledger>>
  BY <1>4 DEF StartReserve, Crash
<1>5. CASE UNCHANGED vars   BY <1>1, <1>5 DEF vars
<1>6. ASSUME NEW p \in Procs, MakeReservation(p) PROVE Ledger!LedgerNext   BY <1>0, <1>6, MakeGrants
<1>7. ASSUME NEW p \in Procs, NEW i \in Ids, CommitReservation(p, i)
      PROVE  Ledger!LedgerNext \/ UNCHANGED <<BookedNow, LedgerNow>>
  BY <1>0, <1>7, CommitCommits
<1> QED BY <1>0, <1>1, <1>2, <1>3, <1>4, <1>5, <1>6, <1>7, NoRelease DEF Next

LEMMA LedgerStarts == ASSUME Init PROVE Ledger!LedgerInit
<1>1. BookedNow = [s \in Sessions |-> 0]   BY DEF Init, BookedNow, Amount
<1>2. \A i \in Ids : i > issued /\ ledger[i] = Unissued   BY ConstantTypes DEF Init, Ids
<1>3. LedgerNow = [i \in Ids |-> Ledger!Unissued]
  BY <1>2 DEF LedgerNow, EntryNow, Unissued, Ledger!Unissued
<1> QED BY <1>1, <1>3 DEF Ledger!LedgerInit, BookedNow, LedgerNow, EntryNow

(***************************************************************************)
(* ImplementsLedger: for any number of requests, sessions and crashes, and *)
(* until the first reservation lapses or is reported reverted, the Redis   *)
(* commands of interleaved requests are a ledger that grants one           *)
(* reservation at a time, within the maximum, and settles it once.         *)
(***************************************************************************)
THEOREM ServiceIsLedger == ASSUME ~Stalls, BeforeExpiry PROVE Spec => ImplementsLedger
<1>1. Init => Ledger!LedgerInit   BY LedgerStarts
<1>2. EarlyInv /\ [Next]_vars => [Ledger!LedgerNext]_(Ledger!ledgerVars)
  BY LedgerSimulates DEF Ledger!ledgerVars, BookedNow, LedgerNow, EntryNow
<1> QED BY <1>1, <1>2, EarlyAlways, PTL DEF Spec, ImplementsLedger, Ledger!LedgerSpec
=============================================================================
