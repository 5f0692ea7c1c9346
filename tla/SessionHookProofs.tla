------------------------- MODULE SessionHookProofs -------------------------
(***************************************************************************)
(* Invariance proofs for SessionHook, for every set of lanes, sessions and *)
(* executions and every depth of nested calls.                             *)
(***************************************************************************)
EXTENDS SessionHook, SumProofs, SequenceTheorems

-----------------------------------------------------------------------------
(* The call stack.                                                         *)

\* The top entry exists and popping it keeps the others.
LEMMA PopLemma ==
    ASSUME NEW S, stack \in Seq(S), stack # <<>>
    PROVE  /\ Len(stack) \in Nat \ {0}
           /\ Top \in S
           /\ Pop \in Seq(S)
           /\ Len(Pop) = Len(stack) - 1
           /\ \A i \in 1 .. Len(Pop) : Pop[i] = stack[i]
<1>1. Len(stack) \in Nat \ {0}
  BY EmptySeq
<1>2. Top \in S
  BY <1>1, ElementOfSeq DEF Top
<1>3. \A i \in 1 .. Len(stack) - 1 : i \in 1 .. Len(stack)
  BY <1>1
<1>4. /\ Pop \in Seq(S)
      /\ Len(Pop) = IF 1 <= Len(stack) - 1 THEN Len(stack) - 1 - 1 + 1 ELSE 0
      /\ \A i \in 1 .. Len(stack) - 1 - 1 + 1 : Pop[i] = stack[1 + i - 1]
  <2>1. \A i \in 1 .. Len(stack) - 1 : stack[i] \in S
    BY <1>3, ElementOfSeq
  <2> QED
    BY <1>1, <2>1, SubSeqProperties DEF Pop
<1>5. Len(Pop) = Len(stack) - 1
  <2> DEFINE n == Len(stack)
  <2>1. n \in Nat \ {0} /\ Len(Pop) = IF 1 <= n - 1 THEN n - 1 - 1 + 1 ELSE 0
    BY <1>1, <1>4
  <2> HIDE DEF n
  <2>2. Len(Pop) = n - 1
    BY <2>1
  <2> QED
    BY <2>2 DEF n
<1>6. ASSUME NEW i \in 1 .. Len(Pop) PROVE Pop[i] = stack[i]
  <2>1. i \in 1 .. Len(stack) - 1 - 1 + 1 /\ 1 + i - 1 = i
    BY <1>1, <1>5
  <2> QED
    BY <1>4, <2>1
<1> QED
  BY <1>1, <1>2, <1>4, <1>5, <1>6

\* Revoking a session changes nothing else of its configuration.
LEMMA RevokedConfig ==
    ASSUME NEW c \in Config
    PROVE  LET r == [c EXCEPT !.revoked = TRUE]
           IN  /\ r \in Config
               /\ r # NoSession
               /\ r.nonceKey = c.nonceKey
               /\ r.sessionId = c.sessionId
               /\ SessionIdOf(r) = SessionIdOf(c)
<1>1. [c EXCEPT !.revoked = TRUE] \in Config
  BY DEF Config
<1> QED
  BY <1>1, InputAssumption DEF Config, SessionIdOf

-----------------------------------------------------------------------------
(* The accumulator of the validation loop.                                 *)

\* h is the recursive function SpendAfter, up to leaf m.
AccUpTo(h, leaves, m) ==
    h = [n \in 0 .. m |-> IF n = 0 THEN 0 ELSE h[n - 1] + leaves[n].amount]

\* It exists for every number of leaves: there is no least number for which
\* it does not.
LEMMA AccExists == ASSUME NEW leaves, NEW m \in Nat PROVE \E h : AccUpTo(h, leaves, m)
<1> DEFINE T == {n \in Nat : ~ \E h : AccUpTo(h, leaves, n)}
<1>1. ASSUME NEW n \in T, \A k \in T : n <= k PROVE FALSE
  <2>1. n \in Nat   OBVIOUS
  <2>2. CASE n = 0
    <3>1. PICK h : h = [k \in 0 .. n |-> 0]   OBVIOUS
    <3>2. AccUpTo(h, leaves, n)   BY <2>2, <3>1 DEF AccUpTo
    <3> QED BY <3>2
  <2>3. CASE n # 0
    <3>1. n - 1 \in Nat /\ n - 1 \notin T   BY <1>1, <2>1, <2>3
    <3>2. PICK g : AccUpTo(g, leaves, n - 1)   BY <3>1
    <3>3. PICK h : h = [k \in 0 .. n |-> IF k = 0 THEN 0 ELSE g[k - 1] + leaves[k].amount]
      OBVIOUS
    <3>4. \A k \in 0 .. n - 1 : h[k] = g[k]   BY <2>1, <3>2, <3>3 DEF AccUpTo
    <3>5. \A k \in 0 .. n : k # 0 => h[k - 1] = g[k - 1]   BY <2>1, <3>4
    <3>6. AccUpTo(h, leaves, n)   BY <3>3, <3>5 DEF AccUpTo
    <3> QED BY <3>6
  <2> QED BY <2>2, <2>3
<1>2. T = {}   BY <1>1, LeastNumber
<1> QED BY <1>2

\* What the recursive definition of SpendAfter computes.
LEMMA SpendAfterAdds ==
    ASSUME NEW leaves, Len(leaves) \in Nat
    PROVE  /\ SpendAfter(leaves)[0] = 0
           /\ \A n \in 1 .. Len(leaves) :
                 SpendAfter(leaves)[n] = SpendAfter(leaves)[n - 1] + leaves[n].amount
<1> DEFINE Acc(h) == h = [n \in 0 .. Len(leaves) |->
                             IF n = 0 THEN 0 ELSE h[n - 1] + leaves[n].amount]
<1>1. \E h : Acc(h)   BY AccExists DEF AccUpTo
<1>2. Acc(CHOOSE h : Acc(h))   BY <1>1, Zenon
<1>3. SpendAfter(leaves) = (CHOOSE h : Acc(h))   BY DEF SpendAfter
<1>4. Acc(SpendAfter(leaves))   <2> HIDE DEF Acc   <2> QED BY <1>2, <1>3
<1> QED BY <1>4

-----------------------------------------------------------------------------
(* Types.                                                                  *)

\* The inductive form of TypeOK: what a revert restores is well formed too.
TypeInv ==
    /\ TypeOK
    /\ \A i \in 1 .. Len(stack) : WellFormed(stack[i].saved.sessions)

\* What Storage \in StorageType says of each variable.
LEMMA StorageTypes ==
    Storage \in StorageType <=>
        /\ sessions \in [Lanes -> Config \cup {NoSession}]
        /\ sessionSpend \in [SessionIds -> Nat]
        /\ usedExecutions \in SUBSET Digest
        /\ sessionExecutionSeq \in [SessionIds -> Nat]
        /\ moved \in [SessionIds \X Addresses \X Addresses -> Nat]
        /\ log \in Seq(Event)
BY DEF Storage, StorageType

\* The context of an admitted execution is a frame of its session.
LEMMA ContextLemma ==
    ASSUME TypeOK, NEW l \in Lanes, NEW e \in Executions, PreCheckAllows(l, e)
    PROVE  /\ sessions[l] \in Config
           /\ sessions[l].sessionId = SessionIdOf(sessions[l])
           /\ sessions[l].sessionId \in SessionIds
           /\ FrameSpend(e) \in Nat
           /\ ExecutionDigest(l, e) \in Digest
           /\ HookContext(l, e) \in Frame
<1>1. sessions[l] \in Config /\ sessions[l] # NoSession
  BY StorageTypes DEF TypeOK, PreCheckAllows, ActiveSession, Registered
<1>2. /\ sessions[l].sessionId \in SessionIds
      /\ sessions[l].maxTotalSpend \in Nat
  BY <1>1, InputAssumption DEF Config
<1>3. sessions[l].sessionId = SessionIdOf(sessions[l])
  BY <1>1 DEF TypeOK, WellFormed
<1>4. FrameSpend(e) \in Nat
  BY InputAssumption DEF PreCheckAllows
<1>5. sessionExecutionSeq[sessions[l].sessionId] \in Nat
  BY <1>2, StorageTypes DEF TypeOK
<1>6. ExecutionDigest(l, e) \in Digest
  BY <1>2, <1>5 DEF ExecutionDigest, Digest
<1>7. e.leaves \in Seq(Leaf)
  BY InputAssumption DEF Execution
<1>8. HookContext(l, e) \in Frame
  BY <1>2, <1>4, <1>5, <1>6, <1>7 DEF HookContext, Frame, TypeOK
<1> QED
  BY <1>1, <1>2, <1>3, <1>4, <1>6, <1>8

\* Two stack entries of the same executeWithSession call: only the number
\* of token calls made may differ.
SameCall(f, g) ==
    /\ f.sessionId = g.sessionId
    /\ f.executionDigest = g.executionDigest
    /\ f.executionSeq = g.executionSeq
    /\ f.frameSpend = g.frameSpend
    /\ f.maxTotalSpend = g.maxTotalSpend
    /\ f.leaves = g.leaves
    /\ f.saved = g.saved

\* An entry pushed by the current step.
NewCall(f) ==
    \E l \in Lanes, e \in Executions :
        PreCheckAllows(l, e) /\ f = HookContext(l, e)

\* Counting a token call keeps the entry a frame of the same call.
LEMMA DoneLemma ==
    ASSUME NEW g \in Frame
    PROVE  LET f == [g EXCEPT !.done = @ + 1]
           IN  f \in Frame /\ f.done = g.done + 1 /\ SameCall(f, g)
<1>1. g.done \in Nat /\ g.done + 1 \in Nat
  BY DEF Frame
<1>2. ASSUME NEW d \in Nat
      PROVE  LET f == [g EXCEPT !.done = d]
             IN  f \in Frame /\ f.done = d /\ SameCall(f, g)
  BY DEF Frame, SameCall
<1> QED
  BY <1>1, <1>2

\* Every entry of the new stack is an entry of the old one or a new call.
LEMMA StackStep ==
    ASSUME TypeOK, [Next]_vars
    PROVE  /\ stack' \in Seq(Frame)
           /\ \A i \in 1 .. Len(stack') :
                 \/ i \in 1 .. Len(stack) /\ SameCall(stack'[i], stack[i])
                 \/ NewCall(stack'[i])
<1> USE DEF TypeOK
<1> DEFINE Kept == /\ stack' \in Seq(Frame)
                   /\ \A i \in 1 .. Len(stack') :
                         \/ i \in 1 .. Len(stack) /\ SameCall(stack'[i], stack[i])
                         \/ NewCall(stack'[i])
<1>1. ASSUME stack' = stack PROVE Kept
  BY <1>1 DEF SameCall
<1>2. ASSUME stack # <<>>, stack' = Pop PROVE Kept
  <2>1. /\ Pop \in Seq(Frame)
        /\ Len(stack) \in Nat
        /\ Len(Pop) = Len(stack) - 1
        /\ \A i \in 1 .. Len(Pop) : Pop[i] = stack[i]
    BY <1>2, PopLemma
  <2>2. \A i \in 1 .. Len(Pop) : i \in 1 .. Len(stack)
    BY <2>1
  <2> QED
    BY <1>2, <2>1, <2>2 DEF SameCall
<1>3. ASSUME NEW l \in Lanes, NEW e \in Executions, PreCheckAllows(l, e),
             stack' = Append(stack, HookContext(l, e))
      PROVE  Kept
  <2>1. HookContext(l, e) \in Frame
    BY <1>3, ContextLemma
  <2>2. /\ Append(stack, HookContext(l, e)) \in Seq(Frame)
        /\ Len(Append(stack, HookContext(l, e))) = Len(stack) + 1
        /\ \A i \in 1 .. Len(stack) : Append(stack, HookContext(l, e))[i] = stack[i]
        /\ Append(stack, HookContext(l, e))[Len(stack) + 1] = HookContext(l, e)
    BY <2>1, AppendProperties
  <2>3. \A i \in 1 .. Len(stack) + 1 : i \in 1 .. Len(stack) \/ i = Len(stack) + 1
    BY LenProperties
  <2> QED
    BY <1>3, <2>2, <2>3 DEF SameCall, NewCall
<1>4. CASE TokenCall
  <2> DEFINE n == Len(stack)
             f == [stack[n] EXCEPT !.done = @ + 1]
  <2>1. n \in Nat \ {0} /\ n \in 1 .. n /\ stack[n] \in Frame
    BY <1>4, PopLemma DEF TokenCall, Top
  <2>2. f \in Frame /\ SameCall(f, stack[n])
    BY <2>1, DoneLemma
  <2>3. stack' = [stack EXCEPT ![n] = f]
    BY <1>4 DEF TokenCall
  <2> HIDE DEF f
  <2>4. /\ stack' \in Seq(Frame)
        /\ Len(stack') = n
        /\ \A j \in 1 .. n : stack'[j] = IF j = n THEN f ELSE stack[j]
    BY <2>1, <2>2, <2>3, ExceptSeq
  <2>5. ASSUME NEW i \in 1 .. n PROVE SameCall(stack'[i], stack[i])
    BY <2>2, <2>4, <2>5 DEF SameCall
  <2> QED
    BY <2>4, <2>5
<1>5. CASE \E a \in Adapters : SetAdapter(a)
  BY <1>1, <1>5 DEF SetAdapter
<1>6. CASE \E c \in Offered : RegisterSession(c)
  BY <1>1, <1>6 DEF RegisterSession
<1>7. CASE \E caller \in Addresses, l \in Lanes : RevokeSession(caller, l)
  BY <1>1, <1>7 DEF RevokeSession
<1>8. CASE \E caller \in Addresses, l \in Lanes, e \in Executions :
               ExecuteWithSession(caller, l, e)
  BY <1>3, <1>8 DEF ExecuteWithSession
<1>9. CASE TokenCallFails
  BY <1>2, <1>9 DEF TokenCallFails, RevertTop
<1>10. CASE PostCheck
  BY <1>2, <1>10 DEF PostCheck, RevertTop, ApplyContext
<1>11. CASE Tick
  BY <1>1, <1>11 DEF Tick
<1>12. CASE UNCHANGED vars
  BY <1>1, <1>12 DEF vars
<1> QED
  BY <1>4, <1>5, <1>6, <1>7, <1>8, <1>9, <1>10, <1>11, <1>12 DEF Next

\* A revert restores the storage that the top entry saved.
LEMMA RevertLemma ==
    ASSUME TypeOK, stack # <<>>, RevertTop
    PROVE  /\ Top \in Frame
           /\ Len(stack) \in 1 .. Len(stack)
           /\ Storage' = Top.saved
<1>1. Top \in Frame /\ Len(stack) \in Nat \ {0}
  BY PopLemma DEF TypeOK
<1>2. Top.saved \in StorageType
  BY <1>1 DEF Frame
<1>3. Top.saved = [sessions            |-> Top.saved.sessions,
                   sessionSpend        |-> Top.saved.sessionSpend,
                   usedExecutions      |-> Top.saved.usedExecutions,
                   sessionExecutionSeq |-> Top.saved.sessionExecutionSeq,
                   moved               |-> Top.saved.moved,
                   log                 |-> Top.saved.log]
  BY <1>2 DEF StorageType
<1>4. Storage' = Top.saved
  BY <1>3 DEF RevertTop, Storage
<1> QED
  BY <1>1, <1>4

\* postCheck writes values of the right types.
LEMMA ApplyTypes ==
    ASSUME TypeOK, stack # <<>>, ApplyContext
    PROVE  Storage' \in StorageType
<1>1. Top \in Frame
  BY PopLemma DEF TypeOK
<1>2. /\ Top.sessionId \in SessionIds
      /\ Top.executionDigest \in Digest
      /\ Top.executionSeq \in Nat
      /\ Top.frameSpend \in Nat
  BY <1>1 DEF Frame
<1>3. /\ sessions \in [Lanes -> Config \cup {NoSession}]
      /\ sessionSpend \in [SessionIds -> Nat]
      /\ usedExecutions \in SUBSET Digest
      /\ sessionExecutionSeq \in [SessionIds -> Nat]
      /\ moved \in [SessionIds \X Addresses \X Addresses -> Nat]
      /\ log \in Seq(Event)
  BY StorageTypes DEF TypeOK
<1>4. NewSpend \in Nat
  BY <1>2, <1>3 DEF NewSpend
<1>5. sessionSpend' \in [SessionIds -> Nat]
  BY <1>2, <1>3, <1>4 DEF ApplyContext
<1>6. usedExecutions' \in SUBSET Digest
  BY <1>2, <1>3 DEF ApplyContext
<1>7. sessionExecutionSeq' \in [SessionIds -> Nat]
  BY <1>2, <1>3 DEF ApplyContext, NextSeq
<1>8. log' \in Seq(Event)
  <2>1. [sessionId       |-> Top.sessionId,
         executionDigest |-> Top.executionDigest,
         frameSpend      |-> Top.frameSpend,
         totalSpendAfter |-> NewSpend] \in Event
    BY <1>2, <1>4 DEF Event
  <2> QED
    BY <1>3, <2>1, AppendProperties DEF ApplyContext
<1>9. sessions' = sessions /\ moved' = moved
  BY DEF ApplyContext
<1> QED
  BY <1>3, <1>5, <1>6, <1>7, <1>8, <1>9 DEF Storage, StorageType

\* A token call moves a natural amount.
LEMMA TokenTypes ==
    ASSUME TypeOK, TokenCall
    PROVE  moved' \in [SessionIds \X Addresses \X Addresses -> Nat]
<1>1. Top \in Frame
  BY PopLemma DEF TypeOK, TokenCall
<1>2. /\ Top.sessionId \in SessionIds
      /\ Top.leaves \in Seq(Leaf)
      /\ Top.done \in Nat
  BY <1>1 DEF Frame
<1>3. Top.done + 1 \in 1 .. Len(Top.leaves)
  BY <1>2, LenProperties DEF TokenCall
<1>4. Top.leaves[Top.done + 1] \in Leaf
  BY <1>2, <1>3, ElementOfSeq
<1> DEFINE leaf == Top.leaves[Top.done + 1]
           key == <<Top.sessionId, leaf.target, leaf.recipient>>
<1>5. /\ leaf.amount \in Nat
      /\ key \in SessionIds \X Addresses \X Addresses
  BY <1>2, <1>4 DEF Leaf
<1>6. moved \in [SessionIds \X Addresses \X Addresses -> Nat]
  BY StorageTypes DEF TypeOK
<1>7. moved' = IF leaf.selector = Transfer
               THEN [moved EXCEPT ![key] = @ + leaf.amount] ELSE moved
  BY DEF TokenCall
<1> HIDE DEF leaf, key
<1>8. [moved EXCEPT ![key] = @ + leaf.amount]
          \in [SessionIds \X Addresses \X Addresses -> Nat]
  <2> DEFINE D == SessionIds \X Addresses \X Addresses
  <2>1. key \in D /\ leaf.amount \in Nat /\ moved \in [D -> Nat]
    BY <1>5, <1>6
  <2> HIDE DEF D
  <2>2. [moved EXCEPT ![key] = @ + leaf.amount] \in [D -> Nat]
    BY <2>1
  <2> QED
    BY <2>2 DEF D
<1> QED
  BY <1>6, <1>7, <1>8

\* Every step keeps the types, and the ids of the stored sessions.
LEMMA TypeStep ==
    ASSUME TypeInv, [Next]_vars
    PROVE  TypeInv'
<1>1. TypeOK
  BY DEF TypeInv
<1>2. /\ sessions \in [Lanes -> Config \cup {NoSession}]
      /\ sessionSpend \in [SessionIds -> Nat]
      /\ usedExecutions \in SUBSET Digest
      /\ sessionExecutionSeq \in [SessionIds -> Nat]
      /\ moved \in [SessionIds \X Addresses \X Addresses -> Nat]
      /\ log \in Seq(Event)
      /\ WellFormed(sessions)
      /\ adapter \in Addresses
      /\ now \in Nat
  BY <1>1, StorageTypes DEF TypeOK
<1> DEFINE Kept == /\ Storage' \in StorageType
                   /\ WellFormed(sessions')
                   /\ adapter' \in Addresses
                   /\ now' \in Nat
<1>3. ASSUME stack # <<>>, RevertTop, UNCHANGED <<adapter, now>> PROVE Kept
  <2>1. /\ Top \in Frame
        /\ Len(stack) \in 1 .. Len(stack)
        /\ Storage' = Top.saved
    BY <1>1, <1>3, RevertLemma
  <2>2. Top.saved \in StorageType /\ WellFormed(Top.saved.sessions)
    BY <2>1 DEF Frame, TypeInv, Top
  <2>3. sessions' = Top.saved.sessions
    BY <1>3 DEF RevertTop
  <2> QED
    BY <1>2, <1>3, <2>1, <2>2, <2>3
<1>4. ASSUME \E a \in Adapters : SetAdapter(a) PROVE Kept
  BY <1>1, <1>2, <1>4, InputAssumption DEF SetAdapter, TypeOK, Storage
<1>5. ASSUME \E c \in Offered : RegisterSession(c) PROVE Kept
  <2> PICK c \in Offered : RegisterSession(c)
    BY <1>5
  <2>1. c \in Config /\ c.nonceKey \in Lanes
    BY InputAssumption DEF Config
  <2>2. sessions' = [sessions EXCEPT ![c.nonceKey] = c] /\ c.sessionId = SessionIdOf(c)
    BY DEF RegisterSession, IdMatches
  <2>3. sessions' \in [Lanes -> Config \cup {NoSession}] /\ WellFormed(sessions')
    BY <1>2, <2>1, <2>2 DEF WellFormed
  <2> QED
    BY <1>2, <2>3 DEF RegisterSession, Storage, StorageType
<1>6. ASSUME \E caller \in Addresses, l \in Lanes : RevokeSession(caller, l) PROVE Kept
  <2> PICK caller \in Addresses, l \in Lanes : RevokeSession(caller, l)
    BY <1>6
  <2> DEFINE r == [sessions[l] EXCEPT !.revoked = TRUE]
  <2>1. sessions[l] \in Config /\ sessions[l] # NoSession
    BY <1>2 DEF RevokeSession, Registered
  <2>2. r \in Config /\ r.nonceKey = l /\ r.sessionId = SessionIdOf(r)
    BY <1>2, <2>1, RevokedConfig DEF WellFormed
  <2>3. sessions' = [sessions EXCEPT ![l] = r]
    BY DEF RevokeSession
  <2> HIDE DEF r
  <2>4. sessions' \in [Lanes -> Config \cup {NoSession}] /\ WellFormed(sessions')
    BY <1>2, <2>2, <2>3 DEF WellFormed
  <2> QED
    BY <1>2, <2>4 DEF RevokeSession, Storage, StorageType
<1>7. ASSUME \E caller \in Addresses, l \in Lanes, e \in Executions :
                 ExecuteWithSession(caller, l, e)
      PROVE  Kept
  BY <1>1, <1>2, <1>7 DEF ExecuteWithSession, TypeOK, Storage
<1>8. ASSUME TokenCall PROVE Kept
  BY <1>1, <1>2, <1>8, TokenTypes DEF TokenCall, Storage, StorageType
<1>9. ASSUME TokenCallFails PROVE Kept
  BY <1>3, <1>9 DEF TokenCallFails
<1>10. ASSUME PostCheck PROVE Kept
  <2>1. CASE PostCheckAllows
    <3>1. ApplyContext
      BY <1>10, <2>1 DEF PostCheck
    <3> QED
      BY <1>1, <1>2, <1>10, <3>1, ApplyTypes DEF PostCheck, ApplyContext
  <2>2. CASE ~PostCheckAllows
    BY <1>3, <1>10, <2>2 DEF PostCheck
  <2> QED
    BY <2>1, <2>2
<1>11. ASSUME Tick PROVE Kept
  BY <1>1, <1>2, <1>11 DEF Tick, TypeOK, Storage
<1>12. ASSUME UNCHANGED vars PROVE Kept
  BY <1>1, <1>2, <1>12 DEF vars, TypeOK, Storage
<1>13. Kept
  BY <1>4, <1>5, <1>6, <1>7, <1>8, <1>9, <1>10, <1>11, <1>12 DEF Next
<1>14. \A i \in 1 .. Len(stack') : WellFormed(stack'[i].saved.sessions)
  <2>1. ASSUME NEW f, NewCall(f) PROVE WellFormed(f.saved.sessions)
    <3>1. f.saved.sessions = sessions
      BY <2>1 DEF NewCall, HookContext, Storage
    <3> QED
      BY <1>2, <3>1
  <2> QED
    BY <1>1, <2>1, StackStep DEF TypeInv, SameCall
<1>15. stack' \in Seq(Frame)
  BY <1>1, StackStep
<1> QED
  BY <1>13, <1>14, <1>15 DEF TypeInv, TypeOK

LEMMA TypeInit == Init => TypeInv
<1> SUFFICES ASSUME Init PROVE TypeInv
  OBVIOUS
<1>1. Storage \in StorageType
  BY DEF Init, Storage, StorageType
<1> QED
  BY <1>1, InputAssumption DEF Init, TypeInv, TypeOK, WellFormed

\* Storage, stack and clock keep their types, and every stored session is
\* filed under its own lane and derived id (registerSession, revokeSession,
\* and the EVM's restoration of storage when a call reverts).
THEOREM TypeCorrect == Spec => []TypeOK
<1>1. TypeInv /\ [Next]_vars => TypeInv'
  BY TypeStep
<1>2. TypeInv => TypeOK
  BY DEF TypeInv
<1> QED
  BY <1>1, <1>2, TypeInit, PTL DEF Spec

-----------------------------------------------------------------------------
(* The spend cap.                                                          *)

CapOK(spend) == \A sid \in SessionIds : spend[sid] <= sid.maxTotalSpend

\* SpendWithinCap is kept by postCheck only because the cap in a context is
\* the cap of its session, and by a revert only because the storage that was
\* saved respected the caps as well.
CapInv ==
    /\ TypeInv
    /\ CapOK(sessionSpend)
    /\ \A i \in 1 .. Len(stack) :
          /\ stack[i].maxTotalSpend = stack[i].sessionId.maxTotalSpend
          /\ CapOK(stack[i].saved.sessionSpend)

LEMMA CapStep ==
    ASSUME CapInv, [Next]_vars
    PROVE  CapInv'
<1>1. TypeInv /\ TypeOK /\ CapOK(sessionSpend) /\ stack \in Seq(Frame)
  BY DEF CapInv, TypeInv, TypeOK
<1>2. ASSUME stack # <<>>, RevertTop PROVE CapOK(sessionSpend')
  <2>1. Len(stack) \in 1 .. Len(stack)
    BY <1>1, <1>2, RevertLemma
  <2> QED
    BY <1>2, <2>1 DEF RevertTop, CapInv, Top
<1>3. ASSUME stack # <<>>, PostCheckAllows, ApplyContext PROVE CapOK(sessionSpend')
  <2>1. Len(stack) \in 1 .. Len(stack) /\ Top \in Frame
    BY <1>1, <1>3, PopLemma
  <2>2. NewSpend <= Top.sessionId.maxTotalSpend
    BY <1>3, <2>1 DEF PostCheckAllows, CapInv, Top
  <2>3. sessionSpend \in [SessionIds -> Nat] /\ Top.sessionId \in SessionIds
    BY <1>1, <2>1, StorageTypes DEF TypeOK, Frame
  <2>4. sessionSpend' = [sessionSpend EXCEPT ![Top.sessionId] = NewSpend]
    BY <1>3 DEF ApplyContext
  <2> QED
    BY <1>1, <2>2, <2>3, <2>4 DEF CapOK
<1>4. CapOK(sessionSpend')
  <2>1. CASE TokenCallFails
    BY <1>2, <2>1 DEF TokenCallFails
  <2>2. CASE PostCheck
    BY <1>2, <1>3, <2>2 DEF PostCheck
  <2>3. CASE UNCHANGED sessionSpend
    BY <1>1, <2>3
  <2> QED
    BY <2>1, <2>2, <2>3 DEF Next, SetAdapter, RegisterSession, RevokeSession,
       ExecuteWithSession, TokenCall, Tick, vars
<1>5. ASSUME NEW f, NewCall(f)
      PROVE  f.maxTotalSpend = f.sessionId.maxTotalSpend /\ CapOK(f.saved.sessionSpend)
  <2> PICK l \in Lanes, e \in Executions :
          PreCheckAllows(l, e) /\ f = HookContext(l, e)
    BY <1>5 DEF NewCall
  <2>1. sessions[l].sessionId = SessionIdOf(sessions[l])
    BY <1>1, ContextLemma
  <2>2. sessions[l].sessionId.maxTotalSpend = sessions[l].maxTotalSpend
    BY <2>1 DEF SessionIdOf
  <2> QED
    BY <1>1, <2>2 DEF HookContext, Storage
<1>6. \A i \in 1 .. Len(stack') :
          /\ stack'[i].maxTotalSpend = stack'[i].sessionId.maxTotalSpend
          /\ CapOK(stack'[i].saved.sessionSpend)
  BY <1>1, <1>5, StackStep DEF CapInv, SameCall
<1>7. TypeInv'
  BY <1>1, TypeStep
<1> QED
  BY <1>4, <1>6, <1>7 DEF CapInv

\* No session ever spends more than the total the owner and SignGate signed,
\* whatever the token does between preCheck and postCheck.
THEOREM CapRespected == Spec => []SpendWithinCap
<1>1. Init => CapInv
  <2> SUFFICES ASSUME Init PROVE CapInv
    OBVIOUS
  <2>1. \A sid \in SessionIds : sid.maxTotalSpend \in Nat
    BY InputAssumption DEF SessionIds, SessionIdOf, Config
  <2>2. CapOK(sessionSpend)
    BY <2>1 DEF Init, CapOK
  <2> QED
    BY <2>2, TypeInit DEF Init, CapInv
<1>2. CapInv /\ [Next]_vars => CapInv'
  BY CapStep
<1>3. CapInv => SpendWithinCap
  BY DEF CapInv, CapOK, SpendWithinCap
<1> QED
  BY <1>1, <1>2, <1>3, PTL DEF Spec

-----------------------------------------------------------------------------
(* Execution digests.                                                      *)

UniqueIn(used, events) ==
    /\ used = {events[i].executionDigest : i \in 1 .. Len(events)}
    /\ \A i, j \in 1 .. Len(events) :
          events[i].executionDigest = events[j].executionDigest => i = j

DigestInv ==
    /\ TypeInv
    /\ UniqueIn(usedExecutions, log)
    /\ \A i \in 1 .. Len(stack) :
          UniqueIn(stack[i].saved.usedExecutions, stack[i].saved.log)

\* Announcing an unused digest keeps the digests distinct.
LEMMA UniqueAppend ==
    ASSUME NEW used, NEW events \in Seq(Event), NEW ev \in Event,
           UniqueIn(used, events), ev.executionDigest \notin used
    PROVE  UniqueIn(used \cup {ev.executionDigest}, Append(events, ev))
<1> DEFINE n == Len(events)
           more == Append(events, ev)
<1>1. /\ n \in Nat
      /\ Len(more) = n + 1
      /\ \A i \in 1 .. n : more[i] = events[i]
      /\ more[n + 1] = ev
  BY AppendProperties, LenProperties
<1>2. \A i \in 1 .. n + 1 : i \in 1 .. n \/ i = n + 1
  BY <1>1
<1>3. \A i \in 1 .. n : i \in 1 .. n + 1
  BY <1>1
<1>4. n + 1 \in 1 .. n + 1
  BY <1>1
<1>5. \A i \in 1 .. n : events[i].executionDigest \in used
  BY DEF UniqueIn
<1> HIDE DEF more
<1>6. used \cup {ev.executionDigest}
          = {more[i].executionDigest : i \in 1 .. n + 1}
  BY <1>1, <1>2, <1>3, <1>4 DEF UniqueIn
<1>7. \A i, j \in 1 .. n + 1 :
          more[i].executionDigest = more[j].executionDigest => i = j
  BY <1>1, <1>2, <1>5 DEF UniqueIn
<1>8. Len(more) = n + 1 /\ more = Append(events, ev)
  BY <1>1 DEF more
<1> QED
  BY <1>6, <1>7, <1>8 DEF UniqueIn

LEMMA DigestStep ==
    ASSUME DigestInv, [Next]_vars
    PROVE  DigestInv'
<1>1. /\ TypeInv /\ TypeOK /\ stack \in Seq(Frame) /\ log \in Seq(Event)
      /\ UniqueIn(usedExecutions, log)
  BY StorageTypes DEF DigestInv, TypeInv, TypeOK
<1>2. ASSUME stack # <<>>, RevertTop PROVE UniqueIn(usedExecutions', log')
  <2>1. Len(stack) \in 1 .. Len(stack)
    BY <1>1, <1>2, RevertLemma
  <2> QED
    BY <1>2, <2>1 DEF RevertTop, DigestInv, Top
<1>3. ASSUME stack # <<>>, PostCheckAllows, ApplyContext
      PROVE  UniqueIn(usedExecutions', log')
  <2> DEFINE ev == [sessionId       |-> Top.sessionId,
                    executionDigest |-> Top.executionDigest,
                    frameSpend      |-> Top.frameSpend,
                    totalSpendAfter |-> NewSpend]
  <2>1. Top \in Frame
    BY <1>1, <1>3, PopLemma
  <2>2. NewSpend \in Nat
    BY <1>1, <2>1, StorageTypes DEF NewSpend, TypeOK, Frame
  <2>3. ev \in Event /\ ev.executionDigest = Top.executionDigest
    BY <2>1, <2>2 DEF Event, Frame
  <2>4. /\ usedExecutions' = usedExecutions \cup {ev.executionDigest}
        /\ log' = Append(log, ev)
        /\ ev.executionDigest \notin usedExecutions
    BY <1>3, <2>3 DEF ApplyContext, PostCheckAllows
  <2> HIDE DEF ev
  <2> QED
    BY <1>1, <2>3, <2>4, UniqueAppend
<1>4. UniqueIn(usedExecutions', log')
  <2>1. CASE TokenCallFails
    BY <1>2, <2>1 DEF TokenCallFails
  <2>2. CASE PostCheck
    BY <1>2, <1>3, <2>2 DEF PostCheck
  <2>3. CASE UNCHANGED <<usedExecutions, log>>
    BY <1>1, <2>3
  <2> QED
    BY <2>1, <2>2, <2>3 DEF Next, SetAdapter, RegisterSession, RevokeSession,
       ExecuteWithSession, TokenCall, Tick, vars
<1>5. ASSUME NEW f, NewCall(f) PROVE UniqueIn(f.saved.usedExecutions, f.saved.log)
  <2>1. f.saved.usedExecutions = usedExecutions /\ f.saved.log = log
    BY <1>5 DEF NewCall, HookContext, Storage
  <2> QED
    BY <1>1, <2>1
<1>6. \A i \in 1 .. Len(stack') :
          UniqueIn(stack'[i].saved.usedExecutions, stack'[i].saved.log)
  BY <1>1, <1>5, StackStep DEF DigestInv, SameCall
<1>7. TypeInv'
  BY <1>1, TypeStep
<1> QED
  BY <1>4, <1>6, <1>7 DEF DigestInv

\* No digest is announced twice, and the hook's replay table is exactly the
\* set of announced digests, even when nested calls take the same sequence
\* number (the second look at usedExecutions in postCheck).
THEOREM DigestsNeverRepeat == Spec => []DigestsUnique
<1>1. Init => DigestInv
  <2> SUFFICES ASSUME Init PROVE DigestInv
    OBVIOUS
  <2>1. UniqueIn(usedExecutions, log)
    BY DEF Init, UniqueIn
  <2> QED
    BY <2>1, TypeInit DEF Init, DigestInv
<1>2. DigestInv /\ [Next]_vars => DigestInv'
  BY DigestStep
<1>3. DigestInv => DigestsUnique
  <2> SUFFICES ASSUME DigestInv PROVE DigestsUnique
    OBVIOUS
  <2>1. DOMAIN log = 1 .. Len(log)
    BY StorageTypes, LenProperties DEF DigestInv, TypeInv, TypeOK
  <2> QED
    BY <2>1 DEF DigestInv, UniqueIn, DigestsUnique
<1> QED
  BY <1>1, <1>2, <1>3, PTL DEF Spec

-----------------------------------------------------------------------------
(* Conservation: what moved is what was accounted for.                     *)

\* The token and the recipient of a session.
Own(sid, t, r) == t = sid.token /\ r = sid.allowedRecipient

\* What storage st says has moved and is not accounted for.
Excess(st, sid, t, r) ==
    st.moved[<<sid, t, r>>] - (IF Own(sid, t, r) THEN st.sessionSpend[sid] ELSE 0)

\* What the token calls made so far by entry f have moved.
InFlight(f, sid, t, r) ==
    IF sid = f.sessionId /\ Own(sid, t, r) THEN SpendAfter(f.leaves)[f.done] ELSE 0

\* The calls of an entry have passed the validation of preCheck.
Validated(f) ==
    /\ f.frameSpend = SpendAfter(f.leaves)[Len(f.leaves)]
    /\ \A n \in 1 .. Len(f.leaves) :
          /\ Own(f.sessionId, f.leaves[n].target, f.leaves[n].recipient)
          /\ f.leaves[n].selector = Transfer

\* The storage when entry i made its last call to outside code.
StorageAfter(i) == IF i = Len(stack) THEN Storage ELSE stack[i + 1].saved

\* Nothing is unaccounted for at the bottom of the stack, and every entry
\* adds exactly what its own token calls have moved.
Conserved(sid, t, r) ==
    /\ Excess(Committed, sid, t, r) = 0
    /\ \A i \in 1 .. Len(stack) :
          Excess(StorageAfter(i), sid, t, r) =
              Excess(stack[i].saved, sid, t, r) + InFlight(stack[i], sid, t, r)

\* The calls an entry has made are among its calls.
Progress(f) ==
    /\ f.done \in 0 .. Len(f.leaves)
    /\ SpendAfter(f.leaves)[f.done] \in Nat

MovedInv ==
    /\ TypeInv
    /\ \A i \in 1 .. Len(stack) : Validated(stack[i]) /\ Progress(stack[i])
    /\ \A sid \in SessionIds, t \in Addresses, r \in Addresses :
          Conserved(sid, t, r)

\* Excess and InFlight are integers.
LEMMA ExcessType ==
    ASSUME NEW st \in StorageType,
           NEW sid \in SessionIds, NEW t \in Addresses, NEW r \in Addresses
    PROVE  Excess(st, sid, t, r) \in Int
<1>1. st.moved[<<sid, t, r>>] \in Nat /\ st.sessionSpend[sid] \in Nat
  BY DEF StorageType
<1> QED
  BY <1>1 DEF Excess

LEMMA InFlightType ==
    ASSUME NEW f, Progress(f),
           NEW sid \in SessionIds, NEW t \in Addresses, NEW r \in Addresses
    PROVE  InFlight(f, sid, t, r) \in Int
BY DEF InFlight, Progress

\* A call that returns, or reverts, to the state of its beginning as far as
\* unaccounted tokens go, leaves the rest of the stack conserved.
LEMMA PopConserved ==
    ASSUME MovedInv, stack # <<>>, stack' = Pop,
           NEW sid \in SessionIds, NEW t \in Addresses, NEW r \in Addresses,
           Excess(Storage', sid, t, r) = Excess(Top.saved, sid, t, r)
    PROVE  Conserved(sid, t, r)'
<1> DEFINE n == Len(stack)
<1>1. /\ stack \in Seq(Frame)
      /\ Conserved(sid, t, r)
  BY DEF MovedInv, TypeInv, TypeOK
<1>2. /\ n \in Nat \ {0}
      /\ stack' \in Seq(Frame)
      /\ Len(stack') = n - 1
      /\ \A i \in 1 .. n - 1 : stack'[i] = stack[i]
  BY <1>1, PopLemma
<1>3. Excess(Committed', sid, t, r) = 0
  <2>1. Excess(stack[1].saved, sid, t, r) = 0
    BY <1>1 DEF Conserved, Committed
  <2>2. CASE n = 1
    <3>1. stack' = <<>>
      BY <1>2, <2>2, EmptySeq
    <3> QED
      BY <2>1, <2>2, <3>1 DEF Committed, Top
  <2>3. CASE n # 1
    <3>1. stack' # <<>> /\ 1 \in 1 .. n - 1
      BY <1>2, <2>3, EmptySeq
    <3> QED
      BY <1>2, <2>1, <3>1 DEF Committed
  <2> QED
    BY <2>2, <2>3
<1>4. ASSUME NEW i \in 1 .. n - 1
      PROVE  Excess(StorageAfter(i)', sid, t, r) =
                 Excess(stack'[i].saved, sid, t, r) + InFlight(stack'[i], sid, t, r)
  <2>1. /\ i \in 1 .. n /\ i # n
        /\ i # n - 1 => i + 1 \in 1 .. n - 1
        /\ i = n - 1 => i + 1 = n
    BY <1>2
  <2>2. Excess(StorageAfter(i), sid, t, r) =
            Excess(stack[i].saved, sid, t, r) + InFlight(stack[i], sid, t, r)
    BY <1>1, <2>1 DEF Conserved
  <2>3. StorageAfter(i) = stack[i + 1].saved
    BY <2>1 DEF StorageAfter
  <2>4. Excess(StorageAfter(i)', sid, t, r) = Excess(stack[i + 1].saved, sid, t, r)
    <3>1. CASE i = n - 1
      <4>1. StorageAfter(i)' = Storage'
        BY <1>2, <3>1 DEF StorageAfter
      <4> QED
        BY <2>1, <3>1, <4>1 DEF Top
    <3>2. CASE i # n - 1
      <4>1. StorageAfter(i)' = stack'[i + 1].saved
        BY <1>2, <3>2 DEF StorageAfter
      <4> QED
        BY <1>2, <2>1, <3>2, <4>1
    <3> QED
      BY <3>1, <3>2
  <2> QED
    BY <1>2, <2>2, <2>3, <2>4
<1> QED
  BY <1>2, <1>3, <1>4 DEF Conserved

\* A step that moves nothing, accounts for nothing and leaves the stack.
LEMMA IdleConserved ==
    ASSUME MovedInv, UNCHANGED <<sessionSpend, moved, stack>>,
           NEW sid \in SessionIds, NEW t \in Addresses, NEW r \in Addresses
    PROVE  Conserved(sid, t, r)'
<1>1. Excess(Storage', sid, t, r) = Excess(Storage, sid, t, r)
  BY DEF Excess, Storage
<1>2. Conserved(sid, t, r)
  BY DEF MovedInv
<1>3. Excess(Committed', sid, t, r) = 0
  BY <1>1, <1>2 DEF Conserved, Committed
<1>4. ASSUME NEW i \in 1 .. Len(stack)
      PROVE  Excess(StorageAfter(i)', sid, t, r) = Excess(StorageAfter(i), sid, t, r)
  BY <1>1 DEF StorageAfter
<1> QED
  BY <1>2, <1>3, <1>4 DEF Conserved

\* What preCheck admits: validated calls, none of them made yet.
LEMMA AdmittedCall ==
    ASSUME TypeOK, NEW f, NewCall(f)
    PROVE  /\ f \in Frame
           /\ f.saved = Storage
           /\ Validated(f)
           /\ Progress(f)
           /\ \A sid, t, r : InFlight(f, sid, t, r) = 0
<1> PICK l \in Lanes, e \in Executions :
        PreCheckAllows(l, e) /\ f = HookContext(l, e)
  BY DEF NewCall
<1> DEFINE s == sessions[l]
<1>1. /\ f \in Frame
      /\ s.sessionId = SessionIdOf(s)
  BY ContextLemma
<1>2. /\ f.leaves = e.leaves
      /\ f.sessionId = s.sessionId
      /\ f.frameSpend = SpendAfter(f.leaves)[Len(f.leaves)]
      /\ f.done = 0
      /\ f.saved = Storage
  BY DEF HookContext, FrameSpend
<1>3. f.leaves \in Seq(Leaf) /\ SpendAfter(f.leaves)[0] = 0
  <2>1. f.leaves \in Seq(Leaf)
    BY <1>1 DEF Frame
  <2>2. Len(f.leaves) \in Nat
    BY <2>1, LenProperties
  <2> QED
    BY <2>1, <2>2, SpendAfterAdds
<1>4. DOMAIN f.leaves = 1 .. Len(f.leaves) /\ Len(f.leaves) \in Nat
  BY <1>3, LenProperties
<1>5. ASSUME NEW n \in 1 .. Len(f.leaves)
      PROVE  /\ Own(f.sessionId, f.leaves[n].target, f.leaves[n].recipient)
             /\ f.leaves[n].selector = Transfer
  <2>1. LeafAllowed(s, f.leaves[n])
    BY <1>2, <1>4 DEF PreCheckAllows, FrameAllowed
  <2>2. s.sessionId.token = s.token /\ s.sessionId.allowedRecipient = s.allowedRecipient
    BY <1>1 DEF SessionIdOf
  <2> QED
    BY <1>2, <2>1, <2>2 DEF LeafAllowed, RecipientAllowed, Own
<1>6. Validated(f)
  BY <1>2, <1>5 DEF Validated
<1>7. Progress(f)
  BY <1>2, <1>3, <1>4 DEF Progress
<1>8. \A sid, t, r : InFlight(f, sid, t, r) = 0
  BY <1>2, <1>3 DEF InFlight
<1> QED
  BY <1>1, <1>2, <1>6, <1>7, <1>8

\* executeWithSession pushes an entry that has moved nothing.
LEMMA PushConserved ==
    ASSUME MovedInv, NEW f, NewCall(f), stack' = Append(stack, f),
           UNCHANGED <<sessionSpend, moved>>,
           NEW sid \in SessionIds, NEW t \in Addresses, NEW r \in Addresses
    PROVE  Conserved(sid, t, r)'
<1> DEFINE n == Len(stack)
<1>1. /\ TypeOK /\ stack \in Seq(Frame)
      /\ Conserved(sid, t, r)
      /\ Storage \in StorageType
  BY DEF MovedInv, TypeInv, TypeOK
<1>2. f \in Frame /\ f.saved = Storage /\ InFlight(f, sid, t, r) = 0
  BY <1>1, AdmittedCall
<1>3. /\ n \in Nat
      /\ Len(stack') = n + 1
      /\ \A i \in 1 .. n : stack'[i] = stack[i]
      /\ stack'[n + 1] = f
      /\ stack' \in Seq(Frame)
  BY <1>1, <1>2, AppendProperties, LenProperties
<1>4. Excess(Storage', sid, t, r) = Excess(Storage, sid, t, r)
  BY DEF Excess, Storage
<1>5. Excess(Committed', sid, t, r) = 0
  <2>1. stack' # <<>>
    BY <1>3
  <2>2. CASE stack = <<>>
    <3>1. n = 0
      BY <2>2
    <3>2. stack'[1] = f
      BY <1>3, <3>1
    <3> QED
      BY <1>1, <1>2, <2>1, <2>2, <3>2 DEF Conserved, Committed
  <2>3. CASE stack # <<>>
    <3>1. 1 \in 1 .. n
      BY <1>1, <2>3, EmptySeq
    <3> QED
      BY <1>1, <1>3, <2>1, <2>3, <3>1 DEF Conserved, Committed
  <2> QED
    BY <2>2, <2>3
<1>6. ASSUME NEW i \in 1 .. n + 1
      PROVE  Excess(StorageAfter(i)', sid, t, r) =
                 Excess(stack'[i].saved, sid, t, r) + InFlight(stack'[i], sid, t, r)
  <2>1. CASE i = n + 1
    <3>1. StorageAfter(i)' = Storage'
      BY <1>3, <2>1 DEF StorageAfter
    <3>2. Excess(Storage, sid, t, r) \in Int
      BY <1>1, ExcessType
    <3> QED
      BY <1>2, <1>3, <1>4, <2>1, <3>1, <3>2
  <2>2. CASE i # n + 1
    <3>1. i \in 1 .. n
      BY <1>3, <2>2
    <3>2. StorageAfter(i)' = stack'[i + 1].saved
      BY <1>3, <2>2 DEF StorageAfter
    <3>3. StorageAfter(i) = stack'[i + 1].saved
      <4>1. CASE i = n
        BY <1>2, <1>3, <4>1 DEF StorageAfter
      <4>2. CASE i # n
        <5>1. i + 1 \in 1 .. n
          BY <1>3, <3>1, <4>2
        <5> QED
          BY <1>3, <4>2, <5>1 DEF StorageAfter
      <4> QED
        BY <4>1, <4>2
    <3> QED
      BY <1>1, <1>3, <3>1, <3>2, <3>3 DEF Conserved
  <2> QED
    BY <2>1, <2>2
<1> QED
  BY <1>3, <1>5, <1>6 DEF Conserved

\* postCheck accounts for exactly what the calls of its frame moved.
LEMMA ApplyConserved ==
    ASSUME MovedInv, PostCheck, ApplyContext,
           NEW sid \in SessionIds, NEW t \in Addresses, NEW r \in Addresses
    PROVE  Excess(Storage', sid, t, r) = Excess(Top.saved, sid, t, r)
<1> DEFINE n == Len(stack)
<1>1. /\ TypeOK /\ stack \in Seq(Frame)
      /\ Conserved(sid, t, r)
      /\ Storage \in StorageType
      /\ moved \in [SessionIds \X Addresses \X Addresses -> Nat]
      /\ sessionSpend \in [SessionIds -> Nat]
  BY StorageTypes DEF MovedInv, TypeInv, TypeOK
<1>2. n \in 1 .. n /\ Top \in Frame /\ stack[n] = Top
  BY <1>1, PopLemma DEF PostCheck, Top
<1>3. /\ Validated(Top) /\ Progress(Top)
      /\ Top.done = Len(Top.leaves)
      /\ Top.frameSpend \in Nat
      /\ Top.sessionId \in SessionIds
      /\ Top.saved \in StorageType
  BY <1>2 DEF MovedInv, PostCheck, Frame
<1>4. InFlight(Top, sid, t, r) =
          IF sid = Top.sessionId /\ Own(sid, t, r) THEN Top.frameSpend ELSE 0
  BY <1>3 DEF InFlight, Validated
<1>5. Excess(Storage, sid, t, r) =
          Excess(Top.saved, sid, t, r) + InFlight(Top, sid, t, r)
  BY <1>1, <1>2 DEF Conserved, StorageAfter
<1>6. sessionSpend'[sid] =
          IF sid = Top.sessionId THEN sessionSpend[sid] + Top.frameSpend
          ELSE sessionSpend[sid]
  BY <1>1, <1>3 DEF ApplyContext, NewSpend
<1>7. /\ Excess(Storage', sid, t, r) =
            moved[<<sid, t, r>>] - (IF Own(sid, t, r) THEN sessionSpend'[sid] ELSE 0)
      /\ Excess(Storage, sid, t, r) =
            moved[<<sid, t, r>>] - (IF Own(sid, t, r) THEN sessionSpend[sid] ELSE 0)
  BY DEF ApplyContext, Excess, Storage
<1>8. moved[<<sid, t, r>>] \in Nat /\ sessionSpend[sid] \in Nat
  BY <1>1
<1>9. Excess(Top.saved, sid, t, r) \in Int
  BY <1>3, ExcessType
<1> QED
  BY <1>3, <1>4, <1>5, <1>6, <1>7, <1>8, <1>9

\* A token call moves what the top entry's progress records.
LEMMA CallConserved ==
    ASSUME MovedInv, TokenCall
    PROVE  /\ \A i \in 1 .. Len(stack') : Validated(stack'[i]) /\ Progress(stack'[i])
           /\ \A sid \in SessionIds, t \in Addresses, r \in Addresses :
                 Conserved(sid, t, r)'
<1> DEFINE n == Len(stack)
           f == [Top EXCEPT !.done = @ + 1]
           leaf == Top.leaves[Top.done + 1]
           key == <<Top.sessionId, leaf.target, leaf.recipient>>
<1>1. /\ TypeOK /\ stack \in Seq(Frame)
      /\ Storage \in StorageType
      /\ moved \in [SessionIds \X Addresses \X Addresses -> Nat]
      /\ sessionSpend \in [SessionIds -> Nat]
      /\ stack # <<>>
  BY StorageTypes DEF MovedInv, TypeInv, TypeOK, TokenCall
<1>2. n \in Nat \ {0} /\ n \in 1 .. n /\ Top \in Frame /\ stack[n] = Top
  BY <1>1, PopLemma DEF Top
<1>3. /\ Validated(Top) /\ Progress(Top)
      /\ Top.sessionId \in SessionIds
      /\ Top.leaves \in Seq(Leaf)
      /\ Top.done \in Nat
      /\ Top.saved \in StorageType
      /\ Top.done + 1 \in 1 .. Len(Top.leaves)
  BY <1>2, LenProperties DEF MovedInv, TokenCall, Frame
<1>4. leaf.amount \in Nat
  <2>1. leaf \in Leaf
    BY <1>3, ElementOfSeq
  <2> QED
    BY <2>1 DEF Leaf
<1>5. f \in Frame /\ f.done = Top.done + 1 /\ SameCall(f, Top)
  BY <1>2, DoneLemma
<1>6. SpendAfter(Top.leaves)[Top.done + 1] = SpendAfter(Top.leaves)[Top.done] + leaf.amount
  <2>1. SpendAfter(Top.leaves)[Top.done + 1]
            = SpendAfter(Top.leaves)[Top.done + 1 - 1] + leaf.amount
    BY <1>3, SpendAfterAdds
  <2>2. Top.done + 1 - 1 = Top.done
    BY <1>3
  <2> QED
    BY <2>1, <2>2
<1>7. /\ Own(Top.sessionId, leaf.target, leaf.recipient)
      /\ leaf.selector = Transfer
  BY <1>3 DEF Validated
<1>8. /\ stack' = [stack EXCEPT ![n] = f]
      /\ moved' = [moved EXCEPT ![key] = @ + leaf.amount]
      /\ sessionSpend' = sessionSpend
  BY <1>7 DEF TokenCall, Top
<1> HIDE DEF f
<1>9. /\ stack' \in Seq(Frame)
      /\ Len(stack') = n
      /\ \A j \in 1 .. n : stack'[j] = IF j = n THEN f ELSE stack[j]
  BY <1>1, <1>2, <1>5, <1>8, ExceptSeq
<1>10. Validated(f) /\ Progress(f)
  <2>1. Validated(f)
    BY <1>3, <1>5 DEF SameCall, Validated
  <2>2. f.done \in 0 .. Len(f.leaves)
    BY <1>3, <1>5, LenProperties DEF SameCall
  <2>3. SpendAfter(f.leaves)[f.done] \in Nat
    BY <1>3, <1>4, <1>5, <1>6 DEF SameCall, Progress
  <2> QED
    BY <2>1, <2>2, <2>3 DEF Progress
<1>11. \A i \in 1 .. Len(stack') : Validated(stack'[i]) /\ Progress(stack'[i])
  BY <1>9, <1>10 DEF MovedInv
<1>12. ASSUME NEW sid \in SessionIds, NEW t \in Addresses, NEW r \in Addresses
       PROVE  Conserved(sid, t, r)'
  <2> DEFINE mine == sid = Top.sessionId /\ Own(sid, t, r)
  <2>1. mine <=> <<sid, t, r>> = key
    BY <1>7 DEF Own
  <2>2. moved'[<<sid, t, r>>] =
            IF mine THEN moved[<<sid, t, r>>] + leaf.amount ELSE moved[<<sid, t, r>>]
    <3>1. <<sid, t, r>> \in SessionIds \X Addresses \X Addresses
      OBVIOUS
    <3> HIDE DEF key, mine
    <3> DEFINE D == SessionIds \X Addresses \X Addresses
               k == <<sid, t, r>>
    <3>2. moved \in [D -> Nat] /\ k \in D
      BY <1>1, <3>1
    <3>3. mine <=> k = key
      BY <2>1
    <3> HIDE DEF D, k
    <3>4. moved'[k] = IF mine THEN moved[k] + leaf.amount ELSE moved[k]
      BY <1>8, <3>2, <3>3
    <3> QED
      BY <3>4 DEF k
  <2>3. moved[<<sid, t, r>>] \in Nat /\ sessionSpend[sid] \in Nat
    BY <1>1
  <2>4. Excess(Storage', sid, t, r) =
            Excess(Storage, sid, t, r) + IF mine THEN leaf.amount ELSE 0
    BY <1>4, <1>8, <2>2, <2>3 DEF Excess, Storage
  <2>5. InFlight(f, sid, t, r) =
            InFlight(Top, sid, t, r) + IF mine THEN leaf.amount ELSE 0
    BY <1>3, <1>4, <1>5, <1>6 DEF InFlight, SameCall, Progress
  <2>6. Conserved(sid, t, r)
    BY DEF MovedInv
  <2>7. Excess(Committed', sid, t, r) = 0
    <3>1. 1 \in 1 .. n /\ stack' # <<>>
      BY <1>2, <1>9
    <3>2. stack'[1].saved = stack[1].saved
      BY <1>2, <1>5, <1>9, <3>1 DEF SameCall
    <3> QED
      BY <1>1, <2>6, <3>1, <3>2 DEF Conserved, Committed
  <2>8. ASSUME NEW i \in 1 .. n
        PROVE  Excess(StorageAfter(i)', sid, t, r) =
                 Excess(stack'[i].saved, sid, t, r) + InFlight(stack'[i], sid, t, r)
    <3>1. Excess(StorageAfter(i), sid, t, r) =
              Excess(stack[i].saved, sid, t, r) + InFlight(stack[i], sid, t, r)
      BY <2>6 DEF Conserved
    <3>2. CASE i = n
      <4>1. StorageAfter(i)' = Storage' /\ StorageAfter(i) = Storage
        BY <1>9, <3>2 DEF StorageAfter
      <4>2. stack'[i] = f /\ f.saved = Top.saved /\ stack[i] = Top
        BY <1>2, <1>5, <1>9, <3>2 DEF SameCall
      <4>3. /\ Excess(Top.saved, sid, t, r) \in Int
            /\ InFlight(Top, sid, t, r) \in Int
        BY <1>3, ExcessType, InFlightType
      <4>4. (IF mine THEN leaf.amount ELSE 0) \in Int
        BY <1>4
      <4> HIDE DEF mine, leaf
      <4> QED
        BY <2>4, <2>5, <3>1, <4>1, <4>2, <4>3, <4>4
    <3>3. CASE i # n
      <4>1. i + 1 \in 1 .. n
        BY <1>2, <3>3
      <4>2. stack'[i] = stack[i] /\ stack'[i + 1].saved = stack[i + 1].saved
        BY <1>2, <1>5, <1>9, <3>3, <4>1 DEF SameCall
      <4>3. StorageAfter(i)' = StorageAfter(i)
        BY <1>9, <3>3, <4>2 DEF StorageAfter
      <4> QED
        BY <3>1, <4>2, <4>3
    <3> QED
      BY <3>2, <3>3
  <2> QED
    BY <1>9, <2>7, <2>8 DEF Conserved
<1> QED
  BY <1>11, <1>12

LEMMA MovedStep ==
    ASSUME MovedInv, [Next]_vars
    PROVE  MovedInv'
<1>1. TypeInv /\ TypeOK /\ stack \in Seq(Frame)
  BY DEF MovedInv, TypeInv, TypeOK
<1>2. TypeInv'
  BY <1>1, TypeStep
<1> DEFINE Frames == \A i \in 1 .. Len(stack') :
                         Validated(stack'[i]) /\ Progress(stack'[i])
           Cons == \A sid \in SessionIds, t \in Addresses, r \in Addresses :
                       Conserved(sid, t, r)'
<1>3. ASSUME UNCHANGED <<sessionSpend, moved, stack>> PROVE Frames /\ Cons
  BY <1>3, IdleConserved DEF MovedInv
<1>4. ASSUME stack # <<>>, stack' = Pop PROVE Frames
  <2>1. /\ Len(Pop) = Len(stack) - 1 /\ Len(stack) \in Nat
        /\ \A i \in 1 .. Len(Pop) : Pop[i] = stack[i]
    BY <1>1, <1>4, PopLemma
  <2>2. \A i \in 1 .. Len(Pop) : i \in 1 .. Len(stack)
    BY <2>1
  <2> QED
    BY <1>4, <2>1, <2>2 DEF MovedInv
<1>5. ASSUME stack # <<>>, RevertTop PROVE Frames /\ Cons
  <2>1. Storage' = Top.saved /\ stack' = Pop
    BY <1>1, <1>5, RevertLemma DEF RevertTop
  <2>2. Cons
    BY <1>5, <2>1, PopConserved
  <2> QED
    BY <1>4, <1>5, <2>1, <2>2
<1>6. ASSUME TokenCall PROVE Frames /\ Cons
  BY <1>6, CallConserved
<1>7. ASSUME TokenCallFails PROVE Frames /\ Cons
  BY <1>5, <1>7 DEF TokenCallFails
<1>8. ASSUME PostCheck PROVE Frames /\ Cons
  <2>1. CASE PostCheckAllows
    <3>1. stack # <<>> /\ ApplyContext /\ stack' = Pop
      BY <1>8, <2>1 DEF PostCheck, ApplyContext
    <3>2. Cons
      BY <1>8, <3>1, ApplyConserved, PopConserved
    <3> QED
      BY <1>4, <3>1, <3>2
  <2>2. CASE ~PostCheckAllows
    BY <1>5, <1>8, <2>2 DEF PostCheck
  <2> QED
    BY <2>1, <2>2
<1>9. ASSUME NEW caller \in Addresses, NEW l \in Lanes, NEW e \in Executions,
             ExecuteWithSession(caller, l, e)
      PROVE  Frames /\ Cons
  <2> DEFINE f == HookContext(l, e)
  <2>1. /\ NewCall(f) /\ stack' = Append(stack, f)
        /\ UNCHANGED <<sessionSpend, moved>>
    BY <1>9 DEF ExecuteWithSession, NewCall
  <2> HIDE DEF f
  <2>2. Cons
    BY <2>1, PushConserved
  <2>3. f \in Frame /\ Validated(f) /\ Progress(f)
    BY <1>1, <2>1, AdmittedCall
  <2>4. /\ Len(stack') = Len(stack) + 1 /\ Len(stack) \in Nat
        /\ \A i \in 1 .. Len(stack) : stack'[i] = stack[i]
        /\ stack'[Len(stack) + 1] = f
    BY <1>1, <2>1, <2>3, AppendProperties, LenProperties
  <2>5. \A i \in 1 .. Len(stack') : i \in 1 .. Len(stack) \/ i = Len(stack) + 1
    BY <2>4
  <2> QED
    BY <2>2, <2>3, <2>4, <2>5 DEF MovedInv
<1>10. Frames /\ Cons
  <2>1. CASE UNCHANGED <<sessionSpend, moved, stack>>
    BY <1>3, <2>1
  <2> QED
    BY <1>6, <1>7, <1>8, <1>9, <2>1 DEF Next, SetAdapter, RegisterSession,
       RevokeSession, Tick, vars
<1> QED
  BY <1>2, <1>10 DEF MovedInv

\* Between transactions, the tokens that left the account for a session are
\* exactly its recorded spend, in its token and to its recipient, for every
\* depth and order of nested, failing and reverting calls.
THEOREM Conservation == Spec => []MovedIsAccounted
<1>1. Init => MovedInv
  <2> SUFFICES ASSUME Init PROVE MovedInv
    OBVIOUS
  <2>1. stack = <<>> /\ Len(stack) = 0
    BY DEF Init
  <2>2. ASSUME NEW sid \in SessionIds, NEW t \in Addresses, NEW r \in Addresses
        PROVE  Conserved(sid, t, r)
    <3>1. moved[<<sid, t, r>>] = 0 /\ sessionSpend[sid] = 0
      BY DEF Init
    <3>2. Excess(Storage, sid, t, r) = 0
      BY <3>1 DEF Excess, Storage
    <3> QED
      BY <2>1, <3>2 DEF Conserved, Committed
  <2> QED
    BY <2>1, <2>2, TypeInit DEF MovedInv
<1>2. MovedInv /\ [Next]_vars => MovedInv'
  BY MovedStep
<1>3. MovedInv => MovedIsAccounted
  <2> SUFFICES ASSUME MovedInv, stack = <<>>,
                      NEW sid \in SessionIds, NEW t \in Addresses, NEW r \in Addresses
               PROVE  moved[<<sid, t, r>>] =
                          IF Own(sid, t, r) THEN sessionSpend[sid] ELSE 0
    BY DEF MovedIsAccounted, Own
  <2>1. Excess(Storage, sid, t, r) = 0
    BY DEF MovedInv, Conserved, Committed
  <2>2. moved[<<sid, t, r>>] \in Nat /\ sessionSpend[sid] \in Nat
    BY StorageTypes DEF MovedInv, TypeInv, TypeOK
  <2> QED
    BY <2>1, <2>2 DEF Excess, Storage
<1> QED
  BY <1>1, <1>2, <1>3, PTL DEF Spec

-----------------------------------------------------------------------------
(* The storage that a call saved, and what became of it since.             *)

\* Storage st may have become storage su: a lane keeps its terms but for the
\* revocation, and events are only added.
Later(st, su) ==
    /\ \A l \in Lanes : st.sessions[l] # NoSession =>
          su.sessions[l] \in {st.sessions[l], [st.sessions[l] EXCEPT !.revoked = TRUE]}
    /\ Len(st.log) <= Len(su.log)
    /\ \A k \in 1 .. Len(st.log) : su.log[k] = st.log[k]

LEMMA StorageFields ==
    ASSUME NEW st \in StorageType
    PROVE  /\ st.sessions \in [Lanes -> Config \cup {NoSession}]
           /\ st.log \in Seq(Event) /\ Len(st.log) \in Nat
           /\ st.sessionSpend \in [SessionIds -> Nat]
           /\ st.sessionExecutionSeq \in [SessionIds -> Nat]
<1>1. st.log \in Seq(Event)   BY DEF StorageType
<1>2. Len(st.log) \in Nat   BY <1>1, LenProperties
<1> QED BY <1>1, <1>2 DEF StorageType

LEMMA LaterSame ==
    ASSUME NEW st \in StorageType, NEW su, su.sessions = st.sessions, su.log = st.log
    PROVE  Later(st, su)
<1>1. Len(st.log) \in Nat   BY StorageFields
<1> QED BY <1>1 DEF Later

LEMMA LaterTransitive ==
    ASSUME NEW st \in StorageType, NEW su \in StorageType, NEW sv \in StorageType,
           Later(st, su), Later(su, sv)
    PROVE  Later(st, sv)
<1>0. /\ st.sessions \in [Lanes -> Config \cup {NoSession}]
      /\ Len(st.log) \in Nat /\ Len(su.log) \in Nat /\ Len(sv.log) \in Nat
  BY StorageFields
<1>1. ASSUME NEW l \in Lanes, st.sessions[l] # NoSession
      PROVE  sv.sessions[l] \in {st.sessions[l], [st.sessions[l] EXCEPT !.revoked = TRUE]}
  <2>1. PICK c \in Config : c = st.sessions[l]   BY <1>0, <1>1
  <2>2. PICK r : r = [c EXCEPT !.revoked = TRUE]   OBVIOUS
  <2>3. r # NoSession /\ c # NoSession /\ [r EXCEPT !.revoked = TRUE] = r
    BY <2>1, <2>2, RevokedConfig, InputAssumption DEF Config
  <2>4. su.sessions[l] \in {c, r}   BY <1>1, <2>1, <2>2 DEF Later
  <2>5. su.sessions[l] # NoSession   BY <2>3, <2>4
  <2>6. sv.sessions[l] \in {su.sessions[l], [su.sessions[l] EXCEPT !.revoked = TRUE]}
    BY <2>5 DEF Later
  <2> QED BY <2>1, <2>2, <2>3, <2>4, <2>6
<1>2. \A k \in 1 .. Len(st.log) : k \in 1 .. Len(su.log)   BY <1>0 DEF Later
<1>3. \A k \in 1 .. Len(st.log) : sv.log[k] = st.log[k]   BY <1>2 DEF Later
<1>4. Len(st.log) <= Len(sv.log)   BY <1>0 DEF Later
<1> QED BY <1>1, <1>3, <1>4 DEF Later

\* The storages of the calls in progress, in the order in which they were
\* saved, and the current one.
LaterInv ==
    /\ TypeInv
    /\ \A i \in 1 .. Len(stack) : Later(stack[i].saved, Storage)
    /\ \A i, j \in 1 .. Len(stack) : i <= j => Later(stack[i].saved, stack[j].saved)

\* How a step changes the stack, and the storage with it: calls are made and
\* end at the top, and what a call saved does not change.
LEMMA StackShape ==
    ASSUME TypeInv, [Next]_vars
    PROVE  /\ stack \in Seq(Frame) /\ stack' \in Seq(Frame)
           /\ Len(stack) \in Nat /\ Len(stack') \in Nat
           /\ \A i \in 1 .. Len(stack) : stack[i] \in Frame /\ stack[i].saved \in StorageType
           /\ \A i \in 1 .. Len(stack') : stack'[i] \in Frame /\ stack'[i].saved \in StorageType
           /\ Storage \in StorageType /\ Storage' \in StorageType
           /\ \/ /\ Len(stack') = Len(stack)
                 /\ \A i \in 1 .. Len(stack) : SameCall(stack'[i], stack[i])
                 /\ UNCHANGED <<sessionSpend, sessionExecutionSeq, log>>
                 /\ stack # <<>> => UNCHANGED now
              \/ /\ Len(stack') = Len(stack) + 1 /\ Storage' = Storage /\ UNCHANGED now
                 /\ \A i \in 1 .. Len(stack) : stack'[i] = stack[i]
                 /\ NewCall(stack'[Len(stack) + 1])
              \/ /\ stack # <<>> /\ Len(stack) \in 1 .. Len(stack) /\ Top = stack[Len(stack)]
                 /\ Len(stack') = Len(stack) - 1 /\ UNCHANGED now
                 /\ \A i \in 1 .. Len(stack') : stack'[i] = stack[i]
                 /\ \/ Storage' = Top.saved
                    \/ PostCheckAllows /\ ApplyContext
<1>0. TypeOK /\ stack \in Seq(Frame) /\ Storage \in StorageType   BY DEF TypeInv, TypeOK
<1>1. TypeInv'   BY TypeStep
<1>2. TypeOK' /\ stack' \in Seq(Frame) /\ Storage' \in StorageType   BY <1>1 DEF TypeInv, TypeOK
<1>3. Len(stack) \in Nat /\ Len(stack') \in Nat   BY <1>0, <1>2, LenProperties
<1>4. \A i \in 1 .. Len(stack) : stack[i] \in Frame /\ stack[i].saved \in StorageType
  <2>1. \A i \in 1 .. Len(stack) : stack[i] \in Frame   BY <1>0, ElementOfSeq
  <2>2. \A f \in Frame : f.saved \in StorageType   BY DEF Frame
  <2> QED BY <2>1, <2>2
<1>5. \A i \in 1 .. Len(stack') : stack'[i] \in Frame /\ stack'[i].saved \in StorageType
  <2>1. \A i \in 1 .. Len(stack') : stack'[i] \in Frame   BY <1>2, ElementOfSeq
  <2>2. \A f \in Frame : f.saved \in StorageType   BY DEF Frame
  <2> QED BY <2>1, <2>2
<1> DEFINE Same == /\ Len(stack') = Len(stack)
                   /\ \A i \in 1 .. Len(stack) : SameCall(stack'[i], stack[i])
                   /\ UNCHANGED <<sessionSpend, sessionExecutionSeq, log>>
                   /\ stack # <<>> => UNCHANGED now
           Push == /\ Len(stack') = Len(stack) + 1 /\ Storage' = Storage /\ UNCHANGED now
                   /\ \A i \in 1 .. Len(stack) : stack'[i] = stack[i]
                   /\ NewCall(stack'[Len(stack) + 1])
           Popped == /\ stack # <<>> /\ Len(stack) \in 1 .. Len(stack) /\ Top = stack[Len(stack)]
                     /\ Len(stack') = Len(stack) - 1 /\ UNCHANGED now
                     /\ \A i \in 1 .. Len(stack') : stack'[i] = stack[i]
                     /\ \/ Storage' = Top.saved
                        \/ PostCheckAllows /\ ApplyContext
<1>6. ASSUME UNCHANGED <<stack, sessionSpend, sessionExecutionSeq, log>>,
             stack # <<>> => UNCHANGED now
      PROVE  Same
  BY <1>6 DEF SameCall
<1>7. ASSUME TokenCall PROVE Same
  <2>1. stack # <<>>   BY <1>7 DEF TokenCall
  <2>2. PICK n : n = Len(stack)   OBVIOUS
  <2>3. PICK f : f = [stack[n] EXCEPT !.done = @ + 1]   OBVIOUS
  <2>4. n \in 1 .. n /\ n \in Nat /\ stack[n] \in Frame   BY <1>0, <2>1, <2>2, PopLemma DEF Top
  <2>5. f \in Frame /\ SameCall(f, stack[n])   BY <2>3, <2>4, DoneLemma
  <2>6. stack' = [stack EXCEPT ![n] = f]   BY <1>7, <2>2, <2>3 DEF TokenCall
  <2>7. Len(stack') = n /\ \A j \in 1 .. n : stack'[j] = IF j = n THEN f ELSE stack[j]
    BY <1>0, <2>2, <2>4, <2>5, <2>6, ExceptSeq
  <2>8. ASSUME NEW i \in 1 .. n PROVE SameCall(stack'[i], stack[i])   BY <2>5, <2>7 DEF SameCall
  <2>9. UNCHANGED <<sessionSpend, sessionExecutionSeq, log, now>>   BY <1>7 DEF TokenCall
  <2> QED BY <2>2, <2>7, <2>8, <2>9
<1>8. ASSUME NEW caller, NEW l \in Lanes, NEW e \in Executions, ExecuteWithSession(caller, l, e)
      PROVE  Push
  <2>1. PICK f : f = HookContext(l, e)   OBVIOUS
  <2>2. NewCall(f) /\ f \in Frame   BY <1>0, <1>8, <2>1, ContextLemma DEF NewCall, ExecuteWithSession
  <2>3. stack' = Append(stack, f) /\ UNCHANGED now   BY <1>8, <2>1 DEF ExecuteWithSession
  <2>4. /\ Len(stack') = Len(stack) + 1 /\ stack'[Len(stack) + 1] = f
        /\ \A i \in 1 .. Len(stack) : stack'[i] = stack[i]
    BY <1>0, <2>2, <2>3, AppendProperties
  <2>5. Storage' = Storage   BY <1>8 DEF ExecuteWithSession, Storage
  <2> QED BY <2>2, <2>3, <2>4, <2>5
<1>9. ASSUME stack # <<>>, stack' = Pop, UNCHANGED now,
             Storage' = Top.saved \/ (PostCheckAllows /\ ApplyContext)
      PROVE  Popped
  <2>1. /\ Len(stack) \in Nat \ {0} /\ Len(Pop) = Len(stack) - 1
        /\ \A i \in 1 .. Len(Pop) : Pop[i] = stack[i]
    BY <1>0, <1>9, PopLemma
  <2> QED BY <1>9, <2>1 DEF Top
<1>10. ASSUME TokenCallFails \/ PostCheck PROVE Popped
  <2>1. stack # <<>> /\ UNCHANGED now /\ (RevertTop \/ (PostCheckAllows /\ ApplyContext))
    BY <1>10 DEF TokenCallFails, PostCheck
  <2>2. CASE RevertTop
    <3>1. Storage' = Top.saved /\ stack' = Pop   BY <1>0, <2>1, <2>2, RevertLemma DEF RevertTop
    <3> QED BY <1>9, <2>1, <3>1
  <2>3. CASE PostCheckAllows /\ ApplyContext
    <3>1. stack' = Pop   BY <2>3 DEF ApplyContext
    <3> QED BY <1>9, <2>1, <2>3, <3>1
  <2> QED BY <2>1, <2>2, <2>3
<1>11. ASSUME \/ \E a \in Adapters : SetAdapter(a)
              \/ \E c \in Offered : RegisterSession(c)
              \/ \E caller \in Addresses, l \in Lanes : RevokeSession(caller, l)
              \/ Tick
              \/ UNCHANGED vars
       PROVE  Same
  BY <1>6, <1>11 DEF SetAdapter, RegisterSession, RevokeSession, Tick, vars
<1>12. Same \/ Push \/ Popped
  <2> HIDE DEF Same, Push, Popped
  <2> QED BY <1>7, <1>8, <1>10, <1>11 DEF Next
<1> QED BY <1>0, <1>2, <1>3, <1>4, <1>5, <1>12

\* A step that ends no call only adds to the storage.
LEMMA StorageGrows ==
    ASSUME TypeInv, [Next]_vars, Len(stack') = Len(stack) \/ Len(stack') = Len(stack) + 1
    PROVE  Later(Storage, Storage')
<1>0. /\ TypeOK /\ Storage \in StorageType /\ Len(stack) \in Nat /\ sessions \in [Lanes -> Config \cup {NoSession}]
  BY StackShape, StorageTypes DEF TypeInv, TypeOK
<1>1. log' = log
  <2>1. Len(stack) + 1 # Len(stack) /\ Len(stack) - 1 # Len(stack) /\ Len(stack) - 1 # Len(stack) + 1
    BY <1>0
  <2>2. CASE UNCHANGED log   BY <2>2
  <2>3. CASE Storage' = Storage   BY <2>3 DEF Storage
  <2> QED BY <2>1, <2>2, <2>3, StackShape
<1>2. ASSUME UNCHANGED sessions PROVE Later(Storage, Storage')
  <2>1. Storage'.sessions = Storage.sessions /\ Storage'.log = Storage.log   BY <1>1, <1>2 DEF Storage
  <2> QED BY <1>0, <2>1, LaterSame
<1>3. ASSUME \A l \in Lanes : sessions[l] # NoSession =>
                 sessions'[l] \in {sessions[l], [sessions[l] EXCEPT !.revoked = TRUE]}
      PROVE  Later(Storage, Storage')
  <2>1. /\ Storage.sessions = sessions /\ Storage'.sessions = sessions'
        /\ Storage.log = log /\ Storage'.log = log /\ Len(log) \in Nat
    BY <1>0, <1>1, StorageFields DEF Storage
  <2> QED BY <1>3, <2>1 DEF Later
<1>4. ASSUME NEW c \in Offered, RegisterSession(c) PROVE Later(Storage, Storage')
  <2>1. /\ sessions' = [sessions EXCEPT ![c.nonceKey] = c] /\ sessions[c.nonceKey] = NoSession
    BY <1>4 DEF RegisterSession, LaneFree, Registered
  <2>2. \A l \in Lanes : sessions[l] # NoSession => sessions'[l] = sessions[l]   BY <1>0, <2>1
  <2> QED BY <1>3, <2>2
<1>5. ASSUME NEW caller \in Addresses, NEW l \in Lanes, RevokeSession(caller, l)
      PROVE  Later(Storage, Storage')
  <2>1. PICK r : r = [sessions[l] EXCEPT !.revoked = TRUE]   OBVIOUS
  <2>2. sessions' = [sessions EXCEPT ![l] = r]   BY <1>5, <2>1 DEF RevokeSession
  <2>3. \A k \in Lanes : sessions'[k] = IF k = l THEN r ELSE sessions[k]   BY <1>0, <2>2
  <2> QED BY <1>3, <2>1, <2>3
<1>6. ASSUME stack # <<>>, stack' = Pop PROVE FALSE
  <2>1. Len(stack') = Len(stack) - 1   BY <1>0, <1>6, PopLemma DEF TypeOK
  <2> QED BY <1>0, <2>1
<1>7. ASSUME TokenCallFails \/ PostCheck PROVE FALSE
  BY <1>6, <1>7 DEF TokenCallFails, PostCheck, RevertTop, ApplyContext
<1> QED BY <1>2, <1>4, <1>5, <1>7 DEF Next, SetAdapter, ExecuteWithSession, TokenCall, Tick, vars

\* postCheck adds one event, and changes nothing else that Later looks at.
AddedEvent ==
    [sessionId       |-> Top.sessionId,
     executionDigest |-> Top.executionDigest,
     frameSpend      |-> Top.frameSpend,
     totalSpendAfter |-> NewSpend]

LEMMA ApplyEvent ==
    ASSUME TypeInv, stack # <<>>, ApplyContext
    PROVE  /\ AddedEvent \in Event /\ log' = Append(log, AddedEvent)
           /\ Len(log) \in Nat /\ Len(log') = Len(log) + 1 /\ log'[Len(log) + 1] = AddedEvent
           /\ \A k \in 1 .. Len(log) : log'[k] = log[k]
           /\ AddedEvent.sessionId = Top.sessionId /\ AddedEvent.frameSpend = Top.frameSpend
           /\ AddedEvent.executionDigest = Top.executionDigest /\ AddedEvent.totalSpendAfter = NewSpend
           /\ Top.sessionId \in SessionIds /\ Top.frameSpend \in Nat /\ NewSpend \in Nat
           /\ \A sid \in SessionIds : /\ sessionSpend'[sid] = IF sid = Top.sessionId THEN NewSpend ELSE sessionSpend[sid]
                                      /\ sessionExecutionSeq'[sid] = IF sid = Top.sessionId THEN Top.executionSeq + 1
                                                                      ELSE sessionExecutionSeq[sid]
           /\ UNCHANGED sessions
<1>0. /\ TypeOK /\ Top \in Frame /\ log \in Seq(Event) /\ sessionSpend \in [SessionIds -> Nat]
      /\ sessionExecutionSeq \in [SessionIds -> Nat]
  BY PopLemma, StorageTypes DEF TypeInv, TypeOK
<1>1. /\ Top.sessionId \in SessionIds /\ Top.frameSpend \in Nat /\ Top.executionDigest \in Digest
  BY <1>0 DEF Frame
<1>2. NewSpend \in Nat   BY <1>0, <1>1 DEF NewSpend
<1>3. PICK n \in Nat : n = NewSpend   BY <1>2
<1>4. AddedEvent \in Event   BY <1>1, <1>2 DEF AddedEvent, Event
<1>5. /\ AddedEvent.sessionId = Top.sessionId /\ AddedEvent.frameSpend = Top.frameSpend
      /\ AddedEvent.executionDigest = Top.executionDigest /\ AddedEvent.totalSpendAfter = NewSpend
  BY DEF AddedEvent
<1>6. log' = Append(log, AddedEvent)   BY DEF ApplyContext, AddedEvent
<1>7. /\ Len(log) \in Nat /\ Len(log') = Len(log) + 1 /\ log'[Len(log) + 1] = AddedEvent
      /\ \A k \in 1 .. Len(log) : log'[k] = log[k]
  BY <1>0, <1>4, <1>6, AppendProperties, LenProperties
<1>8. \A sid \in SessionIds : sessionSpend'[sid] = IF sid = Top.sessionId THEN NewSpend ELSE sessionSpend[sid]
  <2>1. sessionSpend' = [sessionSpend EXCEPT ![Top.sessionId] = n]   BY <1>3 DEF ApplyContext
  <2> QED BY <1>0, <1>1, <1>3, <2>1
<1>9. \A sid \in SessionIds : sessionExecutionSeq'[sid] = IF sid = Top.sessionId THEN Top.executionSeq + 1
                                                          ELSE sessionExecutionSeq[sid]
  <2>1. sessionExecutionSeq' = [sessionExecutionSeq EXCEPT ![Top.sessionId] = Top.executionSeq + 1]
    BY DEF ApplyContext, NextSeq
  <2> QED BY <1>0, <1>1, <2>1
<1>10. UNCHANGED sessions   BY DEF ApplyContext
<1> QED BY <1>1, <1>2, <1>4, <1>5, <1>6, <1>7, <1>8, <1>9, <1>10

LEMMA ApplyGrows ==
    ASSUME TypeInv, stack # <<>>, ApplyContext
    PROVE  Later(Storage, Storage')
<1>1. /\ Storage.sessions = sessions /\ Storage'.sessions = sessions'
      /\ Storage.log = log /\ Storage'.log = log'
  BY DEF Storage
<1>2. Len(log) <= Len(log')   BY ApplyEvent
<1> QED BY <1>1, <1>2, ApplyEvent DEF Later

LEMMA LaterStep == ASSUME LaterInv, [Next]_vars PROVE LaterInv'
<1>0. TypeInv /\ TypeInv'   BY TypeStep DEF LaterInv
<1>1. /\ Len(stack) \in Nat /\ Len(stack') \in Nat /\ Storage \in StorageType /\ Storage' \in StorageType
      /\ \A i \in 1 .. Len(stack) : stack[i].saved \in StorageType
      /\ \A i \in 1 .. Len(stack') : stack'[i].saved \in StorageType
  BY <1>0, StackShape
<1>2. /\ \A i \in 1 .. Len(stack) : Later(stack[i].saved, Storage)
      /\ \A i, j \in 1 .. Len(stack) : i <= j => Later(stack[i].saved, stack[j].saved)
  BY DEF LaterInv
<1>3. ASSUME Later(Storage, Storage') PROVE \A i \in 1 .. Len(stack) : Later(stack[i].saved, Storage')
  BY <1>1, <1>2, <1>3, LaterTransitive
<1>4. CASE /\ Len(stack') = Len(stack)
           /\ \A i \in 1 .. Len(stack) : SameCall(stack'[i], stack[i])
  <2>1. Later(Storage, Storage')   BY <1>0, <1>4, StorageGrows
  <2>2. \A i \in 1 .. Len(stack) : stack'[i].saved = stack[i].saved   BY <1>4 DEF SameCall
  <2>3. \A i \in 1 .. Len(stack') : Later(stack'[i].saved, Storage')   BY <1>3, <1>4, <2>1, <2>2
  <2>4. \A i, j \in 1 .. Len(stack') : i <= j => Later(stack'[i].saved, stack'[j].saved)
    BY <1>2, <1>4, <2>2
  <2> QED BY <1>0, <2>3, <2>4 DEF LaterInv
<1>5. CASE /\ Len(stack') = Len(stack) + 1 /\ Storage' = Storage
           /\ \A i \in 1 .. Len(stack) : stack'[i] = stack[i]
           /\ NewCall(stack'[Len(stack) + 1])
  <2>1. stack'[Len(stack) + 1].saved = Storage   BY <1>5 DEF NewCall, HookContext
  <2>2. \A i \in 1 .. Len(stack') : i \in 1 .. Len(stack) \/ i = Len(stack) + 1   BY <1>1, <1>5
  <2>3. Later(Storage, Storage)   BY <1>1, LaterSame
  <2>4. \A i \in 1 .. Len(stack') : Later(stack'[i].saved, Storage)
    BY <1>2, <1>5, <2>1, <2>2, <2>3
  <2>5. ASSUME NEW i \in 1 .. Len(stack'), NEW j \in 1 .. Len(stack'), i <= j
        PROVE  Later(stack'[i].saved, stack'[j].saved)
    <3>1. CASE j = Len(stack) + 1   BY <2>1, <2>4, <3>1
    <3>2. CASE j \in 1 .. Len(stack)
      <4>1. i \in 1 .. Len(stack)   BY <1>1, <2>2, <2>5, <3>2
      <4> QED BY <1>2, <1>5, <2>5, <3>2, <4>1
    <3> QED BY <2>2, <3>1, <3>2
  <2> QED BY <1>0, <1>5, <2>4, <2>5 DEF LaterInv
<1>6. CASE /\ stack # <<>> /\ Len(stack) \in 1 .. Len(stack) /\ Top = stack[Len(stack)]
           /\ Len(stack') = Len(stack) - 1
           /\ \A i \in 1 .. Len(stack') : stack'[i] = stack[i]
           /\ \/ Storage' = Top.saved
              \/ PostCheckAllows /\ ApplyContext
  <2>1. \A i \in 1 .. Len(stack') : i \in 1 .. Len(stack) /\ i <= Len(stack)   BY <1>1, <1>6
  <2>2. \A i, j \in 1 .. Len(stack') : i <= j => Later(stack'[i].saved, stack'[j].saved)
    BY <1>2, <1>6, <2>1
  <2>3. \A i \in 1 .. Len(stack') : Later(stack[i].saved, Storage')
    <3>1. CASE Storage' = Top.saved   BY <1>2, <1>6, <2>1, <3>1
    <3>2. CASE ApplyContext   BY <1>0, <1>3, <1>6, <2>1, <3>2, ApplyGrows
    <3> QED BY <1>6, <3>1, <3>2
  <2> QED BY <1>0, <1>6, <2>2, <2>3 DEF LaterInv
<1> QED BY <1>0, <1>4, <1>5, <1>6, StackShape

LEMMA LaterInit == ASSUME Init PROVE LaterInv
<1>1. Len(stack) = 0   BY DEF Init
<1> QED BY <1>1, TypeInit DEF LaterInv

\* What a step does to the committed storage: nothing, or what a step between
\* transactions or the end of a transaction does.
LEMMA CommittedChange ==
    ASSUME LaterInv, [Next]_vars
    PROVE  /\ Committed \in StorageType
           /\ \/ Committed' = Committed
              \/ /\ Committed = Storage /\ Committed' = Storage'
                 /\ Later(Storage, Storage') /\ UNCHANGED sessionSpend
              \/ /\ stack # <<>> /\ Len(stack) = 1 /\ Top = stack[1] /\ ApplyContext
                 /\ Committed = Top.saved /\ Committed' = Storage' /\ Later(Top.saved, Storage')
<1>0. /\ TypeInv /\ stack \in Seq(Frame) /\ stack' \in Seq(Frame)
      /\ Len(stack) \in Nat /\ Len(stack') \in Nat /\ Storage \in StorageType /\ Storage' \in StorageType
      /\ \A i \in 1 .. Len(stack) : stack[i].saved \in StorageType
  BY StackShape DEF LaterInv
<1>1. /\ stack = <<>> <=> Len(stack) = 0
      /\ stack' = <<>> <=> Len(stack') = 0
  BY <1>0, EmptySeq
<1>2. Committed \in StorageType
  <2>1. CASE stack = <<>>   BY <1>0, <2>1 DEF Committed
  <2>2. CASE stack # <<>>
    <3>1. 1 \in 1 .. Len(stack)   BY <1>0, <1>1, <2>2
    <3> QED BY <1>0, <2>2, <3>1 DEF Committed
  <2> QED BY <2>1, <2>2
<1>3. CASE /\ Len(stack') = Len(stack)
           /\ \A i \in 1 .. Len(stack) : SameCall(stack'[i], stack[i])
           /\ UNCHANGED sessionSpend
  <2>1. CASE stack = <<>>
    <3>1. Committed = Storage /\ Committed' = Storage'   BY <1>1, <1>3, <2>1 DEF Committed
    <3>2. Later(Storage, Storage')   BY <1>0, <1>3, StorageGrows
    <3> QED BY <1>2, <1>3, <3>1, <3>2
  <2>2. CASE stack # <<>>
    <3>1. 1 \in 1 .. Len(stack) /\ stack' # <<>>   BY <1>0, <1>1, <1>3, <2>2
    <3>2. stack'[1].saved = stack[1].saved   BY <1>3, <3>1 DEF SameCall
    <3>3. Committed' = Committed   BY <2>2, <3>1, <3>2 DEF Committed
    <3> QED BY <1>2, <3>3
  <2> QED BY <2>1, <2>2
<1>4. CASE /\ Len(stack') = Len(stack) + 1
           /\ \A i \in 1 .. Len(stack) : stack'[i] = stack[i]
           /\ NewCall(stack'[Len(stack) + 1])
  <2>1. stack' # <<>>   BY <1>0, <1>1, <1>4
  <2>2. CASE stack = <<>>
    <3>1. Len(stack) + 1 = 1   BY <1>1, <2>2
    <3>2. stack'[1].saved = Storage   BY <1>4, <3>1 DEF NewCall, HookContext
    <3> QED BY <1>2, <2>1, <2>2, <3>2 DEF Committed
  <2>3. CASE stack # <<>>
    <3>1. 1 \in 1 .. Len(stack)   BY <1>0, <1>1, <2>3
    <3> QED BY <1>2, <1>4, <2>1, <2>3, <3>1 DEF Committed
  <2> QED BY <2>2, <2>3
<1>5. CASE /\ stack # <<>> /\ Top = stack[Len(stack)]
           /\ Len(stack') = Len(stack) - 1
           /\ \A i \in 1 .. Len(stack') : stack'[i] = stack[i]
           /\ \/ Storage' = Top.saved
              \/ PostCheckAllows /\ ApplyContext
  <2>1. CASE Len(stack) = 1
    <3>1. stack' = <<>> /\ Top = stack[1]   BY <1>1, <1>5, <2>1
    <3>2. Committed = Top.saved /\ Committed' = Storage'   BY <1>5, <3>1 DEF Committed
    <3>3. CASE Storage' = Top.saved   BY <1>2, <3>2, <3>3
    <3>4. CASE ApplyContext
      <4>1. 1 \in 1 .. Len(stack)   BY <2>1
      <4>2. Later(Top.saved, Storage) /\ Top.saved \in StorageType   BY <1>0, <3>1, <4>1 DEF LaterInv
      <4>3. Later(Storage, Storage')   BY <1>0, <1>5, <3>4, ApplyGrows
      <4>4. Later(Top.saved, Storage')   BY <1>0, <4>2, <4>3, LaterTransitive
      <4> QED BY <1>2, <1>5, <2>1, <3>1, <3>2, <3>4, <4>4
    <3> QED BY <1>5, <3>3, <3>4
  <2>2. CASE Len(stack) # 1
    <3>1. 1 \in 1 .. Len(stack') /\ stack' # <<>>   BY <1>0, <1>1, <1>5, <2>2
    <3>2. stack'[1] = stack[1]   BY <1>5, <3>1
    <3>3. Committed' = Committed   BY <1>5, <3>1, <3>2 DEF Committed
    <3> QED BY <1>2, <3>3
  <2> QED BY <2>1, <2>2
<1> QED BY <1>0, <1>3, <1>4, <1>5, StackShape

(***************************************************************************)
(* SessionsPermanent: for any depth of nested calls and whatever reverts,  *)
(* no transaction changes the terms of a registered lane, frees it or      *)
(* takes back a revocation.                                                *)
(***************************************************************************)
THEOREM LanesArePermanent == Spec => SessionsPermanent
<1>1. Init => LaterInv   BY LaterInit
<1>2. LaterInv /\ [Next]_vars => LaterInv'   BY LaterStep
<1>3. LaterInv /\ [Next]_vars =>
        [\A l \in Lanes :
          LET s == Committed.sessions[l]
          IN  s # NoSession =>
                  Committed'.sessions[l] \in {s, [s EXCEPT !.revoked = TRUE]}]_vars
  <2>1. SUFFICES ASSUME LaterInv, [Next]_vars, NEW l \in Lanes, Committed.sessions[l] # NoSession
                 PROVE  Committed'.sessions[l] \in
                          {Committed.sessions[l], [Committed.sessions[l] EXCEPT !.revoked = TRUE]}
    OBVIOUS
  <2>2. CASE Committed' = Committed   BY <2>2
  <2>3. CASE Later(Committed, Committed')   BY <2>1, <2>3 DEF Later
  <2> QED BY <2>1, <2>2, <2>3, CommittedChange
<1> QED BY <1>1, <1>2, <1>3, PTL DEF Spec, SessionsPermanent

-----------------------------------------------------------------------------
(* Who may spend.                                                          *)

\* The session of a call in progress was active when the call was made, at
\* time t, and no time passes until the call ends.
CallActive(f, t) ==
    \E l \in Lanes :
        /\ f.saved.sessions[l] # NoSession /\ f.saved.sessions[l].sessionId = f.sessionId
        /\ ~f.saved.sessions[l].revoked
        /\ f.saved.sessions[l].validAfter <= t /\ t <= f.saved.sessions[l].validUntil

\* The committed session of lane l is refused to everybody.
Refused(l) ==
    /\ Committed.sessions[l] # NoSession
    /\ ~validateSessionKey(Committed.sessions[l], Committed.sessions[l].sessionKey)

\* The transaction in progress has spent nothing of a refused session.
SpendStill(l) ==
    LET sid == Committed.sessions[l].sessionId
    IN  /\ sessionSpend[sid] = Committed.sessionSpend[sid]
        /\ \A i \in 1 .. Len(stack) :
              stack[i].saved.sessionSpend[sid] = Committed.sessionSpend[sid]

ActiveInv ==
    /\ LaterInv
    /\ \A i \in 1 .. Len(stack) : CallActive(stack[i], now)
    /\ \A l \in Lanes : Refused(l) => SpendStill(l)

\* No call in progress is one of a refused session: its own storage was saved
\* after the committed one, and holds the same lane, revoked at most.
LEMMA RefusedNotCalled ==
    ASSUME ActiveInv, NEW i \in 1 .. Len(stack), NEW l \in Lanes, Refused(l), Len(stack) \in Nat,
           stack # <<>>, stack[i].saved \in StorageType, stack[1].saved \in StorageType
    PROVE  stack[i].sessionId # Committed.sessions[l].sessionId
<1>0. 1 \in 1 .. Len(stack) /\ 1 <= i /\ Committed = stack[1].saved   BY DEF Committed
<1>1. PICK k \in Lanes :
         /\ stack[i].saved.sessions[k] # NoSession
         /\ stack[i].saved.sessions[k].sessionId = stack[i].sessionId
         /\ validateSessionKey(stack[i].saved.sessions[k], stack[i].saved.sessions[k].sessionKey)
  BY DEF ActiveInv, CallActive, validateSessionKey
<1>2. PICK t, s : t = stack[i].saved.sessions[k] /\ s = stack[1].saved.sessions[l]   OBVIOUS
<1>3. t \in Config /\ s \in Config /\ s # NoSession /\ t # NoSession
  BY <1>0, <1>1, <1>2, StorageFields DEF Refused
<1>4. /\ t.nonceKey = k /\ t.sessionId = SessionIdOf(t)
      /\ s.nonceKey = l /\ s.sessionId = SessionIdOf(s)
  BY <1>0, <1>2, <1>3 DEF ActiveInv, LaterInv, TypeInv, WellFormed
<1>5. t.sessionId.nonceKey = k /\ s.sessionId.nonceKey = l   BY <1>4 DEF SessionIdOf
<1>6. SUFFICES ASSUME t.sessionId = s.sessionId PROVE FALSE   BY <1>0, <1>1, <1>2
<1>7. k = l   BY <1>5, <1>6
<1>8. t \in {s, [s EXCEPT !.revoked = TRUE]}
  BY <1>0, <1>2, <1>3, <1>7 DEF ActiveInv, LaterInv, Later
<1>9. validateSessionKey(t, t.sessionKey) /\ ~validateSessionKey(s, s.sessionKey)
  BY <1>0, <1>1, <1>2 DEF Refused
<1>10. t # s /\ ~t.revoked   BY <1>9 DEF validateSessionKey
<1>11. [s EXCEPT !.revoked = TRUE].revoked = TRUE   BY <1>3 DEF Config
<1> QED BY <1>8, <1>10, <1>11

LEMMA ActiveStep == ASSUME ActiveInv, [Next]_vars PROVE ActiveInv'
<1>0. /\ LaterInv /\ LaterInv' /\ TypeInv /\ TypeInv'   BY LaterStep DEF ActiveInv, LaterInv
<1>1. /\ stack \in Seq(Frame) /\ stack' \in Seq(Frame)
      /\ Len(stack) \in Nat /\ Len(stack') \in Nat /\ Storage \in StorageType
      /\ \A i \in 1 .. Len(stack) : stack[i] \in Frame /\ stack[i].saved \in StorageType
  BY <1>0, StackShape
<1>2. /\ stack = <<>> <=> Len(stack) = 0
      /\ stack' = <<>> <=> Len(stack') = 0
  BY <1>1, EmptySeq
<1>3. /\ \A i \in 1 .. Len(stack) : CallActive(stack[i], now)
      /\ \A l \in Lanes : Refused(l) => SpendStill(l)
  BY DEF ActiveInv
<1>4. ASSUME stack' = <<>> PROVE ActiveInv'
  <2>1. Committed' = Storage'   BY <1>4 DEF Committed
  <2>2. Storage'.sessionSpend = sessionSpend' /\ Len(stack') = 0   BY <1>2, <1>4 DEF Storage
  <2>3. \A l \in Lanes : SpendStill(l)'   BY <2>1, <2>2 DEF SpendStill
  <2> QED BY <1>0, <2>2, <2>3 DEF ActiveInv
<1>5. ASSUME stack # <<>>, stack' # <<>>, UNCHANGED now, stack'[1].saved = stack[1].saved
      PROVE  Committed' = Committed /\ \A l \in Lanes : Refused(l)' <=> Refused(l)
  <2>1. Committed' = Committed   BY <1>5 DEF Committed
  <2> QED BY <1>5, <2>1 DEF Refused, validateSessionKey
<1>6. ASSUME NEW f, NEW g, NEW t, SameCall(g, f), CallActive(f, t) PROVE CallActive(g, t)
  BY <1>6 DEF SameCall, CallActive
<1>7. CASE /\ Len(stack') = Len(stack)
           /\ \A i \in 1 .. Len(stack) : SameCall(stack'[i], stack[i])
           /\ UNCHANGED sessionSpend /\ (stack # <<>> => UNCHANGED now)
  <2>1. CASE stack = <<>>   BY <1>2, <1>4, <1>7, <2>1
  <2>2. CASE stack # <<>>
    <3>1. UNCHANGED now /\ stack' # <<>> /\ 1 \in 1 .. Len(stack)   BY <1>1, <1>2, <1>7, <2>2
    <3>2. \A i \in 1 .. Len(stack) : stack'[i].saved = stack[i].saved   BY <1>7 DEF SameCall
    <3>3. \A i \in 1 .. Len(stack') : CallActive(stack'[i], now')   BY <1>3, <1>6, <1>7, <3>1
    <3>4. Committed' = Committed /\ \A l \in Lanes : Refused(l)' <=> Refused(l)
      BY <1>5, <2>2, <3>1, <3>2
    <3>5. ASSUME NEW l \in Lanes, Refused(l)' PROVE SpendStill(l)'
      <4>1. SpendStill(l)   BY <1>3, <3>4, <3>5
      <4> QED BY <1>7, <3>2, <3>4, <4>1 DEF SpendStill
    <3> QED BY <1>0, <3>3, <3>5 DEF ActiveInv
  <2> QED BY <2>1, <2>2
<1>8. CASE /\ Len(stack') = Len(stack) + 1 /\ Storage' = Storage /\ UNCHANGED now
           /\ \A i \in 1 .. Len(stack) : stack'[i] = stack[i]
           /\ NewCall(stack'[Len(stack) + 1])
  <2>1. PICK n, f : n = Len(stack) + 1 /\ f = stack'[n]   OBVIOUS
  <2>2. PICK l \in Lanes, e \in Executions : PreCheckAllows(l, e) /\ f = HookContext(l, e)
    BY <1>8, <2>1 DEF NewCall
  <2>3. f.saved = Storage /\ f.sessionId = sessions[l].sessionId /\ Storage.sessions = sessions
    BY <2>2 DEF HookContext, Storage
  <2>4. CallActive(f, now)
    <3>1. /\ sessions[l] # NoSession /\ ~sessions[l].revoked
          /\ sessions[l].validAfter <= now /\ now <= sessions[l].validUntil
      BY <2>2 DEF PreCheckAllows, ActiveSession, Registered
    <3> QED BY <2>3, <3>1 DEF CallActive
  <2>5. \A i \in 1 .. Len(stack') : i \in 1 .. Len(stack) \/ i = n   BY <1>1, <1>8, <2>1
  <2>6. \A i \in 1 .. Len(stack') : CallActive(stack'[i], now')
    <3>1. \A i \in 1 .. Len(stack') : CallActive(stack'[i], now)   BY <1>3, <1>8, <2>1, <2>4, <2>5
    <3> QED BY <1>8, <3>1
  <2>7. Committed' = Committed
    <3>1. CASE stack = <<>>
      <4>1. stack' # <<>> /\ n = 1   BY <1>2, <1>8, <2>1, <3>1
      <4> QED BY <2>1, <2>3, <3>1, <4>1 DEF Committed
    <3>2. CASE stack # <<>>
      <4>1. stack' # <<>> /\ 1 \in 1 .. Len(stack)   BY <1>1, <1>2, <1>8, <3>2
      <4> QED BY <1>8, <3>2, <4>1 DEF Committed
    <3> QED BY <3>1, <3>2
  <2>8. sessionSpend' = sessionSpend /\ Storage.sessionSpend = sessionSpend   BY <1>8 DEF Storage
  <2>9. ASSUME NEW k \in Lanes, Refused(k)' PROVE SpendStill(k)'
    <3>1. Refused(k)   BY <1>8, <2>7, <2>9 DEF Refused, validateSessionKey
    <3>2. SpendStill(k)   BY <1>3, <3>1
    <3> QED BY <1>8, <2>1, <2>3, <2>5, <2>7, <2>8, <3>2 DEF SpendStill
  <2> QED BY <1>0, <2>6, <2>9 DEF ActiveInv
<1>9. CASE /\ stack # <<>> /\ Len(stack) \in 1 .. Len(stack) /\ Top = stack[Len(stack)]
           /\ Len(stack') = Len(stack) - 1 /\ UNCHANGED now
           /\ \A i \in 1 .. Len(stack') : stack'[i] = stack[i]
           /\ \/ Storage' = Top.saved
              \/ PostCheckAllows /\ ApplyContext
  <2>1. CASE stack' = <<>>   BY <1>4, <2>1
  <2>2. CASE stack' # <<>>
    <3>1. 1 \in 1 .. Len(stack') /\ 1 \in 1 .. Len(stack)
      BY <1>1, <1>2, <1>9, <2>2
    <3>2. Committed' = Committed /\ \A l \in Lanes : Refused(l)' <=> Refused(l)
      BY <1>5, <1>9, <2>2, <3>1
    <3>3. \A i \in 1 .. Len(stack') : i \in 1 .. Len(stack)   BY <1>1, <1>9
    <3>4. \A i \in 1 .. Len(stack') : CallActive(stack'[i], now')
      BY <1>3, <1>9, <3>3
    <3>5. ASSUME NEW l \in Lanes, Refused(l)' PROVE SpendStill(l)'
      <4>1. Refused(l) /\ SpendStill(l)   BY <1>3, <3>2, <3>5
      <4>2. PICK sid : sid = Committed.sessions[l].sessionId   OBVIOUS
      <4>3. sid \in SessionIds /\ Committed = stack[1].saved
        BY <1>1, <1>9, <3>1, <4>1, <4>2, StorageFields DEF Committed, Refused, Config
      <4>4. sessionSpend'[sid] = Committed.sessionSpend[sid]
        <5>1. CASE Storage' = Top.saved
          <6>1. sessionSpend' = Top.saved.sessionSpend   BY <5>1 DEF Storage
          <6> QED BY <1>9, <4>1, <4>2, <6>1 DEF SpendStill
        <5>2. CASE ApplyContext
          <6>1. Top.sessionId # sid   BY <1>1, <1>9, <3>1, <4>1, <4>2, RefusedNotCalled
          <6>2. sessionSpend'[sid] = sessionSpend[sid]   BY <1>0, <1>9, <4>3, <5>2, <6>1, ApplyEvent
          <6> QED BY <4>1, <4>2, <6>2 DEF SpendStill
        <5> QED BY <1>9, <5>1, <5>2
      <4>5. \A i \in 1 .. Len(stack') : stack'[i].saved.sessionSpend[sid] = Committed.sessionSpend[sid]
        BY <1>9, <3>3, <4>1, <4>2 DEF SpendStill
      <4> QED BY <3>2, <4>2, <4>4, <4>5 DEF SpendStill
    <3> QED BY <1>0, <3>4, <3>5 DEF ActiveInv
  <2> QED BY <2>1, <2>2
<1> QED BY <1>0, <1>7, <1>8, <1>9, StackShape

(***************************************************************************)
(* OnlyActiveSpend: for any depth of nested calls, no transaction spends   *)
(* anything of a session that the validator refuses at that time.          *)
(***************************************************************************)
THEOREM RefusedNeverSpends == Spec => OnlyActiveSpend
<1>1. Init => ActiveInv
  <2>1. SUFFICES ASSUME Init PROVE ActiveInv   OBVIOUS
  <2>2. Len(stack) = 0 /\ stack = <<>> /\ LaterInv   BY <2>1, LaterInit DEF Init
  <2>3. Committed = Storage   BY <2>2 DEF Committed
  <2>4. \A l \in Lanes : SpendStill(l)   BY <2>2, <2>3 DEF SpendStill, Storage
  <2> QED BY <2>2, <2>4 DEF ActiveInv
<1>2. ActiveInv /\ [Next]_vars => ActiveInv'   BY ActiveStep
<1>3. ActiveInv /\ [Next]_vars =>
        [\A l \in Lanes :
          LET s == Committed.sessions[l]
          IN  s # NoSession /\ ~validateSessionKey(s, s.sessionKey)
              => Committed'.sessionSpend[s.sessionId]
                     = Committed.sessionSpend[s.sessionId]]_vars
  <2>1. SUFFICES ASSUME ActiveInv, [Next]_vars, NEW l \in Lanes, Refused(l)
                 PROVE  Committed'.sessionSpend[Committed.sessions[l].sessionId]
                          = Committed.sessionSpend[Committed.sessions[l].sessionId]
    BY DEF Refused
  <2>2. LaterInv /\ TypeInv /\ SpendStill(l)   BY <2>1 DEF ActiveInv, LaterInv
  <2>3. PICK sid : sid = Committed.sessions[l].sessionId   OBVIOUS
  <2>4. Committed \in StorageType   BY <2>1, <2>2, CommittedChange
  <2>5. sid \in SessionIds
    BY <2>1, <2>3, <2>4, StorageFields DEF Refused, Config
  <2>6. CASE Committed' = Committed   BY <2>6
  <2>7. CASE Committed = Storage /\ Committed' = Storage' /\ UNCHANGED sessionSpend
    BY <2>7 DEF Storage
  <2>8. CASE /\ stack # <<>> /\ Len(stack) = 1 /\ Top = stack[1] /\ ApplyContext
             /\ Committed = Top.saved /\ Committed' = Storage'
    <3>1. 1 \in 1 .. Len(stack)   BY <2>8
    <3>2. Top.sessionId # sid   BY <2>1, <2>3, <2>4, <2>8, <3>1, RefusedNotCalled
    <3>3. sessionSpend'[sid] = sessionSpend[sid]   BY <2>2, <2>5, <2>8, <3>2, ApplyEvent
    <3>4. sessionSpend[sid] = Committed.sessionSpend[sid]   BY <2>2, <2>3 DEF SpendStill
    <3> QED BY <2>3, <2>8, <3>3, <3>4 DEF Storage
  <2> QED BY <2>1, <2>2, <2>6, <2>7, <2>8, CommittedChange
<1> QED BY <1>1, <1>2, <1>3, PTL DEF Spec, OnlyActiveSpend

-----------------------------------------------------------------------------
(* The events as an account.                                               *)

LEMMA GreatestNumber ==
    ASSUME NEW n \in Nat, NEW S \in SUBSET (1 .. n), S # {}
    PROVE  \E j \in S : \A k \in S : k <= j
<1> DEFINE T == {n - j : j \in S}
<1>1. T \in SUBSET Nat /\ T # {}
  <2>1. \A j \in S : j \in 1 .. n   OBVIOUS
  <2>2. \A j \in S : n - j \in Nat   BY <2>1
  <2> QED BY <2>2
<1>2. PICK t \in T : \A u \in T : t <= u   <2> HIDE DEF T   <2> QED BY <1>1, LeastNumber
<1>3. PICK j \in S : t = n - j   BY <1>2
<1>4. \A k \in S : n - j <= n - k   BY <1>2, <1>3
<1>5. \A k \in S : k <= j   BY <1>4
<1> QED BY <1>5

\* LastTotal of any sequence of events.
Before(events, sid, n) == {j \in 1 .. n : events[j].sessionId = sid}

LastOf(S) == CHOOSE j \in S : \A k \in S : k <= j

LastIn(events, sid, n) ==
    IF Before(events, sid, n) = {} THEN 0
    ELSE events[LastOf(Before(events, sid, n))].totalSpendAfter

LEMMA LastOfIn ==
    ASSUME NEW n \in Nat, NEW S \in SUBSET (1 .. n), S # {}
    PROVE  LastOf(S) \in S /\ \A k \in S : k <= LastOf(S)
<1>1. \E j \in S : \A k \in S : k <= j   BY GreatestNumber
<1> QED BY <1>1 DEF LastOf

\* Later events do not change it.
LEMMA LastKept ==
    ASSUME NEW n \in Nat, NEW events, NEW more, NEW sid, \A k \in 1 .. n : more[k] = events[k]
    PROVE  LastIn(more, sid, n) = LastIn(events, sid, n)
<1>1. Before(more, sid, n) = Before(events, sid, n)   BY DEF Before
<1>2. PICK S : S = Before(events, sid, n)   OBVIOUS
<1>3. S \in SUBSET (1 .. n)   BY <1>2 DEF Before
<1>4. CASE S = {}   BY <1>1, <1>2, <1>4 DEF LastIn
<1>5. CASE S # {}
  <2>1. LastOf(S) \in 1 .. n   BY <1>3, <1>5, LastOfIn
  <2> QED BY <1>1, <1>2, <1>5, <2>1 DEF LastIn
<1> QED BY <1>4, <1>5

\* One more event counts for its session only.
LEMMA LastNew ==
    ASSUME NEW n \in Nat, NEW events, NEW sid
    PROVE  LastIn(events, sid, n + 1) = IF events[n + 1].sessionId = sid
                                        THEN events[n + 1].totalSpendAfter
                                        ELSE LastIn(events, sid, n)
<1>1. PICK S, m : S = Before(events, sid, n + 1) /\ m = n + 1   OBVIOUS
<1>2. m \in Nat /\ S \in SUBSET (1 .. m) /\ m \in 1 .. m /\ 1 .. m = (1 .. n) \cup {m}
  BY <1>1 DEF Before
<1>0. LastIn(events, sid, m) = IF S = {} THEN 0 ELSE events[LastOf(S)].totalSpendAfter
  BY <1>1 DEF LastIn
<1>3. CASE events[m].sessionId = sid
  <2>1. m \in S   BY <1>1, <1>2, <1>3 DEF Before
  <2>2. LastOf(S) \in S /\ m <= LastOf(S)   BY <1>2, <2>1, LastOfIn
  <2>3. PICK j : j = LastOf(S)   OBVIOUS
  <2>4. j \in 1 .. m /\ m <= j   BY <1>2, <2>2, <2>3
  <2>5. j = m   BY <1>2, <2>4
  <2> QED BY <1>0, <1>1, <1>3, <2>1, <2>3, <2>5
<1>4. CASE events[m].sessionId # sid
  <2>1. S = Before(events, sid, n)   BY <1>1, <1>2, <1>4 DEF Before
  <2> QED BY <1>1, <1>4, <2>1 DEF LastIn
<1> QED BY <1>1, <1>3, <1>4

TotalsIn(events, spend) ==
    /\ \A i \in 1 .. Len(events) :
          events[i].totalSpendAfter =
              LastIn(events, events[i].sessionId, i - 1) + events[i].frameSpend
    /\ \A sid \in SessionIds : spend[sid] = LastIn(events, sid, Len(events))

\* What a revert restores is a complete account too.
TotalsInv ==
    /\ TypeInv
    /\ TotalsIn(log, sessionSpend)
    /\ \A i \in 1 .. Len(stack) : TotalsIn(stack[i].saved.log, stack[i].saved.sessionSpend)

LEMMA TotalsApply ==
    ASSUME TypeInv, TotalsIn(log, sessionSpend), stack # <<>>, ApplyContext
    PROVE  TotalsIn(log', sessionSpend')
<1>1. PICK n, more, ev, sid : n = Len(log) /\ more = log' /\ ev = AddedEvent /\ sid = Top.sessionId
  OBVIOUS
<1>2. /\ n \in Nat /\ Len(more) = n + 1 /\ more[n + 1] = ev /\ \A k \in 1 .. n : more[k] = log[k]
      /\ ev.sessionId = sid /\ ev.frameSpend = Top.frameSpend /\ ev.totalSpendAfter = NewSpend
      /\ sid \in SessionIds
      /\ \A t \in SessionIds : sessionSpend'[t] = IF t = sid THEN NewSpend ELSE sessionSpend[t]
  BY <1>1, ApplyEvent
<1>3. /\ \A i \in 1 .. n : log[i].totalSpendAfter
                             = LastIn(log, log[i].sessionId, i - 1) + log[i].frameSpend
      /\ \A t \in SessionIds : sessionSpend[t] = LastIn(log, t, n)
  BY <1>1 DEF TotalsIn
<1>4. ASSUME NEW i \in 1 .. n + 1, NEW t PROVE LastIn(more, t, i - 1) = LastIn(log, t, i - 1)
  <2>1. i - 1 \in Nat /\ \A k \in 1 .. i - 1 : k \in 1 .. n   BY <1>2
  <2>2. \A k \in 1 .. i - 1 : more[k] = log[k]   BY <1>2, <2>1
  <2> QED BY <2>1, <2>2, LastKept
<1>5. ASSUME NEW i \in 1 .. n + 1
      PROVE  more[i].totalSpendAfter
               = LastIn(more, more[i].sessionId, i - 1) + more[i].frameSpend
  <2>1. CASE i \in 1 .. n   BY <1>2, <1>3, <1>4, <2>1
  <2>2. CASE i = n + 1
    <3>1. LastIn(more, sid, i - 1) = LastIn(log, sid, i - 1) /\ i - 1 = n   BY <1>2, <1>4, <2>2
    <3>2. LastIn(more, sid, i - 1) = sessionSpend[sid]   BY <1>2, <1>3, <3>1
    <3> QED BY <1>1, <1>2, <2>2, <3>2 DEF NewSpend
  <2> QED BY <1>2, <2>1, <2>2
<1>6. ASSUME NEW t \in SessionIds PROVE sessionSpend'[t] = LastIn(more, t, n + 1)
  <2>1. LastIn(more, t, n + 1) = IF sid = t THEN NewSpend ELSE LastIn(more, t, n)
    <3>1. LastIn(more, t, n + 1) = IF more[n + 1].sessionId = t
                                   THEN more[n + 1].totalSpendAfter ELSE LastIn(more, t, n)
      BY <1>2, LastNew, Zenon
    <3> QED BY <1>2, <3>1
  <2>2. LastIn(more, t, n) = sessionSpend[t]   BY <1>2, <1>3, LastKept
  <2> QED BY <1>2, <2>1, <2>2
<1> QED BY <1>1, <1>2, <1>5, <1>6 DEF TotalsIn

LEMMA TotalsStep == ASSUME TotalsInv, [Next]_vars PROVE TotalsInv'
<1>0. /\ TypeInv /\ TypeInv' /\ TotalsIn(log, sessionSpend)
      /\ \A i \in 1 .. Len(stack) : TotalsIn(stack[i].saved.log, stack[i].saved.sessionSpend)
  BY TypeStep DEF TotalsInv
<1>1. Len(stack) \in Nat   BY <1>0, StackShape
<1>2. CASE /\ Len(stack') = Len(stack)
           /\ \A i \in 1 .. Len(stack) : SameCall(stack'[i], stack[i])
           /\ UNCHANGED <<sessionSpend, log>>
  BY <1>0, <1>2 DEF TotalsInv, SameCall
<1>3. CASE /\ Len(stack') = Len(stack) + 1 /\ Storage' = Storage
           /\ \A i \in 1 .. Len(stack) : stack'[i] = stack[i]
           /\ NewCall(stack'[Len(stack) + 1])
  <2>1. stack'[Len(stack) + 1].saved = Storage   BY <1>3 DEF NewCall, HookContext
  <2>2. Storage.log = log /\ Storage.sessionSpend = sessionSpend   BY DEF Storage
  <2>3. log' = log /\ sessionSpend' = sessionSpend   BY <1>3 DEF Storage
  <2>4. \A i \in 1 .. Len(stack') : i \in 1 .. Len(stack) \/ i = Len(stack) + 1   BY <1>1, <1>3
  <2> QED BY <1>0, <1>3, <2>1, <2>2, <2>3, <2>4 DEF TotalsInv
<1>4. CASE /\ stack # <<>> /\ Len(stack) \in 1 .. Len(stack) /\ Top = stack[Len(stack)]
           /\ Len(stack') = Len(stack) - 1
           /\ \A i \in 1 .. Len(stack') : stack'[i] = stack[i]
           /\ \/ Storage' = Top.saved
              \/ PostCheckAllows /\ ApplyContext
  <2>1. \A i \in 1 .. Len(stack') : i \in 1 .. Len(stack)   BY <1>1, <1>4
  <2>2. \A i \in 1 .. Len(stack') : TotalsIn(stack'[i].saved.log, stack'[i].saved.sessionSpend)
    BY <1>0, <1>4, <2>1
  <2>3. CASE Storage' = Top.saved
    <3>1. log' = Top.saved.log /\ sessionSpend' = Top.saved.sessionSpend   BY <2>3 DEF Storage
    <3> QED BY <1>0, <1>4, <2>2, <3>1 DEF TotalsInv
  <2>4. CASE ApplyContext   BY <1>0, <1>4, <2>2, <2>4, TotalsApply DEF TotalsInv
  <2> QED BY <1>4, <2>3, <2>4
<1> QED BY <1>0, <1>2, <1>3, <1>4, StackShape

(***************************************************************************)
(* EventTotals: for any depth of nested calls, each ExecutionAllowed event *)
(* carries on from the total of the one before it of its session, and the  *)
(* last one is the spend in storage.                                       *)
(***************************************************************************)
THEOREM EventsAreAnAccount == Spec => []EventTotals
<1>1. Init => TotalsInv
  <2>1. SUFFICES ASSUME Init PROVE TotalsInv   OBVIOUS
  <2>2. Len(log) = 0 /\ Len(stack) = 0 /\ TypeInv   BY <2>1, TypeInit DEF Init
  <2>3. \A sid \in SessionIds : LastIn(log, sid, 0) = 0   BY DEF LastIn, Before
  <2>4. TotalsIn(log, sessionSpend)   BY <2>1, <2>2, <2>3 DEF Init, TotalsIn
  <2> QED BY <2>2, <2>4 DEF TotalsInv
<1>2. TotalsInv /\ [Next]_vars => TotalsInv'   BY TotalsStep
<1>3. TotalsInv => EventTotals
  <2>1. SUFFICES ASSUME TotalsInv PROVE EventTotals   OBVIOUS
  <2>2. DOMAIN log = 1 .. Len(log) /\ Len(log) \in Nat
    BY <2>1, StorageTypes, LenProperties DEF TotalsInv, TypeInv, TypeOK
  <2>3. \A sid, n : LastTotal(sid, n) = LastIn(log, sid, n)
    BY DEF LastTotal, LastIn, Before, LastOf
  <2> QED BY <2>1, <2>2, <2>3 DEF EventTotals, TotalsInv, TotalsIn
<1> QED BY <1>1, <1>2, <1>3, PTL DEF Spec

-----------------------------------------------------------------------------
(* Sequence numbers.                                                       *)

SeqOf(ev) == ev.executionDigest.executionSeq

\* No sequence number of session sid was announced twice.
DistinctIn(events, sid) ==
    \A i, j \in 1 .. Len(events) :
        /\ events[i].sessionId = sid /\ events[j].sessionId = sid
        /\ SeqOf(events[i]) = SeqOf(events[j])
        => i = j

\* They were announced in order, and are below number.
OrderedIn(events, sid, number) ==
    /\ \A i, j \in 1 .. Len(events) :
          events[i].sessionId = sid /\ events[j].sessionId = sid /\ i < j
          => SeqOf(events[i]) < SeqOf(events[j])
    /\ \A i \in 1 .. Len(events) : events[i].sessionId = sid => SeqOf(events[i]) < number

FreshIn(events, seq) ==
    \A sid \in SessionIds : DistinctIn(events, sid) => OrderedIn(events, sid, seq[sid])

\* In storage st the number that call f took is still the next one of its
\* session, or it was announced.
UsedOrNext(f, st) ==
    \/ st.sessionExecutionSeq[f.sessionId] = f.executionSeq
    \/ \E i \in 1 .. Len(st.log) :
          st.log[i].sessionId = f.sessionId /\ SeqOf(st.log[i]) = f.executionSeq

NumberTaken(f) ==
    /\ f.executionDigest.executionSeq = f.executionSeq
    /\ f.saved.sessionExecutionSeq[f.sessionId] = f.executionSeq

SeqInv ==
    /\ LaterInv
    /\ FreshIn(log, sessionExecutionSeq)
    /\ \A i \in 1 .. Len(stack) :
          /\ FreshIn(stack[i].saved.log, stack[i].saved.sessionExecutionSeq)
          /\ NumberTaken(stack[i]) /\ UsedOrNext(stack[i], Storage)
    /\ \A i, j \in 1 .. Len(stack) : i <= j => UsedOrNext(stack[i], stack[j].saved)

\* postCheck announces the next number, or one that was announced already.
LEMMA FreshApply ==
    ASSUME SeqInv, stack # <<>>, Len(stack) \in 1 .. Len(stack), Top = stack[Len(stack)],
           Top \in Frame, ApplyContext
    PROVE  FreshIn(log', sessionExecutionSeq')
<1>0. TypeInv /\ FreshIn(log, sessionExecutionSeq)   BY DEF SeqInv, LaterInv
<1>1. PICK n, more, ev, own, number :
         n = Len(log) /\ more = log' /\ ev = AddedEvent /\ own = Top.sessionId /\ number = Top.executionSeq
  OBVIOUS
<1>2. /\ n \in Nat /\ Len(more) = n + 1 /\ more[n + 1] = ev /\ \A k \in 1 .. n : more[k] = log[k]
      /\ ev.sessionId = own /\ ev.executionDigest = Top.executionDigest /\ own \in SessionIds
      /\ \A t \in SessionIds : sessionExecutionSeq'[t] = IF t = own THEN number + 1
                                                         ELSE sessionExecutionSeq[t]
  BY <1>0, <1>1, ApplyEvent
<1>3. SeqOf(ev) = number /\ UsedOrNext(Top, Storage) /\ number \in Nat
  BY <1>1, <1>2 DEF SeqInv, NumberTaken, SeqOf, Frame
<1>4. \A i \in 1 .. n + 1 : i \in 1 .. n \/ i = n + 1   BY <1>2
<1>5. \A i \in 1 .. n : i \in 1 .. n + 1 /\ i # n + 1 /\ i < n + 1   BY <1>2
<1>6. \A i \in 1 .. n : SeqOf(log[i]) \in Nat
  <2>1. log \in Seq(Event)   BY <1>0, StorageTypes DEF TypeInv, TypeOK
  <2>2. \A i \in 1 .. n : log[i] \in Event   BY <1>1, <2>1, ElementOfSeq
  <2> QED BY <2>2 DEF Event, Digest, SeqOf
<1>7. ASSUME NEW t \in SessionIds, DistinctIn(more, t) PROVE OrderedIn(more, t, sessionExecutionSeq'[t])
  <2>1. DistinctIn(log, t)
    <3>1. SUFFICES ASSUME NEW i \in 1 .. n, NEW j \in 1 .. n,
                          log[i].sessionId = t, log[j].sessionId = t, SeqOf(log[i]) = SeqOf(log[j])
                   PROVE  i = j
      BY <1>1 DEF DistinctIn
    <3>2. more[i] = log[i] /\ more[j] = log[j] /\ i \in 1 .. n + 1 /\ j \in 1 .. n + 1   BY <1>2, <1>5
    <3> QED BY <1>2, <1>7, <3>1, <3>2 DEF DistinctIn
  <2>2. /\ \A i, j \in 1 .. n : log[i].sessionId = t /\ log[j].sessionId = t /\ i < j
                                => SeqOf(log[i]) < SeqOf(log[j])
        /\ \A i \in 1 .. n : log[i].sessionId = t => SeqOf(log[i]) < sessionExecutionSeq[t]
    BY <1>0, <1>1, <2>1 DEF FreshIn, OrderedIn
  <2>3. CASE t # own
    <3>1. \A i \in 1 .. n + 1 : more[i].sessionId = t => i \in 1 .. n /\ more[i] = log[i]
      BY <1>2, <1>4, <2>3
    <3> QED BY <1>2, <2>2, <2>3, <3>1 DEF OrderedIn
  <2>4. CASE t = own
    <3>1. ASSUME NEW i \in 1 .. n, log[i].sessionId = own, SeqOf(log[i]) = number PROVE FALSE
      <4>1. /\ i \in 1 .. n + 1 /\ n + 1 \in 1 .. n + 1 /\ i # n + 1
            /\ more[i].sessionId = own /\ SeqOf(more[i]) = number
            /\ more[n + 1].sessionId = own /\ SeqOf(more[n + 1]) = number
        BY <1>2, <1>3, <1>5, <3>1
      <4> QED BY <1>2, <1>7, <2>4, <4>1 DEF DistinctIn
    <3>2. sessionExecutionSeq[own] = number
      <4>1. Storage.log = log /\ Storage.sessionExecutionSeq = sessionExecutionSeq   BY DEF Storage
      <4> QED BY <1>1, <1>3, <3>1, <4>1 DEF UsedOrNext
    <3>3. \A i \in 1 .. n : more[i].sessionId = own => SeqOf(more[i]) < number /\ SeqOf(more[i]) \in Nat
      BY <1>2, <1>6, <2>2, <2>4, <3>2
    <3>4. \A i \in 1 .. n + 1 : more[i].sessionId = own => SeqOf(more[i]) < number + 1
      BY <1>2, <1>3, <1>4, <3>3
    <3>5. ASSUME NEW i \in 1 .. n + 1, NEW j \in 1 .. n + 1,
                 more[i].sessionId = own, more[j].sessionId = own, i < j
          PROVE  SeqOf(more[i]) < SeqOf(more[j])
      <4>1. i \in 1 .. n   BY <1>2, <3>5
      <4>2. CASE j \in 1 .. n   BY <1>2, <2>2, <2>4, <3>5, <4>1, <4>2
      <4>3. CASE j = n + 1   BY <1>2, <1>3, <3>3, <3>5, <4>1, <4>3
      <4> QED BY <1>4, <4>2, <4>3
    <3> QED BY <1>2, <2>4, <3>4, <3>5 DEF OrderedIn
  <2> QED BY <2>3, <2>4
<1> QED BY <1>1, <1>7 DEF FreshIn

\* A call below in the stack: if its number was still the next one, then the
\* call at the top took the same number, and announces it.
LEMMA NextIsUsed ==
    ASSUME SeqInv, stack # <<>>, Len(stack) \in Nat, Len(stack) \in 1 .. Len(stack),
           Top = stack[Len(stack)], Top.saved \in StorageType, ApplyContext,
           NEW i \in 1 .. Len(stack), stack[i].sessionId \in SessionIds
    PROVE  UsedOrNext(stack[i], Storage')
<1>0. TypeInv /\ Later(Top.saved, Storage) /\ NumberTaken(Top) /\ UsedOrNext(stack[i], Storage)
      /\ UsedOrNext(stack[i], Top.saved)
  BY DEF SeqInv, LaterInv
<1>1. PICK n, f : n = Len(log) /\ f = stack[i]   OBVIOUS
<1>2. /\ Storage'.log = log' /\ Storage'.sessionExecutionSeq = sessionExecutionSeq'
      /\ Storage.log = log /\ Storage.sessionExecutionSeq = sessionExecutionSeq
  BY DEF Storage
<1>3. /\ n \in Nat /\ Len(log') = n + 1 /\ log'[n + 1] = AddedEvent /\ \A k \in 1 .. n : log'[k] = log[k]
      /\ AddedEvent.sessionId = Top.sessionId /\ AddedEvent.executionDigest = Top.executionDigest
      /\ \A t \in SessionIds : t # Top.sessionId => sessionExecutionSeq'[t] = sessionExecutionSeq[t]
  BY <1>0, <1>1, ApplyEvent
<1>4. ASSUME NEW k \in 1 .. n, log[k].sessionId = f.sessionId, SeqOf(log[k]) = f.executionSeq
      PROVE  UsedOrNext(f, Storage')
  <2>1. k \in 1 .. n + 1 /\ log'[k] = log[k]   BY <1>3
  <2> QED BY <1>2, <1>3, <1>4, <2>1 DEF UsedOrNext
<1>5. CASE f.sessionId # Top.sessionId
  BY <1>0, <1>1, <1>2, <1>3, <1>4, <1>5 DEF UsedOrNext
<1>6. CASE f.sessionId = Top.sessionId
  <2>1. CASE \E k \in 1 .. Len(Top.saved.log) :
                Top.saved.log[k].sessionId = f.sessionId /\ SeqOf(Top.saved.log[k]) = f.executionSeq
    <3>1. PICK k \in 1 .. Len(Top.saved.log) :
             Top.saved.log[k].sessionId = f.sessionId /\ SeqOf(Top.saved.log[k]) = f.executionSeq
      BY <2>1
    <3>2. Len(Top.saved.log) \in Nat /\ Len(Top.saved.log) <= n /\ log[k] = Top.saved.log[k]
      BY <1>0, <1>1, <1>2, <3>1, StorageFields DEF Later
    <3>3. k \in 1 .. n   BY <1>3, <3>1, <3>2
    <3> QED BY <1>1, <1>4, <3>1, <3>2, <3>3
  <2>2. CASE Top.saved.sessionExecutionSeq[f.sessionId] = f.executionSeq
    <3>1. SeqOf(AddedEvent) = f.executionSeq
      BY <1>0, <1>3, <1>6, <2>2 DEF NumberTaken, SeqOf
    <3>2. n + 1 \in 1 .. n + 1   BY <1>3
    <3> QED BY <1>1, <1>2, <1>3, <1>6, <3>1, <3>2 DEF UsedOrNext
  <2> QED BY <1>0, <1>1, <2>1, <2>2 DEF UsedOrNext
<1> QED BY <1>5, <1>6

LEMMA SeqStep == ASSUME SeqInv, [Next]_vars PROVE SeqInv'
<1>0. LaterInv /\ LaterInv' /\ TypeInv   BY LaterStep DEF SeqInv, LaterInv
<1>1. /\ Len(stack) \in Nat /\ Len(stack') \in Nat
      /\ \A i \in 1 .. Len(stack) : stack[i] \in Frame /\ stack[i].saved \in StorageType
  BY <1>0, StackShape
<1>2. /\ FreshIn(log, sessionExecutionSeq)
      /\ \A i \in 1 .. Len(stack) :
            /\ FreshIn(stack[i].saved.log, stack[i].saved.sessionExecutionSeq)
            /\ NumberTaken(stack[i]) /\ UsedOrNext(stack[i], Storage)
      /\ \A i, j \in 1 .. Len(stack) : i <= j => UsedOrNext(stack[i], stack[j].saved)
  BY DEF SeqInv
<1>3. /\ Storage.log = log /\ Storage.sessionExecutionSeq = sessionExecutionSeq
      /\ Storage'.log = log' /\ Storage'.sessionExecutionSeq = sessionExecutionSeq'
  BY DEF Storage
<1>4. CASE /\ Len(stack') = Len(stack)
           /\ \A i \in 1 .. Len(stack) : SameCall(stack'[i], stack[i])
           /\ UNCHANGED <<sessionExecutionSeq, log>>
  <2>1. \A i \in 1 .. Len(stack) :
           /\ stack'[i].saved = stack[i].saved /\ stack'[i].sessionId = stack[i].sessionId
           /\ stack'[i].executionSeq = stack[i].executionSeq
           /\ stack'[i].executionDigest = stack[i].executionDigest
    BY <1>4 DEF SameCall
  <2>2. \A i \in 1 .. Len(stack) : UsedOrNext(stack'[i], Storage')
    BY <1>2, <1>3, <1>4, <2>1 DEF UsedOrNext
  <2>3. ASSUME NEW i \in 1 .. Len(stack), NEW j \in 1 .. Len(stack), i <= j
        PROVE  UsedOrNext(stack'[i], stack'[j].saved)
    <3>1. UsedOrNext(stack[i], stack[j].saved) /\ stack'[j].saved = stack[j].saved   BY <1>2, <2>1, <2>3
    <3>2. stack'[i].sessionId = stack[i].sessionId /\ stack'[i].executionSeq = stack[i].executionSeq
      BY <2>1
    <3> QED BY <3>1, <3>2 DEF UsedOrNext
  <2>4. \A i \in 1 .. Len(stack) : NumberTaken(stack'[i])   BY <1>2, <2>1 DEF NumberTaken
  <2> QED BY <1>0, <1>2, <1>4, <2>1, <2>2, <2>3, <2>4 DEF SeqInv
<1>5. CASE /\ Len(stack') = Len(stack) + 1 /\ Storage' = Storage
           /\ \A i \in 1 .. Len(stack) : stack'[i] = stack[i]
           /\ NewCall(stack'[Len(stack) + 1])
  <2>1. PICK n, f : n = Len(stack) + 1 /\ f = stack'[n]   OBVIOUS
  <2>2. f.saved = Storage /\ NumberTaken(f)
    <3>1. PICK l \in Lanes, e \in Executions : PreCheckAllows(l, e) /\ f = HookContext(l, e)
      BY <1>5, <2>1 DEF NewCall
    <3>2. /\ f.saved = Storage /\ f.executionSeq = sessionExecutionSeq[f.sessionId]
          /\ f.executionDigest.executionSeq = f.executionSeq
      BY <3>1 DEF HookContext, ExecutionDigest
    <3> QED BY <1>3, <3>2 DEF NumberTaken
  <2>3. UsedOrNext(f, Storage)   BY <2>2 DEF NumberTaken, UsedOrNext
  <2>4. \A i \in 1 .. Len(stack') : i \in 1 .. Len(stack) \/ i = n   BY <1>1, <1>5, <2>1
  <2>5. \A i \in 1 .. Len(stack') : UsedOrNext(stack'[i], Storage)
    BY <1>2, <1>5, <2>1, <2>3, <2>4
  <2>6. ASSUME NEW i \in 1 .. Len(stack'), NEW j \in 1 .. Len(stack'), i <= j
        PROVE  UsedOrNext(stack'[i], stack'[j].saved)
    <3>1. CASE j = n   BY <2>1, <2>2, <2>5, <3>1
    <3>2. CASE j \in 1 .. Len(stack)
      <4>1. i \in 1 .. Len(stack)   BY <1>1, <2>1, <2>4, <2>6, <3>2
      <4> QED BY <1>2, <1>5, <2>6, <3>2, <4>1
    <3> QED BY <2>4, <3>1, <3>2
  <2>7. \A i \in 1 .. Len(stack') :
           /\ FreshIn(stack'[i].saved.log, stack'[i].saved.sessionExecutionSeq)
           /\ NumberTaken(stack'[i])
    BY <1>2, <1>3, <1>5, <2>1, <2>2, <2>4
  <2>8. FreshIn(log', sessionExecutionSeq')   BY <1>2, <1>3, <1>5
  <2> QED BY <1>0, <1>5, <2>5, <2>6, <2>7, <2>8 DEF SeqInv
<1>6. CASE /\ stack # <<>> /\ Len(stack) \in 1 .. Len(stack) /\ Top = stack[Len(stack)]
           /\ Len(stack') = Len(stack) - 1
           /\ \A i \in 1 .. Len(stack') : stack'[i] = stack[i]
           /\ \/ Storage' = Top.saved
              \/ PostCheckAllows /\ ApplyContext
  <2>1. \A i \in 1 .. Len(stack') : i \in 1 .. Len(stack) /\ i <= Len(stack)   BY <1>1, <1>6
  <2>2. /\ \A i \in 1 .. Len(stack') :
              /\ FreshIn(stack'[i].saved.log, stack'[i].saved.sessionExecutionSeq)
              /\ NumberTaken(stack'[i])
        /\ \A i, j \in 1 .. Len(stack') : i <= j => UsedOrNext(stack'[i], stack'[j].saved)
    BY <1>2, <1>6, <2>1
  <2>3. /\ FreshIn(log', sessionExecutionSeq')
        /\ \A i \in 1 .. Len(stack') : UsedOrNext(stack'[i], Storage')
    <3>1. CASE Storage' = Top.saved
      <4>1. FreshIn(log', sessionExecutionSeq')   BY <1>2, <1>3, <1>6, <3>1
      <4>2. \A i \in 1 .. Len(stack') : UsedOrNext(stack'[i], Storage')   BY <1>2, <1>6, <2>1, <3>1
      <4> QED BY <4>1, <4>2
    <3>2. CASE ApplyContext
      <4>1. FreshIn(log', sessionExecutionSeq')   BY <1>1, <1>6, <3>2, FreshApply
      <4>2. \A i \in 1 .. Len(stack) : stack[i].sessionId \in SessionIds   BY <1>1 DEF Frame
      <4>3. \A i \in 1 .. Len(stack) : UsedOrNext(stack[i], Storage')
        BY <1>1, <1>6, <3>2, <4>2, NextIsUsed
      <4> QED BY <1>6, <2>1, <4>1, <4>3
    <3> QED BY <1>6, <3>1, <3>2
  <2> QED BY <1>0, <2>2, <2>3 DEF SeqInv
<1> QED BY <1>0, <1>4, <1>5, <1>6, StackShape

(***************************************************************************)
(* SequenceFresh: for any depth of nested calls, unless a session has had  *)
(* a sequence number announced twice, its events come in the order of      *)
(* their numbers and its next number is unused.                            *)
(***************************************************************************)
THEOREM SequenceIsFresh == Spec => []SequenceFresh
<1>1. Init => SeqInv
  <2>1. SUFFICES ASSUME Init PROVE SeqInv   OBVIOUS
  <2>2. Len(log) = 0 /\ Len(stack) = 0 /\ LaterInv   BY <2>1, LaterInit DEF Init
  <2> QED BY <2>2 DEF SeqInv, FreshIn, OrderedIn
<1>2. SeqInv /\ [Next]_vars => SeqInv'   BY SeqStep
<1>3. SeqInv => SequenceFresh
  <2>1. SUFFICES ASSUME SeqInv PROVE SequenceFresh   OBVIOUS
  <2>2. DOMAIN log = 1 .. Len(log) /\ FreshIn(log, sessionExecutionSeq)
    BY <2>1, StorageTypes, LenProperties DEF SeqInv, LaterInv, TypeInv, TypeOK
  <2> QED BY <2>2 DEF SequenceFresh, FreshIn, DistinctIn, OrderedIn, SeqOf
<1> QED BY <1>1, <1>2, <1>3, PTL DEF Spec
=============================================================================
