---------------------------- MODULE SessionHook ----------------------------
(***************************************************************************)
(* The on-chain part of Railguard: the smart account with its sessions     *)
(* (RailguardAccountAdapter) and the spend-enforcing hook it calls around  *)
(* every session execution (RailguardExecutionHook).                       *)
(*                                                                         *)
(* executeWithSession is hook.preCheck, then the token calls of the frame, *)
(* then hook.postCheck.  The token calls hand control to code outside the  *)
(* two contracts, which may call the account again before postCheck of     *)
(* the outer call has run, so the model keeps the EVM's call stack: one    *)
(* entry per executeWithSession in progress, with the HookContext that     *)
(* preCheck returned and the storage to restore if the call reverts.       *)
(* MaxDepth = 1 is a token that never calls back (USDC); a larger MaxDepth *)
(* is a token that does.                                                   *)
(*                                                                         *)
(* A call that reverts before it reaches external code changes nothing,    *)
(* and is not a step.  Hashes are injective: a session id is the record of *)
(* the fields it is derived from, a digest the record of its preimage.     *)
(***************************************************************************)
EXTENDS Integers, Sequences

CONSTANTS
    Lanes,             \* ERC-4337 nonce keys, one session per lane
    Addresses,         \* every address of the model, ZeroAddress included
    ZeroAddress,
    Account,           \* the adapter, which is also the account
    Owner,
    Adapters,          \* addresses the deployer may bind the hook to
    Offered,           \* session configurations somebody submits
    OwnerSigned,       \* authorizations the owner has signed off chain
    RailguardSigned,   \* authorizations SignGate has signed off chain
    Executions,        \* (mode, calls) pairs somebody executes
    NoSession,         \* the zero struct of an unused lane
    MaxUint,           \* type(uint256).max
    MaxTime,           \* bound on block.timestamp
    MaxDepth,          \* bound on nested executeWithSession calls
    MaxExecutions      \* bound on completed and pending executions

VARIABLES
    adapter,               \* hook: the bound adapter, ZeroAddress until set
    sessions,              \* adapter: lane -> configuration
    sessionSpend,          \* hook: session id -> spent so far
    usedExecutions,        \* hook: digests of completed executions
    sessionExecutionSeq,   \* hook: session id -> next sequence number
    moved,                 \* tokens: <<session id, token, recipient>> -> amount
    log,                   \* the ExecutionAllowed events
    stack,                 \* executeWithSession calls in progress
    now                    \* block.timestamp

vars == <<adapter, sessions, sessionSpend, usedExecutions,
          sessionExecutionSeq, moved, log, stack, now>>

-----------------------------------------------------------------------------
(* Sessions.                                                               *)

\* The ERC-20 transfer selector, the only one a v1 session may use.
Transfer == "transfer"

\* The session id: chain, adapter and account are fixed, so it is the lane
\* and the hashed physical terms.  policyHash and revoked are not in it.
SessionIdOf(c) ==
    [nonceKey         |-> c.nonceKey,
     sessionKey       |-> c.sessionKey,
     token            |-> c.token,
     allowedTarget    |-> c.allowedTarget,
     allowedRecipient |-> c.allowedRecipient,
     allowedSelector  |-> c.allowedSelector,
     maxPerTransfer   |-> c.maxPerTransfer,
     maxTotalSpend    |-> c.maxTotalSpend,
     validAfter       |-> c.validAfter,
     validUntil       |-> c.validUntil,
     allowBatch       |-> c.allowBatch]

SessionIds == {SessionIdOf(c) : c \in Offered}

\* The EIP-712 payload both parties sign.
Authorization(c) ==
    [physical |-> SessionIdOf(c), account |-> c.account,
     policyHash |-> c.policyHash]

Config ==
    [sessionId : SessionIds, policyHash : STRING, account : Addresses,
     sessionKey : Addresses, token : Addresses, allowedTarget : Addresses,
     allowedRecipient : Addresses, allowedSelector : STRING, nonceKey : Lanes,
     maxPerTransfer : 0 .. MaxUint, maxTotalSpend : 0 .. MaxUint,
     validAfter : Nat, validUntil : Nat, allowBatch : BOOLEAN,
     revoked : BOOLEAN]

Leaf ==
    [target : Addresses, value : Nat, selector : STRING,
     recipient : Addresses, amount : Nat]

Execution == [mode : STRING, leaves : Seq(Leaf)]

ValidConfig(c) ==
    /\ c.sessionKey # ZeroAddress
    /\ c.token # ZeroAddress
    /\ c.allowedTarget = c.token
    /\ c.allowedSelector = Transfer
    /\ c.maxPerTransfer # 0
    /\ c.maxTotalSpend >= c.maxPerTransfer
    /\ c.validUntil > c.validAfter

Registered(l) == sessions[l] # NoSession

\* Mutant of ActiveSession: the revoked flag is not looked at.
ActiveSessionIgnoresRevoked(l) ==
    /\ Registered(l)
    /\ sessions[l].validAfter <= now
    /\ now <= sessions[l].validUntil

\* The check that the adapter and the hook both make before an execution.
ActiveSession(l) ==
    /\ Registered(l)
    /\ ~sessions[l].revoked
    /\ sessions[l].validAfter <= now
    /\ now <= sessions[l].validUntil

\* RailguardSessionValidator: may this signer of a user operation use session
\* s?  It is asked when the operation is validated, before the execution.
validateSessionKey(s, signer) ==
    /\ s # NoSession
    /\ ~s.revoked
    /\ s.validAfter <= now
    /\ now <= s.validUntil
    /\ signer = s.sessionKey

-----------------------------------------------------------------------------
(* Frames: what preCheck makes of the calls of one execution.              *)

\* Mutant of RecipientAllowed: any recipient is accepted.
RecipientAllowedAny(s, leaf) == TRUE

RecipientAllowed(s, leaf) == leaf.recipient = s.allowedRecipient

LeafAllowed(s, leaf) ==
    /\ leaf.target \notin {ZeroAddress, Account}
    /\ leaf.value = 0
    /\ s.allowedTarget = s.token
    /\ leaf.target = s.allowedTarget
    /\ leaf.selector = Transfer
    /\ leaf.selector = s.allowedSelector
    /\ RecipientAllowed(s, leaf)
    /\ leaf.amount <= s.maxPerTransfer

FrameAllowed(s, e) ==
    /\ \/ e.mode = "single"
       \/ e.mode = "batch" /\ s.allowBatch
    /\ \A i \in DOMAIN e.leaves : LeafAllowed(s, e.leaves[i])

\* The accumulator of the validation loop after each leaf.
SpendAfter(leaves) ==
    LET acc[n \in 0 .. Len(leaves)] ==
            IF n = 0 THEN 0 ELSE acc[n - 1] + leaves[n].amount
    IN  acc

\* The type of the inputs.
ASSUME InputAssumption ==
    /\ {ZeroAddress, Account, Owner} \subseteq Addresses
    /\ Account # ZeroAddress
    /\ Adapters \subseteq Addresses
    /\ Offered \subseteq Config
    /\ NoSession \notin Config
    /\ Executions \subseteq Execution
    /\ MaxUint \in Nat

ASSUME BoundAssumption ==
    MaxTime \in Nat /\ MaxDepth \in Nat \ {0} /\ MaxExecutions \in Nat

FrameSpend(e) == SpendAfter(e.leaves)[Len(e.leaves)]

ExecutionDigest(l, e) ==
    [sessionId    |-> sessions[l].sessionId,
     nonceKey     |-> l,
     executionSeq |-> sessionExecutionSeq[sessions[l].sessionId],
     execution    |-> e]

-----------------------------------------------------------------------------
(* Storage, and its restoration when a call reverts.                       *)

Storage ==
    [sessions            |-> sessions,
     sessionSpend        |-> sessionSpend,
     usedExecutions      |-> usedExecutions,
     sessionExecutionSeq |-> sessionExecutionSeq,
     moved               |-> moved,
     log                 |-> log]

Top == stack[Len(stack)]
Pop == SubSeq(stack, 1, Len(stack) - 1)

\* The EVM undoes every write since the call of the top entry began.
RevertTop ==
    /\ sessions' = Top.saved.sessions
    /\ sessionSpend' = Top.saved.sessionSpend
    /\ usedExecutions' = Top.saved.usedExecutions
    /\ sessionExecutionSeq' = Top.saved.sessionExecutionSeq
    /\ moved' = Top.saved.moved
    /\ log' = Top.saved.log
    /\ stack' = Pop

\* Code outside the two contracts runs between transactions and, if the
\* token calls back, while a token call is in progress.
ExternalCode ==
    \/ stack = <<>>
    \/ stack # <<>> /\ MaxDepth > 1 /\ Top.leaves # <<>>

-----------------------------------------------------------------------------
(* Steps.                                                                  *)

Init ==
    /\ adapter = ZeroAddress
    /\ sessions = [l \in Lanes |-> NoSession]
    /\ sessionSpend = [sid \in SessionIds |-> 0]
    /\ usedExecutions = {}
    /\ sessionExecutionSeq = [sid \in SessionIds |-> 0]
    /\ moved = [k \in SessionIds \X Addresses \X Addresses |-> 0]
    /\ log = <<>>
    /\ stack = <<>>
    /\ now = 0

\* Only once, to a non-zero address.
SetAdapter(a) ==
    /\ adapter = ZeroAddress
    /\ a # ZeroAddress
    /\ adapter' = a
    /\ UNCHANGED <<sessions, sessionSpend, usedExecutions,
                   sessionExecutionSeq, moved, log, stack, now>>

\* Mutant of IdMatches: the claimed session id is not recomputed.
IdMatchesClaimed(c) == TRUE

IdMatches(c) == c.sessionId = SessionIdOf(c)

\* Mutant of LaneFree: a lane may be registered again.
LaneFreeAlways(c) == TRUE

LaneFree(c) == ~Registered(c.nonceKey)

\* Anybody may submit a configuration that both parties have signed.
RegisterSession(c) ==
    /\ ExternalCode
    /\ c.account = Account
    /\ ValidConfig(c)
    /\ LaneFree(c)
    /\ Authorization(c) \in OwnerSigned
    /\ Authorization(c) \in RailguardSigned
    /\ IdMatches(c)
    /\ sessions' = [sessions EXCEPT ![c.nonceKey] = c]
    /\ UNCHANGED <<adapter, sessionSpend, usedExecutions,
                   sessionExecutionSeq, moved, log, stack, now>>

RevokeSession(caller, l) ==
    /\ ExternalCode
    /\ caller = Owner
    /\ Registered(l)
    /\ sessions' = [sessions EXCEPT ![l].revoked = TRUE]
    /\ UNCHANGED <<adapter, sessionSpend, usedExecutions,
                   sessionExecutionSeq, moved, log, stack, now>>

\* preCheck writes nothing: it reverts or returns a context.  The sum of the
\* frame and the sum with the current spend are checked uint256 additions; the
\* cap is a uint256, so an overflow of the second one fails the cap test too.
PreCheckAllows(l, e) ==
    LET s == sessions[l]
    IN  /\ adapter = Account
        /\ ActiveSession(l)
        /\ ExecutionDigest(l, e) \notin usedExecutions
        /\ FrameAllowed(s, e)
        /\ FrameSpend(e) \in 0 .. MaxUint
        /\ sessionSpend[s.sessionId] + FrameSpend(e) <= s.maxTotalSpend

\* The context preCheck returns, with the calls left to make and the storage
\* that a revert of this call restores.
HookContext(l, e) ==
    LET s == sessions[l]
    IN  [sessionId       |-> s.sessionId,
         executionDigest |-> ExecutionDigest(l, e),
         executionSeq    |-> sessionExecutionSeq[s.sessionId],
         frameSpend      |-> FrameSpend(e),
         maxTotalSpend   |-> s.maxTotalSpend,
         leaves          |-> e.leaves,
         done            |-> 0,
         saved           |-> Storage]

\* The first part of executeWithSession, up to the first token call.
ExecuteWithSession(caller, l, e) ==
    /\ ExternalCode
    /\ Len(stack) < MaxDepth
    /\ Len(log) + Len(stack) < MaxExecutions
    /\ ActiveSession(l)
    /\ caller \in {sessions[l].sessionKey, Owner}
    /\ PreCheckAllows(l, e)
    /\ stack' = Append(stack, HookContext(l, e))
    /\ UNCHANGED <<adapter, sessions, sessionSpend, usedExecutions,
                   sessionExecutionSeq, moved, log, now>>

\* The next token call of the top frame succeeds.
TokenCall ==
    /\ stack # <<>>
    /\ Top.done < Len(Top.leaves)
    /\ LET leaf == Top.leaves[Top.done + 1]
           key  == <<Top.sessionId, leaf.target, leaf.recipient>>
       IN  moved' = IF leaf.selector = Transfer
                    THEN [moved EXCEPT ![key] = @ + leaf.amount]
                    ELSE moved
    /\ stack' = [stack EXCEPT ![Len(stack)].done = @ + 1]
    /\ UNCHANGED <<adapter, sessions, sessionSpend, usedExecutions,
                   sessionExecutionSeq, log, now>>

\* A token call of the top frame fails or returns false, and the account
\* reverts.  The caller of a nested frame may swallow this.
TokenCallFails ==
    /\ stack # <<>>
    /\ Top.leaves # <<>>
    /\ RevertTop
    /\ UNCHANGED <<adapter, now>>

\* Mutant of NewSpend: the spend that preCheck read is used again.
NewSpendStale == Top.saved.sessionSpend[Top.sessionId] + Top.frameSpend

NewSpend == sessionSpend[Top.sessionId] + Top.frameSpend

\* Mutant of PostCheckAllows: the cap is checked by preCheck only.
PostCheckNoCap == Top.executionDigest \notin usedExecutions

\* Mutant of PostCheckAllows: the digest is checked by preCheck only.
PostCheckNoReplay == NewSpend <= Top.maxTotalSpend

PostCheckAllows ==
    /\ Top.executionDigest \notin usedExecutions
    /\ NewSpend <= Top.maxTotalSpend

\* Mutant of NextSeq: the sequence number is not advanced.
NextSeqSame == Top.executionSeq

NextSeq == Top.executionSeq + 1

\* The writes of postCheck use the context that preCheck made.
ApplyContext ==
    /\ sessionSpend' = [sessionSpend EXCEPT ![Top.sessionId] = NewSpend]
    /\ usedExecutions' = usedExecutions \cup {Top.executionDigest}
    /\ sessionExecutionSeq' =
            [sessionExecutionSeq EXCEPT ![Top.sessionId] = NextSeq]
    /\ log' = Append(log, [sessionId       |-> Top.sessionId,
                           executionDigest |-> Top.executionDigest,
                           frameSpend      |-> Top.frameSpend,
                           totalSpendAfter |-> NewSpend])
    /\ stack' = Pop
    /\ UNCHANGED <<sessions, moved>>

PostCheck ==
    /\ stack # <<>>
    /\ Top.done = Len(Top.leaves)
    /\ IF PostCheckAllows THEN ApplyContext ELSE RevertTop
    /\ UNCHANGED <<adapter, now>>

\* Blocks are mined between transactions.
Tick ==
    /\ stack = <<>>
    /\ now < MaxTime
    /\ now' = now + 1
    /\ UNCHANGED <<adapter, sessions, sessionSpend, usedExecutions,
                   sessionExecutionSeq, moved, log, stack>>

Next ==
    \/ \E a \in Adapters : SetAdapter(a)
    \/ \E c \in Offered : RegisterSession(c)
    \/ \E caller \in Addresses, l \in Lanes : RevokeSession(caller, l)
    \/ \E caller \in Addresses, l \in Lanes, e \in Executions :
            ExecuteWithSession(caller, l, e)
    \/ TokenCall
    \/ TokenCallFails
    \/ PostCheck
    \/ Tick

Spec == Init /\ [][Next]_vars

-----------------------------------------------------------------------------
(* Properties.                                                             *)

Digest ==
    [sessionId : SessionIds, nonceKey : Lanes, executionSeq : Nat,
     execution : Executions]

Event ==
    [sessionId : SessionIds, executionDigest : Digest,
     frameSpend : Nat, totalSpendAfter : Nat]

StorageType ==
    [sessions            : [Lanes -> Config \cup {NoSession}],
     sessionSpend        : [SessionIds -> Nat],
     usedExecutions      : SUBSET Digest,
     sessionExecutionSeq : [SessionIds -> Nat],
     moved               : [SessionIds \X Addresses \X Addresses -> Nat],
     log                 : Seq(Event)]

Frame ==
    [sessionId : SessionIds, executionDigest : Digest, executionSeq : Nat,
     frameSpend : Nat, maxTotalSpend : Nat, leaves : Seq(Leaf), done : Nat,
     saved : StorageType]

\* A registered configuration sits in its own lane, under the session id
\* that its terms hash to.
WellFormed(ss) ==
    \A l \in Lanes : ss[l] # NoSession =>
        ss[l].nonceKey = l /\ ss[l].sessionId = SessionIdOf(ss[l])

\* Types, and the session ids of the stored configurations
\* (registerSession stores none whose id it has not derived).
TypeOK ==
    /\ adapter \in Addresses
    /\ Storage \in StorageType
    /\ WellFormed(sessions)
    /\ stack \in Seq(Frame)
    /\ now \in Nat

\* Cumulative spend never exceeds the signed cap of the session, however
\* deeply executions are nested (the checks of preCheck and postCheck).
SpendWithinCap ==
    \A sid \in SessionIds : sessionSpend[sid] <= sid.maxTotalSpend

\* Between transactions the tokens that left the account on behalf of a
\* session are exactly the spend the hook recorded for it, in the session's
\* token and to its recipient: every token call of a committed execution is
\* paid for by postCheck, none of a reverted one is.
MovedIsAccounted ==
    stack = <<>> =>
        \A sid \in SessionIds, t \in Addresses, r \in Addresses :
            moved[<<sid, t, r>>] =
                IF t = sid.token /\ r = sid.allowedRecipient
                THEN sessionSpend[sid] ELSE 0

\* An execution digest is announced at most once, and usedExecutions holds
\* exactly the announced ones; SignGate matches reservations by digest.
DigestsUnique ==
    /\ usedExecutions = {log[i].executionDigest : i \in DOMAIN log}
    /\ \A i, j \in DOMAIN log :
          log[i].executionDigest = log[j].executionDigest => i = j

\* The total announced by the last of the first n events of a session.
LastTotal(sid, n) ==
    LET before == {j \in 1 .. n : log[j].sessionId = sid}
    IN  IF before = {} THEN 0
        ELSE log[CHOOSE j \in before : \A k \in before : k <= j].totalSpendAfter

\* The events alone are a complete account: each totalSpendAfter is the one
\* before it plus frameSpend, and the last one is the spend in storage.
EventTotals ==
    /\ \A i \in DOMAIN log :
          log[i].totalSpendAfter =
              LastTotal(log[i].sessionId, i - 1) + log[i].frameSpend
    /\ \A sid \in SessionIds : sessionSpend[sid] = LastTotal(sid, Len(log))

\* The storage of the last committed transaction.
Committed == IF stack = <<>> THEN Storage ELSE stack[1].saved

\* A lane keeps its terms for ever and a committed revocation is final,
\* through every transaction that reverts or re-enters the account.
SessionsPermanent ==
    [][\A l \in Lanes :
          LET s == Committed.sessions[l]
          IN  s # NoSession =>
                  Committed'.sessions[l] \in {s, [s EXCEPT !.revoked = TRUE]}]_vars

\* What the session validator refuses, the hook does not let through: while
\* validateSessionKey turns down even the session key of a session (its
\* revocation is committed, or its validity window is not open), no transaction
\* spends anything of it, however executions are nested (_requireActiveSession).
OnlyActiveSpend ==
    [][\A l \in Lanes :
          LET s == Committed.sessions[l]
          IN  s # NoSession /\ ~validateSessionKey(s, s.sessionKey)
              => Committed'.sessionSpend[s.sessionId]
                     = Committed.sessionSpend[s.sessionId]]_vars

\* As long as no sequence number of a session has been announced twice (only
\* an execution nested in another one of its session makes that happen), the
\* events of the session come in the order of their sequence numbers and its
\* next one is unused: repeating a payment is never mistaken for a replay.
SequenceFresh ==
    \A sid \in SessionIds :
        LET events == {i \in DOMAIN log : log[i].sessionId = sid}
            seqOf(i) == log[i].executionDigest.executionSeq
        IN  (\A i, j \in events : seqOf(i) = seqOf(j) => i = j) =>
                /\ \A i, j \in events : i < j => seqOf(i) < seqOf(j)
                /\ \A i \in events : seqOf(i) < sessionExecutionSeq[sid]
=============================================================================
