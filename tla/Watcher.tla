------------------------------ MODULE Watcher ------------------------------
(***************************************************************************)
(* SignGate's chain watcher (signgate/internal/watcher): it reads the      *)
(* hook's ExecutionAllowed events from confirmed blocks, records each in   *)
(* Postgres and commits the reservation whose digest matches.              *)
(*                                                                         *)
(* The chain grows and its last blocks may be replaced, between any two    *)
(* RPC calls of a poll.  Every RPC call and every statement may fail, and  *)
(* the process may stop anywhere and be started again: it then knows the   *)
(* cursor in Postgres only.  A watcher that cannot dial the node ends, and *)
(* the process lives on without it.                                        *)
(*                                                                         *)
(* Every event carries a digest: the hook of this repository emits no      *)
(* other.  The block hash that is saved with the cursor is never read.     *)
(***************************************************************************)
EXTENDS Integers, Sequences, Functions

CONSTANTS
    Digests,        \* execution digests
    Keys,           \* <<transaction hash, log index>> pairs
    Events,         \* ExecutionAllowed events that may be mined
    Confirmation,   \* WATCHER_CONFIRMATION_DEPTH
    RescanBlocks,   \* WATCHER_RESCAN_BLOCKS
    StartBlock,     \* WATCHER_START_BLOCK
    ReorgDepth,     \* most blocks a reorganisation replaces
    MaxPerBlock,    \* bound on the events of a block
    MaxHeight,      \* bound on the length of the chain
    LastBind,       \* bound on the height at which digests are still bound
    MaxReorgs,      \* bound on reorganisations
    MaxFailures,    \* bound on failed calls and stops of the process
    Width           \* number of values of a uint64

VARIABLES
    chain,       \* block number -> its ExecutionAllowed events
    bound,       \* digests of pending reservations
    committed,   \* digests of reservations committed by the watcher
    executions,  \* the rows of chain_executions, in the order of created_at
    cursor,      \* last_block in watcher_state, NoCursor at first
    lastBlock,   \* the same in memory
    poll,        \* the poll in progress
    reorgs,
    failures

vars == <<chain, bound, committed, executions, cursor, lastBlock, poll,
          reorgs, failures>>

chainVars == <<chain, reorgs>>
storeVars == <<bound, committed, executions, cursor>>

Event == [key : Keys, digest : Digests]

Blocks == UNION {[1 .. n -> Events] : n \in 0 .. MaxPerBlock}

NoCursor == -1

ASSUME WatcherAssumption ==
    /\ {Confirmation, RescanBlocks, StartBlock, ReorgDepth, MaxPerBlock,
        MaxHeight, LastBind, MaxReorgs, MaxFailures} \subseteq Nat
    /\ Width \in Nat /\ Width > MaxHeight
    /\ StartBlock <= MaxHeight + 1
    /\ Events \subseteq Event

Down == [pc |-> "down"]
Idle == [pc |-> "idle"]
Ended == [pc |-> "ended"]

At(label) == poll.pc = label

Polling == poll.pc \notin {"down", "idle", "ended"}

\* The events of block n, none above the head.
EventsOf(c, n) == IF n \in 1 .. Len(c) THEN c[n] ELSE <<>>

OnChain(c) == UNION {Range(c[n]) : n \in 1 .. Len(c)}

\* The hook never announces a digest twice (DigestsUnique of SessionHook),
\* and a transaction is in one block only.
WellFormed(c) ==
    \A m, n \in 1 .. Len(c) : \A i \in DOMAIN c[m], j \in DOMAIN c[n] :
        \/ m = n /\ i = j
        \/ c[m][i].key # c[n][j].key /\ c[m][i].digest # c[n][j].digest

Init ==
    /\ chain = <<>>
    /\ bound = {} /\ committed = {}
    /\ executions = <<>>
    /\ cursor = NoCursor
    /\ lastBlock = 0
    /\ poll = Down
    /\ reorgs = 0 /\ failures = 0

-----------------------------------------------------------------------------
(* The chain and the agents.                                               *)

Mine(block) ==
    /\ Len(chain) < MaxHeight
    /\ WellFormed(Append(chain, block))
    /\ chain' = Append(chain, block)
    /\ UNCHANGED <<storeVars, lastBlock, poll, reorgs, failures>>

\* The last n blocks are replaced by as many others, in which transactions
\* may be missing, in another place or bundled anew.
Reorg(n, blocks) ==
    LET c == SubSeq(chain, 1, Len(chain) - n) \o blocks
    IN  /\ reorgs < MaxReorgs
        /\ n <= Len(chain)
        /\ WellFormed(c) /\ c # chain
        /\ chain' = c
        /\ reorgs' = reorgs + 1
        /\ UNCHANGED <<storeVars, lastBlock, poll, failures>>

\* A submitted report binds the digest to a pending reservation.
Bind(d) ==
    /\ Len(chain) <= LastBind
    /\ d \notin bound \cup committed
    /\ bound' = bound \cup {d}
    /\ UNCHANGED <<chainVars, committed, executions, cursor, lastBlock, poll,
                   failures>>

-----------------------------------------------------------------------------
(* The watcher.                                                            *)

FirstBlock == IF StartBlock > 0 THEN StartBlock - 1 ELSE 0

\* Run: dial the node and start from the cursor, if it can be read.  If the
\* dial fails Run returns, and nothing in the process calls it again.
Run ==
    /\ At("down")
    /\ \/ /\ lastBlock' = IF cursor # NoCursor THEN cursor ELSE FirstBlock
          /\ poll' = Idle
          /\ UNCHANGED failures
       \/ /\ failures < MaxFailures /\ failures' = failures + 1
          /\ lastBlock' = FirstBlock
          /\ poll' = Idle
       \/ /\ failures < MaxFailures /\ failures' = failures + 1
          /\ poll' = Ended
          /\ UNCHANGED lastBlock
    /\ UNCHANGED <<chainVars, storeVars>>

\* Mutant of SafeHead: confirmations are not waited for.
SafeHeadUnconfirmed(head) == head

\* Mutant of SafeHead: the test for a short chain is missing.
SafeHeadWraps(head) == (head - Confirmation) % Width

\* computeSafeHead; 0 is never above lastBlock, so it stands for not ready.
SafeHead(head) == IF head < Confirmation THEN 0 ELSE head - Confirmation

\* Mutant of RescanFrom: no block is read twice.
RescanFromNew == lastBlock + 1

\* The first block of a poll.
RescanFrom ==
    IF RescanBlocks > 0 /\ lastBlock >= RescanBlocks
    THEN lastBlock - RescanBlocks + 1
    ELSE lastBlock + 1

\* Mutant of Ahead: one new block is not enough.
AheadLate(safeHead) == safeHead > lastBlock + 1

Ahead(safeHead) == safeHead > lastBlock

\* eth_blockNumber, and the decision what to read.
BlockNumber ==
    LET safeHead == SafeHead(Len(chain))
    IN  /\ At("idle")
        /\ Ahead(safeHead)
        /\ poll' = [pc |-> "filter", block |-> RescanFrom, to |-> safeHead]
        /\ UNCHANGED <<chainVars, storeVars, lastBlock, failures>>

\* eth_getLogs, grouped by block.
FilterLogs ==
    /\ At("filter")
    /\ LET logs == [n \in poll.block .. poll.to |-> EventsOf(chain, n)]
       IN  poll' = [pc |-> "block", block |-> poll.block, to |-> poll.to,
                    logs |-> logs, pending |-> logs[poll.block]]
    /\ UNCHANGED <<chainVars, storeVars, lastBlock, failures>>

Rows == Range(executions)

Recorded(e) == \E x \in Rows : x.key = e.key

\* Mutant of DigestTaken: no unique index on the digest.
DigestTakenNever(e) == FALSE

\* The digest is recorded under another key.
DigestTaken(e) == \E x \in Rows : x.digest = e.digest /\ x.key # e.key

\* Mutant of AfterInsert: an event that was recorded before is done with.
AfterInsertOnce(e) ==
    IF Recorded(e) THEN [poll EXCEPT !.pending = Tail(@)] ELSE [poll EXCEPT !.pc = "commit"]

\* Whether the insert did anything is not looked at.
AfterInsert(e) == [poll EXCEPT !.pc = "commit"]

\* INSERT ... ON CONFLICT (tx_hash, log_index) DO NOTHING.  A digest that is
\* recorded under another key violates its unique index and ends the poll.
Insert ==
    /\ At("block") /\ poll.pending # <<>>
    /\ LET e == Head(poll.pending)
           row == [key |-> e.key, digest |-> e.digest, block |-> poll.block]
       IN  \/ /\ Recorded(e)
              /\ poll' = AfterInsert(e)
              /\ UNCHANGED executions
           \/ /\ ~Recorded(e) /\ ~DigestTaken(e)
              /\ executions' = Append(executions, row)
              /\ poll' = AfterInsert(e)
           \/ /\ ~Recorded(e) /\ DigestTaken(e)
              /\ poll' = Idle
              /\ UNCHANGED executions
    /\ UNCHANGED <<chainVars, bound, committed, cursor, lastBlock, failures>>

\* Mutant of Matching: any pending reservation.
MatchingAny(d) == IF bound = {} THEN {} ELSE {CHOOSE b \in bound : TRUE}

\* The pending reservation that is bound to digest d.
Matching(d) == {d} \cap bound

\* CommitBudgetOnChainExecution.
Commit ==
    /\ At("commit")
    /\ LET d == Head(poll.pending).digest
       IN  /\ committed' = committed \cup Matching(d)
           /\ bound' = bound \ Matching(d)
    /\ poll' = [poll EXCEPT !.pc = "block", !.pending = Tail(@)]
    /\ UNCHANGED <<chainVars, executions, cursor, lastBlock, failures>>

\* Mutant of GetChainExecutionBySessionID: DESC is missing.
GetFirstExecution == IF executions = <<>> THEN {} ELSE {executions[1]}

\* What GET /v1/reconciliation/executions/{sessionId} answers, if anything.
\* The executions here are those of one session.
GetChainExecutionBySessionID ==
    IF executions = <<>> THEN {} ELSE {executions[Len(executions)]}

\* After block n of a poll.
NextBlock(n) ==
    IF n = poll.to
    THEN Idle
    ELSE [poll EXCEPT !.block = n + 1, !.pending = poll.logs[n + 1]]

\* Mutant of Done: the end of the range is saved with its first block.
DoneWithAll == poll.to

\* The block that is saved as the cursor.
Done == poll.block

\* eth_getBlockByNumber and SetWatcherBlockCursor, when a block is done.
SetCursor ==
    /\ At("block") /\ poll.pending = <<>>
    /\ cursor' = Done
    /\ lastBlock' = poll.block
    /\ poll' = NextBlock(poll.block)
    /\ UNCHANGED <<chainVars, bound, committed, executions, failures>>

\* A call fails and poll returns its error; the cursor may have been written
\* all the same.
PollFails ==
    /\ Polling
    /\ failures < MaxFailures
    /\ failures' = failures + 1
    /\ poll' = Idle
    /\ \/ UNCHANGED cursor
       \/ At("block") /\ poll.pending = <<>> /\ cursor' = Done
    /\ UNCHANGED <<chainVars, bound, committed, executions, lastBlock>>

\* The process stops, with or without a watcher in it.
Stop ==
    /\ ~At("down")
    /\ failures < MaxFailures
    /\ failures' = failures + 1
    /\ poll' = Down
    /\ lastBlock' = 0
    /\ UNCHANGED <<chainVars, storeVars>>

WatcherStep ==
    BlockNumber \/ FilterLogs \/ Insert \/ Commit \/ SetCursor

MineSome == \E block \in Blocks : Mine(block)

Next ==
    \/ MineSome
    \/ \E n \in 1 .. ReorgDepth : \E blocks \in [1 .. n -> Blocks] :
          Reorg(n, blocks)
    \/ \E d \in Digests : Bind(d)
    \/ Run \/ WatcherStep \/ PollFails \/ Stop

\* The chain goes on, the ticker fires, calls return, and a process that has
\* stopped is started again.  Nothing starts a watcher that has ended.
Fairness == WF_vars(MineSome) /\ WF_vars(Run) /\ WF_vars(WatcherStep)

Spec == Init /\ [][Next]_vars /\ Fairness

-----------------------------------------------------------------------------
(* Properties.                                                             *)

PollOK ==
    \/ poll \in {Down, Idle, Ended}
    \/ poll \in [pc : {"filter"}, block : 1 .. MaxHeight, to : 1 .. MaxHeight]
    \/ /\ poll.pc \in {"block", "commit"}
       /\ poll.to \in 1 .. MaxHeight /\ poll.block \in 1 .. poll.to
       /\ poll.block .. poll.to \subseteq DOMAIN poll.logs
       /\ \A n \in DOMAIN poll.logs : poll.logs[n] \in Blocks
       /\ poll.pending \in Blocks
       /\ At("commit") => poll.pending # <<>>

\* Types; a poll never reads beyond the longest chain.
TypeOK ==
    /\ chain \in Seq(Blocks) /\ Len(chain) <= MaxHeight
    /\ bound \subseteq Digests /\ committed \subseteq Digests
    /\ Rows \subseteq [key : Keys, digest : Digests, block : 1 .. MaxHeight]
    /\ cursor \in {NoCursor} \cup 1 .. MaxHeight
    /\ lastBlock \in 0 .. MaxHeight
    /\ PollOK
    /\ reorgs \in 0 .. MaxReorgs
    /\ failures \in 0 .. MaxFailures

\* The blocks from the configured start up to n are recorded.
RecordedUpTo(n) ==
    \A m \in FirstBlock + 1 .. n : \A e \in Range(EventsOf(chain, m)) :
        [key |-> e.key, digest |-> e.digest, block |-> m] \in Rows

\* The watcher skips nothing: whatever fails, stops or is read again, the
\* events of every block up to the saved cursor are in chain_executions, as
\* long as reorganisations stay within the confirmation depth (poll).
CursorSound == RecordedUpTo(cursor) /\ RecordedUpTo(lastBlock)

\* It records nothing else: every row is an event of the chain as it is now,
\* in the block the row says (confirmation depth of poll).
RowsOnChain ==
    \A x \in Rows :
        [key |-> x.key, digest |-> x.digest] \in Range(EventsOf(chain, x.block))

\* The place of row x on the chain is not behind that of row y.
NotBehind(x, y) ==
    \/ x.block > y.block
    \/ /\ x.block = y.block
       /\ \E i, j \in DOMAIN chain[x.block] :
             i >= j /\ chain[x.block][i].key = x.key /\ chain[x.block][j].key = y.key

\* Whoever reconciles a session is told of its latest execution: whatever was
\* read again after failures and restarts, the row that was created last is
\* the last one on the chain, and its total the session's (created_at in
\* GetChainExecutionBySessionID, the order of poll's loops).
ReconciledIsLatest ==
    \A x \in GetChainExecutionBySessionID, y \in Rows : NotBehind(x, y)

IsRecorded(d) == \E x \in Rows : x.digest = d

\* A reservation is committed only for an execution that is recorded and on
\* the chain: matched by digest, never first in, first out.
CommitEvidence ==
    \A d \in committed :
        /\ IsRecorded(d)
        /\ \E e \in OnChain(chain) : e.digest = d

\* However often an execution is mined, in whichever transaction, it is
\* recorded once, and an event has one row (the indexes of chain_executions).
RecordedOnce ==
    \A x, y \in Rows : x.digest = y.digest \/ x.key = y.key => x = y

\* The execution with digest d is in one of the blocks m to n.
Mined(d, m, n) ==
    \E b \in m .. n : \E e \in Range(EventsOf(chain, b)) : e.digest = d

\* The execution with digest d is in a confirmed block, at or above m.
Confirmed(d, m) == Mined(d, m, SafeHead(Len(chain)))

\* The watcher is gone for good, while the process lives on.
Gone == <>[]At("ended")

\* Every confirmed execution is recorded in the end, although failed polls
\* move the cursor back by the rescan window (poll's loop), also after a failed
\* dial if the process is started once more; only a watcher that is gone for
\* good records nothing (Run).
ConfirmedRecorded ==
    \A d \in Digests :
        \/ Gone
        \/ Confirmed(d, FirstBlock + 1) ~> IsRecorded(d)

\* The rescan window is idempotent and makes up for reorganisations deeper
\* than the confirmation depth: an execution in a block that is no longer
\* replaced is recorded in the end.
SettledRecorded ==
    \A d \in Digests :
        \/ Gone
        \/ Mined(d, FirstBlock + 1, Len(chain) - ReorgDepth) ~> IsRecorded(d)

\* A recorded execution has moved to another transaction.
Displaced ==
    \E x \in Rows : \E e \in OnChain(chain) :
        x.digest = e.digest /\ x.key # e.key

\* The same, unless a recorded execution has moved to another transaction:
\* that is the only reorganisation that the rescan window does not absorb, and
\* a watcher that is gone for good the only failure.
SettledUnlessDisplaced ==
    \A d \in Digests :
        \/ Gone
        \/ Mined(d, FirstBlock + 1, Len(chain) - ReorgDepth)
           ~> IsRecorded(d) \/ Displaced

\* A reservation bound before its execution is recorded is committed in the
\* end, also when the process stops between the insert and the update of
\* RecordChainExecution, unless the watcher is gone for good.
BoundCommitted ==
    \A d \in Digests :
        \/ Gone
        \/ (d \in bound /\ Confirmed(d, FirstBlock + 1) /\ ~IsRecorded(d))
           ~> d \in committed
=============================================================================
