--------------------------- MODULE WatcherProofs ---------------------------
(***************************************************************************)
(* Proofs about Watcher, for every confirmation depth, rescan window and   *)
(* start block, and every history of the chain, of failures and of         *)
(* restarts.                                                               *)
(***************************************************************************)
EXTENDS Watcher, SequenceTheorems, TLAPS

-----------------------------------------------------------------------------
(* The state of the watcher, whatever happens to the chain.                *)

ExecutionRow == [key : Keys, digest : Digests, block : 1 .. MaxHeight]

PollShape ==
    \/ poll \in {Down, Idle, Ended}
    \/ /\ poll \in [pc : {"filter"}, block : 1 .. MaxHeight, to : 1 .. MaxHeight]
       /\ poll.block <= poll.to /\ poll.block <= lastBlock + 1
    \/ /\ poll \in [pc : {"block", "commit"}, block : 1 .. MaxHeight, to : 1 .. MaxHeight,
                    logs : {poll.logs}, pending : Blocks]
       /\ poll.block <= poll.to /\ poll.block <= lastBlock + 1
       /\ poll.block .. poll.to \subseteq DOMAIN poll.logs
       /\ \A n \in DOMAIN poll.logs : poll.logs[n] \in Blocks
       /\ poll.pc = "commit" => poll.pending # <<>>

StateInv ==
    /\ chain \in Seq(Blocks) /\ Len(chain) <= MaxHeight /\ WellFormed(chain)
    /\ bound \subseteq Digests /\ committed \subseteq Digests
    /\ executions \in Seq(ExecutionRow) /\ RecordedOnce
    /\ cursor \in {NoCursor} \cup 1 .. MaxHeight
    /\ lastBlock \in 0 .. MaxHeight
    /\ PollShape
    /\ reorgs \in 0 .. MaxReorgs
    /\ failures \in 0 .. MaxFailures

-----------------------------------------------------------------------------
(* What no reorganisation within the confirmation depth undoes.            *)

RowOf(e, n) == [key |-> e.key, digest |-> e.digest, block |-> n]

\* Block n is deeper than the confirmation depth.
Settled(n) == n + Confirmation <= Len(chain)

CursorsOK ==
    /\ cursor = NoCursor \/ Settled(cursor)
    /\ lastBlock \in {0, FirstBlock} \/ Settled(lastBlock)

RowsSettled == \A x \in Rows : Settled(x.block)

\* A poll has read the blocks as they are, and has recorded the events of its
\* block that are not pending any more.
DoneEvents == Len(poll.logs[poll.block]) - Len(poll.pending)

PollReads ==
    /\ poll.pc \in {"filter", "block", "commit"} => Settled(poll.to)
    /\ poll.pc \in {"block", "commit"} =>
          /\ \A n \in poll.block .. poll.to : poll.logs[n] = chain[n]
          /\ Len(poll.pending) <= Len(chain[poll.block])
          /\ \A i \in 1 .. Len(poll.pending) :
                poll.pending[i] = chain[poll.block][DoneEvents + i]
          /\ \A i \in 1 .. DoneEvents : RowOf(chain[poll.block][i], poll.block) \in Rows
    /\ poll.pc = "commit" => RowOf(Head(poll.pending), poll.block) \in Rows

EvidenceInv ==
    /\ CursorsOK /\ CursorSound /\ RowsSettled /\ RowsOnChain /\ PollReads
    /\ \A d \in committed : IsRecorded(d)

-----------------------------------------------------------------------------
(* The order in which rows are created.                                    *)

\* Nothing below the start block is read.
FromStart ==
    /\ cursor = NoCursor \/ cursor >= FirstBlock
    /\ poll \notin {Down, Ended} => lastBlock >= FirstBlock
    /\ poll \notin {Down, Idle, Ended} => poll.block > FirstBlock
    /\ \A x \in Rows : x.block > FirstBlock

\* The rows have no gap: whatever is not behind a row is recorded too.
NoGap ==
    \A x \in Rows : \A m \in FirstBlock + 1 .. x.block : \A i \in DOMAIN chain[m] :
        \/ RowOf(chain[m][i], m) \in Rows
        \/ m = x.block /\ \A j \in DOMAIN chain[m] : chain[m][j].key = x.key => j < i

OrderInv == FromStart /\ NoGap /\ ReconciledIsLatest

-----------------------------------------------------------------------------
(* Blocks, rows and the chain.                                             *)

LEMMA ConstantTypes ==
    /\ Confirmation \in Nat /\ RescanBlocks \in Nat /\ StartBlock \in Nat /\ ReorgDepth \in Nat
    /\ MaxPerBlock \in Nat /\ MaxHeight \in Nat /\ MaxReorgs \in Nat /\ MaxFailures \in Nat
    /\ Events \subseteq Event
    /\ FirstBlock \in 0 .. MaxHeight
BY WatcherAssumption DEF FirstBlock

LEMMA BlockTypes ==
    /\ <<>> \in Blocks
    /\ \A b \in Blocks : /\ b \in Seq(Events) /\ Len(b) \in 0 .. MaxPerBlock
                         /\ DOMAIN b = 1 .. Len(b)
                         /\ \A i \in 1 .. Len(b) : b[i] \in Events
    /\ \A b \in Blocks : b # <<>> =>
          /\ Tail(b) \in Blocks /\ Head(b) = b[1] /\ Len(b) \in Nat \ {0}
          /\ Len(Tail(b)) = Len(b) - 1 /\ \A i \in 1 .. Len(b) - 1 : Tail(b)[i] = b[i + 1]
<1>0. MaxPerBlock \in Nat   BY ConstantTypes
<1>1. <<>> \in Blocks
  <2>1. <<>> \in [1 .. 0 -> Events]   OBVIOUS
  <2> QED BY <1>0, <2>1 DEF Blocks
<1>2. ASSUME NEW b \in Blocks
      PROVE  /\ b \in Seq(Events) /\ Len(b) \in 0 .. MaxPerBlock
             /\ DOMAIN b = 1 .. Len(b) /\ \A i \in 1 .. Len(b) : b[i] \in Events
  <2>1. PICK n \in 0 .. MaxPerBlock : b \in [1 .. n -> Events]   BY DEF Blocks
  <2>2. n \in Nat /\ b \in Seq(Events) /\ Len(b) = n   BY <1>0, <2>1
  <2> QED BY <2>1, <2>2
<1>3. ASSUME NEW b \in Blocks, b # <<>>
      PROVE  /\ Tail(b) \in Blocks /\ Head(b) = b[1] /\ Len(b) \in Nat \ {0}
             /\ Len(Tail(b)) = Len(b) - 1 /\ \A i \in 1 .. Len(b) - 1 : Tail(b)[i] = b[i + 1]
  <2>1. /\ b \in Seq(Events) /\ Len(b) \in Nat \ {0} /\ Len(b) <= MaxPerBlock
    BY <1>0, <1>2, <1>3, EmptySeq
  <2>2. /\ Tail(b) \in Seq(Events) /\ Len(Tail(b)) = Len(b) - 1
        /\ \A i \in 1 .. Len(Tail(b)) : Tail(b)[i] = b[i + 1]
    BY <1>3, <2>1, HeadTailProperties
  <2>3. Len(b) - 1 \in 0 .. MaxPerBlock /\ Tail(b) \in [1 .. Len(b) - 1 -> Events]
    <3>1. PICK t : t = Tail(b)   OBVIOUS
    <3>2. t \in [1 .. Len(t) -> Events] /\ Len(t) = Len(b) - 1   BY <2>2, <3>1, LenProperties
    <3> QED BY <1>0, <2>1, <3>1, <3>2
  <2>4. Tail(b) \in Blocks   BY <2>3 DEF Blocks
  <2> QED BY <2>1, <2>2, <2>4
<1> QED BY <1>1, <1>2, <1>3

LEMMA EventFields ==
    ASSUME NEW e \in Events
    PROVE  e.key \in Keys /\ e.digest \in Digests /\ e = [key |-> e.key, digest |-> e.digest]
BY ConstantTypes DEF Event

LEMMA RangeAppend ==
    ASSUME NEW S, NEW s \in Seq(S), NEW x \in S
    PROVE  Range(Append(s, x)) = Range(s) \cup {x}
<1>1. /\ DOMAIN s = 1 .. Len(s) /\ Len(s) \in Nat /\ DOMAIN Append(s, x) = 1 .. Len(s) + 1
      /\ \A i \in 1 .. Len(s) : Append(s, x)[i] = s[i]
      /\ Append(s, x)[Len(s) + 1] = x
  BY AppendProperties, LenProperties
<1>2. 1 .. Len(s) + 1 = (1 .. Len(s)) \cup {Len(s) + 1}   BY <1>1
<1> QED BY <1>1, <1>2 DEF Range

\* The chain grows, and a reorganisation leaves all but its last blocks alone.
LEMMA ChainStep ==
    ASSUME StateInv, [Next]_vars
    PROVE  /\ chain' \in Seq(Blocks) /\ Len(chain') <= MaxHeight /\ WellFormed(chain')
           /\ Len(chain) <= Len(chain')
           /\ \A m \in 1 .. Len(chain) - ReorgDepth : chain'[m] = chain[m]
<1>0. /\ chain \in Seq(Blocks) /\ Len(chain) \in Nat /\ Len(chain) <= MaxHeight
      /\ WellFormed(chain) /\ ReorgDepth \in Nat /\ MaxHeight \in Nat
  BY ConstantTypes, LenProperties DEF StateInv
<1>1. ASSUME NEW b \in Blocks, Mine(b)
      PROVE  /\ chain' \in Seq(Blocks) /\ Len(chain') <= MaxHeight /\ WellFormed(chain')
             /\ Len(chain) <= Len(chain')
             /\ \A m \in 1 .. Len(chain) - ReorgDepth : chain'[m] = chain[m]
  BY <1>0, <1>1, AppendProperties DEF Mine
<1>2. ASSUME NEW n \in 1 .. ReorgDepth, NEW blocks \in [1 .. n -> Blocks], Reorg(n, blocks)
      PROVE  /\ chain' \in Seq(Blocks) /\ Len(chain') <= MaxHeight /\ WellFormed(chain')
             /\ Len(chain) <= Len(chain')
             /\ \A m \in 1 .. Len(chain) - ReorgDepth : chain'[m] = chain[m]
  <2>1. n \in Nat /\ n <= Len(chain) /\ n <= ReorgDepth   BY <1>0, <1>2 DEF Reorg
  <2>2. blocks \in Seq(Blocks) /\ Len(blocks) = n   BY <2>1
  <2>3. PICK l : l = Len(chain) - n   OBVIOUS
  <2>4. l \in Nat /\ l <= Len(chain) /\ Len(chain) - ReorgDepth <= l   BY <1>0, <2>1, <2>3
  <2>5. PICK kept : kept = SubSeq(chain, 1, l)   OBVIOUS
  <2>6. /\ kept \in Seq(Blocks) /\ Len(kept) = l /\ \A m \in 1 .. l : kept[m] = chain[m]
    <3>1. \A m \in 1 .. l : chain[m] \in Blocks   BY <1>0, <2>4, ElementOfSeq
    <3> QED BY <2>4, <2>5, <3>1, SubSeqProperties
  <2>7. PICK c : c = kept \o blocks   OBVIOUS
  <2>8. /\ c \in Seq(Blocks) /\ Len(c) = l + n
        /\ \A m \in 1 .. l + n : c[m] = IF m <= l THEN kept[m] ELSE blocks[m - l]
    BY <2>2, <2>6, <2>7, ConcatProperties
  <2>9. chain' = c /\ WellFormed(c)   BY <1>2, <2>3, <2>5, <2>7 DEF Reorg
  <2>10. l + n = Len(chain)   BY <1>0, <2>1, <2>3
  <2>11. \A m \in 1 .. Len(chain) - ReorgDepth : m \in 1 .. l /\ m \in 1 .. l + n /\ m <= l
    BY <1>0, <2>1, <2>4
  <2>12. \A m \in 1 .. Len(chain) - ReorgDepth : c[m] = chain[m]
    BY <2>6, <2>8, <2>11
  <2> QED BY <1>0, <2>8, <2>9, <2>10, <2>12
<1>3. ASSUME UNCHANGED chain
      PROVE  /\ chain' \in Seq(Blocks) /\ Len(chain') <= MaxHeight /\ WellFormed(chain')
             /\ Len(chain) <= Len(chain')
             /\ \A m \in 1 .. Len(chain) - ReorgDepth : chain'[m] = chain[m]
  BY <1>0, <1>3 DEF WellFormed
<1>4. \/ \E b \in Blocks : Mine(b)
      \/ \E n \in 1 .. ReorgDepth : \E blocks \in [1 .. n -> Blocks] : Reorg(n, blocks)
      \/ UNCHANGED chain
  BY DEF Next, vars, chainVars, MineSome, Bind, Run, WatcherStep, BlockNumber, FilterLogs, Insert,
         Commit, SetCursor, PollFails, Stop
<1> QED BY <1>1, <1>2, <1>3, <1>4

\* A row is recorded by Insert only.
NewRow ==
    LET e == Head(poll.pending)
    IN  /\ poll.pc = "block" /\ poll.pending # <<>>
        /\ ~Recorded(e) /\ ~DigestTaken(e)
        /\ executions' = Append(executions, RowOf(e, poll.block))

LEMMA RowStep == [Next]_vars => UNCHANGED executions \/ NewRow
BY DEF Next, vars, storeVars, MineSome, Mine, Reorg, Bind, Run, WatcherStep, BlockNumber, FilterLogs,
       Insert, Commit, SetCursor, PollFails, Stop, NewRow, RowOf, At

LEMMA PendingEvent ==
    ASSUME StateInv, poll.pc \in {"block", "commit"}, poll.pending # <<>>
    PROVE  /\ Head(poll.pending) \in Events
           /\ RowOf(Head(poll.pending), poll.block) \in ExecutionRow
<1>1. poll.pending \in Blocks /\ poll.block \in 1 .. MaxHeight
  BY DEF StateInv, PollShape, Down, Idle, Ended
<1>2. Head(poll.pending) \in Events   BY <1>1, BlockTypes
<1> QED BY <1>1, <1>2, EventFields DEF RowOf, ExecutionRow

LEMMA RowsStep ==
    ASSUME StateInv, [Next]_vars
    PROVE  /\ executions' \in Seq(ExecutionRow) /\ Rows \subseteq Rows' /\ RecordedOnce'
           /\ UNCHANGED executions \/ (NewRow /\ Rows' = Rows \cup {RowOf(Head(poll.pending), poll.block)})
<1>0. executions \in Seq(ExecutionRow) /\ RecordedOnce   BY DEF StateInv
<1>1. CASE UNCHANGED executions   BY <1>0, <1>1 DEF Rows, RecordedOnce
<1>2. CASE NewRow
  <2>1. PICK e, row : e = Head(poll.pending) /\ row = RowOf(e, poll.block)   OBVIOUS
  <2>2. row \in ExecutionRow   BY <1>2, <2>1, PendingEvent DEF NewRow
  <2>3. executions' = Append(executions, row) /\ ~Recorded(e) /\ ~DigestTaken(e)
    BY <1>2, <2>1 DEF NewRow
  <2>4. executions' \in Seq(ExecutionRow) /\ Rows' = Rows \cup {row}
    BY <1>0, <2>2, <2>3, AppendProperties, RangeAppend DEF Rows
  <2>5. row.key = e.key /\ row.digest = e.digest   BY <2>1 DEF RowOf
  <2>6. RecordedOnce'   BY <1>0, <2>3, <2>4, <2>5 DEF RecordedOnce, Recorded, DigestTaken
  <2> QED BY <1>2, <2>1, <2>4, <2>6
<1> QED BY <1>1, <1>2, RowStep

-----------------------------------------------------------------------------
(* The poll.                                                               *)

LEMMA PollStep ==
    ASSUME StateInv, [Next]_vars
    PROVE  PollShape' /\ lastBlock' \in 0 .. MaxHeight /\ cursor' \in {NoCursor} \cup 1 .. MaxHeight
<1>0. /\ PollShape /\ lastBlock \in 0 .. MaxHeight /\ cursor \in {NoCursor} \cup 1 .. MaxHeight
      /\ chain \in Seq(Blocks) /\ Len(chain) \in Nat /\ Len(chain) <= MaxHeight
      /\ MaxHeight \in Nat /\ Confirmation \in Nat /\ RescanBlocks \in Nat
  BY ConstantTypes, LenProperties DEF StateInv
<1>1. ASSUME UNCHANGED <<poll, lastBlock, cursor>>
      PROVE  PollShape' /\ lastBlock' \in 0 .. MaxHeight /\ cursor' \in {NoCursor} \cup 1 .. MaxHeight
  BY <1>0, <1>1 DEF PollShape
<1>2. ASSUME poll' \in {Down, Idle, Ended} PROVE PollShape'   BY <1>2 DEF PollShape
<1>3. ASSUME Run PROVE lastBlock' \in 0 .. MaxHeight /\ poll' \in {Idle, Ended} /\ UNCHANGED cursor
  BY <1>0, <1>3, ConstantTypes DEF Run, storeVars, NoCursor
<1>4. ASSUME BlockNumber PROVE PollShape' /\ UNCHANGED <<lastBlock, cursor>>
  <2>1. PICK safe, from : safe = SafeHead(Len(chain)) /\ from = RescanFrom   OBVIOUS
  <2>2. poll' = [pc |-> "filter", block |-> from, to |-> safe] /\ safe > lastBlock
    BY <1>4, <2>1 DEF BlockNumber, Ahead
  <2>3. safe \in Int /\ safe <= Len(chain)   BY <1>0, <2>1 DEF SafeHead
  <2>4. safe \in 1 .. MaxHeight   BY <1>0, <2>2, <2>3
  <2>5. from \in 1 .. MaxHeight /\ from <= safe /\ from <= lastBlock + 1
    BY <1>0, <2>1, <2>2, <2>3, <2>4 DEF RescanFrom
  <2>6. UNCHANGED <<lastBlock, cursor>>   BY <1>4 DEF BlockNumber, storeVars
  <2> QED BY <2>2, <2>4, <2>5, <2>6 DEF PollShape
<1>5. ASSUME FilterLogs PROVE PollShape' /\ UNCHANGED <<lastBlock, cursor>>
  <2>1. PICK b, to : b = poll.block /\ to = poll.to   OBVIOUS
  <2>2. b \in 1 .. MaxHeight /\ to \in 1 .. MaxHeight /\ b <= to /\ b <= lastBlock + 1
    BY <1>0, <1>5, <2>1 DEF FilterLogs, At, PollShape, Down, Idle, Ended
  <2>3. PICK logs : logs = [n \in b .. to |-> EventsOf(chain, n)]   OBVIOUS
  <2>4. \A n \in b .. to : logs[n] \in Blocks
    BY <1>0, <2>2, <2>3, BlockTypes, ElementOfSeq DEF EventsOf
  <2>5. b \in b .. to   BY <1>0, <2>2
  <2>6. poll' = [pc |-> "block", block |-> b, to |-> to, logs |-> logs, pending |-> logs[b]]
    BY <1>5, <2>1, <2>3 DEF FilterLogs
  <2>7. UNCHANGED <<lastBlock, cursor>>   BY <1>5 DEF FilterLogs, storeVars
  <2>8. DOMAIN logs = b .. to   BY <2>3
  <2> QED BY <2>2, <2>4, <2>5, <2>6, <2>7, <2>8 DEF PollShape
<1>6. ASSUME At("block") \/ At("commit")
      PROVE  /\ poll \in [pc : {"block", "commit"}, block : 1 .. MaxHeight, to : 1 .. MaxHeight,
                          logs : {poll.logs}, pending : Blocks]
             /\ poll.block <= poll.to /\ poll.block <= lastBlock + 1
             /\ poll.block .. poll.to \subseteq DOMAIN poll.logs
             /\ \A n \in DOMAIN poll.logs : poll.logs[n] \in Blocks
             /\ poll.pc = "commit" => poll.pending # <<>>
  BY <1>0, <1>6 DEF At, PollShape, Down, Idle, Ended
<1>7. ASSUME Insert PROVE PollShape' /\ UNCHANGED <<lastBlock, cursor>>
  <2>1. CASE poll' = Idle   BY <1>2, <1>7, <2>1 DEF Insert
  <2>2. CASE poll' = [poll EXCEPT !.pc = "commit"]
    <3>1. PICK x : x = [poll EXCEPT !.pc = "commit"]   OBVIOUS
    <3>2. /\ x \in [pc : {"block", "commit"}, block : 1 .. MaxHeight, to : 1 .. MaxHeight,
                    logs : {x.logs}, pending : Blocks]
          /\ x.block = poll.block /\ x.to = poll.to /\ x.logs = poll.logs /\ x.pending = poll.pending
      BY <1>6, <1>7, <3>1 DEF Insert
    <3> QED BY <1>6, <1>7, <2>2, <3>1, <3>2 DEF Insert, PollShape
  <2> QED BY <1>7, <2>1, <2>2 DEF Insert, AfterInsert
<1>8. ASSUME Commit PROVE PollShape' /\ UNCHANGED <<lastBlock, cursor>>
  <2>1. PICK x : x = [poll EXCEPT !.pc = "block", !.pending = Tail(@)]   OBVIOUS
  <2>2. poll.pending \in Blocks /\ poll.pending # <<>>   BY <1>6, <1>8 DEF Commit, At
  <2>3. Tail(poll.pending) \in Blocks   BY <2>2, BlockTypes
  <2>4. /\ x \in [pc : {"block", "commit"}, block : 1 .. MaxHeight, to : 1 .. MaxHeight,
                  logs : {x.logs}, pending : Blocks]
        /\ x.block = poll.block /\ x.to = poll.to /\ x.logs = poll.logs /\ x.pc = "block"
    BY <1>6, <1>8, <2>1, <2>3 DEF Commit
  <2> QED BY <1>6, <1>8, <2>1, <2>4 DEF Commit, PollShape
<1>9. ASSUME SetCursor
      PROVE  PollShape' /\ lastBlock' \in 0 .. MaxHeight /\ cursor' \in 1 .. MaxHeight
  <2>1. PICK n : n = poll.block   OBVIOUS
  <2>2. /\ n \in 1 .. MaxHeight /\ poll.to \in 1 .. MaxHeight /\ n <= poll.to
    BY <1>6, <1>9, <2>1 DEF SetCursor
  <2>3. lastBlock' = n /\ cursor' = n   BY <1>9, <2>1 DEF SetCursor, Done
  <2>4. CASE n = poll.to
    BY <1>0, <1>2, <1>9, <2>1, <2>2, <2>3, <2>4 DEF SetCursor, NextBlock
  <2>5. CASE n # poll.to
    <3>1. PICK x : x = [poll EXCEPT !.block = n + 1, !.pending = poll.logs[n + 1]]   OBVIOUS
    <3>2. n + 1 \in 1 .. MaxHeight /\ n + 1 <= poll.to /\ n + 1 \in poll.block .. poll.to
      BY <1>0, <2>1, <2>2, <2>5
    <3>3. poll.logs[n + 1] \in Blocks   BY <1>6, <1>9, <3>2 DEF SetCursor
    <3>4. /\ x \in [pc : {"block", "commit"}, block : 1 .. MaxHeight, to : 1 .. MaxHeight,
                    logs : {x.logs}, pending : Blocks]
          /\ x.block = n + 1 /\ x.to = poll.to /\ x.logs = poll.logs /\ x.pc = poll.pc
      BY <1>6, <1>9, <3>1, <3>2, <3>3 DEF SetCursor
    <3>5. poll' = x   BY <1>9, <2>1, <2>5, <3>1 DEF SetCursor, NextBlock
    <3>6. x.block .. x.to \subseteq DOMAIN x.logs
      BY <1>6, <1>9, <2>1, <2>2, <3>4 DEF SetCursor
    <3>7. x.pc = "block"   BY <1>9, <3>4 DEF SetCursor, At
    <3>8. \A m \in DOMAIN x.logs : x.logs[m] \in Blocks   BY <1>6, <1>9, <3>4 DEF SetCursor
    <3>9. x.block <= x.to /\ x.block <= lastBlock' + 1   BY <1>0, <2>2, <2>3, <3>2, <3>4
    <3>10. PollShape'   BY <3>4, <3>5, <3>6, <3>7, <3>8, <3>9 DEF PollShape
    <3> QED BY <1>0, <2>2, <2>3, <3>10
  <2> QED BY <1>0, <2>2, <2>3, <2>4, <2>5
<1>10. ASSUME PollFails
       PROVE  PollShape' /\ UNCHANGED lastBlock /\ cursor' \in {NoCursor} \cup 1 .. MaxHeight
  BY <1>0, <1>2, <1>6, <1>10 DEF PollFails, Done
<1>11. ASSUME Stop PROVE PollShape' /\ lastBlock' = 0 /\ UNCHANGED cursor
  BY <1>2, <1>11 DEF Stop, storeVars
<1>12. \/ UNCHANGED <<poll, lastBlock, cursor>>
       \/ Run \/ BlockNumber \/ FilterLogs \/ Insert \/ Commit \/ SetCursor \/ PollFails \/ Stop
  BY DEF Next, vars, storeVars, MineSome, Mine, Reorg, Bind, WatcherStep
<1> QED
  BY <1>0, <1>1, <1>2, <1>3, <1>4, <1>5, <1>7, <1>8, <1>9, <1>10, <1>11, <1>12

LEMMA InitState == Init => StateInv
<1> SUFFICES ASSUME Init PROVE StateInv   OBVIOUS
<1>1. chain \in Seq(Blocks) /\ Len(chain) <= MaxHeight /\ WellFormed(chain)
  BY ConstantTypes DEF Init, WellFormed
<1>2. executions \in Seq(ExecutionRow) /\ RecordedOnce   BY DEF Init, RecordedOnce, Rows, Range
<1> QED BY <1>1, <1>2, ConstantTypes DEF Init, StateInv, PollShape

LEMMA StateStep == StateInv /\ [Next]_vars => StateInv'
<1> SUFFICES ASSUME StateInv, [Next]_vars PROVE StateInv'   OBVIOUS
<1>1. /\ reorgs' = reorgs \/ (reorgs < MaxReorgs /\ reorgs' = reorgs + 1)
      /\ failures' = failures \/ (failures < MaxFailures /\ failures' = failures + 1)
  BY DEF Next, vars, chainVars, MineSome, Mine, Reorg, Bind, Run, WatcherStep, BlockNumber,
         FilterLogs, Insert, Commit, SetCursor, PollFails, Stop
<1>2. reorgs' \in 0 .. MaxReorgs /\ failures' \in 0 .. MaxFailures
  BY <1>1, ConstantTypes DEF StateInv
<1>3. bound' \subseteq Digests /\ committed' \subseteq Digests
  BY DEF StateInv, Next, vars, storeVars, MineSome, Mine, Reorg, Bind, Run, WatcherStep, BlockNumber,
         FilterLogs, Insert, Commit, SetCursor, PollFails, Stop, Matching
<1> QED BY <1>2, <1>3, ChainStep, RowsStep, PollStep DEF StateInv

LEMMA StateAlways == Spec => []StateInv
BY InitState, StateStep, PTL DEF Spec

-----------------------------------------------------------------------------
(* What is settled stays.                                                  *)

LEMMA SettledBlock ==
    ASSUME StateInv, NEW n \in Nat \ {0}, Settled(n)
    PROVE  /\ n \in 1 .. Len(chain) /\ chain[n] \in Blocks /\ EventsOf(chain, n) = chain[n]
           /\ DOMAIN chain[n] = 1 .. Len(chain[n])
<1>1. n \in 1 .. Len(chain)   BY ConstantTypes, LenProperties DEF Settled, StateInv
<1>2. chain[n] \in Blocks   BY <1>1, ElementOfSeq DEF StateInv
<1> QED BY <1>1, <1>2, BlockTypes DEF EventsOf

LEMMA SettledStep ==
    ASSUME StateInv, [Next]_vars
    PROVE  \A n \in Int : Settled(n) => Settled(n)'
<1>1. Len(chain) \in Nat /\ Len(chain') \in Nat /\ Len(chain) <= Len(chain') /\ Confirmation \in Nat
  BY ChainStep, ConstantTypes, LenProperties DEF StateInv
<1> QED BY <1>1 DEF Settled

LEMMA SettledStays ==
    ASSUME StateInv, [Next]_vars, ReorgDepth <= Confirmation, NEW n \in Nat \ {0}, Settled(n)
    PROVE  chain'[n] = chain[n] /\ EventsOf(chain', n) = chain[n]
<1>1. Len(chain) \in Nat /\ Len(chain') \in Nat /\ Len(chain) <= Len(chain')
  BY ChainStep, LenProperties DEF StateInv
<1>2. n \in 1 .. Len(chain) - ReorgDepth /\ n \in 1 .. Len(chain')
  BY <1>1, ConstantTypes DEF Settled
<1>3. chain'[n] = chain[n]   BY <1>2, ChainStep
<1> QED BY <1>2, <1>3 DEF EventsOf

LEMMA RowPlace ==
    ASSUME StateInv, RowsOnChain, RowsSettled, NEW x \in Rows
    PROVE  /\ x \in ExecutionRow /\ x.block \in Nat \ {0} /\ Settled(x.block)
           /\ x.block \in 1 .. Len(chain)
           /\ \E i \in DOMAIN chain[x.block] :
                 chain[x.block][i].key = x.key /\ chain[x.block][i].digest = x.digest
<1>1. x \in ExecutionRow   BY ElementOfSeq, LenProperties DEF StateInv, Rows, Range
<1>2. x.block \in Nat \ {0}   BY <1>1, ConstantTypes DEF ExecutionRow
<1>3. Settled(x.block)   BY DEF RowsSettled
<1>4. x.block \in 1 .. Len(chain) /\ EventsOf(chain, x.block) = chain[x.block]
  BY <1>2, <1>3, SettledBlock
<1>5. PICK e : e = [key |-> x.key, digest |-> x.digest]   OBVIOUS
<1>6. e \in Range(chain[x.block])   BY <1>4, <1>5 DEF RowsOnChain
<1>7. PICK i \in DOMAIN chain[x.block] : chain[x.block][i] = e   BY <1>6 DEF Range
<1> QED BY <1>1, <1>2, <1>3, <1>4, <1>5, <1>7

\* An event that has a row, has its own row: no transaction and no digest is on
\* the chain twice.
LEMMA RecordedRow ==
    ASSUME StateInv, RowsOnChain, RowsSettled,
           NEW m \in 1 .. Len(chain), NEW i \in DOMAIN chain[m],
           Recorded(chain[m][i]) \/ IsRecorded(chain[m][i].digest)
    PROVE  RowOf(chain[m][i], m) \in Rows
<1>1. PICK x \in Rows : x.key = chain[m][i].key \/ x.digest = chain[m][i].digest
  BY DEF Recorded, IsRecorded
<1>2. /\ x \in ExecutionRow /\ x.block \in 1 .. Len(chain)
      /\ \E j \in DOMAIN chain[x.block] :
            chain[x.block][j].key = x.key /\ chain[x.block][j].digest = x.digest
  BY RowPlace
<1>3. PICK j \in DOMAIN chain[x.block] :
         chain[x.block][j].key = x.key /\ chain[x.block][j].digest = x.digest
  BY <1>2
<1>4. m = x.block /\ i = j   BY <1>1, <1>2, <1>3 DEF StateInv, WellFormed
<1>5. x.key = chain[m][i].key /\ x.digest = chain[m][i].digest /\ x.block = m   BY <1>3, <1>4
<1>6. x = RowOf(chain[m][i], m)   BY <1>2, <1>5 DEF RowOf, ExecutionRow
<1> QED BY <1>6

LEMMA RecordedKept ==
    ASSUME StateInv, [Next]_vars, ReorgDepth <= Confirmation, NEW n \in Int,
           RecordedUpTo(n), n <= FirstBlock \/ Settled(n)
    PROVE  RecordedUpTo(n)'
<1>1. SUFFICES ASSUME NEW m \in FirstBlock + 1 .. n, NEW e \in Range(EventsOf(chain', m))
               PROVE  [key |-> e.key, digest |-> e.digest, block |-> m] \in Rows'
  BY DEF RecordedUpTo, FirstBlock
<1>2. m \in Nat \ {0} /\ Settled(m)
  BY ConstantTypes, LenProperties DEF Settled, StateInv
<1>3. EventsOf(chain', m) = chain[m] /\ EventsOf(chain, m) = chain[m]
  BY <1>2, SettledBlock, SettledStays
<1> QED BY <1>3, RowsStep DEF RecordedUpTo

-----------------------------------------------------------------------------
(* The poll and the chain.                                                 *)

\* What a poll that is reading its blocks knows.
LEMMA PollAt ==
    ASSUME StateInv, EvidenceInv, poll.pc \in {"block", "commit"}
    PROVE  /\ poll \in [pc : {"block", "commit"}, block : 1 .. MaxHeight, to : 1 .. MaxHeight,
                        logs : {poll.logs}, pending : Blocks]
           /\ poll.block \in Nat \ {0} /\ poll.to \in Nat \ {0} /\ poll.block <= poll.to
           /\ poll.block <= lastBlock + 1
           /\ \A n \in poll.block .. poll.to : n \in Nat \ {0} /\ Settled(n)
           /\ poll.block \in poll.block .. poll.to
           /\ poll.logs[poll.block] = chain[poll.block]
           /\ Len(chain[poll.block]) \in Nat /\ Len(poll.pending) \in Nat
           /\ DoneEvents \in Nat /\ DoneEvents = Len(chain[poll.block]) - Len(poll.pending)
<1>1. /\ poll \in [pc : {"block", "commit"}, block : 1 .. MaxHeight, to : 1 .. MaxHeight,
                   logs : {poll.logs}, pending : Blocks]
      /\ poll.block <= poll.to /\ poll.block <= lastBlock + 1
  BY DEF StateInv, PollShape, Down, Idle, Ended
<1>2. poll.block \in Nat \ {0} /\ poll.to \in Nat \ {0} /\ poll.block \in poll.block .. poll.to
  BY <1>1, ConstantTypes
<1>3. Settled(poll.to)   BY DEF EvidenceInv, PollReads
<1>4. ASSUME NEW n \in poll.block .. poll.to PROVE n \in Nat \ {0} /\ Settled(n)
  <2>1. n \in Nat \ {0} /\ n <= poll.to   BY <1>2
  <2>2. Confirmation \in Nat /\ Len(chain) \in Nat   BY ConstantTypes, LenProperties DEF StateInv
  <2> QED BY <1>2, <1>3, <2>1, <2>2 DEF Settled
<1>5. poll.logs[poll.block] = chain[poll.block] /\ Len(poll.pending) <= Len(chain[poll.block])
  BY <1>2 DEF EvidenceInv, PollReads
<1>6. chain[poll.block] \in Blocks /\ poll.pending \in Blocks   BY <1>1, <1>2, <1>4, SettledBlock
<1>7. Len(chain[poll.block]) \in Nat /\ Len(poll.pending) \in Nat
  BY <1>6, BlockTypes, ConstantTypes
<1>8. DoneEvents \in Nat /\ DoneEvents = Len(chain[poll.block]) - Len(poll.pending)
  BY <1>5, <1>7 DEF DoneEvents
<1> QED BY <1>1, <1>2, <1>4, <1>5, <1>7, <1>8

\* The event that is looked at is on the chain.
LEMMA PendingOnChain ==
    ASSUME StateInv, EvidenceInv, poll.pc \in {"block", "commit"}, poll.pending # <<>>
    PROVE  /\ DoneEvents + 1 \in DOMAIN chain[poll.block]
           /\ Head(poll.pending) = chain[poll.block][DoneEvents + 1]
           /\ poll.block \in 1 .. Len(chain)
<1>1. poll.pending \in Blocks /\ Len(poll.pending) \in Nat \ {0} /\ Head(poll.pending) = poll.pending[1]
  BY PollAt, BlockTypes
<1>2. poll.pending[1] = chain[poll.block][DoneEvents + 1]
  BY <1>1 DEF EvidenceInv, PollReads
<1>3. poll.block \in 1 .. Len(chain) /\ DOMAIN chain[poll.block] = 1 .. Len(chain[poll.block])
  BY PollAt, SettledBlock
<1>4. PICK l, k, q : l = Len(chain[poll.block]) /\ k = DoneEvents /\ q = Len(poll.pending)   OBVIOUS
<1>5. l \in Nat /\ k \in Nat /\ q \in Nat \ {0} /\ k = l - q   BY <1>1, <1>4, PollAt
<1>6. k + 1 \in 1 .. l   BY <1>5
<1> QED BY <1>1, <1>2, <1>3, <1>4, <1>6

LEMMA RowsOnChainStep ==
    ASSUME StateInv, EvidenceInv, [Next]_vars, ReorgDepth <= Confirmation
    PROVE  RowsSettled' /\ RowsOnChain'
<1>0. RowsSettled /\ RowsOnChain   BY DEF EvidenceInv
<1>1. ASSUME NEW x \in Rows
      PROVE  /\ Settled(x.block)'
             /\ [key |-> x.key, digest |-> x.digest] \in Range(EventsOf(chain', x.block))
  <2>1. x.block \in Nat \ {0} /\ Settled(x.block)   BY <1>0, RowPlace
  <2>2. EventsOf(chain', x.block) = chain[x.block] /\ EventsOf(chain, x.block) = chain[x.block]
    BY <2>1, SettledBlock, SettledStays
  <2>3. PICK n : n = x.block   OBVIOUS
  <2>4. Settled(n)'   BY <2>1, <2>3, SettledStep
  <2> QED BY <1>0, <2>2, <2>3, <2>4 DEF RowsOnChain, Settled
<1>2. CASE UNCHANGED executions
  <2>1. Rows' = Rows   BY <1>2 DEF Rows
  <2> QED BY <1>1, <2>1 DEF RowsSettled, RowsOnChain, Settled
<1>3. CASE NewRow /\ Rows' = Rows \cup {RowOf(Head(poll.pending), poll.block)}
  <2>1. PICK e, n, row : e = Head(poll.pending) /\ n = poll.block /\ row = RowOf(e, n)   OBVIOUS
  <2>2. row.key = e.key /\ row.digest = e.digest /\ row.block = n   BY <2>1 DEF RowOf
  <2>3. poll.pc = "block" /\ poll.pending # <<>>   BY <1>3 DEF NewRow
  <2>4. n \in Nat \ {0} /\ Settled(n)   BY <2>1, <2>3, PollAt
  <2>5. EventsOf(chain', n) = chain[n] /\ Settled(n)'   BY <2>4, SettledStays, SettledStep
  <2>6. e \in Range(chain[n])   BY <2>1, <2>3, PendingOnChain DEF Range
  <2>7. e \in Events   BY <2>1, <2>3, PendingEvent
  <2>8. [key |-> e.key, digest |-> e.digest] = e   BY <2>7, EventFields
  <2>9. /\ Settled(row.block)'
        /\ [key |-> row.key, digest |-> row.digest] \in Range(EventsOf(chain', row.block))
    BY <2>2, <2>5, <2>6, <2>8 DEF Settled
  <2>10. Rows' = Rows \cup {row}   BY <1>3, <2>1
  <2> QED BY <1>1, <2>9, <2>10 DEF RowsSettled, RowsOnChain, Settled
<1> QED BY <1>2, <1>3, RowsStep

\* A block whose events are not pending any more is recorded.
LEMMA BlockDone ==
    ASSUME StateInv, EvidenceInv, poll.pc = "block", poll.pending = <<>>
    PROVE  RecordedUpTo(poll.block)
<1>1. SUFFICES ASSUME NEW m \in FirstBlock + 1 .. poll.block, NEW e \in Range(EventsOf(chain, m))
               PROVE  [key |-> e.key, digest |-> e.digest, block |-> m] \in Rows
  BY DEF RecordedUpTo
<1>2. lastBlock \in Nat /\ FirstBlock \in Nat /\ poll.block \in Nat /\ poll.block <= lastBlock + 1
  BY PollAt, ConstantTypes DEF StateInv
<1>3. CASE m <= lastBlock
  BY <1>2, <1>3 DEF EvidenceInv, CursorSound, RecordedUpTo
<1>4. CASE m = poll.block
  <2>1. EventsOf(chain, m) = chain[m] /\ DOMAIN chain[m] = 1 .. Len(chain[m])
    BY <1>4, PollAt, SettledBlock
  <2>2. DoneEvents = Len(chain[m])   BY <1>4, PollAt
  <2>3. PICK i \in 1 .. Len(chain[m]) : e = chain[m][i]   BY <2>1 DEF Range
  <2>4. RowOf(chain[m][i], m) \in Rows   BY <1>4, <2>2, <2>3 DEF EvidenceInv, PollReads
  <2> QED BY <2>3, <2>4 DEF RowOf
<1> QED BY <1>2, <1>3, <1>4

\* Insert records the event that is looked at, in this or in an earlier poll.
LEMMA InsertRecords ==
    ASSUME StateInv, EvidenceInv, [Next]_vars, Insert
    PROVE  /\ RowOf(Head(poll.pending), poll.block) \in Rows'
           /\ poll' = [poll EXCEPT !.pc = "commit"]
<1>0. poll.pc = "block" /\ poll.pending # <<>> /\ RowsSettled /\ RowsOnChain
  BY DEF Insert, At, EvidenceInv
<1>1. PICK e, n, i : e = Head(poll.pending) /\ n = poll.block /\ i = DoneEvents + 1   OBVIOUS
<1>2. n \in 1 .. Len(chain) /\ i \in DOMAIN chain[n] /\ e = chain[n][i]
  BY <1>0, <1>1, PendingOnChain
<1>3. Recorded(e) \/ IsRecorded(e.digest) => RowOf(e, n) \in Rows   BY <1>0, <1>2, RecordedRow
<1>4. DigestTaken(e) => Recorded(e)
  <2>1. SUFFICES ASSUME DigestTaken(e) PROVE Recorded(e)   OBVIOUS
  <2>2. RowOf(e, n) \in Rows   BY <1>3, <2>1 DEF DigestTaken, IsRecorded
  <2>3. RowOf(e, n).key = e.key   BY DEF RowOf
  <2> QED BY <2>2, <2>3 DEF Recorded
<1>5. CASE Recorded(e) /\ poll' = AfterInsert(e)
  <2>1. RowOf(e, n) \in Rows'   BY <1>3, <1>5, RowsStep
  <2> QED BY <1>1, <1>5, <2>1 DEF AfterInsert
<1>6. CASE ~Recorded(e) /\ poll' = AfterInsert(e) /\ executions' = Append(executions, RowOf(e, n))
  <2>1. executions \in Seq(ExecutionRow) /\ RowOf(e, n) \in ExecutionRow
    BY <1>0, <1>1, PendingEvent DEF StateInv
  <2>2. RowOf(e, n) \in Rows'   BY <1>6, <2>1, RangeAppend DEF Rows
  <2> QED BY <1>1, <1>6, <2>2 DEF AfterInsert
<1> QED BY <1>1, <1>4, <1>5, <1>6 DEF Insert, RowOf

\* The poll that is not changed still reads the blocks as they are.
LEMMA PollReadsKept ==
    ASSUME StateInv, EvidenceInv, [Next]_vars, ReorgDepth <= Confirmation, UNCHANGED poll
    PROVE  PollReads'
<1>0. PollReads   BY DEF EvidenceInv
<1>1. ASSUME poll.pc \in {"filter", "block", "commit"} PROVE Settled(poll.to)'
  <2>1. PICK n : n = poll.to   OBVIOUS
  <2>2. n \in Int   BY <1>1, <2>1, ConstantTypes DEF StateInv, PollShape, Down, Idle, Ended
  <2>3. Settled(n)'   BY <1>0, <1>1, <2>1, <2>2, SettledStep DEF PollReads
  <2> QED BY <2>1, <2>3 DEF Settled
<1>2. ASSUME poll.pc \in {"block", "commit"}
      PROVE  /\ \A n \in poll.block .. poll.to : poll.logs[n] = chain'[n]
             /\ Len(poll.pending) <= Len(chain'[poll.block])
             /\ \A i \in 1 .. Len(poll.pending) :
                   poll.pending[i] = chain'[poll.block][DoneEvents + i]
             /\ \A i \in 1 .. DoneEvents : RowOf(chain'[poll.block][i], poll.block) \in Rows'
  <2>1. \A n \in poll.block .. poll.to : chain'[n] = chain[n]   BY <1>2, PollAt, SettledStays
  <2>2. chain'[poll.block] = chain[poll.block]   BY <1>2, <2>1, PollAt
  <2> QED BY <1>0, <1>2, <2>1, <2>2, RowsStep DEF PollReads
<1>3. poll.pc = "commit" => RowOf(Head(poll.pending), poll.block) \in Rows'
  BY <1>0, RowsStep DEF PollReads
<1> QED BY <1>1, <1>2, <1>3 DEF PollReads, DoneEvents, Settled

LEMMA PollReadsStep ==
    ASSUME StateInv, EvidenceInv, [Next]_vars, ReorgDepth <= Confirmation
    PROVE  PollReads'
<1>0. PollReads   BY DEF EvidenceInv
<1>1. ASSUME poll' \in {Down, Idle, Ended} PROVE PollReads'   BY <1>1 DEF PollReads, Down, Idle, Ended
<1>2. ASSUME BlockNumber PROVE PollReads'
  <2>1. PICK safe : safe = SafeHead(Len(chain))   OBVIOUS
  <2>2. /\ poll' = [pc |-> "filter", block |-> RescanFrom, to |-> safe] /\ safe > lastBlock
        /\ UNCHANGED chain
    BY <1>2, <2>1 DEF BlockNumber, Ahead, chainVars
  <2>3. Settled(safe)
    BY <2>1, <2>2, ConstantTypes, LenProperties DEF Settled, SafeHead, StateInv
  <2>4. poll'.pc = "filter" /\ poll'.to = safe   BY <2>2
  <2> QED BY <2>2, <2>3, <2>4 DEF PollReads, Settled
<1>3. ASSUME FilterLogs PROVE PollReads'
  <2>1. PICK b, to : b = poll.block /\ to = poll.to   OBVIOUS
  <2>2. /\ b \in Nat \ {0} /\ to \in Nat /\ b <= to
    <3>1. poll.pc = "filter"   BY <1>3 DEF FilterLogs, At
    <3>2. /\ poll \in [pc : {"filter"}, block : 1 .. MaxHeight, to : 1 .. MaxHeight]
          /\ poll.block <= poll.to
      BY <3>1 DEF StateInv, PollShape, Down, Idle, Ended
    <3> QED BY <2>1, <3>2, ConstantTypes
  <2>3. PICK logs : logs = [n \in b .. to |-> EventsOf(chain, n)]   OBVIOUS
  <2>4. Settled(to)   BY <1>0, <1>3, <2>1 DEF PollReads, FilterLogs, At
  <2>5. ASSUME NEW n \in b .. to PROVE logs[n] = chain[n] /\ chain[n] \in Blocks
    <3>1. n \in Nat \ {0} /\ n <= to   BY <2>2
    <3>2. Settled(n)   BY <2>2, <2>4, <3>1, ConstantTypes, LenProperties DEF Settled, StateInv
    <3> QED BY <2>3, <3>1, <3>2, SettledBlock
  <2>6. b \in b .. to   BY <2>2
  <2>7. poll' = [pc |-> "block", block |-> b, to |-> to, logs |-> logs, pending |-> logs[b]]
    BY <1>3, <2>1, <2>3 DEF FilterLogs
  <2>8. /\ poll'.pc = "block" /\ poll'.block = b /\ poll'.to = to /\ poll'.logs = logs
        /\ poll'.pending = chain[b] /\ logs[b] = chain[b] /\ UNCHANGED chain
    BY <1>3, <2>5, <2>6, <2>7 DEF FilterLogs, chainVars
  <2>9. Len(chain[b]) \in Nat   BY <2>5, <2>6, BlockTypes, ConstantTypes
  <2>10. DoneEvents' = 0   BY <2>8, <2>9 DEF DoneEvents
  <2>11. Len(chain[b]) <= Len(chain[b]) /\ \A i \in 1 .. Len(chain[b]) : 0 + i = i   BY <2>9
  <2>12. 1 .. 0 = {}   OBVIOUS
  <2> QED BY <2>4, <2>5, <2>8, <2>10, <2>11, <2>12 DEF PollReads, Settled
<1>4. ASSUME Insert PROVE PollReads'
  <2>1. poll' = [poll EXCEPT !.pc = "commit"] /\ RowOf(Head(poll.pending), poll.block) \in Rows'
    BY <1>4, InsertRecords
  <2>2. poll.pc = "block" /\ UNCHANGED chain   BY <1>4 DEF Insert, At, chainVars
  <2>3. /\ poll'.pc = "commit" /\ poll'.block = poll.block /\ poll'.to = poll.to
        /\ poll'.logs = poll.logs /\ poll'.pending = poll.pending
    BY <2>1, <2>2, PollAt
  <2>4. DoneEvents' = DoneEvents   BY <2>3 DEF DoneEvents
  <2>5. Rows \subseteq Rows'   BY RowsStep
  <2> QED BY <1>0, <2>1, <2>2, <2>3, <2>4, <2>5 DEF PollReads, Settled
<1>5. ASSUME Commit PROVE PollReads'
  <2>1. poll.pc = "commit" /\ UNCHANGED chain /\ Rows' = Rows
    BY <1>5 DEF Commit, At, chainVars, Rows
  <2>2. poll.pending # <<>> /\ poll.pending \in Blocks
    BY <2>1, PollAt DEF StateInv, PollShape, Down, Idle, Ended
  <2>3. /\ poll'.pc = "block" /\ poll'.block = poll.block /\ poll'.to = poll.to
        /\ poll'.logs = poll.logs /\ poll'.pending = Tail(poll.pending)
    <3>1. poll' = [poll EXCEPT !.pc = "block", !.pending = Tail(@)]   BY <1>5 DEF Commit
    <3> QED BY <2>1, <3>1, PollAt
  <2>4. PICK b, k, q, rest : /\ b = chain[poll.block] /\ k = DoneEvents /\ q = Len(poll.pending)
                             /\ rest = Tail(poll.pending)
    OBVIOUS
  <2>5. /\ q \in Nat \ {0} /\ k \in Nat /\ Len(b) \in Nat /\ k = Len(b) - q
        /\ Len(rest) = q - 1 /\ \A i \in 1 .. q - 1 : rest[i] = poll.pending[i + 1]
    BY <2>1, <2>2, <2>4, PollAt, BlockTypes
  <2>6. DoneEvents' = k + 1
    <3>1. poll.logs[poll.block] = b   BY <2>1, <2>4, PollAt
    <3>2. DoneEvents' = Len(b) - Len(rest)   BY <2>3, <2>4, <3>1 DEF DoneEvents
    <3> QED BY <2>5, <3>2
  <2>7. \A i \in 1 .. q : poll.pending[i] = b[k + i]   BY <1>0, <2>1, <2>4 DEF PollReads
  <2>8. ASSUME NEW i \in 1 .. Len(rest) PROVE rest[i] = b[(k + 1) + i]
    <3>1. i \in 1 .. q - 1 /\ i + 1 \in 1 .. q /\ k + (i + 1) = (k + 1) + i   BY <2>5
    <3> QED BY <2>5, <2>7, <3>1
  <2>9. ASSUME NEW i \in 1 .. k + 1 PROVE RowOf(b[i], poll.block) \in Rows
    <3>1. CASE i \in 1 .. k   BY <1>0, <2>1, <2>4, <3>1 DEF PollReads
    <3>2. CASE i = k + 1
      BY <1>0, <2>1, <2>2, <2>4, <3>2, PendingOnChain DEF PollReads
    <3>3. k \in Nat   BY <2>5
    <3>4. i \in 1 .. k \/ i = k + 1   BY <3>3
    <3> QED BY <3>1, <3>2, <3>4
  <2>10. Len(rest) <= Len(b)   BY <2>5
  <2> QED BY <1>0, <2>1, <2>3, <2>4, <2>6, <2>8, <2>9, <2>10 DEF PollReads, Settled
<1>6. ASSUME SetCursor PROVE PollReads'
  <2>1. poll.pc = "block" /\ UNCHANGED chain   BY <1>6 DEF SetCursor, At, chainVars
  <2>2. PICK n : n = poll.block   OBVIOUS
  <2>3. CASE n = poll.to   BY <1>1, <1>6, <2>2, <2>3 DEF SetCursor, NextBlock
  <2>4. CASE n # poll.to
    <3>1. poll' = [poll EXCEPT !.block = n + 1, !.pending = poll.logs[n + 1]]
      BY <1>6, <2>2, <2>4 DEF SetCursor, NextBlock
    <3>2. /\ poll'.pc = "block" /\ poll'.block = n + 1 /\ poll'.to = poll.to
          /\ poll'.logs = poll.logs /\ poll'.pending = poll.logs[n + 1]
      BY <2>1, <3>1, PollAt
    <3>3. n \in Nat /\ poll.to \in Nat /\ n <= poll.to   BY <2>1, <2>2, PollAt
    <3>4. n + 1 \in poll.block .. poll.to /\ n + 1 .. poll.to \subseteq poll.block .. poll.to
      BY <2>2, <2>4, <3>3
    <3>5. \A m \in poll.block .. poll.to : poll.logs[m] = chain[m]
      BY <1>0, <2>1 DEF PollReads
    <3>6. poll.logs[n + 1] = chain[n + 1] /\ chain[n + 1] \in Blocks
      BY <2>1, <3>4, <3>5, PollAt, SettledBlock
    <3>7. Len(chain[n + 1]) \in Nat   BY <3>6, BlockTypes, ConstantTypes
    <3>8. DoneEvents' = 0   BY <3>2, <3>6, <3>7 DEF DoneEvents
    <3>9. Len(chain[n + 1]) <= Len(chain[n + 1]) /\ \A i \in 1 .. Len(chain[n + 1]) : 0 + i = i
      BY <3>7
    <3>10. 1 .. 0 = {}   OBVIOUS
    <3>11. Settled(poll.to)   BY <1>0, <2>1 DEF PollReads
    <3>12. \A m \in n + 1 .. poll.to : poll.logs[m] = chain[m]   BY <3>4, <3>5
    <3> QED BY <2>1, <3>2, <3>6, <3>8, <3>9, <3>10, <3>11, <3>12 DEF PollReads, Settled
  <2> QED BY <2>3, <2>4
<1>7. \/ UNCHANGED poll \/ poll' \in {Down, Idle, Ended}
      \/ BlockNumber \/ FilterLogs \/ Insert \/ Commit \/ SetCursor
  BY DEF Next, vars, MineSome, Mine, Reorg, Bind, WatcherStep, Run, PollFails, Stop
<1> QED BY <1>1, <1>2, <1>3, <1>4, <1>5, <1>6, <1>7, PollReadsKept

-----------------------------------------------------------------------------
(* The cursor and the reservations.                                        *)

BlockIsDone == poll.pc = "block" /\ poll.pending = <<>>

CursorStep ==
    /\ \/ UNCHANGED cursor
       \/ BlockIsDone /\ cursor' = poll.block
    /\ \/ lastBlock' \in {lastBlock, 0, FirstBlock}
       \/ cursor # NoCursor /\ lastBlock' = cursor
       \/ BlockIsDone /\ lastBlock' = poll.block

LEMMA CursorChange == [Next]_vars => CursorStep
BY DEF Next, vars, storeVars, MineSome, Mine, Reorg, Bind, WatcherStep, BlockNumber, FilterLogs,
       Insert, Commit, SetCursor, Run, PollFails, Stop, CursorStep, BlockIsDone, Done, At

\* Everything up to n is recorded and stays so.
Sound(n) == n \in Int /\ RecordedUpTo(n) /\ (n <= FirstBlock \/ Settled(n))

LEMMA CursorsSound ==
    ASSUME StateInv, EvidenceInv
    PROVE  /\ Sound(cursor) /\ Sound(lastBlock) /\ Sound(0) /\ Sound(FirstBlock)
           /\ BlockIsDone => Sound(poll.block) /\ Settled(poll.block)
<1>0. FirstBlock \in Nat   BY ConstantTypes
<1>1. ASSUME NEW n \in Int, n <= FirstBlock PROVE RecordedUpTo(n)
  <2>1. FirstBlock + 1 .. n = {}   BY <1>0, <1>1
  <2> QED BY <2>1 DEF RecordedUpTo
<1>2. Sound(0) /\ Sound(FirstBlock)   BY <1>0, <1>1 DEF Sound
<1>3. cursor \in Int /\ lastBlock \in Int /\ (cursor = NoCursor => cursor <= FirstBlock)
  BY <1>0, ConstantTypes DEF StateInv, NoCursor
<1>4. Sound(cursor) /\ Sound(lastBlock)
  BY <1>0, <1>3 DEF Sound, EvidenceInv, CursorSound, CursorsOK
<1>5. ASSUME BlockIsDone PROVE Sound(poll.block) /\ Settled(poll.block)
  BY <1>5, BlockDone, PollAt DEF BlockIsDone, Sound
<1> QED BY <1>2, <1>4, <1>5

LEMMA CursorsStep ==
    ASSUME StateInv, EvidenceInv, [Next]_vars, ReorgDepth <= Confirmation
    PROVE  CursorsOK' /\ CursorSound'
<1>0. CursorStep /\ CursorsOK   BY CursorChange DEF EvidenceInv
<1>1. ASSUME NEW n, Sound(n) PROVE RecordedUpTo(n)' /\ (Settled(n) => Settled(n)')
  BY <1>1, RecordedKept, SettledStep DEF Sound
<1>2. PICK c, l : c = cursor' /\ l = lastBlock'   OBVIOUS
<1>3. Sound(c) /\ Sound(l)   BY <1>0, <1>2, CursorsSound DEF CursorStep
<1>4. RecordedUpTo(c)' /\ RecordedUpTo(l)'   BY <1>1, <1>3
<1>5. c = NoCursor \/ Settled(c)   BY <1>0, <1>2, CursorsSound DEF CursorStep, CursorsOK
<1>6. l \in {0, FirstBlock} \/ Settled(l)
  BY <1>0, <1>2, CursorsSound DEF CursorStep, CursorsOK
<1>7. (c = NoCursor \/ Settled(c)') /\ (l \in {0, FirstBlock} \/ Settled(l)')
  BY <1>1, <1>3, <1>5, <1>6
<1>8. CursorSound'   BY <1>2, <1>4 DEF CursorSound, RecordedUpTo
<1>9. CursorsOK'   BY <1>2, <1>7 DEF CursorsOK, Settled, FirstBlock
<1> QED BY <1>8, <1>9

LEMMA CommittedStep ==
    ASSUME StateInv, EvidenceInv, [Next]_vars
    PROVE  \A d \in committed' : IsRecorded(d)'
<1>1. ASSUME NEW d, IsRecorded(d) PROVE IsRecorded(d)'   BY <1>1, RowsStep DEF IsRecorded
<1>2. ASSUME Commit, NEW d \in committed' PROVE d \in committed \/ IsRecorded(d)
  <2>1. PICK e, row : e = Head(poll.pending) /\ row = RowOf(e, poll.block)   OBVIOUS
  <2>2. d \in committed \/ d = e.digest   BY <1>2, <2>1 DEF Commit, Matching
  <2>3. row \in Rows /\ row.digest = e.digest
    BY <1>2, <2>1 DEF Commit, At, EvidenceInv, PollReads, RowOf
  <2> QED BY <2>2, <2>3 DEF IsRecorded
<1>3. Commit \/ UNCHANGED committed
  BY DEF Next, vars, storeVars, MineSome, Mine, Reorg, Bind, WatcherStep, BlockNumber, FilterLogs,
         Insert, SetCursor, Run, PollFails, Stop
<1> QED BY <1>1, <1>2, <1>3 DEF EvidenceInv

LEMMA InitEvidence == Init => EvidenceInv
<1> SUFFICES ASSUME Init PROVE EvidenceInv   OBVIOUS
<1>1. Rows = {} /\ \A n : EventsOf(chain, n) = <<>>   BY DEF Init, Rows, Range, EventsOf
<1>2. Range(<<>>) = {}   BY DEF Range
<1>3. CursorSound   BY <1>1, <1>2 DEF CursorSound, RecordedUpTo
<1>4. PollReads   BY DEF Init, PollReads, Down
<1> QED BY <1>1, <1>3, <1>4 DEF Init, EvidenceInv, CursorsOK, RowsSettled, RowsOnChain

LEMMA EvidenceStep ==
    ASSUME ReorgDepth <= Confirmation
    PROVE  StateInv /\ EvidenceInv /\ [Next]_vars => EvidenceInv'
BY CursorsStep, RowsOnChainStep, PollReadsStep, CommittedStep DEF EvidenceInv

LEMMA EvidenceAlways ==
    ASSUME ReorgDepth <= Confirmation
    PROVE  Spec => []EvidenceInv
BY InitEvidence, EvidenceStep, StateAlways, PTL DEF Spec

-----------------------------------------------------------------------------
(* The order of the rows.                                                  *)

\* Where a poll is.
PlaceStep ==
    /\ \/ poll' \in {Down, Ended}
       \/ poll \notin {Down, Ended} /\ UNCHANGED lastBlock
       \/ lastBlock' = FirstBlock
       \/ cursor # NoCursor /\ lastBlock' = cursor
       \/ BlockIsDone /\ lastBlock' = poll.block
    /\ \/ poll' \in {Down, Idle, Ended}
       \/ poll \notin {Down, Idle, Ended} /\ poll'.block \in {poll.block, poll.block + 1}
       \/ poll = Idle /\ poll'.block = RescanFrom

LEMMA PlaceChange == StateInv /\ [Next]_vars => PlaceStep
<1> SUFFICES ASSUME StateInv, [Next]_vars PROVE PlaceStep   OBVIOUS
<1>0. PollShape   BY DEF StateInv
<1>1. poll.pc = "down" <=> poll = Down   BY <1>0 DEF PollShape, Down, Idle, Ended
<1>2. /\ poll.pc = "idle" <=> poll = Idle
      /\ poll.pc = "ended" <=> poll = Ended
  BY <1>0 DEF PollShape, Down, Idle, Ended
<1>3. ASSUME poll.pc \in {"block", "commit"}
      PROVE  poll \in [pc : {"block", "commit"}, block : 1 .. MaxHeight, to : 1 .. MaxHeight,
                       logs : {poll.logs}, pending : Blocks]
  BY <1>0, <1>3 DEF PollShape, Down, Idle, Ended
<1>4. ASSUME UNCHANGED <<poll, lastBlock>> PROVE PlaceStep   BY <1>4 DEF PlaceStep
<1>5. ASSUME Run PROVE PlaceStep   BY <1>5 DEF Run, PlaceStep
<1>6. ASSUME BlockNumber PROVE PlaceStep
  BY <1>1, <1>2, <1>6 DEF BlockNumber, PlaceStep, At
<1>7. ASSUME FilterLogs PROVE PlaceStep
  <2>1. poll \notin {Down, Idle, Ended}   BY <1>7 DEF FilterLogs, At, Down, Idle, Ended
  <2>2. poll'.block = poll.block   BY <1>7 DEF FilterLogs
  <2> QED BY <1>7, <2>1, <2>2 DEF FilterLogs, PlaceStep
<1>8. ASSUME Insert PROVE PlaceStep
  <2>1. poll \notin {Down, Idle, Ended}   BY <1>8 DEF Insert, At, Down, Idle, Ended
  <2>2. poll' = Idle \/ poll' = [poll EXCEPT !.pc = "commit"]   BY <1>8 DEF Insert, AfterInsert
  <2>3. poll' = Idle \/ poll'.block = poll.block   BY <1>3, <1>8, <2>2 DEF Insert, At
  <2> QED BY <1>8, <2>1, <2>3 DEF Insert, PlaceStep
<1>9. ASSUME Commit PROVE PlaceStep
  <2>1. poll \notin {Down, Idle, Ended}   BY <1>9 DEF Commit, At, Down, Idle, Ended
  <2>2. poll'.block = poll.block   BY <1>3, <1>9 DEF Commit, At
  <2> QED BY <1>9, <2>1, <2>2 DEF Commit, PlaceStep
<1>10. ASSUME SetCursor PROVE PlaceStep
  <2>1. poll \notin {Down, Idle, Ended}   BY <1>10 DEF SetCursor, At, Down, Idle, Ended
  <2>2. poll' = Idle \/ poll'.block = poll.block + 1
    BY <1>3, <1>10 DEF SetCursor, NextBlock, At
  <2> QED BY <1>10, <2>1, <2>2 DEF SetCursor, PlaceStep, BlockIsDone, At
<1>11. ASSUME PollFails \/ Stop PROVE PlaceStep
  BY <1>1, <1>2, <1>11 DEF PollFails, Stop, PlaceStep, Polling, At, Down, Idle, Ended
<1> QED
  BY <1>4, <1>5, <1>6, <1>7, <1>8, <1>9, <1>10, <1>11
  DEF Next, vars, MineSome, Mine, Reorg, Bind, WatcherStep

LEMMA FromStartStep ==
    ASSUME StateInv, EvidenceInv, FromStart, [Next]_vars, StartBlock <= 1 \/ RescanBlocks = 0
    PROVE  FromStart'
<1>0. /\ CursorStep /\ PlaceStep /\ FirstBlock \in Nat /\ lastBlock \in Nat
      /\ cursor \in {NoCursor} \cup 1 .. MaxHeight /\ MaxHeight \in Nat
  BY CursorChange, PlaceChange, ConstantTypes DEF StateInv
<1>1. BlockIsDone => poll.block > FirstBlock /\ poll.block \in Nat
  BY PollAt DEF FromStart, BlockIsDone, Down, Idle, Ended
<1>2. cursor' = NoCursor \/ cursor' >= FirstBlock
  BY <1>0, <1>1 DEF CursorStep, FromStart
<1>3. poll' \notin {Down, Ended} => lastBlock' >= FirstBlock
  BY <1>0, <1>1 DEF PlaceStep, FromStart
<1>4. poll = Idle => RescanFrom > FirstBlock
  <2>1. SUFFICES ASSUME poll = Idle PROVE RescanFrom > FirstBlock   OBVIOUS
  <2>2. lastBlock >= FirstBlock   BY <2>1 DEF FromStart, Down, Idle, Ended
  <2>3. CASE RescanBlocks = 0   BY <1>0, <2>2, <2>3 DEF RescanFrom
  <2>4. CASE StartBlock <= 1
    <3>1. FirstBlock = 0   BY <2>4, ConstantTypes DEF FirstBlock
    <3> QED BY <1>0, <3>1, ConstantTypes DEF RescanFrom
  <2> QED BY <2>3, <2>4
<1>5. poll \notin {Down, Idle, Ended} => poll.block \in Nat
  BY <1>0 DEF StateInv, PollShape
<1>6. poll' \notin {Down, Idle, Ended} => poll'.block > FirstBlock
  BY <1>0, <1>4, <1>5 DEF PlaceStep, FromStart
<1>7. \A x \in Rows' : x.block > FirstBlock
  <2>1. CASE UNCHANGED executions   BY <2>1 DEF Rows, FromStart
  <2>2. CASE NewRow /\ Rows' = Rows \cup {RowOf(Head(poll.pending), poll.block)}
    <3>1. poll.block > FirstBlock   BY <2>2 DEF NewRow, FromStart, Down, Idle, Ended
    <3>2. RowOf(Head(poll.pending), poll.block).block = poll.block   BY DEF RowOf
    <3> QED BY <2>2, <3>1, <3>2 DEF FromStart
  <2> QED BY <2>1, <2>2, RowsStep
<1> QED BY <1>2, <1>3, <1>6, <1>7 DEF FromStart, FirstBlock

\* The row that a step adds, its place, and what is recorded before it.
LEMMA NewRowPlace ==
    ASSUME StateInv, EvidenceInv, NewRow, NEW row, row = RowOf(Head(poll.pending), poll.block)
    PROVE  /\ row.block = poll.block /\ poll.block \in Nat \ {0} /\ Settled(poll.block)
           /\ poll.block \in 1 .. Len(chain)
           /\ DoneEvents \in Nat /\ DoneEvents + 1 \in DOMAIN chain[poll.block]
           /\ row = RowOf(chain[poll.block][DoneEvents + 1], poll.block)
           /\ chain[poll.block][DoneEvents + 1].key = row.key
           /\ row \notin Rows
           /\ \A j \in DOMAIN chain[poll.block] :
                 chain[poll.block][j].key = row.key => j = DoneEvents + 1
           /\ \A m \in FirstBlock + 1 .. poll.block : \A i \in DOMAIN chain[m] :
                 m < poll.block \/ i <= DoneEvents => RowOf(chain[m][i], m) \in Rows
<1>0. poll.pc = "block" /\ poll.pending # <<>>   BY DEF NewRow
<1>1. PICK b, k, e : b = poll.block /\ k = DoneEvents /\ e = Head(poll.pending)   OBVIOUS
<1>2. /\ b \in Nat \ {0} /\ Settled(b) /\ k \in Nat /\ b <= lastBlock + 1
      /\ b \in 1 .. Len(chain) /\ k + 1 \in DOMAIN chain[b] /\ e = chain[b][k + 1]
  BY <1>0, <1>1, PollAt, PendingOnChain
<1>3. row.block = b /\ row.key = e.key   BY <1>1 DEF RowOf
<1>4. row \notin Rows   BY <1>1, <1>3 DEF NewRow, Recorded
<1>5. \A j \in DOMAIN chain[b] : chain[b][j].key = row.key => j = k + 1
  BY <1>2, <1>3 DEF StateInv, WellFormed
<1>6. ASSUME NEW m \in FirstBlock + 1 .. b, NEW i \in DOMAIN chain[m], m < b \/ i <= k
      PROVE  RowOf(chain[m][i], m) \in Rows
  <2>0. lastBlock \in Nat /\ FirstBlock \in Nat   BY ConstantTypes DEF StateInv
  <2>1. CASE m < b
    <3>1. m \in Nat \ {0} /\ m \in FirstBlock + 1 .. lastBlock   BY <1>2, <2>0, <2>1
    <3>2. Settled(m)
      <4>1. Len(chain) \in Nat   BY LenProperties DEF StateInv
      <4>2. m <= b /\ m \in Nat /\ b \in Nat   BY <1>2, <2>1, <3>1
      <4> QED BY <1>2, <4>1, <4>2, ConstantTypes DEF Settled
    <3>3. EventsOf(chain, m) = chain[m]   BY <3>1, <3>2, SettledBlock
    <3>4. chain[m][i] \in Range(EventsOf(chain, m))   BY <3>3 DEF Range
    <3> QED BY <3>1, <3>4 DEF EvidenceInv, CursorSound, RecordedUpTo, RowOf
  <2>2. CASE m = b /\ i <= k
    <3>1. i \in 1 .. k   BY <1>2, <2>2, SettledBlock
    <3> QED BY <1>0, <1>1, <2>2, <3>1 DEF EvidenceInv, PollReads
  <2> QED BY <1>2, <1>6, <2>0, <2>1, <2>2
<1> QED BY <1>1, <1>2, <1>3, <1>4, <1>5, <1>6

LEMMA NoGapStep ==
    ASSUME StateInv, EvidenceInv, NoGap, [Next]_vars, ReorgDepth <= Confirmation
    PROVE  NoGap'
<1>0. RowsOnChain /\ RowsSettled /\ RowsOnChain' /\ RowsSettled' /\ StateInv'
  BY RowsOnChainStep, StateStep DEF EvidenceInv
<1>1. ASSUME NEW n \in Nat, Settled(n), NEW m \in FirstBlock + 1 .. n
      PROVE  m \in Nat \ {0} /\ chain'[m] = chain[m] /\ chain[m] \in Blocks
             /\ DOMAIN chain[m] = 1 .. Len(chain[m]) /\ Len(chain[m]) \in Nat
  <2>1. m \in Nat \ {0} /\ m <= n   BY ConstantTypes
  <2>2. Settled(m)   BY <1>1, <2>1, ConstantTypes, LenProperties DEF Settled, StateInv
  <2> QED BY <2>1, <2>2, SettledStays, SettledBlock, BlockTypes, ConstantTypes
<1>2. ASSUME NEW x \in Rows, NEW m \in FirstBlock + 1 .. x.block, NEW i \in DOMAIN chain'[m]
      PROVE  \/ RowOf(chain'[m][i], m) \in Rows'
             \/ m = x.block /\ \A j \in DOMAIN chain'[m] : chain'[m][j].key = x.key => j < i
  <2>1. chain'[m] = chain[m]   BY <1>0, <1>1, RowPlace
  <2> QED BY <2>1, RowsStep DEF NoGap
<1>3. CASE UNCHANGED executions
  <2>1. Rows' = Rows   BY <1>3 DEF Rows
  <2> QED BY <1>2, <2>1 DEF NoGap, FirstBlock
<1>4. CASE NewRow /\ Rows' = Rows \cup {RowOf(Head(poll.pending), poll.block)}
  <2>1. PICK row, b, k : /\ row = RowOf(Head(poll.pending), poll.block)
                         /\ b = poll.block /\ k = DoneEvents
    OBVIOUS
  <2>2. /\ row.block = b /\ b \in Nat \ {0} /\ Settled(b) /\ k \in Nat
        /\ row = RowOf(chain[b][k + 1], b)
        /\ \A j \in DOMAIN chain[b] : chain[b][j].key = row.key => j = k + 1
        /\ \A m \in FirstBlock + 1 .. b : \A i \in DOMAIN chain[m] :
              m < b \/ i <= k => RowOf(chain[m][i], m) \in Rows
    BY <1>4, <2>1, NewRowPlace
  <2>3. Rows' = Rows \cup {row}   BY <1>4, <2>1
  <2>4. ASSUME NEW m \in FirstBlock + 1 .. b, NEW i \in DOMAIN chain'[m]
        PROVE  \/ RowOf(chain'[m][i], m) \in Rows'
               \/ m = b /\ \A j \in DOMAIN chain'[m] : chain'[m][j].key = row.key => j < i
    <3>1. chain'[m] = chain[m] /\ i \in Nat /\ m \in Nat   BY <1>1, <2>2
    <3>2. CASE m < b \/ i <= k   BY <2>2, <2>3, <3>1, <3>2
    <3>3. CASE m = b /\ i = k + 1   BY <2>2, <2>3, <3>1, <3>3
    <3>4. CASE m = b /\ i > k + 1   BY <2>2, <3>1, <3>4
    <3>5. m <= b   BY <2>2, ConstantTypes
    <3>6. m < b \/ m = b   BY <2>2, <3>1, <3>5
    <3>7. i <= k \/ i = k + 1 \/ i > k + 1   BY <2>2, <3>1
    <3> QED BY <3>2, <3>3, <3>4, <3>6, <3>7
  <2> QED BY <1>2, <2>2, <2>3, <2>4 DEF NoGap, FirstBlock
<1> QED BY <1>3, <1>4, RowsStep

LEMMA LatestStep ==
    ASSUME StateInv, EvidenceInv, OrderInv, [Next]_vars, ReorgDepth <= Confirmation
    PROVE  ReconciledIsLatest'
<1>0. RowsOnChain /\ RowsSettled /\ NoGap /\ FromStart /\ executions \in Seq(ExecutionRow)
  BY DEF EvidenceInv, OrderInv, StateInv
<1>1. CASE UNCHANGED executions
  <2>1. SUFFICES ASSUME executions # <<>>, NEW x, x = executions[Len(executions)], NEW y \in Rows
                 PROVE  NotBehind(x, y)'
    BY <1>1 DEF ReconciledIsLatest, GetChainExecutionBySessionID, Rows
  <2>2. Len(executions) \in Nat \ {0}   BY <1>0, <2>1, EmptySeq
  <2>3. x \in Rows   BY <1>0, <2>1, <2>2, LenProperties DEF Rows, Range
  <2>4. chain'[x.block] = chain[x.block]   BY <1>0, <2>3, RowPlace, SettledStays
  <2>5. NotBehind(x, y)
    BY <2>1 DEF OrderInv, ReconciledIsLatest, GetChainExecutionBySessionID
  <2> QED BY <2>4, <2>5 DEF NotBehind
<1>2. CASE NewRow /\ Rows' = Rows \cup {RowOf(Head(poll.pending), poll.block)}
  <2>1. PICK row, b, k : /\ row = RowOf(Head(poll.pending), poll.block)
                         /\ b = poll.block /\ k = DoneEvents
    OBVIOUS
  <2>2. /\ row.block = b /\ b \in Nat \ {0} /\ Settled(b) /\ k \in Nat /\ k + 1 \in DOMAIN chain[b]
        /\ row = RowOf(chain[b][k + 1], b) /\ chain[b][k + 1].key = row.key /\ row \notin Rows
    BY <1>2, <2>1, NewRowPlace
  <2>3. chain'[b] = chain[b] /\ DOMAIN chain[b] = 1 .. Len(chain[b])
    BY <2>2, SettledStays, SettledBlock
  <2>4. Rows' = Rows \cup {row} /\ row \in ExecutionRow
    BY <1>2, <2>1, PendingEvent DEF NewRow
  <2>5. executions' = Append(executions, row)   BY <1>2, <2>1 DEF NewRow
  <2>6. executions' # <<>> /\ executions'[Len(executions')] = row
    BY <1>0, <2>4, <2>5, AppendProperties
  <2>7. b > FirstBlock /\ FirstBlock \in Nat   BY <1>0, <1>2, <2>1, ConstantTypes DEF FromStart, NewRow, Down, Idle, Ended
  <2>8. NotBehind(row, row)'   BY <2>2, <2>3 DEF NotBehind
  <2>9. ASSUME NEW y \in Rows PROVE NotBehind(row, y)'
    <3>1. y.block \in Nat   BY <1>0, RowPlace
    <3>2. PICK j \in DOMAIN chain[y.block] : chain[y.block][j].key = y.key   BY <1>0, RowPlace
    <3>3. CASE y.block < b   BY <2>2, <3>1, <3>3 DEF NotBehind
    <3>4. CASE y.block >= b
      <4>1. b \in FirstBlock + 1 .. y.block   BY <2>2, <2>7, <3>1, <3>4
      <4>2. \/ RowOf(chain[b][k + 1], b) \in Rows
            \/ b = y.block /\ \A l \in DOMAIN chain[b] : chain[b][l].key = y.key => l < k + 1
        BY <1>0, <2>2, <4>1 DEF NoGap
      <4>3. b = y.block /\ j < k + 1 /\ j \in DOMAIN chain[b] /\ chain[b][j].key = y.key
        BY <2>2, <3>2, <4>2
      <4>4. j \in Nat /\ k + 1 >= j   BY <2>2, <2>3, <4>3
      <4> QED BY <2>2, <2>3, <4>3, <4>4 DEF NotBehind
    <3> QED BY <2>2, <3>1, <3>3, <3>4
  <2> QED BY <2>4, <2>6, <2>8, <2>9 DEF ReconciledIsLatest, GetChainExecutionBySessionID
<1> QED BY <1>1, <1>2, RowsStep

LEMMA InitOrder == Init => OrderInv
<1> SUFFICES ASSUME Init PROVE OrderInv   OBVIOUS
<1>1. Rows = {}   BY DEF Init, Rows, Range
<1> QED
  BY <1>1
  DEF Init, OrderInv, FromStart, NoGap, ReconciledIsLatest, GetChainExecutionBySessionID

LEMMA OrderAlways ==
    ASSUME ReorgDepth <= Confirmation, StartBlock <= 1 \/ RescanBlocks = 0
    PROVE  Spec => []OrderInv
<1>1. StateInv /\ EvidenceInv /\ OrderInv /\ [Next]_vars => OrderInv'
  BY FromStartStep, NoGapStep, LatestStep DEF OrderInv
<1> QED BY <1>1, InitOrder, StateAlways, EvidenceAlways, PTL DEF Spec

-----------------------------------------------------------------------------
(* The theorems.                                                           *)

\* The types, for every history of the chain, of failures and of restarts: a
\* poll reads no block that is not there, and a block in full.
THEOREM TypeCorrect == Spec => []TypeOK
<1>1. StateInv => TypeOK
  <2> SUFFICES ASSUME StateInv PROVE TypeOK   OBVIOUS
  <2>1. ASSUME NEW x \in Rows PROVE x \in [key : Keys, digest : Digests, block : 1 .. MaxHeight]
    <3>1. x \in ExecutionRow   BY ElementOfSeq, LenProperties DEF StateInv, Rows, Range
    <3> QED BY <3>1 DEF ExecutionRow
  <2>2. PollOK
    <3>1. CASE poll \in {Down, Idle, Ended}   BY <3>1 DEF PollOK
    <3>2. CASE poll \in [pc : {"filter"}, block : 1 .. MaxHeight, to : 1 .. MaxHeight]
      BY <3>2 DEF PollOK
    <3>3. CASE /\ poll \in [pc : {"block", "commit"}, block : 1 .. MaxHeight, to : 1 .. MaxHeight,
                            logs : {poll.logs}, pending : Blocks]
               /\ poll.block <= poll.to
               /\ poll.block .. poll.to \subseteq DOMAIN poll.logs
               /\ \A n \in DOMAIN poll.logs : poll.logs[n] \in Blocks
               /\ poll.pc = "commit" => poll.pending # <<>>
      <4>1. poll.block \in 1 .. poll.to   BY <3>3, ConstantTypes
      <4> QED BY <3>3, <4>1 DEF PollOK, At
    <3> QED BY <3>1, <3>2, <3>3 DEF StateInv, PollShape
  <2> QED BY <2>1, <2>2 DEF StateInv, TypeOK
<1> QED BY <1>1, StateAlways, PTL

\* An execution is recorded once, however deep the reorganisations are and in
\* however many transactions it was bundled (the indexes of chain_executions).
THEOREM ExecutionsRecordedOnce == Spec => []RecordedOnce
<1>1. StateInv => RecordedOnce   BY DEF StateInv
<1> QED BY <1>1, StateAlways, PTL

\* The watcher skips nothing, as long as reorganisations stay within the
\* confirmation depth: up to the cursor, saved or in memory, all is recorded.
THEOREM NothingSkipped ==
    ASSUME ReorgDepth <= Confirmation
    PROVE  Spec => []CursorSound
<1>1. EvidenceInv => CursorSound   BY DEF EvidenceInv
<1> QED BY <1>1, EvidenceAlways, PTL

\* It records nothing that is not on the chain, in the block the row says.
THEOREM RecordedIsOnChain ==
    ASSUME ReorgDepth <= Confirmation
    PROVE  Spec => []RowsOnChain
<1>1. EvidenceInv => RowsOnChain   BY DEF EvidenceInv
<1> QED BY <1>1, EvidenceAlways, PTL

\* A reservation is committed for an execution that is recorded and on the
\* chain, never for another one.
THEOREM CommittedHasEvidence ==
    ASSUME ReorgDepth <= Confirmation
    PROVE  Spec => []CommitEvidence
<1>1. StateInv /\ EvidenceInv => CommitEvidence
  <2> SUFFICES ASSUME StateInv, EvidenceInv, NEW d \in committed
               PROVE  IsRecorded(d) /\ \E e \in OnChain(chain) : e.digest = d
    BY DEF CommitEvidence
  <2>1. IsRecorded(d) /\ RowsOnChain /\ RowsSettled   BY DEF EvidenceInv
  <2>2. PICK x \in Rows : x.digest = d   BY <2>1 DEF IsRecorded
  <2>3. x.block \in 1 .. Len(chain)   BY <2>1, RowPlace
  <2>4. PICK i \in DOMAIN chain[x.block] : chain[x.block][i].digest = d   BY <2>1, <2>2, RowPlace
  <2>5. chain[x.block][i] \in OnChain(chain)   BY <2>3 DEF OnChain, Range
  <2> QED BY <2>1, <2>4, <2>5
<1> QED BY <1>1, StateAlways, EvidenceAlways, PTL

\* Reconciliation is told of the latest execution, where nothing below the
\* start block is read: with a start block and a rescan window, a failed poll
\* leaves the cursor below the start block, the next one begins lower still,
\* and rows of earlier blocks are created after those of later ones (poll).
THEOREM LatestIsReconciled ==
    ASSUME ReorgDepth <= Confirmation, StartBlock <= 1 \/ RescanBlocks = 0
    PROVE  Spec => []ReconciledIsLatest
<1>1. OrderInv => ReconciledIsLatest   BY DEF OrderInv
<1> QED BY <1>1, OrderAlways, PTL
=============================================================================
