---------------------------- MODULE MatchProofs ----------------------------
(***************************************************************************)
(* Proofs about Match, for every set of orders, duration, command set and  *)
(* bound, and any number of crashes: type correctness, that a match never   *)
(* loses its clock, that results are recorded strictly forward in the game, *)
(* that the end of a match is final, and that what the players were told is *)
(* what the store says.                                                     *)
(***************************************************************************)
EXTENDS Match, PhaseProofs, SequenceTheorems, TLAPS

-----------------------------------------------------------------------------
(* Types of the operators on boards, hashes and rows.                       *)

LEMMA BoardOperations ==
    ASSUME NEW b \in BoardSet, NEW o \in OrderSets
    PROVE  /\ DefaultMap \in BoardSet
           /\ Movement(b, o) \in BoardSet
           /\ Retreats(b) \in BoardSet
           /\ Adjustments(b) \in BoardSet
BY OrdersAssumption, AppendProperties
   DEF BoardSet, Step, DefaultMap, Movement, Retreats, Adjustments

LEMMA LatestHashType ==
    ASSUME TypeOK PROVE LatestHash \in Seq(BoardSet)
<1>1. CASE results = <<>>
  BY <1>1 DEF LatestHash
<1>2. CASE results # <<>>
  <2>1. results[Len(results)] \in Row
    BY <1>2 DEF TypeOK
  <2>2. QED BY <1>2, <2>1, AppendProperties DEF LatestHash, StateHash, Row
<1>3. QED BY <1>1, <1>2

(* Recording appends one row at the match's place and keeps the others.     *)
LEMMA RecordedRows ==
    ASSUME TypeOK, NEW b \in BoardSet
    PROVE  /\ Recorded(b) \in Seq(Row)
           /\ Len(Recorded(b)) = Len(results) + 1
           /\ DOMAIN Recorded(b) = 1..(Len(results) + 1)
           /\ \A i \in DOMAIN results : Recorded(b)[i] = results[i]
           /\ Recorded(b)[Len(results) + 1].turn = match.turn
           /\ Recorded(b)[Len(results) + 1].phase = match.phase
           /\ Recorded(b)[Len(results) + 1].board = b
<1> DEFINE row == [turn |-> match.turn, phase |-> match.phase,
                   board |-> b, prev |-> LatestHash]
<1>1. row \in Row
  BY LatestHashType DEF TypeOK, MatchState, Row
<1>2. Recorded(b) = Append(results, row) /\ results \in Seq(Row)
  BY DEF Recorded, TypeOK
<1>3. row.turn = match.turn /\ row.phase = match.phase /\ row.board = b
  OBVIOUS
<1> HIDE DEF row
<1>4. QED BY <1>1, <1>2, <1>3, AppendProperties, LenProperties

LEMMA BroadcastType ==
    ASSUME TypeOK, NEW type \in MessageTypes, NEW hash \in Seq(BoardSet),
           Broadcast(type, hash)
    PROVE  sent' \in Seq(Message)
BY AppendProperties DEF TypeOK, Broadcast, Message, MatchState

LEMMA StoredBoards ==
    ASSUME TypeOK, NEW t \in Nat, NEW p \in PhaseNames, RowsAt(t, p) # {}
    PROVE  BoardAt(t, p) \in BoardSet
<1>1. PICK i \in RowsAt(t, p) : BoardAt(t, p) = results[i].board
  BY DEF BoardAt
<1>2. results[i] \in Row
  BY DEF RowsAt, TypeOK
<1>3. QED BY <1>1, <1>2 DEF Row

(* Whatever advance_phase resolves, it ends up with a board.                *)
LEMMA ResolvedBoardType ==
    ASSUME TypeOK, Resolvable
    PROVE  ResolvedBoard \in BoardSet
<1>1. match.turn \in Nat /\ match.phase \in PhaseNames /\ orders \in OrderSets
  BY DEF TypeOK, MatchState
<1>2. CASE match.phase = "ORDERS"
  BY <1>1, <1>2, StoredBoards, BoardOperations DEF Resolvable, ResolvedBoard
<1>3. CASE match.phase = "RETREAT"
  <2>1. BoardAt(match.turn, "ORDERS") \in BoardSet
    BY <1>1, <1>3, StoredBoards DEF Resolvable, PhaseNames
  <2>2. QED BY <1>1, <1>3, <2>1, BoardOperations DEF ResolvedBoard
<1>4. CASE match.phase = "BUILD"
  <2>1. results # <<>> /\ results \in Seq(Row)
    BY <1>4 DEF Resolvable, TypeOK
  <2>2. results[Len(results)] \in Row
    BY <2>1
  <2>3. results[Len(results)].board \in BoardSet
    BY <2>2 DEF Row
  <2>4. LoadedBoard \in BoardSet
    BY <1>1, <2>3, StoredBoards DEF LoadedBoard
  <2>5. QED BY <1>1, <1>4, <2>4, BoardOperations DEF ResolvedBoard
<1>5. QED BY <1>2, <1>3, <1>4 DEF Resolvable

-----------------------------------------------------------------------------
(* Type correctness.  TypeOK alone is not inductive: Tail(queue) and batch   *)
(* stay in their types because BatchIsPending leaves a row to be marked.     *)

LEMMA TypeInit ==
    ASSUME Init PROVE TypeInv
<1>1. match \in MatchState
  BY DEF Init, NewMatch, MatchState, Statuses, PhaseNames
<1>2. board \in BoardSet
  BY DEF Init, DefaultMap, BoardSet
<1>3. results \in Seq(Row) /\ queue \in Seq(Commands) /\ sent \in Seq(Message)
  BY DEF Init
<1>4. orders \in OrderSets /\ full \in BOOLEAN /\ warned \in BOOLEAN
  BY OrdersAssumption DEF Init
<1>5. /\ batch \in Nat /\ issued \in Nat /\ crashes \in Nat
      /\ pc \in ControlPoints /\ caller \in {"inbox", "fetch", "mark"}
      /\ deadline \in Nat \cup {None} /\ paused \in Nat \cup {None}
  BY DEF Init, ControlPoints
<1>6. TypeOK
  BY <1>1, <1>2, <1>3, <1>4, <1>5 DEF TypeOK
<1>7. BatchIsPending
  BY DEF Init, BatchIsPending, OpeningPoints, RecordingPoints
<1>8. WorkIsActive
  BY DEF Init, WorkIsActive, OpeningPoints, RecordingPoints
<1>9. QED BY <1>6, <1>7, <1>8 DEF TypeInv

(* The first write of advance_phase.                                        *)
LEMMA BeginAdvanceType ==
    ASSUME TypeInv, NEW returnTo \in {"fetch", "mark"}, BeginAdvance(returnTo),
           returnTo = "mark" => batch >= 1
    PROVE  TypeInv'
<1>1. /\ match' \in MatchState
      /\ match'.status = "ACTIVE"
      /\ match'.phase \in TimedPhases
  <2>1. PICK dislodged, adjust \in BOOLEAN :
           match' = Landing(match, dislodged, adjust)
    BY DEF BeginAdvance
  <2>2. /\ match \in MatchState
        /\ match.phase \in TimedPhases
        /\ match.status = "ACTIVE"
    BY DEF TypeInv, TypeOK, BeginAdvance, Resolvable, CanAdvance, TimedPhases
  <2>3. QED BY <2>1, <2>2, LandingAhead
<1>2. orders' \in OrderSets
  BY OrdersAssumption DEF TypeInv, TypeOK, BeginAdvance, OrdersFor
<1>3. board' \in BoardSet
  BY ResolvedBoardType DEF TypeInv, BeginAdvance
<1>4. QED
  BY <1>1, <1>2, <1>3
     DEF TypeInv, TypeOK, BatchIsPending, WorkIsActive, BeginAdvance, ControlPoints,
         OpeningPoints, RecordingPoints

LEMMA SaveEndType ==
    ASSUME TypeInv, NEW returnTo \in {"inbox", "mark"}, SaveEnd(returnTo),
           returnTo = "mark" => batch >= 1
    PROVE  TypeInv'
<1>1. match' \in MatchState
  BY DEF TypeInv, TypeOK, SaveEnd, EndMatch, MatchState, Statuses
<1>2. QED
  BY <1>1 DEF TypeInv, TypeOK, BatchIsPending, WorkIsActive, SaveEnd, ControlPoints,
              OpeningPoints, RecordingPoints

LEMMA OpeningType ==
    ASSUME TypeInv, Opening PROVE TypeInv'
<1> USE DEF TypeInv
<1>1. CASE RecordGenesis
  <2>1. results' \in Seq(Row)
    BY <1>1, RecordedRows, BoardOperations, OrdersAssumption
       DEF RecordGenesis, TypeOK
  <2>2. QED
    BY <1>1, <2>1 DEF RecordGenesis, Goto, TypeOK, BatchIsPending, WorkIsActive, ControlPoints,
                      OpeningPoints, RecordingPoints
<1>2. CASE SetSeedDeadline
  <2>1. deadline' \in Nat
    BY <1>2, DurationAssumption DEF SetSeedDeadline, TimedPhases
  <2>2. QED
    BY <1>2, <2>1 DEF SetSeedDeadline, Goto, TypeOK, BatchIsPending, WorkIsActive, ControlPoints,
                      OpeningPoints, RecordingPoints
<1>3. CASE BroadcastMatchStart
  <2>1. sent' \in Seq(Message)
    BY <1>3, BroadcastType, LatestHashType DEF BroadcastMatchStart, MessageTypes
  <2>2. QED
    BY <1>3, <2>1 DEF BroadcastMatchStart, Goto, TypeOK, BatchIsPending, WorkIsActive,
                      ControlPoints, OpeningPoints, RecordingPoints, database
<1>4. CASE OpenOrders
  <2>1. /\ match' \in MatchState
        /\ match'.status = "ACTIVE"
        /\ match'.phase \in TimedPhases
    BY <1>4, AdvancePhaseMoves, PhasesDiffer
       DEF OpenOrders, Goto, TypeOK, WorkIsActive, OpeningPoints
  <2>2. board' \in BoardSet
    BY <1>4, BoardOperations, OrdersAssumption DEF OpenOrders, TypeOK
  <2>3. QED
    BY <1>4, <2>1, <2>2 DEF OpenOrders, Goto, TypeOK, BatchIsPending, WorkIsActive,
                            ControlPoints, OpeningPoints, RecordingPoints
<1>5. QED BY <1>1, <1>2, <1>3, <1>4 DEF Opening

LEMMA RecordingType ==
    ASSUME TypeInv, Recording PROVE TypeInv'
<1> USE DEF TypeInv
<1>1. CASE PersistResult
  <2>1. results' \in Seq(Row)
    BY <1>1, RecordedRows DEF PersistResult, TypeOK
  <2>2. QED
    BY <1>1, <2>1 DEF PersistResult, Goto, TypeOK, BatchIsPending, WorkIsActive, ControlPoints,
                      OpeningPoints, RecordingPoints
<1>2. CASE SetDeadline
  <2>1. deadline' \in Nat
    BY <1>2, DurationAssumption DEF SetDeadline, Goto, WorkIsActive, RecordingPoints
  <2>2. QED
    BY <1>2, <2>1 DEF SetDeadline, Goto, TypeOK, BatchIsPending, WorkIsActive, ControlPoints,
                      OpeningPoints, RecordingPoints
<1>3. CASE BroadcastResult
  <2>1. sent' \in Seq(Message)
    BY <1>3, BroadcastType, LatestHashType DEF BroadcastResult, MessageTypes
  <2>2. QED
    BY <1>3, <2>1 DEF BroadcastResult, Goto, TypeOK, BatchIsPending, WorkIsActive,
                      ControlPoints, OpeningPoints, RecordingPoints, database
<1>4. CASE BroadcastPhaseStart
  <2>1. sent' \in Seq(Message)
    <3>1. <<>> \in Seq(BoardSet) /\ "PHASE_START" \in MessageTypes
      BY DEF MessageTypes
    <3>2. QED BY <1>4, <3>1, BroadcastType DEF BroadcastPhaseStart
  <2>2. board' \in BoardSet
    BY <1>4, BoardOperations, OrdersAssumption DEF BroadcastPhaseStart, TypeOK
  <2>3. QED
    BY <1>4, <2>1, <2>2 DEF BroadcastPhaseStart, Goto, TypeOK, BatchIsPending, WorkIsActive,
                      ControlPoints, OpeningPoints, RecordingPoints, database
<1>5. QED BY <1>1, <1>2, <1>3, <1>4 DEF Recording

LEMMA MatchEndType ==
    ASSUME TypeInv, BroadcastMatchEnd PROVE TypeInv'
<1> USE DEF TypeInv
<1>1. sent' \in Seq(Message)
  BY BroadcastType, LatestHashType DEF BroadcastMatchEnd, MessageTypes
<1>2. QED
  BY <1>1 DEF BroadcastMatchEnd, Goto, TypeOK, BatchIsPending, WorkIsActive,
              ControlPoints, OpeningPoints, RecordingPoints, database

(* What Fail and Crash leave of the memory of the process.                  *)
LEMMA FailType ==
    ASSUME TypeInv, pc' \in {"failed", "down"}, caller' = "inbox",
           board' = DefaultMap, batch' = 0, warned' = FALSE,
           crashes' \in Nat, UNCHANGED <<database, sent, issued>>
    PROVE  TypeInv'
<1>1. board' \in BoardSet
  BY BoardOperations, OrdersAssumption DEF TypeInv, TypeOK
<1>2. queue' = queue /\ queue \in Seq(Commands)
  BY DEF TypeInv, TypeOK, database
<1>3. warned' \in BOOLEAN
  OBVIOUS
<1>4. QED
  BY <1>1, <1>2, <1>3 DEF TypeInv, TypeOK, BatchIsPending, WorkIsActive, database, ControlPoints,
              OpeningPoints, RecordingPoints

LEMMA PollingType ==
    ASSUME TypeInv, Polling PROVE TypeInv'
<1>1. CASE DeadlineAdvance
  BY <1>1, BeginAdvanceType DEF DeadlineAdvance
<1>2. CASE DeadlineRaises
  BY <1>2, FailType DEF DeadlineRaises, Fail, TypeInv, TypeOK
<1>3. CASE DeadlineQuiet
  <2>1. warned' \in BOOLEAN
    BY <1>3 DEF DeadlineQuiet
  <2>2. QED
    BY <1>3, <2>1 DEF DeadlineQuiet, Goto, TypeInv, TypeOK, BatchIsPending, WorkIsActive,
                ControlPoints, OpeningPoints, RecordingPoints, database
<1>4. QED BY <1>1, <1>2, <1>3 DEF Polling

LEMMA AdministeringType ==
    ASSUME TypeInv, Administering PROVE TypeInv'
<1> USE DEF TypeInv, TypeOK, BatchIsPending, WorkIsActive, ControlPoints,
            OpeningPoints, RecordingPoints
<1>1. CASE FetchCommands
  BY <1>1 DEF FetchCommands, Goto, database
<1>2. CASE BatchDone
  BY <1>2 DEF BatchDone, Goto, database
<1>3. CASE MarkProcessed
  <2>1. queue # <<>> /\ batch \in Nat \ {0} /\ batch <= Len(queue)
    BY <1>3 DEF MarkProcessed, Goto
  <2>2. Tail(queue) \in Seq(Commands) /\ Len(Tail(queue)) = Len(queue) - 1
    BY <2>1, HeadTailProperties
  <2>3. QED BY <1>3, <2>1, <2>2 DEF MarkProcessed, Goto
<1>4. CASE RunStart
  <2>1. /\ match' \in MatchState
        /\ match'.status = "ACTIVE" /\ match'.phase = "DIPLOMACY"
    BY <1>4 DEF RunStart, StartMatch, MatchState, Statuses, PhaseNames
  <2>2. QED BY <1>4, <2>1 DEF RunStart, Running
<1>5. CASE RunAdvance
  <2>1. BeginAdvance("mark") /\ batch >= 1
    BY <1>5 DEF RunAdvance, Running
  <2>2. QED BY <2>1, BeginAdvanceType
<1>6. CASE RunEnd
  <2>1. SaveEnd("mark") /\ batch >= 1
    BY <1>6 DEF RunEnd, Running
  <2>2. QED BY <2>1, SaveEndType
<1>7. CASE RunPause
  BY <1>7 DEF RunPause, Running
<1>8. CASE RunResume
  BY <1>8 DEF RunResume, Running
<1>9. CASE RunWithoutEffect
  <2>1. batch >= 1 /\ pc' = "mark"
    BY <1>9 DEF RunWithoutEffect, Running
  <2>2. QED BY <1>9, <2>1 DEF RunWithoutEffect, database
<1>10. CASE SuspendDeadline
  BY <1>10 DEF SuspendDeadline, Goto
<1>11. CASE ClearPaused
  BY <1>11 DEF ClearPaused, Goto
<1>12. QED
  BY <1>1, <1>2, <1>3, <1>4, <1>5, <1>6, <1>7, <1>8, <1>9, <1>10, <1>11
     DEF Administering

LEMMA PlayersType ==
    ASSUME TypeInv, Players PROVE TypeInv'
<1>1. CASE OrdersBeforeGenesis
  <2>1. crashes' \in Nat
    BY <1>1 DEF OrdersBeforeGenesis, TypeInv, TypeOK
  <2>2. QED BY <1>1, <2>1, FailType DEF OrdersBeforeGenesis, Fail
<1>2. CASE AcceptDraw
  BY <1>2, SaveEndType DEF AcceptDraw
<1> USE DEF TypeInv, TypeOK, BatchIsPending, WorkIsActive, ControlPoints,
            OpeningPoints, RecordingPoints
<1>3. CASE LobbyFills
  BY <1>3 DEF LobbyFills, memory
<1>4. ASSUME NEW o \in OrderSets, ReceiveOrders(o) PROVE TypeInv'
  BY <1>4 DEF ReceiveOrders, memory
<1>5. QED BY <1>1, <1>2, <1>3, <1>4 DEF Players

LEMMA OutsideType ==
    ASSUME TypeInv,
           (\E c \in Commands : Enqueue(c)) \/ Tick \/ Crash \/ Restart
    PROVE  TypeInv'
<1>1. CASE Crash
  <2>1. crashes' \in Nat
    BY <1>1 DEF Crash, TypeInv, TypeOK
  <2>2. QED BY <1>1, <2>1, FailType DEF Crash
<1> USE DEF TypeInv, TypeOK, BatchIsPending, WorkIsActive, ControlPoints,
            OpeningPoints, RecordingPoints
<1>2. ASSUME NEW c \in Commands, Enqueue(c) PROVE TypeInv'
  <2>1. queue' \in Seq(Commands) /\ Len(queue') = Len(queue) + 1
    BY <1>2, AppendProperties DEF Enqueue
  <2>2. QED BY <1>2, <2>1 DEF Enqueue, memory
<1>3. CASE Tick
  BY <1>3, NoneAssumption DEF Tick, memory
<1>4. CASE Restart
  BY <1>4 DEF Restart, Alive, database
<1>5. QED BY <1>1, <1>2, <1>3, <1>4

LEMMA TypeStep ==
    ASSUME TypeInv, [Next]_vars PROVE TypeInv'
<1>1. CASE Serve
  BY <1>1, OpeningType, RecordingType, MatchEndType, PollingType, AdministeringType
     DEF Serve
<1>2. CASE UNCHANGED vars
  BY <1>2 DEF TypeInv, TypeOK, BatchIsPending, WorkIsActive, vars, database, memory
<1>3. QED BY <1>1, <1>2, PlayersType, OutsideType DEF Next

(* Every variable keeps to its type, whatever the bounds and durations.     *)
THEOREM TypeCorrect == Spec => []TypeOK
<1>1. TypeInv => TypeOK
  BY DEF TypeInv
<1>2. QED BY <1>1, TypeInit, TypeStep, PTL DEF Spec

-----------------------------------------------------------------------------
(* The clock of the match.                                                  *)

(* A step that writes neither column of the clock and leads to no control   *)
(* point with half of a pause or resume done.                               *)
LEMMA ClockUntouched ==
    ASSUME ClockInv, TypeInv', UNCHANGED <<deadline, paused>>,
           \/ match' = match
           \/ match'.status # "ACTIVE" \/ match'.phase = "DIPLOMACY"
           \/ match.status = "ACTIVE" /\ match.phase # "DIPLOMACY",
           pc' \in {pc} \/ pc' \notin {"suspend", "unpause", "matchstart", "open"}
    PROVE  ClockInv'
BY DEF ClockInv, ClockKept

(* A step after which a deadline runs.                                      *)
LEMMA ClockSet ==
    ASSUME ClockInv, TypeInv', deadline' # None, pc' # "suspend"
    PROVE  ClockInv'
BY DEF ClockInv, ClockKept

LEMMA ClockInit ==
    ASSUME Init PROVE ClockInv
<1>1. TypeInv
  BY TypeInit
<1>2. QED BY <1>1 DEF Init, NewMatch, ClockInv, ClockKept

(* Only a match that is past its opening can be advanced.                   *)
LEMMA AdvanceKeepsClock ==
    ASSUME ClockInv, TypeInv', NEW returnTo, BeginAdvance(returnTo)
    PROVE  ClockInv'
<1>1. match.status = "ACTIVE" /\ match.phase # "DIPLOMACY"
  BY DEF BeginAdvance, Resolvable, CanAdvance
<1>2. UNCHANGED <<deadline, paused>> /\ pc' = "persist"
  BY DEF BeginAdvance
<1>3. QED BY <1>1, <1>2, ClockUntouched

LEMMA EndKeepsClock ==
    ASSUME ClockInv, TypeInv', NEW returnTo, SaveEnd(returnTo)
    PROVE  ClockInv'
<1>1. match'.status # "ACTIVE"
  BY DEF SaveEnd, EndMatch, ClockInv, TypeInv, TypeOK, MatchState
<1>2. UNCHANGED <<deadline, paused>> /\ pc' = "matchend"
  BY DEF SaveEnd
<1>3. QED BY <1>1, <1>2, ClockUntouched

LEMMA ClockStep ==
    ASSUME ClockInv, [Next]_vars PROVE ClockInv'
<1>1. TypeInv /\ TypeInv'
  BY TypeStep DEF ClockInv
<1>2. CASE SetSeedDeadline
  <2>1. Duration["ORDERS"] # None
    BY DurationAssumption, NoneAssumption DEF TimedPhases
  <2>2. QED BY <1>1, <1>2, <2>1, ClockSet DEF SetSeedDeadline, Goto
<1>3. CASE SetDeadline
  <2>1. match.phase \in TimedPhases
    BY <1>1, <1>3 DEF SetDeadline, Goto, TypeInv, WorkIsActive, RecordingPoints
  <2>2. Duration[match.phase] # None
    BY <2>1, DurationAssumption, NoneAssumption
  <2>3. QED BY <1>1, <1>3, <2>2, ClockSet DEF SetDeadline, Goto
<1>4. CASE BroadcastMatchStart \/ OpenOrders
  <2>1. deadline # None /\ deadline' = deadline /\ pc' # "suspend"
    BY <1>4 DEF BroadcastMatchStart, OpenOrders, Goto, ClockInv, database
  <2>2. QED BY <1>1, <2>1, ClockSet
<1>5. CASE RunPause
  <2>1. match' = match /\ paused' # None /\ pc' = "suspend"
    BY <1>5 DEF RunPause
  <2>2. QED BY <1>1, <2>1 DEF ClockInv, ClockKept
<1>6. CASE SuspendDeadline
  <2>1. match' = match /\ paused' = paused /\ paused # None /\ pc' = "mark"
    BY <1>6 DEF SuspendDeadline, Goto, ClockInv
  <2>2. QED BY <1>1, <2>1 DEF ClockInv, ClockKept
<1>7. CASE RunResume
  BY <1>1, <1>7, ClockSet DEF RunResume
<1>8. CASE ClearPaused
  <2>1. deadline # None /\ deadline' = deadline /\ pc' = "mark"
    BY <1>8 DEF ClearPaused, Goto, ClockInv
  <2>2. QED BY <1>1, <2>1, ClockSet
<1>9. CASE Tick
  <2>1. deadline \in Nat \ {0} /\ deadline' = deadline - 1 /\ deadline' \in Nat
    BY <1>1, <1>9, NoneAssumption DEF Tick, TypeInv, TypeOK
  <2>2. match' = match /\ paused' = paused /\ pc' = pc /\ deadline' # None
    BY <1>9, <2>1, NoneAssumption DEF Tick, memory
  <2>3. QED BY <1>1, <2>2 DEF ClockInv, ClockKept
<1>10. CASE DeadlineAdvance \/ RunAdvance
  BY <1>1, <1>10, AdvanceKeepsClock DEF DeadlineAdvance, RunAdvance
<1>11. CASE AcceptDraw \/ RunEnd
  BY <1>1, <1>11, EndKeepsClock DEF AcceptDraw, RunEnd
<1>12. CASE RunStart
  <2>1. match'.phase = "DIPLOMACY" /\ pc' = "genesis"
    BY <1>12 DEF RunStart, StartMatch
  <2>2. QED BY <1>1, <1>12, <2>1, ClockUntouched DEF RunStart
<1>13. CASE RecordGenesis \/ PersistResult \/ BroadcastResult
  BY <1>1, <1>13, ClockUntouched
     DEF RecordGenesis, PersistResult, BroadcastResult, Goto, database
<1>14. CASE BroadcastPhaseStart \/ BroadcastMatchEnd
  <2>1. pc' \in {"inbox", "fetch", "mark"}
    BY <1>1, <1>14 DEF TypeInv, TypeOK, BroadcastPhaseStart, BroadcastMatchEnd, Goto
  <2>2. QED
    BY <1>1, <1>14, <2>1, ClockUntouched
       DEF BroadcastPhaseStart, BroadcastMatchEnd, database
<1>15. CASE DeadlineRaises \/ DeadlineQuiet \/ FetchCommands \/ BatchDone
  BY <1>1, <1>15, ClockUntouched
     DEF DeadlineRaises, DeadlineQuiet, Fail, FetchCommands, BatchDone, Goto, database
<1>16. CASE MarkProcessed \/ RunWithoutEffect
  BY <1>1, <1>16, ClockUntouched DEF MarkProcessed, RunWithoutEffect, Goto, database
<1>17. CASE LobbyFills \/ OrdersBeforeGenesis \/ \E o \in OrderSets : ReceiveOrders(o)
  BY <1>1, <1>17, ClockUntouched
     DEF LobbyFills, OrdersBeforeGenesis, ReceiveOrders, Fail, memory, database
<1>18. CASE (\E c \in Commands : Enqueue(c)) \/ Crash \/ Restart
  BY <1>1, <1>18, ClockUntouched DEF Enqueue, Crash, Restart, memory, database
<1>19. CASE UNCHANGED vars
  BY <1>1, <1>19, ClockUntouched DEF vars, database, memory
<1>20. QED
  BY <1>2, <1>3, <1>4, <1>5, <1>6, <1>7, <1>8, <1>9, <1>10, <1>11, <1>12, <1>13,
     <1>14, <1>15, <1>16, <1>17, <1>18, <1>19
     DEF Next, Serve, Opening, Recording, Polling, Administering, Players

(* Whatever dies or is repeated between the transactions of a pause, a      *)
(* resume or the start of a phase, a match in play keeps a running or a     *)
(* remembered deadline (pause and resume of match.py).                      *)
THEOREM ClockIsKept == Spec => []ClockKept
<1>1. ClockInv => ClockKept
  BY DEF ClockInv
<1>2. QED BY <1>1, ClockInit, ClockStep, PTL DEF Spec

-----------------------------------------------------------------------------
(* The places of the rows of the result chain.                              *)

(* Places in a game are ordered.                                            *)
LEMMA BeforeIsTransitive ==
    ASSUME NEW t \in Nat, NEW u \in Nat, NEW v \in Nat,
           NEW p \in PhaseNames, NEW q \in PhaseNames, NEW r \in PhaseNames,
           Before(t, p, u, q), Before(u, q, v, r)
    PROVE  Before(t, p, v, r)
<1>1. Rank[p] \in Nat /\ Rank[q] \in Nat /\ Rank[r] \in Nat
  BY RankValues, PhasesDiffer
<1>2. QED BY <1>1 DEF Before

(* A row of the store has a turn and a phase.                               *)
LEMMA RowPlace ==
    ASSUME TypeOK, NEW i \in DOMAIN results
    PROVE  results[i].turn \in Nat /\ results[i].phase \in PhaseNames
<1>1. results[i] \in Row
  BY DEF TypeOK
<1>2. QED BY <1>1 DEF Row

-----------------------------------------------------------------------------
(* The four ways an action meets the chain: it leaves both the chain and    *)
(* the match's place alone, it moves the match ahead, it records the place  *)
(* that was ahead, or there is no chain yet.                                *)

LEMMA PlaceKept ==
    ASSUME OrderingInv, TypeInv', results' = results,
           match'.turn = match.turn, match'.phase = match.phase,
           match'.status = "LOBBY" => match.status = "LOBBY",
           pc' \in {"genesis", "persist"} => pc' = pc
    PROVE  OrderingInv'
<1>1. LobbyIsEmpty'
  BY DEF OrderingInv, LobbyIsEmpty
<1>2. ChainBehindMatch'
  BY DEF OrderingInv, ChainBehindMatch, Here, Behind
<1>3. ResultsOrdered'
  BY DEF OrderingInv, ResultsOrdered
<1>4. QED BY <1>1, <1>2, <1>3 DEF OrderingInv

LEMMA PlaceAhead ==
    ASSUME OrderingInv, TypeInv', results' = results,
           Before(match.turn, match.phase, match'.turn, match'.phase),
           match'.status # "LOBBY", pc' # "genesis"
    PROVE  OrderingInv'
<1>1. LobbyIsEmpty'
  BY DEF LobbyIsEmpty
<1>2. ChainBehindMatch'
  <2>1. SUFFICES ASSUME NEW i \in DOMAIN results
                 PROVE  Behind(i)'
    BY DEF ChainBehindMatch
  <2>2. /\ results[i].turn \in Nat /\ results[i].phase \in PhaseNames
        /\ match.turn \in Nat /\ match.phase \in PhaseNames
        /\ match'.turn \in Nat /\ match'.phase \in PhaseNames
    BY RowPlace DEF OrderingInv, TypeInv, TypeOK, MatchState
  <2>3. CASE Here(i)
    BY <2>3 DEF Here, Behind
  <2>4. CASE Behind(i)
    BY <2>2, <2>4, BeforeIsTransitive DEF Behind
  <2>5. QED BY <2>3, <2>4 DEF OrderingInv, ChainBehindMatch
<1>3. ResultsOrdered'
  BY DEF OrderingInv, ResultsOrdered
<1>4. QED BY <1>1, <1>2, <1>3 DEF OrderingInv

LEMMA PlaceRecorded ==
    ASSUME OrderingInv, TypeInv', pc \in {"genesis", "persist"},
           NEW b \in BoardSet, results' = Recorded(b), match' = match,
           pc' \notin {"genesis", "persist"}
    PROVE  OrderingInv'
<1>1. /\ DOMAIN results' = 1..(Len(results) + 1)
      /\ DOMAIN results = 1..Len(results) /\ Len(results) \in Nat
      /\ \A i \in DOMAIN results : results'[i] = results[i]
      /\ results'[Len(results) + 1].turn = match.turn
      /\ results'[Len(results) + 1].phase = match.phase
  BY RecordedRows DEF OrderingInv, TypeInv, TypeOK
<1>2. \A i \in DOMAIN results : Behind(i)
  BY DEF OrderingInv, ChainBehindMatch
<1>3. LobbyIsEmpty'
  BY DEF LobbyIsEmpty, OrderingInv, TypeInv, WorkIsActive, OpeningPoints,
         RecordingPoints
<1>4. ChainBehindMatch'
  BY <1>1, <1>2 DEF ChainBehindMatch, Here, Behind
<1>5. ResultsOrdered'
  <2>1. SUFFICES ASSUME NEW i \in DOMAIN results', NEW j \in DOMAIN results', i < j
                 PROVE  Before(results'[i].turn, results'[i].phase,
                               results'[j].turn, results'[j].phase)
    BY DEF ResultsOrdered
  <2>2. i \in DOMAIN results
    BY <1>1, <2>1
  <2>3. CASE j \in DOMAIN results
    BY <1>1, <2>1, <2>2, <2>3 DEF OrderingInv, ResultsOrdered
  <2>4. CASE j = Len(results) + 1
    BY <1>1, <1>2, <2>2, <2>4 DEF Behind
  <2>5. QED BY <1>1, <2>3, <2>4
<1>6. QED BY <1>3, <1>4, <1>5 DEF OrderingInv

LEMMA NothingRecorded ==
    ASSUME TypeInv', results' = <<>> PROVE OrderingInv'
<1>1. DOMAIN results' = {}
  OBVIOUS
<1>2. LobbyIsEmpty' /\ ChainBehindMatch' /\ ResultsOrdered'
  BY <1>1 DEF LobbyIsEmpty, ChainBehindMatch, ResultsOrdered
<1>3. QED BY <1>2 DEF OrderingInv

-----------------------------------------------------------------------------
(* One step per action.                                                     *)

LEMMA OrderingInit ==
    ASSUME Init PROVE OrderingInv
<1>1. TypeInv
  BY TypeInit
<1>2. LobbyIsEmpty /\ ChainBehindMatch /\ ResultsOrdered
  BY DEF Init, LobbyIsEmpty, ChainBehindMatch, ResultsOrdered
<1>3. QED BY <1>1, <1>2 DEF OrderingInv

LEMMA AdvanceOrders ==
    ASSUME OrderingInv, TypeInv', NEW returnTo, BeginAdvance(returnTo)
    PROVE  OrderingInv'
<1>1. PICK dislodged, adjust \in BOOLEAN :
         match' = Landing(match, dislodged, adjust)
  BY DEF BeginAdvance
<1>2. /\ match \in MatchState
      /\ match.phase \in TimedPhases
      /\ match.status = "ACTIVE"
  BY DEF OrderingInv, TypeInv, TypeOK, BeginAdvance, Resolvable, CanAdvance,
         TimedPhases
<1>3. /\ Before(match.turn, match.phase, match'.turn, match'.phase)
      /\ match'.status = "ACTIVE"
  BY <1>1, <1>2, LandingAhead
<1>4. results' = results /\ pc' = "persist"
  BY DEF BeginAdvance
<1>5. QED BY <1>3, <1>4, PlaceAhead

LEMMA EndOrders ==
    ASSUME OrderingInv, TypeInv', NEW returnTo, SaveEnd(returnTo)
    PROVE  OrderingInv'
<1>1. /\ match'.turn = match.turn /\ match'.phase = match.phase
      /\ match'.status = "COMPLETED"
  BY DEF SaveEnd, EndMatch, OrderingInv, TypeInv, TypeOK, MatchState
<1>2. results' = results /\ pc' = "matchend"
  BY DEF SaveEnd
<1>3. QED BY <1>1, <1>2, PlaceKept

LEMMA OrderingStep ==
    ASSUME OrderingInv, [Next]_vars PROVE OrderingInv'
<1>1. TypeInv'
  BY TypeStep DEF OrderingInv
<1>2. CASE RecordGenesis
  <2>1. DefaultMap \in BoardSet
    BY BoardOperations, OrdersAssumption DEF OrderingInv, TypeInv, TypeOK
  <2>2. QED BY <1>1, <1>2, <2>1, PlaceRecorded DEF RecordGenesis, Goto
<1>3. CASE PersistResult
  <2>1. board \in BoardSet
    BY DEF OrderingInv, TypeInv, TypeOK
  <2>2. QED BY <1>1, <1>3, <2>1, PlaceRecorded DEF PersistResult, Goto
<1>4. CASE OpenOrders
  <2>1. match.phase = "DIPLOMACY" /\ match.status = "ACTIVE" /\ match \in MatchState
    BY <1>4 DEF OrderingInv, TypeInv, TypeOK, WorkIsActive, OpeningPoints,
                OpenOrders, Goto
  <2>2. /\ match'.phase = "ORDERS" /\ match'.turn = match.turn
        /\ match'.status = "ACTIVE"
    BY <1>4, <2>1, AdvancePhaseMoves DEF OpenOrders
  <2>3. Before(match.turn, match.phase, match'.turn, match'.phase)
    BY <2>1, <2>2, RankValues DEF Before
  <2>4. QED BY <1>1, <1>4, <2>2, <2>3, PlaceAhead DEF OpenOrders, Goto
<1>5. CASE DeadlineAdvance \/ RunAdvance
  BY <1>1, <1>5, AdvanceOrders DEF DeadlineAdvance, RunAdvance
<1>6. CASE AcceptDraw \/ RunEnd
  BY <1>1, <1>6, EndOrders DEF AcceptDraw, RunEnd
<1>7. CASE RunStart
  <2>1. results' = <<>>
    BY <1>7 DEF RunStart, StartAllowed, CanStart, OrderingInv, LobbyIsEmpty
  <2>2. QED BY <1>1, <2>1, NothingRecorded
<1>8. CASE SetSeedDeadline \/ BroadcastMatchStart
  BY <1>1, <1>8, PlaceKept DEF SetSeedDeadline, BroadcastMatchStart, Goto, database
<1>9. CASE SetDeadline \/ BroadcastResult
  BY <1>1, <1>9, PlaceKept DEF SetDeadline, BroadcastResult, Goto, database
<1>10. CASE BroadcastPhaseStart \/ BroadcastMatchEnd
  <2>1. pc' \in {"inbox", "fetch", "mark"}
    BY <1>10 DEF OrderingInv, TypeInv, TypeOK, BroadcastPhaseStart,
                 BroadcastMatchEnd, Goto
  <2>2. QED
    BY <1>1, <1>10, <2>1, PlaceKept
       DEF BroadcastPhaseStart, BroadcastMatchEnd, database
<1>11. CASE DeadlineRaises \/ DeadlineQuiet
  BY <1>1, <1>11, PlaceKept DEF DeadlineRaises, DeadlineQuiet, Fail, Goto, database
<1>12. CASE FetchCommands \/ BatchDone \/ MarkProcessed
  BY <1>1, <1>12, PlaceKept DEF FetchCommands, BatchDone, MarkProcessed, Goto, database
<1>13. CASE RunPause \/ RunResume \/ RunWithoutEffect
  BY <1>1, <1>13, PlaceKept DEF RunPause, RunResume, RunWithoutEffect, database
<1>14. CASE SuspendDeadline \/ ClearPaused
  BY <1>1, <1>14, PlaceKept DEF SuspendDeadline, ClearPaused, Goto
<1>15. CASE LobbyFills \/ OrdersBeforeGenesis \/ \E o \in OrderSets : ReceiveOrders(o)
  BY <1>1, <1>15, PlaceKept
     DEF LobbyFills, OrdersBeforeGenesis, ReceiveOrders, Fail, memory, database
<1>16. CASE (\E c \in Commands : Enqueue(c)) \/ Tick \/ Crash \/ Restart
  BY <1>1, <1>16, PlaceKept DEF Enqueue, Tick, Crash, Restart, memory, database
<1>17. CASE UNCHANGED vars
  BY <1>1, <1>17, PlaceKept DEF vars, database, memory
<1>18. QED
  BY <1>2, <1>3, <1>4, <1>5, <1>6, <1>7, <1>8, <1>9, <1>10, <1>11, <1>12, <1>13,
     <1>14, <1>15, <1>16, <1>17
     DEF Next, Serve, Opening, Recording, Polling, Administering, Players

LEMMA OrderingAlways == Spec => []OrderingInv
BY OrderingInit, OrderingStep, PTL DEF Spec

(* No row is ever recorded for a place the chain has already passed, so the *)
(* UNIQUE constraint of phase_results is never met.                         *)
THEOREM ResultsAreOrdered == Spec => []ResultsOrdered
<1>1. OrderingInv => ResultsOrdered
  BY DEF OrderingInv
<1>2. QED BY <1>1, OrderingAlways, PTL

-----------------------------------------------------------------------------
(* A completed match does not move and its chain does not grow: whatever    *)
(* could do either runs only on an active match or at a control point that   *)
(* is only reached on one.                                                  *)
LEMMA EndStep ==
    ASSUME OrderingInv, [Next]_vars, match.status = "COMPLETED"
    PROVE  match' = match /\ results' = results
<1>1. pc \notin OpeningPoints \cup RecordingPoints
  BY DEF OrderingInv, TypeInv, WorkIsActive
<1>2. ~(Opening \/ Recording)
  BY <1>1 DEF Opening, Recording, RecordGenesis, SetSeedDeadline,
              BroadcastMatchStart, OpenOrders, PersistResult, SetDeadline,
              BroadcastResult, BroadcastPhaseStart, Goto, OpeningPoints,
              RecordingPoints
<1>3. ~(DeadlineAdvance \/ RunAdvance \/ AcceptDraw \/ RunEnd \/ RunStart)
  BY DEF DeadlineAdvance, DeadlineExpired, RunAdvance, BeginAdvance, Resolvable,
         CanAdvance, AcceptDraw, RunEnd, SaveEnd, CanEnd, RunStart, StartAllowed,
         CanStart
<1>4. CASE BroadcastMatchEnd \/ DeadlineRaises \/ DeadlineQuiet
  BY <1>4 DEF BroadcastMatchEnd, DeadlineRaises, DeadlineQuiet, database
<1>5. CASE FetchCommands \/ BatchDone \/ MarkProcessed \/ RunWithoutEffect
  BY <1>5 DEF FetchCommands, BatchDone, MarkProcessed, RunWithoutEffect, database
<1>6. CASE RunPause \/ RunResume \/ SuspendDeadline \/ ClearPaused
  BY <1>6 DEF RunPause, RunResume, SuspendDeadline, ClearPaused
<1>7. CASE LobbyFills \/ OrdersBeforeGenesis \/ \E o \in OrderSets : ReceiveOrders(o)
  BY <1>7 DEF LobbyFills, OrdersBeforeGenesis, ReceiveOrders, database
<1>8. CASE (\E c \in Commands : Enqueue(c)) \/ Tick \/ Crash \/ Restart
  BY <1>8 DEF Enqueue, Tick, Crash, Restart, database
<1>9. CASE UNCHANGED vars
  BY <1>9 DEF vars, database
<1>10. QED
  BY <1>2, <1>3, <1>4, <1>5, <1>6, <1>7, <1>8, <1>9
     DEF Next, Serve, Polling, Administering, Players

(* The end of a match is final.                                             *)
THEOREM EndStaysFinal == Spec => EndIsFinal
<1>1. OrderingInv /\ [Next]_vars
        => [match.status = "COMPLETED" => match' = match /\ results' = results]_vars
  BY EndStep
<1>2. QED BY <1>1, OrderingAlways, PTL DEF Spec, EndIsFinal

-----------------------------------------------------------------------------
(* What is announced.                                                       *)

(* A broadcast adds one message at the end.                                  *)
LEMMA SentGrows ==
    ASSUME TypeOK, NEW type \in MessageTypes, NEW hash \in Seq(BoardSet),
           Broadcast(type, hash)
    PROVE  /\ DOMAIN sent' = DOMAIN sent \cup {Len(sent) + 1}
           /\ \A k \in DOMAIN sent : sent'[k] = sent[k]
           /\ sent'[Len(sent) + 1] = [type |-> type, turn |-> match.turn,
                                      phase |-> match.phase, hash |-> hash]
<1> DEFINE m == [type |-> type, turn |-> match.turn, phase |-> match.phase,
                 hash |-> hash]
<1>1. m \in Message
  BY DEF TypeOK, Message, MatchState
<1>2. sent \in Seq(Message) /\ sent' = Append(sent, m)
  BY DEF TypeOK, Broadcast
<1> HIDE DEF m
<1>3. /\ DOMAIN sent' = DOMAIN sent \cup {Len(sent) + 1}
      /\ \A k \in DOMAIN sent : sent'[k] = sent[k]
      /\ sent'[Len(sent) + 1] = m
  BY <1>1, <1>2, AppendProperties
<1>4. QED BY <1>3 DEF m

-----------------------------------------------------------------------------
(* The ways an action meets what was announced.                             *)

LEMMA NothingAnnounced ==
    ASSUME AnnouncedInv, OrderingInv', sent' = sent, results' = results,
           match.status = "COMPLETED" => match'.status = "COMPLETED",
           pc' \in {"deadline", "result"} =>
              pc \in {"deadline", "result"} /\ match' = match,
           pc' = "matchend" => match'.status = "COMPLETED"
    PROVE  AnnouncedInv'
<1>1. AnnouncesNewest'
  BY DEF AnnouncedInv, AnnouncesNewest, Here
<1>2. PublishedPersisted'
  BY DEF AnnouncedInv, PublishedPersisted, StateHash
<1>3. FinalStateAnnounced'
  BY DEF AnnouncedInv, FinalStateAnnounced, LatestHash, StateHash
<1>4. QED BY <1>1, <1>2, <1>3 DEF AnnouncedInv

LEMMA RowAppended ==
    ASSUME AnnouncedInv, OrderingInv', pc \in {"genesis", "persist"},
           NEW b \in BoardSet, results' = Recorded(b), match' = match,
           sent' = sent, pc' \in {"seed", "deadline"}
    PROVE  AnnouncedInv'
<1>1. /\ DOMAIN results' = 1..(Len(results) + 1)
      /\ DOMAIN results = 1..Len(results) /\ Len(results) \in Nat
      /\ Len(results') = Len(results) + 1
      /\ \A i \in DOMAIN results : results'[i] = results[i]
      /\ results'[Len(results) + 1].turn = match.turn
      /\ results'[Len(results) + 1].phase = match.phase
  BY RecordedRows DEF AnnouncedInv, OrderingInv, TypeInv, TypeOK
<1>2. match.status = "ACTIVE"
  BY DEF AnnouncedInv, OrderingInv, TypeInv, WorkIsActive, OpeningPoints, RecordingPoints
<1>3. \A k \in DOMAIN sent : sent[k].type # "MATCH_END"
  BY <1>2 DEF AnnouncedInv, AnnouncesNewest
<1>4. AnnouncesNewest'
  <2>1. results' # <<>> /\ Here(Len(results))'
    BY <1>1 DEF Here
  <2>2. QED BY <1>3, <2>1 DEF AnnouncesNewest
<1>5. PublishedPersisted'
  <2>1. SUFFICES ASSUME NEW k \in DOMAIN sent, sent[k].type = "PHASE_RESULT"
                 PROVE  \E i \in DOMAIN results' :
                           /\ results'[i].turn = sent[k].turn
                           /\ results'[i].phase = sent[k].phase
                           /\ StateHash(results'[i]) = sent[k].hash
    BY DEF PublishedPersisted
  <2>2. PICK i \in DOMAIN results : /\ results[i].turn = sent[k].turn
                                    /\ results[i].phase = sent[k].phase
                                    /\ StateHash(results[i]) = sent[k].hash
    BY <2>1 DEF AnnouncedInv, PublishedPersisted
  <2>3. i \in DOMAIN results' /\ results'[i] = results[i]
    BY <1>1
  <2>4. QED BY <2>2, <2>3
<1>6. FinalStateAnnounced'
  BY <1>3 DEF FinalStateAnnounced
<1>7. QED BY <1>4, <1>5, <1>6 DEF AnnouncedInv

LEMMA ResultAnnounced ==
    ASSUME AnnouncedInv, OrderingInv', BroadcastResult PROVE AnnouncedInv'
<1>1. TypeOK /\ pc = "result" /\ pc' = "phasestart" /\ results' = results
      /\ match' = match
  BY DEF AnnouncedInv, OrderingInv, TypeInv, BroadcastResult, Goto, database
<1>2. /\ DOMAIN sent' = DOMAIN sent \cup {Len(sent) + 1}
      /\ \A k \in DOMAIN sent : sent'[k] = sent[k]
      /\ sent'[Len(sent) + 1] = [type |-> "PHASE_RESULT", turn |-> match.turn,
                                 phase |-> match.phase, hash |-> LatestHash]
  BY <1>1, SentGrows, LatestHashType DEF BroadcastResult, MessageTypes
<1>3. match.status = "ACTIVE"
  BY <1>1 DEF AnnouncedInv, OrderingInv, TypeInv, WorkIsActive, RecordingPoints
<1>4. \A k \in DOMAIN sent' : sent'[k].type # "MATCH_END"
  BY <1>2, <1>3 DEF AnnouncedInv, AnnouncesNewest
<1>5. AnnouncesNewest' /\ FinalStateAnnounced'
  BY <1>1, <1>4 DEF AnnouncesNewest, FinalStateAnnounced
<1>6. PublishedPersisted'
  <2>1. /\ Len(results) \in DOMAIN results
        /\ results[Len(results)].turn = match.turn
        /\ results[Len(results)].phase = match.phase
        /\ StateHash(results[Len(results)]) = LatestHash
    BY <1>1 DEF AnnouncedInv, AnnouncesNewest, Here, LatestHash, TypeOK
  <2>2. SUFFICES ASSUME NEW k \in DOMAIN sent', sent'[k].type = "PHASE_RESULT"
                 PROVE  \E i \in DOMAIN results :
                           /\ results[i].turn = sent'[k].turn
                           /\ results[i].phase = sent'[k].phase
                           /\ StateHash(results[i]) = sent'[k].hash
    BY <1>1 DEF PublishedPersisted, StateHash
  <2>3. CASE k \in DOMAIN sent
    BY <1>2, <2>2, <2>3 DEF AnnouncedInv, PublishedPersisted
  <2>4. CASE k = Len(sent) + 1
    BY <1>2, <2>1, <2>4
  <2>5. QED BY <1>2, <2>3, <2>4
<1>7. QED BY <1>5, <1>6 DEF AnnouncedInv

LEMMA StartAnnounced ==
    ASSUME AnnouncedInv, OrderingInv', NEW type \in {"MATCH_START", "PHASE_START"},
           NEW hash \in Seq(BoardSet), Broadcast(type, hash), results' = results,
           match' = match, pc' \notin {"deadline", "result", "matchend"}
    PROVE  AnnouncedInv'
<1>1. TypeOK /\ type \in MessageTypes
  BY DEF AnnouncedInv, OrderingInv, TypeInv, MessageTypes
<1>2. /\ DOMAIN sent' = DOMAIN sent \cup {Len(sent) + 1}
      /\ \A k \in DOMAIN sent : sent'[k] = sent[k]
      /\ sent'[Len(sent) + 1] = [type |-> type, turn |-> match.turn,
                                 phase |-> match.phase, hash |-> hash]
  BY <1>1, SentGrows
<1>3. AnnouncesNewest'
  <2>1. \A k \in DOMAIN sent' : sent'[k].type = "MATCH_END" =>
           match.status = "COMPLETED"
    BY <1>2 DEF AnnouncedInv, AnnouncesNewest
  <2>2. QED BY <2>1 DEF AnnouncesNewest
<1>4. PublishedPersisted'
  BY <1>2 DEF AnnouncedInv, PublishedPersisted, StateHash
<1>5. FinalStateAnnounced'
  BY <1>2 DEF AnnouncedInv, FinalStateAnnounced, LatestHash, StateHash
<1>6. QED BY <1>3, <1>4, <1>5 DEF AnnouncedInv

LEMMA EndAnnounced ==
    ASSUME AnnouncedInv, OrderingInv', BroadcastMatchEnd PROVE AnnouncedInv'
<1>1. TypeOK /\ pc' \in {"inbox", "fetch", "mark"} /\ results' = results
      /\ match' = match /\ match.status = "COMPLETED"
  BY DEF AnnouncedInv, AnnouncesNewest, OrderingInv, TypeInv, TypeOK,
         BroadcastMatchEnd, Goto, database
<1>2. /\ DOMAIN sent' = DOMAIN sent \cup {Len(sent) + 1}
      /\ \A k \in DOMAIN sent : sent'[k] = sent[k]
      /\ sent'[Len(sent) + 1] = [type |-> "MATCH_END", turn |-> match.turn,
                                 phase |-> match.phase, hash |-> LatestHash]
  BY <1>1, SentGrows, LatestHashType DEF BroadcastMatchEnd, MessageTypes
<1>3. AnnouncesNewest'
  BY <1>1 DEF AnnouncesNewest
<1>4. PublishedPersisted'
  BY <1>1, <1>2 DEF AnnouncedInv, PublishedPersisted, StateHash
<1>5. FinalStateAnnounced'
  <2>1. LatestHash' = LatestHash
    BY <1>1 DEF LatestHash, StateHash
  <2>2. QED BY <1>2, <2>1 DEF AnnouncedInv, FinalStateAnnounced
<1>6. QED BY <1>3, <1>4, <1>5 DEF AnnouncedInv

-----------------------------------------------------------------------------
LEMMA AnnouncedInit ==
    ASSUME Init PROVE AnnouncedInv
<1>1. DOMAIN sent = {} /\ pc = "inbox"
  BY DEF Init
<1>2. QED
  BY <1>1, OrderingInit
     DEF AnnouncedInv, AnnouncesNewest, PublishedPersisted, FinalStateAnnounced

LEMMA AnnouncedStep ==
    ASSUME AnnouncedInv, [Next]_vars PROVE AnnouncedInv'
<1>1. OrderingInv /\ OrderingInv' /\ TypeOK /\ match \in MatchState
  BY OrderingStep DEF AnnouncedInv, OrderingInv, TypeInv, TypeOK
<1>2. CASE RecordGenesis
  <2>1. DefaultMap \in BoardSet
    BY <1>1, BoardOperations, OrdersAssumption DEF TypeOK
  <2>2. QED BY <1>1, <1>2, <2>1, RowAppended DEF RecordGenesis, Goto
<1>3. CASE PersistResult
  <2>1. board \in BoardSet
    BY <1>1 DEF TypeOK
  <2>2. QED BY <1>1, <1>3, <2>1, RowAppended DEF PersistResult, Goto
<1>4. CASE BroadcastMatchStart
  BY <1>1, <1>4, StartAnnounced, LatestHashType DEF BroadcastMatchStart, Goto, database
<1>5. CASE BroadcastPhaseStart
  <2>1. pc' \in {"inbox", "fetch", "mark"} /\ Broadcast("PHASE_START", <<>>)
    BY <1>1, <1>5 DEF TypeOK, BroadcastPhaseStart, Goto
  <2>2. <<>> \in Seq(BoardSet)
    OBVIOUS
  <2>3. QED BY <1>1, <1>5, <2>1, <2>2, StartAnnounced DEF BroadcastPhaseStart, database
<1>6. CASE BroadcastResult
  BY <1>1, <1>6, ResultAnnounced
<1>7. CASE BroadcastMatchEnd
  BY <1>1, <1>7, EndAnnounced
<1>8. CASE AcceptDraw \/ RunEnd
  <2>1. match'.status = "COMPLETED"
    BY <1>1, <1>8 DEF AcceptDraw, RunEnd, SaveEnd, EndMatch, MatchState
  <2>2. QED BY <1>1, <1>8, <2>1, NothingAnnounced DEF AcceptDraw, RunEnd, SaveEnd
<1>9. CASE DeadlineAdvance \/ RunAdvance
  BY <1>1, <1>9, NothingAnnounced
     DEF DeadlineAdvance, RunAdvance, BeginAdvance, Resolvable, CanAdvance
<1>10. CASE RunStart \/ OpenOrders
  <2>1. match.status # "COMPLETED"
    BY <1>1, <1>10 DEF RunStart, StartAllowed, CanStart, OpenOrders, Goto, OrderingInv,
                       TypeInv, WorkIsActive, OpeningPoints
  <2>2. QED BY <1>1, <1>10, <2>1, NothingAnnounced DEF RunStart, OpenOrders, Goto
<1>11. CASE SetSeedDeadline \/ SetDeadline
  BY <1>1, <1>11, NothingAnnounced DEF SetSeedDeadline, SetDeadline, Goto
<1>12. CASE DeadlineRaises \/ DeadlineQuiet
  BY <1>1, <1>12, NothingAnnounced DEF DeadlineRaises, DeadlineQuiet, Fail, Goto, database
<1>13. CASE FetchCommands \/ BatchDone \/ MarkProcessed
  BY <1>1, <1>13, NothingAnnounced DEF FetchCommands, BatchDone, MarkProcessed, Goto, database
<1>14. CASE RunPause \/ RunResume \/ RunWithoutEffect
  BY <1>1, <1>14, NothingAnnounced DEF RunPause, RunResume, RunWithoutEffect, database
<1>15. CASE SuspendDeadline \/ ClearPaused
  BY <1>1, <1>15, NothingAnnounced DEF SuspendDeadline, ClearPaused, Goto
<1>16. CASE LobbyFills \/ OrdersBeforeGenesis \/ \E o \in OrderSets : ReceiveOrders(o)
  BY <1>1, <1>16, NothingAnnounced
     DEF LobbyFills, OrdersBeforeGenesis, ReceiveOrders, Fail, memory, database,
         AnnouncedInv, AnnouncesNewest
<1>17. CASE (\E c \in Commands : Enqueue(c)) \/ Tick \/ Crash \/ Restart
  BY <1>1, <1>17, NothingAnnounced
     DEF Enqueue, Tick, Crash, Restart, memory, database, AnnouncedInv, AnnouncesNewest
<1>18. CASE UNCHANGED vars
  BY <1>1, <1>18, NothingAnnounced
     DEF vars, database, memory, AnnouncedInv, AnnouncesNewest
<1>19. QED
  BY <1>2, <1>3, <1>4, <1>5, <1>6, <1>7, <1>8, <1>9, <1>10, <1>11, <1>12, <1>13,
     <1>14, <1>15, <1>16, <1>17, <1>18
     DEF Next, Serve, Opening, Recording, Polling, Administering, Players

(* The announcements agree with the store and with the chain they belong to. *)
THEOREM AnnouncedAlways == Spec => []AnnouncedInv
BY AnnouncedInit, AnnouncedStep, PTL DEF Spec

(* Nothing players were told is ever missing from the store: advance_phase   *)
(* broadcasts a result only after its row is committed, and no row changes.  *)
THEOREM ResultsArePersisted == Spec => []PublishedPersisted
<1>1. AnnouncedInv => PublishedPersisted
  BY DEF AnnouncedInv
<1>2. QED BY <1>1, AnnouncedAlways, PTL

(* The final hash players were told is the hash of the state the match ended *)
(* in, whoever ended it.                                                    *)
THEOREM FinalStateIsAnnounced == Spec => []FinalStateAnnounced
<1>1. AnnouncedInv => FinalStateAnnounced
  BY DEF AnnouncedInv
<1>2. QED BY <1>1, AnnouncedAlways, PTL
=============================================================================
