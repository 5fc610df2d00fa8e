------------------------------- MODULE Match -------------------------------
(***************************************************************************)
(* The coordinator of one match: MatchCoordinator (coordinator/match.py)    *)
(* inside the loop of cmd_serve (coordinator/server.py) on top of the       *)
(* SQLite store (coordinator/persistence.py).                               *)
(*                                                                          *)
(* The serving process is sequential; `pc` names the database transaction   *)
(* or the broadcast it performs next.  Every mutation of the store commits  *)
(* by itself, so the process may die between any two of them: Crash keeps   *)
(* the database and what was sent and loses the memory of the process.      *)
(* Operator commands are rows of a table that other processes append to and *)
(* that the loop reads, executes, and only then marks.                      *)
(*                                                                          *)
(* Abstractions.  A board (GameState) is the sequence of adjudication steps *)
(* that produced it from the default map.  The hash of a row commits to its *)
(* board and to the previous hash and is collision free, so it is the       *)
(* sequence of boards of the chain.  A deadline is kept as the time left    *)
(* before it expires, and only the effective orders of the current turn are *)
(* kept: the coordinator never reads those of another turn.                 *)
(***************************************************************************)
EXTENDS Boards

CONSTANTS
    None,            \* SQL NULL
    Duration,        \* time given to each deadline-bound phase (MatchConfig)
    WarningLead,     \* DEADLINE_WARNING_LEAD_SECONDS
    Commands,        \* the operator commands this operator uses
    MaxCommands,     \* bound: commands issued in a behaviour
    MaxCrashes,      \* bound: times something from outside ends the process
    LastTimedTurn    \* bound: the clock runs up to this turn

ASSUME NoneAssumption == None \notin Nat
ASSUME DurationAssumption == Duration \in [TimedPhases -> Nat \ {0}]
ASSUME WarningAssumption == WarningLead \in Nat
ASSUME CommandsAssumption ==
    Commands \subseteq {"start", "advance", "pause", "resume", "end"}
ASSUME BoundsAssumption ==
    MaxCommands \in Nat /\ MaxCrashes \in Nat /\ LastTimedTurn \in Nat

VARIABLES
    match, deadline, paused,     \* the row of table matches
    results,                     \* table phase_results, in id order
    orders,                      \* table orders: what is effective this turn
    queue,                       \* table admin_commands: the unprocessed rows
    full,                        \* table players: all MAX_PLAYERS have joined
    pc, caller,                  \* control point, and where advancing returns
    board,                       \* the local game_state between two steps
    batch,                       \* commands left of the snapshot being run
    warned,                      \* _warned_this_phase
    sent,                        \* everything broadcast so far, oldest first
    issued, crashes              \* the two bounded counters

database == <<match, deadline, paused, results, orders, queue, full>>
memory   == <<pc, caller, board, batch, warned>>
vars     == <<database, memory, sent, issued, crashes>>

-----------------------------------------------------------------------------
(* Boards, hashes and rows.                                                 *)

Row == [turn: Nat, phase: PhaseNames, board: BoardSet, prev: Seq(BoardSet)]

MessageTypes == {"MATCH_START", "PHASE_RESULT", "PHASE_START", "MATCH_END"}

Message == [type: MessageTypes, turn: Nat, phase: PhaseNames, hash: Seq(BoardSet)]

StateHash(row) == Append(row.prev, row.board)

(* get_latest_phase_result and get_phase_result.                            *)
LatestHash == IF results = <<>> THEN <<>> ELSE StateHash(results[Len(results)])

(* Mutant: the query forgets the phase.                                     *)
RowsOfTurn(t, p) == {i \in DOMAIN results : results[i].turn = t}

RowsAt(t, p) == {i \in DOMAIN results : results[i].turn = t /\ results[i].phase = p}

BoardAt(t, p) == results[CHOOSE i \in RowsAt(t, p) : TRUE].board

(* _load_game_state: the row of the current phase or else the latest row.   *)
LoadedBoard ==
    IF RowsAt(match.turn, match.phase) # {}
    THEN BoardAt(match.turn, match.phase)
    ELSE results[Len(results)].board

(* Appends the row a phase is recorded with, linked to the latest one.      *)
Recorded(b) == Append(results, [turn |-> match.turn, phase |-> match.phase,
                                board |-> b, prev |-> LatestHash])

Broadcast(type, hash) ==
    sent' = Append(sent, [type |-> type, turn |-> match.turn,
                          phase |-> match.phase, hash |-> hash])

-----------------------------------------------------------------------------
(* advance_phase, up to its first write.                                    *)

(* advance_phase raises where this is false: the match is not active, it    *)
(* sits in DIPLOMACY, or the row of the turn's start is missing.            *)
Resolvable ==
    /\ CanAdvance(match)
    /\ \/ match.phase \in {"ORDERS", "RETREAT"} /\ RowsAt(match.turn, "ORDERS") # {}
       \/ match.phase = "BUILD" /\ results # <<>>

(* Mutant: the retreats forget to adjudicate the movement again.            *)
ResolvedFromTurnStart ==
    CASE match.phase = "ORDERS"  -> Movement(BoardAt(match.turn, "ORDERS"), orders)
      [] match.phase = "RETREAT" -> Retreats(BoardAt(match.turn, "ORDERS"))
      [] match.phase = "BUILD"   -> Adjustments(LoadedBoard)

(* What the phase's adjudication makes of the stored boards.                *)
ResolvedBoard ==
    CASE match.phase = "ORDERS"  -> Movement(BoardAt(match.turn, "ORDERS"), orders)
      [] match.phase = "RETREAT" ->
            Retreats(Movement(BoardAt(match.turn, "ORDERS"), orders))
      [] match.phase = "BUILD"   -> Adjustments(LoadedBoard)

(* The orders of a turn nobody has played yet are empty.                    *)
OrdersFor(m) == IF m.turn = match.turn THEN orders ELSE NoOrders

(* advance_phase from its entry to save_match_state.                        *)
BeginAdvance(returnTo) ==
    /\ Resolvable
    /\ \E dislodged, adjust \in BOOLEAN :
          match' = Landing(match, dislodged, adjust)
    /\ orders' = OrdersFor(match')
    /\ board' = ResolvedBoard
    /\ pc' = "persist"
    /\ caller' = returnTo
    /\ UNCHANGED <<deadline, paused, results, queue, full, batch, warned,
                   sent, issued, crashes>>

-----------------------------------------------------------------------------
(* The transactions and broadcasts that follow.                             *)

(* One step of the process from control point `from` to `to`.               *)
Goto(from, to) == pc = from /\ pc' = to

(* lobby.start_match records the first link of the chain.                   *)
RecordGenesis ==
    /\ Goto("genesis", "seed")
    /\ results' = Recorded(DefaultMap)
    /\ UNCHANGED <<match, deadline, paused, orders, queue, full,
                   caller, board, batch, warned, sent, issued, crashes>>

SetSeedDeadline ==
    /\ Goto("seed", "matchstart")
    /\ deadline' = Duration["ORDERS"]
    /\ UNCHANGED <<match, paused, results, orders, queue, full,
                   caller, board, batch, warned, sent, issued, crashes>>

BroadcastMatchStart ==
    /\ Goto("matchstart", "open")
    /\ Broadcast("MATCH_START", LatestHash)
    /\ UNCHANGED <<database, caller, board, batch, warned, issued, crashes>>

(* Mutant: the opening of the first ORDERS phase is not persisted.          *)
OpenOrdersUnrecorded ==
    /\ Goto("open", "deadline")
    /\ match' = AdvancePhase(match, FALSE, FALSE)
    /\ board' = DefaultMap
    /\ UNCHANGED <<deadline, paused, results, orders, queue, full,
                   caller, batch, warned, sent, issued, crashes>>

(* MatchCoordinator.start_match moves on to ORDERS and falls into the same  *)
(* record, deadline and broadcasts as advance_phase.                        *)
OpenOrders ==
    /\ Goto("open", "persist")
    /\ match' = AdvancePhase(match, FALSE, FALSE)
    /\ board' = DefaultMap
    /\ UNCHANGED <<deadline, paused, results, orders, queue, full,
                   caller, batch, warned, sent, issued, crashes>>

(* Mutant: the result is announced without having been stored.              *)
PersistNothing ==
    /\ Goto("persist", "deadline")
    /\ UNCHANGED <<database, caller, board, batch, warned, sent, issued, crashes>>

(* record_phase_result.  Its INSERT fails on a second row for a (turn,      *)
(* phase); that this never happens is ResultsOrdered, so it is not guarded. *)
PersistResult ==
    /\ Goto("persist", "deadline")
    /\ results' = Recorded(board)
    /\ UNCHANGED <<match, deadline, paused, orders, queue, full,
                   caller, board, batch, warned, sent, issued, crashes>>

(* Mutant: entering a phase clears the deadline and sets none.              *)
SetNoDeadline ==
    /\ Goto("deadline", "result")
    /\ deadline' = None
    /\ warned' = FALSE
    /\ UNCHANGED <<match, paused, results, orders, queue, full,
                   caller, board, batch, sent, issued, crashes>>

SetDeadline ==
    /\ Goto("deadline", "result")
    /\ deadline' = Duration[match.phase]
    /\ warned' = FALSE
    /\ UNCHANGED <<match, paused, results, orders, queue, full,
                   caller, board, batch, sent, issued, crashes>>

BroadcastResult ==
    /\ Goto("result", "phasestart")
    /\ Broadcast("PHASE_RESULT", LatestHash)
    /\ UNCHANGED <<database, caller, board, batch, warned, issued, crashes>>

BroadcastPhaseStart ==
    /\ Goto("phasestart", caller)
    /\ Broadcast("PHASE_START", <<>>)
    /\ board' = DefaultMap
    /\ UNCHANGED <<database, caller, batch, warned, issued, crashes>>

(* Mutant: the hash before the latest one is announced as the final state.  *)
BroadcastStaleEnd ==
    /\ Goto("matchend", caller)
    /\ Broadcast("MATCH_END", IF results = <<>> THEN <<>> ELSE results[Len(results)].prev)
    /\ UNCHANGED <<database, caller, board, batch, warned, issued, crashes>>

BroadcastMatchEnd ==
    /\ Goto("matchend", caller)
    /\ Broadcast("MATCH_END", LatestHash)
    /\ UNCHANGED <<database, caller, board, batch, warned, issued, crashes>>

(* phases.end_match and save_match_state, for an operator or for a draw.    *)
SaveEnd(returnTo) ==
    /\ CanEnd(match)
    /\ match' = EndMatch(match)
    /\ pc' = "matchend"
    /\ caller' = returnTo
    /\ UNCHANGED <<deadline, paused, results, orders, queue, full,
                   board, batch, warned, sent, issued, crashes>>

-----------------------------------------------------------------------------
(* poll(): the inbox, then the deadline.                                    *)

(* Joins and leaves of the lobby reduce to the moment it becomes full.      *)
LobbyFills ==
    /\ pc = "inbox" /\ ~full /\ match.status = "LOBBY"
    /\ full' = TRUE
    /\ UNCHANGED <<match, deadline, paused, results, orders, queue,
                   memory, sent, issued, crashes>>

(* Mutant: orders are accepted in every phase.                              *)
ReceiveOrdersAnyTime(o) ==
    /\ pc = "inbox"
    /\ results # <<>>
    /\ orders' = o
    /\ UNCHANGED <<match, deadline, paused, results, queue, full,
                   memory, sent, issued, crashes>>

(* _on_order_submit and _on_order_cancel as far as they change what is      *)
(* effective for the turn; the match status is not consulted.               *)
ReceiveOrders(o) ==
    /\ pc = "inbox"
    /\ results # <<>>
    /\ match.phase = "ORDERS"
    /\ orders' = o
    /\ UNCHANGED <<match, deadline, paused, results, queue, full,
                   memory, sent, issued, crashes>>

(* An uncaught exception ends cmd_serve.                                    *)
Fail ==
    /\ pc' = "failed"
    /\ caller' = "inbox" /\ board' = DefaultMap /\ batch' = 0 /\ warned' = FALSE

(* _on_order_submit calls _load_game_state before it looks at the phase,    *)
(* and that raises while no row has been recorded.                          *)
OrdersBeforeGenesis ==
    /\ pc = "inbox"
    /\ results = <<>>
    /\ crashes < MaxCrashes
    /\ Fail
    /\ crashes' = crashes + 1
    /\ UNCHANGED <<database, sent, issued>>

(* _finalize_draw of an accepted draw.                                      *)
AcceptDraw ==
    /\ pc = "inbox"
    /\ SaveEnd("inbox")

(* check_deadline, when the match is active and the deadline has passed.    *)
DeadlineExpired ==
    /\ pc = "inbox"
    /\ match.status = "ACTIVE"
    /\ deadline = 0

DeadlineAdvance == DeadlineExpired /\ BeginAdvance("fetch")

DeadlineRaises ==
    /\ DeadlineExpired
    /\ ~Resolvable
    /\ Fail
    /\ UNCHANGED <<database, sent, issued, crashes>>

WarningDue == deadline # None /\ deadline > 0 /\ deadline <= WarningLead

DeadlineQuiet ==
    /\ Goto("inbox", "fetch")
    /\ ~DeadlineExpired
    /\ warned' = (warned \/ (match.status = "ACTIVE" /\ WarningDue))
    /\ UNCHANGED <<database, caller, board, batch, sent, issued, crashes>>

-----------------------------------------------------------------------------
(* The loop over the pending operator commands.                             *)

FetchCommands ==
    /\ Goto("fetch", "admin")
    /\ batch' = Len(queue)
    /\ UNCHANGED <<database, caller, board, warned, sent, issued, crashes>>

BatchDone ==
    /\ Goto("admin", "inbox")
    /\ batch = 0
    /\ UNCHANGED <<database, caller, board, batch, warned, sent, issued, crashes>>

Running(c) == pc = "admin" /\ batch > 0 /\ queue # <<>> /\ Head(queue) = c

StartAllowed == full /\ CanStart(match)

(* lobby.start_match up to save_match_state.                                *)
RunStart ==
    /\ Running("start")
    /\ StartAllowed
    /\ match' = StartMatch(match)
    /\ pc' = "genesis"
    /\ caller' = "mark"
    /\ UNCHANGED <<deadline, paused, results, orders, queue, full,
                   board, batch, warned, sent, issued, crashes>>

RunAdvance == Running("advance") /\ BeginAdvance("mark")

RunEnd == Running("end") /\ SaveEnd("mark")

(* Mutant: the deadline is cleared before the time left is remembered.      *)
RunPauseClearing ==
    /\ Running("pause")
    /\ deadline # None
    /\ deadline' = None
    /\ pc' = "suspend"
    /\ UNCHANGED <<match, paused, results, orders, queue, full,
                   caller, board, batch, warned, sent, issued, crashes>>

(* pause: remember the time left, then, separately, clear the deadline.     *)
RunPause ==
    /\ Running("pause")
    /\ deadline # None
    /\ paused' = deadline
    /\ pc' = "suspend"
    /\ UNCHANGED <<match, deadline, results, orders, queue, full,
                   caller, board, batch, warned, sent, issued, crashes>>

SuspendDeadline ==
    /\ Goto("suspend", "mark")
    /\ deadline' = None
    /\ UNCHANGED <<match, paused, results, orders, queue, full,
                   caller, board, batch, warned, sent, issued, crashes>>

(* resume: set the deadline, then, separately, forget the time remembered.  *)
RunResume ==
    /\ Running("resume")
    /\ paused # None
    /\ deadline' = paused
    /\ pc' = "unpause"
    /\ UNCHANGED <<match, paused, results, orders, queue, full,
                   caller, board, batch, warned, sent, issued, crashes>>

ClearPaused ==
    /\ Goto("unpause", "mark")
    /\ paused' = None
    /\ warned' = FALSE
    /\ UNCHANGED <<match, deadline, results, orders, queue, full,
                   caller, board, batch, sent, issued, crashes>>

(* A command that raises is logged by the loop; one with nothing to do      *)
(* returns.  Either way nothing has been written.                           *)
RunWithoutEffect ==
    /\ \/ Running("start") /\ ~StartAllowed
       \/ Running("advance") /\ ~Resolvable
       \/ Running("end") /\ ~CanEnd(match)
       \/ Running("pause") /\ deadline = None
       \/ Running("resume") /\ paused = None
    /\ pc' = "mark"
    /\ UNCHANGED <<database, caller, board, batch, warned, sent, issued, crashes>>

(* Mutant: the executed command is not marked.                              *)
MarkNothing ==
    /\ Goto("mark", "admin")
    /\ batch' = batch - 1
    /\ UNCHANGED <<database, caller, board, warned, sent, issued, crashes>>

MarkProcessed ==
    /\ Goto("mark", "admin")
    /\ queue' = Tail(queue)
    /\ batch' = batch - 1
    /\ UNCHANGED <<match, deadline, paused, results, orders, full,
                   caller, board, warned, sent, issued, crashes>>

-----------------------------------------------------------------------------
(* The operator's other processes, the clock, and the death and restart of  *)
(* the serving process.                                                     *)

Enqueue(c) ==
    /\ issued < MaxCommands
    /\ queue' = Append(queue, c)
    /\ issued' = issued + 1
    /\ UNCHANGED <<match, deadline, paused, results, orders, full,
                   memory, sent, crashes>>

(* Mutant: the time left of an expired deadline is not held at zero.        *)
TickPastExpiry ==
    /\ match.turn <= LastTimedTurn
    /\ deadline # None
    /\ deadline' = deadline - 1
    /\ UNCHANGED <<match, paused, results, orders, queue, full,
                   memory, sent, issued, crashes>>

Tick ==
    /\ match.turn <= LastTimedTurn
    /\ deadline # None /\ deadline > 0
    /\ deadline' = deadline - 1
    /\ UNCHANGED <<match, paused, results, orders, queue, full,
                   memory, sent, issued, crashes>>

Alive == pc \notin {"down", "failed"}

Crash ==
    /\ Alive
    /\ crashes < MaxCrashes
    /\ crashes' = crashes + 1
    /\ pc' = "down"
    /\ caller' = "inbox" /\ board' = DefaultMap /\ batch' = 0 /\ warned' = FALSE
    /\ UNCHANGED <<database, sent, issued>>

Restart ==
    /\ ~Alive
    /\ pc' = "inbox"
    /\ UNCHANGED <<database, caller, board, batch, warned, sent, issued, crashes>>

-----------------------------------------------------------------------------
(* create_match, and a serve process that has just come up.                 *)
Init ==
    /\ match = NewMatch
    /\ deadline = None /\ paused = None
    /\ results = <<>> /\ orders = NoOrders
    /\ queue = <<>> /\ full = FALSE
    /\ pc = "inbox" /\ caller = "inbox"
    /\ board = DefaultMap /\ batch = 0 /\ warned = FALSE
    /\ sent = <<>> /\ issued = 0 /\ crashes = 0

Opening == RecordGenesis \/ SetSeedDeadline \/ BroadcastMatchStart \/ OpenOrders

Recording == PersistResult \/ SetDeadline \/ BroadcastResult \/ BroadcastPhaseStart

Polling == DeadlineAdvance \/ DeadlineRaises \/ DeadlineQuiet

Administering ==
    \/ FetchCommands \/ BatchDone \/ MarkProcessed
    \/ RunStart \/ RunAdvance \/ RunEnd \/ RunPause \/ RunResume
    \/ RunWithoutEffect \/ SuspendDeadline \/ ClearPaused

Serve == Opening \/ Recording \/ BroadcastMatchEnd \/ Polling \/ Administering

Players == LobbyFills \/ AcceptDraw \/ OrdersBeforeGenesis
           \/ \E o \in OrderSets : ReceiveOrders(o)

Next ==
    \/ Serve
    \/ Players
    \/ \E c \in Commands : Enqueue(c)
    \/ Tick
    \/ Crash
    \/ Restart

Spec == Init /\ [][Next]_vars

(* The loop of cmd_serve always takes its next step, time passes, and the   *)
(* operator starts `serve` again after it ended.                            *)
Fairness == WF_vars(Serve) /\ WF_vars(Tick) /\ WF_vars(Restart)

FairSpec == Spec /\ Fairness
-----------------------------------------------------------------------------
(* Properties.                                                              *)

ControlPoints ==
    {"inbox", "fetch", "admin", "mark", "genesis", "seed", "matchstart", "open",
     "persist", "deadline", "result", "phasestart", "matchend", "suspend",
     "unpause", "down", "failed"}

(* Every variable of the coordinator keeps to its type: the columns of the  *)
(* store, the control points of the loop, and what was broadcast.           *)
TypeOK ==
    /\ match \in MatchState
    /\ deadline \in Nat \cup {None} /\ paused \in Nat \cup {None}
    /\ results \in Seq(Row) /\ orders \in OrderSets
    /\ queue \in Seq(Commands) /\ full \in BOOLEAN
    /\ pc \in ControlPoints /\ caller \in {"inbox", "fetch", "mark"}
    /\ board \in BoardSet /\ batch \in Nat /\ warned \in BOOLEAN
    /\ sent \in Seq(Message) /\ issued \in Nat /\ crashes \in Nat

(* The rows of phase_results come strictly forward in the game, so no INSERT *)
(* of _persist_phase_result ever meets UNIQUE (match_id, turn, phase), even  *)
(* when a crash left a phase saved without its row and the phase is resolved *)
(* again or skipped after the restart.                                       *)
ResultsOrdered ==
    \A i, j \in DOMAIN results :
        i < j => Before(results[i].turn, results[i].phase,
                        results[j].turn, results[j].phase)

(* A PHASE_RESULT that players were sent is a row of the store, and remains  *)
(* one whatever crashes follow: the chain players hold is never forked.      *)
PublishedPersisted ==
    \A k \in DOMAIN sent : sent[k].type = "PHASE_RESULT" =>
        \E i \in DOMAIN results :
            /\ results[i].turn = sent[k].turn
            /\ results[i].phase = sent[k].phase
            /\ StateHash(results[i]) = sent[k].hash

(* MATCH_END carries the hash of the state the match really finished in,     *)
(* whether an operator or a draw ended it, between any two other steps.      *)
FinalStateAnnounced ==
    \A k \in DOMAIN sent : sent[k].type = "MATCH_END" => sent[k].hash = LatestHash

(* The history of each recorded board extends those recorded before it.      *)
(* RETREAT stores no movement result and adjudicates the movement again from *)
(* the turn's start and the stored orders: it must find the movement that    *)
(* was already published, also across a restart.                             *)
HistoryExtends ==
    \A i, j \in DOMAIN results :
        i < j => IsPrefix(results[i].board, results[j].board)

(* Once COMPLETED, no command, late deadline or restart moves the match or   *)
(* adds to its chain.                                                        *)
EndIsFinal ==
    [][match.status = "COMPLETED" => match' = match /\ results' = results]_vars

(* Whenever the coordinator polls, it can resolve the phase the match is in: *)
(* nothing it needs was only in the memory of an earlier process, as the     *)
(* docstring of match.py promises.                                           *)
AlwaysResolvable == pc = "inbox" /\ match.status = "ACTIVE" => Resolvable

(* The board a turn starts from has seen one movement for every turn before. *)
NoMovementLost ==
    \A i \in DOMAIN results : results[i].phase = "ORDERS" =>
        Movements(results[i].board) = results[i].turn - 1

(* A match in play never loses its clock: past its opening it has a deadline *)
(* or remembers the time left of a pause, also when the process dies between *)
(* the two transactions of a pause, a resume or the start of a phase, and    *)
(* the command is executed a second time after the restart.                  *)
ClockKept ==
    match.status = "ACTIVE" /\ match.phase # "DIPLOMACY"
        => deadline # None \/ paused # None

At(t, p) == match.status = "ACTIVE" /\ match.turn = t /\ match.phase = p

(* Paused by the operator: no deadline runs, and the time left is kept.      *)
Suspended == deadline = None /\ paused # None

(* No phase lasts for ever: unless it is suspended or the match ends, its    *)
(* deadline passes and it is resolved, whatever players send.  Time left of  *)
(* a pause that was advanced past is no excuse: the phase entered then has a *)
(* deadline of its own, and a late resume only replaces it.                 *)
PhaseResolved ==
    \A t \in 1..LastTimedTurn, p \in TimedPhases :
        At(t, p) ~> ~At(t, p) \/ Suspended

(* Every operator command is eventually processed.                           *)
CommandsProcessed ==
    \A n \in 1..MaxCommands : issued >= n ~> issued - Len(queue) >= n

-----------------------------------------------------------------------------
(* The match implements Game.  The transaction that records a row is the    *)
(* commit point of a phase: between save_match_state and that row, Game is  *)
(* still in the phase before, and it has not begun before the second row.   *)

Opened == Len(results) >= 2

GameChain ==
    [i \in 1..(IF Opened THEN Len(results) ELSE 0) |->
        [turn |-> results[i].turn, phase |-> results[i].phase,
         board |-> results[i].board]]

GameStatus == IF Opened THEN match.status ELSE "LOBBY"

AbstractGame == INSTANCE Game WITH status <- GameStatus, chain <- GameChain

(* While the process is not killed between two transactions, every behaviour *)
(* of the coordinator is a behaviour of Game: no phase is resolved twice or  *)
(* skipped, and each result applies one adjudication to the result before.   *)
ImplementsGame == AbstractGame!Spec

(* What the documents say of commands, "the command sits queued until one    *)
(* starts" (server.py): in a match past its opening every one is processed,  *)
(* although a crash may cut the resolution of a phase.                      *)
CommandsProcessedInPlay ==
    \A n \in 1..MaxCommands : Opened /\ issued >= n ~> issued - Len(queue) >= n

-----------------------------------------------------------------------------
(* The inductive invariants behind TypeOK, ResultsOrdered and EndIsFinal,    *)
(* then PublishedPersisted and FinalStateAnnounced.                         *)

OpeningPoints == {"genesis", "seed", "matchstart", "open"}

RecordingPoints == {"persist", "deadline", "result", "phasestart"}

Here(i) == results[i].turn = match.turn /\ results[i].phase = match.phase

Behind(i) == Before(results[i].turn, results[i].phase, match.turn, match.phase)

(* The commands left of the snapshot are still pending rows, and one of them *)
(* is there to be marked whenever the process is executing a command.        *)
BatchIsPending ==
    /\ batch <= Len(queue)
    /\ pc \in OpeningPoints => caller = "mark"
    /\ \/ pc \in {"mark", "suspend", "unpause"}
       \/ pc \in OpeningPoints \cup RecordingPoints \cup {"matchend"} /\ caller = "mark"
       => batch >= 1

(* start_match and advance_phase only run on an active match: start_match   *)
(* is in DIPLOMACY until it opens ORDERS, and a phase that is about to be   *)
(* recorded and timed has a duration.                                       *)
WorkIsActive ==
    /\ pc \in OpeningPoints \cup RecordingPoints => match.status = "ACTIVE"
    /\ pc \in OpeningPoints => match.phase = "DIPLOMACY"
    /\ pc \in RecordingPoints => match.phase \in TimedPhases

TypeInv == TypeOK /\ BatchIsPending /\ WorkIsActive

(* Nothing has been recorded before the operator's start took effect.       *)
LobbyIsEmpty == match.status = "LOBBY" \/ pc = "genesis" => results = <<>>

(* The saved place of the match is never behind the chain, and it is        *)
(* strictly ahead while the row for it is still to be written.              *)
ChainBehindMatch ==
    \A i \in DOMAIN results :
        /\ Here(i) \/ Behind(i)
        /\ pc \in {"genesis", "persist"} => Behind(i)

OrderingInv == TypeInv /\ LobbyIsEmpty /\ ChainBehindMatch /\ ResultsOrdered

(* What is about to be announced is what the store says: PHASE_RESULT comes  *)
(* right after its row, and MATCH_END only once the match is over.          *)
AnnouncesNewest ==
    /\ pc \in {"deadline", "result"} => results # <<>> /\ Here(Len(results))
    /\ pc = "matchend" => match.status = "COMPLETED"
    /\ \A k \in DOMAIN sent : sent[k].type = "MATCH_END" => match.status = "COMPLETED"

(* The clock of the match, and what is half done to it between the two      *)
(* transactions of a pause or a resume and before ORDERS opens.             *)
ClockInv ==
    /\ TypeInv /\ ClockKept
    /\ pc = "suspend" => paused # None
    /\ pc \in {"unpause", "matchstart", "open"} => deadline # None

AnnouncedInv ==
    OrderingInv /\ AnnouncesNewest /\ PublishedPersisted /\ FinalStateAnnounced

-----------------------------------------------------------------------------
(* The inductive invariant behind HistoryExtends, with any number of crashes. *)

(* The row of a RETREAT phase, written or about to be, is the movement of    *)
(* the turn's start with the orders that are still effective.               *)
MovementRemade ==
    \A j \in RowsAt(match.turn, "ORDERS") :
        match.phase = "RETREAT" =>
            LET remade == Movement(results[j].board, orders)
            IN  /\ \A i \in RowsAt(match.turn, "RETREAT") : results[i].board = remade
                /\ pc = "persist" => board = remade

HistoryInv ==
    /\ OrderingInv /\ HistoryExtends /\ MovementRemade
    /\ \A i \in DOMAIN results : results[i].phase \in TimedPhases \cup {"DIPLOMACY"}
    /\ pc \in OpeningPoints => \A i \in DOMAIN results : results[i].board = DefaultMap
    /\ pc = "persist" => \A i \in DOMAIN results : IsPrefix(results[i].board, board)

-----------------------------------------------------------------------------
(* The inductive invariant behind AlwaysResolvable, NoMovementLost and       *)
(* ImplementsGame: as long as nothing from outside ends the process.        *)

Genesis ==
    /\ Len(results) = 1 /\ results[1].board = DefaultMap
    /\ results[1].turn = 1 /\ results[1].phase = "DIPLOMACY"

(* The row about to be written is the second one, or resolves the newest.    *)
PendingLink ==
    \/ /\ Genesis
       /\ board = DefaultMap /\ match.turn = 1 /\ match.phase = "ORDERS"
    \/ /\ Opened /\ results[Len(results)].phase \in TimedPhases
       /\ board \in AbstractGame!Outcomes
       /\ \E dislodged, adjust \in BOOLEAN :
              match = Landing(AbstractGame!Place, dislodged, adjust)

(* A match that has been opened is at the place of its newest row, and the   *)
(* row its turn started with is there.                                      *)
Settled ==
    /\ Opened /\ Here(Len(results))
    /\ match.phase \in TimedPhases
    /\ RowsAt(match.turn, "ORDERS") # {}

(* How many movements there have been where a row was written.               *)
MovementsCounted ==
    \A i \in DOMAIN results :
        Movements(results[i].board) =
            IF results[i].phase \in {"DIPLOMACY", "ORDERS"} THEN results[i].turn - 1
                                                            ELSE results[i].turn

Uninterrupted ==
    /\ Alive
    /\ pc \in OpeningPoints => match.turn = 1
    /\ pc \in OpeningPoints \ {"genesis"} => Genesis
    /\ pc = "persist" => /\ PendingLink
                         /\ match.phase # "ORDERS" => RowsAt(match.turn, "ORDERS") # {}
    /\ match.status # "LOBBY" /\ pc \notin OpeningPoints \cup {"persist"} => Settled
    /\ MovementsCounted

SteadyInv == HistoryInv /\ (crashes = 0 => Uninterrupted)
=============================================================================
