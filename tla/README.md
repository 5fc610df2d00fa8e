# Verification of the rns-diplomacy coordinator

This directory specifies the coordinator of an *rns-diplomacy* match in TLA+:
the life cycle of a match, the deadline and operator driven orchestration over
its SQLite store, order submission over an unreliable network, draw
negotiation, the adjudication of a turn, and the players: joining, the commands
of the client with their files, the orders its library offers, and the check of the
match history against a coordinator that need not be honest. TLC
checks small instances; TLAPS proves every safety property of the passing runs,
and the two refinements, for every value of the constants. Paths below are relative to `src/`.

## The system

One process, `coordinator/server.py serve`, holds the network connection of a
match. Its loop drains the inbox, checks the phase's deadline, executes the
operator commands other processes have queued in the database, and sleeps.
Everything that must survive a restart is in SQLite
(`coordinator/persistence.py`); every mutation there is a transaction *of its
own*, so an operation that needs three mutations can be cut in three places.
Players talk to the coordinator over Reticulum, which may lose, repeat and
reorder messages.

| Component | State it keeps | Operations | Talks to | Hard because |
|---|---|---|---|---|
| match life cycle (`coordinator/phases.py`) | none (pure) | `start_match`, `end_match`, `advance_phase` | called by match, lobby, draws | conditional phases, illegal transitions |
| match coordinator (`coordinator/match.py`) | `_warned_this_phase`, join attempts, outbound sequence number, all volatile | `poll`, `handle_inbound`, `check_deadline`, `advance_phase`, `start_match`, `end_match`, `pause`, `resume` | store, adjudicator, transport | several transactions per operation, crashes between them; RETREAT recomputes the movement from stored data |
| store (`coordinator/persistence.py`) | tables `matches`, `players`, `orders`, `phase_results`, `draw_votes`, `admin_commands`, `sender_sequence_numbers` | one transaction per mutation | shared by `serve` and the operator's short-lived processes | UNIQUE keys, "latest" queries |
| serving process (`coordinator/server.py`) | the snapshot of pending commands | `cmd_serve`, `_process_admin_command`, `_enqueue_and_wait` | store, coordinator | execute-then-mark; what raises inside and outside its `try` |
| order handling (`coordinator/orders.py`) | table `orders` | submit, update, cancel, status, effective orders | store, validation | two writes per message, revisions chosen by players, late messages |
| draws (`coordinator/draws.py`) | table `draw_votes` | propose, vote, evaluate, apply | store, phases | votes about other turns, after the end, from strangers |
| lobby (`coordinator/lobby.py`) | table `players` | join, `start_match` | store, phases | repeated joins, the half-started match |
| deadlines (`shared/time.py`) | none | `Deadline` | coordinator | expiry against warning lead, pause |
| adjudicator (`engine/adjudicator.py`, `engine/state.py`) | none (pure) | movement, retreats, adjustments, ownership | coordinator, client verification | recursion over cyclic move graphs |
| map, model, orders (`engine/`) | static data | | | |
| hash chain (`engine/hashing.py`) | none | canonical form, chain hash | coordinator, client | |
| player client (`client/transport.py`, `client/cli.py`, `client/orders.py`) | last phase, results, session file with its sequence number and anchor, log of results | join, order, draw, poll, compose | coordinator | fresh process per command, replay guard, commands that overlap on the same files |
| history verification (`client/verification.py`) | none | `verify_history` | client log | lost, repeated, reordered, forged results |
| wire format (`protocol/`), transports (`shared/`), identities | | encode, validate, send, receive | everything | I/O and data conversion |

What makes each part correct:

- **life cycle and orchestration**: every phase is resolved exactly once, in
  order, from the board before it; a turn's movement is neither lost nor
  repeated; a completed match stays completed; a phase in play always ends.
- **result chain**: rows come strictly forward, each linked to the one before;
  what players were told is in the store and stays there; the announced final
  hash is that of the last state.
- **commands**: each is processed, and a repeated or misplaced one does no harm.
- **orders**: what is adjudicated is what the player was last told is accepted,
  an old message never replaces a newer one, and once a turn is closed its
  orders are frozen; what the client library offers is what the adjudicator executes.
- **draws**: a match ends by a draw if and only if the consent is on record.
- **adjudicator**: the verdicts are those of the rules, whichever unit the search
  looks at first; no two units ever share a region; a faction that has too many
  units ends the turn with exactly as many as centres.
- **lobby**: a faction has one holder, and every answer about it is the one on
  record.
- **client**: commands cut anywhere leave a session file from which a later one
  still gets through the replay guard; the history check says OK of exactly the
  unbroken runs of what was published; two histories that pass it and meet in one
  hash are the same before it, and two that part are a proof; overlapping commands
  neither lose a settled anchor nor repeat a result without limit.

## Modules

| Module | Models | Notes |
|---|---|---|
| `Phases` | `coordinator/phases.py`, and where `advance_phase` of `match.py` lands | operators on a record `[status, phase, turn]`; what raises `InvalidTransitionError` is a guard (`CanStart`, `CanEnd`, `CanAdvance`) |
| `Boards` | what the orchestration can tell apart of a `GameState` | a board is the sequence of adjudication steps that made it |
| `Game` | abstract specification: a chain of results, each one adjudication of the result before, taken in one step | refined by `Match` without crashes |
| `Match` | `MatchCoordinator` inside `cmd_serve` over the store | see below |
| `OrderBook` | `coordinator/orders.py` behind the replay guard of `handle_inbound`, over table `orders` and a network that loses, repeats and reorders | three transactions per message: sequence number, SUPERSEDED, new row |
| `Ballot` | abstract specification: per player, the newest message heard and what counts; per closed turn, what it was settled with | implemented by `OrderBook`, crashes included |
| `Draws` | `coordinator/draws.py` and `_finalize_draw` over table `draw_votes` | two transactions per accepted draw |
| `Adjudicator` | `engine/adjudicator.py` and `engine/state.py` in the order `advance_phase` calls them | the recursion of `resolve_move` as a stack, one call or return per step |
| `Options` | `client/orders.py`, `get_legal_moves` of `engine/state.py` | operators on the state of `Adjudicator`: what the client library offers for a unit |
| `Session` | `coordinator/lobby.py` behind `handle_inbound` and its join rate limit, `client/cli.py`, `client/transport.py`, `client/verification.py` | a command is a process that can be cut anywhere; one at a time, an honest coordinator |
| `Chain` | the signed hash chain, and `client/verification.py` over links of any content | operators on sequences of links; `Hash` is a constant that does not collide |
| `Client` | `client/cli.py` over `session.json` and `phase_results.jsonl` | any number of commands at once; what they are sent is anything |
| `MCMatch`, `MCOrderBook`, `MCDraws`, `MCAdjudicator`, `MCSession`, `MCClient` | values for TLC | |
| `PhaseProofs`, `MatchProofs`, `GameProofs`, `OrderBookProofs`, `DrawProofs`, `AdjudicatorProofs`, `SessionProofs`, `ClientProofs` | theorems | `GameProofs` extends `MatchProofs`, `AdjudicatorProofs` is about `Options` too |

`Match`, `OrderBook` and `Draws` share `Phases`. `Match` stands for the whole
match and reduces the other two to what they change for it: `ReceiveOrders`
replaces the effective orders of the current turn, and `AcceptDraw` ends the
match. `OrderBook` and `Draws` reduce `Match` in turn to phases that advance
and a match that ends. The boundary is justified by the queries: `advance_phase`
reads orders only through `get_effective_orders` of the match's turn, and
`OrderBook!FrozenAfterClose` is the fact about them that `Match` relies on when
it keeps one set of orders per turn for the second adjudication in RETREAT.
`Adjudicator` is what a step of `Boards` stands for: `Match` leaves free whether
a movement dislodges and whether a board is balanced, `Adjudicator` works it out.
`Session` sees of `Match` that it starts once every seat is filled and then
publishes one link of the chain after the other; `Match!PublishedPersisted` and
`ResultsOrdered` say that the links it counts are those of the store. `Session`
and `Client` cut the client along the two things its files are for: the sequence
numbers and the faction are in `Session`, where the coordinator answers; the
anchor and the log are in `Client`, where it may send anything. `Options` extends
`Adjudicator`: the client's copy of the board is the board the turn opens with.
The `get_*_options` of `client/orders.py` are for programs written on the library;
the CLI's `order` takes its orders as typed.

### Match: state and actions

`match`, `deadline`, `paused` are columns of `matches`; `results` is
`phase_results` in id order; `queue` holds the unprocessed `admin_commands`;
`full` says that table `players` holds `MAX_PLAYERS` rows. `pc` is the process:
`inbox` (draining messages), `fetch`/`admin`/`mark` (the loop over commands),
`genesis`…`open` (inside `start_match`), `persist`, `deadline`, `result`,
`phasestart` (the tail `advance_phase` shares with `start_match`), `matchend`,
`suspend` and `unpause` (second halves of pause and resume), `down` (killed)
and `failed` (ended by its own exception). `caller` is where the tail returns
to, `batch` counts the commands left of the fetched list.

| Code | Actions |
|---|---|
| `lobby.start_match`, `MatchCoordinator.start_match` | `RunStart`, `RecordGenesis`, `SetSeedDeadline`, `BroadcastMatchStart`, `OpenOrders`, then the shared tail |
| `advance_phase` | `DeadlineAdvance`/`RunAdvance` (up to `save_match_state`), `PersistResult`, `SetDeadline`, `BroadcastResult`, `BroadcastPhaseStart` |
| `check_deadline` | `DeadlineAdvance`, `DeadlineRaises`, `DeadlineQuiet` |
| `end_match`, `_finalize_draw` | `RunEnd`/`AcceptDraw`, `BroadcastMatchEnd` |
| `pause`, `resume` | `RunPause`, `SuspendDeadline`; `RunResume`, `ClearPaused` |
| loop of `cmd_serve` | `FetchCommands`, `RunWithoutEffect` (a command that raises is logged, one with nothing to do returns), `MarkProcessed`, `BatchDone` |
| operator CLI | `Enqueue` |
| environment | `Tick`, `LobbyFills`, `ReceiveOrders`, `OrdersBeforeGenesis`, `Crash`, `Restart` |

Abstractions. Boards are histories of adjudication steps, because the
adjudicator is a deterministic function of board and orders; whether a movement
dislodges or leads to adjustments is free. A hash is collision free and commits
to its board and the previous hash, so it is the sequence of boards of the
chain. Time is the number of ticks a deadline has left. Broadcasting to all
players is one step: `Crash` before or after it, not between two recipients;
`sent` says what was broadcast and not what was received. Retreats and
adjustments are resolved without player orders, as in the code
(`match.py:17-22`). The deadline warning is a flag. Read-only requests and
malformed messages change nothing that is modelled. A sequence of a draw vote
that raises after the end (`Draws!DrawRaises`) is, for `Match`, a `Crash` in
`inbox`.

### Adjudicator: state and actions

`units` and `centers` are the board, `orders` the effective orders of the units
handled so far, `path` the calls of `resolve_move` in progress and `resolved`
their memo, `results` and `contested` the `MovementResult`, `builds` and
`disbands` what the adjustment has accepted so far.

| Code | Actions |
|---|---|
| `resolve_movement`: loop over units and `_normalize_order` | `Normalize` (an offered order that is not `Legal` becomes `Hold`), `BeginSearch` |
| the driver loop over `sorted(effective_orders)` | `Visit` |
| `resolve_move` | `Descend` (it calls itself for the unit it follows), `Settle` (it returns) |
| results, `apply_movement_result`, `update_supply_center_ownership` | `Move` |
| the choice of the next phase in `advance_phase` | `Land`, `AdjustOrEnd`, `NextTurn` |
| `get_retreat_options`, `resolve_retreats`, `apply_retreat_result` | `Retreat` |
| `resolve_adjustments` (one submitted order per step), `apply_adjustment_result` | `Build`, `Disband`, `Adjust` |

The engine takes retreat, build and disband orders, and its tests give it some;
`advance_phase` passes none yet (`match.py:17-22`). `Retreat`, `Build` and
`Disband` range over all orders, no orders being one case. Regions are numbers
in the order of their names; `year` and `phase` of a `GameState` are not used by
the engine. An order is filed under the region it names
(`get_effective_orders`), so the mismatch `_normalize_order` tests for does not
occur. The movement is worked out once and kept for the retreat, where
`match.py` works it out again from the same input: `Match` checks that it is
the same.

### Session: state and actions

Each player of the CLI is a process with a program counter `at`: it is in the
`shell`, waits for the answer to a `join`, is `polling`, composes orders, waits
for a `receipt`, or checks the history. `number`, `command` and `heard` are the
memory of that process and go with it; `session` and `log` are its files,
`session.json` and `phase_results.jsonl`. A player in `Programs` is a program
that keeps one `PlayerClient`, as the integration tests do. On the other side are
the `players` table (`seat`), `sender_sequence_numbers` (`lastSeen`), the
volatile `attempts`, the message being handled (`job`) and the number of links
`published`.

| Code | Actions |
|---|---|
| `handle_inbound` up to `record_sequence_number` | `Receive`, `Drop` |
| `_on_join_request`, `handle_join_request` | `Reseat`, `Seat`, `Reject`; `Ignore` when limited |
| `_on_state_request` | `AnswerState`, `Ignore` |
| `start_match`, `advance_phase` as players see them | `Start`, `Publish` |
| the window of a join attempt | `WindowPasses` |
| `cmd_join` | `Join`, `JoinAccepted`, `JoinRejected` |
| `_connect` and the message a command begins with | `Run` |
| `_poll_and_log` and the handlers of `PlayerClient` | `Poll` |
| `_persist_sequence` and what follows | `EndPolling`, `EndReceipt` |
| `cmd_order` after polling | `Submit` |
| `cmd_verify`, `verify_history` | `VerifyOffline`, `Verify` |
| an interrupt, or an error that ends a command | `GiveUp` |
| a call of a long-lived `PlayerClient` | `Call` |
| environment | `Restart` of the coordinator, at any time and also over a message |

Recording the number of a message and handling it are two steps, so `Restart` can
lose the second. Messages are delivered at most once, late, out of order or
never; duplicates are what the replay guard is for, and `OrderBook` has them.
Link `k` of the chain is the number `k`: an honest coordinator signs and hashes
correctly, so the only thing the check can tell is whether a link follows the
one before. Left out: two commands of one player at once (those are in `Client`),
a session file cut in the middle of its write, what is displayed (phase,
deadline, receipts, the negotiation log). `cut` is a history variable for
`NumbersCarried`.

### Chain and Client: state and actions

A link has a `state`, the hash `prev` it chains from, its own `hash` and whether
it is `signed`; the fields are independent, because what reaches a player need
not be the coordinator's honest work. `Flawless` is `report.ok` of
`verify_history`: each link `Sound` by itself and `Chained` to the line before or to
the anchor. The only thing assumed of SHA-256 is that it does not collide on the
links that are sent (`HashAssumption`); canonical bytes that do not decode are a
state that does not hash to the claim.

`session` and `log` are the two files of each player; a process has the session
it loaded (`file`), the hashes it knows to be logged (`seen`) and the MATCH_START
it heard (`start`).

| Code | Actions |
|---|---|
| `_load_session` at the head of every command | `Load` |
| `_connect`, `seen_hashes` of `_poll_and_log` | `OpenLog` |
| the loop of `_poll_and_log` | `Hear`, `HearStart` |
| `_persist_sequence` after polling | `EndPolling` |
| `cmd_order` after its wait, and with a receipt | `EndWait`, `KeepReceipt` |
| `cmd_verify` keeping the MATCH_START | `Anchor` |
| the end of a command, wherever it comes | `Quit` |

Reading the log for `seen_hashes` and each append are separate steps, and so are
reading and writing back the session; this is where overlapping commands
interfere. Of the kinds of command, `status` stands for all that only poll; the run
has `order` and `verify`, since an `order` that is interrupted in its wait does to
the files what `status` does. The players of `Client` have joined; that a second `cmd_join` writes a
session without `match_start`, and so gives up the anchor, is left out, as are a
write cut in the middle (`write_text` truncates first) and the check of `verify`
racing an append, which reads the file once.

## Runs

| Run | Expectation | Checks | Bounds |
|---|---|---|---|
| `Match_crash` | pass, 835,309 states | `TypeOK`, `ResultsOrdered`, `AnnouncedInv`, `PublishedPersisted`, `FinalStateAnnounced`, `HistoryExtends`, `ClockKept`, `EndIsFinal` with a crash anywhere | 3 commands of all five kinds, 1 crash, clock through turn 1 |
| `Match_steady` | pass, 453,294 states | `AlwaysResolvable`, `NoMovementLost`, refinement `ImplementsGame`, and under fairness `PhaseResolved`, `CommandsProcessed` | 4 commands of all five kinds, no crash, clock through turn 1 |
| `OrderBook` | pass, 656,874 states | `TypeOK`, `FrozenAfterClose`, `NewestWins`, `AcceptedStands`, refinement `ImplementsBallot` | 1 player, 3 messages, 3 revisions, 2 turns, 1 crash |
| `Draws` | pass, 1,108,728 states | `TypeOK`, `ConsentOnRecord`, `NoDrawLeftStanding` | 3 players, 1 stranger, 2 turns, both rules, 1 crash |
| `Adjudicator` | pass, 292,939 states | `TypeOK`, `OneUnitPerRegion`, `RecursionEnds`, `VerdictsAgree`, `NoOtherVerdicts`, `Overpowered`, `OccupiersOwn`, `OptionsHonoured`, `TurnEndsInBalance` | 8 regions, 3 boards of up to 6 units, one turn, 2 adjustment orders |
| `Session` | pass, 1,208,112 states | `TypeOK`, `SeatsAgree`, `NumbersCarried`, `NumbersInv`, `VerdictExact` | 1 player of the CLI, 2 programs, 2 seats, 3 numbers, 2 calls, 3 links, any number of restarts and interrupts |
| `Client` | pass, 4,039,632 states | `TypeOK`, `Agreement`, `ForkLeavesProof`, `CopiesBounded`, `AnchorSettles` | 2 players, 3 commands at once, 5 links (two that follow one another, a fork, a false state, no signature), 1 MATCH_START, 3 lines in the log of the player with two commands and 2 in the other |
| `Match_dead`, `OrderBook_masked`, `Session_rejoin`, `Adjudicator_own`, `Client_alarm` | violation | one property each | see *Findings* |

Why the bounds are enough to be interesting. Three operator commands in
`Match_crash` are `start` followed by any two, so that two advances, an advance
racing the deadline, pause and resume, and end-in-any-phase happen, each with a
crash in it. `Match_steady` has a fourth, so that pause, advance and resume follow
one another and a deadline runs beside the time left of an earlier pause. The clock running
through turn 1 (2) with durations of two ticks and one, and warning lead one,
gives every phase, warning and expiry, in one or two full turns with RETREAT
and BUILD. One crash already falls between any two transactions of any
operation, and `results` that follow it show what the restarted process does.
Players are independent in `OrderBook` (every query filters by player), so one
is enough; three messages are the least that let an old submission, a newer one
and a cancellation compete, and two turns make a late one possible. In `Draws`
three players separate the two rules, and the fourth key is one that never
joined.

In `Session` one player of the CLI is enough for its files, which no other
player touches; two programs compete with it for two seats, so that one of the
three is turned away and the match can start without the CLI player. Three
numbers let a command be interrupted, the next one repeat its number, and the
one after that get through. Of three links a player can miss the first, the
second, or see them in any order. `MaxAttempts = 1` makes the rate limit bite on
the second join within a window. The commands left out of the run differ from
`status` only in the kind of message they send.

In `Client` one player has two commands at once, `order` and `verify`, and the
other has `verify`. Its log of three lines has room for a third copy of a result,
one more than its two commands may leave there, so `CopiesBounded` is about their
overlap. The two lines of the other let logs agree, fork, or leave a link out.
One MATCH_START is enough for anchored against not anchored; a second, false one
would only be refused by `Sound`, like a link.

The regions of `Adjudicator` are eight of the real map with their borders and
terrain; they contain rings of three and four. On `Melee` (two fleets of each of
two factions) every combination of orders a player could mean is tried, so every
ring meets every opposition four units can give, supported or not; on `Coast` (three units,
an army among them, a home centre lost) every order there is, illegal and
missing ones included; `Collision` is the least board on which two dislodged
units can retreat to one region: it takes six, so they are given few orders each.
All properties are about one turn from an arbitrary board, so more turns add
boards, not kinds of steps.

`CHECK_DEADLOCK` is left on in the runs of `Match`, `OrderBook`, `Draws`,
`Session` and `Client`; an `Adjudicator` run really ends after its last turn.

### Properties worth reading

- `ResultsOrdered`: no crash, repeated command or racing deadline makes the
  insert of a result meet its UNIQUE key. `AnnouncedInv` is the inductive
  strengthening behind it and the two announcement properties.
- `HistoryExtends`: RETREAT adjudicates the movement a second time; each recorded
  board must extend what was published before.
- `ImplementsGame`: the concrete transactions refine the atomic `Game`. The
  commit point of a phase is its row in `phase_results`, not the saved state:
  that is what the crash findings below are about. Without crashes only; with
  one, `NoMovementLost` is violated, hence so is the refinement.
- `ClockKept`: pause and resume each take two transactions, start and advance
  more, and a command cut between them is executed again; none of it may leave a
  match with neither a deadline nor the time left, which would stop it for ever.
- `AlwaysResolvable`: whenever the loop polls an active match, everything the next
  resolution needs is there.
- `ImplementsBallot`: whatever the network and crashes do between the transactions
  of a message, what counts of a player is nothing or the newest message heard,
  changes only while orders are open, and starts blank in each turn. Unlike
  `ImplementsGame` it holds with crashes.
- `OptionsHonoured`: `client/orders.py` and `_normalize_order` each have their own
  idea of a legal order. Everything `client/orders.py` offers is executed as given; what
  it never offers, although it would be legal, is exactly the support of a move by
  a unit that is not next door to the supporter, or of one that cannot make it.
- `PhaseResolved`: a phase in play is left, unless the match comes to rest paused:
  no deadline, and the time left on record (`Suspended`). A phase entered by an
  advance out of a pause has a deadline again, and no exemption.
- `VerdictsAgree`: the verdicts of the search are exactly those a reader of the
  rules would check afterwards (`Succeeds` against the verdict on the unit in
  front), and an unopposed ring has moved; since no order of visits occurs in
  that statement, none matters. A ring is a set of movers each of which follows
  another of them (`Ring`). Only one with a unit that does not beat its
  rivals is exempt, which the comment in `resolve_move` admits; `Overpowered`
  and `OneUnitPerRegion` bound what happens there. `NoOtherVerdicts` is the
  converse: where no ring is broken, no other set of moves leaving would agree
  with the rules, so the search does not choose between adjudications.
- `OneUnitPerRegion`, `TurnEndsInBalance`, `OccupiersOwn`: three functions append to
  the list of units without looking; what keeps units apart is scattered over
  strict comparisons, retreat options and the conditions of a build.
- `SeatsAgree`: the table of players, the answers still on their way and the
  session files agree, although a join can be answered twice, late, or after a
  restart of the coordinator that lost it half-way.
- `NumbersCarried`: what the replay guard has recorded, and everything of a player
  still on its way, is covered by the number on file, or by one more while a
  command runs or after an interrupt. So interrupts do not add up, and no
  player with a session file is locked out for good by the commands it has
  killed (one without can be: `Session_rejoin`).
- `VerdictExact`: `verify` says OK of exactly the unbroken runs of published
  links. The comparison of neighbours would be wrong for a log kept in another
  way; what makes it right is that `_poll_and_log` drops repetitions.
- `Agreement`, `ForkLeavesProof`: what the check of the history is for. Neither
  assumes anything of the coordinator; both rest on the hash being of state *and*
  previous hash, and on every line being compared with the one before. The
  signature covers the hash alone, so it is `Matches` that ties it to the state
  and the place in the chain.
- `CopiesBounded`, `AnchorSettles`: what survives of the files when commands
  overlap. An anchor can be lost to a command that had loaded the session before
  it was saved; once all running commands have read it, it stays.
- `FrozenAfterClose`, `NewestWins`, `AcceptedStands` (orders) and
  `ConsentOnRecord`, `NoDrawLeftStanding` (draws). `NoDrawLeftStanding` is stated
  while no crash has happened: one between vote and end leaves the draw standing
  until the next vote about that turn.

### Fairness

Liveness is checked under weak fairness of `Serve` (the loop of `cmd_serve` runs
until it is ended and never blocks on anything but a sleep), `Tick` (time
passes) and `Restart` (an operator starts `serve` again after it ended).
Nothing is assumed of players or of the operator's commands, which may never
come. Draining the inbox (`ReceiveOrders` and the like) is not fair and does not
have to be: `poll` handles the messages already received and then checks the
deadline, and `DeadlineQuiet`/`DeadlineAdvance` are always enabled next to it.

### Findings

- **`Match_dead`** A crash between `save_match_state` and the row of the new
  phase (`match.py:498`), on the way to the next turn's ORDERS, leaves the old
  expired deadline beside a phase with no start-of-turn row. Every restarted
  `serve` raises in `poll`, before it reads commands: an `end` queued by then, or
  later, is never processed, although `server.py:20` says that it waits until a
  `serve` starts. The property, `CommandsProcessedInPlay`, is about commands
  pending once a turn has been opened, so that a crash inside `start_match` is
  not what violates it.
- **`OrderBook_masked`** A revision rejected by validation hides the accepted
  one from the adjudication, contrary to the docstring of
  `handle_order_submit`.
- **`Session_rejoin`** Every `join` of the CLI has sequence number 1, so the second
  one is dropped as a replay: a player whose first answer was lost never gets
  another, although joining again is documented as idempotent.
- **`Client_alarm`** A result that a player misses, or hears out of its turn, leaves
  a gap in the log; `verify` then reports a mismatch of links an honest
  coordinator signed, which the threat model calls cryptographic proof. The run
  shows one `verify` hearing two results in the wrong order. With the
  links in hand one can tell the two apart (`Proof` in `Chain`); the report does not.
- **`Adjudicator_own`** Two units of one faction move into each other, one of them
  supported by another faction: the other is dislodged by its own faction,
  although self-dislodgement prevention is listed as done.

Seen while modelling, and not checked by a run of their own:

- The crash of `Match_dead` on the way from ORDERS to BUILD lets BUILD fall back
  to the board before the movement (`match.py:550-554`), which is then lost.
- Results are missed when no command polls and while `order` waits for its
  receipt, and two commands that overlap can log one twice; `verify` reports
  these like a forgery too.
- `advance_phase` leaves `paused_remaining_seconds` alone (`match.py:502-504`).
  After pause and advance-phase a deadline runs while the pause stays on record:
  `status` shows a paused match, and a later resume replaces the deadline by the
  time left of the earlier phase.
- A cancellation outside ORDERS is answered with `order_hash=""`
  (`orders.py:133-142`), which the client's validation drops, and so is the
  MATCH_END of `end --reason ""`.
- A receipt has no turn, and `order` takes the first one that arrives for its
  answer; `orders` shows an older one after a timeout.
- `_enqueue_and_wait` reports "done" of a command that raised.
- A handler that raises ends `poll`; what was drained with its message is lost.
- After `end`, orders are still accepted while the phase is ORDERS.
- A link with a hash already logged and another state is not logged
  (`cli.py:184`), so that attempt leaves no trace.
- NEGOTIATION_ACK is never sent; the coordinator's own sequence numbers start
  again with each `serve`, and nobody checks them.

## Proofs

All proofs hold for every value of the constants under the named assumptions in
the modules (`OrdersAssumption`, `NoneAssumption`, `DurationAssumption`, …):
they say that bounds are naturals, durations positive, commands known, regions
finite in number, and that `None` is not a number, a truth value or an order.

| Theorem | States | Argument |
|---|---|---|
| `PhaseProofs!LandingAhead` | from a timed phase a match lands on one strictly ahead | cases of the cycle |
| `MatchProofs!TypeCorrect` | `Spec => []TypeOK` | `TypeInv` adds `BatchIsPending` (the commands of the snapshot are still pending rows, so `Tail` is defined) and `WorkIsActive` (an operation in progress belongs to an active match, in a phase that has a duration) |
| `MatchProofs!ResultsAreOrdered` | `Spec => []ResultsOrdered` | `OrderingInv`: the saved place of the match is never behind its chain, and strictly ahead while a row is to be written; every advance moves it ahead (`LandingAhead`) |
| `MatchProofs!EndStaysFinal` | `Spec => EndIsFinal` | from `OrderingInv`: an operation in progress implies an active match |
| `MatchProofs!ClockIsKept` | `[]ClockKept` | `ClockInv`: which of deadline and time left exists half-way through a pause, a resume and an opening |
| `MatchProofs!AnnouncedAlways`, `ResultsArePersisted`, `FinalStateIsAnnounced` | `[]AnnouncedInv`, `[]PublishedPersisted`, `[]FinalStateAnnounced` | `AnnouncedInv`: between the row and its broadcast the last row is the match's place, and a match being announced as over is over |
| `GameProofs!HistoryIsKept` | `[]HistoryExtends` | `HistoryInv`: besides `OrderingInv`, the movement that RETREAT works out again is the one the rows of its turn already hold (`MovementRemade`), and a board about to be recorded extends every row |
| `GameProofs!ResolvableWhileAlive` | `[](crashes = 0 => AlwaysResolvable)` | `SteadyInv`: until something ends the process, the row a phase is resolved from is there outside the openings and the pending row (`Settled`), and the pending row is one adjudication of the newest (`PendingLink`) |
| `GameProofs!MovementsKeptWhileAlive` | `[](crashes = 0 => NoMovementLost)` | `SteadyInv` counts the movements of each row's board (`MovementsCounted`) |
| `GameProofs!MatchImplementsGame` | `Spec /\ [](crashes = 0) => ImplementsGame` | step simulation from `SteadyInv`: writing a row is a resolution, the end is the end, the genesis row and all other steps stutter; `SteadyMatchImplementsGame` draws the conclusion for `MaxCrashes = 0`, the constant of `Match_steady` |
| `OrderBookProofs!OrdersAreFrozen` | `[]FrozenAfterClose` | `FrozenInv`: one adjudication per closed turn, and both writes of a handler are for the open turn; what is effective depends on the rows of its player and turn only |
| `OrderBookProofs!OrderBookImplementsBallot` | `Spec => ImplementsBallot` | step simulation from `BallotInv` (`FrozenInv`, unique revisions, no rows of turns to come, the message handled is the newest heard): superseding the latest row blanks what counts, inserting a row makes it the new message or nothing, and all else stutters |
| `OrderBookProofs!TheNewestWins` | `[]NewestWins` | `StandingInv`: no row is newer than the last message heard of its player (`RowsHeard`), a submission about to be written has the greatest revision of its turn (`VerdictStands`), and what is effective is not older than any row |
| `OrderBookProofs!AcceptedMeansEffective` | `[]AcceptedStands` | `StandingInv`: a message in hand has not been answered (`AnsweredOnce`), so a handler that supersedes or hides what was accepted does so for a later message |
| `DrawProofs!NoAgreementIgnored` | `[]NoDrawLeftStanding` | `StandingInv`: without a crash only the turn whose vote is being evaluated can have an agreement in an active match; turns nobody voted on have none by either rule |
| `DrawProofs!ConsentIsKept` | `[]ConsentOnRecord` | votes are recorded on an active match only |
| `AdjudicatorProofs!UnitsStayApart` | `[]OneUnitPerRegion` | `PlacesInv`: a positive verdict beats every rival, hence one winner per region (`OneWinner`) and survivors apart (`SurvivorsApart`); retreats avoid where survivors stand, and builds go to free centres of their own faction |
| `AdjudicatorProofs!RecursionIsBounded` | `[]RecursionEnds` | a call is only made for a unit that has none in progress |
| `AdjudicatorProofs!VerdictsAreConsistent` | `[]VerdictsAgree` | `VerdictsInv`: the calls in progress follow one another and have no verdict; every verdict rests on the one in front or on a ring closed on a call in progress (`Founded`), later verdicts do not disturb it (`FoundedStays`), and a call that comes back to one in progress has just found the ring (`RingClosed`) |
| `AdjudicatorProofs!VerdictsAreTheOnlyOnes` | `[]NoOtherVerdicts` | two sets of verdicts that agree with themselves differ, if at all, on units each of which hands its difference on to the unit in front (`AgreeingIsUnique`); such units contain a ring, a least set closed under following (`RingWithin`), and where no ring is broken a ring has moved in both |
| `AdjudicatorProofs!OnlyTheOverpoweredGo` | `[]Overpowered` | from `VerdictsInv`: an attacker that dislodged the unit it follows had its verdict from that unit staying, or both were on a ring held up elsewhere (`FollowerDislodges`) |
| `AdjudicatorProofs!TurnsEndInBalance` | `TurnEndsInBalance` | `QuotasInv`: accepted builds and chosen disbands stay within the difference; the default takes exactly as many as are missing, because ranks in a finite set of numbers are a bijection (`LastOnes`), and no faction's default touches another's units (`OnlyOwnGo`) |
| `AdjudicatorProofs!ClientAndEngineAgree` | `[]OptionsHonoured` | both ideas of a legal order, kind by kind, on any board `PlacesInv` allows |
| `SessionProofs!TypesKept` | `Spec => []TypeOK` | `TypesInv`: letters carry what their kind promises, and a command past its start has a session file |
| `SessionProofs!SeatsAgreed` | `[]SeatsAgree` | `SeatsInv`: whoever was told of a seat, or has it on file, has it in the table, so a new seat contradicts nobody (`NewSeat`) |
| `SessionProofs!NumbersAreCarried` | `[]NumbersCarried` | `NumbersInv`: a running command knows how far it is ahead of its file (`Counts`), a player of the CLI is accepted once at most (`JoinsOnce`), and every number in use is on file, known to the running command, or the one drawn by an interrupted command (`Covered`) |
| `SessionProofs!NumbersInvariant` | `[]NumbersInv` | the invariant just described |
| `SessionProofs!VerdictIsExact` | `[]VerdictExact` | `VerdictInv`: only published links are on file and a verdict is about the file as it is; a strictly growing log without a break is an interval of links (`SegmentIsUnbroken`), and one with a break has a first one (`LeastNumber`) |
| `ClientProofs!PlayersAgree` | `[]Agreement` | `verify_history` alone: two sound links with one hash have one state and one `prev` (`HashAssumption`), and so back along both logs |
| `ClientProofs!ForksLeaveProof` | `[]ForkLeavesProof` | the first line where the logs differ chains, in both, from the line before or the anchor |
| `ClientProofs!CopiesAreBounded` | `[]CopiesBounded` | `CopiesInv`: copies in the log and commands that would append another together never exceed the commands of the player |
| `ClientProofs!AnchorsSettle` | `AnchorSettles` | a command writes back what it loaded, and what it loads is the settled anchor |
| `OrderBookProofs`, `DrawProofs`, `AdjudicatorProofs`, `ClientProofs` `!TypesKept` | `[]TypeOK` | the type invariants |
| `AdjudicatorProofs!CentersFollowUnits` | `[]OccupiersOwn` | from `PlacesInv`: with one unit per region the occupier of a centre is unique, and ownership is updated after every move and retreat |

`ResultsOrdered` is not inductive: a row is appended for the place the *saved*
match is at, so the invariant has to relate the chain to the match and to the
control point. The same is true of `PublishedPersisted`, which needs to know
what is about to be broadcast. `OneUnitPerRegion` is not inductive either: it
needs to know how a verdict was won long before units are placed. For
`NumbersCarried` the delicate case is a late acceptance: it would write number 1
over a file that is further on, and what excludes it is that the replay guard
lets through one join of a CLI player, a fact about requests, table and letters
together (`JoinsOnce`).

`HistoryExtends` is true with any number of crashes, but what makes it so is
not the chain: a restarted process adjudicates the movement again for RETREAT, and
the board must come out as it was. It rests on the orders of the turn being the
same then, which is `FrozenAfterClose`. `AlwaysResolvable`, `NoMovementLost` and the
refinement of `Game` are false after a crash at the wrong place (`Match_dead`), so
they are proved for as long as `crashes = 0`; the hypothesis is not empty, since
`Match_steady` explores such behaviours. `OrdersBeforeGenesis` ends the process
too and counts as a crash.

For `VerdictsAgree` the delicate case is a verdict given on the assumption that a
unit whose call is still in progress will leave. The recursion does not come back
to check; that the assumption was right when nothing else attacks the ring is the
second half of `VerdictsInv`. That it may be wrong when something does is why
`Founded` has two cases and `VerdictsAgree` its exception.

Recursion over data is avoided where a proof needs it: sequences and ranks are
compared through bijections and least counterexamples instead of induction.

Only model-checked: `PhaseResolved` and `CommandsProcessed`, which need fairness, and
the five findings, which are counterexamples.

## Not modelled, and the plan

Not modelled for good: argument parsing and printing of both CLIs, logging,
encoding and field validation (`protocol/`), Reticulum, cryptography itself,
negotiation texts, `event_log.py` (a stub), `reproduce_and_compare` (no caller).

Next, in this order:

1. Proofs: that `Match` after a crash still implements a weaker `Game` in which a
   movement may be missing.
2. The wait of the operator's commands on their own row (`_enqueue_and_wait`); the
   canonical form that is hashed (`engine/hashing.py`), over small states.
