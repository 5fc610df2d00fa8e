----------------------------- MODULE OrderBook -----------------------------
(***************************************************************************)
(* Order submission: coordinator/orders.py behind the replay guard of       *)
(* MatchCoordinator.handle_inbound, over table orders of the store.         *)
(*                                                                          *)
(* A message travels over a network that may lose, duplicate and reorder    *)
(* it.  Handling one takes up to three transactions: the sender's sequence  *)
(* number, the previous revision marked SUPERSEDED, the new row.  The       *)
(* process may die between them.                                            *)
(*                                                                          *)
(* The orders of a message are named by its sequence number, and whether    *)
(* they name only units of their sender is chosen when they are validated.  *)
(* Revision numbers are the player's own (client/cli.py, --revision).       *)
(***************************************************************************)
EXTENDS Phases, FiniteSets, Sequences

CONSTANTS
    Players,         \* the players who have joined
    Revisions,       \* the revision numbers players use
    None,            \* no orders
    MaxMessages,     \* bound: messages a player sends
    LastTurn,        \* bound: turns played
    MaxCrashes       \* bound: times the process is killed

ASSUME RevisionsAssumption == Revisions \subseteq Nat
ASSUME NoneAssumption == None \notin Nat
ASSUME BoundsAssumption == MaxMessages \in Nat /\ LastTurn \in Nat /\ MaxCrashes \in Nat

VARIABLES
    match,           \* the row of table matches
    book,            \* table orders
    lastSeen,        \* table sender_sequence_numbers
    pc,              \* control point of the process
    job,             \* the message being handled
    verdict,         \* the status its row will have
    network,         \* every message ever sent
    answers,         \* every ORDER_RECEIPT sent
    used,            \* the orders each movement was adjudicated with, by turn
    crashes

store   == <<match, book, lastSeen>>
process == <<pc, job, verdict>>
vars    == <<store, process, network, answers, used, crashes>>

OrderStates == {"ACCEPTED", "REJECTED", "SUPERSEDED"}

Message == [player: Players, seq: Nat, kind: {"submit", "cancel"}, revision: Revisions]

OrderRow == [player: Players, turn: Nat, revision: Revisions, seq: Nat,
             status: OrderStates]

Answer == [player: Players, turn: Nat, seq: Nat, state: OrderStates]

-----------------------------------------------------------------------------
(* Queries on the table.                                                    *)

Rows(p, t) == {r \in book : r.player = p /\ r.turn = t}

(* get_latest_order: ORDER BY revision DESC LIMIT 1; the empty set is None. *)
Latest(p, t) == {r \in Rows(p, t) : \A s \in Rows(p, t) : s.revision <= r.revision}

(* Mutant: the sub-select takes the greatest revision of all turns.         *)
EffectiveOfAnyTurn(p, t) ==
    LET played == {r \in Rows(p, t) : /\ r.status = "ACCEPTED"
                                      /\ \A s \in book : s.player = p =>
                                            s.revision <= r.revision}
    IN  IF played = {} THEN None ELSE (CHOOSE r \in played : TRUE).seq

(* get_effective_orders, for one player: the latest row, if it is accepted. *)
Effective(p, t) ==
    LET played == {r \in Latest(p, t) : r.status = "ACCEPTED"}
    IN  IF played = {} THEN None ELSE (CHOOSE r \in played : TRUE).seq

(* Mutant: a status OrderState does not have.                               *)
Cancelled(r) == (book \ {r}) \cup {[r EXCEPT !.status = "CANCELLED"]}

(* update_order_status of the row r.                                        *)
Superseded(r) == (book \ {r}) \cup {[r EXCEPT !.status = "SUPERSEDED"]}

Answered(state) ==
    answers' = answers \cup {[player |-> job.player, turn |-> match.turn,
                              seq |-> job.seq, state |-> state]}

-----------------------------------------------------------------------------
(* The players.                                                             *)

Sent(p) == {m \in network : m.player = p}

Compose(p, kind, revision) ==
    /\ Cardinality(Sent(p)) < MaxMessages
    /\ network' = network \cup {[player |-> p, seq |-> Cardinality(Sent(p)) + 1,
                                 kind |-> kind, revision |-> revision]}
    /\ UNCHANGED <<store, process, answers, used, crashes>>

-----------------------------------------------------------------------------
(* The coordinator.                                                         *)

(* Mutant: every message is handled, however old.                           *)
ReceiveAnything(m) ==
    /\ pc = "poll"
    /\ lastSeen' = [lastSeen EXCEPT ![m.player] = m.seq]
    /\ job' = m
    /\ pc' = "handle"
    /\ UNCHANGED <<match, book, verdict, network, answers, used, crashes>>

(* handle_inbound: the sequence number is recorded before the handler runs. *)
Receive(m) ==
    /\ pc = "poll"
    /\ m.seq > lastSeen[m.player]
    /\ lastSeen' = [lastSeen EXCEPT ![m.player] = m.seq]
    /\ job' = m
    /\ pc' = "handle"
    /\ UNCHANGED <<match, book, verdict, network, answers, used, crashes>>

(* A message that is not newer than the last one seen is dropped.           *)
Drop(m) ==
    /\ pc = "poll"
    /\ m.seq <= lastSeen[m.player]
    /\ UNCHANGED vars

Previous == Latest(job.player, match.turn)

(* Mutant: the phase of the match is not consulted.                         *)
AnyPhase ==
    \/ job.kind = "cancel"
    \/ \A r \in Previous : job.revision > r.revision

(* The early returns of handle_order_submit and handle_order_cancel leave   *)
(* no row; only a submission needs a greater revision.                      *)
Admissible ==
    /\ match.phase = "ORDERS"
    /\ \/ job.kind = "cancel"
       \/ \A r \in Previous : job.revision > r.revision

(* The process forgets what it was handling.                                *)
Goto(point) == pc' = point /\ job' = None /\ verdict' = "REJECTED"

TurnAway ==
    /\ pc = "handle"
    /\ ~Admissible
    /\ Answered("REJECTED")
    /\ Goto("poll")
    /\ UNCHANGED <<store, network, used, crashes>>

(* The verdict on an admissible message, and the first of its two writes.   *)
Judge(kind, status, superseding) ==
    /\ pc = "handle" /\ job.kind = kind
    /\ Admissible
    /\ verdict' = status
    /\ book' = IF superseding = {} THEN book
               ELSE Superseded(CHOOSE r \in superseding : TRUE)
    /\ pc' = "insert"
    /\ UNCHANGED <<match, lastSeen, job, network, answers, used, crashes>>

(* Orders for a unit of another faction are rejected but kept as a row.     *)
JudgeSubmit ==
    Judge("submit", "ACCEPTED", Previous) \/ Judge("submit", "REJECTED", {})

JudgeCancel ==
    Judge("cancel", "SUPERSEDED", {r \in Previous : r.status = "ACCEPTED"})

Taken == \E r \in Rows(job.player, match.turn) : r.revision = job.revision

(* record_order_submission, and the receipt that follows it.                *)
Insert ==
    /\ pc = "insert"
    /\ ~Taken
    /\ book' = book \cup {[player |-> job.player, turn |-> match.turn,
                           revision |-> job.revision, seq |-> job.seq,
                           status |-> verdict]}
    /\ Answered(verdict)
    /\ Goto("poll")
    /\ UNCHANGED <<match, lastSeen, network, used, crashes>>

(* The INSERT of a revision the player has already used this turn raises    *)
(* IntegrityError, which ends cmd_serve.                                    *)
InsertRaises ==
    /\ pc = "insert"
    /\ Taken
    /\ Goto("down")
    /\ UNCHANGED <<store, network, answers, used, crashes>>

(* advance_phase: leaving ORDERS adjudicates the movement with the effective *)
(* orders of the turn.                                                      *)
Advance ==
    /\ pc = "poll"
    /\ CanAdvance(match)
    /\ \E dislodged, adjust \in BOOLEAN :
          match' = Landing(match, dislodged, adjust)
    /\ match'.turn <= LastTurn
    /\ used' = IF match.phase = "ORDERS"
               THEN Append(used, [p \in Players |-> Effective(p, match.turn)])
               ELSE used
    /\ UNCHANGED <<book, lastSeen, process, network, answers, crashes>>

End ==
    /\ pc = "poll"
    /\ CanEnd(match)
    /\ match' = EndMatch(match)
    /\ UNCHANGED <<book, lastSeen, process, network, answers, used, crashes>>

Crash ==
    /\ pc # "down"
    /\ crashes < MaxCrashes
    /\ crashes' = crashes + 1
    /\ Goto("down")
    /\ UNCHANGED <<store, network, answers, used>>

Restart ==
    /\ pc = "down"
    /\ pc' = "poll"
    /\ UNCHANGED <<store, job, verdict, network, answers, used, crashes>>

-----------------------------------------------------------------------------
(* A match whose first ORDERS phase has just opened.                        *)
Init ==
    /\ match = AdvancePhase(StartMatch(NewMatch), FALSE, FALSE)
    /\ book = {}
    /\ lastSeen = [p \in Players |-> 0]
    /\ pc = "poll" /\ job = None /\ verdict = "REJECTED"
    /\ network = {} /\ answers = {} /\ used = <<>> /\ crashes = 0

Handle == TurnAway \/ JudgeSubmit \/ JudgeCancel \/ Insert \/ InsertRaises

Next ==
    \/ \E p \in Players, kind \in {"submit", "cancel"}, revision \in Revisions :
          Compose(p, kind, revision)
    \/ \E m \in network : Receive(m) \/ Drop(m)
    \/ Handle
    \/ Advance \/ End
    \/ Crash \/ Restart

Spec == Init /\ [][Next]_vars
-----------------------------------------------------------------------------
(* Properties.                                                              *)

(* The table, the message in hand and the receipts keep to their types.     *)
TypeOK ==
    /\ match \in MatchState
    /\ book \subseteq OrderRow /\ lastSeen \in [Players -> Nat]
    /\ pc \in {"poll", "handle", "insert", "down"}
    /\ job \in Message \cup {None} /\ verdict \in OrderStates
    /\ network \subseteq Message /\ IsFiniteSet(network) /\ answers \subseteq Answer
    /\ used \in Seq([Players -> Nat \cup {None}]) /\ crashes \in Nat

(* Leaving ORDERS freezes the orders of the turn: RETREAT adjudicates the    *)
(* movement a second time from the table and must find the same orders,     *)
(* whatever late, duplicated or half-handled messages and crashes follow.   *)
FrozenAfterClose ==
    \A t \in DOMAIN used, p \in Players : Effective(p, t) = used[t][p]

(* The network reorders and repeats messages, yet what is effective is never *)
(* older than anything else the player's messages have put in the table.    *)
NewestWins ==
    \A p \in Players, t \in 1..LastTurn :
        Effective(p, t) # None => \A r \in Rows(p, t) : r.seq <= Effective(p, t)

(* Orders a player was told are ACCEPTED are the ones adjudicated, as long   *)
(* as no later message of that player reaches the coordinator.              *)
AcceptedStands ==
    \A a \in answers :
        a.state = "ACCEPTED" /\ lastSeen[a.player] = a.seq
            => Effective(a.player, a.turn) = a.seq

(* A rejected submission never supersedes the player's last accepted         *)
(* revision (the docstring of handle_order_submit).                         *)
RejectionKeepsAccepted ==
    [][\A p \in Players : pc = "insert" /\ verdict = "REJECTED"
         => Effective(p, match.turn)' = Effective(p, match.turn)]_vars

-----------------------------------------------------------------------------
(* The order book implements Ballot: what counts is read from the table.    *)

OrdersOpen == match.phase = "ORDERS"

Counting == [p \in Players |-> Effective(p, match.turn)]

AbstractBallot ==
    INSTANCE Ballot WITH open <- OrdersOpen, newest <- lastSeen,
                         choice <- Counting, settled <- used

(* Supersession, insertion, crashes between the two, replayed messages and   *)
(* the end of a turn never make anything count but the newest message heard  *)
(* of a player in that turn, or nothing, and nothing changes once closed.    *)
ImplementsBallot == AbstractBallot!Spec

-----------------------------------------------------------------------------
(* The inductive invariant behind TypeOK and FrozenAfterClose.              *)

(* Turn by turn, one set of orders has been adjudicated for every turn whose *)
(* ORDERS phase is over.                                                    *)
OneUsePerTurn ==
    /\ match.phase \in TimedPhases
    /\ Len(used) = IF match.phase = "ORDERS" THEN match.turn - 1 ELSE match.turn

(* A row is only about to be written for a turn still open for orders: the   *)
(* process does not close a turn while it is handling a message.            *)
WritesOpenTurn ==
    /\ pc \in {"handle", "insert"} => job \in Message
    /\ pc = "insert" => match.phase = "ORDERS"

FrozenInv == TypeOK /\ OneUsePerTurn /\ WritesOpenTurn /\ FrozenAfterClose

-----------------------------------------------------------------------------
(* What ImplementsBallot rests on besides.                                  *)

(* UNIQUE (match_id, public_key, turn, revision).                           *)
UniqueRevisions ==
    \A r, s \in book :
        r.player = s.player /\ r.turn = s.turn /\ r.revision = s.revision => r = s

(* No row is for a turn that has not begun.                                 *)
RowsPlayed == \A r \in book : r.turn <= match.turn

(* No other message of a player is heard while one is being handled.        *)
JobIsNewest == pc \in {"handle", "insert"} => job.seq = lastSeen[job.player]

BallotInv == FrozenInv /\ UniqueRevisions /\ RowsPlayed /\ JobIsNewest
-----------------------------------------------------------------------------
(* What NewestWins and AcceptedStands rest on besides.                      *)

(* Nothing is in the table or answered that has not been heard, and a        *)
(* message in hand has not been answered.                                   *)
RowsHeard == \A r \in book : r.seq <= lastSeen[r.player]

AnsweredOnce ==
    \A a \in answers :
        /\ a.seq <= lastSeen[a.player]
        /\ pc \in {"handle", "insert"} /\ a.player = job.player => a.seq < job.seq

(* A player with rows in a turn has a latest one.                            *)
LatestExists == \A r \in book : Latest(r.player, r.turn) # {}

(* A submission about to be written has the greatest revision of its turn;   *)
(* a cancellation about to be written has left nothing effective.           *)
VerdictStands ==
    pc = "insert" =>
        /\ verdict # "SUPERSEDED" => \A r \in Previous : job.revision > r.revision
        /\ verdict = "SUPERSEDED" => Effective(job.player, match.turn) = None

(* NewestWins, row by row.                                                   *)
EffectiveIsNewest ==
    \A r \in book :
        LET e == Effective(r.player, r.turn) IN e # None => r.seq <= e

StandingInv ==
    /\ BallotInv
    /\ RowsHeard /\ AnsweredOnce /\ LatestExists /\ VerdictStands
    /\ EffectiveIsNewest /\ AcceptedStands
=============================================================================
