------------------------------- MODULE Draws -------------------------------
(***************************************************************************)
(* Draw negotiation: coordinator/draws.py and the draw handlers of          *)
(* coordinator/match.py, over table draw_votes of the store.                *)
(*                                                                          *)
(* A proposal is a vote for the draw.  A vote names the turn it is about,   *)
(* which need not be the turn being played, and its sender need not have    *)
(* joined.  The handler records the vote, evaluates all votes of that turn, *)
(* broadcasts the result, and, when the draw is accepted, ends the match in  *)
(* a second transaction; the process may die between the two.  The replay   *)
(* guard lets the messages of one sender through in the order they were     *)
(* sent, so a sender here simply takes another vote.                        *)
(***************************************************************************)
EXTENDS Phases, FiniteSets

CONSTANTS
    Players,         \* the players who have joined
    Strangers,       \* other keys that can send messages
    Rules,           \* the draw rules a match may be configured with
    None,            \* no vote, no turn
    LastTurn,        \* bound: turns played and voted about
    MaxCrashes       \* bound: times the process is killed

Senders == Players \cup Strangers

Turns == 1..LastTurn

ASSUME PlayersAssumption == IsFiniteSet(Players) /\ Players # {}
ASSUME RulesAssumption == Rules \subseteq {"UNANIMOUS", "MAJORITY"}
ASSUME NoneAssumption == None \notin BOOLEAN /\ None \notin Nat
ASSUME BoundsAssumption == LastTurn \in Nat \ {0} /\ MaxCrashes \in Nat

VARIABLES
    match,           \* the row of table matches
    rule,            \* draw_rule of MatchConfig
    votes,           \* table draw_votes: the vote of each key on each turn
    pc,              \* control point of the process
    about,           \* the turn of the vote being handled
    drawn,           \* the turn whose votes ended the match
    crashes

vars == <<match, rule, votes, pc, about, drawn, crashes>>

-----------------------------------------------------------------------------
InFavour(t) == {p \in Players : votes[t][p] = TRUE}

(* _evaluate.                                                               *)
Accepted(t) ==
    IF rule = "UNANIMOUS" THEN InFavour(t) = Players
    ELSE 2 * Cardinality(InFavour(t)) > Cardinality(Players)

-----------------------------------------------------------------------------
(* Mutant: a vote is recorded whatever the status of the match.             *)
RecordAlways(s, t, v) ==
    /\ pc = "poll"
    /\ votes' = [votes EXCEPT ![t][s] = v]
    /\ about' = t
    /\ pc' = "evaluate"
    /\ UNCHANGED <<match, rule, drawn, crashes>>

(* Mutant: the votes on the current turn are evaluated.                     *)
RecordThisTurn(s, t, v) ==
    /\ pc = "poll"
    /\ votes' = IF match.status = "ACTIVE" THEN [votes EXCEPT ![t][s] = v] ELSE votes
    /\ about' = match.turn
    /\ pc' = "evaluate"
    /\ UNCHANGED <<match, rule, drawn, crashes>>

(* handle_draw_propose (a vote in favour) and handle_draw_vote: the vote     *)
(* replaces an earlier one, and is recorded on an active match only.        *)
Record(s, t, v) ==
    /\ pc = "poll"
    /\ votes' = IF match.status = "ACTIVE" THEN [votes EXCEPT ![t][s] = v] ELSE votes
    /\ about' = t
    /\ pc' = "evaluate"
    /\ UNCHANGED <<match, rule, drawn, crashes>>

Goto(point) == pc' = point /\ about' = None

(* _finalize_draw.  end_match is legal only on an active match.             *)
StandAside ==
    /\ pc = "evaluate"
    /\ ~Accepted(about)
    /\ Goto("poll")
    /\ UNCHANGED <<match, rule, votes, drawn, crashes>>

EndByDraw ==
    /\ pc = "evaluate"
    /\ Accepted(about)
    /\ CanEnd(match)
    /\ match' = EndMatch(match)
    /\ drawn' = about
    /\ Goto("poll")
    /\ UNCHANGED <<rule, votes, crashes>>

(* A message about the turn of an accepted draw, after the end: end_match    *)
(* raises InvalidTransitionError, which ends cmd_serve.                     *)
DrawRaises ==
    /\ pc = "evaluate"
    /\ Accepted(about)
    /\ ~CanEnd(match)
    /\ Goto("down")
    /\ UNCHANGED <<match, rule, votes, drawn, crashes>>

(* The rest of the coordinator: the match goes on, or its operator ends it.  *)
Advance ==
    /\ pc = "poll"
    /\ CanAdvance(match)
    /\ \E dislodged, adjust \in BOOLEAN :
          match' = Landing(match, dislodged, adjust)
    /\ match'.turn \in Turns
    /\ UNCHANGED <<rule, votes, pc, about, drawn, crashes>>

EndByOperator ==
    /\ pc = "poll"
    /\ CanEnd(match)
    /\ match' = EndMatch(match)
    /\ UNCHANGED <<rule, votes, pc, about, drawn, crashes>>

Crash ==
    /\ pc # "down"
    /\ crashes < MaxCrashes
    /\ crashes' = crashes + 1
    /\ Goto("down")
    /\ UNCHANGED <<match, rule, votes, drawn>>

Restart ==
    /\ pc = "down"
    /\ Goto("poll")
    /\ UNCHANGED <<match, rule, votes, drawn, crashes>>

-----------------------------------------------------------------------------
(* A match whose first ORDERS phase has just opened.                        *)
Init ==
    /\ match = AdvancePhase(StartMatch(NewMatch), FALSE, FALSE)
    /\ rule \in Rules
    /\ votes = [t \in Turns |-> [s \in Senders |-> None]]
    /\ pc = "poll" /\ about = None /\ drawn = None /\ crashes = 0

Next ==
    \/ \E s \in Senders, t \in Turns, v \in BOOLEAN : Record(s, t, v)
    \/ StandAside \/ EndByDraw \/ DrawRaises
    \/ Advance \/ EndByOperator
    \/ Crash \/ Restart

Spec == Init /\ [][Next]_vars
-----------------------------------------------------------------------------
(* Properties.                                                              *)

(* The votes and the turns they are about keep to their types.              *)
TypeOK ==
    /\ match \in MatchState /\ rule \in Rules
    /\ votes \in [Turns -> [Senders -> BOOLEAN \cup {None}]]
    /\ pc \in {"poll", "evaluate", "down"}
    /\ about \in Turns \cup {None} /\ drawn \in Turns \cup {None}
    /\ crashes \in Nat

(* The votes on record justify the draw for ever: whoever votes after the    *)
(* match has ended, or on another turn, cannot withdraw the consent.        *)
ConsentOnRecord == drawn # None => Accepted(drawn) /\ match.status = "COMPLETED"

(* No match is played on against the players' agreement: unless a crash cut  *)
(* a vote from its evaluation, no turn's votes accept a draw while the match *)
(* is active and the coordinator polls.                                     *)
NoDrawLeftStanding ==
    crashes = 0 /\ pc = "poll" /\ match.status = "ACTIVE"
        => \A t \in Turns : ~Accepted(t)
=============================================================================
