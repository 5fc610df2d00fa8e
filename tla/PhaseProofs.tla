---------------------------- MODULE PhaseProofs ----------------------------
(***************************************************************************)
(* Where the transitions of Phases lead, from every match state.            *)
(***************************************************************************)
EXTENDS Phases, TLAPS

(* The cycle of phases.                                                     *)

LEMMA RankValues ==
    /\ Rank["DIPLOMACY"] = 0
    /\ Rank["ORDERS"] = 1
    /\ Rank["RESOLUTION"] = 2
    /\ Rank["RETREAT"] = 3
    /\ Rank["BUILD"] = 4
BY DEF Rank

(* The two moves of the cycle change what they say and nothing else.        *)
LEMMA ToPhaseMoves ==
    ASSUME NEW m \in MatchState, NEW p \in PhaseNames
    PROVE  /\ ToPhase(m, p) \in MatchState
           /\ ToPhase(m, p).status = m.status
           /\ ToPhase(m, p).phase = p
           /\ ToPhase(m, p).turn = m.turn
BY DEF ToPhase, MatchState

LEMMA NextTurnMoves ==
    ASSUME NEW m \in MatchState
    PROVE  /\ NextTurn(m) \in MatchState
           /\ NextTurn(m).status = m.status
           /\ NextTurn(m).phase = "DIPLOMACY"
           /\ NextTurn(m).turn = m.turn + 1
BY DEF NextTurn, MatchState, PhaseNames

LEMMA PhasesDiffer ==
    /\ {"DIPLOMACY", "ORDERS", "RESOLUTION", "RETREAT", "BUILD"} = PhaseNames
    /\ TimedPhases = {"ORDERS", "RETREAT", "BUILD"}
BY DEF PhaseNames, TimedPhases

(* AdvancePhase keeps a match state a match state, and active or not.       *)
LEMMA AdvancePhaseMoves ==
    ASSUME NEW m \in MatchState, NEW dislodged \in BOOLEAN, NEW adjust \in BOOLEAN
    PROVE  LET n == AdvancePhase(m, dislodged, adjust)
           IN  /\ n \in MatchState
               /\ n.status = m.status
               /\ m.phase = "DIPLOMACY" => n.phase = "ORDERS" /\ n.turn = m.turn
               /\ m.phase = "ORDERS" => n.phase = "RESOLUTION" /\ n.turn = m.turn
               /\ m.phase = "RESOLUTION" =>
                    \/ n.phase \in {"RETREAT", "BUILD"} /\ n.turn = m.turn
                    \/ n.phase = "DIPLOMACY" /\ n.turn = m.turn + 1
               /\ m.phase = "RETREAT" =>
                    \/ n.phase = "BUILD" /\ n.turn = m.turn
                    \/ n.phase = "DIPLOMACY" /\ n.turn = m.turn + 1
               /\ m.phase = "BUILD" =>
                    n.phase = "DIPLOMACY" /\ n.turn = m.turn + 1
BY ToPhaseMoves, NextTurnMoves, PhasesDiffer DEF AdvancePhase

(* From any phase a match that lands is still a match, active or not.        *)
LEMMA LandingKeepsStatus ==
    ASSUME NEW m \in MatchState, NEW dislodged \in BOOLEAN, NEW adjust \in BOOLEAN
    PROVE  /\ Landing(m, dislodged, adjust) \in MatchState
           /\ Landing(m, dislodged, adjust).status = m.status
<1> DEFINE resolving == IF m.phase = "ORDERS" THEN AdvancePhase(m, FALSE, FALSE) ELSE m
           landed == AdvancePhase(resolving, dislodged, adjust)
<1>1. resolving \in MatchState /\ resolving.status = m.status
  BY AdvancePhaseMoves
<1> HIDE DEF resolving
<1>2. landed \in MatchState /\ landed.status = m.status
  BY <1>1, AdvancePhaseMoves
<1>3. /\ AdvancePhase(landed, FALSE, FALSE) \in MatchState
      /\ AdvancePhase(landed, FALSE, FALSE).status = landed.status
  BY <1>2, AdvancePhaseMoves
<1>4. Landing(m, dislodged, adjust) =
        IF landed.phase = "DIPLOMACY" THEN AdvancePhase(landed, FALSE, FALSE) ELSE landed
  BY DEF Landing, resolving
<1> HIDE DEF landed
<1>5. QED BY <1>2, <1>3, <1>4

(* From a timed phase a match lands strictly ahead of where it was.         *)
LEMMA LandingAhead ==
    ASSUME NEW m \in MatchState, m.phase \in TimedPhases,
           NEW dislodged \in BOOLEAN, NEW adjust \in BOOLEAN
    PROVE  LET n == Landing(m, dislodged, adjust)
           IN  /\ n \in MatchState
               /\ n.status = m.status
               /\ n.phase \in TimedPhases
               /\ Before(m.turn, m.phase, n.turn, n.phase)
               /\ \/ n.turn = m.turn /\ n.phase \in {"RETREAT", "BUILD"}
                  \/ n.turn = m.turn + 1 /\ n.phase = "ORDERS"
<1> DEFINE resolving == IF m.phase = "ORDERS" THEN AdvancePhase(m, FALSE, FALSE) ELSE m
           landed == AdvancePhase(resolving, dislodged, adjust)
           n == Landing(m, dislodged, adjust)
<1>1. /\ resolving \in MatchState
      /\ resolving.status = m.status
      /\ resolving.turn = m.turn
      /\ resolving.phase = IF m.phase = "ORDERS" THEN "RESOLUTION" ELSE m.phase
  BY AdvancePhaseMoves
<1>2. /\ landed \in MatchState
      /\ landed.status = m.status
      /\ \/ /\ landed.turn = m.turn
            /\ landed.phase \in {"RETREAT", "BUILD"}
            /\ Rank[m.phase] < Rank[landed.phase]
         \/ landed.turn = m.turn + 1 /\ landed.phase = "DIPLOMACY"
  <2> HIDE DEF resolving
  <2>1. CASE m.phase = "ORDERS"
    BY <1>1, <2>1, AdvancePhaseMoves, RankValues
  <2>2. CASE m.phase = "RETREAT"
    BY <1>1, <2>2, AdvancePhaseMoves, RankValues
  <2>3. CASE m.phase = "BUILD"
    BY <1>1, <2>3, AdvancePhaseMoves, RankValues
  <2>4. QED BY <2>1, <2>2, <2>3, PhasesDiffer
<1>3. n = IF landed.phase = "DIPLOMACY" THEN AdvancePhase(landed, FALSE, FALSE)
                                         ELSE landed
  BY DEF Landing
<1> HIDE DEF landed, n
<1>4. CASE landed.phase = "DIPLOMACY"
  <2>1. n = AdvancePhase(landed, FALSE, FALSE)
    BY <1>3, <1>4
  <2>2. /\ n \in MatchState
        /\ n.status = m.status
        /\ n.phase = "ORDERS"
        /\ n.turn = landed.turn
    BY <1>2, <1>4, <2>1, AdvancePhaseMoves
  <2>3. landed.turn = m.turn + 1 /\ m.turn \in Nat
    BY <1>2, <1>4 DEF MatchState
  <2>4. QED BY <2>2, <2>3, PhasesDiffer DEF Before, n
<1>5. CASE landed.phase # "DIPLOMACY"
  BY <1>2, <1>3, <1>5, PhasesDiffer DEF Before, n
<1>6. QED BY <1>4, <1>5
=============================================================================
