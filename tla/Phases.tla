------------------------------- MODULE Phases -------------------------------
(***************************************************************************)
(* coordinator/phases.py: the pure life-cycle of a match.  A match is      *)
(* LOBBY, then ACTIVE, then COMPLETED; while it is active every turn goes   *)
(* through DIPLOMACY, ORDERS, RESOLUTION, and, when they are needed,        *)
(* RETREAT and BUILD.  `year` moves in lockstep with `turn` and is left     *)
(* out.                                                                     *)
(*                                                                          *)
(* A function of phases.py that raises InvalidTransitionError becomes an    *)
(* operator here, and the condition under which it does not raise becomes   *)
(* a guard (CanStart, CanEnd, CanAdvance) for its callers.                  *)
(***************************************************************************)
EXTENDS Naturals

Statuses == {"LOBBY", "ACTIVE", "COMPLETED"}

PhaseNames == {"DIPLOMACY", "ORDERS", "RESOLUTION", "RETREAT", "BUILD"}

MatchState == [status: Statuses, phase: PhaseNames, turn: Nat]

NewMatch == [status |-> "LOBBY", phase |-> "DIPLOMACY", turn |-> 1]

(* Mutant: the status of the match is not consulted.                        *)
AnyStatus(m) == TRUE

CanStart(m) == m.status = "LOBBY"

StartMatch(m) == [status |-> "ACTIVE", phase |-> "DIPLOMACY", turn |-> 1]

CanEnd(m) == m.status = "ACTIVE"

(* Mutant: the end is written to the wrong column.                          *)
EndPhase(m) == [m EXCEPT !.phase = "COMPLETED"]

EndMatch(m) == [m EXCEPT !.status = "COMPLETED"]

ToPhase(m, p) == [m EXCEPT !.phase = p]

(* Mutant: the turn is not counted.                                         *)
SameTurn(m) == ToPhase(m, "DIPLOMACY")

NextTurn(m) ==
    [status |-> m.status, phase |-> "DIPLOMACY", turn |-> m.turn + 1]

CanAdvance(m) == m.status = "ACTIVE"

(* One step of the phase cycle: `dislodged` is consulted on leaving         *)
(* RESOLUTION, `adjust` on leaving RESOLUTION or RETREAT.                   *)
AdvancePhase(m, dislodged, adjust) ==
    IF m.phase = "DIPLOMACY" THEN ToPhase(m, "ORDERS")
    ELSE IF m.phase = "ORDERS" THEN ToPhase(m, "RESOLUTION")
    ELSE IF m.phase = "RESOLUTION" /\ dislodged THEN ToPhase(m, "RETREAT")
    ELSE IF m.phase \in {"RESOLUTION", "RETREAT"} /\ adjust THEN ToPhase(m, "BUILD")
    ELSE NextTurn(m)

(* The phases that have a deadline.                                         *)
TimedPhases == {"ORDERS", "RETREAT", "BUILD"}

(* Where advance_phase of match.py lands from a phase that has a deadline:  *)
(* RESOLUTION and DIPLOMACY are passed through in the same call.            *)
Landing(m, dislodged, adjust) ==
    LET resolving == IF m.phase = "ORDERS" THEN AdvancePhase(m, FALSE, FALSE) ELSE m
        landed    == AdvancePhase(resolving, dislodged, adjust)
    IN  IF landed.phase = "DIPLOMACY" THEN AdvancePhase(landed, FALSE, FALSE)
                                      ELSE landed

(* The order in which the phases of one turn are entered.                   *)
Rank == [DIPLOMACY |-> 0, ORDERS |-> 1, RESOLUTION |-> 2, RETREAT |-> 3, BUILD |-> 4]

(* The place (t, p) of a match comes strictly before the place (u, q).      *)
Before(t, p, u, q) == t < u \/ (t = u /\ Rank[p] < Rank[q])
=============================================================================
