-------------------------------- MODULE Game --------------------------------
(***************************************************************************)
(* What a coordinator promises its players: a chain of results in which     *)
(* every link is the one adjudication of its phase applied to the link      *)
(* before it, taken in one indivisible step, until the match ends.          *)
(***************************************************************************)
EXTENDS Boards

VARIABLES
    status,     \* the life cycle of the match
    chain       \* the published results, oldest first

Link(m, b) == [turn |-> m.turn, phase |-> m.phase, board |-> b]

Newest == chain[Len(chain)]

(* The place in the game the newest link opened.                            *)
Place == [status |-> "ACTIVE", phase |-> Newest.phase, turn |-> Newest.turn]

Init == status = "LOBBY" /\ chain = <<>>

(* The first two links hold the default map.                                *)
Begin ==
    /\ status = "LOBBY"
    /\ status' = "ACTIVE"
    /\ LET opening == StartMatch(NewMatch)
       IN  chain' = << Link(opening, DefaultMap),
                       Link(AdvancePhase(opening, FALSE, FALSE), DefaultMap) >>

Outcomes ==
    CASE Newest.phase = "ORDERS"  -> {Movement(Newest.board, o) : o \in OrderSets}
      [] Newest.phase = "RETREAT" -> {Retreats(Newest.board)}
      [] Newest.phase = "BUILD"   -> {Adjustments(Newest.board)}

Resolve ==
    /\ status = "ACTIVE"
    /\ \E b \in Outcomes, dislodged, adjust \in BOOLEAN :
          chain' = Append(chain, Link(Landing(Place, dislodged, adjust), b))
    /\ UNCHANGED status

Finish ==
    /\ status = "ACTIVE"
    /\ status' = "COMPLETED"
    /\ UNCHANGED chain

Next == Begin \/ Resolve \/ Finish

Spec == Init /\ [][Next]_<<status, chain>>
=============================================================================
