------------------------------- MODULE Boards -------------------------------
(***************************************************************************)
(* What the coordinator's orchestration can tell apart of a game state      *)
(* (engine/model.py, GameState): which adjudication steps produced it from  *)
(* the default map, and the orders each movement was adjudicated with.  The *)
(* adjudicator is a deterministic function of a board and its orders, so    *)
(* two boards built by the same steps are the same board.                   *)
(***************************************************************************)
EXTENDS Phases, SequencesExt

CONSTANTS
    OrderSets,       \* the sets of effective orders the players may agree on
    NoOrders         \* the empty one: every unit holds

ASSUME OrdersAssumption == NoOrders \in OrderSets

Step == [op: {"movement", "retreats", "adjustments"}, orders: OrderSets]

BoardSet == Seq(Step)

(* create_default_map.                                                      *)
DefaultMap == <<>>

(* resolve_movement, apply_movement_result, update_supply_center_ownership. *)
Movement(b, o) == Append(b, [op |-> "movement", orders |-> o])

(* resolve_retreats without orders, apply_retreat_result, ownership.        *)
Retreats(b) == Append(b, [op |-> "retreats", orders |-> NoOrders])

(* resolve_adjustments without orders, apply_adjustment_result.             *)
Adjustments(b) == Append(b, [op |-> "adjustments", orders |-> NoOrders])

(* The movements a board has seen.                                          *)
Movements(b) == Cardinality({k \in DOMAIN b : b[k].op = "movement"})
=============================================================================
