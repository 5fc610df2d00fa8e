------------------------------ MODULE Options ------------------------------
(***************************************************************************)
(* What the client library offers for a unit (client/orders.py), against     *)
(* what the adjudicator makes of it.  Orders are composed from the player's  *)
(* own copy of the board; nothing it composes is checked for legality again  *)
(* before resolve_movement, which turns what it will not do into Hold.       *)
(***************************************************************************)
EXTENDS Adjudicator

LegalMoves(u) == {d \in Adjacent[u.region] : CanMoveTo(u, d)}

MoveOptions(u) == {[kind |-> "move", of |-> None, to |-> d] : d \in LegalMoves(u)}

(* Mutant: any unit next door may be supported to hold.                     *)
SupportAnyNeighbour(u) ==
    {[kind |-> "supportHold", of |-> r, to |-> None] :
        r \in Adjacent[u.region] \cap Occupied(units)}

SupportHoldOptions(u) ==
    {[kind |-> "supportHold", of |-> r, to |-> None] :
        r \in {q \in Adjacent[u.region] \cap Occupied(units) : CanMoveTo(u, q)}}

\* Only units next to the supporter are looked at, and only moves they can make.
SupportMoveOptions(u) ==
    {o \in [kind : {"supportMove"}, of : Adjacent[u.region] \cap Occupied(units),
            to : Regions] :
        o.to \in LegalMoves(UnitAt(units, o.of)) /\ CanMoveTo(u, o.to)}

Options(u) == {Hold} \cup MoveOptions(u) \cup SupportHoldOptions(u)
                     \cup SupportMoveOptions(u)
------------------------------------------------------------------------------
\* On every board a turn opens or ends with, what client/orders.py offers is done as ordered,
\* never held instead, and it keeps from the player no move and no support of
\* a unit that holds or moves next door (client/orders.py:31-55 and
\* _normalize_order each have their own idea of what is legal).
OptionsHonoured ==
    orders = Nothing => \A u \in units :
        /\ \A o \in Options(u) : Normalized(u, o) = o
        /\ \A o \in Orders \ Options(u) :
              Legal(u, o) => /\ o.kind = "supportMove"
                             /\ \/ o.of \notin Adjacent[u.region]
                                \/ ~CanMoveTo(UnitAt(units, o.of), o.to)
==============================================================================
