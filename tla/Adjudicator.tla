---------------------------- MODULE Adjudicator ----------------------------
(***************************************************************************)
(* The adjudication engine (engine/adjudicator.py, engine/state.py): a turn *)
(* is resolved from the orders in the ways match.py calls it.  Orders are   *)
(* normalised, moves are decided by a depth first search over the units     *)
(* that must leave first, the dislodged retreat, supply centres change      *)
(* hands, and builds and disbands bring units and centres together.  The    *)
(* search is a stack machine, one call or return of resolve_move per step;  *)
(* the loops over submitted orders take one order per step.                 *)
(*                                                                         *)
(* Regions are numbered in the order in which sorted() puts their names.    *)
(***************************************************************************)
EXTENDS Integers, FiniteSets, Sequences

CONSTANTS
    Regions,        \* numbers of regions
    Factions,
    Adjacent,       \* ADJACENCY
    Terrain,        \* "land", "sea" or "coastal"
    SupplyCenters,
    HomeCenters,    \* the home centres of each faction
    Boards,         \* the [units, centers] a first turn starts from
    Offers(_, _),   \* the orders a board's unit at a region is given
    None,           \* no order, no region
    LastTurn,       \* bound: turns played
    MaxOrders       \* bound: build and disband orders in one adjustment

ASSUME RegionsAssumption ==
    /\ Regions \subseteq Nat
    /\ IsFiniteSet(Regions)
    /\ None \notin Regions
    /\ Adjacent \in [Regions -> SUBSET Regions]
    /\ Terrain \in [Regions -> {"land", "sea", "coastal"}]

ASSUME CentersAssumption ==
    /\ SupplyCenters \subseteq Regions
    /\ HomeCenters \in [Factions -> SUBSET SupplyCenters]

ASSUME BoundsAssumption == LastTurn \in Nat /\ MaxOrders \in Nat

UnitTypes == {"army", "fleet"}

Unit == [type : UnitTypes, faction : Factions, region : Regions]

Distinct(us) == \A u, v \in us : u.region = v.region => u = v

Centers == [SupplyCenters -> Factions]

OwnedByOccupier(us, cs) ==
    \A u \in us : u.region \in SupplyCenters => cs[u.region] = u.faction

ASSUME BoardsAssumption ==
    \A b \in Boards :
        /\ b.units \subseteq Unit /\ Distinct(b.units)
        /\ b.centers \in Centers /\ OwnedByOccupier(b.units, b.centers)

Hold == [kind |-> "hold", of |-> None, to |-> None]

Orders ==
    {Hold}
    \cup [kind : {"move"}, of : {None}, to : Regions]
    \cup [kind : {"supportHold"}, of : Regions, to : {None}]
    \cup [kind : {"supportMove"}, of : Regions, to : Regions]

ASSUME OrdersAssumption == None \notin Orders

VARIABLES
    stage,      \* where advance_phase is in the turn
    turn,
    units,      \* GameState.units
    centers,    \* GameState.supply_centers
    orders,     \* effective_orders, by region of the unit
    path,       \* in_progress, in the order of the calls
    resolved,   \* the verdicts of resolve_move
    results,    \* MovementResult.unit_results, by region of the unit
    contested,  \* MovementResult.contested_regions
    builds,     \* the accepted builds of the adjustment
    disbands,   \* the regions chosen for disbanding
    heard       \* build and disband orders considered

board == <<units, centers>>
search == <<orders, path, resolved>>
outcome == <<results, contested>>
adjustment == <<builds, disbands, heard>>
vars == <<stage, turn, board, search, outcome, adjustment>>

Extend(f, x, y) == [z \in DOMAIN f \cup {x} |-> IF z = x THEN y ELSE f[z]]
Nothing == [r \in {} |-> None]
------------------------------------------------------------------------------
(* Orders and strengths.                                                    *)

Occupied(us) == {u.region : u \in us}
UnitAt(us, r) == CHOOSE u \in us : u.region = r
FactionAt(r) == UnitAt(units, r).faction

CanStandOn(type, r) ==
    /\ type = "army" => Terrain[r] # "sea"
    /\ type = "fleet" => Terrain[r] # "land"

CanMoveTo(u, d) == d \in Adjacent[u.region] /\ CanStandOn(u.type, d)

Legal(u, o) ==
    \/ o = Hold
    \/ o.kind = "move" /\ CanMoveTo(u, o.to)
    \/ o.kind = "supportHold" /\ o.of \in Occupied(units) /\ CanMoveTo(u, o.of)
    \/ o.kind = "supportMove" /\ o.of \in Occupied(units) /\ CanMoveTo(u, o.to)

Normalized(u, o) == IF o # None /\ Legal(u, o) THEN o ELSE Hold

Doing(kind) == {r \in DOMAIN orders : orders[r].kind = kind}
Movers == Doing("move")
Attackers(d) == {r \in Movers : orders[r].to = d}

\* A move into the supporter's region cuts its support, unless it comes from
\* where the supported attack is going.
Cut(s) == \E a \in Attackers(s) \ {s} :
             ~(orders[s].kind = "supportMove" /\ orders[s].to = a)

AttackStrength(r) ==
    1 + Cardinality({s \in Doing("supportMove") :
                        orders[s].of = r /\ orders[s].to = orders[r].to /\ ~Cut(s)})

HoldStrength(r) ==
    1 + Cardinality({s \in Doing("supportHold") : orders[s].of = r /\ ~Cut(s)})

HeadToHead(r) == orders[r].to \in Movers /\ orders[orders[r].to].to = r

\* The mover at r can only tell its fate once the one in front has been tried.
Follows(r) == orders[r].to \in Movers /\ ~HeadToHead(r)

Rivals(r) == Attackers(orders[r].to) \ {r}

(* Mutant: a tie with another attacker is won.                              *)
BeatsOrTies(r) == \A q \in Rivals(r) : AttackStrength(r) >= AttackStrength(q)

BeatsRivals(r) == \A q \in Rivals(r) : AttackStrength(r) > AttackStrength(q)

(* Mutant: a mover that failed to leave does not defend its region.         *)
BeatsHolder(r, leaves) ==
    LET d == orders[r].to
    IN  /\ HeadToHead(r) => AttackStrength(r) > AttackStrength(d)
        /\ d \in DOMAIN orders \ Movers =>
              AttackStrength(r) > HoldStrength(d) /\ FactionAt(d) # FactionAt(r)

\* What stands at the destination: nothing it must beat when the mover it
\* follows goes away, that mover with strength 1 when it does not.
BeatsDefender(r, leaves) ==
    LET d == orders[r].to
    IN  /\ HeadToHead(r) => AttackStrength(r) > AttackStrength(d)
        /\ Follows(r) /\ ~leaves =>
              AttackStrength(r) > 1 /\ FactionAt(d) # FactionAt(r)
        /\ d \in DOMAIN orders \ Movers =>
              AttackStrength(r) > HoldStrength(d) /\ FactionAt(d) # FactionAt(r)

Succeeds(r, leaves) == BeatsDefender(r, leaves) /\ BeatsRivals(r)
------------------------------------------------------------------------------
(* Movement.                                                                *)

Init ==
    /\ stage = "orders" /\ turn = 1
    /\ \E b \in Boards : units = b.units /\ centers = b.centers
    /\ orders = Nothing /\ path = <<>> /\ resolved = Nothing
    /\ results = Nothing /\ contested = {}
    /\ builds = {} /\ disbands = {} /\ heard = 0

Least(S) == CHOOSE r \in S : \A q \in S : r <= q

\* One round of the loop that normalises orders, in the order of the regions.
Normalize(r, o) ==
    /\ stage = "orders"
    /\ r \in Occupied(units) \ DOMAIN orders
    /\ r = Least(Occupied(units) \ DOMAIN orders)
    /\ orders' = Extend(orders, r, Normalized(UnitAt(units, r), o))
    /\ UNCHANGED <<stage, turn, board, path, resolved, outcome, adjustment>>

BeginSearch ==
    /\ stage = "orders" /\ DOMAIN orders = Occupied(units)
    /\ stage' = "search"
    /\ UNCHANGED <<turn, board, search, outcome, adjustment>>

InProgress == {path[i] : i \in 1..Len(path)}
Top == path[Len(path)]

(* Mutant: units that were not ordered to move are visited too.             *)
VisitAny(r) ==
    /\ stage = "search" /\ path = <<>>
    /\ r \in DOMAIN orders \ DOMAIN resolved
    /\ path' = <<r>>
    /\ UNCHANGED <<stage, turn, board, orders, resolved, outcome, adjustment>>

\* The driver loop: the next mover without a verdict.
Visit(r) ==
    /\ stage = "search" /\ path = <<>>
    /\ r \in Movers \ DOMAIN resolved
    /\ r = Least(Movers \ DOMAIN resolved)
    /\ path' = <<r>>
    /\ UNCHANGED <<stage, turn, board, orders, resolved, outcome, adjustment>>

(* Mutant: calls in progress are not remembered.                            *)
AsksAgain == Follows(Top) /\ orders[Top].to \notin DOMAIN resolved

\* resolve_move has to ask for the verdict on the unit it follows.
Asks == Follows(Top) /\ orders[Top].to \notin DOMAIN resolved \cup InProgress

Descend ==
    /\ stage = "search" /\ path # <<>> /\ Asks
    /\ path' = Append(path, orders[Top].to)
    /\ UNCHANGED <<stage, turn, board, orders, resolved, outcome, adjustment>>

(* Mutant: a unit whose call is still in progress is taken to stay.         *)
LeavesNot(d) == IF d \in DOMAIN resolved THEN resolved[d] ELSE FALSE

\* A unit whose call is still in progress closes a ring and is taken to leave.
Leaves(d) == IF d \in DOMAIN resolved THEN resolved[d] ELSE TRUE

Settle ==
    /\ stage = "search" /\ path # <<>> /\ ~Asks
    /\ resolved' = Extend(resolved, Top, Succeeds(Top, Leaves(orders[Top].to)))
    /\ path' = SubSeq(path, 1, Len(path) - 1)
    /\ UNCHANGED <<stage, turn, board, orders, outcome, adjustment>>

Winners == {r \in Movers : resolved[r]}
WinnersInto(d) == {r \in Winners : orders[r].to = d}

ResultOf(r) ==
    LET moved == r \in Winners
        dislodged == ~moved /\ WinnersInto(r) # {}
    IN  [unit |-> UnitAt(units, r),
         final |-> IF moved THEN orders[r].to ELSE r,
         by |-> IF dislodged THEN CHOOSE a \in WinnersInto(r) : TRUE ELSE None]

Survivors(res) == {r \in DOMAIN res : res[r].by = None}
Dislodged(res) == DOMAIN res \ Survivors(res)

Placed(res) == {[res[r].unit EXCEPT !.region = res[r].final] : r \in Survivors(res)}

\* update_supply_center_ownership
Owners(us, cs) ==
    [c \in SupplyCenters |->
        IF c \in Occupied(us) THEN UnitAt(us, c).faction ELSE cs[c]]

UnitsOf(us, f) == {u \in us : u.faction = f}
CentersOf(cs, f) == {c \in SupplyCenters : cs[c] = f}
Delta(us, cs, f) == Cardinality(CentersOf(cs, f)) - Cardinality(UnitsOf(us, f))

Balanced(us, cs) == \A f \in Factions : Delta(us, cs, f) = 0

\* What follows a turn, with nothing left over from its adjudication.
NextTurn ==
    /\ stage' = IF turn < LastTurn THEN "orders" ELSE "over"
    /\ turn' = IF turn < LastTurn THEN turn + 1 ELSE turn
    /\ orders' = Nothing /\ path' = <<>> /\ resolved' = Nothing
    /\ results' = Nothing /\ contested' = {}
    /\ builds' = {} /\ disbands' = {} /\ heard' = 0

AdjustOrEnd ==
    IF Balanced(units', centers') THEN NextTurn
    ELSE /\ stage' = "build"
         /\ UNCHANGED <<turn, search, outcome, adjustment>>

\* All verdicts are in: the results are assembled and the survivors placed.
\* The results are kept until the retreat, as match.py works them out again.
Move ==
    /\ stage = "search" /\ path = <<>> /\ DOMAIN resolved = Movers
    /\ results' = [r \in DOMAIN orders |-> ResultOf(r)]
    /\ contested' = {d \in Regions : \E a, b \in Attackers(d) : a # b}
    /\ units' = Placed(results')
    /\ centers' = Owners(units', centers)
    /\ stage' = "moved"
    /\ UNCHANGED <<turn, search, adjustment>>

\* advance_phase picks the phase that follows the movement.
Land ==
    /\ stage = "moved"
    /\ UNCHANGED board
    /\ IF Dislodged(results) # {}
       THEN stage' = "retreat" /\ UNCHANGED <<turn, search, outcome, adjustment>>
       ELSE AdjustOrEnd
------------------------------------------------------------------------------
(* Retreats.                                                                *)

RetreatOptions(r) ==
    {d \in Adjacent[r] \ contested :
        /\ CanStandOn(results[r].unit.type, d)
        /\ \A q \in Survivors(results) : results[q].final # d
        /\ d # results[r].by}

\* Where the dislodged go: the illegal and the missing choices are dropped,
\* and so are those that two units made.
Chosen(wish) ==
    [r \in Dislodged(results) |->
        IF wish[r] \in RetreatOptions(r) THEN wish[r] ELSE None]

Retreating(chosen) ==
    {r \in DOMAIN chosen :
        chosen[r] # None /\ \A q \in DOMAIN chosen : chosen[q] = chosen[r] => q = r}

Retreat(wish) ==
    /\ stage = "retreat"
    /\ LET chosen == Chosen(wish)
       IN  units' = units \cup {[results[r].unit EXCEPT !.region = chosen[r]] :
                                   r \in Retreating(chosen)}
    /\ centers' = Owners(units', centers)
    /\ AdjustOrEnd
------------------------------------------------------------------------------
(* Adjustments.                                                             *)

BuildOrder == [faction : Factions, region : Regions, type : UnitTypes]

(* Mutant: a faction may build at a home centre it has lost.                *)
AcceptsLost(b) ==
    /\ Cardinality({a \in builds : a.faction = b.faction}) < Delta(units, centers, b.faction)
    /\ b.region \in HomeCenters[b.faction]
    /\ b.region \notin Occupied(units)
    /\ \A a \in builds : a.faction = b.faction => a.region # b.region
    /\ CanStandOn(b.type, b.region)

Accepts(b) ==
    /\ Cardinality({a \in builds : a.faction = b.faction}) < Delta(units, centers, b.faction)
    /\ b.region \in HomeCenters[b.faction]
    /\ centers[b.region] = b.faction
    /\ b.region \notin Occupied(units)
    /\ \A a \in builds : a.faction = b.faction => a.region # b.region
    /\ CanStandOn(b.type, b.region)

Build(b) ==
    /\ stage = "build" /\ heard < MaxOrders
    /\ heard' = heard + 1
    /\ builds' = IF Accepts(b) THEN builds \cup {b} ELSE builds
    /\ UNCHANGED <<stage, turn, board, search, outcome, disbands>>

RegionsOf(f) == Occupied(UnitsOf(units, f))
Shortfall(f) == -Delta(units, centers, f) - Cardinality(disbands \cap RegionsOf(f))

Disband(f, r) ==
    /\ stage = "build" /\ heard < MaxOrders
    /\ heard' = heard + 1
    /\ disbands' = IF Shortfall(f) > 0 /\ r \in RegionsOf(f)
                   THEN disbands \cup {r} ELSE disbands
    /\ UNCHANGED <<stage, turn, board, search, outcome, builds>>

(* Mutant: one unit too many is disbanded by default.                       *)
DefaultAndOne(f) ==
    LET left == RegionsOf(f) \ disbands
    IN  {r \in left : Cardinality({q \in left : q > r}) <= Shortfall(f)}

\* The units that go because too few disbands were ordered: the last regions.
Default(f) ==
    LET left == RegionsOf(f) \ disbands
    IN  {r \in left : Cardinality({q \in left : q > r}) < Shortfall(f)}

Gone == disbands \cup UNION {Default(f) : f \in Factions}

\* apply_adjustment_result
Adjust ==
    /\ stage = "build"
    /\ units' = {u \in units : u.region \notin Gone}
                \cup {[type |-> b.type, faction |-> b.faction, region |-> b.region] :
                         b \in builds}
    /\ UNCHANGED centers
    /\ NextTurn
------------------------------------------------------------------------------
Next ==
    \/ \E r \in Regions, o \in Orders \cup {None} :
          o \in Offers(units, r) /\ Normalize(r, o)
    \/ BeginSearch
    \/ \E r \in Regions : Visit(r)
    \/ Descend
    \/ Settle
    \/ Move
    \/ Land
    \/ \E wish \in [Dislodged(results) -> Regions \cup {None}] : Retreat(wish)
    \/ \E b \in BuildOrder : Build(b)
    \/ \E f \in Factions, r \in Regions : Disband(f, r)
    \/ Adjust

Spec == Init /\ [][Next]_vars
------------------------------------------------------------------------------
(* Properties.                                                              *)

(* Every variable of an adjudication keeps to its type; a verdict is on a   *)
(* unit that was ordered to move (the assert of resolve_move).              *)
TypeOK ==
    /\ stage \in {"orders", "search", "moved", "retreat", "build", "over"}
    /\ turn \in Nat
    /\ units \subseteq Unit
    /\ centers \in Centers
    /\ DOMAIN orders \subseteq Regions
    /\ \A r \in DOMAIN orders : orders[r] \in Orders
    /\ path \in Seq(Movers)
    /\ DOMAIN resolved \subseteq Movers
    /\ \A r \in DOMAIN resolved : resolved[r] \in BOOLEAN
    /\ DOMAIN results \subseteq Regions
    /\ \A r \in DOMAIN results :
          results[r] \in [unit : Unit, final : Regions, by : Regions \cup {None}]
    /\ contested \subseteq Regions
    /\ builds \subseteq BuildOrder
    /\ disbands \subseteq Regions
    /\ heard \in 0..MaxOrders

(* However moves, dislodgements, retreats and builds combine, no two units   *)
(* are placed in one region: apply_movement_result, apply_retreat_result and *)
(* apply_adjustment_result only append to a list and never look.             *)
OneUnitPerRegion ==
    /\ Distinct(units)
    /\ \A a, b \in Survivors(results) : results[a].final = results[b].final => a = b

(* What keeps units apart: a winner beats every rival, so that there is one   *)
(* per region; survivors stand where the results say, so that retreats can   *)
(* avoid them; and builds go to free centres of their own faction.           *)
PlacesInv ==
    /\ TypeOK
    /\ OneUnitPerRegion
    /\ stage = "orders" => path = <<>> /\ DOMAIN resolved = {}
    /\ stage = "orders" => DOMAIN orders \subseteq Occupied(units)
    /\ stage = "search" => DOMAIN orders = Occupied(units)
    /\ \A r \in DOMAIN resolved : resolved[r] => BeatsRivals(r)
    /\ stage \in {"moved", "retreat"} => units = Placed(results)
    /\ stage # "build" => builds = {}
    /\ \A b \in builds :
          /\ b.region \in SupplyCenters /\ centers[b.region] = b.faction
          /\ b.region \notin Occupied(units)
          /\ \A a \in builds : a.region = b.region => a = b

(* The recursion of resolve_move never enters a call that is in progress, so *)
(* it ends on any orders, rings of moves included.                           *)
RecursionEnds == \A i, j \in 1..Len(path) : path[i] = path[j] => i = j

Decided == stage = "search" /\ path = <<>> /\ DOMAIN resolved = Movers

\* Movers each of which follows another of them: rings of moves, none head to head.
Ring(Q) == (\A q \in Q : Follows(q)) /\ {orders[q].to : q \in Q} = Q

Rings(r) == {Q \in SUBSET Movers : r \in Q /\ Ring(Q)}
OnRing(r) == Rings(r) # {}

\* On a ring no unit of which is held up by another attack on its destination.
Unopposed(r) == \E Q \in Rings(r) : \A q \in Q : BeatsRivals(q)

\* The paradoxes the comment in resolve_move leaves open.
OnBrokenRing(r) == OnRing(r) /\ ~Unopposed(r)

\* What the rules say of a set of verdicts, in no order: a move succeeds exactly
\* when it beats what the other verdicts say it meets, and an unopposed ring moves.
Agreeing(verdicts) ==
    \A r \in Movers :
        /\ ~OnBrokenRing(r) =>
              (verdicts[r] <=> Succeeds(r, Follows(r) => verdicts[orders[r].to]))
        /\ Unopposed(r) => verdicts[r]

(* The order in which the search visits units does not matter: a move has    *)
(* succeeded exactly when it beats what the verdicts say it meets, and every *)
(* unopposed ring has moved (the comment in resolve_move: "Correct for       *)
(* unopposed rings").                                                        *)
VerdictsAgree == Decided => Agreeing(resolved)

(* Unless there is a broken ring, the verdicts of the search are the only    *)
(* ones that agree with each other: a driver loop over the units in another  *)
(* order than sorted() puts them in would give the same.                     *)
NoOtherVerdicts ==
    Decided /\ (\A r \in Movers : ~OnBrokenRing(r)) =>
        \A verdicts \in [Movers -> BOOLEAN] :
            Agreeing(verdicts) => \A r \in Movers : verdicts[r] = resolved[r]

\* What a verdict rests on: the one on the unit in front, or a ring closed on a
\* call in progress.
Founded(r) ==
    \/ /\ Follows(r) => orders[r].to \in DOMAIN resolved
       /\ resolved[r] <=> Succeeds(r, Follows(r) => resolved[orders[r].to])
    \/ OnRing(r) /\ (resolved[r] <=> BeatsRivals(r))

(* What the search maintains: the calls in progress follow one another, they *)
(* have no verdict yet, and every verdict there is stays founded.            *)
VerdictsInv ==
    stage = "search" =>
        /\ \A i \in 1..Len(path) : path[i] \notin DOMAIN resolved
        /\ \A i \in 1..Len(path) - 1 : Follows(path[i]) /\ orders[path[i]].to = path[i + 1]
        /\ \A r \in DOMAIN resolved : Founded(r) /\ (Unopposed(r) => resolved[r])

StandsWith(r) == IF r \in Movers THEN 1 ELSE HoldStrength(r)

(* A unit is dislodged by one attacker that is stronger than the unit and of *)
(* another faction ("overpowered unit", TODO.md), except in a broken ring,   *)
(* and except that two units of one faction may meet head to head.           *)
Overpowered ==
    Decided => \A r \in DOMAIN orders \ Winners : \A a \in WinnersInto(r) :
        /\ WinnersInto(r) = {a}
        /\ OnBrokenRing(r) \/ AttackStrength(a) > StandsWith(r)
        /\ OnBrokenRing(r) \/ HeadToHead(a) \/ FactionAt(a) # FactionAt(r)

(* TODO.md lists "self-dislodgement prevention" as implemented, and the test *)
(* of that name says "cannot dislodge own unit even with superior strength". *)
NoSelfDislodgement ==
    \A r \in Dislodged(results) :
        results[results[r].by].unit.faction # results[r].unit.faction

(* A supply centre with a unit on it belongs to the unit's faction, at every *)
(* point of the turn at which the board is stored.                           *)
OccupiersOwn == OwnedByOccupier(units, centers)

(* A turn ends with no faction having more units than supply centres, from   *)
(* any orders, missing ones included, and a faction that had too many loses  *)
(* no more than it must ("the shortfall is made up deterministically").      *)
TurnEndsInBalance ==
    [][stage # "over" /\ (stage' = "over" \/ turn' # turn) =>
          \A f \in Factions :
              /\ Delta(units', centers', f) >= 0
              /\ Delta(units, centers', f) < 0 => Delta(units', centers', f) = 0]_vars

(* What an adjustment maintains: a faction is never given more builds than   *)
(* it is due, nor made to choose more disbands than it must.                 *)
QuotasInv ==
    /\ stage # "build" => disbands = {}
    /\ \A f \in Factions :
          /\ LET n == Cardinality({b \in builds : b.faction = f})
             IN  n = 0 \/ n <= Delta(units, centers, f)
          /\ LET n == Cardinality(disbands \cap RegionsOf(f))
             IN  n = 0 \/ n <= -Delta(units, centers, f)
=============================================================================
