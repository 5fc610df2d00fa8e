------------------------- MODULE AdjudicatorProofs -------------------------
(***************************************************************************)
(* Proofs about Adjudicator, for any map, board, orders, number of turns    *)
(* and of build and disband orders: units stay apart, verdicts agree, only  *)
(* the overpowered are dislodged, every turn ends in balance; and the       *)
(* engine does what client/orders.py offers.                                *)
(***************************************************************************)
EXTENDS Options, FiniteSetTheorems, FunctionTheorems, SequenceTheorems,
        WellFoundedInduction, TLAPS

(* Strengths are integers, so that of two rivals at most one is stronger.    *)
LEMMA StrengthType ==
    ASSUME TypeOK, NEW r PROVE AttackStrength(r) \in Int
<1> DEFINE S == {s \in Doing("supportMove") :
                    orders[s].of = r /\ orders[s].to = orders[r].to /\ ~Cut(s)}
<1>1. S \subseteq Regions
  BY DEF TypeOK, Doing
<1>2. Cardinality(S) \in Nat
  BY <1>1, FS_Subset, FS_CardinalityType, RegionsAssumption
<1> HIDE DEF S
<1>3. AttackStrength(r) = 1 + Cardinality(S)
  BY DEF AttackStrength, S
<1>4. QED BY <1>2, <1>3

LEMMA UnitAtFacts ==
    ASSUME NEW us, NEW r \in Occupied(us)
    PROVE  UnitAt(us, r) \in us /\ UnitAt(us, r).region = r
BY DEF Occupied, UnitAt

LEMMA OwnersType ==
    ASSUME NEW us \in SUBSET Unit, NEW cs \in Centers
    PROVE  Owners(us, cs) \in Centers
<1>1. ASSUME NEW c \in SupplyCenters
      PROVE  (IF c \in Occupied(us) THEN UnitAt(us, c).faction ELSE cs[c]) \in Factions
  BY UnitAtFacts DEF Unit, Centers
<1>2. QED BY <1>1 DEF Owners, Centers

LEMMA NormalizedType ==
    ASSUME NEW u, NEW o \in Orders \cup {None} PROVE Normalized(u, o) \in Orders
BY DEF Normalized, Orders

(* A unit put down in another region is a unit in that region.               *)
LEMMA Replaced ==
    ASSUME NEW u \in Unit, NEW r \in Regions
    PROVE  /\ [u EXCEPT !.region = r] \in Unit
           /\ [u EXCEPT !.region = r].region = r
BY DEF Unit

(* Survivors put where their results say are units there.                    *)
LEMMA PlacedUnits ==
    ASSUME NEW res,
           \A r \in Survivors(res) : res[r].unit \in Unit /\ res[r].final \in Regions
    PROVE  /\ Placed(res) \subseteq Unit
           /\ \A u \in Placed(res) : \E r \in Survivors(res) : u.region = res[r].final
           /\ (\A a, b \in Survivors(res) : res[a].final = res[b].final => a = b)
                 => Distinct(Placed(res))
<1> DEFINE at(r) == [res[r].unit EXCEPT !.region = res[r].final]
<1>1. Placed(res) = {at(r) : r \in Survivors(res)}
  BY DEF Placed
<1>2. \A r \in Survivors(res) : at(r) \in Unit /\ at(r).region = res[r].final
  BY Replaced
<1> HIDE DEF at
<1>3. QED BY <1>1, <1>2 DEF Distinct

(* The next turn starts from a clean slate.                                  *)
LEMMA NextTurnKeeps ==
    ASSUME TypeOK, NextTurn, units' \subseteq Unit, Distinct(units'), centers' \in Centers
    PROVE  PlacesInv'
<1>1. /\ DOMAIN orders' = {} /\ path' = <<>> /\ DOMAIN resolved' = {}
      /\ DOMAIN results' = {} /\ contested' = {}
      /\ builds' = {} /\ disbands' = {} /\ heard' = 0
  BY DEF NextTurn, Nothing
<1>2. stage' \in {"orders", "over"} /\ turn' \in Nat
  BY DEF NextTurn, TypeOK
<1>3. path' \in Seq(Movers')
  BY <1>1
<1>4. TypeOK'
  BY <1>1, <1>2, <1>3, BoundsAssumption DEF TypeOK
<1>5. OneUnitPerRegion'
  BY <1>1 DEF OneUnitPerRegion, Survivors
<1>6. QED BY <1>1, <1>2, <1>4, <1>5 DEF PlacesInv

(* After the movement or the retreats the turn ends or is adjusted.          *)
LEMMA AdjustOrEndKeeps ==
    ASSUME PlacesInv, stage # "build", AdjustOrEnd,
           units' \subseteq Unit, Distinct(units'), centers' \in Centers
    PROVE  PlacesInv'
<1>1. TypeOK /\ builds = {}
  BY DEF PlacesInv
<1>2. CASE NextTurn
  BY <1>1, <1>2, NextTurnKeeps
<1>3. CASE stage' = "build" /\ UNCHANGED <<turn, search, outcome, adjustment>>
  <2>1. UNCHANGED <<turn, orders, path, resolved, results, contested,
                    builds, disbands, heard>>
    BY <1>3 DEF search, outcome, adjustment
  <2>2. TypeOK'
    BY <1>1, <1>3, <2>1 DEF TypeOK, Movers, Doing
  <2>3. OneUnitPerRegion'
    BY <2>1 DEF PlacesInv, OneUnitPerRegion, Survivors
  <2>4. \A r \in DOMAIN resolved' : resolved'[r] => BeatsRivals(r)'
    BY <2>1 DEF PlacesInv, BeatsRivals, Rivals, Attackers, Movers, Doing,
                AttackStrength, Cut
  <2>5. QED BY <1>1, <1>3, <2>1, <2>2, <2>3, <2>4 DEF PlacesInv
<1>4. QED BY <1>2, <1>3 DEF AdjustOrEnd

LEMMA PlacesInit ==
    ASSUME Init PROVE PlacesInv
<1>1. /\ units \subseteq Unit /\ Distinct(units) /\ centers \in Centers
      /\ DOMAIN orders = {} /\ DOMAIN resolved = {} /\ DOMAIN results = {}
  BY BoardsAssumption DEF Init, Nothing
<1>2. path \in Seq(Movers)
  BY DEF Init
<1>3. TypeOK
  BY <1>1, <1>2, BoundsAssumption DEF Init, TypeOK
<1>4. QED BY <1>1, <1>3 DEF Init, PlacesInv, OneUnitPerRegion, Survivors

LEMMA NormalizeKeeps ==
    ASSUME PlacesInv, NEW r \in Regions, NEW o \in Orders \cup {None}, Normalize(r, o)
    PROVE  PlacesInv'
<1>1. /\ TypeOK /\ stage = "orders" /\ path = <<>> /\ DOMAIN resolved = {}
      /\ builds = {} /\ r \in Occupied(units)
      /\ UNCHANGED <<stage, turn, units, centers, path, resolved, results,
                     contested, builds, disbands, heard>>
  BY DEF Normalize, PlacesInv, board, outcome, adjustment
<1>2. PICK n \in Orders : n = Normalized(UnitAt(units, r), o)
  BY NormalizedType
<1>3. orders' = Extend(orders, r, n)
  BY <1>2 DEF Normalize
<1>4. /\ DOMAIN orders' = DOMAIN orders \cup {r}
      /\ \A q \in DOMAIN orders' : orders'[q] \in Orders
  BY <1>1, <1>3 DEF Extend, TypeOK
<1>5. path' \in Seq(Movers')
  BY <1>1
<1>6. TypeOK'
  BY <1>1, <1>4, <1>5 DEF TypeOK
<1>7. OneUnitPerRegion'
  BY <1>1 DEF PlacesInv, OneUnitPerRegion, Survivors
<1>8. QED BY <1>1, <1>4, <1>6, <1>7 DEF PlacesInv

(* The search changes nothing but the calls in progress and the verdicts.    *)
LEMMA SearchKeeps ==
    ASSUME PlacesInv, stage \in {"orders", "search"},
           DOMAIN orders = Occupied(units), stage' = "search",
           UNCHANGED <<turn, board, orders, outcome, adjustment>>,
           path' \in Seq(Movers), DOMAIN resolved' \subseteq Movers,
           \A r \in DOMAIN resolved' :
              resolved'[r] \in BOOLEAN /\ (resolved'[r] => BeatsRivals(r))
    PROVE  PlacesInv'
<1>1. TypeOK /\ builds = {} /\ OneUnitPerRegion
  BY DEF PlacesInv
<1>2. UNCHANGED <<turn, units, centers, orders, results, contested,
                  builds, disbands, heard>>
  BY DEF board, outcome, adjustment
<1>3. Movers' = Movers
  BY <1>2 DEF Movers, Doing
<1>4. TypeOK'
  BY <1>1, <1>2, <1>3 DEF TypeOK
<1>5. OneUnitPerRegion'
  BY <1>1, <1>2 DEF OneUnitPerRegion, Survivors
<1>6. ASSUME NEW r \in DOMAIN resolved', resolved'[r] PROVE BeatsRivals(r)'
  <2>1. BeatsRivals(r)
    BY <1>6
  <2>2. QED BY <1>2, <2>1 DEF BeatsRivals, Rivals, Attackers, Movers, Doing,
                              AttackStrength, Cut
<1>7. QED BY <1>1, <1>2, <1>4, <1>5, <1>6 DEF PlacesInv

LEMMA SearchStepKeeps ==
    ASSUME PlacesInv, BeginSearch \/ (\E r \in Regions : Visit(r)) \/ Descend \/ Settle
    PROVE  PlacesInv'
<1>1. /\ TypeOK /\ path \in Seq(Movers) /\ DOMAIN resolved \subseteq Movers
      /\ \A r \in DOMAIN resolved :
            resolved[r] \in BOOLEAN /\ (resolved[r] => BeatsRivals(r))
  BY DEF PlacesInv, TypeOK
<1>2. CASE BeginSearch
  BY <1>1, <1>2, SearchKeeps DEF BeginSearch, search
<1>3. ASSUME NEW r \in Regions, Visit(r) PROVE PlacesInv'
  <2>1. path' \in Seq(Movers)
    BY <1>3 DEF Visit
  <2>2. stage = "search" /\ DOMAIN orders = Occupied(units)
    BY <1>3 DEF Visit, PlacesInv
  <2>3. QED BY <1>1, <1>3, <2>1, <2>2, SearchKeeps DEF Visit
<1>4. CASE Descend
  <2>1. stage = "search" /\ DOMAIN orders = Occupied(units)
    BY <1>4 DEF Descend, PlacesInv
  <2>2. orders[Top].to \in Movers
    BY <1>4 DEF Descend, Asks, Follows
  <2>3. path' \in Seq(Movers)
    BY <1>1, <1>4, <2>2, AppendProperties DEF Descend
  <2>4. QED BY <1>1, <1>4, <2>1, <2>3, SearchKeeps DEF Descend
<1>5. CASE Settle
  <2>1. stage = "search" /\ DOMAIN orders = Occupied(units) /\ path # <<>>
    BY <1>5 DEF Settle, PlacesInv
  <2>2. Top \in Movers
    BY <1>1, <2>1 DEF Top
  <2>3. path' \in Seq(Movers)
    <3>1. Len(path) \in Nat \ {0}
      BY <1>1, <2>1
    <3>2. QED BY <1>1, <1>5, <3>1 DEF Settle
  <2>4. PICK v \in BOOLEAN : v = Succeeds(Top, Leaves(orders[Top].to))
    <3>1. Succeeds(Top, Leaves(orders[Top].to)) \in BOOLEAN
      BY DEF Succeeds
    <3>2. QED BY <3>1
  <2>5. v => BeatsRivals(Top)
    BY <2>4 DEF Succeeds
  <2>6. resolved' = Extend(resolved, Top, v)
    BY <1>5, <2>4 DEF Settle
  <2>7. /\ DOMAIN resolved' = DOMAIN resolved \cup {Top}
        /\ \A r \in DOMAIN resolved' : resolved'[r] = IF r = Top THEN v ELSE resolved[r]
    BY <2>6 DEF Extend
  <2>8. \A r \in DOMAIN resolved' :
           resolved'[r] \in BOOLEAN /\ (resolved'[r] => BeatsRivals(r))
    BY <1>1, <2>5, <2>7
  <2>9. QED BY <1>1, <1>5, <2>1, <2>2, <2>3, <2>7, <2>8, SearchKeeps DEF Settle
<1>6. QED BY <1>2, <1>3, <1>4, <1>5

(* Of the attackers of a region at most one has succeeded.                   *)
LEMMA OneWinner ==
    ASSUME PlacesInv, DOMAIN resolved = Movers,
           NEW a \in Winners, NEW b \in Winners, orders[a].to = orders[b].to
    PROVE  a = b
<1>1. BeatsRivals(a) /\ BeatsRivals(b) /\ a \in Movers /\ b \in Movers
  BY DEF PlacesInv, Winners
<1>2. SUFFICES ASSUME a # b PROVE FALSE
  OBVIOUS
<1>3. b \in Rivals(a) /\ a \in Rivals(b)
  BY <1>1, <1>2 DEF Rivals, Attackers
<1>4. AttackStrength(a) > AttackStrength(b) /\ AttackStrength(b) > AttackStrength(a)
  BY <1>1, <1>3 DEF BeatsRivals
<1>5. AttackStrength(a) \in Int /\ AttackStrength(b) \in Int
  BY StrengthType DEF PlacesInv
<1>6. QED BY <1>4, <1>5

(* Survivors of the movement stand apart: a winner's region is its own, and  *)
(* who did not move and is not dislodged is met by no winner.                *)
LEMMA SurvivorsApart ==
    ASSUME PlacesInv, DOMAIN resolved = Movers, stage = "search",
           NEW res, res = [r \in DOMAIN orders |-> ResultOf(r)]
    PROVE  /\ \A r \in DOMAIN orders :
                 /\ res[r] \in [unit : Unit, final : Regions, by : Regions \cup {None}]
                 /\ res[r].unit.region = r
           /\ \A a, b \in Survivors(res) : res[a].final = res[b].final => a = b
<1>1. TypeOK /\ DOMAIN orders = Occupied(units) /\ DOMAIN orders \subseteq Regions
  BY DEF PlacesInv, TypeOK
<1>2. \A r \in DOMAIN orders : UnitAt(units, r) \in Unit /\ UnitAt(units, r).region = r
  BY <1>1, UnitAtFacts DEF TypeOK
<1>3. \A r \in Winners : r \in DOMAIN orders /\ orders[r].to \in Regions
  BY <1>1 DEF TypeOK, Winners, Movers, Doing, Orders, Hold
<1>4. ASSUME NEW r \in DOMAIN orders
      PROVE  /\ res[r].unit = UnitAt(units, r)
             /\ res[r].final = IF r \in Winners THEN orders[r].to ELSE r
             /\ res[r].by \in Regions \cup {None}
             /\ res[r].by = None => r \in Winners \/ WinnersInto(r) = {}
             /\ res[r] = [unit |-> res[r].unit, final |-> res[r].final, by |-> res[r].by]
  <2>1. WinnersInto(r) # {} => (CHOOSE a \in WinnersInto(r) : TRUE) \in Regions
    BY <1>1, <1>3 DEF WinnersInto
  <2>2. res[r] = ResultOf(r)
    OBVIOUS
  <2>3. QED BY <2>1, <2>2, RegionsAssumption DEF ResultOf
<1>5. ASSUME NEW r \in DOMAIN orders
      PROVE  /\ res[r] \in [unit : Unit, final : Regions, by : Regions \cup {None}]
             /\ res[r].unit.region = r
  BY <1>1, <1>2, <1>3, <1>4
<1>6. ASSUME NEW a \in Survivors(res), NEW b \in Survivors(res), res[a].final = res[b].final
      PROVE  a = b
  <2>1. a \in DOMAIN orders /\ b \in DOMAIN orders /\ res[a].by = None /\ res[b].by = None
    BY <1>6 DEF Survivors
  <2>2. CASE a \in Winners /\ b \in Winners
    BY <1>4, <1>6, <2>1, <2>2, OneWinner
  <2>3. CASE a \in Winners /\ b \notin Winners
    BY <1>4, <1>6, <2>1, <2>3 DEF WinnersInto
  <2>4. CASE a \notin Winners /\ b \in Winners
    BY <1>4, <1>6, <2>1, <2>4 DEF WinnersInto
  <2>5. CASE a \notin Winners /\ b \notin Winners
    BY <1>4, <1>6, <2>1, <2>5
  <2>6. QED BY <2>2, <2>3, <2>4, <2>5
<1>7. QED BY <1>5, <1>6

LEMMA MoveKeeps ==
    ASSUME PlacesInv, Move PROVE PlacesInv'
<1>1. /\ TypeOK /\ DOMAIN resolved = Movers /\ stage = "search" /\ builds = {}
      /\ DOMAIN orders \subseteq Regions
      /\ UNCHANGED <<turn, orders, path, resolved, builds, disbands, heard>>
  BY DEF Move, PlacesInv, TypeOK, search, adjustment
<1>2. PICK res : res = [r \in DOMAIN orders |-> ResultOf(r)]
  OBVIOUS
<1>3. results' = res /\ DOMAIN res = DOMAIN orders
  BY <1>2 DEF Move
<1>4. /\ \A r \in DOMAIN res :
            res[r] \in [unit : Unit, final : Regions, by : Regions \cup {None}]
      /\ \A a, b \in Survivors(res) : res[a].final = res[b].final => a = b
  BY <1>1, <1>2, <1>3, SurvivorsApart
<1>5. units' = Placed(res)
  BY <1>3 DEF Move
<1>6. \A r \in Survivors(res) : res[r].unit \in Unit /\ res[r].final \in Regions
  BY <1>4 DEF Survivors
<1>7. units' \subseteq Unit
  BY <1>5, <1>6, PlacedUnits
<1>8. Distinct(units')
  BY <1>4, <1>5, <1>6, PlacedUnits
<1>9. centers' \in Centers
  <2>1. PICK us \in SUBSET Unit : us = units'
    BY <1>7
  <2>2. centers' = Owners(us, centers)
    BY <2>1 DEF Move
  <2>3. QED BY <1>1, <2>2, OwnersType DEF TypeOK
<1>10. contested' \subseteq Regions /\ stage' = "moved"
  BY DEF Move
<1>11. Movers' = Movers
  BY <1>1 DEF Movers, Doing
<1>12. TypeOK'
  BY <1>1, <1>3, <1>4, <1>7, <1>9, <1>10, <1>11 DEF TypeOK
<1>13. OneUnitPerRegion'
  BY <1>3, <1>4, <1>8 DEF OneUnitPerRegion
<1>14. units' = Placed(results')
  BY <1>3, <1>5
<1>15. \A r \in DOMAIN resolved' : resolved'[r] => BeatsRivals(r)'
  BY <1>1 DEF PlacesInv, BeatsRivals, Rivals, Attackers, Movers, Doing,
              AttackStrength, Cut
<1>16. QED BY <1>1, <1>10, <1>12, <1>13, <1>14, <1>15 DEF PlacesInv

LEMMA LandKeeps ==
    ASSUME PlacesInv, Land PROVE PlacesInv'
<1>1. /\ TypeOK /\ OneUnitPerRegion /\ stage = "moved" /\ builds = {}
      /\ units' = units /\ centers' = centers
  BY DEF Land, PlacesInv, board
<1>2. units' \subseteq Unit /\ Distinct(units') /\ centers' \in Centers
  BY <1>1 DEF TypeOK, OneUnitPerRegion
<1>3. CASE AdjustOrEnd
  BY <1>1, <1>2, <1>3, AdjustOrEndKeeps
<1>4. CASE stage' = "retreat" /\ UNCHANGED <<turn, search, outcome, adjustment>>
  <2>1. UNCHANGED <<turn, orders, path, resolved, results, contested,
                    builds, disbands, heard>>
    BY <1>4 DEF search, outcome, adjustment
  <2>2. TypeOK'
    BY <1>1, <1>4, <2>1 DEF TypeOK, Movers, Doing
  <2>3. OneUnitPerRegion'
    BY <1>1, <2>1 DEF OneUnitPerRegion, Survivors
  <2>4. \A r \in DOMAIN resolved' : resolved'[r] => BeatsRivals(r)'
    BY <2>1 DEF PlacesInv, BeatsRivals, Rivals, Attackers, Movers, Doing,
                AttackStrength, Cut
  <2>5. units' = Placed(results')
    BY <1>1, <2>1 DEF PlacesInv, Placed, Survivors
  <2>6. QED BY <1>1, <1>4, <2>1, <2>2, <2>3, <2>4, <2>5 DEF PlacesInv
<1>5. QED BY <1>3, <1>4 DEF Land

LEMMA RetreatKeeps ==
    ASSUME PlacesInv, NEW wish \in [Dislodged(results) -> Regions \cup {None}],
           Retreat(wish)
    PROVE  PlacesInv'
<1> DEFINE chosen == Chosen(wish)
           R == Retreating(chosen)
           unit(r) == [results[r].unit EXCEPT !.region = chosen[r]]
<1>1. /\ TypeOK /\ OneUnitPerRegion /\ stage = "retreat"
      /\ units = Placed(results) /\ units' = units \cup {unit(r) : r \in R}
  BY DEF PlacesInv, Retreat
<1>2. \A r \in R : /\ r \in DOMAIN results /\ r \in Regions
                   /\ chosen[r] \in RetreatOptions(r)
                   /\ \A q \in R : chosen[q] = chosen[r] => q = r
  BY <1>1 DEF Retreating, Chosen, Dislodged, TypeOK
<1>3. \A r \in R : /\ chosen[r] \in Regions
                   /\ \A q \in Survivors(results) : results[q].final # chosen[r]
  BY <1>2, RegionsAssumption DEF RetreatOptions
<1>4. \A r \in R : results[r].unit \in Unit
  BY <1>1, <1>2 DEF TypeOK
<1> HIDE DEF R, chosen
<1>5. \A r \in R : unit(r) \in Unit /\ unit(r).region = chosen[r]
  BY <1>3, <1>4, Replaced
<1>6. \A u \in units : \E q \in Survivors(results) : u.region = results[q].final
  <2>1. \A q \in Survivors(results) :
           results[q].unit \in Unit /\ results[q].final \in Regions
    BY <1>1 DEF Survivors, TypeOK
  <2>2. QED BY <1>1, <2>1, PlacedUnits
<1> HIDE DEF unit
<1>7. units' \subseteq Unit
  BY <1>1, <1>5 DEF TypeOK
<1>8. Distinct(units')
  <2>1. Distinct(units)
    BY <1>1 DEF OneUnitPerRegion
  <2>2. \A u \in units, r \in R : u.region # unit(r).region
    BY <1>3, <1>5, <1>6
  <2>3. \A q, r \in R : unit(q).region = unit(r).region => unit(q) = unit(r)
    BY <1>2, <1>5
  <2>4. QED BY <1>1, <2>1, <2>2, <2>3 DEF Distinct
<1>9. centers' \in Centers
  <2>1. PICK us \in SUBSET Unit : us = units'
    BY <1>7
  <2>2. centers' = Owners(us, centers)
    BY <2>1 DEF Retreat
  <2>3. QED BY <1>1, <2>2, OwnersType DEF TypeOK
<1>10. QED BY <1>1, <1>7, <1>8, <1>9, AdjustOrEndKeeps DEF Retreat

(* Considering an order of the adjustment leaves the board alone.            *)
LEMMA AdjustmentKeeps ==
    ASSUME PlacesInv, stage = "build", UNCHANGED <<stage, turn, board, search, outcome>>,
           heard' \in 0..MaxOrders, disbands' \subseteq Regions, builds' \subseteq BuildOrder,
           \A b \in builds' :
              /\ b.region \in SupplyCenters /\ centers[b.region] = b.faction
              /\ b.region \notin Occupied(units)
              /\ \A a \in builds' : a.region = b.region => a = b
    PROVE  PlacesInv'
<1>1. UNCHANGED <<stage, turn, units, centers, orders, path, resolved, results, contested>>
  BY DEF board, search, outcome
<1>2. TypeOK'
  BY <1>1 DEF PlacesInv, TypeOK, Movers, Doing
<1>3. OneUnitPerRegion'
  BY <1>1 DEF PlacesInv, OneUnitPerRegion, Survivors
<1>4. \A r \in DOMAIN resolved' : resolved'[r] => BeatsRivals(r)'
  BY <1>1 DEF PlacesInv, BeatsRivals, Rivals, Attackers, Movers, Doing,
              AttackStrength, Cut
<1>5. QED BY <1>1, <1>2, <1>3, <1>4 DEF PlacesInv

LEMMA BuildKeeps ==
    ASSUME PlacesInv, NEW b \in BuildOrder, Build(b) PROVE PlacesInv'
<1>1. /\ TypeOK /\ stage = "build" /\ heard' \in 0..MaxOrders /\ disbands' = disbands
      /\ UNCHANGED <<stage, turn, board, search, outcome>>
  BY BoundsAssumption DEF Build, PlacesInv, TypeOK
<1>2. CASE Accepts(b)
  <2>1. builds' = builds \cup {b}
    BY <1>2 DEF Build
  <2>2. /\ b.region \in SupplyCenters /\ centers[b.region] = b.faction
        /\ b.region \notin Occupied(units)
    BY <1>2, CentersAssumption DEF Accepts, BuildOrder
  <2>3. \A a \in builds : a.region # b.region
    BY <1>2, <2>2 DEF Accepts, PlacesInv
  <2>4. \A c \in builds' :
           /\ c.region \in SupplyCenters /\ centers[c.region] = c.faction
           /\ c.region \notin Occupied(units)
           /\ \A a \in builds' : a.region = c.region => a = c
    BY <2>1, <2>2, <2>3 DEF PlacesInv
  <2>5. QED BY <1>1, <2>1, <2>4, AdjustmentKeeps DEF TypeOK
<1>3. CASE ~Accepts(b)
  BY <1>1, <1>3, AdjustmentKeeps DEF Build, PlacesInv, TypeOK
<1>4. QED BY <1>2, <1>3

LEMMA DisbandKeeps ==
    ASSUME PlacesInv, NEW f \in Factions, NEW r \in Regions, Disband(f, r) PROVE PlacesInv'
<1>1. /\ TypeOK /\ stage = "build" /\ heard' \in 0..MaxOrders /\ builds' = builds
      /\ disbands' \subseteq Regions
      /\ UNCHANGED <<stage, turn, board, search, outcome>>
  BY BoundsAssumption DEF Disband, PlacesInv, TypeOK
<1>2. QED BY <1>1, AdjustmentKeeps DEF PlacesInv, TypeOK

LEMMA AdjustKeeps ==
    ASSUME PlacesInv, Adjust PROVE PlacesInv'
<1> DEFINE built(b) == [type |-> b.type, faction |-> b.faction, region |-> b.region]
<1>1. /\ TypeOK /\ Distinct(units) /\ centers' = centers /\ NextTurn
      /\ units' = {u \in units : u.region \notin Gone} \cup {built(b) : b \in builds}
  BY DEF PlacesInv, OneUnitPerRegion, Adjust
<1>2. \A b \in builds : built(b) \in Unit /\ built(b).region = b.region
  BY <1>1 DEF TypeOK, BuildOrder, Unit
<1>3. \A u \in units, b \in builds : u.region # b.region
  BY DEF PlacesInv, Occupied
<1>4. \A a, b \in builds : a.region = b.region => a = b
  BY DEF PlacesInv
<1> HIDE DEF built
<1>5. units' \subseteq Unit /\ Distinct(units')
  BY <1>1, <1>2, <1>3, <1>4 DEF TypeOK, Distinct
<1>6. QED BY <1>1, <1>5, NextTurnKeeps DEF TypeOK

LEMMA PlacesStep ==
    ASSUME PlacesInv, [Next]_vars PROVE PlacesInv'
<1>1. CASE UNCHANGED vars
  <2>1. UNCHANGED <<stage, turn, units, centers, orders, path, resolved, results,
                    contested, builds, disbands, heard>>
    BY <1>1 DEF vars, board, search, outcome, adjustment
  <2>2. TypeOK' /\ OneUnitPerRegion'
    BY <2>1 DEF PlacesInv, TypeOK, Movers, Doing, OneUnitPerRegion, Survivors
  <2>3. \A r \in DOMAIN resolved' : resolved'[r] => BeatsRivals(r)'
    BY <2>1 DEF PlacesInv, BeatsRivals, Rivals, Attackers, Movers, Doing,
                AttackStrength, Cut
  <2>4. units' = Placed(results)' <=> units = Placed(results)
    BY <2>1 DEF Placed, Survivors
  <2>5. QED BY <2>1, <2>2, <2>3, <2>4 DEF PlacesInv
<1>2. CASE Next
  BY <1>2, NormalizeKeeps, SearchStepKeeps, MoveKeeps, LandKeeps, RetreatKeeps,
     BuildKeeps, DisbandKeeps, AdjustKeeps DEF Next
<1>3. QED BY <1>1, <1>2

(* The board and the state of the adjudication keep to their types.         *)
THEOREM TypesKept == Spec => []TypeOK
<1>1. PlacesInv => TypeOK
  BY DEF PlacesInv
<1>2. QED BY <1>1, PlacesInit, PlacesStep, PTL DEF Spec

(* Moves, dislodgements, retreats and builds never put two units in one      *)
(* region, although the functions that apply them only append to a list.    *)
THEOREM UnitsStayApart == Spec => []OneUnitPerRegion
<1>1. PlacesInv => OneUnitPerRegion
  BY DEF PlacesInv
<1>2. QED BY <1>1, PlacesInit, PlacesStep, PTL DEF Spec

LEMMA PathInit ==
    ASSUME Init PROVE RecursionEnds
BY DEF Init, RecursionEnds

LEMMA PathStep ==
    ASSUME PlacesInv, RecursionEnds, [Next]_vars PROVE RecursionEnds'
<1>1. path \in Seq(Movers)
  BY DEF PlacesInv, TypeOK
<1>2. ASSUME path' = path PROVE RecursionEnds'
  BY <1>2 DEF RecursionEnds
<1>3. ASSUME path' = <<>> PROVE RecursionEnds'
  BY <1>3 DEF RecursionEnds
<1>4. ASSUME NEW r \in Regions, Visit(r) PROVE RecursionEnds'
  BY <1>4 DEF Visit, RecursionEnds
<1>5. CASE Descend
  <2>1. orders[Top].to \in Movers /\ orders[Top].to \notin InProgress
    BY <1>5 DEF Descend, Asks, Follows
  <2>2. path' = Append(path, orders[Top].to)
    BY <1>5 DEF Descend
  <2>3. QED BY <1>1, <2>1, <2>2 DEF RecursionEnds, InProgress
<1>6. CASE Settle
  <2>1. path' = SubSeq(path, 1, Len(path) - 1) /\ Len(path) \in Nat \ {0}
    BY <1>1, <1>6 DEF Settle
  <2>2. QED BY <1>1, <2>1 DEF RecursionEnds
<1>7. CASE UNCHANGED vars
  BY <1>2, <1>7 DEF vars, search
<1>8. CASE \E r \in Regions, o \in Orders \cup {None} : Normalize(r, o)
  BY <1>2, <1>8 DEF Normalize
<1>9. ASSUME NEW f \in Factions, NEW r \in Regions, Disband(f, r) PROVE RecursionEnds'
  BY <1>2, <1>9 DEF Disband, search
<1>10. CASE BeginSearch \/ Move \/ (\E b \in BuildOrder : Build(b))
  BY <1>2, <1>10 DEF BeginSearch, Move, Build, search
<1>11. CASE NextTurn
  BY <1>3, <1>11 DEF NextTurn
<1>12. CASE AdjustOrEnd
  BY <1>2, <1>11, <1>12 DEF AdjustOrEnd, search
<1>13. CASE Land \/ Adjust \/ (\E w \in [Dislodged(results) -> Regions \cup {None}] : Retreat(w))
  BY <1>2, <1>11, <1>12, <1>13 DEF Land, Adjust, Retreat, search
<1>14. QED BY <1>4, <1>5, <1>6, <1>7, <1>8, <1>9, <1>10, <1>13 DEF Next

(* resolve_move never calls itself for a unit whose call is in progress: its *)
(* recursion is never deeper than there are moves.                           *)
THEOREM RecursionIsBounded == Spec => []RecursionEnds
<1>1. QED BY PlacesInit, PlacesStep, PathInit, PathStep, PTL DEF Spec

LEMMA OwnersFollow ==
    ASSUME NEW us \in SUBSET Unit, Distinct(us), NEW cs
    PROVE  OwnedByOccupier(us, Owners(us, cs))
<1>1. ASSUME NEW u \in us, u.region \in SupplyCenters
      PROVE  Owners(us, cs)[u.region] = u.faction
  <2>1. u.region \in Occupied(us)
    BY DEF Occupied
  <2>2. UnitAt(us, u.region) = u
    BY <2>1, UnitAtFacts DEF Distinct
  <2>3. QED BY <1>1, <2>1, <2>2 DEF Owners
<1>2. QED BY <1>1 DEF OwnedByOccupier

LEMMA OwnersInit ==
    ASSUME Init PROVE OccupiersOwn
BY BoardsAssumption DEF Init, OccupiersOwn

LEMMA OwnersStep ==
    ASSUME PlacesInv, PlacesInv', OccupiersOwn, [Next]_vars PROVE OccupiersOwn'
<1>1. PICK us \in SUBSET Unit : us = units' /\ Distinct(us)
  BY DEF PlacesInv, TypeOK, OneUnitPerRegion
<1>2. ASSUME units' = units, centers' = centers PROVE OccupiersOwn'
  BY <1>2 DEF OccupiersOwn
<1>3. ASSUME centers' = Owners(us, centers) PROVE OccupiersOwn'
  BY <1>1, <1>3, OwnersFollow DEF OccupiersOwn
<1>4. CASE UNCHANGED vars
  BY <1>2, <1>4 DEF vars, board
<1>5. CASE \E r \in Regions, o \in Orders \cup {None} : Normalize(r, o)
  BY <1>2, <1>5 DEF Normalize, board
<1>6. CASE BeginSearch \/ (\E r \in Regions : Visit(r)) \/ Descend \/ Settle \/ Land
  BY <1>2, <1>6 DEF BeginSearch, Visit, Descend, Settle, Land, board
<1>7. CASE Move
  BY <1>1, <1>3, <1>7 DEF Move
<1>8. ASSUME NEW w, Retreat(w) PROVE OccupiersOwn'
  BY <1>1, <1>3, <1>8 DEF Retreat
<1>9. ASSUME NEW b \in BuildOrder, Build(b) PROVE OccupiersOwn'
  BY <1>2, <1>9 DEF Build, board
<1>10. ASSUME NEW f \in Factions, NEW r \in Regions, Disband(f, r) PROVE OccupiersOwn'
  BY <1>2, <1>10 DEF Disband, board
<1>11. CASE Adjust
  <2> DEFINE built(b) == [type |-> b.type, faction |-> b.faction, region |-> b.region]
  <2>1. /\ units' = {u \in units : u.region \notin Gone} \cup {built(b) : b \in builds}
        /\ centers' = centers
    BY <1>11 DEF Adjust
  <2>2. \A b \in builds : centers[built(b).region] = built(b).faction
    BY DEF PlacesInv
  <2> HIDE DEF built
  <2>3. QED BY <2>1, <2>2 DEF OccupiersOwn, OwnedByOccupier
<1>12. QED BY <1>4, <1>5, <1>6, <1>7, <1>8, <1>9, <1>10, <1>11 DEF Next

(* A supply centre with a unit on it belongs to the unit's faction whenever a *)
(* board is stored: the ownership kept from earlier turns never lags behind. *)
THEOREM CentersFollowUnits == Spec => []OccupiersOwn
<1>1. QED BY PlacesInit, PlacesStep, OwnersInit, OwnersStep, PTL DEF Spec

(* Strengths, rings and what a move has to beat depend on the orders alone   *)
(* and on whose the units are, which the search leaves as they are.          *)
LEMMA SearchStatics ==
    ASSUME UNCHANGED <<orders, units>>, NEW r
    PROVE  /\ Follows(r)' <=> Follows(r)
           /\ HeadToHead(r)' <=> HeadToHead(r)
           /\ AttackStrength(r)' = AttackStrength(r)
           /\ HoldStrength(r)' = HoldStrength(r)
           /\ FactionAt(r)' = FactionAt(r)
           /\ Movers' = Movers
<1>1. Follows(r)' <=> Follows(r)
  BY DEF Follows, HeadToHead, Movers, Doing
<1>2. HeadToHead(r)' <=> HeadToHead(r)
  BY DEF HeadToHead, Movers, Doing
<1>3. AttackStrength(r)' = AttackStrength(r)
  BY DEF AttackStrength, Cut, Attackers, Movers, Doing
<1>4. HoldStrength(r)' = HoldStrength(r)
  BY DEF HoldStrength, Cut, Attackers, Movers, Doing
<1>5. FactionAt(r)' = FactionAt(r)
  BY DEF FactionAt, UnitAt
<1>6. Movers' = Movers
  BY DEF Movers, Doing
<1>7. QED BY <1>1, <1>2, <1>3, <1>4, <1>5, <1>6

LEMMA RivalStatics ==
    ASSUME UNCHANGED <<orders, units>>, NEW r
    PROVE  BeatsRivals(r)' <=> BeatsRivals(r)
<1>1. Rivals(r)' = Rivals(r)
  BY DEF Rivals, Attackers, Movers, Doing
<1>2. QED BY <1>1, SearchStatics DEF BeatsRivals

LEMMA RingStatics ==
    ASSUME UNCHANGED <<orders, units>>, NEW r
    PROVE  /\ OnRing(r)' <=> OnRing(r)
           /\ Unopposed(r)' <=> Unopposed(r)
<1>1. ASSUME NEW Q PROVE Ring(Q)' <=> Ring(Q)
  <2>1. \A q \in Q : Follows(q)' <=> Follows(q)
    BY SearchStatics
  <2>2. QED BY <2>1 DEF Ring
<1>2. Movers' = Movers
  BY DEF Movers, Doing
<1>3. Rings(r)' = Rings(r)
  BY <1>1, <1>2 DEF Rings
<1>4. \A q : BeatsRivals(q)' <=> BeatsRivals(q)
  BY RivalStatics
<1>5. QED BY <1>3, <1>4 DEF OnRing, Unopposed

LEMMA SucceedsStatics ==
    ASSUME UNCHANGED <<orders, units>>, NEW r, NEW leaves \in BOOLEAN
    PROVE  Succeeds(r, leaves)' <=> Succeeds(r, leaves)
<1>1. \A q : /\ Follows(q)' <=> Follows(q)
             /\ HeadToHead(q)' <=> HeadToHead(q)
             /\ AttackStrength(q)' = AttackStrength(q)
             /\ HoldStrength(q)' = HoldStrength(q)
             /\ FactionAt(q)' = FactionAt(q)
             /\ Movers' = Movers
             /\ BeatsRivals(q)' <=> BeatsRivals(q)
  BY SearchStatics, RivalStatics
<1>2. BeatsDefender(r, leaves)' <=> BeatsDefender(r, leaves)
  BY <1>1 DEF BeatsDefender
<1>3. QED BY <1>1, <1>2 DEF Succeeds

(* A verdict is not disturbed by those that come after it.                   *)
LEMMA FoundedStays ==
    ASSUME UNCHANGED <<orders, units>>,
           DOMAIN resolved \subseteq DOMAIN resolved',
           \A q \in DOMAIN resolved : resolved'[q] = resolved[q] /\ resolved[q] \in BOOLEAN,
           NEW r \in DOMAIN resolved, Founded(r)
    PROVE  Founded(r)'
<1>1. /\ OnRing(r)' <=> OnRing(r)
      /\ BeatsRivals(r)' <=> BeatsRivals(r)
      /\ Follows(r)' <=> Follows(r)
      /\ resolved'[r] = resolved[r]
  BY RingStatics, RivalStatics, SearchStatics
<1>2. CASE OnRing(r) /\ (resolved[r] <=> BeatsRivals(r))
  BY <1>1, <1>2 DEF Founded
<1>3. CASE /\ Follows(r) => orders[r].to \in DOMAIN resolved
           /\ resolved[r] <=> Succeeds(r, Follows(r) => resolved[orders[r].to])
  <2>1. PICK b \in BOOLEAN : b = (Follows(r) => resolved[orders[r].to])
    BY <1>3
  <2>2. b = (Follows(r) => resolved[orders[r].to])'
    BY <1>1, <1>3, <2>1
  <2>3. Succeeds(r, b)' <=> Succeeds(r, b)
    BY SucceedsStatics
  <2>4. (resolved[r] <=> Succeeds(r, Follows(r) => resolved[orders[r].to]))'
    BY <1>1, <1>3, <2>1, <2>2, <2>3
  <2>5. (Follows(r) => orders[r].to \in DOMAIN resolved)'
    BY <1>1, <1>3
  <2>6. QED BY <2>4, <2>5 DEF Founded
<1>4. QED BY <1>2, <1>3 DEF Founded

(* A call that comes back to one in progress closes a ring: the calls from   *)
(* that one on.                                                              *)
LEMMA RingClosed ==
    ASSUME path \in Seq(Movers), path # <<>>, Follows(Top),
           \A i \in 1..Len(path) - 1 : Follows(path[i]) /\ orders[path[i]].to = path[i + 1],
           orders[Top].to \in InProgress
    PROVE  OnRing(Top)
<1>1. PICK n \in Nat \ {0} : n = Len(path)
  OBVIOUS
<1>2. Top = path[n] /\ \A i \in 1..n : path[i] \in Movers
  BY <1>1 DEF Top
<1>3. PICK first \in 1..n : path[first] = orders[Top].to
  BY <1>1 DEF InProgress
<1> DEFINE Q == {path[i] : i \in first..n}
<1>4. Q \in SUBSET Movers /\ Top \in Q
  BY <1>2, <1>3
<1>5. \A i \in first..n : Follows(path[i])
  BY <1>1, <1>2, <1>3
<1>6. \A i \in first..n : orders[path[i]].to \in Q
  <2>1. ASSUME NEW i \in first..n, i # n PROVE orders[path[i]].to \in Q
    <3>1. i \in 1..Len(path) - 1 /\ i + 1 \in first..n
      BY <1>1, <1>3, <2>1
    <3>2. QED BY <3>1
  <2>2. orders[path[n]].to \in Q
    BY <1>2, <1>3
  <2>3. QED BY <2>1, <2>2
<1>7. \A i \in first..n : \E q \in Q : path[i] = orders[q].to
  <2>1. ASSUME NEW i \in first..n, i # first
        PROVE  \E q \in Q : path[i] = orders[q].to
    <3>1. i - 1 \in 1..Len(path) - 1 /\ i - 1 \in first..n /\ (i - 1) + 1 = i
      BY <1>1, <1>3, <2>1
    <3>2. QED BY <3>1
  <2>2. \E q \in Q : path[first] = orders[q].to
    BY <1>3, <1>4
  <2>3. QED BY <2>1, <2>2
<1>8. \A q \in Q : Follows(q) /\ orders[q].to \in Q /\ \E p \in Q : q = orders[p].to
  <2>1. SUFFICES ASSUME NEW q \in Q
                 PROVE  Follows(q) /\ orders[q].to \in Q /\ \E p \in Q : q = orders[p].to
    OBVIOUS
  <2>2. PICK i \in first..n : q = path[i]
    OBVIOUS
  <2> HIDE DEF Q
  <2>3. QED BY <1>5, <1>6, <1>7, <2>2
<1> HIDE DEF Q
<1>9. {orders[q].to : q \in Q} = Q
  BY <1>8
<1>10. QED BY <1>4, <1>8, <1>9 DEF OnRing, Rings, Ring

(* Whoever is on an unopposed ring follows somebody on the same ring.        *)
LEMMA UnopposedFollows ==
    ASSUME NEW r, Unopposed(r)
    PROVE  /\ Follows(r) /\ BeatsRivals(r) /\ Unopposed(orders[r].to)
           /\ orders[r].to \in Movers /\ ~HeadToHead(r)
<1>1. PICK Q \in Rings(r) : \A q \in Q : BeatsRivals(q)
  BY DEF Unopposed
<1>2. Q \in SUBSET Movers /\ r \in Q /\ Ring(Q)
  BY <1>1 DEF Rings
<1>3. Follows(r) /\ orders[r].to \in Q
  BY <1>2 DEF Ring
<1>4. Q \in Rings(orders[r].to)
  BY <1>2, <1>3 DEF Rings
<1>5. QED BY <1>1, <1>2, <1>3, <1>4 DEF Unopposed, Follows

(* While the calls in progress change and the verdicts do not.               *)
LEMMA CallsChange ==
    ASSUME PlacesInv, VerdictsInv, stage = "search", UNCHANGED <<orders, units, resolved>>,
           NEW calls, path' = calls,
           \A i \in 1..Len(calls) : calls[i] \notin DOMAIN resolved,
           \A i \in 1..Len(calls) - 1 :
              Follows(calls[i]) /\ orders[calls[i]].to = calls[i + 1]
    PROVE  VerdictsInv'
<1>1. \A r \in DOMAIN resolved : resolved[r] \in BOOLEAN
  BY DEF PlacesInv, TypeOK
<1>2. ASSUME NEW r \in DOMAIN resolved
      PROVE  Founded(r)' /\ (Unopposed(r)' => resolved'[r])
  <2>1. Founded(r) /\ (Unopposed(r) => resolved[r])
    BY DEF VerdictsInv
  <2>2. Founded(r)'
    BY <1>1, <2>1, FoundedStays
  <2>3. QED BY <2>1, <2>2, RingStatics
<1>3. \A i \in 1..Len(calls) - 1 : Follows(calls[i])'
  BY SearchStatics
<1>4. QED BY <1>2, <1>3 DEF VerdictsInv

LEMMA VisitVerdicts ==
    ASSUME PlacesInv, VerdictsInv, NEW r \in Regions, Visit(r) PROVE VerdictsInv'
<1>1. /\ stage = "search" /\ path' = <<r>> /\ r \notin DOMAIN resolved
      /\ UNCHANGED <<orders, units, resolved>>
  BY DEF Visit, board
<1>2. QED BY <1>1, CallsChange

LEMMA DescendVerdicts ==
    ASSUME PlacesInv, VerdictsInv, Descend PROVE VerdictsInv'
<1>1. /\ stage = "search" /\ path \in Seq(Movers) /\ path # <<>>
      /\ UNCHANGED <<orders, units, resolved>>
  BY DEF Descend, PlacesInv, TypeOK, board
<1>2. PICK next \in Movers : next = orders[Top].to
  BY DEF Descend, Asks, Follows
<1>3. Follows(Top) /\ next \notin DOMAIN resolved /\ path' = Append(path, next)
  BY <1>2 DEF Descend, Asks
<1>4. PICK n \in Nat \ {0} : n = Len(path)
  BY <1>1
<1>5. PICK calls : calls = Append(path, next)
  OBVIOUS
<1>6. /\ Len(calls) = n + 1 /\ calls[n + 1] = next
      /\ \A i \in 1..n : calls[i] = path[i]
  BY <1>1, <1>4, <1>5
<1>7. /\ \A i \in 1..n : path[i] \notin DOMAIN resolved
      /\ \A i \in 1..n - 1 : Follows(path[i]) /\ orders[path[i]].to = path[i + 1]
      /\ Follows(path[n]) /\ orders[path[n]].to = next
  BY <1>1, <1>2, <1>3, <1>4 DEF VerdictsInv, Top
<1>8. \A i \in 1..n + 1 : calls[i] \notin DOMAIN resolved
  BY <1>3, <1>6, <1>7
<1>9. \A i \in 1..n : Follows(calls[i]) /\ orders[calls[i]].to = calls[i + 1]
  <2>1. ASSUME NEW i \in 1..n
        PROVE  Follows(calls[i]) /\ orders[calls[i]].to = calls[i + 1]
    <3>1. CASE i = n
      BY <1>6, <1>7, <3>1
    <3>2. CASE i # n
      <4>1. i \in 1..n - 1 /\ i + 1 \in 1..n
        BY <3>2
      <4>2. QED BY <1>6, <1>7, <4>1
    <3>3. QED BY <3>1, <3>2
  <2>2. QED BY <2>1
<1>10. (n + 1) - 1 = n
  OBVIOUS
<1>11. QED BY <1>1, <1>3, <1>5, <1>6, <1>8, <1>9, <1>10, CallsChange

LEMMA SettleVerdicts ==
    ASSUME PlacesInv, RecursionEnds, VerdictsInv, Settle PROVE VerdictsInv'
<1>1. /\ stage = "search" /\ path \in Seq(Movers) /\ path # <<>>
      /\ DOMAIN resolved \subseteq Movers
      /\ \A r \in DOMAIN resolved : resolved[r] \in BOOLEAN
      /\ UNCHANGED <<stage, orders, units>>
  BY DEF Settle, PlacesInv, TypeOK, board
<1>2. PICK n \in Nat \ {0} : n = Len(path)
  BY <1>1
<1>3. PICK top \in Movers : top = Top
  BY <1>1 DEF Top
<1>4. /\ top = path[n] /\ top \notin DOMAIN resolved
      /\ \A i \in 1..n : path[i] \notin DOMAIN resolved
      /\ \A i \in 1..n - 1 : Follows(path[i]) /\ orders[path[i]].to = path[i + 1]
      /\ \A r \in DOMAIN resolved : Founded(r) /\ (Unopposed(r) => resolved[r])
      /\ \A i \in 1..n - 1 : path[i] # top
  BY <1>1, <1>2, <1>3 DEF VerdictsInv, Top, RecursionEnds
<1>5. PICK next : next = orders[top].to
  OBVIOUS
<1>6. PICK leaves \in BOOLEAN : leaves = Leaves(next)
  BY <1>1 DEF Leaves
<1>7. PICK v \in BOOLEAN : v <=> Succeeds(top, leaves)
  BY DEF Succeeds
<1>8. /\ DOMAIN resolved' = DOMAIN resolved \cup {top}
      /\ resolved'[top] = v
      /\ \A r \in DOMAIN resolved : resolved'[r] = resolved[r]
  <2>1. Succeeds(top, leaves) \in BOOLEAN
    BY DEF Succeeds
  <2>2. resolved' = Extend(resolved, top, v)
    BY <1>3, <1>5, <1>6, <1>7, <2>1 DEF Settle
  <2>3. QED BY <1>4, <2>2 DEF Extend
<1>9. PICK calls : calls = path'
  OBVIOUS
<1>10. /\ Len(calls) = n - 1
      /\ \A i \in 1..n - 1 : calls[i] = path[i]
  <2>1. calls = SubSeq(path, 1, n - 1)
    BY <1>2, <1>9 DEF Settle
  <2>2. QED BY <1>1, <1>2, <2>1
<1>11. \A i \in 1..Len(calls) : calls[i] \notin DOMAIN resolved'
  BY <1>4, <1>8, <1>10
<1>12. ASSUME NEW i \in 1..Len(calls) - 1
       PROVE  Follows(calls[i])' /\ orders'[calls[i]].to = calls[i + 1]
  <2>1. i \in 1..n - 1 /\ i + 1 \in 1..n - 1
    BY <1>10
  <2>2. calls[i] = path[i] /\ calls[i + 1] = path[i + 1]
    BY <1>10, <2>1
  <2>3. Follows(path[i]) /\ orders[path[i]].to = path[i + 1]
    BY <1>4, <2>1
  <2>4. Follows(calls[i])'
    BY <1>1, <2>2, <2>3, SearchStatics
  <2>5. QED BY <1>1, <2>2, <2>3, <2>4
<1>13. Founded(top)'
  <2>1. /\ Follows(top)' <=> Follows(top)
        /\ OnRing(top)' <=> OnRing(top)
        /\ BeatsRivals(top)' <=> BeatsRivals(top)
        /\ \A b \in BOOLEAN : Succeeds(top, b)' <=> Succeeds(top, b)
    BY <1>1, SearchStatics, RivalStatics, RingStatics, SucceedsStatics
  <2>2. CASE ~Follows(top)
    <3>1. Succeeds(top, leaves) <=> Succeeds(top, TRUE)
      BY <2>2 DEF Succeeds, BeatsDefender
    <3>2. (Follows(top) => resolved[orders[top].to])' = TRUE
      BY <2>1, <2>2
    <3>3. (resolved[top] <=> Succeeds(top, Follows(top) => resolved[orders[top].to]))'
      BY <1>7, <1>8, <2>1, <3>1, <3>2
    <3>4. QED BY <2>1, <2>2, <3>3 DEF Founded
  <2>3. CASE Follows(top) /\ next \in DOMAIN resolved
    <3>1. leaves = resolved[next]
      BY <1>6, <2>3 DEF Leaves
    <3>2. (Follows(top) => resolved[orders[top].to])' = leaves
      BY <1>1, <1>5, <1>8, <2>1, <2>3, <3>1
    <3>3. (resolved[top] <=> Succeeds(top, Follows(top) => resolved[orders[top].to]))'
      BY <1>7, <1>8, <2>1, <3>2
    <3>4. (orders[top].to \in DOMAIN resolved)'
      BY <1>1, <1>5, <1>8, <2>3
    <3>5. QED BY <3>3, <3>4 DEF Founded
  <2>4. CASE Follows(top) /\ next \notin DOMAIN resolved
    <3>1. next \in InProgress
      BY <1>3, <1>5, <2>4 DEF Settle, Asks
    <3>2. OnRing(top)
      BY <1>1, <1>2, <1>3, <1>4, <1>5, <2>4, <3>1, RingClosed
    <3>3. leaves = TRUE
      BY <1>6, <2>4 DEF Leaves
    <3>4. next \in Movers /\ ~HeadToHead(top)
      BY <1>5, <2>4 DEF Follows
    <3>5. Succeeds(top, leaves) <=> BeatsRivals(top)
      BY <1>5, <3>3, <3>4 DEF Succeeds, BeatsDefender
    <3>6. (OnRing(top) /\ (resolved[top] <=> BeatsRivals(top)))'
      BY <1>7, <1>8, <2>1, <3>2, <3>5
    <3>7. QED BY <3>6 DEF Founded
  <2>5. QED BY <2>2, <2>3, <2>4
<1>14. Unopposed(top)' => resolved'[top]
  <2>1. SUFFICES ASSUME Unopposed(top) PROVE v
    BY <1>1, <1>8, RingStatics
  <2>2. /\ BeatsRivals(top) /\ Unopposed(next)
        /\ next \in Movers /\ ~HeadToHead(top)
    BY <1>5, <2>1, UnopposedFollows
  <2>3. leaves
    BY <1>4, <1>6, <2>2 DEF Leaves
  <2>4. QED BY <1>5, <1>7, <2>2, <2>3 DEF Succeeds, BeatsDefender
<1>15. \A r \in DOMAIN resolved' : Founded(r)' /\ (Unopposed(r)' => resolved'[r])
  <2>1. ASSUME NEW r \in DOMAIN resolved
        PROVE  Founded(r)' /\ (Unopposed(r)' => resolved'[r])
    <3>1. Founded(r) /\ (Unopposed(r) => resolved[r])
      BY <1>4
    <3>2. Founded(r)'
      BY <1>1, <1>8, <3>1, FoundedStays
    <3>3. QED BY <1>1, <1>8, <3>1, <3>2, RingStatics
  <2>2. QED BY <1>8, <1>13, <1>14, <2>1
<1>16. QED BY <1>9, <1>11, <1>12, <1>15 DEF VerdictsInv

LEMMA VerdictsInit ==
    ASSUME Init PROVE VerdictsInv
BY DEF Init, VerdictsInv

LEMMA VerdictsStep ==
    ASSUME PlacesInv, RecursionEnds, VerdictsInv, [Next]_vars PROVE VerdictsInv'
<1>1. ASSUME stage' # "search" PROVE VerdictsInv'
  BY <1>1 DEF VerdictsInv
<1>2. CASE UNCHANGED vars
  <2>1. UNCHANGED <<stage, units, orders, path, resolved>>
    BY <1>2 DEF vars, board, search
  <2>2. CASE stage = "search"
    <3>1. PICK calls : path = calls
      OBVIOUS
    <3>2. QED BY <2>1, <2>2, <3>1, CallsChange DEF VerdictsInv
  <2>3. QED BY <1>1, <2>1, <2>2
<1>3. CASE \E r \in Regions, o \in Orders \cup {None} : Normalize(r, o)
  BY <1>1, <1>3 DEF Normalize
<1>4. CASE BeginSearch
  <2>1. path' = <<>> /\ DOMAIN resolved' = {}
    BY <1>4 DEF BeginSearch, PlacesInv, search
  <2>2. Len(path') = 0
    BY <2>1
  <2>3. QED BY <2>1, <2>2 DEF VerdictsInv
<1>5. CASE (\E r \in Regions : Visit(r)) \/ Descend \/ Settle
  BY <1>5, VisitVerdicts, DescendVerdicts, SettleVerdicts
<1>6. CASE NextTurn \/ AdjustOrEnd
  BY <1>1, <1>6 DEF NextTurn, AdjustOrEnd
<1>7. CASE Move \/ Land
  BY <1>1, <1>6, <1>7 DEF Move, Land
<1>8. CASE (\E w \in [Dislodged(results) -> Regions \cup {None}] : Retreat(w)) \/ Adjust
  BY <1>6, <1>8 DEF Retreat, Adjust
<1>9. ASSUME NEW b \in BuildOrder, Build(b) PROVE VerdictsInv'
  BY <1>1, <1>9 DEF Build
<1>10. ASSUME NEW f \in Factions, NEW r \in Regions, Disband(f, r) PROVE VerdictsInv'
  BY <1>1, <1>10 DEF Disband
<1>11. QED BY <1>2, <1>3, <1>4, <1>5, <1>7, <1>8, <1>9, <1>10 DEF Next

(* Verdicts that rest on one another agree, once they are all there: only a  *)
(* ring closed while another attack held it up can be at odds with itself.   *)
LEMMA FoundedAgree ==
    ASSUME PlacesInv, VerdictsInv PROVE VerdictsAgree
<1>1. SUFFICES ASSUME Decided, NEW r \in Movers
               PROVE  /\ ~OnBrokenRing(r) =>
                            (resolved[r] <=>
                               Succeeds(r, Follows(r) => resolved[orders[r].to]))
                      /\ Unopposed(r) => resolved[r]
  BY DEF VerdictsAgree, Agreeing
<1>2. \A q \in Movers : Founded(q) /\ (Unopposed(q) => resolved[q])
  BY <1>1 DEF VerdictsInv, Decided
<1>3. ASSUME ~OnBrokenRing(r)
      PROVE  resolved[r] <=> Succeeds(r, Follows(r) => resolved[orders[r].to])
  <2>1. CASE resolved[r] <=> Succeeds(r, Follows(r) => resolved[orders[r].to])
    BY <2>1
  <2>2. CASE OnRing(r)
    <3>1. Unopposed(r)
      BY <1>3, <2>2 DEF OnBrokenRing
    <3>2. PICK next : next = orders[r].to
      OBVIOUS
    <3>3. Unopposed(next) /\ BeatsRivals(r) /\ next \in Movers /\ ~HeadToHead(r)
      BY <3>1, <3>2, UnopposedFollows
    <3>4. resolved[next] /\ resolved[r]
      BY <1>2, <3>1, <3>3
    <3>5. Succeeds(r, TRUE)
      BY <3>2, <3>3 DEF Succeeds, BeatsDefender
    <3>6. (Follows(r) => resolved[next]) = TRUE
      BY <3>4
    <3>7. QED BY <3>2, <3>4, <3>5, <3>6
  <2>3. QED BY <1>2, <2>1, <2>2 DEF Founded
<1>4. QED BY <1>2, <1>3

LEMMA StrongEnough ==
    ASSUME TypeOK, NEW r PROVE AttackStrength(r) >= 1
<1> DEFINE S == {s \in Doing("supportMove") :
                    orders[s].of = r /\ orders[s].to = orders[r].to /\ ~Cut(s)}
<1>1. S \subseteq Regions
  BY DEF TypeOK, Doing
<1>2. Cardinality(S) \in Nat
  BY <1>1, FS_Subset, FS_CardinalityType, RegionsAssumption
<1> HIDE DEF S
<1>3. AttackStrength(r) = 1 + Cardinality(S)
  BY DEF AttackStrength, S
<1>4. QED BY <1>2, <1>3

(* An attacker that follows a unit and dislodged it had the verdict that the *)
(* unit stays, or was on a ring that some other attack held up.              *)
LEMMA FollowerDislodges ==
    ASSUME PlacesInv, VerdictsInv, Decided,
           NEW r \in Movers \ Winners, NEW a \in WinnersInto(r), Follows(a)
    PROVE  \/ OnBrokenRing(r)
           \/ AttackStrength(a) > 1 /\ FactionAt(r) # FactionAt(a)
<1>1. a \in Movers /\ resolved[a] /\ orders[a].to = r
  BY DEF WinnersInto, Winners
<1>2. resolved[r] = FALSE /\ r \in DOMAIN resolved /\ Founded(a)
  BY <1>1 DEF Winners, VerdictsInv, Decided, PlacesInv, TypeOK
<1>3. CASE Succeeds(a, Follows(a) => resolved[orders[a].to])
  <2>1. (Follows(a) => resolved[orders[a].to]) = FALSE
    BY <1>1, <1>2
  <2>2. Succeeds(a, FALSE)
    BY <1>3, <2>1
  <2>3. QED BY <1>1, <2>2 DEF Succeeds, BeatsDefender
<1>4. CASE OnRing(a)
  <2>1. PICK Q \in Rings(a) : TRUE
    BY <1>4 DEF OnRing
  <2>2. Q \in Rings(r)
    BY <1>1, <2>1 DEF Rings, Ring
  <2>3. ~Unopposed(r)
    BY <1>2 DEF VerdictsInv, Decided
  <2>4. QED BY <2>2, <2>3 DEF OnBrokenRing, OnRing
<1>5. QED BY <1>1, <1>2, <1>3, <1>4 DEF Founded

LEMMA DislodgedByStronger ==
    ASSUME PlacesInv, VerdictsInv, Decided,
           NEW r \in DOMAIN orders \ Winners, NEW a \in WinnersInto(r)
    PROVE  /\ WinnersInto(r) = {a}
           /\ OnBrokenRing(r) \/ AttackStrength(a) > StandsWith(r)
           /\ OnBrokenRing(r) \/ HeadToHead(a) \/ FactionAt(a) # FactionAt(r)
<1>1. /\ TypeOK /\ DOMAIN resolved = Movers
      /\ a \in Movers /\ resolved[a] /\ orders[a].to = r /\ Founded(a)
  BY DEF WinnersInto, Winners, VerdictsInv, Decided, PlacesInv
<1>2. WinnersInto(r) = {a}
  BY <1>1, OneWinner DEF WinnersInto
<1>3. CASE r \notin Movers
  <2>1. ~Follows(a) /\ ~HeadToHead(a)
    BY <1>1, <1>3 DEF Follows, HeadToHead
  <2>2. ~OnRing(a)
    BY <2>1 DEF OnRing, Rings, Ring
  <2>3. \E b \in BOOLEAN : Succeeds(a, b)
    <3>1. (Follows(a) => resolved[orders[a].to]) \in BOOLEAN
      BY <2>1
    <3>2. QED BY <1>1, <2>2, <3>1 DEF Founded
  <2>4. AttackStrength(a) > HoldStrength(r) /\ FactionAt(r) # FactionAt(a)
    BY <1>1, <1>3, <2>3 DEF Succeeds, BeatsDefender
  <2>5. QED BY <1>2, <1>3, <2>4 DEF StandsWith
<1>4. CASE r \in Movers /\ Follows(a)
  BY <1>2, <1>4, FollowerDislodges DEF StandsWith
<1>5. CASE r \in Movers /\ HeadToHead(a)
  <2>1. ~Follows(a)
    BY <1>5 DEF Follows
  <2>2. ~OnRing(a)
    BY <2>1 DEF OnRing, Rings, Ring
  <2>3. \E b \in BOOLEAN : Succeeds(a, b)
    <3>1. (Follows(a) => resolved[orders[a].to]) \in BOOLEAN
      BY <2>1
    <3>2. QED BY <1>1, <2>2, <3>1 DEF Founded
  <2>4. AttackStrength(a) > AttackStrength(r)
    BY <1>1, <1>5, <2>3 DEF Succeeds, BeatsDefender
  <2>5. AttackStrength(r) >= 1 /\ AttackStrength(r) \in Int /\ AttackStrength(a) \in Int
    BY <1>1, StrongEnough, StrengthType
  <2>6. AttackStrength(a) > 1
    BY <2>4, <2>5
  <2>7. QED BY <1>2, <1>5, <2>6 DEF StandsWith
<1>6. QED BY <1>1, <1>3, <1>4, <1>5 DEF Follows

(* Whoever follows and is followed only among finitely many is on a ring: a  *)
(* least set of units that is closed under following is one.                 *)
LEMMA RingWithin ==
    ASSUME NEW D \in SUBSET Movers, IsFiniteSet(D), D # {},
           \A r \in D : Follows(r) /\ orders[r].to \in D
    PROVE  \E Q \in SUBSET D : Q # {} /\ Ring(Q)
<1> DEFINE T == {Q \in SUBSET D : Q # {} /\ \A q \in Q : orders[q].to \in Q}
           R == StrictSubsetOrdering(D)
<1>1. IsWellFoundedOn(R, SUBSET D)
  BY FS_StrictSubsetOrderingWellFounded, FS_FiniteSubsetsOfFinite
<1>2. D \in T /\ T \subseteq SUBSET D
  OBVIOUS
<1>3. \A P, Q \in SUBSET D : P \subseteq Q /\ P # Q => <<P, Q>> \in R
  BY DEF StrictSubsetOrdering
<1> HIDE DEF R
<1>4. PICK Q \in T : \A P \in T : ~(<<P, Q>> \in R)
  <2> HIDE DEF T
  <2>1. T # {}
    BY <1>2
  <2>2. QED BY <1>1, <1>2, <2>1, WFMin
<1>5. Q \in SUBSET D /\ Q # {} /\ \A q \in Q : orders[q].to \in Q
  OBVIOUS
<1> DEFINE P == {orders[q].to : q \in Q}
<1>6. P \in SUBSET D /\ P \subseteq Q /\ P # {} /\ \A q \in P : orders[q].to \in P
  BY <1>5
<1>7. P = Q
  <2>1. P \in T
    BY <1>6
  <2> HIDE DEF P, T
  <2>2. QED BY <1>3, <1>4, <1>5, <1>6, <2>1
<1>8. \A q \in Q : Follows(q)
  BY <1>5
<1>9. QED BY <1>5, <1>7, <1>8 DEF Ring

(* Two sets of verdicts that each agree with themselves differ on some ring, *)
(* if they differ: a difference is handed on to the unit in front.           *)
LEMMA AgreeingIsUnique ==
    ASSUME TypeOK, \A r \in Movers : ~OnBrokenRing(r),
           NEW v, \A r \in Movers : v[r] \in BOOLEAN, Agreeing(v),
           NEW w, \A r \in Movers : w[r] \in BOOLEAN, Agreeing(w)
    PROVE  \A r \in Movers : v[r] = w[r]
<1> DEFINE D == {r \in Movers : v[r] # w[r]}
<1>1. IsFiniteSet(D)
  <2>1. D \subseteq Regions
    BY DEF TypeOK, Movers, Doing
  <2> HIDE DEF D
  <2>2. QED BY <2>1, FS_Subset, RegionsAssumption
<1>2. ASSUME NEW r \in D PROVE Follows(r) /\ orders[r].to \in D
  <2>1. PICK next : next = orders[r].to
    OBVIOUS
  <2>2. /\ v[r] <=> Succeeds(r, Follows(r) => v[next])
        /\ w[r] <=> Succeeds(r, Follows(r) => w[next])
    BY <2>1 DEF Agreeing
  <2>3. v[r] # w[r] /\ v[r] \in BOOLEAN /\ w[r] \in BOOLEAN
    OBVIOUS
  <2>4. ASSUME ~Follows(r) PROVE FALSE
    <3>1. (Follows(r) => v[next]) = TRUE /\ (Follows(r) => w[next]) = TRUE
      BY <2>4
    <3>2. QED BY <2>2, <2>3, <3>1
  <2>5. next \in Movers
    BY <2>1, <2>4 DEF Follows
  <2>6. ASSUME v[next] = w[next] PROVE FALSE
    <3>1. (Follows(r) => v[next]) = (Follows(r) => w[next])
      BY <2>6
    <3>2. QED BY <2>2, <2>3, <3>1
  <2>7. QED BY <2>1, <2>4, <2>5, <2>6
<1>3. ASSUME D # {} PROVE FALSE
  <2>1. PICK Q \in SUBSET D : Q # {} /\ Ring(Q)
    <3> HIDE DEF D
    <3>1. D \in SUBSET Movers
      BY DEF D
    <3>2. QED BY <1>1, <1>2, <1>3, <3>1, RingWithin
  <2>2. PICK r \in Q : TRUE
    BY <2>1
  <2>3. r \in Movers /\ OnRing(r)
    BY <2>1, <2>2 DEF OnRing, Rings
  <2>4. Unopposed(r)
    BY <2>3 DEF OnBrokenRing
  <2>5. v[r] /\ w[r]
    BY <2>3, <2>4 DEF Agreeing
  <2>6. QED BY <2>2, <2>5
<1>4. QED BY <1>3

(* The order in which resolve_move visits the units does not matter: outside *)
(* the rings that another attack holds up, every verdict is the one that the *)
(* other verdicts call for, and a ring nothing holds up has moved.           *)
THEOREM VerdictsAreConsistent == Spec => []VerdictsAgree
<1>1. QED BY PlacesInit, PlacesStep, PathInit, PathStep, VerdictsInit, VerdictsStep,
             FoundedAgree, PTL DEF Spec

(* A turn has one adjudication: without a ring that another attack holds up, *)
(* no other verdicts than those of resolve_move agree with each other.       *)
THEOREM VerdictsAreTheOnlyOnes == Spec => []NoOtherVerdicts
<1>1. ASSUME PlacesInv, VerdictsInv PROVE NoOtherVerdicts
  <2>1. SUFFICES ASSUME Decided, \A r \in Movers : ~OnBrokenRing(r),
                        NEW verdicts \in [Movers -> BOOLEAN], Agreeing(verdicts)
                 PROVE  \A r \in Movers : verdicts[r] = resolved[r]
    BY DEF NoOtherVerdicts
  <2>2. Agreeing(resolved)
    BY <1>1, <2>1, FoundedAgree DEF VerdictsAgree
  <2>3. TypeOK
    BY <1>1 DEF PlacesInv
  <2>4. \A r \in Movers : verdicts[r] \in BOOLEAN /\ resolved[r] \in BOOLEAN
    BY <2>1, <2>3 DEF TypeOK, Decided
  <2>5. QED BY <2>1, <2>2, <2>3, <2>4, AgreeingIsUnique
<1>2. QED BY <1>1, PlacesInit, PlacesStep, PathInit, PathStep, VerdictsInit,
             VerdictsStep, PTL DEF Spec

(* A unit is dislodged by a single attacker, stronger than the unit and of   *)
(* another faction, but for the two exceptions that Overpowered names.       *)
THEOREM OnlyTheOverpoweredGo == Spec => []Overpowered
<1>1. ASSUME PlacesInv, VerdictsInv PROVE Overpowered
  BY <1>1, DislodgedByStronger DEF Overpowered
<1>2. QED BY <1>1, PlacesInit, PlacesStep, PathInit, PathStep, VerdictsInit,
             VerdictsStep, PTL DEF Spec

(* The four kinds of order, each with what it names.                         *)
LEMMA OrderKinds ==
    ASSUME NEW o \in Orders
    PROVE  \/ o = Hold
           \/ /\ o.kind = "move" /\ o.to \in Regions
              /\ o = [kind |-> "move", of |-> None, to |-> o.to]
           \/ /\ o.kind = "supportHold" /\ o.of \in Regions
              /\ o = [kind |-> "supportHold", of |-> o.of, to |-> None]
           \/ /\ o.kind = "supportMove" /\ o.of \in Regions /\ o.to \in Regions
              /\ o = [kind |-> "supportMove", of |-> o.of, to |-> o.to]
BY DEF Orders

LEMMA OfferedIsLegal ==
    ASSUME TypeOK, NEW u \in units, NEW o \in Options(u)
    PROVE  Normalized(u, o) = o
<1>1. u.region \in Regions /\ Adjacent[u.region] \subseteq Regions
  BY RegionsAssumption DEF TypeOK, Unit
<1>2. CASE o = Hold
  BY <1>2 DEF Normalized
<1>3. CASE o \in MoveOptions(u)
  <2>1. PICK d \in LegalMoves(u) : o = [kind |-> "move", of |-> None, to |-> d]
    BY <1>3 DEF MoveOptions
  <2>2. CanMoveTo(u, d) /\ d \in Regions
    BY <1>1 DEF LegalMoves
  <2>3. o \in Orders
    BY <2>1, <2>2 DEF Orders
  <2>4. Legal(u, o)
    BY <2>1, <2>2 DEF Legal
  <2>5. QED BY <2>3, <2>4, OrdersAssumption DEF Normalized
<1>4. CASE o \in SupportHoldOptions(u)
  <2>1. PICK r \in Adjacent[u.region] \cap Occupied(units) :
           CanMoveTo(u, r) /\ o = [kind |-> "supportHold", of |-> r, to |-> None]
    BY <1>4 DEF SupportHoldOptions
  <2>2. o \in Orders
    BY <1>1, <2>1 DEF Orders
  <2>3. Legal(u, o)
    BY <2>1 DEF Legal
  <2>4. QED BY <2>2, <2>3, OrdersAssumption DEF Normalized
<1>5. CASE o \in SupportMoveOptions(u)
  <2>1. /\ o \in [kind : {"supportMove"}, of : Adjacent[u.region] \cap Occupied(units),
                  to : Regions]
        /\ CanMoveTo(u, o.to)
    BY <1>5 DEF SupportMoveOptions
  <2>2. o \in Orders
    BY <1>1, <2>1 DEF Orders
  <2>3. Legal(u, o)
    BY <2>1 DEF Legal
  <2>4. QED BY <2>2, <2>3, OrdersAssumption DEF Normalized
<1>6. QED BY <1>2, <1>3, <1>4, <1>5 DEF Options

LEMMA LegalIsOffered ==
    ASSUME TypeOK, NEW u \in units, NEW o \in Orders \ Options(u), Legal(u, o)
    PROVE  /\ o.kind = "supportMove"
           /\ \/ o.of \notin Adjacent[u.region]
              \/ ~CanMoveTo(UnitAt(units, o.of), o.to)
<1>1. o # Hold /\ o \notin MoveOptions(u) /\ o \notin SupportHoldOptions(u)
      /\ o \notin SupportMoveOptions(u)
  BY DEF Options
<1>2. ASSUME o.kind = "move" PROVE FALSE
  <2>1. o = [kind |-> "move", of |-> None, to |-> o.to]
    BY <1>1, <1>2, OrderKinds
  <2>2. CanMoveTo(u, o.to)
    BY <1>1, <1>2 DEF Legal
  <2>3. o.to \in LegalMoves(u)
    BY <2>2 DEF LegalMoves, CanMoveTo
  <2>4. QED BY <1>1, <2>1, <2>3 DEF MoveOptions
<1>3. ASSUME o.kind = "supportHold" PROVE FALSE
  <2>1. o = [kind |-> "supportHold", of |-> o.of, to |-> None]
    BY <1>1, <1>3, OrderKinds
  <2>2. CanMoveTo(u, o.of) /\ o.of \in Occupied(units)
    BY <1>1, <1>3 DEF Legal
  <2>3. o.of \in Adjacent[u.region] \cap Occupied(units)
    BY <2>2 DEF CanMoveTo
  <2>4. QED BY <1>1, <2>1, <2>2, <2>3 DEF SupportHoldOptions
<1>4. o.kind = "supportMove"
  BY <1>1, <1>2, <1>3, OrderKinds
<1>5. CanMoveTo(u, o.to) /\ o.of \in Occupied(units) /\ o.to \in Regions
      /\ o = [kind |-> "supportMove", of |-> o.of, to |-> o.to]
  BY <1>1, <1>4, OrderKinds DEF Legal
<1>6. ASSUME o.of \in Adjacent[u.region], CanMoveTo(UnitAt(units, o.of), o.to)
      PROVE  FALSE
  <2>1. o \in [kind : {"supportMove"}, of : Adjacent[u.region] \cap Occupied(units),
               to : Regions]
    BY <1>5, <1>6
  <2>2. o.to \in LegalMoves(UnitAt(units, o.of))
    BY <1>6 DEF LegalMoves, CanMoveTo
  <2>3. QED BY <1>1, <1>5, <2>1, <2>2 DEF SupportMoveOptions
<1>7. QED BY <1>4, <1>6

(* Every order client/orders.py offers for a unit of a board is carried out  *)
(* as given, never held instead, and what it leaves out is no legal order    *)
(* but supports of moves from afar or that the other unit cannot make.       *)
THEOREM ClientAndEngineAgree == Spec => []OptionsHonoured
<1>1. ASSUME PlacesInv PROVE OptionsHonoured
  <2>1. TypeOK
    BY <1>1 DEF PlacesInv
  <2>2. QED BY <2>1, OfferedIsLegal, LegalIsOffered DEF OptionsHonoured
<1>2. QED BY <1>1, PlacesInit, PlacesStep, PTL DEF Spec

(* Of a finite set of numbers, n have fewer than n above them: counting from *)
(* the last in a sorted list.                                                *)
LEMMA LastOnes ==
    ASSUME NEW S, IsFiniteSet(S), S \subseteq Nat, NEW n \in Nat, n <= Cardinality(S)
    PROVE  Cardinality({r \in S : Cardinality({q \in S : q > r}) < n}) = n
<1> DEFINE above(r) == {q \in S : q > r}
           rank == [r \in S |-> Cardinality(above(r))]
           last == {r \in S : rank[r] < n}
<1>1. PICK m \in Nat : m = Cardinality(S)
  BY FS_CardinalityType
<1>2. \A r \in S : IsFiniteSet(above(r)) /\ Cardinality(above(r)) \in Nat
  BY FS_Subset, FS_CardinalityType
<1>3. \A r \in S : rank[r] \in 0..m - 1
  <2>1. SUFFICES ASSUME NEW r \in S PROVE rank[r] \in 0..m - 1
    OBVIOUS
  <2>2. above(r) \subseteq S /\ above(r) # S
    OBVIOUS
  <2>3. Cardinality(above(r)) <= m /\ Cardinality(above(r)) # m
    BY <1>1, <2>2, FS_Subset
  <2> HIDE DEF above
  <2>4. QED BY <1>1, <1>2, <2>3
<1>4. \A r, s \in S : r < s => rank[s] < rank[r]
  <2>1. SUFFICES ASSUME NEW r \in S, NEW s \in S, r < s PROVE rank[s] < rank[r]
    OBVIOUS
  <2>2. above(s) \subseteq above(r) /\ s \in above(r) \ above(s)
    <3>1. \A q \in S : q \in Nat
      OBVIOUS
    <3>2. \A q \in S : q > s => q > r
      BY <2>1, <3>1
    <3>3. s > r /\ ~(s > s)
      BY <2>1, <3>1
    <3>4. QED BY <3>2, <3>3
  <2>3. above(s) # above(r)
    BY <2>2
  <2>4. Cardinality(above(s)) <= Cardinality(above(r))
        /\ Cardinality(above(s)) # Cardinality(above(r))
    BY <1>2, <2>2, <2>3, FS_Subset
  <2> HIDE DEF above
  <2>5. QED BY <1>2, <2>4
<1> HIDE DEF above
<1>5. rank \in [S -> 0..m - 1]
  BY <1>3
<1>6. \A r, s \in S : rank[r] = rank[s] => r = s
  <2> HIDE DEF rank
  <2>1. SUFFICES ASSUME NEW r \in S, NEW s \in S, rank[r] = rank[s], r # s PROVE FALSE
    OBVIOUS
  <2>2. r < s \/ s < r
    BY <2>1
  <2>3. rank[r] < rank[s] \/ rank[s] < rank[r]
    BY <1>4, <2>2
  <2>4. rank[r] \in Int /\ rank[s] \in Int
    BY <1>3
  <2>5. QED BY <2>1, <2>3, <2>4
<1> HIDE DEF rank
<1>7. rank \in Surjection(S, 0..m - 1)
  <2>1. rank \in Injection(S, 0..m - 1)
    BY <1>5, <1>6 DEF Injection, IsInjective
  <2>2. IsFiniteSet(0..m - 1) /\ Cardinality(0..m - 1) = m
    BY FS_Interval
  <2>3. QED BY <1>1, <2>1, <2>2, FS_Injection
<1>8. \A k \in 0..m - 1 : \E r \in S : rank[r] = k
  BY <1>7, Fun_SurjectionProperties
<1> DEFINE place == [r \in last |-> rank[r]]
<1>9. place \in [last -> 0..n - 1]
  <2>1. \A r \in last : rank[r] \in 0..n - 1
    BY <1>3
  <2> HIDE DEF last
  <2>2. QED BY <2>1
<1>10. \A r, s \in last : place[r] = place[s] => r = s
  BY <1>6
<1>11. \A k \in 0..n - 1 : \E r \in last : place[r] = k
  BY <1>1, <1>8
<1> HIDE DEF place
<1>12. place \in Bijection(last, 0..n - 1)
  BY <1>9, <1>10, <1>11, Fun_IsBij
<1>13. IsFiniteSet(last)
  BY FS_Subset
<1>14. Cardinality(0..n - 1) = n
  BY FS_Interval
<1>15. last = {r \in S : Cardinality({q \in S : q > r}) < n}
  <2>1. \A r \in S : rank[r] = Cardinality({q \in S : q > r})
    BY DEF rank, above
  <2> HIDE DEF rank
  <2>2. QED BY <2>1
<1> HIDE DEF last
<1>16. ExistsBijection(last, 0..n - 1)
  BY <1>12, Fun_ExistsBij
<1>17. Cardinality(last) = n
  BY <1>13, <1>14, <1>16, FS_Bijection
<1>18. QED BY <1>15, <1>17

(* What stands in regions of its own can be counted by its regions.          *)
LEMMA CountedByRegion ==
    ASSUME NEW V, Distinct(V), \A v \in V : v.region \in Regions
    PROVE  /\ IsFiniteSet(V) /\ IsFiniteSet(Occupied(V))
           /\ Cardinality(V) \in Nat /\ Cardinality(Occupied(V)) = Cardinality(V)
<1> DEFINE f == [v \in V |-> v.region]
<1>1. Occupied(V) \subseteq Regions
  BY DEF Occupied
<1>2. IsFiniteSet(Occupied(V))
  BY <1>1, FS_Subset, RegionsAssumption
<1>3. f \in [V -> Occupied(V)]
  BY DEF Occupied
<1>4. \A u, v \in V : f[u] = f[v] => u = v
  BY DEF Distinct
<1>5. \A r \in Occupied(V) : \E v \in V : f[v] = r
  BY DEF Occupied
<1> HIDE DEF f
<1>6. f \in Bijection(V, Occupied(V))
  BY <1>3, <1>4, <1>5, Fun_IsBij
<1>7. f \in Injection(V, Occupied(V)) /\ f \in Surjection(V, Occupied(V))
  BY <1>6, Fun_BijectionProperties
<1>8. IsFiniteSet(V) /\ Cardinality(V) = Cardinality(Occupied(V))
  BY <1>2, <1>7, FS_Injection
<1>9. QED BY <1>2, <1>8, FS_CardinalityType

(* Centres and units are finite in number, so that they can be compared.     *)
LEMMA DeltaFacts ==
    ASSUME NEW us \in SUBSET Unit, Distinct(us), NEW cs, NEW f
    PROVE  /\ IsFiniteSet(UnitsOf(us, f)) /\ Cardinality(UnitsOf(us, f)) \in Nat
           /\ Cardinality(CentersOf(cs, f)) \in Nat
           /\ Delta(us, cs, f) = Cardinality(CentersOf(cs, f)) - Cardinality(UnitsOf(us, f))
           /\ Delta(us, cs, f) \in Int
           /\ Distinct(UnitsOf(us, f))
           /\ \A u \in UnitsOf(us, f) : u.region \in Regions
           /\ Cardinality(Occupied(UnitsOf(us, f))) = Cardinality(UnitsOf(us, f))
<1>1. UnitsOf(us, f) \subseteq us
  BY DEF UnitsOf
<1>2. Distinct(UnitsOf(us, f)) /\ \A u \in UnitsOf(us, f) : u.region \in Regions
  BY <1>1 DEF Distinct, Unit
<1>3. /\ IsFiniteSet(UnitsOf(us, f)) /\ Cardinality(UnitsOf(us, f)) \in Nat
      /\ Cardinality(Occupied(UnitsOf(us, f))) = Cardinality(UnitsOf(us, f))
  BY <1>2, CountedByRegion
<1>4. CentersOf(cs, f) \subseteq Regions
  BY CentersAssumption DEF CentersOf
<1>5. Cardinality(CentersOf(cs, f)) \in Nat
  BY <1>4, FS_Subset, FS_CardinalityType, RegionsAssumption
<1>6. QED BY <1>2, <1>3, <1>5 DEF Delta

BuildsOf(f) == {b \in builds : b.faction = f}

LEMMA BuildsFinite ==
    ASSUME PlacesInv, NEW f
    PROVE  IsFiniteSet(BuildsOf(f)) /\ Cardinality(BuildsOf(f)) \in Nat
<1>1. Distinct(BuildsOf(f)) /\ \A b \in BuildsOf(f) : b.region \in Regions
  BY CentersAssumption DEF PlacesInv, BuildsOf, Distinct
<1>2. QED BY <1>1, CountedByRegion

LEMMA QuotasInit ==
    ASSUME Init PROVE QuotasInv
<1>1. builds = {} /\ disbands = {}
  BY DEF Init
<1>2. \A f \in Factions : {b \in builds : b.faction = f} = {} /\ disbands \cap RegionsOf(f) = {}
  BY <1>1
<1>3. QED BY <1>1, <1>2, FS_EmptySet DEF QuotasInv

(* Where there are no builds and no disbands there is nothing to keep.       *)
LEMMA NoQuotas ==
    ASSUME builds' = {}, disbands' = {} PROVE QuotasInv'
<1>1. \A f \in Factions : /\ {b \in builds' : b.faction = f} = {}
                          /\ (disbands \cap RegionsOf(f))' = {}
  OBVIOUS
<1>2. QED BY <1>1, FS_EmptySet DEF QuotasInv

LEMMA BuildQuota ==
    ASSUME PlacesInv, QuotasInv, NEW b \in BuildOrder, Build(b) PROVE QuotasInv'
<1>1. /\ stage = "build" /\ UNCHANGED <<stage, units, centers, disbands>>
      /\ builds' = IF Accepts(b) THEN builds \cup {b} ELSE builds
  BY DEF Build, board
<1>2. /\ \A f \in Factions : (disbands \cap RegionsOf(f))' = disbands \cap RegionsOf(f)
      /\ \A f \in Factions : Delta(units, centers, f)' = Delta(units, centers, f)
  BY <1>1 DEF RegionsOf, Delta
<1>3. \A f \in Factions :
         LET n == Cardinality({a \in builds' : a.faction = f})
         IN  n = 0 \/ n <= Delta(units, centers, f)
  <2>1. SUFFICES ASSUME NEW f \in Factions
                 PROVE  LET n == Cardinality({a \in builds' : a.faction = f})
                        IN  n = 0 \/ n <= Delta(units, centers, f)
    OBVIOUS
  <2>2. Cardinality(BuildsOf(f)) = 0 \/ Cardinality(BuildsOf(f)) <= Delta(units, centers, f)
    BY DEF QuotasInv, BuildsOf
  <2>3. CASE Accepts(b) /\ b.faction = f
    <3>1. {a \in builds' : a.faction = f} = BuildsOf(f) \cup {b}
      BY <1>1, <2>3 DEF BuildsOf
    <3>2. Cardinality(BuildsOf(f)) < Delta(units, centers, f)
      BY <2>3 DEF Accepts, BuildsOf
    <3>3. IsFiniteSet(BuildsOf(f)) /\ Cardinality(BuildsOf(f)) \in Nat
      BY BuildsFinite
    <3>4. \/ Cardinality(BuildsOf(f) \cup {b}) = Cardinality(BuildsOf(f))
          \/ Cardinality(BuildsOf(f) \cup {b}) = Cardinality(BuildsOf(f)) + 1
      BY <3>3, FS_AddElement
    <3>5. Delta(units, centers, f) \in Int
      BY DeltaFacts DEF PlacesInv, TypeOK, OneUnitPerRegion
    <3>6. Cardinality(BuildsOf(f) \cup {b}) <= Delta(units, centers, f)
      BY <3>2, <3>3, <3>4, <3>5
    <3>7. QED BY <3>1, <3>6
  <2>4. CASE ~(Accepts(b) /\ b.faction = f)
    <3>1. {a \in builds' : a.faction = f} = BuildsOf(f)
      BY <1>1, <2>4 DEF BuildsOf
    <3>2. QED BY <2>2, <3>1
  <2>5. QED BY <2>3, <2>4
<1>4. QED BY <1>1, <1>2, <1>3 DEF QuotasInv

LEMMA DisbandQuota ==
    ASSUME PlacesInv, QuotasInv, NEW f \in Factions, NEW r \in Regions, Disband(f, r)
    PROVE  QuotasInv'
<1>1. /\ stage = "build" /\ UNCHANGED <<stage, units, centers, builds>>
      /\ disbands' = IF Shortfall(f) > 0 /\ r \in RegionsOf(f)
                     THEN disbands \cup {r} ELSE disbands
      /\ disbands \subseteq Regions /\ Distinct(units) /\ units \subseteq Unit
  BY DEF Disband, board, PlacesInv, TypeOK, OneUnitPerRegion
<1>2. \A g \in Factions : /\ RegionsOf(g)' = RegionsOf(g)
                          /\ Delta(units, centers, g)' = Delta(units, centers, g)
  BY <1>1 DEF RegionsOf, Delta
<1>3. \A g \in Factions :
         LET n == Cardinality(disbands' \cap RegionsOf(g))
         IN  n = 0 \/ n <= -Delta(units, centers, g)
  <2>1. SUFFICES ASSUME NEW g \in Factions
                 PROVE  LET n == Cardinality(disbands' \cap RegionsOf(g))
                        IN  n = 0 \/ n <= -Delta(units, centers, g)
    OBVIOUS
  <2> DEFINE D == disbands \cap RegionsOf(g)
  <2>2. Cardinality(D) = 0 \/ Cardinality(D) <= -Delta(units, centers, g)
    BY DEF QuotasInv
  <2>3. CASE Shortfall(f) > 0 /\ r \in RegionsOf(f) /\ g = f
    <3>1. disbands' \cap RegionsOf(g) = D \cup {r}
      BY <1>1, <2>3
    <3>2. -Delta(units, centers, g) - Cardinality(D) > 0
      BY <2>3 DEF Shortfall
    <3>3. IsFiniteSet(D) /\ Cardinality(D) \in Nat
      <4>1. D \subseteq Regions
        BY <1>1
      <4>2. QED BY <4>1, FS_Subset, FS_CardinalityType, RegionsAssumption
    <3> HIDE DEF D
    <3>4. \/ Cardinality(D \cup {r}) = Cardinality(D)
          \/ Cardinality(D \cup {r}) = Cardinality(D) + 1
      BY <3>3, FS_AddElement
    <3>5. Delta(units, centers, g) \in Int
      BY <1>1, DeltaFacts
    <3>6. Cardinality(D \cup {r}) <= -Delta(units, centers, g)
      BY <3>2, <3>3, <3>4, <3>5
    <3>7. QED BY <3>1, <3>6
  <2>4. CASE ~(Shortfall(f) > 0 /\ r \in RegionsOf(f))
    BY <1>1, <2>2, <2>4
  <2>5. CASE Shortfall(f) > 0 /\ r \in RegionsOf(f) /\ g # f
    <3>1. r \notin RegionsOf(g)
      BY <1>1, <2>5 DEF RegionsOf, UnitsOf, Occupied, Distinct
    <3>2. disbands' \cap RegionsOf(g) = D
      BY <1>1, <3>1
    <3>3. QED BY <2>2, <3>2
  <2>6. QED BY <2>3, <2>4, <2>5
<1>4. QED BY <1>1, <1>2, <1>3 DEF QuotasInv

LEMMA QuotasStep ==
    ASSUME PlacesInv, PlacesInv', QuotasInv, [Next]_vars PROVE QuotasInv'
<1>1. ASSUME UNCHANGED <<stage, units, centers, builds, disbands>> PROVE QuotasInv'
  BY <1>1 DEF QuotasInv, RegionsOf, Delta
<1>2. ASSUME stage # "build", UNCHANGED adjustment PROVE QuotasInv'
  <2>1. builds' = {} /\ disbands' = {}
    BY <1>2 DEF PlacesInv, QuotasInv, adjustment
  <2>2. QED BY <2>1, NoQuotas
<1>3. ASSUME NextTurn PROVE QuotasInv'
  BY <1>3, NoQuotas DEF NextTurn
<1>4. CASE UNCHANGED vars
  BY <1>1, <1>4 DEF vars, board, adjustment
<1>5. CASE \E r \in Regions, o \in Orders \cup {None} : Normalize(r, o)
  BY <1>2, <1>5 DEF Normalize
<1>6. CASE BeginSearch \/ (\E r \in Regions : Visit(r)) \/ Descend \/ Settle \/ Move
  BY <1>2, <1>6 DEF BeginSearch, Visit, Descend, Settle, Move
<1>7. CASE Land
  BY <1>2, <1>3, <1>7 DEF Land, AdjustOrEnd
<1>8. ASSUME NEW w, Retreat(w) PROVE QuotasInv'
  BY <1>2, <1>3, <1>8 DEF Retreat, AdjustOrEnd
<1>9. ASSUME NEW b \in BuildOrder, Build(b) PROVE QuotasInv'
  BY <1>9, BuildQuota
<1>10. ASSUME NEW f \in Factions, NEW r \in Regions, Disband(f, r) PROVE QuotasInv'
  BY <1>10, DisbandQuota
<1>11. CASE Adjust
  BY <1>3, <1>11 DEF Adjust
<1>12. QED BY <1>4, <1>5, <1>6, <1>7, <1>8, <1>9, <1>10, <1>11 DEF Next

(* Of a faction's own units, only those it disbands or that are taken from   *)
(* it by default go.                                                         *)
LEMMA OnlyOwnGo ==
    ASSUME Distinct(units), NEW f \in Factions, NEW u \in UnitsOf(units, f)
    PROVE  u.region \in Gone <=> u.region \in disbands \cup Default(f)
<1>1. u \in units /\ u.region \in RegionsOf(f)
  BY DEF UnitsOf, RegionsOf, Occupied
<1>2. ASSUME NEW g \in Factions, u.region \in Default(g) PROVE g = f
  <2>1. u.region \in RegionsOf(g)
    BY <1>2 DEF Default
  <2>2. PICK v \in UnitsOf(units, g) : v.region = u.region
    BY <2>1 DEF RegionsOf, Occupied
  <2>3. QED BY <1>1, <2>2 DEF UnitsOf, Distinct
<1>3. QED BY <1>2 DEF Gone

(* A faction that may not build loses no unit and gains at most its quota.   *)
LEMMA NoMoreThanItMayHave ==
    ASSUME PlacesInv, QuotasInv, NEW f \in Factions, Delta(units, centers, f) >= 0,
           NEW K, K = {u \in UnitsOf(units, f) : u.region \notin Gone}
    PROVE  /\ Cardinality(BuildsOf(f)) <= Delta(units, centers, f)
           /\ K = UnitsOf(units, f)
<1>1. Distinct(units) /\ units \subseteq Unit /\ disbands \subseteq Regions
  BY DEF PlacesInv, TypeOK, OneUnitPerRegion
<1>2. PICK delta \in Int : delta = Delta(units, centers, f) /\ delta >= 0
  BY <1>1, DeltaFacts
<1>3. Cardinality(BuildsOf(f)) <= delta
  BY <1>2, BuildsFinite DEF QuotasInv, BuildsOf
<1>4. PICK D \in SUBSET Regions : D = disbands \cap RegionsOf(f)
  BY <1>1
<1>5. IsFiniteSet(D) /\ Cardinality(D) \in Nat
  BY <1>4, FS_Subset, FS_CardinalityType, RegionsAssumption
<1>6. Cardinality(D) = 0
  <2>1. Cardinality(D) = 0 \/ Cardinality(D) <= -delta
    BY <1>2, <1>4 DEF QuotasInv
  <2>2. QED BY <1>2, <1>5, <2>1
<1>7. D = {} /\ Shortfall(f) = -delta
  <2>1. Shortfall(f) = -delta - 0
    BY <1>2, <1>4, <1>6 DEF Shortfall
  <2>2. D = {}
    BY <1>5, <1>6, FS_EmptySet
  <2>3. QED BY <1>2, <2>1, <2>2
<1>8. Default(f) = {}
  <2>1. SUFFICES ASSUME NEW r \in Default(f) PROVE FALSE
    OBVIOUS
  <2>2. PICK above \in SUBSET Regions :
           above = {q \in RegionsOf(f) \ disbands : q > r} /\ Cardinality(above) < -delta
    <3>1. RegionsOf(f) \subseteq Regions
      BY <1>1 DEF RegionsOf, UnitsOf, Occupied, Unit
    <3>2. QED BY <1>7, <3>1 DEF Default
  <2>3. Cardinality(above) \in Nat
    BY FS_Subset, FS_CardinalityType, RegionsAssumption
  <2>4. QED BY <1>2, <2>2, <2>3
<1>9. \A u \in UnitsOf(units, f) : u.region \notin Gone
  <2>1. ASSUME NEW u \in UnitsOf(units, f) PROVE u.region \notin disbands
    <3>1. u.region \in RegionsOf(f)
      BY DEF RegionsOf, Occupied
    <3>2. QED BY <1>4, <1>7, <3>1
  <2>2. QED BY <1>1, <1>8, <2>1, OnlyOwnGo
<1>10. QED BY <1>2, <1>3, <1>9

(* A faction with too many units keeps exactly as many as it has centres:    *)
(* what it chose and what is chosen for it make up the shortfall.            *)
LEMMA JustWhatItMust ==
    ASSUME PlacesInv, QuotasInv, NEW f \in Factions, Delta(units, centers, f) < 0,
           NEW K, K = {u \in UnitsOf(units, f) : u.region \notin Gone}
    PROVE  BuildsOf(f) = {} /\ Cardinality(K) = Cardinality(CentersOf(centers, f))
<1>1. Distinct(units) /\ units \subseteq Unit /\ disbands \subseteq Regions
  BY DEF PlacesInv, TypeOK, OneUnitPerRegion
<1>2. PICK k \in Nat, c \in Nat :
         /\ k = Cardinality(UnitsOf(units, f)) /\ c = Cardinality(CentersOf(centers, f))
         /\ Delta(units, centers, f) = c - k /\ c - k < 0
  BY <1>1, DeltaFacts
<1>3. BuildsOf(f) = {}
  <2>1. PICK n \in Nat : n = Cardinality(BuildsOf(f))
    BY BuildsFinite
  <2>2. n = 0 \/ n <= c - k
    BY <1>2, <2>1 DEF QuotasInv, BuildsOf
  <2>3. n = 0
    BY <1>2, <2>2
  <2>4. QED BY <2>1, <2>3, BuildsFinite, FS_EmptySet
<1>4. PICK R \in SUBSET Regions : /\ R = RegionsOf(f)
                                  /\ IsFiniteSet(R) /\ Cardinality(R) = k
  <2>1. RegionsOf(f) \subseteq Regions
    BY <1>1 DEF RegionsOf, UnitsOf, Occupied, Unit
  <2>2. Cardinality(RegionsOf(f)) = k
    BY <1>1, <1>2, DeltaFacts DEF RegionsOf
  <2>3. QED BY <2>1, <2>2, FS_Subset, RegionsAssumption
<1>5. PICK d \in Nat : d = Cardinality(disbands \cap R)
  <2>1. IsFiniteSet(disbands \cap R)
    BY <1>4, FS_Intersection
  <2>2. QED BY <2>1, FS_CardinalityType
<1>6. d = 0 \/ d <= -(c - k)
  BY <1>2, <1>4, <1>5 DEF QuotasInv
<1>7. PICK short \in Nat : short = Shortfall(f) /\ short = k - c - d
  <2>1. Shortfall(f) = -(c - k) - d
    BY <1>2, <1>4, <1>5 DEF Shortfall
  <2>2. -(c - k) - d = k - c - d /\ k - c - d \in Nat
    BY <1>2, <1>6
  <2>3. QED BY <2>1, <2>2
<1>8. PICK left \in SUBSET R : /\ left = R \ disbands
                               /\ IsFiniteSet(left) /\ Cardinality(left) = k - d
  <2>1. Cardinality(R \ disbands) = k - Cardinality(R \cap disbands)
    BY <1>4, FS_Difference
  <2>2. R \cap disbands = disbands \cap R
    OBVIOUS
  <2>3. QED BY <1>4, <1>5, <2>1, <2>2, FS_Difference
<1>9. Default(f) \subseteq left /\ Cardinality(Default(f)) = short
  <2>1. Default(f) = {r \in left : Cardinality({q \in left : q > r}) < short}
    BY <1>4, <1>7, <1>8 DEF Default
  <2>2. short <= k - d
    BY <1>2, <1>7
  <2>3. left \subseteq Nat
    BY <1>4, RegionsAssumption
  <2>4. Cardinality({r \in left : Cardinality({q \in left : q > r}) < short}) = short
    BY <1>8, <2>2, <2>3, LastOnes
  <2>5. QED BY <2>1, <2>4
<1>10. Cardinality(left \ Default(f)) = c
  <2>1. PICK last \in SUBSET left : last = Default(f) /\ Cardinality(last) = short
    BY <1>9
  <2>2. left \cap last = last
    OBVIOUS
  <2>3. Cardinality(left \ last) = Cardinality(left) - Cardinality(left \cap last)
    BY <1>8, FS_Difference
  <2>4. (k - d) - short = c
    BY <1>7
  <2>5. QED BY <1>8, <2>1, <2>2, <2>3, <2>4
<1>11. Occupied(K) = left \ Default(f)
  <2>1. \A u \in UnitsOf(units, f) :
           u.region \notin Gone <=> u.region \notin disbands \cup Default(f)
    BY <1>1, OnlyOwnGo
  <2>2. R = {u.region : u \in UnitsOf(units, f)}
    BY <1>4 DEF RegionsOf, Occupied
  <2>3. QED BY <1>8, <2>1, <2>2 DEF Occupied
<1>12. Cardinality(Occupied(K)) = Cardinality(K)
  <2>1. Distinct(K) /\ \A u \in K : u.region \in Regions
    BY <1>1 DEF UnitsOf, Distinct, Unit
  <2>2. QED BY <2>1, CountedByRegion
<1>13. QED BY <1>2, <1>3, <1>10, <1>11, <1>12

LEMMA AdjustBalances ==
    ASSUME PlacesInv, PlacesInv', QuotasInv, Adjust, NEW f \in Factions
    PROVE  /\ Delta(units', centers', f) >= 0
           /\ Delta(units, centers', f) < 0 => Delta(units', centers', f) = 0
<1> DEFINE built(b) == [type |-> b.type, faction |-> b.faction, region |-> b.region]
           K == {u \in UnitsOf(units, f) : u.region \notin Gone}
           B == {built(b) : b \in BuildsOf(f)}
<1>1. /\ Distinct(units) /\ units \subseteq Unit /\ centers' = centers
      /\ units' = {u \in units : u.region \notin Gone} \cup {built(b) : b \in builds}
      /\ \A b \in BuildsOf(f) : b.region \in Regions
      /\ \A a, b \in BuildsOf(f) : a.region = b.region => a = b
  BY CentersAssumption DEF PlacesInv, TypeOK, OneUnitPerRegion, Adjust, BuildsOf
<1>2. PICK us \in SUBSET Unit : us = units' /\ Distinct(us)
  BY DEF PlacesInv, TypeOK, OneUnitPerRegion
<1>3. \A b : built(b).faction = b.faction /\ built(b).region = b.region
  OBVIOUS
<1> HIDE DEF built
<1>4. UnitsOf(us, f) = K \cup B
  BY <1>1, <1>2, <1>3 DEF UnitsOf, BuildsOf
<1>5. PICK k \in Nat, c \in Nat :
         /\ k = Cardinality(UnitsOf(units, f)) /\ c = Cardinality(CentersOf(centers, f))
         /\ Delta(units, centers, f) = c - k
  BY <1>1, DeltaFacts
<1>6. PICK m \in Nat : /\ m = Cardinality(UnitsOf(us, f))
                       /\ Delta(us, centers, f) = c - m
  BY <1>5, DeltaFacts, <1>2
<1>7. PICK n \in Nat : /\ n = Cardinality(BuildsOf(f)) /\ IsFiniteSet(B)
                       /\ Cardinality(B) = n
  <2>1. Distinct(BuildsOf(f)) /\ Distinct(B) /\ Occupied(B) = Occupied(BuildsOf(f))
    BY <1>1, <1>3 DEF Distinct, Occupied
  <2>2. \A u \in B : u.region \in Regions
    BY <1>1, <1>3
  <2> HIDE DEF B
  <2>3. QED BY <1>1, <2>1, <2>2, CountedByRegion
<1>8. CASE c - k >= 0
  <2>1. n <= c - k /\ K = UnitsOf(units, f)
    BY <1>5, <1>7, <1>8, NoMoreThanItMayHave
  <2>2. IsFiniteSet(K) /\ Cardinality(K) = k
    BY <1>1, <1>5, <2>1, DeltaFacts
  <2> HIDE DEF K, B
  <2>3. m = k + n - Cardinality(K \cap B)
    BY <1>4, <1>6, <1>7, <2>2, FS_Union
  <2>4. Cardinality(K \cap B) \in Nat
    BY <2>2, FS_Intersection, FS_CardinalityType
  <2>5. c - m >= 0
    BY <2>1, <2>3, <2>4
  <2>6. QED BY <1>1, <1>2, <1>5, <1>6, <1>8, <2>5
<1>9. CASE c - k < 0
  <2>1. BuildsOf(f) = {} /\ Cardinality(K) = c
    BY <1>5, <1>9, JustWhatItMust
  <2>2. B = {}
    BY <2>1
  <2> HIDE DEF K, B
  <2>3. m = c
    BY <1>4, <1>6, <2>1, <2>2
  <2>4. QED BY <1>1, <1>2, <1>6, <2>3
<1>10. QED BY <1>8, <1>9

(* However few the disbands and however many the builds that were ordered, a *)
(* turn ends with no faction above its number of centres, and one that was   *)
(* above it loses the units that it must and no more.                        *)
THEOREM TurnsEndInBalance == Spec => TurnEndsInBalance
<1>1. ASSUME PlacesInv, PlacesInv', QuotasInv, Next,
             stage # "over", stage' = "over" \/ turn' # turn, NEW f \in Factions
      PROVE  /\ Delta(units', centers', f) >= 0
             /\ Delta(units, centers', f) < 0 => Delta(units', centers', f) = 0
  <2>1. ASSUME AdjustOrEnd PROVE Delta(units', centers', f) = 0
    <3>1. Balanced(units', centers')
      BY <1>1, <2>1 DEF AdjustOrEnd
    <3>2. QED BY <3>1 DEF Balanced
  <2>2. CASE Adjust
    BY <1>1, <2>2, AdjustBalances
  <2>3. CASE Land \/ (\E w \in [Dislodged(results) -> Regions \cup {None}] : Retreat(w))
    <3>1. AdjustOrEnd
      BY <1>1, <2>3 DEF Land, Retreat
    <3>2. QED BY <2>1, <3>1
  <2>4. QED BY <1>1, <2>2, <2>3 DEF Next, Normalize, BeginSearch, Visit, Descend, Settle,
                                   Move, Build, Disband
<1>2. ASSUME PlacesInv, PlacesInv', QuotasInv, [Next]_vars
      PROVE  [stage # "over" /\ (stage' = "over" \/ turn' # turn) =>
                 \A f \in Factions :
                     /\ Delta(units', centers', f) >= 0
                     /\ Delta(units, centers', f) < 0 => Delta(units', centers', f) = 0]_vars
  BY <1>1, <1>2
<1>3. QED BY <1>2, PlacesInit, PlacesStep, QuotasInit, QuotasStep, PTL
          DEF Spec, TurnEndsInBalance
=============================================================================
