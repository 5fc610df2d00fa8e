----------------------------- MODULE GameProofs -----------------------------
(***************************************************************************)
(* Proofs about what the result chain of Match says: each recorded board    *)
(* extends those before it, whatever crashes; and as long as nothing from   *)
(* outside ends the process, the match can always be resolved, loses no     *)
(* movement, and implements Game.                                           *)
(***************************************************************************)
EXTENDS MatchProofs, FiniteSetTheorems

-----------------------------------------------------------------------------
(* Prefixes.                                                                *)

LEMMA PrefixByPlaces ==
    ASSUME NEW S, NEW s \in Seq(S), NEW t \in Seq(S)
    PROVE  IsPrefix(s, t) <=> /\ Len(s) <= Len(t)
                              /\ \A k \in 1..Len(s) : s[k] = t[k]
<1>1. Len(s) \in Nat /\ Len(t) \in Nat
  OBVIOUS
<1>2. ASSUME Len(s) <= Len(t)
      PROVE  SubSeq(s, 1, Len(s)) = SubSeq(t, 1, Len(s))
                <=> \A k \in 1..Len(s) : s[k] = t[k]
  <2> DEFINE a == SubSeq(s, 1, Len(s))
             b == SubSeq(t, 1, Len(s))
  <2>1. /\ a \in Seq(S) /\ Len(a) = Len(s)
        /\ \A k \in 1..Len(s) : a[k] = s[k]
    BY <1>1, SubSeqProperties
  <2>2. /\ b \in Seq(S) /\ Len(b) = Len(s)
        /\ \A k \in 1..Len(s) : b[k] = t[k]
    BY <1>1, <1>2, SubSeqProperties
  <2> HIDE DEF a, b
  <2>3. a = b <=> \A k \in 1..Len(s) : a[k] = b[k]
    BY <2>1, <2>2, SeqEqual
  <2>4. QED BY <2>1, <2>2, <2>3 DEF a, b
<1>3. QED BY <1>2 DEF IsPrefix

LEMMA PrefixIsReflexive ==
    ASSUME NEW S, NEW s \in Seq(S) PROVE IsPrefix(s, s)
BY PrefixByPlaces

LEMMA PrefixIsTransitive ==
    ASSUME NEW S, NEW r \in Seq(S), NEW s \in Seq(S), NEW t \in Seq(S),
           IsPrefix(r, s), IsPrefix(s, t)
    PROVE  IsPrefix(r, t)
<1>1. /\ Len(r) <= Len(s) /\ \A k \in 1..Len(r) : r[k] = s[k]
      /\ Len(s) <= Len(t) /\ \A k \in 1..Len(s) : s[k] = t[k]
      /\ Len(r) \in Nat /\ Len(s) \in Nat /\ Len(t) \in Nat
  BY PrefixByPlaces
<1>2. Len(r) <= Len(t) /\ \A k \in 1..Len(r) : r[k] = t[k]
  BY <1>1
<1>3. QED BY <1>2, PrefixByPlaces

LEMMA PrefixOfAppend ==
    ASSUME NEW S, NEW s \in Seq(S), NEW e \in S PROVE IsPrefix(s, Append(s, e))
<1> DEFINE t == Append(s, e)
<1>1. t \in Seq(S) /\ Len(t) = Len(s) + 1 /\ \A k \in 1..Len(s) : t[k] = s[k]
  BY AppendProperties
<1> HIDE DEF t
<1>2. Len(s) <= Len(t)
  BY <1>1
<1>3. IsPrefix(s, t)
  BY <1>1, <1>2, PrefixByPlaces
<1>4. QED BY <1>3 DEF t

(* Every adjudication extends the board it is given.                         *)
LEMMA AdjudicationExtends ==
    ASSUME NEW a \in BoardSet, NEW b \in BoardSet, IsPrefix(a, b), NEW o \in OrderSets
    PROVE  /\ IsPrefix(a, Movement(b, o))
           /\ IsPrefix(a, Retreats(b))
           /\ IsPrefix(a, Adjustments(b))
<1>1. ASSUME NEW e \in Step PROVE IsPrefix(a, Append(b, e))
  <2>1. IsPrefix(b, Append(b, e)) /\ Append(b, e) \in Seq(Step)
    BY PrefixOfAppend, AppendProperties DEF BoardSet
  <2>2. QED BY <2>1, PrefixIsTransitive DEF BoardSet
<1>2. /\ [op |-> "movement", orders |-> o] \in Step
      /\ [op |-> "retreats", orders |-> NoOrders] \in Step
      /\ [op |-> "adjustments", orders |-> NoOrders] \in Step
  BY OrdersAssumption DEF Step
<1>3. QED BY <1>1, <1>2 DEF Movement, Retreats, Adjustments

-----------------------------------------------------------------------------
(* The rows of the chain, by their place.                                   *)

LEMMA RowBoard ==
    ASSUME TypeOK, NEW i \in DOMAIN results
    PROVE  results[i].board \in BoardSet /\ i \in Nat /\ i <= Len(results) /\ i >= 1
<1>1. results[i] \in Row
  BY DEF TypeOK
<1>2. QED BY <1>1 DEF Row, TypeOK

(* Two rows are at different places.                                        *)
LEMMA OneRowPerPlace ==
    ASSUME OrderingInv, NEW i \in DOMAIN results, NEW j \in DOMAIN results,
           results[i].turn = results[j].turn, results[i].phase = results[j].phase
    PROVE  i = j
<1>1. TypeOK
  BY DEF OrderingInv, TypeInv
<1>2. /\ results[i].turn \in Nat /\ results[i].phase \in PhaseNames
      /\ i \in Nat /\ j \in Nat
  BY <1>1, RowPlace, RowBoard
<1>3. ~(i < j) /\ ~(j < i)
  <2>1. Rank[results[i].phase] \in Nat
    BY <1>2, RankValues, PhasesDiffer
  <2>2. QED BY <1>2, <2>1 DEF OrderingInv, ResultsOrdered, Before
<1>4. QED BY <1>2, <1>3

LEMMA BoardOfPlace ==
    ASSUME OrderingInv, NEW t, NEW p, NEW i \in RowsAt(t, p)
    PROVE  BoardAt(t, p) = results[i].board
<1>1. PICK j \in RowsAt(t, p) : BoardAt(t, p) = results[j].board
  BY DEF BoardAt
<1>2. i = j
  BY OneRowPerPlace DEF RowsAt
<1>3. QED BY <1>1, <1>2

(* A row at the match's place is the newest one.                             *)
LEMMA HereIsNewest ==
    ASSUME OrderingInv, NEW i \in DOMAIN results, Here(i)
    PROVE  i = Len(results)
<1>1. TypeOK /\ Len(results) \in Nat
  BY DEF OrderingInv, TypeInv, TypeOK
<1>2. i \in Nat /\ i <= Len(results) /\ i >= 1
  BY <1>1, RowBoard
<1>3. Len(results) \in DOMAIN results
  BY <1>1, <1>2 DEF TypeOK
<1> DEFINE n == Len(results)
<1>4. /\ results[n].turn \in Nat /\ results[n].phase \in PhaseNames
      /\ match.turn \in Nat /\ match.phase \in PhaseNames
  BY <1>1, <1>3, RowPlace DEF TypeOK, MatchState
<1>5. Rank[match.phase] \in Nat /\ Rank[results[n].phase] \in Nat
  BY <1>4, RankValues, PhasesDiffer
<1>6. CASE i < n
  <2>1. Before(match.turn, match.phase, results[n].turn, results[n].phase)
    BY <1>3, <1>6 DEF OrderingInv, ResultsOrdered, Here
  <2>2. Here(n) \/ Behind(n)
    BY <1>3 DEF OrderingInv, ChainBehindMatch
  <2>3. QED BY <1>4, <1>5, <2>1, <2>2 DEF Before, Here, Behind
<1>7. QED BY <1>2, <1>6

-----------------------------------------------------------------------------
(* Each board extends those before it, with any number of crashes.          *)

(* What the phase's adjudication is given is the newest board, or, for the   *)
(* retreats, one that the movement turns into the newest again.             *)
LEMMA ResolvedExtends ==
    ASSUME HistoryInv, Resolvable, NEW i \in DOMAIN results
    PROVE  IsPrefix(results[i].board, ResolvedBoard)
<1>1. OrderingInv /\ TypeOK /\ match.turn \in Nat /\ match.phase \in PhaseNames
      /\ orders \in OrderSets /\ results \in Seq(Row)
  BY DEF HistoryInv, OrderingInv, TypeInv, TypeOK, MatchState
<1>2. /\ results[i].board \in BoardSet /\ i \in Nat /\ 1 <= i /\ i <= Len(results)
      /\ results[i].turn \in Nat /\ results[i].phase \in PhaseNames
  BY <1>1, RowBoard, RowPlace
<1>3. IsPrefix(results[i].board, results[i].board)
  BY <1>2, PrefixIsReflexive DEF BoardSet
<1>4. ASSUME NEW j \in DOMAIN results, i <= j
      PROVE  IsPrefix(results[i].board, results[j].board)
  BY <1>1, <1>2, <1>3, <1>4, RowBoard DEF HistoryInv, HistoryExtends
<1>5. CASE match.phase = "ORDERS"
  <2>1. PICK j \in RowsAt(match.turn, "ORDERS") : TRUE
    BY <1>5 DEF Resolvable
  <2>2. j \in DOMAIN results /\ Here(j)
    BY <1>5, <2>1 DEF RowsAt, Here
  <2>3. i <= j
    BY <1>1, <1>2, <2>2, HereIsNewest
  <2>4. BoardAt(match.turn, "ORDERS") = results[j].board
    BY <1>1, <2>1, BoardOfPlace
  <2>5. IsPrefix(results[i].board, results[j].board) /\ results[j].board \in BoardSet
    BY <1>1, <1>4, <2>2, <2>3, RowBoard
  <2>6. QED BY <1>1, <1>2, <1>5, <2>4, <2>5, AdjudicationExtends DEF ResolvedBoard
<1>6. CASE match.phase = "RETREAT"
  <2>1. PICK j \in RowsAt(match.turn, "ORDERS") : TRUE
    BY <1>6 DEF Resolvable
  <2>2. j \in DOMAIN results /\ results[j].turn = match.turn
        /\ results[j].phase = "ORDERS"
    BY <2>1 DEF RowsAt
  <2>3. results[j].board \in BoardSet /\ j \in Nat
    BY <1>1, <2>2, RowBoard
  <2>4. BoardAt(match.turn, "ORDERS") = results[j].board
    BY <1>1, <2>1, BoardOfPlace
  <2> DEFINE remade == Movement(results[j].board, orders)
  <2>5. remade \in BoardSet
    BY <1>1, <2>3, BoardOperations
  <2>6. IsPrefix(results[i].board, remade)
    <3>1. CASE i <= j
      BY <1>1, <1>2, <1>4, <2>2, <2>3, <3>1, AdjudicationExtends
    <3>2. CASE j < i
      <4>1. Before(match.turn, "ORDERS", results[i].turn, results[i].phase)
        BY <2>2, <3>2 DEF HistoryInv, OrderingInv, ResultsOrdered
      <4>2. /\ Here(i) \/ Behind(i)
            /\ results[i].phase \in TimedPhases \cup {"DIPLOMACY"}
        BY DEF HistoryInv, OrderingInv, ChainBehindMatch
      <4>3. results[i].turn = match.turn /\ results[i].phase = "RETREAT"
        BY <1>1, <1>2, <1>6, <4>1, <4>2, RankValues, PhasesDiffer
           DEF Before, Here, Behind
      <4>4. i \in RowsAt(match.turn, "RETREAT")
        BY <4>3 DEF RowsAt
      <4>5. results[i].board = remade
        BY <1>6, <2>1, <4>4 DEF HistoryInv, MovementRemade
      <4>6. QED BY <1>3, <4>5
    <3>3. QED BY <1>2, <2>3, <3>1, <3>2
  <2> HIDE DEF remade
  <2>7. IsPrefix(results[i].board, Retreats(remade))
    BY <1>1, <1>2, <2>5, <2>6, AdjudicationExtends
  <2>8. ResolvedBoard = Retreats(remade)
    BY <1>6, <2>4 DEF ResolvedBoard, remade
  <2>9. QED BY <2>7, <2>8
<1>7. CASE match.phase = "BUILD"
  <2>1. Len(results) \in DOMAIN results
    BY <1>1, <1>2
  <2>2. LoadedBoard = results[Len(results)].board
    <3>1. ASSUME NEW j \in RowsAt(match.turn, match.phase)
          PROVE  j = Len(results)
      BY <1>1, HereIsNewest DEF RowsAt, Here
    <3>2. CASE RowsAt(match.turn, match.phase) # {}
      BY <1>1, <3>1, <3>2, BoardOfPlace DEF LoadedBoard
    <3>3. CASE RowsAt(match.turn, match.phase) = {}
      BY <3>3 DEF LoadedBoard
    <3>4. QED BY <3>2, <3>3
  <2>3. results[Len(results)].board \in BoardSet
        /\ IsPrefix(results[i].board, results[Len(results)].board)
    BY <1>1, <1>2, <1>4, <2>1, RowBoard
  <2>4. QED BY <1>1, <1>2, <1>7, <2>2, <2>3, AdjudicationExtends DEF ResolvedBoard
<1>8. QED BY <1>5, <1>6, <1>7 DEF Resolvable

(* The first write of advance_phase: the retreats are the only phase that    *)
(* does not resolve the newest board, and are only entered from ORDERS.     *)
LEMMA AdvanceExtends ==
    ASSUME HistoryInv, OrderingInv', NEW returnTo, BeginAdvance(returnTo)
    PROVE  HistoryInv'
<1>1. OrderingInv /\ TypeOK /\ match \in MatchState /\ match.turn \in Nat
      /\ match.phase \in TimedPhases
  BY DEF HistoryInv, OrderingInv, TypeInv, TypeOK, MatchState, BeginAdvance, Resolvable,
         TimedPhases
<1>2. /\ results' = results /\ pc' = "persist" /\ board' = ResolvedBoard
      /\ orders' = OrdersFor(match') /\ Resolvable
  BY DEF BeginAdvance
<1>3. PICK dislodged, adjust \in BOOLEAN : match' = Landing(match, dislodged, adjust)
  BY DEF BeginAdvance
<1>4. /\ Before(match.turn, match.phase, match'.turn, match'.phase)
      /\ \/ match'.turn = match.turn /\ match'.phase \in {"RETREAT", "BUILD"}
         \/ match'.turn = match.turn + 1 /\ match'.phase = "ORDERS"
  BY <1>1, <1>3, LandingAhead
<1>5. HistoryExtends'
  BY <1>2 DEF HistoryInv, HistoryExtends
<1>6. MovementRemade'
  <2>1. SUFFICES ASSUME match'.phase = "RETREAT", NEW j \in RowsAt(match.turn, "ORDERS")'
                 PROVE  /\ RowsAt(match.turn, "RETREAT")' = {}
                        /\ board' = Movement(results[j].board, orders')
    BY <1>2 DEF MovementRemade
  <2>2. match'.turn = match.turn /\ match.phase = "ORDERS" /\ orders' = orders
    BY <1>1, <1>2, <1>4, <2>1, RankValues DEF Before, OrdersFor, TimedPhases
  <2>3. j \in RowsAt(match.turn, "ORDERS")
    BY <1>2, <2>1, <2>2 DEF RowsAt
  <2>4. board' = Movement(results[j].board, orders)
    BY <1>1, <1>2, <2>2, <2>3, BoardOfPlace DEF ResolvedBoard
  <2>5. ASSUME NEW i \in DOMAIN results, results[i].turn = match.turn,
               results[i].phase = "RETREAT"
        PROVE  FALSE
    <3>1. Here(i) \/ Behind(i)
      BY DEF HistoryInv, OrderingInv, ChainBehindMatch
    <3>2. QED BY <1>1, <2>2, <2>5, <3>1, RankValues DEF Before, Here, Behind
  <2>6. QED BY <1>2, <2>2, <2>4, <2>5 DEF RowsAt
<1>7. \A i \in DOMAIN results : IsPrefix(results[i].board, board')
  BY <1>2, ResolvedExtends
<1>8. QED BY <1>2, <1>5, <1>6, <1>7 DEF HistoryInv, OpeningPoints

(* The step that stores what the others only prepare.                       *)
LEMMA RecordedExtends ==
    ASSUME HistoryInv, OrderingInv', NEW b \in BoardSet, results' = Recorded(b),
           match' = match, orders' = orders, pc' # "persist",
           \A i \in DOMAIN results : IsPrefix(results[i].board, b),
           match.phase \in TimedPhases \cup {"DIPLOMACY"},
           match.phase = "RETREAT" => pc = "persist" /\ b = board,
           pc' \in OpeningPoints =>
              b = DefaultMap /\ \A i \in DOMAIN results : results[i].board = DefaultMap
    PROVE  HistoryInv'
<1> DEFINE n == Len(results) + 1
<1>1. /\ DOMAIN results' = 1..n /\ DOMAIN results = 1..Len(results)
      /\ Len(results) \in Nat
      /\ \A i \in DOMAIN results : results'[i] = results[i]
      /\ results'[n].turn = match.turn /\ results'[n].phase = match.phase
      /\ results'[n].board = b
  BY RecordedRows DEF HistoryInv, OrderingInv, TypeInv, TypeOK
<1>2. HistoryExtends'
  <2>1. SUFFICES ASSUME NEW i \in DOMAIN results', NEW j \in DOMAIN results', i < j
                 PROVE  IsPrefix(results'[i].board, results'[j].board)
    BY DEF HistoryExtends
  <2>2. i \in DOMAIN results
    BY <1>1, <2>1
  <2>3. CASE j \in DOMAIN results
    BY <1>1, <2>1, <2>2, <2>3 DEF HistoryInv, HistoryExtends
  <2>4. CASE j = n
    BY <1>1, <2>2, <2>4
  <2>5. QED BY <1>1, <2>3, <2>4
<1>3. MovementRemade'
  <2>1. SUFFICES ASSUME match.phase = "RETREAT", NEW j \in RowsAt(match.turn, "ORDERS")',
                        NEW i \in RowsAt(match.turn, "RETREAT")'
                 PROVE  results'[i].board = Movement(results'[j].board, orders)
    BY DEF MovementRemade
  <2>2. j \in RowsAt(match.turn, "ORDERS") /\ results'[j] = results[j]
    BY <1>1, <2>1 DEF RowsAt
  <2>3. CASE i = n
    BY <1>1, <2>1, <2>2, <2>3 DEF HistoryInv, MovementRemade
  <2>4. CASE i # n
    <3>1. i \in RowsAt(match.turn, "RETREAT") /\ results'[i] = results[i]
      BY <1>1, <2>4 DEF RowsAt
    <3>2. QED BY <2>1, <2>2, <3>1 DEF HistoryInv, MovementRemade
  <2>5. QED BY <2>3, <2>4
<1>4. \A i \in DOMAIN results' : /\ results'[i].phase \in TimedPhases \cup {"DIPLOMACY"}
                                 /\ pc' \in OpeningPoints => results'[i].board = DefaultMap
  BY <1>1 DEF HistoryInv
<1>5. QED BY <1>2, <1>3, <1>4 DEF HistoryInv

(* A step that records nothing and leaves the match where it is.             *)
LEMMA HistoryKept ==
    ASSUME HistoryInv, OrderingInv', results' = results,
           match'.turn = match.turn, match'.phase = match.phase,
           orders' = orders \/ match.phase # "RETREAT",
           pc' = "persist" => pc = "persist" /\ board' = board,
           pc' \in OpeningPoints => pc \in OpeningPoints
    PROVE  HistoryInv'
<1>1. HistoryExtends'
  BY DEF HistoryInv, HistoryExtends
<1>2. MovementRemade'
  BY DEF HistoryInv, MovementRemade, RowsAt
<1>3. QED BY <1>1, <1>2 DEF HistoryInv

LEMMA NoHistory ==
    ASSUME OrderingInv', results' = <<>> PROVE HistoryInv'
<1>1. DOMAIN results' = {}
  OBVIOUS
<1>2. HistoryExtends' /\ MovementRemade'
  BY <1>1 DEF HistoryExtends, MovementRemade, RowsAt
<1>3. QED BY <1>1, <1>2 DEF HistoryInv

LEMMA HistoryInit ==
    ASSUME Init PROVE HistoryInv
<1>1. DOMAIN results = {}
  BY DEF Init
<1>2. HistoryExtends /\ MovementRemade
  BY <1>1 DEF HistoryExtends, MovementRemade, RowsAt
<1>3. QED BY <1>1, <1>2, OrderingInit DEF HistoryInv

LEMMA HistoryStep ==
    ASSUME HistoryInv, [Next]_vars PROVE HistoryInv'
<1>1. OrderingInv /\ OrderingInv' /\ TypeOK /\ match \in MatchState
  BY OrderingStep DEF HistoryInv, OrderingInv, TypeInv, TypeOK
<1>2. CASE RecordGenesis
  <2>1. DefaultMap \in BoardSet
    BY <1>1, BoardOperations, OrdersAssumption DEF TypeOK
  <2>2. results = <<>> /\ match.phase = "DIPLOMACY" /\ pc = "genesis" /\ pc' = "seed"
    BY <1>1, <1>2 DEF RecordGenesis, Goto, OrderingInv, TypeInv, WorkIsActive,
                      LobbyIsEmpty, OpeningPoints
  <2>3. DOMAIN results = {}
    BY <2>2
  <2>4. QED BY <1>1, <1>2, <2>1, <2>2, <2>3, RecordedExtends DEF RecordGenesis
<1>3. CASE PersistResult
  <2>1. board \in BoardSet /\ pc = "persist" /\ pc' = "deadline"
        /\ match.phase \in TimedPhases
    BY <1>1, <1>3 DEF PersistResult, Goto, OrderingInv, TypeInv, TypeOK, WorkIsActive,
                      RecordingPoints
  <2>2. \A i \in DOMAIN results : IsPrefix(results[i].board, board)
    BY <2>1 DEF HistoryInv
  <2>3. pc' \notin OpeningPoints
    BY <2>1 DEF OpeningPoints
  <2>4. QED BY <1>1, <1>3, <2>1, <2>2, <2>3, RecordedExtends DEF PersistResult
<1>4. CASE OpenOrders
  <2>1. match.phase = "DIPLOMACY" /\ pc = "open" /\ pc' = "persist"
        /\ results' = results /\ board' = DefaultMap
    BY <1>1, <1>4 DEF OpenOrders, Goto, OrderingInv, TypeInv, WorkIsActive, OpeningPoints
  <2>2. match'.phase = "ORDERS"
    BY <1>1, <1>4, <2>1, AdvancePhaseMoves DEF OpenOrders
  <2>3. \A i \in DOMAIN results : results[i].board = DefaultMap
    BY <2>1 DEF HistoryInv, OpeningPoints
  <2>4. IsPrefix(DefaultMap, DefaultMap)
    <3>1. DefaultMap \in BoardSet
      BY <1>1, BoardOperations DEF TypeOK
    <3>2. QED BY <3>1, PrefixIsReflexive DEF BoardSet
  <2>5. HistoryExtends'
    BY <2>1 DEF HistoryInv, HistoryExtends
  <2>6. MovementRemade'
    BY <2>2 DEF MovementRemade
  <2>7. QED BY <1>1, <2>1, <2>3, <2>4, <2>5, <2>6 DEF HistoryInv, OpeningPoints
<1>5. CASE DeadlineAdvance \/ RunAdvance
  BY <1>1, <1>5, AdvanceExtends DEF DeadlineAdvance, RunAdvance
<1>6. CASE AcceptDraw \/ RunEnd
  <2>1. match'.turn = match.turn /\ match'.phase = match.phase
    BY <1>1, <1>6 DEF AcceptDraw, RunEnd, SaveEnd, EndMatch, MatchState
  <2>2. QED
    BY <1>1, <1>6, <2>1, HistoryKept DEF AcceptDraw, RunEnd, SaveEnd, OpeningPoints
<1>7. CASE RunStart
  <2>1. results' = <<>>
    BY <1>7 DEF RunStart, StartAllowed, CanStart, HistoryInv, OrderingInv, LobbyIsEmpty
  <2>2. QED BY <1>1, <2>1, NoHistory
<1>8. CASE SetSeedDeadline \/ BroadcastMatchStart
  BY <1>1, <1>8, HistoryKept
     DEF SetSeedDeadline, BroadcastMatchStart, Goto, database, OpeningPoints
<1>9. CASE SetDeadline \/ BroadcastResult
  BY <1>1, <1>9, HistoryKept DEF SetDeadline, BroadcastResult, Goto, database, OpeningPoints
<1>10. CASE BroadcastPhaseStart \/ BroadcastMatchEnd
  <2>1. pc' \in {"inbox", "fetch", "mark"}
    BY <1>1, <1>10 DEF TypeOK, BroadcastPhaseStart, BroadcastMatchEnd, Goto
  <2>2. QED
    BY <1>1, <1>10, <2>1, HistoryKept
       DEF BroadcastPhaseStart, BroadcastMatchEnd, database, OpeningPoints
<1>11. CASE DeadlineRaises \/ DeadlineQuiet
  BY <1>1, <1>11, HistoryKept
     DEF DeadlineRaises, DeadlineQuiet, Fail, Goto, database, OpeningPoints
<1>12. CASE FetchCommands \/ BatchDone \/ MarkProcessed
  BY <1>1, <1>12, HistoryKept
     DEF FetchCommands, BatchDone, MarkProcessed, Goto, database, OpeningPoints
<1>13. CASE RunPause \/ RunResume \/ RunWithoutEffect
  BY <1>1, <1>13, HistoryKept
     DEF RunPause, RunResume, RunWithoutEffect, database, OpeningPoints
<1>14. CASE SuspendDeadline \/ ClearPaused
  BY <1>1, <1>14, HistoryKept DEF SuspendDeadline, ClearPaused, Goto, OpeningPoints
<1>15. CASE LobbyFills \/ OrdersBeforeGenesis \/ \E o \in OrderSets : ReceiveOrders(o)
  BY <1>1, <1>15, HistoryKept
     DEF LobbyFills, OrdersBeforeGenesis, ReceiveOrders, Fail, memory, database,
         OpeningPoints
<1>16. CASE (\E c \in Commands : Enqueue(c)) \/ Tick \/ Crash \/ Restart
  BY <1>1, <1>16, HistoryKept
     DEF Enqueue, Tick, Crash, Restart, memory, database, OpeningPoints
<1>17. CASE UNCHANGED vars
  BY <1>1, <1>17, HistoryKept DEF vars, database, memory
<1>18. QED
  BY <1>2, <1>3, <1>4, <1>5, <1>6, <1>7, <1>8, <1>9, <1>10, <1>11, <1>12, <1>13,
     <1>14, <1>15, <1>16, <1>17
     DEF Next, Serve, Opening, Recording, Polling, Administering, Players

LEMMA HistoryAlways == Spec => []HistoryInv
BY HistoryInit, HistoryStep, PTL DEF Spec

(* No recorded board ever takes back what an earlier one has seen, whatever  *)
(* crashes come between the transactions of advance_phase: the movement a    *)
(* RETREAT adjudicates again is the movement that was published.            *)
THEOREM HistoryIsKept == Spec => []HistoryExtends
<1>1. HistoryInv => HistoryExtends
  BY DEF HistoryInv
<1>2. QED BY <1>1, HistoryAlways, PTL

-----------------------------------------------------------------------------
(* How many movements a board has seen.                                     *)

LEMMA MovementsOfAppend ==
    ASSUME NEW b \in BoardSet, NEW e \in Step
    PROVE  /\ Movements(b) \in Nat
           /\ Movements(Append(b, e)) = IF e.op = "movement" THEN Movements(b) + 1
                                                             ELSE Movements(b)
<1> DEFINE n == Len(b)
           c == Append(b, e)
           old == {k \in DOMAIN b : b[k].op = "movement"}
           new == {k \in DOMAIN c : c[k].op = "movement"}
<1>1. n \in Nat /\ DOMAIN b = 1..n
  BY DEF BoardSet
<1>2. /\ DOMAIN c = 1..(n + 1) /\ c[n + 1] = e
      /\ \A k \in 1..n : c[k] = b[k]
  BY <1>1, AppendProperties DEF BoardSet
<1>3. IsFiniteSet(old)
  <2>1. IsFiniteSet(1..n)
    BY <1>1, FS_Interval
  <2>2. QED BY <1>1, <2>1, FS_Subset
<1>4. Movements(b) = Cardinality(old) /\ Cardinality(old) \in Nat
  BY <1>3, FS_CardinalityType DEF Movements
<1>5. Movements(c) = Cardinality(new)
  BY DEF Movements
<1>6. CASE e.op = "movement"
  <2>1. new = old \cup {n + 1} /\ n + 1 \notin old
    BY <1>1, <1>2, <1>6
  <2>2. Cardinality(new) = Cardinality(old) + 1
    BY <1>3, <2>1, FS_AddElement
  <2>3. QED BY <1>4, <1>5, <1>6, <2>2
<1>7. CASE e.op # "movement"
  <2>1. new = old
    BY <1>1, <1>2, <1>7
  <2>2. QED BY <1>4, <1>5, <1>7, <2>1
<1>8. QED BY <1>6, <1>7

LEMMA MovementsOfAdjudication ==
    ASSUME NEW b \in BoardSet, NEW o \in OrderSets
    PROVE  /\ Movements(Movement(b, o)) = Movements(b) + 1
           /\ Movements(Retreats(b)) = Movements(b)
           /\ Movements(Adjustments(b)) = Movements(b)
<1> DEFINE step(op, p) == [op |-> op, orders |-> p]
<1>1. /\ step("movement", o) \in Step /\ step("movement", o).op = "movement"
      /\ step("retreats", NoOrders) \in Step
      /\ step("retreats", NoOrders).op # "movement"
      /\ step("adjustments", NoOrders) \in Step
      /\ step("adjustments", NoOrders).op # "movement"
  BY OrdersAssumption DEF Step
<1>2. /\ Movement(b, o) = Append(b, step("movement", o))
      /\ Retreats(b) = Append(b, step("retreats", NoOrders))
      /\ Adjustments(b) = Append(b, step("adjustments", NoOrders))
  BY DEF Movement, Retreats, Adjustments
<1> HIDE DEF step
<1>3. QED BY <1>1, <1>2, MovementsOfAppend

LEMMA NoMovementYet == Movements(DefaultMap) = 0
<1>1. {k \in DOMAIN DefaultMap : DefaultMap[k].op = "movement"} = {}
  BY DEF DefaultMap
<1>2. QED BY <1>1, FS_EmptySet DEF Movements

-----------------------------------------------------------------------------
(* The chain of Game, once the match is open.                               *)

GameLink(i) == [turn |-> results[i].turn, phase |-> results[i].phase,
                board |-> results[i].board]

LEMMA ChainOfGame ==
    ASSUME TypeOK, Opened
    PROVE  /\ Len(GameChain) = Len(results)
           /\ \A i \in 1..Len(results) : GameChain[i] = GameLink(i)
           /\ AbstractGame!Newest = GameLink(Len(results))
           /\ AbstractGame!Place = [status |-> "ACTIVE", turn |-> results[Len(results)].turn,
                                    phase |-> results[Len(results)].phase]
<1>1. Len(results) \in Nat /\ Len(results) \in 1..Len(results)
  BY DEF TypeOK, Opened
<1>2. GameChain = [i \in 1..Len(results) |-> GameLink(i)]
  BY DEF GameChain, GameLink, Opened
<1>3. Len(GameChain) = Len(results)
  BY <1>1, <1>2
<1>4. \A i \in 1..Len(results) : GameChain[i] = GameLink(i)
  BY <1>2
<1>5. AbstractGame!Newest = GameLink(Len(results))
  BY <1>1, <1>3, <1>4 DEF AbstractGame!Newest
<1>6. QED BY <1>3, <1>4, <1>5 DEF AbstractGame!Place, GameLink

(* An active match that has been opened is at the place Game is at.          *)
LEMMA PlaceOfGame ==
    ASSUME TypeOK, Settled, match.status = "ACTIVE"
    PROVE  AbstractGame!Place = match
<1>1. AbstractGame!Place = [status |-> "ACTIVE", turn |-> match.turn, phase |-> match.phase]
  BY ChainOfGame DEF Settled, Here
<1>2. QED BY <1>1 DEF TypeOK, MatchState

LEMMA GameKept ==
    ASSUME results' = results
    PROVE  /\ Opened' = Opened /\ AbstractGame!Outcomes' = AbstractGame!Outcomes
           /\ AbstractGame!Place' = AbstractGame!Place
BY DEF Opened, AbstractGame!Outcomes, AbstractGame!Place, AbstractGame!Newest, GameChain

(* Game adjudicates, and moves from phase to phase, as Match does.           *)
LEMMA GameAdjudicates ==
    ASSUME NEW b, NEW o
    PROVE  /\ AbstractGame!Movement(b, o) = Movement(b, o)
           /\ AbstractGame!Retreats(b) = Retreats(b)
           /\ AbstractGame!Adjustments(b) = Adjustments(b)
BY DEF Movement, Retreats, Adjustments, AbstractGame!Movement, AbstractGame!Retreats,
       AbstractGame!Adjustments

LEMMA GameMoves ==
    ASSUME NEW m, NEW dislodged, NEW adjust
    PROVE  /\ AbstractGame!AdvancePhase(m, dislodged, adjust)
                = AdvancePhase(m, dislodged, adjust)
           /\ AbstractGame!Landing(m, dislodged, adjust) = Landing(m, dislodged, adjust)
<1>1. \A n, d, a : AbstractGame!AdvancePhase(n, d, a) = AdvancePhase(n, d, a)
  BY DEF AdvancePhase, ToPhase, NextTurn, AbstractGame!AdvancePhase,
         AbstractGame!ToPhase, AbstractGame!NextTurn
<1>2. QED BY <1>1 DEF Landing, AbstractGame!Landing

(* Whatever the stored boards make of the phase is what Game makes of its    *)
(* newest link.                                                             *)
LEMMA ResolvedOutcome ==
    ASSUME HistoryInv, Settled
    PROVE  ResolvedBoard \in AbstractGame!Outcomes
<1> DEFINE n == Len(results)
           b == results[n].board
<1>1. OrderingInv /\ TypeOK /\ orders \in OrderSets /\ Opened /\ Here(n)
      /\ match.phase \in TimedPhases
  BY DEF HistoryInv, OrderingInv, TypeInv, TypeOK, Settled
<1>2. AbstractGame!Newest.phase = match.phase /\ AbstractGame!Newest.board = b
  BY <1>1, ChainOfGame DEF GameLink, Here
<1>3. n \in DOMAIN results
  BY <1>1 DEF TypeOK, Opened
<1>4. n \in RowsAt(match.turn, match.phase)
  BY <1>1, <1>3 DEF RowsAt, Here
<1>5. BoardAt(match.turn, match.phase) = b
  BY <1>1, <1>4, BoardOfPlace
<1> HIDE DEF n, b
<1>6. CASE match.phase = "ORDERS"
  BY <1>1, <1>2, <1>5, <1>6, GameAdjudicates DEF ResolvedBoard, AbstractGame!Outcomes
<1>7. CASE match.phase = "RETREAT"
  <2>1. PICK j \in RowsAt(match.turn, "ORDERS") : TRUE
    BY DEF Settled
  <2>2. BoardAt(match.turn, "ORDERS") = results[j].board
    BY <1>1, <2>1, BoardOfPlace
  <2>3. b = Movement(results[j].board, orders)
    BY <1>4, <1>7, <2>1 DEF HistoryInv, MovementRemade, b
  <2>4. QED BY <1>2, <1>7, <2>2, <2>3, GameAdjudicates DEF ResolvedBoard, AbstractGame!Outcomes
<1>8. CASE match.phase = "BUILD"
  <2>1. LoadedBoard = b
    BY <1>4, <1>5 DEF LoadedBoard
  <2>2. QED BY <1>2, <1>8, <2>1, GameAdjudicates DEF ResolvedBoard, AbstractGame!Outcomes
<1>9. QED BY <1>1, <1>6, <1>7, <1>8 DEF TimedPhases

(* A match that has been opened has what its phase needs.                    *)
LEMMA SettledIsResolvable ==
    ASSUME Settled, match.status = "ACTIVE" PROVE Resolvable
BY DEF Settled, Resolvable, CanAdvance, TimedPhases, Opened

-----------------------------------------------------------------------------
(* As long as nothing from outside ends the process: one step per action.    *)

Steady == HistoryInv /\ Uninterrupted

LEMMA SteadyTypes ==
    ASSUME Steady
    PROVE  /\ OrderingInv /\ TypeOK /\ match \in MatchState /\ board \in BoardSet
           /\ results \in Seq(Row) /\ Len(results) \in Nat
           /\ match.turn \in Nat /\ match.phase \in PhaseNames
BY DEF Steady, HistoryInv, OrderingInv, TypeInv, TypeOK, MatchState

(* A step that records nothing and leaves the match where it is, between     *)
(* control points of the same kind.                                         *)
LEMMA SteadyKept ==
    ASSUME Uninterrupted, results' = results,
           match'.turn = match.turn, match'.phase = match.phase,
           match'.status = "LOBBY" <=> match.status = "LOBBY",
           pc' \notin {"down", "failed", "genesis"} \/ pc' = pc,
           pc' \in OpeningPoints \ {"genesis"} => pc \in OpeningPoints \ {"genesis"},
           pc' = "persist" => pc = "persist" /\ board' = board /\ match' = match,
           pc \in OpeningPoints \cup {"persist"} =>
              pc' \in OpeningPoints \cup {"persist"}
    PROVE  Uninterrupted'
<1>1. Opened' = Opened /\ AbstractGame!Outcomes' = AbstractGame!Outcomes
      /\ AbstractGame!Place' = AbstractGame!Place
  BY GameKept
<1>2. Genesis' = Genesis /\ MovementsCounted' = MovementsCounted
  BY DEF Genesis, MovementsCounted
<1>3. Settled' = Settled
  BY <1>1 DEF Settled, Here, RowsAt
<1>4. pc' = "persist" => PendingLink' /\ (match'.phase # "ORDERS" => RowsAt(match.turn, "ORDERS")' # {})
  BY <1>1, <1>2 DEF Uninterrupted, PendingLink, RowsAt
<1>5. Alive'
  BY DEF Uninterrupted, Alive
<1>6. QED BY <1>1, <1>2, <1>3, <1>4, <1>5 DEF Uninterrupted, OpeningPoints

(* The first write of advance_phase.                                        *)
LEMMA AdvanceSteady ==
    ASSUME Steady, pc \in {"inbox", "admin"}, NEW returnTo, BeginAdvance(returnTo)
    PROVE  Uninterrupted'
<1>1. /\ match \in MatchState /\ TypeOK /\ match.status = "ACTIVE"
  BY SteadyTypes DEF BeginAdvance, Resolvable, CanAdvance
<1>2. Settled
  BY <1>1 DEF Steady, Uninterrupted, OpeningPoints
<1>3. PICK dislodged, adjust \in BOOLEAN : match' = Landing(match, dislodged, adjust)
  BY DEF BeginAdvance
<1>4. /\ results' = results /\ pc' = "persist" /\ board' = ResolvedBoard
  BY DEF BeginAdvance
<1>5. \/ match'.turn = match.turn /\ match'.phase \in {"RETREAT", "BUILD"}
      \/ match'.turn = match.turn + 1 /\ match'.phase = "ORDERS"
  BY <1>1, <1>2, <1>3, LandingAhead DEF Settled
<1>6. match = AbstractGame!Place /\ ResolvedBoard \in AbstractGame!Outcomes
  BY <1>1, <1>2, PlaceOfGame, ResolvedOutcome DEF Steady
<1>7. Opened' = Opened /\ AbstractGame!Outcomes' = AbstractGame!Outcomes
      /\ AbstractGame!Place' = AbstractGame!Place
  BY <1>4, GameKept
<1>8. PendingLink'
  BY <1>2, <1>3, <1>4, <1>6, <1>7 DEF PendingLink, Settled, Here
<1>9. match'.phase # "ORDERS" => RowsAt(match.turn, "ORDERS")' # {}
  BY <1>2, <1>4, <1>5 DEF Settled, RowsAt
<1>10. MovementsCounted'
  BY <1>4 DEF Steady, Uninterrupted, MovementsCounted
<1>11. QED BY <1>4, <1>8, <1>9, <1>10 DEF Uninterrupted, Alive, OpeningPoints

(* What Game makes of its newest link has seen the right number of movements *)
(* for the place the match has moved to.                                    *)
LEMMA PendingCount ==
    ASSUME Steady, PendingLink, Opened
    PROVE  /\ match.phase \in TimedPhases
           /\ Movements(board) = IF match.phase = "ORDERS" THEN match.turn - 1
                                                          ELSE match.turn
<1> DEFINE n == Len(results)
           m == [status |-> "ACTIVE", turn |-> results[n].turn, phase |-> results[n].phase]
           b == results[n].board
<1>1. TypeOK /\ n \in Nat /\ n >= 2
  BY SteadyTypes DEF Opened
<1>2. n \in DOMAIN results
  BY <1>1 DEF TypeOK
<1>3. /\ m.phase \in TimedPhases
      /\ board \in AbstractGame!Outcomes
      /\ \E dislodged, adjust \in BOOLEAN : match = Landing(AbstractGame!Place, dislodged, adjust)
  BY <1>1 DEF PendingLink, Genesis
<1>4. AbstractGame!Place = m /\ AbstractGame!Newest.phase = m.phase
      /\ AbstractGame!Newest.board = b
  BY <1>1, ChainOfGame DEF GameLink
<1>5. m \in MatchState /\ m.turn \in Nat /\ m.phase = results[n].phase
      /\ m.turn = results[n].turn
  BY <1>1, <1>2, RowPlace DEF MatchState, Statuses
<1>6. b \in BoardSet
  BY <1>1, <1>2, RowBoard
<1>7. Movements(b) = IF m.phase = "ORDERS" THEN m.turn - 1 ELSE m.turn
  BY <1>2, <1>3, <1>5 DEF Steady, Uninterrupted, MovementsCounted, TimedPhases
<1> HIDE DEF m, b, n
<1>8. PICK dislodged, adjust \in BOOLEAN : match = Landing(m, dislodged, adjust)
  BY <1>3, <1>4
<1>9. /\ match.phase \in TimedPhases
      /\ \/ match.turn = m.turn /\ match.phase \in {"RETREAT", "BUILD"}
         \/ match.turn = m.turn + 1 /\ match.phase = "ORDERS"
  BY <1>3, <1>5, <1>8, LandingAhead
<1>10. Movements(board) = m.turn
  <2>1. CASE m.phase = "ORDERS"
    <3>1. PICK o \in OrderSets : board = Movement(b, o)
      BY <1>3, <1>4, <2>1, GameAdjudicates DEF AbstractGame!Outcomes
    <3>2. QED BY <1>5, <1>6, <1>7, <2>1, <3>1, MovementsOfAdjudication
  <2>2. CASE m.phase = "RETREAT"
    <3>1. board = Retreats(b)
      BY <1>3, <1>4, <2>2, GameAdjudicates DEF AbstractGame!Outcomes
    <3>2. QED BY <1>6, <1>7, <2>2, <3>1, OrdersAssumption, MovementsOfAdjudication
  <2>3. CASE m.phase = "BUILD"
    <3>1. board = Adjustments(b)
      BY <1>3, <1>4, <2>3, GameAdjudicates DEF AbstractGame!Outcomes
    <3>2. QED BY <1>6, <1>7, <2>3, <3>1, OrdersAssumption, MovementsOfAdjudication
  <2>4. QED BY <1>3, <2>1, <2>2, <2>3 DEF TimedPhases
<1>11. QED BY <1>5, <1>9, <1>10

(* A row whose board has seen the right number of movements.                 *)
LEMMA CountRecorded ==
    ASSUME Steady, NEW b \in BoardSet, results' = Recorded(b),
           Movements(b) = IF match.phase \in {"DIPLOMACY", "ORDERS"} THEN match.turn - 1
                                                                    ELSE match.turn
    PROVE  MovementsCounted'
<1>1. /\ DOMAIN results' = 1..(Len(results) + 1) /\ DOMAIN results = 1..Len(results)
      /\ Len(results) \in Nat
      /\ \A i \in DOMAIN results : results'[i] = results[i]
      /\ results'[Len(results) + 1].turn = match.turn
      /\ results'[Len(results) + 1].phase = match.phase
      /\ results'[Len(results) + 1].board = b
  BY SteadyTypes, RecordedRows DEF TypeOK
<1>2. SUFFICES ASSUME NEW i \in DOMAIN results'
               PROVE  Movements(results'[i].board) =
                         IF results'[i].phase \in {"DIPLOMACY", "ORDERS"}
                         THEN results'[i].turn - 1 ELSE results'[i].turn
  BY DEF MovementsCounted
<1>3. CASE i \in DOMAIN results
  BY <1>1, <1>3 DEF Steady, Uninterrupted, MovementsCounted
<1>4. CASE i = Len(results) + 1
  BY <1>1, <1>4
<1>5. QED BY <1>1, <1>3, <1>4

LEMMA GenesisSteady ==
    ASSUME Steady, RecordGenesis PROVE Uninterrupted'
<1>1. /\ results = <<>> /\ match.phase = "DIPLOMACY" /\ match.turn = 1
      /\ pc = "genesis" /\ pc' = "seed" /\ results' = Recorded(DefaultMap)
      /\ match' = match
  BY SteadyTypes DEF RecordGenesis, Goto, OrderingInv, TypeInv, WorkIsActive,
                     LobbyIsEmpty, OpeningPoints, Steady, Uninterrupted
<1>2. DefaultMap \in BoardSet
  BY BoardOperations, OrdersAssumption DEF DefaultMap, BoardSet
<1>3. /\ Len(results') = 1
      /\ results'[1].turn = match.turn /\ results'[1].phase = match.phase
      /\ results'[1].board = DefaultMap
  <2>1. Len(results) = 0
    BY <1>1
  <2>2. QED BY <1>1, <1>2, <2>1, SteadyTypes, RecordedRows
<1>4. Genesis'
  BY <1>1, <1>3 DEF Genesis
<1>5. MovementsCounted'
  BY <1>1, <1>2, NoMovementYet, CountRecorded
<1>6. QED BY <1>1, <1>4, <1>5 DEF Uninterrupted, Alive, OpeningPoints

LEMMA PersistSteady ==
    ASSUME Steady, PersistResult PROVE Uninterrupted'
<1>1. /\ TypeOK /\ board \in BoardSet /\ match.turn \in Nat
      /\ pc = "persist" /\ pc' = "deadline" /\ results' = Recorded(board)
      /\ match' = match /\ PendingLink
      /\ match.phase # "ORDERS" => RowsAt(match.turn, "ORDERS") # {}
  BY SteadyTypes DEF PersistResult, Goto, Steady, Uninterrupted
<1> DEFINE n == Len(results) + 1
<1>2. /\ DOMAIN results' = 1..n /\ DOMAIN results = 1..Len(results)
      /\ Len(results) \in Nat /\ Len(results') = n
      /\ \A i \in DOMAIN results : results'[i] = results[i]
      /\ results'[n].turn = match.turn
      /\ results'[n].phase = match.phase
  BY <1>1, SteadyTypes, RecordedRows DEF TypeOK
<1>3. /\ Len(results) >= 1 /\ match.phase \in TimedPhases
      /\ Movements(board) = IF match.phase = "ORDERS" THEN match.turn - 1 ELSE match.turn
  <2>1. CASE Opened
    BY <1>1, <2>1, PendingCount DEF Opened
  <2>2. CASE ~Opened
    BY <1>1, <2>2, NoMovementYet DEF PendingLink, Genesis, TimedPhases
  <2>3. QED BY <2>1, <2>2
<1>4. Opened' /\ Here(Len(results))'
  BY <1>1, <1>2, <1>3 DEF Opened, Here
<1>5. RowsAt(match.turn, "ORDERS")' # {}
  <2>1. CASE match.phase = "ORDERS"
    <3>1. n \in RowsAt(match.turn, "ORDERS")'
      BY <1>1, <1>2, <2>1 DEF RowsAt
    <3>2. QED BY <3>1
  <2>2. CASE match.phase # "ORDERS"
    <3>1. PICK j \in RowsAt(match.turn, "ORDERS") : TRUE
      BY <1>1, <2>2
    <3>2. j \in RowsAt(match.turn, "ORDERS")'
      BY <1>1, <1>2, <3>1 DEF RowsAt
    <3>3. QED BY <3>2
  <2>3. QED BY <2>1, <2>2
<1>6. Settled'
  BY <1>1, <1>3, <1>4, <1>5 DEF Settled
<1>7. MovementsCounted'
  BY <1>1, <1>3, CountRecorded DEF TimedPhases
<1>8. QED BY <1>1, <1>6, <1>7 DEF Uninterrupted, Alive, OpeningPoints

LEMMA OpenSteady ==
    ASSUME Steady, OpenOrders PROVE Uninterrupted'
<1>1. /\ match \in MatchState /\ match.phase = "DIPLOMACY" /\ match.turn = 1 /\ Genesis
      /\ pc' = "persist" /\ board' = DefaultMap /\ results' = results
      /\ match' = AdvancePhase(match, FALSE, FALSE)
  BY SteadyTypes DEF OpenOrders, Goto, OrderingInv, TypeInv, WorkIsActive, OpeningPoints,
                     Steady, Uninterrupted
<1>2. match'.phase = "ORDERS" /\ match'.turn = 1
  BY <1>1, AdvancePhaseMoves
<1>3. PendingLink'
  BY <1>1, <1>2 DEF PendingLink, Genesis
<1>4. MovementsCounted'
  BY <1>1 DEF Steady, Uninterrupted, MovementsCounted
<1>5. QED BY <1>1, <1>2, <1>3, <1>4 DEF Uninterrupted, Alive, OpeningPoints

LEMMA StartSteady ==
    ASSUME Steady, RunStart PROVE Uninterrupted'
<1>1. match'.turn = 1 /\ pc' = "genesis" /\ results' = results
  BY DEF RunStart, StartMatch
<1>2. MovementsCounted'
  BY <1>1 DEF Steady, Uninterrupted, MovementsCounted
<1>3. QED BY <1>1, <1>2 DEF Uninterrupted, Alive, OpeningPoints

LEMMA EndSteady ==
    ASSUME Steady, AcceptDraw \/ RunEnd PROVE Uninterrupted'
<1>1. /\ match \in MatchState /\ match' = EndMatch(match) /\ match.status = "ACTIVE"
      /\ pc \in {"inbox", "admin"} /\ pc' = "matchend" /\ results' = results
  BY SteadyTypes DEF AcceptDraw, RunEnd, Running, SaveEnd, CanEnd
<1>2. match'.turn = match.turn /\ match'.phase = match.phase /\ match'.status = "COMPLETED"
  BY <1>1 DEF EndMatch, MatchState
<1>3. QED
  BY <1>1, <1>2, SteadyKept DEF Steady, OpeningPoints

(* A deadline never finds a phase it cannot resolve.                         *)
LEMMA NeverRaises ==
    ASSUME Steady PROVE ~DeadlineRaises
<1>1. SUFFICES ASSUME pc = "inbox", match.status = "ACTIVE" PROVE Resolvable
  BY DEF DeadlineRaises, DeadlineExpired
<1>2. Settled
  BY <1>1 DEF Steady, Uninterrupted, OpeningPoints
<1>3. QED BY <1>1, <1>2, SettledIsResolvable

LEMMA SteadyStep ==
    ASSUME SteadyInv, [Next]_vars PROVE SteadyInv'
<1>1. HistoryInv'
  BY HistoryStep DEF SteadyInv
<1>2. crashes \in Nat
  BY DEF SteadyInv, HistoryInv, OrderingInv, TypeInv, TypeOK
<1>3. SUFFICES ASSUME crashes' = 0 PROVE Uninterrupted'
  BY <1>1 DEF SteadyInv
<1>4. CASE Crash \/ OrdersBeforeGenesis
  <2>1. crashes' = crashes + 1
    BY <1>4 DEF Crash, OrdersBeforeGenesis
  <2>2. QED BY <1>2, <1>3, <2>1
<1>5. ASSUME crashes = 0 PROVE Steady
  BY <1>5 DEF Steady, SteadyInv
<1>6. ASSUME crashes' = crashes PROVE Steady /\ Uninterrupted
  BY <1>3, <1>5, <1>6 DEF Steady
<1>7. CASE RecordGenesis \/ PersistResult \/ OpenOrders
  BY <1>6, <1>7, GenesisSteady, PersistSteady, OpenSteady
     DEF RecordGenesis, PersistResult, OpenOrders
<1>8. CASE DeadlineAdvance \/ RunAdvance
  <2>1. Steady
    BY <1>6, <1>8 DEF DeadlineAdvance, RunAdvance, BeginAdvance
  <2>2. QED BY <1>8, <2>1, AdvanceSteady
            DEF DeadlineAdvance, DeadlineExpired, RunAdvance, Running
<1>9. CASE AcceptDraw \/ RunEnd
  <2>1. Steady
    BY <1>6, <1>9 DEF AcceptDraw, RunEnd, SaveEnd
  <2>2. QED BY <1>9, <2>1, EndSteady
<1>10. CASE RunStart
  <2>1. Steady
    BY <1>6, <1>10 DEF RunStart
  <2>2. QED BY <1>10, <2>1, StartSteady
<1>11. CASE SetSeedDeadline \/ BroadcastMatchStart
  BY <1>6, <1>11, SteadyKept
     DEF SetSeedDeadline, BroadcastMatchStart, Goto, database, OpeningPoints
<1>12. CASE SetDeadline \/ BroadcastResult
  BY <1>6, <1>12, SteadyKept DEF SetDeadline, BroadcastResult, Goto, database, OpeningPoints
<1>13. CASE BroadcastPhaseStart \/ BroadcastMatchEnd
  <2>1. Steady /\ Uninterrupted
    BY <1>6, <1>13 DEF BroadcastPhaseStart, BroadcastMatchEnd
  <2>2. pc' \in {"inbox", "fetch", "mark"}
    BY <1>13, <2>1, SteadyTypes DEF TypeOK, BroadcastPhaseStart, BroadcastMatchEnd, Goto
  <2>3. QED
    BY <1>13, <2>1, <2>2, SteadyKept
       DEF BroadcastPhaseStart, BroadcastMatchEnd, Goto, database, OpeningPoints
<1>14. CASE DeadlineRaises \/ DeadlineQuiet
  <2>1. Steady /\ Uninterrupted
    BY <1>6, <1>14 DEF DeadlineRaises, DeadlineQuiet
  <2>2. QED
    BY <1>14, <2>1, NeverRaises, SteadyKept DEF DeadlineQuiet, Goto, database, OpeningPoints
<1>15. CASE FetchCommands \/ BatchDone \/ MarkProcessed
  BY <1>6, <1>15, SteadyKept
     DEF FetchCommands, BatchDone, MarkProcessed, Goto, database, OpeningPoints
<1>16. CASE RunPause \/ RunResume \/ RunWithoutEffect
  BY <1>6, <1>16, SteadyKept
     DEF RunPause, RunResume, RunWithoutEffect, Running, database, OpeningPoints
<1>17. CASE SuspendDeadline \/ ClearPaused
  BY <1>6, <1>17, SteadyKept DEF SuspendDeadline, ClearPaused, Goto, OpeningPoints
<1>18. CASE LobbyFills \/ \E o \in OrderSets : ReceiveOrders(o)
  BY <1>6, <1>18, SteadyKept DEF LobbyFills, ReceiveOrders, memory, OpeningPoints
<1>19. CASE (\E c \in Commands : Enqueue(c)) \/ Tick
  BY <1>6, <1>19, SteadyKept DEF Enqueue, Tick, memory, OpeningPoints
<1>20. CASE Restart
  BY <1>6, <1>20 DEF Restart, Uninterrupted
<1>21. CASE UNCHANGED vars
  BY <1>6, <1>21, SteadyKept DEF vars, database, memory, OpeningPoints
<1>22. QED
  BY <1>4, <1>7, <1>8, <1>9, <1>10, <1>11, <1>12, <1>13, <1>14, <1>15, <1>16, <1>17,
     <1>18, <1>19, <1>20, <1>21
     DEF Next, Serve, Opening, Recording, Polling, Administering, Players

LEMMA SteadyInit ==
    ASSUME Init PROVE SteadyInv
<1>1. results = <<>> /\ match.status = "LOBBY" /\ pc = "inbox"
  BY DEF Init, NewMatch
<1>2. MovementsCounted
  BY <1>1 DEF MovementsCounted
<1>3. QED
  BY <1>1, <1>2, HistoryInit DEF SteadyInv, Uninterrupted, Alive, OpeningPoints

LEMMA SteadyAlways == Spec => []SteadyInv
BY SteadyInit, SteadyStep, PTL DEF Spec

(* As long as nothing from outside has ended the process, whenever it polls  *)
(* an active match it can resolve the phase the match is in.                *)
THEOREM ResolvableWhileAlive == Spec => [](crashes = 0 => AlwaysResolvable)
<1>1. SteadyInv => (crashes = 0 => AlwaysResolvable)
  BY SettledIsResolvable
     DEF SteadyInv, Uninterrupted, AlwaysResolvable, OpeningPoints
<1>2. QED BY <1>1, SteadyAlways, PTL

(* As long as nothing from outside has ended the process, the board a turn   *)
(* starts from has seen exactly one movement for every turn before it.      *)
THEOREM MovementsKeptWhileAlive == Spec => [](crashes = 0 => NoMovementLost)
<1>1. SteadyInv => (crashes = 0 => NoMovementLost)
  BY DEF SteadyInv, Uninterrupted, NoMovementLost, MovementsCounted
<1>2. QED BY <1>1, SteadyAlways, PTL

-----------------------------------------------------------------------------
(* As long as nothing from outside ends the process, the match implements    *)
(* Game: a step that records a row or ends the match is a step of Game, and  *)
(* every other step leaves what Game sees as it is.                         *)

Links == [turn: Nat, phase: PhaseNames, board: BoardSet]

Stutters == GameStatus' = GameStatus /\ GameChain' = GameChain

(* Nothing is seen of a match that has not been opened.                      *)
LEMMA UnopenedIsUnseen ==
    ASSUME ~Opened PROVE GameStatus = "LOBBY" /\ GameChain = <<>>
<1>1. GameStatus = "LOBBY"
  BY DEF GameStatus
<1>2. GameChain = [i \in 1..0 |-> [turn |-> results[i].turn, phase |-> results[i].phase,
                                   board |-> results[i].board]]
  BY DEF GameChain
<1>3. QED BY <1>1, <1>2

LEMMA RowsUnchanged ==
    ASSUME results' = results, match'.status = match.status \/ ~Opened
    PROVE  Stutters
BY DEF Stutters, GameStatus, GameChain, Opened

LEMMA GenesisStutters ==
    ASSUME Steady, RecordGenesis PROVE Stutters
<1>1. results = <<>> /\ results' = Recorded(DefaultMap)
  BY DEF RecordGenesis, Goto, Steady, HistoryInv, OrderingInv, LobbyIsEmpty
<1>2. DefaultMap \in BoardSet
  BY BoardOperations, OrdersAssumption DEF DefaultMap, BoardSet
<1>3. Len(results) = 0 /\ Len(results') = 1
  <2>1. Len(results) = 0
    BY <1>1
  <2>2. QED BY <1>1, <1>2, <2>1, RecordedRows, SteadyTypes
<1>4. ~Opened /\ ~Opened'
  BY <1>3 DEF Opened
<1>5. GameStatus = "LOBBY" /\ GameChain = <<>>
  BY <1>4, UnopenedIsUnseen
<1>6. (GameStatus = "LOBBY" /\ GameChain = <<>>)'
  <2>1. GameStatus' = "LOBBY"
    BY <1>4 DEF GameStatus
  <2>2. GameChain' = [i \in 1..0 |-> [turn |-> results'[i].turn,
                                      phase |-> results'[i].phase,
                                      board |-> results'[i].board]]
    BY <1>4 DEF GameChain
  <2>3. QED BY <2>1, <2>2
<1>7. QED BY <1>5, <1>6 DEF Stutters

(* Recording a row adds its link.                                           *)
LEMMA LinkRecorded ==
    ASSUME TypeOK, TypeOK', PersistResult, Opened
    PROVE  /\ Opened'
           /\ GameChain' = Append(GameChain, AbstractGame!Link(match, board))
<1> DEFINE n == Len(results)
           link == AbstractGame!Link(match, board)
<1>1. /\ results' = Recorded(board) /\ match' = match /\ board \in BoardSet
      /\ n \in Nat /\ n >= 2 /\ match.turn \in Nat /\ match.phase \in PhaseNames
  BY DEF TypeOK, PersistResult, Opened, MatchState
<1>2. /\ Len(results') = n + 1 /\ DOMAIN results = 1..n
      /\ \A i \in DOMAIN results : results'[i] = results[i]
      /\ results'[n + 1].turn = match.turn
      /\ results'[n + 1].phase = match.phase
      /\ results'[n + 1].board = board
  BY <1>1, RecordedRows DEF TypeOK
<1>3. link \in Links
  BY <1>1 DEF AbstractGame!Link, Links
<1>4. Opened'
  BY <1>1, <1>2 DEF Opened
<1>5. GameChain = [i \in 1..n |-> GameLink(i)]
  BY DEF GameChain, GameLink, Opened
<1>6. GameChain' = [i \in 1..(n + 1) |-> [turn |-> results'[i].turn,
                                          phase |-> results'[i].phase,
                                          board |-> results'[i].board]]
  BY <1>2, <1>4 DEF GameChain
<1>7. \A i \in 1..n : GameLink(i) \in Links
  BY <1>2, RowBoard, RowPlace DEF GameLink, Links
<1> HIDE DEF n, link
<1>8. GameChain \in Seq(Links) /\ Len(GameChain) = n
  BY <1>1, <1>5, <1>7
<1> DEFINE longer == Append(GameChain, link)
<1>9. /\ longer \in Seq(Links) /\ Len(longer) = n + 1 /\ longer[n + 1] = link
      /\ \A i \in 1..n : longer[i] = GameChain[i]
  BY <1>1, <1>3, <1>8, AppendProperties
<1> HIDE DEF longer
<1>10. \A i \in 1..n : GameChain'[i] = longer[i]
  <2>1. SUFFICES ASSUME NEW i \in 1..n PROVE GameChain'[i] = GameChain[i]
    BY <1>9
  <2>2. i \in 1..(n + 1) /\ results'[i] = results[i]
    BY <1>1, <1>2
  <2>3. GameChain'[i] = [turn |-> results'[i].turn, phase |-> results'[i].phase,
                         board |-> results'[i].board]
    BY <1>6, <2>2
  <2>4. QED BY <1>5, <2>2, <2>3 DEF GameLink
<1>11. GameChain'[n + 1] = longer[n + 1]
  BY <1>1, <1>2, <1>6, <1>9 DEF link, AbstractGame!Link
<1>12. \A i \in 1..(n + 1) : GameChain'[i] = longer[i]
  BY <1>1, <1>10, <1>11
<1>13. GameChain' \in Seq(Links) /\ Len(GameChain') = n + 1
  <2>1. \A i \in 1..(n + 1) : longer[i] \in Links
    BY <1>1, <1>9
  <2>2. GameChain' = [i \in 1..(n + 1) |-> longer[i]]
    BY <1>6, <1>12
  <2>3. QED BY <1>1, <2>1, <2>2
<1>14. GameChain' = longer
  BY <1>1, <1>9, <1>12, <1>13, SeqEqual
<1>15. QED BY <1>4, <1>14 DEF link, longer

LEMMA PersistIsGameStep ==
    ASSUME Steady, TypeOK', PersistResult PROVE AbstractGame!Next
<1>1. /\ TypeOK /\ board \in BoardSet /\ match \in MatchState /\ match' = match
      /\ match.status = "ACTIVE" /\ results' = Recorded(board) /\ PendingLink
  BY SteadyTypes DEF PersistResult, Goto, Steady, HistoryInv, OrderingInv, TypeInv,
                     WorkIsActive, RecordingPoints, Uninterrupted
<1>2. CASE Opened
  <2>1. GameStatus = "ACTIVE" /\ GameStatus' = GameStatus
    BY <1>1, <1>2, LinkRecorded DEF GameStatus
  <2>2. ~Genesis
    <3>1. Len(results) >= 2
      BY <1>2 DEF Opened
    <3>2. Genesis => Len(results) = 1
      BY DEF Genesis
    <3>3. QED BY <3>1, <3>2
  <2>3. board \in AbstractGame!Outcomes
    BY <1>1, <2>2 DEF PendingLink
  <2>4. PICK dislodged, adjust \in BOOLEAN :
           match = Landing(AbstractGame!Place, dislodged, adjust)
    BY <1>1, <2>2 DEF PendingLink
  <2>5. match = AbstractGame!Landing(AbstractGame!Place, dislodged, adjust)
    BY <2>4, GameMoves
  <2>6. GameChain' = Append(GameChain, AbstractGame!Link(match, board))
    BY <1>1, <1>2, LinkRecorded
  <2>7. AbstractGame!Resolve
    BY <2>1, <2>3, <2>5, <2>6 DEF AbstractGame!Resolve
  <2>8. QED BY <2>7 DEF AbstractGame!Next
<1>3. CASE ~Opened
  <2>1. Genesis /\ board = DefaultMap /\ match.turn = 1 /\ match.phase = "ORDERS"
    BY <1>1, <1>3 DEF PendingLink
  <2>2. /\ Len(results') = 2
        /\ results'[1] = results[1]
        /\ results'[2].turn = 1 /\ results'[2].phase = "ORDERS"
        /\ results'[2].board = DefaultMap
    <3>1. Len(results) = 1 /\ 1 \in DOMAIN results
      BY <1>1, <2>1 DEF Genesis, TypeOK
    <3>2. QED BY <1>1, <2>1, <3>1, RecordedRows
  <2>3. Opened'
    BY <2>2 DEF Opened
  <2>4. GameStatus = "LOBBY" /\ GameStatus' = "ACTIVE"
    BY <1>1, <1>3, <2>3 DEF GameStatus
  <2>5. GameChain' = [i \in 1..2 |-> [turn |-> results'[i].turn,
                                      phase |-> results'[i].phase,
                                      board |-> results'[i].board]]
    BY <2>2, <2>3 DEF GameChain
  <2> DEFINE first == [turn |-> 1, phase |-> "DIPLOMACY", board |-> DefaultMap]
             second == [turn |-> 1, phase |-> "ORDERS", board |-> DefaultMap]
             opening == AbstractGame!StartMatch(AbstractGame!NewMatch)
             opened == AbstractGame!AdvancePhase(opening, FALSE, FALSE)
  <2>6. GameChain' = <<first, second>>
    BY <2>1, <2>2, <2>5 DEF Genesis
  <2>7. opening = [status |-> "ACTIVE", phase |-> "DIPLOMACY", turn |-> 1]
    BY DEF AbstractGame!StartMatch
  <2>8. opening.turn = 1 /\ opening.phase = "DIPLOMACY"
    BY <2>7
  <2>9. opened = [opening EXCEPT !.phase = "ORDERS"]
    <3> HIDE DEF opening
    <3>1. QED BY <2>8 DEF AbstractGame!AdvancePhase, AbstractGame!ToPhase
  <2>10. opened.turn = 1 /\ opened.phase = "ORDERS"
    <3> HIDE DEF opened
    <3>1. opened = [[status |-> "ACTIVE", phase |-> "DIPLOMACY", turn |-> 1]
                       EXCEPT !.phase = "ORDERS"]
      BY <2>7, <2>9
    <3>2. QED BY <3>1
  <2> HIDE DEF opening, opened
  <2>11. AbstractGame!DefaultMap = DefaultMap
    BY DEF AbstractGame!DefaultMap, DefaultMap
  <2>12. AbstractGame!Link(opening, DefaultMap) = first
    BY <2>8 DEF AbstractGame!Link
  <2>13. AbstractGame!Link(opened, DefaultMap) = second
    BY <2>10 DEF AbstractGame!Link
  <2> HIDE DEF first, second
  <2>14. AbstractGame!Begin
    BY <2>4, <2>6, <2>11, <2>12, <2>13 DEF AbstractGame!Begin, opening, opened
  <2>15. QED BY <2>14 DEF AbstractGame!Next
<1>4. QED BY <1>2, <1>3

LEMMA EndIsGameStep ==
    ASSUME Steady, AcceptDraw \/ RunEnd PROVE AbstractGame!Next
<1>1. /\ match \in MatchState /\ match' = EndMatch(match) /\ match.status = "ACTIVE"
      /\ pc \in {"inbox", "admin"} /\ results' = results
  BY SteadyTypes DEF AcceptDraw, RunEnd, Running, SaveEnd, CanEnd
<1>2. match'.status = "COMPLETED"
  BY <1>1 DEF EndMatch, MatchState
<1>3. Opened
  BY <1>1 DEF Steady, Uninterrupted, OpeningPoints, Settled
<1>4. GameStatus = "ACTIVE" /\ GameStatus' = "COMPLETED" /\ GameChain' = GameChain
  BY <1>1, <1>2, <1>3 DEF GameStatus, GameChain, Opened
<1>5. QED BY <1>4 DEF AbstractGame!Finish, AbstractGame!Next

LEMMA GameStep ==
    ASSUME Steady, Steady', [Next]_vars, crashes' = crashes
    PROVE  AbstractGame!Next \/ Stutters
<1>1. TypeOK /\ TypeOK' /\ match \in MatchState /\ crashes \in Nat
  BY SteadyTypes DEF Steady, HistoryInv, OrderingInv, TypeInv, TypeOK
<1>2. CASE PersistResult
  BY <1>1, <1>2, PersistIsGameStep
<1>3. CASE AcceptDraw \/ RunEnd
  BY <1>3, EndIsGameStep
<1>4. CASE RecordGenesis
  BY <1>4, GenesisStutters
<1>5. CASE OpenOrders
  BY <1>1, <1>5, AdvancePhaseMoves, RowsUnchanged DEF OpenOrders
<1>6. CASE DeadlineAdvance \/ RunAdvance
  <2>1. results' = results /\ \E dislodged, adjust \in BOOLEAN :
                                 match' = Landing(match, dislodged, adjust)
    BY <1>6 DEF DeadlineAdvance, RunAdvance, BeginAdvance
  <2>2. match'.status = match.status
    BY <1>1, <2>1, LandingKeepsStatus
  <2>3. QED BY <2>1, <2>2, RowsUnchanged
<1>7. CASE RunStart
  <2>1. results' = results /\ results = <<>>
    BY <1>7 DEF RunStart, StartAllowed, CanStart, Steady, HistoryInv, OrderingInv,
                LobbyIsEmpty
  <2>2. ~Opened
    BY <2>1 DEF Opened
  <2>3. QED BY <2>1, <2>2, RowsUnchanged
<1>8. CASE SetSeedDeadline \/ BroadcastMatchStart \/ SetDeadline \/ BroadcastResult
  BY <1>8, RowsUnchanged
     DEF SetSeedDeadline, BroadcastMatchStart, SetDeadline, BroadcastResult, database
<1>9. CASE BroadcastPhaseStart \/ BroadcastMatchEnd \/ DeadlineRaises \/ DeadlineQuiet
  BY <1>9, RowsUnchanged
     DEF BroadcastPhaseStart, BroadcastMatchEnd, DeadlineRaises, DeadlineQuiet, database
<1>10. CASE FetchCommands \/ BatchDone \/ MarkProcessed \/ RunWithoutEffect
  BY <1>10, RowsUnchanged
     DEF FetchCommands, BatchDone, MarkProcessed, RunWithoutEffect, database
<1>11. CASE RunPause \/ RunResume \/ SuspendDeadline \/ ClearPaused
  BY <1>11, RowsUnchanged DEF RunPause, RunResume, SuspendDeadline, ClearPaused
<1>12. CASE LobbyFills \/ OrdersBeforeGenesis \/ \E o \in OrderSets : ReceiveOrders(o)
  BY <1>12, RowsUnchanged DEF LobbyFills, OrdersBeforeGenesis, ReceiveOrders, database
<1>13. CASE (\E c \in Commands : Enqueue(c)) \/ Tick \/ Crash \/ Restart
  BY <1>13, RowsUnchanged DEF Enqueue, Tick, Crash, Restart, database
<1>14. CASE UNCHANGED vars
  BY <1>14, RowsUnchanged DEF vars, database
<1>15. QED
  BY <1>2, <1>3, <1>4, <1>5, <1>6, <1>7, <1>8, <1>9, <1>10, <1>11, <1>12, <1>13, <1>14
     DEF Next, Serve, Opening, Recording, Polling, Administering, Players

(* While nothing from outside ends the process, the coordinator's            *)
(* transactions implement the indivisible steps of Game: every result        *)
(* applies one adjudication to the result before it, no phase is resolved    *)
(* twice or skipped, and the end of the match comes once.                    *)
THEOREM MatchImplementsGame ==
    Spec /\ [](crashes = 0) => ImplementsGame
<1>1. Init => AbstractGame!Init
  <2>1. SUFFICES ASSUME Init PROVE AbstractGame!Init
    OBVIOUS
  <2>2. ~Opened
    BY <2>1 DEF Init, Opened
  <2>3. QED BY <2>2, UnopenedIsUnseen DEF AbstractGame!Init
<1>2. SteadyInv /\ SteadyInv' /\ crashes = 0 /\ (crashes = 0)' /\ [Next]_vars
         => [AbstractGame!Next]_<<GameStatus, GameChain>>
  BY GameStep DEF SteadyInv, Steady, Stutters
<1>3. QED
  BY <1>1, <1>2, SteadyAlways, PTL
     DEF Spec, ImplementsGame, AbstractGame!Spec

(* With no crash allowed for, nothing ends the process from outside.         *)
LEMMA NeverEnded ==
    ASSUME MaxCrashes = 0 PROVE Spec => [](crashes = 0)
<1>1. Init => crashes = 0
  BY DEF Init
<1>2. crashes = 0 /\ [Next]_vars => (crashes = 0)'
  <2>1. SUFFICES ASSUME crashes = 0, [Next]_vars PROVE crashes' = 0
    OBVIOUS
  <2>2. ~Crash /\ ~OrdersBeforeGenesis
    BY <2>1 DEF Crash, OrdersBeforeGenesis
  <2>3. CASE Opening \/ Recording \/ BroadcastMatchEnd
    BY <2>1, <2>3 DEF Opening, RecordGenesis, SetSeedDeadline, BroadcastMatchStart,
       OpenOrders, Recording, PersistResult, SetDeadline, BroadcastResult,
       BroadcastPhaseStart, BroadcastMatchEnd
  <2>4. CASE Polling
    BY <2>1, <2>4 DEF Polling, DeadlineAdvance, BeginAdvance, DeadlineRaises, DeadlineQuiet
  <2>5. CASE Administering
    BY <2>1, <2>5 DEF Administering, FetchCommands, BatchDone, MarkProcessed, RunStart,
       RunAdvance, BeginAdvance, RunEnd, SaveEnd, RunPause, RunResume, RunWithoutEffect,
       SuspendDeadline, ClearPaused
  <2>6. CASE Players
    BY <2>1, <2>2, <2>6 DEF Players, LobbyFills, AcceptDraw, SaveEnd, ReceiveOrders
  <2>7. CASE (\E c \in Commands : Enqueue(c)) \/ Tick \/ Restart
    BY <2>1, <2>7 DEF Enqueue, Tick, Restart
  <2>8. CASE UNCHANGED vars
    BY <2>1, <2>8 DEF vars
  <2>9. QED
    BY <2>1, <2>2, <2>3, <2>4, <2>5, <2>6, <2>7, <2>8 DEF Next, Serve
<1>3. QED BY <1>1, <1>2, PTL DEF Spec

(* So every behaviour of a coordinator that nothing ends from outside is one *)
(* of Game.                                                                 *)
COROLLARY SteadyMatchImplementsGame ==
    ASSUME MaxCrashes = 0 PROVE Spec => ImplementsGame
BY NeverEnded, MatchImplementsGame, PTL
=============================================================================
