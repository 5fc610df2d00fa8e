-------------------------- MODULE OrderBookProofs --------------------------
(***************************************************************************)
(* The orders of a turn never change once its ORDERS phase is over, the      *)
(* order book implements Ballot, the newest word of a player counts and a    *)
(* receipt is true, for any players and revisions, any number of messages,   *)
(* turns and crashes.                                                        *)
(***************************************************************************)
EXTENDS OrderBook, PhaseProofs, SequenceTheorems, FiniteSetTheorems

(* What is effective depends on the rows of that player and turn only.       *)
LEMMA EffectiveByRows ==
    ASSUME NEW p, NEW t, Rows(p, t)' = Rows(p, t)
    PROVE  Effective(p, t)' = Effective(p, t)
BY DEF Effective, Latest

(* Both writes of a handler touch rows of the match's turn only.             *)
LEMMA WritesKeepOtherTurns ==
    ASSUME NEW p, NEW t, t # match.turn, NEW old, NEW new,
           \A r \in old \cup new : r.turn = match.turn,
           book' = (book \ old) \cup new
    PROVE  Effective(p, t)' = Effective(p, t)
<1>1. Rows(p, t)' = Rows(p, t)
  BY DEF Rows
<1>2. QED BY <1>1, EffectiveByRows

(* The rows of the latest revision, and the row a judgement supersedes.      *)
LEMMA SupersededRows ==
    ASSUME TypeOK, job \in Message, NEW r \in Previous
    PROVE  /\ r \in book /\ r.turn = match.turn
           /\ [r EXCEPT !.status = "SUPERSEDED"] \in OrderRow
           /\ [r EXCEPT !.status = "SUPERSEDED"].turn = match.turn
<1>1. r \in book /\ r.turn = match.turn
  BY DEF Previous, Latest, Rows
<1>2. r \in OrderRow
  BY <1>1 DEF TypeOK
<1>3. QED BY <1>1, <1>2 DEF OrderRow, OrderStates

(* The first write of a handler.                                             *)
LEMMA JudgeKeepsTurns ==
    ASSUME FrozenInv, NEW kind, NEW status \in OrderStates,
           NEW superseding \in SUBSET Previous, Judge(kind, status, superseding)
    PROVE  FrozenInv'
<1>1. job \in Message /\ match.phase = "ORDERS" /\ TypeOK
  BY DEF FrozenInv, WritesOpenTurn, Judge, Admissible
<1>2. /\ book' \subseteq OrderRow
      /\ \E old, new \in SUBSET OrderRow :
            /\ \A r \in old \cup new : r.turn = match.turn
            /\ book' = (book \ old) \cup new
  <2>1. CASE superseding = {}
    <3>1. book' = (book \ {}) \cup {} /\ book' = book
      BY <2>1 DEF Judge
    <3>2. QED BY <1>1, <3>1 DEF TypeOK
  <2>2. CASE superseding # {}
    <3>1. PICK r \in Previous :
             book' = (book \ {r}) \cup {[r EXCEPT !.status = "SUPERSEDED"]}
      BY <2>2 DEF Judge, Superseded
    <3>2. /\ r \in book /\ r.turn = match.turn
          /\ [r EXCEPT !.status = "SUPERSEDED"] \in OrderRow
          /\ [r EXCEPT !.status = "SUPERSEDED"].turn = match.turn
      BY <1>1, SupersededRows
    <3> DEFINE s == [r EXCEPT !.status = "SUPERSEDED"]
    <3> HIDE DEF s
    <3>3. /\ \A x \in {r} \cup {s} : x.turn = match.turn
          /\ {r} \in SUBSET OrderRow /\ {s} \in SUBSET OrderRow
          /\ book' = (book \ {r}) \cup {s}
      BY <1>1, <3>1, <3>2 DEF TypeOK, s
    <3>4. QED BY <1>1, <3>3 DEF TypeOK
  <2>3. QED BY <2>1, <2>2
<1>3. TypeOK'
  BY <1>1, <1>2 DEF Judge, TypeOK
<1>4. OneUsePerTurn' /\ WritesOpenTurn'
  BY <1>1 DEF Judge, FrozenInv, OneUsePerTurn, WritesOpenTurn
<1>5. FrozenAfterClose'
  <2>1. SUFFICES ASSUME NEW t \in DOMAIN used, NEW p \in Players
                 PROVE  Effective(p, t)' = used[t][p]
    BY DEF FrozenAfterClose, Judge
  <2>2. t # match.turn
    BY <1>1 DEF FrozenInv, OneUsePerTurn, TypeOK, MatchState
  <2>3. Effective(p, t)' = Effective(p, t)
    BY <1>2, <2>2, WritesKeepOtherTurns
  <2>4. QED BY <2>3 DEF FrozenInv, FrozenAfterClose
<1>6. QED BY <1>3, <1>4, <1>5 DEF FrozenInv

(* The second write.                                                         *)
LEMMA InsertKeepsTurns ==
    ASSUME FrozenInv, Insert PROVE FrozenInv'
<1> DEFINE row == [player |-> job.player, turn |-> match.turn,
                   revision |-> job.revision, seq |-> job.seq, status |-> verdict]
           answer == [player |-> job.player, turn |-> match.turn,
                      seq |-> job.seq, state |-> verdict]
<1>1. job \in Message /\ match.phase = "ORDERS" /\ TypeOK
  BY DEF FrozenInv, WritesOpenTurn, Insert
<1>2. row \in OrderRow /\ row.turn = match.turn /\ answer \in Answer
  BY <1>1 DEF TypeOK, OrderRow, Answer, Message, MatchState
<1>3. /\ book' = (book \ {}) \cup {row}
      /\ book' \subseteq OrderRow
      /\ answers' \subseteq Answer
  BY <1>1, <1>2 DEF Insert, Answered, TypeOK
<1>4. TypeOK'
  <2>1. UNCHANGED <<match, lastSeen, network, used, crashes>>
    BY DEF Insert
  <2>2. pc' = "poll" /\ job' = None /\ verdict' \in OrderStates
    BY DEF Insert, Goto, OrderStates
  <2>3. QED BY <1>1, <1>3, <2>1, <2>2 DEF TypeOK
<1>5. OneUsePerTurn' /\ WritesOpenTurn'
  BY <1>1 DEF Insert, Goto, FrozenInv, OneUsePerTurn, WritesOpenTurn
<1>6. FrozenAfterClose'
  <2>1. SUFFICES ASSUME NEW t \in DOMAIN used, NEW p \in Players
                 PROVE  Effective(p, t)' = used[t][p]
    BY DEF FrozenAfterClose, Insert
  <2>2. t # match.turn
    BY <1>1 DEF FrozenInv, OneUsePerTurn, TypeOK, MatchState
  <2> HIDE DEF row
  <2>3. \A r \in {} \cup {row} : r.turn = match.turn
    BY <1>2
  <2>4. Effective(p, t)' = Effective(p, t)
    BY <1>3, <2>2, <2>3, WritesKeepOtherTurns
  <2>5. QED BY <2>4 DEF FrozenInv, FrozenAfterClose
<1>7. QED BY <1>4, <1>5, <1>6 DEF FrozenInv

(* Closing a turn adjudicates what is effective, which is then frozen.       *)
LEMMA AdvanceKeepsTurns ==
    ASSUME FrozenInv, Advance PROVE FrozenInv'
<1>1. TypeOK /\ OneUsePerTurn /\ match \in MatchState /\ match.phase \in TimedPhases
  BY DEF FrozenInv, TypeOK, OneUsePerTurn
<1>2. PICK dislodged, adjust \in BOOLEAN : match' = Landing(match, dislodged, adjust)
  BY DEF Advance
<1>3. /\ match' \in MatchState /\ match'.phase \in TimedPhases
      /\ \/ match'.turn = match.turn /\ match'.phase \in {"RETREAT", "BUILD"}
         \/ match'.turn = match.turn + 1 /\ match'.phase = "ORDERS"
  BY <1>1, <1>2, LandingAhead
<1> DEFINE closing == [p \in Players |-> Effective(p, match.turn)]
<1>4. CASE match.phase = "ORDERS"
  <2>1. used' = Append(used, closing) /\ used \in Seq([Players -> Nat \cup {None}])
    BY <1>1, <1>4 DEF Advance, TypeOK
  <2>2. closing \in [Players -> Nat \cup {None}]
    <3>1. SUFFICES ASSUME NEW p \in Players
                   PROVE  Effective(p, match.turn) \in Nat \cup {None}
      OBVIOUS
    <3>2. \A r \in book : r.seq \in Nat
      BY <1>1 DEF TypeOK, OrderRow
    <3>3. \A r \in Latest(p, match.turn) : r \in book
      BY DEF Latest, Rows
    <3>4. QED BY <3>2, <3>3 DEF Effective
  <2> HIDE DEF closing
  <2>3. /\ used' \in Seq([Players -> Nat \cup {None}])
        /\ Len(used') = Len(used) + 1
        /\ \A t \in DOMAIN used : used'[t] = used[t]
        /\ used'[Len(used) + 1] = closing
        /\ DOMAIN used' = DOMAIN used \cup {Len(used) + 1}
    BY <2>1, <2>2, AppendProperties
  <2>4. Len(used) + 1 = match.turn
    BY <1>1, <1>4 DEF OneUsePerTurn, MatchState
  <2>5. \A p, t : Effective(p, t)' = Effective(p, t)
    BY EffectiveByRows DEF Advance, Rows
  <2>6. FrozenAfterClose'
    BY <2>3, <2>4, <2>5 DEF FrozenAfterClose, FrozenInv, closing
  <2>7. OneUsePerTurn'
    BY <1>3, <2>3, <2>4 DEF OneUsePerTurn, MatchState
  <2>8. TypeOK' /\ WritesOpenTurn'
    BY <1>1, <1>3, <2>3 DEF Advance, process, TypeOK, WritesOpenTurn
  <2>9. QED BY <2>6, <2>7, <2>8 DEF FrozenInv
<1>5. CASE match.phase # "ORDERS"
  <2>1. used' = used /\ book' = book
    BY <1>5 DEF Advance
  <2>2. \A p, t : Effective(p, t)' = Effective(p, t)
    BY <2>1, EffectiveByRows DEF Rows
  <2>3. FrozenAfterClose'
    BY <2>1, <2>2 DEF FrozenAfterClose, FrozenInv
  <2>4. OneUsePerTurn'
    BY <1>1, <1>3, <1>5, <2>1 DEF OneUsePerTurn, MatchState
  <2>5. TypeOK' /\ WritesOpenTurn'
    BY <1>1, <1>3, <2>1 DEF Advance, process, TypeOK, WritesOpenTurn
  <2>6. QED BY <2>3, <2>4, <2>5 DEF FrozenInv
<1>6. QED BY <1>4, <1>5

(* Everything else leaves the table and the match's place alone.             *)
LEMMA TableKept ==
    ASSUME FrozenInv, TypeOK', WritesOpenTurn', book' = book, used' = used,
           match'.turn = match.turn, match'.phase = match.phase
    PROVE  FrozenInv'
<1>1. \A p, t : Effective(p, t)' = Effective(p, t)
  BY EffectiveByRows DEF Rows
<1>2. FrozenAfterClose' /\ OneUsePerTurn'
  BY <1>1 DEF FrozenInv, FrozenAfterClose, OneUsePerTurn
<1>3. QED BY <1>2 DEF FrozenInv

LEMMA FrozenInit ==
    ASSUME Init PROVE FrozenInv
<1>1. NewMatch \in MatchState /\ StartMatch(NewMatch) \in MatchState
  BY DEF NewMatch, StartMatch, MatchState, Statuses, PhaseNames
<1>2. match \in MatchState /\ match.phase = "ORDERS" /\ match.turn = 1
  BY <1>1, AdvancePhaseMoves DEF Init, StartMatch
<1>3. /\ used \in Seq([Players -> Nat \cup {None}])
      /\ Len(used) = 0 /\ DOMAIN used = {}
  BY DEF Init
<1>4. TypeOK
  <2>1. book \subseteq OrderRow /\ answers \subseteq Answer /\ network \subseteq Message
    BY DEF Init
  <2>2. IsFiniteSet(network)
    BY FS_EmptySet DEF Init
  <2>3. lastSeen \in [Players -> Nat] /\ verdict \in OrderStates /\ crashes \in Nat
    BY DEF Init, OrderStates
  <2>4. pc \in {"poll", "handle", "insert", "down"} /\ job \in Message \cup {None}
    BY DEF Init
  <2>5. QED BY <1>2, <1>3, <2>1, <2>2, <2>3, <2>4 DEF TypeOK
<1>5. OneUsePerTurn
  BY <1>2, <1>3 DEF OneUsePerTurn, TimedPhases
<1>6. WritesOpenTurn /\ FrozenAfterClose
  BY <1>3 DEF Init, WritesOpenTurn, FrozenAfterClose
<1>7. QED BY <1>4, <1>5, <1>6 DEF FrozenInv

(* The actions that only the process, the messages or the end of the match    *)
(* see.                                                                      *)
LEMMA OthersKeepTable ==
    ASSUME FrozenInv,
           \/ \E p \in Players, kind \in {"submit", "cancel"}, revision \in Revisions :
                 Compose(p, kind, revision)
           \/ \E m \in network : Receive(m) \/ Drop(m)
           \/ TurnAway \/ InsertRaises \/ End \/ Crash \/ Restart
           \/ UNCHANGED vars
    PROVE  FrozenInv'
<1> USE DEF store, process
<1>1. TypeOK /\ WritesOpenTurn /\ match \in MatchState
  BY DEF FrozenInv, TypeOK
<1>2. ASSUME NEW p \in Players, NEW kind \in {"submit", "cancel"},
             NEW revision \in Revisions, Compose(p, kind, revision)
      PROVE  FrozenInv'
  <2>1. Sent(p) \subseteq network /\ IsFiniteSet(network)
    BY <1>1 DEF Sent, TypeOK
  <2>2. Cardinality(Sent(p)) \in Nat
    BY <2>1, FS_Subset, FS_CardinalityType
  <2> DEFINE m == [player |-> p, seq |-> Cardinality(Sent(p)) + 1,
                   kind |-> kind, revision |-> revision]
  <2>3. m \in Message
    BY <2>2 DEF Message
  <2>4. network' = network \cup {m}
    BY <1>2 DEF Compose
  <2> HIDE DEF m
  <2>5. network' \subseteq Message /\ IsFiniteSet(network')
    BY <1>1, <2>1, <2>3, <2>4, FS_AddElement DEF TypeOK
  <2>6. UNCHANGED <<store, process, answers, used, crashes>>
    BY <1>2 DEF Compose
  <2>7. TypeOK'
    BY <1>1, <2>5, <2>6 DEF TypeOK
  <2>8. WritesOpenTurn'
    BY <1>1, <2>6 DEF WritesOpenTurn
  <2>9. QED BY <2>6, <2>7, <2>8, TableKept
<1>3. ASSUME NEW m \in network, Receive(m) PROVE FrozenInv'
  <2>1. m \in Message /\ m.player \in Players /\ m.seq \in Nat
    BY <1>1 DEF TypeOK, Message
  <2>2. TypeOK'
    BY <1>1, <1>3, <2>1 DEF Receive, TypeOK
  <2>3. WritesOpenTurn'
    BY <1>3, <2>1 DEF Receive, WritesOpenTurn
  <2>4. QED BY <1>3, <2>2, <2>3, TableKept DEF Receive
<1>4. CASE TurnAway
  <2>1. job \in Message
    BY <1>1, <1>4 DEF TurnAway, WritesOpenTurn
  <2>2. answers' \subseteq Answer
    BY <1>1, <1>4, <2>1 DEF TurnAway, Answered, TypeOK, Answer, Message, MatchState,
                            OrderStates
  <2>3. pc' = "poll" /\ job' = None /\ verdict' \in OrderStates
    BY <1>4 DEF TurnAway, Goto, OrderStates
  <2>4. UNCHANGED <<store, network, used, crashes>>
    BY <1>4 DEF TurnAway
  <2>5. TypeOK' /\ WritesOpenTurn'
    BY <1>1, <2>2, <2>3, <2>4 DEF TypeOK, WritesOpenTurn
  <2>6. QED BY <2>4, <2>5, TableKept
<1>5. CASE InsertRaises \/ Crash
  <2>1. pc' = "down" /\ job' = None /\ verdict' \in OrderStates
    BY <1>5 DEF InsertRaises, Crash, Goto, OrderStates
  <2>2. UNCHANGED <<store, network, answers, used>>
    BY <1>5 DEF InsertRaises, Crash
  <2>3. crashes' \in Nat
    BY <1>1, <1>5 DEF InsertRaises, Crash, TypeOK
  <2>4. TypeOK' /\ WritesOpenTurn'
    BY <1>1, <2>1, <2>2, <2>3 DEF TypeOK, WritesOpenTurn
  <2>5. QED BY <2>2, <2>4, TableKept
<1>6. CASE End
  <2>1. match' \in MatchState /\ match'.turn = match.turn /\ match'.phase = match.phase
    BY <1>1, <1>6 DEF End, EndMatch, MatchState, Statuses
  <2>2. UNCHANGED <<book, lastSeen, process, network, answers, used, crashes>>
    BY <1>6 DEF End
  <2>3. TypeOK' /\ WritesOpenTurn'
    BY <1>1, <2>1, <2>2 DEF TypeOK, WritesOpenTurn
  <2>4. QED BY <2>1, <2>2, <2>3, TableKept
<1>7. CASE Restart
  <2>1. TypeOK' /\ WritesOpenTurn'
    BY <1>1, <1>7 DEF Restart, TypeOK, WritesOpenTurn
  <2>2. QED BY <1>7, <2>1, TableKept DEF Restart
<1>8. CASE UNCHANGED vars
  <2>1. TypeOK' /\ WritesOpenTurn'
    BY <1>1, <1>8 DEF vars, TypeOK, WritesOpenTurn
  <2>2. QED BY <1>8, <2>1, TableKept DEF vars
<1>9. QED BY <1>2, <1>3, <1>4, <1>5, <1>6, <1>7, <1>8 DEF Drop

LEMMA FrozenStep ==
    ASSUME FrozenInv, [Next]_vars PROVE FrozenInv'
<1>1. CASE JudgeSubmit
  <2>1. Previous \in SUBSET Previous /\ {} \in SUBSET Previous
    OBVIOUS
  <2>2. {"ACCEPTED", "REJECTED"} \subseteq OrderStates
    BY DEF OrderStates
  <2>3. QED BY <1>1, <2>1, <2>2, JudgeKeepsTurns DEF JudgeSubmit
<1>2. CASE JudgeCancel
  <2>1. {r \in Previous : r.status = "ACCEPTED"} \in SUBSET Previous
    OBVIOUS
  <2>2. "SUPERSEDED" \in OrderStates
    BY DEF OrderStates
  <2>3. QED BY <1>2, <2>1, <2>2, JudgeKeepsTurns DEF JudgeCancel
<1>3. CASE ~JudgeSubmit /\ ~JudgeCancel /\ ~Insert /\ ~Advance
  BY <1>3, OthersKeepTable DEF Next, Handle
<1>4. QED BY <1>1, <1>2, <1>3, InsertKeepsTurns, AdvanceKeepsTurns

(* The table, the message in hand and the receipts keep to their types.     *)
THEOREM TypesKept == Spec => []TypeOK
<1>1. FrozenInv => TypeOK
  BY DEF FrozenInv
<1>2. QED BY <1>1, FrozenInit, FrozenStep, PTL DEF Spec

(* Every reachable state satisfies the invariant, hence the orders of a turn *)
(* are frozen once adjudicated (handle_order_submit and handle_order_cancel  *)
(* only write while the phase is ORDERS, for the turn being played).         *)
THEOREM OrdersAreFrozen == Spec => []FrozenAfterClose
<1>1. FrozenInv => FrozenAfterClose
  BY DEF FrozenInv
<1>2. QED BY <1>1, FrozenInit, FrozenStep, PTL DEF Spec

-----------------------------------------------------------------------------
(* What the two writes of a handler make of what counts.                    *)

LEMMA LatestIsOne ==
    ASSUME BallotInv, NEW p, NEW t, NEW r \in Latest(p, t)
    PROVE  Latest(p, t) = {r}
<1>1. \A x \in Rows(p, t) : x \in book /\ x.revision \in Nat
  BY RevisionsAssumption DEF BallotInv, FrozenInv, TypeOK, OrderRow, Rows
<1>2. ASSUME NEW s \in Latest(p, t) PROVE s = r
  <2>1. s.revision = r.revision
    BY <1>1 DEF Latest
  <2>2. s \in book /\ r \in book /\ s.player = r.player /\ s.turn = r.turn
    BY DEF Latest, Rows
  <2>3. QED BY <2>1, <2>2 DEF BallotInv, UniqueRevisions
<1>3. QED BY <1>2

LEMMA EffectiveByLatest ==
    ASSUME NEW p, NEW t, Latest(p, t)' = Latest(p, t)
    PROVE  Effective(p, t)' = Effective(p, t)
BY DEF Effective

LEMMA EffectiveOfOne ==
    ASSUME NEW p, NEW t, NEW row, Latest(p, t)' = {row}
    PROVE  Effective(p, t)' = IF row.status = "ACCEPTED" THEN row.seq ELSE None
<1>1. CASE row.status = "ACCEPTED"
  <2>1. {r \in Latest(p, t)' : r.status = "ACCEPTED"} = {row}
    BY <1>1
  <2>2. (CHOOSE r \in {row} : TRUE) = row
    OBVIOUS
  <2>3. Effective(p, t)' = row.seq
    BY <2>1, <2>2 DEF Effective
  <2>4. QED BY <1>1, <2>3
<1>2. CASE row.status # "ACCEPTED"
  <2>1. {r \in Latest(p, t)' : r.status = "ACCEPTED"} = {}
    BY <1>2
  <2>2. Effective(p, t)' = None
    BY <2>1 DEF Effective
  <2>3. QED BY <1>2, <2>2
<1>3. QED BY <1>1, <1>2

(* A superseded row takes the place of the latest one, and nothing counts.   *)
LEMMA SupersedingEmpties ==
    ASSUME BallotInv, NEW q, q = job.player, NEW t, t = match.turn,
           NEW r \in Previous, book' = Superseded(r), match' = match
    PROVE  /\ Effective(q, t)' = None
           /\ \A p : p # q => Effective(p, t)' = Effective(p, t)
           /\ UniqueRevisions' /\ RowsPlayed'
<1> DEFINE s == [r EXCEPT !.status = "SUPERSEDED"]
<1>1. /\ r \in Latest(q, t) /\ r \in book
      /\ r.player = q /\ r.turn = t /\ r \in OrderRow
  BY DEF Previous, Latest, Rows, BallotInv, FrozenInv, TypeOK
<1>2. /\ s.player = r.player /\ s.turn = r.turn /\ s.revision = r.revision
      /\ s.status = "SUPERSEDED"
  BY <1>1 DEF OrderRow
<1>3. book' = (book \ {r}) \cup {s}
  BY DEF Superseded
<1> HIDE DEF s
<1>4. \A x \in book : x \in OrderRow /\ x.revision \in Nat
  BY RevisionsAssumption DEF BallotInv, FrozenInv, TypeOK, OrderRow
<1>5. ASSUME NEW x \in Latest(q, t)' PROVE x = s
  <2>1. x \in book' /\ x.player = q /\ x.turn = t
        /\ s.revision <= x.revision
    BY <1>1, <1>2, <1>3 DEF Latest, Rows
  <2>2. CASE x # s
    <3>1. x \in book /\ x # r
      BY <1>3, <2>1, <2>2
    <3>2. x.revision <= r.revision
      BY <1>1, <2>1, <3>1 DEF Latest, Rows
    <3>3. x.revision = r.revision
      BY <1>1, <1>2, <1>4, <2>1, <3>1, <3>2
    <3>4. QED BY <1>1, <2>1, <3>1, <3>3 DEF BallotInv, UniqueRevisions
  <2>3. QED BY <2>2
<1>6. Effective(q, t)' = None
  BY <1>2, <1>5 DEF Effective
<1>7. ASSUME NEW p, p # q
      PROVE  Effective(p, t)' = Effective(p, t)
  <2>1. Rows(p, t)' = Rows(p, t)
    BY <1>1, <1>2, <1>3, <1>7 DEF Rows
  <2>2. QED BY <2>1 DEF Effective, Latest
<1>8. UniqueRevisions'
  BY <1>1, <1>2, <1>3 DEF BallotInv, UniqueRevisions
<1>9. RowsPlayed'
  BY <1>1, <1>2, <1>3 DEF BallotInv, RowsPlayed
<1>10. QED BY <1>6, <1>7, <1>8, <1>9

(* A new row is the latest one, or what was latest still is.                 *)
LEMMA InsertedRow ==
    ASSUME BallotInv, Insert, NEW q, q = job.player, NEW t, t = match.turn,
           NEW row, row = [player |-> q, turn |-> t, revision |-> job.revision,
                           seq |-> job.seq, status |-> verdict]
    PROVE  /\ book' = book \cup {row}
           /\ row.revision \in Nat /\ t \in Nat
           /\ \A x \in book : x.player = q /\ x.turn = t => x.revision # row.revision
           /\ (\A x \in Rows(q, t) : x.revision < row.revision) => Latest(q, t)' = {row}
           /\ ~(\A x \in Rows(q, t) : x.revision < row.revision)
                 => Latest(q, t)' = Latest(q, t)
<1> DEFINE v == job.revision
<1>1. book' = book \cup {row}
  BY DEF Insert
<1>2. row.player = q /\ row.turn = t /\ row.revision = v
  OBVIOUS
<1>3. \A x \in book : x.player = q /\ x.turn = t => x.revision # v
  BY DEF Insert, Taken, Rows
<1>4. v \in Nat /\ t \in Nat
  BY RevisionsAssumption DEF BallotInv, FrozenInv, WritesOpenTurn, Insert, Message,
                             TypeOK, MatchState
<1> HIDE DEF v
<1>5. \A x \in book : x.revision \in Nat
  BY RevisionsAssumption DEF BallotInv, FrozenInv, TypeOK, OrderRow
<1>6. Rows(q, t)' = Rows(q, t) \cup {row}
  BY <1>1, <1>2 DEF Rows
<1>7. ASSUME \A x \in Rows(q, t) : x.revision < v
      PROVE  Latest(q, t)' = {row}
  <2>1. row \in Latest(q, t)'
    BY <1>2, <1>4, <1>5, <1>6, <1>7 DEF Latest, Rows
  <2>2. ASSUME NEW x \in Latest(q, t)' PROVE x = row
    <3>1. x \in Rows(q, t) \cup {row} /\ row.revision <= x.revision
      BY <1>6 DEF Latest
    <3>2. QED BY <1>2, <1>4, <1>5, <1>7, <3>1 DEF Rows
  <2>3. QED BY <2>1, <2>2
<1>8. ASSUME \E x \in Rows(q, t) : ~(x.revision < v)
      PROVE  Latest(q, t)' = Latest(q, t)
  <2>1. PICK x \in Rows(q, t) : x.revision > v
    BY <1>3, <1>4, <1>5, <1>8 DEF Rows
  <2>2. row \notin Latest(q, t)'
    BY <1>2, <1>4, <1>5, <1>6, <2>1 DEF Latest, Rows
  <2>3. ASSUME NEW y PROVE y \in Latest(q, t)' <=> y \in Latest(q, t)
    <3>1. ASSUME y \in Latest(q, t)' PROVE y \in Latest(q, t)
      BY <1>6, <2>2, <3>1 DEF Latest
    <3>2. ASSUME y \in Latest(q, t) PROVE y \in Latest(q, t)'
      <4>1. y \in Rows(q, t) /\ x.revision <= y.revision
        BY <2>1, <3>2 DEF Latest
      <4>2. row.revision <= y.revision
        BY <1>2, <1>4, <1>5, <2>1, <4>1 DEF Rows
      <4>3. QED BY <1>6, <3>2, <4>2 DEF Latest
    <3>3. QED BY <3>1, <3>2
  <2>4. QED BY <2>3
<1>9. QED BY <1>1, <1>2, <1>3, <1>4, <1>7, <1>8

(* A new row counts, or ends what counted, or is not the latest.            *)
LEMMA InsertingChooses ==
    ASSUME BallotInv, Insert, NEW q, q = job.player, NEW t, t = match.turn,
           NEW n, n = job.seq
    PROVE  /\ Effective(q, t)' \in {Effective(q, t), None, n}
           /\ \A p : p # q => Effective(p, t)' = Effective(p, t)
           /\ UniqueRevisions' /\ RowsPlayed'
<1> PICK row : row = [player |-> q, turn |-> t, revision |-> job.revision,
                      seq |-> n, status |-> verdict]
  OBVIOUS
<1>1. /\ book' = book \cup {row} /\ match' = match /\ t \in Nat
      /\ \A x \in book : x.player = q /\ x.turn = t => x.revision # row.revision
      /\ Latest(q, t)' = {row} \/ Latest(q, t)' = Latest(q, t)
  BY InsertedRow DEF Insert
<1>2. row.player = q /\ row.turn = t /\ row.seq = n
  OBVIOUS
<1>3. Effective(q, t)' \in {Effective(q, t), None, n}
  BY <1>1, <1>2, EffectiveOfOne, EffectiveByLatest
<1>4. ASSUME NEW p, p # q PROVE Effective(p, t)' = Effective(p, t)
  <2>1. Rows(p, t)' = Rows(p, t)
    BY <1>1, <1>2, <1>4 DEF Rows
  <2>2. QED BY <2>1 DEF Effective, Latest
<1>5. UniqueRevisions'
  BY <1>1, <1>2 DEF BallotInv, UniqueRevisions
<1>6. RowsPlayed'
  BY <1>1, <1>2 DEF BallotInv, RowsPlayed
<1>7. QED BY <1>3, <1>4, <1>5, <1>6
-----------------------------------------------------------------------------
(* Every action is a step of Ballot, or none, and keeps what that rests on.  *)

Simulates ==
    /\ UniqueRevisions' /\ RowsPlayed' /\ JobIsNewest'
    /\ [AbstractBallot!Next]_(AbstractBallot!ballot)

(* What counts, when the table and the match stay as they are.               *)
LEMMA CountingKept ==
    ASSUME BallotInv, book' = book, match'.turn = match.turn,
           match'.phase = match.phase
    PROVE  /\ Counting' = Counting /\ OrdersOpen' = OrdersOpen
           /\ UniqueRevisions' /\ RowsPlayed'
<1>1. ASSUME NEW p PROVE Effective(p, match.turn)' = Effective(p, match.turn)
  <2>1. Rows(p, match.turn)' = Rows(p, match.turn)
    BY DEF Rows
  <2>2. QED BY <2>1 DEF Effective, Latest
<1>2. Counting' = Counting
  BY <1>1 DEF Counting
<1>3. QED BY <1>2 DEF OrdersOpen, BallotInv, UniqueRevisions, RowsPlayed

LEMMA HeardSimulates ==
    ASSUME BallotInv, NEW m \in network, Receive(m) PROVE Simulates
<1>1. m \in Message /\ m.player \in Players /\ m.seq \in Nat
      /\ lastSeen \in [Players -> Nat]
  BY DEF BallotInv, FrozenInv, TypeOK, Message
<1>2. Counting' = Counting /\ OrdersOpen' = OrdersOpen /\ UniqueRevisions' /\ RowsPlayed'
  BY CountingKept DEF Receive
<1>3. /\ lastSeen' = [lastSeen EXCEPT ![m.player] = m.seq]
      /\ lastSeen'[m.player] = m.seq /\ m.seq > lastSeen[m.player]
      /\ used' = used
  BY <1>1 DEF Receive
<1>4. AbstractBallot!Hear(m.player)
  BY <1>1, <1>2, <1>3 DEF AbstractBallot!Hear
<1>5. JobIsNewest'
  BY <1>1, <1>3 DEF Receive, JobIsNewest
<1>6. QED BY <1>1, <1>2, <1>4, <1>5 DEF Simulates, AbstractBallot!Next

(* The turn being judged is open, and its message is the newest one heard.   *)
LEMMA JudgeSimulates ==
    ASSUME BallotInv, NEW kind, NEW status, NEW superseding \in SUBSET Previous,
           Judge(kind, status, superseding)
    PROVE  Simulates
<1>1. /\ job \in Message /\ job.player \in Players
      /\ job' = job /\ lastSeen' = lastSeen /\ match' = match /\ used' = used
      /\ OrdersOpen /\ OrdersOpen' = OrdersOpen
  BY DEF BallotInv, FrozenInv, WritesOpenTurn, Judge, Admissible, OrdersOpen, Message
<1>2. JobIsNewest'
  BY <1>1 DEF BallotInv, JobIsNewest, Judge
<1>3. CASE superseding = {}
  <2>1. book' = book
    BY <1>3 DEF Judge
  <2>2. Counting' = Counting /\ UniqueRevisions' /\ RowsPlayed'
    BY <1>1, <2>1, CountingKept
  <2>3. QED BY <1>1, <1>2, <2>2 DEF Simulates, AbstractBallot!ballot
<1>4. CASE superseding # {}
  <2>1. PICK r \in Previous : book' = Superseded(r)
    BY <1>4 DEF Judge
  <2>2. PICK q \in Players : q = job.player
    BY <1>1
  <2>3. PICK t : t = match.turn
    OBVIOUS
  <2>4. /\ Effective(q, t)' = None
        /\ \A p : p # q => Effective(p, t)' = Effective(p, t)
        /\ UniqueRevisions' /\ RowsPlayed'
    BY <1>1, <2>1, <2>2, <2>3, SupersedingEmpties
  <2>5. /\ Counting = [p \in Players |-> Effective(p, t)]
        /\ Counting' = [p \in Players |-> Effective(p, t)']
    BY <1>1, <2>3 DEF Counting
  <2>6. Counting' = [Counting EXCEPT ![q] = None]
    BY <2>4, <2>5
  <2>7. AbstractBallot!Choose(q)
    BY <1>1, <2>6 DEF AbstractBallot!Choose
  <2>8. QED BY <1>2, <2>4, <2>7 DEF Simulates, AbstractBallot!Next
<1>5. QED BY <1>3, <1>4

LEMMA InsertSimulates ==
    ASSUME BallotInv, Insert PROVE Simulates
<1>1. /\ job \in Message /\ job.player \in Players
      /\ lastSeen' = lastSeen /\ match' = match /\ used' = used
      /\ OrdersOpen /\ OrdersOpen' = OrdersOpen
      /\ job.seq = lastSeen[job.player]
  BY DEF BallotInv, FrozenInv, WritesOpenTurn, Insert, OrdersOpen, Message, JobIsNewest
<1>2. JobIsNewest'
  BY DEF Insert, Goto, JobIsNewest
<1>3. PICK q \in Players : q = job.player
  BY <1>1
<1>4. PICK t : t = match.turn
  OBVIOUS
<1>5. PICK n : n = job.seq
  OBVIOUS
<1>7. /\ Effective(q, t)' \in {Effective(q, t), None, n}
      /\ \A p : p # q => Effective(p, t)' = Effective(p, t)
      /\ UniqueRevisions' /\ RowsPlayed'
  BY <1>3, <1>4, <1>5, InsertingChooses
<1>8. /\ Counting = [p \in Players |-> Effective(p, t)]
      /\ Counting' = [p \in Players |-> Effective(p, t)']
  BY <1>1, <1>4 DEF Counting
<1>9. CASE Effective(q, t)' = Effective(q, t)
  <2>1. Counting' = Counting
    BY <1>7, <1>8, <1>9
  <2>2. QED BY <1>1, <1>2, <1>7, <2>1 DEF Simulates, AbstractBallot!ballot
<1>10. CASE Effective(q, t)' \in {None, n}
  <2>1. Counting' = [Counting EXCEPT ![q] = Effective(q, t)']
    BY <1>7, <1>8
  <2>2. Effective(q, t)' \in {None, lastSeen[q]}
    BY <1>1, <1>3, <1>5, <1>10
  <2>3. AbstractBallot!Choose(q)
    BY <1>1, <2>1, <2>2 DEF AbstractBallot!Choose
  <2>4. QED BY <1>2, <1>7, <2>3 DEF Simulates, AbstractBallot!Next
<1>11. QED BY <1>7, <1>9, <1>10

(* A turn that has not begun has no rows, so it opens with nothing chosen.   *)
LEMMA AdvanceSimulates ==
    ASSUME BallotInv, Advance PROVE Simulates
<1>1. PICK dislodged, adjust \in BOOLEAN : match' = Landing(match, dislodged, adjust)
  BY DEF Advance
<1>2. match \in MatchState /\ match.phase \in TimedPhases /\ match.turn \in Nat
  BY DEF BallotInv, FrozenInv, TypeOK, OneUsePerTurn, MatchState
<1>3. \/ match'.turn = match.turn /\ match'.phase \in {"RETREAT", "BUILD"}
      \/ match'.turn = match.turn + 1 /\ match'.phase = "ORDERS"
  BY <1>1, <1>2, LandingAhead
<1>4. book' = book /\ lastSeen' = lastSeen
  BY DEF Advance
<1>5. UniqueRevisions' /\ JobIsNewest'
  BY <1>4 DEF BallotInv, UniqueRevisions, JobIsNewest, Advance, process
<1>6. RowsPlayed'
  <2>1. ASSUME NEW r \in book PROVE r.turn <= match'.turn
    <3>1. r.turn \in Nat /\ r.turn <= match.turn
      BY DEF BallotInv, FrozenInv, TypeOK, OrderRow, RowsPlayed
    <3>2. QED BY <1>2, <1>3, <3>1
  <2>2. QED BY <1>4, <2>1 DEF RowsPlayed
<1>7. ASSUME match'.turn = match.turn PROVE Counting' = Counting
  <2>1. ASSUME NEW p PROVE Effective(p, match.turn)' = Effective(p, match.turn)
    <3>1. Rows(p, match.turn)' = Rows(p, match.turn)
      BY <1>4, <1>7 DEF Rows
    <3>2. QED BY <3>1 DEF Effective, Latest
  <2>2. QED BY <2>1 DEF Counting
<1>8. ASSUME match'.turn = match.turn + 1 PROVE Counting' = AbstractBallot!Blank
  <2>1. ASSUME NEW p \in Players PROVE Effective(p, match.turn)' = None
    <3>1. \A r \in book' : r.turn # match'.turn
      BY <1>2, <1>4, <1>8 DEF BallotInv, RowsPlayed
    <3>2. Latest(p, match.turn)' = {}
      BY <3>1 DEF Latest, Rows
    <3>3. QED BY <3>2 DEF Effective
  <2>2. QED BY <2>1 DEF Counting, AbstractBallot!Blank
<1>9. CASE match.phase = "ORDERS"
  <2>1. used' = Append(used, Counting) /\ OrdersOpen = TRUE
    BY <1>9 DEF Advance, Counting, OrdersOpen
  <2>2. AbstractBallot!Close
    BY <1>3, <1>4, <1>7, <1>8, <2>1 DEF AbstractBallot!Close, OrdersOpen
  <2>3. QED BY <1>5, <1>6, <2>2 DEF Simulates, AbstractBallot!Next
<1>10. CASE match.phase # "ORDERS"
  <2>1. used' = used /\ OrdersOpen = FALSE
    BY <1>10 DEF Advance, OrdersOpen
  <2>2. CASE match'.turn = match.turn /\ match'.phase \in {"RETREAT", "BUILD"}
    <3>1. OrdersOpen' = FALSE
      BY <2>2 DEF OrdersOpen
    <3>2. QED BY <1>4, <1>5, <1>6, <1>7, <2>1, <2>2, <3>1
              DEF Simulates, AbstractBallot!ballot
  <2>3. CASE match'.turn = match.turn + 1 /\ match'.phase = "ORDERS"
    <3>1. OrdersOpen' = TRUE
      BY <2>3 DEF OrdersOpen
    <3>2. AbstractBallot!Open
      BY <1>4, <1>8, <2>1, <2>3, <3>1 DEF AbstractBallot!Open
    <3>3. QED BY <1>5, <1>6, <3>2 DEF Simulates, AbstractBallot!Next
  <2>4. QED BY <1>3, <2>2, <2>3
<1>11. QED BY <1>9, <1>10

(* What Ballot does not see.                                                 *)
LEMMA OthersSimulate ==
    ASSUME BallotInv,
           \/ \E p \in Players, kind \in {"submit", "cancel"}, revision \in Revisions :
                 Compose(p, kind, revision)
           \/ \E m \in network : Drop(m)
           \/ TurnAway \/ InsertRaises \/ End \/ Crash \/ Restart
           \/ UNCHANGED vars
    PROVE  Simulates
<1>1. /\ book' = book /\ lastSeen' = lastSeen /\ used' = used
      /\ match'.turn = match.turn /\ match'.phase = match.phase
  <2>1. CASE End
    <3>1. match \in MatchState
      BY DEF BallotInv, FrozenInv, TypeOK
    <3>2. match'.turn = match.turn /\ match'.phase = match.phase
      BY <2>1, <3>1 DEF End, EndMatch, MatchState
    <3>3. QED BY <2>1, <3>2 DEF End
  <2>2. CASE ~End
    BY <2>2 DEF Compose, Drop, TurnAway, InsertRaises, Crash, Restart, vars, store
  <2>3. QED BY <2>1, <2>2
<1>2. (pc' = pc /\ job' = job) \/ pc' \in {"poll", "down"}
  BY DEF Compose, Drop, TurnAway, InsertRaises, End, Crash, Restart, Goto, vars, process
<1>3. JobIsNewest'
  BY <1>1, <1>2 DEF BallotInv, JobIsNewest
<1>4. QED BY <1>1, <1>3, CountingKept DEF Simulates, AbstractBallot!ballot

LEMMA StepSimulates ==
    ASSUME BallotInv, [Next]_vars PROVE Simulates
<1>1. CASE JudgeSubmit
  <2>1. Previous \in SUBSET Previous /\ {} \in SUBSET Previous
    OBVIOUS
  <2>2. QED BY <1>1, <2>1, JudgeSimulates DEF JudgeSubmit
<1>2. CASE JudgeCancel
  <2>1. {r \in Previous : r.status = "ACCEPTED"} \in SUBSET Previous
    OBVIOUS
  <2>2. QED BY <1>2, <2>1, JudgeSimulates DEF JudgeCancel
<1>3. CASE \E m \in network : Receive(m)
  BY <1>3, HeardSimulates
<1>4. CASE /\ ~JudgeSubmit /\ ~JudgeCancel /\ ~Insert /\ ~Advance
           /\ ~\E m \in network : Receive(m)
  BY <1>4, OthersSimulate DEF Next, Handle
<1>5. QED BY <1>1, <1>2, <1>3, <1>4, InsertSimulates, AdvanceSimulates

LEMMA BallotInit ==
    ASSUME Init PROVE BallotInv /\ AbstractBallot!Init
<1>1. FrozenInv
  BY FrozenInit
<1>2. BallotInv
  BY <1>1 DEF BallotInv, Init, UniqueRevisions, RowsPlayed, JobIsNewest
<1>3. OrdersOpen = TRUE
  <2>1. StartMatch(NewMatch) \in MatchState /\ StartMatch(NewMatch).phase = "DIPLOMACY"
    BY DEF StartMatch, MatchState, Statuses, PhaseNames
  <2>2. match.phase = "ORDERS"
    BY <2>1, AdvancePhaseMoves DEF Init
  <2>3. QED BY <2>2 DEF OrdersOpen
<1>4. Counting = AbstractBallot!Blank
  <2>1. ASSUME NEW p \in Players PROVE Effective(p, match.turn) = None
    <3>1. Latest(p, match.turn) = {}
      BY DEF Init, Latest, Rows
    <3>2. QED BY <3>1 DEF Effective
  <2>2. QED BY <2>1 DEF Counting, AbstractBallot!Blank
<1>5. QED BY <1>2, <1>3, <1>4 DEF Init, AbstractBallot!Init

(* The table and its receipts keep to their types, a revision names one row  *)
(* of its player and turn, and a message in hand is the newest heard.        *)
THEOREM BallotInvariant == Spec => []BallotInv
<1>1. BallotInv /\ [Next]_vars => BallotInv'
  BY FrozenStep, StepSimulates DEF BallotInv, Simulates
<1>2. QED BY <1>1, BallotInit, PTL DEF Spec

(* Order handling implements the ballot: what a turn is adjudicated with is,  *)
(* of each player, the newest message heard while orders were open or        *)
(* nothing (orders.py, match.py:245).                                       *)
THEOREM OrderBookImplementsBallot == Spec => ImplementsBallot
<1>1. BallotInv /\ [Next]_vars => [AbstractBallot!Next]_(AbstractBallot!ballot)
  BY StepSimulates DEF Simulates
<1>2. QED BY <1>1, BallotInit, BallotInvariant, PTL
          DEF Spec, ImplementsBallot, AbstractBallot!Spec
-----------------------------------------------------------------------------
(* The newest word of a player counts, and a receipt tells the truth.       *)

Standing ==
    /\ RowsHeard /\ AnsweredOnce /\ LatestExists /\ VerdictStands
    /\ EffectiveIsNewest /\ AcceptedStands

(* What a row or a receipt is about.                                         *)
LEMMA TypesOfParts ==
    ASSUME BallotInv
    PROVE  /\ \A r \in book : /\ r.seq \in Nat /\ r.turn \in Nat
                              /\ r.revision \in Nat /\ r.player \in Players
           /\ \A a \in answers : a.seq \in Nat /\ a.player \in Players
           /\ lastSeen \in [Players -> Nat]
           /\ pc \in {"handle", "insert"} => job \in Message /\ job.seq \in Nat
                                               /\ job.player \in Players
BY RevisionsAssumption
   DEF BallotInv, FrozenInv, TypeOK, OrderRow, Answer, WritesOpenTurn, Message

(* A step that leaves the table alone, and neither hears nor accepts.        *)
LEMMA StandingKept ==
    ASSUME StandingInv, book' = book, lastSeen' = lastSeen,
           (pc' = pc /\ job' = job /\ verdict' = verdict /\ match'.turn = match.turn)
              \/ pc' \in {"poll", "down"},
           \/ answers' = answers
           \/ pc = "handle" /\ pc' = "poll" /\ Answered("REJECTED")
    PROVE  Standing'
<1>1. \A p, t : Latest(p, t)' = Latest(p, t) /\ Effective(p, t)' = Effective(p, t)
  BY EffectiveByRows DEF Rows, Latest
<1>2. RowsHeard'
  BY DEF StandingInv, RowsHeard
<1>3. EffectiveIsNewest' /\ LatestExists'
  BY <1>1 DEF StandingInv, EffectiveIsNewest, LatestExists
<1>4. VerdictStands'
  <2>1. CASE pc' \in {"poll", "down"}
    BY <2>1 DEF VerdictStands
  <2>2. CASE pc' = pc /\ job' = job /\ verdict' = verdict /\ match'.turn = match.turn
    <3>1. Previous' = Previous
      BY <1>1, <2>2 DEF Previous
    <3>2. pc' = "insert" => Effective(job.player, match.turn)' = Effective(job.player, match.turn)
      BY <1>1, <2>2
    <3>3. QED BY <2>2, <3>1, <3>2 DEF StandingInv, VerdictStands
  <2>3. QED BY <2>1, <2>2
<1>5. CASE answers' = answers
  <2>1. AnsweredOnce'
    BY <1>5 DEF StandingInv, AnsweredOnce
  <2>2. AcceptedStands'
    BY <1>1, <1>5 DEF StandingInv, AcceptedStands
  <2>3. QED BY <1>2, <1>3, <1>4, <2>1, <2>2 DEF Standing
<1>6. CASE pc = "handle" /\ pc' = "poll" /\ Answered("REJECTED")
  <2>1. PICK a : /\ answers' = answers \cup {a} /\ a.state = "REJECTED"
                 /\ a.seq = job.seq /\ a.player = job.player
    <3> DEFINE a == [player |-> job.player, turn |-> match.turn, seq |-> job.seq,
                     state |-> "REJECTED"]
    <3>1. answers' = answers \cup {a}
      BY <1>6 DEF Answered
    <3>2. a.state = "REJECTED" /\ a.seq = job.seq /\ a.player = job.player
      OBVIOUS
    <3> HIDE DEF a
    <3>3. QED BY <3>1, <3>2
  <2>2. a.seq <= lastSeen[a.player]
    BY <1>6, <2>1, TypesOfParts DEF StandingInv, BallotInv, JobIsNewest
  <2>3. AnsweredOnce'
    BY <1>6, <2>1, <2>2 DEF StandingInv, AnsweredOnce
  <2>4. AcceptedStands'
    BY <1>1, <2>1 DEF StandingInv, AcceptedStands
  <2>5. QED BY <1>2, <1>3, <1>4, <2>3, <2>4 DEF Standing
<1>7. QED BY <1>5, <1>6

(* A message heard is newer than everything in the table and every receipt.  *)
LEMMA HeardStands ==
    ASSUME StandingInv, NEW m \in network, Receive(m) PROVE Standing'
<1>1. BallotInv /\ m.player \in Players /\ m.seq \in Nat
  BY DEF StandingInv, BallotInv, FrozenInv, TypeOK, Message
<1>2. /\ lastSeen' = [lastSeen EXCEPT ![m.player] = m.seq]
      /\ m.seq > lastSeen[m.player] /\ job' = m /\ pc' = "handle"
      /\ book' = book /\ answers' = answers /\ match' = match
  BY DEF Receive
<1>3. /\ \A p \in Players : p # m.player => lastSeen'[p] = lastSeen[p]
      /\ lastSeen'[m.player] = m.seq
  BY <1>1, <1>2, TypesOfParts
<1>4. \A p, t : Latest(p, t)' = Latest(p, t) /\ Effective(p, t)' = Effective(p, t)
  BY <1>2, EffectiveByRows DEF Rows, Latest
<1>5. RowsHeard'
  <2>1. ASSUME NEW r \in book PROVE r.seq <= lastSeen'[r.player]
    <3>1. r.seq <= lastSeen[r.player] /\ r.seq \in Nat /\ r.player \in Players
          /\ lastSeen[r.player] \in Nat
      BY <1>1, TypesOfParts DEF StandingInv, RowsHeard
    <3>2. QED BY <1>1, <1>2, <1>3, <3>1
  <2>2. QED BY <1>2, <2>1 DEF RowsHeard
<1>6. /\ \A a \in answers : a.seq <= lastSeen'[a.player]
      /\ \A a \in answers : a.player = m.player => a.seq < m.seq
  <2>1. ASSUME NEW a \in answers
        PROVE  a.seq <= lastSeen'[a.player] /\ (a.player = m.player => a.seq < m.seq)
    <3>1. a.seq <= lastSeen[a.player] /\ a.seq \in Nat /\ a.player \in Players
          /\ lastSeen[a.player] \in Nat
      BY <1>1, TypesOfParts DEF StandingInv, AnsweredOnce
    <3>2. QED BY <1>1, <1>2, <1>3, <3>1
  <2>2. QED BY <2>1
<1>7. AnsweredOnce'
  BY <1>2, <1>6 DEF AnsweredOnce
<1>8. VerdictStands' /\ EffectiveIsNewest' /\ LatestExists'
  BY <1>2, <1>4 DEF StandingInv, VerdictStands, EffectiveIsNewest, LatestExists
<1>9. AcceptedStands'
  <2>1. ASSUME NEW a \in answers, a.state = "ACCEPTED", lastSeen'[a.player] = a.seq
        PROVE  Effective(a.player, a.turn) = a.seq
    <3>1. a.player \in Players /\ a.seq \in Nat
      BY <1>1, TypesOfParts
    <3>2. a.player # m.player
      <4>1. SUFFICES ASSUME a.player = m.player PROVE FALSE
        OBVIOUS
      <4>2. a.seq < m.seq /\ a.seq = m.seq
        BY <1>3, <1>6, <2>1, <4>1
      <4>3. QED BY <1>1, <3>1, <4>2
    <3>3. QED BY <1>3, <2>1, <3>1, <3>2 DEF StandingInv, AcceptedStands
  <2>2. QED BY <1>2, <1>4, <2>1 DEF AcceptedStands
<1>10. QED BY <1>5, <1>7, <1>8, <1>9 DEF Standing
(* A superseded row is still about the message it was.                       *)
SameMessage(x, y) ==
    x.player = y.player /\ x.turn = y.turn /\ x.seq = y.seq /\ x.revision = y.revision

(* The first write changes the revision of no row, and leaves no row of the  *)
(* player that counts or no row that changed at all.                        *)
LEMMA JudgeStands ==
    ASSUME StandingInv, NEW kind, NEW status, NEW superseding \in SUBSET Previous,
           Judge(kind, status, superseding),
           \/ kind = "submit" /\ status \in {"ACCEPTED", "REJECTED"}
           \/ /\ kind = "cancel" /\ status = "SUPERSEDED"
              /\ superseding = {r \in Previous : r.status = "ACCEPTED"}
    PROVE  Standing'
<1>1. /\ BallotInv
      /\ job' = job /\ verdict' = status /\ pc = "handle" /\ pc' = "insert"
      /\ lastSeen' = lastSeen /\ match' = match /\ answers' = answers
  BY DEF Judge, StandingInv
<1>2. PICK q \in Players : q = job.player
  BY <1>1, TypesOfParts
<1>3. PICK t : t = match.turn
  OBVIOUS
<1>4. Previous = Latest(q, t) /\ Previous' = Latest(q, t)'
  BY <1>1, <1>2, <1>3 DEF Previous, Latest, Rows
<1>5. /\ \A p, u : p # q \/ u # t => Effective(p, u)' = Effective(p, u)
      /\ Effective(q, t)' \in {Effective(q, t), None}
      /\ status = "SUPERSEDED" => Effective(q, t)' = None
      /\ \A x \in book' : \E y \in book : SameMessage(x, y)
      /\ \A x \in Latest(q, t)' : \E y \in Latest(q, t) : x.revision = y.revision
      /\ \A p, u : Latest(p, u) # {} => Latest(p, u)' # {}
  <2>1. CASE superseding = {}
    <3>1. book' = book
      BY <2>1 DEF Judge
    <3>2. \A p, u : Effective(p, u)' = Effective(p, u)
      BY <3>1, EffectiveByRows DEF Rows
    <3>3. status = "SUPERSEDED" => Effective(q, t) = None
      BY <1>4, <2>1 DEF Effective
    <3>4. \A p, u : Latest(p, u)' = Latest(p, u)
      BY <3>1 DEF Latest, Rows
    <3>5. QED BY <3>1, <3>2, <3>3, <3>4 DEF SameMessage
  <2>2. CASE superseding # {}
    <3>1. PICK r \in Previous : book' = Superseded(r)
      BY <2>2 DEF Judge
    <3>2. /\ Effective(q, t)' = None
          /\ \A p : p # q => Effective(p, t)' = Effective(p, t)
      BY <1>1, <1>2, <1>3, <3>1, SupersedingEmpties
    <3> DEFINE s == [r EXCEPT !.status = "SUPERSEDED"]
    <3>3. /\ r \in book /\ r \in Latest(q, t) /\ r \in OrderRow
          /\ r.turn = t /\ r.player = q
      BY <1>1, <1>3, <1>4 DEF Latest, Rows, BallotInv, FrozenInv, TypeOK
    <3>4. SameMessage(s, r)
      BY <3>3 DEF OrderRow, SameMessage
    <3>5. book' = (book \ {r}) \cup {s}
      BY <3>1 DEF Superseded
    <3> HIDE DEF s
    <3>6. ASSUME NEW p, NEW u, p # q \/ u # t
          PROVE  Effective(p, u)' = Effective(p, u) /\ Latest(p, u)' = Latest(p, u)
      <4>1. Rows(p, u)' = Rows(p, u)
        BY <3>3, <3>4, <3>5, <3>6 DEF Rows, SameMessage
      <4>2. QED BY <4>1, EffectiveByRows DEF Latest
    <3>7. \A x \in book' : \E y \in book : SameMessage(x, y)
      BY <3>3, <3>4, <3>5 DEF SameMessage
    <3>8. ASSUME NEW x \in Latest(q, t)' PROVE x.revision = r.revision
      <4>1. PICK y \in book : SameMessage(x, y)
        BY <3>7, <3>8 DEF Latest, Rows
      <4>2. y.player = q /\ y.turn = t /\ s.revision <= x.revision
        BY <3>3, <3>4, <3>5, <3>8, <4>1 DEF Latest, Rows, SameMessage
      <4>3. y.revision <= r.revision /\ y.revision \in Nat /\ r.revision \in Nat
        BY <1>1, <3>3, <4>2, TypesOfParts DEF Latest, Rows
      <4>4. QED BY <3>4, <4>1, <4>2, <4>3 DEF SameMessage
    <3>9. s \in Latest(q, t)'
      <4>1. ASSUME NEW x \in Rows(q, t)' PROVE x.revision <= s.revision
        <5>1. PICK y \in Rows(q, t) : SameMessage(x, y)
          BY <3>7 DEF Rows, SameMessage
        <5>2. QED BY <3>3, <3>4, <5>1 DEF Latest, SameMessage
      <4>2. s \in Rows(q, t)'
        BY <3>3, <3>4, <3>5 DEF Rows, SameMessage
      <4>3. QED BY <4>1, <4>2 DEF Latest
    <3>10. QED BY <3>2, <3>3, <3>6, <3>7, <3>8, <3>9
  <2>3. QED BY <2>1, <2>2
<1>6. RowsHeard'
  BY <1>1, <1>5 DEF StandingInv, RowsHeard, SameMessage
<1>7. AnsweredOnce'
  BY <1>1 DEF StandingInv, AnsweredOnce
<1>8. VerdictStands'
  <2>1. ASSUME status = "SUPERSEDED" PROVE Effective(job.player, match.turn)' = None
    BY <1>1, <1>2, <1>3, <1>5, <2>1
  <2>2. ASSUME status # "SUPERSEDED", NEW x \in Previous' PROVE job.revision > x.revision
    <3>1. PICK y \in Latest(q, t) : x.revision = y.revision
      BY <1>4, <1>5, <2>2
    <3>2. \A r \in Latest(q, t) : job.revision > r.revision
      BY <1>4, <2>2 DEF Judge, Admissible
    <3>3. QED BY <3>1, <3>2
  <2>3. QED BY <1>1, <2>1, <2>2 DEF VerdictStands
<1>9. EffectiveIsNewest'
  <2>1. ASSUME NEW x \in book', NEW e, e = Effective(x.player, x.turn)', e # None
        PROVE  x.seq <= e
    <3>1. PICK y \in book : SameMessage(x, y)
      BY <1>5
    <3>2. e = Effective(y.player, y.turn)
      BY <1>5, <2>1, <3>1 DEF SameMessage
    <3>3. QED BY <2>1, <3>1, <3>2 DEF StandingInv, EffectiveIsNewest, SameMessage
  <2>2. QED BY <2>1 DEF EffectiveIsNewest
<1>10. AcceptedStands'
  <2>1. ASSUME NEW a \in answers, a.state = "ACCEPTED", lastSeen[a.player] = a.seq
        PROVE  Effective(a.player, a.turn)' = a.seq
    <3>1. a.player # q
      BY <1>1, <1>2, <2>1, TypesOfParts
         DEF StandingInv, BallotInv, JobIsNewest, AnsweredOnce
    <3>2. Effective(a.player, a.turn)' = Effective(a.player, a.turn)
      BY <1>5, <3>1
    <3>3. QED BY <2>1, <3>2 DEF StandingInv, AcceptedStands
  <2>2. QED BY <1>1, <2>1 DEF AcceptedStands
<1>11. LatestExists'
  BY <1>5 DEF StandingInv, LatestExists, SameMessage
<1>12. QED BY <1>6, <1>7, <1>8, <1>9, <1>10, <1>11 DEF Standing

(* The second write: the row that counts afterwards, if any, is its own.     *)
LEMMA InsertStands ==
    ASSUME StandingInv, Insert PROVE Standing'
<1>1. /\ BallotInv /\ pc = "insert" /\ pc' = "poll"
      /\ lastSeen' = lastSeen /\ match' = match
  BY DEF Insert, Goto, StandingInv
<1>2. PICK q \in Players : q = job.player
  BY <1>1, TypesOfParts
<1>3. PICK t : t = match.turn
  OBVIOUS
<1>4. PICK n \in Nat : n = job.seq /\ n = lastSeen[q]
  BY <1>1, <1>2, TypesOfParts DEF BallotInv, JobIsNewest
<1>5. PICK row : row = [player |-> q, turn |-> t, revision |-> job.revision,
                        seq |-> n, status |-> verdict]
  OBVIOUS
<1>6. row.player = q /\ row.turn = t /\ row.seq = n /\ row.status = verdict
      /\ row.revision = job.revision
  BY <1>5
<1>7. /\ book' = book \cup {row}
      /\ (\A x \in Rows(q, t) : x.revision < row.revision) => Latest(q, t)' = {row}
      /\ ~(\A x \in Rows(q, t) : x.revision < row.revision)
            => Latest(q, t)' = Latest(q, t)
      /\ row.revision \in Nat
  BY <1>1, <1>2, <1>3, <1>4, <1>5, InsertedRow
<1>8. ASSUME NEW p, NEW u, p # q \/ u # t
      PROVE  Effective(p, u)' = Effective(p, u) /\ Latest(p, u)' = Latest(p, u)
  <2>1. Rows(p, u)' = Rows(p, u)
    BY <1>6, <1>7, <1>8 DEF Rows
  <2>2. QED BY <2>1, EffectiveByRows DEF Latest
<1>9. Effective(q, t)' = IF verdict = "ACCEPTED" THEN n ELSE None
  <2>1. CASE Latest(q, t)' = {row}
    BY <1>6, <2>1, EffectiveOfOne
  <2>2. CASE verdict = "SUPERSEDED" /\ Latest(q, t)' = Latest(q, t)
    <3>1. Effective(q, t) = None
      BY <1>1, <1>2, <1>3, <2>2 DEF StandingInv, VerdictStands
    <3>2. QED BY <2>2, <3>1, EffectiveByLatest
  <2>3. CASE verdict # "SUPERSEDED"
    <3>1. \A r \in Latest(q, t) : job.revision > r.revision
      BY <1>1, <1>2, <1>3, <2>3 DEF StandingInv, VerdictStands, Previous
    <3>2. ASSUME NEW x \in Rows(q, t) PROVE x.revision < row.revision
      <4>1. x \in book /\ x.player = q /\ x.turn = t
        BY DEF Rows
      <4>2. PICK r \in Latest(q, t) : TRUE
        BY <4>1 DEF StandingInv, LatestExists
      <4>3. x.revision <= r.revision /\ r \in book
        BY DEF Latest, Rows
      <4>4. QED BY <1>1, <1>6, <1>7, <3>1, <4>1, <4>2, <4>3, TypesOfParts
    <3>3. QED BY <1>7, <2>1, <3>2
  <2>4. QED BY <1>7, <2>1, <2>2, <2>3
<1>10. RowsHeard' /\ VerdictStands'
  BY <1>1, <1>4, <1>6, <1>7 DEF StandingInv, RowsHeard, VerdictStands
<1>11. LatestExists'
  <2>1. ASSUME NEW r \in book' PROVE Latest(r.player, r.turn)' # {}
    <3>1. CASE r.player = q /\ r.turn = t
      BY <1>7, <3>1 DEF StandingInv, LatestExists, Rows
    <3>2. CASE ~(r.player = q /\ r.turn = t)
      BY <1>6, <1>7, <1>8, <3>2 DEF StandingInv, LatestExists
    <3>3. QED BY <3>1, <3>2
  <2>2. QED BY <2>1 DEF LatestExists
<1>12. EffectiveIsNewest'
  <2>1. ASSUME NEW r \in book', NEW e, e = Effective(r.player, r.turn)', e # None
        PROVE  r.seq <= e
    <3>1. CASE r.player = q /\ r.turn = t
      BY <1>1, <1>4, <1>9, <1>10, <2>1, <3>1 DEF RowsHeard
    <3>2. CASE ~(r.player = q /\ r.turn = t)
      BY <1>6, <1>7, <1>8, <2>1, <3>2 DEF StandingInv, EffectiveIsNewest
    <3>3. QED BY <3>1, <3>2
  <2>2. QED BY <2>1 DEF EffectiveIsNewest
<1>13. PICK b : /\ answers' = answers \cup {b}
                /\ b.player = q /\ b.turn = t /\ b.seq = n /\ b.state = verdict
  <2> DEFINE b == [player |-> job.player, turn |-> match.turn, seq |-> job.seq,
                   state |-> verdict]
  <2>1. answers' = answers \cup {b}
    BY DEF Insert, Answered
  <2>2. b.player = q /\ b.turn = t /\ b.seq = n /\ b.state = verdict
    BY <1>2, <1>3, <1>4
  <2> HIDE DEF b
  <2>3. QED BY <2>1, <2>2
<1>14. AnsweredOnce'
  BY <1>1, <1>4, <1>13 DEF StandingInv, AnsweredOnce
<1>15. AcceptedStands'
  <2>1. ASSUME NEW a \in answers, a.state = "ACCEPTED", lastSeen[a.player] = a.seq
        PROVE  Effective(a.player, a.turn)' = a.seq
    <3>1. a.player # q
      BY <1>1, <1>2, <1>4, <2>1 DEF StandingInv, AnsweredOnce
    <3>2. QED BY <1>8, <2>1, <3>1 DEF StandingInv, AcceptedStands
  <2>2. b.state = "ACCEPTED" => Effective(b.player, b.turn)' = b.seq
    BY <1>9, <1>13
  <2>3. QED BY <1>1, <1>13, <2>1, <2>2 DEF AcceptedStands
<1>16. QED BY <1>10, <1>11, <1>12, <1>14, <1>15 DEF Standing
(* Nothing else writes a row, hears a message or accepts one.                *)
LEMMA OthersStand ==
    ASSUME StandingInv,
           \/ \E p \in Players, kind \in {"submit", "cancel"}, revision \in Revisions :
                 Compose(p, kind, revision)
           \/ \E m \in network : Drop(m)
           \/ TurnAway \/ InsertRaises \/ Advance \/ End \/ Crash \/ Restart
           \/ UNCHANGED vars
    PROVE  Standing'
<1> USE DEF store, process
<1>1. book' = book /\ lastSeen' = lastSeen
  BY DEF Compose, Drop, TurnAway, InsertRaises, Advance, End, Crash, Restart, vars
<1>2. \/ pc' = pc /\ job' = job /\ verdict' = verdict /\ match'.turn = match.turn
      \/ pc' \in {"poll", "down"}
  BY DEF Compose, Drop, TurnAway, InsertRaises, Advance, End, Crash, Restart, Goto, vars
<1>3. \/ answers' = answers
      \/ pc = "handle" /\ pc' = "poll" /\ Answered("REJECTED")
  BY DEF Compose, Drop, TurnAway, InsertRaises, Advance, End, Crash, Restart, Goto, vars
<1>4. QED BY <1>1, <1>2, <1>3, StandingKept

LEMMA StandingStep ==
    ASSUME StandingInv, [Next]_vars PROVE Standing'
<1>1. Previous \in SUBSET Previous /\ {} \in SUBSET Previous
      /\ {r \in Previous : r.status = "ACCEPTED"} \in SUBSET Previous
  OBVIOUS
<1>2. CASE JudgeSubmit
  BY <1>1, <1>2, JudgeStands DEF JudgeSubmit
<1>3. CASE JudgeCancel
  BY <1>1, <1>3, JudgeStands DEF JudgeCancel
<1>4. CASE \E m \in network : Receive(m)
  BY <1>4, HeardStands
<1>5. CASE /\ ~JudgeSubmit /\ ~JudgeCancel /\ ~Insert
           /\ ~\E m \in network : Receive(m)
  BY <1>5, OthersStand DEF Next, Handle
<1>6. QED BY <1>2, <1>3, <1>4, <1>5, InsertStands

LEMMA StandingInit ==
    ASSUME Init PROVE StandingInv
<1>1. BallotInv
  BY BallotInit
<1>2. QED BY <1>1 DEF Init, StandingInv, RowsHeard, AnsweredOnce, LatestExists,
                      VerdictStands, EffectiveIsNewest, AcceptedStands

LEMMA StandingInvariant == Spec => []StandingInv
<1>1. StandingInv /\ BallotInv' /\ [Next]_vars => StandingInv'
  BY StandingStep DEF StandingInv, Standing
<1>2. QED BY <1>1, StandingInit, BallotInvariant, PTL DEF Spec

(* Whatever the network repeats and reorders, and wherever a handler is cut  *)
(* short, what counts of a player is at least as new as every row of theirs  *)
(* (the replay guard, and the revision check of handle_order_submit).        *)
THEOREM TheNewestWins == Spec => []NewestWins
<1>1. ASSUME StandingInv PROVE NewestWins
  <2>1. ASSUME NEW p \in Players, NEW t \in 1..LastTurn, Effective(p, t) # None,
               NEW r \in Rows(p, t)
        PROVE  r.seq <= Effective(p, t)
    <3>1. r \in book /\ r.player = p /\ r.turn = t
      BY DEF Rows
    <3>2. QED BY <1>1, <2>1, <3>1 DEF StandingInv, EffectiveIsNewest
  <2>2. QED BY <2>1 DEF NewestWins
<1>2. QED BY <1>1, StandingInvariant, PTL

(* A receipt that says ACCEPTED is true of the table, and of what the turn   *)
(* is adjudicated with, until the coordinator hears of the player again:     *)
(* neither a crash nor the end of a turn nor another player undoes it.       *)
THEOREM AcceptedMeansEffective == Spec => []AcceptedStands
<1>1. StandingInv => AcceptedStands
  BY DEF StandingInv
<1>2. QED BY <1>1, StandingInvariant, PTL
=============================================================================
