----------------------------- MODULE DrawProofs -----------------------------
(***************************************************************************)
(* A draw that ended the match stays justified by the votes on record, and   *)
(* no agreed draw is left standing, for any players, strangers and rules,   *)
(* and any number of turns and crashes.                                     *)
(***************************************************************************)
EXTENDS Draws, PhaseProofs, FiniteSetTheorems

ConsentInv == TypeOK /\ ConsentOnRecord

(* What is accepted depends on the votes and the rule only.                  *)
LEMMA AcceptedByVotes ==
    ASSUME NEW t, votes' = votes, rule' = rule PROVE Accepted(t)' = Accepted(t)
BY DEF Accepted, InFavour

(* A match that nobody votes on, and that is not ended, keeps its consent.   *)
LEMMA VotesKept ==
    ASSUME ConsentInv, TypeOK', votes' = votes, rule' = rule, drawn' = drawn,
           match.status = "COMPLETED" => match'.status = "COMPLETED"
    PROVE  ConsentInv'
BY AcceptedByVotes DEF ConsentInv, ConsentOnRecord

LEMMA ConsentInit ==
    ASSUME Init PROVE ConsentInv
<1>1. NewMatch \in MatchState /\ StartMatch(NewMatch) \in MatchState
  BY DEF NewMatch, StartMatch, MatchState, Statuses, PhaseNames
<1>2. match \in MatchState
  BY <1>1, AdvancePhaseMoves DEF Init
<1>3. votes \in [Turns -> [Senders -> BOOLEAN \cup {None}]]
  BY DEF Init
<1>4. QED BY <1>2, <1>3 DEF Init, ConsentInv, TypeOK, ConsentOnRecord

LEMMA ConsentStep ==
    ASSUME ConsentInv, [Next]_vars PROVE ConsentInv'
<1>1. TypeOK /\ match \in MatchState
  BY DEF ConsentInv, TypeOK
<1>2. ASSUME NEW s \in Senders, NEW t \in Turns, NEW v \in BOOLEAN, Record(s, t, v)
      PROVE  ConsentInv'
  <2>1. votes' \in [Turns -> [Senders -> BOOLEAN \cup {None}]]
    <3>1. [votes[t] EXCEPT ![s] = v] \in [Senders -> BOOLEAN \cup {None}]
      BY <1>1 DEF TypeOK
    <3>2. [votes EXCEPT ![t][s] = v] \in [Turns -> [Senders -> BOOLEAN \cup {None}]]
      BY <1>1, <3>1 DEF TypeOK
    <3>3. QED BY <1>1, <1>2, <3>2 DEF Record, TypeOK
  <2>2. TypeOK'
    BY <1>1, <1>2, <2>1 DEF Record, TypeOK
  <2>3. CASE match.status = "ACTIVE"
    <3>1. drawn = None
      BY <2>3 DEF ConsentInv, ConsentOnRecord
    <3>2. QED BY <1>2, <2>2, <3>1 DEF Record, ConsentInv, ConsentOnRecord
  <2>4. CASE match.status # "ACTIVE"
    BY <1>2, <2>2, <2>4, VotesKept DEF Record
  <2>5. QED BY <2>3, <2>4
<1>3. CASE StandAside \/ DrawRaises \/ Crash \/ Restart
  <2>1. TypeOK'
    BY <1>1, <1>3 DEF StandAside, DrawRaises, Crash, Restart, Goto, TypeOK
  <2>2. QED BY <1>3, <2>1, VotesKept DEF StandAside, DrawRaises, Crash, Restart
<1>4. CASE EndByDraw
  <2>1. match' \in MatchState /\ match'.status = "COMPLETED"
    BY <1>1, <1>4 DEF EndByDraw, EndMatch, MatchState, Statuses
  <2>2. TypeOK'
    BY <1>1, <1>4, <2>1 DEF EndByDraw, Goto, TypeOK
  <2>3. PICK t : t = about
    OBVIOUS
  <2>4. Accepted(t) /\ drawn' = t /\ votes' = votes /\ rule' = rule
    BY <1>4, <2>3 DEF EndByDraw
  <2>5. Accepted(t)' = Accepted(t)
    BY <2>4, AcceptedByVotes
  <2>6. Accepted(drawn)'
    BY <2>4, <2>5 DEF Accepted, InFavour
  <2>7. QED BY <2>1, <2>2, <2>6 DEF ConsentInv, ConsentOnRecord
<1>5. CASE Advance
  <2>1. PICK dislodged, adjust \in BOOLEAN : match' = Landing(match, dislodged, adjust)
    BY <1>5 DEF Advance
  <2>2. match' \in MatchState /\ match'.status = match.status
    BY <1>1, <2>1, LandingKeepsStatus
  <2>3. TypeOK'
    BY <1>1, <1>5, <2>2 DEF Advance, TypeOK
  <2>4. QED BY <1>5, <2>2, <2>3, VotesKept DEF Advance
<1>6. CASE EndByOperator
  <2>1. match' \in MatchState /\ match'.status = "COMPLETED"
    BY <1>1, <1>6 DEF EndByOperator, EndMatch, MatchState, Statuses
  <2>2. TypeOK'
    BY <1>1, <1>6, <2>1 DEF EndByOperator, TypeOK
  <2>3. QED BY <1>6, <2>1, <2>2, VotesKept DEF EndByOperator
<1>7. CASE UNCHANGED vars
  <2>1. TypeOK'
    BY <1>1, <1>7 DEF vars, TypeOK
  <2>2. QED BY <1>7, <2>1, VotesKept DEF vars
<1>8. QED BY <1>2, <1>3, <1>4, <1>5, <1>6, <1>7 DEF Next

(* The tables of votes and of the match keep to their types.                *)
THEOREM TypesKept == Spec => []TypeOK
<1>1. ConsentInv => TypeOK
  BY DEF ConsentInv
<1>2. QED BY <1>1, ConsentInit, ConsentStep, PTL DEF Spec

(* A match that ended by a draw stays justified: handle_draw_vote records    *)
(* nothing any more, so the votes that accepted the draw are kept.          *)
THEOREM ConsentIsKept == Spec => []ConsentOnRecord
<1>1. ConsentInv => ConsentOnRecord
  BY DEF ConsentInv
<1>2. QED BY <1>1, ConsentInit, ConsentStep, PTL DEF Spec
-----------------------------------------------------------------------------
(* No agreed draw is left standing.  While no crash has come between a vote  *)
(* and its evaluation, the votes of every turn but the one being evaluated  *)
(* have been evaluated since they last changed; and as long as the match    *)
(* goes on, what was evaluated was not accepted.                            *)
NothingAgreed ==
    crashes = 0 /\ match.status = "ACTIVE"
        => /\ pc # "down"
           /\ \A t \in Turns : Accepted(t) => pc = "evaluate" /\ t = about

StandingInv == TypeOK /\ NothingAgreed

(* No rule accepts a draw that nobody has voted for.                         *)
LEMMA NobodyIsNoMajority ==
    ASSUME NEW t, InFavour(t) = {} PROVE ~Accepted(t)
<1>1. Cardinality({}) = 0
  BY FS_EmptySet
<1>2. Cardinality(Players) \in Nat
  BY PlayersAssumption, FS_CardinalityType
<1>3. QED BY <1>1, <1>2, PlayersAssumption DEF Accepted

(* The votes on one turn say nothing of another.                             *)
LEMMA OtherTurnsKept ==
    ASSUME NEW t, votes'[t] = votes[t], rule' = rule PROVE Accepted(t)' <=> Accepted(t)
<1>1. InFavour(t)' = InFavour(t)
  BY DEF InFavour
<1>2. QED BY <1>1 DEF Accepted

(* A step of a process that records no vote and ends no match.               *)
LEMMA AgreementsKept ==
    ASSUME NothingAgreed, TypeOK, TypeOK', votes' = votes, rule' = rule,
           crashes' = crashes, pc' = pc, about' = about,
           match'.status = "ACTIVE" => match.status = "ACTIVE"
    PROVE  NothingAgreed'
<1>1. \A t \in Turns : Accepted(t)' <=> Accepted(t)
  BY OtherTurnsKept
<1>2. QED BY <1>1 DEF NothingAgreed

LEMMA StandingInit ==
    ASSUME Init PROVE StandingInv
<1>1. \A t \in Turns : InFavour(t) = {}
  BY NoneAssumption DEF Init, InFavour, Senders
<1>2. \A t \in Turns : ~Accepted(t)
  BY <1>1, NobodyIsNoMajority
<1>3. QED BY <1>2, ConsentInit DEF Init, StandingInv, NothingAgreed, ConsentInv

LEMMA StandingStep ==
    ASSUME StandingInv, TypeOK', [Next]_vars PROVE StandingInv'
<1>. SUFFICES NothingAgreed'
  BY DEF StandingInv
<1>1. TypeOK /\ NothingAgreed
  BY DEF StandingInv
<1>2. ASSUME NEW s \in Senders, NEW t \in Turns, NEW v \in BOOLEAN, Record(s, t, v)
      PROVE  NothingAgreed'
  <2>1. \A u \in Turns : u # t => votes'[u] = votes[u]
    BY <1>1, <1>2 DEF Record, TypeOK
  <2>2. \A u \in Turns : u # t => (Accepted(u)' <=> Accepted(u))
    BY <1>2, <2>1, OtherTurnsKept DEF Record
  <2>3. QED BY <1>1, <1>2, <2>2 DEF NothingAgreed, Record
<1>3. CASE StandAside
  <2>1. \A t \in Turns : Accepted(t)' <=> Accepted(t)
    BY <1>3, OtherTurnsKept DEF StandAside
  <2>2. \A t \in Turns : t = about => ~Accepted(t)
    BY <1>3 DEF StandAside
  <2>3. QED BY <1>1, <1>3, <2>1, <2>2 DEF NothingAgreed, StandAside, Goto
<1>4. CASE EndByDraw \/ EndByOperator
  BY <1>4 DEF EndByDraw, EndByOperator, EndMatch, NothingAgreed, TypeOK, MatchState
<1>5. CASE DrawRaises
  BY <1>5 DEF DrawRaises, CanEnd, NothingAgreed
<1>6. CASE Advance
  <2>1. PICK dislodged, adjust \in BOOLEAN : match' = Landing(match, dislodged, adjust)
    BY <1>6 DEF Advance
  <2>2. match'.status = match.status
    BY <1>1, <2>1, LandingKeepsStatus DEF TypeOK
  <2>3. QED BY <1>1, <1>6, <2>2, AgreementsKept DEF Advance
<1>7. CASE Crash
  BY <1>1, <1>7 DEF Crash, NothingAgreed, TypeOK
<1>8. CASE Restart
  <2>1. ~(crashes = 0 /\ match.status = "ACTIVE")
    BY <1>1, <1>8 DEF Restart, NothingAgreed
  <2>2. QED BY <1>8, <2>1 DEF Restart, NothingAgreed
<1>9. CASE UNCHANGED vars
  BY <1>1, <1>9, AgreementsKept DEF vars
<1>10. QED
  BY <1>2, <1>3, <1>4, <1>5, <1>6, <1>7, <1>8, <1>9 DEF Next

(* handle_draw_vote evaluates the votes of a turn in the call that records   *)
(* one of them, and ends the match when they agree: as long as no crash cuts *)
(* it short, a match is not played on against the players' agreement.       *)
THEOREM NoAgreementIgnored == Spec => []NoDrawLeftStanding
<1>1. StandingInv => NoDrawLeftStanding
  BY DEF StandingInv, NothingAgreed, NoDrawLeftStanding
<1>2. QED BY <1>1, StandingInit, StandingStep, TypesKept, PTL DEF Spec
=============================================================================
