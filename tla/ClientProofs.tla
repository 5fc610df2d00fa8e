---------------------------- MODULE ClientProofs ----------------------------
(***************************************************************************)
(* What the logs of the players show, for any players, processes, links and  *)
(* number of lines, from a hash that does not collide on the links sent.     *)
(***************************************************************************)
EXTENDS Client, TLAPS, FiniteSetTheorems, WellFoundedInduction, SequenceTheorems

(* Any set of naturals that is not empty has a least element.                *)
LEMMA LeastOf ==
    ASSUME NEW T, T \subseteq Nat, T # {}
    PROVE  \E m \in T : \A n \in T : m <= n
<1> DEFINE R == OpToRel(<, Nat)
<1>1. IsWellFoundedOn(R, Nat)
  BY NatLessThanWellFounded
<1>2. \A x, y \in Nat : x < y => <<x, y>> \in R
  BY DEF OpToRel
<1> HIDE DEF R
<1>3. PICK m \in T : \A n \in T : ~(<<n, m>> \in R)
  BY <1>1, WFMin
<1>4. ASSUME NEW n \in T PROVE ~(n < m)
  <2>1. n \in Nat /\ m \in Nat
    OBVIOUS
  <2>2. n < m => <<n, m>> \in R
    BY <1>2, <2>1
  <2>3. QED BY <1>3, <2>2
<1>5. \A n \in T : m <= n
  BY <1>4
<1>6. QED BY <1>5

(* A hash that passes commits to all of its link.                            *)
LEMMA SameHashSameLink ==
    ASSUME NEW k \in Links \cup Starts, NEW l \in Links \cup Starts,
           Sound(k), Sound(l), k.hash = l.hash
    PROVE  k = l
<1>1. k \in Link /\ l \in Link
  BY LinksAssumption
<1>2. Hash(k.state, k.prev) = Hash(l.state, l.prev)
  BY DEF Sound, Matches
<1>3. k.state = l.state /\ k.prev = l.prev
  BY <1>2, HashAssumption
<1>4. QED BY <1>1, <1>3 DEF Link, Sound

LEMMA LogLinks ==
    ASSUME NEW A \in Seq(Links), NEW i \in DOMAIN A
    PROVE  /\ i \in Nat /\ i >= 1 /\ A[i] \in Links /\ A[i].hash \in Hashes
           /\ \A j \in Nat : j >= 1 /\ j <= i => j \in DOMAIN A
           /\ A[i].hash # None
BY LinksAssumption DEF Link

(* In a log that passes, a line names the hash of the line before.           *)
LEMMA LinkedBack ==
    ASSUME NEW a, NEW A \in Seq(Links), Flawless(a, A), NEW i \in DOMAIN A, i > 1
    PROVE  i - 1 \in DOMAIN A /\ A[i].prev = A[i - 1].hash
<1>1. i - 1 \in DOMAIN A /\ A[i - 1].hash # None
  BY LogLinks
<1>2. Previous(a, A, i) = A[i - 1].hash
  BY DEF Previous
<1>3. QED BY <1>1, <1>2 DEF Flawless, Chained

(* From a hash two logs have in common, they are the same backwards: at the  *)
(* nearest place where they were not, the hashes named by the lines after    *)
(* it, which are the same, would differ.                                    *)
LEMMA CommonPast ==
    ASSUME NEW a, NEW b, NEW A \in Seq(Links), NEW B \in Seq(Links),
           Flawless(a, A), Flawless(b, B),
           NEW i \in DOMAIN A, NEW j \in DOMAIN B, A[i].hash = B[j].hash
    PROVE  \A k \in 0..(i - 1) : k < j => A[i - k] = B[j - k]
<1> DEFINE T == {k \in Nat : k < i /\ k < j /\ A[i - k] # B[j - k]}
<1>1. i \in Nat /\ j \in Nat
  BY LogLinks
<1>2. ASSUME NEW k \in Nat, k < i, k < j, A[i - k].hash = B[j - k].hash
      PROVE  A[i - k] = B[j - k]
  <2>1. i - k \in Nat /\ i - k >= 1 /\ i - k <= i /\ j - k \in Nat /\ j - k >= 1 /\ j - k <= j
    BY <1>1, <1>2
  <2>2. i - k \in DOMAIN A /\ j - k \in DOMAIN B
    BY <2>1, LogLinks
  <2>3. A[i - k] \in Links /\ B[j - k] \in Links
    BY <2>2, LogLinks
  <2>4. Sound(A[i - k]) /\ Sound(B[j - k])
    BY <2>2 DEF Flawless
  <2>5. QED BY <1>2, <2>3, <2>4, SameHashSameLink
<1>3. SUFFICES ASSUME T # {} PROVE FALSE
  <2>1. SUFFICES T = {}
    OBVIOUS
  <2>2. ASSUME NEW k \in 0..(i - 1), k < j PROVE A[i - k] = B[j - k]
    <3>1. k \in Nat /\ k < i
      BY <1>1
    <3>2. QED BY <2>1, <2>2, <3>1
  <2>3. QED BY <2>2
<1>4. PICK m \in T : \A n \in T : m <= n
  BY <1>3, LeastOf
<1>5. m \in Nat /\ m < i /\ m < j /\ A[i - m] # B[j - m]
  OBVIOUS
<1>6. CASE m = 0
  BY <1>1, <1>2, <1>5, <1>6
<1>7. CASE m > 0
  <2>1. PICK n \in Nat : n = m - 1
    BY <1>5, <1>7
  <2>2. n \notin T /\ n < i /\ n < j
    BY <1>1, <1>4, <1>5, <2>1
  <2>3. A[i - n] = B[j - n]
    BY <2>2 DEF T
  <2>4. i - n \in DOMAIN A /\ j - n \in DOMAIN B /\ i - n > 1 /\ j - n > 1
    <3>1. i - n \in Nat /\ i - n > 1 /\ i - n <= i /\ j - n \in Nat /\ j - n > 1 /\ j - n <= j
      BY <1>1, <1>5, <2>1
    <3>2. QED BY <3>1, LogLinks
  <2>5. /\ A[i - n].prev = A[(i - n) - 1].hash
        /\ B[j - n].prev = B[(j - n) - 1].hash
    BY <2>4, LinkedBack
  <2>6. (i - n) - 1 = i - m /\ (j - n) - 1 = j - m
    BY <1>1, <1>5, <2>1
  <2>7. A[i - m].hash = B[j - m].hash
    BY <2>3, <2>5, <2>6
  <2>8. QED BY <1>2, <1>5, <2>7
<1>8. QED BY <1>5, <1>6, <1>7

(* Where two logs from one anchor first differ, the coordinator has signed   *)
(* two links for the same place.                                            *)
LEMMA FirstDifference ==
    ASSUME NEW a \in Starts, NEW A \in Seq(Links), NEW B \in Seq(Links),
           Flawless(a, A), Flawless(a, B),
           \E i \in DOMAIN A \cap DOMAIN B : A[i] # B[i]
    PROVE  \E k \in Range(A), l \in Range(B) :
              k.signed /\ l.signed /\ k.prev = l.prev /\ k.hash # l.hash
<1> DEFINE T == {i \in DOMAIN A \cap DOMAIN B : A[i] # B[i]}
<1>1. T \subseteq Nat /\ T # {}
  BY LogLinks
<1>2. PICK m \in T : \A n \in T : m <= n
  BY <1>1, LeastOf
<1>3. m \in DOMAIN A /\ m \in DOMAIN B /\ A[m] # B[m] /\ m \in Nat /\ m >= 1
  BY LogLinks
<1>4. a # None /\ a.hash # None
  BY LinksAssumption DEF Link
<1>5. A[m].prev = B[m].prev
  <2>1. CASE m = 1
    <3>1. Previous(a, A, m) = a.hash /\ Previous(a, B, m) = a.hash
      BY <1>4, <2>1 DEF Previous
    <3>2. QED BY <1>3, <1>4, <3>1 DEF Flawless, Chained
  <2>2. CASE m > 1
    <3>1. m - 1 \in DOMAIN A /\ A[m].prev = A[m - 1].hash
      BY <1>3, <2>2, LinkedBack
    <3>2. m - 1 \in DOMAIN B /\ B[m].prev = B[m - 1].hash
      BY <1>3, <2>2, LinkedBack
    <3>3. m - 1 \notin T
      BY <1>2, <1>3
    <3>4. A[m - 1] = B[m - 1]
      BY <3>1, <3>2, <3>3
    <3>5. QED BY <3>1, <3>2, <3>4
  <2>3. QED BY <1>3, <2>1, <2>2
<1>6. A[m] \in Links /\ B[m] \in Links /\ Sound(A[m]) /\ Sound(B[m])
  BY <1>3, LogLinks DEF Flawless
<1>7. A[m].hash # B[m].hash
  BY <1>3, <1>6, SameHashSameLink
<1>8. A[m] \in Range(A) /\ B[m] \in Range(B)
  BY <1>3 DEF Range
<1>9. QED BY <1>5, <1>6, <1>7, <1>8 DEF Sound
-----------------------------------------------------------------------------
(* Types.                                                                   *)

LEMMA TypeInit ==
    ASSUME Init PROVE TypeOK
BY DEF Init, TypeOK, Anchors, Points, Kinds

LEMMA GotoTypes ==
    ASSUME TypeOK, NEW c \in Processes, NEW point \in Points, Goto(c, point)
    PROVE  /\ at' \in [Processes -> Points] /\ kind' \in [Processes -> Kinds]
           /\ file' \in [Processes -> Anchors] /\ seen' \in [Processes -> SUBSET Hashes]
           /\ start' \in [Processes -> Anchors]
           /\ \A d \in Processes : d # c => at'[d] = at[d] /\ seen'[d] = seen[d]
           /\ at'[c] = point
<1>1. CASE point = "off"
  BY <1>1 DEF Goto, TypeOK, Kinds, Anchors
<1>2. CASE point # "off"
  BY <1>2 DEF Goto, TypeOK
<1>3. QED BY <1>1, <1>2

LEMMA SaveTypes ==
    ASSUME TypeOK, NEW c \in Processes, Save(c)
    PROVE  session' \in [Players -> Anchors] /\ log' = log
BY ProcessesAssumption DEF Save, TypeOK

(* The steps that end or continue a command keep the logs, and no process    *)
(* starts to poll by them.                                                  *)
Continuing(c) ==
    \/ EndPolling(c) \/ EndWait(c) \/ KeepReceipt(c) \/ Anchor(c) \/ Quit(c)

LEMMA ContinuingTypes ==
    ASSUME TypeOK, NEW c \in Processes, Continuing(c)
    PROVE  /\ TypeOK' /\ log' = log
           /\ at'[c] # "polling"
           /\ \A d \in Processes : d # c => at'[d] = at[d] /\ seen'[d] = seen[d]
<1>1. ASSUME NEW point \in Points \ {"polling"}, Goto(c, point),
             Save(c) \/ UNCHANGED files
      PROVE  /\ TypeOK' /\ log' = log
             /\ at'[c] # "polling"
             /\ \A d \in Processes : d # c => at'[d] = at[d] /\ seen'[d] = seen[d]
  <2>1. session' \in [Players -> Anchors] /\ log' = log
    BY <1>1, SaveTypes DEF files, TypeOK
  <2>2. /\ at' \in [Processes -> Points] /\ kind' \in [Processes -> Kinds]
        /\ file' \in [Processes -> Anchors] /\ seen' \in [Processes -> SUBSET Hashes]
        /\ start' \in [Processes -> Anchors]
        /\ \A d \in Processes : d # c => at'[d] = at[d] /\ seen'[d] = seen[d]
        /\ at'[c] = point
    BY <1>1, GotoTypes
  <2>3. QED BY <1>1, <2>1, <2>2 DEF TypeOK
<1>2. CASE EndPolling(c)
  <2>1. PICK point \in {"off", "waiting", "anchoring", "checking"} : Goto(c, point)
    BY <1>2 DEF EndPolling
  <2>2. point \in Points \ {"polling"}
    BY DEF Points
  <2>3. QED BY <1>1, <1>2, <2>1, <2>2 DEF EndPolling
<1>3. CASE EndWait(c) \/ KeepReceipt(c) \/ Quit(c)
  <2>1. {"receipt", "off"} \subseteq Points \ {"polling"}
    BY DEF Points
  <2>2. QED BY <1>1, <1>3, <2>1 DEF EndWait, KeepReceipt, Quit
<1>4. CASE Anchor(c)
  BY <1>4, ProcessesAssumption DEF Anchor, TypeOK, Points
<1>5. QED BY <1>2, <1>3, <1>4 DEF Continuing

LEMMA HearTypes ==
    ASSUME TypeOK, NEW c \in Processes, NEW l \in Links, Hear(c, l)
    PROVE  TypeOK'
<1>1. l.hash \in Hashes
  BY LinksAssumption DEF Link
<1>2. log' \in [Players -> Seq(Links)]
  <2>1. Owner[c] \in Players /\ log[Owner[c]] \in Seq(Links)
    BY ProcessesAssumption DEF TypeOK
  <2>2. Append(log[Owner[c]], l) \in Seq(Links)
    BY <2>1, AppendProperties
  <2>3. QED BY <2>1, <2>2 DEF Hear, TypeOK
<1>3. seen' \in [Processes -> SUBSET Hashes]
  BY <1>1 DEF Hear, TypeOK
<1>4. QED BY <1>2, <1>3 DEF Hear, TypeOK

LEMMA OthersTypes ==
    ASSUME TypeOK, NEW c \in Processes,
           \/ \E command \in Commands[c] : Load(c, command)
           \/ OpenLog(c) \/ \E s \in Starts : HearStart(c, s)
    PROVE  TypeOK' /\ log' = log
<1>0. Owner[c] \in Players
  BY ProcessesAssumption
<1>1. ASSUME NEW command \in Commands[c], Load(c, command)
      PROVE  TypeOK' /\ log' = log
  <2>1. command \in Kinds
    BY ProcessesAssumption
  <2>2. file' \in [Processes -> Anchors] /\ kind' \in [Processes -> Kinds]
    BY <1>0, <1>1, <2>1 DEF Load, TypeOK
  <2>3. at' \in [Processes -> Points]
    BY <1>1 DEF Load, TypeOK, Points
  <2>4. QED BY <1>1, <2>2, <2>3 DEF Load, files, TypeOK
<1>2. ASSUME OpenLog(c) PROVE TypeOK' /\ log' = log
  <2>1. log[Owner[c]] \in Seq(Links)
    BY <1>0 DEF TypeOK
  <2>2. HashesOf(log[Owner[c]]) \subseteq Hashes
    BY <2>1, LogLinks DEF HashesOf
  <2>3. seen' \in [Processes -> SUBSET Hashes]
    BY <1>2, <2>2 DEF OpenLog, TypeOK
  <2>4. QED BY <1>2, <2>3 DEF OpenLog, files, TypeOK, Points
<1>3. ASSUME NEW s \in Starts, HearStart(c, s) PROVE TypeOK' /\ log' = log
  BY <1>3 DEF HearStart, files, TypeOK, Anchors
<1>4. QED BY <1>1, <1>2, <1>3

LEMMA TypeStep ==
    ASSUME TypeOK, [Next]_vars PROVE TypeOK'
<1>1. CASE UNCHANGED vars
  BY <1>1 DEF vars, files, process, TypeOK
<1>2. ASSUME NEW c \in Processes, Step(c) PROVE TypeOK'
  BY <1>2, HearTypes, OthersTypes, ContinuingTypes DEF Step, Continuing
<1>3. QED BY <1>1, <1>2 DEF Next

(* The files and the processes keep to their types.                         *)
THEOREM TypesKept == Spec => []TypeOK
BY TypeInit, TypeStep, PTL DEF Spec

(* Two logs that verify_history lets pass and that share a hash share the    *)
(* history before it, as far back as both go (verification.py:110-131).      *)
THEOREM PlayersAgree == Spec => []Agreement
<1>1. TypeOK => Agreement
  <2>1. SUFFICES ASSUME TypeOK, NEW p \in Players, NEW q \in Players,
                        Flawless(session[p], log[p]), Flawless(session[q], log[q]),
                        NEW i \in DOMAIN log[p], NEW j \in DOMAIN log[q],
                        log[p][i].hash = log[q][j].hash
                 PROVE  \A k \in 0..(i - 1) : k < j => log[p][i - k] = log[q][j - k]
    BY DEF Agreement
  <2>2. log[p] \in Seq(Links) /\ log[q] \in Seq(Links)
    BY <2>1 DEF TypeOK
  <2>3. QED BY <2>1, <2>2, CommonPast
<1>2. QED BY <1>1, TypesKept, PTL

(* Players anchored at one MATCH_START who were told different stories, each *)
(* of which passes, hold two signed links for the same place between them.   *)
THEOREM ForksLeaveProof == Spec => []ForkLeavesProof
<1>1. TypeOK => ForkLeavesProof
  <2>1. SUFFICES ASSUME TypeOK, NEW p \in Players, NEW q \in Players,
                        session[p] = session[q], session[p] # None,
                        Flawless(session[p], log[p]), Flawless(session[q], log[q]),
                        \E i \in DOMAIN log[p] \cap DOMAIN log[q] : log[p][i] # log[q][i]
                 PROVE  \E k \in Range(log[p]), l \in Range(log[q]) :
                           k.signed /\ l.signed /\ k.prev = l.prev /\ k.hash # l.hash
    BY DEF ForkLeavesProof
  <2>2. log[p] \in Seq(Links) /\ log[q] \in Seq(Links) /\ session[p] \in Starts
    BY <2>1 DEF TypeOK, Anchors
  <2>3. QED BY <2>1, <2>2, FirstDifference
<1>2. QED BY <1>1, TypesKept, PTL

-----------------------------------------------------------------------------
(* Copies.                                                                  *)

LEMMA OwnFinite ==
    ASSUME NEW p, NEW S, S \subseteq Own(p)
    PROVE  /\ IsFiniteSet(S) /\ Cardinality(S) \in Nat
           /\ Cardinality(Own(p)) \in Nat /\ Cardinality(S) <= Cardinality(Own(p))
<1>1. IsFiniteSet(Own(p))
  BY ProcessesAssumption, FS_Subset DEF Own
<1>2. QED BY <1>1, FS_Subset, FS_CardinalityType

LEMMA CopiesFinite ==
    ASSUME TypeOK, NEW p \in Players, NEW h
    PROVE  IsFiniteSet(Copies(p, h)) /\ Cardinality(Copies(p, h)) \in Nat
<1>1. log[p] \in Seq(Links)
  BY DEF TypeOK
<1>2. DOMAIN log[p] = 1..Len(log[p]) /\ Len(log[p]) \in Nat
  BY <1>1
<1>3. IsFiniteSet(1..Len(log[p]))
  BY <1>2, FS_Interval
<1>4. QED BY <1>2, <1>3, FS_Subset, FS_CardinalityType DEF Copies

(* A step that leaves the logs alone and makes no process unaware of what is *)
(* in them.                                                                 *)
LEMMA NoMoreUnaware ==
    ASSUME CopiesInv, TypeOK', log' = log,
           \A p \in Players, h \in Hashes :
              Copies(p, h) # {} => Unaware(p, h)' \subseteq Unaware(p, h)
    PROVE  CopiesInv'
<1>1. SUFFICES ASSUME NEW p \in Players, NEW h \in Hashes, Copies(p, h)' # {}
               PROVE  Cardinality(Copies(p, h)') + Cardinality(Unaware(p, h)')
                         <= Cardinality(Own(p))
  BY DEF CopiesInv, Own
<1>2. Copies(p, h)' = Copies(p, h)
  BY DEF Copies
<1>3. /\ Unaware(p, h)' \subseteq Unaware(p, h)
      /\ Cardinality(Copies(p, h)) + Cardinality(Unaware(p, h)) <= Cardinality(Own(p))
  BY <1>1, <1>2 DEF CopiesInv
<1>4. Unaware(p, h) \subseteq Own(p)
  BY DEF Unaware
<1>5. /\ Cardinality(Unaware(p, h)') <= Cardinality(Unaware(p, h))
      /\ Cardinality(Unaware(p, h)') \in Nat /\ Cardinality(Unaware(p, h)) \in Nat
  BY <1>3, <1>4, OwnFinite, FS_Subset
<1>6. Cardinality(Copies(p, h)) \in Nat /\ Cardinality(Own(p)) \in Nat
  BY <1>4, OwnFinite, CopiesFinite DEF CopiesInv
<1>7. QED BY <1>2, <1>3, <1>5, <1>6

(* The process that appends a result was unaware of it, and is no more.      *)
LEMMA HearCopies ==
    ASSUME CopiesInv, NEW c \in Processes, NEW l \in Links, Hear(c, l)
    PROVE  CopiesInv'
<1>1. TypeOK /\ TypeOK'
  BY HearTypes DEF CopiesInv
<1>2. PICK o \in Players : o = Owner[c]
  BY ProcessesAssumption
<1>3. PICK n : n = Len(log[o]) + 1
  OBVIOUS
<1>4. /\ log[o] \in Seq(Links) /\ DOMAIN log[o] = 1..(n - 1) /\ n \in Nat /\ n >= 1
      /\ l.hash \in Hashes
  BY <1>1, <1>3, LinksAssumption DEF TypeOK, Link
<1>5. /\ DOMAIN log'[o] = DOMAIN log[o] \cup {n} /\ n \notin DOMAIN log[o]
      /\ log'[o][n] = l
      /\ \A i \in DOMAIN log[o] : log'[o][i] = log[o][i]
      /\ \A p \in Players : p # o => log'[p] = log[p]
  <2>1. log' = [log EXCEPT ![o] = Append(log[o], l)]
    BY <1>2 DEF Hear
  <2>2. log'[o] = Append(log[o], l) /\ \A p \in Players : p # o => log'[p] = log[p]
    BY <1>1, <2>1 DEF TypeOK
  <2>3. QED BY <1>3, <1>4, <2>2, AppendProperties
<1>6. /\ at' = at /\ at[c] = "polling" /\ l.hash \notin seen[c]
      /\ seen'[c] = seen[c] \cup {l.hash}
      /\ \A d \in Processes : d # c => seen'[d] = seen[d]
  BY <1>1 DEF Hear, TypeOK
<1>7. SUFFICES ASSUME NEW p \in Players, NEW h \in Hashes, Copies(p, h)' # {}
               PROVE  Cardinality(Copies(p, h)') + Cardinality(Unaware(p, h)')
                         <= Cardinality(Own(p))
  BY <1>1 DEF CopiesInv, Own
<1>8. /\ Unaware(p, h) \subseteq Own(p)
      /\ Cardinality(Unaware(p, h)) \in Nat /\ IsFiniteSet(Unaware(p, h))
      /\ Cardinality(Own(p)) \in Nat /\ Cardinality(Unaware(p, h)) <= Cardinality(Own(p))
      /\ IsFiniteSet(Copies(p, h)) /\ Cardinality(Copies(p, h)) \in Nat
  BY <1>1, OwnFinite, CopiesFinite DEF Unaware
<1>9. CASE p = o /\ h = l.hash
  <2>1. Copies(p, h)' = Copies(p, h) \cup {n} /\ n \notin Copies(p, h)
    BY <1>5, <1>9 DEF Copies
  <2>2. c \in Unaware(p, h) /\ Unaware(p, h)' = Unaware(p, h) \ {c}
    BY <1>2, <1>6, <1>9 DEF Unaware, Own
  <2>3. Cardinality(Copies(p, h)') = Cardinality(Copies(p, h)) + 1
    BY <1>8, <2>1, FS_AddElement
  <2>4. Cardinality(Unaware(p, h)') = Cardinality(Unaware(p, h)) - 1
    BY <1>8, <2>2, FS_RemoveElement
  <2>5. CASE Copies(p, h) = {}
    BY <1>8, <2>3, <2>4, <2>5, FS_EmptySet
  <2>6. CASE Copies(p, h) # {}
    <3>1. Cardinality(Copies(p, h)) + Cardinality(Unaware(p, h)) <= Cardinality(Own(p))
      BY <2>6 DEF CopiesInv
    <3>2. QED BY <1>8, <2>3, <2>4, <3>1
  <2>7. QED BY <2>5, <2>6
<1>10. CASE p # o \/ h # l.hash
  <2>1. Copies(p, h)' = Copies(p, h)
    <3>1. CASE p # o
      BY <1>5, <3>1 DEF Copies
    <3>2. CASE p = o /\ h # l.hash
      BY <1>5, <3>2 DEF Copies
    <3>3. QED BY <1>10, <3>1, <3>2
  <2>2. Unaware(p, h)' = Unaware(p, h)
    BY <1>2, <1>6, <1>10 DEF Unaware, Own
  <2>3. QED BY <1>7, <2>1, <2>2 DEF CopiesInv
<1>11. QED BY <1>9, <1>10

LEMMA CopiesInit ==
    ASSUME Init PROVE CopiesInv
<1>1. \A p \in Players : \A h : Copies(p, h) = {}
  BY DEF Init, Copies
<1>2. QED BY <1>1, TypeInit DEF CopiesInv

LEMMA CopiesStep ==
    ASSUME CopiesInv, [Next]_vars PROVE CopiesInv'
<1>1. TypeOK /\ TypeOK'
  BY TypeStep DEF CopiesInv
<1>2. CASE UNCHANGED vars
  <2>1. log' = log /\ \A p, h : Unaware(p, h)' = Unaware(p, h)
    BY <1>2 DEF vars, files, process, Unaware, Own
  <2>2. QED BY <1>1, <2>1, NoMoreUnaware
<1>3. ASSUME NEW c \in Processes,
             \/ \E command \in Commands[c] : Load(c, command)
             \/ \E s \in Starts : HearStart(c, s)
      PROVE  CopiesInv'
  <2>1. log' = log /\ seen' = seen
    BY <1>3 DEF Load, HearStart, files
  <2>2. \A d \in Processes : at'[d] = "polling" => at[d] = "polling"
    BY <1>1, <1>3 DEF Load, HearStart, TypeOK
  <2>3. \A p, h : Unaware(p, h)' \subseteq Unaware(p, h)
    BY <2>1, <2>2 DEF Unaware, Own
  <2>4. QED BY <1>1, <2>1, <2>3, NoMoreUnaware
<1>4. ASSUME NEW c \in Processes, OpenLog(c) PROVE CopiesInv'
  <2>1. /\ log' = log
        /\ \A d \in Processes : d # c => at'[d] = at[d] /\ seen'[d] = seen[d]
        /\ seen'[c] = HashesOf(log[Owner[c]])
    BY <1>1, <1>4 DEF OpenLog, files, TypeOK
  <2>2. ASSUME NEW p \in Players, NEW h \in Hashes, Copies(p, h) # {}
        PROVE  Unaware(p, h)' \subseteq Unaware(p, h)
    <3>1. Owner[c] = p => h \in seen'[c]
      BY <2>1, <2>2 DEF Copies, HashesOf
    <3>2. QED BY <2>1, <3>1 DEF Unaware, Own
  <2>3. QED BY <1>1, <2>1, <2>2, NoMoreUnaware
<1>5. ASSUME NEW c \in Processes, Continuing(c) PROVE CopiesInv'
  <2>1. /\ log' = log /\ at'[c] # "polling"
        /\ \A d \in Processes : d # c => at'[d] = at[d] /\ seen'[d] = seen[d]
    BY <1>1, <1>5, ContinuingTypes
  <2>2. \A p, h : Unaware(p, h)' \subseteq Unaware(p, h)
    BY <2>1 DEF Unaware, Own
  <2>3. QED BY <1>1, <2>1, <2>2, NoMoreUnaware
<1>6. ASSUME NEW c \in Processes, Step(c) PROVE CopiesInv'
  BY <1>3, <1>4, <1>5, <1>6, HearCopies DEF Step, Continuing
<1>7. QED BY <1>2, <1>6 DEF Next

(* However the commands of a player overlap, their log holds a result no     *)
(* more often than commands can run at once (_poll_and_log, cli.py:177-187); *)
(* the invariant counts those that have yet to learn of it with the copies.  *)
THEOREM CopiesAreBounded == Spec => []CopiesBounded
<1>1. CopiesInv => CopiesBounded
  <2>1. SUFFICES ASSUME CopiesInv, NEW p \in Players, NEW h \in Hashes
                 PROVE  Cardinality(Copies(p, h)) <= Cardinality(Own(p))
    BY DEF CopiesBounded
  <2>2. /\ Cardinality(Unaware(p, h)) \in Nat /\ Cardinality(Own(p)) \in Nat
        /\ Cardinality(Copies(p, h)) \in Nat
    BY <2>1, OwnFinite, CopiesFinite DEF Unaware, CopiesInv
  <2>3. CASE Copies(p, h) = {}
    BY <2>2, <2>3, FS_EmptySet
  <2>4. CASE Copies(p, h) # {}
    <3>1. Cardinality(Copies(p, h)) + Cardinality(Unaware(p, h)) <= Cardinality(Own(p))
      BY <2>1, <2>4 DEF CopiesInv
    <3>2. QED BY <2>2, <3>1
  <2>5. QED BY <2>3, <2>4
<1>2. QED BY <1>1, CopiesInit, CopiesStep, PTL DEF Spec

-----------------------------------------------------------------------------
(* The anchor.                                                              *)

(* `verify` only polls, and only keeps a MATCH_START, without an anchor.     *)
AnchorsOnce ==
    \A c \in Processes :
        /\ at[c] = "anchoring" => kind[c] = "verify"
        /\ kind[c] = "verify" /\ at[c] \in {"loaded", "polling", "anchoring"}
              => file[c] = None

LEMMA AnchorsOnceStep ==
    ASSUME TypeOK, AnchorsOnce, [Next]_vars PROVE AnchorsOnce'
<1>1. CASE UNCHANGED vars
  BY <1>1 DEF vars, process, AnchorsOnce
<1>2. ASSUME NEW c \in Processes, Step(c) PROVE AnchorsOnce'
  <2>1. SUFFICES ASSUME NEW d \in Processes
                 PROVE  /\ at'[d] = "anchoring" => kind'[d] = "verify"
                        /\ kind'[d] = "verify" /\ at'[d] \in {"loaded", "polling", "anchoring"}
                              => file'[d] = None
    BY DEF AnchorsOnce
  <2>2. ASSUME NEW command \in Commands[c], Load(c, command)
        PROVE  /\ at'[d] = "anchoring" => kind'[d] = "verify"
               /\ kind'[d] = "verify" /\ at'[d] \in {"loaded", "polling", "anchoring"}
                     => file'[d] = None
    BY <2>2 DEF Load, TypeOK, AnchorsOnce
  <2>3. CASE OpenLog(c) \/ (\E l \in Links : Hear(c, l)) \/ (\E s \in Starts : HearStart(c, s))
    BY <2>3 DEF OpenLog, Hear, HearStart, TypeOK, AnchorsOnce
  <2>4. ASSUME NEW point \in Points, Goto(c, point),
               point = "anchoring" => kind[c] = "verify" /\ at[c] = "polling"
        PROVE  /\ at'[d] = "anchoring" => kind'[d] = "verify"
               /\ kind'[d] = "verify" /\ at'[d] \in {"loaded", "polling", "anchoring"}
                     => file'[d] = None \/ point \in {"loaded", "polling"}
    <3>1. CASE point = "off"
      BY <2>4, <3>1 DEF Goto, TypeOK, AnchorsOnce
    <3>2. CASE point # "off"
      BY <2>4, <3>2 DEF Goto, TypeOK, AnchorsOnce
    <3>3. QED BY <3>1, <3>2
  <2>5. CASE EndPolling(c)
    <3>1. PICK point \in {"off", "waiting", "anchoring", "checking"} :
             /\ Goto(c, point)
             /\ point = "anchoring" => kind[c] = "verify" /\ at[c] = "polling"
      BY <2>5 DEF EndPolling, TypeOK, Kinds
    <3>2. point \in Points /\ point \notin {"loaded", "polling"}
      BY DEF Points
    <3>3. QED BY <2>4, <3>1, <3>2
  <2>6. CASE EndWait(c) \/ KeepReceipt(c) \/ Quit(c)
    <3>1. PICK point \in {"receipt", "off"} : Goto(c, point)
      BY <2>6 DEF EndWait, KeepReceipt, Quit
    <3>2. point \in Points /\ point \notin {"loaded", "polling", "anchoring"}
      BY DEF Points
    <3>3. QED BY <2>4, <3>1, <3>2
  <2>7. CASE Anchor(c)
    BY <2>7 DEF Anchor, TypeOK, AnchorsOnce
  <2>8. QED BY <1>2, <2>2, <2>3, <2>5, <2>6, <2>7 DEF Step
<1>3. QED BY <1>1, <1>2 DEF Next

(* A process of the player that ends, or goes on with what it has loaded.    *)
LEMMA SettledKept ==
    ASSUME TypeOK, NEW p \in Players, Settled(p), NEW c \in Processes,
           session'[p] = session[p],
           \A d \in Processes : d # c => at'[d] = at[d] /\ file'[d] = file[d],
           Owner[c] = p /\ at'[c] # "off" => file'[c] = session[p]
    PROVE  Settled(p)'
<1>1. SUFFICES ASSUME NEW d \in Own(p), at'[d] # "off" PROVE file'[d] = session[p]
  BY DEF Settled, Own
<1>2. d \in Processes /\ Owner[d] = p
  BY DEF Own
<1>3. CASE d = c
  BY <1>1, <1>2, <1>3
<1>4. CASE d # c
  BY <1>1, <1>2, <1>4 DEF Settled
<1>5. QED BY <1>3, <1>4

LEMMA SettledStep ==
    ASSUME TypeOK, AnchorsOnce, NEW p \in Players, Settled(p),
           NEW c \in Processes, Step(c)
    PROVE  session'[p] = session[p] /\ Settled(p)'
<1>0. Owner[c] \in Players /\ (Owner[c] = p /\ at[c] # "off" => file[c] = session[p])
  BY ProcessesAssumption DEF Settled, Own
<1>1. ASSUME NEW command \in Commands[c], Load(c, command)
      PROVE  session'[p] = session[p] /\ Settled(p)'
  <2>1. session' = session /\ file'[c] = session[Owner[c]]
        /\ \A d \in Processes : d # c => at'[d] = at[d] /\ file'[d] = file[d]
    BY <1>1 DEF Load, files, TypeOK
  <2>2. QED BY <2>1, SettledKept
<1>2. CASE OpenLog(c) \/ (\E l \in Links : Hear(c, l)) \/ (\E s \in Starts : HearStart(c, s))
  <2>1. session' = session /\ file' = file /\ at[c] # "off"
        /\ \A d \in Processes : d # c => at'[d] = at[d]
    BY <1>2 DEF OpenLog, Hear, HearStart, files, TypeOK
  <2>2. QED BY <1>0, <2>1, SettledKept
<1>3. ASSUME NEW point, Goto(c, point), at[c] # "off",
             Save(c) \/ UNCHANGED session
      PROVE  session'[p] = session[p] /\ Settled(p)'
  <2>1. session'[p] = session[p]
    BY <1>0, <1>3 DEF Save, TypeOK
  <2>2. /\ \A d \in Processes : d # c => at'[d] = at[d] /\ file'[d] = file[d]
        /\ at'[c] = "off" \/ file'[c] = file[c]
    <3>1. CASE point = "off"
      BY <1>3, <3>1 DEF Goto, TypeOK
    <3>2. CASE point # "off"
      BY <1>3, <3>2 DEF Goto, TypeOK
    <3>3. QED BY <3>1, <3>2
  <2>3. QED BY <1>0, <1>3, <2>1, <2>2, SettledKept
<1>4. CASE EndPolling(c) \/ EndWait(c) \/ KeepReceipt(c) \/ Quit(c)
  <2>1. /\ \E point : Goto(c, point)
        /\ at[c] # "off" /\ (Save(c) \/ UNCHANGED session)
    BY <1>4 DEF EndPolling, EndWait, KeepReceipt, Quit, files
  <2>2. QED BY <1>3, <2>1
<1>5. CASE Anchor(c)
  <2>1. at[c] = "anchoring" /\ file[c] = None
    BY <1>5 DEF Anchor, AnchorsOnce
  <2>2. Owner[c] # p
    BY <1>0, <2>1 DEF Settled
  <2>3. session'[p] = session[p]
        /\ \A d \in Processes : d # c => at'[d] = at[d] /\ file'[d] = file[d]
    BY <1>5, <2>2 DEF Anchor, TypeOK
  <2>4. QED BY <2>2, <2>3, SettledKept
<1>6. QED BY <1>1, <1>2, <1>4, <1>5 DEF Step

(* Once every running command of a player has the anchor that is on file,    *)
(* each of their writes puts it back (_persist_sequence, cli.py:172-174).    *)
THEOREM AnchorsSettle == Spec => AnchorSettles
<1>1. Init => AnchorsOnce
  BY DEF Init, AnchorsOnce
<1>2. Spec => []AnchorsOnce
  BY <1>1, TypesKept, AnchorsOnceStep, PTL DEF Spec
<1>3. TypeOK /\ AnchorsOnce /\ [Next]_vars =>
        [\A p \in Players : Settled(p) => session'[p] = session[p] /\ Settled(p)']_vars
  BY SettledStep DEF Next
<1>4. QED BY <1>2, <1>3, TypesKept, PTL DEF Spec, AnchorSettles
=============================================================================
