--------------------------- MODULE SessionProofs ---------------------------
(***************************************************************************)
(* Seats, sequence numbers and the verdict of `verify`, for any players,    *)
(* programs, factions, seats, commands and bounds: lost and late answers,   *)
(* interrupted commands and restarts of the coordinator included.           *)
(***************************************************************************)
EXTENDS Session, FiniteSetTheorems, SequenceTheorems, WellFoundedInduction, TLAPS

-----------------------------------------------------------------------------
(* Types.                                                                   *)

LEMMA LeaveType ==
    ASSUME TypeOK, NEW p \in Players, Leave(p)
    PROVE  /\ at' \in [Players -> Points] /\ number' \in [Players -> Nat]
           /\ command' \in [Players -> Commands \cup {"join", "verify", None}]
           /\ heard' \in [Players -> SUBSET {"state", "start"}]
BY DEF TypeOK, Leave, Points

LEMMA EnterType ==
    ASSUME TypeOK, NEW p \in Players, NEW point \in Points,
           NEW c \in Commands \cup {"join", "verify"}, Enter(p, point, c)
    PROVE  /\ at' \in [Players -> Points]
           /\ command' \in [Players -> Commands \cup {"join", "verify", None}]
           /\ heard' \in [Players -> SUBSET {"state", "start"}]
           /\ report' \in [Players -> {"none", "nothing", "OK", "MISMATCH"}]
BY DEF TypeOK, Enter

LEMMA SendType ==
    ASSUME TypeOK, NEW p \in Players, NEW n \in Nat,
           NEW kinds \in SUBSET {"join", "state", "other"}, Send(p, n, kinds)
    PROVE  number' \in [Players -> Nat] /\ requests' \subseteq Request
<1>1. ASSUME NEW k \in kinds PROVE [player |-> p, seq |-> n, kind |-> k] \in Request
  BY DEF Request
<1>2. number \in [Players -> Nat] /\ requests \subseteq Request
  BY DEF TypeOK
<1>3. QED BY <1>1, <1>2 DEF Send

LEMMA AsksType ==
    ASSUME NEW c PROVE Asks(c) \in SUBSET {"join", "state", "other"}
<1>1. ASSUME NEW k \in Asks(c) PROVE k \in {"join", "state", "other"}
  BY <1>1 DEF Asks
<1>2. QED BY <1>1

LEMMA PersistType ==
    ASSUME TypeOK, NEW p \in Players, session[p] # None, Persist(p)
    PROVE  /\ session' \in [Players -> SessionFile \cup {None}]
           /\ cut' \in [Players -> BOOLEAN]
<1>1. session[p] \in SessionFile
  BY DEF TypeOK
<1>2. [session[p] EXCEPT !.last = number[p]] \in SessionFile
  BY <1>1 DEF SessionFile, TypeOK
<1>3. session' \in [Players -> SessionFile \cup {None}]
  BY <1>2 DEF Persist, TypeOK
<1>4. (cut[p] /\ number[p] = session[p].last) \in BOOLEAN
  OBVIOUS
<1>5. QED BY <1>3, <1>4 DEF Persist, TypeOK

(* A letter of the right type leaves the mail well formed.                   *)
LEMMA LetterAdded ==
    ASSUME LettersInv, NEW m \in LetterType, mail' = mail \cup {m},
           m.kind = "accepted" => m.value \in Factions,
           m.kind # "result", TypeOK'
    PROVE  LettersInv'
BY DEF LettersInv

LEMMA LettersKept ==
    ASSUME LettersInv, TypeOK', mail' \subseteq mail
    PROVE  LettersInv'
BY DEF LettersInv

LEMMA BroadcastLetters ==
    ASSUME LettersInv, NEW kind \in {"start", "result"}, NEW k \in Nat, Broadcast(kind, k)
    PROVE  /\ mail' \subseteq LetterType
           /\ \A m \in mail' : /\ m.kind = "accepted" => m.value \in Factions
                               /\ m.kind = "result" => m.value \in Nat
BY DEF LettersInv, TypeOK, Broadcast, Letter, LetterType, Seated

LEMMA LettersInit ==
    ASSUME Init PROVE LettersInv
BY PlayersAssumption DEF Init, LettersInv, TypeOK, Points

LEMMA CoordinatorLetters ==
    ASSUME LettersInv, Coordinator PROVE LettersInv'
<1>1. TypeOK /\ mail \subseteq LetterType
  BY DEF LettersInv, TypeOK
<1>2. ASSUME NEW m \in requests, Receive(m) \/ Drop(m) PROVE LettersInv'
  <2>1. m \in Request
    BY <1>1 DEF TypeOK
  <2>2. lastSeen' \in [Players -> Nat] /\ job' \in Request \cup {None}
    BY <1>1, <1>2, <2>1 DEF TypeOK, Receive, Drop, Request, store, memory
  <2>3. TypeOK'
    BY <1>1, <1>2, <2>2 DEF TypeOK, Receive, Drop, store, memory, files, process
  <2>4. QED BY <1>2, <2>3, LettersKept DEF Receive, Drop
<1>3. CASE Ignore
  <2>1. TypeOK'
    BY <1>1, <1>3 DEF TypeOK, Ignore, store, network, files, process
  <2>2. QED BY <1>3, <2>1, LettersKept DEF Ignore, network
<1>4. CASE AnswerState
  <2>1. job.player \in Players
    BY <1>1, <1>4 DEF TypeOK, AnswerState, Request
  <2>2. DEFINE m == Letter(job.player, "state", None)
  <2>3. m \in LetterType /\ m.kind = "state"
    BY <2>1 DEF Letter, LetterType
  <2>4. mail' = mail \cup {m}
    BY <1>4 DEF AnswerState
  <2>5. TypeOK'
    BY <1>1, <1>4, <2>3, <2>4 DEF TypeOK, AnswerState, store, files, process
  <2>6. QED BY <2>3, <2>4, <2>5, LetterAdded
<1>5. ASSUME AnswerJoin, NEW m \in LetterType, mail' = mail \cup {m}, m.kind # "result",
             m.kind = "accepted" => m.value \in Factions,
             seat' \in [Players -> Factions \cup {None}]
      PROVE  LettersInv'
  <2>1. attempts' \in [Players -> Nat]
    BY <1>1, <1>5 DEF TypeOK, AnswerJoin, Request
  <2>2. TypeOK'
    BY <1>1, <1>5, <2>1 DEF TypeOK, AnswerJoin, files, process
  <2>3. QED BY <1>5, <2>2, LetterAdded
<1>6. job # None => job.player \in Players
  BY <1>1 DEF TypeOK, Request
<1>7. CASE Reseat
  <2>1. seat[job.player] \in Factions /\ job.player \in Players
    BY <1>1, <1>6, <1>7 DEF Reseat, AnswerJoin, Seated, TypeOK
  <2>2. DEFINE m == Letter(job.player, "accepted", seat[job.player])
  <2>3. m \in LetterType /\ m.kind = "accepted" /\ m.value \in Factions
    BY <2>1 DEF Letter, LetterType
  <2>4. AnswerJoin /\ mail' = mail \cup {m} /\ seat' \in [Players -> Factions \cup {None}]
    BY <1>1, <1>7 DEF Reseat, TypeOK
  <2>5. QED BY <1>5, <2>3, <2>4
<1>8. ASSUME NEW f \in Factions, Seat(f) PROVE LettersInv'
  <2>1. DEFINE m == Letter(job.player, "accepted", f)
  <2>2. m \in LetterType /\ m.kind = "accepted" /\ m.value \in Factions
    BY <1>6, <1>8 DEF Letter, LetterType, Seat, AnswerJoin
  <2>3. AnswerJoin /\ mail' = mail \cup {m} /\ seat' \in [Players -> Factions \cup {None}]
    BY <1>1, <1>8 DEF Seat, TypeOK
  <2>4. QED BY <1>5, <2>2, <2>3
<1>9. CASE Reject
  <2>1. DEFINE m == Letter(job.player, "rejected", None)
  <2>2. m \in LetterType /\ m.kind = "rejected"
    BY <1>6, <1>9 DEF Letter, LetterType, Reject, AnswerJoin
  <2>3. AnswerJoin /\ mail' = mail \cup {m} /\ seat' \in [Players -> Factions \cup {None}]
    BY <1>1, <1>9 DEF Reject, TypeOK
  <2>4. QED BY <1>5, <2>2, <2>3
<1>10. ASSUME NEW p \in Players, WindowPasses(p) PROVE LettersInv'
  <2>1. attempts' \in [Players -> Nat]
    BY <1>1, <1>10 DEF TypeOK, WindowPasses
  <2>2. TypeOK'
    BY <1>1, <1>10, <2>1 DEF TypeOK, WindowPasses, store, network, files, process
  <2>3. QED BY <1>10, <2>2, LettersKept DEF WindowPasses, network
<1>11. CASE Restart
  <2>1. TypeOK'
    BY <1>1, <1>11 DEF TypeOK, Restart, store, network, files, process
  <2>2. QED BY <1>11, <2>1, LettersKept DEF Restart, network
<1>12. CASE Start \/ Publish
  <2>1. PICK kind \in {"start", "result"}, k \in Nat : Broadcast(kind, k)
    BY <1>1, <1>12 DEF Start, Publish, TypeOK
  <2>2. published' \in Nat /\ status' \in {"LOBBY", "ACTIVE"}
    BY <1>1, <1>12 DEF Start, Publish, TypeOK
  <2>3. TypeOK'
    BY <1>1, <1>12, <2>1, <2>2, BroadcastLetters DEF TypeOK, Start, Publish, memory, files, process
  <2>4. QED BY <2>1, <2>3, BroadcastLetters DEF LettersInv
<1>13. QED BY <1>2, <1>3, <1>4, <1>7, <1>8, <1>9, <1>10, <1>11, <1>12 DEF Coordinator, Handle

LEMMA PlayerLetters ==
    ASSUME LettersInv, OpenFiles, NEW p \in Players, Player(p) PROVE LettersInv'
<1>1. TypeOK /\ mail \subseteq LetterType
  BY DEF LettersInv, TypeOK
<1>2. number[p] \in Nat /\ (session[p] # None => session[p].last \in Nat)
  BY <1>1 DEF TypeOK, SessionFile
<1>3. {"join"} \in SUBSET {"join", "state", "other"} /\ {"other"} \in SUBSET {"join", "state", "other"}
  OBVIOUS
<1>4. CASE Join(p)
  <2>1. /\ number' \in [Players -> Nat] /\ requests' \subseteq Request
    BY <1>1, <1>3, <1>4, SendType DEF Join
  <2>2. "joining" \in Points
    BY DEF Points
  <2>3. TypeOK'
    BY <1>1, <1>4, <2>1, <2>2, EnterType DEF TypeOK, Join, store, memory, files
  <2>4. QED BY <1>4, <2>3, LettersKept DEF Join
<1>5. ASSUME NEW m \in mail, JoinAccepted(p, m) PROVE LettersInv'
  <2>1. m.value \in Factions
    BY <1>5 DEF LettersInv, JoinAccepted
  <2>2. [faction |-> m.value, last |-> number[p], anchored |-> FALSE] \in SessionFile
    BY <1>2, <2>1 DEF SessionFile
  <2>3. session' \in [Players -> SessionFile \cup {None}] /\ cut' \in [Players -> BOOLEAN]
    BY <1>1, <1>5, <2>2 DEF JoinAccepted, TypeOK
  <2>4. TypeOK'
    BY <1>1, <1>5, <2>3, LeaveType DEF TypeOK, JoinAccepted, store, memory
  <2>5. QED BY <1>5, <2>4, LettersKept DEF JoinAccepted
<1>6. ASSUME NEW m \in mail, JoinRejected(p, m) PROVE LettersInv'
  <2>1. TypeOK'
    BY <1>1, <1>6, LeaveType DEF TypeOK, JoinRejected, store, memory, files
  <2>2. QED BY <1>6, <2>1, LettersKept DEF JoinRejected
<1>7. ASSUME NEW m \in mail, Poll(p, m) PROVE LettersInv'
  <2>1. \/ log' \in [Players -> Seq(Nat)] /\ heard' = heard
        \/ log' = log /\ heard' \in [Players -> SUBSET {"state", "start"}]
    <3>1. CASE LogResult(p, m)
      <4>1. m.value \in Nat
        BY <1>7, <3>1 DEF LettersInv, LogResult
      <4>2. log[p] \in Seq(Nat) /\ Append(log[p], m.value) \in Seq(Nat)
        BY <1>1, <4>1 DEF TypeOK
      <4>3. QED BY <1>1, <3>1, <4>2 DEF TypeOK, LogResult
    <3>2. CASE Note(p, m)
      BY <1>1, <3>2 DEF TypeOK, Note, Needs
    <3>3. QED BY <1>7, <3>1, <3>2 DEF Poll
  <2>2. TypeOK'
    BY <1>1, <1>7, <2>1 DEF TypeOK, Poll, store, memory
  <2>3. QED BY <1>7, <2>2, LettersKept DEF Poll
<1>8. ASSUME NEW c \in Commands, Run(p, c) PROVE LettersInv'
  <2>1. PICK n \in Nat : Send(p, n, Asks(c))
    BY <1>2, <1>8 DEF Run
  <2>2. number' \in [Players -> Nat] /\ requests' \subseteq Request
    BY <1>1, <2>1, SendType, AsksType
  <2>3. "polling" \in Points
    BY DEF Points
  <2>4. TypeOK'
    BY <1>1, <1>8, <2>2, <2>3, EnterType DEF TypeOK, Run, store, memory, files
  <2>5. QED BY <1>8, <2>4, LettersKept DEF Run
<1>9. CASE VerifyOffline(p)
  <2>1. "verify" \in Points
    BY DEF Points
  <2>2. TypeOK'
    BY <1>1, <1>9, <2>1, EnterType DEF TypeOK, VerifyOffline, store, memory, network, files
  <2>3. QED BY <1>9, <2>2, LettersKept DEF VerifyOffline, network
<1>10. CASE EndPolling(p)
  <2>1. session' \in [Players -> SessionFile \cup {None}] /\ cut' \in [Players -> BOOLEAN]
    BY <1>1, <1>10, PersistType DEF EndPolling, OpenFiles
  <2>2. /\ at' \in [Players -> Points] /\ number' \in [Players -> Nat]
        /\ command' \in [Players -> Commands \cup {"join", "verify", None}]
        /\ heard' \in [Players -> SUBSET {"state", "start"}]
    <3>1. CASE Leave(p)
      BY <1>1, <3>1, LeaveType
    <3>2. CASE \E point \in Points : at' = [at EXCEPT ![p] = point] /\ UNCHANGED <<command, number, heard>>
      BY <1>1, <3>2 DEF TypeOK
    <3>3. QED BY <1>10, <3>1, <3>2 DEF EndPolling, Points
  <2>3. TypeOK'
    BY <1>1, <1>10, <2>1, <2>2 DEF TypeOK, EndPolling, store, memory, network
  <2>4. QED BY <1>10, <2>3, LettersKept DEF EndPolling, network
<1>11. CASE Submit(p)
  <2>1. number' \in [Players -> Nat] /\ requests' \subseteq Request
    BY <1>1, <1>2, <1>3, <1>11, SendType DEF Submit
  <2>2. at' \in [Players -> Points]
    BY <1>1, <1>11 DEF Submit, TypeOK, Points
  <2>3. TypeOK'
    BY <1>1, <1>11, <2>1, <2>2 DEF TypeOK, Submit, store, memory, files
  <2>4. QED BY <1>11, <2>3, LettersKept DEF Submit
<1>12. CASE EndReceipt(p)
  <2>1. session' \in [Players -> SessionFile \cup {None}] /\ cut' \in [Players -> BOOLEAN]
    BY <1>1, <1>12, PersistType DEF EndReceipt, OpenFiles
  <2>2. TypeOK'
    BY <1>1, <1>12, <2>1, LeaveType DEF TypeOK, EndReceipt, store, memory, network
  <2>3. QED BY <1>12, <2>2, LettersKept DEF EndReceipt, network
<1>13. CASE Verify(p)
  <2>1. session[p] \in SessionFile /\ Anchored(p) \in BOOLEAN
    BY <1>1, <1>13 DEF TypeOK, Verify, OpenFiles, Anchored, SessionFile
  <2>2. [session[p] EXCEPT !.anchored = Anchored(p)] \in SessionFile
    BY <2>1 DEF SessionFile
  <2>3. session' \in [Players -> SessionFile \cup {None}]
    BY <1>1, <1>13, <2>2 DEF TypeOK, Verify
  <2>4. PICK r \in {"nothing", "OK", "MISMATCH"} : report' = [report EXCEPT ![p] = r]
    BY <1>13 DEF Verify, Verdict
  <2>5. report' \in [Players -> {"none", "nothing", "OK", "MISMATCH"}]
    BY <1>1, <2>4 DEF TypeOK
  <2>6. TypeOK'
    BY <1>1, <1>13, <2>3, <2>5, LeaveType DEF TypeOK, Verify, store, memory, network
  <2>7. QED BY <1>13, <2>6, LettersKept DEF Verify, network
<1>14. CASE GiveUp(p)
  <2>1. cut' \in [Players -> BOOLEAN]
    BY <1>1, <1>14 DEF GiveUp, TypeOK
  <2>2. TypeOK'
    BY <1>1, <1>14, <2>1, LeaveType DEF TypeOK, GiveUp, store, memory, network, files
  <2>3. QED BY <1>14, <2>2, LettersKept DEF GiveUp, network
<1>15. ASSUME NEW kind \in Calls, Call(p, kind) PROVE LettersInv'
  <2>1. {kind} \in SUBSET {"join", "state", "other"}
    BY CallsAssumption
  <2>2. number' \in [Players -> Nat] /\ requests' \subseteq Request
    BY <1>1, <1>2, <1>15, <2>1, SendType DEF Call
  <2>3. TypeOK'
    BY <1>1, <1>15, <2>2 DEF TypeOK, Call, store, memory, files
  <2>4. QED BY <1>15, <2>3, LettersKept DEF Call
<1>16. QED BY <1>4, <1>5, <1>6, <1>7, <1>8, <1>9, <1>10, <1>11, <1>12, <1>13, <1>14, <1>15 DEF Player

LEMMA LettersStutter ==
    ASSUME TypesInv, UNCHANGED vars PROVE TypesInv'
BY DEF TypesInv, LettersInv, TypeOK, OpenFiles, vars, store, memory, network, files, process

LEMMA OpenInit ==
    ASSUME Init PROVE OpenFiles
BY DEF Init, OpenFiles

LEMMA PersistFile ==
    ASSUME LettersInv, NEW p \in Players, session[p] # None, Persist(p)
    PROVE  \E f \in SessionFile : /\ session' = [session EXCEPT ![p] = f]
                                 /\ f.faction = session[p].faction
                                 /\ f.last = number[p]
<1>1. session[p] \in SessionFile /\ number[p] \in Nat
  BY DEF LettersInv, TypeOK
<1>2. DEFINE f == [session[p] EXCEPT !.last = number[p]]
<1>3. f \in SessionFile /\ f.faction = session[p].faction /\ f.last = number[p]
  BY <1>1 DEF SessionFile
<1>4. session' = [session EXCEPT ![p] = f]
  BY DEF Persist
<1>5. QED BY <1>3, <1>4

(* What a step of a player may do to the session files.                      *)
LEMMA FileWritten ==
    ASSUME TypesInv, NEW p \in Players, Player(p)
    PROVE  \/ session' = session
           \/ \E f \in SessionFile :
                 /\ session' = [session EXCEPT ![p] = f]
                 /\ \/ session[p] # None /\ f.faction = session[p].faction
                    \/ \E m \in AcceptedLetters(p) : f.faction = m.value
<1>1. LettersInv /\ OpenFiles /\ TypeOK
  BY DEF TypesInv, LettersInv
<1>2. CASE EndPolling(p) \/ EndReceipt(p)
  <2>1. session[p] # None /\ Persist(p)
    BY <1>1, <1>2 DEF EndPolling, EndReceipt, OpenFiles
  <2>2. QED BY <1>1, <2>1, PersistFile
<1>3. CASE Verify(p)
  <2>1. session[p] \in SessionFile /\ session[p] # None /\ Anchored(p) \in BOOLEAN
    BY <1>1, <1>3 DEF TypeOK, Verify, OpenFiles, Anchored, SessionFile
  <2>2. DEFINE f == [session[p] EXCEPT !.anchored = Anchored(p)]
  <2>3. f \in SessionFile /\ f.faction = session[p].faction
    BY <2>1 DEF SessionFile
  <2>4. session' = [session EXCEPT ![p] = f]
    BY <1>3 DEF Verify
  <2>5. QED BY <2>1, <2>3, <2>4
<1>4. ASSUME NEW m \in mail, m.to = p, JoinAccepted(p, m)
      PROVE  \E f \in SessionFile : /\ session' = [session EXCEPT ![p] = f]
                                    /\ \E l \in AcceptedLetters(p) : f.faction = l.value
  <2>1. m \in AcceptedLetters(p) /\ m.value \in Factions /\ number[p] \in Nat
    BY <1>1, <1>4 DEF AcceptedLetters, JoinAccepted, LettersInv, TypeOK
  <2>2. DEFINE f == [faction |-> m.value, last |-> number[p], anchored |-> FALSE]
  <2>3. f \in SessionFile /\ f.faction = m.value
    BY <2>1 DEF SessionFile
  <2>4. session' = [session EXCEPT ![p] = f]
    BY <1>4 DEF JoinAccepted
  <2>5. QED BY <2>1, <2>3, <2>4
<1>5. CASE \/ Join(p) \/ VerifyOffline(p) \/ Submit(p) \/ GiveUp(p)
           \/ \E m \in mail : JoinRejected(p, m) \/ Poll(p, m)
           \/ \E c \in Commands : Run(p, c)
           \/ \E kind \in Calls : Call(p, kind)
  BY <1>5 DEF Join, VerifyOffline, Submit, GiveUp, JoinRejected, Poll, Run, Call, files
<1>6. QED BY <1>2, <1>3, <1>4, <1>5 DEF Player

(* A command in progress had a file when it started, and keeps it.           *)
LEMMA PlayerOpens ==
    ASSUME TypesInv, NEW p \in Players, Player(p)
    PROVE  /\ \A q \in Players \ {p} : at'[q] = at[q]
           /\ at'[p] \in {"polling", "compose", "receipt", "verify"} => session[p] # None
<1>1. at \in [Players -> Points]
  BY DEF TypesInv, LettersInv, TypeOK
<1>2. CASE Join(p) \/ \E c \in Commands : Run(p, c)
  BY <1>1, <1>2 DEF Join, Run, Enter
<1>3. CASE VerifyOffline(p)
  BY <1>1, <1>3 DEF VerifyOffline, Enter
<1>4. CASE Submit(p) \/ EndPolling(p)
  BY <1>1, <1>4 DEF Submit, EndPolling, Leave, TypesInv, OpenFiles
<1>5. CASE \/ EndReceipt(p) \/ Verify(p) \/ GiveUp(p)
           \/ \E m \in mail : JoinAccepted(p, m) \/ JoinRejected(p, m)
  BY <1>1, <1>5 DEF EndReceipt, Verify, GiveUp, JoinAccepted, JoinRejected, Leave
<1>6. CASE \/ \E m \in mail : Poll(p, m)
           \/ \E kind \in Calls : Call(p, kind)
  BY <1>1, <1>6 DEF Poll, Call, TypesInv, OpenFiles
<1>7. QED BY <1>2, <1>3, <1>4, <1>5, <1>6 DEF Player

LEMMA TypesStep ==
    ASSUME TypesInv, [Next]_vars PROVE TypesInv'
<1>1. CASE UNCHANGED vars
  BY <1>1, LettersStutter
<1>2. CASE Coordinator
  <2>1. LettersInv'
    BY <1>2, CoordinatorLetters DEF TypesInv
  <2>2. UNCHANGED <<at, session>>
    BY <1>2 DEF Coordinator, Handle, Receive, Drop, Ignore, AnswerState, Reseat, Seat, Reject,
       AnswerJoin, WindowPasses, Restart, Start, Publish, files, process
  <2>3. QED BY <2>1, <2>2 DEF TypesInv, OpenFiles
<1>3. ASSUME NEW p \in Players, Player(p) PROVE TypesInv'
  <2>1. LettersInv'
    BY <1>3, PlayerLetters DEF TypesInv
  <2>2. \A q \in Players : session[q] # None => session'[q] # None
    <3>1. session \in [Players -> SessionFile \cup {None}] /\ \A f \in SessionFile : f # None
      BY FileAssumption DEF TypesInv, LettersInv, TypeOK
    <3>2. CASE session' = session
      BY <3>2
    <3>3. ASSUME NEW f \in SessionFile, session' = [session EXCEPT ![p] = f]
          PROVE  \A q \in Players : session[q] # None => session'[q] # None
      BY <3>1, <3>3
    <3>4. QED BY <1>3, <3>2, <3>3, FileWritten
  <2>3. QED BY <1>3, <2>1, <2>2, PlayerOpens DEF TypesInv, OpenFiles
<1>4. QED BY <1>1, <1>2, <1>3 DEF Next

(* Every table, message, file and process keeps to its type.                 *)
THEOREM TypesKept == Spec => []TypeOK
<1>1. Init => TypesInv
  BY LettersInit, OpenInit DEF TypesInv
<1>2. TypesInv => TypeOK
  BY DEF TypesInv, LettersInv
<1>3. QED BY <1>1, <1>2, TypesStep, PTL DEF Spec

-----------------------------------------------------------------------------
(* Seats.                                                                   *)

LEMMA SeatedFinite ==
    IsFiniteSet(Seated) /\ Cardinality(Seated) \in Nat
BY FS_Subset, FS_CardinalityType, PlayersAssumption DEF Seated

(* Whoever was accepted, or has a session file, has a seat.                  *)
LEMMA ToldSeated ==
    ASSUME SeatsInv
    PROVE  /\ \A m \in mail : m.kind = "accepted" => m.to \in Seated
           /\ \A p \in Players : session[p] # None => p \in Seated
<1>1. LettersInv /\ TypeOK
  BY DEF SeatsInv, TypesInv, LettersInv
<1>2. ASSUME NEW m \in mail, m.kind = "accepted" PROVE m.to \in Seated
  <2>1. m.to \in Players /\ m.value \in Factions /\ m.value = seat[m.to]
    BY <1>1, <1>2 DEF SeatsInv, SeatsAgree, LettersInv, TypeOK, LetterType
  <2>2. QED BY <2>1, NoneAssumption DEF Seated
<1>3. ASSUME NEW p \in Players, session[p] # None PROVE p \in Seated
  <2>1. session[p] \in SessionFile /\ session[p].faction = seat[p]
    BY <1>1, <1>3 DEF SeatsInv, SeatsAgree, TypeOK
  <2>2. QED BY <2>1, NoneAssumption DEF Seated, SessionFile
<1>4. QED BY <1>2, <1>3

LEMMA NewSeat ==
    ASSUME SeatsInv, NEW f \in Factions, Seat(f)
    PROVE  SeatsAgree'
<1>1. LettersInv /\ TypeOK /\ SeatsAgree
  BY DEF SeatsInv, TypesInv, LettersInv
<1>2. DEFINE j == job.player
<1>3. j \in Players /\ j \notin Seated /\ f # None
  BY <1>1, NoneAssumption DEF Seat, AnswerJoin, TypeOK, Request
<1>4. seat \in [Players -> Factions \cup {None}] /\ seat' = [seat EXCEPT ![j] = f]
  BY <1>1 DEF Seat, TypeOK
<1>5. Seated' = Seated \cup {j}
  BY <1>3, <1>4 DEF Seated
<1>6. \A p \in Seated : p \in Players /\ seat'[p] = seat[p] /\ seat[p] # f
  BY <1>3, <1>4 DEF Seat, Available, Seated
<1>7. seat'[j] = f
  BY <1>3, <1>4
<1>8. \A p, q \in Seated' : seat'[p] = seat'[q] => p = q
  BY <1>1, <1>5, <1>6, <1>7 DEF SeatsAgree
<1>9. Cardinality(Seated') = Cardinality(Seated) + 1
  BY <1>3, <1>5, SeatedFinite, FS_AddElement
<1>10. /\ status' = "LOBBY" /\ status = "LOBBY"
       /\ Cardinality(Seated') <= Seats
  BY <1>9, SeatedFinite, BoundsAssumption DEF Seat, AnswerJoin
<1>11. ASSUME NEW m \in mail', m.kind = "accepted" PROVE m.value = seat'[m.to]
  <2>1. CASE m \in mail
    BY <1>1, <1>6, <1>11, <2>1, ToldSeated DEF SeatsAgree
  <2>2. CASE m = Letter(j, "accepted", f)
    BY <1>7, <2>2 DEF Letter
  <2>3. QED BY <1>11, <2>1, <2>2 DEF Seat
<1>12. ASSUME NEW p \in Players, session'[p] # None PROVE session'[p].faction = seat'[p]
  <2>1. session' = session
    BY DEF Seat, AnswerJoin, files
  <2>2. QED BY <1>1, <1>6, <1>12, <2>1, ToldSeated DEF SeatsAgree
<1>13. QED BY <1>8, <1>10, <1>11, <1>12 DEF SeatsAgree

(* Steps that seat nobody.                                                   *)
LEMMA SeatsKept ==
    ASSUME SeatsInv, UNCHANGED <<seat, session>>,
           \A m \in mail' : m.kind = "accepted" => m \in mail \/ m.value = seat[m.to],
           status' = status \/ (status' = "ACTIVE" /\ Cardinality(Seated) = Seats)
    PROVE  SeatsAgree'
BY DEF SeatsInv, SeatsAgree, Seated

LEMMA CoordinatorSeats ==
    ASSUME SeatsInv, Coordinator PROVE SeatsAgree'
<1>1. CASE \/ \E m \in requests : Receive(m) \/ Drop(m)
           \/ Ignore
           \/ \E p \in Players : WindowPasses(p)
           \/ Restart
  <2>1. UNCHANGED <<status, seat, session, mail>>
    BY <1>1 DEF Receive, Drop, Ignore, WindowPasses, Restart, store, network, files
  <2>2. QED BY <2>1, SeatsKept
<1>2. CASE AnswerState \/ Reject
  <2>1. UNCHANGED <<status, seat, session>>
    BY <1>2 DEF AnswerState, Reject, AnswerJoin, store, files
  <2>2. \A m \in mail' : m.kind = "accepted" => m \in mail
    BY <1>2 DEF AnswerState, Reject, Letter
  <2>3. QED BY <2>1, <2>2, SeatsKept
<1>3. CASE Reseat
  <2>1. UNCHANGED <<status, seat, session>>
    BY <1>3 DEF Reseat, AnswerJoin, files
  <2>2. \A m \in mail' : m \in mail \/ m.value = seat[m.to]
    BY <1>3 DEF Reseat, Letter
  <2>3. QED BY <2>1, <2>2, SeatsKept
<1>4. CASE Start \/ Publish
  <2>1. UNCHANGED <<seat, session>>
    BY <1>4 DEF Start, Publish, files
  <2>2. status' = status \/ (status' = "ACTIVE" /\ Cardinality(Seated) = Seats)
    BY <1>4 DEF Start, Publish
  <2>3. \A m \in mail' : m.kind = "accepted" => m \in mail
    BY <1>4 DEF Start, Publish, Broadcast, Letter
  <2>4. QED BY <2>1, <2>2, <2>3, SeatsKept
<1>5. QED BY <1>1, <1>2, <1>3, <1>4, NewSeat DEF Coordinator, Handle

(* What a player does leaves the tables alone, and takes letters at most.    *)
LEMMA PlayerStores ==
    ASSUME NEW p \in Players, Player(p)
    PROVE  /\ UNCHANGED store /\ UNCHANGED memory
           /\ mail' \subseteq mail
<1>1. CASE Join(p) \/ VerifyOffline(p) \/ Submit(p) \/ GiveUp(p) \/ \E c \in Commands : Run(p, c)
  BY <1>1 DEF Join, VerifyOffline, Submit, GiveUp, Run, network
<1>2. CASE \E m \in mail : JoinAccepted(p, m) \/ JoinRejected(p, m) \/ Poll(p, m)
  BY <1>2 DEF JoinAccepted, JoinRejected, Poll
<1>3. CASE EndPolling(p) \/ EndReceipt(p) \/ Verify(p) \/ \E kind \in Calls : Call(p, kind)
  BY <1>3 DEF EndPolling, EndReceipt, Verify, Call, network
<1>4. QED BY <1>1, <1>2, <1>3 DEF Player

LEMMA PlayerSeats ==
    ASSUME SeatsInv, NEW p \in Players, Player(p) PROVE SeatsAgree'
<1>1. TypeOK /\ TypesInv /\ SeatsAgree
  BY DEF SeatsInv, TypesInv, LettersInv
<1>2. UNCHANGED <<status, seat>> /\ mail' \subseteq mail
  BY PlayerStores DEF store
<1>3. \A q \in Players : session'[q] # None => session'[q].faction = seat[q]
  <2>1. CASE session' = session
    BY <1>1, <2>1 DEF SeatsAgree
  <2>2. ASSUME NEW f \in SessionFile, session' = [session EXCEPT ![p] = f],
               \/ session[p] # None /\ f.faction = session[p].faction
               \/ \E m \in AcceptedLetters(p) : f.faction = m.value
        PROVE  \A q \in Players : session'[q] # None => session'[q].faction = seat[q]
    <3>1. f.faction = seat[p]
      BY <1>1, <2>2 DEF SeatsAgree, AcceptedLetters
    <3>2. session \in [Players -> SessionFile \cup {None}]
      BY <1>1 DEF TypeOK
    <3>3. QED BY <1>1, <2>2, <3>1, <3>2 DEF SeatsAgree
  <2>3. QED BY <1>1, <2>1, <2>2, FileWritten
<1>4. QED BY <1>1, <1>2, <1>3 DEF SeatsAgree, Seated

LEMMA SeatsInit ==
    ASSUME Init PROVE SeatsInv
<1>1. TypesInv
  BY LettersInit, OpenInit DEF TypesInv
<1>2. Seated = {}
  BY DEF Init, Seated
<1>3. Cardinality(Seated) = 0
  BY <1>2, FS_EmptySet
<1>4. QED BY <1>1, <1>2, <1>3, BoundsAssumption DEF Init, SeatsInv, SeatsAgree

LEMMA SeatsStep ==
    ASSUME SeatsInv, [Next]_vars PROVE SeatsInv'
<1>1. TypesInv'
  BY TypesStep DEF SeatsInv
<1>2. SeatsAgree'
  <2>1. CASE UNCHANGED vars
    BY <2>1, SeatsKept DEF vars, store, network, files
  <2>2. QED BY <2>1, CoordinatorSeats, PlayerSeats DEF Next
<1>3. QED BY <1>1, <1>2 DEF SeatsInv

(* A faction has one holder, a match begins with every seat filled, and a    *)
(* player is told, and keeps on file, the faction on record.                 *)
THEOREM SeatsAgreed == Spec => []SeatsAgree
<1>1. SeatsInv => SeatsAgree
  BY DEF SeatsInv
<1>2. QED BY <1>1, SeatsInit, SeatsStep, PTL DEF Spec

-----------------------------------------------------------------------------
(* Sequence numbers.                                                        *)

LEMMA Sent ==
    ASSUME TypeOK, NEW p \in Players, NEW n, NEW kinds, Send(p, n, kinds)
    PROVE  /\ number'[p] = n /\ \A q \in Players \ {p} : number'[q] = number[q]
           /\ \A m \in requests' : m \in requests \/ (m.player = p /\ m.seq = n /\ m.kind \in kinds)
BY DEF Send, TypeOK

LEMMA Entered ==
    ASSUME TypeOK, NEW p \in Players, NEW point, NEW c, Enter(p, point, c)
    PROVE  at'[p] = point /\ \A q \in Players \ {p} : at'[q] = at[q]
BY DEF Enter, TypeOK

LEMMA Left ==
    ASSUME TypeOK, NEW p \in Players, Leave(p)
    PROVE  /\ at'[p] = "shell" /\ \A q \in Players \ {p} : at'[q] = at[q]
           /\ \A q \in Players \ {p} : number'[q] = number[q]
BY DEF Leave, TypeOK

(* What NumbersOf(q) speaks of is not touched, or becomes less.              *)
Framed(q) ==
    /\ at'[q] = at[q] /\ session'[q] = session[q] /\ number'[q] = number[q] /\ cut'[q] = cut[q]
    /\ lastSeen'[q] = lastSeen[q]
    /\ job' \in {job, None} \/ job'.player # q
    /\ \A m \in requests' : m.player = q => m \in requests
    /\ \A m \in mail' : m.to = q /\ m.kind = "accepted" => m \in mail

LEMMA FramedKeeps ==
    ASSUME NEW q \in Players, NumbersOf(q), Framed(q)
    PROVE  NumbersOf(q)'
<1>1. CASE q \in Programs
  BY <1>1 DEF NumbersOf, Framed
<1>2. CASE q \notin Programs
  <2>1. Counts(q)' /\ at'[q] # "program"
    BY <1>2 DEF NumbersOf, Framed, Counts
  <2>2. JoinsOnce(q)'
    BY <1>2 DEF NumbersOf, Framed, JoinsOnce, AcceptedLetters
  <2>3. Covered(q, lastSeen[q])' /\ \A m \in requests' : m.player = q => Covered(q, m.seq)'
    BY <1>2 DEF NumbersOf, Framed, Covered
  <2>4. QED BY <1>2, <2>1, <2>2, <2>3 DEF NumbersOf
<1>3. QED BY <1>1, <1>2

(* A player's step is no concern of another.                                 *)
LEMMA OthersFramed ==
    ASSUME NumbersInv, NEW p \in Players, Player(p), NEW q \in Players \ {p}
    PROVE  Framed(q)
<1>1. TypeOK /\ LettersInv /\ TypesInv
  BY DEF NumbersInv, SeatsInv, TypesInv, LettersInv
<1>2. UNCHANGED <<lastSeen, job>> /\ mail' \subseteq mail
  BY PlayerStores DEF store, memory
<1>3. at'[q] = at[q]
  BY <1>1, PlayerOpens
<1>4. session'[q] = session[q]
  <2>1. session' = session \/ \E f \in SessionFile : session' = [session EXCEPT ![p] = f]
    BY <1>1, FileWritten
  <2>2. session \in [Players -> SessionFile \cup {None}]
    BY <1>1 DEF TypeOK
  <2>3. QED BY <2>1, <2>2
<1>5. number'[q] = number[q] /\ (\A m \in requests' : m.player = q => m \in requests)
  <2>1. CASE Join(p) \/ Submit(p) \/ (\E c \in Commands : Run(p, c)) \/ \E kind \in Calls : Call(p, kind)
    <3>1. PICK n, kinds : Send(p, n, kinds)
      BY <2>1 DEF Join, Submit, Run, Call
    <3>2. QED BY <1>1, <3>1, Sent
  <2>2. CASE VerifyOffline(p) \/ \E m \in mail : Poll(p, m)
    BY <2>2 DEF VerifyOffline, Poll, network
  <2>3. CASE \/ EndPolling(p) \/ EndReceipt(p) \/ Verify(p) \/ GiveUp(p)
             \/ \E m \in mail : JoinAccepted(p, m) \/ JoinRejected(p, m)
    <3>1. requests' = requests /\ (Leave(p) \/ number' = number)
      BY <2>3 DEF EndPolling, EndReceipt, Verify, GiveUp, JoinAccepted, JoinRejected, network
    <3>2. QED BY <1>1, <3>1, Left
  <2>4. QED BY <2>1, <2>2, <2>3 DEF Player
<1>6. cut'[q] = cut[q]
  <2>1. cut' = cut \/ \E b : cut' = [cut EXCEPT ![p] = b]
    BY DEF Player, Join, JoinAccepted, JoinRejected, Poll, Run, VerifyOffline, EndPolling, Persist,
           Submit, EndReceipt, Verify, GiveUp, Call
  <2>2. QED BY <1>1, <2>1 DEF TypeOK
<1>7. QED BY <1>2, <1>3, <1>4, <1>5, <1>6 DEF Framed

(* All acceptances of a player are the same letter.                          *)
LEMMA OneAcceptance ==
    ASSUME SeatsInv, NEW p, NEW l \in AcceptedLetters(p), NEW m \in AcceptedLetters(p)
    PROVE  l = m
<1>1. mail \subseteq LetterType /\ \A k \in mail : k.kind = "accepted" => k.value = seat[k.to]
  BY DEF SeatsInv, TypesInv, LettersInv, TypeOK, SeatsAgree
<1>2. /\ l \in LetterType /\ m \in LetterType
      /\ l.value = m.value /\ l.to = m.to /\ l.kind = m.kind
  BY <1>1 DEF AcceptedLetters
<1>3. l = Letter(l.to, l.kind, l.value) /\ m = Letter(m.to, m.kind, m.value)
  BY <1>2 DEF LetterType, Letter
<1>4. QED BY <1>2, <1>3

(* The coordinator.                                                         *)
LEMMA CoordinatorFrame ==
    ASSUME Coordinator PROVE UNCHANGED <<at, session, number, cut>> /\ requests' \subseteq requests
<1>1. CASE \E m \in requests : Receive(m) \/ Drop(m)
  BY <1>1 DEF Receive, Drop, files, process
<1>2. CASE Handle
  BY <1>2 DEF Handle, Ignore, AnswerState, Reseat, Seat, Reject, AnswerJoin, network, files, process
<1>3. CASE (\E p \in Players : WindowPasses(p)) \/ Restart \/ Start \/ Publish
  BY <1>3 DEF WindowPasses, Restart, Start, Publish, network, files, process
<1>4. QED BY <1>1, <1>2, <1>3 DEF Coordinator

LEMMA Received ==
    ASSUME NumbersInv, NEW m \in requests, Receive(m), NEW p \in Players
    PROVE  NumbersOf(p)'
<1>1. TypeOK /\ NumbersOf(p) /\ UNCHANGED <<at, session, number, cut, mail>> /\ requests' \subseteq requests
  BY DEF NumbersInv, SeatsInv, TypesInv, LettersInv, Receive, files, process
<1>2. m.player \in Players /\ m.seq \in Nat /\ m.seq >= 1
  BY <1>1 DEF TypeOK, Request, NumbersInv
<1>3. CASE p # m.player
  <2>1. lastSeen'[p] = lastSeen[p] /\ job' = m
    BY <1>1, <1>2, <1>3 DEF Receive, TypeOK
  <2>2. Framed(p)
    BY <1>1, <1>3, <2>1 DEF Framed
  <2>3. QED BY <1>1, <2>2, FramedKeeps
<1>4. CASE p = m.player /\ p \in Programs
  BY <1>1, <1>4 DEF NumbersOf
<1>5. CASE p = m.player /\ p \notin Programs
  <2>1. lastSeen'[p] = m.seq /\ lastSeen[p] \in Nat /\ m.seq > lastSeen[p] /\ job' = m
    BY <1>1, <1>2, <1>5 DEF Receive, TypeOK
  <2>2. Counts(p)' /\ at'[p] # "program"
    BY <1>1, <1>5 DEF NumbersOf, Counts
  <2>3. JoinsOnce(p)'
    <3>1. JoinsOnce(p) /\ AcceptedLetters(p)' = AcceptedLetters(p)
      BY <1>1, <1>5 DEF NumbersOf, AcceptedLetters
    <3>2. QED BY <1>1, <1>2, <1>5, <2>1, <3>1 DEF JoinsOnce
  <2>4. \A r \in requests : r.player = p => Covered(p, r.seq)'
    BY <1>1, <1>5 DEF NumbersOf, Covered
  <2>5. QED BY <1>1, <1>5, <2>1, <2>2, <2>3, <2>4 DEF NumbersOf, Covered
<1>6. QED BY <1>3, <1>4, <1>5

(* Telling a player of its seat.                                             *)
LEMMA Told ==
    ASSUME NumbersInv, AnswerJoin, NEW f, mail' = mail \cup {Letter(job.player, "accepted", f)},
           UNCHANGED <<at, session, number, cut>>, NEW p \in Players
    PROVE  NumbersOf(p)'
<1>1. NumbersOf(p) /\ UNCHANGED <<lastSeen, requests>> /\ job' = None /\ job # None /\ job.kind = "join"
  BY DEF NumbersInv, AnswerJoin
<1>2. CASE p # job.player \/ p \in Programs
  <2>1. CASE p # job.player
    <3>1. Framed(p)
      BY <1>1, <2>1 DEF Framed, Letter
    <3>2. QED BY <1>1, <3>1, FramedKeeps
  <2>2. CASE p \in Programs
    BY <1>1, <2>2 DEF NumbersOf
  <2>3. QED BY <1>2, <2>1, <2>2
<1>3. CASE p = job.player /\ p \notin Programs
  <2>1. session[p] = None /\ lastSeen[p] >= 1
    BY <1>1, <1>3 DEF NumbersOf, JoinsOnce, NumbersInv
  <2>2. JoinsOnce(p)'
    BY <1>1, <1>3, <2>1 DEF NumbersOf, JoinsOnce
  <2>3. Counts(p)' /\ at'[p] # "program"
    BY <1>1, <1>3 DEF NumbersOf, Counts
  <2>4. Covered(p, lastSeen[p])' /\ \A m \in requests' : m.player = p => Covered(p, m.seq)'
    BY <1>1, <1>3 DEF NumbersOf, Covered
  <2>5. QED BY <1>1, <1>3, <2>2, <2>3, <2>4 DEF NumbersOf
<1>4. QED BY <1>2, <1>3

LEMMA CoordinatorNumbers ==
    ASSUME NumbersInv, Coordinator
    PROVE  /\ job' # None => lastSeen'[job'.player] >= 1
           /\ \A m \in requests' : m.seq >= 1
           /\ \A p \in Players : NumbersOf(p)'
<1>1. /\ TypeOK /\ UNCHANGED <<at, session, number, cut>> /\ requests' \subseteq requests
  BY CoordinatorFrame DEF NumbersInv, SeatsInv, TypesInv, LettersInv
<1>2. \A m \in requests' : m.seq >= 1
  BY <1>1 DEF NumbersInv
<1>3. ASSUME NEW m \in requests, Receive(m)
      PROVE  /\ lastSeen'[job'.player] >= 1
             /\ \A p \in Players : NumbersOf(p)'
  <2>1. m.player \in Players /\ m.seq >= 1
    BY <1>1 DEF TypeOK, Request, NumbersInv
  <2>2. lastSeen'[job'.player] >= 1
    BY <1>1, <1>3, <2>1 DEF Receive, TypeOK
  <2>3. QED BY <1>3, <2>2, Received
<1>4. CASE Reseat \/ \E f \in Factions : Seat(f)
  <2>1. AnswerJoin /\ \E f : mail' = mail \cup {Letter(job.player, "accepted", f)}
    BY <1>4 DEF Reseat, Seat
  <2>2. job' = None
    BY <2>1 DEF AnswerJoin
  <2>3. QED BY <1>1, <1>2, <2>1, <2>2, Told
<1>5. CASE \/ (\E m \in requests : Drop(m)) \/ Ignore \/ AnswerState \/ Reject
           \/ (\E p \in Players : WindowPasses(p)) \/ Restart \/ Start \/ Publish
  <2>1. UNCHANGED lastSeen /\ job' \in {job, None}
    BY <1>5 DEF Drop, Ignore, AnswerState, Reject, AnswerJoin, WindowPasses, Restart, Start, Publish,
       store, memory
  <2>2. \A m \in mail' : m.kind = "accepted" => m \in mail
    BY <1>5 DEF Drop, Ignore, AnswerState, Reject, WindowPasses, Restart, Start, Publish,
       Broadcast, Letter, network
  <2>3. \A p \in Players : Framed(p)
    BY <1>1, <2>1, <2>2 DEF Framed
  <2>4. QED BY <1>1, <1>2, <2>1, <2>3, FramedKeeps DEF NumbersInv
<1>6. QED BY <1>2, <1>3, <1>4, <1>5 DEF Coordinator, Handle

(* A step of a player, by what it must see to.                               *)
LEMMA OwnStep ==
    ASSUME NumbersInv, NEW p \in Players \ Programs, UNCHANGED lastSeen,
           Counts(p)', JoinsOnce(p)', at'[p] # "program",
           \A n \in Nat : Covered(p, n) => Covered(p, n)',
           \A m \in requests' : m.player = p => m \in requests \/ Covered(p, m.seq)'
    PROVE  NumbersOf(p)'
<1>1. /\ lastSeen[p] \in Nat /\ Covered(p, lastSeen[p])
      /\ \A m \in requests : m.seq \in Nat /\ (m.player = p => Covered(p, m.seq))
  BY DEF NumbersInv, NumbersOf, SeatsInv, TypesInv, LettersInv, TypeOK, Request
<1>2. Covered(p, lastSeen[p])'
  <2>1. lastSeen'[p] = lastSeen[p]
    OBVIOUS
  <2>2. QED BY <1>1, <2>1 DEF Covered
<1>3. \A m \in requests' : m.player = p => Covered(p, m.seq)'
  BY <1>1
<1>4. QED BY <1>2, <1>3 DEF NumbersOf

LEMMA JoinsKept ==
    ASSUME NumbersInv, NEW p \in Players \ Programs, Player(p),
           session'[p] # None => session[p] # None,
           \A m \in requests' : m.player = p /\ m.kind = "join" => m \in requests \/ m.seq = 1
    PROVE  JoinsOnce(p)'
<1>1. UNCHANGED <<lastSeen, job>> /\ mail' \subseteq mail
  BY PlayerStores DEF store, memory
<1>2. JoinsOnce(p)
  BY DEF NumbersInv, NumbersOf
<1>3. AcceptedLetters(p)' \subseteq AcceptedLetters(p)
  BY <1>1 DEF AcceptedLetters
<1>4. QED BY <1>1, <1>2, <1>3 DEF JoinsOnce

LEMMA ProgramNumbers ==
    ASSUME NumbersInv, NEW p \in Programs, Player(p)
    PROVE  NumbersOf(p)' /\ \A m \in requests' : m.seq >= 1
<1>1. p \in Players /\ TypeOK /\ NumbersOf(p)
  BY PlayersAssumption DEF NumbersInv, SeatsInv, TypesInv, LettersInv
<1>2. at[p] = "program" /\ session[p] = None
  BY <1>1 DEF NumbersOf
<1>3. PICK kind \in Calls : Call(p, kind)
  BY <1>2 DEF Player, Join, JoinAccepted, JoinRejected, Poll, Run, VerifyOffline, EndPolling,
     Submit, EndReceipt, Verify, GiveUp
<1>4. UNCHANGED <<at, session>> /\ Send(p, number[p] + 1, {kind})
  BY <1>3 DEF Call, files
<1>5. number[p] + 1 >= 1
  BY <1>1 DEF TypeOK
<1>6. \A m \in requests' : m.seq >= 1
  BY <1>1, <1>4, <1>5, Sent DEF NumbersInv
<1>7. QED BY <1>1, <1>2, <1>4, <1>6 DEF NumbersOf

LEMMA JoinedNumbers ==
    ASSUME NumbersInv, NEW p \in Players \ Programs, NEW m \in mail, m.to = p, JoinAccepted(p, m)
    PROVE  NumbersOf(p)' /\ \A r \in requests' : r.seq >= 1
<1>1. /\ TypeOK /\ Counts(p) /\ JoinsOnce(p) /\ LettersInv /\ SeatsInv
      /\ UNCHANGED <<lastSeen, job, requests>>
  BY DEF NumbersInv, NumbersOf, SeatsInv, TypesInv, LettersInv, JoinAccepted, store, memory
<1>2. m \in AcceptedLetters(p) /\ number[p] = 1 /\ session[p] = None
  BY <1>1 DEF AcceptedLetters, JoinAccepted, Counts, JoinsOnce
<1>3. DEFINE f == [faction |-> m.value, last |-> number[p], anchored |-> FALSE]
<1>4. f \in SessionFile /\ f.last = 1
  BY <1>1, <1>2 DEF AcceptedLetters, LettersInv, SessionFile
<1>5. session'[p] = f /\ f # None /\ at'[p] = "shell"
  BY <1>1, <1>4, Left, FileAssumption DEF JoinAccepted, TypeOK
<1>6. AcceptedLetters(p)' = {}
  <2>1. AcceptedLetters(p)' \subseteq AcceptedLetters(p) \ {m}
    BY DEF JoinAccepted, AcceptedLetters
  <2>2. QED BY <1>1, <1>2, <2>1, OneAcceptance
<1>7. Counts(p)'
  BY <1>4, <1>5 DEF Counts
<1>8. JoinsOnce(p)'
  BY <1>1, <1>2, <1>6 DEF JoinsOnce
<1>9. \A n \in Nat : Covered(p, n) => Covered(p, n)'
  BY <1>2, <1>4, <1>5 DEF Covered
<1>10. QED BY <1>1, <1>5, <1>7, <1>8, <1>9, OwnStep DEF NumbersInv

(* What a command knows when it is running.                                  *)
LEMMA Running ==
    ASSUME NumbersInv, NEW p \in Players \ Programs
    PROVE  /\ TypeOK /\ Counts(p) /\ JoinsOnce(p) /\ NumbersOf(p) /\ at[p] # "program"
           /\ at[p] \in Points /\ number[p] \in Nat /\ cut[p] \in BOOLEAN
           /\ session[p] # None => session[p] \in SessionFile /\ session[p].last \in Nat
           /\ at[p] \in {"polling", "compose", "receipt", "verify"} => session[p] # None
BY DEF NumbersInv, NumbersOf, SeatsInv, TypesInv, LettersInv, OpenFiles, TypeOK, SessionFile

(* Commands that send.                                                      *)
LEMMA SendingNumbers ==
    ASSUME NumbersInv, NEW p \in Players \ Programs,
           Join(p) \/ Submit(p) \/ \E c \in Commands : Run(p, c)
    PROVE  NumbersOf(p)' /\ \A r \in requests' : r.seq >= 1
<1>1. Player(p)
  BY DEF Player
<1>2. UNCHANGED lastSeen
  BY <1>1, PlayerStores DEF store
<1>3. CASE Join(p)
  <2>1. Send(p, 1, {"join"}) /\ UNCHANGED <<session, cut>> /\ at[p] = "shell" /\ at'[p] = "joining"
    BY <1>3, Running, Entered DEF Join, files
  <2>2. /\ number'[p] = 1
        /\ \A m \in requests' : m \in requests \/ (m.player = p /\ m.seq = 1)
    BY <2>1, Running, Sent
  <2>3. Counts(p)'
    BY <2>1, <2>2, Running DEF Counts
  <2>4. JoinsOnce(p)'
    BY <1>1, <2>1, <2>2, JoinsKept
  <2>5. \A n \in Nat : Covered(p, n) => Covered(p, n)'
    BY <2>1 DEF Covered
  <2>6. Covered(p, 1)'
    BY <2>1, Running DEF Covered, Counts
  <2>7. \A m \in requests' : m.player = p => m \in requests \/ Covered(p, m.seq)'
    BY <2>2, <2>6
  <2>8. NumbersOf(p)'
    BY <1>2, <2>1, <2>3, <2>4, <2>5, <2>7, OwnStep
  <2>9. QED BY <2>2, <2>8 DEF NumbersInv
<1>4. CASE Submit(p)
  <2>1. PICK n \in Nat : Send(p, n, {"other"}) /\ n = session[p].last + 1
    BY <1>4, Running DEF Submit, Counts
  <2>2. /\ UNCHANGED <<session, cut>> /\ session[p] # None
        /\ at[p] = "compose" /\ at'[p] = "receipt"
    BY <1>4, Running DEF Submit, files, TypeOK
  <2>3. /\ number'[p] = n
        /\ \A m \in requests' : m \in requests \/ (m.player = p /\ m.seq = n /\ m.kind = "other")
    BY <2>1, Running, Sent
  <2>4. Counts(p)'
    BY <2>1, <2>2, <2>3, Running DEF Counts
  <2>5. JoinsOnce(p)'
    BY <1>1, <2>2, <2>3, JoinsKept
  <2>6. \A k \in Nat : Covered(p, k) => Covered(p, k)'
    BY <2>2 DEF Covered
  <2>7. Covered(p, n)' /\ n >= 1
    BY <2>1, <2>2, <2>3, Running DEF Covered, Counts
  <2>8. \A m \in requests' : m.player = p => m \in requests \/ Covered(p, m.seq)'
    BY <2>3, <2>7
  <2>9. NumbersOf(p)'
    BY <1>2, <2>2, <2>4, <2>5, <2>6, <2>8, OwnStep
  <2>10. QED BY <2>3, <2>7, <2>9 DEF NumbersInv
<1>5. ASSUME NEW c \in Commands, Run(p, c)
      PROVE  NumbersOf(p)' /\ \A r \in requests' : r.seq >= 1
  <2>1. PICK n \in Nat : Send(p, n, Asks(c)) /\ n \in {session[p].last, session[p].last + 1}
    BY <1>5, Running DEF Run
  <2>2. /\ UNCHANGED <<session, cut>> /\ session[p] # None
        /\ at[p] = "shell" /\ at'[p] = "polling"
    BY <1>5, Running, Entered DEF Run, files
  <2>3. /\ number'[p] = n
        /\ \A m \in requests' : m \in requests \/ (m.player = p /\ m.seq = n /\ m.kind # "join")
    BY <2>1, Running, Sent DEF Asks
  <2>4. Counts(p)'
    BY <2>1, <2>2, <2>3, Running DEF Counts
  <2>5. JoinsOnce(p)'
    BY <1>1, <2>2, <2>3, JoinsKept
  <2>6. \A k \in Nat : Covered(p, k) => Covered(p, k)'
    BY <2>2 DEF Covered
  <2>7. Covered(p, n)' /\ n >= 1
    BY <2>1, <2>2, <2>3, Running DEF Covered, Counts
  <2>8. \A m \in requests' : m.player = p => m \in requests \/ Covered(p, m.seq)'
    BY <2>3, <2>7
  <2>9. NumbersOf(p)'
    BY <1>2, <2>2, <2>4, <2>5, <2>6, <2>8, OwnStep
  <2>10. QED BY <2>3, <2>7, <2>9 DEF NumbersInv
<1>6. QED BY <1>3, <1>4, <1>5

(* Commands that write the number back.                                     *)
LEMMA Persisted ==
    ASSUME NumbersInv, NEW p \in Players \ Programs, EndPolling(p) \/ EndReceipt(p)
    PROVE  NumbersOf(p)' /\ \A r \in requests' : r.seq >= 1
<1>1. Player(p) /\ Persist(p) /\ UNCHANGED requests /\ at[p] \in {"polling", "receipt"}
  BY DEF Player, EndPolling, EndReceipt, network
<1>2. UNCHANGED lastSeen
  BY <1>1, PlayerStores DEF store
<1>3. session[p] # None /\ number[p] \in {session[p].last, session[p].last + 1}
  BY <1>1, Running DEF Counts
<1>4. LettersInv
  BY DEF NumbersInv, SeatsInv, TypesInv
<1>5. PICK f \in SessionFile : session' = [session EXCEPT ![p] = f] /\ f.last = number[p]
  BY <1>1, <1>3, <1>4, PersistFile
<1>6. session'[p] = f /\ f # None
  BY <1>5, Running, FileAssumption DEF TypeOK
<1>7. cut'[p] = (cut[p] /\ number[p] = session[p].last)
  BY <1>1, Running DEF Persist, TypeOK
<1>8. at'[p] \in {"shell", "verify"} \/ (at'[p] = "compose" /\ number'[p] = number[p])
  <2>1. Leave(p) => at'[p] = "shell"
    BY Left, Running
  <2>2. QED BY <2>1, Running DEF EndPolling, EndReceipt, TypeOK
<1>9. Counts(p)'
  BY <1>3, <1>5, <1>6, <1>8, Running DEF Counts
<1>10. JoinsOnce(p)'
  BY <1>1, <1>3, JoinsKept
<1>11. \A n \in Nat : Covered(p, n) => Covered(p, n)'
  BY <1>3, <1>5, <1>6, <1>7, Running DEF Covered
<1>12. QED BY <1>1, <1>2, <1>8, <1>9, <1>10, <1>11, OwnStep DEF NumbersInv

(* The other commands.                                                      *)
LEMMA QuietNumbers ==
    ASSUME NumbersInv, NEW p \in Players \ Programs,
           \/ VerifyOffline(p) \/ Verify(p) \/ GiveUp(p)
           \/ \E m \in mail : JoinRejected(p, m) \/ Poll(p, m)
    PROVE  NumbersOf(p)' /\ \A r \in requests' : r.seq >= 1
<1>1. Player(p) \/ \E m \in mail : JoinRejected(p, m) \/ Poll(p, m)
  BY DEF Player
<1>2. UNCHANGED <<lastSeen, job, requests>> /\ mail' \subseteq mail
  BY DEF VerifyOffline, Verify, GiveUp, JoinRejected, Poll, store, memory, network
<1>3. /\ session[p] # None => session'[p] # None /\ session'[p].last = session[p].last
      /\ session[p] = None => session'[p] = None
  <2>1. CASE Verify(p)
    <3>1. session[p] \in SessionFile /\ Anchored(p) \in BOOLEAN
      BY <2>1, Running DEF Verify, Anchored, SessionFile, TypeOK
    <3>2. DEFINE f == [session[p] EXCEPT !.anchored = Anchored(p)]
    <3>3. f \in SessionFile /\ f.last = session[p].last
      BY <3>1 DEF SessionFile
    <3>4. session'[p] = f /\ f # None /\ session[p] # None
      BY <2>1, <3>1, <3>3, Running, FileAssumption DEF Verify, TypeOK
    <3>5. QED BY <3>3, <3>4
  <2>2. CASE UNCHANGED session
    BY <2>2
  <2>3. QED BY <2>1, <2>2 DEF VerifyOffline, GiveUp, JoinRejected, Poll, files
<1>4. /\ at'[p] \in {"shell", "verify"} \/ (at'[p] = "polling" /\ at[p] = "polling" /\ number' = number)
      /\ cut[p] => cut'[p]
      /\ at[p] \in {"polling", "receipt"} => cut'[p] \/ (at'[p] = "polling" /\ number' = number)
  <2>1. Leave(p) => at'[p] = "shell"
    BY Left, Running
  <2>2. CASE GiveUp(p)
    BY <2>1, <2>2, Running DEF GiveUp, TypeOK
  <2>3. CASE VerifyOffline(p)
    BY <2>3, Running, Entered DEF VerifyOffline
  <2>4. CASE Verify(p)
    BY <2>1, <2>4 DEF Verify
  <2>5. CASE \E m \in mail : JoinRejected(p, m) \/ Poll(p, m)
    BY <2>1, <2>5 DEF JoinRejected, Poll
  <2>6. QED BY <2>2, <2>3, <2>4, <2>5
<1>5. Counts(p)'
  BY <1>3, <1>4, Running DEF Counts
<1>6. JoinsOnce(p)'
  BY <1>2, <1>3, Running DEF JoinsOnce, AcceptedLetters
<1>7. \A n \in Nat : Covered(p, n) => Covered(p, n)'
  BY <1>3, <1>4, Running DEF Covered, Counts
<1>8. QED BY <1>2, <1>4, <1>5, <1>6, <1>7, OwnStep DEF NumbersInv

LEMMA PlayerNumbers ==
    ASSUME NumbersInv, NEW p \in Players, Player(p)
    PROVE  /\ job' # None => lastSeen'[job'.player] >= 1
           /\ \A r \in requests' : r.seq >= 1
           /\ \A q \in Players : NumbersOf(q)'
<1>1. job' # None => lastSeen'[job'.player] >= 1
  BY PlayerStores DEF store, memory, NumbersInv
<1>2. NumbersOf(p)' /\ \A r \in requests' : r.seq >= 1
  <2>1. CASE p \in Programs
    BY <2>1, ProgramNumbers
  <2>2. CASE p \notin Programs
    <3>1. \A kind \in Calls : ~Call(p, kind)
      BY <2>2, Running DEF Call
    <3>2. QED BY <2>2, <3>1, JoinedNumbers, SendingNumbers, Persisted, QuietNumbers DEF Player
  <2>3. QED BY <2>1, <2>2
<1>3. \A q \in Players \ {p} : NumbersOf(q)'
  BY OthersFramed, FramedKeeps DEF NumbersInv
<1>4. QED BY <1>1, <1>2, <1>3

LEMMA NumbersInit ==
    ASSUME Init PROVE NumbersInv
<1>1. SeatsInv
  BY SeatsInit
<1>2. ASSUME NEW p \in Players PROVE NumbersOf(p)
  BY DEF Init, NumbersOf, Counts, JoinsOnce, AcceptedLetters, Covered
<1>3. QED BY <1>1, <1>2 DEF Init, NumbersInv

LEMMA NumbersStep ==
    ASSUME NumbersInv, [Next]_vars PROVE NumbersInv'
<1>1. SeatsInv'
  BY SeatsStep DEF NumbersInv
<1>2. CASE UNCHANGED vars
  <2>1. \A p \in Players : Framed(p)
    BY <1>2 DEF Framed, vars, store, memory, network, files, process
  <2>2. QED BY <1>1, <1>2, <2>1, FramedKeeps DEF NumbersInv, vars, store, memory, network
<1>3. QED BY <1>1, <1>2, CoordinatorNumbers, PlayerNumbers DEF Next, NumbersInv

(* Every number a player has on its way or on record is covered by its       *)
(* session file or by the command that runs.                                *)
THEOREM NumbersInvariant == Spec => []NumbersInv
BY NumbersInit, NumbersStep, PTL DEF Spec

(* A number a player has used is on file, or one ahead of it while a command *)
(* runs or after one was interrupted.                                        *)
THEOREM NumbersAreCarried == Spec => []NumbersCarried
<1>1. NumbersInv => NumbersCarried
  <2>1. SUFFICES ASSUME NumbersInv, NEW p \in Players, session[p] # None, NEW n \in Used(p)
                 PROVE  n <= session[p].last +
                             (IF cut[p] \/ at[p] \in {"polling", "receipt"} THEN 1 ELSE 0)
    BY DEF NumbersCarried
  <2>2. p \notin Programs
    BY <2>1 DEF NumbersInv, NumbersOf
  <2>3. n \in Nat /\ Covered(p, n)
    BY <2>1, <2>2 DEF NumbersInv, NumbersOf, Used, SeatsInv, TypesInv, LettersInv, TypeOK, Request
  <2>4. QED BY <2>1, <2>2, <2>3, Running DEF Covered, Counts
<1>2. QED BY <1>1, NumbersInit, NumbersStep, PTL DEF Spec

-----------------------------------------------------------------------------
(* What `verify` says of a log.                                             *)

(* Any set of naturals that is not empty has a least element.                *)
LEMMA LeastNumber ==
    ASSUME NEW T, T \subseteq Nat, T # {}
    PROVE  \E m \in T : \A n \in T : ~(n < m)
<1> DEFINE R == OpToRel(<, Nat)
<1>1. IsWellFoundedOn(R, Nat)
  BY NatLessThanWellFounded
<1>2. \A x, y \in Nat : x < y => <<x, y>> \in R
  BY DEF OpToRel
<1> HIDE DEF R
<1>3. PICK m \in T : \A n \in T : ~(<<n, m>> \in R)
  BY <1>1, WFMin
<1>4. QED BY <1>2, <1>3

(* Comparing neighbours is enough: at the first place where the links were   *)
(* not a run, the one before it is, and its successor would differ.         *)
LEMMA SegmentIsUnbroken ==
    ASSUME published \in Nat, NEW links \in Seq(1..published), links # <<>>
    PROVE  Segment(links) <=> Broken(links) = {}
<1> DEFINE n == Len(links)
           first == links[1]
<1>1. n \in Nat /\ n >= 1 /\ links = [i \in 1..n |-> links[i]]
      /\ \A i \in 1..n : links[i] \in 1..published
  OBVIOUS
<1>2. first \in 1..published
  BY <1>1
<1>3. ASSUME Segment(links) PROVE Broken(links) = {}
  <2>1. PICK f \in 1..published : links = [i \in 1..n |-> f + i - 1]
    BY <1>3 DEF Segment
  <2>2. SUFFICES ASSUME NEW i \in 2..n PROVE links[i] = links[i - 1] + 1
    BY DEF Broken
  <2>3. i - 1 \in 1..n /\ i \in 1..n
    BY <1>1
  <2>4. links[i] = f + i - 1 /\ links[i - 1] = f + (i - 1) - 1
    BY <2>1, <2>3
  <2>5. QED BY <1>1, <2>4
<1>4. ASSUME Broken(links) = {} PROVE Segment(links)
  <2> DEFINE T == {i \in 1..n : links[i] # first + i - 1}
  <2>1. ASSUME T # {} PROVE FALSE
    <3> HIDE DEF T
    <3>1. PICK m \in T : \A k \in T : ~(k < m)
      <4>1. T \subseteq Nat
        BY <1>1 DEF T
      <4>2. QED BY <2>1, <4>1, LeastNumber
    <3> USE DEF T
    <3>2. m \in 1..n /\ links[m] # first + m - 1
      OBVIOUS
    <3>3. m # 1
      BY <1>2, <3>2
    <3>4. m - 1 \in 1..n /\ m \in 2..n
      BY <1>1, <3>2, <3>3
    <3>5. links[m - 1] = first + (m - 1) - 1
      BY <3>1, <3>4
    <3>6. links[m] = links[m - 1] + 1
      BY <1>4, <3>4 DEF Broken
    <3>7. first \in Nat /\ m \in Nat
      BY <1>2, <3>2
    <3> HIDE DEF first, T
    <3>8. QED BY <3>2, <3>5, <3>6, <3>7
  <2>2. \A i \in 1..n : links[i] = first + i - 1
    BY <2>1
  <2> HIDE DEF first
  <2>3. links = [i \in 1..n |-> first + i - 1]
    BY <1>1, <2>2
  <2>4. QED BY <1>2, <2>3 DEF Segment
<1>5. QED BY <1>3, <1>4

LEMMA FileLinks ==
    ASSUME VerdictInv, NEW p \in Players, report[p] # "none"
    PROVE  OnFile(log[p], session[p].anchored) \in Seq(1..published)
<1>1. /\ log[p] \in Seq(Nat) /\ published \in Nat /\ session[p] # None
      /\ Range(log[p]) \subseteq 1..published
      /\ session[p].anchored => published >= 1
  BY DEF VerdictInv, TypesInv, LettersInv, TypeOK, LinksPublished, ReportStands
<1> DEFINE P == 1..published
           lines == log[p]
<1>2. session[p].anchored => 1 \in P
  BY <1>1
<1>3. lines \in Seq(Nat) /\ Range(lines) \subseteq P
  BY <1>1
<1> HIDE DEF P, lines
<1>4. \A i \in DOMAIN lines : lines[i] \in P
  BY <1>3 DEF Range
<1>5. lines \in Seq(P)
  <2>1. Len(lines) \in Nat /\ lines = [i \in 1..Len(lines) |-> lines[i]]
        /\ \A i \in 1..Len(lines) : lines[i] \in P
    BY <1>3, <1>4
  <2>2. lines \in [1..Len(lines) -> P]
    BY <2>1
  <2>3. QED BY <2>1, <2>2, SeqDef
<1>6. CASE session[p].anchored
  <2>1. <<1>> \in Seq(P)
    BY <1>2, <1>6
  <2>2. <<1>> \o lines \in Seq(P)
    BY <1>5, <2>1, ConcatProperties
  <2>3. QED BY <1>6, <2>2 DEF OnFile, P, lines
<1>7. CASE ~session[p].anchored
  <2>1. <<>> \o lines \in Seq(P)
    BY <1>5, ConcatProperties
  <2>2. QED BY <1>7, <2>1 DEF OnFile, P, lines
<1>8. QED BY <1>6, <1>7

(* The coordinator takes no link back, and sends none that is not published. *)
LEMMA CoordinatorPublishes ==
    ASSUME VerdictInv, Coordinator
    PROVE  /\ UNCHANGED <<files, process>>
           /\ published' \in Nat /\ published' >= published
           /\ status' = "LOBBY" => published' = 0
           /\ \A m \in mail' : /\ m.kind = "result" => m.value \in 1..published'
                               /\ m.kind = "start" => published' >= 1
<1>1. LinksPublished /\ published \in Nat /\ status \in {"LOBBY", "ACTIVE"}
  BY DEF VerdictInv, TypesInv, LettersInv, TypeOK
<1>2. CASE (\E m \in requests : Receive(m) \/ Drop(m)) \/ (\E p \in Players : WindowPasses(p))
           \/ Restart \/ Ignore
  <2>1. UNCHANGED <<files, process>> /\ published' = published /\ status' = status
        /\ mail' = mail
    BY <1>2 DEF Receive, Drop, WindowPasses, Restart, Ignore, store, network
  <2>2. QED BY <1>1, <2>1 DEF LinksPublished
<1>3. CASE AnswerState \/ Reseat \/ (\E f \in Factions : Seat(f)) \/ Reject
  <2>1. UNCHANGED <<files, process>> /\ published' = published /\ status' = status
    BY <1>3 DEF AnswerState, AnswerJoin, Reseat, Seat, Reject, store
  <2>2. \E m : mail' = mail \cup {m} /\ m.kind \notin {"start", "result"}
    <3>1. ASSUME NEW kind \in {"state", "accepted", "rejected"}, NEW v,
                 mail' = mail \cup {Letter(job.player, kind, v)}
          PROVE  \E m : mail' = mail \cup {m} /\ m.kind \notin {"start", "result"}
      <4>1. Letter(job.player, kind, v).kind \notin {"start", "result"}
        BY DEF Letter
      <4>2. QED BY <3>1, <4>1
    <3>2. QED BY <1>3, <3>1 DEF AnswerState, Reseat, Seat, Reject
  <2>3. QED BY <1>1, <2>1, <2>2 DEF LinksPublished
<1>4. CASE Start \/ Publish
  <2>1. PICK kind \in {"start", "result"} :
            /\ Broadcast(kind, published') /\ published' = published + 1
            /\ status' = "ACTIVE" /\ UNCHANGED <<files, process>>
    BY <1>1, <1>4 DEF Start, Publish, LinksPublished
  <2>2. \A m \in mail' : m \in mail \/ m.value = published'
    BY <2>1 DEF Broadcast, Letter
  <2>3. QED BY <1>1, <2>1, <2>2 DEF LinksPublished
<1>5. QED BY <1>2, <1>3, <1>4 DEF Coordinator, Handle

LEMMA CoordinatorVerdicts ==
    ASSUME VerdictInv, Coordinator PROVE VerdictInv'
<1>1. TypesInv' /\ LinksPublished /\ published \in Nat
  BY TypesStep DEF VerdictInv, TypesInv, LettersInv, TypeOK, Next
<1>2. /\ UNCHANGED <<log, session, at, heard, report>>
      /\ published' \in Nat /\ published' >= published
      /\ status' = "LOBBY" => published' = 0
      /\ \A m \in mail' : /\ m.kind = "result" => m.value \in 1..published'
                          /\ m.kind = "start" => published' >= 1
  BY CoordinatorPublishes DEF files, process
<1>3. 1..published \subseteq 1..published'
  BY <1>1, <1>2
<1>4. LinksPublished'
  BY <1>1, <1>2, <1>3 DEF LinksPublished
<1>5. \A p \in Players : ReportStands(p)'
  BY <1>2 DEF VerdictInv, ReportStands
<1>6. QED BY <1>1, <1>4, <1>5 DEF VerdictInv

(* What the verdicts rest on is untouched at every other player.             *)
Unread(q) ==
    /\ at'[q] = at[q] /\ report'[q] = report[q] /\ log'[q] = log[q]
    /\ heard'[q] = heard[q] /\ session'[q] = session[q]

LEMMA OthersUnread ==
    ASSUME TypesInv, NEW p \in Players, Player(p), NEW q \in Players \ {p}
    PROVE  Unread(q)
<1>1. TypeOK
  BY DEF TypesInv, LettersInv
<1>2. at'[q] = at[q]
  BY PlayerOpens
<1>3. session'[q] = session[q]
  <2>1. session' = session \/ \E f \in SessionFile : session' = [session EXCEPT ![p] = f]
    BY FileWritten
  <2>2. QED BY <1>1, <2>1 DEF TypeOK
<1>4. report'[q] = report[q]
  <2>1. report' = report \/ \E r : report' = [report EXCEPT ![p] = r]
    BY DEF Player, Join, JoinAccepted, JoinRejected, Poll, Run, VerifyOffline, EndPolling,
           Submit, EndReceipt, Verify, GiveUp, Call, Enter
  <2>2. QED BY <1>1, <2>1 DEF TypeOK
<1>5. heard'[q] = heard[q]
  <2>1. heard' = heard \/ \E h : heard' = [heard EXCEPT ![p] = h]
    BY DEF Player, Join, JoinAccepted, JoinRejected, Poll, LogResult, Note, Run,
           VerifyOffline, EndPolling, Submit, EndReceipt, Verify, GiveUp, Call, Enter, Leave
  <2>2. QED BY <1>1, <2>1 DEF TypeOK
<1>6. log'[q] = log[q]
  <2>1. log' = log \/ \E l : log' = [log EXCEPT ![p] = l]
    BY DEF Player, Join, JoinAccepted, JoinRejected, Poll, LogResult, Note, Run,
           VerifyOffline, EndPolling, Submit, EndReceipt, Verify, GiveUp, Call, files
  <2>2. QED BY <1>1, <2>1 DEF TypeOK
<1>7. QED BY <1>2, <1>3, <1>4, <1>5, <1>6 DEF Unread

(* What a player has of the coordinator.                                     *)
Informed(p) ==
    /\ Range(log[p]) \subseteq 1..published
    /\ "start" \in heard[p] => published >= 1
    /\ session[p] # None /\ session[p].anchored => published >= 1

(* A message that is polled ends up in the log or among what was heard.      *)
LEMMA PollInforms ==
    ASSUME VerdictInv, NEW p \in Players, NEW m \in mail, Poll(p, m)
    PROVE  Informed(p)' /\ ReportStands(p)'
<1>1. /\ TypeOK /\ LinksPublished /\ Informed(p) /\ ReportStands(p)
  BY DEF VerdictInv, TypesInv, LettersInv, LinksPublished, Informed
<1>2. /\ at[p] = "polling" /\ session' = session /\ at' = at /\ report' = report
      /\ published' = published
  BY DEF Poll, store
<1>3. ReportStands(p)'
  BY <1>1, <1>2 DEF ReportStands
<1>4. CASE LogResult(p, m)
  <2>1. heard' = heard /\ m.value \in 1..published
    BY <1>1, <1>4 DEF LogResult, LinksPublished
  <2>2. log'[p] = log[p] \/ log'[p] = Append(log[p], m.value)
    BY <1>1, <1>4 DEF LogResult, TypeOK
  <2> DEFINE P == 1..published
             lines == log[p]
             longer == Append(lines, m.value)
  <2>3. lines \in Seq(Nat) /\ Range(lines) \subseteq P /\ m.value \in P /\ m.value \in Nat
    BY <1>1, <2>1 DEF TypeOK, Informed
  <2> HIDE DEF P, lines
  <2>4. Range(longer) \subseteq P
    <3>1. /\ DOMAIN longer = 1..(Len(lines) + 1) /\ DOMAIN lines = 1..Len(lines)
          /\ Len(lines) \in Nat
          /\ longer[Len(lines) + 1] = m.value
          /\ \A i \in 1..Len(lines) : longer[i] = lines[i]
      BY <2>3, AppendProperties
    <3> HIDE DEF longer
    <3>2. \A i \in DOMAIN longer : longer[i] \in P
      BY <2>3, <3>1 DEF Range
    <3>3. QED BY <3>2 DEF Range
  <2>5. Range(log'[p]) \subseteq P
    BY <2>2, <2>3, <2>4 DEF lines
  <2>6. Informed(p)'
    BY <1>1, <1>2, <2>1, <2>5 DEF Informed, P
  <2>7. QED BY <1>3, <2>6
<1>5. CASE Note(p, m)
  <2>1. log' = log /\ heard'[p] \subseteq heard[p] \cup {m.kind}
    BY <1>1, <1>5 DEF Note, TypeOK
  <2>2. "start" \in heard'[p] => published >= 1
    BY <1>1, <2>1 DEF Informed, LinksPublished
  <2>3. Informed(p)'
    BY <1>1, <1>2, <2>1, <2>2 DEF Informed
  <2>4. QED BY <1>3, <2>3
<1>6. QED BY <1>4, <1>5 DEF Poll

(* Verify reports what it finds on file, with the anchor it has just kept.   *)
LEMMA VerifyReports ==
    ASSUME VerdictInv, NEW p \in Players, Verify(p)
    PROVE  Informed(p)' /\ ReportStands(p)'
<1>1. TypeOK /\ Informed(p) /\ session[p] \in SessionFile
  BY DEF VerdictInv, TypesInv, LettersInv, LinksPublished, Informed, Verify, OpenFiles, TypeOK
<1> DEFINE f == [session[p] EXCEPT !.anchored = Anchored(p)]
<1>2. f \in SessionFile /\ f.anchored = Anchored(p)
  BY <1>1 DEF Anchored, SessionFile
<1>3. session'[p] = f /\ f # None
  BY <1>1, <1>2, FileAssumption DEF Verify, TypeOK
<1> HIDE DEF f
<1>4. /\ at'[p] = "shell" /\ log' = log /\ published' = published /\ heard'[p] = {}
      /\ report'[p] = Verdict(OnFile(log[p], Anchored(p)))
  BY <1>1 DEF Verify, Leave, TypeOK, store
<1>5. ReportStands(p)'
  BY <1>2, <1>3, <1>4 DEF ReportStands, Verdict, OnFile, Broken
<1>6. Anchored(p) => published >= 1
  BY <1>1, FileAssumption DEF Anchored, Informed
<1>7. Informed(p)'
  BY <1>1, <1>2, <1>3, <1>4, <1>6 DEF Informed
<1>8. QED BY <1>5, <1>7

LEMMA PlayerVerdicts ==
    ASSUME VerdictInv, NEW p \in Players, Player(p)
    PROVE  Informed(p)' /\ ReportStands(p)'
<1>1. TypeOK /\ TypesInv /\ Informed(p) /\ ReportStands(p)
  BY DEF VerdictInv, TypesInv, LettersInv, LinksPublished, Informed
<1>2. published' = published
  BY PlayerStores DEF store
<1>3. CASE Join(p) \/ VerifyOffline(p) \/ \E c \in Commands : Run(p, c)
  <2>1. /\ log' = log /\ session' = session /\ heard'[p] = {} /\ report'[p] = "none"
    BY <1>1, <1>3 DEF Join, VerifyOffline, Run, Enter, TypeOK, files
  <2>2. QED BY <1>1, <1>2, <2>1 DEF Informed, ReportStands
<1>4. CASE \E m \in mail : m.to = p /\ JoinAccepted(p, m)
  <2>1. PICK m \in mail : JoinAccepted(p, m)
    BY <1>4
  <2>2. /\ at[p] = "joining" /\ log' = log /\ heard'[p] = {} /\ report' = report
        /\ session'[p] = [faction |-> m.value, last |-> number[p], anchored |-> FALSE]
    BY <1>1, <2>1 DEF JoinAccepted, Leave, TypeOK
  <2>3. session'[p].anchored = FALSE
    BY <2>2
  <2>4. Informed(p)'
    BY <1>1, <1>2, <2>2, <2>3 DEF Informed
  <2>5. report'[p] = "none"
    BY <1>1, <2>2 DEF ReportStands
  <2>6. QED BY <2>4, <2>5 DEF ReportStands
<1>5. CASE GiveUp(p) \/ \E m \in mail : m.to = p /\ JoinRejected(p, m)
  <2>1. /\ at[p] # "shell" /\ log' = log /\ session' = session /\ heard'[p] = {}
        /\ report' = report
    BY <1>1, <1>5 DEF GiveUp, JoinRejected, Leave, TypeOK, files
  <2>2. QED BY <1>1, <1>2, <2>1 DEF Informed, ReportStands
<1>6. CASE EndPolling(p) \/ EndReceipt(p)
  <2>1. session[p] \in SessionFile /\ Persist(p)
    BY <1>1, <1>6 DEF TypesInv, OpenFiles, TypeOK, EndPolling, EndReceipt
  <2>2. session'[p].anchored = session[p].anchored
    BY <1>1, <2>1 DEF Persist, TypeOK, SessionFile
  <2>3. /\ at[p] \in {"polling", "receipt"} /\ log' = log /\ report' = report
        /\ heard'[p] \subseteq heard[p]
    BY <1>1, <1>6 DEF EndPolling, EndReceipt, Leave, TypeOK
  <2>4. session[p] # None
    BY <2>1, FileAssumption
  <2>5. QED BY <1>1, <1>2, <2>2, <2>3, <2>4 DEF Informed, ReportStands
<1>7. CASE Submit(p) \/ \E kind \in Calls : Call(p, kind)
  <2>1. /\ at[p] # "shell" /\ log' = log /\ session' = session /\ heard' = heard
        /\ report' = report
    BY <1>7 DEF Submit, Call, files
  <2>2. QED BY <1>1, <1>2, <2>1 DEF Informed, ReportStands
<1>8. QED BY <1>3, <1>4, <1>5, <1>6, <1>7, PollInforms, VerifyReports DEF Player

LEMMA VerdictStep ==
    ASSUME VerdictInv, [Next]_vars PROVE VerdictInv'
<1>1. TypesInv /\ TypesInv' /\ LinksPublished
  BY TypesStep DEF VerdictInv
<1>2. CASE Coordinator
  BY <1>2, CoordinatorVerdicts
<1>3. ASSUME NEW p \in Players, Player(p) PROVE VerdictInv'
  <2>1. published' = published /\ status' = status /\ mail' \subseteq mail
    BY <1>3, PlayerStores DEF store
  <2>2. ASSUME NEW q \in Players \ {p} PROVE Informed(q)' /\ ReportStands(q)'
    <3>1. Unread(q) /\ Informed(q) /\ ReportStands(q)
      BY <1>1, <1>3, OthersUnread DEF VerdictInv, LinksPublished, Informed
    <3>2. QED BY <2>1, <3>1 DEF Unread, Informed, ReportStands
  <2>3. \A q \in Players : Informed(q)' /\ ReportStands(q)'
    BY <1>3, <2>2, PlayerVerdicts
  <2>4. LinksPublished'
    BY <1>1, <2>1, <2>3 DEF LinksPublished, Informed
  <2>5. QED BY <1>1, <2>3, <2>4 DEF VerdictInv
<1>4. CASE UNCHANGED vars
  <2>1. LinksPublished'
    BY <1>1, <1>4 DEF vars, store, network, files, process, LinksPublished
  <2>2. \A p \in Players : ReportStands(p)'
    BY <1>4 DEF vars, files, process, VerdictInv, ReportStands
  <2>3. QED BY <1>1, <2>1, <2>2 DEF VerdictInv
<1>5. QED BY <1>2, <1>3, <1>4 DEF Next

LEMMA VerdictInit ==
    ASSUME Init PROVE VerdictInv
<1>1. TypesInv
  BY LettersInit, OpenInit DEF TypesInv
<1>2. LinksPublished
  <2>1. \A p \in Players : Range(log[p]) \subseteq 1..published
    BY DEF Init, Range
  <2>2. \A p \in Players : heard[p] = {} /\ session[p] = None
    BY DEF Init
  <2>3. published = 0 /\ mail = {}
    BY DEF Init
  <2>4. QED BY <2>1, <2>2, <2>3 DEF LinksPublished
<1>3. \A p \in Players : ReportStands(p)
  BY DEF Init, ReportStands
<1>4. QED BY <1>1, <1>2, <1>3 DEF VerdictInv

(* Comparing each link of a log with the one before it tells exactly the     *)
(* unbroken logs from the others, whatever broadcasts were missed, late or   *)
(* out of order, and whichever commands were interrupted.                   *)
THEOREM VerdictIsExact == Spec => []VerdictExact
<1>1. VerdictInv => VerdictExact
  <2>1. SUFFICES ASSUME VerdictInv, NEW p \in Players, report[p] \in {"OK", "MISMATCH"}
                 PROVE  report[p] = "OK" <=> Segment(OnFile(log[p], session[p].anchored))
    BY DEF VerdictExact
  <2> DEFINE links == OnFile(log[p], session[p].anchored)
  <2>2. links \in Seq(1..published) /\ report[p] = Verdict(links) /\ published \in Nat
    BY <2>1, FileLinks DEF VerdictInv, ReportStands, TypesInv, LettersInv, TypeOK
  <2> HIDE DEF links
  <2>3. links # <<>> /\ (report[p] = "OK" <=> Broken(links) = {})
    BY <2>1, <2>2 DEF Verdict
  <2>4. Segment(links) <=> Broken(links) = {}
    BY <2>2, <2>3, SegmentIsUnbroken
  <2>5. QED BY <2>3, <2>4 DEF links
<1>2. QED BY <1>1, VerdictInit, VerdictStep, PTL DEF Spec
=============================================================================
