------------------------------ MODULE Session ------------------------------
(***************************************************************************)
(* Players: joining the lobby (coordinator/lobby.py behind the replay guard *)
(* of handle_inbound) and the sessions of client/cli.py.                    *)
(*                                                                          *)
(* A command of the CLI is a process of its own: it reads the session file, *)
(* counts on from the sequence number kept there, sends, polls for a while, *)
(* writes the number back and exits.  It can be interrupted anywhere.  What *)
(* is broadcast is only seen by a process that is polling; the results seen *)
(* are appended to a log, which `verify` checks link by link.               *)
(*                                                                          *)
(* A player runs one command at a time.  A player in Programs is a program  *)
(* that keeps one PlayerClient, as the integration tests do.  Messages are  *)
(* delivered at most once, late, in any order, or never.                    *)
(***************************************************************************)
EXTENDS Naturals, Sequences, FiniteSets, Functions

CONSTANTS
    Players,
    Programs,        \* the players that are one long-lived PlayerClient
    Factions,        \* FACTIONS
    Seats,           \* MAX_PLAYERS
    MaxAttempts,     \* _JOIN_RATE_LIMIT_MAX_ATTEMPTS
    Commands,        \* the commands of the CLI that are used
    Calls,           \* the messages programs send
    None,
    MaxNumber,       \* bound: sequence numbers a player of the CLI draws
    MaxCalls,        \* bound: messages the programs send, together
    MaxResults       \* bound: links of the hash chain

ASSUME PlayersAssumption == Programs \subseteq Players /\ IsFiniteSet(Players)
ASSUME NoneAssumption == None \notin Factions \cup Nat \cup Players
ASSUME CallsAssumption == Calls \subseteq {"join", "state", "other"}
ASSUME BoundsAssumption ==
    Seats \in Nat /\ MaxAttempts \in Nat /\ MaxNumber \in Nat /\ MaxCalls \in Nat /\ MaxResults \in Nat

VARIABLES
    status,          \* of the match row
    seat,            \* table players: the faction of a player, or None
    lastSeen,        \* table sender_sequence_numbers, 0 where there is no row
    attempts,        \* _recent_join_attempts, counted
    job,             \* the recorded message being handled
    published,       \* links of the hash chain so far; link 1 is MATCH_START
    requests,        \* messages on their way to the coordinator
    mail,            \* messages on their way to the players
    session,         \* session.json of a player, or None
    log,             \* phase_results.jsonl of a player
    at,              \* control point of the player's process
    command,         \* the command it executes
    number,          \* PlayerClient._sequence_number
    heard,           \* what it has heard of: a STATE_RESPONSE, the MATCH_START
    report,          \* what the last `verify` printed
    cut              \* history: interrupted after drawing a number, none written since

store   == <<status, seat, lastSeen, published>>
memory  == <<attempts, job>>
network == <<requests, mail>>
files   == <<session, log>>
process == <<at, command, number, heard, report, cut>>
vars    == <<store, memory, network, files, process>>

Request == [player: Players, seq: Nat, kind: {"join", "state", "other"}]

LetterType == [to: Players, kind: {"accepted", "rejected", "start", "result", "state"},
               value: Factions \cup Nat \cup {None}]

SessionFile == [faction: Factions, last: Nat, anchored: BOOLEAN]

ASSUME FileAssumption == None \notin SessionFile \cup Request

Points == {"shell", "joining", "polling", "compose", "receipt", "verify", "program"}

-----------------------------------------------------------------------------
(* The lobby.                                                               *)

Seated == {p \in Players : seat[p] # None}

(* Mutant: the factions already taken are offered again.                    *)
Offered == Factions

Available == Factions \ {seat[p] : p \in Seated}

Letter(p, kind, value) == [to |-> p, kind |-> kind, value |-> value]

(* _broadcast_to_all.                                                       *)
Broadcast(kind, value) == mail' = mail \cup {Letter(p, kind, value) : p \in Seated}

(* handle_inbound records the number before the handler runs; one that is   *)
(* not newer than the last is dropped without an answer.                    *)
Receive(m) ==
    /\ job = None
    /\ m.seq > lastSeen[m.player]
    /\ lastSeen' = [lastSeen EXCEPT ![m.player] = m.seq]
    /\ job' = m
    /\ requests' = requests \ {m}
    /\ UNCHANGED <<status, seat, published, attempts, mail, files, process>>

Drop(m) ==
    /\ job = None
    /\ m.seq <= lastSeen[m.player]
    /\ requests' = requests \ {m}
    /\ UNCHANGED <<store, memory, mail, files, process>>

Limited == attempts[job.player] >= MaxAttempts

Ignore ==
    /\ job # None
    /\ \/ job.kind = "join" /\ Limited
       \/ job.kind = "other"
       \/ job.kind = "state" /\ published = 0
    /\ job' = None
    /\ UNCHANGED <<store, attempts, network, files, process>>

(* _on_state_request, once there is a result to answer with.                *)
AnswerState ==
    /\ job # None /\ job.kind = "state"
    /\ published > 0
    /\ mail' = mail \cup {Letter(job.player, "state", None)}
    /\ job' = None
    /\ UNCHANGED <<store, attempts, requests, files, process>>

(* _on_join_request and handle_join_request.                                *)
AnswerJoin ==
    /\ job # None /\ job.kind = "join" /\ ~Limited
    /\ attempts' = [attempts EXCEPT ![job.player] = @ + 1]
    /\ job' = None
    /\ UNCHANGED <<status, lastSeen, published, requests, files, process>>

Reseat ==
    /\ AnswerJoin
    /\ status = "LOBBY" /\ job.player \in Seated
    /\ mail' = mail \cup {Letter(job.player, "accepted", seat[job.player])}
    /\ UNCHANGED seat

Seat(faction) ==
    /\ AnswerJoin
    /\ status = "LOBBY" /\ job.player \notin Seated
    /\ Cardinality(Seated) < Seats
    /\ faction \in Available
    /\ seat' = [seat EXCEPT ![job.player] = faction]
    /\ mail' = mail \cup {Letter(job.player, "accepted", faction)}

Reject ==
    /\ AnswerJoin
    /\ \/ status # "LOBBY"
       \/ /\ job.player \notin Seated
          /\ Cardinality(Seated) >= Seats \/ Available = {}
    /\ mail' = mail \cup {Letter(job.player, "rejected", None)}
    /\ UNCHANGED seat

(* The window of an attempt passes.                                         *)
WindowPasses(p) ==
    /\ attempts[p] > 0
    /\ attempts' = [attempts EXCEPT ![p] = @ - 1]
    /\ UNCHANGED <<store, job, network, files, process>>

(* The coordinator is killed, perhaps over a message, and started again.    *)
Restart ==
    /\ job' = None
    /\ attempts' = [p \in Players |-> 0]
    /\ UNCHANGED <<store, network, files, process>>

(* start_match, and advance_phase as far as the players see it (module      *)
(* Match has their steps): every result is one more link.                   *)
Start ==
    /\ job = None
    /\ status = "LOBBY" /\ Cardinality(Seated) = Seats
    /\ status' = "ACTIVE" /\ published' = 1
    /\ Broadcast("start", 1)
    /\ UNCHANGED <<seat, lastSeen, memory, requests, files, process>>

Publish ==
    /\ job = None
    /\ status = "ACTIVE" /\ published < MaxResults
    /\ published' = published + 1
    /\ Broadcast("result", published + 1)
    /\ UNCHANGED <<status, seat, lastSeen, memory, requests, files, process>>

-----------------------------------------------------------------------------
(* A command of the CLI.                                                    *)

(* The message a command begins with; negotiate writes to another player.   *)
Asks(c) ==
    {k \in {"state", "other"} :
        c \in IF k = "state" THEN {"status", "order", "verify"} ELSE {"draw"}}

(* PlayerClient._send with _next_sequence.                                  *)
Send(p, n, kinds) ==
    /\ number' = [number EXCEPT ![p] = n]
    /\ requests' = requests \cup {[player |-> p, seq |-> n, kind |-> k] : k \in kinds}

Enter(p, point, c) ==
    /\ at' = [at EXCEPT ![p] = point]
    /\ command' = [command EXCEPT ![p] = c]
    /\ heard' = [heard EXCEPT ![p] = {}]
    /\ report' = [report EXCEPT ![p] = "none"]

(* The process is over.                                                     *)
Leave(p) ==
    /\ at' = [at EXCEPT ![p] = "shell"]
    /\ command' = [command EXCEPT ![p] = None]
    /\ number' = [number EXCEPT ![p] = 0]
    /\ heard' = [heard EXCEPT ![p] = {}]

(* cmd_join: a fresh PlayerClient, whatever the session file says.          *)
Join(p) ==
    /\ at[p] = "shell" /\ 1 <= MaxNumber
    /\ Send(p, 1, {"join"})
    /\ Enter(p, "joining", "join")
    /\ UNCHANGED <<store, memory, mail, files, cut>>

(* JOIN_ACCEPTED: a new session file is written.                            *)
JoinAccepted(p, m) ==
    /\ at[p] = "joining" /\ m.kind = "accepted"
    /\ session' = [session EXCEPT ![p] =
                     [faction |-> m.value, last |-> number[p], anchored |-> FALSE]]
    /\ mail' = mail \ {m}
    /\ cut' = [cut EXCEPT ![p] = FALSE]
    /\ Leave(p)
    /\ UNCHANGED <<store, memory, requests, log, report>>

JoinRejected(p, m) ==
    /\ at[p] = "joining" /\ m.kind = "rejected"
    /\ mail' = mail \ {m}
    /\ Leave(p)
    /\ UNCHANGED <<store, memory, requests, files, report, cut>>

(* _connect: the number is carried forward from the session file.           *)
Run(p, c) ==
    /\ at[p] = "shell" /\ session[p] # None
    /\ c = "verify" => ~session[p].anchored
    /\ session[p].last < MaxNumber
    /\ Send(p, session[p].last + (IF c = "history" THEN 0 ELSE 1), Asks(c))
    /\ Enter(p, "polling", c)
    /\ UNCHANGED <<store, memory, mail, files, cut>>

(* cmd_verify with MATCH_START on file does not connect.                    *)
VerifyOffline(p) ==
    /\ at[p] = "shell" /\ session[p] # None
    /\ session[p].anchored
    /\ Enter(p, "verify", "verify")
    /\ UNCHANGED <<store, memory, network, files, number, cut>>

(* _poll_and_log: a result whose hash is not in the log is appended to it.  *)
LogResult(p, m) ==
    /\ m.kind = "result"
    /\ log' = [log EXCEPT ![p] = IF m.value \in Range(@) THEN @ ELSE Append(@, m.value)]
    /\ UNCHANGED heard

(* Mutant: whatever arrives counts as the answer.                           *)
NoteAny(p, m) ==
    /\ heard' = [heard EXCEPT ![p] = @ \cup {m.kind}]
    /\ UNCHANGED log

(* Only `order` depends on a STATE_RESPONSE, only `verify` on MATCH_START.  *)
Needs(c) == {k \in {"state", "start"} : c = IF k = "state" THEN "order" ELSE "verify"}

Note(p, m) ==
    /\ m.kind \in {"state", "start"}
    /\ heard' = [heard EXCEPT ![p] = @ \cup (Needs(command[p]) \cap {m.kind})]
    /\ UNCHANGED log

Poll(p, m) ==
    /\ at[p] = "polling"
    /\ LogResult(p, m) \/ Note(p, m)
    /\ mail' = mail \ {m}
    /\ UNCHANGED <<store, memory, requests, session, at, command, number, report, cut>>

(* _persist_sequence; `history` draws no number and writes the old one.      *)
Persist(p) ==
    /\ session' = [session EXCEPT ![p] = [@ EXCEPT !.last = number[p]]]
    /\ cut' = [cut EXCEPT ![p] = @ /\ number[p] = session[p].last]

(* Mutant: an order writes the number back only when it is done.            *)
PersistOnce(p) ==
    /\ at[p] = "polling"
    /\ IF command[p] = "order"
       THEN at' = [at EXCEPT ![p] = "compose"] /\ UNCHANGED <<session, cut, command, number, heard>>
       ELSE Persist(p) /\ Leave(p)
    /\ UNCHANGED <<store, memory, network, log, report>>

(* The time to poll is over.                                                *)
EndPolling(p) ==
    /\ at[p] = "polling"
    /\ Persist(p)
    /\ \/ /\ command[p] = "order" /\ "state" \in heard[p]
          /\ at' = [at EXCEPT ![p] = "compose"]
          /\ UNCHANGED <<command, number, heard>>
       \/ /\ command[p] = "verify"
          /\ at' = [at EXCEPT ![p] = "verify"]
          /\ UNCHANGED <<command, number, heard>>
       \/ /\ command[p] # "verify" /\ ~(command[p] = "order" /\ "state" \in heard[p])
          /\ Leave(p)
    /\ UNCHANGED <<store, memory, network, log, report>>

(* cmd_order: the orders are valid and sent ...                             *)
Submit(p) ==
    /\ at[p] = "compose"
    /\ number[p] < MaxNumber
    /\ Send(p, number[p] + 1, {"other"})
    /\ at' = [at EXCEPT ![p] = "receipt"]
    /\ UNCHANGED <<store, memory, mail, files, command, heard, report, cut>>

(* ... and a receipt has come, or the time to wait for it is over.          *)
EndReceipt(p) ==
    /\ at[p] = "receipt"
    /\ Persist(p)
    /\ Leave(p)
    /\ UNCHANGED <<store, memory, network, log, report>>

(* A command ends without writing: no answer to a join, orders that are not *)
(* valid, or an interrupt.                                                  *)
GiveUp(p) ==
    /\ at[p] \in Points \ {"shell", "program"}
    /\ cut' = [cut EXCEPT ![p] = @ \/ at[p] \in {"polling", "receipt"}]
    /\ Leave(p)
    /\ UNCHANGED <<store, memory, network, files, report>>

-----------------------------------------------------------------------------
(* verify_history.                                                          *)

(* The links on file.                                                       *)
OnFile(history, anchored) == (IF anchored THEN <<1>> ELSE <<>>) \o history

(* Mutant: every link is compared with the first one.                       *)
BrokenFromFirst(links) == {i \in 2..Len(links) : links[i] # links[1] + 1}

(* Every link is compared with the one before it; link k was chained to     *)
(* link k - 1, and an honest coordinator signs and hashes correctly.        *)
Broken(links) == {i \in 2..Len(links) : links[i] # links[i - 1] + 1}

Verdict(links) ==
    IF links = <<>> THEN "nothing" ELSE IF Broken(links) = {} THEN "OK" ELSE "MISMATCH"

Anchored(p) == session[p].anchored \/ "start" \in heard[p]

(* cmd_verify: MATCH_START is kept, the history is checked.                 *)
Verify(p) ==
    /\ at[p] = "verify"
    /\ session' = [session EXCEPT ![p] = [@ EXCEPT !.anchored = Anchored(p)]]
    /\ report' = [report EXCEPT ![p] = Verdict(OnFile(log[p], Anchored(p)))]
    /\ Leave(p)
    /\ UNCHANGED <<store, memory, network, log, cut>>

-----------------------------------------------------------------------------
(* A program with one PlayerClient.                                         *)
CallsLeft == FoldFunctionOnSet(+, 0, number, Programs) < MaxCalls

Call(p, kind) ==
    /\ at[p] = "program"
    /\ CallsLeft
    /\ Send(p, number[p] + 1, {kind})
    /\ UNCHANGED <<store, memory, mail, files, at, command, heard, report, cut>>

-----------------------------------------------------------------------------
Init ==
    /\ status = "LOBBY" /\ published = 0
    /\ seat = [p \in Players |-> None]
    /\ lastSeen = [p \in Players |-> 0]
    /\ attempts = [p \in Players |-> 0] /\ job = None
    /\ requests = {} /\ mail = {}
    /\ session = [p \in Players |-> None] /\ log = [p \in Players |-> <<>>]
    /\ at = [p \in Players |-> IF p \in Programs THEN "program" ELSE "shell"]
    /\ command = [p \in Players |-> None]
    /\ number = [p \in Players |-> 0]
    /\ heard = [p \in Players |-> {}]
    /\ report = [p \in Players |-> "none"]
    /\ cut = [p \in Players |-> FALSE]

Handle == Ignore \/ AnswerState \/ Reseat \/ (\E f \in Factions : Seat(f)) \/ Reject

Coordinator ==
    \/ \E m \in requests : Receive(m) \/ Drop(m)
    \/ Handle
    \/ \E p \in Players : WindowPasses(p)
    \/ Restart
    \/ Start \/ Publish

Player(p) ==
    \/ Join(p)
    \/ \E m \in mail : m.to = p /\ (JoinAccepted(p, m) \/ JoinRejected(p, m) \/ Poll(p, m))
    \/ \E c \in Commands : Run(p, c)
    \/ VerifyOffline(p)
    \/ EndPolling(p) \/ Submit(p) \/ EndReceipt(p) \/ Verify(p) \/ GiveUp(p)
    \/ \E kind \in Calls : Call(p, kind)

Next == Coordinator \/ \E p \in Players : Player(p)

Spec == Init /\ [][Next]_vars
-----------------------------------------------------------------------------
(* Properties.                                                              *)

(* The tables, messages, files and processes keep to their types.           *)
TypeOK ==
    /\ status \in {"LOBBY", "ACTIVE"} /\ published \in Nat
    /\ seat \in [Players -> Factions \cup {None}]
    /\ lastSeen \in [Players -> Nat]
    /\ attempts \in [Players -> Nat] /\ job \in Request \cup {None}
    /\ requests \subseteq Request
    /\ mail \subseteq LetterType
    /\ session \in [Players -> SessionFile \cup {None}]
    /\ log \in [Players -> Seq(Nat)]
    /\ at \in [Players -> Points] /\ number \in [Players -> Nat]
    /\ command \in [Players -> Commands \cup {"join", "verify", None}]
    /\ heard \in [Players -> SUBSET {"state", "start"}]
    /\ report \in [Players -> {"none", "nothing", "OK", "MISMATCH"}]
    /\ cut \in [Players -> BOOLEAN]

(* A faction is never held twice, a match that has begun has every seat      *)
(* filled, and what a player was ever told, or keeps on file, is the faction *)
(* on record: lost and late answers, repeated joins and restarts included.   *)
SeatsAgree ==
    /\ \A p, q \in Seated : seat[p] = seat[q] => p = q
    /\ status = "LOBBY" => Cardinality(Seated) <= Seats
    /\ status = "ACTIVE" => Cardinality(Seated) = Seats
    /\ \A m \in mail : m.kind = "accepted" => m.value = seat[m.to]
    /\ \A p \in Players : session[p] # None => session[p].faction = seat[p]

Used(p) == {lastSeen[p]} \cup {m.seq : m \in {r \in requests : r.player = p}}

(* The numbers a player has used are those on file: a later command is not   *)
(* taken for a replay, which is what the session file is for (_connect).     *)
(* Interrupts do not add up: after any number of them the file is behind by  *)
(* one, so the message after the next one gets through.                      *)
NumbersCarried ==
    \A p \in Players : session[p] # None =>
        \A n \in Used(p) :
            n <= session[p].last + (IF cut[p] \/ at[p] \in {"polling", "receipt"} THEN 1 ELSE 0)

(* A run of consecutive links.                                              *)
Segment(links) ==
    \E first \in 1..published : links = [i \in 1..Len(links) |-> first + i - 1]

(* With an honest coordinator the comparison of neighbours in verify_history *)
(* says OK of exactly the logs that are an unbroken run of the published     *)
(* links, beginning with MATCH_START if that was seen: no gap, repetition or *)
(* disorder goes unnoticed, and nothing else is reported.                    *)
VerdictExact ==
    \A p \in Players : report[p] \in {"OK", "MISMATCH"} =>
        (report[p] = "OK" <=> Segment(OnFile(log[p], session[p].anchored)))

-----------------------------------------------------------------------------
(* The inductive invariants behind SeatsAgree and NumbersCarried.           *)

(* Letters carry what their kind promises.                                  *)
LettersInv ==
    /\ TypeOK
    /\ \A m \in mail : /\ m.kind = "accepted" => m.value \in Factions
                       /\ m.kind = "result" => m.value \in Nat

(* A command that has got past loading the session file has one.            *)
OpenFiles ==
    \A p \in Players :
        at[p] \in {"polling", "compose", "receipt", "verify"} => session[p] # None

TypesInv == LettersInv /\ OpenFiles

SeatsInv == TypesInv /\ SeatsAgree

(* What a process knows of the number on file.                              *)
Counts(p) ==
    /\ session[p] # None => session[p].last >= 1
    /\ at[p] = "joining" => number[p] = 1
    /\ at[p] = "polling" => number[p] \in {session[p].last, session[p].last + 1}
    /\ at[p] = "compose" => number[p] = session[p].last
    /\ at[p] = "receipt" => number[p] = session[p].last + 1

(* A player of the CLI is accepted once at most: every join has number 1.   *)
AcceptedLetters(p) == {m \in mail : m.to = p /\ m.kind = "accepted"}

JoinsOnce(p) ==
    /\ \A m \in requests : m.player = p /\ m.kind = "join" => m.seq = 1
    /\ AcceptedLetters(p) # {} \/ session[p] # None =>
          /\ lastSeen[p] >= 1
          /\ ~(job # None /\ job.player = p /\ job.kind = "join")
    /\ session[p] # None => AcceptedLetters(p) = {}

(* A number that has been used is on file, or known to the process that is  *)
(* running, or was drawn by one that was interrupted.                       *)
Covered(p, n) ==
    IF session[p] = None THEN n <= 1
    ELSE \/ n <= session[p].last
         \/ cut[p] /\ n <= session[p].last + 1
         \/ at[p] \in {"polling", "receipt"} /\ n <= number[p]

NumbersOf(p) ==
    IF p \in Programs THEN at[p] = "program" /\ session[p] = None
    ELSE /\ at[p] # "program"
         /\ Counts(p) /\ JoinsOnce(p)
         /\ Covered(p, lastSeen[p])
         /\ \A m \in requests : m.player = p => Covered(p, m.seq)

NumbersInv ==
    /\ SeatsInv
    /\ job # None => lastSeen[job.player] >= 1
    /\ \A m \in requests : m.seq >= 1
    /\ \A p \in Players : NumbersOf(p)

-----------------------------------------------------------------------------
(* The inductive invariant behind VerdictExact.                             *)

(* Only links that have been published reach a player and its log.           *)
LinksPublished ==
    /\ status = "LOBBY" => published = 0
    /\ \A m \in mail : /\ m.kind = "result" => m.value \in 1..published
                       /\ m.kind = "start" => published >= 1
    /\ \A p \in Players :
          /\ Range(log[p]) \subseteq 1..published
          /\ "start" \in heard[p] => published >= 1
          /\ session[p] # None /\ session[p].anchored => published >= 1

(* What `verify` printed is its verdict on what is still on file.            *)
ReportStands(p) ==
    report[p] # "none" =>
        /\ at[p] = "shell" /\ session[p] # None
        /\ report[p] = Verdict(OnFile(log[p], session[p].anchored))

VerdictInv == TypesInv /\ LinksPublished /\ \A p \in Players : ReportStands(p)

-----------------------------------------------------------------------------
(* What the documents say and the program does not keep.                    *)

(* Joining again is idempotent (handle_join_request): the coordinator does   *)
(* not throw away, unanswered, the JOIN_REQUEST of a player who has a seat   *)
(* in the lobby.                                                            *)
RejoinAnswered ==
    [][\A m \in requests :
         m.kind = "join" /\ m.player \in Seated /\ status = "LOBBY" /\ m \notin requests'
           => job' = m]_vars
=============================================================================
