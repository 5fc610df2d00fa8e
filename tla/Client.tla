------------------------------ MODULE Client ------------------------------
(***************************************************************************)
(* The commands of client/cli.py at work on the files of their player: the   *)
(* session, which is read when a command starts and written back whole when  *)
(* it is done, and the log of phase results, which `verify` checks.          *)
(*                                                                          *)
(* Every command is a process, and those of one player may overlap.  Of the  *)
(* session only the anchor, the MATCH_START kept by `verify`, is here: the   *)
(* sequence numbers are in Session.  What a process is sent while it polls   *)
(* is anything, in any order, any number of times, and any process may be    *)
(* interrupted.                                                             *)
(***************************************************************************)
EXTENDS Chain, FiniteSets, Functions

CONSTANTS
    Players,
    Processes,       \* the commands that may be running at the same time
    Owner,           \* the player whose command it is
    Commands,        \* which commands it may be
    MaxLines         \* bound: lines in the log of each player

(* `status` stands for all commands that only poll and log: negotiate,       *)
(* history and draw.                                                        *)
Kinds == {"status", "order", "verify"}

ASSUME ProcessesAssumption ==
    /\ IsFiniteSet(Processes) /\ Owner \in [Processes -> Players]
    /\ Commands \in [Processes -> SUBSET Kinds]

VARIABLES
    session,         \* session["match_start"] in the file of a player
    log,             \* phase_results.jsonl of a player
    at,              \* control point of a process
    kind,            \* the command it executes
    file,            \* the session it has loaded, or changed since
    seen,            \* seen_hashes
    start            \* PlayerClient.match_start

files == <<session, log>>
process == <<at, kind, file, seen, start>>
vars == <<files, process>>

Points == {"off", "loaded", "polling", "waiting", "receipt", "anchoring", "checking"}

Anchors == Starts \cup {None}

Own(p) == {c \in Processes : Owner[c] = p}

-----------------------------------------------------------------------------
(* _load_session; `verify` polls only if the file has no anchor.            *)
Load(c, command) ==
    /\ at[c] = "off"
    /\ file' = [file EXCEPT ![c] = session[Owner[c]]]
    /\ kind' = [kind EXCEPT ![c] = command]
    /\ at' = [at EXCEPT ![c] =
                IF command = "verify" /\ session[Owner[c]] # None THEN "checking"
                                                                 ELSE "loaded"]
    /\ UNCHANGED <<files, seen, start>>

HashesOf(s) == {s[i].hash : i \in DOMAIN s}

(* _connect, and what _poll_and_log does before its loop.                   *)
OpenLog(c) ==
    /\ at[c] = "loaded"
    /\ seen' = [seen EXCEPT ![c] = HashesOf(log[Owner[c]])]
    /\ at' = [at EXCEPT ![c] = "polling"]
    /\ UNCHANGED <<files, kind, file, start>>

(* Mutant: what was appended is not remembered.                             *)
HearAgain(c, l) ==
    /\ at[c] = "polling"
    /\ l.hash \notin seen[c]
    /\ Len(log[Owner[c]]) < MaxLines[Owner[c]]
    /\ log' = [log EXCEPT ![Owner[c]] = Append(@, l)]
    /\ UNCHANGED <<session, process>>

(* A PHASE_RESULT in the loop of _poll_and_log; one already seen is dropped. *)
(* A result that arrives while `order` waits for its receipt is not logged  *)
(* at all.                                                                  *)
Hear(c, l) ==
    /\ at[c] = "polling"
    /\ l.hash \notin seen[c]
    /\ Len(log[Owner[c]]) < MaxLines[Owner[c]]
    /\ log' = [log EXCEPT ![Owner[c]] = Append(@, l)]
    /\ seen' = [seen EXCEPT ![c] = @ \cup {l.hash}]
    /\ UNCHANGED <<session, at, kind, file, start>>

(* _on_match_start; only `verify` makes use of it.                          *)
HearStart(c, s) ==
    /\ at[c] = "polling" /\ kind[c] = "verify"
    /\ start' = [start EXCEPT ![c] = s]
    /\ UNCHANGED <<files, at, kind, file, seen>>

(* A process that ends is forgotten.                                        *)
Goto(c, point) ==
    /\ at' = [at EXCEPT ![c] = point]
    /\ IF point = "off"
       THEN /\ kind' = [kind EXCEPT ![c] = "status"]
            /\ file' = [file EXCEPT ![c] = None]
            /\ seen' = [seen EXCEPT ![c] = {}]
            /\ start' = [start EXCEPT ![c] = None]
       ELSE seen' = [seen EXCEPT ![c] = {}] /\ UNCHANGED <<kind, file, start>>

(* Mutant: only what this process has observed is written.                  *)
SaveOwn(c) == session' = [session EXCEPT ![Owner[c]] = start[c]] /\ UNCHANGED log

(* _save_session writes back all of what was loaded.                        *)
Save(c) == session' = [session EXCEPT ![Owner[c]] = file[c]] /\ UNCHANGED log

(* _persist_sequence after _poll_and_log.                                   *)
EndPolling(c) ==
    /\ at[c] = "polling"
    /\ Save(c)
    /\ Goto(c, IF kind[c] = "status" THEN "off"
               ELSE IF kind[c] = "order" THEN "waiting"
               ELSE IF start[c] # None THEN "anchoring" ELSE "checking")

(* `order` saves once when its wait is over, and again with the receipt.    *)
EndWait(c) == at[c] = "waiting" /\ Save(c) /\ Goto(c, "receipt")

KeepReceipt(c) == at[c] = "receipt" /\ Save(c) /\ Goto(c, "off")

(* Mutant: `verify` is left at a point nothing goes on from.                *)
AnchorAndStay(c) ==
    /\ at[c] = "anchoring"
    /\ file' = [file EXCEPT ![c] = start[c]]
    /\ session' = [session EXCEPT ![Owner[c]] = start[c]]
    /\ at' = [at EXCEPT ![c] = "anchored"]
    /\ UNCHANGED <<log, kind, seen, start>>

(* `verify` saves the MATCH_START it caught.                                *)
Anchor(c) ==
    /\ at[c] = "anchoring"
    /\ file' = [file EXCEPT ![c] = start[c]]
    /\ session' = [session EXCEPT ![Owner[c]] = start[c]]
    /\ at' = [at EXCEPT ![c] = "checking"]
    /\ UNCHANGED <<log, kind, seen, start>>

(* A command may end anywhere: `verify` after its report, `order` on orders  *)
(* that do not compose or without receipt, and any by interruption.         *)
Quit(c) == at[c] # "off" /\ Goto(c, "off") /\ UNCHANGED files

-----------------------------------------------------------------------------
(* Players who have joined.                                                 *)
Init ==
    /\ session = [p \in Players |-> None]
    /\ log = [p \in Players |-> <<>>]
    /\ at = [c \in Processes |-> "off"]
    /\ kind = [c \in Processes |-> "status"]
    /\ file = [c \in Processes |-> None]
    /\ seen = [c \in Processes |-> {}]
    /\ start = [c \in Processes |-> None]

Step(c) ==
    \/ \E command \in Commands[c] : Load(c, command)
    \/ OpenLog(c)
    \/ \E l \in Links : Hear(c, l)
    \/ \E s \in Starts : HearStart(c, s)
    \/ EndPolling(c) \/ EndWait(c) \/ KeepReceipt(c) \/ Anchor(c) \/ Quit(c)

Next == \E c \in Processes : Step(c)

Spec == Init /\ [][Next]_vars
-----------------------------------------------------------------------------
(* Properties.                                                              *)

(* The files and the processes keep to their types.                         *)
TypeOK ==
    /\ session \in [Players -> Anchors] /\ log \in [Players -> Seq(Links)]
    /\ at \in [Processes -> Points] /\ kind \in [Processes -> Kinds]
    /\ file \in [Processes -> Anchors] /\ seen \in [Processes -> SUBSET Hashes]
    /\ start \in [Processes -> Anchors]

(* Two players whose logs both pass verify_history, anchored or not, and who *)
(* hold one hash in common hold the same history up to it, as far back as    *)
(* both logs go: what they were told before cannot differ.                  *)
Agreement ==
    \A p, q \in Players :
        Flawless(session[p], log[p]) /\ Flawless(session[q], log[q]) =>
            \A i \in DOMAIN log[p], j \in DOMAIN log[q] :
                log[p][i].hash = log[q][j].hash =>
                    \A k \in 0..(i - 1) : k < j => log[p][i - k] = log[q][j - k]

(* Two players anchored at the same MATCH_START whose logs both pass and     *)
(* disagree hold, between them, two signed links chained from the same one:  *)
(* a coordinator that tells players different stories leaves the proof.      *)
ForkLeavesProof ==
    \A p, q \in Players :
        /\ session[p] = session[q] /\ session[p] # None
        /\ Flawless(session[p], log[p]) /\ Flawless(session[q], log[q])
        /\ \E i \in DOMAIN log[p] \cap DOMAIN log[q] : log[p][i] # log[q][i]
        => \E k \in Range(log[p]), l \in Range(log[q]) :
              k.signed /\ l.signed /\ k.prev = l.prev /\ k.hash # l.hash

(* Copies of a result in the log of a player.                               *)
Copies(p, h) == {i \in DOMAIN log[p] : log[p][i].hash = h}

(* Overlapping commands repeat a result in the log, but no more often than   *)
(* there are commands of the player at once; one at a time never does.       *)
CopiesBounded ==
    \A p \in Players, h \in Hashes :
        Cardinality(Copies(p, h)) <= Cardinality(Own(p))

Settled(p) ==
    /\ session[p] # None
    /\ \A c \in Own(p) : at[c] # "off" => file[c] = session[p]

(* Each command writes back the session as it read it: an anchor that every  *)
(* running command of the player has read is never lost again, nor replaced. *)
AnchorSettles ==
    [][\A p \in Players : Settled(p) => session'[p] = session[p] /\ Settled(p)']_vars

-----------------------------------------------------------------------------
(* The inductive invariant behind CopiesBounded.                            *)

(* The commands that would append a result with the hash h once more.       *)
Unaware(p, h) == {c \in Own(p) : at[c] = "polling" /\ h \notin seen[c]}

CopiesInv ==
    /\ TypeOK
    /\ \A p \in Players, h \in Hashes :
          Copies(p, h) # {} =>
              Cardinality(Copies(p, h)) + Cardinality(Unaware(p, h)) <= Cardinality(Own(p))

-----------------------------------------------------------------------------
(* What the documents say and the program does not keep: when `verify`       *)
(* reports a mismatch, the links it has checked prove the coordinator         *)
(* dishonest (docs/threat-model.md).                                        *)
MismatchIsProof ==
    \A c \in Processes :
        at[c] = "checking" /\ ~Flawless(file[c], log[Owner[c]])
            => Proof(Range(log[Owner[c]]) \cup ({file[c]} \ {None}))
=============================================================================
