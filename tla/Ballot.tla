------------------------------- MODULE Ballot -------------------------------
(***************************************************************************)
(* What order handling promises the players: while orders are open, what    *)
(* counts of a player is nothing or the newest message heard of them; when  *)
(* they are closed, what counts is settled for good and nothing changes     *)
(* until the next turn opens with nothing chosen.                           *)
(***************************************************************************)
EXTENDS Naturals, Sequences

CONSTANTS Players, None

VARIABLES
    open,       \* orders are taken
    newest,     \* the newest message heard of a player
    choice,     \* what counts of a player in the turn being played
    settled     \* what every closed turn was adjudicated with

ballot == <<open, newest, choice, settled>>

Blank == [p \in Players |-> None]

Init ==
    /\ open = TRUE
    /\ newest = [p \in Players |-> 0]
    /\ choice = Blank
    /\ settled = <<>>

Hear(p) ==
    /\ newest'[p] \in Nat /\ newest'[p] > newest[p]
    /\ newest' = [newest EXCEPT ![p] = newest'[p]]
    /\ UNCHANGED <<open, choice, settled>>

Choose(p) ==
    /\ open = TRUE
    /\ \E c \in {None, newest[p]} : choice' = [choice EXCEPT ![p] = c]
    /\ UNCHANGED <<open, newest, settled>>

(* The turn may go on with retreats and adjustments, or the next one begins *)
(* at once.                                                                 *)
Close ==
    /\ open = TRUE
    /\ settled' = Append(settled, choice)
    /\ \/ open' = FALSE /\ choice' = choice
       \/ open' = TRUE /\ choice' = Blank
    /\ UNCHANGED newest

Open ==
    /\ open = FALSE
    /\ open' = TRUE
    /\ choice' = Blank
    /\ UNCHANGED <<newest, settled>>

Next == (\E p \in Players : Hear(p) \/ Choose(p)) \/ Close \/ Open

Spec == Init /\ [][Next]_ballot
=============================================================================
