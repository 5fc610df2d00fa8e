------------------------------- MODULE Chain -------------------------------
(***************************************************************************)
(* The signed hash chain (engine/hashing.py, coordinator/match.py) as a      *)
(* player checks it (client/verification.py).  A link carries a state, the   *)
(* hash it chains from and its own hash, and a signature over that hash      *)
(* alone.  What reaches a player need be none of the coordinator's work.     *)
(***************************************************************************)
EXTENDS Naturals, Sequences

CONSTANTS
    States,          \* canonical states
    Hashes,          \* the values of state_hash
    Hash(_, _),      \* hash_game_state_hex, of a state and the previous hash
    Links,           \* the PHASE_RESULTs that reach players
    Starts,          \* the MATCH_STARTs that reach players
    None             \* no previous hash, no anchor

Link == [state: States, prev: Hashes \cup {None}, hash: Hashes, signed: BOOLEAN]

(* SHA-256 does not collide on what is sent.  hash_game_state digests an     *)
(* empty previous hash like none at all; Hashes are digests, and an empty    *)
(* string is not among them.                                                 *)
ASSUME HashAssumption ==
    \A k, l \in Links \cup Starts :
        Hash(k.state, k.prev) = Hash(l.state, l.prev)
            => k.state = l.state /\ k.prev = l.prev

(* A MATCH_START is the genesis link: it has no field previous_state_hash.  *)
ASSUME LinksAssumption ==
    /\ None \notin Hashes
    /\ Links \subseteq Link
    /\ Starts \subseteq Link /\ \A s \in Starts : s.prev = None
    /\ None \notin Starts

(* Mutant: a state that does not hash to the claim is let through.          *)
AnyState(l) == TRUE

(* verify_hash_matches_state.                                               *)
Matches(l) == l.hash = Hash(l.state, l.prev)

(* What verify_history asks of a link by itself.                            *)
Sound(l) == l.signed = TRUE /\ Matches(l)

(* Mutant: the MATCH_START is not where the chain begins.                   *)
PreviousLine(anchor, log, i) == IF i > 1 THEN log[i - 1].hash ELSE None

(* previous_hash at the i-th result: unknown at the first, without anchor.  *)
Previous(anchor, log, i) ==
    IF i > 1 THEN log[i - 1].hash ELSE IF anchor # None THEN anchor.hash ELSE None

Chained(anchor, log, i) == Previous(anchor, log, i) \in {None, log[i].prev}

(* verify_history, with and without an anchor: the report is ok.            *)
Flawless(anchor, log) ==
    /\ anchor # None => Sound(anchor)
    /\ \A i \in DOMAIN log : Sound(log[i]) /\ Chained(anchor, log, i)

(* What no honest coordinator ever signed or sent: a link that fails by      *)
(* itself, or two that chain from the same one.                             *)
Proof(links) ==
    \/ \E l \in links : ~Sound(l)
    \/ \E k, l \in links : Sound(k) /\ Sound(l) /\ k.prev = l.prev /\ k.hash # l.hash
=============================================================================
