------------------------------ MODULE MCDraws ------------------------------
(***************************************************************************)
(* Values for model checking Draws.                                        *)
(***************************************************************************)
EXTENDS Draws

CONSTANTS ash, irn, sol, stranger

MCPlayers == {ash, irn, sol}

MCStrangers == {stranger}
=============================================================================
