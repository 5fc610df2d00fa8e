---------------------------- MODULE MCOrderBook ----------------------------
(***************************************************************************)
(* Values for model checking OrderBook.                                    *)
(***************************************************************************)
EXTENDS OrderBook

CONSTANTS ash

MCPlayers == {ash}
=============================================================================
