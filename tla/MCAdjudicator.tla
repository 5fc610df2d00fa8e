--------------------------- MODULE MCAdjudicator ---------------------------
(***************************************************************************)
(* Values for model checking Adjudicator: eight regions of the Shattered    *)
(* Reach around Driftwood Isles, with their terrain and the borders between *)
(* them, and boards a few turns into a game.                                *)
(***************************************************************************)
EXTENDS Options

CONSTANTS irn, thr

Driftwood == 1
Citadel == 2
Forge == 3
NorthReach == 4
ShatteredSea == 5
Cove == 6
Heart == 7
VetShore == 8

MCRegions == 1..8

MCFactions == {irn, thr}

Borders ==
    {{Driftwood, Citadel}, {Driftwood, NorthReach}, {Driftwood, ShatteredSea},
     {Citadel, Forge}, {Citadel, ShatteredSea}, {Forge, ShatteredSea},
     {NorthReach, ShatteredSea}, {NorthReach, Cove}, {NorthReach, VetShore},
     {Cove, Heart}}

MCAdjacent == [r \in MCRegions |-> {d \in MCRegions : {r, d} \in Borders}]

MCTerrain ==
    [r \in MCRegions |->
        CASE r \in {NorthReach, ShatteredSea} -> "sea"
          [] r = Heart -> "land"
          [] OTHER -> "coastal"]

MCSupplyCenters == {Citadel, Forge, Cove, Heart, VetShore}

MCHomeCenters == [f \in MCFactions |-> IF f = irn THEN {Citadel, Forge} ELSE {Cove, Heart}]

Fleet(f, r) == [type |-> "fleet", faction |-> f, region |-> r]
Army(f, r) == [type |-> "army", faction |-> f, region |-> r]

At(us, owned) ==
    [units |-> us,
     centers |-> [c \in MCSupplyCenters |-> IF c \in owned THEN irn ELSE thr]]

\* Two fleets of each faction around the Shattered Sea: rings of three and
\* four, each with units left to oppose it.
Melee ==
    At({Fleet(irn, Driftwood), Fleet(irn, Citadel),
        Fleet(thr, NorthReach), Fleet(thr, ShatteredSea)}, {Citadel, Forge})

\* An army and fleets of both factions on the coast of Thornveil, with a home
\* centre in the other faction's hands.
Coast ==
    At({Army(irn, Heart), Fleet(irn, NorthReach), Fleet(thr, Cove)},
       {Citadel, Forge, Heart})

\* Two battles whose losers can both retreat to the Shattered Sea only.
Collision ==
    At({Fleet(thr, Citadel), Fleet(irn, Forge), Fleet(irn, Driftwood),
        Fleet(irn, NorthReach), Fleet(thr, Cove), Fleet(thr, VetShore)}, {Forge})

MCBoards == {Melee, Coast, Collision}

Move1(d) == [kind |-> "move", of |-> None, to |-> d]
SupportMove(r, d) == [kind |-> "supportMove", of |-> r, to |-> d]

\* What the six units of Collision are ordered; all there is on Coast; and in
\* Melee what a player would order: supports of moves that can be made.
MCOffers(us, r) ==
    CASE Cardinality(us) = 6 ->
            (CASE r = Forge -> {Move1(Citadel), Move1(ShatteredSea)}
               [] r = Driftwood -> {SupportMove(Forge, Citadel), Move1(NorthReach)}
               [] r = Cove -> {Move1(NorthReach), None}
               [] r = VetShore -> {SupportMove(Cove, NorthReach)}
               [] OTHER -> {None, Move1(ShatteredSea)})
      [] r = Heart \/ us = Coast.units -> Orders \cup {None}
      [] OTHER -> {o \in Orders :
                      o.kind = "supportMove" => o.of # r /\ o.to \in MCAdjacent[o.of]}
=============================================================================
