--------------------------- MODULE MCVillageLife ---------------------------
(***************************************************************************)
(* Three cannons (an upgrade takes two ticks), one of them on its way up,  *)
(* and two walls (instant), all at level 1 of 3.                           *)
(***************************************************************************)
EXTENDS VillageLife

CONSTANTS cannon, wall

MCSeconds == [i \in Items |-> [l \in Levels |-> IF i = cannon THEN 2 ELSE 0]]
MCReach   == [i \in Items |-> MaxLevel]
MCBuilt   == [c \in Items \X Levels \X Timers |->
                IF c \in {<<cannon, 1, 0>>, <<wall, 1, 0>>} THEN 2
                ELSE IF c = <<cannon, 1, 1>> THEN 1 ELSE 0]

\* A dishonest player also plays without declaring: fewer declarations do.
MCSteps   == [p \in BOOLEAN |-> IF p THEN 4 ELSE 2]
=============================================================================
