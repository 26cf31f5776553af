----------------------------- MODULE MCBuildNow -----------------------------
(***************************************************************************)
(* Small villages for BuildNow.  "cannon" is a timed upgrade (two ticks),  *)
(* "wall" an instant one, "ram" a siege machine, whose rows live in an     *)
(* array arrayFor does not search.  All have levels 1 to 3.                *)
(***************************************************************************)
EXTENDS BuildNow, TLC

CONSTANTS cannon, wall, ram

MCSeconds == [i \in Items |->
               [l \in Levels |-> IF i = cannon THEN 2 ELSE 0]]
MCReach   == [i \in Items |-> MaxLevel]

\* An export from the cells that are not empty.
Shows(at, cells) ==
  [at |-> at, rows |-> [c \in Items \X Levels \X Timers |->
                          IF c \in DOMAIN cells THEN cells[c] ELSE 0]]

Cell(i, l, t) == <<i, l, t>>

\* A cannon and a wall: both idle, then the cannon started at tick 1 and the
\* wall a level up.
CannonWall ==
  { Shows(0, Cell(cannon, 1, 0) :> 1 @@ Cell(wall, 1, 0) :> 1),
    Shows(2, Cell(cannon, 1, 1) :> 1 @@ Cell(wall, 2, 0) :> 1) }

\* A cannon, a wall and a ram: all idle, then the cannon with one tick to go,
\* then the cannon and the wall a level up.
CannonWallRam ==
  LET ram1 == Cell(ram, 1, 0) :> 1
  IN { Shows(0, Cell(cannon, 1, 0) :> 1 @@ Cell(wall, 1, 0) :> 1 @@ ram1),
       Shows(1, Cell(cannon, 1, 1) :> 1 @@ Cell(wall, 1, 0) :> 1 @@ ram1),
       Shows(2, Cell(cannon, 2, 0) :> 1 @@ Cell(wall, 2, 0) :> 1 @@ ram1) }

\* A cannon nobody ever starts, whatever is declared.
NeverStarted == { Shows(at, Cell(cannon, 1, 0) :> 1) : at \in {0, 2, 3} }

Symmetry == Permutations(Requests)

\* Villages are alike; a free goroutine's tag plays no part.
Alike == Permutations(Tags)
=============================================================================
