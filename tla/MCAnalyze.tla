----------------------------- MODULE MCAnalyze ------------------------------
\* Two small villages, the game's tables for them and what TLC starts from.
EXTENDS Analyze, TLC
CONSTANTS town, hut, lab, smith, tavern, pen, cannon, wall, guard, troop, hero, pet,
          gear, helper, tree, odd, tower, bhall, bhut, starlab, bcannon, btroop, bhero

MCId == [th |-> town, bh |-> bhall, lab |-> lab, starlab |-> starlab, smith |-> smith,
         pethouse |-> pen, herohall |-> tavern, hut |-> hut, hut2 |-> bhut]

In(items, section) == [i \in items |-> section]
MCSectionOf ==
  In({town, hut, lab, smith, tavern, pen, cannon, wall, guard, tower}, "buildings") @@
  In({odd}, "traps") @@ In({troop}, "units") @@ In({hero}, "heroes") @@ In({pet}, "pets") @@
  In({gear}, "equipment") @@ In({helper}, "helpers") @@ In({tree}, "obstacles") @@
  In({bhall, bhut, starlab, bcannon}, "buildings2") @@ In({btroop}, "units2") @@
  In({bhero}, "heroes2")

\* The catalog has not heard of odd and tower.
MCBlock == odd :> "trap" @@ tower :> "building"

\* The game's tables, a row per entity: category, id, village, resource, type
\* and levels, of which <<cost, time, hall, house>> are given, the last two if
\* the level asks for them.  Hall 2 opens the second cannon, cannon 2 and 3, lab
\* 2 and the Hero Hall; lab 2 opens troop 2.  The last cannon step and wall steps
\* take no time.  Builder Hall 2 opens a second cannon and the hero.  The troops'
\* hall column is implied at home and on another scale in the Builder Base.
Tables == <<
  <<"buildings", town,    "home", "gold",   "Town Hall", <<<<0, 0, 0>>, <<7, 2, 1>>>>>>,
  <<"buildings", hut,     "home", "gold",   "Worker",    <<<<0, 0, 1>>>>>>,
  <<"buildings", lab,     "home", "elixir", "Army",      <<<<1, 1, 1>>, <<2, 1, 2>>>>>>,
  <<"buildings", smith,   "home", "elixir", "Army",      <<<<1, 1, 1>>>>>>,
  <<"buildings", tavern,  "home", "elixir", "Army",      <<<<1, 1, 1>>>>>>,
  <<"buildings", pen,     "home", "elixir", "Army",      <<<<1, 1, 1>>>>>>,
  <<"buildings", cannon,  "home", "gold",   "Defense",   <<<<3, 1, 1>>, <<4, 1, 2>>, <<5, 0, 2>>>>>>,
  <<"buildings", wall,    "home", "gold",   "Wall",      <<<<1, 0, 1>>, <<3, 0, 2>>>>>>,
  <<"buildings", bhall,   "builderBase", "gold", "BB Builder Hall", <<<<0, 0>>, <<5, 1>>>>>>,
  <<"buildings", bhut,    "builderBase", "gold", "Worker", <<<<0, 0, 1>>>>>>,
  <<"buildings", starlab, "builderBase", "elixir", "Army", <<<<1, 0, 1>>, <<2, 0, 2>>>>>>,
  <<"buildings", bcannon, "builderBase", "gold", "Defense", <<<<3, 1, 1>>, <<4, 1, 2>>>>>>,
  <<"troops",    troop,   "home", "elixir", "", <<<<1, 0, 1, 1>>, <<6, 2, 2, 2>>>>>>,
  <<"troops",    btroop,  "builderBase", "elixir", "", <<<<1, 0, 3, 1>>, <<6, 1, 6, 2>>>>>>,
  <<"heroes",    hero,    "home", "elixir", "", <<<<2, 1, 1, 1>>, <<3, 1, 2, 1>>, <<4, 1, 2, 2>>>>>>,
  <<"heroes",    bhero,   "builderBase", "elixir", "", <<<<2, 1, 1>>, <<3, 1, 2>>>>>>,
  <<"pets",      pet,     "", "elixir", "", <<<<1, 1, 1, 1>>, <<2, 1, 2, 1>>>>>>,
  <<"equipment", gear,    "", "", "", <<<<0, 0, 1, 1>>, <<3, 0, 2, 1>>, <<4, 0, 2, 2>>>>>>,
  <<"helpers",   helper,  "", "elixir", "", <<<<1, 0, 1>>>>>>,
  <<"guardians", guard,   "", "gold", "", <<<<1, 1, 1>>, <<4, 0, 2>>>>>>,
  <<"obstacles", tree,    "home", "", "", <<>>>> >>

Houses == [troops |-> "lab", heroes |-> "tavern", pets |-> "pethouse", equipment |-> "smith"]
Needs(category, lv) ==
  CASE Len(lv) = 2 -> <<>>
    [] Len(lv) = 3 -> [townhall |-> lv[3]]
    [] OTHER       -> "townhall" :> lv[3] @@ Houses[category] :> lv[4]
Unlocks(id, l) ==
  CASE id = town /\ l = 1  -> hut :> 2 @@ cannon :> 1 @@ lab :> 1
    [] id = town /\ l = 2  -> cannon :> 1 @@ tree :> 1
    [] id = bhall /\ l = 1 -> bhut :> 1 @@ bcannon :> 1 @@ starlab :> 1
    [] id = bhall /\ l = 2 -> bcannon :> 1
    [] OTHER -> <<>>

\* Buildings and guardians are built, anything else is upgraded; equipment is
\* paid in ores.
GameLevel(category, id, l, lv) ==
  LET built == category \in {"buildings", "guardians"}
      ores  == category = "equipment"
      zero  == [o \in Ores |-> 0]
  IN [needs        |-> Needs(category, lv),
      build_cost   |-> IF built THEN lv[1] ELSE 0,
      upgrade_cost |-> CASE built -> 0
                         [] ores  -> [zero EXCEPT !.shiny = lv[1], !.glowy = IF lv[1] > 0 THEN 1 ELSE 0]
                         [] OTHER -> lv[1],
      build_time   |-> IF built THEN lv[2] ELSE 0,
      upgrade_time |-> IF built THEN 0 ELSE lv[2],
      alt          |-> IF id = wall /\ l = 2 THEN "elixir" ELSE "",
      strength     |-> CASE built -> 2 * lv[1] [] ores -> 0 [] OTHER -> lv[1],
      unlocks      |-> Unlocks(id, l)]
Entity(row) ==
  [id |-> row[2], village |-> row[3], resource |-> row[4], type |-> row[5],
   levels |-> [l \in DOMAIN row[6] |-> GameLevel(row[1], row[2], l, row[6][l])]]

\* There is no trap or spell.
MCFiles ==
  FoldLeft(LAMBDA files, row : [files EXCEPT ![row[1]] = Append(@, Entity(row))],
           [category \in {"buildings", "troops", "heroes", "pets", "equipment", "helpers",
                          "guardians", "obstacles"} |-> <<>>],
           Tables)

\* An account at hall 1 with everything idle, one whose hall and first cannon
\* are under way, one with a cannon above the catalog's last level, one for
\* each kind of gate, and one whose Builder Base is played.
Idle(s) == [r \in {<<i, s[i], 0>> : i \in DOMAIN s} |-> 1]
MCStarts ==
  { Idle(town :> 1 @@ hut :> 1 @@ lab :> 1 @@ cannon :> 1 @@ troop :> 1 @@ tower :> 1)
      (+) (<<odd, 3, 0>> :> 2),
    Idle(hut :> 1 @@ lab :> 1 @@ troop :> 1)
      (+) (<<town, 1, 1>> :> 1 @@ <<hut, 1, 0>> :> 1 @@ <<cannon, 0, 1>> :> 1),
    Idle(town :> 2 @@ cannon :> 4) (+) (<<hut, 1, 0>> :> 2 @@ <<cannon, 1, 1>> :> 1),
    Idle(town :> 2 @@ smith :> 1 @@ gear :> 1 @@ wall :> 1 @@ guard :> 1 @@ tree :> 0),
    Idle(town :> 2 @@ tavern :> 1 @@ hero :> 1 @@ pen :> 1 @@ pet :> 1 @@ helper :> 1),
    Idle(bhall :> 1 @@ bhut :> 1 @@ starlab :> 1 @@ btroop :> 1 @@ bhero :> 1)
      (+) (<<town, 1, 0>> :> 1) }
=============================================================================
