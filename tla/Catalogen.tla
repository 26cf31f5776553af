----------------------------- MODULE Catalogen ------------------------------
(***************************************************************************)
(* The catalog generator (cmd/catalogen): what the analysis knows of the   *)
(* game, from the tables the game is published in.  Names and icons are    *)
(* left out.                                                               *)
(*                                                                         *)
(* Files[c] is the list of a category's entities: id, village ("home",     *)
(* "builderBase" or ""), resource, type and levels, level 1 first.  Of a   *)
(* level, needs maps the required_ columns that are not null to a level,   *)
(* unlocks the ids it unlocks to quantities, and upgrade_cost is a number, *)
(* or one per ore.                                                         *)
(***************************************************************************)
EXTENDS Integers, Sequences, SequencesExt, FiniteSetsExt

CONSTANT Files

Ores == {"shiny", "glowy", "starry"}

LeveledCategories ==
  <<"buildings", "traps", "troops", "spells", "heroes", "pets", "equipment", "helpers", "guardians">>
CosmeticCategories ==
  <<"decorations", "obstacles", "skins", "sceneries", "capital_house_parts">>

KindOf ==
  [buildings |-> "building", traps |-> "trap", troops |-> "unit", spells |-> "spell",
   heroes |-> "hero", pets |-> "pet", equipment |-> "equipment", helpers |-> "helper",
   guardians |-> "building", decorations |-> "deco", obstacles |-> "obstacle",
   skins |-> "skin", sceneries |-> "scenery", capital_house_parts |-> "housepart"]

\* kindFor: guardians join the other turrets.
ClassOf(category, e) == CASE category = "buildings" -> e.type
                          [] category = "guardians" -> "Defense"
                          [] OTHER -> ""

\* Fault: the Builder Base is gated by the Town Hall.
ColumnsFault(category, where) ==
  CASE category \in {"troops", "spells"} -> [lab |-> "lab"]
    [] category = "heroes"    -> [th |-> "townhall", herohall |-> "tavern"]
    [] category = "equipment" -> [th |-> "townhall", smith |-> "smith"]
    [] category = "pets"      -> [th |-> "townhall", pethouse |-> "pethouse"]
    [] OTHER                  -> [th |-> "townhall"]

\* The gates of a category's levels, and the column each is read from.
Columns(category, where) ==
  LET away == where = "builderBase"
  IN CASE category \in {"buildings", "traps"} ->
            IF away THEN [bh |-> "townhall"] ELSE [th |-> "townhall"]
       [] category \in {"troops", "spells"} ->
            IF away THEN [starlab |-> "lab"] ELSE [lab |-> "lab"]
       [] category = "heroes" ->
            IF away THEN [bh |-> "townhall"] ELSE [th |-> "townhall", herohall |-> "tavern"]
       [] category = "equipment" -> [th |-> "townhall", smith |-> "smith"]
       [] category = "pets"      -> [th |-> "townhall", pethouse |-> "pethouse"]
       [] category \in {"helpers", "guardians"} -> [th |-> "townhall"]

\* requiresFor: columns that are null gate nothing.
RequiresFor(category, where, lv) ==
  LET column == Columns(category, where)
  IN [g \in {g \in DOMAIN column : column[g] \in DOMAIN lv.needs} |-> lv.needs[column[g]]]

\* costFor: ores for equipment, one amount for anything else.
CostFor(category, lv) ==
  CASE category = "equipment" -> 0
    [] category # "equipment" /\ lv.build_cost > 0 -> lv.build_cost
    [] OTHER -> lv.upgrade_cost
OreFor(category, lv) ==
  IF category = "equipment" THEN lv.upgrade_cost ELSE [o \in Ores |-> 0]

SecondsFor(lv) == IF lv.build_time > 0 THEN lv.build_time ELSE lv.upgrade_time

\* One level, and a whole entry (convert); cosmetics have no levels.
LevelFor(category, where, lv) ==
  [requires |-> RequiresFor(category, where, lv),
   cost |-> CostFor(category, lv), ore |-> OreFor(category, lv), alt |-> lv.alt,
   seconds |-> SecondsFor(lv), strength |-> lv.strength, unlocks |-> lv.unlocks]
Convert(category, e) ==
  [kind |-> KindOf[category], class |-> ClassOf(category, e), resource |-> e.resource,
   levels |-> [l \in DOMAIN e.levels |-> LevelFor(category, e.village, e.levels[l])]]
Cosmetic(category) == [kind |-> KindOf[category], class |-> "", resource |-> "", levels |-> <<>>]

\* The tables one after another; a category may be missing.
Listed ==
  FlattenSeq([n \in DOMAIN (LeveledCategories \o CosmeticCategories) |->
    LET c == (LeveledCategories \o CosmeticCategories)[n]
    IN IF c \notin DOMAIN Files THEN <<>>
       ELSE [m \in DOMAIN Files[c] |-> [category |-> c, raw |-> Files[c][m]]]])

\* main: an id listed twice keeps what was listed last.
Latest(list, i) == list[Max({n \in DOMAIN list : list[n].raw.id = i})]
Entry(s) ==
  IF s.category \in ToSet(LeveledCategories) THEN Convert(s.category, s.raw) ELSE Cosmetic(s.category)
Merged(list) == [i \in {s.raw.id : s \in ToSet(list)} |-> Entry(Latest(list, i))]

Listing(i) == Latest(Listed, i)
Catalog    == Merged(Listed)
=============================================================================
