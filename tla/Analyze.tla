------------------------------- MODULE Analyze -------------------------------
(***************************************************************************)
(* The analysis of an account (internal/analyze on internal/catalog and    *)
(* the catalog cmd/catalogen makes): the report Run makes of a stored      *)
(* export as of a later moment, and the change log Diff makes of two       *)
(* exports, over two villages that are played and captured now and then.   *)
(*                                                                         *)
(* An export is its capture time and a bag of rows <<item, level, timer>>, *)
(* one element per copy, timer 0 for an idle copy; a helper's timer is its *)
(* helper_cooldown.                                                        *)
(***************************************************************************)
EXTENDS Catalogen, FiniteSets, Bags

INSTANCE BagsExt

CONSTANTS
  SectionOf,       \* the array of an export an item is listed in
  Id,              \* the ids of the buildings the code knows by name
  Block,           \* what the id of an item the catalog lacks stands for
  Currencies,      \* the ores included
  Starts,          \* accounts a player may start from
  MaxLevel,        \* bound on levels
  MaxTimer,        \* bound on timers
  MaxNow,          \* bound on the clock
  MaxGrown         \* bound on the obstacles of a kind

Items  == DOMAIN SectionOf
Known  == DOMAIN Catalog
Levels(i) == Catalog[i].levels
Row    == Items \X (0..MaxLevel) \X (0..MaxTimer)
Step   == Items \X (0..MaxLevel)

ASSUME AnalyzeAssumption ==
  /\ IsFiniteSet(Items) /\ Known \subseteq Items
  /\ MaxLevel \in Nat /\ MaxTimer \in Nat /\ MaxNow \in Nat \ {0}
  /\ \A i \in Known : Len(Levels(i)) <= MaxLevel
  /\ \A i \in Items \ Known : Block[i] \in STRING
  /\ Ores \subseteq Currencies

Villages  == {"home", "builder"}
GateNames == {"th", "bh", "lab", "starlab", "smith", "pethouse", "herohall"}
HallOf    == [home |-> "th", builder |-> "bh"]

\* Run: the village and the lane of each leveled array; obstacles and
\* decorations are in none.
Sections ==
  [buildings |-> <<"home", "builder">>,     traps |-> <<"home", "builder">>,
   units     |-> <<"home", "lab">>,         spells |-> <<"home", "lab">>,
   heroes    |-> <<"home", "hero">>,        pets |-> <<"home", "pethouse">>,
   equipment |-> <<"home", "blacksmith">>,  siege_machines |-> <<"home", "lab">>,
   helpers   |-> <<"home", "helper">>,
   buildings2 |-> <<"builder", "builder2">>, traps2 |-> <<"builder", "builder2">>,
   units2     |-> <<"builder", "starlab">>,  heroes2 |-> <<"builder", "hero2">>]
Leveled   == {i \in Items : SectionOf[i] \in DOMAIN Sections}
VillageOf == [i \in Leveled |-> Sections[SectionOf[i]][1]]
LaneOf    == [i \in Leveled |-> Sections[SectionOf[i]][2]]
Helper(i) == SectionOf[i] = "helpers"

\* groupKey: known buildings by their class, anything else by its kind.
GroupOf ==
  LET kinds == {"trap", "unit", "spell", "hero", "pet", "equipment", "helper"}
      group == [Defense |-> "defense", Wall |-> "wall", Resource |-> "resource", Army |-> "army",
                Helper |-> "helper", Worker |-> "hut", Worker2 |-> "hut"]
      Built(class) == CASE class \in {"Town Hall", "Town Hall2", "BB Builder Hall"} -> "core"
                        [] class \in DOMAIN group -> group[class]
                        [] OTHER -> "other"
      Key(i, kind) == CASE kind \in kinds -> kind
                        [] kind = "building" -> IF i \in Known THEN Built(Catalog[i].class) ELSE kind
                        [] OTHER -> "other"
  IN [i \in Leveled |-> Key(i, IF i \in Known THEN Catalog[i].kind ELSE Block[i])]

\* homeGroups, builderGroups.
Groups(v) == {"core", "defense", "trap", "wall", "army", "resource", "hut", "unit", "hero", "other"}
             \cup IF v = "home" THEN {"helper", "spell", "pet", "equipment", "siege"} ELSE {}

\* The sum of f(x) over the elements of a bag, once for each copy; the rows
\* or steps of an item.
Total(f(_), B) == SumFunction([x \in BagToSet(B) |-> B[x] * f(x)])
RowsOf(i, B)   == Restrict(B, {r \in BagToSet(B) : r[1] = i})
Size(B)        == SumFunction(B)
Copies(x, B)   == IF BagIn(x, B) THEN B[x] ELSE 0

\* The bag of F(x) for the elements x of a bag.
Image(F(_), B) ==
  [y \in {F(x) : x \in BagToSet(B)} |->
     Size(Restrict(B, {x \in BagToSet(B) : F(x) = y}))]

-----------------------------------------------------------------------------
(* Reading an export as of now.                                            *)

\* timerElapsed, of an upgrade: its timer has run out by now.
Elapsed(e, r, now) == r[3] > 0 /\ ~Helper(r[1]) /\ e.at + r[3] <= now

\* The level a row counts at: one up once its timer has run out.
LevelNow(e, r, now) == IF Elapsed(e, r, now) THEN r[2] + 1 ELSE r[2]

\* Fault: a finished timer of a gating building is overlooked.
GatesAtFault(e, now) ==
  [g \in GateNames |-> Max({0} \cup {r[2] : r \in {r \in BagToSet(e.rows) : r[1] = Id[g]}})]

\* readGates and maxLevel: the highest level of each gating building.
GatesAt(e, now) ==
  [g \in GateNames |-> Max({0} \cup {LevelNow(e, r, now) :
                                   r \in {r \in BagToSet(e.rows) : r[1] = Id[g]}})]

\* ownedByVillage, countOf: the copies of an item, whatever their level.
Owned(e, i) == Size(RowsOf(i, e.rows))

\* Entry.Reachable: the highest level all of whose gates are met, at least 1.
\* 0 stands for "ceiling unknown": no entry, or one without levels.
Reachable(i, gates) ==
  IF i \notin Known \/ Levels(i) = <<>> THEN 0
  ELSE Max({1} \cup {l \in DOMAIN Levels(i) :
                       \A g \in DOMAIN Levels(i)[l].requires : gates[g] >= Levels(i)[l].requires[g]})

\* The price of one level: the entry's resource, or the level's own instead,
\* the ores (foldOre), and the time.
Charge(i, l) ==
  LET lv == Levels(i)[l]
  IN [c \in Currencies \cup {"seconds"} |->
        CASE c = "seconds" -> lv.seconds
          [] c \in Ores    -> lv.ore[c]
          [] c = (IF lv.alt = "" THEN Catalog[i].resource ELSE lv.alt) -> lv.cost
          [] OTHER -> 0]

\* Fault: the last level is left out.
BetweenFault(i, from, to) ==
  [c \in Currencies \cup {"seconds"} |->
     SumFunction([l \in (from + 1)..(to - 1) |-> Charge(i, l)[c]])]

\* Entry.Between: the price of the levels above from, up to to.
Between(i, from, to) ==
  [c \in Currencies \cup {"seconds"} |->
     SumFunction([l \in (from + 1)..Min({to, Len(Levels(i))}) |-> Charge(i, l)[c]])]

-----------------------------------------------------------------------------
(* The panels, from the statistics s of the items shown.                   *)

\* addRemaining: the levels left for the copies below the ceiling, and their
\* price.
StepsLeft(buckets, top)   == Total(LAMBDA l : Max({top - l, 0}), buckets)
CostLeft(i, buckets, top) ==
  [c \in Currencies \cup {"seconds"} |->
     IF top = 0 THEN 0 ELSE Total(LAMBDA l : Between(i, l, top)[c], buckets)]

\* ItemStat, by builder.add and builder.end, of an item i with ceiling top and
\* so many copies at each level: those at the ceiling, what is done of a target,
\* which a copy above the ceiling raises to its own level, and what is left.
ItemStat(x) ==
  [id        |-> x.i,
   buckets   |-> x.at,
   copies    |-> Size(x.at),
   lowest    |-> Min(BagToSet(x.at)),
   highest   |-> Max(BagToSet(x.at)),
   reachable |-> x.top,
   done      |-> Total(LAMBDA l : l, x.at),
   target    |-> Max({x.top} \cup BagToSet(x.at)) * Size(x.at),
   atMax     |-> IF x.top = 0 THEN 0 ELSE Size(Restrict(x.at, {l \in BagToSet(x.at) : l >= x.top})),
   steps     |-> StepsLeft(x.at, x.top),
   price     |-> CostLeft(x.i, x.at, x.top)]

\* An item whose group is none of its village's (a building the catalog has
\* not heard of) is not shown; one without a ceiling is not measured.
Stats(e, now) ==
  LET g     == GatesAt(e, now)
      shown == {i \in {r[1] : r \in BagToSet(e.rows)} \cap Leveled : GroupOf[i] \in Groups(VillageOf[i])}
  IN {ItemStat(x) :
        x \in {[i |-> i, top |-> Reachable(i, g),
                at |-> Image(LAMBDA r : LevelNow(e, r, now), RowsOf(i, e.rows))] : i \in shown}}
Measured(s) == {x \in s : x.reachable > 0}

\* Bill.add: currencies add up over all measured items, the time by lane.
BillColumns == Currencies \cup {"builderSeconds", "labSeconds", "otherSeconds"}
TimeColumn(lane) == CASE lane \in {"builder", "builder2"} -> "builderSeconds"
                      [] lane \in {"lab", "starlab"}      -> "labSeconds"
                      [] OTHER                            -> "otherSeconds"
Entered(i, price, c) ==
  IF c \in Currencies THEN price[c] ELSE IF c = TimeColumn(LaneOf[i]) THEN price.seconds ELSE 0
Bill(s) ==
  [steps |-> SumFunction([x \in Measured(s) |-> x.steps]),
   spend |-> [c \in BillColumns |->
                SumFunction([x \in Measured(s) |-> Entered(x.id, x.price, c)])]]

\* Strength earned, and what the ceilings allow, over the measured items.
StrengthAt(i, l) == IF l \in DOMAIN Levels(i) THEN Levels(i)[l].strength ELSE 0
Strength(s) ==
  [done      |-> SumFunction([x \in Measured(s) |-> Total(LAMBDA l : StrengthAt(x.id, l), x.buckets)]),
   reachable |-> SumFunction([x \in Measured(s) |-> StrengthAt(x.id, x.reachable) * x.copies])]

\* primaryGate: the most specific gate of the first level.
PrimaryGate(i) ==
  LET order == <<"lab", "starlab", "herohall", "smith", "pethouse", "th", "bh">>
      met   == {n \in DOMAIN order : Levels(i) # <<>> /\ order[n] \in DOMAIN Levels(i)[1].requires}
  IN IF met = {} THEN {} ELSE {order[Min(met)]}

\* builder.end: a group and the items of it shown.  Only the measured ones feed
\* the percentages.  Its gate is that of whichever item is looked at first.
Group(k) ==
  [key      |-> k.key,
   items    |-> {x.id : x \in k.shown},
   copies   |-> SumFunction([x \in k.shown |-> x.copies]),
   atMax    |-> SumFunction([x \in k.shown |-> x.atMax]),
   steps    |-> SumFunction([x \in Measured(k.shown) |-> x.steps]),
   gate     |-> UNION {PrimaryGate(x.id) : x \in {x \in k.shown : x.id \in Known}},
   measured |-> Measured(k.shown) # {},
   done     |-> SumFunction([x \in Measured(k.shown) |-> x.done]),
   target   |-> SumFunction([x \in Measured(k.shown) |-> x.target])]

\* builder.end: a village is the sum of its groups; the copies of a group
\* without a measured item count as unmeasured.
Village(v) ==
  [key        |-> v.key,
   groups     |-> v.groups,
   copies     |-> SumFunction([k \in v.groups |-> k.copies]),
   atMax      |-> SumFunction([k \in v.groups |-> k.atMax]),
   done       |-> SumFunction([k \in v.groups |-> k.done]),
   target     |-> SumFunction([k \in v.groups |-> k.target]),
   steps      |-> SumFunction([k \in v.groups |-> k.steps]),
   unmeasured |-> SumFunction([k \in {k \in v.groups : ~k.measured} |-> k.copies])]
Overall(s) ==
  LET At(x)    == <<VillageOf[x.id], GroupOf[x.id]>>
      split    == {[key |-> p[2], of |-> p[1], shown |-> {x \in s : At(x) = p}] : p \in {At(x) : x \in s}}
  IN {Village(v) : v \in
        {[key |-> v, groups |-> {Group(k) : k \in {k \in split : k.of = v}}] :
           v \in {VillageOf[x.id] : x \in s}}}

\* computeBalance: the measured groups of both villages.
Balance(overall) ==
  UNION {{[village |-> v.key, group |-> k] : k \in {k \in v.groups : k.measured}} : v \in overall}

\* builder.notes: the items shown that the catalog has not heard of, or of
\* which it does not know the highest level.
Notes(s) ==
  [unnamed |-> {x.id : x \in s} \ Known,
   beyond  |-> {x.id : x \in {x \in s : x.id \in Known /\ Levels(x.id) # <<>>
                                        /\ x.highest > Len(Levels(x.id))}}]

\* One step up from level l, with the strength it adds.
Suggestion(i, l, price) ==
  [item |-> i, from |-> l, price |-> price, gain |-> StrengthAt(i, l + 1) - StrengthAt(i, l)]

\* Fault: the step up from the highest copy.
NextUpFault(s) ==
  {Suggestion(x.id, x.highest, Between(x.id, x.highest, x.highest + 1)) :
     x \in {x \in Measured(s) : x.highest < x.reachable}}

\* builder.nextUp: the step up from the lowest copy of each item below its
\* ceiling, whether or not that copy is idle.
NextUp(s) ==
  {Suggestion(x.id, x.lowest, Between(x.id, x.lowest, x.lowest + 1)) :
     x \in {x \in Measured(s) : x.lowest < x.reachable}}

\* hallShortfall: what a hall's levels so far unlock and nobody built.
Gives(unlocks, i) == IF i \in DOMAIN unlocks THEN unlocks[i] ELSE 0
Allowed ==
  [v \in Villages |-> [hall \in 0..MaxLevel |-> [i \in Items |->
     LET id == Id[HallOf[v]]
     IN IF id \notin Known THEN 0
        ELSE SumFunction([h \in 1..Min({hall, Len(Levels(id))}) |-> Gives(Levels(id)[h].unlocks, i)])]]]
Missing(e, v, hall) ==
  [i \in {i \in Known : Levels(i) # <<>> /\ Allowed[v][hall][i] > 0 /\ Owned(e, i) < Allowed[v][hall][i]}
     |-> Allowed[v][hall][i] - Owned(e, i)]

\* Fault: the gates stay as they are.
RaisedFault(g, v) == g

\* nextGates: the gates once the village's next hall level is there.
Raised(g, v) == [g EXCEPT ![HallOf[v]] = @ + 1]

\* nextHallPreview: the price of the next level of the hall, what it unlocks
\* and how many of the village's items it gives room to climb; nothing without
\* a hall and at its last level.
HallPreview(e, g, v) ==
  LET hall == Id[HallOf[v]]
      now  == g[HallOf[v]]
  IN IF hall \notin Known \/ now \notin 1..(Len(Levels(hall)) - 1) THEN {}
     ELSE {[price    |-> Between(hall, now, now + 1),
            unlocks  |-> Levels(hall)[now + 1].unlocks,
            affected |-> Cardinality({i \in Leveled \cap Known :
                           /\ VillageOf[i] = v /\ Owned(e, i) > 0
                           /\ Reachable(i, Raised(g, v)) > Reachable(i, g)})]}

\* builder.add, addHelpers: the jobs of an export, as <<item, level, when it
\* is done>>.
Jobs(e) == Image(LAMBDA r : <<r[1], r[2], e.at + r[3]>>,
                    Restrict(e.rows, {r \in BagToSet(e.rows) : r[3] > 0 /\ r[1] \in Leveled}))
Running(e, now) == LET jobs == Jobs(e) IN Restrict(jobs, {j \in BagToSet(jobs) : j[3] > now})

\* builder.lanes: capacity and use of a lane and when it is next free.  A lane
\* with work in it is shown even if its capacity could not be counted.
Lanes == {"builder", "lab", "helper", "builder2", "starlab"}
Capacity(e, lane) ==
  CASE lane = "builder"  -> Owned(e, Id.hut)
    [] lane = "builder2" -> Owned(e, Id.hut2)
    [] lane = "helper"   -> Size(Restrict(e.rows, {r \in BagToSet(e.rows) : Helper(r[1])}))
    [] OTHER             -> Min({1, Owned(e, Id[lane])})
LaneUse(jobs, busy, capacity) ==
  [busy     |-> busy,
   total    |-> IF capacity = 0 THEN busy ELSE capacity,
   nextFree |-> IF busy > 0 /\ busy >= capacity THEN Min({j[3] : j \in BagToSet(jobs)}) ELSE 0]
LanesOf(e, running) ==
  LET In(lane) == Restrict(running, {j \in BagToSet(running) : LaneOf[j[1]] = lane})
  IN [lane \in Lanes |-> LaneUse(In(lane), Size(In(lane)), Capacity(e, lane))]

\* Run: the report of export e as of now; its list of jobs keeps those that
\* have landed, which are left out here, and the extras only count copies.
Panels(s) ==
  LET Of(overall) == [overall |-> overall, balance |-> Balance(overall)]
  IN [villages |-> Of(Overall(s)), notes |-> Notes(s), bill |-> Bill(s),
      strength |-> Strength(s), nextUp |-> NextUp(s)]
Halls(e, g) ==
  [gates   |-> g,
   missing |-> [v \in Villages |-> Missing(e, v, g[HallOf[v]])],
   hall    |-> [v \in Villages |-> HallPreview(e, g, v)]]
Report(e, now) ==
  [panels |-> Panels(Stats(e, now)),
   halls  |-> Halls(e, GatesAt(e, now)),
   jobs   |-> Running(e, now),
   lanes  |-> LanesOf(e, Running(e, now)),
   extras |-> [i \in Items \ Leveled |-> Owned(e, i)]]

-----------------------------------------------------------------------------
(* Diff: the change log between two exports.  Helpers are left out.        *)

Logged    == {i \in Leveled : ~Helper(i)}
StepsOf(rows) == Image(LAMBDA r : <<r[1], r[2]>>, rows)
Rows(e)   == StepsOf(Restrict(e.rows, {r \in BagToSet(e.rows) : r[1] \in Logged}))
Timed(e)  == StepsOf(Restrict(e.rows, {r \in BagToSet(e.rows) : r[1] \in Logged /\ r[3] > 0}))
Above(s)  == <<s[1], s[2] + 1>>

\* Fault: before and after are swapped.
LoggedLandingsFault(prev, cur, s) ==
  LET lost   == Copies(s, Rows(cur)) - Copies(s, Rows(prev))
      gained == Copies(Above(s), Rows(prev)) - Copies(Above(s), Rows(cur))
  IN IF lost > 0 /\ gained > 0 THEN Min({lost, gained}) ELSE 0

\* levelChanges: a level that lost copies whose next level gained some.
LoggedLandings(prev, cur, s) ==
  LET lost   == Copies(s, Rows(prev)) - Copies(s, Rows(cur))
      gained == Copies(Above(s), Rows(cur)) - Copies(Above(s), Rows(prev))
  IN IF lost > 0 /\ gained > 0 THEN Min({lost, gained}) ELSE 0

\* startedChanges: more timers at a level than before.
LoggedStarts(prev, cur, s) == Copies(s, Timed(cur) (-) Timed(prev))

\* countChanges: how many of an obstacle appeared, or if negative were cleared.
Appeared(prev, cur, i) == Owned(cur, i) - Owned(prev, i)

-----------------------------------------------------------------------------
(* Two villages that are played, and captured now and then.  The game goes *)
(* by its own tables.                                                      *)

VARIABLES
  now,     \* the clock
  village, \* the rows an export captured now would hold
  seen,    \* the export stored last
  begun,   \* since then: upgrades begun, helpers sent and obstacles grown, as
           \* a bag of <<item, level left>>
  ended,   \* since then: levels gained and obstacles cleared, likewise
  paid     \* what the upgrades begun since then cost

vars == <<now, village, seen, begun, ended, paid>>

Current == [at |-> now, rows |-> village]

Init ==
  /\ now = 1
  /\ village \in Starts
  /\ seen = Current
  /\ begun = EmptyBag
  /\ ended = EmptyBag
  /\ paid = [c \in BillColumns |-> 0]

\* Fault: an idle copy climbs as well.
AgedFault(r) == IF r[3] <= 1 THEN <<r[1], r[2] + 1, 0>> ELSE <<r[1], r[2], r[3] - 1>>

\* A row one second later: the timer counts down, and when it runs out the
\* copy is idle, one level up unless it is a helper's.
Aged(r) == CASE r[3] = 0 -> r
             [] r[3] = 1 -> <<r[1], IF Helper(r[1]) THEN r[2] ELSE r[2] + 1, 0>>
             [] OTHER    -> <<r[1], r[2], r[3] - 1>>

Tick ==
  /\ now < MaxNow
  /\ now' = now + 1
  /\ village' = Image(Aged, village)
  /\ ended' = ended (+) StepsOf(Restrict(village, {r \in BagToSet(village) :
                                                     r[3] = 1 /\ ~Helper(r[1])}))
  /\ UNCHANGED <<seen, begun, paid>>

\* The highest level of a building; its timer runs out in the row itself.
Built(i, rows) == Max({0} \cup {r[2] : r \in {r \in BagToSet(rows) : r[1] = i}})

\* The game's rule for a level of its tables: each building a column names
\* must be there, in the item's own village.  The hall column of the Builder
\* Base's troops is on a scale of its own.
RawOf    == [i \in Known |-> Listing(i).raw]
Table(i) == RawOf[i].levels
House(i) ==
  IF VillageOf[i] = "home"
  THEN [townhall |-> "th", lab |-> "lab", smith |-> "smith", pethouse |-> "pethouse", tavern |-> "herohall"]
  ELSE [townhall |-> "bh", lab |-> "starlab"]
Allows(i, l, rows) ==
  /\ l \in DOMAIN Table(i)
  /\ \A c \in DOMAIN Table(i)[l].needs :
       \/ SectionOf[i] = "units2" /\ c = "townhall"
       \/ Built(Id[House(i)[c]], rows) >= Table(i)[l].needs[c]

\* What a level costs by those tables: one currency and the ores, and time.
Asked(i, l) ==
  LET lv    == Table(i)[l]
      money == IF lv.alt # "" THEN lv.alt ELSE RawOf[i].resource
  IN [c \in Currencies \cup {"seconds"} |->
        CASE c = "seconds" -> lv.build_time + lv.upgrade_time
          [] c # "seconds" /\ SectionOf[i] = "equipment" ->
               IF c \in Ores THEN lv.upgrade_cost[c] ELSE 0
          [] c # "seconds" /\ SectionOf[i] # "equipment" ->
               IF c = money THEN lv.build_cost + lv.upgrade_cost ELSE 0]

\* The tables are within the bounds, and helpers are upgraded at once.
ASSUME GameAssumption ==
  \A i \in Leveled \cap Known :
    /\ DOMAIN Table(i) = 1..Len(Table(i)) /\ Len(Table(i)) \in 0..MaxLevel
    /\ \A l \in DOMAIN Table(i) :
         LET lv == Table(i)[l]
         IN /\ DOMAIN lv.needs \subseteq DOMAIN House(i) /\ \A c \in DOMAIN lv.needs : lv.needs[c] \in Nat
            /\ \A j \in DOMAIN lv.unlocks : lv.unlocks[j] \in Nat
            /\ lv.build_time \in Nat /\ lv.upgrade_time \in Nat
            /\ lv.build_time + lv.upgrade_time <= IF Helper(i) THEN 0 ELSE MaxTimer
            /\ IF SectionOf[i] = "equipment" THEN lv.upgrade_cost \in [Ores -> Nat]
               ELSE lv.build_cost \in Nat /\ lv.upgrade_cost \in Nat

\* An item has the section of its category and village, and a group there.
CategoriesOf ==
  [buildings |-> {"buildings", "guardians"}, traps |-> {"traps"}, units |-> {"troops"},
   spells |-> {"spells"}, heroes |-> {"heroes"}, pets |-> {"pets"}, equipment |-> {"equipment"},
   siege_machines |-> {"troops"}, helpers |-> {"helpers"}, buildings2 |-> {"buildings"},
   traps2 |-> {"traps"}, units2 |-> {"troops"}, heroes2 |-> {"heroes"}]
ASSUME SectionAssumption ==
  \A i \in Leveled \cap Known :
    /\ Listing(i).category \in CategoriesOf[SectionOf[i]]
    /\ VillageOf[i] = "builder" <=> Listing(i).raw.village = "builderBase"
    /\ GroupOf[i] \in Groups(VillageOf[i])

\* A level is built or upgraded, for money that is not an ore.
ASSUME PriceAssumption ==
  \A i \in Leveled \cap Known : \A l \in DOMAIN Table(i) :
    LET lv == Table(i)[l]
    IN /\ lv.build_time = 0 \/ lv.upgrade_time = 0
       /\ SectionOf[i] # "equipment" => lv.build_cost = 0 \/ lv.upgrade_cost = 0
       /\ {lv.alt, RawOf[i].resource} \cap (Ores \cup {"seconds"}) = {}

\* Levels ask for as much as those before and, from the second on, for what the
\* catalog reads, besides halls the laboratory a level asks for needs anyway.
ASSUME TablesAssumption ==
  \A i \in Leveled \cap Known : \A l \in DOMAIN Table(i) :
    LET needs    == Table(i)[l].needs
        read     == Range(Columns(Listing(i).category, Listing(i).raw.village))
        theirs   == Id[House(i).lab]
        LabNeeds == Table(theirs)[needs.lab].needs
    IN /\ \A c \in DOMAIN needs \ read :
            l > 1 /\ SectionOf[i] # "units2" =>
              /\ c = "townhall" /\ "lab" \in DOMAIN needs
              /\ theirs \in Leveled \cap Known /\ VillageOf[theirs] = VillageOf[i]
              /\ needs.lab \in DOMAIN Table(theirs) /\ c \in DOMAIN LabNeeds
              /\ needs[c] <= LabNeeds[c]
       /\ \A m \in 1..l : \A c \in DOMAIN Table(i)[m].needs :
            c \in DOMAIN needs /\ Table(i)[m].needs[c] <= needs[c]

\* Whether a copy is being upgraded, and the level it has or is to have.
Climbing(r) == r[3] > 0 /\ ~Helper(r[1])
Heading(r)  == IF Climbing(r) THEN r[2] + 1 ELSE r[2]

\* What is under way can be finished within the bounds, and the game allows
\* every level there is.
ASSUME StartsAssumption ==
  \A start \in Starts :
    /\ IsABag(start) /\ BagToSet(start) \subseteq Row
    /\ \A r \in BagToSet(start) :
         /\ r[3] > 0 => r[1] \in Leveled /\ (r[2] < MaxLevel \/ Helper(r[1]))
         /\ r[1] \in Leveled => Heading(r) > 0
         /\ r[1] \in Leveled \cap Known =>
              \A l \in DOMAIN Table(r[1]) : l <= Heading(r) => Allows(r[1], l, start)

\* A hall that is there has a level, and one being upgraded a next one.
ASSUME HallAssumption ==
  \A v \in Villages :
    LET hall == Id[HallOf[v]]
    IN /\ hall \in Leveled \cap Known /\ VillageOf[hall] = v /\ ~Helper(hall)
       /\ \A start \in Starts : \A r \in BagToSet(start) :
            r[1] = hall => r[2] > 0 /\ (Climbing(r) => r[2] < Len(Table(hall)))

\* Work is begun while its lane has a free slot.
LaneFree(i) ==
  LET busy == Restrict(village, {r \in BagToSet(village) :
                                  r[3] > 0 /\ r[1] \in Leveled /\ LaneOf[r[1]] = LaneOf[i]})
  IN LaneOf[i] \in Lanes => Size(busy) < Capacity(Current, LaneOf[i])

\* A copy of i begins the step up from level l: with a timer, or at once when
\* the step takes no time.
Climb(i, l, others) ==
  LET price == Asked(i, l + 1)
      row   == IF price.seconds = 0 THEN <<i, l + 1, 0>> ELSE <<i, l, price.seconds>>
  IN /\ village' = BagAdd(others, row)
     /\ begun' = BagAdd(begun, <<i, l>>)
     /\ ended' = IF price.seconds = 0 THEN BagAdd(ended, <<i, l>>) ELSE ended
     /\ paid' = [c \in BillColumns |-> paid[c] + Entered(i, price, c)]
     /\ UNCHANGED <<now, seen>>

\* An idle copy is upgraded.
Upgrade(r) ==
  /\ r[1] \in Leveled \cap Known /\ r[3] = 0
  /\ LaneFree(r[1])
  /\ Allows(r[1], r[2] + 1, village)
  /\ Climb(r[1], r[2], BagRemove(village, r))

\* A copy the hall unlocks is built.
Granted(i) ==
  LET hall == Id[HallOf[VillageOf[i]]]
  IN SumFunction([h \in 1..Min({Built(hall, village), Len(Table(hall))}) |-> Gives(Table(hall)[h].unlocks, i)])
Unbuilt == {i \in Leveled \cap Known : Owned(Current, i) < Granted(i)}
Build(i) ==
  /\ LaneFree(i)
  /\ Allows(i, 1, village)
  /\ Climb(i, 0, village)

\* A helper is sent to work, and needs to rest.
Send(i) ==
  /\ \E r \in BagToSet(village) :
       /\ r[1] = i /\ r[3] = 0
       /\ village' = BagAdd(BagRemove(village, r), <<i, r[2], MaxTimer>>)
       /\ begun' = BagAdd(begun, <<i, r[2]>>)
  /\ UNCHANGED <<now, seen, ended, paid>>

\* An obstacle is cleared, or grows, once each between two exports.
Clear(i) ==
  /\ <<i, 0, 0>> \in BagToSet(village) /\ ~BagIn(<<i, 0>>, ended)
  /\ village' = BagRemove(village, <<i, 0, 0>>)
  /\ ended' = BagAdd(ended, <<i, 0>>)
  /\ UNCHANGED <<now, seen, begun, paid>>
Grow(i) ==
  /\ ~BagIn(<<i, 0>>, begun) /\ Owned(Current, i) < MaxGrown
  /\ village' = BagAdd(village, <<i, 0, 0>>)
  /\ begun' = BagAdd(begun, <<i, 0>>)
  /\ UNCHANGED <<now, seen, ended, paid>>

\* An export is captured and stored.
Capture ==
  /\ seen' = Current
  /\ begun' = EmptyBag
  /\ ended' = EmptyBag
  /\ paid' = [c \in BillColumns |-> 0]
  /\ UNCHANGED <<now, village>>

Next ==
  \/ Tick
  \/ \E i \in Unbuilt : Build(i)
  \/ \E r \in BagToSet(village) : Upgrade(r)
  \/ \E i \in Items : Helper(i) /\ Send(i)
  \/ \E i \in Items \ Leveled : Clear(i) \/ Grow(i)
  \/ Capture

Spec == Init /\ [][Next]_vars

-----------------------------------------------------------------------------
\* The villages and the stored export are bags of rows within the bounds, and
\* the export is not from the future.
TypeOK ==
  /\ now \in 1..MaxNow
  /\ IsABag(village) /\ BagToSet(village) \subseteq Row
  /\ seen.at \in 1..now
  /\ IsABag(seen.rows) /\ BagToSet(seen.rows) \subseteq Row
  /\ IsABag(begun) /\ BagToSet(begun) \subseteq Step
  /\ IsABag(ended) /\ BagToSet(ended) \subseteq Step
  /\ paid \in [BillColumns -> Nat]

\* The player only waited since the stored export.
Waited == begun = EmptyBag /\ \A i \in Items \ Leveled : ~BagIn(<<i, 0>>, ended)

\* However old the stored export is, while the player only waits its report
\* as of now is the one a fresh export would get: an upgrade whose timer ran
\* out counts everywhere, in levels, gates, ceilings, the bill, suggestions,
\* shortfalls, the hall previews, jobs and lanes.
ReportKeepsUp == Waited => Report(seen, now) = Report(Current, now)

\* What the report suggests is what the game, by its own tables, lets the
\* player begin next, at the game's price, for the lowest copy of each item,
\* and nothing it would let them is left out; nor is the next hall level's
\* price another.  On the way are the generated catalog, the timers that ran
\* out and the two villages' gates.
SuggestionsHonest ==
  Waited =>
    LET Lowest(i) == Min({r[2] : r \in {r \in BagToSet(village) : r[1] = i}})
        startable == {i \in Leveled \cap Known :
                        Owned(Current, i) > 0 /\ Allows(i, Lowest(i) + 1, village)}
        g         == GatesAt(seen, now)
    IN /\ NextUp(Stats(seen, now)) =
            {Suggestion(i, Lowest(i), Asked(i, Lowest(i) + 1)) : i \in startable}
       /\ \A v \in Villages : \A p \in HallPreview(seen, g, v) :
            p.price = Asked(Id[HallOf[v]], Built(Id[HallOf[v]], village) + 1)

\* The panels agree about every item with a ceiling: it is suggested exactly
\* when levels are left to pay for, which is when a copy is below the ceiling;
\* then it is not complete and the bill covers the suggestion.  A group is
\* complete on the balance only when nothing of it is suggested, and then it
\* is unless the catalog is behind it; its shares are shares.  The bill's steps are
\* those of the two villages.
PanelsAgree ==
  LET ItemAgrees(x, listed) ==
        /\ (listed # {}) <=> x.steps > 0
        /\ (listed # {}) <=> x.atMax < x.copies
        /\ \A n \in listed : \A c \in DOMAIN n.price : n.price[c] <= x.price[c]
        /\ listed # {} => x.done < x.target
        /\ x.done <= x.target
      GroupAgrees(k, suggested, behind) ==
        /\ k.done = k.target => suggested = {}
        /\ suggested = {} /\ behind = {} => k.done = k.target
      Agree(s, next, overall) ==
        /\ \A x \in Measured(s) : ItemAgrees(x, {n \in next : n.item = x.id})
        /\ \A v \in overall : v.done <= v.target /\ v.atMax + v.unmeasured <= v.copies
        /\ Bill(s).steps = SumFunction([v \in overall |-> v.steps])
        /\ \A p \in Balance(overall) :
             GroupAgrees(p.group, {n \in next : n.item \in p.group.items},
                         Notes(s).beyond \cap p.group.items)
      Of(s) == Agree(s, NextUp(s), Overall(s))
  IN Of(Stats(seen, now))

\* The change log is true: it never lists more landings or starts at a level
\* than happened since the stored export, it lists the only landing of an item
\* of which nothing new was built, and its obstacles are the net of what grew
\* and was cleared.
LogIsTrue ==
  /\ \A s \in BagToSet(Rows(seen)) \cup BagToSet(Timed(Current)) :
       /\ LoggedLandings(seen, Current, s) <= Copies(s, ended)
       /\ LoggedStarts(seen, Current, s) <= Copies(s, begun)
  /\ \A s \in BagToSet(ended) :
       s[1] \in Logged /\ RowsOf(s[1], ended) = SetToBag({s}) /\ ~BagIn(<<s[1], 0>>, begun)
         => LoggedLandings(seen, Current, s) = 1
  /\ \A i \in Items \ Leveled :
       Appeared(seen, Current, i) = Copies(<<i, 0>>, begun) - Copies(<<i, 0>>, ended)

\* What the bill of an export says is left, without the upgrades in flight.
Due(e, t) ==
  LET bill   == Bill(Stats(e, t)).spend
      flying == Restrict(e.rows, {r \in BagToSet(e.rows) :
                  r[3] > 0 /\ ~Elapsed(e, r, t) /\ ~Helper(r[1]) /\ r[1] \in Known})
  IN [c \in BillColumns |->
        bill[c] - Total(LAMBDA r : Entered(r[1], Between(r[1], r[2], r[2] + 1), c), flying)]

\* The bill is what the rest will really cost: as long as no gate opened and
\* nothing new was built since the stored export, what its report says is left
\* is what the game took since then and what a fresh report says is left, in
\* each currency and each kind of time, whatever was started and landed.
GatesNow == GatesAt(Current, now)
BillIsPaidOff ==
  LET then == Due(seen, now)
      rest == Due(Current, now)
  IN /\ GatesAt(seen, now) = GatesNow
     /\ \A i \in Leveled : Owned(seen, i) = Owned(Current, i)
     => \A c \in BillColumns : then[c] = paid[c] + rest[c]

\* The preview of a next hall level comes true: when the hall lands and no
\* other gate moves, as many of the village's items get a higher ceiling as it
\* said, and the hall allows what it said on top.
PreviewComesTrue ==
  [][\A v \in Villages :
       GatesNow' = [GatesNow EXCEPT ![HallOf[v]] = @ + 1] =>
         \E p \in HallPreview(Current, GatesNow, v) :
           /\ p.affected = Cardinality({i \in Leveled \cap Known :
                VillageOf[i] = v /\ Owned(Current, i) > 0
                /\ Reachable(i, GatesNow') > Reachable(i, GatesNow)})
           /\ \A i \in Items :
                Allowed[v][GatesNow'[HallOf[v]]][i]
                  = Allowed[v][GatesNow[HallOf[v]]][i] + Gives(p.unlocks, i)]_vars
=============================================================================
