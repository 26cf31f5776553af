------------------------------- MODULE Overlay -------------------------------
(***************************************************************************)
(* The data of "Build Now" (internal/pending): what an export says of a    *)
(* village, how declared upgrades are layered on top of one (Apply), which *)
(* upgrades the analysis suggests (Run's NextUp, as far as a claim depends *)
(* on it), and how two exports judge a declared upgrade (Reconcile).       *)
(*                                                                         *)
(* An export's arrays are abstracted to counts: rows[i, l, t] is how many  *)
(* copies of item i sit at level l with t seconds left on their timer,     *)
(* t = 0 for an idle copy.  Rows of one item, level and timer differ only  *)
(* in marks nothing here reads (GearUp), and a row with a timer is one     *)
(* copy, so the counts say all that Apply, NextUp and Reconcile look at.   *)
(***************************************************************************)
EXTENDS Integers, FiniteSets, FiniteSetsExt

CONSTANTS
  Items,     \* item ids that occur in exports
  Known,     \* those the catalog has an entry for
  Arrayed,   \* those whose rows live in the array arrayFor searches for them
  MaxLevel,  \* highest level in the bounded catalog
  Reach,     \* Reach[i]: the ceiling the village's gates allow item i today
  Seconds,   \* Seconds[i][l]: build time of the step l -> l+1, 0 if instant
  MaxTimer   \* bound on the seconds a row's timer may show

Levels == 0..MaxLevel
Timers == 0..MaxTimer

Rows   == [Items \X Levels \X Timers -> Nat]
Export == [at : Nat, rows : Rows]

(***************************************************************************)
(* A declared upgrade.  ToLevel is always FromLevel + 1 and the seconds    *)
(* are the catalog's (postPending copies both from the suggestion), so     *)
(* neither is a field.  id is the position in the pending list: the list   *)
(* of a village is a set of actions ordered by id.                         *)
(***************************************************************************)
Action == [id : Nat, item : Items, from : Levels, startedAt : Nat]

StepTime(a) == Seconds[a.item][a.from]

ASSUME OverlayAssumption ==
  /\ Known \subseteq Items
  /\ Arrayed \subseteq Items
  /\ MaxLevel \in Nat
  /\ MaxTimer \in Nat
  /\ Reach \in [Items -> Levels]
  /\ Seconds \in [Items -> [Levels -> Nat]]

-----------------------------------------------------------------------------
(* Apply: layering declared upgrades onto an export.                       *)

\* Definitions named ...Fault are what a plausible mistake in the code would
\* make of the definition after them; no behaviour uses them.
RemainingFault(a, at) == StepTime(a)

\* Seconds left on a declared timer, rebased onto the export's capture time.
Remaining(a, at) == a.startedAt + StepTime(a) - at

\* The cell the split-off copy ends up in: a timed upgrade sits at the level
\* it is leaving with a timer, an instant one has already arrived.
Landing(a, at) == IF StepTime(a) > 0 THEN <<a.item, a.from, Remaining(a, at)>>
                                     ELSE <<a.item, a.from + 1, 0>>

\* Apply's three ways to call an action stale, negated: an unknown item, a
\* timer the export postdates, no idle copy at the level in the item's array.
Placeable(rows, at, a) ==
  /\ a.item \in Known
  /\ StepTime(a) > 0 => Remaining(a, at) > 0
  /\ a.item \in Arrayed
  /\ rows[a.item, a.from, 0] > 0

\* splitOne: exactly one idle copy moves, none is created.
Split(rows, at, a) ==
  [rows EXCEPT ![<<a.item, a.from, 0>>] = @ - 1, ![Landing(a, at)] = @ + 1]

\* Apply's loop: the rows after the actions with ids up to n were considered
\* in order, each either split off or skipped as stale.
AfterAction(e, acts) ==
  LET rows[n \in Nat] ==
        IF n = 0 THEN e.rows
        ELSE LET hit == {a \in acts : a.id = n /\ Placeable(rows[n-1], e.at, a)}
             IN IF hit = {} THEN rows[n-1]
                ELSE Split(rows[n-1], e.at, CHOOSE a \in hit : TRUE)
  IN rows

LastId(acts) == IF acts = {} THEN 0 ELSE Max({a.id : a \in acts})

\* Apply's results: the overlaid export, and which actions were placed.
Overlaid(e, acts) == [e EXCEPT !.rows = AfterAction(e, acts)[LastId(acts)]]
Stale(e, acts)    == {a \in acts :
                        ~Placeable(AfterAction(e, acts)[a.id - 1], e.at, a)}
Applied(e, acts)  == acts \ Stale(e, acts)

-----------------------------------------------------------------------------
(* What the analysis suggests.                                             *)

\* The levels copies of item i count at, as of now: a timer that has run out
\* since the export was captured has landed (builder.add, timerElapsed).
LevelsNow(e, i, now) ==
  {l \in Levels : \E t \in Timers :
     \/ e.rows[i, l, t] > 0 /\ ~(t > 0 /\ e.at + t <= now)
     \/ l > 0 /\ t > 0 /\ e.rows[i, l-1, t] > 0 /\ e.at + t <= now}

\* nextUp: for each measured item not wholly at its ceiling, the step up from
\* the lowest owned level, whether or not that copy is idle.
Suggested(e, now) ==
  {s \in [item : Known, from : Levels] :
     /\ Reach[s.item] > 0
     /\ s.from \in LevelsNow(e, s.item, now)
     /\ \A l \in LevelsNow(e, s.item, now) : s.from <= l
     /\ s.from < Reach[s.item]}

-----------------------------------------------------------------------------
(* Reconcile: two exports judge the declared upgrades.                     *)

CopiesAt(rows, i, l) == MapThenSumSet(LAMBDA t : rows[i, l, t], Timers)
RunningAt(rows, i, l) == MapThenSumSet(LAMBDA t : rows[i, l, t], Timers \ {0})

\* Fault: the level above the one gained.
LandedChangeFault(prev, new, i, l) ==
  /\ l + 2 \in Levels
  /\ CopiesAt(new.rows, i, l) < CopiesAt(prev.rows, i, l)
  /\ CopiesAt(new.rows, i, l + 2) > CopiesAt(prev.rows, i, l + 2)

\* levelChanges: a level that lost copies whose next level gained some.
LandedChange(prev, new, i, l) ==
  /\ l < MaxLevel
  /\ CopiesAt(new.rows, i, l) < CopiesAt(prev.rows, i, l)
  /\ CopiesAt(new.rows, i, l + 1) > CopiesAt(prev.rows, i, l + 1)

\* startedChanges: more timers at a level than before.
StartedChange(prev, new, i, l) ==
  RunningAt(new.rows, i, l) > RunningAt(prev.rows, i, l)

ConfirmedByChange(a, prev, new) ==
  \/ LandedChange(prev, new, a.item, a.from)
  \/ StartedChange(prev, new, a.item, a.from)

\* Fault: an idle copy counts as well.
ConfirmedStillRunningFault(a, new) ==
  /\ a.item \in Known \cap Arrayed
  /\ CopiesAt(new.rows, a.item, a.from) > 0

\* confirmedStillRunning: some copy at the level has a timer.
ConfirmedStillRunning(a, new) ==
  /\ a.item \in Known \cap Arrayed
  /\ RunningAt(new.rows, a.item, a.from) > 0

\* Every action the new export was captured after is retired ...
Retired(acts, new) == {a \in acts : new.at > a.startedAt}

\* ... and those it shows no sign of are reported as mismatches.
Mismatched(acts, prev, new) ==
  {a \in Retired(acts, new) : ~ConfirmedByChange(a, prev, new)
                              /\ ~ConfirmedStillRunning(a, new)}
=============================================================================
