---------------------------- MODULE VillageLife ----------------------------
(***************************************************************************)
(* "Build Now" against the village it is about: the game runs and lands    *)
(* upgrades, the player declares some of them, captures exports and        *)
(* uploads them late, twice or out of order, and the server overlays       *)
(* (internal/pending Apply) and judges (Reconcile) what was declared.      *)
(*                                                                         *)
(* Requests are whole here, one after the other; BuildNow has their        *)
(* interleavings.  The game itself is not in the repository: it is modelled*)
(* by what exports are taken to mean (a copy with a timer sits at the      *)
(* level it is leaving and lands one level up when the timer runs out).    *)
(***************************************************************************)
EXTENDS Overlay

CONSTANTS
  Built,      \* the village when its first export is captured
  Players,    \* the players: TRUE is an honest one
  MaxNow,     \* bound: the last tick of the clock
  MaxSteps,   \* bound: upgrades begun or declared, for each kind of player
  MaxFiles,   \* bound: exports captured
  None        \* no export yet

ASSUME VillageLifeAssumption ==
  /\ IsFiniteSet(Items)
  /\ Built \in Rows
  /\ Players \subseteq BOOLEAN
  /\ MaxSteps \in [BOOLEAN -> Nat]
  /\ MaxNow \in Nat /\ MaxNow <= MaxTimer /\ MaxFiles \in Nat
  /\ None \notin Export
  /\ \A i \in Items, l \in Levels : MaxNow + Seconds[i][l] <= MaxTimer
  /\ \A i \in Items, l \in Levels, t \in Timers \ {0} :
       Built[i, l, t] > 0 => t <= Seconds[i][l]

VARIABLES
  honest,  \* the player declares exactly what they begin, as they begin it
  game,    \* the village's rows as of now
  now,     \* time.Now, and the game's clock
  files,   \* the exports captured so far
  base,    \* the newest export the store holds, None if it holds none
  acts,    \* the declared upgrades
  nextId,  \* the id of the next declared upgrade
  steps    \* history: every upgrade begun in the game, and when it ran

vars == <<honest, game, now, files, base, acts, nextId, steps>>

\* A step of the game from level `from`: begun, and running until it landed
\* or was cancelled.  n tells steps alike apart: one that was running at the
\* start has the time it had left in it, any other a zero.
GameStep == [n : Timers \X Nat, item : Items, from : Levels,
             begun : Nat, until : Nat]

TypeOK ==
  /\ honest \in BOOLEAN
  /\ game \in Rows
  /\ now \in Nat
  /\ files \subseteq Export
  /\ base \in Export \cup {None}
  /\ acts \subseteq Action
  /\ nextId \in Nat
  /\ steps \subseteq GameStep

\* The copies running at the start, as steps.
StepsAt(i, l, t) == [n : {t} \X (1..Built[i, l, t]), item : {i}, from : {l},
                     begun : {0}, until : {t}]

Init ==
  /\ honest \in Players
  /\ game = Built
  /\ now = 0
  /\ files = {[at |-> 0, rows |-> Built]}
  /\ base = None
  /\ acts = {}
  /\ nextId = 1
  /\ steps = UNION {StepsAt(i, l, t) : i \in Items, l \in Levels, t \in Timers \ {0}}

-----------------------------------------------------------------------------
(* The game.                                                               *)

\* The rows d seconds on: timers run down, and land one level up.
CopiesLater(rows, d, i, l, t) ==
  IF t > 0 THEN IF t + d \in Timers THEN rows[i, l, t + d] ELSE 0
  ELSE rows[i, l, 0] +
       (IF l = 0 THEN 0 ELSE MapThenSumSet(LAMBDA s : rows[i, l - 1, s], 1..d))

Later(rows, d) ==
  [c \in Items \X Levels \X Timers |-> CopiesLater(rows, d, c[1], c[2], c[3])]

Tick ==
  /\ now < MaxNow
  /\ now' = now + 1
  /\ game' = Later(game, 1)
  /\ UNCHANGED <<honest, files, base, acts, nextId, steps>>

\* An idle copy starts its next level: the game's own rule.
Begin(i, l) ==
  /\ game[i, l, 0] > 0 /\ l < Reach[i]
  /\ LET s == Seconds[i][l]
     IN /\ game' = [game EXCEPT ![<<i, l, 0>>] = @ - 1,
                                ![IF s > 0 THEN <<i, l, s>> ELSE <<i, l + 1, 0>>] = @ + 1]
        /\ steps' = steps \cup {[n |-> <<0, Cardinality(steps) + 1>>, item |-> i,
                                 from |-> l, begun |-> now, until |-> now + s]}

\* An upgrade begun and not declared.
Play(i, l) ==
  /\ ~honest
  /\ Cardinality(steps) < MaxSteps[honest]
  /\ Begin(i, l)
  /\ UNCHANGED <<honest, now, files, base, acts, nextId>>

\* Exports count whole seconds.  The runs of an honest player leave out the
\* export captured after a start but within its second: Reconcile cannot know
\* that it shows the upgrade, and overlays it twice.
Capture ==
  /\ honest => \A s \in steps : s.begun < now
  /\ Cardinality(files) < MaxFiles
  /\ files' = files \cup {[at |-> now, rows |-> game]}
  /\ UNCHANGED <<honest, game, now, base, acts, nextId, steps>>

-----------------------------------------------------------------------------
(* The tracker.                                                            *)

\* POST /api/report: reconcile against the export stored before, then build
\* the report, which removes what the newest export leaves no copy for.
Upload(e) ==
  LET left == IF base = None THEN acts ELSE acts \ Retired(acts, e)
      best == IF base = None \/ e.at > base.at THEN e ELSE base
  IN /\ e \in files
     /\ base' = best
     /\ acts' = Applied(best, left)
     /\ UNCHANGED <<honest, game, now, files, nextId, steps>>

\* POST /api/pending, with its report before and after.
Accepts(i, l) ==
  /\ base # None
  /\ LET over == Overlaid(base, acts)
     IN /\ [item |-> i, from |-> l] \in Suggested(over, now)
        /\ Placeable(over.rows, over.at,
                     [id |-> 0, item |-> i, from |-> l, startedAt |-> now])

Declare(i, l) ==
  /\ nextId <= MaxSteps[honest]
  /\ Accepts(i, l)
  /\ acts' = Applied(base, acts \cup {[id |-> nextId, item |-> i, from |-> l,
                                       startedAt |-> now]})
  /\ nextId' = nextId + 1
  /\ UNCHANGED <<honest, now, files, base>>

\* Honestly: as the upgrade begins in the game.
DeclareTrue(i, l)  == Declare(i, l) /\ Begin(i, l)
DeclareFalse(i, l) == ~honest /\ Declare(i, l) /\ UNCHANGED <<game, steps>>

\* DELETE /api/pending of an upgrade that is cancelled in the game as well.
\* What an export shows running cannot be withdrawn, so an honest player
\* leaves that alone.
Withdraw(a) ==
  /\ a \in acts
  /\ acts' = Applied(base, acts \ {a})
  /\ UNCHANGED <<honest, now, files, base, nextId>>

CancelTrue(a) ==
  /\ Withdraw(a)
  /\ \E s \in steps :
       /\ s.item = a.item /\ s.from = a.from /\ s.begun = a.startedAt
       /\ s.until > now
       /\ honest => \A e \in files : e.at < s.begun
       /\ game' = [game EXCEPT ![<<s.item, s.from, s.until - now>>] = @ - 1,
                               ![<<s.item, s.from, 0>>] = @ + 1]
       /\ steps' = (steps \ {s}) \cup {[s EXCEPT !.until = now]}
CancelFalse(a) == ~honest /\ Withdraw(a) /\ UNCHANGED <<game, steps>>

Next ==
  \/ Tick
  \/ Capture
  \/ \E i \in Items, l \in Levels :
       Play(i, l) \/ DeclareTrue(i, l) \/ DeclareFalse(i, l)
  \/ \E e \in files : Upload(e)
  \/ \E a \in acts : CancelTrue(a) \/ CancelFalse(a)

Spec == Init /\ [][Next]_vars

-----------------------------------------------------------------------------

\* What the dashboard shows is what the village is: as long as every upgrade
\* begun is declared, the newest export with the declared upgrades overlaid
\* (loadOverlay) and the clock run on is the real village, whatever was
\* uploaded when, and whatever was cancelled.
OverlayIsTruth ==
  honest /\ base # None =>
    Later(Overlaid(base, acts).rows, now - base.at) = game

Confirmed(e) == Retired(acts, e) \ Mismatched(acts, base, e)

\* The game's steps of item i that some moment between two captures saw.
Seen(i, from, to) ==
  {s \in steps : s.item = i /\ s.begun <= to /\ s.until >= from}

\* An upload never confirms a declared upgrade unless that very step of that
\* item was begun, running or landed between the two exports that judge it.
ConfirmedHappened ==
  [][\A e \in files : base # None /\ Upload(e) =>
       \A a \in Confirmed(e) :
         \E s \in Seen(a.item, base.at, e.at) : s.from = a.from]_vars

\* An upload contradicts an upgrade that was begun when it was declared only
\* if another step of the same item blurs the two exports' comparison, or the
\* upgrade was cancelled in the game, or, its player not being an honest one,
\* it began within the second of the older export, which may show it done.
MismatchHasCause ==
  [][\A e \in files : base # None /\ Upload(e) =>
       \A a \in Mismatched(acts, base, e) :
       \A s \in Seen(a.item, base.at, e.at) :
         /\ s.from = a.from /\ s.begun = a.startedAt
         /\ s.until = s.begun + StepTime(a)
         /\ honest \/ s.begun > base.at
         => \E other \in Seen(a.item, base.at, e.at) : other # s]_vars

\* An upgrade begun as it was declared is never contradicted (the comment on
\* pending.Mismatch).
TruthNotContradicted ==
  [][\A e \in files : base # None /\ Upload(e) =>
       \A a \in Mismatched(acts, base, e) :
         ~\E s \in steps : /\ s.item = a.item /\ s.from = a.from
                           /\ s.begun = a.startedAt
                           /\ s.until = s.begun + StepTime(a)]_vars
=============================================================================
