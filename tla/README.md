# Verification of the village tracker

This directory specifies the program in `src/` in TLA+: a Go server and a small
React page that analyse Clash of Clans village exports, remember them, and let
the player declare upgrades between two exports. Each module models one part of
it, TLC checks the modules on small instances, and TLAPS proves the theorems of
the `*Proofs` modules for every value of the constants. `PROJECT.json` lists the
components, the runs, the mutants each property is tested with, which lines each
definition models, the hazards and the theorems.

    tlc -workers 2 -config races.cfg MCBuildNow      # one run
    tlapm BuildNowProofs.tla                         # one module's proofs

## 1. The system

The server runs in two modes. **Local** mode has one nameless user and keeps
snapshots in memory or, with `-history`, in files. **Hosted** mode has accounts
(GitHub or Google sign-in) and keeps everything in Postgres, except the declared
upgrades, which live in the memory of the process in both modes. Go serves each
request on its own goroutine. No handler holds a lock, or a transaction, across
two calls of a store; each call is atomic by itself (a mutex, or one SQL
statement). That is where nearly everything hard in this code comes from.

| part | state it keeps | operations | hard behaviour | what makes it correct |
|---|---|---|---|---|
| Build Now handlers, `internal/server/server.go` | none; locals of requests in flight | GET/POST `/api/report`, POST/DELETE `/api/pending`, GET/DELETE `/api/villages` | requests interleave between any two store calls; saves and reads may fail; the process restarts | an upload is answered with its own analysis; declared upgrades are not lost, doubled or resurrected, and each still has a copy to stand for |
| declared upgrades, `internal/pending` | a list of actions per (user, tag), in memory | `Apply`, `Reconcile`, `List`, `Add`, `Remove` | exports arrive late, twice or out of order; timers are rebased; instant steps chain | the overlaid export is the real village; only what happened is confirmed |
| snapshot stores, `internal/store/{memory,file,postgres}` | snapshots per (user, tag), by capture time | `Save`, `Recent`, `Villages`, `Forget`, `Prune` | trim, prune and forget against saves; torn files | the newest snapshot of a village is never lost to a trim or a prune |
| quotas, `checkQuota` | none; counts rows | three counts before a save | counts and inserts of several uploads interleave | no limit is overrun by more than the uploads in flight |
| digest, `internal/server/digest.go` | opt-in and checked-from point, columns of the users row | opt in, opt out, cron walk | two runs overlap; a user opts in while one walks; reads and writes fail | nothing that landed is passed over, nothing reported twice |
| accounts, `internal/auth`, `admin.go`, `feature` | users, roles, sessions | sign in, sign out, change a role | sign-in in three calls; the last admin's guard is a read before a write | somebody can always administrate; a signed-out session is dead |
| analysis, `internal/analyze`, `internal/catalog` | none; pure | `Run`, `Diff`, `Reachable`, `Between` | timers that ran out since the capture; lanes; levels behind gates; two villages | a report is that of a fresh export as long as nobody plays; suggestions are startable; the panels and the change log agree with the game |
| page, `web/src/App.jsx` | report, tag, mismatches | poll, upload, select, forget, declare, cancel | answers arrive for a village no longer shown; a store lists a village under another name | the page shows the village it names, and in the end what is stored of it |
| history, config, lookup proxy, prune route | none | forward or read | | |
| catalog generator, `cmd/catalogen` | none | run once, at build time | one column of the game's tables means different things by village and category | the analysis goes by the game's own gates and prices |
| deployment files | none | | | |

How they interact: the page calls the handlers; the handlers call the snapshot
store and the pending store, one call at a time; `loadOverlay` joins the two
(the newest snapshot with the declared upgrades laid on it) and `analyze.Run`
turns that into the report. `postReport` also judges the declared upgrades
(`Reconcile`) by comparing the uploaded export with the one stored before it.
Two crons reach the hosted store from outside: the prune, which `vercel.json`
schedules every night, and the digest, which nothing schedules yet.

## 2. The modules

| module | models | composes |
|---|---|---|
| `Overlay` | exports as counts of copies; `Apply`, `Reconcile`, the suggestions and changes they depend on | |
| `BuildNow` | every handler that touches snapshots or declared upgrades, one action per store call; restarts; the clock | extends `Overlay`, implements `Declarations` and `SnapshotStore` |
| `Declarations` | what the pending store promises: declared once, gone for good | |
| `SnapshotStore` | what a snapshot store promises, whichever it is: one save at a time, the newest is spared, only a forget or a volatile store loses it | |
| `VillageLife` | the player and the game around `Overlay`, with whole requests | extends `Overlay` |
| `HostedUploads` | quota counts, the two statements of Postgres `Save`, the prune | implements `SnapshotStore` |
| `Digest` | the opt-in handler and each statement of the digest cron | |
| `FileStore` | the snapshot store of `-history`, one action per system call; crashes | implements `SnapshotStore` |
| `Accounts` | sign-in, sign-out, sessions, roles, the admin board and the gate of Build Now | |
| `Catalogen` | the catalog made from the game's tables | |
| `Analyze` | `Run`'s report of an export as of a later moment, and `Diff`'s change log, over two villages that are played and captured | extends `Catalogen` |
| `Page` | the React page: its requests in flight and which village it shows | |
| `HostedUploadsProofs`, `DigestProofs`, `FileStoreProofs`, `AccountsProofs`, `PageProofs` | theorems | extend the module they are about |
| `BuildNowProofs` | what the loop of `Apply` computes, for every export and list, and the theorems about the handlers | extends `BuildNow` |
| `VillageLifeProofs` | the clock on rows and overlays, and the theorems about the village; it repeats the lemmas about `Apply` that it uses, its variables having the names of others in `BuildNow` | extends `VillageLife` |
| `AnalyzeProofs` | counting bags and their worth, and the theorems about the report, its bill and the change log | extends `Analyze` |
| `MC...` | values of the constants for TLC | extend the module they instantiate |

### Overlay

An export is `[at, rows]`; `rows[i, l, t]` counts the copies of item `i` at
level `l` with `t` seconds left, `t = 0` meaning idle. `splitOne` takes one copy
off a row that has an idle one, and rows of equal item, level and timer differ
only in a mark nothing here reads, so the counts lose nothing that `Apply`,
`nextUp` and `Reconcile` look at. `AfterAction` is the loop of `Apply`,
`Placeable` the negation of its three reasons to call an action stale,
`Suggested` is `nextUp`, `Mismatched` is what `Reconcile` returns. One catalog
entry, `Reach` and `Seconds`, stands for what the gates of the village allow.

### BuildNow

A request is a process: `job[r].pc` names the store call it makes next, the
other fields are the locals of its handler. `Recent`, `List` and `Retire` are
`loadOverlay`, which all handlers but the forgetting one run through. `Start`
stands for reading the request and resolving its tag. Snapshots are a set, `Saved`
is `Save` with the memory store's trim. The restart empties the declared
upgrades, and the snapshots unless `Durable`. Ids are random in the code; here
they count up, so that the list order is the order of the ids: two actions never
share one in either. A read may fail, or find a snapshot that does not parse: for
`loadOverlay` that is a 500 before anything is listed or retired (`RecentFails`), for the
upload's look at the snapshot before it no more than a village that seems new, so
nothing is judged (`ReadPrevFails`). `unread`, `unjudged` and `bridged` are histories of
what such a read, or an instant upgrade, leaves behind; no step reads them, and the
properties name them where they make an exception. The module takes store calls as atomic, which holds for the
memory and the Postgres store; `FileStore` takes the calls of the file store
apart.

### SnapshotStore

`held[t]` is the set of capture times of village `t`. `Spares` is the whole
promise: of what a save's trim or a prune takes away, something as new stays.
Each store is shown to keep it with what it holds in the place of `held`: the
snapshots of `BuildNow`, where `forgetting` are the villages a forget is about to
clear; the rows of `HostedUploads`, which nobody forgets; the complete files of
`FileStore`, where a forget takes one file after the other and a crash may cut it
short.

### VillageLife

Here requests are whole and the other side is real: the `game` has rows of its
own, timers run down and land, and the player begins, declares, cancels, captures
exports and uploads them in any order. `honest` is chosen at the start: an honest
player declares exactly what they begin. `steps` is a history of what the game
really did, to judge confirmations and contradictions by. The game's actions are
external; they say what an export is taken to mean. `Later` is the clock on rows.

`MismatchHasCause` lets a dishonest player's upgrade be contradicted if it began within
the second of the older export: what is declared is anchored in whole seconds, so such
an export may show it done already, and then the change it is judged by never comes.
Two walls are enough for that, and an honest player's runs leave such captures out.

### HostedUploads

`villages` and `snapshots` are the rows of the two tables for one user. A
request counts snapshots, then villages if it found none, then the uploads of the
day, and only then upserts the village's row and inserts the snapshot. A count
that fails lets the upload through, as in the code; `missed` counts those, for the
limits to allow for.

### Digest

`optIn` and `checked` are the two columns; `snap` is the newest snapshot of each
village with the times its timers are due. A run reads all candidates, takes the
time, walks each candidate's villages, reports, and writes its time as the new
checked-from point. `told`, `due`, `optedAt` and `clean` are histories that no
step of the program reads.

### FileStore

`link` is the directory tree: which file (inode) the name `[village, capture,
json or tmp]` leads to. `job[j]` is a call of the store between two system calls.
A save makes the directory, looks for the snapshot, opens and truncates the
temporary file, writes and renames; since an open file stays the same file when
its name changes, a save can go on writing to what another one has just renamed.
`os.RemoveAll` lists once, unlinks what it listed and removes the directory if
nothing appeared in it since. A prune is modelled for one directory: its walk
takes one after the other. `Recent` and `Villages` only read and skip a file that
is gone by then, so they are what the properties quantify over. `acked`, `alone`
and `job[j].kept` are histories.

### Accounts

`role` is the column of `users` (an account's row is keyed by the provider's
identity, so sign-ins of one account meet in one row), `holder` and `expires` the
table of sessions. A sign-in is modelled from the point where the provider has
answered: `Upsert`, for `ADMIN_EMAIL` also `Grant`, `IssueSession`. The address is what
the provider gives this time, if any (`Emails`), and each sign-in writes it over the
one in the row, so an account may get `ADMIN_EMAIL` late, lose it and get it back. A request
sends a cookie handed out at some time, so two tabs, a stale tab and a sign-out in
another one are all there. `Who` is `Service.User`; the board then counts if an
admin demotes themselves, and sets the role; a claim asks for the required role
and looks its user up again. Every statement may fail; a failed one is taken to
have changed no row. `over`, `fresh`, `born`, `out`, `demoted` and `halfway` are
histories. The last one is of users whose row got `ADMIN_EMAIL` from a sign-in that has
not got past the grant: if the grant fails there, a session of before has that
address and a plain role, and `OwnerIsAdmin` excepts just this.
`BuildNow` lets every user claim; `Accounts` is who may.

### Catalogen and Analyze

`Catalogen` is `cmd/catalogen` without its input and output: which column of the
game's tables a gate is read from (`Columns`), by category and village, what a level
costs and unlocks, and what becomes of an entity listed twice.

In `Analyze` an export is a bag of rows `<<item, level, timer>>`. `Stats` is what
`add` and `mergeBuckets` make of it as of a moment, `GatesAt` is `readGates`, and
each panel of the report is an operator of the two: `ItemStat` is `builder.add`
and `builder.end`, `StepsLeft` and `CostLeft` are `addRemaining`, `Bill` is
`Bill.add`, `Missing` is `hallShortfall`, and so on. `Group` and `Village` are the
sums a village is shown with; an item in a group no village lists is in none of
them. Both villages are there, with their own gates, lanes and halls, and so are
helpers, whose timer is a cooldown, and obstacles, of which only the number
counts. What a report lists is a set here; its order is left out. A group's gate is that
of whichever item is looked at first, so it is a set too.

The state is the account itself, moved by the game (`Tick`, `Upgrade`, `Build`,
`Send`, `Clear`, `Grow`: external), and `seen`, the export stored last, so that
every property of `Report(seen, now)` is about any age of it. The game goes by its
own tables: `Allows` and `Asked` read `Files` where the report reads the catalog
made from them, so a gate taken from the wrong column shows. `begun`, `ended` and
`paid` are histories since `seen`. `Overlay` keeps its own, smaller account of
suggestions and changes, for the proofs about `BuildNow`; there the gates do not
move.

### Page

`net` is the bag of requests in flight: asked, or answered and not yet applied.
`Serve` is the server's side, one step per request (`BuildNow` is what happens
inside), and an answer is the content stored at that moment; `Deliver` is what
the page does with it, whenever that is. `Poll` is the interval, `Send` the drop
zone, `BuildNow` stands for claiming and cancelling. `tag` is both React's state
and `localStorage`, which the code always writes together. The effect that lists
the villages after a change of tag is part of `Render`. The interval does not wait:
`Poll` sends the next request whether or not earlier ones were answered, and a poll
sent beside another counts as an act. A request's `on`, the village the page was on
when it was sent, is a history, and so are `late`, whether the report shown was of a
village already gone when it came, and `untold`, the villages whose forget was served
without the page hearing of it. Exports carry their tag here, as the game's do.

`PageCatchesUp` is not that the page is right in the end, since it need not be. It is
that the page ends up on a stored village, if there is one, with the newest report of it,
or on a forgotten one for one of three reasons the property names: `late`, `untold`, or
a forget that has not been answered. On a village that is stored nothing can
keep it from the newest report.

A store has a name of its own for a village, `Label`: the tag itself in memory and
in Postgres, the directory in the file store, which has lost the `#`. The list of
villages and a request without a tag come under that name. The snapshots are found
by either; what is declared is kept by whichever name was said. So a village that
was picked from the list, or loaded without a tag, is shown without what is
declared by its tag until the next poll, and `PageCatchesUp` says that the poll
mends it.

### Faults

A definition named `...Fault` is what a plausible mistake would make of the
definition it precedes. No behaviour uses it. Putting one in the place of the
definition it mimics must break a property, which is how we know the property
can fail; `PROJECT.json` lists the pairs.

## 3. The runs

| run | question | result |
|---|---|---|
| `races` | two requests of any kind but forgets at every interleaving, timed and instant upgrades, saves and reads that fail, restarts | nothing declared is lost or returns; after the last answer nothing unplaceable is left in a village that could be read, but on a level an instant upgrade bridged; uploads are answered with themselves and judge only if stored |
| `serial` | one request at a time in local mode, two villages, timed and instant upgrades, forgets, a trim, restarts, saves and reads that fail | in a village that could be read nothing unplaceable is left, whatever was bridged; nothing is left declared that an upload covered, unless one could not read the snapshot before it; a claim takes a free copy and is refused only for want of one; the snapshots make a snapshot store |
| `settles` | liveness under fair handlers whose reads may fail | a village that keeps sending its newest export, and can read the one before again and again, clears what was declared before it |
| `life` | the overlay against the real village | the overlay is the truth for an honest player; only real steps are confirmed, for any player |
| `quota` | two hosted uploads, failing counts and saves, days, the prune | limits are overrun by at most the other upload and one for each count that failed; the rows make a snapshot store |
| `digest` | two cron runs against a user who opts in and out and uploads late | nothing missed, nothing told twice |
| `files` | two saves, forgets or prunes at every system call, failing writes, crashes | a reader meets no part of a snapshot unless two saves of one capture overlap; an answered save stays; the files make a snapshot store |
| `accounts` | two requests to sign in, sign out, change a role or claim, failing statements, expiry | a session that is over is nobody's; whose row shows `ADMIN_EMAIL` is an admin, unless demoted on the board or given the address by a sign-in that got no further; the last admin goes only by an overtaken or uncounted demotion; the gate fails closed |
| `analyze` | two villages that are played while their exports grow old, read with a generated catalog | waiting alone never outdates a report; suggestions are what the game lets the player start, at its price; the panels agree; the bill is paid off by what upgrades cost; the hall preview comes true; the change log invents nothing |
| `page` | selections, uploads, claims, forgets, other devices and failures, answered in any order between polls that overlap, with a store's own name for one village | report and name agree; a poll switches villages only if it was overtaken; the page ends up with the newest report of a stored village, unless an answer of before a forget, or a forget whose own answer was lost, leaves it on one that is gone |
| `contradicted` | a mismatch is a declaration the export contradicts | **violated**: two walls at level 1 are declared up to 2 and one of them on to 3, all true; the export has one wall at each of 2 and 3, so the log has a landing from 1 to 2, which confirms both declarations of that step, and none from 2 to 3, which is reported |
| `from_here_on` | opting in means from here on | **violated**: a run in flight writes its older time over the reset |

The last two are findings; `PROJECT.json` quotes the sentence of the code each
disagrees with. Neither loses an export: they put a wrong line in an answer or a
mail. `ClaimTakesFreeCopy` is a property of `serial` only: two overlapping claims
for one idle copy are both accepted. `SettledPlaceable` holds in `races` although
that happens there, because the answer to the later claim overlays both and
retires the one without a copy. It makes two exceptions: a village whose last report
could not be read, since such a request ends before it retires anything, and an upgrade
from a level that an instant one was declared to, since a request that overlaid an
older export may be the last to take that one away. Served one at a time, requests need
no such second exception (`SettledSerially`).

`serial` is a run over either of the local stores, and a little more than each can do:
the memory store's trim and its loss of everything at a restart, the file store's failing
saves and reads. What survives a restart in the file store is a village with snapshots
and no declarations, which cancelling leads to as well.

### Bounds, and why they are enough

* Two requests or runs at a time. Every race here is between a read and a write
  of one request and one other writer; a third could only repeat the second, but for
  a chain of instant upgrades: of three requests one that overlaid an export no longer the
  newest may retire a link after the other two have read the village. That is why
  `SettledPlaceable` excepts what was declared on a bridged level; `ListsSettle` proves
  it for any number.
* One village in `races` and `settles`: all state is keyed by tag. `serial` has
  two, to see that forgetting or uploading one leaves the other alone.
* `races` has a cannon (two ticks) and a wall (instant), both idle in one export and,
  in the next, started and a level up, captured at ticks 0 and 2 and uploadable at any
  later tick in any order. Its two claims are enough for a double claim and for a chain.
* `serial` has a timed (`cannon`, two ticks) and an instant (`wall`) item and one that
  `arrayFor` does not find (`ram`, a siege machine), all idle, under way and landed in
  exports of ticks 0 to 2; two claims, enough for a chain; and two snapshots kept per
  village, so the trim happens. The villages are alike, hence symmetric.
* `settles` has one claim on a cannon that is never begun, and three exports.
* `life` has three cannons, one of them already running, and two walls; four
  steps for an honest player, two for any other (who also plays without
  declaring), three captures.
* `quota` has limits of two, one and one against two uploads over three tags, so
  each limit is reached and overrun; a day is two ticks, so midnight passes; one count
  fails.
* `digest` has one user with two villages, two overlapping runs and two uploads
  in three ticks; candidates are independent of one another.
* `files` has two calls on one directory (no call touches two at a time), two
  captures, hence a newest and one older, and six files, more than the names and
  the open files of two calls can use.
* `accounts` has an account whose provider gives `ADMIN_EMAIL` or no address and
  another with none, so both can be admins and demote themselves or each other; the two
  requests are symmetric; two sessions, one each or two of one account; a
  session lasts one tick and the clock goes one tick.
* `analyze` starts from six accounts: at hall 1 with all idle, with the hall and a
  first building under way, ahead of the catalog, at hall 2 with one of every kind of
  gate, and in the Builder Base. Twenty-three items, two of them unknown to the catalog
  (one in no listed group), make every column, gate and lane of the code matter once, also
  in a chain (hall, laboratory, troop); levels go to 4, timers to 2, and the clock has
  three ticks, so a chain of timers lands. `MaxGrown` allows two obstacles.
* `page` has two villages, of which one has a store name apart from its tag and
  declared upgrades, one or none remembered, and two acts: a selection, an
  upload, a claim, a forget, an upload elsewhere or a failure. Two are enough for a
  switch overtaken by any other request, and to forget both villages. A poll sent while
  another is in flight is an act, so up to three are; requests for the list of villages
  are not bounded.
* `MaxClaims`, `MaxActs`, `MaxNow`, `MaxSteps`, `MaxFiles`, `MaxRuns`, `MaxMissed`, `MaxGrown`
  and the `MaxUploads` of `Digest` bound the behaviours, not the program. Runs stop when they are used
  up, but a request can always arrive, a user always flip a preference or a file
  always be uploaded again, so deadlock is checked everywhere.

### Fairness

`settles` assumes weak fairness of `Step(r)`, that is, a goroutine that can make
its next call eventually makes it. `page` assumes it of the interval and of the
serving and answering of polls (of some poll again and again; one overtaken by others may
wait for good), of which finitely many fail, as no page can catch up while all do; any other request may stay in flight for good. Nothing is assumed of clients,
clocks or restarts. That the village goes on sending its newest export, and is not
always unable to read the one before, is the hypothesis of the property, not of the
specification.

## 4. What is proved

For any number of requests, villages, exports, users and runs, and any limits:

* **BuildNow.** `TypeCorrect` needs two facts beside the types: a request about
  to add has a candidate, and an upload under way has an export (`HasCandidate`,
  `HasUpload`). `HandlersImplementDeclarations` maps each step to declaring the
  next id, withdrawing some, or nothing; it rests on `UniqueIds`, that the ids in
  all lists differ and are below the next one, because `Remove` takes away by id.
  `ClaimsSurvive` follows from the same. `HostedJudgesByStored` needs
  `UploadStored`, that an upload past its save has its capture stored; it holds
  only while nobody forgets villages (`NoForget`), no trim is on and a failed save
  ends the upload, and the theorem says so in its assumptions. `UploadsAnswered`
  allows any trim: by `OnItsWay`, an upload past its save has something as new as
  itself stored, and past its last read has it at hand. It needs that nobody forgets
  and that a failed save ends the upload or saves do not fail.
  `HandlersImplementStore` maps the handlers' steps to those of `SnapshotStore`; it
  rests on `SavedSpares`, that a trim leaves something as new as all it took.
  `ListsSettle` says that once all requests are answered nothing is left that the next
  read would drop, however many requests overlap, with timed and instant upgrades, failed saves
  and reads and restarts, if no village is forgotten; `SettledPlaceable` has the two
  exceptions of section 3 in it. Its invariant says which request owes a village
  its next overlay and that it will remove whatever is stale by then, unless its read fails
  (`unread`); what hangs on an instant upgrade is at a level of `bridged` (`Bridges`).
* **BuildNow, one request at a time** (`Requests = {r}`, as run `serial` has it), with
  forgets, failed saves and reads, restarts, instant upgrades and any limit: `ListsSettleSerially`,
  `UploadsJudge`, `ClaimsAreBacked` and `RefusalsAreEarned` are the four claims of that run about lists.
  The invariant, `SerialInv`, says of each village at each of the handler's steps what holds of its
  newest snapshot and its list (`Phase`): between requests the list is placed on the
  snapshot, unless that could not be read last, and nothing in it is older, unless an upload could
  not judge it (`Settled`), a restart included, which leaves it empty; a forget empties list and snapshots in turn; an upload's judgement leaves what is not older.
* **Overlay** (in `BuildNowProofs`). `AfterAction` is a recursive function, so its equation is
  itself a theorem: such a function is built value by value (`RecursionExists`) and what it
  satisfies is shown by the least counterexample, a set of numbers being something the
  provers can name where the predicate of an induction rule is not. `StaleAgain`: removing stale
  actions changes nothing for the others, so reading twice removes no more than
  reading once. `IdleCount`: the loop neither makes nor loses an idle copy.
  `NextIsPlaced`: a copy found is still there once the action is listed last. `HasNewestOf`,
  that finitely many snapshots have a newest, is by well-founded induction over subsets.
* **VillageLife** (`VillageLifeProofs`), for every village, catalog and player. All of it rests
  on `LifeInv`: `Counts` says that the copies with `t` seconds left are as many as the steps
  that end in `t` seconds, so a row of the game is explained by its history, and `Names` and
  `Times` keep that so through cancellations, which end a step early; the settled list is placed on
  the newest export. Copies of a level are a sum over timers, added up in the order `CHOOSE`
  picks, so the first lemmas show that the order does not matter (`CopiesTake`).
  `OverlayIsTheTruth` needs more than itself, because any export captured since the
  newest stored one may be uploaded next: `TruthInv` says of each of them that it shows the overlay
  of what had been begun by its capture, as of then. An upload then changes nothing
  (`Rebase`), because an upgrade still running may be placed before or after the clock runs on
  (`LaterSplit`, `OverlayLater`), and a cancellation may take one from the middle of
  the list (`SplitSwap`, `OverlayDrop`).
  `WhatIsConfirmedHappened` holds for any player: by `TracesInv` a level loses a copy
  between two exports only to a step that was seen then, and a copy shown running has its step;
  `GatesInv` adds that what is declared was the catalog's, so a confirmation rests
  on one of the two. `MismatchesHaveACause` rests on the converse, `MarksInv`: if just one step
  of an item was seen between two exports, nothing or exactly one copy moved, one level up
  if it landed, and an export captured while it ran shows it.
* **HostedUploads.** A limit plus the uploads in flight less one bounds the rows,
  but that is not inductive. The invariant is that rows **and** uploads already
  past the count together stay within that bound: a step that passes the count
  saw room, and a step that inserts turns an upload past the count into a row
  (`SnapshotQuota`, `VillageQuota`, `DayQuota`, together `LimitsKept`). For villages it needs `HasRow`,
  since an upload that saw snapshots skips the count because its row exists.
  Each limit allows for the counts that failed so far (`missed`), since an upload
  whose count failed goes ahead. `StatementsImplementStore` needs that a prune, which
  takes what is neither recent nor a village's newest, leaves something newer for
  each row it takes, hence that a finite set of snapshots has a newest; `SavedStays`
  follows.
* **Digest.** `NoneMissed` rests on `Knows`: below its candidate's checked-from
  point everything due was told already, and what a run has read covers the
  villages it is done with up to the run's own clock. It needs `Behind`: nothing
  is ahead of the clock, and what is due is in the newest snapshot. `NoneTwice` adds
  `Once`, which holds while runs stay apart and advance the point: whatever was told
  is below its user's point or is about to be (`Settled`), below the checked-from point
  of every candidate not yet reported, and below the run's clock (`Fresh`).
* **FileStore.** `AnsweredStays` holds as it stands: each step that takes a name
  away also takes the answer back. `NoTornSnapshot` needs to know where a file
  being written can be seen: a file has one name (`Unique`), that of a file being
  written is its temporary one (`Own`), two calls write under different ones
  (`Apart`, which is what `alone` says), and a rename finds its file whole
  (`Ready`). Every step but opening and renaming is one lemma (`QuietStep`).
  `FilesImplementStore` needs `Listed`: for each file a prune is still to remove, a
  newer one is in the directory, unless a forget has been at it since.
* **Accounts.** `BoardKeepsAdmin` needs `Guard`: while a request's check is fresh,
  an admin other than the one it will demote is there, because every demotion ends
  the freshness of all checks and two counted admins leave one besides oneself.
  `OwnerPromoted` is about whatever addresses the provider gives over time: `OwnerInv` says that a
  row with `ADMIN_EMAIL` has a role and its user is halfway, an admin, or was made plain by the
  board, and that a sign-in with it that is about to issue its session has been granted; `SessionsEnd`
  and `GateClosed` rest on `SessionInv`, that expiry is the sign-in plus the
  lifetime and that a cookie never changes its user.
* **Page.** `TypeOK` is inductive with `Fit`: a request is answered in kind, and the
  answer to a poll, a claim or a cancel sent for a village holds nothing but that
  village's content, because a store's name that is a tag is that tag's. `PollsKeepVillage`
  follows, for any number of polls in flight. `ReportNamed` also needs that a page with a report and no name is waiting for
  the answer that names it (`Refetching`).
* **Analyze** (`AnalyzeProofs`), for every catalog, account, player and clock. Both villages are
  bags, and a report is made of their images and sums, so the first part is about counting: a
  bag's copies are paired with numbers (`Heap`, `Tally`), the sums of the model are
  cardinalities of sets of such pairs, and an image has as many copies of `y` as there are
  elements that become `y` (`ImageCopies`). Each action is then stated once as what it counts
  (`VillageAges`, `BuildDoes`, ...). `TypeCorrect` needs `Landable`: what is under way has a
  level to land at. `ChangeLogIsTrue` follows from books that balance (`AllAddsUp`): what is
  at a level now and left it since the stored export was at it then or came from the
  level below, nothing is timed that was not or was begun since, and obstacles likewise.
  `ReportIsCurrent` is for an export of any age: while the player only waits the rows are those of
  the stored export with the clock run on (`WaitingIsAging`), the level a row counts at is the
  level it has (`RowKeepsUp`), and so gates, ceilings, statistics, jobs and lanes of
  the two are the same, and with them every panel. `PreviewIsKept` needs that a gate that rises by
  one rises to a level the hall's table has: by `Earned` every level there is was allowed by
  the game when it was gained and still is, as buildings only rise (`AllowedLater`), and a hall
  that is there was never level 0. The preview is made from the catalog, so `CatalogIsTables`
  says that the catalog has the levels of the tables, and `OneMoreLevel` that the hall's sums
  differ by that level.
  `SuggestionsAreHonest` compares two readings of the tables: `CeilingIsAllowed` and `AllowedIsMet`
  say that a level is under the ceiling exactly when the village has what the game asks for it,
  whichever column that was written in, and `ChargeIsAsked` and `OneStep` that one level's share of
  the catalog's prices is the game's price.
  `PanelsAlwaysAgree` rests on statistics that are `Sound`: as all levels of the stored export were
  allowed (`SeenAllowed`), an item has steps left exactly when its lowest copy is below
  its ceiling, and then is not complete; what holds of an item holds of its group and
  village, which are sums over classes of items (`SumOfClasses`).
  `BillIsTrue` is the one that had to be strengthened most: bills are counted to ceilings that
  move, so `PaidUp` says of **all** ceilings the village is within, and not just the
  present ones, that what was left of the stored export's rows is what was paid since and what is
  left of the village's (`PaysOff`). It is claimed only while every leveled item has as many
  copies as it had; since no copy is ever lost (`NoneLost`), a new one ends the claim for
  good. That a bill is such a sum over rows, less what is under way, is `DueIs`.

The assumptions are the `ASSUME`s of the modules: bounds are naturals, sets of
requests are finite, limits are at least one. In `VillageLife` the items are finitely
many, a copy running at the start has no more time left than its step takes, and timers
reach as far as the clock does plus any step, so that none is cut off. `Analyze` assumes of the game's
tables what the generator takes for granted (levels counted from 1, required levels and
prices that are numbers, an item listed under the array it is exported in and shown in a group
of its village, a level either built or upgraded and paid in one currency or in ores, required
levels that never fall, and what the catalog does not read of them implied by the laboratory) and of an
account what the game guarantees: each level it starts with is allowed, a timer is that of an
upgrade or a helper, and a hall that is being upgraded has a next level. The committed
`data/catalog.json` bears the tables' part out as far as it shows them: its levels' gates never
fall from one level to the next. No theorem takes the clock's
bound or the claims' bound to be any particular number.

Only model-checked: `DeclarationsSettle` and `PageCatchesUp`, since liveness under fairness
and `ENABLED` are out of the prover's reach.

## 5. What is not modelled, and what comes next

Not modelled, because it keeps no state, or because the state is not this program's:
decoding JSON, HTTP status lines and wording; icons, the display components and the
order things are listed in; the exchange with the OAuth provider, of which `Accounts`
has the outcomes; the profile lookup proxy; the generator's downloads and files;
deployment files. Of the memory store, what `BuildNow` does not ask of it, `Prune` and the
order of `Villages`, is left out. The file store's `Prune` is modelled although nothing calls it yet: the
prune route is there in hosted mode only, where the store is Postgres. Exports without a tag are left out too: the game
writes one, and `Page` could not tell such villages apart any better than the code.

Left for later: the change log of the History tab, fetched on its own and, like the
report, perhaps answered after a switch.

Several behaviours that disagree with a comment have no run of their own: two
overlapping uploads can both report the same mismatch; a request that read an
older snapshot can retire a declaration the newest export has a copy for; an
upload can make stale, and so drop without a word, an action it did not judge; a
save whose second statement fails leaves a village that counts against the quota
and is not shown; a claim added after a forget's three calls stays without a
snapshot; overlapping claims (`server.go:636-639`, above); mismatches stay on the
page when a forget moves it to another village, though `App.jsx:148` clears them
on a switch; a poll or a selection in flight moves the page back after a switch, and
if the village was forgotten meanwhile the page stays on it: later polls are answered 404 and
change nothing (`App.jsx:67`), with a single village in the list there is no picker, and the forget
that `App.jsx:158-159` calls the explicit way back has been used;
a building the catalog has not heard of gets a group no village lists
(`analyze.go:872` against `homeGroups`), so it is left out of the counts and of
the note on unnamed items, though `analyze.go:465-466` says it is counted; the page
never learns the tag of an export without one, so its next poll leaves
that village; a village's tag loses its `#` in the file store; of two overlapping
saves of one snapshot the later one fails at its rename; a sign-out whose
delete fails leaves the session to expire; in the file store a village picked from the
list lacks its declared upgrades until the next poll, and a claim sent while the page is on
no village is kept under the store's name, where no report looks for it; a siege machine
is suggested and always refused, as its rows are in an array of their own and
`arrayFor` looks among the units, though `pending.go:142-145` says it does not matter which
array a row lands in. They are
under the hazards, with the line where they bite.
