------------------------------ MODULE BuildNow ------------------------------
(***************************************************************************)
(* The request handlers of internal/server that read and write a village's *)
(* snapshots and its declared upgrades: GET and POST /api/report, POST and *)
(* DELETE /api/pending, DELETE /api/villages, and a restart of the server. *)
(*                                                                         *)
(* Go serves every request on its own goroutine and the handlers hold no   *)
(* lock across calls: each call of Store or Pending is atomic (a mutex or  *)
(* a SQL statement) and everything between two calls is local.  So a       *)
(* request is a process that makes one such call per step, and requests    *)
(* interleave between any two steps.                                       *)
(*                                                                         *)
(* The tag is the one the request resolved to (?tag=, or the newest        *)
(* village); one user, since both stores key everything by user.           *)
(***************************************************************************)
EXTENDS Overlay

CONSTANTS
  Requests,     \* requests in flight at once (goroutines)
  Tags,         \* village tags
  Exports,      \* the exports a client may upload
  Ops,          \* kinds of request the clients send
  Hosted,       \* hosted mode (a failed Save is a 500) or local mode
  SaveMayFail,  \* whether Store.Save can fail (disk, database)
  ReadMayFail,  \* whether Store.Recent can fail, or return what does not parse
  Durable,      \* whether snapshots survive a restart (file, Postgres)
  MayRestart,   \* whether the server is ever restarted
  SnapLimit,    \* snapshots kept per village (localSnapshotLimit), 0: all
  MaxClaims,    \* bound: claims accepted before clients stop sending them
  MaxNow,       \* bound: the last tick of the clock
  None          \* the absent export or action

VARIABLES
  snaps,    \* snaps[t]: the snapshots Store holds for village t
  pending,  \* pending[t]: Pending's list for t, ordered by id
  nextId,   \* the id the next added action gets
  now,      \* time.Now
  job,      \* job[r]: the request r is serving and where it is in it
  unread,   \* history: the villages whose last report failed to read a snapshot
  unjudged, \* history: those an upload left unjudged, its read of the
            \* previous snapshot having failed, and no newest one judged since
  bridged   \* history: <<t, i, l>> if an upgrade declared in t was to bring a
            \* copy of i to level l at once

\* No step reads the history variables; only properties do.
history == <<unread, unjudged, bridged>>

vars == <<snaps, pending, nextId, now, job, history>>

AllOps == {"get", "post", "claim", "cancel", "forget"}

ASSUME BuildNowAssumption ==
  /\ Tags # {}
  /\ Exports \subseteq Export
  /\ None \notin Export
  /\ None \notin Action
  /\ Ops \subseteq AllOps
  /\ Hosted \in BOOLEAN /\ SaveMayFail \in BOOLEAN /\ ReadMayFail \in BOOLEAN
  /\ Durable \in BOOLEAN /\ MayRestart \in BOOLEAN
  /\ SnapLimit \in Nat /\ MaxClaims \in Nat /\ MaxNow \in Nat

\* Answers a handler ends with: 200, 404, 409, 500.
Answers == {"ok", "notfound", "conflict", "error"}

PCs == {"idle", "prev", "save", "reconcile", "drop",     \* postReport
        "recent", "list", "retire",                      \* loadOverlay
        "check", "add",                                  \* postPending
        "remove",                                        \* deletePending
        "forget", "forgetList", "forgetDrop"}            \* forgetVillage
       \cup Answers

(***************************************************************************)
(* op, tag: the request.  upload: the body of a POST /api/report.  prev:   *)
(* the snapshot read before Save.  snap: the snapshot loadOverlay read.    *)
(* acts: what the last Pending.List returned.  cand: the action a claim    *)
(* declares, None before it is built.  mm: the mismatches to report.       *)
(***************************************************************************)
Job == [pc : PCs, op : AllOps \cup {"none"}, tag : Tags,
        upload : Export \cup {None}, prev : Export \cup {None},
        snap : Export \cup {None}, acts : SUBSET Action,
        cand : Action \cup {None}, mm : SUBSET Action]

NewJob(pc, op, t, e) ==
  [pc |-> pc, op |-> op, tag |-> t, upload |-> e, prev |-> None,
   snap |-> None, acts |-> {}, cand |-> None, mm |-> {}]

\* A goroutine serving nothing; which tag it names is immaterial.
IdleJob == NewJob("idle", "none", CHOOSE t \in Tags : TRUE, None)

TypeOK ==
  /\ snaps \in [Tags -> SUBSET Export]
  /\ pending \in [Tags -> SUBSET Action]
  /\ nextId \in Nat
  /\ now \in Nat
  /\ job \in [Requests -> Job]
  /\ unread \subseteq Tags /\ unjudged \subseteq Tags
  /\ bridged \subseteq Tags \X Items \X Nat

Init ==
  /\ snaps = [t \in Tags |-> {}]
  /\ pending = [t \in Tags |-> {}]
  /\ nextId = 1
  /\ now = 0
  /\ job = [r \in Requests |-> IdleJob]
  /\ unread = {} /\ unjudged = {} /\ bridged = {}

-----------------------------------------------------------------------------
(* The two stores.                                                         *)

\* Fault (see Overlay): the order turned round.
NewestFault(S) ==
  LET top(s) == s \in S /\ \A other \in S : other.at >= s.at
  IN IF \E s \in S : top(s) THEN CHOOSE s \in S : top(s) ELSE None

\* Store.Recent(tag, 1): the newest snapshot, None if there is none.
Newest(S) ==
  LET top(s) == s \in S /\ \A other \in S : other.at <= s.at
  IN IF \E s \in S : top(s) THEN CHOOSE s \in S : top(s) ELSE None

\* Fault: the newest is trimmed.
SavedFault(S, e) ==
  IF \E s \in S : s.at = e.at THEN S
  ELSE LET all == S \cup {e}
       IN {s \in all : SnapLimit = 0 \/
             Cardinality({other \in all : other.at < s.at}) < SnapLimit}

\* Store.Save: the same capture time twice is the same snapshot; beyond the
\* limit the oldest is trimmed.
Saved(S, e) ==
  IF \E s \in S : s.at = e.at THEN S
  ELSE LET all == S \cup {e}
       IN {s \in all : SnapLimit = 0 \/
             Cardinality({other \in all : other.at > s.at}) < SnapLimit}

Without(acts, gone) == {a \in acts : a.id \notin {g.id : g \in gone}}

-----------------------------------------------------------------------------
(* Requests arrive.                                                        *)

Start(r, op, pc, t, e) ==
  /\ job[r].pc = "idle"
  /\ op \in Ops
  /\ job' = [job EXCEPT ![r] = NewJob(pc, op, t, e)]
  /\ UNCHANGED <<snaps, pending, nextId, now, history>>

GetReport(r)  == \E t \in Tags : Start(r, "get", "recent", t, None)
PostReport(r) == \E t \in Tags, e \in Exports :
                   e.at <= now /\ Start(r, "post", "prev", t, e)
\* MaxClaims bounds the behaviour, not the program.
PostPending(r) ==
  /\ nextId + Cardinality({q \in Requests : job[q].op = "claim"}) <= MaxClaims
  /\ \E t \in Tags : Start(r, "claim", "recent", t, None)
DeletePending(r) == \E t \in Tags : Start(r, "cancel", "remove", t, None)
ForgetVillage(r) == \E t \in Tags : Start(r, "forget", "forget", t, None)

-----------------------------------------------------------------------------
(* loadOverlay, called by all but forgetVillage.                           *)

\* A claim goes on to check its candidate; everyone else answers.
AfterOverlay(j) == IF j.op = "claim" /\ j.cand = None THEN "check" ELSE "ok"

Recent(r) ==
  /\ job[r].pc = "recent"
  /\ LET s == Newest(snaps[job[r].tag])
     IN job' = [job EXCEPT ![r].snap = s,
                           ![r].pc = IF s = None THEN "notfound" ELSE "list"]
  /\ unread' = unread \ {job[r].tag}
  /\ UNCHANGED <<snaps, pending, nextId, now, unjudged, bridged>>

\* The store fails or the stored snapshot does not parse: a 500, with nothing
\* listed and nothing retired.
RecentFails(r) ==
  /\ job[r].pc = "recent"
  /\ ReadMayFail
  /\ job' = [job EXCEPT ![r].pc = "error"]
  /\ unread' = unread \cup {job[r].tag}
  /\ UNCHANGED <<snaps, pending, nextId, now, unjudged, bridged>>

\* Pending.List, then Apply: stale actions are to be removed.
List(r) ==
  /\ job[r].pc = "list"
  /\ LET acts == pending[job[r].tag]
     IN job' = [job EXCEPT ![r].acts = acts,
                           ![r].pc = IF Stale(job[r].snap, acts) = {}
                                     THEN AfterOverlay(job[r]) ELSE "retire"]
  /\ UNCHANGED <<snaps, pending, nextId, now, history>>

\* Fault: the remaining list is written back instead of ids removed.
RetireFault(r) ==
  /\ job[r].pc = "retire"
  /\ pending' = [pending EXCEPT ![job[r].tag] =
                   Applied(job[r].snap, job[r].acts)]
  /\ job' = [job EXCEPT ![r].pc = AfterOverlay(job[r])]
  /\ UNCHANGED <<snaps, nextId, now, history>>

\* Pending.Remove(stale).
Retire(r) ==
  /\ job[r].pc = "retire"
  /\ pending' = [pending EXCEPT ![job[r].tag] =
                   Without(@, Stale(job[r].snap, job[r].acts))]
  /\ job' = [job EXCEPT ![r].pc = AfterOverlay(job[r])]
  /\ UNCHANGED <<snaps, nextId, now, history>>

-----------------------------------------------------------------------------
(* postReport.                                                             *)

ReadPrev(r) ==
  /\ job[r].pc = "prev"
  /\ job' = [job EXCEPT ![r].prev = Newest(snaps[job[r].tag]), ![r].pc = "save"]
  /\ UNCHANGED <<snaps, pending, nextId, now, history>>

\* Best effort: a read that fails or does not parse leaves prev nil, as if
\* this were the village's first upload.
ReadPrevFails(r) ==
  /\ job[r].pc = "prev"
  /\ ReadMayFail
  /\ job' = [job EXCEPT ![r].pc = "save"]
  /\ unjudged' = unjudged \cup {job[r].tag}
  /\ UNCHANGED <<snaps, pending, nextId, now, unread, bridged>>

\* Fault: an upload overlays but never reconciles.
AfterSaveFault(j) == "recent"

AfterSave(j) == IF j.prev = None THEN "recent" ELSE "reconcile"

Save(r) ==
  /\ job[r].pc = "save"
  /\ snaps' = [snaps EXCEPT ![job[r].tag] = Saved(@, job[r].upload)]
  /\ job' = [job EXCEPT ![r].pc = AfterSave(job[r])]
  /\ UNCHANGED <<pending, nextId, now, history>>

\* Fault: hosted mode carries on as well.
SaveFailsFault(r) ==
  /\ job[r].pc = "save"
  /\ SaveMayFail
  /\ job' = [job EXCEPT ![r].pc = AfterSave(job[r])]
  /\ UNCHANGED <<snaps, pending, nextId, now, history>>

\* Local mode logs the error and carries on as if the export were stored.
SaveFails(r) ==
  /\ job[r].pc = "save"
  /\ SaveMayFail
  /\ job' = [job EXCEPT ![r].pc = IF Hosted THEN "error" ELSE AfterSave(job[r])]
  /\ UNCHANGED <<snaps, pending, nextId, now, history>>

\* The history once r's upload has judged its village: settled if no newer
\* export is stored.
UnjudgedAfter(r) ==
  unjudged \ {t \in {job[r].tag} : \A s \in snaps[t] : s.at <= job[r].upload.at}

\* Pending.List, then Reconcile against the snapshot read before Save.
JudgePending(r) ==
  /\ job[r].pc = "reconcile"
  /\ LET acts == pending[job[r].tag]
         none == Retired(acts, job[r].upload) = {}
     IN /\ job' = [job EXCEPT
             ![r].acts = acts,
             ![r].mm = Mismatched(acts, job[r].prev, job[r].upload),
             ![r].pc = IF none THEN "recent" ELSE "drop"]
        /\ unjudged' = IF none THEN UnjudgedAfter(r) ELSE unjudged
  /\ UNCHANGED <<snaps, pending, nextId, now, unread, bridged>>

\* Fault: the remaining list is written back instead of ids removed.
DropRetiredFault(r) ==
  /\ job[r].pc = "drop"
  /\ pending' = [pending EXCEPT ![job[r].tag] =
                   job[r].acts \ Retired(job[r].acts, job[r].upload)]
  /\ job' = [job EXCEPT ![r].pc = "recent"]
  /\ UNCHANGED <<snaps, nextId, now, history>>

\* Pending.Remove(retired).
DropRetired(r) ==
  /\ job[r].pc = "drop"
  /\ pending' = [pending EXCEPT ![job[r].tag] =
                   Without(@, Retired(job[r].acts, job[r].upload))]
  /\ job' = [job EXCEPT ![r].pc = "recent"]
  /\ unjudged' = UnjudgedAfter(r)
  /\ UNCHANGED <<snaps, nextId, now, unread, bridged>>

-----------------------------------------------------------------------------
(* postPending, deletePending, forgetVillage.                              *)

Candidate(ask, t) == [id |-> 0, item |-> ask.item, from |-> ask.from, startedAt |-> t]

\* Fault: one copy is left where it is.
StartableFault(over, t) ==
  {ask \in Suggested(over, t) : over.rows[ask.item, ask.from, 0] > 1}

\* Suggested for the overlaid export, and the candidate finds a copy in it.
Startable(over, t) ==
  {ask \in Suggested(over, t) : Placeable(over.rows, over.at, Candidate(ask, t))}

\* The body names any item and level; only a startable one is accepted.
Claim(r, startable, t) ==
  /\ job[r].pc = "check"
  /\ \E i \in Items, l \in Levels :
       LET ask == [item |-> i, from |-> l]
       IN job' = [job EXCEPT
            ![r].cand = IF ask \in startable THEN Candidate(ask, t) ELSE None,
            ![r].pc = IF ask \in startable THEN "add" ELSE "conflict"]
  /\ UNCHANGED <<snaps, pending, nextId, now, history>>

\* Fault: no candidate check.
CheckClaimFault(r) == Claim(r, Suggested(Overlaid(job[r].snap, job[r].acts), now), now)

CheckClaim(r) == Claim(r, Startable(Overlaid(job[r].snap, job[r].acts), now), now)

\* The history once a is declared in village t.
Bridging(t, a) ==
  IF StepTime(a) = 0 THEN bridged \cup {<<t, a.item, a.from + 1>>} ELSE bridged

\* Fault: the report is not built afresh.
AddFault(r) ==
  /\ job[r].pc = "add"
  /\ LET a == [job[r].cand EXCEPT !.id = nextId]
     IN /\ pending' = [pending EXCEPT ![job[r].tag] = @ \cup {a}]
        /\ job' = [job EXCEPT ![r].cand = a, ![r].pc = "ok"]
        /\ bridged' = Bridging(job[r].tag, a)
  /\ nextId' = nextId + 1
  /\ UNCHANGED <<snaps, now, unread, unjudged>>

\* Pending.Add, then the report is built afresh.
Add(r) ==
  /\ job[r].pc = "add"
  /\ LET a == [job[r].cand EXCEPT !.id = nextId]
     IN /\ pending' = [pending EXCEPT ![job[r].tag] = @ \cup {a}]
        /\ job' = [job EXCEPT ![r].cand = a, ![r].pc = "recent"]
        /\ bridged' = Bridging(job[r].tag, a)
  /\ nextId' = nextId + 1
  /\ UNCHANGED <<snaps, now, unread, unjudged>>

\* Fault: answered without reading the village again.
RemoveOneFault(r) ==
  /\ job[r].pc = "remove"
  /\ \E id \in 1..nextId :
       pending' = [pending EXCEPT ![job[r].tag] = {a \in @ : a.id # id}]
  /\ job' = [job EXCEPT ![r].pc = "ok"]
  /\ UNCHANGED <<snaps, nextId, now, history>>

\* Pending.Remove of the one id asked for, known or not.
RemoveOne(r) ==
  /\ job[r].pc = "remove"
  /\ \E id \in 1..nextId :
       pending' = [pending EXCEPT ![job[r].tag] = {a \in @ : a.id # id}]
  /\ job' = [job EXCEPT ![r].pc = "recent"]
  /\ UNCHANGED <<snaps, nextId, now, history>>

Forget(r) ==
  /\ job[r].pc = "forget"
  /\ snaps' = [snaps EXCEPT ![job[r].tag] = {}]
  /\ job' = [job EXCEPT ![r].pc = "forgetList"]
  /\ UNCHANGED <<pending, nextId, now, history>>

ForgetList(r) ==
  /\ job[r].pc = "forgetList"
  /\ LET acts == pending[job[r].tag]
     IN job' = [job EXCEPT ![r].acts = acts,
                           ![r].pc = IF acts = {} THEN "ok" ELSE "forgetDrop"]
  /\ UNCHANGED <<snaps, pending, nextId, now, history>>

\* Fault: the declared upgrades of a forgotten village stay.
ForgetDropFault(r) ==
  /\ job[r].pc = "forgetDrop"
  /\ job' = [job EXCEPT ![r].pc = "ok"]
  /\ UNCHANGED <<snaps, pending, nextId, now, history>>

ForgetDrop(r) ==
  /\ job[r].pc = "forgetDrop"
  /\ pending' = [pending EXCEPT ![job[r].tag] = Without(@, job[r].acts)]
  /\ job' = [job EXCEPT ![r].pc = "ok"]
  /\ UNCHANGED <<snaps, nextId, now, history>>

-----------------------------------------------------------------------------
(* The answer is on the wire; the goroutine is free again.                 *)
Respond(r) ==
  /\ job[r].pc \in Answers
  /\ job' = [job EXCEPT ![r] = IdleJob]
  /\ UNCHANGED <<snaps, pending, nextId, now, history>>

\* The process dies: requests in flight and the in-memory pending store go,
\* the snapshots too unless their store is durable.
Restart ==
  /\ MayRestart
  /\ snaps' = IF Durable THEN snaps ELSE [t \in Tags |-> {}]
  /\ pending' = [t \in Tags |-> {}]
  /\ job' = [r \in Requests |-> IdleJob]
  /\ unread' = {} /\ unjudged' = {} /\ bridged' = {}
  /\ UNCHANGED <<nextId, now>>

Tick ==
  /\ now < MaxNow
  /\ now' = now + 1
  /\ UNCHANGED <<snaps, pending, nextId, job, history>>

Arrive(r) == \/ GetReport(r) \/ PostReport(r) \/ PostPending(r)
             \/ DeletePending(r) \/ ForgetVillage(r)

Step(r) == \/ Recent(r) \/ RecentFails(r) \/ List(r) \/ Retire(r)
           \/ ReadPrev(r) \/ ReadPrevFails(r) \/ Save(r) \/ SaveFails(r)
           \/ JudgePending(r) \/ DropRetired(r)
           \/ CheckClaim(r) \/ Add(r) \/ RemoveOne(r)
           \/ Forget(r) \/ ForgetList(r) \/ ForgetDrop(r)
           \/ Respond(r)

Next == \/ \E r \in Requests : Arrive(r) \/ Step(r)
        \/ Restart
        \/ Tick

Spec == Init /\ [][Next]_vars

\* A goroutine runs on, whatever the clients do.
FairSpec == Spec /\ \A r \in Requests : WF_vars(Step(r))

-----------------------------------------------------------------------------
(* What the handlers promise together.                                     *)

Decl == INSTANCE Declarations WITH
          live <- UNION {{<<t, a.id>> : a \in pending[t]} : t \in Tags},
          next <- nextId

\* The handlers use the pending store so that every declared upgrade lives
\* once and stays gone once it is gone, in every interleaving.
DeclaredOnce == Decl!Spec

Store == INSTANCE SnapshotStore WITH
           held <- [t \in Tags |-> {s.at : s \in snaps[t]}],
           forgetting <- {job[r].tag : r \in {q \in Requests : job[q].pc = "forget"}},
           Volatile <- ~Durable

\* The handlers use the snapshots as a snapshot store, one save at a time,
\* whatever the limit trims: only a forget or a restart takes a village's newest
\* away (memory.Store).
ImplementsStore == Store!Spec

Quiet == \A r \in Requests : job[r].pc = "idle"

\* Once every request in flight has been answered, each upgrade still declared
\* can be overlaid on the village's newest export, so that none evaporates at
\* the next read (loadOverlay).  Excepted are a village whose last report could
\* not be read, since that request ends before it retires anything, and an
\* upgrade from a level to which an instant one was declared: it may rest on
\* that copy, and a request that overlaid an export no longer the newest may
\* retire what it rests on after everyone else has read the village.
SettledPlaceable ==
  Quiet => \A t \in Tags \ unread : pending[t] # {} =>
             /\ snaps[t] # {}
             /\ \A a \in Stale(Newest(snaps[t]), pending[t]) :
                  <<t, a.item, a.from>> \in bridged

\* The same of requests served one at a time, where chains of instant upgrades
\* are no exception: whoever takes a link away reads the village afterwards and
\* retires what hung on it (deletePending, postReport).
SettledSerially ==
  Quiet => \A t \in Tags \ unread : pending[t] # {} =>
             snaps[t] # {} /\ Stale(Newest(snaps[t]), pending[t]) = {}

\* An upload is answered with the analysis of what was uploaded, or of
\* something newer, never of an older export (postReport ends in
\* buildReportResponse, which reads the store again).
UploadIsAnalysed ==
  \A r \in Requests : job[r].op = "post" =>
    /\ job[r].pc # "notfound"
    /\ job[r].pc = "ok" => job[r].snap.at >= job[r].upload.at

\* In hosted mode declared upgrades are retired and reported only on the word
\* of an export that is stored: a failed Save ends the upload (postReport).
JudgedByStoredExport ==
  \A r \in Requests : job[r].op = "post" /\ (job[r].pc = "drop" \/ job[r].mm # {})
    => \E s \in snaps[job[r].tag] : s.at = job[r].upload.at

\* An upgrade declared after a request listed the village's actions survives
\* that request: Pending.Remove takes ids away, it does not write a list back.
ConcurrentClaimSurvives ==
  [][\A r \in Requests :
       \/ Retire(r) \/ DropRetired(r) \/ ForgetDrop(r)
       => \A t \in Tags : pending[t] \ job[r].acts \subseteq pending'[t]]_vars

\* An action is stored only while the newest export still has a copy for it
\* next to everything declared before it (postPending's candidate check).
ClaimTakesFreeCopy ==
  [][\A t \in Tags : \A a \in pending'[t] \ pending[t] :
       /\ snaps[t] # {}
       /\ a \in Applied(Newest(snaps[t]), pending'[t])]_vars

\* Between requests no upgrade is declared that the newest export postdates:
\* that export's upload has judged it (Reconcile), unless it could not read the
\* export before it and judged nothing; the next upload that is the newest makes
\* up for that.
CoveredActionsGone ==
  Quiet => \A t \in Tags : \A a \in pending[t] :
             /\ snaps[t] # {}
             /\ t \notin unjudged => Newest(snaps[t]).at <= a.startedAt

\* In a village that could be read last, every copy of a suggested step that the
\* newest export shows idle can be claimed, or an upgrade declared before has
\* taken it: what the report suggests and a claim then refuses is a copy that
\* only the clock has landed since the capture, which timerElapsed counts and
\* Apply does not.  (A siege machine is refused whatever its copies do: Run
\* suggests it from an array of its own, arrayFor looks for it among the troops.)
Idle(t, ask) ==
  Newest(snaps[t]).rows[ask.item, ask.from, 0]
    + Cardinality({a \in pending[t] : /\ a.item = ask.item /\ StepTime(a) = 0
                                      /\ a.from + 1 = ask.from})
Taken(t, ask) == Cardinality({a \in pending[t] : a.item = ask.item /\ a.from = ask.from})
RefusedForCause ==
  Quiet => \A t \in Tags \ unread : snaps[t] # {} =>
    LET over == Overlaid(Newest(snaps[t]), pending[t])
    IN \A ask \in Suggested(over, now) \ Startable(over, now) :
         ask.item \in Arrayed => Idle(t, ask) = Taken(t, ask)

\* Declarations do not linger: in a village whose newest export is sent again
\* and again, not always to find the one before it unreadable, every upgrade
\* declared before that export's capture is eventually off the list (postReport's
\* Reconcile retires it either way).
UploadsGoOn(t) ==
  []<>(\E r \in Requests : /\ job[r].op = "post" /\ job[r].tag = t
                           /\ job[r].upload.at = MaxNow
                           /\ job[r].pc = "save" /\ job[r].prev # None)
DeclaredBefore(t, id) ==
  \E a \in pending[t] : a.id = id /\ a.startedAt < MaxNow
DeclarationsSettle ==
  \A t \in Tags : UploadsGoOn(t) =>
    \A id \in 1..MaxClaims : DeclaredBefore(t, id) ~> ~DeclaredBefore(t, id)
=============================================================================
