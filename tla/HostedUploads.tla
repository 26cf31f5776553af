--------------------------- MODULE HostedUploads ---------------------------
(***************************************************************************)
(* One hosted user's uploads against Postgres: the quota checks of         *)
(* checkQuota, the two statements of postgres.Store.Save, and the daily    *)
(* prune.  Each statement is atomic and runs outside any transaction, so   *)
(* uploads interleave between any two.  What the report then says is       *)
(* BuildNow's.                                                             *)
(***************************************************************************)
EXTENDS Integers, FiniteSets

CONSTANTS
  Requests,      \* uploads in flight at once
  Tags,          \* village tags
  MaxSnapshots,  \* maxSnapshotsPerVillage
  MaxVillages,   \* maxVillagesPerUser
  MaxUploads,    \* maxUploadsPerDay
  Retention,     \* retentionWindow, in ticks
  DayTicks,      \* ticks in a day
  MaxMissed,     \* bound: counts that fail
  SaveMayFail,   \* whether a statement of Save can fail
  MaxNow         \* bound: the last tick of the clock

ASSUME HostedUploadsAssumption ==
  /\ IsFiniteSet(Requests) /\ Tags # {}
  /\ MaxSnapshots \in Nat \ {0} /\ MaxVillages \in Nat \ {0}
  /\ MaxUploads \in Nat \ {0}
  /\ Retention \in Nat /\ DayTicks \in Nat \ {0} /\ MaxNow \in Nat
  /\ MaxMissed \in Nat /\ SaveMayFail \in BOOLEAN

VARIABLES
  villages,   \* the tags of the villages rows
  snapshots,  \* the snapshots rows
  now,        \* now(), and the exports' clock
  job,        \* job[r]: the upload r is serving and where it is in it
  missed      \* history: counts that failed and let their upload through

vars == <<villages, snapshots, now, job, missed>>

\* at is captured_at, made is created_at.
Snapshot == [tag : Tags, at : Nat, made : Nat]

PCs == {"idle", "countSnapshots", "countVillages", "countToday",  \* checkQuota
        "village", "snapshot",                                    \* Save
        "ok", "error", "fullVillage", "fullVillages", "fullDay"}  \* answers

Job == [pc : PCs, tag : Tags, at : Nat]

TypeOK ==
  /\ villages \subseteq Tags
  /\ snapshots \subseteq Snapshot
  /\ now \in Nat
  /\ job \in [Requests -> Job]
  /\ missed \in Nat

IdleJob == [pc |-> "idle", tag |-> CHOOSE t \in Tags : TRUE, at |-> 0]

Init ==
  /\ villages = {}
  /\ snapshots = {}
  /\ now = 0
  /\ job = [r \in Requests |-> IdleJob]
  /\ missed = 0

-----------------------------------------------------------------------------

Of(t)       == {s \in snapshots : s.tag = t}
IsNewest(s) == \A other \in Of(s.tag) : other.at <= s.at
MadeToday   == {s \in snapshots : s.made \div DayTicks = now \div DayTicks}

GoTo(r, pc) == job' = [job EXCEPT ![r].pc = pc]

Upload(r) ==
  /\ job[r].pc = "idle"
  /\ \E t \in Tags, at \in 0..now :
       job' = [job EXCEPT ![r] = [pc |-> "countSnapshots", tag |-> t, at |-> at]]
  /\ UNCHANGED <<villages, snapshots, now, missed>>

\* checkQuota's three counts; the villages are only counted if the snapshots
\* were, and were none.  Fault: the limit off by one.
CountSnapshotsFault(r) ==
  /\ job[r].pc = "countSnapshots"
  /\ GoTo(r, IF Cardinality(Of(job[r].tag)) > MaxSnapshots THEN "fullVillage"
             ELSE IF Of(job[r].tag) = {} THEN "countVillages" ELSE "countToday")
  /\ UNCHANGED <<villages, snapshots, now, missed>>

CountSnapshots(r) ==
  /\ job[r].pc = "countSnapshots"
  /\ GoTo(r, IF Cardinality(Of(job[r].tag)) >= MaxSnapshots THEN "fullVillage"
             ELSE IF Of(job[r].tag) = {} THEN "countVillages" ELSE "countToday")
  /\ UNCHANGED <<villages, snapshots, now, missed>>

CountVillages(r) ==
  /\ job[r].pc = "countVillages"
  /\ GoTo(r, IF Cardinality(villages) >= MaxVillages THEN "fullVillages" ELSE "countToday")
  /\ UNCHANGED <<villages, snapshots, now, missed>>

CountToday(r) ==
  /\ job[r].pc = "countToday"
  /\ GoTo(r, IF Cardinality(MadeToday) >= MaxUploads THEN "fullDay" ELSE "village")
  /\ UNCHANGED <<villages, snapshots, now, missed>>

\* A count that fails refuses nobody, and the next one is taken; the villages
\* are passed over if it is the snapshots'.
CountFails(r) ==
  /\ missed < MaxMissed
  /\ job[r].pc \in {"countSnapshots", "countVillages", "countToday"}
  /\ GoTo(r, IF job[r].pc = "countToday" THEN "village" ELSE "countToday")
  /\ missed' = missed + 1
  /\ UNCHANGED <<villages, snapshots, now>>

\* Save's first statement: the village's row, made if there is none.
UpsertVillage(r) ==
  /\ job[r].pc = "village"
  /\ villages' = villages \cup {job[r].tag}
  /\ GoTo(r, "snapshot")
  /\ UNCHANGED <<snapshots, now, missed>>

\* Fault: the conflict target is the village alone.
InsertSnapshotFault(r) ==
  /\ job[r].pc = "snapshot"
  /\ snapshots' = IF Of(job[r].tag) # {} THEN snapshots
                  ELSE snapshots \cup
                         {[tag |-> job[r].tag, at |-> job[r].at, made |-> now]}
  /\ GoTo(r, "ok")
  /\ UNCHANGED <<villages, now, missed>>

\* Save's second: ON CONFLICT (village_id, captured_at) DO NOTHING.
InsertSnapshot(r) ==
  /\ job[r].pc = "snapshot"
  /\ snapshots' = IF \E s \in Of(job[r].tag) : s.at = job[r].at THEN snapshots
                  ELSE snapshots \cup
                         {[tag |-> job[r].tag, at |-> job[r].at, made |-> now]}
  /\ GoTo(r, "ok")
  /\ UNCHANGED <<villages, now, missed>>

SaveFails(r) ==
  /\ SaveMayFail
  /\ job[r].pc \in {"village", "snapshot"}
  /\ GoTo(r, "error")
  /\ UNCHANGED <<villages, snapshots, now, missed>>

Respond(r) ==
  /\ job[r].pc \in {"ok", "error", "fullVillage", "fullVillages", "fullDay"}
  /\ job' = [job EXCEPT ![r] = IdleJob]
  /\ UNCHANGED <<villages, snapshots, now, missed>>

\* Fault: the newest is not spared.
PruneFault ==
  /\ snapshots' = {s \in snapshots : s.at >= now - Retention}
  /\ UNCHANGED <<villages, now, job, missed>>

\* The daily cron: one DELETE that spares each village's newest.
Prune ==
  /\ snapshots' = {s \in snapshots : s.at >= now - Retention \/ IsNewest(s)}
  /\ UNCHANGED <<villages, now, job, missed>>

Tick ==
  /\ now < MaxNow
  /\ now' = now + 1
  /\ UNCHANGED <<villages, snapshots, job, missed>>

Step(r) == \/ CountSnapshots(r) \/ CountVillages(r) \/ CountToday(r) \/ CountFails(r)
           \/ UpsertVillage(r) \/ InsertSnapshot(r) \/ SaveFails(r)
           \/ Respond(r)

Next == \/ \E r \in Requests : Upload(r) \/ Step(r)
        \/ Prune
        \/ Tick

Spec == Init /\ [][Next]_vars

-----------------------------------------------------------------------------

\* By how much a limit may be overrun: by the other uploads in flight, and by
\* those that were not counted.
Overrun == Cardinality(Requests) - 1 + missed

SnapshotsBounded == \A t \in Tags : Cardinality(Of(t)) <= MaxSnapshots + Overrun
VillagesBounded  == Cardinality(villages) <= MaxVillages + Overrun
UploadsBounded   == Cardinality(MadeToday) <= MaxUploads + Overrun

\* Quotas are counted before they are used, and a count that fails lets its
\* upload through.  Still no village, user or day ever exceeds its limit by
\* more than the other uploads in flight and one for each count that failed: an
\* upload let through uncounted does not open the way for others (checkQuota).
LimitsHold == SnapshotsBounded /\ VillagesBounded /\ UploadsBounded

\* A saved upload leaves its village with a snapshot at least as new, however
\* old the export is and whenever the prune runs.
SavedUploadShows ==
  \A r \in Requests : job[r].pc = "ok" =>
    \E s \in Of(job[r].tag) : s.at >= job[r].at

\* Nobody can have villages forgotten here.
Store == INSTANCE SnapshotStore WITH
           held <- [t \in Tags |-> {s.at : s \in Of(t)}],
           forgetting <- {}, Volatile <- FALSE

\* The statements of Postgres make a snapshot store: snapshots come one at a
\* time and a village's newest is only ever replaced by a newer one, also by
\* the one statement that prunes all villages at once (store.Store).
ImplementsStore == Store!Spec
=============================================================================
