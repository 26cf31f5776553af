------------------------------- MODULE Digest -------------------------------
(***************************************************************************)
(* The digest of landed upgrades: the cron handler walks every opted-in    *)
(* user's villages statement by statement, while users flip the preference *)
(* and upload exports.  The preference and the checked-from point are two  *)
(* columns of one users row; each statement is atomic, none are in a       *)
(* transaction.  A landing is named by when it is due, so two upgrades of  *)
(* a village that land at once are one.                                    *)
(***************************************************************************)
EXTENDS Integers, FiniteSets

CONSTANTS
  Users,           \* signed-in accounts
  Villages,        \* village tags
  Crons,           \* runs of the cron in flight at once
  MaxNow,          \* bound: the last tick of the clock
  MaxUploads,      \* bound: exports uploaded
  MaxRuns          \* bound: runs of the cron

ASSUME DigestAssumption ==
  /\ Users # {} /\ IsFiniteSet(Crons)
  /\ MaxNow \in Nat /\ MaxUploads \in Nat /\ MaxRuns \in Nat

VARIABLES
  optIn,    \* optIn[u]: email_digest_opt_in
  checked,  \* checked[u]: digest_checked_at
  snap,     \* snap[u][v]: the newest snapshot, when it was captured and when
            \* the upgrades it shows are due
  now,      \* the time
  cron,     \* cron[c]: where a run of the cron is
  told,     \* history: the landings reported
  optedAt,  \* history: when u last turned the digest on
  due,      \* history: landings in view of an opted-in user, in villages no
            \* run failed to read since
  clean,    \* history: no two runs overlapped, and each advanced the point
  uploads,  \* exports uploaded so far
  runs      \* runs of the cron so far

vars == <<optIn, checked, snap, now, cron, told, optedAt, due, clean, uploads, runs>>

Landing   == [user : Users, village : Villages, at : Nat]
Candidate == [user : Users, since : Nat]

(***************************************************************************)
(* todo: DigestCandidates not yet walked.  user, since: the one being      *)
(* walked.  left: its villages not yet read.  listed: history, when the    *)
(* candidates were read.  at: the run's own now.                           *)
(***************************************************************************)
Run == [pc : {"idle", "clock", "next", "read", "report", "advance"},
        todo : SUBSET Candidate, user : Users, since : Nat,
        left : SUBSET Villages, landed : SUBSET Landing,
        listed : Nat, at : Nat]

TypeOK ==
  /\ optIn \in [Users -> BOOLEAN]
  /\ checked \in [Users -> Nat]
  /\ snap \in [Users -> [Villages -> [captured : Nat, jobs : SUBSET Nat]]]
  /\ now \in Nat
  /\ cron \in [Crons -> Run]
  /\ told \subseteq Landing /\ due \subseteq Landing
  /\ optedAt \in [Users -> Nat]
  /\ clean \in BOOLEAN
  /\ uploads \in Nat /\ runs \in Nat

IdleRun == [pc |-> "idle", todo |-> {}, user |-> CHOOSE u \in Users : TRUE,
            since |-> 0, left |-> {}, landed |-> {}, listed |-> 0, at |-> 0]

Init ==
  /\ optIn = [u \in Users |-> FALSE]
  /\ checked = [u \in Users |-> 0]
  /\ snap = [u \in Users |-> [v \in Villages |-> [captured |-> 0, jobs |-> {}]]]
  /\ now = 0
  /\ cron = [c \in Crons |-> IdleRun]
  /\ told = {} /\ due = {} /\ clean = TRUE
  /\ optedAt = [u \in Users |-> 0]
  /\ uploads = 0 /\ runs = 0

-----------------------------------------------------------------------------
(* The users and the game.                                                 *)

\* Turning it on, again or for the first time, resets the checked-from point.
SetOptIn(u, on) ==
  /\ optIn' = [optIn EXCEPT ![u] = on]
  /\ checked' = [checked EXCEPT ![u] = IF on THEN now ELSE @]
  /\ optedAt' = [optedAt EXCEPT ![u] = IF on THEN now ELSE @]
  /\ due' = {d \in due : d.user # u}
  /\ UNCHANGED <<snap, now, cron, told, clean, uploads, runs>>

\* An export captured after the newest one, uploaded then or later, shows
\* upgrades due after its capture.
Upload(u, v) ==
  /\ uploads < MaxUploads
  /\ \E c \in snap[u][v].captured..now :
     \E jobs \in SUBSET (c+1..MaxNow) :
       /\ snap' = [snap EXCEPT ![u][v] = [captured |-> c, jobs |-> jobs]]
       /\ due' = {d \in due : d.user = u /\ d.village = v => d.at \in jobs}
  /\ uploads' = uploads + 1
  /\ UNCHANGED <<optIn, checked, now, cron, told, optedAt, clean, runs>>

Tick ==
  /\ now < MaxNow
  /\ now' = now + 1
  /\ due' = due \cup {d \in [user : Users, village : Villages, at : {now + 1}] :
                        optIn[d.user] /\ d.at \in snap[d.user][d.village].jobs}
  /\ UNCHANGED <<optIn, checked, snap, cron, told, optedAt, clean, uploads, runs>>

-----------------------------------------------------------------------------
(* handleCronDigest.                                                       *)

Walks(c, run) == cron' = [cron EXCEPT ![c] = run]

\* DigestCandidates: every opted-in user.
List(c) ==
  /\ cron[c].pc = "idle"
  /\ runs < MaxRuns
  /\ Walks(c, [IdleRun EXCEPT !.pc = "clock", !.listed = now,
       !.todo = {[user |-> u, since |-> checked[u]] : u \in {w \in Users : optIn[w]}}])
  /\ runs' = runs + 1
  /\ clean' = (clean /\ \A b \in Crons : cron[b].pc = "idle")
  /\ UNCHANGED <<optIn, checked, snap, now, told, optedAt, due, uploads>>

Clock(c) ==
  /\ cron[c].pc = "clock"
  /\ Walks(c, [cron[c] EXCEPT !.pc = "next", !.at = now])
  /\ UNCHANGED <<optIn, checked, snap, now, told, optedAt, due, clean, uploads, runs>>

\* The next candidate and its villages; if they cannot be listed it is left
\* for the next run.
Pick(c) ==
  /\ cron[c].pc = "next"
  /\ \E cand \in cron[c].todo :
       LET rest == cron[c].todo \ {cand}
       IN \/ Walks(c, [cron[c] EXCEPT
               !.pc = "read", !.todo = rest, !.user = cand.user,
               !.since = cand.since, !.left = Villages, !.landed = {}])
          \/ Walks(c, [cron[c] EXCEPT !.todo = rest])
  /\ UNCHANGED <<optIn, checked, snap, now, told, optedAt, due, clean, uploads, runs>>

\* Fault: what is due at the last check is due again.
LandedFault(run, v) ==
  {d \in [user : {run.user}, village : {v}, at : snap[run.user][v].jobs] :
     run.since <= d.at /\ d.at <= run.at}

\* What landed in village v since the last check, by the run's clock.
Landed(run, v) ==
  {d \in [user : {run.user}, village : {v}, at : snap[run.user][v].jobs] :
     run.since < d.at /\ d.at <= run.at}

\* landedSince reads one village at a time and skips those it cannot read.
Read(c) ==
  /\ cron[c].pc = "read"
  /\ \/ /\ cron[c].left = {}
        /\ Walks(c, [cron[c] EXCEPT !.pc = "report"])
        /\ due' = due
     \/ \E v \in cron[c].left :
          \/ /\ Walks(c, [cron[c] EXCEPT !.left = @ \ {v},
                                         !.landed = @ \cup Landed(cron[c], v)])
             /\ due' = due
          \/ /\ Walks(c, [cron[c] EXCEPT !.left = @ \ {v}])
             /\ due' = {d \in due : d.user = cron[c].user => d.village # v}
  /\ UNCHANGED <<optIn, checked, snap, now, told, optedAt, clean, uploads, runs>>

\* The digest itself, today a line in the log.
Report(c) ==
  /\ cron[c].pc = "report"
  /\ told' = told \cup cron[c].landed
  /\ Walks(c, [cron[c] EXCEPT !.pc = "advance"])
  /\ UNCHANGED <<optIn, checked, snap, now, optedAt, due, clean, uploads, runs>>

\* Faults: to the time of the statement; a tick short.
AdvanceFault(c) ==
  /\ cron[c].pc = "advance"
  /\ checked' = [checked EXCEPT ![cron[c].user] = now]
  /\ Walks(c, [cron[c] EXCEPT !.pc = "next"])
  /\ UNCHANGED <<optIn, snap, now, told, optedAt, due, clean, uploads, runs>>
AdvanceShortFault(c) ==
  /\ cron[c].pc = "advance"
  /\ checked' = [checked EXCEPT ![cron[c].user] = cron[c].at - 1]
  /\ Walks(c, [cron[c] EXCEPT !.pc = "next"])
  /\ UNCHANGED <<optIn, snap, now, told, optedAt, due, clean, uploads, runs>>

\* SetDigestCheckedAt, unconditionally; a failure is logged.
Advance(c) ==
  /\ cron[c].pc = "advance"
  /\ \/ checked' = [checked EXCEPT ![cron[c].user] = cron[c].at] /\ clean' = clean
     \/ checked' = checked /\ clean' = FALSE
  /\ Walks(c, [cron[c] EXCEPT !.pc = "next"])
  /\ UNCHANGED <<optIn, snap, now, told, optedAt, due, uploads, runs>>

Done(c) ==
  /\ cron[c].pc = "next" /\ cron[c].todo = {}
  /\ Walks(c, IdleRun)
  /\ UNCHANGED <<optIn, checked, snap, now, told, optedAt, due, clean, uploads, runs>>

Next == \/ \E u \in Users, on \in BOOLEAN : SetOptIn(u, on)
        \/ \E u \in Users, v \in Villages : Upload(u, v)
        \/ \E c \in Crons : \/ List(c) \/ Clock(c) \/ Pick(c) \/ Read(c)
                            \/ Report(c) \/ Advance(c) \/ Done(c)
        \/ Tick

Spec == Init /\ [][Next]_vars

-----------------------------------------------------------------------------

\* Runs that do not overlap and that each advance the point never report a
\* landing twice, although users toggle the preference and replace snapshots
\* while they walk: "so the next run does not re-report the same landed jobs"
\* (SetDigestCheckedAt).
NothingTwice ==
  [][\A c \in Crons : clean /\ Report(c) => cron[c].landed \cap told = {}]_vars

\* The checked-from point never passes a landing that happened in view of an
\* opted-in user and was not reported, whatever overlaps or fails to advance;
\* only a village that could not be read is passed over (handleCronDigest).
NothingMissed ==
  \A d \in due : d.at <= checked[d.user] => d \in told

\* "Tell me what lands from here on", not what landed before (SetDigestOptIn):
\* a run begun after the user turned the digest on leaves out what landed
\* before that.
FromHereOn ==
  [][\A c \in Crons : Report(c) =>
       \A d \in cron[c].landed :
         cron[c].listed > optedAt[d.user] => d.at > optedAt[d.user]]_vars
=============================================================================
