---------------------------- MODULE DigestProofs ----------------------------
(***************************************************************************)
(* Theorems about Digest for every number of users, villages and runs.     *)
(* No landing is passed over: a run's candidates carry a checked-from      *)
(* point below which everything due was told, and what it has read so far  *)
(* adds everything due up to the run's own clock.  And while runs stay     *)
(* apart and advance the point, what was told lies below it.               *)
(***************************************************************************)
EXTENDS Digest, TLAPS

TypeInv == TypeOK

LEMMA IdleRunType == IdleRun \in Run
<1>1. (CHOOSE u \in Users : TRUE) \in Users
  BY DigestAssumption
<1>2. QED BY <1>1 DEF IdleRun, Run

LEMMA InitType == Init => TypeInv
BY IdleRunType DEF Init, TypeInv, TypeOK

CronStep(c) == \/ List(c) \/ Clock(c) \/ Pick(c) \/ Read(c)
               \/ Report(c) \/ Advance(c) \/ Done(c)

\* A step of one run leaves the others, the users' side and the clock alone.
LEMMA Walking ==
  ASSUME TypeInv, NEW c \in Crons, CronStep(c)
  PROVE  /\ \A b \in Crons : b # c => cron'[b] = cron[b]
         /\ UNCHANGED <<optIn, snap, now, optedAt, uploads>>
         /\ told \subseteq told' /\ due' \subseteq due
BY DEF CronStep, List, Clock, Pick, Read, Report, Advance, Done, Walks,
       TypeInv, TypeOK

LEMMA LandedType ==
  ASSUME TypeInv, NEW run \in Run, NEW v \in Villages
  PROVE  Landed(run, v) \subseteq Landing
BY DEF Landed, Landing, TypeInv, TypeOK, Run

LEMMA Walked ==
  ASSUME TypeInv, NEW c \in Crons, NEW run, Walks(c, run)
  PROVE  /\ cron'[c] = run
         /\ run \in Run => cron' \in [Crons -> Run]
BY DEF Walks, TypeInv, TypeOK

\* What a step makes of its run, field by field.
LEMMA PickShape ==
  ASSUME TypeInv, NEW c \in Crons, Pick(c)
  PROVE  \E cand \in cron[c].todo :
           /\ cron' \in [Crons -> Run]
           /\ cron'[c].todo = cron[c].todo \ {cand} /\ cron'[c].at = cron[c].at
           /\ \/ /\ cron'[c].pc = "read" /\ cron'[c].left = Villages /\ cron'[c].landed = {}
                 /\ cron'[c].user = cand.user /\ cron'[c].since = cand.since
              \/ cron'[c].pc = "next" /\ cron'[c].since = cron[c].since
<1>1. cron[c] \in Run /\ cron[c].pc = "next"
  BY DEF Pick, TypeInv, TypeOK
<1>2. PICK cand \in cron[c].todo :
        \/ Walks(c, [cron[c] EXCEPT
                !.pc = "read", !.todo = cron[c].todo \ {cand}, !.user = cand.user,
                !.since = cand.since, !.left = Villages, !.landed = {}])
        \/ Walks(c, [cron[c] EXCEPT !.todo = cron[c].todo \ {cand}])
  BY Zenon DEF Pick
<1>3. cand.user \in Users /\ cand.since \in Nat
  BY <1>1 DEF Run, Candidate
<1> DEFINE picked == [cron[c] EXCEPT
             !.pc = "read", !.todo = cron[c].todo \ {cand}, !.user = cand.user,
             !.since = cand.since, !.left = Villages, !.landed = {}]
           passed == [cron[c] EXCEPT !.todo = cron[c].todo \ {cand}]
<1>4. /\ picked \in Run /\ picked.todo = cron[c].todo \ {cand}
      /\ picked.at = cron[c].at /\ picked.pc = "read" /\ picked.left = Villages
      /\ picked.landed = {}
      /\ picked.user = cand.user /\ picked.since = cand.since
  BY <1>1, <1>3 DEF Run
<1>5. /\ passed \in Run /\ passed.todo = cron[c].todo \ {cand}
      /\ passed.at = cron[c].at /\ passed.pc = "next" /\ passed.since = cron[c].since
  BY <1>1 DEF Run
<1>6. Walks(c, picked) \/ Walks(c, passed)
  BY <1>2
<1> HIDE DEF picked, passed
<1>7. CASE Walks(c, picked)
  <2>1. cron'[c] = picked /\ cron' \in [Crons -> Run]
    BY <1>4, <1>7, Walked
  <2>2. QED BY <1>4, <2>1
<1>8. CASE Walks(c, passed)
  <2>1. cron'[c] = passed /\ cron' \in [Crons -> Run]
    BY <1>5, <1>8, Walked
  <2>2. QED BY <1>5, <2>1
<1>9. QED BY <1>6, <1>7, <1>8

LEMMA ReadShape ==
  ASSUME TypeInv, NEW c \in Crons, Read(c)
  PROVE  /\ cron[c].pc = "read" /\ cron' \in [Crons -> Run]
         /\ cron'[c].todo = cron[c].todo /\ cron'[c].user = cron[c].user
         /\ cron'[c].since = cron[c].since /\ cron'[c].at = cron[c].at
         /\ \/ /\ cron[c].left = {} /\ cron'[c].pc = "report" /\ due' = due
               /\ cron'[c].landed = cron[c].landed
            \/ \E v \in cron[c].left :
                 /\ cron'[c].pc = "read" /\ cron'[c].left = cron[c].left \ {v}
                 /\ \/ /\ cron'[c].landed = cron[c].landed \cup Landed(cron[c], v)
                       /\ due' = due
                    \/ /\ cron'[c].landed = cron[c].landed
                       /\ due' = {d \in due : d.user = cron[c].user => d.village # v}
<1>1. cron[c] \in Run /\ cron[c].pc = "read"
  BY DEF Read, TypeInv, TypeOK
<1>2. CASE cron[c].left = {} /\ Walks(c, [cron[c] EXCEPT !.pc = "report"]) /\ due' = due
  <2> DEFINE end == [cron[c] EXCEPT !.pc = "report"]
  <2>1. /\ end \in Run /\ end.todo = cron[c].todo /\ end.user = cron[c].user
        /\ end.since = cron[c].since /\ end.at = cron[c].at
        /\ end.pc = "report" /\ end.landed = cron[c].landed
    BY <1>1 DEF Run
  <2>2. Walks(c, end)
    BY <1>2
  <2> HIDE DEF end
  <2>3. cron'[c] = end /\ cron' \in [Crons -> Run]
    BY <2>1, <2>2, Walked
  <2>4. QED BY <1>1, <1>2, <2>1, <2>3
<1>3. ASSUME NEW v \in cron[c].left, NEW more,
             more \subseteq Landing,
             Walks(c, [cron[c] EXCEPT !.left = @ \ {v}, !.landed = @ \cup more])
      PROVE  /\ cron' \in [Crons -> Run] /\ cron'[c].pc = "read"
             /\ cron'[c].todo = cron[c].todo /\ cron'[c].user = cron[c].user
             /\ cron'[c].since = cron[c].since /\ cron'[c].at = cron[c].at
             /\ cron'[c].left = cron[c].left \ {v}
             /\ cron'[c].landed = cron[c].landed \cup more
  <2> DEFINE been == [cron[c] EXCEPT !.left = @ \ {v}, !.landed = @ \cup more]
  <2>1. /\ been \in Run /\ been.todo = cron[c].todo /\ been.user = cron[c].user
        /\ been.since = cron[c].since /\ been.at = cron[c].at /\ been.pc = "read"
        /\ been.left = cron[c].left \ {v} /\ been.landed = cron[c].landed \cup more
    BY <1>1, <1>3 DEF Run
  <2>2. Walks(c, been)
    BY <1>3
  <2> HIDE DEF been
  <2>3. cron'[c] = been /\ cron' \in [Crons -> Run]
    BY <2>1, <2>2, Walked
  <2>4. QED BY <2>1, <2>3
<1>4. ASSUME NEW v \in cron[c].left, Walks(c, [cron[c] EXCEPT !.left = @ \ {v}])
      PROVE  /\ cron' \in [Crons -> Run] /\ cron'[c].pc = "read"
             /\ cron'[c].todo = cron[c].todo /\ cron'[c].user = cron[c].user
             /\ cron'[c].since = cron[c].since /\ cron'[c].at = cron[c].at
             /\ cron'[c].left = cron[c].left \ {v}
             /\ cron'[c].landed = cron[c].landed
  <2> DEFINE been == [cron[c] EXCEPT !.left = @ \ {v}]
  <2>1. /\ been \in Run /\ been.todo = cron[c].todo /\ been.user = cron[c].user
        /\ been.since = cron[c].since /\ been.at = cron[c].at /\ been.pc = "read"
        /\ been.left = cron[c].left \ {v} /\ been.landed = cron[c].landed
    BY <1>1 DEF Run
  <2>2. Walks(c, been)
    BY <1>4
  <2> HIDE DEF been
  <2>3. cron'[c] = been /\ cron' \in [Crons -> Run]
    BY <2>1, <2>2, Walked
  <2>4. QED BY <2>1, <2>3
<1>5. ASSUME NEW v \in cron[c].left,
             \/ /\ Walks(c, [cron[c] EXCEPT !.left = @ \ {v},
                                            !.landed = @ \cup Landed(cron[c], v)])
                /\ due' = due
             \/ /\ Walks(c, [cron[c] EXCEPT !.left = @ \ {v}])
                /\ due' = {d \in due : d.user = cron[c].user => d.village # v}
      PROVE  /\ cron' \in [Crons -> Run] /\ cron'[c].pc = "read"
             /\ cron'[c].todo = cron[c].todo /\ cron'[c].user = cron[c].user
             /\ cron'[c].since = cron[c].since /\ cron'[c].at = cron[c].at
             /\ cron'[c].left = cron[c].left \ {v}
             /\ \/ /\ cron'[c].landed = cron[c].landed \cup Landed(cron[c], v)
                   /\ due' = due
                \/ /\ cron'[c].landed = cron[c].landed
                   /\ due' = {d \in due : d.user = cron[c].user => d.village # v}
  <2>1. Landed(cron[c], v) \subseteq Landing
    BY <1>1, LandedType DEF Run
  <2>2. QED BY <1>3, <1>4, <1>5, <2>1
<1>6. \/ cron[c].left = {} /\ Walks(c, [cron[c] EXCEPT !.pc = "report"]) /\ due' = due
      \/ \E v \in cron[c].left :
           \/ /\ Walks(c, [cron[c] EXCEPT !.left = @ \ {v},
                                          !.landed = @ \cup Landed(cron[c], v)])
              /\ due' = due
           \/ /\ Walks(c, [cron[c] EXCEPT !.left = @ \ {v}])
              /\ due' = {d \in due : d.user = cron[c].user => d.village # v}
  BY Zenon DEF Read
<1>7. QED BY <1>1, <1>2, <1>5, <1>6

LEMMA ListType ==
  ASSUME TypeInv, NEW c \in Crons, List(c)
  PROVE  TypeInv'
<1>1. {[user |-> u, since |-> checked[u]] : u \in {w \in Users : optIn[w]}}
        \subseteq Candidate
  BY DEF TypeInv, TypeOK, Candidate
<1> DEFINE todo == {[user |-> u, since |-> checked[u]] : u \in {w \in Users : optIn[w]}}
<1>2. todo \in SUBSET Candidate
  BY <1>1
<1> HIDE DEF todo
<1>3. [IdleRun EXCEPT !.pc = "clock", !.listed = now, !.todo = todo] \in Run
  BY <1>2, IdleRunType DEF TypeInv, TypeOK, Run
<1>4. /\ cron' = [cron EXCEPT ![c] =
                    [IdleRun EXCEPT !.pc = "clock", !.listed = now, !.todo = todo]]
      /\ runs' = runs + 1 /\ clean' \in BOOLEAN
      /\ UNCHANGED <<optIn, checked, snap, now, told, optedAt, due, uploads>>
  BY DEF List, Walks, todo, TypeInv, TypeOK
<1>5. QED BY <1>3, <1>4 DEF TypeInv, TypeOK

LEMMA NextType ==
  ASSUME TypeInv, [Next]_vars PROVE TypeInv'
<1>1. ASSUME NEW u \in Users, NEW on \in BOOLEAN, SetOptIn(u, on) PROVE TypeInv'
  BY <1>1 DEF SetOptIn, TypeInv, TypeOK
<1>2. ASSUME NEW u \in Users, NEW v \in Villages, Upload(u, v) PROVE TypeInv'
  <2>1. PICK c \in snap[u][v].captured..now : \E jobs \in SUBSET (c+1..MaxNow) :
          /\ snap' = [snap EXCEPT ![u][v] = [captured |-> c, jobs |-> jobs]]
          /\ due' = {d \in due : d.user = u /\ d.village = v => d.at \in jobs}
    BY <1>2 DEF Upload
  <2>2. PICK jobs \in SUBSET (c+1..MaxNow) :
          /\ snap' = [snap EXCEPT ![u][v] = [captured |-> c, jobs |-> jobs]]
          /\ due' = {d \in due : d.user = u /\ d.village = v => d.at \in jobs}
    BY <2>1
  <2>3. c \in Nat /\ jobs \in SUBSET Nat
    BY DigestAssumption DEF TypeInv, TypeOK
  <2>4. snap' \in [Users -> [Villages -> [captured : Nat, jobs : SUBSET Nat]]]
    BY <2>2, <2>3 DEF TypeInv, TypeOK
  <2>5. QED BY <1>2, <2>2, <2>4 DEF Upload, TypeInv, TypeOK
<1>3. CASE Tick
  <2>1. {d \in [user : Users, village : Villages, at : {now + 1}] :
           optIn[d.user] /\ d.at \in snap[d.user][d.village].jobs} \subseteq Landing
    BY DEF Landing, TypeInv, TypeOK
  <2>2. due' \subseteq Landing
    BY <1>3, <2>1 DEF Tick, TypeInv, TypeOK
  <2>3. QED BY <1>3, <2>2 DEF Tick, TypeInv, TypeOK
<1>4. ASSUME NEW c \in Crons, CronStep(c) PROVE TypeInv'
  <2>0. cron[c] \in Run
    BY DEF TypeInv, TypeOK
  <2>1. CASE List(c)
    BY <2>1, ListType
  <2>2. CASE Clock(c)
    BY <2>0, <2>2 DEF Clock, Walks, TypeInv, TypeOK, Run
  <2>3. CASE Pick(c)
    <3>1. cron' \in [Crons -> Run]
      BY <2>3, PickShape
    <3>2. QED BY <2>3, <3>1 DEF Pick, TypeInv, TypeOK
  <2>4. CASE Read(c)
    <3>1. cron' \in [Crons -> Run] /\ due' \subseteq due
      BY <2>4, ReadShape
    <3>2. QED BY <2>4, <3>1 DEF Read, TypeInv, TypeOK
  <2>5. CASE Report(c)
    BY <2>0, <2>5 DEF Report, Walks, TypeInv, TypeOK, Run
  <2>6. CASE Advance(c)
    BY <2>0, <2>6 DEF Advance, Walks, TypeInv, TypeOK, Run
  <2>7. CASE Done(c)
    BY <2>7, IdleRunType DEF Done, Walks, TypeInv, TypeOK
  <2>8. QED BY <1>4, <2>1, <2>2, <2>3, <2>4, <2>5, <2>6, <2>7 DEF CronStep
<1>5. CASE UNCHANGED vars
  BY <1>5 DEF vars, TypeInv, TypeOK
<1>6. QED BY <1>1, <1>2, <1>3, <1>4, <1>5 DEF Next, CronStep

\* The preference, the checked-from points and the runs stay well typed.
THEOREM TypeCorrect == Spec => []TypeOK
<1>1. TypeInv => TypeOK
  BY DEF TypeInv
<1>2. QED BY <1>1, InitType, NextType, PTL DEF Spec

-----------------------------------------------------------------------------

\* Times: nothing is ahead of the clock, and a due landing is in the newest
\* snapshot of its village.
Behind ==
  /\ \A u \in Users : checked[u] <= now
  /\ \A d \in due : d.at <= now /\ d.at \in snap[d.user][d.village].jobs
  /\ \A c \in Crons : /\ cron[c].at <= now /\ cron[c].since <= now
                      /\ \A cand \in cron[c].todo : cand.since <= now

\* Everything due of user u up to t, in the villages vs, is among these.
Covers(u, t, vs, these) ==
  \A d \in due : d.user = u /\ d.at <= t /\ d.village \in vs => d \in these

\* What a run knows of the user it is walking.
Knows(run) ==
  /\ \A cand \in run.todo : Covers(cand.user, cand.since, Villages, told)
  /\ run.pc = "read" =>
       /\ Covers(run.user, run.since, Villages, told)
       /\ Covers(run.user, run.at, Villages \ run.left, told \cup run.landed)
  /\ run.pc = "report" => Covers(run.user, run.at, Villages, told \cup run.landed)
  /\ run.pc = "advance" => Covers(run.user, run.at, Villages, told)

Inv == /\ TypeInv /\ Behind
       /\ \A u \in Users : Covers(u, checked[u], Villages, told)
       /\ \A c \in Crons : Knows(cron[c])

LEMMA InitInv == Init => Inv
<1> SUFFICES ASSUME Init PROVE Inv
  OBVIOUS
<1>1. TypeInv
  BY InitType
<1>2. Behind
  BY DEF Init, Behind, IdleRun
<1>3. \A u \in Users : Covers(u, checked[u], Villages, told)
  BY DEF Init, Covers
<1>4. \A c \in Crons : Knows(cron[c])
  BY DEF Init, Knows, IdleRun
<1>5. QED BY <1>1, <1>2, <1>3, <1>4 DEF Inv

LEMMA InvCovers == Inv => NothingMissed
<1> SUFFICES ASSUME Inv, NEW d \in due, d.at <= checked[d.user] PROVE d \in told
  BY DEF NothingMissed
<1>1. d.user \in Users /\ d.village \in Villages
  BY DEF Inv, TypeInv, TypeOK, Landing
<1>2. QED BY <1>1 DEF Inv, Covers

LEMMA NextBehind ==
  ASSUME Inv, [Next]_vars PROVE Behind'
<1> USE DEF Inv
<1>0. TypeInv'
  BY NextType
<1>1. ASSUME NEW u \in Users, NEW on \in BOOLEAN, SetOptIn(u, on) PROVE Behind'
  BY <1>1 DEF SetOptIn, Behind, TypeInv, TypeOK
<1>2. ASSUME NEW u \in Users, NEW v \in Villages, Upload(u, v) PROVE Behind'
  <2>1. \A d \in due' : d \in due /\ d.at \in snap'[d.user][d.village].jobs
    BY <1>2 DEF Upload, Behind, TypeInv, TypeOK, Landing
  <2>2. QED BY <1>2, <2>1 DEF Upload, Behind
<1>3. CASE Tick
  <2>1. \A d \in due' : d \in due \/ (d.at = now + 1 /\ d.at \in snap[d.user][d.village].jobs)
    BY <1>3 DEF Tick
  <2>2. \A d \in due : d.at \in Nat
    BY DEF TypeInv, TypeOK, Landing
  <2>3. \A c \in Crons : cron[c].at \in Nat /\ cron[c].since \in Nat
                         /\ \A cand \in cron[c].todo : cand.since \in Nat
    BY DEF TypeInv, TypeOK, Run, Candidate
  <2>4. QED BY <1>3, <2>1, <2>2, <2>3 DEF Tick, Behind, TypeInv, TypeOK
<1>4. ASSUME NEW c \in Crons, CronStep(c) PROVE Behind'
  <2>1. \A d \in due' : d.at <= now' /\ d.at \in snap'[d.user][d.village].jobs
    BY <1>4, Walking DEF Behind
  <2>2. \A u \in Users : checked'[u] <= now'
    BY <1>4 DEF CronStep, List, Clock, Pick, Read, Report, Advance, Done,
       Behind, TypeInv, TypeOK
  <2>3. /\ cron'[c].at <= now' /\ cron'[c].since <= now'
        /\ \A cand \in cron'[c].todo : cand.since <= now'
    <3>1. CASE List(c)
      BY <3>1 DEF List, Walks, IdleRun, Behind, TypeInv, TypeOK
    <3>2. CASE Done(c)
      BY <3>2 DEF Done, Walks, IdleRun, Behind, TypeInv, TypeOK
    <3>3. CASE Clock(c)
      BY <3>3 DEF Clock, Walks, Behind, TypeInv, TypeOK, Run
    <3>4. CASE Pick(c)
      <4>1. PICK cand \in cron[c].todo :
              /\ cron'[c].todo = cron[c].todo \ {cand}
              /\ cron'[c].since \in {cand.since, cron[c].since}
              /\ cron'[c].at = cron[c].at
        BY <3>4, PickShape
      <4>2. QED BY <3>4, <4>1 DEF Pick, Behind
    <3>5. CASE Read(c) \/ Report(c) \/ Advance(c)
      <4>1. /\ cron'[c].todo = cron[c].todo /\ cron'[c].since = cron[c].since
            /\ cron'[c].at = cron[c].at
        <5>1. CASE Read(c)
          BY <5>1, ReadShape
        <5>2. CASE Report(c) \/ Advance(c)
          BY <5>2 DEF Report, Advance, Walks, TypeInv, TypeOK, Run
        <5>3. QED BY <3>5, <5>1, <5>2
      <4>2. QED BY <3>5, <4>1 DEF Read, Report, Advance, Behind
    <3>6. QED BY <1>4, <3>1, <3>2, <3>3, <3>4, <3>5 DEF CronStep
  <2>4. QED BY <1>4, <2>1, <2>2, <2>3, Walking DEF Behind
<1>5. CASE UNCHANGED vars
  BY <1>5 DEF vars, Behind
<1>6. QED BY <1>1, <1>2, <1>3, <1>4, <1>5 DEF Next, CronStep

\* What a step of one run leaves it knowing.
LEMMA StepKnows ==
  ASSUME Inv, NEW c \in Crons, CronStep(c) PROVE Knows(cron[c])'
<1> USE DEF Inv
<1>0. /\ cron[c] \in Run /\ Knows(cron[c])
      /\ told \subseteq told' /\ due' \subseteq due /\ due \subseteq Landing
  BY Walking DEF TypeInv, TypeOK
<1>1. CASE List(c)
  <2>1. cron'[c].pc = "clock" /\ told' = told /\ due' = due
    BY <1>1 DEF List, Walks, TypeInv, TypeOK, IdleRun
  <2>2. \A cand \in cron'[c].todo : cand.user \in Users /\ cand.since = checked[cand.user]
    BY <1>1 DEF List, Walks, TypeInv, TypeOK, IdleRun
  <2>3. QED BY <2>1, <2>2 DEF Knows, Covers
<1>2. CASE Clock(c)
  <2>1. cron'[c].pc = "next" /\ cron'[c].todo = cron[c].todo
    BY <1>2 DEF Clock, Walks, TypeInv, TypeOK, Run
  <2>2. QED BY <1>0, <2>1 DEF Knows, Covers
<1>3. CASE Pick(c)
  <2>1. PICK cand \in cron[c].todo :
          /\ cron'[c].todo = cron[c].todo \ {cand}
          /\ \/ /\ cron'[c].pc = "read" /\ cron'[c].user = cand.user
                /\ cron'[c].since = cand.since /\ cron'[c].left = Villages
             \/ cron'[c].pc = "next"
    BY <1>3, PickShape
  <2>2. told' = told /\ due' = due
    BY <1>3 DEF Pick
  <2>3. QED BY <1>0, <2>1, <2>2 DEF Knows, Covers
<1>4. CASE Read(c)
  <2>1. /\ cron'[c].todo = cron[c].todo /\ cron'[c].user = cron[c].user
        /\ cron'[c].since = cron[c].since /\ cron'[c].at = cron[c].at
        /\ cron[c].pc = "read" /\ told' = told
    BY <1>4, ReadShape DEF Read
  <2>2. CASE /\ cron[c].left = {} /\ cron'[c].pc = "report" /\ due' = due
             /\ cron'[c].landed = cron[c].landed
    BY <1>0, <2>1, <2>2 DEF Knows, Covers
  <2>3. ASSUME NEW v \in cron[c].left,
               cron'[c].pc = "read", cron'[c].left = cron[c].left \ {v},
               \/ /\ cron'[c].landed = cron[c].landed \cup Landed(cron[c], v)
                  /\ due' = due
               \/ /\ cron'[c].landed = cron[c].landed
                  /\ due' = {d \in due : d.user = cron[c].user => d.village # v}
        PROVE  Knows(cron[c])'
    <3>1. /\ cron[c].landed \subseteq cron'[c].landed
          /\ \/ cron'[c].landed = cron[c].landed \cup Landed(cron[c], v)
             \/ \A d \in due' : d.user = cron[c].user => d.village # v
      BY <2>3
    <3>2. ASSUME NEW d \in due', d.user = cron[c].user, d.at <= cron[c].at,
                 d.village \notin cron[c].left \ {v}
          PROVE  d \in told \cup cron'[c].landed
      <4>1. d \in due /\ d \in Landing /\ d.at \in snap[d.user][d.village].jobs
        BY <1>0 DEF Behind
      <4>2. d.village \in Villages
        BY <4>1 DEF Landing
      <4>3. CASE d.village \notin cron[c].left
        <5>1. d \in told \cup cron[c].landed
          BY <1>0, <2>1, <3>2, <4>1, <4>2, <4>3 DEF Knows, Covers
        <5>2. QED BY <3>1, <5>1
      <4>4. CASE d.village = v /\ d.at <= cron[c].since
        BY <1>0, <2>1, <3>2, <4>1, <4>2, <4>4 DEF Knows, Covers
      <4>5. CASE d.village = v /\ ~(d.at <= cron[c].since)
        <5>1. cron'[c].landed = cron[c].landed \cup Landed(cron[c], v)
          BY <3>1, <3>2, <4>5
        <5>2. cron[c].since < d.at
          BY <1>0, <4>1, <4>5 DEF Landing, Run
        <5>3. d = [user |-> d.user, village |-> d.village, at |-> d.at]
          BY <4>1 DEF Landing
        <5>4. d \in [user : {cron[c].user}, village : {v},
                     at : snap[cron[c].user][v].jobs]
          BY <3>2, <4>1, <4>5, <5>3
        <5>5. d \in Landed(cron[c], v)
          BY <3>2, <5>2, <5>4 DEF Landed
        <5>6. QED BY <5>1, <5>5
      <4>6. QED BY <3>2, <4>3, <4>4, <4>5
    <3>3. \A d \in due' : /\ d.user = cron'[c].user /\ d.at <= cron'[c].at
                          /\ d.village \in Villages \ cron'[c].left
                          => d \in told' \cup cron'[c].landed
      BY <2>1, <2>3, <3>2
    <3>4. Covers(cron[c].user, cron[c].since, Villages, told)'
      BY <1>0, <2>1 DEF Knows, Covers
    <3>5. \A cand \in cron'[c].todo : Covers(cand.user, cand.since, Villages, told)'
      BY <1>0, <2>1 DEF Knows, Covers
    <3>6. QED BY <2>1, <2>3, <3>3, <3>4, <3>5 DEF Knows, Covers
  <2>4. QED BY <1>4, <2>2, <2>3, ReadShape
<1>5. CASE Report(c)
  <2>1. /\ cron[c].pc = "report" /\ cron'[c].pc = "advance"
        /\ cron'[c].todo = cron[c].todo /\ cron'[c].user = cron[c].user
        /\ cron'[c].at = cron[c].at
        /\ told' = told \cup cron[c].landed /\ due' = due
    BY <1>0, <1>5 DEF Report, Walks, TypeInv, TypeOK, Run
  <2>2. QED BY <1>0, <2>1 DEF Knows, Covers
<1>6. CASE Advance(c)
  <2>1. cron'[c].pc = "next" /\ cron'[c].todo = cron[c].todo
    BY <1>0, <1>6 DEF Advance, Walks, TypeInv, TypeOK, Run
  <2>2. QED BY <1>0, <2>1 DEF Knows, Covers
<1>7. CASE Done(c)
  BY <1>7 DEF Done, Walks, IdleRun, Knows, TypeInv, TypeOK
<1>8. QED BY <1>1, <1>2, <1>3, <1>4, <1>5, <1>6, <1>7 DEF CronStep

\* A step of one run never moves a checked-from point past what is not told.
LEMMA StepCovers ==
  ASSUME Inv, NEW c \in Crons, CronStep(c), NEW u \in Users
  PROVE  Covers(u, checked[u], Villages, told)'
<1> USE DEF Inv
<1>1. told \subseteq told' /\ due' \subseteq due
  BY Walking
<1>2. CASE checked'[u] = checked[u]
  BY <1>1, <1>2 DEF Covers
<1>3. CASE checked'[u] # checked[u]
  <2>1. Advance(c)
    BY <1>3 DEF CronStep, List, Clock, Pick, Read, Report, Done
  <2>2. u = cron[c].user /\ checked'[u] = cron[c].at /\ cron[c].pc = "advance"
    BY <1>3, <2>1 DEF Advance, TypeInv, TypeOK
  <2>3. QED BY <1>1, <2>2 DEF Knows, Covers
<1>4. QED BY <1>2, <1>3

LEMMA NextInv ==
  ASSUME Inv, [Next]_vars PROVE Inv'
<1> USE DEF Inv
<1>0. TypeInv' /\ Behind'
  BY NextType, NextBehind
<1>1. ASSUME NEW u \in Users, NEW on \in BOOLEAN, SetOptIn(u, on) PROVE Inv'
  <2>1. told' = told /\ due' = {d \in due : d.user # u} /\ cron' = cron
    BY <1>1 DEF SetOptIn
  <2>2. \A w \in Users : w # u => checked'[w] = checked[w]
    BY <1>1 DEF SetOptIn, TypeInv, TypeOK
  <2>3. \A w \in Users : Covers(w, checked[w], Villages, told)'
    BY <2>1, <2>2 DEF Covers
  <2>4. \A c \in Crons : Knows(cron[c])'
    BY <2>1 DEF Knows, Covers
  <2>5. QED BY <1>0, <2>3, <2>4
<1>2. ASSUME NEW u \in Users, NEW v \in Villages, Upload(u, v) PROVE Inv'
  <2>1. told' = told /\ due' \subseteq due /\ cron' = cron /\ checked' = checked
    BY <1>2 DEF Upload
  <2>2. \A w \in Users : Covers(w, checked[w], Villages, told)'
    BY <2>1 DEF Covers
  <2>3. \A c \in Crons : Knows(cron[c])'
    BY <2>1 DEF Knows, Covers
  <2>4. QED BY <1>0, <2>2, <2>3
<1>3. CASE Tick
  <2>1. /\ told' = told /\ cron' = cron /\ checked' = checked
        /\ \A d \in due' : d \in due \/ d.at = now + 1
    BY <1>3 DEF Tick
  <2>2. ASSUME NEW t \in Nat, t <= now PROVE ~(now + 1 <= t)
    BY <2>2 DEF TypeInv, TypeOK
  <2>3. \A w \in Users : checked[w] \in Nat /\ checked[w] <= now
    BY DEF TypeInv, TypeOK, Behind
  <2>4. \A c \in Crons : /\ cron[c].at \in Nat /\ cron[c].at <= now
                         /\ cron[c].since \in Nat /\ cron[c].since <= now
                         /\ \A cand \in cron[c].todo :
                              cand.since \in Nat /\ cand.since <= now
    BY DEF TypeInv, TypeOK, Behind, Run, Candidate
  <2>5. \A w \in Users : Covers(w, checked[w], Villages, told)'
    BY <2>1, <2>2, <2>3 DEF Covers
  <2>6. \A c \in Crons : Knows(cron[c])'
    BY <2>1, <2>2, <2>4 DEF Knows, Covers
  <2>7. QED BY <1>0, <2>5, <2>6
<1>4. ASSUME NEW c \in Crons, CronStep(c) PROVE Inv'
  <2>1. \A w \in Users : Covers(w, checked[w], Villages, told)'
    BY <1>4, StepCovers
  <2>2. \A b \in Crons : Knows(cron[b])'
    <3>1. told \subseteq told' /\ due' \subseteq due
      BY <1>4, Walking
    <3>2. ASSUME NEW b \in Crons, b # c PROVE Knows(cron[b])'
      <4>1. cron'[b] = cron[b] /\ Knows(cron[b])
        BY <1>4, <3>2, Walking
      <4>2. QED BY <3>1, <4>1 DEF Knows, Covers
    <3>3. QED BY <1>4, <3>2, StepKnows
  <2>3. QED BY <1>0, <2>1, <2>2
<1>5. CASE UNCHANGED vars
  BY <1>0, <1>5 DEF vars, Knows, Covers
<1>6. QED BY <1>1, <1>2, <1>3, <1>4, <1>5 DEF Next, CronStep

\* However runs overlap and fail to advance, no landing in view of an opted-in
\* user falls below the checked-from point untold (handleCronDigest).
THEOREM NoneMissed == Spec => []NothingMissed
BY InitInv, NextInv, InvCovers, PTL DEF Spec

-----------------------------------------------------------------------------

\* While runs stay apart: what was told of a candidate not yet walked, or read
\* but not yet reported, lies before its checked-from point, and nothing told
\* is ahead of the run's clock.
Fresh(run) ==
  /\ \A cand \in run.todo :
       /\ \A d \in told : d.user = cand.user => d.at <= cand.since
       /\ \A other \in run.todo : other.user = cand.user => other = cand
       /\ run.pc \in {"read", "report", "advance"} => run.user # cand.user
  /\ run.pc \in {"read", "report"} =>
       /\ \A d \in told : d.user = run.user => d.at <= run.since
       /\ \A d \in run.landed : d.user = run.user /\ run.since < d.at /\ d.at <= run.at
  /\ run.pc \notin {"idle", "clock"} => \A d \in told : d.at <= run.at
  /\ run.pc = "idle" => run.todo = {}

Apart == \A b, c \in Crons : b # c => cron[b].pc = "idle" \/ cron[c].pc = "idle"

\* What was told is below the point, or about to be.
Settled(d) == \/ d.at <= checked[d.user]
              \/ \E c \in Crons : cron[c].pc = "advance" /\ cron[c].user = d.user

Once == clean => /\ Apart
                 /\ \A d \in told : d.at <= now /\ Settled(d)
                 /\ \A c \in Crons : Fresh(cron[c])

LEMMA InitOnce == Init => Once
BY DEF Init, Once, Apart, Fresh, IdleRun

\* A run that has begun is the only one: the others are idle, before and after
\* its step, and stay fresh whatever it tells.
LEMMA OthersIdle ==
  ASSUME Inv, Once, clean, NEW c \in Crons, CronStep(c), ~List(c)
  PROVE  /\ Apart'
         /\ \A b \in Crons : b # c => cron'[b] = cron[b] /\ Fresh(cron[b])'
                                       /\ cron[b].pc = "idle"
<1>1. cron[c].pc # "idle"
  BY DEF CronStep, Clock, Pick, Read, Report, Advance, Done
<1>2. \A b \in Crons : b # c => cron'[b] = cron[b] /\ cron[b].pc = "idle"
  BY <1>1, Walking DEF Inv, Once, Apart
<1>3. \A b \in Crons : b # c => Fresh(cron[b])'
  <2> SUFFICES ASSUME NEW b \in Crons, b # c PROVE Fresh(cron[b])'
    OBVIOUS
  <2>1. cron'[b].pc = "idle" /\ cron'[b].todo = {}
    BY <1>2 DEF Once, Fresh
  <2>2. QED BY <2>1 DEF Fresh
<1>4. Apart'
  BY <1>2 DEF Apart
<1>5. QED BY <1>2, <1>3, <1>4

\* A step that tells nothing and moves no point leaves what was told settled.
LEMMA StillSettled ==
  ASSUME Inv, Once, clean, NEW c \in Crons, CronStep(c), ~List(c),
         told' = told, checked' = checked, cron[c].pc # "advance"
  PROVE  \A d \in told' : d.at <= now' /\ Settled(d)'
<1> SUFFICES ASSUME NEW d \in told PROVE d.at <= now' /\ Settled(d)'
  OBVIOUS
<1>1. d.at <= now' /\ Settled(d)
  BY Walking DEF Once, Inv
<1>2. CASE d.at <= checked[d.user]
  BY <1>1, <1>2 DEF Settled
<1>3. ASSUME NEW b \in Crons, cron[b].pc = "advance" /\ cron[b].user = d.user
      PROVE  Settled(d)'
  <2>1. b # c /\ cron[b].pc # "idle"
    BY <1>3
  <2>2. QED BY <2>1, OthersIdle
<1>4. QED BY <1>1, <1>2, <1>3 DEF Settled

LEMMA ListOnce ==
  ASSUME Inv, Once, NEW c \in Crons, List(c) PROVE Once'
<1> SUFFICES ASSUME clean' PROVE Once'
  BY DEF Once
<1>1. /\ clean /\ \A b \in Crons : cron[b].pc = "idle"
      /\ UNCHANGED <<checked, now, told>>
  BY DEF List
<1>2. \A b \in Crons : b # c => cron'[b] = cron[b]
  BY Walking DEF Inv, CronStep
<1>3. Apart'
  BY <1>1, <1>2 DEF Apart
<1>4. \A d \in told' : d.at <= now' /\ Settled(d)'
  BY <1>1 DEF Once, Settled
<1>5. Fresh(cron[c])'
  <2>1. cron'[c].pc = "clock"
    BY DEF List, Walks, Inv, TypeInv, TypeOK, IdleRun
  <2>2. \A cand \in cron'[c].todo :
          cand = [user |-> cand.user, since |-> checked[cand.user]]
    BY DEF List, Walks, Inv, TypeInv, TypeOK, IdleRun
  <2>3. \A d \in told : d.at <= checked[d.user]
    BY <1>1 DEF Once, Settled
  <2>4. QED BY <1>1, <2>1, <2>2, <2>3 DEF Fresh
<1>6. \A b \in Crons : b # c => Fresh(cron[b])'
  BY <1>1, <1>2 DEF Once, Fresh
<1>7. QED BY <1>3, <1>4, <1>5, <1>6 DEF Once

LEMMA WalkOnce ==
  ASSUME Inv, Once, NEW c \in Crons, CronStep(c), ~List(c) PROVE Once'
<1> SUFFICES ASSUME clean' PROVE Once'
  BY DEF Once
<1>0. /\ clean /\ cron[c] \in Run /\ Fresh(cron[c]) /\ now' = now
      /\ told \subseteq Landing /\ told' \subseteq Landing
  <2>1. clean /\ now' = now
    BY Walking DEF CronStep, Clock, Pick, Read, Report, Advance, Done, Inv
  <2>2. TypeInv'
    BY NextType DEF Inv, Next, CronStep
  <2>3. QED BY <2>1, <2>2 DEF Once, Inv, TypeInv, TypeOK
<1>1. /\ Apart'
      /\ \A b \in Crons : b # c => cron'[b] = cron[b] /\ Fresh(cron[b])'
  BY <1>0, OthersIdle
<1>2. SUFFICES /\ \A d \in told' : d.at <= now' /\ Settled(d)'
               /\ Fresh(cron[c])'
  BY <1>1 DEF Once
<1>3. CASE Clock(c)
  <2>1. /\ cron'[c].pc = "next" /\ cron'[c].todo = cron[c].todo /\ cron'[c].at = now
        /\ told' = told /\ checked' = checked /\ cron[c].pc = "clock"
    BY <1>0, <1>3 DEF Clock, Walks, Inv, TypeInv, TypeOK, Run
  <2>2. \A d \in told' : d.at <= now' /\ Settled(d)'
    BY <1>0, <2>1, StillSettled
  <2>3. Fresh(cron[c])'
    BY <1>0, <2>1, <2>2 DEF Fresh
  <2>4. QED BY <2>2, <2>3
<1>4. CASE Pick(c)
  <2>1. PICK cand \in cron[c].todo :
          /\ cron'[c].todo = cron[c].todo \ {cand} /\ cron'[c].at = cron[c].at
          /\ \/ /\ cron'[c].pc = "read" /\ cron'[c].landed = {}
                /\ cron'[c].user = cand.user /\ cron'[c].since = cand.since
             \/ cron'[c].pc = "next"
    BY <1>4, PickShape DEF Inv
  <2>2. told' = told /\ checked' = checked /\ cron[c].pc = "next"
    BY <1>4 DEF Pick
  <2>3. \A d \in told' : d.at <= now' /\ Settled(d)'
    BY <1>0, <2>2, StillSettled
  <2>4. Fresh(cron[c])'
    BY <1>0, <2>1, <2>2 DEF Fresh
  <2>5. QED BY <2>3, <2>4
<1>5. CASE Read(c)
  <2>1. /\ cron'[c].todo = cron[c].todo /\ cron'[c].user = cron[c].user
        /\ cron'[c].since = cron[c].since /\ cron'[c].at = cron[c].at
        /\ cron[c].pc = "read" /\ cron'[c].pc \in {"read", "report"}
        /\ told' = told /\ checked' = checked
    BY <1>5, ReadShape DEF Read, Inv
  <2>2. \A d \in told' : d.at <= now' /\ Settled(d)'
    BY <1>0, <2>1, StillSettled
  <2>3. \A d \in cron'[c].landed : d \in cron[c].landed
                                   \/ \E v \in Villages : d \in Landed(cron[c], v)
    <3>1. cron[c].left \subseteq Villages
      BY <1>0 DEF Run
    <3>2. QED BY <1>5, <3>1, ReadShape DEF Inv
  <2>4. \A d \in cron'[c].landed :
          d.user = cron[c].user /\ cron[c].since < d.at /\ d.at <= cron[c].at
    <3>1. \A v \in Villages : \A d \in Landed(cron[c], v) :
            d.user = cron[c].user /\ cron[c].since < d.at /\ d.at <= cron[c].at
      BY DEF Landed
    <3>2. QED BY <1>0, <2>1, <2>3, <3>1 DEF Fresh
  <2>5. Fresh(cron[c])'
    BY <1>0, <2>1, <2>4 DEF Fresh
  <2>6. QED BY <2>2, <2>5
<1>6. CASE Report(c)
  <2>1. /\ cron'[c].pc = "advance" /\ cron'[c].todo = cron[c].todo
        /\ cron'[c].user = cron[c].user /\ cron'[c].at = cron[c].at
        /\ cron[c].pc = "report" /\ told' = told \cup cron[c].landed
        /\ checked' = checked
    BY <1>0, <1>6 DEF Report, Walks, Inv, TypeInv, TypeOK, Run
  <2>2. /\ \A d \in cron[c].landed : d.user = cron[c].user /\ d.at <= cron[c].at
        /\ \A d \in told : d.at <= cron[c].at
    BY <1>0, <2>1 DEF Fresh
  <2>3. \A d \in told' : d.at <= now'
    <3>1. cron[c].at <= now /\ cron[c].at \in Nat /\ now \in Nat
      BY <1>0 DEF Inv, Behind, Run, TypeInv, TypeOK
    <3>2. \A d \in told' : d.at \in Nat /\ d.at <= cron[c].at
      BY <1>0, <2>1, <2>2 DEF Landing
    <3>3. QED BY <1>0, <3>1, <3>2
  <2>4. ASSUME NEW d \in told' PROVE Settled(d)'
    <3>1. CASE d \in cron[c].landed
      BY <2>1, <2>2, <3>1 DEF Settled
    <3>2. CASE d \in told /\ d.at <= checked[d.user]
      BY <2>1, <3>2 DEF Settled
    <3>3. ASSUME NEW b \in Crons, cron[b].pc = "advance" /\ cron[b].user = d.user
          PROVE  FALSE
      <4>1. b # c /\ cron[b].pc # "idle"
        BY <2>1, <3>3
      <4>2. QED BY <1>0, <4>1, OthersIdle
    <3>4. QED BY <1>0, <2>1, <3>1, <3>2, <3>3 DEF Once, Settled
  <2>5. Fresh(cron[c])'
    <3>1. ASSUME NEW cand \in cron'[c].todo, NEW d \in told', d.user = cand.user
          PROVE  d.at <= cand.since
      <4>1. d \notin cron[c].landed
        BY <1>0, <2>1, <2>2, <3>1 DEF Fresh
      <4>2. QED BY <1>0, <2>1, <3>1, <4>1 DEF Fresh
    <3>2. QED BY <1>0, <2>1, <2>2, <3>1 DEF Fresh
  <2>6. QED BY <2>3, <2>4, <2>5
<1>7. CASE Advance(c)
  <2>1. /\ cron'[c].pc = "next" /\ cron'[c].todo = cron[c].todo
        /\ cron'[c].at = cron[c].at /\ cron[c].pc = "advance"
        /\ told' = told /\ checked' = [checked EXCEPT ![cron[c].user] = cron[c].at]
    BY <1>0, <1>7 DEF Advance, Walks, Inv, TypeInv, TypeOK, Run
  <2>2. ASSUME NEW d \in told PROVE d.at <= now' /\ Settled(d)'
    <3>1. d.at <= now /\ d.at <= cron[c].at /\ d.user \in Users
      BY <1>0, <2>1 DEF Once, Fresh, Landing
    <3>2. CASE d.user = cron[c].user
      <4>1. checked'[d.user] = cron[c].at
        BY <1>0, <2>1, <3>1, <3>2 DEF Inv, TypeInv, TypeOK
      <4>2. QED BY <1>0, <3>1, <4>1 DEF Settled
    <3>3. CASE d.user # cron[c].user
      <4>1. checked'[d.user] = checked[d.user]
        BY <2>1, <3>1, <3>3 DEF Inv, TypeInv, TypeOK
      <4>2. ~ \E b \in Crons : cron[b].pc = "advance" /\ cron[b].user = d.user
        BY <1>0, <3>3, OthersIdle
      <4>3. d.at <= checked[d.user]
        BY <1>0, <4>2 DEF Once, Settled
      <4>4. QED BY <1>0, <3>1, <4>1, <4>3 DEF Settled
    <3>4. QED BY <3>2, <3>3
  <2>3. Fresh(cron[c])'
    BY <1>0, <2>1 DEF Fresh
  <2>4. QED BY <2>1, <2>2, <2>3
<1>8. CASE Done(c)
  <2>1. /\ cron'[c].pc = "idle" /\ cron'[c].todo = {} /\ cron[c].pc = "next"
        /\ told' = told /\ checked' = checked
    BY <1>8 DEF Done, Walks, IdleRun, Inv, TypeInv, TypeOK
  <2>2. \A d \in told' : d.at <= now' /\ Settled(d)'
    BY <1>0, <2>1, StillSettled
  <2>3. QED BY <2>1, <2>2 DEF Fresh
<1>9. QED BY <1>3, <1>4, <1>5, <1>6, <1>7, <1>8 DEF CronStep

LEMMA NextOnce ==
  ASSUME Inv, Once, [Next]_vars PROVE Once'
<1>1. ASSUME NEW u \in Users, NEW on \in BOOLEAN, SetOptIn(u, on) PROVE Once'
  <2>1. /\ UNCHANGED <<now, cron, told, clean>>
        /\ \A w \in Users : checked'[w] \in {checked[w], now}
    BY <1>1 DEF SetOptIn, Inv, TypeInv, TypeOK
  <2>2. ASSUME NEW d \in told, d.at <= now, Settled(d) PROVE Settled(d)'
    <3>1. d.user \in Users
      BY DEF Inv, TypeInv, TypeOK, Landing
    <3>2. QED BY <2>1, <2>2, <3>1 DEF Settled
  <2>3. QED BY <2>1, <2>2 DEF Once, Apart, Fresh
<1>2. ASSUME NEW u \in Users, NEW v \in Villages, Upload(u, v) PROVE Once'
  BY <1>2 DEF Upload, Once, Apart, Settled, Fresh
<1>3. CASE Tick
  <2>1. UNCHANGED <<checked, cron, told, clean>> /\ now' = now + 1
    BY <1>3 DEF Tick
  <2>2. now \in Nat /\ \A d \in told : d.at \in Nat
    BY DEF Inv, TypeInv, TypeOK, Landing
  <2>3. \A d \in told : d.at <= now => d.at <= now'
    BY <2>1, <2>2
  <2>4. QED BY <2>1, <2>3 DEF Once, Apart, Settled, Fresh
<1>4. ASSUME NEW c \in Crons, CronStep(c) PROVE Once'
  BY <1>4, ListOnce, WalkOnce
<1>5. CASE UNCHANGED vars
  BY <1>5 DEF vars, Once, Apart, Settled, Fresh
<1>6. QED BY <1>1, <1>2, <1>3, <1>4, <1>5 DEF Next, CronStep

\* Runs that do not overlap and that each advance the point never report a
\* landing twice (handleCronDigest, SetDigestCheckedAt).
THEOREM NoneTwice == Spec => NothingTwice
<1> DEFINE Apiece == \A c \in Crons : clean /\ Report(c) => cron[c].landed \cap told = {}
<1>1. Init => Inv /\ Once
  BY InitInv, InitOnce
<1>2. Inv /\ Once /\ [Next]_vars => Inv' /\ Once'
  BY NextInv, NextOnce
<1>3. Inv /\ Once => Apiece
  <2> SUFFICES ASSUME Inv, Once, NEW c \in Crons, clean, Report(c)
               PROVE  cron[c].landed \cap told = {}
    BY DEF Apiece
  <2>1. cron[c].pc = "report" /\ Fresh(cron[c]) /\ cron[c] \in Run
    BY DEF Report, Once, Inv, TypeInv, TypeOK
  <2>2. ASSUME NEW d \in cron[c].landed, d \in told PROVE FALSE
    <3>1. d.at <= cron[c].since /\ cron[c].since < d.at
      BY <2>1, <2>2 DEF Fresh
    <3>2. d.at \in Nat /\ cron[c].since \in Nat
      BY <2>1 DEF Run, Landing
    <3>3. QED BY <3>1, <3>2
  <2>3. QED BY <2>2
<1>4. Inv /\ Once /\ [Next]_vars => [Apiece]_vars
  BY <1>3
<1>5. QED BY <1>1, <1>2, <1>4, PTL DEF Spec, NothingTwice
=============================================================================
