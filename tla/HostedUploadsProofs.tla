------------------------- MODULE HostedUploadsProofs -------------------------
(***************************************************************************)
(* Theorems about HostedUploads for every number of requests, villages and *)
(* every quota.  The argument for a quota: what is stored plus the uploads *)
(* that have passed its count and may still store more never exceeds the   *)
(* limit by more than the uploads in flight less one, because an upload    *)
(* passes the count only while what is stored is below the limit.          *)
(***************************************************************************)
EXTENDS HostedUploads, FiniteSetTheorems, WellFoundedInduction, TLAPS

-----------------------------------------------------------------------------
(* Types.                                                                  *)

Finite == IsFiniteSet(villages) /\ IsFiniteSet(snapshots)
Past   == /\ \A s \in snapshots : s.at <= now /\ s.made <= now
          /\ \A r \in Requests : job[r].at <= now
TypeInv == TypeOK /\ Finite /\ Past

LEMMA IdleJobType == IdleJob \in Job /\ IdleJob.at = 0 /\ IdleJob.pc = "idle"
<1>1. (CHOOSE t \in Tags : TRUE) \in Tags
  BY HostedUploadsAssumption
<1>2. QED BY <1>1 DEF IdleJob, Job, PCs

\* A request that only moves on.
LEMMA Moves ==
  ASSUME TypeOK, NEW r \in Requests, NEW pc \in PCs, GoTo(r, pc)
  PROVE  /\ job' \in [Requests -> Job]
         /\ job'[r].pc = pc
         /\ \A q \in Requests : /\ job'[q].tag = job[q].tag
                                /\ job'[q].at = job[q].at
                                /\ q # r => job'[q] = job[q]
BY DEF TypeOK, GoTo, Job

\* What each step of a request does: where it goes, and what it stores.
LEMMA StepShape ==
  ASSUME TypeOK, NEW r \in Requests, Step(r)
  PROVE  /\ job' \in [Requests -> Job]
         /\ \A q \in Requests : q # r => job'[q] = job[q]
         /\ \/ Respond(r) /\ job'[r] = IdleJob
            \/ /\ ~Respond(r)
               /\ job'[r].tag = job[r].tag /\ job'[r].at = job[r].at
         /\ now' = now
<1>1. CASE Respond(r)
  BY <1>1, IdleJobType DEF Respond, TypeOK
<1>2. CASE ~Respond(r)
  <2>1. PICK pc \in PCs : GoTo(r, pc) /\ now' = now
    BY <1>2 DEF Step, CountSnapshots, CountVillages, CountToday, CountFails,
                UpsertVillage, InsertSnapshot, SaveFails, PCs
  <2>2. QED BY <1>2, <2>1, Moves
<1>3. QED BY <1>1, <1>2

\* Only a count that fails is a count that failed.
LEMMA OnlyMisses ==
  ASSUME TypeOK, [Next]_vars
  PROVE  /\ missed \in Nat /\ missed' \in Nat /\ missed <= missed'
         /\ \A r \in Requests : CountFails(r) => missed' = missed + 1
<1>1. missed' \in {missed, missed + 1}
  BY DEF Next, Upload, Step, CountSnapshots, CountVillages, CountToday, CountFails,
     UpsertVillage, InsertSnapshot, SaveFails, Respond, Prune, Tick, vars
<1>2. QED BY <1>1 DEF TypeOK, CountFails

LEMMA InitTypeInv == Init => TypeInv
BY IdleJobType, FS_EmptySet
   DEF Init, TypeInv, TypeOK, Finite, Past

NewSnapshot(r) == [tag |-> job[r].tag, at |-> job[r].at, made |-> now]

LEMMA InsertAdds ==
  ASSUME TypeOK, NEW r \in Requests, InsertSnapshot(r)
  PROVE  /\ snapshots' \in {snapshots, snapshots \cup {NewSnapshot(r)}}
         /\ NewSnapshot(r) \in Snapshot
BY DEF TypeOK, InsertSnapshot, NewSnapshot, Snapshot, Job

LEMMA StepTypeInv ==
  ASSUME TypeInv, NEW r \in Requests, Step(r) PROVE TypeInv'
<1> USE DEF TypeInv
<1>0. missed' \in Nat
  BY OnlyMisses DEF Next
<1>1. /\ villages' \subseteq Tags
      /\ IsFiniteSet(villages')
  BY FS_AddElement DEF Step, CountSnapshots, CountVillages, CountToday, CountFails,
     UpsertVillage, InsertSnapshot, SaveFails, Respond, TypeOK, Job, Finite
<1>2. CASE InsertSnapshot(r)
  <2>1. /\ snapshots' \subseteq Snapshot
        /\ IsFiniteSet(snapshots')
    BY <1>2, InsertAdds, FS_AddElement DEF TypeOK, Finite
  <2>2. \A s \in snapshots' : s.at <= now' /\ s.made <= now'
    <3>1. NewSnapshot(r).at <= now /\ NewSnapshot(r).made <= now
      BY DEF NewSnapshot, Past, TypeOK
    <3>2. \A s \in snapshots' : s \in snapshots \/ s = NewSnapshot(r)
      BY <1>2, InsertAdds
    <3>3. now' = now
      BY StepShape
    <3>4. QED BY <3>1, <3>2, <3>3 DEF Past
  <2>3. \A q \in Requests : job'[q].at <= now'
    BY StepShape, IdleJobType DEF Past, TypeOK
  <2>4. QED BY <1>1, <1>0, <2>1, <2>2, <2>3, StepShape DEF TypeOK, Finite, Past
<1>3. CASE ~InsertSnapshot(r)
  <2>1. snapshots' = snapshots
    BY <1>3 DEF Step, CountSnapshots, CountVillages, CountToday, CountFails,
       UpsertVillage, SaveFails, Respond
  <2>2. \A q \in Requests : job'[q].at <= now'
    BY StepShape, IdleJobType DEF Past, TypeOK
  <2>3. QED BY <1>1, <1>0, <2>1, <2>2, StepShape DEF TypeOK, Finite, Past
<1>4. QED BY <1>2, <1>3

LEMMA NextTypeInv ==
  ASSUME TypeInv, [Next]_vars PROVE TypeInv'
<1> USE DEF TypeInv
<1>1. CASE \E r \in Requests : Upload(r)
  BY <1>1 DEF Upload, TypeOK, Finite, Past, Job, PCs
<1>2. CASE \E r \in Requests : Step(r)
  BY <1>2, StepTypeInv
<1>3. CASE Prune
  BY <1>3, FS_Subset DEF Prune, TypeOK, Finite, Past
<1>4. CASE Tick
  BY <1>4 DEF Tick, TypeOK, Finite, Past, Job, Snapshot
<1>5. CASE UNCHANGED vars
  BY <1>5 DEF vars, TypeOK, Finite, Past
<1>6. QED BY <1>1, <1>2, <1>3, <1>4, <1>5 DEF Next

\* The statements and the counts keep the rows and the jobs well typed.
THEOREM TypeCorrect == Spec => []TypeOK
<1>1. TypeInv => TypeOK
  BY DEF TypeInv
<1>2. QED BY <1>1, InitTypeInv, NextTypeInv, PTL DEF Spec

-----------------------------------------------------------------------------
(* Quotas.                                                                 *)

\* A set S that uploads add to, the uploads P that may still add to it, its
\* limit, and the counts that failed.
Within(S, P, limit, failed) ==
  Cardinality(S) + Cardinality(P) <= limit + Cardinality(Requests) - 1 + failed

LEMMA RequestsFinite ==
  /\ Cardinality(Requests) \in Nat
  /\ \A P : P \subseteq Requests =>
       /\ IsFiniteSet(P) /\ Cardinality(P) \in Nat
       /\ Cardinality(P) <= Cardinality(Requests)
<1>1. IsFiniteSet(Requests)
  BY HostedUploadsAssumption
<1>2. QED BY <1>1, FS_CardinalityType, FS_Subset

\* Neither grows.
LEMMA Shrinks ==
  ASSUME NEW S, NEW T, NEW P, NEW Q, NEW limit \in Nat \ {0}, NEW failed \in Nat,
         NEW more \in Nat, failed <= more, Within(S, P, limit, failed),
         IsFiniteSet(S), T \subseteq S, P \subseteq Requests, Q \subseteq P
  PROVE  Within(T, Q, limit, more)
<1>1. Cardinality(T) <= Cardinality(S) /\ Cardinality(T) \in Nat
  BY FS_Subset, FS_CardinalityType
<1>2. Cardinality(S) \in Nat
  BY FS_CardinalityType
<1>3. IsFiniteSet(P) /\ Cardinality(P) \in Nat
  BY RequestsFinite
<1>4. Cardinality(Q) <= Cardinality(P) /\ Cardinality(Q) \in Nat
  BY <1>3, FS_Subset, FS_CardinalityType
<1>5. QED BY <1>1, <1>2, <1>3, <1>4, RequestsFinite DEF Within

\* One of those that may add something adds it.
LEMMA Spends ==
  ASSUME NEW S, NEW x, NEW P, NEW r \in P, NEW Q, NEW limit \in Nat \ {0},
         NEW failed \in Nat, NEW more \in Nat, failed <= more,
         Within(S, P, limit, failed), IsFiniteSet(S),
         P \subseteq Requests, Q \subseteq P \ {r}
  PROVE  Within(S \cup {x}, Q, limit, more)
<1>1. /\ Cardinality(S) \in Nat /\ Cardinality(S \cup {x}) \in Nat
      /\ Cardinality(S \cup {x}) <= Cardinality(S) + 1
  <2>1. Cardinality(S) \in Nat
    BY FS_CardinalityType
  <2>2. Cardinality(S \cup {x}) =
          IF x \in S THEN Cardinality(S) ELSE Cardinality(S) + 1
    BY FS_AddElement
  <2>3. QED BY <2>1, <2>2
<1>2. IsFiniteSet(P) /\ Cardinality(P) \in Nat
  BY RequestsFinite
<1>3. Cardinality(P \ {r}) = Cardinality(P) - 1 /\ IsFiniteSet(P \ {r})
  BY <1>2, FS_RemoveElement
<1>4. Cardinality(Q) <= Cardinality(P) - 1 /\ Cardinality(Q) \in Nat
  BY <1>3, FS_Subset, FS_CardinalityType
<1>5. QED BY <1>1, <1>2, <1>4, RequestsFinite DEF Within

\* Another one is let through while S is below its limit.
LEMMA Admits ==
  ASSUME NEW S, NEW Q, NEW limit \in Nat \ {0}, NEW failed \in Nat,
         IsFiniteSet(S), ~(Cardinality(S) >= limit), Q \subseteq Requests
  PROVE  Within(S, Q, limit, failed)
<1>1. Cardinality(S) \in Nat /\ Cardinality(S) <= limit - 1
  BY FS_CardinalityType
<1>2. Cardinality(Q) \in Nat /\ Cardinality(Q) <= Cardinality(Requests)
  BY RequestsFinite
<1>3. QED BY <1>1, <1>2, RequestsFinite DEF Within

\* Another one is let through because a count failed.
LEMMA Excused ==
  ASSUME NEW S, NEW P, NEW r \in Requests, NEW Q, NEW limit \in Nat \ {0},
         NEW failed \in Nat, Within(S, P, limit, failed), IsFiniteSet(S),
         P \subseteq Requests, Q \subseteq P \cup {r}
  PROVE  Within(S, Q, limit, failed + 1)
<1>1. IsFiniteSet(P) /\ Cardinality(P) \in Nat
  BY RequestsFinite
<1>2. /\ IsFiniteSet(P \cup {r}) /\ Cardinality(P \cup {r}) \in Nat
      /\ Cardinality(P \cup {r}) <= Cardinality(P) + 1
  <2>1. IsFiniteSet(P \cup {r}) /\ Cardinality(P \cup {r}) \in Nat
    BY <1>1, FS_AddElement, FS_CardinalityType
  <2>2. Cardinality(P \cup {r}) =
          IF r \in P THEN Cardinality(P) ELSE Cardinality(P) + 1
    BY <1>1, FS_AddElement
  <2>3. QED BY <1>1, <2>1, <2>2
<1>3. Cardinality(Q) <= Cardinality(P) + 1 /\ Cardinality(Q) \in Nat
  <2>1. Cardinality(Q) <= Cardinality(P \cup {r}) /\ Cardinality(Q) \in Nat
    BY <1>2, FS_Subset, FS_CardinalityType
  <2>2. QED BY <1>1, <1>2, <2>1
<1>4. Cardinality(S) \in Nat
  BY FS_CardinalityType
<1>5. QED BY <1>1, <1>3, <1>4, RequestsFinite DEF Within

LEMMA Bounded ==
  ASSUME NEW S, NEW P, NEW limit \in Nat \ {0}, IsFiniteSet(S),
         TypeOK, P \subseteq Requests, Within(S, P, limit, missed)
  PROVE  Cardinality(S) <= limit + Overrun
<1>1. Cardinality(S) \in Nat /\ Cardinality(P) \in Nat /\ missed \in Nat
  BY FS_CardinalityType, RequestsFinite DEF TypeOK
<1>2. QED BY <1>1, RequestsFinite DEF Within, Overrun

\* The uploads for t past the count of its snapshots.
PastCount(t) == {r \in Requests :
                   /\ job[r].tag = t
                   /\ job[r].pc \in {"countVillages", "countToday", "village", "snapshot"}}

SnapshotsWithin ==
  \A t \in Tags : Within(Of(t), PastCount(t), MaxSnapshots, missed)

LEMMA InitWithin ==
  ASSUME NEW P, P = {}, NEW limit \in Nat \ {0} PROVE Within({}, P, limit, 0)
<1>1. Cardinality({}) = 0
  BY FS_EmptySet
<1>2. QED BY <1>1, RequestsFinite DEF Within

LEMMA InitSnapshotsWithin == Init => SnapshotsWithin
<1> SUFFICES ASSUME Init, NEW t \in Tags
             PROVE  Within(Of(t), PastCount(t), MaxSnapshots, missed)
  BY DEF SnapshotsWithin
<1>1. Of(t) = {} /\ PastCount(t) = {} /\ missed = 0
  BY IdleJobType DEF Init, Of, PastCount
<1>2. QED BY <1>1, InitWithin, HostedUploadsAssumption

LEMMA NextSnapshotsWithin ==
  ASSUME TypeInv, SnapshotsWithin, [Next]_vars
  PROVE  SnapshotsWithin'
<1> SUFFICES ASSUME NEW t \in Tags
             PROVE  Within(Of(t)', PastCount(t)', MaxSnapshots, missed')
  BY DEF SnapshotsWithin
<1> USE DEF TypeInv
<1>1. /\ IsFiniteSet(Of(t)) /\ PastCount(t) \subseteq Requests
      /\ PastCount(t)' \subseteq Requests
      /\ Within(Of(t), PastCount(t), MaxSnapshots, missed)
  BY FS_Subset DEF Of, PastCount, SnapshotsWithin, Finite
<1>2. /\ MaxSnapshots \in Nat \ {0}
      /\ missed \in Nat /\ missed' \in Nat /\ missed <= missed'
  BY HostedUploadsAssumption, OnlyMisses
<1>3. ASSUME Of(t)' \subseteq Of(t), PastCount(t)' \subseteq PastCount(t)
      PROVE  Within(Of(t)', PastCount(t)', MaxSnapshots, missed')
  BY <1>1, <1>2, <1>3, Shrinks
<1>4. CASE \E r \in Requests : Upload(r)
  BY <1>3, <1>4 DEF Upload, Of, PastCount, TypeOK
<1>5. ASSUME NEW r \in Requests, Step(r)
      PROVE  Within(Of(t)', PastCount(t)', MaxSnapshots, missed')
  <2>1. CASE CountSnapshots(r)
    <3>1. PICK pc \in PCs : GoTo(r, pc)
      BY <2>1 DEF CountSnapshots, PCs
    <3>2. Of(t)' = Of(t)
      BY <2>1 DEF CountSnapshots, Of
    <3>3. CASE job[r].tag = t /\ ~(Cardinality(Of(t)) >= MaxSnapshots)
      BY <1>1, <1>2, <3>2, <3>3, Admits
    <3>4. CASE job[r].tag # t
      BY <1>3, <3>1, <3>2, <3>4, Moves DEF PastCount
    <3>5. CASE job[r].tag = t /\ Cardinality(Of(t)) >= MaxSnapshots
      <4>1. GoTo(r, "fullVillage")
        BY <2>1, <3>5 DEF CountSnapshots
      <4>2. PastCount(t)' \subseteq PastCount(t)
        BY <4>1, Moves DEF PastCount, PCs
      <4>3. QED BY <1>3, <3>2, <4>2
    <3>6. QED BY <3>3, <3>4, <3>5
  <2>2. CASE InsertSnapshot(r)
    <3>1. GoTo(r, "ok") /\ job[r].pc = "snapshot"
      BY <2>2 DEF InsertSnapshot
    <3>2. PastCount(t)' \subseteq PastCount(t) \ {r}
      BY <3>1, Moves DEF PastCount, PCs
    <3>3. CASE Of(t)' \subseteq Of(t)
      BY <1>3, <3>2, <3>3
    <3>4. CASE ~(Of(t)' \subseteq Of(t))
      <4>1. Of(t)' = Of(t) \cup {NewSnapshot(r)} /\ job[r].tag = t
        <5>1. snapshots' = snapshots \cup {NewSnapshot(r)}
          BY <2>2, <3>4, InsertAdds DEF Of
        <5>2. NewSnapshot(r).tag = job[r].tag
          BY DEF NewSnapshot
        <5>3. QED BY <3>4, <5>1, <5>2 DEF Of
      <4>2. r \in PastCount(t)
        BY <3>1, <4>1 DEF PastCount
      <4>3. Within(Of(t) \cup {NewSnapshot(r)}, PastCount(t)', MaxSnapshots, missed')
        BY <1>1, <1>2, <3>2, <4>2, Spends
      <4>4. QED BY <4>1, <4>3
    <3>5. QED BY <3>3, <3>4
  <2>3. CASE CountVillages(r) \/ CountToday(r) \/ UpsertVillage(r) \/ SaveFails(r)
    <3>1. PICK pc \in PCs : GoTo(r, pc)
      BY <2>3 DEF CountVillages, CountToday, UpsertVillage, SaveFails, PCs
    <3>2. job[r].pc \in {"countVillages", "countToday", "village", "snapshot"}
      BY <2>3 DEF CountVillages, CountToday, UpsertVillage, SaveFails
    <3>3. PastCount(t)' \subseteq PastCount(t)
      BY <3>1, <3>2, Moves DEF PastCount
    <3>4. Of(t)' = Of(t)
      BY <2>3 DEF CountVillages, CountToday, UpsertVillage, SaveFails, Of
    <3>5. QED BY <1>3, <3>3, <3>4
  <2>4. CASE Respond(r)
    <3>1. PastCount(t)' \subseteq PastCount(t)
      BY <2>4, IdleJobType DEF Respond, PastCount, TypeOK
    <3>2. Of(t)' = Of(t)
      BY <2>4 DEF Respond, Of
    <3>3. QED BY <1>3, <3>1, <3>2
  <2>5. CASE CountFails(r)
    <3>1. PICK pc \in PCs : GoTo(r, pc)
      BY <2>5 DEF CountFails, PCs
    <3>2. PastCount(t)' \subseteq PastCount(t) \cup {r} /\ Of(t)' = Of(t)
      BY <2>5, <3>1, Moves DEF CountFails, PastCount, Of
    <3>3. missed' = missed + 1
      BY <2>5 DEF CountFails
    <3>4. QED BY <1>1, <1>2, <3>2, <3>3, Excused
  <2>6. QED BY <1>5, <2>1, <2>2, <2>3, <2>4, <2>5 DEF Step
<1>6. CASE Prune
  BY <1>3, <1>6 DEF Prune, Of, PastCount
<1>7. CASE Tick
  BY <1>3, <1>7 DEF Tick, Of, PastCount
<1>8. CASE UNCHANGED vars
  BY <1>3, <1>8 DEF vars, Of, PastCount
<1>9. QED BY <1>4, <1>5, <1>6, <1>7, <1>8 DEF Next

\* A village never holds more snapshots than its limit and one for each other
\* upload in flight and one for each count that failed (checkQuota).
THEOREM SnapshotQuota == Spec => []SnapshotsBounded
<1>1. TypeInv /\ SnapshotsWithin => SnapshotsBounded
  <2> SUFFICES ASSUME TypeInv, SnapshotsWithin, NEW t \in Tags
               PROVE  Cardinality(Of(t)) <= MaxSnapshots + Overrun
    BY DEF SnapshotsBounded
  <2>1. /\ IsFiniteSet(Of(t)) /\ PastCount(t) \subseteq Requests
        /\ Within(Of(t), PastCount(t), MaxSnapshots, missed)
    BY FS_Subset DEF Of, PastCount, SnapshotsWithin, Finite, TypeInv
  <2>2. QED BY <2>1, Bounded, HostedUploadsAssumption DEF TypeInv
<1>2. QED BY <1>1, InitTypeInv, NextTypeInv, InitSnapshotsWithin,
             NextSnapshotsWithin, PTL DEF Spec

\* The uploads let through for a village that has no row yet.
Newcomers == {r \in Requests : /\ job[r].pc \in {"countToday", "village"}
                               /\ job[r].tag \notin villages}
HasRow == /\ \A s \in snapshots : s.tag \in villages
          /\ \A r \in Requests : job[r].pc = "snapshot" => job[r].tag \in villages
VillagesWithin ==
  /\ HasRow
  /\ Within(villages, Newcomers, MaxVillages, missed)

LEMMA InitVillagesWithin == Init => VillagesWithin
<1> SUFFICES ASSUME Init PROVE VillagesWithin
  OBVIOUS
<1>1. HasRow
  BY IdleJobType DEF Init, HasRow
<1>2. villages = {} /\ Newcomers = {} /\ missed = 0
  BY IdleJobType DEF Init, Newcomers
<1>3. QED BY <1>1, <1>2, InitWithin, HostedUploadsAssumption DEF VillagesWithin

LEMMA NextHasRow ==
  ASSUME TypeInv, HasRow, [Next]_vars PROVE HasRow'
<1> USE DEF TypeInv
<1>1. CASE \E r \in Requests : Upload(r)
  BY <1>1 DEF Upload, HasRow, TypeOK
<1>2. ASSUME NEW r \in Requests, Step(r) PROVE HasRow'
  <2>1. villages \subseteq villages'
    BY <1>2 DEF Step, CountSnapshots, CountVillages, CountToday, CountFails,
       UpsertVillage, InsertSnapshot, SaveFails, Respond
  <2>2. \A s \in snapshots' : s.tag \in villages'
    <3>1. CASE InsertSnapshot(r)
      <4>1. \A s \in snapshots' : s \in snapshots \/ s = NewSnapshot(r)
        BY <3>1, InsertAdds
      <4>2. NewSnapshot(r).tag \in villages
        BY <3>1 DEF NewSnapshot, InsertSnapshot, HasRow
      <4>3. QED BY <2>1, <4>1, <4>2 DEF HasRow
    <3>2. CASE ~InsertSnapshot(r)
      <4>1. snapshots' = snapshots
        BY <1>2, <3>2 DEF Step, CountSnapshots, CountVillages, CountToday,
           CountFails, UpsertVillage, SaveFails, Respond
      <4>2. QED BY <2>1, <4>1 DEF HasRow
    <3>3. QED BY <3>1, <3>2
  <2>3. job'[r].pc = "snapshot" => job'[r].tag \in villages'
    <3>1. CASE UpsertVillage(r)
      BY <3>1, Moves DEF UpsertVillage, PCs, TypeOK
    <3>2. CASE ~UpsertVillage(r)
      BY <1>2, <3>2, IdleJobType DEF Step, CountSnapshots, CountVillages,
         CountToday, CountFails, InsertSnapshot, SaveFails, Respond, GoTo, TypeOK, Job
    <3>3. QED BY <3>1, <3>2
  <2>4. \A q \in Requests : job'[q].pc = "snapshot" => job'[q].tag \in villages'
    BY <1>2, <2>1, <2>3, StepShape DEF HasRow
  <2>5. QED BY <2>2, <2>4 DEF HasRow
<1>3. CASE Prune
  BY <1>3 DEF Prune, HasRow
<1>4. CASE Tick
  BY <1>4 DEF Tick, HasRow
<1>5. CASE UNCHANGED vars
  BY <1>5 DEF vars, HasRow
<1>6. QED BY <1>1, <1>2, <1>3, <1>4, <1>5 DEF Next

LEMMA NextVillagesWithin ==
  ASSUME TypeInv, VillagesWithin, [Next]_vars PROVE VillagesWithin'
<1> SUFFICES Within(villages', Newcomers', MaxVillages, missed')
  BY NextHasRow DEF VillagesWithin
<1> USE DEF TypeInv
<1>1. /\ IsFiniteSet(villages) /\ Newcomers \subseteq Requests
      /\ Newcomers' \subseteq Requests
      /\ Within(villages, Newcomers, MaxVillages, missed)
  BY DEF Newcomers, VillagesWithin, Finite
<1>2. /\ MaxVillages \in Nat \ {0}
      /\ missed \in Nat /\ missed' \in Nat /\ missed <= missed'
  BY HostedUploadsAssumption, OnlyMisses
<1>3. ASSUME villages' = villages, Newcomers' \subseteq Newcomers
      PROVE  Within(villages', Newcomers', MaxVillages, missed')
  BY <1>1, <1>2, <1>3, Shrinks
<1>4. CASE \E r \in Requests : Upload(r)
  BY <1>3, <1>4 DEF Upload, Newcomers, TypeOK
<1>5. ASSUME NEW r \in Requests, Step(r)
      PROVE  Within(villages', Newcomers', MaxVillages, missed')
  <2>1. CASE CountSnapshots(r)
    <3>1. PICK pc \in PCs : GoTo(r, pc)
      BY <2>1 DEF CountSnapshots, PCs
    <3>2. pc = "countToday" => Of(job[r].tag) # {}
      BY <2>1, <3>1, Moves DEF CountSnapshots, GoTo, TypeOK, Job
    <3>3. Of(job[r].tag) # {} => job[r].tag \in villages
      BY DEF Of, VillagesWithin, HasRow
    <3>4. pc # "village"
      BY <2>1, <3>1, Moves DEF CountSnapshots, GoTo, TypeOK, Job
    <3>5. villages' = villages
      BY <2>1 DEF CountSnapshots
    <3>6. Newcomers' \subseteq Newcomers
      BY <3>1, <3>2, <3>3, <3>4, <3>5, Moves DEF Newcomers
    <3>7. QED BY <1>3, <3>5, <3>6
  <2>2. CASE CountVillages(r)
    <3>1. villages' = villages
      BY <2>2 DEF CountVillages
    <3>2. CASE ~(Cardinality(villages) >= MaxVillages)
      BY <1>1, <1>2, <3>1, <3>2, Admits
    <3>3. CASE Cardinality(villages) >= MaxVillages
      <4>1. GoTo(r, "fullVillages")
        BY <2>2, <3>3 DEF CountVillages
      <4>2. Newcomers' \subseteq Newcomers
        BY <3>1, <4>1, Moves DEF Newcomers, PCs
      <4>3. QED BY <1>3, <3>1, <4>2
    <3>4. QED BY <3>2, <3>3
  <2>3. CASE UpsertVillage(r)
    <3>1. /\ GoTo(r, "snapshot") /\ job[r].pc = "village"
          /\ villages' = villages \cup {job[r].tag}
      BY <2>3 DEF UpsertVillage
    <3>2. Newcomers' \subseteq Newcomers \ {r}
      BY <3>1, Moves DEF Newcomers, PCs
    <3>3. CASE job[r].tag \in villages
      BY <1>3, <3>1, <3>2, <3>3
    <3>4. CASE job[r].tag \notin villages
      <4>1. r \in Newcomers
        BY <3>1, <3>4 DEF Newcomers
      <4>2. Within(villages \cup {job[r].tag}, Newcomers', MaxVillages, missed')
        BY <1>1, <1>2, <3>2, <4>1, Spends
      <4>3. QED BY <3>1, <4>2
    <3>5. QED BY <3>3, <3>4
  <2>4. CASE CountToday(r) \/ InsertSnapshot(r) \/ SaveFails(r)
    <3>1. PICK pc \in PCs : GoTo(r, pc)
      BY <2>4 DEF CountToday, InsertSnapshot, SaveFails, PCs
    <3>2. pc \in {"countToday", "village"} => job[r].pc \in {"countToday", "village"}
      BY <2>4, <3>1, Moves DEF CountToday, InsertSnapshot, SaveFails, GoTo,
         TypeOK, Job
    <3>3. villages' = villages
      BY <2>4 DEF CountToday, InsertSnapshot, SaveFails
    <3>4. Newcomers' \subseteq Newcomers
      BY <3>1, <3>2, <3>3, Moves DEF Newcomers
    <3>5. QED BY <1>3, <3>3, <3>4
  <2>5. CASE Respond(r)
    BY <1>3, <2>5, IdleJobType DEF Respond, Newcomers, TypeOK
  <2>6. CASE CountFails(r)
    <3>1. PICK pc \in PCs : GoTo(r, pc)
      BY <2>6 DEF CountFails, PCs
    <3>2. Newcomers' \subseteq Newcomers \cup {r} /\ villages' = villages
      BY <2>6, <3>1, Moves DEF CountFails, Newcomers
    <3>3. missed' = missed + 1
      BY <2>6 DEF CountFails
    <3>4. QED BY <1>1, <1>2, <3>2, <3>3, Excused
  <2>7. QED BY <1>5, <2>1, <2>2, <2>3, <2>4, <2>5, <2>6 DEF Step
<1>6. CASE Prune \/ Tick
  BY <1>3, <1>6 DEF Prune, Tick, Newcomers
<1>7. CASE UNCHANGED vars
  BY <1>3, <1>7 DEF vars, Newcomers
<1>8. QED BY <1>4, <1>5, <1>6, <1>7 DEF Next

\* A user never has more villages than the limit and one for each other upload
\* in flight and for each count that failed: an upload that skips the count of
\* villages because it found snapshots adds no row (checkQuota).
THEOREM VillageQuota == Spec => []VillagesBounded
<1>1. TypeInv /\ VillagesWithin => VillagesBounded
  <2> SUFFICES ASSUME TypeInv, VillagesWithin
               PROVE  Cardinality(villages) <= MaxVillages + Overrun
    BY DEF VillagesBounded
  <2>1. /\ IsFiniteSet(villages) /\ Newcomers \subseteq Requests
        /\ Within(villages, Newcomers, MaxVillages, missed)
    BY DEF Newcomers, VillagesWithin, Finite, TypeInv
  <2>2. QED BY <2>1, Bounded, HostedUploadsAssumption DEF TypeInv
<1>2. QED BY <1>1, InitTypeInv, NextTypeInv, InitVillagesWithin,
             NextVillagesWithin, PTL DEF Spec

\* The uploads past the count of the day's snapshots.
PastToday == {r \in Requests : job[r].pc \in {"village", "snapshot"}}
UploadsWithin == Within(MadeToday, PastToday, MaxUploads, missed)

LEMMA InitUploadsWithin == Init => UploadsWithin
<1> SUFFICES ASSUME Init PROVE Within(MadeToday, PastToday, MaxUploads, missed)
  BY DEF UploadsWithin
<1>1. MadeToday = {} /\ PastToday = {} /\ missed = 0
  BY IdleJobType DEF Init, MadeToday, PastToday
<1>2. QED BY <1>1, InitWithin, HostedUploadsAssumption

\* Days do not come back.
LEMMA DaysPass ==
  ASSUME NEW m \in Nat, NEW n \in Nat, m <= n,
         m \div DayTicks = (n + 1) \div DayTicks
  PROVE  m \div DayTicks = n \div DayTicks
<1> DEFINE d == DayTicks
           q == m \div d
<1>1. d \in Nat \ {0}
  BY HostedUploadsAssumption
<1>2. q \in Int /\ d * q <= m /\ n + 1 < d * q + d
  BY <1>1
<1>3. QED BY <1>1, <1>2

LEMMA NextUploadsWithin ==
  ASSUME TypeInv, UploadsWithin, [Next]_vars PROVE UploadsWithin'
<1> SUFFICES Within(MadeToday', PastToday', MaxUploads, missed')
  BY DEF UploadsWithin
<1> USE DEF TypeInv
<1>1. /\ IsFiniteSet(MadeToday) /\ PastToday \subseteq Requests
      /\ PastToday' \subseteq Requests
      /\ Within(MadeToday, PastToday, MaxUploads, missed)
  BY FS_Subset DEF MadeToday, PastToday, UploadsWithin, Finite
<1>2. /\ MaxUploads \in Nat \ {0}
      /\ missed \in Nat /\ missed' \in Nat /\ missed <= missed'
  BY HostedUploadsAssumption, OnlyMisses
<1>3. ASSUME MadeToday' \subseteq MadeToday, PastToday' \subseteq PastToday
      PROVE  Within(MadeToday', PastToday', MaxUploads, missed')
  BY <1>1, <1>2, <1>3, Shrinks
<1>4. CASE \E r \in Requests : Upload(r)
  BY <1>3, <1>4 DEF Upload, MadeToday, PastToday, TypeOK
<1>5. ASSUME NEW r \in Requests, Step(r)
      PROVE  Within(MadeToday', PastToday', MaxUploads, missed')
  <2>1. CASE CountToday(r)
    <3>1. MadeToday' = MadeToday
      BY <2>1 DEF CountToday, MadeToday
    <3>2. CASE ~(Cardinality(MadeToday) >= MaxUploads)
      BY <1>1, <1>2, <3>1, <3>2, Admits
    <3>3. CASE Cardinality(MadeToday) >= MaxUploads
      <4>1. GoTo(r, "fullDay")
        BY <2>1, <3>3 DEF CountToday
      <4>2. PastToday' \subseteq PastToday
        BY <4>1, Moves DEF PastToday, PCs
      <4>3. QED BY <1>3, <3>1, <4>2
    <3>4. QED BY <3>2, <3>3
  <2>2. CASE InsertSnapshot(r)
    <3>1. GoTo(r, "ok") /\ job[r].pc = "snapshot" /\ now' = now
      BY <2>2 DEF InsertSnapshot
    <3>2. PastToday' \subseteq PastToday \ {r}
      BY <3>1, Moves DEF PastToday, PCs
    <3>3. CASE snapshots' = snapshots
      BY <1>3, <3>1, <3>2, <3>3 DEF MadeToday
    <3>4. CASE snapshots' = snapshots \cup {NewSnapshot(r)}
      <4>1. MadeToday' = MadeToday \cup {NewSnapshot(r)}
        BY <3>1, <3>4 DEF MadeToday, NewSnapshot
      <4>2. r \in PastToday
        BY <3>1 DEF PastToday
      <4>3. Within(MadeToday \cup {NewSnapshot(r)}, PastToday', MaxUploads, missed')
        BY <1>1, <1>2, <3>2, <4>2, Spends
      <4>4. QED BY <4>1, <4>3
    <3>5. QED BY <2>2, <3>3, <3>4, InsertAdds
  <2>3. CASE CountSnapshots(r) \/ CountVillages(r) \/ UpsertVillage(r) \/ SaveFails(r)
    <3>1. PICK pc \in PCs : GoTo(r, pc)
      BY <2>3 DEF CountSnapshots, CountVillages, UpsertVillage, SaveFails, PCs
    <3>2. pc \in {"village", "snapshot"} => job[r].pc \in {"village", "snapshot"}
      BY <2>3, <3>1, Moves DEF CountSnapshots, CountVillages, UpsertVillage,
         SaveFails, GoTo, TypeOK, Job
    <3>3. PastToday' \subseteq PastToday
      BY <3>1, <3>2, Moves DEF PastToday
    <3>4. MadeToday' = MadeToday
      BY <2>3 DEF CountSnapshots, CountVillages, UpsertVillage, SaveFails, MadeToday
    <3>5. QED BY <1>3, <3>3, <3>4
  <2>4. CASE Respond(r)
    BY <1>3, <2>4, IdleJobType DEF Respond, PastToday, MadeToday, TypeOK
  <2>5. CASE CountFails(r)
    <3>1. PICK pc \in PCs : GoTo(r, pc)
      BY <2>5 DEF CountFails, PCs
    <3>2. PastToday' \subseteq PastToday \cup {r} /\ MadeToday' = MadeToday
      BY <2>5, <3>1, Moves DEF CountFails, PastToday, MadeToday
    <3>3. missed' = missed + 1
      BY <2>5 DEF CountFails
    <3>4. QED BY <1>1, <1>2, <3>2, <3>3, Excused
  <2>6. QED BY <1>5, <2>1, <2>2, <2>3, <2>4, <2>5 DEF Step
<1>6. CASE Prune
  BY <1>3, <1>6 DEF Prune, MadeToday, PastToday
<1>7. CASE Tick
  <2>1. PastToday' = PastToday /\ snapshots' = snapshots /\ now' = now + 1
    BY <1>7 DEF Tick, PastToday
  <2>2. \A s \in snapshots : s.made \in Nat /\ s.made <= now
    BY DEF TypeOK, Snapshot, Past
  <2>3. MadeToday' \subseteq MadeToday
    BY <2>1, <2>2, DaysPass DEF MadeToday, TypeOK
  <2>4. QED BY <1>3, <2>1, <2>3
<1>8. CASE UNCHANGED vars
  BY <1>3, <1>8 DEF vars, MadeToday, PastToday
<1>9. QED BY <1>4, <1>5, <1>6, <1>7, <1>8 DEF Next

\* No day sees more uploads than the limit and one for each other upload in
\* flight and for each count that failed (checkQuota).
THEOREM DayQuota == Spec => []UploadsBounded
<1>1. TypeInv /\ UploadsWithin => UploadsBounded
  <2> SUFFICES ASSUME TypeInv, UploadsWithin
               PROVE  Cardinality(MadeToday) <= MaxUploads + Overrun
    BY DEF UploadsBounded
  <2>1. /\ IsFiniteSet(MadeToday) /\ PastToday \subseteq Requests
        /\ Within(MadeToday, PastToday, MaxUploads, missed)
    BY FS_Subset DEF MadeToday, PastToday, UploadsWithin, Finite, TypeInv
  <2>2. QED BY <2>1, Bounded, HostedUploadsAssumption DEF TypeInv
<1>2. QED BY <1>1, InitTypeInv, NextTypeInv, InitUploadsWithin,
             NextUploadsWithin, PTL DEF Spec

\* No limit is overrun by more than the other uploads in flight and one for
\* each count that failed (checkQuota).
THEOREM LimitsKept == Spec => []LimitsHold
BY SnapshotQuota, VillageQuota, DayQuota, PTL DEF LimitsHold

-----------------------------------------------------------------------------
(* The prune against uploads.                                              *)

\* Of those of S at least as new as s, the one with the fewest above it.
LEMMA HasNewestOf ==
  ASSUME NEW S, IsFiniteSet(S), \A o \in S : o.at \in Nat, NEW s \in S
  PROVE  \E m \in S : m.at >= s.at /\ \A o \in S : o.at <= m.at
<1> DEFINE Above(m) == {o \in S : o.at > m.at}
           Aboves == {Above(m) : m \in {o \in S : o.at >= s.at}}
<1>1. Aboves \subseteq FiniteSubsetsOf(S) /\ Above(s) \in Aboves
  <2>1. FiniteSubsetsOf(S) = SUBSET S
    BY FS_FiniteSubsetsOfFinite
  <2>2. Aboves \subseteq SUBSET S
    OBVIOUS
  <2>3. QED BY <2>1, <2>2
<1>2. PICK U \in Aboves : \A V \in Aboves : ~(<<V, U>> \in StrictSubsetOrdering(S))
  BY <1>1, WFMin, FS_StrictSubsetOrderingWellFounded
<1>3. PICK m \in S : m.at >= s.at /\ U = Above(m)
  BY <1>2
<1>4. ASSUME NEW o \in S, ~(o.at <= m.at) PROVE FALSE
  <2>1. o.at \in Nat /\ m.at \in Nat /\ s.at \in Nat /\ o.at > m.at /\ m.at >= s.at
    BY <1>3, <1>4
  <2>2. o.at >= s.at /\ o \in Above(m) /\ o \notin Above(o)
    BY <2>1
  <2>3. ASSUME NEW x \in S, x.at > o.at PROVE x.at > m.at
    BY <2>1, <2>3
  <2>4. <<Above(o), U>> \in StrictSubsetOrdering(S)
    BY <1>3, <2>2, <2>3 DEF StrictSubsetOrdering
  <2>5. Above(o) \in Aboves
    BY <2>2
  <2>6. QED BY <1>2, <2>4, <2>5
<1>5. QED BY <1>3, <1>4

\* Every snapshot is at most as new as some newest one of its village.
LEMMA HasNewest ==
  ASSUME TypeInv, NEW s \in snapshots
  PROVE  \E n \in snapshots : n.tag = s.tag /\ n.at >= s.at /\ IsNewest(n)
<1>1. IsFiniteSet(Of(s.tag)) /\ s \in Of(s.tag) /\ \A o \in Of(s.tag) : o.at \in Nat
  BY FS_Subset DEF Of, TypeInv, TypeOK, Snapshot, Finite
<1>2. PICK n \in Of(s.tag) : n.at >= s.at /\ \A o \in Of(s.tag) : o.at <= n.at
  BY <1>1, HasNewestOf
<1>3. n \in snapshots /\ n.tag = s.tag
  BY DEF Of
<1>4. QED BY <1>2, <1>3 DEF IsNewest

\* No step leaves a village without a snapshot at least as new as each it had.
LEMMA NoRegress ==
  ASSUME TypeInv, [Next]_vars, NEW s \in snapshots
  PROVE  \E newer \in snapshots' : newer.tag = s.tag /\ newer.at >= s.at
<1>0. s.at \in Nat
  BY DEF TypeInv, TypeOK, Snapshot
<1>1. CASE Prune
  <2>1. PICK n \in snapshots : n.tag = s.tag /\ n.at >= s.at /\ IsNewest(n)
    BY HasNewest
  <2>2. n \in snapshots'
    BY <1>1, <2>1 DEF Prune
  <2>3. QED BY <2>1, <2>2
<1>2. CASE ~Prune
  <2>1. snapshots \subseteq snapshots'
    <3>1. CASE \E r \in Requests : InsertSnapshot(r)
      BY <3>1, InsertAdds DEF TypeInv
    <3>2. CASE ~\E r \in Requests : InsertSnapshot(r)
      BY <1>2, <3>2 DEF Next, Upload, Step, CountSnapshots, CountVillages,
         CountToday, CountFails, UpsertVillage, SaveFails, Respond, Tick, vars
    <3>3. QED BY <3>1, <3>2
  <2>2. QED BY <1>0, <2>1
<1>3. QED BY <1>1, <1>2

Times(t) == {s.at : s \in Of(t)}

\* What changes the rows is one insertion or one prune.
LEMMA RowsChange ==
  ASSUME TypeInv, [Next]_vars
  PROVE  \/ \E r \in Requests : InsertSnapshot(r)
         \/ Prune
         \/ snapshots' = snapshots
BY DEF Next, Upload, Step, CountSnapshots, CountVillages, CountToday, CountFails,
   UpsertVillage, SaveFails, Respond, Tick, vars

LEMMA TimesSpared ==
  ASSUME TypeInv, [Next]_vars, NEW t \in Tags
  PROVE  Store!Spares(Times(t), Times(t)')
<1> SUFFICES ASSUME NEW at \in Times(t)
             PROVE  \E newer \in Times(t)' : newer >= at
  BY DEF Store!Spares
<1>1. PICK s \in Of(t) : s.at = at
  BY DEF Times
<1>2. PICK newer \in snapshots' : newer.tag = s.tag /\ newer.at >= s.at
  BY <1>1, NoRegress DEF Of
<1>3. newer.at \in Times(t)'
  BY <1>1, <1>2 DEF Times, Of
<1>4. QED BY <1>1, <1>2, <1>3

LEMMA InsertIsSave ==
  ASSUME TypeInv, [Next]_vars, NEW r \in Requests, InsertSnapshot(r)
  PROVE  Store!Save
<1>1. PICK tag \in Tags : tag = job[r].tag
  BY DEF TypeInv, TypeOK, Job
<1>2. snapshots \subseteq snapshots' /\
      \A s \in snapshots' \ snapshots : s = NewSnapshot(r)
  BY InsertAdds DEF TypeInv
<1>3. \A t \in Tags : Times(t)' \subseteq Nat /\ Times(t) \subseteq Times(t)'
  BY <1>2, NextTypeInv DEF TypeInv, TypeOK, Snapshot, Times, Of
<1>4. \A t \in Tags : \A at \in Times(t)' \ Times(t) : t = tag /\ at = job[r].at
  <2> SUFFICES ASSUME NEW t \in Tags, NEW s \in snapshots', s.tag = t,
                      s.at \notin Times(t)
               PROVE  t = tag /\ s.at = job[r].at
    BY DEF Times, Of
  <2>1. s \notin snapshots
    BY DEF Times, Of
  <2>2. QED BY <1>1, <1>2, <2>1 DEF NewSnapshot
<1>5. \A t \in Tags \ {tag} : Times(t)' = Times(t)
  BY <1>3, <1>4
<1>6. \A new, other \in Times(tag)' \ Times(tag) : new = other
  BY <1>4
<1>7. Store!Spares(Times(tag), Times(tag)')
  BY TimesSpared
<1>8. QED BY <1>3, <1>5, <1>6, <1>7 DEF Store!Save, Times

\* However many uploads and prunes are under way, the rows are a snapshot store:
\* a save adds one snapshot, and a prune takes from each village only what
\* something newer stands for (Store.Save, Store.Prune).
THEOREM StatementsImplementStore == Spec => ImplementsStore
<1>1. Init => Store!Init
  BY DEF Init, Store!Init, Of
<1>2. TypeInv /\ [Next]_vars => [Store!Next]_(Store!vars)
  <2> SUFFICES ASSUME TypeInv, [Next]_vars PROVE [Store!Next]_(Store!vars)
    OBVIOUS
  <2>1. CASE \E r \in Requests : InsertSnapshot(r)
    BY <2>1, InsertIsSave DEF Store!Next
  <2>2. CASE Prune
    <3>1. \A t \in Tags : Times(t)' \subseteq Times(t)
      BY <2>2 DEF Prune, Times, Of
    <3>2. Store!Prune
      BY <3>1, TimesSpared DEF Store!Prune, Times
    <3>3. QED BY <3>2 DEF Store!Next
  <2>3. CASE snapshots' = snapshots
    BY <2>3 DEF Store!vars, Of
  <2>4. QED BY <2>1, <2>2, <2>3, RowsChange
<1>3. QED BY <1>1, <1>2, InitTypeInv, NextTypeInv, PTL
          DEF Spec, ImplementsStore, Store!Spec

LEMMA InitShows == Init => SavedUploadShows
BY IdleJobType DEF Init, SavedUploadShows

LEMMA NextShows ==
  ASSUME TypeInv, SavedUploadShows, [Next]_vars PROVE SavedUploadShows'
<1> SUFFICES ASSUME NEW q \in Requests, job'[q].pc = "ok"
             PROVE  \E s \in snapshots' : s.tag = job'[q].tag /\ s.at >= job'[q].at
  BY DEF SavedUploadShows, Of
<1> USE DEF TypeInv
<1>1. job[q].at \in Nat /\ \A s \in snapshots : s.at \in Nat
  BY DEF TypeOK, Job, Snapshot
<1>2. ASSUME job[q].pc = "ok", job'[q] = job[q]
      PROVE  \E s \in snapshots' : s.tag = job'[q].tag /\ s.at >= job'[q].at
  <2>1. PICK s \in snapshots : s.tag = job[q].tag /\ s.at >= job[q].at
    BY <1>2 DEF SavedUploadShows, Of
  <2>2. PICK n \in snapshots' : n.tag = s.tag /\ n.at >= s.at
    BY NoRegress
  <2>3. n.at \in Nat
    BY NextTypeInv DEF TypeOK, Snapshot
  <2>4. QED BY <1>1, <1>2, <2>1, <2>2, <2>3
<1>3. ASSUME InsertSnapshot(q)
      PROVE  \E s \in snapshots' : s.tag = job'[q].tag /\ s.at >= job'[q].at
  <2>1. job'[q].tag = job[q].tag /\ job'[q].at = job[q].at
    BY <1>3, Moves DEF InsertSnapshot, PCs
  <2>2. CASE \E s \in Of(job[q].tag) : s.at = job[q].at
    BY <1>1, <1>3, <2>1, <2>2 DEF InsertSnapshot, Of
  <2>3. CASE ~\E s \in Of(job[q].tag) : s.at = job[q].at
    <3>1. NewSnapshot(q) \in snapshots'
      BY <1>3, <2>3 DEF InsertSnapshot, NewSnapshot
    <3>2. NewSnapshot(q).tag = job[q].tag /\ NewSnapshot(q).at = job[q].at
      BY DEF NewSnapshot
    <3>3. QED BY <1>1, <2>1, <3>1, <3>2
  <2>4. QED BY <2>2, <2>3
<1>4. CASE \E r \in Requests : Upload(r)
  <2>1. job'[q] = job[q]
    BY <1>4 DEF Upload, TypeOK
  <2>2. QED BY <1>2, <2>1
<1>5. ASSUME NEW r \in Requests, Step(r)
      PROVE  \E s \in snapshots' : s.tag = job'[q].tag /\ s.at >= job'[q].at
  <2>1. CASE r # q
    BY <1>2, <1>5, <2>1, StepShape
  <2>2. CASE r = q
    <3>1. InsertSnapshot(q)
      BY <1>5, <2>2, IdleJobType DEF Step, CountSnapshots, CountVillages,
         CountToday, CountFails, UpsertVillage, SaveFails, Respond, GoTo, TypeOK, Job
    <3>2. QED BY <1>3, <3>1
  <2>3. QED BY <2>1, <2>2
<1>6. CASE Prune \/ Tick \/ UNCHANGED vars
  BY <1>2, <1>6 DEF Prune, Tick, vars
<1>7. QED BY <1>4, <1>5, <1>6 DEF Next

\* An upload that was saved finds its village with a snapshot at least as new,
\* whatever was pruned or uploaded since (postReport answers from the store).
THEOREM SavedStays == Spec => []SavedUploadShows
BY InitTypeInv, NextTypeInv, InitShows, NextShows, PTL DEF Spec
=============================================================================
