------------------------------ MODULE FileStore ------------------------------
(***************************************************************************)
(* The snapshot store of -history: one file per snapshot, written to a     *)
(* temporary name and renamed (internal/store/file).  No lock is held, so  *)
(* saves, forgets and prunes interleave between any two system calls, and  *)
(* the process may die between them.  A directory entry names an inode: a  *)
(* file being written stays that file when another call renames it.        *)
(***************************************************************************)
EXTENDS Integers, FiniteSets

CONSTANTS
  Jobs,          \* calls in flight at once
  Dirs,          \* village directories
  Captures,      \* capture times, in seconds
  Inodes,        \* files that may exist at once
  Ops,           \* kinds of call
  WriteMayFail,  \* whether a write can fail (disk full)
  MayCrash,      \* whether the process may die
  None           \* no file

Kinds == {"save", "forget", "prune"}

ASSUME FileStoreAssumption ==
  /\ Dirs # {} /\ Captures \subseteq Nat /\ Captures # {}
  /\ IsFiniteSet(Captures)
  /\ Ops \subseteq Kinds
  /\ WriteMayFail \in BOOLEAN /\ MayCrash \in BOOLEAN
  /\ None \notin Inodes

VARIABLES
  made,   \* the village directories that exist
  link,   \* link[d, at, ext]: the file of that name, None if there is none
  whole,  \* the files that hold a whole export
  job,    \* job[j]: the call j is making and where it is in it
  acked,  \* history: snapshots whose save was answered, not removed since
  alone   \* history: no two saves wrote one temporary file at once

vars == <<made, link, whole, job, acked, alone>>

Names  == Dirs \X Captures \X {"json", "tmp"}
Json(d) == {at \in Captures : link[<<d, at, "json">>] # None}

PCs == {"idle", "mkdir", "stat", "open", "write", "rename",  \* Save
        "list", "unlink",                                    \* Forget
        "pruneList", "pruneUnlink",                          \* Prune
        "ok", "error"}

(***************************************************************************)
(* dir, at: the arguments; at is the cutoff of a prune.  file: the open    *)
(* temporary file.  todo: entries still to unlink.  kept: history, whether *)
(* no forget has unlinked anything in dir since this call listed it, nor a *)
(* prune whose listing a forget had overtaken.                             *)
(***************************************************************************)
Job == [pc : PCs, op : Kinds, dir : Dirs, at : Captures,
        file : Inodes \cup {None}, todo : SUBSET (Captures \X {"json", "tmp"}),
        kept : BOOLEAN]

IdleJob == [pc |-> "idle", op |-> "save", dir |-> CHOOSE d \in Dirs : TRUE,
            at |-> CHOOSE at \in Captures : TRUE, file |-> None, todo |-> {},
            kept |-> TRUE]

\* Files are found in directories that exist.
TypeOK ==
  /\ made \subseteq Dirs
  /\ link \in [Names -> Inodes \cup {None}]
  /\ whole \subseteq Inodes
  /\ job \in [Jobs -> Job]
  /\ acked \subseteq Dirs \X Captures
  /\ alone \in BOOLEAN
  /\ \A n \in Names : link[n] # None => n[1] \in made

Init ==
  /\ made = {}
  /\ link = [n \in Names |-> None]
  /\ whole = {}
  /\ job = [j \in Jobs |-> IdleJob]
  /\ acked = {} /\ alone = TRUE

-----------------------------------------------------------------------------

Tmp(j)  == <<job[j].dir, job[j].at, "tmp">>
Shown(j) == <<job[j].dir, job[j].at, "json">>

GoTo(j, pc) == job' = [job EXCEPT ![j].pc = pc]

Call(j) ==
  /\ job[j].pc = "idle"
  /\ \E op \in Ops, d \in Dirs, at \in Captures :
       job' = [job EXCEPT ![j] = [IdleJob EXCEPT
                 !.op = op, !.dir = d, !.at = at,
                 !.pc = CASE op = "save" -> "mkdir" [] op = "forget" -> "list"
                          [] OTHER -> "pruneList"]]
  /\ UNCHANGED <<made, link, whole, acked, alone>>

-----------------------------------------------------------------------------
(* Save.                                                                   *)

Mkdir(j) ==
  /\ job[j].pc = "mkdir"
  /\ made' = made \cup {job[j].dir}
  /\ GoTo(j, "stat")
  /\ UNCHANGED <<link, whole, acked, alone>>

Answer(j, there) ==
  /\ GoTo(j, IF there THEN "ok" ELSE "open")
  /\ acked' = IF there THEN acked \cup {<<job[j].dir, job[j].at>>} ELSE acked
  /\ UNCHANGED <<made, link, whole, alone>>

\* Fault: a temporary file counts as the snapshot.
StatFault(j) ==
  /\ job[j].pc = "stat"
  /\ Answer(j, link[Shown(j)] # None \/ link[Tmp(j)] # None)

\* "already have this exact snapshot"
Stat(j) == job[j].pc = "stat" /\ Answer(j, link[Shown(j)] # None)

Linked == {i \in Inodes : \E n \in Names : link[n] = i}
Writing(j) == job[j].pc \in {"write", "rename"}
Held   == {i \in Inodes : \E j \in Jobs : Writing(j) /\ job[j].file = i}

\* Which free file a new name gets makes no difference.
OneOf(S) == IF S = {} THEN {} ELSE {CHOOSE i \in S : TRUE}
Free   == Inodes \ (Linked \cup Held)

\* Opening truncates the file of that name, or makes one.
Open(j) ==
  /\ job[j].pc = "open"
  /\ IF job[j].dir \notin made
     THEN GoTo(j, "error") /\ UNCHANGED <<link, whole, alone>>
     ELSE \E i \in (IF link[Tmp(j)] # None THEN {link[Tmp(j)]} ELSE OneOf(Free)) :
            /\ link' = [link EXCEPT ![Tmp(j)] = i]
            /\ whole' = whole \ {i}
            /\ job' = [job EXCEPT ![j].pc = "write", ![j].file = i]
            /\ alone' = (alone /\ \A k \in Jobs : Writing(k) => Tmp(k) # Tmp(j))
  /\ UNCHANGED <<made, acked>>

Write(j) ==
  /\ job[j].pc = "write"
  /\ whole' = whole \cup {job[j].file}
  /\ GoTo(j, "rename")
  /\ UNCHANGED <<made, link, acked, alone>>

\* Fault: the error is not looked at.
WriteFailsFault(j) ==
  /\ WriteMayFail
  /\ job[j].pc = "write"
  /\ GoTo(j, "rename")
  /\ UNCHANGED <<made, link, whole, acked, alone>>

\* Part of the file stays behind, under the temporary name.
WriteFails(j) ==
  /\ WriteMayFail
  /\ job[j].pc = "write"
  /\ GoTo(j, "error")
  /\ UNCHANGED <<made, link, whole, acked, alone>>

Rename(j) ==
  /\ job[j].pc = "rename"
  /\ IF link[Tmp(j)] = None
     THEN GoTo(j, "error") /\ UNCHANGED <<link, acked>>
     ELSE /\ link' = [link EXCEPT ![Shown(j)] = link[Tmp(j)], ![Tmp(j)] = None]
          /\ acked' = acked \cup {<<job[j].dir, job[j].at>>}
          /\ GoTo(j, "ok")
  /\ UNCHANGED <<made, whole, alone>>

-----------------------------------------------------------------------------
(* Forget: os.RemoveAll lists the directory once, unlinks what it listed   *)
(* and removes the directory, which fails if a file has appeared since.    *)

Entries(d) == {e \in Captures \X {"json", "tmp"} : link[<<d, e[1], e[2]>>] # None}

ListDir(j) ==
  /\ job[j].pc = "list"
  /\ job' = IF job[j].dir \notin made THEN [job EXCEPT ![j].pc = "ok"]
            ELSE [job EXCEPT ![j].pc = "unlink", ![j].todo = Entries(job[j].dir)]
  /\ UNCHANGED <<made, link, whole, acked, alone>>

Remove(d, e) ==
  /\ link' = [link EXCEPT ![<<d, e[1], e[2]>>] = None]
  /\ acked' = IF e[2] = "json" THEN acked \ {<<d, e[1]>>} ELSE acked

Unlink(j) ==
  /\ job[j].pc = "unlink"
  /\ \E e \in job[j].todo :
       /\ Remove(job[j].dir, e)
       /\ job' = [k \in Jobs |->
            [job[k] EXCEPT !.todo = IF k = j THEN @ \ {e} ELSE @,
                           !.kept = @ /\ job[k].dir # job[j].dir]]
  /\ UNCHANGED <<made, whole, alone>>

\* Fault: the directory goes with what appeared in it.
RmdirFault(j) ==
  /\ job[j].pc = "unlink" /\ job[j].todo = {}
  /\ made' = made \ {job[j].dir}
  /\ GoTo(j, "ok")
  /\ UNCHANGED <<link, whole, acked, alone>>

Rmdir(j) ==
  /\ job[j].pc = "unlink" /\ job[j].todo = {}
  /\ IF Entries(job[j].dir) # {} THEN made' = made /\ GoTo(j, "error")
     ELSE made' = made \ {job[j].dir} /\ GoTo(j, "ok")
  /\ UNCHANGED <<link, whole, acked, alone>>

-----------------------------------------------------------------------------
(* Prune, of one directory: its walk takes them one after the other and    *)
(* carries nothing from one to the next.                                   *)

\* Fault: the newest is not spared.
PruneListFault(j) ==
  /\ job[j].pc = "pruneList"
  /\ job' = [job EXCEPT
       ![j].pc = IF job[j].dir \in made THEN "pruneUnlink" ELSE "error",
       ![j].kept = TRUE,
       ![j].todo = {at \in Json(job[j].dir) : at < job[j].at} \X {"json"}]
  /\ UNCHANGED <<made, link, whole, acked, alone>>

\* All but the newest, if captured before the cutoff.
PruneList(j) ==
  /\ job[j].pc = "pruneList"
  /\ job' = [job EXCEPT
       ![j].pc = IF job[j].dir \in made THEN "pruneUnlink" ELSE "error",
       ![j].kept = TRUE,
       ![j].todo = {at \in Json(job[j].dir) :
                      /\ at < job[j].at
                      /\ \E newer \in Json(job[j].dir) : newer > at} \X {"json"}]
  /\ UNCHANGED <<made, link, whole, acked, alone>>

\* The newest of them first.
PruneUnlink(j) ==
  /\ job[j].pc = "pruneUnlink"
  /\ \E e \in job[j].todo :
       /\ \A other \in job[j].todo : other[1] <= e[1]
       /\ Remove(job[j].dir, e)
       /\ job' = [k \in Jobs |->
            [job[k] EXCEPT !.todo = IF k = j THEN @ \ {e} ELSE @,
                           !.kept = @ /\ (job[k].dir = job[j].dir => job[j].kept)]]
  /\ UNCHANGED <<made, whole, alone>>

PruneDone(j) ==
  /\ job[j].pc = "pruneUnlink" /\ job[j].todo = {}
  /\ GoTo(j, "ok")
  /\ UNCHANGED <<made, link, whole, acked, alone>>

-----------------------------------------------------------------------------

Return(j) ==
  /\ job[j].pc \in {"ok", "error"}
  /\ job' = [job EXCEPT ![j] = IdleJob]
  /\ UNCHANGED <<made, link, whole, acked, alone>>

\* What was written stays.
Crash ==
  /\ MayCrash
  /\ job' = [j \in Jobs |-> IdleJob]
  /\ UNCHANGED <<made, link, whole, acked, alone>>

Next == \/ \E j \in Jobs :
             \/ Call(j) \/ Mkdir(j) \/ Stat(j) \/ Open(j) \/ Write(j)
             \/ WriteFails(j) \/ Rename(j) \/ ListDir(j) \/ Unlink(j) \/ Rmdir(j)
             \/ PruneList(j) \/ PruneUnlink(j) \/ PruneDone(j) \/ Return(j)
        \/ Crash

Spec == Init /\ [][Next]_vars

-----------------------------------------------------------------------------

\* Unless two saves of one capture overlap, a reader never meets part of a
\* snapshot: not while it is written, not after a failed write and not after a
\* crash (Save's temporary file and rename).
VisibleIsWhole ==
  alone => \A d \in Dirs : \A at \in Json(d) : link[<<d, at, "json">>] \in whole

\* A snapshot whose save was answered is there until a forget or a prune
\* removes it, whatever overlaps, fails or crashes (Save).
AckedStays == \A n \in acked : n[2] \in Json(n[1])

\* The villages a forget is removing, or a prune whose listing one has overtaken.
Forgetting ==
  {d \in Dirs : \E j \in Jobs :
     /\ job[j].dir = d
     /\ \/ job[j].pc = "unlink"
        \/ job[j].pc = "pruneUnlink" /\ ~job[j].kept}

Store == INSTANCE SnapshotStore WITH
           Tags <- Dirs, held <- [d \in Dirs |-> Json(d)],
           forgetting <- Forgetting, Volatile <- FALSE

\* The files make a snapshot store, although no step of it is one system call:
\* a snapshot appears by itself and whole calls overlap, and a prune "never
\* deletes the newest snapshot a village has", by a listing that saves and other
\* prunes have overtaken; only a forget takes that away (store.Store).
ImplementsStore == Store!Spec
=============================================================================
