--------------------------- MODULE FileStoreProofs ---------------------------
(***************************************************************************)
(* Theorems about FileStore for every number of calls, villages, captures  *)
(* and files.                                                              *)
(***************************************************************************)
EXTENDS FileStore, TLAPS

\* What is written to is a file.
TypeInv == TypeOK /\ \A j \in Jobs : Writing(j) => job[j].file \in Inodes

LEMMA IdleJobType == IdleJob \in Job /\ IdleJob.pc = "idle"
<1>1. (CHOOSE d \in Dirs : TRUE) \in Dirs
  BY FileStoreAssumption
<1>2. (CHOOSE at \in Captures : TRUE) \in Captures
  BY FileStoreAssumption
<1>3. QED BY <1>1, <1>2 DEF IdleJob, Job, PCs, Kinds

LEMMA InitType == Init => TypeInv
<1> SUFFICES ASSUME Init PROVE TypeInv
  OBVIOUS
<1>1. job \in [Jobs -> Job]
  BY IdleJobType DEF Init
<1>2. \A j \in Jobs : ~ Writing(j)
  BY IdleJobType DEF Init, Writing
<1>3. QED BY <1>1, <1>2 DEF Init, TypeInv, TypeOK, Names

\* A file a new name gets is one nobody has.
LEMMA OpenPicks ==
  ASSUME TypeInv, NEW j \in Jobs, job[j].dir \in made,
         NEW i \in (IF link[Tmp(j)] # None THEN {link[Tmp(j)]} ELSE OneOf(Free))
  PROVE  i \in Inodes /\ (link[Tmp(j)] # None => i = link[Tmp(j)])
         /\ (link[Tmp(j)] = None => i \in Free)
<1>1. Tmp(j) \in Names
  BY DEF Tmp, Names, TypeInv, TypeOK, Job
<1>2. link[Tmp(j)] \in Inodes \cup {None}
  BY <1>1 DEF TypeInv, TypeOK
<1>3. ASSUME NEW f \in OneOf(Free) PROVE f \in Free
  BY <1>3 DEF OneOf
<1>4. QED BY <1>2, <1>3 DEF Free

LEMMA NameTypes ==
  ASSUME TypeInv, NEW j \in Jobs
  PROVE  /\ job[j] \in Job /\ job[j].dir \in Dirs /\ job[j].at \in Captures
         /\ Tmp(j) \in Names /\ Shown(j) \in Names /\ Tmp(j) # Shown(j)
         /\ Tmp(j)[1] = job[j].dir /\ Shown(j)[1] = job[j].dir
         /\ link[Tmp(j)] \in Inodes \cup {None}
<1>1. job[j] \in Job
  BY DEF TypeInv, TypeOK
<1>2. job[j].dir \in Dirs /\ job[j].at \in Captures
  BY <1>1 DEF Job
<1>3. QED BY <1>1, <1>2 DEF Tmp, Shown, Names, TypeInv, TypeOK

LEMMA GoToType ==
  ASSUME TypeInv, NEW j \in Jobs, NEW pc \in PCs, GoTo(j, pc)
  PROVE  job' \in [Jobs -> Job]
BY DEF GoTo, TypeInv, TypeOK, Job

\* What the steps make of the calls.
LEMMA JobType ==
  ASSUME TypeInv, [Next]_vars PROVE job' \in [Jobs -> Job]
<1>1. ASSUME NEW j \in Jobs,
             \/ Mkdir(j) \/ Stat(j) \/ Write(j) \/ WriteFails(j) \/ Rename(j)
             \/ Rmdir(j) \/ PruneDone(j)
      PROVE  job' \in [Jobs -> Job]
  <2>1. \E pc \in PCs : GoTo(j, pc)
    BY <1>1 DEF Mkdir, Stat, Answer, Write, WriteFails, Rename, Rmdir, PruneDone, PCs
  <2>2. QED BY <2>1, GoToType
<1>2. ASSUME NEW j \in Jobs, Call(j) PROVE job' \in [Jobs -> Job]
  <2>1. PICK op \in Ops, d \in Dirs, at \in Captures :
          job' = [job EXCEPT ![j] = [IdleJob EXCEPT
                    !.op = op, !.dir = d, !.at = at,
                    !.pc = CASE op = "save" -> "mkdir" [] op = "forget" -> "list"
                             [] OTHER -> "pruneList"]]
    BY <1>2 DEF Call
  <2> DEFINE pc == CASE op = "save" -> "mkdir" [] op = "forget" -> "list"
                     [] OTHER -> "pruneList"
  <2>2. pc \in PCs
    BY DEF PCs
  <2>3. op \in Kinds
    BY FileStoreAssumption
  <2> HIDE DEF pc
  <2>4. [IdleJob EXCEPT !.op = op, !.dir = d, !.at = at, !.pc = pc] \in Job
    BY <2>2, <2>3, IdleJobType DEF Job
  <2>5. QED BY <2>1, <2>4 DEF pc, TypeInv, TypeOK
<1>3. ASSUME NEW j \in Jobs, Open(j) PROVE job' \in [Jobs -> Job]
  <2>1. CASE job[j].dir \notin made
    BY <1>3, <2>1, GoToType DEF Open, PCs
  <2>2. CASE job[j].dir \in made
    <3>1. PICK i \in (IF link[Tmp(j)] # None THEN {link[Tmp(j)]} ELSE OneOf(Free)) :
            job' = [job EXCEPT ![j].pc = "write", ![j].file = i]
      BY <1>3, <2>2 DEF Open
    <3>2. i \in Inodes
      BY <2>2, OpenPicks
    <3>3. [job[j] EXCEPT !.pc = "write", !.file = i] \in Job
      BY <3>2, NameTypes DEF Job, PCs
    <3>4. job' = [job EXCEPT ![j] = [job[j] EXCEPT !.pc = "write", !.file = i]]
      BY <3>1 DEF TypeInv, TypeOK
    <3>5. QED BY <3>3, <3>4 DEF TypeInv, TypeOK
  <2>3. QED BY <2>1, <2>2
<1>4. ASSUME NEW j \in Jobs, ListDir(j) PROVE job' \in [Jobs -> Job]
  <2>1. Entries(job[j].dir) \subseteq Captures \X {"json", "tmp"}
    BY DEF Entries
  <2> DEFINE todo == Entries(job[j].dir)
  <2>2. todo \in SUBSET (Captures \X {"json", "tmp"})
    BY <2>1
  <2>3. \/ job' = [job EXCEPT ![j].pc = "ok"]
        \/ job' = [job EXCEPT ![j].pc = "unlink", ![j].todo = todo]
    BY <1>4 DEF ListDir
  <2> HIDE DEF todo
  <2>4. /\ [job[j] EXCEPT !.pc = "ok"] \in Job
        /\ [job[j] EXCEPT !.pc = "unlink", !.todo = todo] \in Job
    BY <2>2, NameTypes DEF Job, PCs
  <2>5. QED BY <2>3, <2>4 DEF TypeInv, TypeOK
<1>5. ASSUME NEW j \in Jobs, Unlink(j) PROVE job' \in [Jobs -> Job]
  <2>1. PICK e \in job[j].todo : job' = [k \in Jobs |->
            [job[k] EXCEPT !.todo = IF k = j THEN @ \ {e} ELSE @,
                           !.kept = @ /\ job[k].dir # job[j].dir]]
    BY <1>5 DEF Unlink
  <2>2. ASSUME NEW k \in Jobs
        PROVE  [job[k] EXCEPT !.todo = IF k = j THEN @ \ {e} ELSE @,
                              !.kept = @ /\ job[k].dir # job[j].dir] \in Job
    <3> DEFINE todo == IF k = j THEN job[k].todo \ {e} ELSE job[k].todo
               kept == job[k].kept /\ job[k].dir # job[j].dir
    <3>1. job[k] \in Job
      BY DEF TypeInv, TypeOK
    <3>2. todo \in SUBSET (Captures \X {"json", "tmp"}) /\ kept \in BOOLEAN
      BY <3>1 DEF Job
    <3> HIDE DEF todo, kept
    <3>3. [job[k] EXCEPT !.todo = todo, !.kept = kept] \in Job
      BY <3>1, <3>2 DEF Job
    <3>4. QED BY <3>3 DEF todo, kept
  <2>3. QED BY <2>1, <2>2
<1>6. ASSUME NEW j \in Jobs, PruneList(j) PROVE job' \in [Jobs -> Job]
  <2> DEFINE old == {at \in Json(job[j].dir) :
                       /\ at < job[j].at
                       /\ \E newer \in Json(job[j].dir) : newer > at}
             pc == IF job[j].dir \in made THEN "pruneUnlink" ELSE "error"
  <2>1. pc \in PCs /\ old \X {"json"} \in SUBSET (Captures \X {"json", "tmp"})
    BY DEF PCs, Json
  <2>2. job' = [job EXCEPT ![j].pc = pc, ![j].kept = TRUE, ![j].todo = old \X {"json"}]
    BY <1>6 DEF PruneList
  <2> HIDE DEF old, pc
  <2>3. [job[j] EXCEPT !.pc = pc, !.kept = TRUE, !.todo = old \X {"json"}] \in Job
    BY <2>1, NameTypes DEF Job
  <2>4. QED BY <2>2, <2>3 DEF TypeInv, TypeOK
<1>7. ASSUME NEW j \in Jobs, PruneUnlink(j) PROVE job' \in [Jobs -> Job]
  <2>1. PICK e \in job[j].todo : job' = [k \in Jobs |->
            [job[k] EXCEPT !.todo = IF k = j THEN @ \ {e} ELSE @,
                           !.kept = @ /\ (job[k].dir = job[j].dir => job[j].kept)]]
    BY <1>7 DEF PruneUnlink
  <2>2. ASSUME NEW k \in Jobs
        PROVE  [job[k] EXCEPT !.todo = IF k = j THEN @ \ {e} ELSE @,
                  !.kept = @ /\ (job[k].dir = job[j].dir => job[j].kept)] \in Job
    <3> DEFINE todo == IF k = j THEN job[k].todo \ {e} ELSE job[k].todo
               kept == job[k].kept /\ (job[k].dir = job[j].dir => job[j].kept)
    <3>1. job[k] \in Job
      BY DEF TypeInv, TypeOK
    <3>2. todo \in SUBSET (Captures \X {"json", "tmp"}) /\ kept \in BOOLEAN
      BY <3>1 DEF Job
    <3> HIDE DEF todo, kept
    <3>3. [job[k] EXCEPT !.todo = todo, !.kept = kept] \in Job
      BY <3>1, <3>2 DEF Job
    <3>4. QED BY <3>3 DEF todo, kept
  <2>3. QED BY <2>1, <2>2
<1>8. ASSUME NEW j \in Jobs, Return(j) PROVE job' \in [Jobs -> Job]
  BY <1>8, IdleJobType DEF Return, TypeInv, TypeOK
<1>9. CASE Crash \/ UNCHANGED vars
  BY <1>9, IdleJobType DEF Crash, vars, TypeInv, TypeOK
<1>10. QED BY <1>1, <1>2, <1>3, <1>4, <1>5, <1>6, <1>7, <1>8, <1>9 DEF Next

-----------------------------------------------------------------------------
\* What the steps make of the directory.

LinkType == /\ link \in [Names -> Inodes \cup {None}]
            /\ \A n \in Names : link[n] # None => n[1] \in made

LEMMA OpenShape ==
  ASSUME TypeInv, NEW j \in Jobs, Open(j)
  PROVE  \/ /\ job[j].dir \notin made /\ job' = [job EXCEPT ![j].pc = "error"]
            /\ UNCHANGED <<made, link, whole, acked, alone>>
         \/ /\ job[j].dir \in made /\ UNCHANGED <<made, acked>>
            /\ \E i \in Inodes :
                 /\ link[Tmp(j)] # None => i = link[Tmp(j)]
                 /\ link[Tmp(j)] = None => i \in Free
                 /\ link' = [link EXCEPT ![Tmp(j)] = i]
                 /\ whole' = whole \ {i}
                 /\ job' = [job EXCEPT ![j].pc = "write", ![j].file = i]
            /\ alone' = (alone /\ \A k \in Jobs : Writing(k) => Tmp(k) # Tmp(j))
<1>1. CASE job[j].dir \notin made
  BY <1>1 DEF Open, GoTo
<1>2. CASE job[j].dir \in made
  <2>1. PICK i \in (IF link[Tmp(j)] # None THEN {link[Tmp(j)]} ELSE OneOf(Free)) :
          /\ link' = [link EXCEPT ![Tmp(j)] = i]
          /\ whole' = whole \ {i}
          /\ job' = [job EXCEPT ![j].pc = "write", ![j].file = i]
          /\ alone' = (alone /\ \A k \in Jobs : Writing(k) => Tmp(k) # Tmp(j))
    BY <1>2 DEF Open
  <2>2. /\ i \in Inodes /\ (link[Tmp(j)] # None => i = link[Tmp(j)])
        /\ (link[Tmp(j)] = None => i \in Free)
    BY <1>2, OpenPicks
  <2>3. UNCHANGED <<made, acked>>
    BY DEF Open
  <2>4. QED BY <1>2, <2>1, <2>2, <2>3
<1>3. QED BY <1>1, <1>2

\* A removal takes one entry away.
LEMMA RemoveShape ==
  ASSUME TypeInv, NEW d \in Dirs, NEW e \in Captures \X {"json", "tmp"}, Remove(d, e)
  PROVE  /\ \A n \in Names : link'[n] \in {link[n], None}
         /\ link' \in [Names -> Inodes \cup {None}]
         /\ acked' \subseteq acked
         /\ \A b \in Dirs, at \in Captures :
              <<b, at>> \in acked' => link'[<<b, at, "json">>] = link[<<b, at, "json">>]
<1>1. <<d, e[1], e[2]>> \in Names /\ e = <<e[1], e[2]>> /\ e[2] \in {"json", "tmp"}
  BY DEF Names
<1>2. link' = [link EXCEPT ![<<d, e[1], e[2]>>] = None]
  BY DEF Remove
<1>3. acked' = IF e[2] = "json" THEN acked \ {<<d, e[1]>>} ELSE acked
  BY DEF Remove
<1>4. ASSUME NEW b \in Dirs, NEW at \in Captures, <<b, at>> \in acked'
      PROVE  link'[<<b, at, "json">>] = link[<<b, at, "json">>]
  <2>2. <<b, at, "json">> \in Names
    BY DEF Names
  <2>1. CASE e[2] = "json"
    <3>1. <<b, at>> # <<d, e[1]>>
      BY <1>3, <1>4, <2>1
    <3>2. <<b, at, "json">> # <<d, e[1], e[2]>>
      BY <3>1
    <3>3. QED BY <3>2, <2>2, <1>2, <1>1 DEF TypeInv, TypeOK
  <2>3. CASE e[2] = "tmp"
    <3>1. <<b, at, "json">> # <<d, e[1], e[2]>>
      BY <2>3
    <3>2. QED BY <3>1, <2>2, <1>2, <1>1 DEF TypeInv, TypeOK
  <2>4. QED BY <2>1, <2>3, <1>1
<1>5. QED BY <1>1, <1>2, <1>3, <1>4 DEF TypeInv, TypeOK

\* The entry an unlinking call removes is a name.
LEMMA UnlinkShape ==
  ASSUME TypeInv, NEW j \in Jobs, Unlink(j) \/ PruneUnlink(j)
  PROVE  /\ \E e \in Captures \X {"json", "tmp"} : Remove(job[j].dir, e)
         /\ UNCHANGED <<made, whole, alone>>
<1>1. job[j].todo \subseteq Captures \X {"json", "tmp"}
  BY NameTypes DEF Job
<1>2. QED BY <1>1 DEF Unlink, PruneUnlink

\* A call writes to a file because it opened it just now or was writing to it.
LEMMA StillWriting ==
  ASSUME TypeInv, [Next]_vars, NEW k \in Jobs, Writing(k)'
  PROVE  \/ Open(k) /\ job[k].dir \in made
         \/ /\ Writing(k) /\ job'[k].file = job[k].file
            /\ job'[k].dir = job[k].dir /\ job'[k].at = job[k].at
            /\ job'[k].pc = job[k].pc \/ Write(k)
<1> DEFINE Same == /\ Writing(k) /\ job'[k].file = job[k].file
                   /\ job'[k].dir = job[k].dir /\ job'[k].at = job[k].at
                   /\ job'[k].pc = job[k].pc \/ Write(k)
<1>0. job \in [Jobs -> Job] /\ job[k] \in Job
  BY DEF TypeInv, TypeOK
<1>1. ASSUME NEW j \in Jobs,
             \/ Mkdir(j) \/ Stat(j) \/ WriteFails(j) \/ Rename(j)
             \/ Rmdir(j) \/ PruneDone(j)
      PROVE  Same
  <2>1. \E pc \in PCs \ {"write", "rename"} : GoTo(j, pc)
    BY <1>1 DEF Mkdir, Stat, Answer, WriteFails, Rename, Rmdir, PruneDone, PCs
  <2>2. QED BY <1>0, <2>1 DEF GoTo, Writing, Job
<1>2. ASSUME NEW j \in Jobs, Write(j) PROVE Same
  BY <1>0, <1>2 DEF Write, GoTo, Writing, Job
<1>3. ASSUME NEW j \in Jobs, Call(j) PROVE Same
  <2>1. PICK op \in Ops, d \in Dirs, at \in Captures :
          job' = [job EXCEPT ![j] = [IdleJob EXCEPT
                    !.op = op, !.dir = d, !.at = at,
                    !.pc = CASE op = "save" -> "mkdir" [] op = "forget" -> "list"
                             [] OTHER -> "pruneList"]]
    BY <1>3 DEF Call
  <2>2. k # j => job'[k] = job[k]
    BY <1>0, <2>1
  <2>3. ASSUME k = j PROVE job'[k].pc \in {"mkdir", "list", "pruneList"}
    BY <1>0, <2>1, <2>3, IdleJobType DEF Job
  <2>4. QED BY <2>2, <2>3 DEF Writing
<1>4. ASSUME NEW j \in Jobs, Open(j), ~ (j = k /\ job[j].dir \in made) PROVE Same
  <2>1. CASE job' = [job EXCEPT ![j].pc = "error"]
    BY <1>0, <2>1 DEF Writing, Job
  <2>2. ASSUME NEW i \in Inodes, job' = [job EXCEPT ![j].pc = "write", ![j].file = i],
               j # k
        PROVE  Same
    BY <1>0, <2>2 DEF Writing, Job
  <2>3. QED BY <1>4, <2>1, <2>2, OpenShape
<1>5. ASSUME NEW j \in Jobs, ListDir(j) PROVE Same
  BY <1>0, <1>5 DEF ListDir, Writing, Job
<1>6. ASSUME NEW j \in Jobs, Unlink(j) PROVE Same
  <2>1. PICK e \in job[j].todo : job' = [i \in Jobs |->
            [job[i] EXCEPT !.todo = IF i = j THEN @ \ {e} ELSE @,
                           !.kept = @ /\ job[i].dir # job[j].dir]]
    BY <1>6 DEF Unlink
  <2> DEFINE todo == IF k = j THEN job[k].todo \ {e} ELSE job[k].todo
             kept == job[k].kept /\ job[k].dir # job[j].dir
  <2>2. job'[k] = [job[k] EXCEPT !.todo = todo, !.kept = kept]
    BY <2>1
  <2> HIDE DEF todo, kept
  <2>3. QED BY <1>0, <2>2 DEF Writing, Job
<1>7. ASSUME NEW j \in Jobs, PruneList(j) PROVE Same
  BY <1>0, <1>7 DEF PruneList, Writing, Job
<1>8. ASSUME NEW j \in Jobs, PruneUnlink(j) PROVE Same
  <2>1. PICK e \in job[j].todo : job' = [i \in Jobs |->
            [job[i] EXCEPT !.todo = IF i = j THEN @ \ {e} ELSE @,
                           !.kept = @ /\ (job[i].dir = job[j].dir => job[j].kept)]]
    BY <1>8 DEF PruneUnlink
  <2> DEFINE todo == IF k = j THEN job[k].todo \ {e} ELSE job[k].todo
             kept == job[k].kept /\ (job[k].dir = job[j].dir => job[j].kept)
  <2>2. job'[k] = [job[k] EXCEPT !.todo = todo, !.kept = kept]
    BY <2>1
  <2> HIDE DEF todo, kept
  <2>3. QED BY <1>0, <2>2 DEF Writing, Job
<1>9. ASSUME NEW j \in Jobs, Return(j) PROVE Same
  BY <1>0, <1>9, IdleJobType DEF Return, Writing, Job
<1>10. CASE Crash
  BY <1>10, IdleJobType DEF Crash, Writing
<1>11. CASE UNCHANGED vars
  BY <1>11 DEF vars, Writing
<1>12. QED
  BY <1>1, <1>2, <1>3, <1>4, <1>5, <1>6, <1>7, <1>8, <1>9, <1>10, <1>11 DEF Next

\* The steps that touch neither the names nor what was answered.
LEMMA FilesKept ==
  ASSUME TypeInv, NEW j \in Jobs,
         \/ Call(j) \/ Mkdir(j) \/ WriteFails(j) \/ ListDir(j)
         \/ PruneList(j) \/ PruneDone(j) \/ Return(j)
  PROVE  /\ made \subseteq made' /\ made' \subseteq Dirs
         /\ UNCHANGED <<link, whole, acked, alone>>
BY NameTypes DEF Call, Mkdir, WriteFails, ListDir, PruneList, PruneDone, Return,
     TypeInv, TypeOK

LEMMA NextType ==
  ASSUME TypeInv, [Next]_vars PROVE TypeInv'
<1>1. job' \in [Jobs -> Job]
  BY JobType
<1>2. ASSUME NEW k \in Jobs, Writing(k)' PROVE job'[k].file \in Inodes
  <2>1. CASE Open(k) /\ job[k].dir \in made
    <3>1. PICK i \in Inodes : job' = [job EXCEPT ![k].pc = "write", ![k].file = i]
      BY <2>1, OpenShape
    <3>2. job \in [Jobs -> Job]
      BY DEF TypeInv, TypeOK
    <3>3. QED BY <1>2, <3>1, <3>2 DEF Writing, Job
  <2>2. CASE ~ (Open(k) /\ job[k].dir \in made)
    BY <1>2, <2>2, StillWriting DEF TypeInv
  <2>3. QED BY <2>1, <2>2
<1> DEFINE FilesTyped == /\ made' \subseteq Dirs /\ whole' \subseteq Inodes
                    /\ link' \in [Names -> Inodes \cup {None}]
                    /\ acked' \subseteq Dirs \X Captures /\ alone' \in BOOLEAN
                    /\ \A n \in Names : link'[n] # None => n[1] \in made'
<1>3. ASSUME NEW j \in Jobs,
             \/ Call(j) \/ Mkdir(j) \/ WriteFails(j) \/ ListDir(j)
             \/ PruneList(j) \/ PruneDone(j) \/ Return(j)
      PROVE  FilesTyped
  BY <1>3, FilesKept DEF TypeInv, TypeOK
<1>4. ASSUME NEW j \in Jobs, Write(j) PROVE FilesTyped
  BY <1>4 DEF Write, Writing, TypeInv, TypeOK
<1>5. ASSUME NEW j \in Jobs, Stat(j) PROVE FilesTyped
  <2>1. acked' \subseteq acked \cup {<<job[j].dir, job[j].at>>}
        /\ UNCHANGED <<made, link, whole, alone>>
    BY <1>5 DEF Stat, Answer
  <2>2. QED BY <2>1, NameTypes DEF TypeInv, TypeOK
<1>6. ASSUME NEW j \in Jobs, Open(j) PROVE FilesTyped
  <2>1. CASE UNCHANGED <<made, link, whole, acked, alone>>
    BY <2>1 DEF TypeInv, TypeOK
  <2>2. CASE \E i \in Inodes : /\ link' = [link EXCEPT ![Tmp(j)] = i]
                               /\ whole' = whole \ {i}
                               /\ UNCHANGED <<made, acked>>
                               /\ job[j].dir \in made /\ alone' \in BOOLEAN
    BY <2>2, NameTypes DEF TypeInv, TypeOK
  <2>3. QED BY <1>6, <2>1, <2>2, OpenShape DEF TypeInv, TypeOK
<1>7. ASSUME NEW j \in Jobs, Rename(j) PROVE FilesTyped
  <2>1. CASE UNCHANGED <<made, link, whole, acked, alone>>
    BY <2>1 DEF TypeInv, TypeOK
  <2>2. CASE link[Tmp(j)] # None
    <3>1. /\ link' = [link EXCEPT ![Shown(j)] = link[Tmp(j)], ![Tmp(j)] = None]
          /\ acked' = acked \cup {<<job[j].dir, job[j].at>>}
          /\ UNCHANGED <<made, whole, alone>>
      BY <1>7, <2>2 DEF Rename
    <3>2. job[j].dir \in made
      BY <2>2, NameTypes DEF TypeInv, TypeOK
    <3>3. QED BY <3>1, <3>2, NameTypes DEF TypeInv, TypeOK
  <2>3. QED BY <1>7, <2>1, <2>2 DEF Rename
<1>8. ASSUME NEW j \in Jobs, Unlink(j) \/ PruneUnlink(j) PROVE FilesTyped
  <2>1. PICK e \in Captures \X {"json", "tmp"} : Remove(job[j].dir, e)
    BY <1>8, UnlinkShape
  <2>2. UNCHANGED <<made, whole, alone>>
    BY <1>8, UnlinkShape
  <2>3. /\ \A n \in Names : link'[n] \in {link[n], None}
        /\ link' \in [Names -> Inodes \cup {None}]
        /\ acked' \subseteq acked
    BY <2>1, NameTypes, RemoveShape
  <2>4. QED BY <2>2, <2>3 DEF TypeInv, TypeOK
<1>9. ASSUME NEW j \in Jobs, Rmdir(j) PROVE FilesTyped
  <2>1. UNCHANGED <<link, whole, acked, alone>> /\ made' \subseteq made
    BY <1>9 DEF Rmdir
  <2>2. CASE made' = made
    BY <2>1, <2>2 DEF TypeInv, TypeOK
  <2>3. CASE made' = made \ {job[j].dir} /\ Entries(job[j].dir) = {}
    <3>1. ASSUME NEW n \in Names, link[n] # None PROVE n[1] # job[j].dir
      <4>1. n = <<n[1], n[2], n[3]>> /\ <<n[2], n[3]>> \in Captures \X {"json", "tmp"}
        BY DEF Names
      <4> DEFINE e == <<n[2], n[3]>>
      <4>2. e[1] = n[2] /\ e[2] = n[3]
        OBVIOUS
      <4>3. n[1] = job[j].dir => e \in Entries(job[j].dir)
        BY <3>1, <4>1, <4>2 DEF Entries
      <4>4. QED BY <2>3, <4>3
    <3>2. QED BY <2>1, <2>3, <3>1 DEF TypeInv, TypeOK
  <2>4. QED BY <1>9, <2>2, <2>3 DEF Rmdir
<1>10. ASSUME Crash \/ UNCHANGED vars PROVE FilesTyped
  BY <1>10 DEF Crash, vars, TypeInv, TypeOK
<1>11. FilesTyped
  BY <1>3, <1>4, <1>5, <1>6, <1>7, <1>8, <1>9, <1>10 DEF Next
<1>12. QED BY <1>1, <1>2, <1>11 DEF TypeInv, TypeOK, Writing

\* Every state of FileStore has its type: in particular a directory that
\* os.RemoveAll removed has no file left in it.
THEOREM TypeCorrect == Spec => []TypeOK
<1>1. Init => TypeInv
  BY InitType
<1>2. TypeInv /\ [Next]_vars => TypeInv'
  BY NextType
<1>3. TypeInv => TypeOK
  BY DEF TypeInv
<1>4. QED BY <1>1, <1>2, <1>3, PTL DEF Spec

-----------------------------------------------------------------------------
(* What was answered stays.                                                *)

Kept == \A d \in Dirs, at \in Captures :
          <<d, at>> \in acked => link[<<d, at, "json">>] # None

LEMMA KeptStep ==
  ASSUME TypeInv, Kept, [Next]_vars PROVE Kept'
<1> SUFFICES ASSUME NEW d \in Dirs, NEW at \in Captures, <<d, at>> \in acked'
             PROVE  link'[<<d, at, "json">>] # None
  BY DEF Kept
<1> DEFINE n == <<d, at, "json">>
<1>0. n \in Names /\ (<<d, at>> \in acked => link[n] # None)
  BY DEF Names, Kept
<1>1. CASE UNCHANGED <<link, acked>>
  BY <1>0, <1>1
<1>2. ASSUME NEW j \in Jobs, Stat(j) PROVE link'[n] # None
  <2>1. link' = link
    BY <1>2 DEF Stat, Answer
  <2>2. CASE <<d, at>> \in acked
    BY <1>0, <2>1, <2>2
  <2>3. CASE <<d, at>> \notin acked
    <3>1. link[Shown(j)] # None /\ <<d, at>> = <<job[j].dir, job[j].at>>
      BY <1>2, <2>3 DEF Stat, Answer
    <3>2. n = Shown(j)
      BY <3>1 DEF Shown
    <3>3. QED BY <2>1, <3>1, <3>2
  <2>4. QED BY <2>2, <2>3
<1>3. ASSUME NEW j \in Jobs, Open(j) PROVE link'[n] # None
  <2>1. acked' = acked
    BY <1>3 DEF Open
  <2>2. n # Tmp(j)
    BY DEF Tmp
  <2>3. link'[n] = link[n]
    BY <1>0, <1>3, <2>2, OpenShape DEF TypeInv, TypeOK
  <2>4. QED BY <1>0, <2>1, <2>3
<1>4. ASSUME NEW j \in Jobs, Rename(j) PROVE link'[n] # None
  <2>1. CASE link[Tmp(j)] = None
    BY <1>0, <1>4, <2>1 DEF Rename
  <2>2. CASE link[Tmp(j)] # None
    <3>1. /\ link' = [link EXCEPT ![Shown(j)] = link[Tmp(j)], ![Tmp(j)] = None]
          /\ acked' = acked \cup {<<job[j].dir, job[j].at>>}
      BY <1>4, <2>2 DEF Rename
    <3>2. n # Tmp(j)
      BY DEF Tmp
    <3>3. CASE n = Shown(j)
      BY <1>0, <2>2, <3>1, <3>2, <3>3 DEF TypeInv, TypeOK
    <3>4. CASE n # Shown(j)
      <4>1. <<d, at>> # <<job[j].dir, job[j].at>>
        BY <3>4 DEF Shown
      <4>2. link'[n] = link[n]
        BY <1>0, <3>1, <3>2, <3>4 DEF TypeInv, TypeOK
      <4>3. QED BY <1>0, <3>1, <4>1, <4>2
    <3>5. QED BY <3>3, <3>4
  <2>3. QED BY <2>1, <2>2
<1>5. ASSUME NEW j \in Jobs, Unlink(j) \/ PruneUnlink(j) PROVE link'[n] # None
  <2>1. PICK e \in Captures \X {"json", "tmp"} : Remove(job[j].dir, e)
    BY <1>5, UnlinkShape
  <2>2. acked' \subseteq acked /\ link'[n] = link[n]
    BY <2>1, NameTypes, RemoveShape
  <2>3. QED BY <1>0, <2>2
<1>6. ASSUME NEW j \in Jobs,
             \/ Call(j) \/ Mkdir(j) \/ WriteFails(j) \/ ListDir(j)
             \/ PruneList(j) \/ PruneDone(j) \/ Return(j) \/ Write(j) \/ Rmdir(j)
      PROVE  UNCHANGED <<link, acked>>
  BY <1>6, FilesKept DEF Write, Rmdir
<1>7. ASSUME Crash \/ UNCHANGED vars PROVE UNCHANGED <<link, acked>>
  BY <1>7 DEF Crash, vars
<1>8. QED BY <1>1, <1>2, <1>3, <1>4, <1>5, <1>6, <1>7 DEF Next

\* Whatever overlaps, fails or crashes, a snapshot whose save was answered is
\* there until a forget or a prune removes it (Save, file.go).
THEOREM AnsweredStays == Spec => []AckedStays
<1>1. Init => TypeInv /\ Kept
  BY InitType DEF Init, Kept
<1>2. TypeInv /\ Kept /\ [Next]_vars => (TypeInv /\ Kept)'
  BY NextType, KeptStep
<1>3. TypeInv /\ Kept => AckedStays
  <2> SUFFICES ASSUME TypeInv, Kept, NEW n \in acked PROVE n[2] \in Json(n[1])
    BY DEF AckedStays
  <2>1. n[1] \in Dirs /\ n[2] \in Captures /\ n = <<n[1], n[2]>>
    BY DEF TypeInv, TypeOK
  <2>2. link[<<n[1], n[2], "json">>] # None
    BY <2>1 DEF Kept
  <2>3. QED BY <2>1, <2>2 DEF Json
<1>4. QED BY <1>1, <1>2, <1>3, PTL DEF Spec

-----------------------------------------------------------------------------
(* A reader never meets part of a snapshot.                                *)

\* A file has one name.
Unique == \A m, n \in Names : link[m] # None /\ link[m] = link[n] => m = n

\* Nothing but its temporary name leads to a file being written, which that
\* name may have lost.
Own == \A j \in Jobs : Writing(j) =>
         /\ link[Tmp(j)] \in {job[j].file, None}
         /\ \A n \in Names : link[n] = job[j].file => n = Tmp(j)

Apart == \A j, k \in Jobs : Writing(j) /\ Writing(k) /\ j # k => Tmp(j) # Tmp(k)

Ready == \A j \in Jobs : job[j].pc = "rename" => job[j].file \in whole

ShownWhole == \A n \in Names : n[3] = "json" /\ link[n] # None => link[n] \in whole

Safe == Unique /\ (alone => Own /\ Apart /\ Ready /\ ShownWhole)

\* Steps that give no file a new name and open none.
LEMMA QuietStep ==
  ASSUME TypeInv, TypeInv', Safe, alone' = alone, whole \subseteq whole',
         \A n \in Names : link'[n] \in {link[n], None},
         \A k \in Jobs : Writing(k)' =>
           /\ Writing(k) /\ job'[k].file = job[k].file /\ Tmp(k)' = Tmp(k)
           /\ job'[k].pc = "rename" =>
                job[k].pc = "rename" \/ job[k].file \in whole'
  PROVE  Safe'
<1>1. Unique'
  BY DEF Safe, Unique
<1> SUFFICES ASSUME alone PROVE (Own /\ Apart /\ Ready /\ ShownWhole)'
  BY <1>1 DEF Safe
<1>2. Own'
  <2> SUFFICES ASSUME NEW k \in Jobs, Writing(k)'
               PROVE  /\ link'[Tmp(k)'] \in {job'[k].file, None}
                      /\ \A n \in Names : link'[n] = job'[k].file => n = Tmp(k)'
    BY DEF Own
  <2>1. /\ Tmp(k)' = Tmp(k) /\ job'[k].file = job[k].file /\ Writing(k)
        /\ Tmp(k) \in Names
    BY NameTypes
  <2>2. job[k].file # None
    BY <2>1, FileStoreAssumption DEF TypeInv
  <2>3. QED BY <2>1, <2>2 DEF Safe, Own
<1>3. Apart'
  BY DEF Safe, Apart
<1>4. Ready'
  BY DEF Safe, Ready, Writing
<1>5. ShownWhole'
  BY DEF Safe, ShownWhole
<1>6. QED BY <1>2, <1>3, <1>4, <1>5

LEMMA OpenStep ==
  ASSUME TypeInv, TypeInv', Safe, NEW j \in Jobs, Open(j), job[j].dir \in made
  PROVE  Safe'
<1>1. PICK i \in Inodes :
        /\ link[Tmp(j)] # None => i = link[Tmp(j)]
        /\ link[Tmp(j)] = None => i \in Free
        /\ link' = [link EXCEPT ![Tmp(j)] = i]
        /\ whole' = whole \ {i}
        /\ job' = [job EXCEPT ![j].pc = "write", ![j].file = i]
  BY OpenShape
<1>2. alone' = (alone /\ \A k \in Jobs : Writing(k) => Tmp(k) # Tmp(j))
  BY OpenShape
<1>3. /\ job \in [Jobs -> Job] /\ link \in [Names -> Inodes \cup {None}]
      /\ Tmp(j) \in Names /\ ~ Writing(j)
  BY NameTypes DEF TypeInv, TypeOK, Open, Writing
<1>4. /\ job'[j].pc = "write" /\ job'[j].file = i /\ Tmp(j)' = Tmp(j)
      /\ \A k \in Jobs : k # j => job'[k] = job[k] /\ Tmp(k)' = Tmp(k)
  BY <1>1, <1>3 DEF Tmp, Job
<1>5. link'[Tmp(j)] = i /\ \A n \in Names : n # Tmp(j) => link'[n] = link[n]
  BY <1>1, <1>3
\* The file has no other name.
<1>6. i # None /\ \A n \in Names : link[n] = i => n = Tmp(j)
  <2>1. CASE link[Tmp(j)] # None
    BY <1>1, <1>3, <2>1, FileStoreAssumption DEF Safe, Unique
  <2>2. CASE link[Tmp(j)] = None
    BY <1>1, <2>2, FileStoreAssumption DEF Free, Linked
  <2>3. QED BY <2>1, <2>2
<1>7. Unique'
  BY <1>5, <1>6 DEF Safe, Unique
<1> SUFFICES ASSUME alone' PROVE (Own /\ Apart /\ Ready /\ ShownWhole)'
  BY <1>7 DEF Safe
<1>8. alone /\ \A k \in Jobs : Writing(k) => Tmp(k) # Tmp(j)
  BY <1>2
<1>9. Own /\ Apart /\ Ready /\ ShownWhole
  BY <1>8 DEF Safe
\* Nobody else is writing to it.
<1>10. \A k \in Jobs : Writing(k) => job[k].file # i
  <2>1. CASE link[Tmp(j)] # None
    BY <1>1, <1>3, <1>8, <1>9, <2>1 DEF Own
  <2>2. CASE link[Tmp(j)] = None
    BY <1>1, <2>2 DEF Free, Held
  <2>3. QED BY <2>1, <2>2
<1>11. \A k \in Jobs : k # j => (Writing(k)' <=> Writing(k))
  BY <1>4 DEF Writing
<1>12. Own'
  <2>1. ASSUME NEW k \in Jobs, Writing(k)', k # j
        PROVE  /\ link'[Tmp(k)'] \in {job'[k].file, None}
               /\ \A n \in Names : link'[n] = job'[k].file => n = Tmp(k)'
    <3>1. /\ Writing(k) /\ Tmp(k)' = Tmp(k) /\ job'[k].file = job[k].file
          /\ Tmp(k) \in Names /\ Tmp(k) # Tmp(j) /\ job[k].file # i
      BY <1>4, <1>8, <1>10, <1>11, <2>1, NameTypes
    <3>2. QED BY <1>5, <1>9, <3>1 DEF Own
  <2>2. /\ link'[Tmp(j)'] \in {job'[j].file, None}
        /\ \A n \in Names : link'[n] = job'[j].file => n = Tmp(j)'
    BY <1>4, <1>5, <1>6
  <2>3. QED BY <2>1, <2>2 DEF Own
<1>13. Apart'
  BY <1>4, <1>8, <1>9, <1>11 DEF Apart
<1>14. Ready'
  <2> SUFFICES ASSUME NEW k \in Jobs, job'[k].pc = "rename"
               PROVE  job'[k].file \in whole'
    BY DEF Ready
  <2>1. k # j /\ job'[k] = job[k]
    BY <1>4
  <2>2. job[k].file \in whole /\ job[k].file # i
    BY <1>9, <1>10, <2>1 DEF Ready, Writing
  <2>3. QED BY <1>1, <2>1, <2>2
<1>15. ShownWhole'
  <2> SUFFICES ASSUME NEW n \in Names, n[3] = "json", link'[n] # None
               PROVE  link'[n] \in whole'
    BY DEF ShownWhole
  <2>1. n # Tmp(j)
    BY DEF Tmp
  <2>2. link'[n] = link[n] /\ link[n] \in whole /\ link[n] # i
    BY <1>5, <1>6, <1>9, <2>1 DEF ShownWhole
  <2>3. QED BY <1>1, <2>2
<1>16. QED BY <1>12, <1>13, <1>14, <1>15

LEMMA RenameStep ==
  ASSUME TypeInv, TypeInv', Safe, NEW j \in Jobs, Rename(j), link[Tmp(j)] # None
  PROVE  Safe'
<1>1. /\ link' = [link EXCEPT ![Shown(j)] = link[Tmp(j)], ![Tmp(j)] = None]
      /\ job' = [job EXCEPT ![j].pc = "ok"] /\ UNCHANGED <<whole, alone>>
      /\ job[j].pc = "rename"
  BY DEF Rename, GoTo
<1>2. /\ job \in [Jobs -> Job] /\ link \in [Names -> Inodes \cup {None}]
      /\ Tmp(j) \in Names /\ Shown(j) \in Names /\ Tmp(j) # Shown(j)
  BY NameTypes DEF TypeInv, TypeOK
<1>3. /\ link'[Shown(j)] = link[Tmp(j)] /\ link'[Tmp(j)] = None
      /\ \A n \in Names : n # Tmp(j) /\ n # Shown(j) => link'[n] = link[n]
  BY <1>1, <1>2
<1>4. /\ ~ Writing(j)' /\ job'[j].pc = "ok"
      /\ \A k \in Jobs : k # j => /\ job'[k] = job[k] /\ Tmp(k)' = Tmp(k)
                                  /\ Writing(k)' <=> Writing(k)
  BY <1>1, <1>2 DEF Writing, Tmp, Job
<1>5. Unique'
  <2>1. ASSUME NEW m \in Names, NEW n \in Names, link'[m] # None, link'[m] = link'[n]
        PROVE  m = n
    <3> DEFINE Old(x) == IF x = Shown(j) THEN Tmp(j) ELSE x
    <3>1. ASSUME NEW x \in Names, link'[x] # None
          PROVE  Old(x) \in Names /\ link'[x] = link[Old(x)] /\ x # Tmp(j)
      BY <1>2, <1>3, <3>1
    <3>2. n # Tmp(j) /\ m # Tmp(j) /\ link[Old(m)] # None /\ link[Old(m)] = link[Old(n)]
      BY <2>1, <3>1
    <3>3. Old(m) = Old(n)
      BY <2>1, <3>1, <3>2 DEF Safe, Unique
    <3>4. QED BY <3>2, <3>3
  <2>2. QED BY <2>1 DEF Unique
<1> SUFFICES ASSUME alone PROVE (Own /\ Apart /\ Ready /\ ShownWhole)'
  BY <1>1, <1>5 DEF Safe
<1>6. Own /\ Apart /\ Ready /\ ShownWhole
  BY DEF Safe
<1>7. Own'
  <2> SUFFICES ASSUME NEW k \in Jobs, Writing(k)'
               PROVE  /\ link'[Tmp(k)'] \in {job'[k].file, None}
                      /\ \A n \in Names : link'[n] = job'[k].file => n = Tmp(k)'
    BY DEF Own
  <2>1. /\ k # j /\ Writing(k) /\ Tmp(k)' = Tmp(k) /\ job'[k].file = job[k].file
        /\ Tmp(k) \in Names /\ Tmp(k) # Shown(j)
    <3>1. Tmp(k) # Shown(j)
      BY DEF Tmp, Shown
    <3>2. QED BY <1>4, <3>1, NameTypes
  <2>2. Tmp(k) # Tmp(j)
    BY <1>1, <1>6, <2>1 DEF Apart, Writing
  <2>3. job[k].file # None /\ job[k].file # link[Tmp(j)]
    BY <1>2, <1>6, <2>1, <2>2, FileStoreAssumption DEF Own, TypeInv
  <2>4. QED BY <1>3, <1>6, <2>1, <2>2, <2>3 DEF Own
<1>8. Apart'
  BY <1>4, <1>6 DEF Apart
<1>9. Ready'
  BY <1>1, <1>4, <1>6 DEF Ready
<1>10. ShownWhole'
  <2>1. link[Tmp(j)] \in whole
    BY <1>1, <1>6 DEF Own, Ready, Writing
  <2> SUFFICES ASSUME NEW n \in Names, n[3] = "json", link'[n] # None
               PROVE  link'[n] \in whole'
    BY DEF ShownWhole
  <2>2. n # Tmp(j)
    BY DEF Tmp
  <2>3. CASE n = Shown(j)
    BY <1>1, <1>3, <2>1, <2>3
  <2>4. CASE n # Shown(j)
    <3>1. link'[n] = link[n]
      BY <1>3, <2>2, <2>4
    <3>2. QED BY <1>1, <1>6, <3>1 DEF ShownWhole
  <2>5. QED BY <2>3, <2>4
<1>11. QED BY <1>7, <1>8, <1>9, <1>10

LEMMA SafeStep ==
  ASSUME TypeInv, Safe, [Next]_vars PROVE Safe'
<1>1. TypeInv'
  BY NextType
<1>2. ASSUME NEW j \in Jobs, Open(j), job[j].dir \in made PROVE Safe'
  BY <1>1, <1>2, OpenStep
<1>3. ASSUME NEW j \in Jobs, Rename(j), link[Tmp(j)] # None PROVE Safe'
  BY <1>1, <1>3, RenameStep
<1>4. ASSUME ~ \E j \in Jobs : Open(j) /\ job[j].dir \in made,
             ~ \E j \in Jobs : Rename(j) /\ link[Tmp(j)] # None
      PROVE  Safe'
  <2>1. /\ alone' = alone /\ whole \subseteq whole'
        /\ \A n \in Names : link'[n] \in {link[n], None}
    <3>1. ASSUME NEW j \in Jobs,
                 \/ Call(j) \/ Mkdir(j) \/ WriteFails(j) \/ ListDir(j)
                 \/ PruneList(j) \/ PruneDone(j) \/ Return(j)
          PROVE  UNCHANGED <<link, whole, alone>>
      BY <3>1, FilesKept
    <3>2. ASSUME NEW j \in Jobs, Open(j) PROVE UNCHANGED <<link, whole, alone>>
      BY <1>4, <3>2, OpenShape
    <3>3. ASSUME NEW j \in Jobs, Rename(j) PROVE UNCHANGED <<link, whole, alone>>
      BY <1>4, <3>3 DEF Rename
    <3>4. ASSUME NEW j \in Jobs, Stat(j) \/ Rmdir(j)
          PROVE  UNCHANGED <<link, whole, alone>>
      BY <3>4 DEF Stat, Answer, Rmdir
    <3>5. ASSUME NEW j \in Jobs, Write(j)
          PROVE  UNCHANGED <<link, alone>> /\ whole \subseteq whole'
      BY <3>5 DEF Write
    <3>6. ASSUME NEW j \in Jobs, Unlink(j) \/ PruneUnlink(j)
          PROVE  /\ UNCHANGED <<whole, alone>>
                 /\ \A n \in Names : link'[n] \in {link[n], None}
      <4>1. PICK e \in Captures \X {"json", "tmp"} : Remove(job[j].dir, e)
        BY <3>6, UnlinkShape
      <4>2. QED BY <3>6, <4>1, NameTypes, RemoveShape, UnlinkShape
    <3>7. ASSUME Crash \/ UNCHANGED vars PROVE UNCHANGED <<link, whole, alone>>
      BY <3>7 DEF Crash, vars
    <3>8. QED BY <3>1, <3>2, <3>3, <3>4, <3>5, <3>6, <3>7 DEF Next
  <2>2. ASSUME NEW k \in Jobs, Writing(k)'
        PROVE  /\ Writing(k) /\ job'[k].file = job[k].file /\ Tmp(k)' = Tmp(k)
               /\ job'[k].pc = "rename" =>
                    job[k].pc = "rename" \/ job[k].file \in whole'
    BY <1>4, <2>2, StillWriting DEF Tmp, Write
  <2>3. QED BY <1>1, <2>1, <2>2, QuietStep
<1>5. QED BY <1>2, <1>3, <1>4

\* Unless two saves of one capture overlap, no reader meets part of a snapshot,
\* whatever writes fail and wherever the process dies (Save, file.go).
THEOREM NoTornSnapshot == Spec => []VisibleIsWhole
<1>1. Init => TypeInv /\ Safe
  <2> SUFFICES ASSUME Init PROVE TypeInv /\ Safe
    OBVIOUS
  <2>1. \A j \in Jobs : job[j].pc = "idle"
    BY IdleJobType DEF Init
  <2>2. Own /\ Apart /\ Ready
    BY <2>1 DEF Own, Apart, Ready, Writing
  <2>3. Unique /\ ShownWhole
    BY DEF Init, Unique, ShownWhole
  <2>4. QED BY <2>2, <2>3, InitType DEF Safe
<1>2. TypeInv /\ Safe /\ [Next]_vars => (TypeInv /\ Safe)'
  BY NextType, SafeStep
<1>3. TypeInv /\ Safe => VisibleIsWhole
  <2> SUFFICES ASSUME TypeInv, Safe, alone, NEW d \in Dirs, NEW at \in Json(d)
               PROVE  link[<<d, at, "json">>] \in whole
    BY DEF VisibleIsWhole
  <2>1. <<d, at, "json">> \in Names /\ link[<<d, at, "json">>] # None
    BY DEF Json, Names
  <2>2. QED BY <2>1 DEF Safe, ShownWhole
<1>4. QED BY <1>1, <1>2, <1>3, PTL DEF Spec

-----------------------------------------------------------------------------
(* The files are a snapshot store.                                         *)

\* What a prune still has to unlink is older than something in the directory,
\* unless a forget has been at it.
Listed == \A j \in Jobs : job[j].pc = "pruneUnlink" /\ job[j].kept =>
            \A e \in job[j].todo : \E newer \in Json(job[j].dir) : newer > e[1]

Unlinking(j, e) ==
  /\ Remove(job[j].dir, e)
  /\ \A k \in Jobs :
       /\ job'[k].pc = job[k].pc /\ job'[k].dir = job[k].dir
       /\ job'[k].todo \subseteq job[k].todo

LEMMA ForgetUnlinks ==
  ASSUME TypeInv, NEW j \in Jobs, Unlink(j)
  PROVE  /\ job[j].pc = "unlink"
         /\ \E e \in Captures \X {"json", "tmp"} : Unlinking(j, e)
         /\ \A k \in Jobs : job'[k].kept => job[k].kept /\ job[k].dir # job[j].dir
<1>1. PICK e \in job[j].todo :
        /\ Remove(job[j].dir, e)
        /\ job' = [k \in Jobs |->
             [job[k] EXCEPT !.todo = IF k = j THEN @ \ {e} ELSE @,
                            !.kept = @ /\ job[k].dir # job[j].dir]]
  BY DEF Unlink
<1>2. e \in Captures \X {"json", "tmp"}
  BY NameTypes DEF Job
<1>3. ASSUME NEW k \in Jobs
      PROVE  /\ job'[k].pc = job[k].pc /\ job'[k].dir = job[k].dir
             /\ job'[k].todo \subseteq job[k].todo
             /\ job'[k].kept => job[k].kept /\ job[k].dir # job[j].dir
  <2> DEFINE todo == IF k = j THEN job[k].todo \ {e} ELSE job[k].todo
             kept == job[k].kept /\ job[k].dir # job[j].dir
  <2>1. job'[k] = [job[k] EXCEPT !.todo = todo, !.kept = kept]
    BY <1>1
  <2>2. todo \subseteq job[k].todo /\ (kept => job[k].kept /\ job[k].dir # job[j].dir)
    OBVIOUS
  <2> HIDE DEF todo, kept
  <2>3. /\ job'[k].pc = job[k].pc /\ job'[k].dir = job[k].dir
        /\ job'[k].todo = todo /\ job'[k].kept = kept
    BY <2>1, NameTypes DEF Job
  <2>4. QED BY <2>2, <2>3
<1>4. QED BY <1>1, <1>2, <1>3 DEF Unlinking, Unlink

LEMMA PruneUnlinks ==
  ASSUME TypeInv, NEW j \in Jobs, PruneUnlink(j)
  PROVE  /\ job[j].pc = "pruneUnlink"
         /\ \E e \in job[j].todo : e \in Captures \X {"json", "tmp"} /\ Unlinking(j, e)
         /\ \A k \in Jobs :
              job'[k].kept = (job[k].kept /\ (job[k].dir = job[j].dir => job[j].kept))
<1>1. PICK e \in job[j].todo :
        /\ Remove(job[j].dir, e)
        /\ job' = [k \in Jobs |->
             [job[k] EXCEPT !.todo = IF k = j THEN @ \ {e} ELSE @,
                            !.kept = @ /\ (job[k].dir = job[j].dir => job[j].kept)]]
  BY DEF PruneUnlink
<1>2. e \in Captures \X {"json", "tmp"}
  BY NameTypes DEF Job
<1>3. ASSUME NEW k \in Jobs
      PROVE  /\ job'[k].pc = job[k].pc /\ job'[k].dir = job[k].dir
             /\ job'[k].todo \subseteq job[k].todo
             /\ job'[k].kept = (job[k].kept /\ (job[k].dir = job[j].dir => job[j].kept))
  <2> DEFINE todo == IF k = j THEN job[k].todo \ {e} ELSE job[k].todo
             kept == job[k].kept /\ (job[k].dir = job[j].dir => job[j].kept)
  <2>1. job'[k] = [job[k] EXCEPT !.todo = todo, !.kept = kept]
    BY <1>1
  <2>2. todo \subseteq job[k].todo
    OBVIOUS
  <2> HIDE DEF todo, kept
  <2>3. /\ job'[k].pc = job[k].pc /\ job'[k].dir = job[k].dir
        /\ job'[k].todo = todo /\ job'[k].kept = kept
    BY <2>1, NameTypes DEF Job
  <2>4. QED BY <2>2, <2>3 DEF kept
<1>4. QED BY <1>1, <1>2, <1>3 DEF Unlinking, PruneUnlink

\* Unlinking takes at most the one snapshot away.
LEMMA Unlinked ==
  ASSUME TypeInv, NEW j \in Jobs, NEW e \in Captures \X {"json", "tmp"}, Unlinking(j, e),
         NEW d \in Dirs
  PROVE  /\ Json(d)' \subseteq Json(d) /\ Json(d) \subseteq Json(d)' \cup {e[1]}
         /\ d # job[j].dir => Json(d)' = Json(d)
<1>1. link' = [link EXCEPT ![<<job[j].dir, e[1], e[2]>>] = None]
  BY DEF Unlinking, Remove
<1>2. /\ <<job[j].dir, e[1], e[2]>> \in Names
      /\ \A at \in Captures : <<d, at, "json">> \in Names
  BY NameTypes DEF Names
<1>3. QED BY <1>1, <1>2 DEF Json, TypeInv, TypeOK

\* The other steps take none.
LEMMA NoneUnlinked ==
  ASSUME TypeInv, [Next]_vars, ~ \E j \in Jobs : Unlink(j) \/ PruneUnlink(j)
  PROVE  /\ \A d \in Dirs : Json(d) \subseteq Json(d)'
         /\ \/ \A d \in Dirs : Json(d)' = Json(d)
            \/ \E j \in Jobs : Rename(j) /\ link[Tmp(j)] # None
<1>1. ASSUME UNCHANGED link PROVE \A d \in Dirs : Json(d)' = Json(d)
  BY <1>1 DEF Json
<1>2. ASSUME NEW j \in Jobs, Open(j), job[j].dir \in made
      PROVE  \A d \in Dirs : Json(d)' = Json(d)
  <2>1. PICK i \in Inodes : link' = [link EXCEPT ![Tmp(j)] = i]
    BY <1>2, OpenShape
  <2>2. \A d \in Dirs, at \in Captures :
          /\ <<d, at, "json">> \in Names /\ <<d, at, "json">> # Tmp(j)
    BY DEF Names, Tmp
  <2>3. QED BY <2>1, <2>2 DEF Json, TypeInv, TypeOK
<1>3. ASSUME NEW j \in Jobs, Rename(j), link[Tmp(j)] # None
      PROVE  \A d \in Dirs : Json(d) \subseteq Json(d)'
  <2>1. link' = [link EXCEPT ![Shown(j)] = link[Tmp(j)], ![Tmp(j)] = None]
    BY <1>3 DEF Rename
  <2>2. \A d \in Dirs, at \in Captures :
          /\ <<d, at, "json">> \in Names /\ <<d, at, "json">> # Tmp(j)
    BY DEF Names, Tmp
  <2>3. QED BY <1>3, <2>1, <2>2 DEF Json, TypeInv, TypeOK
<1>4. ASSUME ~ \E j \in Jobs : Open(j) /\ job[j].dir \in made,
             ~ \E j \in Jobs : Rename(j) /\ link[Tmp(j)] # None
      PROVE  UNCHANGED link
  <2>1. ASSUME NEW j \in Jobs, Open(j) PROVE UNCHANGED link
    BY <1>4, <2>1, OpenShape
  <2>2. ASSUME NEW j \in Jobs, Rename(j) PROVE UNCHANGED link
    BY <1>4, <2>2 DEF Rename
  <2>3. QED BY <2>1, <2>2, FilesKept DEF Next, Stat, Answer, Write, Rmdir, Crash, vars
<1>5. QED BY <1>1, <1>2, <1>3, <1>4

\* A prune under way is one that has just listed, or was under way before.
LEMMA StillPruning ==
  ASSUME TypeInv, [Next]_vars, NEW k \in Jobs,
         job'[k].pc = "pruneUnlink", job'[k].kept
  PROVE  \/ PruneList(k)
         \/ /\ job[k].pc = "pruneUnlink" /\ job[k].kept
            /\ job'[k].dir = job[k].dir /\ job'[k].todo \subseteq job[k].todo
<1> DEFINE Same == /\ job[k].pc = "pruneUnlink" /\ job[k].kept
                   /\ job'[k].dir = job[k].dir /\ job'[k].todo \subseteq job[k].todo
<1>0. job \in [Jobs -> Job] /\ job[k] \in Job
  BY DEF TypeInv, TypeOK
<1>1. ASSUME NEW j \in Jobs,
             \/ Mkdir(j) \/ Stat(j) \/ Write(j) \/ WriteFails(j) \/ Rename(j)
             \/ Rmdir(j) \/ PruneDone(j)
      PROVE  Same
  <2>1. \E pc \in PCs \ {"pruneUnlink"} : GoTo(j, pc)
    BY <1>1 DEF Mkdir, Stat, Answer, Write, WriteFails, Rename, Rmdir, PruneDone, PCs
  <2>2. QED BY <1>0, <2>1 DEF GoTo, Job
<1>2. ASSUME NEW j \in Jobs, Call(j) PROVE Same
  <2>1. PICK op \in Ops, d \in Dirs, at \in Captures :
          job' = [job EXCEPT ![j] = [IdleJob EXCEPT
                    !.op = op, !.dir = d, !.at = at,
                    !.pc = CASE op = "save" -> "mkdir" [] op = "forget" -> "list"
                             [] OTHER -> "pruneList"]]
    BY <1>2 DEF Call
  <2>2. k # j => job'[k] = job[k]
    BY <1>0, <2>1
  <2>3. ASSUME k = j PROVE job'[k].pc \in {"mkdir", "list", "pruneList"}
    BY <1>0, <2>1, <2>3, IdleJobType DEF Job
  <2>4. QED BY <2>2, <2>3
<1>3. ASSUME NEW j \in Jobs, Open(j) PROVE Same
  <2>1. \/ job' = [job EXCEPT ![j].pc = "error"]
        \/ \E i \in Inodes : job' = [job EXCEPT ![j].pc = "write", ![j].file = i]
    BY <1>3, OpenShape
  <2>2. QED BY <1>0, <2>1 DEF Job
<1>4. ASSUME NEW j \in Jobs, ListDir(j) PROVE Same
  BY <1>0, <1>4 DEF ListDir, Job
<1>5. ASSUME NEW j \in Jobs, Unlink(j) PROVE Same
  BY <1>5, ForgetUnlinks DEF Unlinking
<1>6. ASSUME NEW j \in Jobs, PruneUnlink(j) PROVE Same
  BY <1>6, PruneUnlinks DEF Unlinking
<1>7. ASSUME NEW j \in Jobs, PruneList(j), j # k PROVE Same
  BY <1>0, <1>7 DEF PruneList
<1>8. ASSUME NEW j \in Jobs, Return(j) PROVE Same
  BY <1>0, <1>8, IdleJobType DEF Return
<1>9. CASE Crash
  BY <1>9, IdleJobType DEF Crash
<1>10. CASE UNCHANGED vars
  BY <1>10 DEF vars
<1>11. QED BY <1>1, <1>2, <1>3, <1>4, <1>5, <1>6, <1>7, <1>8, <1>9, <1>10 DEF Next

LEMMA ListedStep ==
  ASSUME TypeInv, Listed, [Next]_vars PROVE Listed'
<1> SUFFICES ASSUME NEW k \in Jobs, job'[k].pc = "pruneUnlink", job'[k].kept,
                    NEW e \in job'[k].todo, NEW d \in Dirs, job'[k].dir = d
             PROVE  \E newer \in Json(d)' : newer > e[1]
  BY NextType DEF Listed, TypeInv, TypeOK, Job, Json
<1>1. CASE PruneList(k)
  <2>1. /\ job'[k].dir = job[k].dir
        /\ \E newer \in Json(job[k].dir) : newer > e[1]
    <3> DEFINE old == {at \in Json(job[k].dir) :
                         /\ at < job[k].at
                         /\ \E newer \in Json(job[k].dir) : newer > at} \X {"json"}
               pc == IF job[k].dir \in made THEN "pruneUnlink" ELSE "error"
    <3>1. job' = [job EXCEPT ![k].pc = pc, ![k].kept = TRUE, ![k].todo = old]
      BY <1>1 DEF PruneList
    <3>2. \A x \in old : \E newer \in Json(job[k].dir) : newer > x[1]
      OBVIOUS
    <3> HIDE DEF old, pc
    <3>3. job'[k].dir = job[k].dir /\ job'[k].todo = old
      BY <3>1, NameTypes DEF TypeInv, TypeOK, Job
    <3>4. QED BY <3>2, <3>3
  <2>2. UNCHANGED link
    BY <1>1 DEF PruneList
  <2>3. Json(d)' = Json(d)
    BY <2>2 DEF Json
  <2>4. QED BY <2>1, <2>3
<1>2. CASE ~ PruneList(k)
  <2>1. /\ job[k].pc = "pruneUnlink" /\ job[k].kept
        /\ job[k].dir = d /\ job'[k].todo \subseteq job[k].todo
    BY <1>2, StillPruning
  <2>2. PICK newer \in Json(d) : newer > e[1]
    BY <2>1 DEF Listed
  <2>3. CASE ~ \E j \in Jobs : Unlink(j) \/ PruneUnlink(j)
    BY <2>2, <2>3, NoneUnlinked
  <2>4. ASSUME NEW j \in Jobs, Unlink(j) PROVE newer \in Json(d)'
    <3>1. job[k].dir # job[j].dir
      BY <2>4, ForgetUnlinks
    <3>2. QED BY <2>1, <2>2, <2>4, <3>1, ForgetUnlinks, Unlinked
  <2>5. ASSUME NEW j \in Jobs, PruneUnlink(j)
        PROVE  \E n \in Json(d)' : n > e[1]
    <3>1. PICK f \in job[j].todo :
            f \in Captures \X {"json", "tmp"} /\ Unlinking(j, f)
      BY <2>5, PruneUnlinks
    <3>2. CASE d # job[j].dir \/ newer # f[1]
      BY <2>2, <3>1, <3>2, Unlinked
    <3>3. CASE d = job[j].dir /\ newer = f[1]
      <4>1. job[j].pc = "pruneUnlink" /\ job[j].kept
        BY <2>1, <2>5, <3>3, PruneUnlinks
      <4>2. PICK n \in Json(d) : n > f[1]
        BY <3>1, <3>3, <4>1 DEF Listed
      <4>3. n \in Nat /\ f[1] \in Nat /\ e[1] \in Nat
        BY <2>1, <3>1, <4>2, NameTypes, FileStoreAssumption DEF Json, Job
      <4>4. n # f[1] /\ n > e[1]
        BY <2>2, <3>3, <4>2, <4>3
      <4>5. QED BY <3>1, <4>2, <4>4, Unlinked
    <3>4. QED BY <3>2, <3>3
  <2>6. QED BY <2>2, <2>3, <2>4, <2>5
<1>3. QED BY <1>1, <1>2

LEMMA RenameSaves ==
  ASSUME TypeInv, [Next]_vars, NEW j \in Jobs, Rename(j), link[Tmp(j)] # None
  PROVE  Store!Save
<1>1. /\ link' = [link EXCEPT ![Shown(j)] = link[Tmp(j)], ![Tmp(j)] = None]
      /\ job' = [job EXCEPT ![j].pc = "ok"] /\ job[j].pc = "rename"
  BY DEF Rename, GoTo
<1>2. PICK dir \in Dirs, at \in Captures : dir = job[j].dir /\ at = job[j].at
  BY NameTypes
<1>3. \A d \in Dirs, a \in Captures :
        /\ <<d, a, "json">> \in Names /\ <<d, a, "json">> # Tmp(j)
        /\ <<d, a, "json">> = Shown(j) <=> d = dir /\ a = at
  BY <1>2 DEF Names, Tmp, Shown
<1>4. \A d \in Dirs, a \in Captures :
        link'[<<d, a, "json">>] = IF d = dir /\ a = at THEN link[Tmp(j)]
                                  ELSE link[<<d, a, "json">>]
  BY <1>1, <1>3 DEF TypeInv, TypeOK
<1>5. /\ Json(dir)' = Json(dir) \cup {at}
      /\ \A d \in Dirs \ {dir} : Json(d)' = Json(d)
  BY <1>4 DEF Json
<1>6. Json(dir)' \subseteq Nat /\ Json(dir) \subseteq Nat
  BY FileStoreAssumption DEF Json
<1>7. Store!Spares(Json(dir), Json(dir)')
  BY <1>5, <1>6 DEF Store!Spares
<1>8. Forgetting' = Forgetting
  <2>1. \A k \in Jobs : k # j => job'[k] = job[k]
    BY <1>1 DEF TypeInv, TypeOK
  <2>2. job'[j].pc = "ok"
    BY <1>1, NameTypes DEF TypeInv, TypeOK, Job
  <2>3. QED BY <1>1, <2>1, <2>2 DEF Forgetting
<1>9. \A new, other \in Json(dir)' \ Json(dir) : new = other
  BY <1>5
<1>10. QED BY <1>5, <1>6, <1>7, <1>8, <1>9 DEF Store!Save

LEMMA UnlinkForgets ==
  ASSUME TypeInv, NEW j \in Jobs, NEW e \in Captures \X {"json", "tmp"},
         Unlinking(j, e), job[j].dir \in Forgetting
  PROVE  Store!Forget
<1>1. \A d \in Dirs : /\ Json(d)' \subseteq Json(d)
                      /\ d \notin Forgetting => Json(d)' = Json(d)
  BY Unlinked
<1>2. QED BY <1>1 DEF Store!Forget

LEMMA UnlinkPrunes ==
  ASSUME TypeInv, Listed, NEW j \in Jobs, PruneUnlink(j), job[j].kept
  PROVE  Store!Prune
<1>1. PICK e \in job[j].todo :
        e \in Captures \X {"json", "tmp"} /\ Unlinking(j, e)
  BY PruneUnlinks
<1>2. PICK n \in Json(job[j].dir) : n > e[1]
  BY PruneUnlinks DEF Listed
<1>3. ASSUME NEW d \in Dirs
      PROVE  Json(d)' \subseteq Json(d) /\ Store!Spares(Json(d), Json(d)')
  <2>1. Json(d) \subseteq Nat /\ e[1] \in Nat
    BY <1>1, FileStoreAssumption DEF Json
  <2>2. Json(d)' \subseteq Json(d) /\ Json(d) \subseteq Json(d)' \cup {e[1]}
    BY <1>1, Unlinked
  <2>3. CASE d = job[j].dir
    <3>1. n \in Nat /\ n \in Json(d)'
      BY <1>2, <2>1, <2>2, <2>3
    <3>2. QED BY <1>2, <2>1, <2>2, <3>1 DEF Store!Spares
  <2>4. CASE d # job[j].dir
    BY <1>1, <2>1, <2>4, Unlinked DEF Store!Spares
  <2>5. QED BY <2>2, <2>3, <2>4
<1>4. Forgetting' = Forgetting
  <2>1. \A k \in Jobs : /\ job'[k].pc = job[k].pc /\ job'[k].dir = job[k].dir
                        /\ job'[k].kept = job[k].kept
    <3>1. \A k \in Jobs : job'[k].pc = job[k].pc /\ job'[k].dir = job[k].dir
      BY <1>1 DEF Unlinking
    <3>2. \A k \in Jobs :
            /\ job[k].kept \in BOOLEAN
            /\ job'[k].kept = (job[k].kept /\ (job[k].dir = job[j].dir => job[j].kept))
      BY PruneUnlinks, NameTypes DEF Job
    <3>3. QED BY <3>1, <3>2, Zenon
  <2>2. QED BY <2>1 DEF Forgetting
<1>5. QED BY <1>3, <1>4 DEF Store!Prune

\* Saves, forgets and prunes in flight at once, and crashes, make a snapshot
\* store of the files: a prune by a listing that others have overtaken still
\* leaves each village its newest, unless a forget has been at it (Store.Prune).
THEOREM FilesImplementStore == Spec => ImplementsStore
<1>1. Init => TypeInv /\ Listed /\ Store!Init
  <2> SUFFICES ASSUME Init PROVE TypeInv /\ Listed /\ Store!Init
    OBVIOUS
  <2>1. \A j \in Jobs : job[j].pc = "idle"
    BY IdleJobType DEF Init
  <2>2. \A d \in Dirs : Json(d) = {}
    BY DEF Init, Json, Names
  <2>3. QED BY <2>1, <2>2, InitType DEF Listed, Forgetting, Store!Init
<1>2. TypeInv /\ Listed /\ [Next]_vars => (TypeInv /\ Listed)'
  BY NextType, ListedStep
<1>3. TypeInv /\ Listed /\ [Next]_vars => [Store!Next]_(Store!vars)
  <2> SUFFICES ASSUME TypeInv, Listed, [Next]_vars PROVE Store!Next
    OBVIOUS
  <2>1. ASSUME NEW j \in Jobs, Unlink(j) PROVE Store!Next
    <3>1. job[j].dir \in Forgetting
      BY <2>1, NameTypes DEF Unlink, Forgetting
    <3>2. QED BY <2>1, <3>1, ForgetUnlinks, UnlinkForgets DEF Store!Next
  <2>2. ASSUME NEW j \in Jobs, PruneUnlink(j), ~ job[j].kept PROVE Store!Next
    <3>1. job[j].dir \in Forgetting
      BY <2>2, NameTypes DEF PruneUnlink, Forgetting
    <3>2. QED BY <2>2, <3>1, PruneUnlinks, UnlinkForgets DEF Store!Next
  <2>3. ASSUME NEW j \in Jobs, PruneUnlink(j), job[j].kept PROVE Store!Next
    BY <2>3, UnlinkPrunes DEF Store!Next
  <2>4. ASSUME NEW j \in Jobs, Rename(j), link[Tmp(j)] # None PROVE Store!Next
    BY <2>4, RenameSaves DEF Store!Next
  <2>5. CASE \A d \in Dirs : Json(d)' = Json(d)
    <3>1. Forgetting' \subseteq Dirs
      BY DEF Forgetting
    <3>2. [d \in Dirs |-> Json(d)]' = [d \in Dirs |-> Json(d)]
      BY <2>5
    <3>3. QED BY <3>1, <3>2 DEF Store!Next, Store!Turn
  <2>6. QED BY <2>1, <2>2, <2>3, <2>4, <2>5, NoneUnlinked
<1>4. QED BY <1>1, <1>2, <1>3, PTL DEF Spec, ImplementsStore, Store!Spec
=============================================================================
