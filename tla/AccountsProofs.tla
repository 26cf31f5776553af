---------------------------- MODULE AccountsProofs ----------------------------
(***************************************************************************)
(* Theorems about Accounts for every number of requests, users and         *)
(* sessions.                                                               *)
(***************************************************************************)
EXTENDS Accounts, FiniteSetTheorems, TLAPS

\* A request is about somebody, and sends a cookie it was given, where its
\* handler relies on it; a sign-in past the first call has a row.
Placed == \A j \in Requests :
  /\ job[j].pc = "idle" => job[j] = IdleJob
  /\ job[j].pc \in {"upsert", "grant", "session", "count", "setRole",
                    "required", "roleOf"} => job[j].user \in Users
  /\ job[j].pc \in {"grant", "session"} => role[job[j].user] # "none"
  /\ job[j].pc \in {"delete", "who", "required", "roleOf"} =>
       job[j].token \in issued
  /\ job[j].pc = "who" => job[j].kind \in {"use", "board"}

TypeInv == TypeOK /\ Placed

LEMMA IdleJobType == IdleJob \in Job /\ IdleJob.pc = "idle" /\ IdleJob.over = FALSE
                     /\ IdleJob.user = None /\ IdleJob.fresh = FALSE
<1>1. (CHOOSE u \in Users : TRUE) \in Users
  BY AccountsAssumption
<1>2. QED BY <1>1 DEF IdleJob, Job, PCs, Kinds, Roles

LEMMA InitType == Init => TypeInv
BY IdleJobType DEF Init, TypeInv, TypeOK, Placed

LEMMA UserType ==
  ASSUME TypeInv, NEW t \in Tokens
  PROVE  /\ User(t) \in Users \cup {None}
         /\ User(t) # None => User(t) = holder[t] /\ role[User(t)] # "none"
BY DEF User, TypeInv, TypeOK

\* Steps that move a request on and touch nothing else of it.
LEMMA GoToType ==
  ASSUME TypeInv, NEW j \in Requests, NEW pc \in PCs, GoTo(j, pc),
         UNCHANGED <<rows, now, issued, born, out, demoted, halfway>>,
         pc # "idle", pc \notin {"upsert", "grant", "session", "delete", "who"},
         pc \in {"count", "setRole", "required", "roleOf"} => job[j].user \in Users,
         pc \in {"required", "roleOf"} => job[j].token \in issued
  PROVE  TypeInv'
BY DEF GoTo, rows, TypeInv, TypeOK, Placed, Job

LEMMA NextType ==
  ASSUME TypeInv, [Next]_vars PROVE TypeInv'
<1>0. /\ job \in [Requests -> Job] /\ role \in [Users -> Roles \cup {"none"}]
      /\ issued \subseteq Tokens
  BY DEF TypeInv, TypeOK
<1>1. ASSUME NEW j \in Requests,
             \/ SignInFails(j) \/ LogoutFails(j) \/ WhoRefused(j) \/ Count(j)
             \/ SetRoleFails(j) \/ RequiredRole(j) \/ RoleOf(j)
      PROVE  TypeInv'
  <2>1. UNCHANGED <<rows, now, issued, born, out, demoted, halfway>>
    BY <1>1 DEF SignInFails, LogoutFails, WhoRefused, Count, SetRoleFails, RequiredRole,
         RoleOf
  <2>2. \/ \E pc \in {"ok", "error", "refused", "granted"} : GoTo(j, pc)
        \/ job[j].pc = "count" /\ GoTo(j, "setRole")
        \/ job[j].pc = "required" /\ GoTo(j, "roleOf")
    BY <1>1 DEF SignInFails, LogoutFails, WhoRefused, Count, SetRoleFails, RequiredRole,
         RoleOf
  <2>3. QED BY <2>1, <2>2, GoToType DEF PCs, TypeInv, Placed
<1>2. ASSUME NEW j \in Requests, Begin(j) PROVE TypeInv'
  <2>1. /\ job[j] = IdleJob /\ IdleJob \in Job
        /\ UNCHANGED <<rows, now, issued, born, out, demoted, halfway>>
    BY <1>2, IdleJobType DEF Begin, TypeInv, Placed
  <2>2. ASSUME NEW u \in Users, NEW e \in Emails[u],
               job' = [job EXCEPT ![j].pc = "upsert", ![j].kind = "signIn", ![j].user = u,
                                  ![j].email = e]
        PROVE  job' \in [Requests -> Job] /\ Placed'
    <3>1. [IdleJob EXCEPT !.pc = "upsert", !.kind = "signIn", !.user = u, !.email = e]
            \in Job
      BY <2>1 DEF Job, PCs, Kinds, Addresses
    <3>2. job' = [job EXCEPT ![j] =
             [IdleJob EXCEPT !.pc = "upsert", !.kind = "signIn", !.user = u, !.email = e]]
      BY <1>0, <2>1, <2>2
    <3>3. QED BY <1>0, <2>1, <3>1, <3>2 DEF rows, TypeInv, Placed, Job
  <2>3. ASSUME NEW t \in issued, NEW kind \in {"signOut", "use"}, NEW pc \in {"who", "delete"},
               NEW over \in BOOLEAN, pc = "who" => kind = "use",
               job' = [job EXCEPT ![j].pc = pc, ![j].kind = kind, ![j].token = t,
                                  ![j].over = over]
        PROVE  job' \in [Requests -> Job] /\ Placed'
    <3>1. [IdleJob EXCEPT !.pc = pc, !.kind = kind, !.token = t, !.over = over] \in Job
      BY <1>0, <2>1 DEF Job, PCs, Kinds
    <3>2. job' = [job EXCEPT ![j] =
             [IdleJob EXCEPT !.pc = pc, !.kind = kind, !.token = t, !.over = over]]
      BY <1>0, <2>1, <2>3
    <3>3. QED BY <1>0, <2>1, <2>3, <3>1, <3>2 DEF rows, TypeInv, Placed, Job
  <2>4. ASSUME NEW t \in issued, NEW u \in Users, NEW r \in Roles, NEW over \in BOOLEAN,
               job' = [job EXCEPT ![j].pc = "who", ![j].kind = "board", ![j].token = t,
                                  ![j].over = over, ![j].target = u, ![j].role = r]
        PROVE  job' \in [Requests -> Job] /\ Placed'
    <3>1. [IdleJob EXCEPT !.pc = "who", !.kind = "board", !.token = t, !.over = over,
                          !.target = u, !.role = r] \in Job
      BY <1>0, <2>1 DEF Job, PCs, Kinds
    <3>2. job' = [job EXCEPT ![j] =
             [IdleJob EXCEPT !.pc = "who", !.kind = "board", !.token = t, !.over = over,
                             !.target = u, !.role = r]]
      BY <1>0, <2>1, <2>4
    <3>3. QED BY <1>0, <2>1, <3>1, <3>2 DEF rows, TypeInv, Placed, Job
  <2>5. \A t : Over(t) \in BOOLEAN
    BY DEF Over
  <2>6. job' \in [Requests -> Job] /\ Placed'
    <3>1. CASE \E u \in Users : \E e \in Emails[u] :
            job' = [job EXCEPT ![j].pc = "upsert", ![j].kind = "signIn", ![j].user = u,
                               ![j].email = e]
      BY <2>2, <3>1
    <3>2. CASE \E t \in issued, kind \in {"signOut", "use"} :
            job' = [job EXCEPT ![j].pc = IF kind = "use" THEN "who" ELSE "delete",
                               ![j].kind = kind, ![j].token = t, ![j].over = Over(t)]
      <4>1. PICK t \in issued, kind \in {"signOut", "use"} :
            job' = [job EXCEPT ![j].pc = IF kind = "use" THEN "who" ELSE "delete",
                               ![j].kind = kind, ![j].token = t, ![j].over = Over(t)]
        BY <3>2
      <4> DEFINE pc == IF kind = "use" THEN "who" ELSE "delete"
                 over == Over(t)
      <4>2. pc \in {"who", "delete"} /\ (pc = "who" => kind = "use") /\ over \in BOOLEAN
        BY <2>5
      <4>3. job' = [job EXCEPT ![j].pc = pc, ![j].kind = kind, ![j].token = t,
                               ![j].over = over]
        BY <4>1
      <4> HIDE DEF pc, over
      <4>4. t \in issued /\ kind \in {"signOut", "use"}
        OBVIOUS
      <4>5. QED BY <2>3, <4>2, <4>3, <4>4 DEF pc
    <3>3. CASE \E t \in issued, u \in Users, r \in Roles :
            job' = [job EXCEPT ![j].pc = "who", ![j].kind = "board", ![j].token = t,
                               ![j].over = Over(t), ![j].target = u, ![j].role = r]
      <4>1. PICK t \in issued, u \in Users, r \in Roles :
            job' = [job EXCEPT ![j].pc = "who", ![j].kind = "board", ![j].token = t,
                               ![j].over = Over(t), ![j].target = u, ![j].role = r]
        BY <3>3
      <4> DEFINE over == Over(t)
      <4>2. over \in BOOLEAN
        BY <2>5
      <4>3. job' = [job EXCEPT ![j].pc = "who", ![j].kind = "board", ![j].token = t,
                               ![j].over = over, ![j].target = u, ![j].role = r]
        BY <4>1
      <4> HIDE DEF over
      <4>4. QED BY <2>4, <4>2, <4>3
    <3>4. QED BY <1>2, <3>1, <3>2, <3>3 DEF Begin
  <2>7. QED BY <2>1, <2>6 DEF rows, TypeInv, TypeOK
<1>3. ASSUME NEW j \in Requests, Upsert(j) PROVE TypeInv'
  <2>1. job[j].user \in Users
    BY <1>3 DEF Upsert, TypeInv, Placed
  <2> DEFINE pc == IF IsAdminEmail(job[j].email) THEN "grant" ELSE "session"
  <2>2. pc \in {"grant", "session"} /\ pc \in PCs /\ job' = [job EXCEPT ![j].pc = pc]
    BY <1>3 DEF Upsert, AfterUpsert, GoTo, PCs
  <2> HIDE DEF pc
  <2>3. job' \in [Requests -> Job]
    BY <1>0, <2>2 DEF Job
  <2>4. /\ role' \in [Users -> Roles \cup {"none"}] /\ role'[job[j].user] # "none"
        /\ \A u \in Users : role[u] # "none" => role'[u] = role[u]
        /\ email' \in [Users -> Addresses \cup {None}] /\ halfway' \subseteq Users
    <3>1. job[j].email \in Addresses \cup {None}
      BY <1>0 DEF Job
    <3>2. QED BY <1>0, <1>3, <2>1, <3>1 DEF Upsert, Roles, TypeInv, TypeOK
  <2>5. UNCHANGED <<holder, expires, now, issued, born, out, demoted>>
    BY <1>3 DEF Upsert
  <2>6. Placed'
    BY <1>0, <2>1, <2>2, <2>4, <2>5, IdleJobType DEF TypeInv, Placed, Job
  <2>7. QED BY <2>3, <2>4, <2>5, <2>6 DEF TypeInv, TypeOK
<1>4. ASSUME NEW j \in Requests, Grant(j) PROVE TypeInv'
  <2>1. job[j].user \in Users /\ job' = [job EXCEPT ![j].pc = "session"]
    BY <1>4 DEF Grant, GoTo, TypeInv, Placed
  <2>2. job' \in [Requests -> Job]
    BY <1>0, <2>1 DEF Job, PCs
  <2>3. /\ role' \in [Users -> Roles \cup {"none"}]
        /\ \A u \in Users : role[u] # "none" => role'[u] # "none"
        /\ demoted' \subseteq Users /\ halfway' \subseteq Users
    BY <1>0, <1>4, <2>1 DEF Grant, Roles, TypeInv, TypeOK
  <2>4. UNCHANGED <<email, holder, expires, now, issued, born, out>> /\ job[j].pc = "grant"
    BY <1>4 DEF Grant
  <2>5. Placed'
    BY <1>0, <2>1, <2>3, <2>4, IdleJobType DEF TypeInv, Placed, Job
  <2>6. QED BY <2>2, <2>3, <2>4, <2>5 DEF TypeInv, TypeOK
<1>5. ASSUME NEW j \in Requests, IssueSession(j) PROVE TypeInv'
  <2>1. PICK t \in Tokens \ issued :
          /\ holder' = [holder EXCEPT ![t] = job[j].user]
          /\ expires' = [expires EXCEPT ![t] = now + Lifetime]
          /\ born' = [born EXCEPT ![t] = now]
          /\ issued' = issued \cup {t}
    BY <1>5 DEF IssueSession, Unissued
  <2>2. /\ job' = [job EXCEPT ![j].pc = "ok"]
        /\ UNCHANGED <<email, role, now, out, demoted>> /\ halfway' \subseteq halfway
        /\ job[j].user \in Users /\ role[job[j].user] # "none"
    BY <1>5 DEF IssueSession, GoTo, TypeInv, Placed
  <2>3. job' \in [Requests -> Job]
    BY <1>0, <2>2 DEF Job, PCs
  <2>4. Placed'
    BY <1>0, <2>1, <2>2, IdleJobType DEF TypeInv, Placed, Job
  <2>5. QED BY <2>1, <2>2, <2>3, <2>4, AccountsAssumption DEF TypeInv, TypeOK
<1>6. ASSUME NEW j \in Requests, Logout(j) PROVE TypeInv'
  <2>1. /\ job[j].token \in issued /\ job' = [job EXCEPT ![j].pc = "ok"]
        /\ UNCHANGED <<email, role, expires, now, issued, born, demoted, halfway>>
    BY <1>6 DEF Logout, GoTo, TypeInv, Placed
  <2>2. job' \in [Requests -> Job]
    BY <1>0, <2>1 DEF Job, PCs
  <2>3. Placed'
    BY <1>0, <2>1, IdleJobType DEF TypeInv, Placed, Job
  <2>4. QED BY <1>0, <1>6, <2>1, <2>2, <2>3 DEF Logout, TypeInv, TypeOK
<1>7. ASSUME NEW j \in Requests, Who(j) PROVE TypeInv'
  <2> DEFINE u == User(job[j].token)
             pc == IF job[j].kind = "use" THEN "required"
                   ELSE IF job[j].target = u /\ job[j].role # "admin"
                        THEN "count" ELSE "setRole"
  <2>1. job[j].token \in issued /\ u \in Users
    BY <1>0, <1>7, UserType DEF Who, Admitted, TypeInv, Placed
  <2>2. pc \in {"required", "count", "setRole"}
    OBVIOUS
  <2>3. job' = [job EXCEPT ![j].user = u, ![j].fresh = TRUE, ![j].pc = pc]
        /\ UNCHANGED <<rows, now, issued, born, out, demoted, halfway>>
    BY <1>7 DEF Who
  <2> HIDE DEF u, pc
  <2>4. job' \in [Requests -> Job]
    <3>1. [job[j] EXCEPT !.user = u, !.fresh = TRUE, !.pc = pc] \in Job
      BY <1>0, <2>1, <2>2 DEF Job, PCs
    <3>2. job' = [job EXCEPT ![j] =
                    [job[j] EXCEPT !.user = u, !.fresh = TRUE, !.pc = pc]]
      BY <1>0, <2>3
    <3>3. QED BY <1>0, <3>1, <3>2
  <2>5. Placed'
    BY <1>0, <2>1, <2>2, <2>3, IdleJobType DEF rows, TypeInv, Placed, Job
  <2>6. QED BY <2>3, <2>4, <2>5 DEF rows, TypeInv, TypeOK
<1>8. ASSUME NEW j \in Requests, CountFails(j) PROVE TypeInv'
  <2>1. job' \in [Requests -> Job]
    <3>1. [job[j] EXCEPT !.pc = "setRole", !.fresh = FALSE] \in Job
      BY <1>0 DEF Job, PCs
    <3>2. job' = [job EXCEPT ![j] = [job[j] EXCEPT !.pc = "setRole", !.fresh = FALSE]]
      BY <1>0, <1>8 DEF CountFails
    <3>3. QED BY <1>0, <3>1, <3>2
  <2>2. Placed'
    BY <1>0, <1>8, IdleJobType DEF CountFails, rows, TypeInv, Placed, Job
  <2>3. QED BY <1>8, <2>1, <2>2 DEF CountFails, rows, TypeInv, TypeOK
<1>9. ASSUME NEW j \in Requests, SetRole(j) PROVE TypeInv'
  <2>1. /\ job[j] \in Job /\ job[j].target \in Users /\ job[j].role \in Roles
    BY <1>0 DEF Job
  <2>2. /\ role' \in [Users -> Roles \cup {"none"}]
        /\ \A u \in Users : role[u] # "none" => role'[u] # "none"
        /\ demoted' \subseteq Users
    BY <1>0, <1>9, <2>1 DEF SetRole, Roles, TypeInv, TypeOK
  <2>3. /\ UNCHANGED <<email, holder, expires, now, issued, born, out, halfway>>
        /\ job[j].pc = "setRole"
    BY <1>9 DEF SetRole
  <2>4. ASSUME NEW k \in Requests
        PROVE  /\ job'[k] \in Job /\ job'[k].pc = (IF k = j THEN "ok" ELSE job[k].pc)
               /\ job'[k].user = job[k].user /\ job'[k].token = job[k].token
               /\ job'[k].kind = job[k].kind
               /\ job[k] = IdleJob /\ k # j => job'[k] = IdleJob
    <3> DEFINE pc == IF k = j THEN "ok" ELSE job[k].pc
               fresh == job[k].fresh /\ job[j].role = "admin"
    <3>1. job'[k] = [job[k] EXCEPT !.pc = pc, !.fresh = fresh]
      BY <1>9 DEF SetRole
    <3>2. pc \in PCs /\ fresh \in BOOLEAN /\ job[k] \in Job
      BY <1>0 DEF Job, PCs
    <3>3. job[k] = IdleJob /\ k # j => pc = job[k].pc /\ fresh = job[k].fresh
      BY IdleJobType
    <3> HIDE DEF pc, fresh
    <3>4. /\ job'[k] \in Job /\ job'[k].pc = pc
          /\ job'[k].user = job[k].user /\ job'[k].token = job[k].token
          /\ job'[k].kind = job[k].kind
      BY <3>1, <3>2 DEF Job
    <3>5. job[k] = IdleJob /\ k # j => job'[k] = IdleJob
      BY <3>1, <3>2, <3>3 DEF Job
    <3>6. QED BY <3>4, <3>5 DEF pc
  <2>5. job' \in [Requests -> Job]
    BY <1>9, <2>4 DEF SetRole
  <2>6. Placed'
    BY <2>2, <2>3, <2>4 DEF TypeInv, Placed
  <2>7. QED BY <2>2, <2>3, <2>5, <2>6 DEF TypeInv, TypeOK
<1>10. ASSUME NEW j \in Requests, Return(j) PROVE TypeInv'
  <2>1. job' \in [Requests -> Job]
    BY <1>0, <1>10, IdleJobType DEF Return
  <2>2. Placed'
    BY <1>0, <1>10, IdleJobType DEF Return, rows, TypeInv, Placed
  <2>3. QED BY <1>10, <2>1, <2>2 DEF Return, rows, TypeInv, TypeOK
<1>11. ASSUME Tick \/ UNCHANGED vars PROVE TypeInv'
  BY <1>11 DEF Tick, vars, rows, TypeInv, TypeOK, Placed
<1>12. QED
  BY <1>1, <1>2, <1>3, <1>4, <1>5, <1>6, <1>7, <1>8, <1>9, <1>10, <1>11 DEF Next

\* Every state of Accounts has its type: a session belongs to a row of users,
\* and one that was revoked is gone for good.
THEOREM TypeCorrect == Spec => []TypeOK
<1>1. Init => TypeInv
  BY InitType
<1>2. TypeInv /\ [Next]_vars => TypeInv'
  BY NextType
<1>3. TypeInv => TypeOK
  BY DEF TypeInv
<1>4. QED BY <1>1, <1>2, <1>3, PTL DEF Spec

-----------------------------------------------------------------------------
(* ADMIN_EMAIL.                                                            *)

Owning(u) == role[u] = "admin" \/ u \in demoted

\* A row that shows ADMIN_EMAIL, and a sign-in with it that is past the grant,
\* are those of an admin, or of one the board demoted since.
OwnerInv ==
  /\ \A u \in Users : IsAdminEmail(email[u]) =>
       role[u] # "none" /\ (u \in halfway \/ Owning(u))
  /\ \A j \in Requests : job[j].pc = "session" /\ IsAdminEmail(job[j].email) =>
       Owning(job[j].user)

\* A role once given changes only by a grant or the board.
LEMMA RoleStep ==
  ASSUME TypeInv, [Next]_vars, NEW u \in Users, role[u] # "none", Owning(u)
  PROVE  Owning(u)'
<1>1. CASE UNCHANGED <<role, demoted>>
  BY <1>1 DEF Owning
<1>2. ASSUME NEW j \in Requests, Upsert(j) PROVE Owning(u)'
  BY <1>2 DEF Upsert, Owning, TypeInv, TypeOK
<1>3. ASSUME NEW j \in Requests, Grant(j) PROVE Owning(u)'
  BY <1>3 DEF Grant, Owning, TypeInv, TypeOK
<1>4. ASSUME NEW j \in Requests, SetRole(j) PROVE Owning(u)'
  <2>1. job[j].role \in Roles
    BY DEF TypeInv, TypeOK, Job
  <2>2. QED BY <1>4, <2>1 DEF SetRole, Owning, Roles, TypeInv, TypeOK
<1>5. ASSUME NEW j \in Requests,
             \/ Begin(j) \/ IssueSession(j) \/ SignInFails(j) \/ Logout(j)
             \/ LogoutFails(j) \/ Who(j) \/ WhoRefused(j) \/ Count(j) \/ CountFails(j)
             \/ SetRoleFails(j) \/ RequiredRole(j) \/ RoleOf(j) \/ Return(j)
      PROVE  UNCHANGED <<role, demoted>>
  BY <1>5 DEF Begin, IssueSession, SignInFails, Logout, LogoutFails, Who, WhoRefused,
       Count, CountFails, SetRoleFails, RequiredRole, RoleOf, Return, rows
<1>6. ASSUME Tick \/ UNCHANGED vars PROVE UNCHANGED <<role, demoted>>
  BY <1>6 DEF Tick, vars, rows
<1>7. QED BY <1>1, <1>2, <1>3, <1>4, <1>5, <1>6 DEF Next

\* A row is never deleted.
LEMMA RowStep ==
  ASSUME TypeInv, [Next]_vars, NEW u \in Users, role[u] # "none"
  PROVE  role'[u] # "none"
<1>1. CASE role' = role
  BY <1>1
<1>2. ASSUME NEW j \in Requests, Upsert(j) \/ Grant(j) PROVE role'[u] # "none"
  BY <1>2 DEF Upsert, Grant, TypeInv, TypeOK
<1>3. ASSUME NEW j \in Requests, SetRole(j) PROVE role'[u] # "none"
  <2>1. job[j].role \in Roles
    BY DEF TypeInv, TypeOK, Job
  <2>2. QED BY <1>3, <2>1 DEF SetRole, Roles, TypeInv, TypeOK
<1>4. ASSUME NEW j \in Requests,
             \/ Begin(j) \/ IssueSession(j) \/ SignInFails(j) \/ Logout(j)
             \/ LogoutFails(j) \/ Who(j) \/ WhoRefused(j) \/ Count(j) \/ CountFails(j)
             \/ SetRoleFails(j) \/ RequiredRole(j) \/ RoleOf(j) \/ Return(j)
      PROVE  role' = role
  BY <1>4 DEF Begin, IssueSession, SignInFails, Logout, LogoutFails, Who, WhoRefused,
       Count, CountFails, SetRoleFails, RequiredRole, RoleOf, Return, rows
<1>5. ASSUME Tick \/ UNCHANGED vars PROVE role' = role
  BY <1>5 DEF Tick, vars, rows
<1>6. QED BY <1>1, <1>2, <1>3, <1>4, <1>5 DEF Next

\* Who comes to the last call of a sign-in was there or comes from the call
\* before, with ADMIN_EMAIL from the grant.
LEMMA SessionStep ==
  ASSUME TypeInv, [Next]_vars, NEW k \in Requests, job'[k].pc = "session"
  PROVE  /\ job'[k].user = job[k].user /\ job'[k].email = job[k].email
         /\ \/ job[k].pc = "session"
            \/ Grant(k)
            \/ Upsert(k) /\ ~ IsAdminEmail(job[k].email)
<1>0. job \in [Requests -> Job]
  BY DEF TypeInv, TypeOK
<1> DEFINE Goal == /\ job'[k].user = job[k].user /\ job'[k].email = job[k].email
                   /\ \/ job[k].pc = "session"
                      \/ Grant(k)
                      \/ Upsert(k) /\ ~ IsAdminEmail(job[k].email)
<1>1. ASSUME NEW j \in Requests,
             \/ IssueSession(j) \/ SignInFails(j) \/ Logout(j) \/ LogoutFails(j)
             \/ WhoRefused(j) \/ Count(j) \/ SetRoleFails(j) \/ RequiredRole(j)
             \/ RoleOf(j)
      PROVE  Goal
  <2>1. \E pc \in PCs \ {"session"} : GoTo(j, pc)
    BY <1>1 DEF IssueSession, SignInFails, Logout, LogoutFails, WhoRefused, Count,
         SetRoleFails, RequiredRole, RoleOf, PCs
  <2>2. QED BY <1>0, <2>1 DEF GoTo, Job
<1>2. ASSUME NEW j \in Requests, Begin(j) PROVE Goal
  <2>1. j # k => job'[k] = job[k]
    BY <1>0, <1>2 DEF Begin
  <2>2. job'[j].pc \in {"upsert", "delete", "who"}
    <3>1. CASE \E u \in Users : \E e \in Emails[u] :
            job' = [job EXCEPT ![j].pc = "upsert", ![j].kind = "signIn", ![j].user = u,
                               ![j].email = e]
      BY <1>0, <3>1 DEF Job
    <3>2. CASE \E t \in issued, kind \in {"signOut", "use"} :
            job' = [job EXCEPT ![j].pc = IF kind = "use" THEN "who" ELSE "delete",
                               ![j].kind = kind, ![j].token = t, ![j].over = Over(t)]
      BY <1>0, <3>2 DEF Job
    <3>3. CASE \E t \in issued, u \in Users, r \in Roles :
            job' = [job EXCEPT ![j].pc = "who", ![j].kind = "board", ![j].token = t,
                               ![j].over = Over(t), ![j].target = u, ![j].role = r]
      BY <1>0, <3>3 DEF Job
    <3>4. QED BY <1>2, <3>1, <3>2, <3>3 DEF Begin
  <2>3. QED BY <2>1, <2>2
<1>3. ASSUME NEW j \in Requests, Upsert(j) PROVE Goal
  BY <1>0, <1>3 DEF Upsert, AfterUpsert, GoTo, Job
<1>4. ASSUME NEW j \in Requests, Grant(j) PROVE Goal
  BY <1>0, <1>4 DEF Grant, GoTo, Job
<1>5. ASSUME NEW j \in Requests, Who(j) PROVE Goal
  <2>1. j # k => job'[k] = job[k]
    BY <1>0, <1>5 DEF Who
  <2>2. job'[j].pc \in {"required", "count", "setRole"}
    BY <1>0, <1>5 DEF Who, Job
  <2>3. QED BY <2>1, <2>2
<1>6. ASSUME NEW j \in Requests, CountFails(j) PROVE Goal
  BY <1>0, <1>6 DEF CountFails, Job
<1>7. ASSUME NEW j \in Requests, SetRole(j) PROVE Goal
  <2> DEFINE pc == IF k = j THEN "ok" ELSE job[k].pc
             fresh == job[k].fresh /\ job[j].role = "admin"
  <2>1. job'[k] = [job[k] EXCEPT !.pc = pc, !.fresh = fresh]
    BY <1>7 DEF SetRole
  <2>2. job[k] \in Job
    BY <1>0
  <2> HIDE DEF fresh, pc
  <2>3. job'[k].pc = pc /\ job'[k].user = job[k].user /\ job'[k].email = job[k].email
    BY <2>1, <2>2 DEF Job
  <2>4. QED BY <2>3 DEF pc
<1>8. ASSUME NEW j \in Requests, Return(j) PROVE Goal
  BY <1>0, <1>8, IdleJobType DEF Return, Job
<1>9. ASSUME Tick \/ UNCHANGED vars PROVE Goal
  BY <1>9 DEF Tick, vars
<1>10. QED
  BY <1>1, <1>2, <1>3, <1>4, <1>5, <1>6, <1>7, <1>8, <1>9 DEF Next

\* A session is nobody's, the one it was, or that of a sign-in at its end.
LEMMA HolderStep ==
  ASSUME TypeInv, [Next]_vars, NEW t \in Tokens, holder'[t] # None
  PROVE  \/ holder'[t] = holder[t]
         \/ /\ t \notin issued
            /\ \E j \in Requests : job[j].pc = "session" /\ holder'[t] = job[j].user
<1>1. ASSUME NEW j \in Requests, IssueSession(j)
      PROVE  \/ holder'[t] = holder[t]
             \/ t \notin issued /\ job[j].pc = "session" /\ holder'[t] = job[j].user
  <2>1. PICK i \in Tokens \ issued : holder' = [holder EXCEPT ![i] = job[j].user]
    BY <1>1 DEF IssueSession, Unissued
  <2>2. QED BY <1>1, <2>1 DEF IssueSession, TypeInv, TypeOK
<1>2. ASSUME NEW j \in Requests, Logout(j) PROVE holder'[t] = holder[t]
  BY <1>2 DEF Logout, TypeInv, TypeOK
<1>3. ASSUME NEW j \in Requests,
             \/ Begin(j) \/ Upsert(j) \/ Grant(j) \/ SignInFails(j) \/ LogoutFails(j)
             \/ Who(j) \/ WhoRefused(j) \/ Count(j) \/ CountFails(j) \/ SetRole(j)
             \/ SetRoleFails(j) \/ RequiredRole(j) \/ RoleOf(j) \/ Return(j)
      PROVE  holder' = holder
  BY <1>3 DEF Begin, Upsert, Grant, SignInFails, LogoutFails, Who, WhoRefused, Count,
       CountFails, SetRole, SetRoleFails, RequiredRole, RoleOf, Return, rows
<1>4. ASSUME Tick \/ UNCHANGED vars PROVE holder' = holder
  BY <1>4 DEF Tick, vars, rows
<1>5. QED BY <1>1, <1>2, <1>3, <1>4 DEF Next

\* An address is written by the upsert of a sign-in, which makes the row of a
\* plain user halfway; only the grant and the end of a sign-in undo that.
LEMMA EmailStep ==
  ASSUME TypeInv, [Next]_vars, NEW u \in Users
  PROVE  \/ email'[u] = email[u] /\ (u \in halfway => u \in halfway')
         \/ \E j \in Requests : /\ Upsert(j) /\ u = job[j].user
                                /\ email'[u] = job[j].email /\ role'[u] # "none"
                                /\ IsAdminEmail(job[j].email) =>
                                     u \in halfway' \/ role[u] = "admin"
         \/ \E j \in Requests : Grant(j) /\ u = job[j].user /\ email'[u] = email[u]
         \/ \E j \in Requests : /\ IssueSession(j) /\ u = job[j].user
                                /\ email'[u] = email[u] /\ IsAdminEmail(job[j].email)
<1>1. CASE UNCHANGED <<email, halfway>>
  BY <1>1
<1>2. ASSUME NEW j \in Requests, Upsert(j)
      PROVE  \/ email'[u] = email[u] /\ (u \in halfway => u \in halfway')
             \/ /\ u = job[j].user /\ email'[u] = job[j].email /\ role'[u] # "none"
                /\ IsAdminEmail(job[j].email) => u \in halfway' \/ role[u] = "admin"
  BY <1>2 DEF Upsert, TypeInv, TypeOK
<1>3. ASSUME NEW j \in Requests, Grant(j)
      PROVE  email'[u] = email[u] /\ (u \in halfway => u \in halfway' \/ u = job[j].user)
  BY <1>3 DEF Grant
<1>4. ASSUME NEW j \in Requests, IssueSession(j)
      PROVE  /\ email'[u] = email[u]
             /\ u \in halfway => \/ u \in halfway'
                                 \/ u = job[j].user /\ IsAdminEmail(job[j].email)
  BY <1>4 DEF IssueSession
<1>5. ASSUME NEW j \in Requests,
             \/ Begin(j) \/ SignInFails(j) \/ Logout(j) \/ LogoutFails(j) \/ Who(j)
             \/ WhoRefused(j) \/ Count(j) \/ CountFails(j) \/ SetRole(j)
             \/ SetRoleFails(j) \/ RequiredRole(j) \/ RoleOf(j) \/ Return(j)
      PROVE  UNCHANGED <<email, halfway>>
  BY <1>5 DEF Begin, SignInFails, Logout, LogoutFails, Who, WhoRefused, Count, CountFails,
       SetRole, SetRoleFails, RequiredRole, RoleOf, Return, rows
<1>6. ASSUME Tick \/ UNCHANGED vars PROVE UNCHANGED <<email, halfway>>
  BY <1>6 DEF Tick, vars, rows
<1>7. QED BY <1>1, <1>2, <1>3, <1>4, <1>5, <1>6 DEF Next

\* An account whose row shows ADMIN_EMAIL is an admin until the board demotes
\* them, except between the sign-in that gave a plain user's row the address
\* and one that is past the grant (Service.Callback).
THEOREM OwnerPromoted == Spec => []OwnerIsAdmin
<1>1. Init => TypeInv /\ OwnerInv
  BY InitType, IdleJobType DEF Init, OwnerInv, IsAdminEmail
<1>2. TypeInv /\ OwnerInv /\ [Next]_vars => (TypeInv /\ OwnerInv)'
  <2> SUFFICES ASSUME TypeInv, OwnerInv, [Next]_vars PROVE OwnerInv'
    BY NextType
  <2>1. ASSUME NEW u \in Users, role[u] # "none"
        PROVE  role'[u] # "none" /\ (Owning(u) => Owning(u)')
    BY <2>1, RowStep, RoleStep
  <2>2. ASSUME NEW k \in Requests, job'[k].pc = "session", IsAdminEmail(job'[k].email)
        PROVE  Owning(job[k].user)'
    <3>1. CASE job[k].pc = "session"
      <4>1. /\ job[k].user \in Users /\ role[job[k].user] # "none"
            /\ job'[k].user = job[k].user /\ Owning(job[k].user)
        BY <2>2, <3>1, SessionStep DEF OwnerInv, TypeInv, Placed
      <4>2. QED BY <2>1, <4>1 DEF Owning
    <3>2. CASE Grant(k)
      BY <2>2, <3>2, SessionStep DEF Grant, Owning, TypeInv, TypeOK, Placed
    <3>3. QED BY <2>2, <3>1, <3>2, SessionStep
  <2>3. ASSUME NEW u \in Users, IsAdminEmail(email'[u])
        PROVE  role'[u] # "none" /\ (u \in halfway' \/ Owning(u)')
    <3>1. CASE email'[u] = email[u] /\ (u \in halfway => u \in halfway')
      <4>1. role[u] # "none" /\ (u \in halfway \/ Owning(u))
        BY <2>3, <3>1 DEF OwnerInv
      <4>2. QED BY <2>1, <3>1, <4>1
    <3>2. ASSUME NEW j \in Requests, Upsert(j), u = job[j].user,
                 email'[u] = job[j].email, role'[u] # "none",
                 IsAdminEmail(job[j].email) => u \in halfway' \/ role[u] = "admin"
          PROVE  u \in halfway' \/ Owning(u)'
      <4>1. role[u] = "admin" => role'[u] = "admin"
        BY <3>2 DEF Upsert, TypeInv, TypeOK
      <4>2. QED BY <2>3, <3>2, <4>1 DEF Owning
    <3>3. ASSUME NEW j \in Requests, Grant(j), u = job[j].user
          PROVE  role'[u] # "none" /\ Owning(u)'
      BY <3>3 DEF Grant, Owning, TypeInv, TypeOK
    <3>4. ASSUME NEW j \in Requests, IssueSession(j), u = job[j].user,
                 email'[u] = email[u], IsAdminEmail(job[j].email)
          PROVE  role'[u] # "none" /\ Owning(u)'
      <4>1. Owning(u) /\ role[u] # "none"
        BY <2>3, <3>4 DEF IssueSession, OwnerInv
      <4>2. QED BY <2>1, <4>1
    <3>5. QED BY <3>1, <3>2, <3>3, <3>4, EmailStep
  <2>4. QED BY <2>2, <2>3 DEF OwnerInv, IsAdminEmail
<1>3. OwnerInv => OwnerIsAdmin
  BY DEF OwnerInv, OwnerIsAdmin, Owning
<1>4. QED BY <1>1, <1>2, <1>3, PTL DEF Spec

-----------------------------------------------------------------------------
(* What a step makes of a request.                                         *)

Began(k) == /\ job[k].pc = "idle" /\ job'[k].pc \in {"upsert", "delete", "who"}
            /\ job'[k].fresh = FALSE
            /\ \/ job'[k].over = FALSE
               \/ /\ job'[k].user = None /\ job'[k].token \in issued
                  /\ (job'[k].over => Over(job'[k].token))
                  /\ UNCHANGED <<born, out, now>>

Moved(k) == /\ job'[k].user = job[k].user /\ job'[k].token = job[k].token
            /\ job'[k].target = job[k].target /\ job'[k].role = job[k].role
            /\ job'[k].over = job[k].over /\ (job'[k].fresh => job[k].fresh)
            /\ \/ job'[k].pc = job[k].pc
               \/ Count(k) \/ RoleOf(k)
               \/ job[k].pc = "required" /\ job'[k].pc = "roleOf"
               \/ job'[k].fresh = FALSE /\ job'[k].pc = "setRole"
               \/ job'[k].pc \in {"grant", "session", "ok", "error", "refused"}

LEMMA BeginEffect ==
  ASSUME TypeInv, NEW j \in Requests, Begin(j)
  PROVE  /\ Began(j)
         /\ \A k \in Requests : k # j => job'[k] = job[k]
<1>0. job \in [Requests -> Job] /\ job[j] = IdleJob /\ job[j].pc = "idle"
      /\ job[j].fresh = FALSE /\ job[j].over = FALSE /\ job[j].user = None
      /\ UNCHANGED <<born, out, now>>
  BY IdleJobType DEF Begin, TypeInv, TypeOK, Placed
<1>1. CASE \E u \in Users : \E e \in Emails[u] :
        job' = [job EXCEPT ![j].pc = "upsert", ![j].kind = "signIn", ![j].user = u,
                           ![j].email = e]
  BY <1>0, <1>1 DEF Began, Job
<1>2. CASE \E t \in issued, kind \in {"signOut", "use"} :
        job' = [job EXCEPT ![j].pc = IF kind = "use" THEN "who" ELSE "delete",
                           ![j].kind = kind, ![j].token = t, ![j].over = Over(t)]
  BY <1>0, <1>2 DEF Began, Job
<1>3. CASE \E t \in issued, u \in Users, r \in Roles :
        job' = [job EXCEPT ![j].pc = "who", ![j].kind = "board", ![j].token = t,
                           ![j].over = Over(t), ![j].target = u, ![j].role = r]
  BY <1>0, <1>3 DEF Began, Job
<1>4. QED BY <1>1, <1>2, <1>3 DEF Begin

LEMMA WhoEffect ==
  ASSUME TypeInv, NEW j \in Requests, Who(j)
  PROVE  /\ job[j].token \in issued /\ User(job[j].token) \in Users
         /\ job'[j].user = User(job[j].token) /\ job'[j].token = job[j].token
         /\ job'[j].target = job[j].target /\ job'[j].role = job[j].role
         /\ job'[j].over = job[j].over
         /\ \/ job'[j].pc = "required"
            \/ /\ role[User(job[j].token)] = "admin"
               /\ \/ job'[j].pc = "count" /\ job[j].target = User(job[j].token)
                  \/ /\ job'[j].pc = "setRole"
                     /\ job[j].role = "admin" \/ job[j].target # User(job[j].token)
         /\ UNCHANGED <<rows, now, issued, born, out, demoted, halfway>>
         /\ \A k \in Requests : k # j => job'[k] = job[k]
<1> DEFINE u == User(job[j].token)
           pc == IF job[j].kind = "use" THEN "required"
                 ELSE IF job[j].target = u /\ job[j].role # "admin"
                      THEN "count" ELSE "setRole"
<1>0. job \in [Requests -> Job] /\ job[j] \in Job
  BY DEF TypeInv, TypeOK
<1>1. job' = [job EXCEPT ![j].user = u, ![j].fresh = TRUE, ![j].pc = pc]
      /\ UNCHANGED <<rows, now, issued, born, out, demoted, halfway>>
  BY DEF Who
<1>2. job[j].token \in issued /\ u \in Users /\ (job[j].kind = "board" => role[u] = "admin")
  BY <1>0, UserType DEF Who, Admitted, TypeInv, TypeOK, Placed
<1>3. job[j].kind \in {"use", "board"}
  BY DEF Who, TypeInv, Placed
<1>4. \/ pc = "required"
      \/ /\ role[u] = "admin"
         /\ \/ pc = "count" /\ job[j].target = u
            \/ pc = "setRole" /\ (job[j].role = "admin" \/ job[j].target # u)
  BY <1>2, <1>3
<1> HIDE DEF u, pc
<1>5. /\ job'[j].user = u /\ job'[j].token = job[j].token /\ job'[j].pc = pc
      /\ job'[j].target = job[j].target /\ job'[j].role = job[j].role
      /\ job'[j].over = job[j].over
      /\ \A k \in Requests : k # j => job'[k] = job[k]
  BY <1>0, <1>1 DEF Job
<1>6. QED BY <1>1, <1>2, <1>4, <1>5 DEF u

LEMMA SetRoleEffect ==
  ASSUME TypeInv, NEW j \in Requests, SetRole(j), NEW k \in Requests
  PROVE  /\ Moved(k)
         /\ job'[k].fresh => job[k].fresh /\ job[j].role = "admin"
<1> DEFINE pc == IF k = j THEN "ok" ELSE job[k].pc
           fresh == job[k].fresh /\ job[j].role = "admin"
<1>1. job'[k] = [job[k] EXCEPT !.pc = pc, !.fresh = fresh]
  BY DEF SetRole
<1>2. job[k] \in Job /\ (fresh => job[k].fresh /\ job[j].role = "admin")
      /\ (pc = "ok" \/ pc = job[k].pc)
  BY DEF TypeInv, TypeOK
<1> HIDE DEF pc, fresh
<1>3. QED BY <1>1, <1>2 DEF Moved, Job

LEMMA JobStep ==
  ASSUME TypeInv, [Next]_vars, NEW k \in Requests
  PROVE  Began(k) \/ Moved(k) \/ Who(k) \/ job'[k] = IdleJob
<1>0. job \in [Requests -> Job]
  BY DEF TypeInv, TypeOK
<1>1. ASSUME NEW j \in Requests,
             \/ Upsert(j) \/ Grant(j) \/ IssueSession(j) \/ SignInFails(j) \/ Logout(j)
             \/ LogoutFails(j) \/ WhoRefused(j) \/ Count(j) \/ SetRoleFails(j)
             \/ RequiredRole(j) \/ RoleOf(j)
      PROVE  Moved(k)
  <2>1. PICK pc \in PCs :
          /\ GoTo(j, pc)
          /\ \/ Count(j) \/ RoleOf(j)
             \/ job[j].pc = "required" /\ pc = "roleOf"
             \/ pc \in {"grant", "session", "ok", "error", "refused"}
    BY <1>1 DEF Upsert, AfterUpsert, Grant, IssueSession, SignInFails, Logout, LogoutFails,
         WhoRefused, Count, SetRoleFails, RequiredRole, RoleOf, PCs
  <2>2. QED BY <1>0, <2>1 DEF GoTo, Moved, Job
<1>2. ASSUME NEW j \in Requests, Begin(j) PROVE Began(k) \/ Moved(k)
  BY <1>2, BeginEffect DEF Moved
<1>3. ASSUME NEW j \in Requests, Who(j) PROVE Who(k) \/ Moved(k)
  BY <1>3, WhoEffect DEF Moved
<1>4. ASSUME NEW j \in Requests, CountFails(j) PROVE Moved(k)
  BY <1>0, <1>4 DEF CountFails, Moved, Job
<1>5. ASSUME NEW j \in Requests, SetRole(j) PROVE Moved(k)
  BY <1>5, SetRoleEffect
<1>6. ASSUME NEW j \in Requests, Return(j) PROVE Moved(k) \/ job'[k] = IdleJob
  BY <1>0, <1>6 DEF Return, Moved
<1>7. ASSUME Tick \/ UNCHANGED vars PROVE Moved(k)
  BY <1>7 DEF Tick, vars, Moved
<1>8. QED BY <1>1, <1>2, <1>3, <1>4, <1>5, <1>6, <1>7 DEF Next

-----------------------------------------------------------------------------
(* The last admin.                                                         *)

\* An admin, other than the one to demote, is known to be there.
Guard == \A j \in Requests : job[j].fresh =>
  /\ job[j].pc = "count" => role[job[j].user] = "admin" /\ job[j].target = job[j].user
  /\ job[j].pc = "setRole" /\ job[j].role = "user" =>
       \E a \in Users \ {job[j].target} : role[a] = "admin"

\* Only a demotion takes the role from anyone, and no check outlives it.
LEMMA AdminStep ==
  ASSUME TypeInv, [Next]_vars
  PROVE  \/ \A u \in Users : role[u] = "admin" => role'[u] = "admin"
         \/ \E j \in Requests : /\ SetRole(j) /\ job[j].role = "user"
                                /\ \A k \in Requests : ~ job'[k].fresh
<1> DEFINE Kept == \A u \in Users : role[u] = "admin" => role'[u] = "admin"
<1>1. CASE role' = role
  BY <1>1
<1>2. ASSUME NEW j \in Requests, Upsert(j) \/ Grant(j) PROVE Kept
  BY <1>2 DEF Upsert, Grant, TypeInv, TypeOK
<1>3. ASSUME NEW j \in Requests, SetRole(j)
      PROVE  Kept \/ (job[j].role = "user" /\ \A k \in Requests : ~ job'[k].fresh)
  <2>1. CASE job[j].role = "admin"
    BY <1>3, <2>1 DEF SetRole, TypeInv, TypeOK
  <2>2. CASE job[j].role = "user"
    BY <1>3, <2>2, SetRoleEffect
  <2>3. QED BY <2>1, <2>2 DEF TypeInv, TypeOK, Job, Roles
<1>4. ASSUME NEW j \in Requests,
             \/ Begin(j) \/ IssueSession(j) \/ SignInFails(j) \/ Logout(j)
             \/ LogoutFails(j) \/ Who(j) \/ WhoRefused(j) \/ Count(j) \/ CountFails(j)
             \/ SetRoleFails(j) \/ RequiredRole(j) \/ RoleOf(j) \/ Return(j)
      PROVE  role' = role
  BY <1>4 DEF Begin, IssueSession, SignInFails, Logout, LogoutFails, Who, WhoRefused,
       Count, CountFails, SetRoleFails, RequiredRole, RoleOf, Return, rows
<1>5. ASSUME Tick \/ UNCHANGED vars PROVE role' = role
  BY <1>5 DEF Tick, vars, rows
<1>6. QED BY <1>1, <1>2, <1>3, <1>4, <1>5 DEF Next

\* Two admins: one of them is not u.
LEMMA OtherAdmin ==
  ASSUME TypeInv, NEW u \in Users, ~ (Cardinality(Admins) <= 1)
  PROVE  \E a \in Users \ {u} : role[a] = "admin"
<1> SUFFICES ASSUME ~ \E a \in Users \ {u} : role[a] = "admin" PROVE FALSE
  OBVIOUS
<1>1. Admins \subseteq {u}
  BY DEF Admins
<1>2. IsFiniteSet({u}) /\ Cardinality({u}) = 1
  BY FS_Singleton
<1>3. Cardinality(Admins) <= Cardinality({u})
  BY <1>1, <1>2, FS_Subset
<1>4. QED BY <1>2, <1>3

LEMMA GuardStep ==
  ASSUME TypeInv, Guard, [Next]_vars PROVE Guard'
<1> SUFFICES ASSUME NEW k \in Requests, job'[k].fresh
             PROVE  /\ job'[k].pc = "count" => /\ role'[job'[k].user] = "admin"
                                               /\ job'[k].target = job'[k].user
                    /\ job'[k].pc = "setRole" /\ job'[k].role = "user" =>
                         \E a \in Users \ {job'[k].target} : role'[a] = "admin"
  BY DEF Guard
<1>1. \A u \in Users : role[u] = "admin" => role'[u] = "admin"
  BY AdminStep
<1>2. CASE Began(k)
  BY <1>2 DEF Began
<1>3. CASE job'[k] = IdleJob
  BY <1>3, IdleJobType
<1>4. CASE Who(k)
  BY <1>1, <1>4, WhoEffect
<1>5. CASE Moved(k)
  <2>1. CASE job'[k].pc = job[k].pc
    BY <1>1, <1>5, <2>1 DEF Moved, Guard, TypeInv, Placed
  <2>2. CASE Count(k)
    <3>1. job[k].pc = "count" /\ job[k].user \in Users
      BY <2>2 DEF Count, TypeInv, Placed
    <3>2. job[k].target = job[k].user /\ role[job[k].user] = "admin"
      BY <1>5, <3>1 DEF Moved, Guard
    <3>3. job'[k].pc = IF Cardinality(Admins) <= 1 THEN "refused" ELSE "setRole"
      BY <2>2 DEF Count, GoTo, TypeInv, TypeOK, Job
    <3>4. CASE Cardinality(Admins) <= 1
      BY <3>3, <3>4
    <3>5. CASE ~ (Cardinality(Admins) <= 1)
      <4>1. PICK a \in Users \ {job[k].user} : role[a] = "admin"
        BY <3>1, <3>5, OtherAdmin
      <4>2. QED BY <1>1, <1>5, <3>2, <3>3, <3>5, <4>1 DEF Moved
    <3>6. QED BY <3>4, <3>5
  <2>3. CASE RoleOf(k)
    <3>1. job'[k].pc \in {"granted", "refused"}
      BY <2>3 DEF RoleOf, GoTo, TypeInv, TypeOK, Job
    <3>2. QED BY <3>1
  <2>4. QED BY <1>5, <2>1, <2>2, <2>3 DEF Moved
<1>6. QED BY <1>2, <1>3, <1>4, <1>5, JobStep

\* The last admin goes only by a demotion that another overtook since it was
\* checked, or that could not count the admins (handleAdminUsers).
THEOREM BoardKeepsAdmin == Spec => LastAdminGuarded
<1>1. Init => TypeInv /\ Guard
  BY InitType, IdleJobType DEF Init, Guard
<1>2. TypeInv /\ Guard /\ [Next]_vars => (TypeInv /\ Guard)'
  BY NextType, GuardStep
<1>3. TypeInv /\ Guard /\ [Next]_vars =>
        [Admins # {} /\ Admins' = {} =>
           \E j \in Requests : SetRole(j) /\ ~ job[j].fresh]_vars
  <2> SUFFICES ASSUME TypeInv, Guard, [Next]_vars, Admins # {}, Admins' = {}
               PROVE  \E j \in Requests : SetRole(j) /\ ~ job[j].fresh
    OBVIOUS
  <2>1. PICK u \in Users : role[u] = "admin"
    BY DEF Admins
  <2>2. \A v \in Users : role'[v] # "admin"
    BY DEF Admins
  <2>3. PICK j \in Requests : SetRole(j) /\ job[j].role = "user"
    BY <2>1, <2>2, AdminStep
  <2>4. ASSUME job[j].fresh PROVE FALSE
    <3>1. PICK a \in Users \ {job[j].target} : role[a] = "admin"
      BY <2>3, <2>4 DEF SetRole, Guard
    <3>2. role'[a] = role[a]
      BY <2>3 DEF SetRole, TypeInv, TypeOK
    <3>3. QED BY <2>2, <3>1, <3>2
  <2>5. QED BY <2>3, <2>4
<1>4. QED BY <1>1, <1>2, <1>3, PTL DEF Spec, LastAdminGuarded

-----------------------------------------------------------------------------
(* Sessions and the gate.                                                  *)

\* Expiry is the sign-in plus the lifetime; a request that came too late has
\* found nobody and will; one that was found keeps its user.
SessionInv ==
  /\ \A t \in Tokens : holder[t] # None => expires[t] = born[t] + Lifetime
  /\ \A j \in Requests : job[j].over =>
       job[j].user = None /\ (job[j].pc = "who" => Over(job[j].token))
  /\ \A j \in Requests : job[j].pc \in {"required", "roleOf"} =>
       holder[job[j].token] \in {job[j].user, None}

\* Cookies handed out keep their times; what is revoked stays revoked.
LEMMA TimesStep ==
  ASSUME TypeInv, [Next]_vars, NEW t \in issued
  PROVE  /\ born'[t] = born[t] /\ expires'[t] = expires[t] /\ t \in issued'
         /\ Over(t) => Over(t)'
<1>1. ASSUME NEW j \in Requests, IssueSession(j)
      PROVE  /\ born'[t] = born[t] /\ expires'[t] = expires[t] /\ issued \subseteq issued'
             /\ UNCHANGED <<now, out>>
  <2>1. PICK i \in Tokens \ issued : /\ expires' = [expires EXCEPT ![i] = now + Lifetime]
                                     /\ born' = [born EXCEPT ![i] = now]
                                     /\ issued' = issued \cup {i}
    BY <1>1 DEF IssueSession, Unissued
  <2>2. UNCHANGED <<now, out>>
    BY <1>1 DEF IssueSession
  <2>3. QED BY <2>1, <2>2 DEF TypeInv, TypeOK
<1>2. ASSUME NEW j \in Requests, Logout(j)
      PROVE  UNCHANGED <<born, expires, issued, now>> /\ out \subseteq out'
  BY <1>2 DEF Logout
<1>3. ASSUME NEW j \in Requests,
             \/ Begin(j) \/ Upsert(j) \/ Grant(j) \/ SignInFails(j) \/ LogoutFails(j)
             \/ Who(j) \/ WhoRefused(j) \/ Count(j) \/ CountFails(j) \/ SetRole(j)
             \/ SetRoleFails(j) \/ RequiredRole(j) \/ RoleOf(j) \/ Return(j)
      PROVE  UNCHANGED <<born, expires, issued, now, out>>
  BY <1>3 DEF Begin, Upsert, Grant, SignInFails, LogoutFails, Who, WhoRefused, Count,
       CountFails, SetRole, SetRoleFails, RequiredRole, RoleOf, Return, rows
<1>4. ASSUME Tick \/ UNCHANGED vars
      PROVE  UNCHANGED <<born, expires, issued, out>> /\ now' \in Nat /\ now <= now'
  BY <1>4 DEF Tick, vars, rows, TypeInv, TypeOK
<1>5. /\ born'[t] = born[t] /\ expires'[t] = expires[t] /\ issued \subseteq issued'
      /\ out \subseteq out' /\ now' \in Nat /\ now <= now'
  BY <1>1, <1>2, <1>3, <1>4 DEF Next, TypeInv, TypeOK
<1>6. Over(t) => Over(t)'
  <2>1. t \in Tokens /\ born[t] \in Nat /\ now \in Nat
    BY DEF TypeInv, TypeOK
  <2>2. QED BY <1>5, <2>1, AccountsAssumption DEF Over
<1>7. QED BY <1>5, <1>6

LEMMA ExpiryStep ==
  ASSUME TypeInv, SessionInv, [Next]_vars, NEW t \in Tokens, holder'[t] # None
  PROVE  expires'[t] = born'[t] + Lifetime
<1>1. CASE t \in issued
  <2>1. holder'[t] = holder[t]
    BY <1>1, HolderStep
  <2>2. QED BY <1>1, <2>1, TimesStep DEF SessionInv
<1>2. CASE t \notin issued
  <2>1. holder[t] = None
    BY <1>2 DEF TypeInv, TypeOK
  <2>2. ASSUME NEW j \in Requests, IssueSession(j) PROVE expires'[t] = born'[t] + Lifetime
    <3>1. PICK i \in Tokens \ issued : /\ holder' = [holder EXCEPT ![i] = job[j].user]
                                       /\ expires' = [expires EXCEPT ![i] = now + Lifetime]
                                       /\ born' = [born EXCEPT ![i] = now]
      BY <2>2 DEF IssueSession, Unissued
    <3>2. t = i
      BY <2>1, <3>1 DEF TypeInv, TypeOK
    <3>3. QED BY <3>1, <3>2 DEF TypeInv, TypeOK
  <2>3. ASSUME ~ \E j \in Requests : IssueSession(j) PROVE FALSE
    <3>1. ASSUME NEW j \in Requests, Logout(j) PROVE holder'[t] = None
      BY <2>1, <3>1 DEF Logout, TypeInv, TypeOK
    <3>2. ASSUME NEW j \in Requests,
                 \/ Begin(j) \/ Upsert(j) \/ Grant(j) \/ SignInFails(j) \/ LogoutFails(j)
                 \/ Who(j) \/ WhoRefused(j) \/ Count(j) \/ CountFails(j) \/ SetRole(j)
                 \/ SetRoleFails(j) \/ RequiredRole(j) \/ RoleOf(j) \/ Return(j)
          PROVE  holder' = holder
      BY <3>2 DEF Begin, Upsert, Grant, SignInFails, LogoutFails, Who, WhoRefused, Count,
           CountFails, SetRole, SetRoleFails, RequiredRole, RoleOf, Return, rows
    <3>3. ASSUME Tick \/ UNCHANGED vars PROVE holder' = holder
      BY <3>3 DEF Tick, vars, rows
    <3>4. QED BY <2>1, <2>3, <3>1, <3>2, <3>3 DEF Next
  <2>4. QED BY <2>2, <2>3
<1>3. QED BY <1>1, <1>2

\* The session of a request that came too late is nobody's.
LEMMA OverUser ==
  ASSUME TypeInv, SessionInv, NEW t \in Tokens, Over(t) PROVE User(t) = None
<1>1. born[t] \in Nat /\ now \in Nat /\ (t \in out => holder[t] = None)
  BY DEF TypeInv, TypeOK
<1>2. holder[t] # None => expires[t] = born[t] + Lifetime
  BY DEF SessionInv
<1>3. QED BY <1>1, <1>2, AccountsAssumption DEF Over, User

LEMMA SessionInvStep ==
  ASSUME TypeInv, SessionInv, [Next]_vars PROVE SessionInv'
<1>1. \A t \in Tokens : holder'[t] # None => expires'[t] = born'[t] + Lifetime
  BY ExpiryStep
<1>2. ASSUME NEW k \in Requests, job'[k].over
      PROVE  job'[k].user = None /\ (job'[k].pc = "who" => Over(job[k].token)')
  <2>1. CASE Began(k)
    <3>1. job'[k].user = None /\ Over(job'[k].token) /\ UNCHANGED <<born, out, now>>
      BY <1>2, <2>1 DEF Began
    <3>2. QED BY <3>1 DEF Over
  <2>2. CASE Moved(k)
    <3>1. /\ job[k].over /\ job'[k].user = job[k].user /\ job'[k].token = job[k].token
          /\ job'[k].pc = "who" => job[k].pc = "who"
      BY <1>2, <2>2 DEF Moved, Count, RoleOf, GoTo, TypeInv, TypeOK, Job
    <3>2. job[k].pc = "who" => /\ Over(job[k].token) /\ job[k].token \in issued
      BY <3>1 DEF SessionInv, TypeInv, Placed
    <3>3. ASSUME job[k].pc = "who" PROVE Over(job[k].token)'
      <4> DEFINE t == job[k].token
      <4>1. t \in issued /\ Over(t)
        BY <3>2, <3>3
      <4> HIDE DEF t
      <4>2. /\ born'[t] = born[t]
            /\ t \in out \/ now >= born[t] + Lifetime => t \in out' \/ now' >= born'[t] + Lifetime
        BY <4>1, TimesStep DEF Over
      <4>3. QED BY <3>1, <4>1, <4>2 DEF t, Over
    <3>4. QED BY <3>1, <3>3 DEF SessionInv
  <2>3. CASE Who(k)
    <3>1. job[k].over /\ job[k].pc = "who" /\ job[k].token \in Tokens
          /\ User(job[k].token) \in Users
      BY <1>2, <2>3, WhoEffect DEF Who, TypeInv, TypeOK
    <3>2. User(job[k].token) = None
      BY <3>1, OverUser DEF SessionInv
    <3>3. QED BY <3>1, <3>2, AccountsAssumption
  <2>4. CASE job'[k] = IdleJob
    BY <1>2, <2>4, IdleJobType
  <2>5. QED BY <2>1, <2>2, <2>3, <2>4, JobStep
<1>3. ASSUME NEW k \in Requests, job'[k].pc \in {"required", "roleOf"}
      PROVE  holder'[job'[k].token] \in {job'[k].user, None}
  <2>1. /\ job'[k].token = job[k].token /\ job[k].token \in issued
        /\ holder[job[k].token] \in {job'[k].user, None}
    <3>1. CASE Began(k)
      BY <1>3, <3>1 DEF Began
    <3>2. CASE job'[k] = IdleJob
      BY <1>3, <3>2, IdleJobType
    <3>3. CASE Who(k)
      <4>1. /\ job[k].token \in issued /\ User(job[k].token) \in Users
            /\ job'[k].user = User(job[k].token) /\ job'[k].token = job[k].token
        BY <3>3, WhoEffect
      <4>2. User(job[k].token) = holder[job[k].token]
        BY <4>1, AccountsAssumption DEF User
      <4>3. QED BY <4>1, <4>2
    <3>4. CASE Moved(k)
      <4>1. job[k].pc \in {"required", "roleOf"}
        BY <1>3, <3>4 DEF Moved, Count, RoleOf, GoTo, TypeInv, TypeOK, Job
      <4>2. QED BY <3>4, <4>1 DEF Moved, SessionInv, TypeInv, Placed
    <3>5. QED BY <3>1, <3>2, <3>3, <3>4, JobStep
  <2>2. job[k].token \in Tokens
    BY <2>1 DEF TypeInv, TypeOK
  <2>3. holder'[job[k].token] \in {holder[job[k].token], None}
    BY <2>1, <2>2, HolderStep
  <2>4. QED BY <2>1, <2>3
<1>4. QED BY <1>1, <1>2, <1>3 DEF SessionInv

LEMMA SessionsHold == Spec => [](TypeInv /\ SessionInv)
<1>1. Init => TypeInv /\ SessionInv
  BY InitType, IdleJobType DEF Init, SessionInv
<1>2. TypeInv /\ SessionInv /\ [Next]_vars => (TypeInv /\ SessionInv)'
  BY NextType, SessionInvStep
<1>3. QED BY <1>1, <1>2, PTL DEF Spec

\* A session answers for its user until the sign-out or the end of its
\* lifetime: a request that comes later is nobody's (Service.User).
THEOREM SessionsEnd == Spec => []OverIsNobody
<1>1. SessionInv => OverIsNobody
  BY DEF SessionInv, OverIsNobody
<1>2. QED BY <1>1, SessionsHold, PTL

\* The gate opens only to a request whose user satisfies the required role at
\* that moment, and never because a lookup failed (featureUnlocked).
THEOREM GateClosed == Spec => GateFailsClosed
<1>1. TypeInv /\ SessionInv /\ [Next]_vars =>
        [\A j \in Requests : job'[j].pc = "granted" /\ job[j].pc # "granted" =>
           /\ job[j].user # None
           /\ Unlocked(role[job[j].user], Required)]_vars
  <2> SUFFICES ASSUME TypeInv, SessionInv, [Next]_vars, NEW k \in Requests,
                      job'[k].pc = "granted", job[k].pc # "granted"
               PROVE  job[k].user # None /\ Unlocked(role[job[k].user], Required)
    OBVIOUS
  <2>1. RoleOf(k)
    <3>1. CASE Began(k)
      BY <3>1 DEF Began
    <3>2. CASE job'[k] = IdleJob
      BY <3>2, IdleJobType
    <3>3. CASE Who(k)
      BY <3>3, WhoEffect
    <3>4. CASE Moved(k)
      BY <3>4 DEF Moved, Count, GoTo, TypeInv, TypeOK, Job
    <3>5. QED BY <3>1, <3>2, <3>3, <3>4, JobStep
  <2>2. job[k].user \in Users /\ holder[job[k].token] \in {job[k].user, None}
    BY <2>1 DEF RoleOf, SessionInv, TypeInv, Placed
  <2>3. PICK u \in {User(job[k].token), None} :
          job'[k].pc = IF Unlocked(IF u = None THEN "user" ELSE role[u], Required)
                       THEN "granted" ELSE "refused"
    BY <2>1 DEF RoleOf, GoTo, TypeInv, TypeOK, Job
  <2>4. u \in {job[k].user, None}
    BY <2>2, <2>3 DEF User
  <2>5. Unlocked(IF u = None THEN "user" ELSE role[u], Required)
    BY <2>3
  <2>6. QED BY <2>2, <2>4, <2>5, AccountsAssumption DEF Unlocked
<1>2. QED BY <1>1, SessionsHold, PTL DEF Spec, GateFailsClosed
=============================================================================
