------------------------------- MODULE Accounts -------------------------------
(***************************************************************************)
(* Hosted accounts: sign-in, sessions, roles, the admin board and the gate *)
(* of Build Now (internal/auth, internal/server/admin.go,                  *)
(* internal/feature).  A store call is one statement; requests interleave  *)
(* between any two of them, and any of them may fail, changing no row.     *)
(***************************************************************************)
EXTENDS Integers, FiniteSets

CONSTANTS
  Requests,  \* requests in flight at once
  Users,     \* accounts at a provider; a row of users is keyed by one
  Emails,    \* Emails[u]: the addresses u's provider may give, None for none
  AdminEmail, \* ADMIN_EMAIL, None if it is not set
  Tokens,    \* session cookies that may be handed out
  Lifetime,  \* sessionLifetime
  Required,  \* the role build_now requires
  MayFail,   \* whether a statement can fail
  MaxNow,
  None

Roles == {"user", "admin"}
Addresses == UNION {Emails[u] : u \in Users}

ASSUME AccountsAssumption ==
  /\ IsFiniteSet(Users) /\ Users # {} /\ DOMAIN Emails = Users
  /\ Tokens # {}
  /\ Lifetime \in Nat /\ MaxNow \in Nat
  /\ Required \in Roles /\ MayFail \in BOOLEAN
  /\ None \notin Users /\ None \notin Tokens

VARIABLES
  email,    \* email[u], None while u has no row or its provider gives none
  role,     \* role[u], "none" while u has no row
  holder,   \* holder[t]: whose session t is, None if it has no row
  expires,  \* expires[t], of a session that has a row
  now,
  job,      \* job[j]: request j and the locals of its handler
  issued,   \* cookies handed out
  born,     \* history: when
  out,      \* history: cookies whose sign-out revoked the session
  demoted,  \* history: users the board made plain, since they were last admin
  halfway   \* history: plain users given ADMIN_EMAIL by a sign-in, none of
            \* whose sign-ins with it has got any further since

rows == <<email, role, holder, expires>>
vars == <<rows, now, job, issued, born, out, demoted, halfway>>

Kinds == {"signIn", "signOut", "board", "use"}
PCs == {"idle", "upsert", "grant", "session", "delete",
        "who", "count", "setRole", "required", "roleOf",
        "ok", "granted", "refused", "error"}

(***************************************************************************)
(* user: whom the request signs in, or has been found to come from.        *)
(* email: what the provider gave for them this time, None if nothing.      *)
(* target, role: what the board is asked for.  over: history, whether the  *)
(* session was over when the request came.  fresh: history, no role has    *)
(* been taken from anyone since this request's own was looked at, and its  *)
(* count did not fail.                                                     *)
(***************************************************************************)
Job == [pc : PCs, kind : Kinds, user : Users \cup {None},
        email : Addresses \cup {None}, token : Tokens \cup {None},
        target : Users, role : Roles, over : BOOLEAN, fresh : BOOLEAN]

IdleJob == [pc |-> "idle", kind |-> "signIn", user |-> None, email |-> None,
            token |-> None, target |-> CHOOSE u \in Users : TRUE, role |-> "user",
            over |-> FALSE, fresh |-> FALSE]

\* A session belongs to a row of users, and is gone once revoked.
TypeOK ==
  /\ email \in [Users -> Addresses \cup {None}]
  /\ role \in [Users -> Roles \cup {"none"}]
  /\ holder \in [Tokens -> Users \cup {None}]
  /\ expires \in [Tokens -> Nat] /\ born \in [Tokens -> Nat]
  /\ now \in Nat
  /\ job \in [Requests -> Job]
  /\ issued \subseteq Tokens /\ out \subseteq issued
  /\ demoted \subseteq Users /\ halfway \subseteq Users
  /\ \A t \in Tokens : holder[t] # None =>
       t \in issued \ out /\ role[holder[t]] # "none"

Init ==
  /\ email = [u \in Users |-> None]
  /\ role = [u \in Users |-> "none"]
  /\ holder = [t \in Tokens |-> None]
  /\ expires = [t \in Tokens |-> 0] /\ born = [t \in Tokens |-> 0]
  /\ now = 0
  /\ job = [j \in Requests |-> IdleJob]
  /\ issued = {} /\ out = {} /\ demoted = {} /\ halfway = {}

-----------------------------------------------------------------------------

GoTo(j, pc) == job' = [job EXCEPT ![j].pc = pc]

Over(t) == t \in out \/ now >= born[t] + Lifetime

Begin(j) ==
  /\ job[j].pc = "idle"
  /\ \/ \E u \in Users : \E e \in Emails[u] :
          job' = [job EXCEPT ![j].pc = "upsert", ![j].kind = "signIn", ![j].user = u,
                             ![j].email = e]
     \/ \E t \in issued, kind \in {"signOut", "use"} :
          job' = [job EXCEPT ![j].pc = IF kind = "use" THEN "who" ELSE "delete",
                             ![j].kind = kind, ![j].token = t, ![j].over = Over(t)]
     \/ \E t \in issued, u \in Users, r \in Roles :
          job' = [job EXCEPT ![j].pc = "who", ![j].kind = "board", ![j].token = t,
                             ![j].over = Over(t), ![j].target = u, ![j].role = r]
  /\ UNCHANGED <<rows, now, issued, born, out, demoted, halfway>>

-----------------------------------------------------------------------------
(* Sign-in: Callback and DevLogin, once the profile is known.              *)

IsAdminEmail(e) == e # None /\ e = AdminEmail

\* Fault: the role is left to the next sign-in.
AfterUpsertFault(j) == GoTo(j, "session")

AfterUpsert(j) == GoTo(j, IF IsAdminEmail(job[j].email) THEN "grant" ELSE "session")

Upsert(j) ==
  /\ job[j].pc = "upsert"
  /\ email' = [email EXCEPT ![job[j].user] = job[j].email]
  /\ role' = [role EXCEPT ![job[j].user] = IF @ = "none" THEN "user" ELSE @]
  /\ halfway' = IF IsAdminEmail(job[j].email) /\ role[job[j].user] # "admin"
                THEN halfway \cup {job[j].user} ELSE halfway
  /\ AfterUpsert(j)
  /\ UNCHANGED <<holder, expires, now, issued, born, out, demoted>>

Grant(j) ==
  /\ job[j].pc = "grant"
  /\ role' = [role EXCEPT ![job[j].user] = "admin"]
  /\ demoted' = demoted \ {job[j].user}
  /\ halfway' = halfway \ {job[j].user}
  /\ GoTo(j, "session")
  /\ UNCHANGED <<email, holder, expires, now, issued, born, out>>

\* Cookies are random; which one is next makes no difference.
Unissued == Tokens \ issued

IssueSession(j) ==
  /\ job[j].pc = "session"
  /\ Unissued # {}
  /\ LET t == CHOOSE t \in Unissued : TRUE
     IN  /\ holder' = [holder EXCEPT ![t] = job[j].user]
         /\ expires' = [expires EXCEPT ![t] = now + Lifetime]
         /\ born' = [born EXCEPT ![t] = now]
         /\ issued' = issued \cup {t}
  /\ halfway' = IF IsAdminEmail(job[j].email) THEN halfway \ {job[j].user} ELSE halfway
  /\ GoTo(j, "ok")
  /\ UNCHANGED <<email, role, now, out, demoted>>

SignInFails(j) ==
  /\ MayFail
  /\ job[j].pc \in {"upsert", "grant", "session"}
  /\ GoTo(j, "error")
  /\ UNCHANGED <<rows, now, issued, born, out, demoted, halfway>>

-----------------------------------------------------------------------------
(* Sign-out.  A failed delete is not looked at.                            *)

\* Fault: the cookie is cleared, the session left to expire.
LogoutFault(j) ==
  /\ job[j].pc = "delete"
  /\ out' = out \cup {job[j].token}
  /\ GoTo(j, "ok")
  /\ UNCHANGED <<rows, now, issued, born, demoted, halfway>>

Logout(j) ==
  /\ job[j].pc = "delete"
  /\ holder' = [holder EXCEPT ![job[j].token] = None]
  /\ out' = out \cup {job[j].token}
  /\ GoTo(j, "ok")
  /\ UNCHANGED <<email, role, expires, now, issued, born, demoted, halfway>>

LogoutFails(j) ==
  /\ MayFail
  /\ job[j].pc = "delete"
  /\ GoTo(j, "ok")
  /\ UNCHANGED <<rows, now, issued, born, out, demoted, halfway>>

-----------------------------------------------------------------------------
(* Who a request comes from.                                               *)

\* Fault: the row is enough.
UserFault(t) == holder[t]

User(t) == IF holder[t] # None /\ expires[t] > now THEN holder[t] ELSE None

Unlocked(userRole, required) == userRole = "admin" \/ required = "user"

Admitted(j) == /\ User(job[j].token) # None
               /\ job[j].kind = "board" => role[User(job[j].token)] = "admin"

Who(j) ==
  /\ job[j].pc = "who"
  /\ Admitted(j)
  /\ LET u == User(job[j].token)
     IN  job' = [job EXCEPT
           ![j].user = u,
           ![j].fresh = TRUE,
           ![j].pc = IF job[j].kind = "use" THEN "required"
                     ELSE IF job[j].target = u /\ job[j].role # "admin"
                          THEN "count" ELSE "setRole"]
  /\ UNCHANGED <<rows, now, issued, born, out, demoted, halfway>>

\* Not signed in, or no admin; a failed lookup is nobody.
WhoRefused(j) ==
  /\ job[j].pc = "who"
  /\ MayFail \/ ~ Admitted(j)
  /\ GoTo(j, "refused")
  /\ UNCHANGED <<rows, now, issued, born, out, demoted, halfway>>

-----------------------------------------------------------------------------
(* The admin board.                                                        *)

Admins == {u \in Users : role[u] = "admin"}

\* Fault: off by one.
CountFault(j) ==
  /\ job[j].pc = "count"
  /\ GoTo(j, IF Cardinality(Admins) < 1 THEN "refused" ELSE "setRole")
  /\ UNCHANGED <<rows, now, issued, born, out, demoted, halfway>>

Count(j) ==
  /\ job[j].pc = "count"
  /\ GoTo(j, IF Cardinality(Admins) <= 1 THEN "refused" ELSE "setRole")
  /\ UNCHANGED <<rows, now, issued, born, out, demoted, halfway>>

\* No count is no reason to refuse.
CountFails(j) ==
  /\ MayFail
  /\ job[j].pc = "count"
  /\ job' = [job EXCEPT ![j].pc = "setRole", ![j].fresh = FALSE]
  /\ UNCHANGED <<rows, now, issued, born, out, demoted, halfway>>

SetRole(j) ==
  /\ job[j].pc = "setRole"
  /\ role' = [role EXCEPT ![job[j].target] = IF @ = "none" THEN @ ELSE job[j].role]
  /\ demoted' = IF job[j].role = "admin" THEN demoted \ {job[j].target}
                ELSE demoted \cup {job[j].target}
  /\ job' = [k \in Requests |->
       [job[k] EXCEPT !.pc = IF k = j THEN "ok" ELSE @,
                      !.fresh = @ /\ job[j].role = "admin"]]
  /\ UNCHANGED <<email, holder, expires, now, issued, born, out, halfway>>

SetRoleFails(j) ==
  /\ MayFail
  /\ job[j].pc = "setRole"
  /\ GoTo(j, "error")
  /\ UNCHANGED <<rows, now, issued, born, out, demoted, halfway>>

-----------------------------------------------------------------------------
(* The gate of a claim, featureUnlocked; the role is looked up once more.  *)

\* Fault: open if the lookup fails.
RequiredRoleFault(j) ==
  /\ job[j].pc = "required"
  /\ GoTo(j, "roleOf") \/ (MayFail /\ GoTo(j, "granted"))
  /\ UNCHANGED <<rows, now, issued, born, out, demoted, halfway>>

RequiredRole(j) ==
  /\ job[j].pc = "required"
  /\ GoTo(j, "roleOf") \/ (MayFail /\ GoTo(j, "refused"))
  /\ UNCHANGED <<rows, now, issued, born, out, demoted, halfway>>

\* Nobody, also after a failed lookup, counts as a plain user.
RoleOf(j) ==
  /\ job[j].pc = "roleOf"
  /\ \E u \in {User(job[j].token)} \cup (IF MayFail THEN {None} ELSE {}) :
       GoTo(j, IF Unlocked(IF u = None THEN "user" ELSE role[u], Required)
               THEN "granted" ELSE "refused")
  /\ UNCHANGED <<rows, now, issued, born, out, demoted, halfway>>

-----------------------------------------------------------------------------

Return(j) ==
  /\ job[j].pc \in {"ok", "granted", "refused", "error"}
  /\ job' = [job EXCEPT ![j] = IdleJob]
  /\ UNCHANGED <<rows, now, issued, born, out, demoted, halfway>>

Tick ==
  /\ now < MaxNow
  /\ now' = now + 1
  /\ UNCHANGED <<rows, job, issued, born, out, demoted, halfway>>

Next == \/ \E j \in Requests :
             \/ Begin(j) \/ Upsert(j) \/ Grant(j) \/ IssueSession(j) \/ SignInFails(j)
             \/ Logout(j) \/ LogoutFails(j) \/ Who(j) \/ WhoRefused(j)
             \/ Count(j) \/ CountFails(j) \/ SetRole(j) \/ SetRoleFails(j)
             \/ RequiredRole(j) \/ RoleOf(j) \/ Return(j)
        \/ Tick

Spec == Init /\ [][Next]_vars

-----------------------------------------------------------------------------

\* A session answers for its user from the sign-in to the sign-out or the end
\* of its lifetime: a request that comes later is nobody's (Service.User).
OverIsNobody ==
  \A j \in Requests : job[j].over => job[j].user = None

\* ADMIN_EMAIL is promoted as it signs in (Service.Callback): an account whose
\* row shows that address is an admin's, however sign-ins with it or without it
\* fail or overlap, until the board demotes them.  Excepted is an account that
\* was plain when a sign-in gave its row the address, until one of them is past
\* the grant: a grant that fails leaves such a row, and the account's earlier
\* sessions with it.
OwnerIsAdmin ==
  \A u \in Users \ halfway : IsAdminEmail(email[u]) =>
    role[u] = "admin" \/ u \in demoted

\* The guard of the last admin (handleAdminUsers): the board's last admin goes
\* only if another demotion overtook that one since it was checked, or the
\* admins could not be counted; never by a sign-in.
LastAdminGuarded ==
  [][Admins # {} /\ Admins' = {} =>
       \E j \in Requests : SetRole(j) /\ ~ job[j].fresh]_vars

\* The gate fails closed (featureUnlocked): it opens only to a request whose
\* user satisfies the required role at that moment, although the user was
\* found in an earlier call.
GateFailsClosed ==
  [][\A j \in Requests : job'[j].pc = "granted" /\ job[j].pc # "granted" =>
       /\ job[j].user # None
       /\ Unlocked(role[job[j].user], Required)]_vars
=============================================================================
