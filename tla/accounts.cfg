\* Two requests, two accounts, one of which comes with ADMIN_EMAIL or with no
\* address, and two sessions.
CONSTANTS
  j1 = j1  j2 = j2
  u1 = u1  u2 = u2
  mail = mail
  t1 = t1  t2 = t2
  None = None
  Requests <- MCRequests
  Users <- MCUsers
  Emails <- MCEmails
  AdminEmail = mail
  Tokens <- MCTokens
  Lifetime = 1
  Required = "admin"
  MayFail = TRUE
  MaxNow = 1
SYMMETRY Alike
SPECIFICATION Spec
INVARIANTS TypeOK OverIsNobody OwnerIsAdmin
PROPERTIES LastAdminGuarded GateFailsClosed
