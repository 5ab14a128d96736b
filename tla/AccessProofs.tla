---------------------------- MODULE AccessProofs ----------------------------
(* Proof that sessions follow their account for any number of requests,     *)
(* accounts, passwords, codes and sessions.                                 *)
EXTENDS Access, TLAPS

IsUser(a) ==
  /\ a = [id |-> a.id, role |-> a.role, isActive |-> a.isActive, isApproved |-> a.isApproved,
          isLocked |-> a.isLocked, failedAttempts |-> a.failedAttempts,
          passwordHash |-> a.passwordHash, deletedAt |-> a.deletedAt,
          emailVerifiedAt |-> a.emailVerifiedAt]
  /\ a.id \in 1..made

Accounts == made \in Nat /\ (Exists => IsUser(account))

Requests ==
  /\ DOMAIN req = Clients
  /\ \A c \in Clients : req[c].id \in 0..made

\* A sign-in that nothing has overtaken read the account as it still is.
UpToDate(r) ==
  r.op \in Issuing /\ ~r.late /\ Exists /\ r.id = account.id =>
    ~account.deletedAt /\ account.isActive /\ r.passwordHash = account.passwordHash

Overtaking == \A c \in Clients : UpToDate(req[c])

Rows == \A t \in DOMAIN sessions :
          sessions[t] = [passwordHash |-> sessions[t].passwordHash, late |-> sessions[t].late]

\* The inductive invariant.
IInv == Accounts /\ Requests /\ Rows /\ Overtaking /\ SessionsFollowAccounts

-----------------------------------------------------------------------------
LEMMA Start == ASSUME Init PROVE IInv
<1>1. Accounts
  <2>1. ASSUME NEW role, NEW n, made = 1 PROVE IsUser(NewUser(1, role, TRUE, n))
    BY <2>1 DEF IsUser, NewUser
  <2>2. CASE account = NoAccount /\ made = 0
    BY <2>2 DEF Accounts, Exists
  <2>3. CASE account = Owner /\ made = 1
    BY <2>1, <2>3 DEF Accounts, Owner
  <2>4. CASE made = 1 /\ \E role \in StaffRoles : account = NewUser(1, role, TRUE, 0)
    BY <2>1, <2>4 DEF Accounts
  <2>. QED  BY <2>2, <2>3, <2>4 DEF Init
<1>2. Requests
  BY <1>1 DEF Init, Requests, Idle, Request, Accounts
<1>3. Rows /\ SessionsFollowAccounts
  BY DEF Init, Rows, SessionsFollowAccounts, NoSessions
<1>4. Overtaking
  BY DEF Init, Overtaking, UpToDate, Idle, Request, Issuing
<1>. QED  BY <1>1, <1>2, <1>3, <1>4 DEF IInv

\* A request that hands out no session is sent.
LEMMA Sent ==
  ASSUME IInv, NEW c \in Clients, NEW op, op \notin Issuing, NEW with, SendId(c, op, with),
         UNCHANGED <<account, sessions, made>>
  PROVE  IInv'
<1>. DEFINE r == Request(op, account.id, 0, FALSE, with)
<1>1. r.op = op /\ r.id = account.id /\ account.id \in 0..made /\ req[c].op = "idle"
  BY DEF IInv, Accounts, IsUser, Exists, NoAccount, SendId, Send, Request, Idle
<1>2. req' = [req EXCEPT ![c] = r]
  BY DEF SendId, Send
<1>. HIDE DEF r
<1>3. \A d \in Clients : req'[d] = IF d = c THEN r ELSE req[d]
  BY <1>2 DEF IInv, Requests
<1>4. Requests'
  BY <1>1, <1>2, <1>3 DEF IInv, Requests
<1>5. Overtaking'
  BY <1>1, <1>3 DEF IInv, Overtaking, UpToDate, Exists, NoAccount
<1>6. SessionsFollowAccounts'
  <2>1. \A d \in Clients : Finds(d, "revoke") => Finds(d, "revoke")'
    BY <1>1, <1>3 DEF Finds, At, Exists, NoAccount
  <2>. QED  BY <2>1 DEF IInv, SessionsFollowAccounts, Exists, NoAccount
<1>7. Accounts' /\ Rows'
  BY DEF IInv, Accounts, IsUser, Exists, NoAccount, Rows
<1>. QED  BY <1>4, <1>5, <1>6, <1>7 DEF IInv

LEMMA KeepsSignup ==
  ASSUME NEW c \in Clients, IInv, Signup(c)
  PROVE  IInv'
<1>. USE DEF IInv
<1>1. Accounts'
  BY DEF Signup, NewUser, Request, Accounts, IsUser, Exists, NoAccount, Finds, At, Mail
<1>2. Requests'
  BY DEF Signup, NewUser, Request, Accounts, IsUser, Requests, Exists, Finds, At, Mail
<1>3. Rows'
  BY DEF Signup, NewUser, Request, Rows, NoSessions
<1>4. Overtaking'
  BY DEF Signup, NewUser, Request, Accounts, IsUser, Requests, Overtaking, UpToDate,
    Issuing, Exists, NoAccount, Finds, At, Mail
<1>5. SessionsFollowAccounts'
  BY DEF Signup, NewUser, Request, Accounts, IsUser, Requests, Rows, Overtaking, UpToDate,
    Issuing, SessionsFollowAccounts, NoSessions, Exists, NoAccount, Finds, At, Mail
<1>. QED  BY <1>1, <1>2, <1>3, <1>4, <1>5

LEMMA KeepsLogin ==
  ASSUME NEW c \in Clients, IInv, Login(c)
  PROVE  IInv'
<1>. USE DEF IInv
<1>1. Accounts'
  BY DEF Login, assertLoginAllowed, SendRow, Send, Request, Accounts, IsUser, Exists,
    NoAccount, Finds, At, Mail
<1>2. Requests'
  BY DEF Login, assertLoginAllowed, SendRow, Send, Request, Accounts, IsUser, Requests,
    Exists, Finds, At, Mail
<1>3. Rows'
  BY DEF Login, assertLoginAllowed, SendRow, Send, Request, Rows, NoSessions
<1>4. Overtaking'
  BY DEF Login, assertLoginAllowed, SendRow, Send, Request, Accounts, IsUser, Requests,
    Overtaking, UpToDate, Issuing, Exists, NoAccount, Finds, At, Mail
<1>5. SessionsFollowAccounts'
  BY DEF Login, assertLoginAllowed, SendRow, Send, Request, Accounts, IsUser, Requests,
    Rows, Overtaking, UpToDate, Issuing, SessionsFollowAccounts, NoSessions, Exists,
    NoAccount, Finds, At, Mail
<1>. QED  BY <1>1, <1>2, <1>3, <1>4, <1>5

LEMMA KeepsWrongPassword ==
  ASSUME NEW c \in Clients, IInv, WrongPassword(c)
  PROVE  IInv'
<1>. USE DEF IInv
<1>1. Accounts'
  BY DEF WrongPassword, Answered, Idle, Request, Accounts, IsUser, Exists, NoAccount, Finds,
    At, Mail
<1>2. Requests'
  BY DEF WrongPassword, Answered, Idle, Request, Accounts, IsUser, Requests, Exists, Finds,
    At, Mail
<1>3. Rows'
  BY DEF WrongPassword, Answered, Idle, Request, Rows, NoSessions
<1>4. Overtaking'
  BY DEF WrongPassword, Answered, Idle, Request, Accounts, IsUser, Requests, Overtaking,
    UpToDate, Issuing, Exists, NoAccount, Finds, At, Mail
<1>5. SessionsFollowAccounts'
  BY DEF WrongPassword, Answered, Idle, Request, Accounts, IsUser, Requests, Rows,
    Overtaking, UpToDate, Issuing, SessionsFollowAccounts, NoSessions, Exists, NoAccount,
    Finds, At, Mail
<1>. QED  BY <1>1, <1>2, <1>3, <1>4, <1>5

LEMMA KeepsRightPassword ==
  ASSUME NEW c \in Clients, IInv, RightPassword(c)
  PROVE  IInv'
<1>. USE DEF IInv
<1>1. Accounts'
  BY DEF RightPassword, Request, Accounts, IsUser, Exists, NoAccount, Finds, At, Mail
<1>2. Requests'
  BY DEF RightPassword, Request, Accounts, IsUser, Requests, Exists, Finds, At, Mail
<1>3. Rows'
  BY DEF RightPassword, Request, Rows, NoSessions
<1>4. Overtaking'
  BY DEF RightPassword, Request, Accounts, IsUser, Requests, Overtaking, UpToDate, Issuing,
    Exists, NoAccount, Finds, At, Mail
<1>5. SessionsFollowAccounts'
  BY DEF RightPassword, Request, Accounts, IsUser, Requests, Rows, Overtaking, UpToDate,
    Issuing, SessionsFollowAccounts, NoSessions, Exists, NoAccount, Finds, At, Mail
<1>. QED  BY <1>1, <1>2, <1>3, <1>4, <1>5

LEMMA KeepsChangePassword ==
  ASSUME NEW c \in Clients, IInv, ChangePassword(c)
  PROVE  IInv'
BY Sent DEF ChangePassword, Issuing, Mail

LEMMA KeepsPasswordChanged ==
  ASSUME NEW c \in Clients, IInv, PasswordChanged(c)
  PROVE  IInv'
<1>. USE DEF IInv
<1>1. Accounts'
  BY DEF PasswordChanged, Rehashed, Revoked, Ahead, Overtaken, Idle, Request, Accounts,
    IsUser, Exists, NoAccount, Finds, At, Mail
<1>2. Requests'
  BY DEF PasswordChanged, Rehashed, Revoked, Ahead, Overtaken, Idle, Request, Accounts,
    IsUser, Requests, Exists, Finds, At, Mail
<1>3. Rows'
  BY DEF PasswordChanged, Rehashed, Revoked, Ahead, Overtaken, Idle, Request, Rows,
    NoSessions
<1>4. Overtaking'
  BY DEF PasswordChanged, Rehashed, Revoked, Ahead, Overtaken, Idle, Request, Accounts,
    IsUser, Requests, Overtaking, UpToDate, Issuing, Exists, NoAccount, Finds, At, Mail
<1>5. SessionsFollowAccounts'
  BY DEF PasswordChanged, Rehashed, Revoked, Ahead, Overtaken, Idle, Request, Accounts,
    IsUser, Requests, Rows, Overtaking, UpToDate, Issuing, SessionsFollowAccounts,
    NoSessions, Exists, NoAccount, Finds, At, Mail
<1>. QED  BY <1>1, <1>2, <1>3, <1>4, <1>5

LEMMA KeepsForgotPassword ==
  ASSUME NEW c \in Clients, IInv, ForgotPassword(c)
  PROVE  IInv'
BY Sent DEF ForgotPassword, Issuing, Mail

LEMMA KeepsCodeMailed ==
  ASSUME NEW c \in Clients, IInv, CodeMailed(c)
  PROVE  IInv'
<1>. USE DEF IInv
<1>1. Accounts'
  BY DEF CodeMailed, Answered, Idle, Request, Accounts, IsUser, Exists, NoAccount, Finds,
    At, Mail
<1>2. Requests'
  BY DEF CodeMailed, Answered, Idle, Request, Accounts, IsUser, Requests, Exists, Finds, At,
    Mail
<1>3. Rows'
  BY DEF CodeMailed, Answered, Idle, Request, Rows, NoSessions
<1>4. Overtaking'
  BY DEF CodeMailed, Answered, Idle, Request, Accounts, IsUser, Requests, Overtaking,
    UpToDate, Issuing, Exists, NoAccount, Finds, At, Mail
<1>5. SessionsFollowAccounts'
  BY DEF CodeMailed, Answered, Idle, Request, Accounts, IsUser, Requests, Rows, Overtaking,
    UpToDate, Issuing, SessionsFollowAccounts, NoSessions, Exists, NoAccount, Finds, At,
    Mail
<1>. QED  BY <1>1, <1>2, <1>3, <1>4, <1>5

LEMMA KeepsCodeSpent ==
  ASSUME NEW c \in Clients, IInv, CodeSpent(c)
  PROVE  IInv'
<1>. USE DEF IInv
<1>1. Accounts'
  BY DEF CodeSpent, Rehashed, Revoked, Ahead, Overtaken, Idle, Request, Accounts, IsUser,
    Exists, NoAccount, Finds, At, Mail
<1>2. Requests'
  BY DEF CodeSpent, Rehashed, Revoked, Ahead, Overtaken, Idle, Request, Accounts, IsUser,
    Requests, Exists, Finds, At, Mail
<1>3. Rows'
  BY DEF CodeSpent, Rehashed, Revoked, Ahead, Overtaken, Idle, Request, Rows, NoSessions
<1>4. Overtaking'
  BY DEF CodeSpent, Rehashed, Revoked, Ahead, Overtaken, Idle, Request, Accounts, IsUser,
    Requests, Overtaking, UpToDate, Issuing, Exists, NoAccount, Finds, At, Mail
<1>5. SessionsFollowAccounts'
  BY DEF CodeSpent, Rehashed, Revoked, Ahead, Overtaken, Idle, Request, Accounts, IsUser,
    Requests, Rows, Overtaking, UpToDate, Issuing, SessionsFollowAccounts, NoSessions,
    Exists, NoAccount, Finds, At, Mail
<1>. QED  BY <1>1, <1>2, <1>3, <1>4, <1>5

LEMMA KeepsCodeGone ==
  ASSUME NEW c \in Clients, IInv, CodeGone(c)
  PROVE  IInv'
<1>. USE DEF IInv
<1>1. Accounts'
  BY DEF CodeGone, Answered, Idle, Request, Accounts, IsUser, Exists, NoAccount, Finds, At,
    Mail
<1>2. Requests'
  BY DEF CodeGone, Answered, Idle, Request, Accounts, IsUser, Requests, Exists, Finds, At,
    Mail
<1>3. Rows'
  BY DEF CodeGone, Answered, Idle, Request, Rows, NoSessions
<1>4. Overtaking'
  BY DEF CodeGone, Answered, Idle, Request, Accounts, IsUser, Requests, Overtaking,
    UpToDate, Issuing, Exists, NoAccount, Finds, At, Mail
<1>5. SessionsFollowAccounts'
  BY DEF CodeGone, Answered, Idle, Request, Accounts, IsUser, Requests, Rows, Overtaking,
    UpToDate, Issuing, SessionsFollowAccounts, NoSessions, Exists, NoAccount, Finds, At,
    Mail
<1>. QED  BY <1>1, <1>2, <1>3, <1>4, <1>5

LEMMA KeepsResendVerification ==
  ASSUME NEW c \in Clients, IInv, ResendVerification(c)
  PROVE  IInv'
BY Sent DEF ResendVerification, Issuing, Mail

LEMMA KeepsLinkMailed ==
  ASSUME NEW c \in Clients, IInv, LinkMailed(c)
  PROVE  IInv'
<1>. USE DEF IInv
<1>1. Accounts'
  BY DEF LinkMailed, Answered, Idle, Request, Accounts, IsUser, Exists, NoAccount, Finds,
    At, Mail
<1>2. Requests'
  BY DEF LinkMailed, Answered, Idle, Request, Accounts, IsUser, Requests, Exists, Finds, At,
    Mail
<1>3. Rows'
  BY DEF LinkMailed, Answered, Idle, Request, Rows, NoSessions
<1>4. Overtaking'
  BY DEF LinkMailed, Answered, Idle, Request, Accounts, IsUser, Requests, Overtaking,
    UpToDate, Issuing, Exists, NoAccount, Finds, At, Mail
<1>5. SessionsFollowAccounts'
  BY DEF LinkMailed, Answered, Idle, Request, Accounts, IsUser, Requests, Rows, Overtaking,
    UpToDate, Issuing, SessionsFollowAccounts, NoSessions, Exists, NoAccount, Finds, At,
    Mail
<1>. QED  BY <1>1, <1>2, <1>3, <1>4, <1>5

LEMMA KeepsEmailConfirmed ==
  ASSUME NEW c \in Clients, IInv, EmailConfirmed(c)
  PROVE  IInv'
<1>. USE DEF IInv
<1>1. Accounts'
  BY DEF EmailConfirmed, Answered, Idle, Request, Accounts, IsUser, Exists, NoAccount,
    Finds, At, Mail
<1>2. Requests'
  BY DEF EmailConfirmed, Answered, Idle, Request, Accounts, IsUser, Requests, Exists, Finds,
    At, Mail
<1>3. Rows'
  BY DEF EmailConfirmed, Answered, Idle, Request, Rows, NoSessions
<1>4. Overtaking'
  BY DEF EmailConfirmed, Answered, Idle, Request, Accounts, IsUser, Requests, Overtaking,
    UpToDate, Issuing, Exists, NoAccount, Finds, At, Mail
<1>5. SessionsFollowAccounts'
  BY DEF EmailConfirmed, Answered, Idle, Request, Accounts, IsUser, Requests, Rows,
    Overtaking, UpToDate, Issuing, SessionsFollowAccounts, NoSessions, Exists, NoAccount,
    Finds, At, Mail
<1>. QED  BY <1>1, <1>2, <1>3, <1>4, <1>5

LEMMA KeepsApprove ==
  ASSUME NEW c \in Clients, IInv, Approve(c)
  PROVE  IInv'
<1>. USE DEF IInv
<1>1. Accounts'
  BY DEF Approve, Answered, Idle, Request, Accounts, IsUser, Exists, NoAccount, Finds, At,
    Mail
<1>2. Requests'
  BY DEF Approve, Answered, Idle, Request, Accounts, IsUser, Requests, Exists, Finds, At,
    Mail
<1>3. Rows'
  BY DEF Approve, Answered, Idle, Request, Rows, NoSessions
<1>4. Overtaking'
  BY DEF Approve, Answered, Idle, Request, Accounts, IsUser, Requests, Overtaking, UpToDate,
    Issuing, Exists, NoAccount, Finds, At, Mail
<1>5. SessionsFollowAccounts'
  BY DEF Approve, Answered, Idle, Request, Accounts, IsUser, Requests, Rows, Overtaking,
    UpToDate, Issuing, SessionsFollowAccounts, NoSessions, Exists, NoAccount, Finds, At,
    Mail
<1>. QED  BY <1>1, <1>2, <1>3, <1>4, <1>5

LEMMA KeepsUpdate ==
  ASSUME NEW c \in Clients, IInv, Update(c)
  PROVE  IInv'
<1>. USE DEF IInv
<1>1. Accounts'
  BY DEF Update, Answered, Idle, Request, Accounts, IsUser, Exists, NoAccount, Finds, At,
    Mail
<1>2. Requests'
  BY DEF Update, Answered, Idle, Request, Accounts, IsUser, Requests, Exists, Finds, At,
    Mail
<1>3. Rows'
  BY DEF Update, Answered, Idle, Request, Rows, NoSessions
<1>4. Overtaking'
  BY DEF Update, Answered, Idle, Request, Accounts, IsUser, Requests, Overtaking, UpToDate,
    Issuing, Exists, NoAccount, Finds, At, Mail
<1>5. SessionsFollowAccounts'
  BY DEF Update, Answered, Idle, Request, Accounts, IsUser, Requests, Rows, Overtaking,
    UpToDate, Issuing, SessionsFollowAccounts, NoSessions, Exists, NoAccount, Finds, At,
    Mail
<1>. QED  BY <1>1, <1>2, <1>3, <1>4, <1>5

LEMMA KeepsEnable ==
  ASSUME NEW c \in Clients, IInv, Enable(c)
  PROVE  IInv'
<1>. USE DEF IInv
<1>1. Accounts'
  BY DEF Enable, Answered, Idle, Request, Accounts, IsUser, Exists, NoAccount, Finds, At,
    Mail
<1>2. Requests'
  BY DEF Enable, Answered, Idle, Request, Accounts, IsUser, Requests, Exists, Finds, At,
    Mail
<1>3. Rows'
  BY DEF Enable, Answered, Idle, Request, Rows, NoSessions
<1>4. Overtaking'
  BY DEF Enable, Answered, Idle, Request, Accounts, IsUser, Requests, Overtaking, UpToDate,
    Issuing, Exists, NoAccount, Finds, At, Mail
<1>5. SessionsFollowAccounts'
  BY DEF Enable, Answered, Idle, Request, Accounts, IsUser, Requests, Rows, Overtaking,
    UpToDate, Issuing, SessionsFollowAccounts, NoSessions, Exists, NoAccount, Finds, At,
    Mail
<1>. QED  BY <1>1, <1>2, <1>3, <1>4, <1>5

LEMMA KeepsDisable ==
  ASSUME NEW c \in Clients, IInv, Disable(c)
  PROVE  IInv'
<1>. USE DEF IInv
<1>1. Accounts'
  BY DEF Disable, Ahead, Overtaken, Idle, Request, Accounts, IsUser, Exists, NoAccount,
    Finds, At, Mail
<1>2. Requests'
  BY DEF Disable, Ahead, Overtaken, Idle, Request, Accounts, IsUser, Requests, Exists,
    Finds, At, Mail
<1>3. Rows'
  BY DEF Disable, Ahead, Overtaken, Idle, Request, Rows, NoSessions
<1>4. Overtaking'
  BY DEF Disable, Ahead, Overtaken, Idle, Request, Accounts, IsUser, Requests, Overtaking,
    UpToDate, Issuing, Exists, NoAccount, Finds, At, Mail
<1>5. SessionsFollowAccounts'
  BY DEF Disable, Ahead, Overtaken, Idle, Request, Accounts, IsUser, Requests, Rows,
    Overtaking, UpToDate, Issuing, SessionsFollowAccounts, NoSessions, Exists, NoAccount,
    Finds, At, Mail
<1>. QED  BY <1>1, <1>2, <1>3, <1>4, <1>5

LEMMA KeepsRevokeSessions ==
  ASSUME NEW c \in Clients, IInv, RevokeSessions(c)
  PROVE  IInv'
<1>. USE DEF IInv
<1>1. Accounts'
  BY DEF RevokeSessions, Revoked, Answered, Idle, Request, Accounts, IsUser, Exists,
    NoAccount, Finds, At, Mail
<1>2. Requests'
  BY DEF RevokeSessions, Revoked, Answered, Idle, Request, Accounts, IsUser, Requests,
    Exists, Finds, At, Mail
<1>3. Rows'
  BY DEF RevokeSessions, Revoked, Answered, Idle, Request, Rows, NoSessions
<1>4. Overtaking'
  BY DEF RevokeSessions, Revoked, Answered, Idle, Request, Accounts, IsUser, Requests,
    Overtaking, UpToDate, Issuing, Exists, NoAccount, Finds, At, Mail
<1>5. SessionsFollowAccounts'
  BY DEF RevokeSessions, Revoked, Answered, Idle, Request, Accounts, IsUser, Requests, Rows,
    Overtaking, UpToDate, Issuing, SessionsFollowAccounts, NoSessions, Exists, NoAccount,
    Finds, At, Mail
<1>. QED  BY <1>1, <1>2, <1>3, <1>4, <1>5

LEMMA KeepsSetPassword ==
  ASSUME NEW c \in Clients, IInv, SetPassword(c)
  PROVE  IInv'
<1>. USE DEF IInv
<1>1. Accounts'
  BY DEF SetPassword, Rehashed, Revoked, Ahead, Overtaken, Idle, Request, Accounts, IsUser,
    Exists, NoAccount, Finds, At, Mail
<1>2. Requests'
  BY DEF SetPassword, Rehashed, Revoked, Ahead, Overtaken, Idle, Request, Accounts, IsUser,
    Requests, Exists, Finds, At, Mail
<1>3. Rows'
  BY DEF SetPassword, Rehashed, Revoked, Ahead, Overtaken, Idle, Request, Rows, NoSessions
<1>4. Overtaking'
  BY DEF SetPassword, Rehashed, Revoked, Ahead, Overtaken, Idle, Request, Accounts, IsUser,
    Requests, Overtaking, UpToDate, Issuing, Exists, NoAccount, Finds, At, Mail
<1>5. SessionsFollowAccounts'
  BY DEF SetPassword, Rehashed, Revoked, Ahead, Overtaken, Idle, Request, Accounts, IsUser,
    Requests, Rows, Overtaking, UpToDate, Issuing, SessionsFollowAccounts, NoSessions,
    Exists, NoAccount, Finds, At, Mail
<1>. QED  BY <1>1, <1>2, <1>3, <1>4, <1>5

LEMMA KeepsRemove ==
  ASSUME NEW c \in Clients, IInv, Remove(c)
  PROVE  IInv'
<1>. USE DEF IInv
<1>1. Accounts'
  BY DEF Remove, Revoked, Ahead, Overtaken, Idle, Request, Accounts, IsUser, Exists,
    NoAccount, Finds, At, Mail
<1>2. Requests'
  BY DEF Remove, Revoked, Ahead, Overtaken, Idle, Request, Accounts, IsUser, Requests,
    Exists, Finds, At, Mail
<1>3. Rows'
  BY DEF Remove, Revoked, Ahead, Overtaken, Idle, Request, Rows, NoSessions
<1>4. Overtaking'
  BY DEF Remove, Revoked, Ahead, Overtaken, Idle, Request, Accounts, IsUser, Requests,
    Overtaking, UpToDate, Issuing, Exists, NoAccount, Finds, At, Mail
<1>5. SessionsFollowAccounts'
  BY DEF Remove, Revoked, Ahead, Overtaken, Idle, Request, Accounts, IsUser, Requests, Rows,
    Overtaking, UpToDate, Issuing, SessionsFollowAccounts, NoSessions, Exists, NoAccount,
    Finds, At, Mail
<1>. QED  BY <1>1, <1>2, <1>3, <1>4, <1>5

LEMMA KeepsPurgeOthers ==
  ASSUME NEW c \in Clients, IInv, PurgeOthers(c)
  PROVE  IInv'
BY Sent DEF PurgeOthers, Issuing, Mail

LEMMA KeepsPurged ==
  ASSUME NEW c \in Clients, IInv, Purged(c)
  PROVE  IInv'
<1>. USE DEF IInv
<1>1. Accounts'
  BY DEF Purged, Revoked, Answered, Idle, Request, Accounts, IsUser, Exists, NoAccount,
    Finds, At, Mail
<1>2. Requests'
  BY DEF Purged, Revoked, Answered, Idle, Request, Accounts, IsUser, Requests, Exists,
    Finds, At, Mail
<1>3. Rows'
  BY DEF Purged, Revoked, Answered, Idle, Request, Rows, NoSessions
<1>4. Overtaking'
  BY DEF Purged, Revoked, Answered, Idle, Request, Accounts, IsUser, Requests, Overtaking,
    UpToDate, Issuing, Exists, NoAccount, Finds, At, Mail
<1>5. SessionsFollowAccounts'
  BY DEF Purged, Revoked, Answered, Idle, Request, Accounts, IsUser, Requests, Rows,
    Overtaking, UpToDate, Issuing, SessionsFollowAccounts, NoSessions, Exists, NoAccount,
    Finds, At, Mail
<1>. QED  BY <1>1, <1>2, <1>3, <1>4, <1>5

LEMMA KeepsMissed ==
  ASSUME NEW c \in Clients, IInv, Missed(c)
  PROVE  IInv'
<1>. USE DEF IInv
<1>1. Accounts'
  BY DEF Missed, Answered, Idle, Request, Accounts, IsUser, Exists, NoAccount, Finds, At,
    Mail
<1>2. Requests'
  BY DEF Missed, Answered, Idle, Request, Accounts, IsUser, Requests, Exists, Finds, At,
    Mail
<1>3. Rows'
  BY DEF Missed, Answered, Idle, Request, Rows, NoSessions
<1>4. Overtaking'
  BY DEF Missed, Answered, Idle, Request, Accounts, IsUser, Requests, Overtaking, UpToDate,
    Issuing, Exists, NoAccount, Finds, At, Mail
<1>5. SessionsFollowAccounts'
  BY DEF Missed, Answered, Idle, Request, Accounts, IsUser, Requests, Rows, Overtaking,
    UpToDate, Issuing, SessionsFollowAccounts, NoSessions, Exists, NoAccount, Finds, At,
    Mail
<1>. QED  BY <1>1, <1>2, <1>3, <1>4, <1>5

LEMMA KeepsCrash ==
  ASSUME NEW c \in Clients, IInv, Crash(c)
  PROVE  IInv'
<1>. USE DEF IInv
<1>1. Accounts'
  BY DEF Crash, Answered, Idle, Request, Accounts, IsUser, Exists, NoAccount, Finds, At,
    Mail
<1>2. Requests'
  BY DEF Crash, Answered, Idle, Request, Accounts, IsUser, Requests, Exists, Finds, At, Mail
<1>3. Rows'
  BY DEF Crash, Answered, Idle, Request, Rows, NoSessions
<1>4. Overtaking'
  BY DEF Crash, Answered, Idle, Request, Accounts, IsUser, Requests, Overtaking, UpToDate,
    Issuing, Exists, NoAccount, Finds, At, Mail
<1>5. SessionsFollowAccounts'
  BY DEF Crash, Answered, Idle, Request, Accounts, IsUser, Requests, Rows, Overtaking,
    UpToDate, Issuing, SessionsFollowAccounts, NoSessions, Exists, NoAccount, Finds, At,
    Mail
<1>. QED  BY <1>1, <1>2, <1>3, <1>4, <1>5

LEMMA KeepsRefresh ==
  ASSUME NEW c \in Clients, NEW t \in DOMAIN sessions, IInv, Refresh(c, t)
  PROVE  IInv'
<1>. USE DEF IInv
<1>1. Accounts'
  BY DEF Refresh, assertLoginAllowed, SendRow, Send, Request, Accounts, IsUser, Exists,
    NoAccount, Finds, At, Mail
<1>2. Requests'
  BY DEF Refresh, assertLoginAllowed, SendRow, Send, Request, Accounts, IsUser, Requests,
    Exists, Finds, At, Mail
<1>3. Rows'
  BY DEF Refresh, assertLoginAllowed, SendRow, Send, Request, Rows, NoSessions
<1>4. Overtaking'
  BY DEF Refresh, assertLoginAllowed, SendRow, Send, Request, Accounts, IsUser, Requests,
    Overtaking, UpToDate, Issuing, Exists, NoAccount, Finds, At, Mail
<1>5. SessionsFollowAccounts'
  BY DEF Refresh, assertLoginAllowed, SendRow, Send, Request, Accounts, IsUser, Requests,
    Rows, Overtaking, UpToDate, Issuing, SessionsFollowAccounts, NoSessions, Exists,
    NoAccount, Finds, At, Mail
<1>. QED  BY <1>1, <1>2, <1>3, <1>4, <1>5

LEMMA KeepsIssueTokens ==
  ASSUME NEW c \in Clients, NEW t, IInv, IssueTokens(c, t)
  PROVE  IInv'
<1>. USE DEF IInv
<1>1. Accounts'
  BY DEF IssueTokens, Answered, Idle, Request, Accounts, IsUser, Exists, NoAccount, Finds,
    At, Mail
<1>2. Requests'
  BY DEF IssueTokens, Answered, Idle, Request, Accounts, IsUser, Requests, Exists, Finds,
    At, Mail
<1>3. Rows'
  BY DEF IssueTokens, Answered, Idle, Request, Rows, NoSessions
<1>4. Overtaking'
  BY DEF IssueTokens, Answered, Idle, Request, Accounts, IsUser, Requests, Overtaking,
    UpToDate, Issuing, Exists, NoAccount, Finds, At, Mail
<1>5. SessionsFollowAccounts'
  BY DEF IssueTokens, Answered, Idle, Request, Accounts, IsUser, Requests, Rows, Overtaking,
    UpToDate, Issuing, SessionsFollowAccounts, NoSessions, Exists, NoAccount, Finds, At,
    Mail
<1>. QED  BY <1>1, <1>2, <1>3, <1>4, <1>5

LEMMA KeepsResetPassword ==
  ASSUME NEW c \in Clients, NEW n, IInv, ResetPassword(c, n)
  PROVE  IInv'
<1>. USE DEF IInv
<1>1. Accounts'
  BY DEF ResetPassword, assertLoginAllowed, SendRow, Send, Request, Accounts, IsUser,
    Exists, NoAccount, Finds, At, Mail
<1>2. Requests'
  BY DEF ResetPassword, assertLoginAllowed, SendRow, Send, Request, Accounts, IsUser,
    Requests, Exists, Finds, At, Mail
<1>3. Rows'
  BY DEF ResetPassword, assertLoginAllowed, SendRow, Send, Request, Rows, NoSessions
<1>4. Overtaking'
  BY DEF ResetPassword, assertLoginAllowed, SendRow, Send, Request, Accounts, IsUser,
    Requests, Overtaking, UpToDate, Issuing, Exists, NoAccount, Finds, At, Mail
<1>5. SessionsFollowAccounts'
  BY DEF ResetPassword, assertLoginAllowed, SendRow, Send, Request, Accounts, IsUser,
    Requests, Rows, Overtaking, UpToDate, Issuing, SessionsFollowAccounts, NoSessions,
    Exists, NoAccount, Finds, At, Mail
<1>. QED  BY <1>1, <1>2, <1>3, <1>4, <1>5

LEMMA KeepsConfirmEmail ==
  ASSUME NEW c \in Clients, NEW n, IInv, ConfirmEmail(c, n)
  PROVE  IInv'
BY Sent DEF ConfirmEmail, Issuing, Mail

LEMMA KeepsManage ==
  ASSUME NEW c \in Clients, NEW op, op \notin Issuing, NEW with, IInv, Manage(c, op, with)
  PROVE  IInv'
BY Sent DEF Manage, Issuing, Mail

LEMMA KeepsLogout ==
  ASSUME NEW t, IInv, Logout(t)
  PROVE  IInv'
<1>. USE DEF IInv
<1>1. Accounts'
  BY DEF Logout, EndSession, Accounts, IsUser, Exists, NoAccount, Finds, At, Mail
<1>2. Requests'
  BY DEF Logout, EndSession, Accounts, IsUser, Requests, Exists, Finds, At, Mail
<1>3. Rows'
  BY DEF Logout, EndSession, Rows, NoSessions
<1>4. Overtaking'
  BY DEF Logout, EndSession, Accounts, IsUser, Requests, Overtaking, UpToDate, Issuing,
    Exists, NoAccount, Finds, At, Mail
<1>5. SessionsFollowAccounts'
  BY DEF Logout, EndSession, Accounts, IsUser, Requests, Rows, Overtaking, UpToDate,
    Issuing, SessionsFollowAccounts, NoSessions, Exists, NoAccount, Finds, At, Mail
<1>. QED  BY <1>1, <1>2, <1>3, <1>4, <1>5

LEMMA KeepsRevokeSession ==
  ASSUME NEW t, IInv, RevokeSession(t)
  PROVE  IInv'
<1>. USE DEF IInv
<1>1. Accounts'
  BY DEF RevokeSession, EndSession, Accounts, IsUser, Exists, NoAccount, Finds, At, Mail
<1>2. Requests'
  BY DEF RevokeSession, EndSession, Accounts, IsUser, Requests, Exists, Finds, At, Mail
<1>3. Rows'
  BY DEF RevokeSession, EndSession, Rows, NoSessions
<1>4. Overtaking'
  BY DEF RevokeSession, EndSession, Accounts, IsUser, Requests, Overtaking, UpToDate,
    Issuing, Exists, NoAccount, Finds, At, Mail
<1>5. SessionsFollowAccounts'
  BY DEF RevokeSession, EndSession, Accounts, IsUser, Requests, Rows, Overtaking, UpToDate,
    Issuing, SessionsFollowAccounts, NoSessions, Exists, NoAccount, Finds, At, Mail
<1>. QED  BY <1>1, <1>2, <1>3, <1>4, <1>5

LEMMA KeepsCreateUser ==
  ASSUME NEW role, IInv, CreateUser(role)
  PROVE  IInv'
<1>. USE DEF IInv
<1>1. Accounts'
  BY DEF CreateUser, NewUser, Accounts, IsUser, Exists, NoAccount, Finds, At, Mail
<1>2. Requests'
  BY DEF CreateUser, NewUser, Accounts, IsUser, Requests, Exists, Finds, At, Mail
<1>3. Rows'
  BY DEF CreateUser, NewUser, Rows, NoSessions
<1>4. Overtaking'
  BY DEF CreateUser, NewUser, Accounts, IsUser, Requests, Overtaking, UpToDate, Issuing,
    Exists, NoAccount, Finds, At, Mail
<1>5. SessionsFollowAccounts'
  BY DEF CreateUser, NewUser, Accounts, IsUser, Requests, Rows, Overtaking, UpToDate,
    Issuing, SessionsFollowAccounts, NoSessions, Exists, NoAccount, Finds, At, Mail
<1>. QED  BY <1>1, <1>2, <1>3, <1>4, <1>5

LEMMA KeepsUpdateTenant ==
  ASSUME IInv, UpdateTenant
  PROVE  IInv'
<1>. USE DEF IInv
<1>1. Accounts'
  BY DEF UpdateTenant, Accounts, IsUser, Exists, NoAccount, Finds, At, Mail
<1>2. Requests'
  BY DEF UpdateTenant, Accounts, IsUser, Requests, Exists, Finds, At, Mail
<1>3. Rows'
  BY DEF UpdateTenant, Rows, NoSessions
<1>4. Overtaking'
  BY DEF UpdateTenant, Accounts, IsUser, Requests, Overtaking, UpToDate, Issuing, Exists,
    NoAccount, Finds, At, Mail
<1>5. SessionsFollowAccounts'
  BY DEF UpdateTenant, Accounts, IsUser, Requests, Rows, Overtaking, UpToDate, Issuing,
    SessionsFollowAccounts, NoSessions, Exists, NoAccount, Finds, At, Mail
<1>. QED  BY <1>1, <1>2, <1>3, <1>4, <1>5

-----------------------------------------------------------------------------
LEMMA Step == ASSUME IInv, [Next]_vars PROVE IInv'
<1>1. CASE UNCHANGED vars
  BY <1>1 DEF vars, IInv, Accounts, IsUser, Exists, Requests, Rows, Overtaking,
    UpToDate, SessionsFollowAccounts, Finds, At
<1>2. ASSUME NEW c \in Clients, SignIn(c) PROVE IInv'
  BY <1>2, KeepsSignup, KeepsLogin, KeepsWrongPassword, KeepsRightPassword, KeepsRefresh,
    KeepsIssueTokens DEF SignIn
<1>3. ASSUME NEW c \in Clients, Passwords(c) PROVE IInv'
  BY <1>3, KeepsChangePassword, KeepsPasswordChanged, KeepsForgotPassword, KeepsCodeMailed,
    KeepsResetPassword, KeepsCodeSpent, KeepsCodeGone DEF Passwords
<1>4. ASSUME NEW c \in Clients, Address(c) PROVE IInv'
  BY <1>4, KeepsResendVerification, KeepsLinkMailed, KeepsConfirmEmail, KeepsEmailConfirmed
    DEF Address
<1>5. ASSUME NEW c \in Clients, Staff(c) PROVE IInv'
  <2>1. CASE \E op \in {"approve", "enable", "disable", "setPassword", "remove"} : Manage(c, op, 0)
    BY <2>1, KeepsManage DEF Issuing
  <2>2. CASE \E role \in StaffRoles : Manage(c, "update", role)
    BY <2>2, KeepsManage DEF Issuing
  <2>. QED
    BY <1>5, <2>1, <2>2, KeepsApprove, KeepsUpdate, KeepsEnable, KeepsDisable,
      KeepsRevokeSessions, KeepsSetPassword, KeepsRemove, KeepsPurgeOthers, KeepsPurged DEF Staff
<1>6. ASSUME NEW t \in DOMAIN sessions, Logout(t) \/ RevokeSession(t) PROVE IInv'
  BY <1>6, KeepsLogout, KeepsRevokeSession
<1>7. ASSUME NEW role \in StaffRoles, CreateUser(role) PROVE IInv'
  BY <1>7, KeepsCreateUser
<1>. QED
  BY <1>1, <1>2, <1>3, <1>4, <1>5, <1>6, <1>7, KeepsMissed, KeepsCrash, KeepsUpdateTenant DEF Next

\* A session lives only with the password and the open account it was issued
\* for (auth.service.ts:384, users.service.ts:122), or was handed out by a
\* sign-in that a change of the account overtook, whatever the number of
\* requests, sessions, codes and passwords.
THEOREM SessionsSafe == Spec => []SessionsFollowAccounts
<1>1. Init => IInv
  BY Start
<1>2. IInv /\ [Next]_vars => IInv'
  BY Step
<1>3. IInv => SessionsFollowAccounts
  BY DEF IInv
<1>. QED  BY <1>1, <1>2, <1>3, PTL DEF Spec
=============================================================================
