------------------------------- MODULE Access -------------------------------
(***************************************************************************)
(* One account of a business and the sessions issued for it: signing in,   *)
(* refreshing, the mailed reset code, the confirmation link, and what the  *)
(* owner does to staff accounts.  A handler reads the account, works       *)
(* (bcrypt alone takes a tenth of a second) and writes in a later          *)
(* statement, so that a handler is two or three steps here and others run  *)
(* in between.  The statements of one $transaction are one step.           *)
(*                                                                         *)
(* Refusals that change nothing (an expired code, link or refresh token, a *)
(* password below strength, a throttled request) are no actions.           *)
(***************************************************************************)
EXTENDS Integers, FiniteSets

CONSTANTS
  Clients,       \* requests under way at once
  StaffRoles,    \* the roles an owner gives (users.service STAFF_ASSIGNABLE_ROLES)
  MaxAccounts,   \* bound: accounts made on the address
  MaxPasswords,  \* bound: passwords of one account
  MaxSessions,   \* bound: session rows at a time
  MaxCodes,      \* bound: reset codes mailed, and confirmation links mailed
  MaxCommands    \* bound: commands of the owner and the platform

ASSUME AccessAssumption ==
  /\ "ADMIN" \notin StaffRoles
  /\ {MaxAccounts, MaxPasswords, MaxSessions, MaxCodes, MaxCommands} \subseteq Nat

VARIABLES
  account,    \* the row of the address in users
  made,       \* accounts made on it, the number of the last one
  suspended,  \* ~ business.isActive
  sessions,   \* token -> the row of sessions
  issued,     \* an access token was signed for the account
  codes,      \* n-th reset code -> what became of its row
  links,      \* n-th confirmation link -> what became of its row
  req,        \* client -> the request it waits for
  commands    \* commands given so far

vars == <<account, made, suspended, sessions, issued, codes, links, req, commands>>
Mail == <<made, codes, links>>

-----------------------------------------------------------------------------
(* The account.  A row purged from the table is NoAccount; one removed in  *)
(* the application keeps its row with deletedAt set.                       *)

NoAccount == [id |-> 0]
Exists == account # NoAccount

NewUser(id, role, isApproved, failedAttempts) ==
  [id |-> id, role |-> role, isActive |-> TRUE, isApproved |-> isApproved, isLocked |-> FALSE,
   failedAttempts |-> failedAttempts, passwordHash |-> 1, deletedAt |-> FALSE, emailVerifiedAt |-> FALSE]

\* What createTenant stores for the owner; old accounts carry earlier failures.
Owner == NewUser(1, "ADMIN", TRUE, 4)

assertLoginAllowed ==
  account.isActive /\ account.isApproved /\ ~account.isLocked /\ ~suspended

\* JwtStrategy.validate reads the row again for every signed request.
validate == issued /\ Exists /\ ~account.deletedAt /\ assertLoginAllowed

assertManageable == Exists /\ ~account.deletedAt /\ account.role \in StaffRoles

-----------------------------------------------------------------------------
(* Requests under way.  `late' marks one that will hand out a session from *)
(* what it read before the account was closed or given another password.   *)

Request(op, id, passwordHash, late, with) ==
  [op |-> op, id |-> id, passwordHash |-> passwordHash, late |-> late, with |-> with]
Idle == Request("idle", 0, 0, FALSE, 0)
Issuing == {"compare", "reset", "tokens"}

\* The request reads the account and goes to work; one that will hand out a
\* session keeps the row, others the id and `with'.
Send(c, r) == req[c] = Idle /\ req' = [req EXCEPT ![c] = r]
SendRow(c, op, late, with) ==
  Send(c, Request(op, account.id, account.passwordHash, late, with))
SendId(c, op, with) == Send(c, Request(op, account.id, 0, FALSE, with))

At(c, op) == req[c].op = op

\* Its next statement finds the row it read.
Finds(c, op) == At(c, op) /\ Exists /\ account.id = req[c].id
Answered(c) == [req EXCEPT ![c] = Idle]

Overtaken(r) ==
  IF r.op \in Issuing THEN Request(r.op, r.id, r.passwordHash, TRUE, r.with) ELSE r
\* c goes on with r and the sign-ins that others have under way are overtaken.
Ahead(c, r) == [d \in Clients |-> IF d = c THEN r ELSE Overtaken(req[d])]

NoSessions == [t \in {} |-> NoAccount]
Revoked == sessions' = NoSessions
GoneCodes == [n \in DOMAIN codes |-> IF codes[n] = "none" THEN "none" ELSE "gone"]
NextFree(table) == {n \in DOMAIN table : /\ table[n] = "none"
                                         /\ \A k \in DOMAIN table : k < n => table[k] # "none"}

Command == commands < MaxCommands /\ commands' = commands + 1

-----------------------------------------------------------------------------
(* Signing in.                                                             *)

\* login reads the row, tests it and starts to compare the password.
Login(c) ==
  /\ Exists /\ ~account.deletedAt /\ assertLoginAllowed
  /\ SendRow(c, "compare", FALSE, account.failedAttempts)
  /\ UNCHANGED <<account, suspended, sessions, issued, Mail, commands>>

\* The password was wrong: the count that was read is written back, plus one.
WrongPassword(c) ==
  /\ Finds(c, "compare")
  /\ LET attempts == req[c].with + 1
     IN  account' = [account EXCEPT !.failedAttempts = attempts, !.isLocked = attempts >= 5]
  /\ req' = Answered(c)
  /\ UNCHANGED <<suspended, sessions, issued, Mail, commands>>

RightPassword(c) ==
  /\ Finds(c, "compare")
  /\ account' = [account EXCEPT !.failedAttempts = 0]
  /\ req' = [req EXCEPT ![c] = Request("tokens", @.id, @.passwordHash, @.late, 0)]
  /\ UNCHANGED <<suspended, sessions, issued, Mail, commands>>

\* refresh reads the session with its user; the old row stays.
Refresh(c, t) ==
  /\ Exists /\ ~account.deletedAt /\ assertLoginAllowed
  /\ SendRow(c, "tokens", sessions[t].late, 0)
  /\ UNCHANGED <<account, suspended, sessions, issued, Mail, commands>>

\* The last step of login, refresh and reset.
IssueTokens(c, t) ==
  /\ Finds(c, "tokens")
  /\ t \notin DOMAIN sessions /\ 1..t-1 \subseteq DOMAIN sessions
  /\ sessions' = [k \in DOMAIN sessions \union {t} |->
                    IF k = t THEN [passwordHash |-> req[c].passwordHash,
                                   late |-> req[c].late]
                    ELSE sessions[k]]
  /\ issued' = TRUE
  /\ req' = Answered(c)
  /\ UNCHANGED <<account, suspended, Mail, commands>>

\* logout and revokeSession are one deleteMany each.
EndSession(t) ==
  /\ sessions' = [k \in DOMAIN sessions \ {t} |-> sessions[k]]
  /\ UNCHANGED <<account, suspended, issued, Mail, req, commands>>
Logout(t) == EndSession(t)
RevokeSession(t) == validate /\ EndSession(t)

\* signup opens a business with its owner, approved, and signs in.  Bound: not
\* while the business that had the address is being purged.
Signup(c) ==
  /\ ~Exists /\ \A d \in Clients : ~At(d, "purge") /\ made < MaxAccounts /\ made' = made + 1
  /\ req[c] = Idle
  /\ account' = NewUser(made', "ADMIN", TRUE, 0)
  /\ suspended' = FALSE /\ issued' = FALSE
  /\ req' = [req EXCEPT ![c] = Request("tokens", made', 1, FALSE, 0)]
  /\ UNCHANGED <<sessions, codes, links, commands>>

-----------------------------------------------------------------------------
(* Passwords.                                                              *)

ChangePassword(c) ==
  /\ validate
  /\ SendId(c, "changePassword", 0)
  /\ UNCHANGED <<account, suspended, sessions, issued, Mail, commands>>

NewPassword == account.passwordHash < MaxPasswords
Rehashed == [account EXCEPT !.passwordHash = @ + 1]

PasswordChanged(c) ==
  /\ Finds(c, "changePassword")
  /\ NewPassword
  /\ account' = Rehashed
  /\ Revoked
  /\ req' = Ahead(c, Idle)
  /\ UNCHANGED <<suspended, issued, Mail, commands>>

\* forgotPassword finds the account, enabled or not, and stores a code for it.
ForgotPassword(c) ==
  /\ Exists /\ ~account.deletedAt
  /\ SendId(c, "mailCode", 0)
  /\ UNCHANGED <<account, suspended, sessions, issued, Mail, commands>>

CodeMailed(c) ==
  /\ Finds(c, "mailCode")
  /\ \E n \in NextFree(codes) : codes' = [codes EXCEPT ![n] = "open"]
  /\ req' = Answered(c)
  /\ UNCHANGED <<account, made, suspended, sessions, issued, links, commands>>

ResetPassword(c, n) ==
  /\ codes[n] = "open"
  /\ Exists /\ ~account.deletedAt /\ assertLoginAllowed
  /\ SendRow(c, "reset", FALSE, n)
  /\ UNCHANGED <<account, suspended, sessions, issued, Mail, commands>>

\* One transaction, which fails when the row of the code is gone.
CodeSpent(c) ==
  /\ Finds(c, "reset")
  /\ codes[req[c].with] # "gone"
  /\ NewPassword
  /\ codes' = [codes EXCEPT ![req[c].with] = "used"]
  /\ account' = [Rehashed EXCEPT !.failedAttempts = 0, !.isLocked = FALSE,
                                 !.emailVerifiedAt = TRUE]
  /\ Revoked
  /\ req' = Ahead(c, Request("tokens", account.id, account'.passwordHash, req[c].late, 0))
  /\ UNCHANGED <<made, suspended, issued, links, commands>>

CodeGone(c) ==
  /\ Finds(c, "reset")
  /\ codes[req[c].with] = "gone"
  /\ req' = Answered(c)
  /\ UNCHANGED <<account, suspended, sessions, issued, Mail, commands>>

-----------------------------------------------------------------------------
(* The address: only an owner has one to confirm.                          *)

ResendVerification(c) ==
  /\ validate /\ account.role = "ADMIN" /\ ~account.emailVerifiedAt
  /\ SendId(c, "mailLink", 0)
  /\ UNCHANGED <<account, suspended, sessions, issued, Mail, commands>>

LinkMailed(c) ==
  /\ Finds(c, "mailLink")
  /\ \E n \in NextFree(links) : links' = [links EXCEPT ![n] = "open"]
  /\ req' = Answered(c)
  /\ UNCHANGED <<account, made, suspended, sessions, issued, codes, commands>>

\* The link is public: it is spent for a disabled account and while suspended.
ConfirmEmail(c, n) ==
  /\ links[n] = "open"
  /\ SendId(c, "confirm", n)
  /\ UNCHANGED <<account, suspended, sessions, issued, Mail, commands>>

EmailConfirmed(c) ==
  /\ Finds(c, "confirm")
  /\ links' = [links EXCEPT ![req[c].with] = "used"]
  /\ account' = [account EXCEPT !.emailVerifiedAt = TRUE]
  /\ req' = Answered(c)
  /\ UNCHANGED <<made, suspended, sessions, issued, codes, commands>>

-----------------------------------------------------------------------------
(* What the owner does to a staff account, and the platform to a business. *)

\* users.create: one row per address, waiting for approval.
CreateUser(role) ==
  /\ ~Exists /\ ~suspended /\ Command
  /\ made < MaxAccounts /\ made' = made + 1
  /\ account' = NewUser(made', role, FALSE, 0)
  /\ issued' = FALSE
  /\ UNCHANGED <<suspended, sessions, codes, links, req>>

\* Each command on an account reads it first (assertManageable).
Manage(c, op, with) ==
  /\ ~suspended /\ assertManageable /\ Command
  /\ SendId(c, op, with)
  /\ UNCHANGED <<account, suspended, sessions, issued, Mail>>

Approve(c) ==
  /\ Finds(c, "approve")
  /\ account' = [account EXCEPT !.isApproved = TRUE]
  /\ req' = Answered(c)
  /\ UNCHANGED <<suspended, sessions, issued, Mail, commands>>

Update(c) ==
  /\ Finds(c, "update")
  /\ account' = [account EXCEPT !.role = req[c].with]
  /\ req' = Answered(c)
  /\ UNCHANGED <<suspended, sessions, issued, Mail, commands>>

Enable(c) ==
  /\ Finds(c, "enable")
  /\ account' = [account EXCEPT !.isActive = TRUE]
  /\ req' = Answered(c)
  /\ UNCHANGED <<suspended, sessions, issued, Mail, commands>>

\* Fault: the sessions of a disabled account are kept.
DisableOnly(c) ==
  /\ Finds(c, "disable")
  /\ account' = [account EXCEPT !.isActive = FALSE]
  /\ req' = Ahead(c, Idle)
  /\ UNCHANGED <<suspended, sessions, issued, Mail, commands>>

\* setActive disables the row and deletes the sessions in two statements.
Disable(c) ==
  /\ Finds(c, "disable")
  /\ account' = [account EXCEPT !.isActive = FALSE]
  /\ req' = Ahead(c, Request("revoke", account.id, 0, FALSE, 0))
  /\ UNCHANGED <<suspended, sessions, issued, Mail, commands>>

RevokeSessions(c) ==
  /\ Finds(c, "revoke")
  /\ Revoked
  /\ req' = Answered(c)
  /\ UNCHANGED <<account, suspended, issued, Mail, commands>>

SetPassword(c) ==
  /\ Finds(c, "setPassword")
  /\ NewPassword
  /\ account' = [Rehashed EXCEPT !.failedAttempts = 0, !.isLocked = FALSE]
  /\ Revoked
  /\ codes' = GoneCodes
  /\ req' = Ahead(c, Idle)
  /\ UNCHANGED <<made, suspended, issued, links, commands>>

Remove(c) ==
  /\ Finds(c, "remove")
  /\ account' = [account EXCEPT !.deletedAt = TRUE, !.isActive = FALSE]
  /\ Revoked
  /\ codes' = GoneCodes
  /\ req' = Ahead(c, Idle)
  /\ UNCHANGED <<made, suspended, issued, links, commands>>

\* Another owner purges: the row goes, and with it sessions, codes and links.
PurgeOthers(c) ==
  /\ Exists /\ ~suspended /\ Command
  /\ SendId(c, "purge", 0)
  /\ UNCHANGED <<account, suspended, sessions, issued, Mail>>

Purged(c) ==
  /\ At(c, "purge")
  /\ account' = NoAccount
  /\ Revoked
  /\ codes' = GoneCodes
  /\ links' = [n \in DOMAIN links |-> IF links[n] = "none" THEN "none" ELSE "gone"]
  /\ req' = Answered(c)
  /\ UNCHANGED <<made, suspended, issued, commands>>

UpdateTenant ==
  /\ Command
  /\ suspended' = ~suspended
  /\ UNCHANGED <<account, sessions, issued, Mail, req>>

-----------------------------------------------------------------------------
(* A statement that finds no row raises an error; a request that dies in a *)
(* crash leaves what it has written.  Sessions whose revocation dies are   *)
(* marked as handed out late.                                              *)

Missed(c) ==
  /\ req[c].op \notin {"idle", "purge"}
  /\ ~Finds(c, req[c].op)
  /\ req' = Answered(c)
  /\ UNCHANGED <<account, suspended, sessions, issued, Mail, commands>>

Crash(c) ==
  /\ req[c].op # "idle"
  /\ req' = Answered(c)
  /\ sessions' = IF At(c, "revoke")
                 THEN [t \in DOMAIN sessions |-> [sessions[t] EXCEPT !.late = TRUE]]
                 ELSE sessions
  /\ UNCHANGED <<account, suspended, issued, Mail, commands>>

-----------------------------------------------------------------------------
Init ==
  /\ \/ account = NoAccount /\ made = 0
     \/ account \in {Owner} \union {NewUser(1, role, TRUE, 0) : role \in StaffRoles} /\ made = 1
  /\ suspended = FALSE
  /\ sessions = NoSessions
  /\ issued = FALSE
  /\ codes = [n \in 1..MaxCodes |-> "none"]
  /\ links = [n \in 1..MaxCodes |-> "none"]
  /\ req = [c \in Clients |-> Idle]
  /\ commands = 0

SignIn(c) ==
  \/ Signup(c) \/ Login(c) \/ WrongPassword(c) \/ RightPassword(c)
  \/ \E t \in DOMAIN sessions : Refresh(c, t)
  \/ \E t \in 1..MaxSessions : IssueTokens(c, t)

Passwords(c) ==
  \/ ChangePassword(c) \/ PasswordChanged(c)
  \/ ForgotPassword(c) \/ CodeMailed(c)
  \/ \E n \in DOMAIN codes : ResetPassword(c, n)
  \/ CodeSpent(c) \/ CodeGone(c)

Address(c) ==
  \/ ResendVerification(c) \/ LinkMailed(c)
  \/ \E n \in DOMAIN links : ConfirmEmail(c, n)
  \/ EmailConfirmed(c)

Staff(c) ==
  \/ \E op \in {"approve", "enable", "disable", "setPassword", "remove"} : Manage(c, op, 0)
  \/ \E role \in StaffRoles : Manage(c, "update", role)
  \/ Approve(c) \/ Update(c) \/ Enable(c) \/ Disable(c) \/ RevokeSessions(c)
  \/ SetPassword(c) \/ Remove(c) \/ PurgeOthers(c) \/ Purged(c)

Next ==
  \/ \E c \in Clients : SignIn(c) \/ Passwords(c) \/ Address(c) \/ Staff(c)
                        \/ Missed(c) \/ Crash(c)
  \/ \E t \in DOMAIN sessions : Logout(t) \/ RevokeSession(t)
  \/ \E role \in StaffRoles : CreateUser(role)
  \/ UpdateTenant

Spec == Init /\ [][Next]_vars

-----------------------------------------------------------------------------
\* A session row was issued for the password in force and its account is
\* open, but for what the handlers cannot see: a sign-in that read the
\* account before it was changed, or a revocation still to come or lost in a
\* crash.  Every path that changes a password or closes an account ends the
\* sessions of that account (auth.service.ts:384, users.service.ts:122).
SessionsFollowAccounts ==
  \A t \in DOMAIN sessions :
    \/ sessions[t].late
    \/ /\ Exists /\ ~account.deletedAt
       /\ sessions[t].passwordHash = account.passwordHash
       /\ \/ account.isActive
          \/ \E c \in Clients : Finds(c, "revoke")
=============================================================================
