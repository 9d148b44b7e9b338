---------------------------- MODULE AdminSession ----------------------------
(***************************************************************************)
(* Sessions of the admin console.  A login opens a session; every further  *)
(* call carries its token and passes the guards, which read the session    *)
(* and then the user, and hand both rows to the handler: what a handler    *)
(* decides, it decides on rows read some awaits ago.  The handlers here    *)
(* are two-factor enrolment, recovery codes, re-authentication and the     *)
(* admin user administration; those of the brokers are in BrokerAccess.    *)
(*                                                                         *)
(* A call is one request of an admin's browser.  A secret, a generation of *)
(* recovery codes and a reauth token are named after the call that made    *)
(* them; the ones from before the model starts, and the session a founder  *)
(* has open by then, are named after the admin.  Logout clears a cookie of *)
(* the browser and no row: to the API it is a browser that sends no more.  *)
(* Time is abstracted: wherever a guard compares a row with the clock (the *)
(* expiry of the session, its idle time, the window of a reauth token),    *)
(* either outcome is possible.                                             *)
(***************************************************************************)
EXTENDS Naturals, Sequences, FiniteSets

CONSTANTS
  Admins,       \* the users of type admin_user, by their email ...
  Founders,     \* ... those that exist at the start, ...
  SuperAdmins,  \* ... and those of role super_admin; the others have role ops
  Sessions,     \* sessions that may be opened, beside the founders' first
  Calls,        \* requests of the admins' browsers
  CODES,        \* recovery codes of one generation
  None

ASSUME SessionAssumption ==
  /\ Founders \subseteq Admins
  /\ Founders # {}
  /\ SuperAdmins \subseteq Admins
  /\ CODES \in Nat

ASSUME SessionDistinct ==
  /\ Admins \cap Calls = {}
  /\ Sessions \cap Admins = {}
  /\ None \notin Admins \cup Calls \cup Sessions

VARIABLES
  users,     \* auth.users of type admin_user
  sessions,  \* auth.admin_sessions
  call,      \* the calls and the rows their guards have read
  began,     \* the calls that were done when a call's guard read its session
  lost       \* calls whose answer the browser no longer waits for

vars == <<users, sessions, call, began, lost>>

-----------------------------------------------------------------------------
(* Rows. *)

Origins == Admins \cup Calls

SessionIds == Founders \cup Sessions

RecoveryCodes == Origins \X (1..CODES)

Users == [exists : BOOLEAN, suspended : BOOLEAN, secret : Origins \cup {None},
          enrolled : BOOLEAN, codes : Seq(RecoveryCodes)]

SessionRows == [user : Admins \cup {None}, revoked : BOOLEAN, totp : BOOLEAN,
                reauth : Origins \cup {None}]

NoUser == [exists |-> FALSE, suspended |-> FALSE, secret |-> None,
           enrolled |-> FALSE, codes |-> <<>>]

NoSession == [user |-> None, revoked |-> FALSE, totp |-> FALSE, reauth |-> None]

(* generateRecoveryCodes *)
GenerateRecoveryCodes(o) == [i \in 1..CODES |-> <<o, i>>]

(* An admin who has begun or finished the enrolment; one who has not begun *)
(* is a user just created, or one whose 2FA was reset.                     *)
UserStates(a) ==
  { [NoUser EXCEPT !.exists = TRUE, !.secret = a],
    [exists |-> TRUE, suspended |-> FALSE, secret |-> a, enrolled |-> TRUE,
     codes |-> GenerateRecoveryCodes(a)] }

-----------------------------------------------------------------------------
(* The endpoints and their guards. *)

AuthOps == {"2fa/setup", "2fa/verify-setup", "2fa/verify", "recovery/use", "reauth"}
UserOps == {"users/create", "users/suspend", "users/reset-2fa"}
BrokerOps == {"brokers/create", "brokers/delete", "brokers/suspend",
              "brokers/reactivate"}

(* @SkipTotpVerified: all of admin/auth but reauth. *)
SkipsTotp(op) == op \in AuthOps \ {"reauth"}

(* @RequireAdminRole('super_admin') of admin/users; those of the brokers   *)
(* admit both roles.                                                       *)
NeedsSuper(op) == op \in UserOps

(* @RequireReauth *)
NeedsReauth(op) == op \in UserOps \cup {"brokers/suspend", "brokers/reactivate"}

Idle == [pc |-> "idle", op |-> "none", session |-> None, arg |-> None, token |-> None,
         row |-> NoUser, reauth |-> None, totp |-> FALSE]

Refused == [Idle EXCEPT !.pc = "refused"]

Pc(c) == call[c].pc
Done(c) == Pc(c) = "done"
CallerOf(c) == sessions[call[c].session].user

(* Answers that hold something the page keeps and cannot ask for again. *)
Precious(op) == op \in {"2fa/setup", "2fa/verify-setup", "reauth", "brokers/create"}

(* A call that ends keeps what it was and drops the rows it has read.  Its *)
(* answer may come too late: the SDK has aborted the request by then.      *)
Finish(c) ==
  /\ call' = [call EXCEPT ![c] = [@ EXCEPT !.pc = "done", !.row = NoUser,
                                           !.reauth = None, !.totp = FALSE]]
  /\ \/ lost' = lost
     \/ Precious(call[c].op) /\ lost' = lost \cup {c}

Refuse(c) ==
  /\ call' = [call EXCEPT ![c] = Refused]
  /\ UNCHANGED <<users, sessions, began, lost>>

Init ==
  /\ users \in {f \in [Admins -> UNION {UserStates(a) : a \in Admins} \cup {NoUser}] :
                  \A a \in Admins : f[a] \in IF a \in Founders THEN UserStates(a)
                                             ELSE {NoUser}}
  /\ sessions = [s \in SessionIds |->
                   IF s \in Founders
                   THEN [user |-> s, revoked |-> FALSE, totp |-> TRUE, reauth |-> s]
                   ELSE NoSession]
  /\ call = [c \in Calls |-> Idle]
  /\ began = [c \in Calls |-> {}]
  /\ lost = {}

-----------------------------------------------------------------------------
(* The browser. *)

(* login: the password is right, the user is not suspended and has a role. *)
(* The new session counts as TOTP-verified at once, since 2FA is switched  *)
(* off; the admin's older sessions stay open.                              *)
Login(a, s) ==
  /\ users[a].exists
  /\ ~users[a].suspended
  /\ sessions[s].user = None
  /\ sessions' = [sessions EXCEPT ![s] = [NoSession EXCEPT !.user = a, !.totp = TRUE]]
  /\ UNCHANGED <<users, call, began, lost>>

(* What the pages of an admin hold: what their calls answered in time. *)
MadeBy(a, op) ==
  {c \in Calls \ lost : Done(c) /\ call[c].op = op /\ CallerOf(c) = a}

(* The code of an authenticator that was set up from one of the admin's    *)
(* secrets, a recovery code that was shown, another user's id.             *)
ArgsOf(a, op) ==
  CASE op \in {"2fa/verify-setup", "2fa/verify"} -> MadeBy(a, "2fa/setup") \cup {a}
    [] op = "recovery/use" -> (MadeBy(a, "2fa/verify-setup") \cup {a}) \X (1..CODES)
    [] op = "users/create" -> Admins
    [] op \in {"users/suspend", "users/reset-2fa"} -> {b \in Admins : users[b].exists}
    [] OTHER -> {None}

(* The approvals and the interventions page each keep the token of their   *)
(* own unlock, and offer no new unlock while they hold one.                *)
TokensOf(a, op) ==
  IF NeedsReauth(op) THEN MadeBy(a, "reauth") \cup {a} ELSE {None}

(* AdminJwtGuard up to the session row.  A session that is revoked or      *)
(* expired is refused, one that was idle for too long is revoked first.    *)
ReadSession(c, s, op, x, t) ==
  /\ Pc(c) = "idle"
  /\ sessions[s].user # None
  /\ \/ Refuse(c)
     \/ /\ ~sessions[s].revoked
        /\ began' = [began EXCEPT ![c] = {d \in Calls : Done(d)}]
        /\ \E pc \in {"session", "timed out"} :
             call' = [call EXCEPT ![c] =
                        [Idle EXCEPT !.pc = pc, !.op = op, !.session = s,
                                     !.arg = x, !.token = t,
                                     !.reauth = sessions[s].reauth, !.totp = sessions[s].totp]]
        /\ UNCHANGED <<users, sessions, lost>>

-----------------------------------------------------------------------------
(* The rest of AdminJwtGuard and the guards behind it. *)

RevokeSession(c) ==
  /\ Pc(c) = "timed out"
  /\ sessions' = [sessions EXCEPT ![call[c].session].revoked = TRUE]
  /\ call' = [call EXCEPT ![c] = Refused]
  /\ UNCHANGED <<users, began, lost>>

(* ReauthGuard: the token against the session row as it was read. *)
MutReauthOk(c) ==
  /\ call[c].token # None
  /\ call[c].reauth # None

ReauthOk(c) ==
  /\ call[c].token # None
  /\ call[c].reauth = call[c].token

(* The user's row, bumpActivity, and the TOTP, role and reauth guards.     *)
(* Only the handlers of admin/auth look at the row again.                  *)
MutAdmit(c) ==
  LET u == users[CallerOf(c)] IN
  /\ Pc(c) = "session"
  /\ u.exists
  /\ SkipsTotp(call[c].op) \/ call[c].totp
  /\ NeedsSuper(call[c].op) => CallerOf(c) \in SuperAdmins
  /\ NeedsReauth(call[c].op) => ReauthOk(c)
  /\ call' = [call EXCEPT ![c].pc = "admitted",
                          ![c].row = IF call[c].op \in AuthOps THEN u ELSE NoUser]
  /\ UNCHANGED <<users, sessions, began, lost>>

Admit(c) ==
  LET u == users[CallerOf(c)] IN
  /\ Pc(c) = "session"
  /\ u.exists /\ ~u.suspended
  /\ SkipsTotp(call[c].op) \/ call[c].totp
  /\ NeedsSuper(call[c].op) => CallerOf(c) \in SuperAdmins
  /\ NeedsReauth(call[c].op) => ReauthOk(c)
  /\ call' = [call EXCEPT ![c].pc = "admitted",
                          ![c].row = IF call[c].op \in AuthOps THEN u ELSE NoUser]
  /\ UNCHANGED <<users, sessions, began, lost>>

(* One of them refuses, or the window of the token has passed. *)
Deny(c) ==
  LET u == users[CallerOf(c)] IN
  /\ Pc(c) = "session"
  /\ \/ ~u.exists \/ u.suspended
     \/ ~SkipsTotp(call[c].op) /\ ~call[c].totp
     \/ NeedsSuper(call[c].op) /\ CallerOf(c) \notin SuperAdmins
     \/ NeedsReauth(call[c].op)
  /\ Refuse(c)

-----------------------------------------------------------------------------
(* Handlers of admin/auth. *)

Handles(c, op) == Pc(c) = "admitted" /\ call[c].op = op

BeginTotpSetup(c) ==
  /\ Handles(c, "2fa/setup")
  /\ \/ call[c].row.enrolled /\ Refuse(c)
     \/ /\ ~call[c].row.enrolled
        /\ users' = [users EXCEPT ![CallerOf(c)].secret = c]
        /\ Finish(c)
        /\ UNCHANGED <<sessions, began>>

(* The code is checked against the secret that was read; the UPDATE then   *)
(* marks the user enrolled whatever secret the row holds by now.           *)
MutFinalizeTotpSetup(c) ==
  LET a == CallerOf(c) IN
  /\ Handles(c, "2fa/verify-setup")
  /\ users' = [users EXCEPT ![a].enrolled = TRUE,
                            ![a].codes = GenerateRecoveryCodes(c)]
  /\ Finish(c)
  /\ UNCHANGED <<sessions, began>>

FinalizeTotpSetup(c) ==
  LET a == CallerOf(c) IN
  /\ Handles(c, "2fa/verify-setup")
  /\ \/ call[c].row.secret # call[c].arg /\ Refuse(c)
     \/ /\ call[c].row.secret = call[c].arg
        /\ users' = [users EXCEPT ![a].enrolled = TRUE,
                                  ![a].codes = GenerateRecoveryCodes(c)]
        /\ Finish(c)
        /\ UNCHANGED <<sessions, began>>

MarkTotpVerified(s) ==
  sessions' = [sessions EXCEPT ![s].totp = TRUE]

VerifyTotp(c) ==
  /\ Handles(c, "2fa/verify")
  /\ \/ /\ ~call[c].row.enrolled \/ call[c].row.secret # call[c].arg
        /\ Refuse(c)
     \/ /\ call[c].row.enrolled /\ call[c].row.secret = call[c].arg
        /\ MarkTotpVerified(call[c].session)
        /\ Finish(c)
        /\ UNCHANGED <<users, began>>

PositionOf(x, s) == CHOOSE i \in DOMAIN s : s[i] = x

(* array_remove(codes, codes[i]): nothing happens beyond the end.  The     *)
(* codes of a generation are distinct, so one element goes.                *)
RemoveAt(s, i) ==
  IF i \in DOMAIN s THEN SubSeq(s, 1, i - 1) \o SubSeq(s, i + 1, Len(s)) ELSE s

(* The code is looked up in the codes that were read, and what is at that  *)
(* position by now is removed.                                             *)
MutConsumeRecoveryCode(c) ==
  LET a == CallerOf(c) IN
  /\ Handles(c, "recovery/use")
  /\ \/ call[c].arg \notin {call[c].row.codes[i] : i \in DOMAIN call[c].row.codes}
        /\ Refuse(c)
     \/ /\ call[c].arg \in {call[c].row.codes[i] : i \in DOMAIN call[c].row.codes}
        /\ users' = [users EXCEPT ![a].codes =
                       RemoveAt(@, PositionOf(call[c].arg, call[c].row.codes) - 1)]
        /\ call' = [call EXCEPT ![c].pc = "consumed"]
        /\ UNCHANGED <<sessions, began, lost>>

ConsumeRecoveryCode(c) ==
  LET a == CallerOf(c) IN
  /\ Handles(c, "recovery/use")
  /\ \/ call[c].arg \notin {call[c].row.codes[i] : i \in DOMAIN call[c].row.codes}
        /\ Refuse(c)
     \/ /\ call[c].arg \in {call[c].row.codes[i] : i \in DOMAIN call[c].row.codes}
        /\ users' = [users EXCEPT ![a].codes =
                       RemoveAt(@, PositionOf(call[c].arg, call[c].row.codes))]
        /\ call' = [call EXCEPT ![c].pc = "consumed"]
        /\ UNCHANGED <<sessions, began, lost>>

MarkRecovered(c) ==
  /\ Pc(c) = "consumed"
  /\ MarkTotpVerified(call[c].session)
  /\ Finish(c)
  /\ UNCHANGED <<users, began>>

(* reauth: a wrong password is refused, a right one replaces the token. *)
IssueReauthToken(c) ==
  /\ Handles(c, "reauth")
  /\ \/ Refuse(c)
     \/ /\ sessions' = [sessions EXCEPT ![call[c].session].reauth = c]
        /\ Finish(c)
        /\ UNCHANGED <<users, began>>

-----------------------------------------------------------------------------
(* Handlers of admin/users.  Each is one statement in the transaction of   *)
(* the audit interceptor.                                                  *)

(* users.email is unique: a second user of that email is refused. *)
CreateUser(c) ==
  LET a == call[c].arg IN
  /\ Handles(c, "users/create")
  /\ \/ users[a].exists /\ Refuse(c)
     \/ /\ ~users[a].exists
        /\ users' = [users EXCEPT ![a].exists = TRUE]
        /\ Finish(c)
        /\ UNCHANGED <<sessions, began>>

MutSuspend(c) ==
  /\ Handles(c, "users/suspend")
  /\ users' = [users EXCEPT ![call[c].arg].suspended = TRUE]
  /\ Finish(c)
  /\ UNCHANGED <<sessions, began>>

Suspend(c) ==
  LET a == call[c].arg IN
  /\ Handles(c, "users/suspend")
  /\ \/ a = CallerOf(c) /\ Refuse(c)
     \/ /\ a # CallerOf(c)
        /\ users' = [users EXCEPT ![a].suspended = TRUE]
        /\ Finish(c)
        /\ UNCHANGED <<sessions, began>>

Reset2fa(c) ==
  LET a == call[c].arg IN
  /\ Handles(c, "users/reset-2fa")
  /\ \/ a = CallerOf(c) /\ Refuse(c)
     \/ /\ a # CallerOf(c)
        /\ users' = [users EXCEPT ![a].secret = None, ![a].enrolled = FALSE,
                                  ![a].codes = <<>>]
        /\ Finish(c)
        /\ UNCHANGED <<sessions, began>>

-----------------------------------------------------------------------------
Send(c) ==
  \E s \in SessionIds, op \in AuthOps \cup UserOps :
    \E x \in ArgsOf(sessions[s].user, op), t \in TokensOf(sessions[s].user, op) :
      ReadSession(c, s, op, x, t)

Guards(c) == RevokeSession(c) \/ Admit(c) \/ Deny(c)

Handlers(c) ==
  \/ BeginTotpSetup(c) \/ FinalizeTotpSetup(c) \/ VerifyTotp(c)
  \/ ConsumeRecoveryCode(c) \/ MarkRecovered(c) \/ IssueReauthToken(c)
  \/ CreateUser(c) \/ Suspend(c) \/ Reset2fa(c)

Next ==
  \/ \E a \in Admins, s \in Sessions : Login(a, s)
  \/ \E c \in Calls : Send(c) \/ Guards(c) \/ Handlers(c)

Spec == Init /\ [][Next]_vars

-----------------------------------------------------------------------------
(* Properties.  Two calls overlap when neither was over before the guard   *)
(* of the other began to read.                                             *)

Overlap(c, d) == c \notin began[d] /\ d \notin began[c]

(* The rows of users and sessions, and the rows that calls have read. *)
TypeOK ==
  /\ users \in [Admins -> Users]
  /\ sessions \in [SessionIds -> SessionRows]
  /\ began \in [Calls -> SUBSET Calls]
  /\ lost \subseteq Calls
  /\ \A c \in Calls :
       /\ Pc(c) \in {"idle", "session", "timed out", "admitted", "consumed", "read",
                     "done", "refused"}
       /\ call[c].row \in Users
       /\ call[c].reauth \in Origins \cup {None}
       /\ Pc(c) \notin {"idle", "refused"} => CallerOf(c) \in Admins

(* Calls that have changed the two-factor columns of an admin's row. *)
Acted(c) == Pc(c) \in {"consumed", "done"}
Changers(a, ops) ==
  {c \in Calls : /\ Acted(c) /\ call[c].op \in ops
                 /\ \/ CallerOf(c) = a /\ call[c].op # "users/reset-2fa"
                    \/ call[c].op = "users/reset-2fa" /\ call[c].arg = a}
Apart(S) == \A c, d \in S : c # d => ~Overlap(c, d)

StoredCodes(a) == {users[a].codes[i] : i \in DOMAIN users[a].codes}
UsedCodes(a) == {call[c].arg : c \in Changers(a, {"recovery/use"})}

(* Unless calls of the same admin overlap, a recovery code that was used   *)
(* is gone and the unused ones of its generation are still there           *)
(* (consumeRecoveryCode: found by value in the row read, removed by        *)
(* position from the row stored; ADR 0007 promises single use).            *)
RecoveryCodesExact ==
  \A a \in Admins :
    Apart(Changers(a, {"recovery/use", "2fa/verify-setup", "users/reset-2fa"})) =>
      /\ StoredCodes(a) \cap UsedCodes(a) = {}
      /\ \A x \in StoredCodes(a), i \in 1..CODES :
           <<x[1], i>> \in StoredCodes(a) \cup UsedCodes(a)

(* Unless set-up, its confirmation and a reset overlap, an enrolled admin  *)
(* has the secret whose code confirmed the enrolment (finalizeTotpSetup    *)
(* checks the row that was read and marks the row that is stored).         *)
EnrolledWithCheckedSecret ==
  \A a \in Admins :
    /\ users[a].enrolled
    /\ Apart(Changers(a, {"2fa/setup", "2fa/verify-setup", "users/reset-2fa"}))
    => users[a].secret \in {a} \cup {call[c].arg : c \in Changers(a, {"2fa/verify-setup"})}

(* Somebody can always administer the others, unless two suspensions       *)
(* overlapped: nobody suspends himself, and one who is suspended is let    *)
(* through no more (admin-users.controller.ts, admin-jwt.guard.ts).        *)
LockoutOnlyInRace ==
  (\A a \in Admins : users[a].exists => users[a].suspended) =>
    \E c, d \in Calls : /\ c # d /\ Done(c) /\ Done(d)
                        /\ call[c].op = "users/suspend" /\ call[d].op = "users/suspend"
                        /\ Overlap(c, d)

(* A call of an admin whose suspension was over before it began does not   *)
(* get through, whatever session or token it holds.                        *)
SuspendedAdminRefused ==
  \A c, d \in Calls :
    /\ Pc(c) \in {"admitted", "consumed", "read", "done"}
    /\ Done(d) /\ call[d].op = "users/suspend" /\ call[d].arg = CallerOf(c)
    => d \notin began[c]

(* A sensitive call that got through carried the newest token of its       *)
(* session: no unlock that was over before the call began had replaced it  *)
(* (ReauthGuard compares with the session row; an unlock in another page   *)
(* of the same browser replaces the token of this one).                    *)
SupersededTokenRefused ==
  \A c, d \in Calls :
    /\ Pc(c) \in {"admitted", "read", "done"} /\ NeedsReauth(call[c].op)
    /\ d \in began[c] /\ call[d].op = "reauth" /\ call[d].session = call[c].session
    => \/ call[c].token = d
       \/ call[c].token \in Calls /\ call[c].token \notin began[d]
=============================================================================
