---------------------------- MODULE AccessProofs ----------------------------
(***************************************************************************)
(* Proofs about AdminSession and BrokerAccess, for any admins, sessions,   *)
(* calls, brokers and signed requests.  Types come first; StepFacts then   *)
(* says once and for all what a step may do to a call, and the safety      *)
(* proofs look only at the few actions that matter to them.                *)
(***************************************************************************)
EXTENDS BrokerAccess, SequenceTheorems, TLAPS

Ops == AuthOps \cup UserOps \cup BrokerOps

Args == Origins \cup RecoveryCodes \cup Emails \cup BrokerIds \cup {None}

Pcs == {"idle", "session", "timed out", "admitted", "consumed", "read", "done", "refused"}

CallRows == [pc : Pcs, op : Ops \cup {"none"}, session : SessionIds \cup {None}, arg : Args,
             token : Origins \cup {None}, row : Users, reauth : Origins \cup {None},
             totp : BOOLEAN]

Running(c) == Pc(c) \notin {"idle", "refused"}
Past(c) == Pc(c) \in {"admitted", "consumed", "read", "done"}

RowsTyped ==
  /\ users \in [Admins -> Users]
  /\ sessions \in [SessionIds -> SessionRows]
  /\ call \in [Calls -> CallRows]
  /\ began \in [Calls -> SUBSET Calls]
  /\ lost \subseteq Calls

(* A call under way has a session of an admin, and its argument is what    *)
(* its operation is about.                                                 *)
CallsTyped ==
  \A c \in Calls : Running(c) =>
    /\ call[c].session \in SessionIds
    /\ CallerOf(c) \in Admins
    /\ call[c].op \in Ops
    /\ call[c].op \in UserOps => call[c].arg \in Admins
    /\ call[c].op \in StatusOps => call[c].arg \in BrokerIds
    /\ call[c].op = "brokers/create" => call[c].arg \in Emails
    /\ Pc(c) = "consumed" => call[c].op = "recovery/use"

Typed == RowsTyped /\ CallsTyped

-----------------------------------------------------------------------------
(* The row of a user that is not there is a user row. *)
LEMMA NoUserTyped == NoUser \in Users
BY DEF NoUser, Users

(* A call that has not begun and one that was refused are calls. *)
LEMMA IdleTyped == Idle \in CallRows /\ Refused \in CallRows
BY NoUserTyped DEF Idle, Refused, CallRows, Pcs, Args

(* A generation of recovery codes is a sequence of codes. *)
LEMMA GeneratedTyped ==
  ASSUME NEW o \in Origins
  PROVE  GenerateRecoveryCodes(o) \in Seq(RecoveryCodes)
BY SessionAssumption DEF GenerateRecoveryCodes, RecoveryCodes

(* Removing a code leaves a sequence of codes (array_remove). *)
LEMMA RemovedTyped ==
  ASSUME NEW s \in Seq(RecoveryCodes), NEW i
  PROVE  RemoveAt(s, i) \in Seq(RecoveryCodes)
<1>1. CASE i \notin DOMAIN s
  BY <1>1 DEF RemoveAt
<1>2. CASE i \in DOMAIN s
  <2>1. i \in 1..Len(s)
    BY <1>2
  <2>2. SubSeq(s, 1, i - 1) \in Seq(RecoveryCodes) /\ SubSeq(s, i + 1, Len(s)) \in Seq(RecoveryCodes)
    BY <2>1
  <2>. QED BY <1>2, <2>2 DEF RemoveAt
<1>. QED BY <1>1, <1>2

(* Arguments and tokens a browser sends have their types. *)
LEMMA SentTyped ==
  ASSUME NEW a \in Admins, NEW op \in AuthOps \cup UserOps, NEW x \in ArgsOf(a, op)
  PROVE  /\ x \in Args /\ (op \in UserOps => x \in Admins)
         /\ op = "recovery/use" => x[1] \in Admins \cup {e \in Calls : Done(e)}
<1>1. CASE op \in {"2fa/verify-setup", "2fa/verify"}
  BY <1>1 DEF ArgsOf, MadeBy, Args, Origins, UserOps
<1>2. CASE op = "recovery/use"
  BY <1>2 DEF ArgsOf, MadeBy, Args, Origins, UserOps, RecoveryCodes
<1>3. CASE op \in UserOps
  BY <1>3 DEF ArgsOf, Args, Origins, UserOps
<1>4. CASE op \in {"2fa/setup", "reauth"}
  BY <1>4 DEF ArgsOf, Args, UserOps
<1>. QED BY <1>1, <1>2, <1>3, <1>4 DEF AuthOps, UserOps

(* A token that a page sends is one that somebody was given. *)
LEMMA TokenTyped ==
  ASSUME NEW a \in Admins, NEW op, NEW t \in TokensOf(a, op)
  PROVE  t \in Origins \cup {None}
BY DEF TokensOf, MadeBy, Origins

-----------------------------------------------------------------------------
(* What a step may do to the calls. *)

(* A call begins: its guard has read a session. *)
Begins(d) ==
  /\ began'[d] = {e \in Calls : Done(e)}
  /\ call'[d].pc \in {"session", "timed out"}
  /\ call'[d].session \in SessionIds
  /\ sessions[call'[d].session].user \in Admins
  /\ call'[d].reauth = sessions[call'[d].session].reauth
  /\ call'[d].op \in Ops
  /\ call'[d].op \in UserOps => call'[d].arg \in Admins
  /\ call'[d].op \in StatusOps => call'[d].arg \in BrokerIds /\ Exists(call'[d].arg)
  /\ call'[d].op = "brokers/create" => call'[d].arg \in Emails
  /\ call'[d].op = "recovery/use" => call'[d].arg[1] \in Admins \cup {e \in Calls : Done(e)}

(* A call goes on: it stays what it was. *)
GoesOn(d) ==
  /\ call'[d].op = call[d].op
  /\ call'[d].session = call[d].session
  /\ call'[d].arg = call[d].arg
  /\ call'[d].token = call[d].token

CallSteps ==
  \A d \in Calls :
    /\ Running(d)' => (Running(d) /\ GoesOn(d)) \/ (Pc(d) = "idle" /\ Begins(d))
    /\ began'[d] = began[d] \/ (Pc(d) = "idle" /\ Begins(d))
    /\ Done(d) => call'[d] = call[d]
    /\ Past(d)' => Past(d) \/ Admit(d)
    /\ Pc(d)' = "consumed" => Pc(d) = "consumed" \/ call[d].op = "recovery/use"
    /\ Pc(d)' = "session" => call'[d] = call[d] \/ Begins(d)

OwnersKept ==
  \A s \in SessionIds : sessions[s].user # None => sessions'[s].user = sessions[s].user

StepFacts == RowsTyped' /\ OwnersKept /\ CallSteps

(* Writing a row of a session whose owner stays. *)
LEMMA SessionSet ==
  ASSUME Typed, NEW s \in SessionIds, NEW r \in SessionRows, sessions' = [sessions EXCEPT ![s] = r],
         sessions[s].user # None => r.user = sessions[s].user
  PROVE  sessions' \in [SessionIds -> SessionRows] /\ OwnersKept
BY DEF Typed, RowsTyped, OwnersKept

(* Writing a row of a user. *)
LEMMA UserSet ==
  ASSUME Typed, NEW a \in Admins, NEW r, users' = [users EXCEPT ![a] = r]
  PROVE  /\ r \in Users => users' \in [Admins -> Users]
         /\ users'[a] = r
         /\ \A b \in Admins \ {a} : users'[b] = users[b]
BY DEF Typed, RowsTyped

(* Writing a row of a call. *)
LEMMA CallSet ==
  ASSUME Typed, NEW c \in Calls, NEW r, call' = [call EXCEPT ![c] = r]
  PROVE  /\ r \in CallRows => call' \in [Calls -> CallRows]
         /\ call'[c] = r
         /\ \A d \in Calls \ {c} : call'[d] = call[d]
BY DEF Typed, RowsTyped

(* A handler that goes on to its next statement. *)
LEMMA PcSet ==
  ASSUME Typed, NEW c \in Calls, NEW p \in Pcs, call' = [call EXCEPT ![c].pc = p]
  PROVE  /\ call' \in [Calls -> CallRows] /\ call'[c].pc = p /\ GoesOn(c)
         /\ \A d \in Calls \ {c} : call'[d] = call[d]
<1> DEFINE r == [call[c] EXCEPT !.pc = p]
<1>1. call[c] \in CallRows
  BY DEF Typed, RowsTyped
<1>2. r \in CallRows /\ r.pc = p /\ r.op = call[c].op /\ r.session = call[c].session
      /\ r.arg = call[c].arg /\ r.token = call[c].token
  BY <1>1 DEF CallRows
<1>3. call' = [call EXCEPT ![c] = r]
  OBVIOUS
<1> HIDE DEF r
<1>. QED BY <1>2, <1>3, CallSet DEF GoesOn

(* A handler that ends. *)
LEMMA FinishSet ==
  ASSUME Typed, NEW c \in Calls, Finish(c)
  PROVE  /\ call' \in [Calls -> CallRows] /\ call'[c].pc = "done" /\ GoesOn(c)
         /\ \A d \in Calls \ {c} : call'[d] = call[d]
<1> DEFINE r == [call[c] EXCEPT !.pc = "done", !.row = NoUser, !.reauth = None, !.totp = FALSE]
<1>1. call[c] \in CallRows
  BY DEF Typed, RowsTyped
<1>2. r \in CallRows /\ r.pc = "done" /\ r.op = call[c].op /\ r.session = call[c].session
      /\ r.arg = call[c].arg /\ r.token = call[c].token
  BY <1>1, NoUserTyped DEF CallRows, Pcs
<1>3. call' = [call EXCEPT ![c] = r]
  BY DEF Finish
<1> HIDE DEF r
<1>. QED BY <1>2, <1>3, CallSet DEF GoesOn

(* A call that is turned away. *)
LEMMA RefuseSet ==
  ASSUME Typed, NEW c \in Calls, call' = [call EXCEPT ![c] = Refused]
  PROVE  /\ call' \in [Calls -> CallRows] /\ call'[c].pc = "refused"
         /\ \A d \in Calls \ {c} : call'[d] = call[d]
<1>1. Refused.pc = "refused"
  BY DEF Refused, Idle
<1>. QED BY <1>1, CallSet, IdleTyped

(* A call that passes the guards. *)
LEMMA AdmitSet ==
  ASSUME Typed, NEW c \in Calls, Admit(c)
  PROVE  /\ call' \in [Calls -> CallRows] /\ call'[c].pc = "admitted" /\ GoesOn(c)
         /\ call[c].op \in AuthOps => call'[c].row = users[CallerOf(c)]
         /\ \A d \in Calls \ {c} : call'[d] = call[d]
<1> DEFINE u == IF call[c].op \in AuthOps THEN users[CallerOf(c)] ELSE NoUser
           r == [call[c] EXCEPT !.pc = "admitted", !.row = u]
<1>1. call[c] \in CallRows
  BY DEF Typed, RowsTyped
<1>2. u \in Users
  <2>1. CallerOf(c) \in Admins
    BY DEF Admit, Typed, CallsTyped, Running
  <2>. QED BY <2>1, NoUserTyped DEF Typed, RowsTyped
<1>3. call' = [call EXCEPT ![c].pc = "admitted", ![c].row = u]
  BY DEF Admit
<1> HIDE DEF u
<1>4. r \in CallRows /\ r.pc = "admitted" /\ r.op = call[c].op /\ r.session = call[c].session
      /\ r.arg = call[c].arg /\ r.token = call[c].token /\ r.row = u
  BY <1>1, <1>2 DEF CallRows, Pcs
<1>5. call' = [call EXCEPT ![c] = r]
  BY <1>1, <1>3 DEF Typed, RowsTyped
<1> HIDE DEF r
<1>. QED BY <1>4, <1>5, CallSet DEF GoesOn, u

(* A call whose guard reads its session. *)
LEMMA ReadSessionSet ==
  ASSUME Typed, NEW c \in Calls, NEW s, NEW op, NEW x, NEW t, ReadSession(c, s, op, x, t)
  PROVE  /\ call'[c].pc \in {"session", "timed out", "refused"}
         /\ \A d \in Calls \ {c} : call'[d] = call[d]
<1>1. CASE Refuse(c)
  BY <1>1, RefuseSet DEF Refuse
<1>2. ASSUME NEW pc \in {"session", "timed out"},
             call' = [call EXCEPT ![c] =
                        [Idle EXCEPT !.pc = pc, !.op = op, !.session = s,
                                     !.arg = x, !.token = t,
                                     !.reauth = sessions[s].reauth, !.totp = sessions[s].totp]]
      PROVE  /\ call'[c].pc = pc
             /\ \A d \in Calls \ {c} : call'[d] = call[d]
  <2> DEFINE r == [Idle EXCEPT !.pc = pc, !.op = op, !.session = s, !.arg = x, !.token = t,
                               !.reauth = sessions[s].reauth, !.totp = sessions[s].totp]
  <2>1. r.pc = pc
    BY DEF Idle
  <2>2. call' = [call EXCEPT ![c] = r]
    BY <1>2
  <2> HIDE DEF r
  <2>. QED BY <2>1, <2>2, CallSet
<1>. QED BY <1>1, <1>2 DEF ReadSession

(* Refusals: the call is over and has changed nothing. *)
LEMMA RefuseFacts ==
  ASSUME Typed, NEW c \in Calls, ~Done(c), Refuse(c)
  PROVE  StepFacts
<1>1. RowsTyped'
  BY IdleTyped DEF Typed, RowsTyped, Refuse
<1>2. OwnersKept
  BY DEF OwnersKept, Refuse
<1>3. CallSteps
  BY DEF CallSteps, Refuse, Typed, RowsTyped, Running, Past, GoesOn, Done, Pc, Refused, Idle
<1>. QED BY <1>1, <1>2, <1>3 DEF StepFacts

(* The other steps of a handler: the call moves on. *)
LEMMA MoveFacts ==
  ASSUME Typed, NEW c \in Calls, ~Done(c), Running(c), GoesOn(c),
         call'[c].pc \notin {"idle", "refused", "session"},
         Past(c)' => Past(c) \/ Admit(c),
         call'[c].pc = "consumed" => call[c].op = "recovery/use",
         call' \in [Calls -> CallRows],
         \A d \in Calls \ {c} : call'[d] = call[d],
         users' \in [Admins -> Users], sessions' \in [SessionIds -> SessionRows],
         OwnersKept, began' = began, lost' \subseteq Calls
  PROVE  StepFacts
<1>1. RowsTyped'
  BY DEF Typed, RowsTyped
<1>3. CallSteps
  BY DEF CallSteps, Running, Past, GoesOn, Done, Pc
<1>. QED BY <1>1, <1>3 DEF StepFacts

(* Finish keeps what the call was. *)
LEMMA FinishFacts ==
  ASSUME Typed, NEW c \in Calls, Past(c), ~Done(c), Finish(c), began' = began,
         users' \in [Admins -> Users], sessions' \in [SessionIds -> SessionRows], OwnersKept
  PROVE  StepFacts /\ call'[c].pc = "done" /\ \A d \in Calls \ {c} : call'[d] = call[d]
<1>1. /\ call' \in [Calls -> CallRows] /\ GoesOn(c) /\ call'[c].pc = "done"
      /\ \A d \in Calls \ {c} : call'[d] = call[d]
  BY FinishSet
<1>4. lost' \subseteq Calls
  BY DEF Typed, RowsTyped, Finish
<1>5. Running(c)
  BY DEF Running, Past
<1>6. StepFacts
  BY <1>1, <1>4, <1>5, MoveFacts
<1>. QED BY <1>1, <1>6

(* AdminJwtGuard lets a call begin, or refuses it. *)
LEMMA ReadSessionFacts ==
  ASSUME Typed, NEW c \in Calls, NEW s \in SessionIds, NEW op \in Ops,
         NEW x \in Args, NEW t \in Origins \cup {None},
         op \in UserOps => x \in Admins,
         op \in StatusOps => x \in BrokerIds /\ Exists(x),
         op = "brokers/create" => x \in Emails,
         op = "recovery/use" => x[1] \in Admins \cup {e \in Calls : Done(e)},
         ReadSession(c, s, op, x, t)
  PROVE  StepFacts
<1>1. CASE Refuse(c)
  BY <1>1, RefuseFacts DEF ReadSession, Done
<1>2. ASSUME began' = [began EXCEPT ![c] = {d \in Calls : Done(d)}],
             NEW pc \in {"session", "timed out"},
             call' = [call EXCEPT ![c] =
                        [Idle EXCEPT !.pc = pc, !.op = op, !.session = s,
                                     !.arg = x, !.token = t,
                                     !.reauth = sessions[s].reauth, !.totp = sessions[s].totp]],
             UNCHANGED <<users, sessions, lost>>
      PROVE  StepFacts
  <2>1. sessions[s].user \in Admins /\ sessions[s].reauth \in Origins \cup {None}
        /\ sessions[s].totp \in BOOLEAN
    BY DEF Typed, RowsTyped, SessionRows, ReadSession
  <2>2. /\ call'[c].pc = pc /\ call'[c].op = op /\ call'[c].session = s
        /\ call'[c].arg = x /\ call'[c].token = t /\ call'[c].reauth = sessions[s].reauth
    BY <1>2 DEF Typed, RowsTyped, Idle
  <2>3. call'[c] \in CallRows
    BY <1>2, <2>1, NoUserTyped DEF Typed, RowsTyped, Idle, CallRows, Pcs
  <2>4. \A d \in Calls \ {c} : call'[d] = call[d] /\ began'[d] = began[d]
    BY <1>2 DEF Typed, RowsTyped
  <2>5. call' \in [Calls -> CallRows] /\ began' \in [Calls -> SUBSET Calls]
    BY <1>2, <2>3 DEF Typed, RowsTyped
  <2>6. began'[c] = {d \in Calls : Done(d)}
    BY <1>2 DEF Typed, RowsTyped
  <2>7. RowsTyped' /\ OwnersKept
    BY <1>2, <2>5 DEF Typed, RowsTyped, OwnersKept
  <2>8. Begins(c) /\ Pc(c) = "idle"
    BY <2>1, <2>2, <2>6 DEF Begins, ReadSession
  <2>9. CallSteps
    <3> SUFFICES ASSUME NEW d \in Calls
                 PROVE  /\ Running(d)' => (Running(d) /\ GoesOn(d)) \/ (Pc(d) = "idle" /\ Begins(d))
                        /\ began'[d] = began[d] \/ (Pc(d) = "idle" /\ Begins(d))
                        /\ Done(d) => call'[d] = call[d]
                        /\ Past(d)' => Past(d) \/ Admit(d)
                        /\ Pc(d)' = "consumed" => Pc(d) = "consumed" \/ call[d].op = "recovery/use"
                        /\ Pc(d)' = "session" => call'[d] = call[d] \/ Begins(d)
      BY DEF CallSteps
    <3>1. CASE d = c
      BY <3>1, <2>2, <2>8 DEF Past, Pc, Done
    <3>2. CASE d # c
      BY <3>2, <2>4 DEF Past, Pc, Done, Running, GoesOn
    <3>. QED BY <3>1, <3>2
  <2>. QED BY <2>7, <2>9 DEF StepFacts
<1>. QED BY <1>1, <1>2 DEF ReadSession

(* The calls that the pages of the admin console send. *)
LEMMA SendFacts ==
  ASSUME Typed, NEW c \in Calls, Send(c) \/ SendBroker(c)
  PROVE  StepFacts
<1>1. CASE Send(c)
  <2>0. PICK s \in SessionIds, op \in AuthOps \cup UserOps :
               \E x \in ArgsOf(sessions[s].user, op), t \in TokensOf(sessions[s].user, op) :
                 ReadSession(c, s, op, x, t)
    BY <1>1 DEF Send
  <2>1. PICK x \in ArgsOf(sessions[s].user, op), t \in TokensOf(sessions[s].user, op) :
               ReadSession(c, s, op, x, t)
    BY <2>0
  <2>2. sessions[s].user \in Admins
    BY <2>1 DEF ReadSession, Typed, RowsTyped, SessionRows
  <2>3. /\ x \in Args /\ (op \in UserOps => x \in Admins) /\ t \in Origins \cup {None}
        /\ op = "recovery/use" => x[1] \in Admins \cup {e \in Calls : Done(e)}
    BY <2>2, SentTyped, TokenTyped
  <2>4. op \in Ops /\ op \notin StatusOps /\ op # "brokers/create"
    BY DEF Ops, AuthOps, UserOps, StatusOps, BrokerOps
  <2>. QED BY <2>1, <2>3, <2>4, ReadSessionFacts
<1>2. CASE SendBroker(c)
  <2>0. PICK s \in SessionIds, op \in BrokerOps :
               \E x \in BrokerArgs(op), t \in TokensOf(sessions[s].user, op) :
                 ReadSession(c, s, op, x, t)
    BY <1>2 DEF SendBroker
  <2>1. PICK x \in BrokerArgs(op), t \in TokensOf(sessions[s].user, op) :
               ReadSession(c, s, op, x, t)
    BY <2>0
  <2>2. sessions[s].user \in Admins
    BY <2>1 DEF ReadSession, Typed, RowsTyped, SessionRows
  <2>3. t \in Origins \cup {None}
    BY <2>2, TokenTyped
  <2>4. op \in Ops /\ op \notin UserOps /\ op # "recovery/use"
    BY DEF Ops, UserOps, BrokerOps
  <2>5. /\ x \in Args
        /\ op \in StatusOps => x \in BrokerIds /\ Exists(x)
        /\ op = "brokers/create" => x \in Emails
    BY DEF BrokerArgs, Args, StatusOps
  <2>. QED BY <2>1, <2>3, <2>4, <2>5, ReadSessionFacts
<1>. QED BY <1>1, <1>2

(* The guards after the first read. *)
LEMMA GuardFacts ==
  ASSUME Typed, NEW c \in Calls, Guards(c)
  PROVE  StepFacts
<1>1. CASE RevokeSession(c)
  <2>1. call[c].session \in SessionIds
    BY <1>1 DEF RevokeSession, Typed, CallsTyped, Running
  <2>2. sessions' \in [SessionIds -> SessionRows] /\ OwnersKept
    <3> DEFINE r == [sessions[call[c].session] EXCEPT !.revoked = TRUE]
    <3>1. sessions[call[c].session] \in SessionRows
      BY <2>1 DEF Typed, RowsTyped
    <3>2. r \in SessionRows /\ r.user = sessions[call[c].session].user
      BY <3>1 DEF SessionRows
    <3>3. sessions' = [sessions EXCEPT ![call[c].session] = r]
      BY <1>1 DEF RevokeSession
    <3> HIDE DEF r
    <3>. QED BY <2>1, <3>2, <3>3, SessionSet
  <2>3. RowsTyped'
    BY <1>1, <2>2, IdleTyped DEF RevokeSession, Typed, RowsTyped
  <2>4. CallSteps
    <3>1. call'[c].pc = "refused" /\ \A d \in Calls \ {c} : call'[d] = call[d]
      BY <1>1, RefuseSet DEF RevokeSession
    <3>. QED BY <1>1, <3>1 DEF CallSteps, RevokeSession, Running, Past, GoesOn, Done, Pc
  <2>. QED BY <2>2, <2>3, <2>4 DEF StepFacts
<1>2. CASE Admit(c)
  <2>1. Running(c) /\ ~Done(c)
    BY <1>2 DEF Admit, Running, Done
  <2>3. /\ call' \in [Calls -> CallRows] /\ GoesOn(c) /\ call'[c].pc = "admitted"
        /\ \A d \in Calls \ {c} : call'[d] = call[d]
    BY <1>2, AdmitSet
  <2>4. UNCHANGED <<users, sessions, began, lost>>
    BY <1>2 DEF Admit
  <2>. QED BY <1>2, <2>1, <2>3, <2>4, MoveFacts DEF Typed, RowsTyped, OwnersKept
<1>3. CASE Deny(c)
  BY <1>3, RefuseFacts DEF Deny, Done
<1>. QED BY <1>1, <1>2, <1>3 DEF Guards

(* Handlers of admin/auth. *)
LEMMA AuthFacts ==
  ASSUME Typed, NEW c \in Calls,
         \/ BeginTotpSetup(c) \/ FinalizeTotpSetup(c) \/ VerifyTotp(c)
         \/ ConsumeRecoveryCode(c) \/ MarkRecovered(c) \/ IssueReauthToken(c)
  PROVE  StepFacts
<1>0. /\ Past(c) /\ ~Done(c) /\ Running(c)
      /\ CallerOf(c) \in Admins /\ call[c].session \in SessionIds
  <2>1. Past(c) /\ ~Done(c) /\ Running(c)
    BY DEF BeginTotpSetup, FinalizeTotpSetup, VerifyTotp, ConsumeRecoveryCode, MarkRecovered,
           IssueReauthToken, Handles, Past, Done, Running
  <2>. QED BY <2>1 DEF Typed, CallsTyped
<1>1. CASE Refuse(c)
  BY <1>0, <1>1, RefuseFacts
<1>a. ASSUME users' = users
      PROVE  users' \in [Admins -> Users]
  BY <1>a DEF Typed, RowsTyped
<1>b. ASSUME sessions' = sessions
      PROVE  sessions' \in [SessionIds -> SessionRows] /\ OwnersKept
  BY <1>b DEF Typed, RowsTyped, OwnersKept
<1>c. ASSUME MarkTotpVerified(call[c].session)
      PROVE  sessions' \in [SessionIds -> SessionRows] /\ OwnersKept
  <2> DEFINE r == [sessions[call[c].session] EXCEPT !.totp = TRUE]
  <2>1. sessions[call[c].session] \in SessionRows
    BY <1>0 DEF Typed, RowsTyped
  <2>2. r \in SessionRows /\ r.user = sessions[call[c].session].user
    BY <2>1 DEF SessionRows
  <2>3. sessions' = [sessions EXCEPT ![call[c].session] = r]
    BY <1>c DEF MarkTotpVerified
  <2> HIDE DEF r
  <2>. QED BY <1>0, <2>2, <2>3, SessionSet
<1>2. CASE BeginTotpSetup(c) /\ ~Refuse(c)
  <2>1. users' \in [Admins -> Users]
    <3> DEFINE r == [users[CallerOf(c)] EXCEPT !.secret = c]
    <3>1. r \in Users
      BY <1>0 DEF Typed, RowsTyped, Users, Origins
    <3>2. users' = [users EXCEPT ![CallerOf(c)] = r]
      BY <1>2 DEF BeginTotpSetup
    <3> HIDE DEF r
    <3>. QED BY <1>0, <3>1, <3>2, UserSet
  <2>. QED BY <1>0, <1>2, <1>b, <2>1, FinishFacts DEF BeginTotpSetup
<1>3. CASE FinalizeTotpSetup(c) /\ ~Refuse(c)
  <2>1. users' \in [Admins -> Users]
    <3>1. GenerateRecoveryCodes(c) \in Seq(RecoveryCodes)
      BY GeneratedTyped DEF Origins
    <3>2. users' = [users EXCEPT ![CallerOf(c)].enrolled = TRUE,
                                 ![CallerOf(c)].codes = GenerateRecoveryCodes(c)]
      BY <1>3 DEF FinalizeTotpSetup
    <3>3. users \in [Admins -> Users] /\ users[CallerOf(c)] \in Users
      BY <1>0 DEF Typed, RowsTyped
    <3>4. users'[CallerOf(c)] = [users[CallerOf(c)] EXCEPT !.enrolled = TRUE,
                                                     !.codes = GenerateRecoveryCodes(c)]
      BY <1>0, <3>2, <3>3
    <3>5. users'[CallerOf(c)] \in Users
      BY <3>1, <3>3, <3>4 DEF Users
    <3>. QED BY <1>0, <3>2, <3>3, <3>5
  <2>. QED BY <1>0, <1>3, <1>b, <2>1, FinishFacts DEF FinalizeTotpSetup
<1>4. CASE VerifyTotp(c) /\ ~Refuse(c)
  BY <1>0, <1>4, <1>a, <1>c, FinishFacts DEF VerifyTotp
<1>5. CASE ConsumeRecoveryCode(c) /\ ~Refuse(c)
  <2>1. PICK i : users' = [users EXCEPT ![CallerOf(c)].codes = RemoveAt(@, i)]
    BY <1>5 DEF ConsumeRecoveryCode
  <2>2. users \in [Admins -> Users] /\ users[CallerOf(c)].codes \in Seq(RecoveryCodes)
    BY <1>0 DEF Typed, RowsTyped, Users
  <2>3. RemoveAt(users[CallerOf(c)].codes, i) \in Seq(RecoveryCodes)
    BY <2>2, RemovedTyped
  <2>4. users' \in [Admins -> Users]
    <3> DEFINE r == [users[CallerOf(c)] EXCEPT !.codes = RemoveAt(@, i)]
    <3>1. r \in Users
      BY <1>0, <2>2, <2>3 DEF Users
    <3>2. users' = [users EXCEPT ![CallerOf(c)] = r]
      BY <2>1
    <3> HIDE DEF r
    <3>. QED BY <1>0, <3>1, <3>2, UserSet
  <2>5. /\ call' = [call EXCEPT ![c].pc = "consumed"]
        /\ UNCHANGED <<sessions, began, lost>>
    BY <1>5 DEF ConsumeRecoveryCode
  <2>6. /\ call' \in [Calls -> CallRows] /\ GoesOn(c) /\ call'[c].pc = "consumed"
        /\ \A d \in Calls \ {c} : call'[d] = call[d]
    BY <2>5, PcSet DEF Pcs
  <2>8. call[c].op = "recovery/use"
    BY <1>5 DEF ConsumeRecoveryCode, Handles
  <2>. QED BY <1>0, <1>b, <2>4, <2>5, <2>6, <2>8, MoveFacts DEF Typed, RowsTyped
<1>6. CASE MarkRecovered(c)
  BY <1>0, <1>6, <1>a, <1>c, FinishFacts DEF MarkRecovered
<1>7. CASE IssueReauthToken(c) /\ ~Refuse(c)
  <2>1. sessions' \in [SessionIds -> SessionRows] /\ OwnersKept
    <3> DEFINE r == [sessions[call[c].session] EXCEPT !.reauth = c]
    <3>1. sessions[call[c].session] \in SessionRows
      BY <1>0 DEF Typed, RowsTyped
    <3>2. r \in SessionRows /\ r.user = sessions[call[c].session].user
      BY <3>1 DEF SessionRows, Origins
    <3>3. sessions' = [sessions EXCEPT ![call[c].session] = r]
      BY <1>7 DEF IssueReauthToken
    <3> HIDE DEF r
    <3>. QED BY <1>0, <3>2, <3>3, SessionSet
  <2>. QED BY <1>0, <1>7, <1>a, <2>1, FinishFacts DEF IssueReauthToken
<1>. QED BY <1>1, <1>2, <1>3, <1>4, <1>5, <1>6, <1>7

(* Handlers of admin/users. *)
LEMMA UserFacts ==
  ASSUME Typed, NEW c \in Calls, CreateUser(c) \/ Suspend(c) \/ Reset2fa(c)
  PROVE  StepFacts
<1>0. /\ Past(c) /\ ~Done(c)
      /\ call[c].arg \in Admins
  <2>1. Past(c) /\ ~Done(c) /\ Running(c) /\ call[c].op \in UserOps
    <3>1. Handles(c, "users/create") \/ Handles(c, "users/suspend") \/ Handles(c, "users/reset-2fa")
      BY DEF CreateUser, Suspend, Reset2fa
    <3>. QED BY <3>1 DEF Handles, Past, Done, Running, UserOps
  <2>. QED BY <2>1 DEF Typed, CallsTyped
<1>1. CASE Refuse(c)
  BY <1>0, <1>1, RefuseFacts
<1>2. CASE ~Refuse(c)
  <2>1. UNCHANGED <<sessions, began>> /\ Finish(c)
    BY <1>2 DEF CreateUser, Suspend, Reset2fa
  <2>2. sessions' \in [SessionIds -> SessionRows] /\ OwnersKept
    BY <2>1 DEF Typed, RowsTyped, OwnersKept
  <2>3. users' \in [Admins -> Users]
    <3>0. users \in [Admins -> Users] /\ users[call[c].arg] \in Users
      BY <1>0 DEF Typed, RowsTyped
    <3>1. CASE CreateUser(c)
      <4> DEFINE r == [users[call[c].arg] EXCEPT !.exists = TRUE]
      <4>1. r \in Users
        BY <3>0 DEF Users
      <4>2. users' = [users EXCEPT ![call[c].arg] = r]
        BY <1>2, <3>1 DEF CreateUser
      <4> HIDE DEF r
      <4>. QED BY <1>0, <4>1, <4>2, UserSet
    <3>2. CASE Suspend(c)
      <4> DEFINE r == [users[call[c].arg] EXCEPT !.suspended = TRUE]
      <4>1. r \in Users
        BY <3>0 DEF Users
      <4>2. users' = [users EXCEPT ![call[c].arg] = r]
        BY <1>2, <3>2 DEF Suspend
      <4> HIDE DEF r
      <4>. QED BY <1>0, <4>1, <4>2, UserSet
    <3>3. CASE Reset2fa(c)
      <4>a. NoUser.codes \in Seq(RecoveryCodes) /\ NoUser.codes = <<>>
        BY NoUserTyped DEF Users, NoUser
      <4>1. users' = [users EXCEPT ![call[c].arg].secret = None, ![call[c].arg].enrolled = FALSE,
                                   ![call[c].arg].codes = NoUser.codes]
        BY <1>2, <3>3, <4>a DEF Reset2fa
      <4>2. users'[call[c].arg] = [users[call[c].arg] EXCEPT !.secret = None, !.enrolled = FALSE,
                                                             !.codes = NoUser.codes]
        BY <1>0, <3>0, <4>1
      <4>3. users'[call[c].arg] \in Users
        BY <3>0, <4>2, <4>a DEF Users
      <4>. QED BY <1>0, <3>0, <4>1, <4>3
    <3>. QED BY <3>1, <3>2, <3>3
  <2>. QED BY <1>0, <2>1, <2>2, <2>3, FinishFacts
<1>. QED BY <1>1, <1>2

(* Handlers of admin/brokers. *)
LEMMA BrokerFacts ==
  ASSUME Typed, NEW c \in Calls, BrokerHandlers(c)
  PROVE  StepFacts
<1>0. ASSUME UNCHANGED <<users, sessions>>
      PROVE  /\ users' \in [Admins -> Users]
             /\ sessions' \in [SessionIds -> SessionRows] /\ OwnersKept
  BY <1>0 DEF Typed, RowsTyped, OwnersKept
<1>1. CASE SendBroker(c)
  BY <1>1, SendFacts
<1>2. CASE ReadBroker(c) \/ CheckEmail(c)
  <2>1. /\ Past(c) /\ ~Done(c) /\ Running(c)
        /\ call' = [call EXCEPT ![c].pc = "read"] /\ UNCHANGED <<users, sessions, began, lost>>
    BY <1>2 DEF ReadBroker, CheckEmail, Handles, Past, Done, Running
  <2>2. /\ call' \in [Calls -> CallRows] /\ GoesOn(c) /\ call'[c].pc = "read"
        /\ \A d \in Calls \ {c} : call'[d] = call[d]
    BY <2>1, PcSet DEF Pcs
  <2>. QED BY <1>0, <2>1, <2>2, MoveFacts DEF Typed, RowsTyped
<1>3. CASE UpdateBroker(c) \/ InsertBroker(c)
  <2>1. /\ Past(c) /\ ~Done(c) /\ Finish(c) /\ UNCHANGED <<users, sessions, began>>
    BY <1>3 DEF UpdateBroker, InsertBroker, Past, Done
  <2>. QED BY <1>0, <2>1, FinishFacts
<1>4. CASE RollBack(c)
  BY <1>4, RefuseFacts DEF RollBack, Done
<1>. QED BY <1>1, <1>2, <1>3, <1>4 DEF BrokerHandlers

(* A step that leaves the calls alone. *)
LEMMA OtherFacts ==
  ASSUME Typed, UNCHANGED <<users, call, began, lost>>,
         UNCHANGED sessions \/ \E a \in Admins, s \in Sessions : Login(a, s)
  PROVE  StepFacts
<1>1. sessions' \in [SessionIds -> SessionRows] /\ OwnersKept
  <2>1. CASE UNCHANGED sessions
    BY <2>1 DEF Typed, RowsTyped, OwnersKept
  <2>2. ASSUME NEW a \in Admins, NEW s \in Sessions, Login(a, s)
        PROVE  sessions' \in [SessionIds -> SessionRows] /\ OwnersKept
    <3>1. PICK r \in SessionRows : sessions' = [sessions EXCEPT ![s] = r]
      <4>1. [NoSession EXCEPT !.user = a, !.totp = TRUE] \in SessionRows
        BY DEF NoSession, SessionRows
      <4>. QED BY <2>2, <4>1 DEF Login
    <3>2. sessions[s].user = None
      BY <2>2 DEF Login
    <3>. QED BY <3>1, <3>2 DEF Typed, RowsTyped, OwnersKept
  <2>. QED BY <2>1, <2>2
<1>2. CallSteps
  BY DEF CallSteps, Running, Past, Done, Pc, GoesOn
<1>. QED BY <1>1, <1>2 DEF StepFacts, Typed, RowsTyped

(* Every step of the admin API and of the guards of the signed requests.   *)
THEOREM EveryStepFacts ==
  ASSUME Typed, [AccessNext]_allVars
  PROVE  StepFacts
<1>1. CASE Next
  <2>1. ASSUME NEW a \in Admins, NEW s \in Sessions, Login(a, s)
        PROVE  StepFacts
    BY <2>1, OtherFacts DEF Login
  <2>2. ASSUME NEW c \in Calls, Send(c) \/ Guards(c) \/ Handlers(c)
        PROVE  StepFacts
    BY <2>2, SendFacts, GuardFacts, AuthFacts, UserFacts DEF Handlers
  <2>. QED BY <1>1, <2>1, <2>2 DEF Next
<1>2. ASSUME NEW c \in Calls, BrokerHandlers(c)
      PROVE  StepFacts
  BY <1>2, BrokerFacts
<1>3. ASSUME NEW h \in Hits, HmacVerify(h) \/ HmacReject(h) \/ \E b \in Onboarded : HmacRead(h, b)
      PROVE  StepFacts
  BY <1>3, OtherFacts DEF HmacVerify, HmacReject, HmacRead, vars
<1>4. CASE UNCHANGED allVars
  BY <1>4, OtherFacts DEF allVars, vars
<1>. QED BY <1>1, <1>2, <1>3, <1>4 DEF AccessNext

-----------------------------------------------------------------------------
(* Types, of the brokers too. *)

StatusRows == [by : Calls, before : Statuses, after : Statuses]

BrokersTyped ==
  /\ broker \in [BrokerIds -> [status : Statuses \cup {"none"}, email : Emails \cup {None}]]
  /\ trail \in [BrokerIds -> Seq(StatusRows)]
  /\ before \in [Calls -> Statuses \cup {"none"}]
  /\ hit \in [Hits -> [pc : {"idle", "read", "accepted"}, broker : BrokerIds \cup {None}]]
  /\ seen \in [Hits -> SUBSET Calls]

(* A broker is there before a call can name it, it has audit rows only     *)
(* then, and the calls that ended have made the new ones.                  *)
BrokersPlaced ==
  /\ \A c \in Calls : Running(c) /\ call[c].op \in StatusOps => Exists(call[c].arg)
  /\ \A c \in Calls : Pc(c) = "read" /\ call[c].op \in StatusOps => before[c] \in Statuses
  /\ \A c \in Calls : Exists(c) => Done(c) /\ call[c].op = "brokers/create"
  /\ \A b \in BrokerIds : ~Exists(b) => trail[b] = <<>>

TypedInv == Typed /\ BrokersTyped /\ BrokersPlaced

(* The admin API starts well-typed. *)
LEMMA InitTyped == AccessInit => TypedInv
<1> SUFFICES ASSUME AccessInit PROVE TypedInv
  OBVIOUS
<1>1. users \in [Admins -> Users]
  <2>1. \A a \in Admins : UserStates(a) \subseteq Users
    <3> SUFFICES ASSUME NEW a \in Admins, NEW u \in UserStates(a)
                 PROVE  u \in Users
      OBVIOUS
    <3>1. GenerateRecoveryCodes(a) \in Seq(RecoveryCodes)
      BY GeneratedTyped DEF Origins
    <3>2. [NoUser EXCEPT !.exists = TRUE, !.secret = a] \in Users
      BY NoUserTyped DEF Users, Origins
    <3>3. [exists |-> TRUE, suspended |-> FALSE, secret |-> a, enrolled |-> TRUE,
           codes |-> GenerateRecoveryCodes(a)] \in Users
      BY <3>1 DEF Users, Origins
    <3>. QED BY <3>2, <3>3 DEF UserStates
  <2>2. \A a \in Admins : users[a] \in Users
    BY <2>1, NoUserTyped DEF AccessInit, Init
  <2>3. \E S : users \in [Admins -> S]
    BY DEF AccessInit, Init
  <2>. QED BY <2>2, <2>3
<1>2. sessions \in [SessionIds -> SessionRows]
  BY SessionAssumption DEF AccessInit, Init, SessionRows, NoSession, SessionIds, Origins
<1>3. call \in [Calls -> CallRows] /\ began \in [Calls -> SUBSET Calls] /\ lost \subseteq Calls
  BY IdleTyped DEF AccessInit, Init
<1>4. \A c \in Calls : ~Running(c) /\ Pc(c) = "idle"
  BY DEF AccessInit, Init, Running, Pc, Idle
<1>5. Typed
  BY <1>1, <1>2, <1>3, <1>4 DEF Typed, RowsTyped, CallsTyped
<1>6. BrokersTyped
  <2>1. broker \in [BrokerIds -> [status : Statuses \cup {"none"}, email : Emails \cup {None}]]
    BY DEF AccessInit, BrokerInit, Statuses, NoBroker, Emails
  <2>2. trail \in [BrokerIds -> Seq(StatusRows)]
    <3>1. <<>> \in Seq(StatusRows)
      OBVIOUS
    <3>. QED BY <3>1 DEF AccessInit, BrokerInit
  <2>3. /\ before \in [Calls -> Statuses \cup {"none"}]
        /\ hit \in [Hits -> [pc : {"idle", "read", "accepted"}, broker : BrokerIds \cup {None}]]
        /\ seen \in [Hits -> SUBSET Calls]
    BY DEF AccessInit, BrokerInit, NoHit
  <2>. QED BY <2>1, <2>2, <2>3 DEF BrokersTyped
<1>7. BrokersPlaced
  BY <1>4, BrokerAssumption DEF AccessInit, BrokerInit, BrokersPlaced, Exists, NoBroker, BrokerIds
<1>. QED BY <1>5, <1>6, <1>7 DEF TypedInv

(* A step keeps what a call is. *)
LEMMA CallsStayTyped ==
  ASSUME TypedInv, StepFacts
  PROVE  Typed'
<1>1. ASSUME NEW c \in Calls, Running(c)'
      PROVE  /\ call'[c].session \in SessionIds
             /\ sessions'[call'[c].session].user \in Admins
             /\ call'[c].op \in Ops
             /\ call'[c].op \in UserOps => call'[c].arg \in Admins
             /\ call'[c].op \in StatusOps => call'[c].arg \in BrokerIds
             /\ call'[c].op = "brokers/create" => call'[c].arg \in Emails
             /\ call'[c].pc = "consumed" => call'[c].op = "recovery/use"
  <2>1. CASE Running(c) /\ GoesOn(c)
    BY <2>1, SessionDistinct
       DEF StepFacts, OwnersKept, CallSteps, TypedInv, Typed, CallsTyped, CallerOf, GoesOn, Pc
  <2>2. CASE Begins(c)
    BY <2>2, SessionDistinct DEF StepFacts, OwnersKept, Begins
  <2>. QED BY <1>1, <2>1, <2>2 DEF StepFacts, CallSteps
<1>. QED BY <1>1 DEF StepFacts, Typed, CallsTyped, CallerOf, Pc

(* What a step does to the brokers is done by one of five actions. *)
LEMMA BrokerCases ==
  ASSUME [AccessNext]_allVars
  PROVE  \/ \E c \in Calls : ReadBroker(c) \/ UpdateBroker(c) \/ InsertBroker(c)
         \/ \E h \in Hits : HmacVerify(h) \/ HmacReject(h) \/ \E b \in Onboarded : HmacRead(h, b)
         \/ UNCHANGED brokerVars
BY DEF AccessNext, allVars, BrokerHandlers, SendBroker, CheckEmail, RollBack

(* A step keeps the types of brokers, audit rows and signed requests. *)
LEMMA BrokersStayTyped ==
  ASSUME TypedInv, [AccessNext]_allVars
  PROVE  BrokersTyped'
<1>1. ASSUME NEW c \in Calls, ReadBroker(c)
      PROVE  BrokersTyped'
  <2>1. call[c].arg \in BrokerIds
    BY <1>1 DEF ReadBroker, TypedInv, Typed, CallsTyped, Running
  <2>2. broker[call[c].arg].status \in Statuses \cup {"none"}
    BY <2>1 DEF TypedInv, BrokersTyped
  <2>3. before' \in [Calls -> Statuses \cup {"none"}]
    BY <1>1, <2>2 DEF ReadBroker, TypedInv, BrokersTyped
  <2>. QED BY <1>1, <2>3 DEF ReadBroker, TypedInv, BrokersTyped
<1>2. ASSUME NEW c \in Calls, UpdateBroker(c)
      PROVE  BrokersTyped'
  <2>1. /\ call[c].arg \in BrokerIds /\ before[c] \in Statuses
        /\ NewStatus(call[c].op) \in Statuses
    <3>1. call[c].arg \in BrokerIds /\ before[c] \in Statuses
      BY <1>2 DEF UpdateBroker, TypedInv, Typed, CallsTyped, Running, BrokersPlaced
    <3>2. NewStatus(call[c].op) \in Statuses
      BY <1>2 DEF UpdateBroker, NewStatus, StatusOps, BrokerOps, Statuses
    <3>. QED BY <3>1, <3>2
  <2>2. AuditRow(c, before[c], NewStatus(call[c].op)) \in StatusRows
    BY <2>1 DEF AuditRow, StatusRows
  <2>3. trail' \in [BrokerIds -> Seq(StatusRows)]
    BY <1>2, <2>1, <2>2 DEF UpdateBroker, TypedInv, BrokersTyped
  <2>4. broker' \in [BrokerIds -> [status : Statuses \cup {"none"}, email : Emails \cup {None}]]
    <3> DEFINE r == [broker[call[c].arg] EXCEPT !.status = NewStatus(call[c].op)]
    <3>1. r \in [status : Statuses \cup {"none"}, email : Emails \cup {None}]
      <4>1. broker[call[c].arg] \in [status : Statuses \cup {"none"}, email : Emails \cup {None}]
        BY <2>1 DEF TypedInv, BrokersTyped
      <4>2. NewStatus(call[c].op) \in Statuses \cup {"none"}
        BY <2>1
      <4>. QED BY <4>1, <4>2
    <3>2. broker' = [broker EXCEPT ![call[c].arg] = r]
      BY <1>2 DEF UpdateBroker
    <3> HIDE DEF r
    <3>. QED BY <3>1, <3>2 DEF TypedInv, BrokersTyped
  <2>. QED BY <1>2, <2>3, <2>4 DEF UpdateBroker, TypedInv, BrokersTyped
<1>3. ASSUME NEW c \in Calls, InsertBroker(c)
      PROVE  BrokersTyped'
  <2>1. call[c].arg \in Emails
    BY <1>3 DEF InsertBroker, TypedInv, Typed, CallsTyped, Running
  <2>2. broker' \in [BrokerIds -> [status : Statuses \cup {"none"}, email : Emails \cup {None}]]
    BY <1>3, <2>1 DEF InsertBroker, TypedInv, BrokersTyped, Statuses
  <2>. QED BY <1>3, <2>2 DEF InsertBroker, TypedInv, BrokersTyped
<1>4. ASSUME NEW h \in Hits, HmacVerify(h) \/ HmacReject(h) \/ \E b \in Onboarded : HmacRead(h, b)
      PROVE  BrokersTyped'
  <2>1. hit' \in [Hits -> [pc : {"idle", "read", "accepted"}, broker : BrokerIds \cup {None}]]
    <3>1. CASE HmacVerify(h)
      <4> DEFINE r == [hit[h] EXCEPT !.pc = "accepted"]
      <4>1. r \in [pc : {"idle", "read", "accepted"}, broker : BrokerIds \cup {None}]
        BY DEF TypedInv, BrokersTyped
      <4>2. hit' = [hit EXCEPT ![h] = r]
        BY <3>1 DEF HmacVerify
      <4> HIDE DEF r
      <4>. QED BY <4>1, <4>2 DEF TypedInv, BrokersTyped
    <3>2. CASE HmacReject(h)
      BY <3>2 DEF HmacReject, NoHit, TypedInv, BrokersTyped
    <3>3. ASSUME NEW b \in Onboarded, HmacRead(h, b)
          PROVE  hit' \in [Hits -> [pc : {"idle", "read", "accepted"}, broker : BrokerIds \cup {None}]]
      BY <3>3 DEF HmacRead, Onboarded, TypedInv, BrokersTyped
    <3>. QED BY <1>4, <3>1, <3>2, <3>3
  <2>2. seen' \in [Hits -> SUBSET Calls]
    BY <1>4 DEF HmacVerify, HmacReject, HmacRead, TypedInv, BrokersTyped
  <2>. QED BY <1>4, <2>1, <2>2 DEF HmacVerify, HmacReject, HmacRead, TypedInv, BrokersTyped
<1>5. CASE UNCHANGED brokerVars
  BY <1>5 DEF brokerVars, TypedInv, BrokersTyped
<1>. QED BY <1>1, <1>2, <1>3, <1>4, <1>5, BrokerCases

(* A call changes only by a step of its own. *)
LEMMA OwnStep ==
  ASSUME Typed, [AccessNext]_allVars, NEW d \in Calls, call'[d] # call[d]
  PROVE  Send(d) \/ Guards(d) \/ Handlers(d) \/ BrokerHandlers(d)
<1>a. ASSUME NEW c \in Calls, c # d
      PROVE  ~Refuse(c) /\ ~Finish(c) /\ call' # [call EXCEPT ![c] = Refused]
  BY <1>a, RefuseSet, FinishSet DEF Refuse
<1>b. ASSUME NEW c \in Calls, c # d, NEW p \in Pcs
      PROVE  call' # [call EXCEPT ![c].pc = p]
  BY <1>b, PcSet
<1>c. ASSUME NEW c \in Calls, c # d, NEW s, NEW op, NEW x, NEW t, ReadSession(c, s, op, x, t)
      PROVE  FALSE
  BY <1>c, ReadSessionSet
<1>1. ASSUME NEW c \in Calls, c # d, Send(c) PROVE FALSE
  BY <1>1, <1>c DEF Send
<1>2. ASSUME NEW c \in Calls, c # d, Guards(c) PROVE FALSE
  <2>1. ~Admit(c)
    BY <1>2, AdmitSet
  <2>. QED BY <1>2, <1>a, <2>1 DEF Guards, RevokeSession, Deny
<1>3. ASSUME NEW c \in Calls, c # d, Handlers(c) PROVE FALSE
  <2>1. ~ConsumeRecoveryCode(c)
    BY <1>3, <1>a, <1>b DEF ConsumeRecoveryCode, Pcs
  <2>. QED BY <1>3, <1>a, <2>1 DEF Handlers, BeginTotpSetup, FinalizeTotpSetup, VerifyTotp,
              MarkRecovered, IssueReauthToken, CreateUser, Suspend, Reset2fa
<1>4. ASSUME NEW c \in Calls, c # d, BrokerHandlers(c) PROVE FALSE
  <2>1. ~SendBroker(c)
    BY <1>4, <1>c DEF SendBroker
  <2>2. ~ReadBroker(c) /\ ~CheckEmail(c)
    BY <1>4, <1>b DEF ReadBroker, CheckEmail, Pcs
  <2>. QED BY <1>4, <1>a, <2>1, <2>2 DEF BrokerHandlers, UpdateBroker, InsertBroker, RollBack
<1>5. ASSUME NEW a \in Admins, NEW s \in Sessions, Login(a, s) PROVE FALSE
  BY <1>5 DEF Login
<1>6. ASSUME NEW h \in Hits, HmacVerify(h) \/ HmacReject(h) \/ \E b \in Onboarded : HmacRead(h, b)
      PROVE  FALSE
  BY <1>6 DEF HmacVerify, HmacReject, HmacRead, vars
<1>7. CASE UNCHANGED allVars
  BY <1>7 DEF allVars, vars
<1>. QED BY <1>1, <1>2, <1>3, <1>4, <1>5, <1>6, <1>7 DEF AccessNext, Next

(* Who lets a call read its broker, and who ends it. *)
LEMMA ReadStep ==
  ASSUME Typed, [AccessNext]_allVars, NEW d \in Calls, Pc(d) # "read", Pc(d)' = "read"
  PROVE  ReadBroker(d) \/ CheckEmail(d)
<1>1. Send(d) \/ Guards(d) \/ Handlers(d) \/ BrokerHandlers(d)
  BY OwnStep DEF Pc
<1>2. ASSUME NEW s, NEW op, NEW x, NEW t, ReadSession(d, s, op, x, t) PROVE FALSE
  BY <1>2, ReadSessionSet DEF Pc
<1>3. ~Send(d) /\ ~SendBroker(d)
  BY <1>2 DEF Send, SendBroker
<1>a. ~Refuse(d) /\ ~Finish(d) /\ call' # [call EXCEPT ![d] = Refused]
  BY RefuseSet, FinishSet DEF Refuse, Pc
<1>4. ~Guards(d)
  <2>1. ~Admit(d)
    BY AdmitSet DEF Pc
  <2>. QED BY <1>a, <2>1 DEF Guards, RevokeSession, Deny
<1>5. ~Handlers(d)
  <2>1. ~ConsumeRecoveryCode(d)
    <3>1. call' # [call EXCEPT ![d].pc = "consumed"]
      BY PcSet DEF Pcs, Pc
    <3>. QED BY <1>a, <3>1 DEF ConsumeRecoveryCode
  <2>. QED BY <1>a, <2>1 DEF Handlers, BeginTotpSetup, FinalizeTotpSetup, VerifyTotp,
                             MarkRecovered, IssueReauthToken, CreateUser, Suspend, Reset2fa
<1>6. ~UpdateBroker(d) /\ ~InsertBroker(d) /\ ~RollBack(d)
  BY <1>a DEF UpdateBroker, InsertBroker, RollBack
<1>. QED BY <1>1, <1>3, <1>4, <1>5, <1>6 DEF BrokerHandlers

(* A call ends by its own handler, and only from the place before it. *)
LEMMA EndStep ==
  ASSUME Typed, [AccessNext]_allVars, NEW d \in Calls, ~Done(d), Done(d)'
  PROVE  /\ call[d].op = "users/suspend" => Suspend(d)
         /\ call[d].op = "reauth" => IssueReauthToken(d)
         /\ call[d].op \in StatusOps => UpdateBroker(d)
         /\ call[d].op = "brokers/create" => InsertBroker(d)
<1>1. Send(d) \/ Guards(d) \/ Handlers(d) \/ BrokerHandlers(d)
  BY OwnStep DEF Pc, Done
<1>2. ASSUME NEW s, NEW op, NEW x, NEW t, ReadSession(d, s, op, x, t) PROVE FALSE
  BY <1>2, ReadSessionSet DEF Pc, Done
<1>3. ~Send(d) /\ ~SendBroker(d)
  BY <1>2 DEF Send, SendBroker
<1>a. ~Refuse(d) /\ call' # [call EXCEPT ![d] = Refused]
  BY RefuseSet DEF Refuse, Pc, Done
<1>b. call' # [call EXCEPT ![d].pc = "read"] /\ call' # [call EXCEPT ![d].pc = "consumed"]
  BY PcSet DEF Pcs, Pc, Done
<1>4. ~Guards(d)
  <2>1. ~Admit(d)
    BY AdmitSet DEF Pc, Done
  <2>. QED BY <1>a, <2>1 DEF Guards, RevokeSession, Deny
<1>5. ~ReadBroker(d) /\ ~CheckEmail(d) /\ ~RollBack(d) /\ ~ConsumeRecoveryCode(d)
  <2>1. ~ReadBroker(d) /\ ~CheckEmail(d)
    BY <1>b DEF ReadBroker, CheckEmail
  <2>2. ~RollBack(d)
    BY <1>a DEF RollBack
  <2>3. ConsumeRecoveryCode(d) => Refuse(d) \/ call' = [call EXCEPT ![d].pc = "consumed"]
    BY DEF ConsumeRecoveryCode
  <2>. QED BY <1>a, <1>b, <2>1, <2>2, <2>3
<1>6. CASE Handlers(d)
  <2>1. ~MarkRecovered(d) \/ call[d].op = "recovery/use"
    BY DEF MarkRecovered, Typed, CallsTyped, Running
  <2>. QED BY <1>5, <1>6, <2>1
         DEF Handlers, BeginTotpSetup, FinalizeTotpSetup, VerifyTotp, MarkRecovered,
             IssueReauthToken, CreateUser, Suspend, Reset2fa, Handles, StatusOps, BrokerOps
<1>7. CASE UpdateBroker(d) \/ InsertBroker(d)
  BY <1>7 DEF UpdateBroker, InsertBroker, StatusOps, BrokerOps
<1>. QED BY <1>1, <1>3, <1>4, <1>5, <1>6, <1>7 DEF BrokerHandlers

(* Brokers do not disappear: delete closes them. *)
LEMMA BrokersStay ==
  ASSUME TypedInv, [AccessNext]_allVars, NEW b \in BrokerIds, Exists(b)
  PROVE  Exists(b)'
<1>1. ASSUME NEW c \in Calls, UpdateBroker(c)
      PROVE  Exists(b)'
  <2>1. call[c].arg \in BrokerIds /\ NewStatus(call[c].op) # "none"
    BY <1>1 DEF UpdateBroker, TypedInv, Typed, CallsTyped, Running, NewStatus, StatusOps, BrokerOps
  <2>. QED BY <1>1, <2>1 DEF UpdateBroker, Exists, TypedInv, BrokersTyped
<1>2. ASSUME NEW c \in Calls, InsertBroker(c)
      PROVE  Exists(b)'
  BY <1>2 DEF InsertBroker, Exists, TypedInv, BrokersTyped
<1>3. CASE UNCHANGED broker
  BY <1>3 DEF Exists
<1>. QED BY <1>1, <1>2, <1>3, BrokerCases
       DEF ReadBroker, HmacVerify, HmacReject, HmacRead, brokerVars

(* Status calls are about brokers that exist, and know what they read. *)
LEMMA BrokersStayPlaced ==
  ASSUME TypedInv, [AccessNext]_allVars, StepFacts
  PROVE  BrokersPlaced'
<1>1. ASSUME NEW c \in Calls, Running(c)', call'[c].op \in StatusOps
      PROVE  broker'[call'[c].arg].status # "none"
  <2>1. call'[c].arg \in BrokerIds /\ Exists(call'[c].arg)
    BY <1>1 DEF StepFacts, CallSteps, GoesOn, Begins, TypedInv, Typed, CallsTyped, BrokersPlaced
  <2>2. PICK b \in BrokerIds : b = call'[c].arg /\ Exists(b)
    BY <2>1
  <2>3. Exists(b)'
    BY <2>2, BrokersStay
  <2>. QED BY <2>2, <2>3 DEF Exists
<1>2. ASSUME NEW c \in Calls, Pc(c)' = "read", call'[c].op \in StatusOps
      PROVE  before'[c] \in Statuses
  <2>0. Running(c) /\ call'[c].op = call[c].op
    BY <1>2 DEF StepFacts, CallSteps, Running, Begins, GoesOn, Pc
  <2>1. CASE Pc(c) = "read"
    <3>1. before[c] \in Statuses
      BY <1>2, <2>0, <2>1 DEF TypedInv, BrokersPlaced
    <3>2. before'[c] = before[c]
      <4>1. ASSUME NEW d \in Calls, ReadBroker(d)
            PROVE  before'[c] = before[c]
        BY <2>1, <4>1 DEF ReadBroker, TypedInv, BrokersTyped
      <4>. QED BY <4>1, BrokerCases
             DEF UpdateBroker, InsertBroker, HmacVerify, HmacReject, HmacRead, brokerVars
    <3>. QED BY <3>1, <3>2
  <2>2. CASE Pc(c) # "read"
    <3>1. ReadBroker(c)
      BY <1>2, <2>0, <2>2, ReadStep DEF TypedInv, CheckEmail, Handles, StatusOps
    <3>2. call[c].arg \in BrokerIds
      BY <3>1 DEF ReadBroker, TypedInv, Typed, CallsTyped, Running
    <3>. QED BY <3>1, <3>2 DEF ReadBroker, Exists, TypedInv, BrokersTyped
  <2>. QED BY <2>1, <2>2
<1>3. ASSUME NEW c \in Calls, Exists(c)'
      PROVE  Done(c)' /\ call'[c].op = "brokers/create"
  <2>0. c \in BrokerIds
    BY DEF BrokerIds
  <2>1. CASE Exists(c)
    BY <2>1 DEF StepFacts, CallSteps, TypedInv, BrokersPlaced, Done, Pc
  <2>2. CASE ~Exists(c)
    <3>1. ASSUME NEW d \in Calls, UpdateBroker(d)
          PROVE  FALSE
      <4>1. Exists(call[d].arg) /\ call[d].arg \in BrokerIds
        BY <3>1 DEF UpdateBroker, TypedInv, BrokersPlaced, Typed, CallsTyped, Running
      <4>. QED BY <1>3, <2>0, <2>2, <3>1, <4>1 DEF UpdateBroker, Exists, TypedInv, BrokersTyped
    <3>2. ASSUME NEW d \in Calls, InsertBroker(d)
          PROVE  d = c
      BY <1>3, <2>0, <2>2, <3>2 DEF InsertBroker, Exists, TypedInv, BrokersTyped, BrokerIds
    <3>3. CASE UNCHANGED broker
      BY <1>3, <2>2, <3>3 DEF Exists
    <3>4. CASE InsertBroker(c)
      BY <3>4 DEF InsertBroker, Finish, TypedInv, Typed, RowsTyped, CallRows, Done, Pc
    <3>. QED BY <3>1, <3>2, <3>3, <3>4, BrokerCases
           DEF ReadBroker, HmacVerify, HmacReject, HmacRead, brokerVars
  <2>. QED BY <2>1, <2>2
<1>4. ASSUME NEW b \in BrokerIds, ~Exists(b)'
      PROVE  trail'[b] = <<>>
  <2>1. ~Exists(b)
    BY <1>4, BrokersStay
  <2>2. trail[b] = <<>>
    BY <2>1 DEF TypedInv, BrokersPlaced
  <2>3. ASSUME NEW c \in Calls, UpdateBroker(c)
        PROVE  trail'[b] = trail[b]
    <3>1. Exists(call[c].arg) /\ call[c].arg \in BrokerIds
      BY <2>3 DEF UpdateBroker, TypedInv, BrokersPlaced, Typed, CallsTyped, Running
    <3>. QED BY <2>1, <2>3, <3>1 DEF UpdateBroker, TypedInv, BrokersTyped
  <2>. QED BY <2>2, <2>3, BrokerCases
         DEF ReadBroker, InsertBroker, HmacVerify, HmacReject, HmacRead, brokerVars
<1>. QED BY <1>1, <1>2, <1>3, <1>4 DEF BrokersPlaced, Exists

(* The types and places are inductive, and every step obeys StepFacts. *)
LEMMA StepTyped == TypedInv /\ [AccessNext]_allVars => TypedInv' /\ StepFacts
<1> SUFFICES ASSUME TypedInv, [AccessNext]_allVars PROVE TypedInv' /\ StepFacts
  OBVIOUS
<1>1. StepFacts
  BY EveryStepFacts DEF TypedInv
<1>. QED BY <1>1, CallsStayTyped, BrokersStayTyped, BrokersStayPlaced DEF TypedInv

(* They hold in every state of the admin API. *)
LEMMA AlwaysTyped == AccessSpec => []TypedInv
BY InitTyped, StepTyped, PTL DEF AccessSpec

(* Type correctness of the admin API, its guards and the HMAC guard. *)
THEOREM AccessTypeCorrect == AccessSpec => []AccessTypeOK
<1>1. TypedInv => AccessTypeOK
  <2> SUFFICES ASSUME TypedInv PROVE AccessTypeOK
    OBVIOUS
  <2>1. TypeOK
    BY DEF TypedInv, Typed, RowsTyped, CallsTyped, TypeOK, CallRows, Pcs, Pc, Running
  <2>. QED BY <2>1 DEF TypedInv, BrokersTyped, AccessTypeOK, StatusRows
<1>. QED BY <1>1, AlwaysTyped, PTL

-----------------------------------------------------------------------------
(* Suspended admins. *)

(* What was over when a call began is over. *)
BeganDone == \A c \in Calls : \A d \in began[c] : Done(d)

IsSuspend(d, a) == Done(d) /\ call[d].op = "users/suspend" /\ call[d].arg = a

(* A user is suspended if and only if a suspension of it has ended, and    *)
(* who got past the guards exists.                                         *)
SuspensionsKnown ==
  /\ \A a \in Admins : users[a].suspended <=> \E d \in Calls : IsSuspend(d, a)
  /\ \A c \in Calls : Past(c) => users[CallerOf(c)].exists

SessionInv ==
  TypedInv /\ BeganDone /\ SuspensionsKnown /\ SuspendedAdminRefused /\ LockoutOnlyInRace

(* What was over when a call began stays over: no call starts again. *)
LEMMA StepBeganDone ==
  ASSUME TypedInv, BeganDone, StepFacts
  PROVE  BeganDone'
<1> SUFFICES ASSUME NEW c \in Calls, NEW d \in began'[c]
             PROVE  Done(d)'
  BY DEF BeganDone
<1>1. d \in Calls
  BY DEF StepFacts, RowsTyped
<1>2. CASE began'[c] = began[c]
  BY <1>1, <1>2 DEF BeganDone, StepFacts, CallSteps, Done, Pc
<1>3. CASE Begins(c)
  BY <1>1, <1>3 DEF Begins, StepFacts, CallSteps, Done, Pc
<1>. QED BY <1>2, <1>3 DEF StepFacts, CallSteps

(* The owner of a running call's session does not change. *)
LEMMA CallerKept ==
  ASSUME TypedInv, StepFacts, NEW c \in Calls, Running(c), Running(c)'
  PROVE  CallerOf(c)' = CallerOf(c) /\ CallerOf(c) \in Admins /\ GoesOn(c)
<1>1. GoesOn(c)
  BY DEF StepFacts, CallSteps, Running
<1>. QED BY <1>1, SessionDistinct
       DEF StepFacts, OwnersKept, TypedInv, Typed, CallsTyped, CallerOf, GoesOn

(* The handlers of the brokers change no user and no session. *)
LEMMA BrokerHandlersKeep ==
  ASSUME NEW c \in Calls, BrokerHandlers(c)
  PROVE  UNCHANGED <<users, sessions>>
<1>1. CASE SendBroker(c)
  BY <1>1 DEF SendBroker, ReadSession, Refuse
<1>2. CASE ~SendBroker(c)
  BY <1>2 DEF BrokerHandlers, ReadBroker, UpdateBroker, CheckEmail, InsertBroker, RollBack, Refuse
<1>. QED BY <1>1, <1>2

(* What a step can do to the row of a user. *)
LEMMA UsersCases ==
  ASSUME [AccessNext]_allVars
  PROVE  \/ UNCHANGED users
         \/ \E c \in Calls : /\ ~Refuse(c)
                             /\ \/ BeginTotpSetup(c) \/ FinalizeTotpSetup(c)
                                \/ ConsumeRecoveryCode(c) \/ CreateUser(c) \/ Reset2fa(c)
                                \/ Suspend(c)
<1>1. CASE Next
  <2>1. ASSUME NEW c \in Calls, Send(c) \/ Guards(c) \/ Handlers(c)
        PROVE  \/ UNCHANGED users
               \/ /\ ~Refuse(c)
                  /\ \/ BeginTotpSetup(c) \/ FinalizeTotpSetup(c) \/ ConsumeRecoveryCode(c)
                     \/ CreateUser(c) \/ Reset2fa(c) \/ Suspend(c)
    <3>1. CASE Send(c)
      BY <3>1 DEF Send, ReadSession, Refuse
    <3>2. CASE Guards(c)
      BY <3>2 DEF Guards, RevokeSession, Admit, Deny, Refuse
    <3>3. CASE VerifyTotp(c) \/ MarkRecovered(c) \/ IssueReauthToken(c)
      BY <3>3 DEF VerifyTotp, MarkRecovered, IssueReauthToken, Refuse
    <3>4. CASE Refuse(c)
      BY <3>4 DEF Refuse
    <3>. QED BY <2>1, <3>1, <3>2, <3>3, <3>4 DEF Handlers
  <2>. QED BY <1>1, <2>1 DEF Next, Login
<1>2. ASSUME NEW c \in Calls, BrokerHandlers(c)
      PROVE  UNCHANGED users
  BY <1>2, BrokerHandlersKeep
<1>. QED BY <1>1, <1>2 DEF AccessNext, allVars, vars, HmacRead, HmacVerify, HmacReject

(* Users stay, and stay suspended; a suspension is the end of a call of    *)
(* another admin (no action clears suspended_at).                          *)
LEMMA UserSteps ==
  ASSUME TypedInv, [AccessNext]_allVars, NEW a \in Admins
  PROVE  /\ users[a].exists => users'[a].exists
         /\ users[a].suspended => users'[a].suspended
         /\ users'[a].suspended /\ ~users[a].suspended =>
              \E c \in Calls : /\ Handles(c, "users/suspend") /\ call[c].arg = a
                              /\ a # CallerOf(c) /\ Finish(c)
<1>0. users \in [Admins -> Users] /\ users[a] \in Users
  BY DEF TypedInv, Typed, RowsTyped
<1>1. CASE UNCHANGED users
  BY <1>1
<1>2. ASSUME NEW c \in Calls, users' # users,
             BeginTotpSetup(c) \/ FinalizeTotpSetup(c) \/ ConsumeRecoveryCode(c)
      PROVE  users'[a].exists = users[a].exists /\ users'[a].suspended = users[a].suspended
  <2>1. CASE BeginTotpSetup(c)
    <3>1. users' = [users EXCEPT ![CallerOf(c)].secret = c]
      BY <1>2, <2>1 DEF BeginTotpSetup, Refuse
    <3>2. users'[a] = users[a] \/ users'[a] = [users[a] EXCEPT !.secret = c]
      BY <1>0, <3>1
    <3>. QED BY <1>0, <3>2 DEF Users
  <2>2. CASE FinalizeTotpSetup(c)
    <3>1. users' = [users EXCEPT ![CallerOf(c)].enrolled = TRUE,
                                 ![CallerOf(c)].codes = GenerateRecoveryCodes(c)]
      BY <1>2, <2>2 DEF FinalizeTotpSetup, Refuse
    <3>2. \/ users'[a] = users[a]
          \/ users'[a] = [users[a] EXCEPT !.enrolled = TRUE, !.codes = GenerateRecoveryCodes(c)]
      BY <1>0, <3>1
    <3>. QED BY <1>0, <3>2 DEF Users
  <2>3. CASE ConsumeRecoveryCode(c)
    <3>1. PICK i : users' = [users EXCEPT ![CallerOf(c)].codes = RemoveAt(@, i)]
      BY <1>2, <2>3 DEF ConsumeRecoveryCode, Refuse
    <3>2. users'[a] = users[a] \/ users'[a] = [users[a] EXCEPT !.codes = RemoveAt(@, i)]
      BY <1>0, <3>1
    <3>. QED BY <1>0, <3>2 DEF Users
  <2>. QED BY <1>2, <2>1, <2>2, <2>3
<1>3. ASSUME NEW c \in Calls, users' # users, CreateUser(c) \/ Reset2fa(c)
      PROVE  (users[a].exists => users'[a].exists) /\ users'[a].suspended = users[a].suspended
  <2>1. CASE CreateUser(c)
    <3>1. users' = [users EXCEPT ![call[c].arg].exists = TRUE]
      BY <1>3, <2>1 DEF CreateUser, Refuse
    <3>2. users'[a] = users[a] \/ users'[a] = [users[a] EXCEPT !.exists = TRUE]
      BY <1>0, <3>1
    <3>. QED BY <1>0, <3>2 DEF Users
  <2>2. CASE Reset2fa(c)
    <3>1. users' = [users EXCEPT ![call[c].arg].secret = None, ![call[c].arg].enrolled = FALSE,
                                 ![call[c].arg].codes = <<>>]
      BY <1>3, <2>2 DEF Reset2fa, Refuse
    <3>2. \/ users'[a] = users[a]
          \/ users'[a] = [users[a] EXCEPT !.secret = None, !.enrolled = FALSE, !.codes = <<>>]
      BY <1>0, <3>1
    <3>. QED BY <1>0, <3>2 DEF Users
  <2>. QED BY <1>3, <2>1, <2>2
<1>4. ASSUME NEW c \in Calls, users' # users, Suspend(c)
      PROVE  /\ users[a].exists => users'[a].exists
             /\ users[a].suspended => users'[a].suspended
             /\ users'[a].suspended /\ ~users[a].suspended =>
                   /\ Handles(c, "users/suspend") /\ call[c].arg = a
                   /\ a # CallerOf(c) /\ Finish(c)
  <2>1. /\ Handles(c, "users/suspend") /\ call[c].arg # CallerOf(c) /\ Finish(c)
        /\ users' = [users EXCEPT ![call[c].arg].suspended = TRUE]
    BY <1>4 DEF Suspend, Refuse
  <2>2. CASE call[c].arg = a
    <3>1. users'[a] = [users[a] EXCEPT !.suspended = TRUE]
      BY <1>0, <2>1, <2>2
    <3>. QED BY <1>0, <2>1, <2>2, <3>1 DEF Users
  <2>3. CASE call[c].arg # a
    BY <1>0, <2>1, <2>3
  <2>. QED BY <2>2, <2>3
<1>. QED BY <1>1, <1>2, <1>3, <1>4, UsersCases

(* The handler of suspend ends its call. *)
LEMMA SuspendEnds ==
  ASSUME TypedInv, NEW c \in Calls, NEW a, Handles(c, "users/suspend"), call[c].arg = a, Finish(c)
  PROVE  ~Done(c) /\ IsSuspend(c, a)'
BY FinishSet DEF TypedInv, Handles, GoesOn, IsSuspend, Done, Pc

(* Who has been suspended, and by which call, stays on record. *)
LEMMA StepSuspensionsKnown ==
  ASSUME TypedInv, SuspensionsKnown, [AccessNext]_allVars, StepFacts, TypedInv'
  PROVE  SuspensionsKnown'
<1>0. ASSUME NEW d \in Calls, NEW a, IsSuspend(d, a)
      PROVE  IsSuspend(d, a)'
  BY <1>0 DEF IsSuspend, StepFacts, CallSteps, Done, Pc
<1>1. ASSUME NEW a \in Admins, users'[a].suspended
      PROVE  \E d \in Calls : IsSuspend(d, a)'
  <2>1. CASE users[a].suspended
    BY <1>0, <2>1 DEF SuspensionsKnown
  <2>2. CASE ~users[a].suspended
    BY <1>1, <2>2, UserSteps, SuspendEnds
  <2>. QED BY <2>1, <2>2
<1>2. ASSUME NEW a \in Admins, NEW d \in Calls, IsSuspend(d, a)'
      PROVE  users'[a].suspended
  <2>1. CASE IsSuspend(d, a)
    BY <2>1, UserSteps DEF SuspensionsKnown
  <2>2. CASE ~IsSuspend(d, a)
    <3>1. ~Done(d) /\ Done(d)' /\ call'[d].op = "users/suspend" /\ call'[d].arg = a
      BY <1>2, <2>2 DEF IsSuspend, StepFacts, CallSteps, Done, Pc
    <3>2. call[d].op = "users/suspend" /\ call[d].arg = a
      BY <3>1 DEF StepFacts, CallSteps, Begins, GoesOn, Running, Done, Pc
    <3>3. Suspend(d)
      BY <3>1, <3>2, EndStep DEF TypedInv
    <3>4. ~Refuse(d)
      BY <3>1 DEF Refuse, Refused, Idle, Done, Pc, TypedInv, Typed, RowsTyped
    <3>5. users' = [users EXCEPT ![a].suspended = TRUE]
      BY <3>2, <3>3, <3>4 DEF Suspend
    <3>. QED BY <3>5 DEF TypedInv, Typed, RowsTyped, Users
  <2>. QED BY <2>1, <2>2
<1>3. ASSUME NEW c \in Calls, Past(c)'
      PROVE  users'[CallerOf(c)'].exists
  <2>1. users[CallerOf(c)].exists /\ Running(c)
    BY <1>3 DEF StepFacts, CallSteps, SuspensionsKnown, Admit, Past, Running
  <2>2. CallerOf(c)' = CallerOf(c) /\ CallerOf(c) \in Admins
    BY <1>3, <2>1, CallerKept DEF Past, Running
  <2>. QED BY <2>1, <2>2, UserSteps
<1>4. \A a \in Admins : users'[a].suspended \in BOOLEAN
  BY DEF TypedInv, Typed, RowsTyped, Users
<1>5. \A a \in Admins : users'[a].suspended <=> \E d \in Calls : IsSuspend(d, a)'
  BY <1>1, <1>2, <1>4
<1>. QED BY <1>3, <1>5 DEF SuspensionsKnown, IsSuspend, CallerOf

(* A call gets past the guards only while its admin is not suspended.      *)
LEMMA StepSuspendedRefused ==
  ASSUME TypedInv, BeganDone, SuspensionsKnown, SuspendedAdminRefused, [AccessNext]_allVars,
         StepFacts
  PROVE  SuspendedAdminRefused'
<1> SUFFICES ASSUME NEW c \in Calls, NEW d \in Calls, Past(c)', IsSuspend(d, CallerOf(c))'
             PROVE  d \notin began'[c]
  BY DEF SuspendedAdminRefused, Past, IsSuspend
<1>1. Running(c) /\ began'[c] = began[c]
  BY DEF StepFacts, CallSteps, Past, Running, Admit
<1>2. CallerOf(c)' = CallerOf(c) /\ CallerOf(c) \in Admins
  BY <1>1, CallerKept DEF Past, Running
<1>3. SUFFICES ASSUME d \in began[c] PROVE FALSE
  BY <1>1
<1>4. Done(d) /\ call'[d] = call[d]
  BY <1>3 DEF BeganDone, StepFacts, CallSteps
<1>5. IsSuspend(d, CallerOf(c))
  BY <1>2, <1>4 DEF IsSuspend
<1>6. CASE Past(c)
  BY <1>3, <1>5, <1>6 DEF SuspendedAdminRefused, Past, IsSuspend
<1>7. CASE ~Past(c)
  <2>1. Admit(c)
    BY <1>7 DEF StepFacts, CallSteps
  <2>2. users[CallerOf(c)].suspended
    BY <1>2, <1>5 DEF SuspensionsKnown
  <2>. QED BY <2>1, <2>2 DEF Admit
<1>. QED BY <1>6, <1>7

(* The last of the admins was suspended by one who was suspended already,  *)
(* so the two suspensions overlap.                                         *)
LEMMA StepLockout ==
  ASSUME TypedInv, BeganDone, SuspensionsKnown, SuspendedAdminRefused, LockoutOnlyInRace,
         [AccessNext]_allVars, StepFacts, TypedInv', SuspensionsKnown'
  PROVE  LockoutOnlyInRace'
<1> SUFFICES ASSUME \A a \in Admins : users'[a].exists => users'[a].suspended
             PROVE  \E c, d \in Calls : /\ c # d /\ Done(c)' /\ Done(d)'
                                        /\ call'[c].op = "users/suspend"
                                        /\ call'[d].op = "users/suspend"
                                        /\ c \notin began'[d] /\ d \notin began'[c]
  BY DEF LockoutOnlyInRace, Overlap
<1>1. CASE \A a \in Admins : users[a].exists => users[a].suspended
  <2>1. PICK c \in Calls, d \in Calls : /\ c # d /\ Done(c) /\ Done(d)
                                        /\ call[c].op = "users/suspend"
                                        /\ call[d].op = "users/suspend"
                                        /\ Overlap(c, d)
    BY <1>1 DEF LockoutOnlyInRace
  <2>. QED BY <2>1 DEF Overlap, StepFacts, CallSteps, Done, Pc
<1>2. CASE \E a \in Admins : users[a].exists /\ ~users[a].suspended
  <2>1. PICK a \in Admins : users[a].exists /\ ~users[a].suspended
    BY <1>2
  <2>2. PICK c \in Calls : /\ Handles(c, "users/suspend") /\ call[c].arg = a
                           /\ a # CallerOf(c) /\ Finish(c)
    BY <2>1, UserSteps
  <2>3. ~Done(c) /\ IsSuspend(c, a)'
    BY <2>2, SuspendEnds
  <2>4. Past(c) /\ Running(c) /\ CallerOf(c) \in Admins /\ users[CallerOf(c)].exists
    <3>1. Past(c) /\ Running(c)
      BY <2>2 DEF Handles, Past, Running
    <3>. QED BY <3>1 DEF SuspensionsKnown, TypedInv, Typed, CallsTyped
  <2>5. users'[CallerOf(c)].suspended
    BY <2>4, UserSteps
  <2>6. users[CallerOf(c)].suspended
    <3>1. ASSUME ~users[CallerOf(c)].suspended
          PROVE  FALSE
      <4>1. PICK e \in Calls : Handles(e, "users/suspend") /\ call[e].arg = CallerOf(c) /\ Finish(e)
        BY <2>4, <2>5, <3>1, UserSteps
      <4>3. e = c
        <5>1. call'[c].pc = "done" /\ \A d \in Calls \ {e} : call'[d] = call[d]
          BY <2>2, <4>1, FinishSet DEF TypedInv
        <5>2. call[c].pc = "admitted"
          BY <2>2 DEF Handles, Pc
        <5>. QED BY <5>1, <5>2
      <4>. QED BY <2>2, <4>1, <4>3
    <3>. QED BY <3>1
  <2>7. PICK d \in Calls : IsSuspend(d, CallerOf(c))
    BY <2>4, <2>6 DEF SuspensionsKnown
  <2>8. d \notin began[c] /\ c \notin began[d] /\ c # d
    BY <2>3, <2>4, <2>7 DEF SuspendedAdminRefused, Past, IsSuspend, BeganDone
  <2>9. began'[c] = began[c] /\ began'[d] = began[d] /\ Done(d)' /\ call'[d] = call[d]
    BY <2>4, <2>7 DEF StepFacts, CallSteps, IsSuspend, Running, Done, Pc
  <2>. QED BY <2>3, <2>7, <2>8, <2>9 DEF IsSuspend
<1>. QED BY <1>1, <1>2

(* At the start nothing has begun and nobody is suspended. *)
LEMMA InitSession == AccessInit => BeganDone /\ SuspensionsKnown /\ SuspendedAdminRefused
                                   /\ LockoutOnlyInRace
<1> SUFFICES ASSUME AccessInit
             PROVE  BeganDone /\ SuspensionsKnown /\ SuspendedAdminRefused /\ LockoutOnlyInRace
  OBVIOUS
<1>1. \A c \in Calls : Pc(c) = "idle" /\ began[c] = {}
  BY DEF AccessInit, Init, Pc, Idle
<1>2. \A a \in Admins : ~users[a].suspended /\ (a \in Founders => users[a].exists)
  <2>1. \A a \in Admins : users[a] \in IF a \in Founders THEN UserStates(a) ELSE {NoUser}
    BY DEF AccessInit, Init
  <2>2. ASSUME NEW a \in Admins, NEW u \in UserStates(a)
        PROVE  ~u.suspended /\ u.exists
    <3>1. CASE u = [NoUser EXCEPT !.exists = TRUE, !.secret = a]
      BY <3>1 DEF NoUser
    <3>2. CASE u = [exists |-> TRUE, suspended |-> FALSE, secret |-> a, enrolled |-> TRUE,
                    codes |-> GenerateRecoveryCodes(a)]
      BY <3>2
    <3>. QED BY <2>2, <3>1, <3>2 DEF UserStates
  <2>3. ~NoUser.suspended
    BY DEF NoUser
  <2>. QED BY <2>1, <2>2, <2>3
<1>3. BeganDone /\ SuspensionsKnown /\ SuspendedAdminRefused
  BY <1>1, <1>2 DEF BeganDone, SuspensionsKnown, SuspendedAdminRefused, IsSuspend, Done, Past
<1>. QED BY <1>2, <1>3, SessionAssumption DEF LockoutOnlyInRace

(* The invariant of the admin users holds in every state. *)
LEMMA AlwaysSession == AccessSpec => []SessionInv
<1>1. AccessInit => SessionInv
  BY InitTyped, InitSession DEF SessionInv
<1>2. SessionInv /\ [AccessNext]_allVars => SessionInv'
  BY StepTyped, StepBeganDone, StepSuspensionsKnown, StepSuspendedRefused, StepLockout
     DEF SessionInv
<1>. QED BY <1>1, <1>2, PTL DEF AccessSpec

(* An admin whose suspension is over gets no call through any more,        *)
(* whatever session or token it holds (admin-jwt.guard.ts).                *)
THEOREM SuspendedAdminsRefused == AccessSpec => []SuspendedAdminRefused
BY AlwaysSession, PTL DEF SessionInv

(* All admins are suspended only if two suspensions overlapped             *)
(* (admin-users.controller.ts refuses the own account only).               *)
THEOREM LockedOutOnlyInRace == AccessSpec => []LockoutOnlyInRace
BY AlwaysSession, PTL DEF SessionInv

-----------------------------------------------------------------------------
(* Tokens. *)

(* The token t is that of the unlock r, or of one that was not over when r *)
(* began.                                                                  *)
AsNew(t, r) == t = r \/ (t \in Calls /\ t \notin began[r])

IsUnlock(r, s) == Done(r) /\ call[r].op = "reauth" /\ call[r].session = s

(* No token of a session is older than an unlock that is over, and no call *)
(* has read one that is older than an unlock that was over when it began.  *)
TokensKnown ==
  /\ \A s \in SessionIds, r \in Calls : IsUnlock(r, s) => AsNew(sessions[s].reauth, r)
  /\ \A c \in Calls : Pc(c) = "session" =>
       \A r \in began[c] : IsUnlock(r, call[c].session) => AsNew(call[c].reauth, r)

(* The token of an open session changes only by an unlock. *)
LEMMA TokenSteps ==
  ASSUME TypedInv, [AccessNext]_allVars, NEW s \in SessionIds, sessions[s].user # None
  PROVE  \/ sessions'[s].reauth = sessions[s].reauth
         \/ \E c \in Calls : ~Done(c) /\ sessions'[s].reauth = c
<1>0. sessions \in [SessionIds -> SessionRows] /\ sessions[s] \in SessionRows
  BY DEF TypedInv, Typed, RowsTyped
<1>1. CASE UNCHANGED sessions
  BY <1>1
<1>2. ASSUME NEW a \in Admins, NEW z \in Sessions, Login(a, z)
      PROVE  sessions'[s].reauth = sessions[s].reauth
  BY <1>0, <1>2 DEF Login
<1>3. ASSUME NEW c \in Calls, sessions' # sessions, RevokeSession(c) \/ VerifyTotp(c) \/ MarkRecovered(c)
      PROVE  sessions'[s].reauth = sessions[s].reauth
  <2>1. PICK z : \/ sessions' = [sessions EXCEPT ![z].revoked = TRUE]
                 \/ sessions' = [sessions EXCEPT ![z].totp = TRUE]
    BY <1>3 DEF RevokeSession, VerifyTotp, MarkRecovered, MarkTotpVerified, Refuse
  <2>. QED BY <1>0, <2>1 DEF SessionRows
<1>4. ASSUME NEW c \in Calls, sessions' # sessions, IssueReauthToken(c)
      PROVE  ~Done(c) /\ (sessions'[s].reauth = sessions[s].reauth \/ sessions'[s].reauth = c)
  BY <1>0, <1>4 DEF IssueReauthToken, Refuse, SessionRows, Handles, Done
<1>5. \/ UNCHANGED sessions
      \/ \E a \in Admins, z \in Sessions : Login(a, z)
      \/ \E c \in Calls : \/ RevokeSession(c) \/ VerifyTotp(c) \/ MarkRecovered(c)
                          \/ IssueReauthToken(c)
  <2>1. CASE Next
    <3>1. ASSUME NEW c \in Calls, Send(c) \/ Guards(c) \/ Handlers(c)
          PROVE  <1>5
      <4>1. CASE Send(c)
        BY <4>1 DEF Send, ReadSession, Refuse
      <4>2. CASE Guards(c)
        BY <4>2 DEF Guards, Admit, Deny, Refuse
      <4>3. CASE BeginTotpSetup(c) \/ FinalizeTotpSetup(c) \/ ConsumeRecoveryCode(c)
        BY <4>3 DEF BeginTotpSetup, FinalizeTotpSetup, ConsumeRecoveryCode, Refuse
      <4>4. CASE CreateUser(c) \/ Suspend(c) \/ Reset2fa(c)
        BY <4>4 DEF CreateUser, Suspend, Reset2fa, Refuse
      <4>. QED BY <3>1, <4>1, <4>2, <4>3, <4>4 DEF Handlers
    <3>. QED BY <2>1, <3>1 DEF Next
  <2>2. ASSUME NEW c \in Calls, BrokerHandlers(c)
        PROVE  UNCHANGED sessions
    BY <2>2, BrokerHandlersKeep
  <2>. QED BY <2>1, <2>2 DEF AccessNext, allVars, vars, HmacRead, HmacVerify, HmacReject
<1>. QED BY <1>1, <1>2, <1>3, <1>4, <1>5

(* A session's token stays as new as each unlock of it that is over. *)
LEMMA StepTokensKnown ==
  ASSUME TypedInv, BeganDone, TokensKnown, [AccessNext]_allVars, StepFacts
  PROVE  TokensKnown'
<1>0. ASSUME NEW r \in Calls, Done(r)
      PROVE  /\ began'[r] = began[r] /\ call'[r] = call[r]
             /\ call[r].session \in SessionIds /\ sessions[call[r].session].user # None
  BY <1>0, SessionDistinct
     DEF StepFacts, CallSteps, Done, TypedInv, Typed, CallsTyped, Running, CallerOf
<1>1. ASSUME NEW s \in SessionIds, NEW r \in Calls, IsUnlock(r, s)'
      PROVE  sessions'[s].reauth = r \/ (sessions'[s].reauth \in Calls /\ sessions'[s].reauth \notin began'[r])
  <2>1. CASE Done(r)
    <3>1. IsUnlock(r, s)
      BY <1>0, <1>1, <2>1 DEF IsUnlock
    <3>2. AsNew(sessions[s].reauth, r) /\ sessions[s].user # None
      BY <1>0, <2>1, <3>1 DEF TokensKnown, IsUnlock
    <3>3. CASE sessions'[s].reauth = sessions[s].reauth
      BY <1>0, <2>1, <3>2, <3>3 DEF AsNew
    <3>4. ASSUME NEW c \in Calls, ~Done(c), sessions'[s].reauth = c
          PROVE  c \notin began'[r]
      BY <1>0, <2>1, <3>4 DEF BeganDone
    <3>. QED BY <3>2, <3>3, <3>4, TokenSteps
  <2>2. CASE ~Done(r)
    <3>1. call[r].op = "reauth" /\ call[r].session = s /\ Done(r)'
      BY <1>1, <2>2 DEF IsUnlock, StepFacts, CallSteps, Running, Begins, GoesOn, Done, Pc
    <3>2. IssueReauthToken(r) /\ ~Refuse(r)
      BY <2>2, <3>1, EndStep
         DEF TypedInv, Refuse, Refused, Idle, Done, Pc, Typed, RowsTyped
    <3>. QED BY <3>1, <3>2 DEF IssueReauthToken, TypedInv, Typed, RowsTyped, SessionRows
  <2>. QED BY <2>1, <2>2
<1>2. ASSUME NEW c \in Calls, Pc(c)' = "session", NEW r \in began'[c], IsUnlock(r, call[c].session)'
      PROVE  call'[c].reauth = r \/ (call'[c].reauth \in Calls /\ call'[c].reauth \notin began'[r])
  <2>0. r \in Calls
    BY DEF StepFacts, RowsTyped
  <2>1. CASE Begins(c)
    <3>1. Done(r) /\ call'[c].session \in SessionIds /\ call'[c].reauth = sessions[call'[c].session].reauth
      BY <2>1 DEF Begins
    <3>2. IsUnlock(r, call'[c].session)
      BY <1>0, <1>2, <2>0, <3>1 DEF IsUnlock
    <3>3. AsNew(call'[c].reauth, r)
      BY <2>0, <3>1, <3>2 DEF TokensKnown
    <3>. QED BY <1>0, <2>0, <3>1, <3>3 DEF AsNew
  <2>2. CASE ~Begins(c)
    <3>1. call'[c] = call[c] /\ began'[c] = began[c]
      BY <1>2, <2>2 DEF StepFacts, CallSteps
    <3>2. Done(r) /\ IsUnlock(r, call[c].session)
      BY <1>0, <1>2, <2>0, <3>1 DEF BeganDone, IsUnlock
    <3>3. AsNew(call[c].reauth, r)
      BY <1>2, <3>1, <3>2 DEF TokensKnown, Pc
    <3>. QED BY <1>0, <2>0, <3>1, <3>2, <3>3 DEF AsNew
  <2>. QED BY <2>1, <2>2
<1>. QED BY <1>1, <1>2 DEF TokensKnown, AsNew

(* A call that got past ReauthGuard carried a token as new as each unlock  *)
(* that was over when it began.                                            *)
LEMMA StepSuperseded ==
  ASSUME TypedInv, BeganDone, TokensKnown, SupersededTokenRefused, [AccessNext]_allVars, StepFacts
  PROVE  SupersededTokenRefused'
<1> SUFFICES ASSUME NEW c \in Calls, NEW d \in Calls,
                    call'[c].pc \in {"admitted", "read", "done"}, NeedsReauth(call'[c].op),
                    d \in began'[c], call'[d].op = "reauth",
                    call'[d].session = call'[c].session
             PROVE  \/ call'[c].token = d
                    \/ call'[c].token \in Calls /\ call'[c].token \notin began'[d]
  BY DEF SupersededTokenRefused, Pc
<1>0. Past(c)'
  BY DEF Past, Pc
<1>1. Running(c) /\ GoesOn(c) /\ began'[c] = began[c]
  BY <1>0 DEF StepFacts, CallSteps, Past, Running, Admit, Begins, Pc
<1>2. Done(d) /\ call'[d] = call[d] /\ began'[d] = began[d]
  BY <1>1 DEF BeganDone, StepFacts, CallSteps, Done
<1>3. CASE Admit(c)
  <2>1. Pc(c) = "session" /\ call[c].reauth = call[c].token
    BY <1>1, <1>3 DEF Admit, ReauthOk, GoesOn
  <2>2. AsNew(call[c].reauth, d)
    BY <1>1, <1>2, <2>1 DEF TokensKnown, IsUnlock, GoesOn
  <2>. QED BY <1>1, <1>2, <2>1, <2>2 DEF AsNew, GoesOn
<1>4. CASE Past(c)
  <2>1. Pc(c) # "consumed"
    BY <1>1 DEF TypedInv, Typed, CallsTyped, GoesOn, NeedsReauth, UserOps
  <2>. QED BY <1>1, <1>2, <1>4, <2>1 DEF SupersededTokenRefused, Past, GoesOn
<1>. QED BY <1>0, <1>3, <1>4 DEF StepFacts, CallSteps

(* A sensitive call that got through carried the newest token of its       *)
(* session (reauth.guard.ts against sessions.reauth_token_hash).           *)
THEOREM SupersededTokensRefused == AccessSpec => []SupersededTokenRefused
<1> DEFINE Inv == TypedInv /\ BeganDone /\ TokensKnown /\ SupersededTokenRefused
<1>1. AccessInit => Inv
  <2> SUFFICES ASSUME AccessInit PROVE BeganDone /\ TokensKnown /\ SupersededTokenRefused
    BY InitTyped
  <2>1. \A c \in Calls : Pc(c) = "idle" /\ began[c] = {}
    BY DEF AccessInit, Init, Pc, Idle
  <2>. QED BY <2>1 DEF BeganDone, TokensKnown, SupersededTokenRefused, IsUnlock, Done
<1>2. Inv /\ [AccessNext]_allVars => Inv'
  BY StepTyped, StepBeganDone, StepTokensKnown, StepSuperseded
<1>. QED BY <1>1, <1>2, PTL DEF AccessSpec

-----------------------------------------------------------------------------
(* Suspended brokers. *)

Stops(c, b) == call[c].op \in {"brokers/suspend", "brokers/delete"} /\ call[c].arg = b
Restarts(d, b) == call[d].op = "brokers/reactivate" /\ call[d].arg = b

(* An active broker was reactivated after whatever stopped it, and so it   *)
(* was when the guard of a signed request read it.                         *)
ActiveKnown ==
  \A b \in BrokerIds : broker[b].status = "active" =>
    \A c \in Calls : Done(c) /\ Stops(c, b) =>
      \E d \in Calls : Done(d) /\ Restarts(d, b) /\ d \notin began[c]

HitsKnown ==
  \A h \in Hits : hit[h].pc # "idle" =>
    /\ \A c \in seen[h] : Done(c)
    /\ \A c \in seen[h] : Stops(c, hit[h].broker) =>
         \E d \in seen[h] : Restarts(d, hit[h].broker) /\ d \notin began[c]

(* A broker is active only if each stop that is over was lifted. *)
LEMMA StepActiveKnown ==
  ASSUME TypedInv, BeganDone, ActiveKnown, [AccessNext]_allVars, StepFacts
  PROVE  ActiveKnown'
<1> SUFFICES ASSUME NEW b \in BrokerIds, broker'[b].status = "active",
                    NEW c \in Calls, Done(c)',
                    call'[c].op \in {"brokers/suspend", "brokers/delete"}, call'[c].arg = b
             PROVE  \E d \in Calls : /\ Done(d)' /\ call'[d].op = "brokers/reactivate"
                                     /\ call'[d].arg = b /\ d \notin began'[c]
  BY DEF ActiveKnown, Stops, Restarts
<1>0. /\ Running(c) /\ Stops(c, b) /\ Exists(b) /\ began'[c] = began[c]
      /\ call[c].op \in StatusOps
  <2>1. Running(c) /\ GoesOn(c) /\ began'[c] = began[c]
    BY DEF StepFacts, CallSteps, Begins, Running, Done, Pc
  <2>2. Stops(c, b) /\ call[c].op \in StatusOps
    BY <2>1 DEF GoesOn, Stops, StatusOps, BrokerOps
  <2>. QED BY <2>1, <2>2 DEF TypedInv, BrokersPlaced, Stops
<1>a. Done(c) => call'[c] = call[c]
  BY DEF StepFacts, CallSteps
<1>1. ASSUME NEW e \in Calls, UpdateBroker(e), call[e].arg = b
      PROVE  /\ Done(e)' /\ call'[e].op = "brokers/reactivate" /\ call'[e].arg = b
             /\ e \notin began'[c]
  <2>1. broker'[b].status = NewStatus(call[e].op)
    BY <1>1 DEF UpdateBroker, TypedInv, BrokersTyped
  <2>2. call[e].op = "brokers/reactivate"
    BY <1>1, <2>1 DEF UpdateBroker, NewStatus, StatusOps, BrokerOps
  <2>3. Done(e)' /\ call'[e].op = call[e].op /\ call'[e].arg = b
    BY <1>1 DEF UpdateBroker, Finish, TypedInv, Typed, RowsTyped, CallRows, Done, Pc
  <2>4. e \notin began[c]
    BY <1>1 DEF UpdateBroker, BeganDone, Done
  <2>. QED BY <1>0, <2>2, <2>3, <2>4
<1>2. CASE broker'[b] = broker[b]
  <2>1. CASE Done(c)
    <3>1. PICK d \in Calls : Done(d) /\ Restarts(d, b) /\ d \notin began[c]
      BY <1>0, <1>2, <2>1 DEF ActiveKnown
    <3>2. call'[d] = call[d] /\ Done(d)'
      BY <3>1 DEF StepFacts, CallSteps, Done, Pc
    <3>. QED BY <1>0, <3>1, <3>2 DEF Restarts
  <2>2. CASE ~Done(c)
    <3>1. UpdateBroker(c)
      BY <1>0, <2>2, EndStep DEF TypedInv
    <3>2. broker'[b].status \in {"suspended", "closed"}
      BY <1>0, <3>1 DEF UpdateBroker, Stops, NewStatus, TypedInv, BrokersTyped
    <3>. QED BY <3>2
  <2>. QED BY <2>1, <2>2
<1>3. ASSUME NEW e \in Calls, InsertBroker(e)
      PROVE  broker'[b] = broker[b]
  <2>1. ~Exists(e)
    BY <1>3 DEF TypedInv, BrokersPlaced, InsertBroker, Done
  <2>. QED BY <1>0, <1>3, <2>1 DEF InsertBroker, TypedInv, BrokersTyped
<1>4. ASSUME NEW e \in Calls, UpdateBroker(e), call[e].arg # b
      PROVE  broker'[b] = broker[b]
  BY <1>4 DEF UpdateBroker, TypedInv, BrokersTyped
<1>. QED BY <1>1, <1>2, <1>3, <1>4, BrokerCases
       DEF ReadBroker, HmacVerify, HmacReject, HmacRead, brokerVars

(* What a signed request's guard knew stays true while it goes on. *)
LEMMA StepHitsKnown ==
  ASSUME TypedInv, ActiveKnown, HitsKnown, [AccessNext]_allVars, StepFacts
  PROVE  HitsKnown'
<1> SUFFICES ASSUME NEW h \in Hits, hit'[h].pc # "idle"
             PROVE  /\ \A c \in seen'[h] : Done(c)'
                    /\ \A c \in seen'[h] : (Stops(c, hit[h].broker))' =>
                         \E d \in seen'[h] : (Restarts(d, hit[h].broker))' /\ d \notin began'[c]
  BY DEF HitsKnown
<1>0. seen[h] \subseteq Calls
  BY DEF TypedInv, BrokersTyped
<1>k. \A c \in Calls : Done(c) => /\ Done(c)' /\ call'[c] = call[c] /\ began'[c] = began[c]
  BY DEF StepFacts, CallSteps, Done, Pc
<1>1. CASE seen'[h] = seen[h] /\ hit'[h].broker = hit[h].broker /\ hit[h].pc # "idle"
  <2>1. \A c \in seen[h] : Done(c)
    BY <1>1 DEF HitsKnown
  <2>2. ASSUME NEW c \in seen[h], Stops(c, hit[h].broker)'
        PROVE  \E d \in seen[h] : (Restarts(d, hit[h].broker))' /\ d \notin began'[c]
    <3>1. Stops(c, hit[h].broker)
      BY <1>0, <1>k, <1>1, <2>1, <2>2 DEF Stops
    <3>2. PICK d \in seen[h] : Restarts(d, hit[h].broker) /\ d \notin began[c]
      BY <1>1, <3>1 DEF HitsKnown
    <3>3. Restarts(d, hit[h].broker)' /\ d \notin began'[c]
      BY <1>0, <1>k, <1>1, <2>1, <3>2 DEF Restarts
    <3>. QED BY <3>3
  <2>. QED BY <1>0, <1>k, <1>1, <2>1, <2>2
<1>2. ASSUME NEW b \in Onboarded, HmacRead(h, b)
      PROVE  /\ \A c \in seen'[h] : Done(c)'
             /\ \A c \in seen'[h] : (Stops(c, hit[h].broker))' =>
                  \E d \in seen'[h] : (Restarts(d, hit[h].broker))' /\ d \notin began'[c]
  <2>1. /\ seen'[h] = {c \in Calls : Done(c)} /\ hit'[h].broker = b /\ b \in BrokerIds
        /\ broker[b].status = "active"
    BY <1>2 DEF HmacRead, Onboarded, TypedInv, BrokersTyped
  <2>2. ASSUME NEW c \in seen'[h], Stops(c, hit[h].broker)'
        PROVE  \E d \in seen'[h] : (Restarts(d, hit[h].broker))' /\ d \notin began'[c]
    <3>1. c \in Calls /\ Done(c) /\ Stops(c, b)
      BY <1>k, <2>1, <2>2 DEF Stops
    <3>2. PICK d \in Calls : Done(d) /\ Restarts(d, b) /\ d \notin began[c]
      BY <2>1, <3>1 DEF ActiveKnown
    <3>3. Restarts(d, hit[h].broker)' /\ d \notin began'[c] /\ d \in seen'[h]
      BY <1>k, <2>1, <3>1, <3>2 DEF Restarts
    <3>. QED BY <3>3
  <2>. QED BY <1>k, <2>1, <2>2
<1>3. \/ seen'[h] = seen[h] /\ hit'[h].broker = hit[h].broker /\ hit[h].pc # "idle"
      \/ \E b \in Onboarded : HmacRead(h, b)
  <2>1. ASSUME NEW g \in Hits, HmacVerify(g) \/ HmacReject(g) \/ \E b \in Onboarded : HmacRead(g, b)
        PROVE  <1>3
    <3>1. CASE g = h
      <4>1. CASE HmacVerify(h)
        BY <4>1 DEF HmacVerify, TypedInv, BrokersTyped
      <4>2. CASE HmacReject(h)
        BY <4>2 DEF HmacReject, NoHit, TypedInv, BrokersTyped
      <4>. QED BY <2>1, <3>1, <4>1, <4>2
    <3>2. CASE g # h
      BY <2>1, <3>2 DEF HmacVerify, HmacReject, HmacRead, TypedInv, BrokersTyped
    <3>. QED BY <3>1, <3>2
  <2>2. CASE UNCHANGED <<hit, seen>>
    BY <2>2
  <2>. QED BY <2>1, <2>2, BrokerCases DEF ReadBroker, UpdateBroker, InsertBroker, brokerVars
<1>. QED BY <1>1, <1>2, <1>3

(* A signed request is accepted only of a broker that was active when the  *)
(* guard read it (hmac.guard.ts joins the key with its broker).            *)
THEOREM SuspendedBrokersRefused == AccessSpec => []SuspendedBrokerRefused
<1> DEFINE Inv == TypedInv /\ BeganDone /\ ActiveKnown /\ HitsKnown
<1>1. AccessInit => Inv
  <2> SUFFICES ASSUME AccessInit PROVE BeganDone /\ ActiveKnown /\ HitsKnown
    BY InitTyped
  <2>1. \A c \in Calls : Pc(c) = "idle" /\ began[c] = {}
    BY DEF AccessInit, Init, Pc, Idle
  <2>2. \A h \in Hits : hit[h].pc = "idle"
    BY DEF AccessInit, BrokerInit, NoHit
  <2>. QED BY <2>1, <2>2 DEF BeganDone, ActiveKnown, HitsKnown, Done
<1>2. Inv /\ [AccessNext]_allVars => Inv'
  BY StepTyped, StepBeganDone, StepActiveKnown, StepHitsKnown
<1>3. Inv => SuspendedBrokerRefused
  BY DEF HitsKnown, SuspendedBrokerRefused, Stops, Restarts
<1>. QED BY <1>1, <1>2, <1>3, PTL DEF AccessSpec

-----------------------------------------------------------------------------
(* The audit rows of the brokers. *)

LastRow(b) == trail[b][Len(trail[b])]

(* Rows are of calls that are over, and what a call has read is what the   *)
(* newest row left, or that row is of a call that overlaps this one.       *)
TrailKnown ==
  /\ \A b \in BrokerIds : \A i \in 1..Len(trail[b]) : Done(trail[b][i].by)
  /\ \A c \in Calls : Pc(c) = "read" /\ call[c].op \in StatusOps =>
       \/ before[c] = broker[call[c].arg].status
       \/ trail[call[c].arg] # <<>> /\ LastRow(call[c].arg).by \notin began[c]

(* An update appends one row to the trail of its broker. *)
LEMMA UpdateRows ==
  ASSUME TypedInv, NEW e \in Calls, UpdateBroker(e), NEW b \in BrokerIds, call[e].arg = b
  PROVE  /\ Len(trail[b]) \in Nat /\ Len(trail'[b]) = Len(trail[b]) + 1
         /\ \A i \in 1..Len(trail[b]) : trail'[b][i] = trail[b][i]
         /\ trail'[b][Len(trail[b]) + 1].by = e
         /\ trail'[b][Len(trail[b]) + 1].before = before[e]
         /\ trail'[b][Len(trail[b]) + 1].after = broker'[b].status
         /\ \A z \in BrokerIds \ {b} : trail'[z] = trail[z] /\ broker'[z] = broker[z]
         /\ UNCHANGED before
<1>1. trail[b] \in Seq(StatusRows)
  BY DEF TypedInv, BrokersTyped
<1>2. PICK row : /\ row.by = e /\ row.before = before[e] /\ row.after = NewStatus(call[e].op)
                 /\ trail' = [trail EXCEPT ![b] = Append(@, row)]
  BY DEF UpdateBroker, AuditRow
<1>3. trail'[b] = Append(trail[b], row)
  BY <1>2 DEF TypedInv, BrokersTyped
<1>4. broker'[b].status = NewStatus(call[e].op)
  BY DEF UpdateBroker, TypedInv, BrokersTyped
<1>5. /\ Len(trail[b]) \in Nat /\ Len(trail'[b]) = Len(trail[b]) + 1
      /\ \A i \in 1..Len(trail[b]) : trail'[b][i] = trail[b][i]
      /\ trail'[b][Len(trail[b]) + 1] = row
  BY <1>1, <1>3
<1>6. /\ \A z \in BrokerIds \ {b} : trail'[z] = trail[z] /\ broker'[z] = broker[z]
      /\ UNCHANGED before
  BY <1>2 DEF UpdateBroker, TypedInv, BrokersTyped
<1>. QED BY <1>2, <1>4, <1>5, <1>6

(* A step keeps the audit rows in line with the broker's status. *)
LEMMA StepTrail ==
  ASSUME TypedInv, BeganDone, TrailKnown, StatusAudited, [AccessNext]_allVars, StepFacts
  PROVE  TrailKnown' /\ StatusAudited'
<1>k. \A c \in Calls : Done(c) => /\ Done(c)' /\ call'[c] = call[c] /\ began'[c] = began[c]
  BY DEF StepFacts, CallSteps, Done, Pc
<1>t. \A b \in BrokerIds : /\ trail[b] \in Seq(StatusRows) /\ Len(trail[b]) \in Nat
                           /\ \A i \in 1..Len(trail[b]) : trail[b][i].by \in Calls
  <2>1. ASSUME NEW b \in BrokerIds
        PROVE  trail[b] \in Seq(StatusRows)
    BY DEF TypedInv, BrokersTyped
  <2>2. ASSUME NEW b \in BrokerIds, NEW i \in 1..Len(trail[b])
        PROVE  trail[b][i].by \in Calls
    <3>1. trail[b][i] \in StatusRows
      BY <2>1
    <3>. QED BY <3>1 DEF StatusRows
  <2>. QED BY <2>1, <2>2
<1>r. ASSUME NEW c \in Calls, Pc(c)' = "read", call'[c].op \in StatusOps, Pc(c) = "read"
      PROVE  /\ call[c].op = call'[c].op /\ call[c].arg = call'[c].arg
             /\ began'[c] = began[c] /\ call[c].arg \in BrokerIds /\ Exists(call[c].arg)
  <2>1. Running(c) /\ GoesOn(c) /\ began'[c] = began[c]
    BY <1>r DEF StepFacts, CallSteps, Begins, Running, Pc
  <2>. QED BY <1>r, <2>1 DEF GoesOn, TypedInv, Typed, CallsTyped, BrokersPlaced
<1>n. ASSUME NEW c \in Calls, Pc(c)' = "read", call'[c].op \in StatusOps, Pc(c) # "read"
      PROVE  /\ ReadBroker(c) /\ call'[c].arg = call[c].arg /\ call[c].arg \in BrokerIds
             /\ before'[c] = broker'[call[c].arg].status
  <2>1. ReadBroker(c) \/ CheckEmail(c)
    BY <1>n, ReadStep DEF TypedInv
  <2>2. Running(c) /\ GoesOn(c)
    BY <1>n, <2>1 DEF StepFacts, CallSteps, Begins, Running, Pc
  <2>3. ReadBroker(c)
    BY <1>n, <2>1, <2>2 DEF GoesOn, CheckEmail, Handles, StatusOps
  <2>4. call[c].arg \in BrokerIds
    BY <2>2, <2>3 DEF ReadBroker, TypedInv, Typed, CallsTyped
  <2>. QED BY <2>2, <2>3, <2>4 DEF GoesOn, ReadBroker, TypedInv, BrokersTyped
<1>1. ASSUME NEW e \in Calls, UpdateBroker(e)
      PROVE  TrailKnown' /\ StatusAudited'
  <2>0. PICK b \in BrokerIds : call[e].arg = b
    BY <1>1 DEF UpdateBroker, TypedInv, Typed, CallsTyped, Running
  <2> DEFINE n == Len(trail[b])
  <2>u. /\ n \in Nat /\ Len(trail'[b]) = n + 1
        /\ \A i \in 1..n : trail'[b][i] = trail[b][i]
        /\ trail'[b][n + 1].by = e
        /\ trail'[b][n + 1].before = before[e]
        /\ trail'[b][n + 1].after = broker'[b].status
        /\ \A z \in BrokerIds \ {b} : trail'[z] = trail[z] /\ broker'[z] = broker[z]
        /\ UNCHANGED before
    BY <1>1, <2>0, UpdateRows
  <2>e. ~Done(e) /\ Done(e)' /\ began'[e] = began[e] /\ Pc(e) = "read" /\ call[e].op \in StatusOps
    BY <1>1 DEF UpdateBroker, Finish, TypedInv, Typed, RowsTyped, CallRows, Done, Pc
  <2>1. ASSUME NEW z \in BrokerIds, NEW i \in 1..Len(trail'[z])
        PROVE  trail'[z][i].by \in Calls /\ call'[trail'[z][i].by].pc = "done"
    <3>1. CASE z = b /\ i = n + 1
      BY <2>u, <2>e, <3>1 DEF Done, Pc
    <3>2. CASE z # b \/ i # n + 1
      <4>1. i \in 1..Len(trail[z]) /\ trail'[z][i] = trail[z][i]
        BY <2>1, <2>u, <3>2
      <4>2. trail[z][i].by \in Calls /\ Done(trail[z][i].by)
        BY <1>t, <4>1 DEF TrailKnown
      <4>. QED BY <1>k, <4>1, <4>2 DEF Done, Pc
    <3>. QED BY <3>1, <3>2
  <2>2. ASSUME NEW c \in Calls, Pc(c)' = "read", call'[c].op \in StatusOps
        PROVE  \/ before'[c] = broker'[call'[c].arg].status
               \/ /\ trail'[call'[c].arg] # <<>>
                  /\ trail'[call'[c].arg][Len(trail'[call'[c].arg])].by \notin began'[c]
    <3>1. Pc(c) = "read"
      BY <1>1, <1>n, <2>2 DEF UpdateBroker, ReadBroker, TypedInv, BrokersTyped, Finish, Typed,
           RowsTyped, CallRows, Pc
    <3>2. /\ call[c].op \in StatusOps /\ call[c].arg = call'[c].arg /\ began'[c] = began[c]
          /\ call[c].arg \in BrokerIds
      BY <1>r, <2>2, <3>1
    <3>3. CASE call[c].arg = b
      <4>1. e \notin began[c]
        BY <2>e DEF BeganDone
      <4>. QED BY <2>u, <3>2, <3>3, <4>1
    <3>4. CASE call[c].arg # b
      <4>1. \/ before[c] = broker[call[c].arg].status
            \/ trail[call[c].arg] # <<>> /\ LastRow(call[c].arg).by \notin began[c]
        BY <3>1, <3>2 DEF TrailKnown
      <4>. QED BY <2>u, <3>2, <3>4, <4>1 DEF LastRow
    <3>. QED BY <3>3, <3>4
  <2>3. TrailKnown'
    BY <2>1, <2>2 DEF TrailKnown, LastRow, Done, Pc
  <2>4. ASSUME NEW z \in BrokerIds
        PROVE  /\ trail'[z] # <<>> => broker'[z].status = trail'[z][Len(trail'[z])].after
               /\ \A i \in 1..(Len(trail'[z]) - 1) :
                    \/ trail'[z][i + 1].before = trail'[z][i].after
                    \/ /\ trail'[z][i].by \notin began'[trail'[z][i + 1].by]
                       /\ trail'[z][i + 1].by \notin began'[trail'[z][i].by]
    <3>1. ASSUME NEW i \in 1..(Len(trail[z]) - 1)
          PROVE  \/ trail[z][i + 1].before = trail[z][i].after
                 \/ /\ trail[z][i].by \notin began'[trail[z][i + 1].by]
                    /\ trail[z][i + 1].by \notin began'[trail[z][i].by]
      <4>1. i \in 1..Len(trail[z]) /\ i + 1 \in 1..Len(trail[z])
        BY <1>t, <3>1
      <4>2. /\ trail[z][i].by \in Calls /\ Done(trail[z][i].by)
            /\ trail[z][i + 1].by \in Calls /\ Done(trail[z][i + 1].by)
        BY <1>t, <4>1 DEF TrailKnown
      <4>3. \/ trail[z][i + 1].before = trail[z][i].after
            \/ Overlap(trail[z][i].by, trail[z][i + 1].by)
        BY <3>1 DEF StatusAudited
      <4>. QED BY <1>k, <4>2, <4>3 DEF Overlap
    <3>2. CASE z # b
      <4>1. trail'[z] = trail[z] /\ broker'[z] = broker[z]
        BY <2>u, <3>2
      <4>2. trail[z] # <<>> => broker[z].status = trail[z][Len(trail[z])].after
        BY DEF StatusAudited
      <4>. QED BY <3>1, <4>1, <4>2
    <3>3. CASE z = b
      <4>1. broker'[b].status = trail'[b][Len(trail'[b])].after
        BY <2>u
      <4>2. ASSUME NEW i \in 1..(Len(trail'[b]) - 1)
            PROVE  \/ trail'[b][i + 1].before = trail'[b][i].after
                   \/ /\ trail'[b][i].by \notin began'[trail'[b][i + 1].by]
                      /\ trail'[b][i + 1].by \notin began'[trail'[b][i].by]
        <5>1. CASE i < n
          <6>1. i \in 1..(Len(trail[z]) - 1) /\ i \in 1..n /\ i + 1 \in 1..n
            BY <2>u, <3>3, <4>2, <5>1
          <6>2. trail'[b][i] = trail[z][i] /\ trail'[b][i + 1] = trail[z][i + 1]
            BY <2>u, <3>3, <6>1
          <6>. QED BY <3>1, <6>1, <6>2
        <5>2. CASE i = n
          <6>1. n \in 1..n /\ trail'[b][n] = trail[b][n] /\ trail[b] # <<>>
            BY <1>t, <2>u, <4>2, <5>2
          <6>2. trail[b][n].by \in Calls /\ Done(trail[b][n].by) /\ broker[b].status = trail[b][n].after
            BY <1>t, <6>1 DEF TrailKnown, StatusAudited
          <6>3. before[e] = broker[b].status \/ trail[b][n].by \notin began[e]
            BY <2>0, <2>e DEF TrailKnown, LastRow
          <6>4. e \notin began[trail[b][n].by]
            BY <2>e, <6>2 DEF BeganDone
          <6>5. began'[trail[b][n].by] = began[trail[b][n].by]
            BY <1>k, <6>2
          <6>. QED BY <2>u, <2>e, <5>2, <6>1, <6>2, <6>3, <6>4, <6>5
        <5>. QED BY <2>u, <4>2, <5>1, <5>2
      <4>. QED BY <3>3, <4>1, <4>2
    <3>. QED BY <3>2, <3>3
  <2>5. StatusAudited'
    BY <2>4 DEF StatusAudited, Overlap
  <2>. QED BY <2>3, <2>5
<1>2. ASSUME UNCHANGED trail,
             \A b \in BrokerIds : Exists(b) => broker'[b] = broker[b],
             \A c \in Calls : Pc(c) = "read" => before'[c] = before[c]
      PROVE  TrailKnown' /\ StatusAudited'
  <2>1. ASSUME NEW z \in BrokerIds, NEW i \in 1..Len(trail[z])
        PROVE  trail[z][i].by \in Calls /\ Done(trail[z][i].by)' /\ Done(trail[z][i].by)
    <3>1. trail[z][i].by \in Calls /\ Done(trail[z][i].by)
      BY <1>t, <2>1 DEF TrailKnown
    <3>. QED BY <1>2, <1>k, <3>1 DEF Done, Pc
  <2>2. ASSUME NEW c \in Calls, Pc(c)' = "read", call'[c].op \in StatusOps
        PROVE  \/ before'[c] = broker'[call'[c].arg].status
               \/ /\ trail[call'[c].arg] # <<>>
                  /\ trail[call'[c].arg][Len(trail[call'[c].arg])].by \notin began'[c]
    <3>1. CASE Pc(c) = "read"
      BY <1>2, <1>r, <2>2, <3>1 DEF TrailKnown, LastRow
    <3>2. CASE Pc(c) # "read"
      BY <1>n, <2>2, <3>2
    <3>. QED BY <3>1, <3>2
  <2>3. TrailKnown'
    BY <1>2, <2>1, <2>2 DEF TrailKnown, LastRow, Done, Pc
  <2>4. ASSUME NEW z \in BrokerIds, NEW i \in 1..(Len(trail[z]) - 1)
        PROVE  \/ trail[z][i + 1].before = trail[z][i].after
               \/ /\ trail[z][i].by \notin began'[trail[z][i + 1].by]
                  /\ trail[z][i + 1].by \notin began'[trail[z][i].by]
    <3>1. i \in 1..Len(trail[z]) /\ i + 1 \in 1..Len(trail[z])
      BY <1>t, <2>4
    <3>. QED BY <1>k, <2>1, <2>4, <3>1 DEF StatusAudited, Overlap
  <2>5. ASSUME NEW z \in BrokerIds, trail[z] # <<>>
        PROVE  broker'[z].status = trail[z][Len(trail[z])].after
    BY <1>2, <2>5 DEF StatusAudited, TypedInv, BrokersPlaced
  <2>6. StatusAudited'
    BY <1>2, <2>4, <2>5 DEF StatusAudited, Overlap
  <2>. QED BY <2>3, <2>6
<1>3. ASSUME NEW e \in Calls, InsertBroker(e)
      PROVE  TrailKnown' /\ StatusAudited'
  <2>1. ~Exists(e)
    BY <1>3 DEF TypedInv, BrokersPlaced, InsertBroker, Done
  <2>2. \A b \in BrokerIds : Exists(b) => broker'[b] = broker[b]
    BY <1>3, <2>1 DEF InsertBroker, TypedInv, BrokersTyped
  <2>. QED BY <1>2, <1>3, <2>2 DEF InsertBroker
<1>4. ASSUME NEW e \in Calls, ReadBroker(e)
      PROVE  TrailKnown' /\ StatusAudited'
  <2>1. \A c \in Calls : Pc(c) = "read" => before'[c] = before[c]
    BY <1>4 DEF ReadBroker, TypedInv, BrokersTyped
  <2>. QED BY <1>2, <1>4, <2>1 DEF ReadBroker
<1>. QED BY <1>1, <1>2, <1>3, <1>4, BrokerCases DEF HmacVerify, HmacReject, HmacRead, brokerVars

(* The status of a broker is the one its newest audit row gave it, and the *)
(* rows follow on each other unless their calls overlapped                 *)
(* (brokers-admin.controller.ts in the transaction of the interceptor).    *)
THEOREM StatusesAudited == AccessSpec => []StatusAudited
<1> DEFINE Inv == TypedInv /\ BeganDone /\ TrailKnown /\ StatusAudited
<1>1. AccessInit => Inv
  <2> SUFFICES ASSUME AccessInit PROVE BeganDone /\ TrailKnown /\ StatusAudited
    BY InitTyped
  <2>1. \A c \in Calls : Pc(c) = "idle" /\ began[c] = {}
    BY DEF AccessInit, Init, Pc, Idle
  <2>2. \A b \in BrokerIds : trail[b] = <<>>
    BY DEF AccessInit, BrokerInit
  <2>. QED BY <2>1, <2>2 DEF BeganDone, TrailKnown, StatusAudited
<1>2. Inv /\ [AccessNext]_allVars => Inv'
  BY StepTyped, StepBeganDone, StepTrail
<1>. QED BY <1>1, <1>2, PTL DEF AccessSpec
-----------------------------------------------------------------------------
(* Two-factor columns. *)

SecretOps == {"2fa/setup", "2fa/verify-setup", "users/reset-2fa"}
CodeOps == {"recovery/use", "2fa/verify-setup", "users/reset-2fa"}

(* The handlers that change the two-factor columns of an admin's row, each *)
(* by what it has read and what it writes.                                 *)
SetsUp(c, a) ==
  /\ Handles(c, "2fa/setup") /\ CallerOf(c) = a /\ ~call[c].row.enrolled
  /\ users'[a] = [users[a] EXCEPT !.secret = c]

Confirms(c, a) ==
  /\ Handles(c, "2fa/verify-setup") /\ CallerOf(c) = a /\ call[c].row.secret = call[c].arg
  /\ users'[a] = [users[a] EXCEPT !.enrolled = TRUE, !.codes = GenerateRecoveryCodes(c)]

Consumes(c, a) ==
  /\ Handles(c, "recovery/use") /\ CallerOf(c) = a
  /\ \E i \in DOMAIN call[c].row.codes :
       /\ call[c].row.codes[i] = call[c].arg
       /\ users'[a] = [users[a] EXCEPT !.codes = RemoveAt(@, i)]

Resets(c, a) ==
  /\ Handles(c, "users/reset-2fa") /\ call[c].arg = a
  /\ users'[a] = [users[a] EXCEPT !.secret = None, !.enrolled = FALSE, !.codes = <<>>]

SameFactors(a) ==
  /\ users'[a].secret = users[a].secret
  /\ users'[a].enrolled = users[a].enrolled
  /\ users'[a].codes = users[a].codes

(* A handler of the two-factor columns either refuses, or changes the row  *)
(* of its admin and no other.                                              *)
LEMMA FactorHandlers ==
  ASSUME TypedInv, NEW c \in Calls, NEW a \in Admins, ~Refuse(c)
  PROVE  /\ BeginTotpSetup(c) => SetsUp(c, a) \/ users'[a] = users[a]
         /\ FinalizeTotpSetup(c) => Confirms(c, a) \/ users'[a] = users[a]
         /\ ConsumeRecoveryCode(c) => Consumes(c, a) \/ (users'[a] = users[a] /\ CallerOf(c) # a)
         /\ Reset2fa(c) => Resets(c, a) \/ users'[a] = users[a]
<1>0. users \in [Admins -> Users]
  BY DEF TypedInv, Typed, RowsTyped
<1>1. ASSUME BeginTotpSetup(c)
      PROVE  SetsUp(c, a) \/ users'[a] = users[a]
  <2>1. /\ Handles(c, "2fa/setup") /\ ~call[c].row.enrolled
        /\ users' = [users EXCEPT ![CallerOf(c)].secret = c]
    BY <1>1 DEF BeginTotpSetup
  <2>2. CallerOf(c) # a => users'[a] = users[a]
    BY <1>0, <2>1
  <2>3. CallerOf(c) = a => users'[a] = [users[a] EXCEPT !.secret = c]
    BY <1>0, <2>1
  <2>. QED BY <2>1, <2>2, <2>3 DEF SetsUp
<1>2. ASSUME FinalizeTotpSetup(c)
      PROVE  Confirms(c, a) \/ users'[a] = users[a]
  <2>1. /\ Handles(c, "2fa/verify-setup") /\ call[c].row.secret = call[c].arg
        /\ users' = [users EXCEPT ![CallerOf(c)].enrolled = TRUE,
                                  ![CallerOf(c)].codes = GenerateRecoveryCodes(c)]
    BY <1>2 DEF FinalizeTotpSetup
  <2>2. CallerOf(c) # a => users'[a] = users[a]
    BY <1>0, <2>1
  <2>3. CallerOf(c) = a =>
          users'[a] = [users[a] EXCEPT !.enrolled = TRUE, !.codes = GenerateRecoveryCodes(c)]
    BY <1>0, <2>1
  <2>. QED BY <2>1, <2>2, <2>3 DEF Confirms
<1>3. ASSUME ConsumeRecoveryCode(c)
      PROVE  Consumes(c, a) \/ (users'[a] = users[a] /\ CallerOf(c) # a)
  <2> DEFINE i == PositionOf(call[c].arg, call[c].row.codes)
  <2>1. /\ Handles(c, "recovery/use")
        /\ call[c].arg \in {call[c].row.codes[j] : j \in DOMAIN call[c].row.codes}
        /\ users' = [users EXCEPT ![CallerOf(c)].codes = RemoveAt(@, i)]
    BY <1>3 DEF ConsumeRecoveryCode
  <2>2. i \in DOMAIN call[c].row.codes /\ call[c].row.codes[i] = call[c].arg
    <3>1. PICK j \in DOMAIN call[c].row.codes : call[c].row.codes[j] = call[c].arg
      BY <2>1
    <3>. QED BY <3>1 DEF PositionOf
  <2> HIDE DEF i
  <2>3. CallerOf(c) # a => users'[a] = users[a]
    BY <1>0, <2>1
  <2>4. CallerOf(c) = a => users'[a] = [users[a] EXCEPT !.codes = RemoveAt(@, i)]
    BY <1>0, <2>1
  <2>. QED BY <2>1, <2>2, <2>3, <2>4 DEF Consumes
<1>4. ASSUME Reset2fa(c)
      PROVE  Resets(c, a) \/ users'[a] = users[a]
  <2>1. /\ Handles(c, "users/reset-2fa")
        /\ users' = [users EXCEPT ![call[c].arg].secret = None, ![call[c].arg].enrolled = FALSE,
                                  ![call[c].arg].codes = <<>>]
    BY <1>4 DEF Reset2fa
  <2>2. call[c].arg # a => users'[a] = users[a]
    BY <1>0, <2>1
  <2>3. call[c].arg = a =>
          users'[a] = [users[a] EXCEPT !.secret = None, !.enrolled = FALSE, !.codes = <<>>]
    BY <1>0, <2>1
  <2>. QED BY <2>1, <2>2, <2>3 DEF Resets
<1>. QED BY <1>1, <1>2, <1>3, <1>4

(* A call does what it came for: it is the only one that moves. *)
Acts(c) ==
  /\ ~Acted(c) /\ Acted(c)' /\ GoesOn(c) /\ began' = began
  /\ \A d \in Calls \ {c} : call'[d] = call[d]

(* The handlers of the two-factor columns act when they do not refuse. *)
LEMMA FactorActs ==
  ASSUME TypedInv, NEW c \in Calls, ~Refuse(c),
         BeginTotpSetup(c) \/ FinalizeTotpSetup(c) \/ ConsumeRecoveryCode(c) \/ Reset2fa(c)
  PROVE  Acts(c)
<1>0. Typed
  BY DEF TypedInv
<1>1. Pc(c) = "admitted"
  BY DEF BeginTotpSetup, FinalizeTotpSetup, ConsumeRecoveryCode, Reset2fa, Handles
<1>2. CASE ConsumeRecoveryCode(c)
  <2>1. call' = [call EXCEPT ![c].pc = "consumed"] /\ began' = began
    BY <1>2 DEF ConsumeRecoveryCode
  <2>. QED BY <1>0, <1>1, <2>1, PcSet DEF Acts, Acted, Pc, Pcs
<1>3. CASE BeginTotpSetup(c) \/ FinalizeTotpSetup(c) \/ Reset2fa(c)
  <2>1. Finish(c) /\ began' = began
    BY <1>3 DEF BeginTotpSetup, FinalizeTotpSetup, Reset2fa
  <2>. QED BY <1>0, <1>1, <2>1, FinishSet DEF Acts, Acted, Pc
<1>. QED BY <1>2, <1>3

(* The two-factor columns of an admin change only by a call that acts. *)
LEMMA FactorSteps ==
  ASSUME TypedInv, [AccessNext]_allVars, NEW a \in Admins
  PROVE  \/ SameFactors(a)
         \/ \E c \in Calls : /\ Acts(c)
                             /\ SetsUp(c, a) \/ Confirms(c, a) \/ Consumes(c, a) \/ Resets(c, a)
<1>0. users \in [Admins -> Users] /\ users[a] \in Users
  BY DEF TypedInv, Typed, RowsTyped
<1>1. ASSUME NEW c \in Calls, ~Refuse(c), CreateUser(c)
      PROVE  SameFactors(a)
  <2>1. users' = [users EXCEPT ![call[c].arg].exists = TRUE]
    BY <1>1 DEF CreateUser
  <2>2. users'[a] = users[a] \/ users'[a] = [users[a] EXCEPT !.exists = TRUE]
    BY <1>0, <2>1
  <2>. QED BY <1>0, <2>2 DEF Users, SameFactors
<1>2. ASSUME NEW c \in Calls, ~Refuse(c), Suspend(c)
      PROVE  SameFactors(a)
  <2>1. users' = [users EXCEPT ![call[c].arg].suspended = TRUE]
    BY <1>2 DEF Suspend
  <2>2. users'[a] = users[a] \/ users'[a] = [users[a] EXCEPT !.suspended = TRUE]
    BY <1>0, <2>1
  <2>. QED BY <1>0, <2>2 DEF Users, SameFactors
<1>3. ASSUME NEW c \in Calls, ~Refuse(c),
             BeginTotpSetup(c) \/ FinalizeTotpSetup(c) \/ ConsumeRecoveryCode(c) \/ Reset2fa(c)
      PROVE  \/ users'[a] = users[a]
             \/ Acts(c) /\ (SetsUp(c, a) \/ Confirms(c, a) \/ Consumes(c, a) \/ Resets(c, a))
  BY <1>3, FactorActs, FactorHandlers
<1>4. users'[a] = users[a] => SameFactors(a)
  BY DEF SameFactors
<1>. QED BY <1>1, <1>2, <1>3, <1>4, UsersCases

(* A call that has consumed its code goes on to mark its session. *)
LEMMA ActedStays ==
  ASSUME TypedInv, [AccessNext]_allVars, StepFacts, NEW d \in Calls, Acted(d)
  PROVE  Acted(d)' /\ GoesOn(d) /\ began'[d] = began[d] /\ Running(d) /\ Running(d)'
<1>0. Running(d) /\ Pc(d) # "idle"
  BY DEF Acted, Running
<1>1. Acted(d)'
  <2>1. CASE call'[d] = call[d]
    BY <2>1 DEF Acted, Pc
  <2>2. CASE call'[d] # call[d]
    <3>1. Pc(d) = "consumed"
      BY <2>2 DEF StepFacts, CallSteps, Acted, Done
    <3>2. Send(d) \/ Guards(d) \/ Handlers(d) \/ BrokerHandlers(d)
      BY <2>2, OwnStep DEF TypedInv
    <3>3. ~Send(d) /\ ~SendBroker(d)
      BY <3>1 DEF Send, SendBroker, ReadSession
    <3>4. ~Guards(d)
      BY <3>1 DEF Guards, RevokeSession, Admit, Deny
    <3>5. ~BrokerHandlers(d)
      BY <3>1, <3>3 DEF BrokerHandlers, ReadBroker, UpdateBroker, CheckEmail, InsertBroker,
                        RollBack, Handles
    <3>6. MarkRecovered(d)
      BY <3>1, <3>2, <3>3, <3>4, <3>5
         DEF Handlers, BeginTotpSetup, FinalizeTotpSetup, VerifyTotp, ConsumeRecoveryCode,
             IssueReauthToken, CreateUser, Suspend, Reset2fa, Handles
    <3>7. Finish(d)
      BY <3>6 DEF MarkRecovered
    <3>. QED BY <3>7, FinishSet DEF TypedInv, Acted, Pc
  <2>. QED BY <2>1, <2>2
<1>2. Running(d)'
  BY <1>1 DEF Acted, Running
<1>3. GoesOn(d)
  BY <1>0, <1>2 DEF StepFacts, CallSteps
<1>4. began'[d] = began[d]
  BY <1>0 DEF StepFacts, CallSteps
<1>. QED BY <1>0, <1>1, <1>2, <1>3, <1>4

(* Who has changed the columns of an admin stays on record. *)
LEMMA ChangersGrow ==
  ASSUME TypedInv, [AccessNext]_allVars, StepFacts, NEW a, NEW ops, NEW d \in Changers(a, ops)
  PROVE  /\ d \in Changers(a, ops)' /\ call'[d].arg = call[d].arg /\ call'[d].op = call[d].op
         /\ began'[d] = began[d]
<1>1. d \in Calls /\ Acted(d)
  BY DEF Changers
<1>2. Acted(d)' /\ GoesOn(d) /\ began'[d] = began[d] /\ Running(d) /\ Running(d)'
  BY <1>1, ActedStays
<1>3. CallerOf(d)' = CallerOf(d)
  BY <1>1, <1>2, CallerKept
<1>4. call'[d].arg = call[d].arg /\ call'[d].op = call[d].op
  BY <1>2 DEF GoesOn
<1>. QED BY <1>1, <1>2, <1>3, <1>4 DEF Changers

(* Calls that overlap keep overlapping, so calls that are apart were. *)
LEMMA ApartBefore ==
  ASSUME TypedInv, [AccessNext]_allVars, StepFacts, NEW a, NEW ops, Apart(Changers(a, ops))'
  PROVE  Apart(Changers(a, ops))
<1> SUFFICES ASSUME NEW c \in Changers(a, ops), NEW d \in Changers(a, ops), c # d
             PROVE  ~Overlap(c, d)
  BY DEF Apart
<1>1. c \in Changers(a, ops)' /\ d \in Changers(a, ops)'
  BY ChangersGrow
<1>2. began'[c] = began[c] /\ began'[d] = began[d]
  BY ChangersGrow
<1>3. ~Overlap(c, d)'
  BY <1>1 DEF Apart
<1>. QED BY <1>2, <1>3 DEF Overlap

(* A call gets to its handler through the guards, and stays what it was    *)
(* until the handler runs.                                                 *)
LEMMA AdmittedStep ==
  ASSUME Typed, [AccessNext]_allVars, NEW d \in Calls, Pc(d)' = "admitted"
  PROVE  call'[d] = call[d] \/ Admit(d)
<1> SUFFICES ASSUME call'[d] # call[d] PROVE Admit(d)
  OBVIOUS
<1>1. Send(d) \/ Guards(d) \/ Handlers(d) \/ BrokerHandlers(d)
  BY OwnStep
<1>a. ~Refuse(d) /\ ~Finish(d) /\ call' # [call EXCEPT ![d] = Refused]
  BY RefuseSet, FinishSet DEF Refuse, Pc
<1>b. call' # [call EXCEPT ![d].pc = "read"] /\ call' # [call EXCEPT ![d].pc = "consumed"]
  BY PcSet DEF Pcs, Pc
<1>c. ASSUME NEW s, NEW op, NEW x, NEW t, ReadSession(d, s, op, x, t) PROVE FALSE
  BY <1>c, ReadSessionSet DEF Pc
<1>2. ~Send(d) /\ ~SendBroker(d)
  BY <1>c DEF Send, SendBroker
<1>3. ~Handlers(d)
  <2>1. ConsumeRecoveryCode(d) => Refuse(d) \/ call' = [call EXCEPT ![d].pc = "consumed"]
    BY DEF ConsumeRecoveryCode
  <2>. QED BY <1>a, <1>b, <2>1
         DEF Handlers, BeginTotpSetup, FinalizeTotpSetup, VerifyTotp, MarkRecovered,
             IssueReauthToken, CreateUser, Suspend, Reset2fa
<1>4. ~BrokerHandlers(d)
  <2>1. ~ReadBroker(d) /\ ~CheckEmail(d)
    BY <1>b DEF ReadBroker, CheckEmail
  <2>2. ~UpdateBroker(d) /\ ~InsertBroker(d) /\ ~RollBack(d)
    BY <1>a DEF UpdateBroker, InsertBroker, RollBack
  <2>. QED BY <1>2, <2>1, <2>2 DEF BrokerHandlers
<1>. QED BY <1>1, <1>2, <1>3, <1>4, <1>a DEF Guards, RevokeSession, Deny

(* A call that changes the columns of an admin is one of its changers. *)
LEMMA ActsChanges ==
  ASSUME TypedInv, StepFacts, NEW e \in Calls, Acts(e), NEW a \in Admins, NEW ops
  PROVE  /\ SetsUp(e, a) /\ "2fa/setup" \in ops => e \in Changers(a, ops)'
         /\ Confirms(e, a) /\ "2fa/verify-setup" \in ops => e \in Changers(a, ops)'
         /\ Consumes(e, a) /\ "recovery/use" \in ops => e \in Changers(a, ops)'
         /\ Resets(e, a) /\ "users/reset-2fa" \in ops => e \in Changers(a, ops)'
<1> SUFFICES ASSUME SetsUp(e, a) \/ Confirms(e, a) \/ Consumes(e, a) \/ Resets(e, a)
             PROVE  /\ SetsUp(e, a) /\ "2fa/setup" \in ops => e \in Changers(a, ops)'
                    /\ Confirms(e, a) /\ "2fa/verify-setup" \in ops => e \in Changers(a, ops)'
                    /\ Consumes(e, a) /\ "recovery/use" \in ops => e \in Changers(a, ops)'
                    /\ Resets(e, a) /\ "users/reset-2fa" \in ops => e \in Changers(a, ops)'
  OBVIOUS
<1>1. Running(e)
  BY DEF SetsUp, Confirms, Consumes, Resets, Handles, Running
<1>2. Running(e)' /\ Acted(e)' /\ call'[e].op = call[e].op /\ call'[e].arg = call[e].arg
  BY DEF Acts, Acted, Running, GoesOn
<1>3. CallerOf(e)' = CallerOf(e)
  BY <1>1, <1>2, CallerKept
<1>4. ASSUME call[e].op \in ops, CallerOf(e) = a, call[e].op # "users/reset-2fa"
      PROVE  e \in Changers(a, ops)'
  BY <1>2, <1>3, <1>4 DEF Changers
<1>5. ASSUME call[e].op \in ops, call[e].arg = a, call[e].op = "users/reset-2fa"
      PROVE  e \in Changers(a, ops)'
  BY <1>2, <1>5 DEF Changers
<1>. QED BY <1>4, <1>5 DEF SetsUp, Confirms, Consumes, Resets, Handles

(* A call that acts on a row which another has changed since it began      *)
(* overlaps that other one.                                                *)
LEMMA ActsInRace ==
  ASSUME TypedInv, BeganDone, [AccessNext]_allVars, StepFacts, NEW a, NEW ops,
         NEW e \in Calls, Acts(e), e \in Changers(a, ops)',
         NEW d \in Changers(a, ops), d \notin began[e]
  PROVE  ~Apart(Changers(a, ops))'
<1>1. d \in Calls /\ Acted(d)
  BY DEF Changers
<1>2. d # e
  BY <1>1 DEF Acts
<1>3. e \notin began[d]
  BY <1>1 DEF BeganDone, Acts, Acted, Done
<1>4. began' = began
  BY DEF Acts
<1>5. Overlap(e, d)'
  BY <1>3, <1>4 DEF Overlap
<1>6. d \in Changers(a, ops)'
  BY ChangersGrow
<1>. QED BY <1>2, <1>5, <1>6 DEF Apart

(* What a handler of admin/auth has read is still so, or another call has  *)
(* changed it in the meantime.                                             *)
SecretRead(c, a) ==
  \/ call[c].row.secret = users[a].secret /\ call[c].row.enrolled = users[a].enrolled
  \/ \E d \in Changers(a, SecretOps) : d \notin began[c]

CodesRead(c, a) ==
  \/ call[c].row.codes = users[a].codes
  \/ \E d \in Changers(a, CodeOps) : d \notin began[c]

FactorsRead ==
  \A c \in Calls : Pc(c) = "admitted" /\ call[c].op \in AuthOps =>
    SecretRead(c, CallerOf(c)) /\ CodesRead(c, CallerOf(c))

(* The columns of a row that each of the handlers leaves alone. *)
LEMMA FactorFields ==
  ASSUME TypedInv, NEW c, NEW a \in Admins
  PROVE  /\ SetsUp(c, a) => /\ users'[a].secret = c /\ users'[a].enrolled = users[a].enrolled
                            /\ users'[a].codes = users[a].codes
         /\ Confirms(c, a) => /\ users'[a].secret = users[a].secret
                              /\ users'[a].codes = GenerateRecoveryCodes(c)
         /\ Consumes(c, a) => /\ users'[a].secret = users[a].secret
                              /\ users'[a].enrolled = users[a].enrolled
         /\ Resets(c, a) => users'[a].enrolled = FALSE /\ users'[a].codes = <<>>
<1>0. users[a] \in Users
  BY DEF TypedInv, Typed, RowsTyped
<1>1. SetsUp(c, a) => /\ users'[a].secret = c /\ users'[a].enrolled = users[a].enrolled
                      /\ users'[a].codes = users[a].codes
  BY <1>0 DEF SetsUp, Users
<1>2. Confirms(c, a) => /\ users'[a].secret = users[a].secret
                        /\ users'[a].codes = GenerateRecoveryCodes(c)
  BY <1>0 DEF Confirms, Users
<1>3. Consumes(c, a) => /\ users'[a].secret = users[a].secret
                        /\ users'[a].enrolled = users[a].enrolled
  <2>1. ASSUME NEW i, users'[a] = [users[a] EXCEPT !.codes = RemoveAt(@, i)]
        PROVE  users'[a].secret = users[a].secret /\ users'[a].enrolled = users[a].enrolled
    BY <1>0, <2>1 DEF Users
  <2>. QED BY <2>1 DEF Consumes
<1>4. Resets(c, a) => users'[a].enrolled = FALSE /\ users'[a].codes = <<>>
  BY <1>0 DEF Resets, Users
<1>. QED BY <1>1, <1>2, <1>3, <1>4

(* A step keeps what the handlers have read in line with what is stored. *)
LEMMA StepFactorsRead ==
  ASSUME TypedInv, BeganDone, FactorsRead, [AccessNext]_allVars, StepFacts
  PROVE  FactorsRead'
<1> SUFFICES ASSUME NEW c \in Calls, Pc(c)' = "admitted", call'[c].op \in AuthOps
             PROVE  SecretRead(c, CallerOf(c))' /\ CodesRead(c, CallerOf(c))'
  BY DEF FactorsRead
<1>1. Running(c)' /\ Past(c)'
  BY DEF Running, Past
<1>2. Running(c)
  BY <1>1 DEF StepFacts, CallSteps, Past, Running, Admit
<1>3. CallerOf(c)' = CallerOf(c) /\ CallerOf(c) \in Admins /\ GoesOn(c)
  BY <1>1, <1>2, CallerKept
<1>4. PICK a \in Admins : a = CallerOf(c)
  BY <1>3
<1>5. began'[c] = began[c]
  BY <1>2 DEF StepFacts, CallSteps, Running
<1>6. SUFFICES SecretRead(c, a)' /\ CodesRead(c, a)'
  BY <1>3, <1>4 DEF SecretRead, CodesRead, Changers
<1>7. CASE Admit(c)
  <2>1. users' = users
    BY <1>7 DEF Admit
  <2>2. call[c].op \in AuthOps /\ Typed
    BY <1>3 DEF TypedInv, GoesOn
  <2>3. call'[c].row = users[a]
    BY <1>4, <1>7, <2>2, AdmitSet
  <2>. QED BY <2>1, <2>3 DEF SecretRead, CodesRead
<1>8. CASE call'[c] = call[c]
  <2>1. SecretRead(c, a) /\ CodesRead(c, a)
    BY <1>4, <1>8 DEF FactorsRead, Pc
  <2>2. \A ops : \A d \in Changers(a, ops) : d \in Changers(a, ops)'
    BY ChangersGrow
  <2>3. ASSUME users'[a].secret = users[a].secret, users'[a].enrolled = users[a].enrolled
        PROVE  SecretRead(c, a)'
    <3>1. CASE call[c].row.secret = users[a].secret /\ call[c].row.enrolled = users[a].enrolled
      BY <1>8, <2>3, <3>1 DEF SecretRead
    <3>2. ASSUME NEW d \in Changers(a, SecretOps), d \notin began[c]
          PROVE  SecretRead(c, a)'
      BY <1>5, <2>2, <3>2 DEF SecretRead
    <3>. QED BY <2>1, <3>1, <3>2 DEF SecretRead
  <2>4. ASSUME users'[a].codes = users[a].codes
        PROVE  CodesRead(c, a)'
    <3>1. CASE call[c].row.codes = users[a].codes
      BY <1>8, <2>4, <3>1 DEF CodesRead
    <3>2. ASSUME NEW d \in Changers(a, CodeOps), d \notin began[c]
          PROVE  CodesRead(c, a)'
      BY <1>5, <2>2, <3>2 DEF CodesRead
    <3>. QED BY <2>1, <3>1, <3>2 DEF CodesRead
  <2>5. ASSUME NEW e \in Calls, Acts(e), NEW ops, e \in Changers(a, ops)'
        PROVE  \E d \in Changers(a, ops)' : d \notin began'[c]
    <3>1. e \notin began[c]
      BY <2>5 DEF BeganDone, Acts, Acted, Done
    <3>. QED BY <1>5, <2>5, <3>1
  <2>6. CASE SameFactors(a)
    BY <2>3, <2>4, <2>6 DEF SameFactors
  <2>7. ASSUME NEW e \in Calls, Acts(e),
               SetsUp(e, a) \/ Confirms(e, a) \/ Consumes(e, a) \/ Resets(e, a)
        PROVE  SecretRead(c, a)' /\ CodesRead(c, a)'
    <3>1. CASE SetsUp(e, a)
      <4>1. e \in Changers(a, SecretOps)'
        BY <2>7, <3>1, ActsChanges DEF SecretOps
      <4>2. SecretRead(c, a)'
        BY <2>5, <2>7, <4>1 DEF SecretRead
      <4>. QED BY <2>4, <3>1, <4>2, FactorFields
    <3>2. CASE Confirms(e, a) \/ Resets(e, a)
      <4>1. e \in Changers(a, SecretOps)' /\ e \in Changers(a, CodeOps)'
        BY <2>7, <3>2, ActsChanges DEF SecretOps, CodeOps
      <4>. QED BY <2>5, <2>7, <4>1 DEF SecretRead, CodesRead
    <3>3. CASE Consumes(e, a)
      <4>1. e \in Changers(a, CodeOps)'
        BY <2>7, <3>3, ActsChanges DEF CodeOps
      <4>2. CodesRead(c, a)'
        BY <2>5, <2>7, <4>1 DEF CodesRead
      <4>. QED BY <2>3, <3>3, <4>2, FactorFields
    <3>. QED BY <2>7, <3>1, <3>2, <3>3
  <2>. QED BY <2>6, <2>7, FactorSteps
<1>. QED BY <1>7, <1>8, AdmittedStep DEF TypedInv

(* At the start a founder who is enrolled has the secret, and the codes,   *)
(* that carry its name.                                                    *)
LEMMA InitFactors ==
  ASSUME AccessInit, NEW a \in Admins
  PROVE  /\ users[a].enrolled => users[a].secret = a
         /\ users[a].codes \in {<<>>, GenerateRecoveryCodes(a)}
<1>1. users[a] \in IF a \in Founders THEN UserStates(a) ELSE {NoUser}
  BY DEF AccessInit, Init
<1>2. ASSUME NEW u \in UserStates(a)
      PROVE  (u.enrolled => u.secret = a) /\ u.codes \in {<<>>, GenerateRecoveryCodes(a)}
  <2>1. CASE u = [NoUser EXCEPT !.exists = TRUE, !.secret = a]
    BY <2>1 DEF NoUser
  <2>2. CASE u = [exists |-> TRUE, suspended |-> FALSE, secret |-> a, enrolled |-> TRUE,
                  codes |-> GenerateRecoveryCodes(a)]
    BY <2>2
  <2>. QED BY <1>2, <2>1, <2>2 DEF UserStates
<1>3. ~NoUser.enrolled /\ NoUser.codes = <<>>
  BY DEF NoUser
<1>. QED BY <1>1, <1>2, <1>3

(* An enrolment whose secret was replaced while its code was checked has   *)
(* overlapped the call that replaced it.                                   *)
LEMMA StepEnrolled ==
  ASSUME TypedInv, BeganDone, FactorsRead, EnrolledWithCheckedSecret, [AccessNext]_allVars,
         StepFacts
  PROVE  EnrolledWithCheckedSecret'
<1> SUFFICES ASSUME NEW a \in Admins, users'[a].enrolled, Apart(Changers(a, SecretOps))'
             PROVE  \/ users'[a].secret = a
                    \/ \E c \in Changers(a, {"2fa/verify-setup"})' : users'[a].secret = call'[c].arg
  BY DEF EnrolledWithCheckedSecret, SecretOps
<1>1. Apart(Changers(a, SecretOps))
  BY ApartBefore
<1>2. ASSUME users[a].enrolled, users'[a].secret = users[a].secret
      PROVE  \/ users'[a].secret = a
             \/ \E c \in Changers(a, {"2fa/verify-setup"})' : users'[a].secret = call'[c].arg
  <2>1. CASE users[a].secret = a
    BY <1>2, <2>1
  <2>2. ASSUME NEW c \in Changers(a, {"2fa/verify-setup"}), users[a].secret = call[c].arg
        PROVE  \E d \in Changers(a, {"2fa/verify-setup"})' : users'[a].secret = call'[d].arg
    <3>1. c \in Changers(a, {"2fa/verify-setup"})' /\ call'[c].arg = call[c].arg
      BY ChangersGrow
    <3>. QED BY <1>2, <2>2, <3>1
  <2>3. users[a].secret \in {a} \cup {call[c].arg : c \in Changers(a, {"2fa/verify-setup"})}
    BY <1>1, <1>2 DEF EnrolledWithCheckedSecret, SecretOps
  <2>. QED BY <2>1, <2>2, <2>3
<1>3. CASE SameFactors(a)
  BY <1>2, <1>3 DEF SameFactors
<1>4. ASSUME NEW e \in Calls, Acts(e), e \in Changers(a, SecretOps)', Pc(e) = "admitted",
             call[e].op \in AuthOps, CallerOf(e) = a
      PROVE  call[e].row.secret = users[a].secret /\ call[e].row.enrolled = users[a].enrolled
  <2>1. SecretRead(e, a)
    BY <1>4 DEF FactorsRead
  <2>2. \A d \in Changers(a, SecretOps) : d \in began[e]
    BY <1>4, ActsInRace
  <2>. QED BY <2>1, <2>2 DEF SecretRead
<1>5. ASSUME NEW e \in Calls, Acts(e), SetsUp(e, a)
      PROVE  FALSE
  <2>1. e \in Changers(a, SecretOps)'
    BY <1>5, ActsChanges DEF SecretOps
  <2>2. /\ Pc(e) = "admitted" /\ call[e].op \in AuthOps /\ CallerOf(e) = a
        /\ ~call[e].row.enrolled
    BY <1>5 DEF SetsUp, Handles, AuthOps
  <2>3. users'[a].enrolled = users[a].enrolled
    BY <1>5, FactorFields
  <2>. QED BY <1>4, <1>5, <2>1, <2>2, <2>3
<1>6. ASSUME NEW e \in Calls, Acts(e), Confirms(e, a)
      PROVE  \E c \in Changers(a, {"2fa/verify-setup"})' : users'[a].secret = call'[c].arg
  <2>1. e \in Changers(a, SecretOps)' /\ e \in Changers(a, {"2fa/verify-setup"})'
    BY <1>6, ActsChanges DEF SecretOps
  <2>2. /\ Pc(e) = "admitted" /\ call[e].op \in AuthOps /\ CallerOf(e) = a
        /\ call[e].row.secret = call[e].arg
    BY <1>6 DEF Confirms, Handles, AuthOps
  <2>3. users'[a].secret = users[a].secret
    BY <1>6, FactorFields
  <2>4. call'[e].arg = call[e].arg
    BY <1>6 DEF Acts, GoesOn
  <2>. QED BY <1>4, <1>6, <2>1, <2>2, <2>3, <2>4
<1>7. ASSUME NEW e \in Calls, Consumes(e, a)
      PROVE  users[a].enrolled /\ users'[a].secret = users[a].secret
  BY <1>7, FactorFields
<1>8. ASSUME NEW e \in Calls, Resets(e, a)
      PROVE  FALSE
  BY <1>8, FactorFields
<1>. QED BY <1>2, <1>3, <1>5, <1>6, <1>7, <1>8, FactorSteps

(* An enrolled admin has the secret whose code confirmed the enrolment,    *)
(* unless set-up, confirmation and reset overlapped (finalizeTotpSetup     *)
(* checks the secret that was read and enrols whatever is stored).         *)
THEOREM EnrolledWithCheckedSecrets == AccessSpec => []EnrolledWithCheckedSecret
<1> DEFINE Inv == TypedInv /\ BeganDone /\ FactorsRead /\ EnrolledWithCheckedSecret
<1>1. AccessInit => Inv
  <2> SUFFICES ASSUME AccessInit PROVE BeganDone /\ FactorsRead /\ EnrolledWithCheckedSecret
    BY InitTyped
  <2>1. \A c \in Calls : Pc(c) = "idle" /\ began[c] = {}
    BY DEF AccessInit, Init, Pc, Idle
  <2>2. \A a \in Admins : users[a].enrolled => users[a].secret = a
    BY InitFactors
  <2>. QED BY <2>1, <2>2 DEF BeganDone, FactorsRead, EnrolledWithCheckedSecret
<1>2. Inv /\ [AccessNext]_allVars => Inv'
  BY StepTyped, StepBeganDone, StepFactorsRead, StepEnrolled
<1>. QED BY <1>1, <1>2, PTL DEF AccessSpec

-----------------------------------------------------------------------------
(* Recovery codes. *)

Distinct(s) == \A i, j \in DOMAIN s : s[i] = s[j] => i = j

Elements(s) == {s[i] : i \in DOMAIN s}

(* The codes of a generation are distinct and carry its name. *)
LEMMA GeneratedCodes ==
  ASSUME NEW o
  PROVE  /\ Distinct(GenerateRecoveryCodes(o))
         /\ Elements(GenerateRecoveryCodes(o)) = {<<o, i>> : i \in 1..CODES}
BY DEF Distinct, Elements, GenerateRecoveryCodes

(* Lengths of what is before and after a position. *)
LEMMA CutLengths ==
  ASSUME NEW n \in Nat, NEW i \in 1..n
  PROVE  /\ (IF 1 <= i - 1 THEN (i - 1) - 1 + 1 ELSE 0) = i - 1
         /\ (IF i + 1 <= n THEN n - (i + 1) + 1 ELSE 0) = n - i
         /\ \A j \in 1..(i - 1) : 1 + j - 1 = j /\ j \in 1..((i - 1) - 1 + 1)
         /\ \A j \in 1..(n - i) : (i + 1) + j - 1 = i + j /\ j \in 1..(n - (i + 1) + 1)
<1>1. i \in Nat /\ 1 <= i /\ i <= n
  OBVIOUS
<1>2. (IF 1 <= i - 1 THEN (i - 1) - 1 + 1 ELSE 0) = i - 1
  BY <1>1
<1>3. (IF i + 1 <= n THEN n - (i + 1) + 1 ELSE 0) = n - i
  BY <1>1
<1>4. \A j \in 1..(i - 1) : 1 + j - 1 = j /\ j \in 1..((i - 1) - 1 + 1)
  BY <1>1
<1>5. ASSUME NEW j \in 1..(n - i)
      PROVE  (i + 1) + j - 1 = i + j /\ j \in 1..(n - (i + 1) + 1)
  <2>1. n - (i + 1) + 1 = n - i
    BY <1>1
  <2>. QED BY <1>1, <2>1
<1>. QED BY <1>2, <1>3, <1>4, <1>5

(* array_remove takes one of distinct codes away and leaves the others. *)
LEMMA RemovedCodes ==
  ASSUME NEW s \in Seq(RecoveryCodes), Distinct(s), NEW i
  PROVE  /\ Distinct(RemoveAt(s, i))
         /\ i \in DOMAIN s => Elements(RemoveAt(s, i)) = Elements(s) \ {s[i]}
<1>1. CASE i \notin DOMAIN s
  BY <1>1 DEF RemoveAt
<1>2. CASE i \in DOMAIN s
  <2> DEFINE t == RemoveAt(s, i)
  <2>0. Len(s) \in Nat /\ i \in 1..Len(s) /\ DOMAIN s = 1..Len(s)
    BY <1>2
  <2>1. t = SubSeq(s, 1, i - 1) \o SubSeq(s, i + 1, Len(s))
    BY <1>2 DEF RemoveAt
  <2> DEFINE l == SubSeq(s, 1, i - 1)
             r == SubSeq(s, i + 1, Len(s))
  <2>a. i - 1 \in Nat /\ i - 1 <= Len(s) /\ i + 1 \in Nat /\ Len(s) - i \in Nat
    BY <2>0
  <2>b. l \in Seq(RecoveryCodes) /\ r \in Seq(RecoveryCodes)
    BY <2>0
  <2>c. Len(l) = i - 1 /\ \A j \in 1..(i - 1) : l[j] = s[j]
    <3>1. \A j \in 1..(i - 1) : s[j] \in RecoveryCodes
      BY <2>0
    <3>2. /\ Len(l) = IF 1 <= i - 1 THEN (i - 1) - 1 + 1 ELSE 0
          /\ \A j \in 1..((i - 1) - 1 + 1) : l[j] = s[1 + j - 1]
      BY <2>a, <3>1, SubSeqProperties
    <3> HIDE DEF l
    <3>3. (IF 1 <= i - 1 THEN (i - 1) - 1 + 1 ELSE 0) = i - 1
      BY <2>0
    <3>4. \A j \in 1..(i - 1) : 1 + j - 1 = j /\ j \in 1..((i - 1) - 1 + 1)
      BY <2>0
    <3>. QED BY <3>2, <3>3, <3>4
  <2>d. Len(r) = Len(s) - i /\ \A j \in 1..(Len(s) - i) : r[j] = s[i + j]
    <3>1. \A j \in (i + 1)..Len(s) : s[j] \in RecoveryCodes
      BY <2>0
    <3>2. /\ Len(r) = IF i + 1 <= Len(s) THEN Len(s) - (i + 1) + 1 ELSE 0
          /\ \A j \in 1..(Len(s) - (i + 1) + 1) : r[j] = s[(i + 1) + j - 1]
      <4>1. i + 1 \in Int /\ Len(s) \in Int
        BY <2>0
      <4> HIDE <2>0
      <4>. QED BY <3>1, <4>1, SubSeqProperties
    <3> HIDE DEF r
    <3>3. (IF i + 1 <= Len(s) THEN Len(s) - (i + 1) + 1 ELSE 0) = Len(s) - i
      BY <2>0, CutLengths
    <3>4. \A j \in 1..(Len(s) - i) : (i + 1) + j - 1 = i + j /\ j \in 1..(Len(s) - (i + 1) + 1)
      BY <2>0, CutLengths
    <3>. QED BY <3>2, <3>3, <3>4
  <2>e. t = l \o r
    BY <2>1
  <2> HIDE DEF t, l, r
  <2>3. /\ t \in Seq(RecoveryCodes) /\ Len(t) = Len(l) + Len(r)
        /\ \A j \in 1..(Len(l) + Len(r)) : t[j] = IF j <= Len(l) THEN l[j] ELSE r[j - Len(l)]
    BY <2>b, <2>e, ConcatProperties
  <2>n. Len(l) + Len(r) = Len(s) - 1
    BY <2>0, <2>c, <2>d
  <2>g. Len(t) = Len(s) - 1 /\ DOMAIN t = 1..(Len(s) - 1)
    BY <2>3, <2>n
  <2>4. \A j \in 1..(Len(s) - 1) : t[j] = IF j < i THEN s[j] ELSE s[j + 1]
    <3> SUFFICES ASSUME NEW j \in 1..(Len(s) - 1)
                 PROVE  t[j] = IF j < i THEN s[j] ELSE s[j + 1]
      OBVIOUS
    <3>0. t[j] = IF j <= i - 1 THEN l[j] ELSE r[j - (i - 1)]
      BY <2>3, <2>c, <2>n
    <3>1. CASE j < i
      <4>1. j \in 1..(i - 1) /\ j <= i - 1
        BY <2>0, <3>1
      <4>. QED BY <2>c, <3>0, <3>1, <4>1
    <3>2. CASE ~(j < i)
      <4>1. j - (i - 1) \in 1..(Len(s) - i) /\ i + (j - (i - 1)) = j + 1 /\ ~(j <= i - 1)
        BY <2>0, <3>2
      <4>. QED BY <2>d, <3>0, <3>2, <4>1
    <3>. QED BY <3>1, <3>2
  <2>5. Distinct(t)
    <3> SUFFICES ASSUME NEW j \in 1..(Len(s) - 1), NEW k \in 1..(Len(s) - 1), t[j] = t[k]
                 PROVE  j = k
      BY <2>g DEF Distinct
    <3> DEFINE at(n) == IF n < i THEN n ELSE n + 1
    <3>1. t[j] = s[at(j)] /\ t[k] = s[at(k)] /\ at(j) \in 1..Len(s) /\ at(k) \in 1..Len(s)
      BY <2>0, <2>4
    <3>2. at(j) = at(k)
      BY <2>0, <3>1 DEF Distinct
    <3>. QED BY <2>0, <3>2
  <2>6. ASSUME NEW j \in 1..(Len(s) - 1)
        PROVE  t[j] \in Elements(s) \ {s[i]}
    <3> DEFINE k == IF j < i THEN j ELSE j + 1
    <3>1. k \in 1..Len(s) /\ k # i /\ t[j] = s[k]
      BY <2>0, <2>4
    <3>. QED BY <2>0, <3>1 DEF Distinct, Elements
  <2>7. ASSUME NEW k \in 1..Len(s), s[k] # s[i]
        PROVE  s[k] \in Elements(t)
    <3> DEFINE j == IF k < i THEN k ELSE k - 1
    <3>1. k # i
      BY <2>7
    <3>2. j \in 1..(Len(s) - 1) /\ t[j] = s[k]
      BY <2>0, <2>4, <3>1
    <3>. QED BY <2>g, <3>2 DEF Elements
  <2>8. Elements(t) = Elements(s) \ {s[i]}
    <3>1. Elements(t) \subseteq Elements(s) \ {s[i]}
      BY <2>g, <2>6 DEF Elements
    <3>2. Elements(s) \ {s[i]} \subseteq Elements(t)
      BY <2>0, <2>7 DEF Elements
    <3>. QED BY <3>1, <3>2
  <2>. QED BY <2>5, <2>8 DEF t
<1>. QED BY <1>1, <1>2

(* Stored codes are distinct, and no code is used before the generation it *)
(* is of was shown.                                                        *)
DistinctCodes == \A a \in Admins : Distinct(users[a].codes)

CodesSent ==
  \A c \in Calls : Running(c) /\ call[c].op = "recovery/use" =>
    call[c].arg[1] \in Admins \cup {d \in Calls : Done(d)}

(* Codes stay distinct. *)
LEMMA StepDistinctCodes ==
  ASSUME TypedInv, DistinctCodes, [AccessNext]_allVars
  PROVE  DistinctCodes'
<1> SUFFICES ASSUME NEW a \in Admins PROVE Distinct(users'[a].codes)
  BY DEF DistinctCodes, Distinct
<1>0. users[a] \in Users /\ users[a].codes \in Seq(RecoveryCodes) /\ Distinct(users[a].codes)
  BY DEF TypedInv, Typed, RowsTyped, Users, DistinctCodes
<1>1. CASE users'[a].codes = users[a].codes
  BY <1>0, <1>1
<1>2. ASSUME NEW e, users'[a].codes = GenerateRecoveryCodes(e)
      PROVE  Distinct(users'[a].codes)
  BY <1>2, GeneratedCodes
<1>3. CASE users'[a].codes = <<>>
  BY <1>3 DEF Distinct
<1>4. ASSUME NEW e, Consumes(e, a)
      PROVE  Distinct(users'[a].codes)
  <2>1. PICK i : users'[a] = [users[a] EXCEPT !.codes = RemoveAt(@, i)]
    BY <1>4 DEF Consumes
  <2>2. users'[a].codes = RemoveAt(users[a].codes, i)
    BY <1>0, <2>1 DEF Users
  <2>. QED BY <1>0, <2>2, RemovedCodes
<1>5. CASE SameFactors(a)
  BY <1>1, <1>5 DEF SameFactors
<1>6. ASSUME NEW e \in Calls, SetsUp(e, a) \/ Confirms(e, a) \/ Consumes(e, a) \/ Resets(e, a)
      PROVE  Distinct(users'[a].codes)
  <2>1. CASE SetsUp(e, a)
    BY <1>1, <2>1, FactorFields
  <2>2. CASE Confirms(e, a)
    BY <1>2, <2>2, FactorFields
  <2>3. CASE Resets(e, a)
    BY <1>3, <2>3, FactorFields
  <2>. QED BY <1>4, <1>6, <2>1, <2>2, <2>3
<1>. QED BY <1>5, <1>6, FactorSteps

(* A code that is sent was shown. *)
LEMMA StepCodesSent ==
  ASSUME TypedInv, CodesSent, StepFacts
  PROVE  CodesSent'
<1> SUFFICES ASSUME NEW c \in Calls, Running(c)', call'[c].op = "recovery/use"
             PROVE  call'[c].arg[1] \in Admins \cup {d \in Calls : Done(d)'}
  BY DEF CodesSent
<1>0. \A d \in Calls : Done(d) => Done(d)'
  BY DEF StepFacts, CallSteps, Done, Pc
<1>1. CASE Running(c) /\ GoesOn(c)
  BY <1>0, <1>1 DEF CodesSent, GoesOn
<1>2. CASE Begins(c)
  BY <1>0, <1>2 DEF Begins
<1>. QED BY <1>1, <1>2 DEF StepFacts, CallSteps

(* A code counts as used from the step that consumes it. *)
LEMMA NewlyUsed ==
  ASSUME TypedInv, [AccessNext]_allVars, StepFacts, NEW a \in Admins,
         NEW d \in Changers(a, {"recovery/use"})', d \notin Changers(a, {"recovery/use"})
  PROVE  Acts(d) /\ Consumes(d, a)
<1>0. d \in Calls /\ Acted(d)' /\ call'[d].op = "recovery/use" /\ CallerOf(d)' = a /\ Typed
  BY DEF Changers, TypedInv
<1>1. Running(d)' /\ ~Begins(d)
  BY <1>0 DEF Acted, Running, Begins, Pc
<1>2. Running(d) /\ GoesOn(d)
  BY <1>0, <1>1 DEF StepFacts, CallSteps
<1>3. CallerOf(d) = a /\ call[d].op = "recovery/use"
  BY <1>0, <1>1, <1>2, CallerKept DEF GoesOn
<1>4. ~Acted(d)
  BY <1>0, <1>3 DEF Changers
<1>5. Send(d) \/ Guards(d) \/ Handlers(d) \/ BrokerHandlers(d)
  BY <1>0, <1>4, OwnStep DEF Acted, Pc
<1>6. ~Refuse(d) /\ call' # [call EXCEPT ![d] = Refused]
  BY <1>0, RefuseSet DEF Refuse, Acted, Pc
<1>7. ASSUME NEW s, NEW op, NEW x, NEW t, ReadSession(d, s, op, x, t) PROVE FALSE
  BY <1>0, <1>7, ReadSessionSet DEF Acted, Pc
<1>8. ~Send(d) /\ ~SendBroker(d)
  BY <1>7 DEF Send, SendBroker
<1>9. ~Guards(d)
  <2>1. ~Admit(d)
    BY <1>0, AdmitSet DEF Acted, Pc
  <2>. QED BY <1>6, <2>1 DEF Guards, RevokeSession, Deny
<1>10. ~BrokerHandlers(d)
  <2>1. call[d].op \notin BrokerOps
    BY <1>3 DEF BrokerOps
  <2>. QED BY <1>8, <2>1 DEF BrokerHandlers, ReadBroker, UpdateBroker, CheckEmail, InsertBroker,
                             RollBack, StatusOps, Handles, BrokerOps
<1>11. ConsumeRecoveryCode(d)
  <2>1. ~MarkRecovered(d)
    BY <1>4 DEF MarkRecovered, Acted
  <2>2. Handlers(d)
    BY <1>5, <1>8, <1>9, <1>10
  <2>. QED BY <1>3, <2>1, <2>2
         DEF Handlers, BeginTotpSetup, FinalizeTotpSetup, VerifyTotp, IssueReauthToken,
             CreateUser, Suspend, Reset2fa, Handles
<1>12. Acts(d)
  BY <1>0, <1>6, <1>11, FactorActs
<1>13. Consumes(d, a)
  BY <1>0, <1>3, <1>6, <1>11, FactorHandlers
<1>. QED BY <1>12, <1>13

(* Used codes are gone and the others of their generation are there. *)
ExactCodes(stored, used) ==
  /\ stored \cap used = {}
  /\ \A x \in stored, i \in 1..CODES : <<x[1], i>> \in stored \cup used

(* Taking one code from the stored to the used ones keeps them exact. *)
LEMMA ExactMove ==
  ASSUME NEW stored, NEW used, ExactCodes(stored, used), NEW y
  PROVE  ExactCodes(stored \ {y}, used \cup {y})
BY DEF ExactCodes

(* Unless calls overlap, the stored codes are those not used. *)
LEMMA StepRecovery ==
  ASSUME TypedInv, BeganDone, FactorsRead, DistinctCodes, CodesSent, RecoveryCodesExact,
         [AccessNext]_allVars, StepFacts
  PROVE  RecoveryCodesExact'
<1> SUFFICES ASSUME NEW a \in Admins, Apart(Changers(a, CodeOps))'
             PROVE  ExactCodes(StoredCodes(a)', UsedCodes(a)')
  BY DEF RecoveryCodesExact, ExactCodes, CodeOps
<1>1. ExactCodes(StoredCodes(a), UsedCodes(a))
  <2>1. Apart(Changers(a, CodeOps))
    BY ApartBefore
  <2>. QED BY <2>1 DEF RecoveryCodesExact, ExactCodes, CodeOps
<1>2. UsedCodes(a) \subseteq UsedCodes(a)'
  <2> SUFFICES ASSUME NEW c \in Changers(a, {"recovery/use"})
               PROVE  call[c].arg \in UsedCodes(a)'
    BY DEF UsedCodes
  <2>1. c \in Changers(a, {"recovery/use"})' /\ call'[c].arg = call[c].arg
    BY ChangersGrow
  <2>. QED BY <2>1 DEF UsedCodes
<1>3. ASSUME NEW x \in UsedCodes(a)', x \notin UsedCodes(a)
      PROVE  \E e \in Calls : Acts(e) /\ Consumes(e, a) /\ x = call[e].arg
  <2>1. PICK d \in Changers(a, {"recovery/use"})' : x = call'[d].arg
    BY <1>3 DEF UsedCodes
  <2>2. d \in Calls
    BY DEF Changers
  <2>3. d \notin Changers(a, {"recovery/use"})
    <3> SUFFICES ASSUME d \in Changers(a, {"recovery/use"}) PROVE FALSE
      OBVIOUS
    <3>1. call'[d].arg = call[d].arg
      BY ChangersGrow
    <3>. QED BY <1>3, <2>1, <3>1 DEF UsedCodes
  <2>4. Acts(d) /\ Consumes(d, a)
    BY <2>3, NewlyUsed
  <2>5. call'[d].arg = call[d].arg
    BY <2>4 DEF Acts, GoesOn
  <2>. QED BY <2>1, <2>2, <2>4, <2>5
<1>4. ASSUME NEW e \in Calls, Acts(e), Consumes(e, a)
      PROVE  ExactCodes(StoredCodes(a)', UsedCodes(a)')
  <2>1. e \in Changers(a, CodeOps)' /\ e \in Changers(a, {"recovery/use"})'
    BY <1>4, ActsChanges DEF CodeOps
  <2>2. Pc(e) = "admitted" /\ call[e].op \in AuthOps /\ CallerOf(e) = a
    BY <1>4 DEF Consumes, Handles, AuthOps
  <2>3. call[e].row.codes = users[a].codes
    <3>1. CodesRead(e, a)
      BY <2>2 DEF FactorsRead
    <3>2. \A d \in Changers(a, CodeOps) : d \in began[e]
      BY <1>4, <2>1, ActsInRace
    <3>. QED BY <3>1, <3>2 DEF CodesRead
  <2>4. PICK i \in DOMAIN users[a].codes :
          /\ users[a].codes[i] = call[e].arg
          /\ users'[a] = [users[a] EXCEPT !.codes = RemoveAt(@, i)]
    BY <1>4, <2>3 DEF Consumes
  <2>5. /\ users[a] \in Users /\ users[a].codes \in Seq(RecoveryCodes)
        /\ Distinct(users[a].codes)
    BY DEF TypedInv, Typed, RowsTyped, Users, DistinctCodes
  <2>6. users'[a].codes = RemoveAt(users[a].codes, i)
    BY <2>4, <2>5 DEF Users
  <2>7. StoredCodes(a)' = StoredCodes(a) \ {call[e].arg}
    <3>1. Elements(RemoveAt(users[a].codes, i)) = Elements(users[a].codes) \ {users[a].codes[i]}
      BY <2>5, RemovedCodes
    <3>. QED BY <2>4, <2>6, <3>1 DEF StoredCodes, Elements
  <2>8. call[e].arg \in UsedCodes(a)'
    <3>1. call'[e].arg = call[e].arg
      BY <1>4 DEF Acts, GoesOn
    <3>. QED BY <2>1, <3>1 DEF UsedCodes
  <2>9. ASSUME NEW f \in Calls, Acts(f)
        PROVE  f = e
    BY <1>4, <2>9 DEF Acts, Acted, Pc
  <2>10. UsedCodes(a)' = UsedCodes(a) \cup {call[e].arg}
    BY <1>2, <1>3, <2>8, <2>9
  <2>11. ExactCodes(StoredCodes(a) \ {call[e].arg}, UsedCodes(a) \cup {call[e].arg})
    BY <1>1, ExactMove
  <2>. QED BY <2>7, <2>10, <2>11
<1>5. CASE ~\E e \in Calls : Acts(e) /\ Consumes(e, a)
  <2>1. UsedCodes(a)' = UsedCodes(a)
    BY <1>2, <1>3, <1>5
  <2>2. CASE users'[a].codes = users[a].codes
    <3>1. StoredCodes(a)' = StoredCodes(a)
      BY <2>2 DEF StoredCodes
    <3>. QED BY <1>1, <2>1, <3>1
  <2>3. CASE users'[a].codes = <<>>
    <3>1. StoredCodes(a)' = {}
      BY <2>3 DEF StoredCodes
    <3>. QED BY <3>1 DEF ExactCodes
  <2>4. ASSUME NEW e \in Calls, Acts(e), Confirms(e, a)
        PROVE  ExactCodes(StoredCodes(a)', UsedCodes(a)')
    <3>1. users'[a].codes = GenerateRecoveryCodes(e)
      BY <2>4, FactorFields
    <3>2. StoredCodes(a)' = {<<e, i>> : i \in 1..CODES}
      BY <3>1, GeneratedCodes DEF StoredCodes, Elements
    <3>3. ASSUME NEW x \in UsedCodes(a)
          PROVE  x[1] # e
      <4>1. PICK c \in Changers(a, {"recovery/use"}) : x = call[c].arg
        BY <3>3 DEF UsedCodes
      <4>2. c \in Calls /\ Running(c) /\ call[c].op = "recovery/use"
        BY DEF Changers, Acted, Running
      <4>3. x[1] \in Admins \cup {d \in Calls : Done(d)}
        BY <4>1, <4>2 DEF CodesSent
      <4>4. e \notin Admins /\ ~Done(e)
        BY <2>4, SessionDistinct DEF Acts, Acted, Done
      <4>. QED BY <4>3, <4>4
    <3>4. StoredCodes(a)' \cap UsedCodes(a)' = {}
      BY <2>1, <3>2, <3>3
    <3>5. \A x \in StoredCodes(a)', i \in 1..CODES : <<x[1], i>> \in StoredCodes(a)'
      BY <3>2
    <3>. QED BY <3>4, <3>5 DEF ExactCodes
  <2>. QED BY <1>5, <2>2, <2>3, <2>4, FactorSteps, FactorFields DEF SameFactors
<1>. QED BY <1>4, <1>5

(* A recovery code is good once, and stays good until it is used, unless   *)
(* calls that change the codes overlapped (consumeRecoveryCode removes by  *)
(* position what it has found by value; ADR 0007 promises single use).     *)
THEOREM RecoveryCodesStayExact == AccessSpec => []RecoveryCodesExact
<1> DEFINE Inv == /\ TypedInv /\ BeganDone /\ FactorsRead /\ DistinctCodes /\ CodesSent
                  /\ RecoveryCodesExact
<1>1. AccessInit => Inv
  <2> SUFFICES ASSUME AccessInit
               PROVE  BeganDone /\ FactorsRead /\ DistinctCodes /\ CodesSent /\ RecoveryCodesExact
    BY InitTyped
  <2>1. \A c \in Calls : Pc(c) = "idle" /\ began[c] = {}
    BY DEF AccessInit, Init, Pc, Idle
  <2>2. \A a \in Admins : users[a].codes \in {<<>>, GenerateRecoveryCodes(a)}
    BY InitFactors
  <2>3. BeganDone /\ FactorsRead /\ CodesSent
    BY <2>1 DEF BeganDone, FactorsRead, CodesSent, Running
  <2>4. Distinct(<<>>)
    BY DEF Distinct
  <2>5. DistinctCodes
    BY <2>2, <2>4, GeneratedCodes DEF DistinctCodes
  <2>6. ASSUME NEW a \in Admins
        PROVE  ExactCodes(StoredCodes(a), UsedCodes(a))
    <3>1. UsedCodes(a) = {}
      BY <2>1 DEF UsedCodes, Changers, Acted
    <3>2. StoredCodes(a) = {} \/ StoredCodes(a) = {<<a, i>> : i \in 1..CODES}
      BY <2>2, GeneratedCodes DEF StoredCodes, Elements
    <3>. QED BY <3>1, <3>2 DEF ExactCodes
  <2>7. RecoveryCodesExact
    BY <2>6 DEF RecoveryCodesExact, ExactCodes
  <2>. QED BY <2>3, <2>5, <2>7
<1>2. Inv /\ [AccessNext]_allVars => Inv'
  BY StepTyped, StepBeganDone, StepFactorsRead, StepDistinctCodes, StepCodesSent, StepRecovery
<1>. QED BY <1>1, <1>2, PTL DEF AccessSpec

=============================================================================
