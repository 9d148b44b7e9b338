---------------------------- MODULE BrokerAccess ----------------------------
(***************************************************************************)
(* The life of a broker in the admin API, behind the guards of             *)
(* AdminSession, and what it means for the requests that brokers sign with *)
(* their API key.  A broker is named after the call that created it; its   *)
(* login, password and API key are shown once, in the answer of that call. *)
(***************************************************************************)
EXTENDS AdminSession

CONSTANTS
  OldBrokers,  \* brokers onboarded before, each with an email of its own name
  NewEmails,   \* emails an admin may onboard a broker with
  Hits         \* signed requests of the brokers

ASSUME BrokerAssumption ==
  /\ OldBrokers \cap Calls = {}
  /\ None \notin OldBrokers \cup NewEmails

VARIABLES
  broker,  \* auth.brokers with the email of its dashboard user
  trail,   \* the committed audit rows of each broker's status, in order
  before,  \* the status a call has read in its transaction
  hit,     \* the signed requests
  seen     \* the calls that were done when a request's guard read its broker

brokerVars == <<broker, trail, before, hit, seen>>
allVars == <<vars, brokerVars>>

-----------------------------------------------------------------------------
BrokerIds == OldBrokers \cup Calls
Emails == OldBrokers \cup NewEmails
Statuses == {"active", "suspended", "closed"}
NoBroker == [status |-> "none", email |-> None]

Exists(b) == broker[b].status # "none"

AuditRow(c, from, to) == [by |-> c, before |-> from, after |-> to]

NoHit == [pc |-> "idle", broker |-> None]

(* Brokers whose credentials have reached the admin who onboarded them. *)
Onboarded == {b \in BrokerIds : Exists(b) /\ b \notin lost}

BrokerInit ==
  /\ broker = [b \in BrokerIds |-> IF b \in OldBrokers
                                   THEN [status |-> "active", email |-> b] ELSE NoBroker]
  /\ trail = [b \in BrokerIds |-> <<>>]
  /\ before = [c \in Calls |-> "none"]
  /\ hit = [h \in Hits |-> NoHit]
  /\ seen = [h \in Hits |-> {}]

-----------------------------------------------------------------------------
(* Handlers of admin/brokers, in the transaction of the audit interceptor. *)

StatusOps == BrokerOps \ {"brokers/create"}

NewStatus(op) ==
  CASE op = "brokers/delete" -> "closed"
    [] op = "brokers/suspend" -> "suspended"
    [] op = "brokers/reactivate" -> "active"

(* The roster of an admin's page may be old, so a broker of any status. *)
BrokerArgs(op) ==
  IF op = "brokers/create" THEN Emails ELSE {b \in BrokerIds : Exists(b)}

SendBroker(c) ==
  \E s \in SessionIds, op \in BrokerOps :
    \E x \in BrokerArgs(op), t \in TokensOf(sessions[s].user, op) :
      /\ ReadSession(c, s, op, x, t)
      /\ UNCHANGED brokerVars

(* The transaction reads the row of the broker ... *)
MutReadBroker(c) ==
  /\ Pc(c) = "admitted" /\ call[c].op \in StatusOps
  /\ Exists(call[c].arg)
  /\ call' = [call EXCEPT ![c].pc = "read"]
  /\ UNCHANGED <<users, sessions, began, lost, brokerVars>>

ReadBroker(c) ==
  /\ Pc(c) = "admitted" /\ call[c].op \in StatusOps
  /\ Exists(call[c].arg)
  /\ before' = [before EXCEPT ![c] = broker[call[c].arg].status]
  /\ call' = [call EXCEPT ![c].pc = "read"]
  /\ UNCHANGED <<users, sessions, began, lost, broker, trail, hit, seen>>

(* ... and updates it by its id, whatever it has become: the row lock      *)
(* makes the UPDATE wait for another transaction, not repeat the SELECT.   *)
MutUpdateBroker(c) ==
  LET b == call[c].arg IN
  /\ Pc(c) = "read" /\ call[c].op \in StatusOps
  /\ broker' = [broker EXCEPT ![b].status = NewStatus(call[c].op)]
  /\ trail' = IF before[c] = NewStatus(call[c].op) THEN trail
              ELSE [trail EXCEPT ![b] = Append(@, AuditRow(c, before[c], NewStatus(call[c].op)))]
  /\ Finish(c)
  /\ UNCHANGED <<users, sessions, began, before, hit, seen>>

UpdateBroker(c) ==
  LET b == call[c].arg IN
  /\ Pc(c) = "read" /\ call[c].op \in StatusOps
  /\ broker' = [broker EXCEPT ![b].status = NewStatus(call[c].op)]
  /\ trail' = [trail EXCEPT ![b] = Append(@, AuditRow(c, before[c], NewStatus(call[c].op)))]
  /\ Finish(c)
  /\ UNCHANGED <<users, sessions, began, before, hit, seen>>

EmailTaken(e) == \E b \in BrokerIds : broker[b].email = e

(* create looks the email up, ... *)
CheckEmail(c) ==
  /\ Handles(c, "brokers/create")
  /\ ~EmailTaken(call[c].arg)
  /\ call' = [call EXCEPT ![c].pc = "read"]
  /\ UNCHANGED <<users, sessions, began, lost, brokerVars>>

(* ... hashes the secrets, and inserts the broker, its key, its user and   *)
(* its wallet; the unique index on users.email has the last word.          *)
InsertBroker(c) ==
  /\ Pc(c) = "read" /\ call[c].op = "brokers/create"
  /\ ~EmailTaken(call[c].arg)
  /\ broker' = [broker EXCEPT ![c] = [status |-> "active", email |-> call[c].arg]]
  /\ Finish(c)
  /\ UNCHANGED <<users, sessions, began, trail, before, hit, seen>>

(* A body or an email that is refused, a statement that fails: the         *)
(* transaction is rolled back.                                             *)
RollBack(c) ==
  /\ Pc(c) \in {"admitted", "read"} /\ call[c].op \in BrokerOps
  /\ Refuse(c)
  /\ UNCHANGED brokerVars

-----------------------------------------------------------------------------
(* HmacGuard. *)

(* The key and its broker are read in one query; the broker must be active. *)
MutHmacRead(h, b) ==
  /\ hit[h].pc = "idle"
  /\ broker[b].status # "closed"
  /\ hit' = [hit EXCEPT ![h] = [pc |-> "read", broker |-> b]]
  /\ seen' = [seen EXCEPT ![h] = {c \in Calls : Done(c)}]
  /\ UNCHANGED <<vars, broker, trail, before>>

HmacRead(h, b) ==
  /\ hit[h].pc = "idle"
  /\ broker[b].status = "active"
  /\ hit' = [hit EXCEPT ![h] = [pc |-> "read", broker |-> b]]
  /\ seen' = [seen EXCEPT ![h] = {c \in Calls : Done(c)}]
  /\ UNCHANGED <<vars, broker, trail, before>>

(* Then the secret, the timestamp's window and the signature are verified. *)
HmacVerify(h) ==
  /\ hit[h].pc = "read"
  /\ hit' = [hit EXCEPT ![h].pc = "accepted"]
  /\ UNCHANGED <<vars, broker, trail, before, seen>>

(* makeRejection.  A request that is rejected leaves nothing behind, and   *)
(* one that is rejected before the query has not even been seen here.      *)
HmacReject(h) ==
  /\ hit[h].pc = "read"
  /\ hit' = [hit EXCEPT ![h] = NoHit]
  /\ seen' = [seen EXCEPT ![h] = {}]
  /\ UNCHANGED <<vars, broker, trail, before>>

-----------------------------------------------------------------------------
BrokerHandlers(c) ==
  SendBroker(c) \/ ReadBroker(c) \/ UpdateBroker(c) \/ CheckEmail(c) \/ InsertBroker(c)
  \/ RollBack(c)

AccessInit == Init /\ BrokerInit

AccessNext ==
  \/ Next /\ UNCHANGED brokerVars
  \/ \E c \in Calls : BrokerHandlers(c)
  \/ \E h \in Hits : HmacVerify(h) \/ HmacReject(h) \/ \E b \in Onboarded : HmacRead(h, b)

AccessSpec == AccessInit /\ [][AccessNext]_allVars

-----------------------------------------------------------------------------
(* Properties. *)

(* The rows of brokers and their audit rows hold statuses the code knows,  *)
(* the status a call has read included.                                    *)
AccessTypeOK ==
  /\ TypeOK
  /\ broker \in [BrokerIds -> [status : Statuses \cup {"none"}, email : Emails \cup {None}]]
  /\ trail \in [BrokerIds -> Seq([by : Calls, before : Statuses, after : Statuses])]
  /\ before \in [Calls -> Statuses \cup {"none"}]
  /\ hit \in [Hits -> [pc : {"idle", "read", "accepted"}, broker : BrokerIds \cup {None}]]
  /\ seen \in [Hits -> SUBSET Calls]

(* The status of a broker is what its newest audit row says, and each row  *)
(* begins where the row before it ended, unless the two calls ran side by  *)
(* side (brokers-admin.controller.ts: before is read without a lock).      *)
StatusAudited ==
  \A b \in BrokerIds :
    LET rows == trail[b] IN
    /\ rows # <<>> => broker[b].status = rows[Len(rows)].after
    /\ \A i \in 1..(Len(rows) - 1) :
         rows[i + 1].before = rows[i].after \/ Overlap(rows[i].by, rows[i + 1].by)

(* A signed request is accepted only of a broker that was active when the  *)
(* guard read it: if a suspension or deletion was over by then, so was a   *)
(* reactivation that had not ended before it began (hmac.guard.ts).        *)
SuspendedBrokerRefused ==
  \A h \in Hits, c \in Calls :
    /\ hit[h].pc = "accepted"
    /\ c \in seen[h] /\ call[c].op \in {"brokers/suspend", "brokers/delete"}
    /\ call[c].arg = hit[h].broker
    => \E d \in seen[h] : /\ call[d].op = "brokers/reactivate"
                          /\ call[d].arg = hit[h].broker
                          /\ d \notin began[c]
=============================================================================
