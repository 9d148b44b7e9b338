--------------------------- MODULE ApprovalQueue ----------------------------
(***************************************************************************)
(* The 4-eyes queue for wallet adjustments: an admin requests one, another *)
(* approves or rejects it, and the approval watcher of the workers carries *)
(* out what is approved and expires what is stale.  Every UPDATE of a row  *)
(* of admin.pending_actions locks it until its transaction ends and then   *)
(* tests its condition again (READ COMMITTED).                             *)
(*                                                                         *)
(* A runner is one pollOnce in flight: the timer starts a new one every    *)
(* 30 s without waiting for the last, and worker processes may run side by *)
(* side.  A call is one POST .../approve or .../reject.  In the code as it *)
(* is PipeRefuses = {TRUE} and approved rows come from SQL only; with      *)
(* {TRUE, FALSE} decisions may get through, and the rest is checked.       *)
(***************************************************************************)
EXTENDS Naturals, FiniteSets

CONSTANTS
  Actions,      \* requested wallet adjustments
  Amount,       \* the amount of each
  Threshold,    \* ADMIN_4EYES_THRESHOLD_PAISE
  RequestedBy,  \* ctx.user of each request
  Poisoned,     \* adjustments whose dispatch throws (an unknown broker)
  Admins,
  Calls,        \* decisions of admins
  Runners,      \* polls in flight at the same time
  BatchLimit,   \* LIMIT 25 of pollOnce
  PipeRefuses,  \* may the validation pipe refuse a decision?  {TRUE}: always
  MaxFaults,    \* bound: crashes and errors of the watcher in a behaviour
  NoAdmin, NoAction, Nobody

ASSUME ApprovalAssumption ==
  /\ Amount \in [Actions -> Nat \ {0}]
  /\ Threshold \in Nat
  /\ RequestedBy \in [Actions -> Admins]
  /\ Poisoned \subseteq Actions
  /\ BatchLimit \in Nat \ {0}
  /\ PipeRefuses \subseteq BOOLEAN
  /\ MaxFaults \in Nat

ASSUME ApprovalDistinct ==
  /\ NoAdmin \notin Admins
  /\ NoAction \notin Actions
  /\ Nobody \notin Calls \cup Runners
  /\ Calls \cap Runners = {}

VARIABLES
  status,    \* admin.pending_actions.status ("none": no row, "direct": small)
  approver,  \* approved_by
  stale,     \* actions requested more than 24 hours ago
  approvedAt,\* approved_at (0: not approved), as a count of approvals
  clock,     \* how many approvals there were
  moved,     \* how many ledger pairs are committed for each action
  audits,    \* committed audit rows
  lock,      \* the transaction that has updated the row of each action
  pc,        \* where the handler of each call is
  target,    \* the action the call decides
  decider,   \* the admin who makes the call
  verdict,   \* what the call decides
  batch,     \* what each runner still has to do of its SELECT
  faults     \* how many crashes and errors of the watcher there were

queueVars == <<status, approver, stale, approvedAt, clock>>
bookVars == <<moved, audits>>
callVars == <<pc, target, decider, verdict>>
vars == <<queueVars, bookVars, lock, callVars, batch, faults>>

MutAuditRow(what, a, who) == [what |-> what, action |-> a, who |-> NoAdmin]

AuditRow(what, a, who) == [what |-> what, action |-> a, who |-> who]

Init ==
  /\ status = [a \in Actions |-> "none"]
  /\ approver = [a \in Actions |-> NoAdmin]
  /\ stale = {}
  /\ approvedAt = [a \in Actions |-> 0]
  /\ clock = 0
  /\ moved = [a \in Actions |-> 0]
  /\ audits = {}
  /\ lock = [a \in Actions |-> Nobody]
  /\ pc = [c \in Calls |-> "idle"]
  /\ target = [c \in Calls |-> NoAction]
  /\ decider = [c \in Calls |-> NoAdmin]
  /\ verdict = [c \in Calls |-> "none"]
  /\ batch = [n \in Runners |-> {}]
  /\ faults = 0

Fault ==
  /\ faults < MaxFaults
  /\ faults' = faults + 1

-----------------------------------------------------------------------------
(* InterventionsController.walletAdjust, in the transaction of the audit   *)
(* interceptor: over the threshold it is queued, else executeWalletAdjust  *)
(* posts the pair at once.  Amounts of zero are refused, so there are none.*)
OverThreshold(a) == Amount[a] > Threshold

WalletAdjust(a) ==
  /\ status[a] = "none"
  /\ \/ /\ OverThreshold(a)
        /\ status' = [status EXCEPT ![a] = "pending"]
        /\ UNCHANGED moved
     \/ /\ ~OverThreshold(a)
        /\ status' = [status EXCEPT ![a] = "direct"]
        /\ moved' = [moved EXCEPT ![a] = 1]
  /\ audits' = audits \cup {AuditRow("wallet.adjust", a, RequestedBy[a])}
  /\ UNCHANGED <<approver, stale, approvedAt, clock, lock, callVars, batch, faults>>

(* 24 hours pass. *)
GrowStale(a) ==
  /\ status[a] = "pending"
  /\ a \notin stale
  /\ stale' = stale \cup {a}
  /\ UNCHANGED <<status, approver, approvedAt, clock, bookVars, lock, callVars, batch,
                 faults>>

-----------------------------------------------------------------------------
(* ApprovalsController.approve and reject. *)

(* @UsePipes runs the body's schema on @Param('actionId') as well, which   *)
(* answers 400 before the handler is reached; a handler that is reached    *)
(* reads the row (findById, outside the transaction) and refuses the       *)
(* requester's own decision.                                               *)
ReadAction(c) ==
  /\ pc[c] = "idle"
  /\ \E a \in Actions, d \in Admins, v \in {"approve", "reject"} :
       /\ status[a] \notin {"none", "direct"}
       /\ target' = [target EXCEPT ![c] = a]
       /\ decider' = [decider EXCEPT ![c] = d]
       /\ verdict' = [verdict EXCEPT ![c] = v]
       /\ \/ /\ TRUE \in PipeRefuses
             /\ pc' = [pc EXCEPT ![c] = "invalid"]
          \/ /\ FALSE \in PipeRefuses
             /\ d = RequestedBy[a]
             /\ pc' = [pc EXCEPT ![c] = "forbidden"]
          \/ /\ FALSE \in PipeRefuses
             /\ d # RequestedBy[a]
             /\ pc' = [pc EXCEPT ![c] = "read"]
  /\ UNCHANGED <<queueVars, bookVars, lock, batch, faults>>

(* UPDATE ... WHERE status = 'pending' AND requested_by <> approver: it    *)
(* waits for whoever has the row and then finds it pending or not (409).   *)
MutUpdateAction(c) ==
  LET a == target[c] IN
  /\ pc[c] = "read"
  /\ lock[a] = Nobody
  /\ lock' = [lock EXCEPT ![a] = c]
  /\ pc' = [pc EXCEPT ![c] = "updated"]
  /\ UNCHANGED <<queueVars, bookVars, target, decider, verdict, batch, faults>>

UpdateAction(c) ==
  LET a == target[c] IN
  /\ pc[c] = "read"
  /\ lock[a] = Nobody
  /\ \/ /\ status[a] = "pending"
        /\ lock' = [lock EXCEPT ![a] = c]
        /\ pc' = [pc EXCEPT ![c] = "updated"]
     \/ /\ status[a] # "pending"
        /\ pc' = [pc EXCEPT ![c] = "conflict"]
        /\ UNCHANGED lock
  /\ UNCHANGED <<queueVars, bookVars, target, decider, verdict, batch, faults>>

(* The interceptor adds the audit row and commits. *)
CommitDecision(c) ==
  LET a == target[c] IN
  /\ pc[c] = "updated"
  /\ pc' = [pc EXCEPT ![c] = "committed"]
  /\ lock' = [lock EXCEPT ![a] = Nobody]
  /\ \/ /\ verdict[c] = "approve"
        /\ status' = [status EXCEPT ![a] = "approved"]
        /\ approver' = [approver EXCEPT ![a] = decider[c]]
        /\ clock' = clock + 1
        /\ approvedAt' = [approvedAt EXCEPT ![a] = clock + 1]
        /\ audits' = audits \cup {AuditRow("approval.approve", a, decider[c])}
     \/ /\ verdict[c] = "reject"
        /\ status' = [status EXCEPT ![a] = "rejected"]
        /\ audits' = audits \cup {AuditRow("approval.reject", a, decider[c])}
        /\ UNCHANGED <<approver, approvedAt, clock>>
  /\ UNCHANGED <<stale, moved, target, decider, verdict, batch, faults>>

(* A statement fails or the API dies: everything is rolled back. *)
FailDecision(c) ==
  /\ pc[c] \in {"read", "updated"}
  /\ pc' = [pc EXCEPT ![c] = "failed"]
  /\ lock' = [a \in Actions |-> IF lock[a] = c THEN Nobody ELSE lock[a]]
  /\ UNCHANGED <<queueVars, bookVars, target, decider, verdict, batch, faults>>

-----------------------------------------------------------------------------
(* ApprovalWatcher. *)

(* expireStale is one UPDATE of all stale pending rows; it waits for those *)
(* that a decision has locked.                                             *)
ExpireStale ==
  LET due == {a \in stale : status[a] = "pending"} IN
  /\ due # {}
  /\ \A a \in due : lock[a] = Nobody
  /\ status' = [a \in Actions |-> IF a \in due THEN "expired" ELSE status[a]]
  /\ UNCHANGED <<approver, stale, approvedAt, clock, bookVars, lock, callVars, batch,
                 faults>>

Approved == {a \in Actions : status[a] = "approved"}

Before(a, S) == {b \in S : approvedAt[b] < approvedAt[a]}

(* SELECT ... WHERE status = 'approved' ORDER BY approved_at LIMIT 25 *)
PollOnce(n) ==
  /\ batch[n] = {}
  /\ Approved # {}
  /\ batch' = [batch EXCEPT ![n] =
       {a \in Approved : Cardinality(Before(a, Approved)) < BatchLimit}]
  /\ UNCHANGED <<queueVars, bookVars, lock, callVars, faults>>

(* The row whose turn it is in the loop over the batch. *)
InHand(n, a) == a \in batch[n] /\ Before(a, batch[n]) = {}

(* executeOne claims the row by an UPDATE that asks for 'approved' again;  *)
(* a row that a peer has executed is skipped.                              *)
MutClaim(n, a) ==
  /\ InHand(n, a)
  /\ lock[a] = Nobody
  /\ lock' = [lock EXCEPT ![a] = n]
  /\ UNCHANGED <<queueVars, bookVars, callVars, batch, faults>>

Claim(n, a) ==
  /\ InHand(n, a)
  /\ lock[a] = Nobody
  /\ \/ /\ status[a] = "approved"
        /\ lock' = [lock EXCEPT ![a] = n]
        /\ UNCHANGED batch
     \/ /\ status[a] # "approved"
        /\ batch' = [batch EXCEPT ![n] = @ \ {a}]
        /\ UNCHANGED lock
  /\ UNCHANGED <<queueVars, bookVars, callVars, faults>>

(* The transaction of the claimed row is over; the loop goes on. *)
NextRow(n, a) ==
  /\ lock[a] = n
  /\ lock' = [lock EXCEPT ![a] = Nobody]
  /\ batch' = [batch EXCEPT ![n] = @ \ {a}]

(* dispatch posts the pair; the claim, the pair and the audit row commit   *)
(* together.                                                               *)
Carry(n, a) ==
  /\ NextRow(n, a)
  /\ a \notin Poisoned
  /\ status' = [status EXCEPT ![a] = "executed"]
  /\ moved' = [moved EXCEPT ![a] = @ + 1]
  /\ UNCHANGED <<approver, stale, approvedAt, clock, callVars>>

Executed(a) == AuditRow("pending.execute", a, "success")

Failed(a) == AuditRow("pending.execute", a, "failure")

MutExecute(n, a) ==
  /\ Carry(n, a)
  /\ audits' \in {audits, audits \cup {Executed(a)}}
  /\ UNCHANGED faults

Execute(n, a) ==
  /\ Carry(n, a)
  /\ audits' = audits \cup {Executed(a)}
  /\ UNCHANGED faults

(* The answer to the COMMIT is lost: the watcher takes it for a failure    *)
(* and says so in the audit log, if it can.                                *)
ExecuteUnanswered(n, a) ==
  /\ Fault
  /\ Carry(n, a)
  /\ audits' \in {audits \cup {Executed(a)}, audits \cup {Executed(a), Failed(a)}}

(* dispatch throws: ROLLBACK puts the row back to approved, and a failure  *)
(* row is written outside the transaction, if that works.                  *)
MutRollBack(n, a) ==
  /\ lock[a] = n
  /\ lock' = [lock EXCEPT ![a] = Nobody]
  /\ audits' \in {audits, audits \cup {Failed(a)}}
  /\ UNCHANGED <<queueVars, moved, callVars, batch>>

RollBack(n, a) ==
  /\ NextRow(n, a)
  /\ audits' \in {audits, audits \cup {Failed(a)}}
  /\ UNCHANGED <<queueVars, moved, callVars>>

ThrowPoisoned(n, a) ==
  /\ a \in Poisoned
  /\ RollBack(n, a)
  /\ UNCHANGED faults

ThrowFault(n, a) ==
  /\ Fault
  /\ RollBack(n, a)

(* The worker dies; its transaction is rolled back and its timer is there  *)
(* again after the restart.                                                *)
Die(n) ==
  /\ Fault
  /\ batch[n] # {}
  /\ batch' = [batch EXCEPT ![n] = {}]
  /\ lock' = [a \in Actions |-> IF lock[a] = n THEN Nobody ELSE lock[a]]
  /\ UNCHANGED <<queueVars, bookVars, callVars>>

-----------------------------------------------------------------------------
Run(n) ==
  \/ PollOnce(n)
  \/ \E a \in Actions : Claim(n, a) \/ Execute(n, a) \/ ThrowPoisoned(n, a)

Next ==
  \/ \E a \in Actions : WalletAdjust(a) \/ GrowStale(a)
  \/ \E c \in Calls : \/ ReadAction(c) \/ UpdateAction(c) \/ CommitDecision(c)
                      \/ FailDecision(c)
  \/ ExpireStale
  \/ \E n \in Runners : \/ Run(n) \/ Die(n)
                        \/ \E a \in Actions : \/ ExecuteUnanswered(n, a)
                                              \/ ThrowFault(n, a)

Spec == Init /\ [][Next]_vars

(* The timer keeps polling and a poll goes on unless its row is locked.    *)
Fairness == \A n \in Runners : WF_vars(Run(n))

FairSpec == Spec /\ Fairness

-----------------------------------------------------------------------------
(* Properties. *)

Large == {a \in Actions : Amount[a] > Threshold}

TypeOK ==
  /\ status \in [Actions -> {"none", "direct", "pending", "approved", "rejected",
                             "expired", "executed"}]
  /\ approver \in [Actions -> Admins \cup {NoAdmin}]
  /\ stale \subseteq Actions
  /\ approvedAt \in [Actions -> Nat]
  /\ clock \in Nat
  /\ moved \in [Actions -> Nat]
  /\ audits \subseteq
       [what : {"wallet.adjust", "approval.approve", "approval.reject",
                "pending.execute"},
        action : Actions, who : Admins \cup {"success", "failure"}]
  /\ lock \in [Actions -> Calls \cup Runners \cup {Nobody}]
  /\ pc \in [Calls -> {"idle", "read", "updated", "committed", "invalid",
                       "forbidden", "conflict", "failed"}]
  /\ target \in [Calls -> Actions \cup {NoAction}]
  /\ decider \in [Calls -> Admins \cup {NoAdmin}]
  /\ verdict \in [Calls -> {"none", "approve", "reject"}]
  /\ \A c \in Calls : pc[c] # "idle" => target[c] \in Actions /\ decider[c] \in Admins
  /\ batch \in [Runners -> SUBSET Actions]
  /\ faults \in 0 .. MaxFaults

(* Whatever polls overlap, die or race decisions and expiry, the queue     *)
(* does what FourEyes allows.                                              *)
Eyes == INSTANCE FourEyes

ImplementsFourEyes == Eyes!Spec

(* Money that has moved for a large adjustment was approved by an admin    *)
(* who did not ask for it, it moved once, and the audit log has the        *)
(* approval under that admin's name and the execution.                     *)
MovedIsApproved ==
  \A a \in Large :
    moved[a] > 0 =>
      /\ moved[a] = 1
      /\ approver[a] \notin {NoAdmin, RequestedBy[a]}
      /\ AuditRow("approval.approve", a, approver[a]) \in audits
      /\ AuditRow("pending.execute", a, "success") \in audits

Verdicts(a) ==
  {r \in audits : r.action = a /\ r.what \in {"approval.approve", "approval.reject"}}

(* The audit log never has both verdicts of an action, nor a verdict on    *)
(* one that has expired: a decision that lost a race leaves no trace.      *)
OneVerdict ==
  \A a \in Actions :
    Cardinality(Verdicts(a)) =
      IF status[a] \in {"approved", "rejected", "executed"} THEN 1 ELSE 0

(* docs/admin-operations.md:47: "Once approved, the workers process        *)
(* executes the action".                                                   *)
ApprovedIsExecuted ==
  \A a \in Actions \ Poisoned :
    (status[a] = "approved") ~> (status[a] = "executed")

=============================================================================
