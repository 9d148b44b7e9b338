--------------------------- MODULE ApprovalProofs ---------------------------
(***************************************************************************)
(* Proofs about the approval queue: it is type correct and does what       *)
(* FourEyes allows, for any actions, admins, decisions, overlapping polls, *)
(* batch limit and number of faults, whether or not the pipe refuses.      *)
(***************************************************************************)
EXTENDS ApprovalQueue, FiniteSetTheorems, TLAPS

(* Who has a row's lock has found it in the status its UPDATE asks for,    *)
(* and nobody else changes it: a decision holds a pending row, a runner an *)
(* approved one.                                                           *)
LockInv ==
  /\ \A c \in Calls :
       pc[c] = "updated" => lock[target[c]] = c /\ status[target[c]] = "pending"
  /\ \A a \in Actions :
       /\ lock[a] \in Calls => pc[lock[a]] = "updated" /\ target[lock[a]] = a
       /\ lock[a] \in Runners => status[a] = "approved"
  /\ \A c \in Calls :
       pc[c] \in {"read", "updated"} => decider[c] # RequestedBy[target[c]]

(* What the books and the audit log say of an action in each status. *)
Booked(a) ==
  /\ moved[a] = IF status[a] \in {"direct", "executed"} THEN 1 ELSE 0
  /\ status[a] = "direct" => a \notin Large
  /\ status[a] \in {"approved", "executed"} => approver[a] \in Admins \ {RequestedBy[a]}
  /\ status[a] = "executed" => Executed(a) \in audits

Judged(a) ==
  /\ status[a] \in {"approved", "executed"} =>
       Verdicts(a) = {AuditRow("approval.approve", a, approver[a])}
  /\ status[a] = "rejected" =>
       \E d \in Admins : Verdicts(a) = {AuditRow("approval.reject", a, d)}
  /\ status[a] \in {"none", "direct", "pending", "expired"} => Verdicts(a) = {}

BookInv == \A a \in Actions : Booked(a) /\ Judged(a)

ApprovalInv == TypeOK /\ LockInv /\ BookInv

-----------------------------------------------------------------------------
(* Frames. *)

(* Steps that leave the rows and the books alone. *)
LEMMA BookFrame ==
  ASSUME BookInv, UNCHANGED <<status, approver, moved, audits>>
  PROVE  BookInv'
BY DEF BookInv, Booked, Judged, Verdicts, Executed, AuditRow

(* A step that changes what the books say of action a only. *)
LEMMA BookOne ==
  ASSUME BookInv, NEW a \in Actions, Booked(a)', Judged(a)',
         \A x \in Actions \ {a} :
           /\ status'[x] = status[x]
           /\ approver'[x] = approver[x]
           /\ moved'[x] = moved[x],
         audits \subseteq audits',
         \A r \in audits' \ audits : r.action = a
  PROVE  BookInv'
<1> SUFFICES ASSUME NEW x \in Actions \ {a} PROVE Booked(x)' /\ Judged(x)'
  BY DEF BookInv
<1>1. Verdicts(x)' = Verdicts(x)
  BY DEF Verdicts
<1>2. Booked(x) /\ Judged(x)
  BY DEF BookInv
<1> QED
  BY <1>1, <1>2 DEF Booked, Judged, Executed, AuditRow

-----------------------------------------------------------------------------
(* Requests and time. *)

LEMMA WalletAdjustKeeps ==
  ASSUME ApprovalInv, NEW a \in Actions, WalletAdjust(a)
  PROVE  ApprovalInv'
<1> USE ApprovalAssumption, ApprovalDistinct
<1>1. TypeOK'
  BY DEF ApprovalInv, TypeOK, WalletAdjust, callVars, AuditRow
<1>2. LockInv'
  BY DEF ApprovalInv, TypeOK, LockInv, WalletAdjust, callVars
<1>3. Verdicts(a)' = Verdicts(a) /\ Verdicts(a) = {}
  BY DEF ApprovalInv, BookInv, Judged, WalletAdjust, Verdicts, AuditRow
<1>4. Booked(a)' /\ Judged(a)'
  BY <1>3 DEF ApprovalInv, TypeOK, BookInv, Booked, Judged, WalletAdjust, OverThreshold,
              Large
<1>5. BookInv'
  BY <1>4, BookOne DEF ApprovalInv, TypeOK, WalletAdjust, AuditRow
<1> QED
  BY <1>1, <1>2, <1>5 DEF ApprovalInv

LEMMA GrowStaleKeeps ==
  ASSUME ApprovalInv, NEW a \in Actions, GrowStale(a)
  PROVE  ApprovalInv'
<1>1. TypeOK' /\ LockInv'
  BY DEF ApprovalInv, TypeOK, LockInv, GrowStale, callVars, bookVars
<1> QED
  BY <1>1, BookFrame DEF ApprovalInv, GrowStale, bookVars

LEMMA ExpireStaleKeeps ==
  ASSUME ApprovalInv, ExpireStale
  PROVE  ApprovalInv'
<1> USE ApprovalDistinct
<1>1. TypeOK' /\ LockInv'
  BY DEF ApprovalInv, TypeOK, LockInv, ExpireStale, callVars, bookVars
<1>2. ASSUME NEW a \in Actions PROVE Booked(a)' /\ Judged(a)'
  <2>1. Verdicts(a)' = Verdicts(a)
    BY DEF ExpireStale, Verdicts, bookVars
  <2>2. status'[a] = IF a \in stale /\ status[a] = "pending" THEN "expired" ELSE status[a]
    BY DEF ExpireStale
  <2> QED
    BY <2>1, <2>2 DEF ApprovalInv, BookInv, Booked, Judged, ExpireStale, bookVars, Executed,
                      AuditRow
<1> QED
  BY <1>1, <1>2 DEF ApprovalInv, BookInv

-----------------------------------------------------------------------------
(* Decisions. *)

LEMMA ReadActionKeeps ==
  ASSUME ApprovalInv, NEW c \in Calls, ReadAction(c)
  PROVE  ApprovalInv'
<1> USE ApprovalDistinct
<1>1. PICK a \in Actions, d \in Admins, v \in {"approve", "reject"},
           p \in {"invalid", "forbidden", "read"} :
        /\ pc[c] = "idle"
        /\ target' = [target EXCEPT ![c] = a]
        /\ decider' = [decider EXCEPT ![c] = d]
        /\ verdict' = [verdict EXCEPT ![c] = v]
        /\ pc' = [pc EXCEPT ![c] = p]
        /\ p = "read" => d # RequestedBy[a]
  BY DEF ReadAction
<1>2. UNCHANGED <<status, approver, stale, approvedAt, clock, moved, audits, lock, batch,
                  faults>>
  BY DEF ReadAction, queueVars, bookVars
<1>3. TypeOK'
  BY <1>1, <1>2 DEF ApprovalInv, TypeOK
<1>4. LockInv'
  BY <1>1, <1>2 DEF ApprovalInv, TypeOK, LockInv
<1> QED
  BY <1>2, <1>3, <1>4, BookFrame DEF ApprovalInv

LEMMA UpdateActionKeeps ==
  ASSUME ApprovalInv, NEW c \in Calls, UpdateAction(c)
  PROVE  ApprovalInv'
<1> USE ApprovalDistinct DEF queueVars, bookVars
<1>1. TypeOK'
  BY DEF ApprovalInv, TypeOK, UpdateAction
<1>2. LockInv'
  BY DEF ApprovalInv, TypeOK, LockInv, UpdateAction
<1> QED
  BY <1>1, <1>2, BookFrame DEF ApprovalInv, UpdateAction

LEMMA FailDecisionKeeps ==
  ASSUME ApprovalInv, NEW c \in Calls, FailDecision(c)
  PROVE  ApprovalInv'
<1> USE ApprovalDistinct DEF queueVars, bookVars
<1>1. TypeOK'
  BY DEF ApprovalInv, TypeOK, FailDecision
<1>2. LockInv'
  BY DEF ApprovalInv, TypeOK, LockInv, FailDecision
<1> QED
  BY <1>1, <1>2, BookFrame DEF ApprovalInv, FailDecision

LEMMA CommitDecisionKeeps ==
  ASSUME ApprovalInv, NEW c \in Calls, CommitDecision(c)
  PROVE  ApprovalInv'
<1> USE ApprovalDistinct
<1>1. PICK a \in Actions, d \in Admins :
        /\ a = target[c] /\ d = decider[c]
        /\ d # RequestedBy[a]
        /\ status[a] = "pending"
        /\ lock[a] = c
        /\ pc[c] = "updated"
  BY DEF ApprovalInv, TypeOK, LockInv, CommitDecision
<1>2. TypeOK'
  BY DEF ApprovalInv, TypeOK, CommitDecision, AuditRow
<1>3. LockInv'
  BY <1>1 DEF ApprovalInv, TypeOK, LockInv, CommitDecision
<1>4. Verdicts(a) = {} /\ moved[a] = 0
  BY <1>1 DEF ApprovalInv, BookInv, Booked, Judged
<1>5. PICK row : /\ audits' = audits \cup {row}
                 /\ \/ /\ row = AuditRow("approval.approve", a, d)
                       /\ status'[a] = "approved"
                       /\ approver'[a] = d
                    \/ /\ row = AuditRow("approval.reject", a, d)
                       /\ status'[a] = "rejected"
  BY <1>1 DEF ApprovalInv, TypeOK, CommitDecision
<1>6. Verdicts(a)' = {row} /\ row.action = a
  BY <1>4, <1>5 DEF Verdicts, AuditRow
<1>7. Booked(a)' /\ Judged(a)'
  BY <1>1, <1>4, <1>5, <1>6 DEF CommitDecision, Booked, Judged
<1>8. BookInv'
  BY <1>1, <1>5, <1>6, <1>7, BookOne DEF ApprovalInv, TypeOK, CommitDecision
<1> QED
  BY <1>2, <1>3, <1>8 DEF ApprovalInv

-----------------------------------------------------------------------------
(* The watcher. *)

LEMMA PollOnceKeeps ==
  ASSUME ApprovalInv, NEW n \in Runners, PollOnce(n)
  PROVE  ApprovalInv'
<1> USE DEF queueVars, bookVars, callVars
<1>1. TypeOK' /\ LockInv'
  BY DEF ApprovalInv, TypeOK, LockInv, PollOnce, Approved
<1> QED
  BY <1>1, BookFrame DEF ApprovalInv, PollOnce

LEMMA ClaimKeeps ==
  ASSUME ApprovalInv, NEW n \in Runners, NEW a \in Actions, Claim(n, a)
  PROVE  ApprovalInv'
<1> USE ApprovalDistinct DEF queueVars, bookVars, callVars
<1>1. TypeOK'
  BY DEF ApprovalInv, TypeOK, Claim
<1>2. LockInv'
  BY DEF ApprovalInv, TypeOK, LockInv, Claim
<1> QED
  BY <1>1, <1>2, BookFrame DEF ApprovalInv, Claim

LEMMA DieKeeps ==
  ASSUME ApprovalInv, NEW n \in Runners, Die(n)
  PROVE  ApprovalInv'
<1> USE ApprovalDistinct, ApprovalAssumption DEF queueVars, bookVars, callVars
<1>1. TypeOK'
  BY DEF ApprovalInv, TypeOK, Die, Fault
<1>2. LockInv'
  BY DEF ApprovalInv, TypeOK, LockInv, Die
<1> QED
  BY <1>1, <1>2, BookFrame DEF ApprovalInv, Die

(* An execution, answered or not: the audit log has it, and may also have  *)
(* the failure the watcher wrongly takes it for.                           *)
LEMMA CarryKeeps ==
  ASSUME ApprovalInv, NEW n \in Runners, NEW a \in Actions, Carry(n, a),
         audits' \in {audits \cup {Executed(a)}, audits \cup {Executed(a), Failed(a)}},
         faults' \in 0 .. MaxFaults
  PROVE  ApprovalInv'
<1> USE ApprovalDistinct DEF NextRow, callVars
<1>1. TypeOK'
  <2>1. audits' \subseteq audits \cup {Executed(a), Failed(a)}
    OBVIOUS
  <2>2. audits' \subseteq
          [what : {"wallet.adjust", "approval.approve", "approval.reject",
                   "pending.execute"},
           action : Actions, who : Admins \cup {"success", "failure"}]
    BY <2>1 DEF ApprovalInv, TypeOK, Executed, Failed, AuditRow
  <2> QED
    BY <2>2 DEF ApprovalInv, TypeOK, Carry
<1>2. LockInv'
  BY DEF ApprovalInv, TypeOK, LockInv, Carry
<1>3. status[a] = "approved"
  BY DEF ApprovalInv, LockInv, Carry
<1>4. Verdicts(a)' = Verdicts(a)
  BY DEF Verdicts, Executed, Failed, AuditRow
<1>5. status'[a] = "executed" /\ moved'[a] = moved[a] + 1 /\ approver' = approver
  BY DEF ApprovalInv, TypeOK, Carry
<1>6. Booked(a)' /\ Judged(a)'
  BY <1>3, <1>4, <1>5 DEF ApprovalInv, BookInv, Booked, Judged, Executed, AuditRow
<1>7. BookInv'
  BY <1>6, BookOne DEF ApprovalInv, TypeOK, Carry, Executed, Failed, AuditRow
<1> QED
  BY <1>1, <1>2, <1>7 DEF ApprovalInv

(* A rollback: the row is approved again, as it was for everybody else. *)
LEMMA RollBackKeeps ==
  ASSUME ApprovalInv, NEW n \in Runners, NEW a \in Actions, RollBack(n, a),
         faults' \in 0 .. MaxFaults
  PROVE  ApprovalInv'
<1> USE ApprovalDistinct DEF NextRow, queueVars, callVars
<1>1. audits' = audits \/ audits' = audits \cup {Failed(a)}
  BY DEF RollBack
<1>2. TypeOK'
  BY <1>1 DEF ApprovalInv, TypeOK, RollBack, Failed, AuditRow
<1>3. LockInv'
  BY DEF ApprovalInv, TypeOK, LockInv, RollBack
<1>4. Verdicts(a)' = Verdicts(a)
  BY <1>1 DEF Verdicts, Failed, AuditRow
<1>5. Booked(a)' /\ Judged(a)'
  BY <1>1, <1>4 DEF ApprovalInv, BookInv, Booked, Judged, RollBack, Executed, AuditRow
<1>6. BookInv'
  BY <1>1, <1>5, BookOne DEF ApprovalInv, RollBack, Failed, AuditRow
<1> QED
  BY <1>2, <1>3, <1>6 DEF ApprovalInv

-----------------------------------------------------------------------------
(* The invariant. *)

LEMMA InitApprovals == Init => ApprovalInv
<1> SUFFICES ASSUME Init PROVE ApprovalInv
  OBVIOUS
<1>1. TypeOK /\ LockInv
  BY ApprovalAssumption, ApprovalDistinct DEF Init, TypeOK, LockInv
<1>2. BookInv
  BY DEF Init, BookInv, Booked, Judged, Verdicts
<1> QED
  BY <1>1, <1>2 DEF ApprovalInv

LEMMA NextApprovals == ApprovalInv /\ [Next]_vars => ApprovalInv'
<1> SUFFICES ASSUME ApprovalInv, [Next]_vars PROVE ApprovalInv'
  OBVIOUS
<1>1. CASE UNCHANGED vars
  <2>1. TypeOK' /\ LockInv'
    BY <1>1 DEF ApprovalInv, TypeOK, LockInv, vars, queueVars, bookVars, callVars
  <2> QED
    BY <1>1, <2>1, BookFrame DEF ApprovalInv, vars, queueVars, bookVars
<1>2. ASSUME NEW n \in Runners, NEW a \in Actions,
             Execute(n, a) \/ ExecuteUnanswered(n, a)
      PROVE  ApprovalInv'
  <2>1. faults' \in 0 .. MaxFaults
    BY <1>2, ApprovalAssumption DEF Execute, ExecuteUnanswered, Fault, ApprovalInv, TypeOK
  <2> QED
    BY <1>2, <2>1, CarryKeeps DEF Execute, ExecuteUnanswered
<1>3. ASSUME NEW n \in Runners, NEW a \in Actions,
             ThrowPoisoned(n, a) \/ ThrowFault(n, a)
      PROVE  ApprovalInv'
  <2>1. faults' \in 0 .. MaxFaults
    BY <1>3, ApprovalAssumption DEF ThrowPoisoned, ThrowFault, Fault, ApprovalInv, TypeOK
  <2> QED
    BY <1>3, <2>1, RollBackKeeps DEF ThrowPoisoned, ThrowFault
<1> QED
  BY <1>1, <1>2, <1>3, WalletAdjustKeeps, GrowStaleKeeps, ExpireStaleKeeps,
     ReadActionKeeps, UpdateActionKeeps, CommitDecisionKeeps, FailDecisionKeeps,
     PollOnceKeeps, ClaimKeeps, DieKeeps DEF Next, Run

(* The approval queue is type correct. *)
THEOREM ApprovalsTypeCorrect == Spec => []TypeOK
<1>1. ApprovalInv => TypeOK
  BY DEF ApprovalInv
<1> QED
  BY <1>1, InitApprovals, NextApprovals, PTL DEF Spec

(* Money that moved for an adjustment over the threshold was approved by   *)
(* an admin who did not request it, moved once, and is audited.            *)
THEOREM LargeMovesApproved == Spec => []MovedIsApproved
<1>1. ApprovalInv => MovedIsApproved
  <2> SUFFICES ASSUME ApprovalInv, NEW a \in Large, moved[a] > 0
               PROVE  /\ moved[a] = 1
                      /\ approver[a] \notin {NoAdmin, RequestedBy[a]}
                      /\ AuditRow("approval.approve", a, approver[a]) \in audits
                      /\ AuditRow("pending.execute", a, "success") \in audits
    BY DEF MovedIsApproved
  <2>1. a \in Actions /\ Booked(a) /\ Judged(a)
    BY DEF Large, ApprovalInv, BookInv
  <2>2. status[a] = "executed" /\ moved[a] = 1
    BY <2>1 DEF Booked
  <2>3. AuditRow("approval.approve", a, approver[a]) \in Verdicts(a)
    BY <2>1, <2>2 DEF Judged
  <2> QED
    BY <2>1, <2>2, <2>3, ApprovalDistinct DEF Booked, Verdicts, Executed
<1> QED
  BY <1>1, InitApprovals, NextApprovals, PTL DEF Spec

(* An action has one audited verdict while it is decided, and none before  *)
(* or when it has expired.                                                 *)
THEOREM VerdictsUnique == Spec => []OneVerdict
<1>1. ApprovalInv => OneVerdict
  <2> SUFFICES ASSUME ApprovalInv, NEW a \in Actions
               PROVE  Cardinality(Verdicts(a)) =
                        IF status[a] \in {"approved", "rejected", "executed"} THEN 1 ELSE 0
    BY DEF OneVerdict
  <2>1. Judged(a)
    BY DEF ApprovalInv, BookInv
  <2>2. CASE status[a] \in {"approved", "rejected", "executed"}
    <3>1. PICK row : Verdicts(a) = {row}
      BY <2>1, <2>2 DEF Judged
    <3> QED
      BY <2>2, <3>1, FS_Singleton
  <2>3. CASE status[a] \in {"none", "direct", "pending", "expired"}
    BY <2>1, <2>3, FS_EmptySet DEF Judged
  <2> QED
    BY <2>2, <2>3 DEF ApprovalInv, TypeOK
<1> QED
  BY <1>1, InitApprovals, NextApprovals, PTL DEF Spec

-----------------------------------------------------------------------------
(* The queue implements FourEyes. *)

LEMMA StepIsEyes ==
  ASSUME ApprovalInv, [Next]_vars
  PROVE  [Eyes!Next]_(Eyes!vars)
<1> USE DEF Eyes!vars
<1>1. ASSUME NEW a \in Actions, WalletAdjust(a) PROVE Eyes!Request(a)
  BY <1>1 DEF WalletAdjust, OverThreshold, Large, Eyes!Request
<1>2. ASSUME NEW c \in Calls, CommitDecision(c)
      PROVE  \E a \in Actions : \/ Eyes!Reject(a)
                                \/ \E d \in Admins : Eyes!Approve(a, d)
  <2>1. /\ target[c] \in Actions /\ decider[c] \in Admins
        /\ status[target[c]] = "pending"
        /\ decider[c] # RequestedBy[target[c]]
    BY <1>2 DEF CommitDecision, ApprovalInv, TypeOK, LockInv
  <2>2. Eyes!Reject(target[c]) \/ Eyes!Approve(target[c], decider[c])
    BY <1>2, <2>1 DEF CommitDecision, Eyes!Reject, Eyes!Approve
  <2> QED
    BY <2>1, <2>2
<1>3. ASSUME ExpireStale PROVE \E S \in SUBSET Actions : Eyes!Expire(S)
  <2>1. PICK S : S = {a \in stale : status[a] = "pending"}
    OBVIOUS
  <2>2. S \in SUBSET Actions /\ Eyes!Expire(S)
    BY <1>3, <2>1 DEF ExpireStale, Eyes!Expire, ApprovalInv, TypeOK, bookVars
  <2> QED
    BY <2>2
<1>4. ASSUME NEW n \in Runners, NEW a \in Actions, Carry(n, a) PROVE Eyes!Execute(a)
  BY <1>4 DEF Carry, NextRow, Eyes!Execute, ApprovalInv, LockInv
<1>5. CASE UNCHANGED <<status, approver, moved>>
  BY <1>5
<1>6. \/ UNCHANGED <<status, approver, moved>>
      \/ \E a \in Actions : WalletAdjust(a)
      \/ \E c \in Calls : CommitDecision(c)
      \/ ExpireStale
      \/ \E n \in Runners, a \in Actions : Carry(n, a)
  BY DEF Next, Run, vars, queueVars, bookVars, GrowStale, ReadAction, UpdateAction,
         FailDecision, PollOnce, Claim, Execute, ExecuteUnanswered, ThrowPoisoned,
         ThrowFault, RollBack, Die
<1> QED
  BY <1>1, <1>2, <1>3, <1>4, <1>5, <1>6 DEF Eyes!Next

(* Whatever polls overlap, fail or die and whichever decisions race, an    *)
(* adjustment over the threshold moves once, after another admin approved  *)
(* it, and never after it was rejected or has expired.                     *)
THEOREM QueueKeepsFourEyes == Spec => ImplementsFourEyes
<1>1. Init => Eyes!Init
  BY DEF Init, Eyes!Init
<1> QED
  BY <1>1, StepIsEyes, InitApprovals, NextApprovals, PTL
     DEF Spec, ImplementsFourEyes, Eyes!Spec

=============================================================================
