------------------------------ MODULE FourEyes ------------------------------
(***************************************************************************)
(* What the approval queue promises (docs/adr/0007, docs/admin-operations):*)
(* an adjustment over the threshold moves money once, after an admin other *)
(* than the requester has approved it, and never after it was rejected or  *)
(* has expired.  Nothing here knows of transactions, row locks, polls or   *)
(* crashes.                                                                *)
(***************************************************************************)
EXTENDS Naturals

CONSTANTS Actions,      \* requested wallet adjustments
          Large,        \* those over ADMIN_4EYES_THRESHOLD_PAISE
          Admins,
          RequestedBy,  \* the admin who requests each adjustment
          NoAdmin

VARIABLES status,       \* where each adjustment is
          approver,     \* who approved it
          moved         \* how often its ledger pair was posted

vars == <<status, approver, moved>>

Init ==
  /\ status = [a \in Actions |-> "none"]
  /\ approver = [a \in Actions |-> NoAdmin]
  /\ moved = [a \in Actions |-> 0]

(* A small adjustment is carried out at once, a large one is queued. *)
Request(a) ==
  /\ status[a] = "none"
  /\ \/ /\ a \in Large
        /\ status' = [status EXCEPT ![a] = "pending"]
        /\ UNCHANGED moved
     \/ /\ a \notin Large
        /\ status' = [status EXCEPT ![a] = "direct"]
        /\ moved' = [moved EXCEPT ![a] = 1]
  /\ UNCHANGED approver

Approve(a, d) ==
  /\ status[a] = "pending"
  /\ d # RequestedBy[a]
  /\ status' = [status EXCEPT ![a] = "approved"]
  /\ approver' = [approver EXCEPT ![a] = d]
  /\ UNCHANGED moved

Reject(a) ==
  /\ status[a] = "pending"
  /\ status' = [status EXCEPT ![a] = "rejected"]
  /\ UNCHANGED <<approver, moved>>

Expire(S) ==
  /\ \A a \in S : status[a] = "pending"
  /\ status' = [a \in Actions |-> IF a \in S THEN "expired" ELSE status[a]]
  /\ UNCHANGED <<approver, moved>>

Execute(a) ==
  /\ status[a] = "approved"
  /\ status' = [status EXCEPT ![a] = "executed"]
  /\ moved' = [moved EXCEPT ![a] = @ + 1]
  /\ UNCHANGED approver

Next ==
  \/ \E a \in Actions : \/ Request(a) \/ Reject(a) \/ Execute(a)
                        \/ \E d \in Admins : Approve(a, d)
  \/ \E S \in SUBSET Actions : Expire(S)

Spec == Init /\ [][Next]_vars

=============================================================================
