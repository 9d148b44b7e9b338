-------------------------- MODULE FundingRequests --------------------------
(***************************************************************************)
(* Deposit and withdrawal requests of one broker: the broker portal        *)
(* inserts a PENDING request, admins approve or reject it, and an approval *)
(* posts a ledger entry.  A decision runs in the transaction of the audit  *)
(* interceptor, at PostgreSQL's default READ COMMITTED: what it reads may  *)
(* be stale by the time it writes, and a row it updates is locked until it *)
(* ends.  Order fills debit their commission from the same ledger.         *)
(*                                                                         *)
(* A call is one POST .../approve or .../reject; an admin who clicks again *)
(* makes another call.  The brokers do not share requests, wallets or      *)
(* entries, so one broker stands for all; a broker deals in one currency.  *)
(***************************************************************************)
EXTENDS Integers, FiniteSets, FiniteSetsExt

CONSTANTS
  Requests,     \* requests the broker may submit ...
  Deposits,     \* ... those of kind 'deposit', the others are withdrawals
  Amount,       \* the amount of each request
  Calls,        \* decisions of admins
  Fills,        \* order fills that are charged a commission ...
  Commission,   \* ... of this amount
  Opening,      \* the opening credit of a broker made in the console, ...
  OpeningCredit,\* ... its amount
  FLOOR,        \* WITHDRAW_FLOOR
  NoRequest, NoCall, NoWallet

ASSUME FundingAssumption ==
  /\ Deposits \subseteq Requests
  /\ Amount \in [Requests -> Nat]
  /\ Commission \in Nat
  /\ OpeningCredit \in Nat
  /\ FLOOR \in Nat

ASSUME FundingDistinct ==
  /\ NoCall \notin Calls
  /\ NoRequest \notin Requests
  /\ Opening \notin Calls \cup Fills
  /\ NoWallet \notin Calls \cup Fills \cup {Opening}
  /\ Calls \cap Fills = {}

VARIABLES
  form,      \* where the portal's handler is for each request
  status,    \* ledger.deposit_requests.status ("none": no row)
  wallets,   \* committed wallets of the broker, named by what created them
  entries,   \* committed ledger entries of the broker
  audits,    \* committed audit rows of decisions
  charged,   \* fills that have been charged
  pc,        \* where the handler of each call is
  target,    \* the request the call decides
  verdict,   \* what the call decides
  wallet,    \* the wallet the call has found or created
  basis,     \* the entries the call's balance check summed up
  seen,      \* the decisions and the fills that were there when the call began
  lock       \* who holds the row lock of each request

portalVars == <<form, status>>
bookVars == <<wallets, entries, audits, charged>>
callVars == <<pc, target, verdict, wallet, basis, seen>>
vars == <<portalVars, bookVars, callVars, lock>>

-----------------------------------------------------------------------------
(* The ledger. *)

WalletIds == Calls \cup Fills \cup {Opening}

Entries == [wallet : WalletIds, amount : Int, request : Requests \cup {NoRequest},
            by : WalletIds]

AuditRows == [action : {"deposit.approve", "deposit.reject"}, request : Requests,
              by : Calls]

Total(S) == MapThenSumSet(LAMBDA e : e.amount, S)

EntriesOf(w) == {e \in entries : e.wallet = w}

(* getBalance *)
Balance(w) == Total(EntriesOf(w))

(* A deposit CREDITs the wallet, a withdrawal DEBITs it. *)
MutSigned(r) == Amount[r]

Signed(r) == IF r \in Deposits THEN Amount[r] ELSE -Amount[r]

(* findOrCreateWallet returns a wallet of the broker, and there is no      *)
(* ORDER BY to say which; if it sees none it inserts one in the caller's   *)
(* transaction.                                                            *)
MutUsableWallets(c) == wallets \cup {c}

MutFirstWallet(c) == IF wallets = {} THEN {NoWallet} ELSE wallets

UsableWallets(c) == IF wallets = {} THEN {c} ELSE wallets

-----------------------------------------------------------------------------
(* A broker made in the admin console has a wallet with its opening        *)
(* credit, another one has neither.                                        *)
Init ==
  /\ form = [r \in Requests |-> "idle"]
  /\ status = [r \in Requests |-> "none"]
  /\ \/ wallets = {} /\ entries = {}
     \/ /\ wallets = {Opening}
        /\ entries = {[wallet |-> Opening, amount |-> OpeningCredit,
                       request |-> NoRequest, by |-> Opening]}
  /\ audits = {}
  /\ charged = {}
  /\ pc = [c \in Calls |-> "idle"]
  /\ target = [c \in Calls |-> NoRequest]
  /\ verdict = [c \in Calls |-> "none"]
  /\ wallet = [c \in Calls |-> NoWallet]
  /\ basis = [c \in Calls |-> {}]
  /\ seen = [c \in Calls |-> {}]
  /\ lock = [r \in Requests |-> NoCall]

-----------------------------------------------------------------------------
(* The broker portal. *)

CreateDepositRequest(r) ==
  /\ r \in Deposits
  /\ form[r] = "idle"
  /\ form' = [form EXCEPT ![r] = "sent"]
  /\ status' = [status EXCEPT ![r] = "PENDING"]
  /\ UNCHANGED <<bookVars, callVars, lock>>

(* createWithdrawalRequest refuses what exceeds the balance of all wallets *)
(* above the floor; requests that are still PENDING are not counted.       *)
CheckWithdrawable(r) ==
  /\ r \notin Deposits
  /\ form[r] = "idle"
  /\ \/ /\ Amount[r] <= Max({0, Total(entries) - FLOOR})
        /\ form' = [form EXCEPT ![r] = "checked"]
     \/ /\ Amount[r] > Max({0, Total(entries) - FLOOR})
        /\ form' = [form EXCEPT ![r] = "refused"]
  /\ UNCHANGED <<status, bookVars, callVars, lock>>

(* Its INSERT comes after the awaits of the check. *)
CreateWithdrawalRequest(r) ==
  /\ form[r] = "checked"
  /\ form' = [form EXCEPT ![r] = "sent"]
  /\ status' = [status EXCEPT ![r] = "PENDING"]
  /\ UNCHANGED <<bookVars, callVars, lock>>

(* recordFill of the order processor debits its commission, and makes a    *)
(* wallet if it sees none.  It takes the wallet with the lowest id; ids    *)
(* are not modelled, so any wallet may be the one.                         *)
ChargeCommission(f) ==
  /\ f \notin charged
  /\ charged' = charged \cup {f}
  /\ \E w \in UsableWallets(f) :
       /\ wallets' = wallets \cup {w}
       /\ entries' = entries \cup {[wallet |-> w, amount |-> -Commission,
                                    request |-> NoRequest, by |-> f]}
  /\ UNCHANGED <<portalVars, audits, callVars, lock>>

-----------------------------------------------------------------------------
(* An admin's decision, one action per await. *)

(* The transaction opens and reads the request: 409 unless it is PENDING.  *)
(* A request that does not exist is answered 404.                          *)
MutReadRequest(c) ==
  /\ pc[c] = "idle"
  /\ \E r \in Requests, v \in {"approve", "reject"} :
       /\ status[r] # "none"
       /\ target' = [target EXCEPT ![c] = r]
       /\ verdict' = [verdict EXCEPT ![c] = v]
  /\ seen' = [seen EXCEPT ![c] = {a.by : a \in audits} \cup charged]
  /\ pc' = [pc EXCEPT ![c] = "read"]
  /\ UNCHANGED <<portalVars, bookVars, wallet, basis, lock>>

ReadRequest(c) ==
  /\ pc[c] = "idle"
  /\ \E r \in Requests, v \in {"approve", "reject"} :
       /\ target' = [target EXCEPT ![c] = r]
       /\ verdict' = [verdict EXCEPT ![c] = v]
       /\ \/ /\ status[r] = "PENDING"
             /\ pc' = [pc EXCEPT ![c] = "read"]
          \/ /\ status[r] \in {"APPROVED", "REJECTED"}
             /\ pc' = [pc EXCEPT ![c] = "refused"]
  /\ seen' = [seen EXCEPT ![c] = {a.by : a \in audits} \cup charged]
  /\ UNCHANGED <<portalVars, bookVars, wallet, basis, lock>>

FindOrCreateWallet(c) ==
  /\ pc[c] = "read"
  /\ verdict[c] = "approve"
  /\ \E w \in UsableWallets(c) : wallet' = [wallet EXCEPT ![c] = w]
  /\ pc' = [pc EXCEPT ![c] = IF target[c] \in Deposits THEN "cleared" ELSE "found"]
  /\ UNCHANGED <<portalVars, bookVars, target, verdict, basis, seen, lock>>

(* A withdrawal must be covered by the balance of the wallet, which is     *)
(* read outside the transaction; otherwise 409 rolls everything back.      *)
MutCheckBalance(c) ==
  /\ pc[c] = "found"
  /\ basis' = [basis EXCEPT ![c] = EntriesOf(wallet[c])]
  /\ pc' = [pc EXCEPT ![c] = "cleared"]
  /\ UNCHANGED <<portalVars, bookVars, target, verdict, wallet, seen, lock>>

CheckBalance(c) ==
  /\ pc[c] = "found"
  /\ basis' = [basis EXCEPT ![c] = EntriesOf(wallet[c])]
  /\ \/ /\ Amount[target[c]] <= Balance(wallet[c])
        /\ pc' = [pc EXCEPT ![c] = "cleared"]
     \/ /\ Amount[target[c]] > Balance(wallet[c])
        /\ pc' = [pc EXCEPT ![c] = "refused"]
  /\ UNCHANGED <<portalVars, bookVars, target, verdict, wallet, seen, lock>>

(* An approval inserts the ledger entry; then either decision updates the  *)
(* request, and for that waits until no other transaction has the row.     *)
(* The UPDATE names the request only: it does not ask for PENDING again.   *)
Decide(c) ==
  /\ \/ pc[c] = "cleared"
     \/ pc[c] = "read" /\ verdict[c] = "reject"
  /\ lock[target[c]] = NoCall
  /\ lock' = [lock EXCEPT ![target[c]] = c]
  /\ pc' = [pc EXCEPT ![c] = "decided"]
  /\ UNCHANGED <<portalVars, bookVars, target, verdict, wallet, basis, seen>>

(* The interceptor adds the audit row and commits. *)
MutCommit(c) ==
  LET r == target[c] IN
  /\ pc[c] = "decided"
  /\ pc' = [pc EXCEPT ![c] = "committed"]
  /\ lock' = [lock EXCEPT ![r] = NoCall]
  /\ \/ /\ verdict[c] = "approve"
        /\ status' = [status EXCEPT ![r] = "APPROVED"]
        /\ wallets' = wallets \cup {wallet[c]}
        /\ entries' = entries \cup {[wallet |-> wallet[c], amount |-> Signed(r),
                                     request |-> r, by |-> c]}
        /\ \/ audits' = audits \cup {[action |-> "deposit.approve", request |-> r,
                                      by |-> c]}
           \/ audits' = audits
     \/ /\ verdict[c] = "reject"
        /\ status' = [status EXCEPT ![r] = "REJECTED"]
        /\ audits' = audits \cup {[action |-> "deposit.reject", request |-> r,
                                   by |-> c]}
        /\ UNCHANGED <<wallets, entries>>
  /\ UNCHANGED <<form, charged, target, verdict, wallet, basis, seen>>

Commit(c) ==
  LET r == target[c] IN
  /\ pc[c] = "decided"
  /\ pc' = [pc EXCEPT ![c] = "committed"]
  /\ lock' = [lock EXCEPT ![r] = NoCall]
  /\ \/ /\ verdict[c] = "approve"
        /\ status' = [status EXCEPT ![r] = "APPROVED"]
        /\ wallets' = wallets \cup {wallet[c]}
        /\ entries' = entries \cup {[wallet |-> wallet[c], amount |-> Signed(r),
                                     request |-> r, by |-> c]}
        /\ audits' = audits \cup {[action |-> "deposit.approve", request |-> r,
                                   by |-> c]}
     \/ /\ verdict[c] = "reject"
        /\ status' = [status EXCEPT ![r] = "REJECTED"]
        /\ audits' = audits \cup {[action |-> "deposit.reject", request |-> r,
                                   by |-> c]}
        /\ UNCHANGED <<wallets, entries>>
  /\ UNCHANGED <<form, charged, target, verdict, wallet, basis, seen>>

(* A statement fails or the API dies: the transaction is rolled back, with *)
(* it the 'failure' audit row the interceptor tries to leave.              *)
Fail(c) ==
  /\ pc[c] \in {"read", "found", "cleared", "decided"}
  /\ pc' = [pc EXCEPT ![c] = "failed"]
  /\ lock' = [r \in Requests |-> IF lock[r] = c THEN NoCall ELSE lock[r]]
  /\ UNCHANGED <<portalVars, bookVars, target, verdict, wallet, basis, seen>>

-----------------------------------------------------------------------------
Next ==
  \/ \E r \in Requests : \/ CreateDepositRequest(r)
                         \/ CheckWithdrawable(r)
                         \/ CreateWithdrawalRequest(r)
  \/ \E f \in Fills : ChargeCommission(f)
  \/ \E c \in Calls : \/ ReadRequest(c) \/ FindOrCreateWallet(c) \/ CheckBalance(c)
                      \/ Decide(c) \/ Commit(c) \/ Fail(c)

Spec == Init /\ [][Next]_vars

-----------------------------------------------------------------------------
(* Properties. *)

TypeOK ==
  /\ form \in [Requests -> {"idle", "checked", "sent", "refused"}]
  /\ status \in [Requests -> {"none", "PENDING", "APPROVED", "REJECTED"}]
  /\ wallets \subseteq WalletIds
  /\ entries \subseteq Entries
  /\ audits \subseteq AuditRows
  /\ charged \subseteq Fills
  /\ pc \in [Calls -> {"idle", "read", "found", "cleared", "decided", "committed",
                       "refused", "failed"}]
  /\ target \in [Calls -> Requests \cup {NoRequest}]
  /\ \A c \in Calls : pc[c] # "idle" => target[c] \in Requests
  /\ verdict \in [Calls -> {"none", "approve", "reject"}]
  /\ wallet \in [Calls -> WalletIds \cup {NoWallet}]
  /\ basis \in [Calls -> SUBSET Entries]
  /\ seen \in [Calls -> SUBSET (Calls \cup Fills)]
  /\ lock \in [Requests -> Calls \cup {NoCall}]

(* The books and the audit log tell the same story (docs/adr/0007: "no     *)
(* possible consistent state where an action succeeded without an audit    *)
(* row"): the entries of a request are those of its audited approvals, and *)
(* it is decided just when some audit row says so.                         *)
EntriesAudited ==
  \A r \in Requests :
    /\ {[by |-> e.by, amount |-> e.amount] : e \in {e \in entries : e.request = r}} =
         {[by |-> a.by, amount |-> Signed(r)] :
            a \in {a \in audits : a.request = r /\ a.action = "deposit.approve"}}
    /\ status[r] \in {"APPROVED", "REJECTED"} <=> \E a \in audits : a.request = r

(* The status an approved or rejected request shows is the verdict of one  *)
(* of its audited decisions, and an APPROVED request has moved money.      *)
StatusIsAudited ==
  \A r \in Requests :
    /\ status[r] = "REJECTED" =>
         \E a \in audits : a.request = r /\ a.action = "deposit.reject"
    /\ status[r] = "APPROVED" =>
         \E e \in entries :
           /\ e.request = r
           /\ e.wallet \in wallets
           /\ e.amount = IF r \in Deposits THEN Amount[r] ELSE -Amount[r]

(* A request is decided twice only by calls neither of which saw the       *)
(* decision of the other: a call that begins after a decision never adds   *)
(* one, whatever failed in between.                                        *)
TwiceOnlyInRace ==
  \A a, b \in audits :
    a.request = b.request /\ a # b => a.by \notin seen[b.by]

DebitsOf(w) == {e \in EntriesOf(w) : e.amount < 0}

WithdrawalsOf(w) == {e \in DebitsOf(w) : e.request \in Requests}

(* A wallet with withdrawals is overdrawn only where a debit passed by the *)
(* balance check of one of them: a commission, or another withdrawal       *)
(* that did not see the first one either.                                  *)
OverdrawnOnlyInRace ==
  \A w \in wallets :
    Balance(w) < 0 =>
      \/ WithdrawalsOf(w) = {}
      \/ \E e \in WithdrawalsOf(w), d \in DebitsOf(w) :
           /\ d # e
           /\ d \notin basis[e.by]
           /\ d.by \in Calls => e \notin basis[d.by]

(* Where the broker starts with a wallet it has no other, and every entry  *)
(* is in a wallet that exists.                                             *)
OpeningWalletIsOnly ==
  /\ Opening \in wallets => wallets = {Opening}
  /\ \A e \in entries : e.wallet \in wallets

(* A broker that starts with a wallet never gets a second one.  One that   *)
(* starts without gets several only from approvals that overlap what made  *)
(* the others: findOrCreateWallet never makes a wallet for an approval     *)
(* that began when there was one, nor for a second fill                    *)
(* (ledger.repository.ts:30-49, order-processor.ts:142-157).               *)
SecondWalletOnlyInRace ==
  /\ OpeningWalletIsOnly
  /\ \A v, w \in wallets :
       v # w => /\ v \in Calls \/ w \in Calls
                /\ w \in Calls => v \notin seen[w]

-----------------------------------------------------------------------------
(* What the documents say and the code does not keep. *)

(* deposits-admin.controller.ts:162: "Reject a PENDING request - records   *)
(* the decision, no wallet movement."  An approval that read PENDING as    *)
(* well commits its entry, and the rejection then overwrites the status.   *)
RejectedUnmoved ==
  \A r \in Requests :
    status[r] = "REJECTED" => \A e \in entries : e.request # r

(* 0004_request_kind.sql:5: "Withdrawals are capped client- and            *)
(* server-side so the broker can only pull out the balance above a fixed   *)
(* floor".  Each request is capped when it is made, but two PENDING ones   *)
(* may share the same cover, and approve only looks at the balance.        *)
FloorKept ==
  \A e \in entries :
    e.request \in Requests \ Deposits => Total(entries) >= FLOOR

=============================================================================
