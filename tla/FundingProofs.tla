--------------------------- MODULE FundingProofs ----------------------------
(***************************************************************************)
(* Proofs about deposit and withdrawal requests: for any requests, calls   *)
(* and fills the books agree with the audit log, a request is decided      *)
(* twice only by calls that overlap, a wallet is overdrawn by them or by   *)
(* commissions alone, an opening wallet stays the only one, and a broker   *)
(* without one gets a second wallet only from an approval that overlaps    *)
(* what made the first.                                                    *)
(***************************************************************************)
EXTENDS FundingRequests, Sums

Working == {"read", "found", "cleared", "decided"}

(* What a call at work knows: its request was PENDING when it began, none  *)
(* of the decisions it saw then was about it, and it has done nothing yet. *)
CallInv ==
  /\ \A c \in Calls : pc[c] \in Working =>
       /\ status[target[c]] # "none"
       /\ \A a \in audits : a.request = target[c] => a.by \notin seen[c]
  /\ \A c \in Calls : verdict[c] \in {"approve", "reject"} <=> pc[c] # "idle"
  /\ \A c \in Calls : pc[c] \in {"found", "cleared"} => verdict[c] = "approve"
  /\ \A c \in Calls : pc[c] = "idle" => wallet[c] = NoWallet

(* A call has one audit row once it has committed and none before, and no  *)
(* call has seen a decision that is not committed.                         *)
SeenInv ==
  /\ \A a \in audits : pc[a.by] = "committed"
  /\ \A a, b \in audits : a.by = b.by => a = b
  /\ \A c, x \in Calls : x \in seen[c] => pc[x] = "committed"

(* The wallet of a call: one that is committed, or its own; and where the  *)
(* opening wallet is, nobody has another.                                  *)
WalletInv ==
  /\ \A c \in Calls :
       /\ wallet[c] \in wallets \cup {c, NoWallet}
       /\ Opening \in wallets => wallet[c] \in {Opening, NoWallet}
       /\ pc[c] \in {"found", "cleared"} => wallet[c] # NoWallet
       /\ pc[c] = "decided" /\ verdict[c] = "approve" => wallet[c] # NoWallet
  /\ OpeningWalletIsOnly

(* A request has its row once the portal has sent it. *)
PortalInv == \A r \in Requests : form[r] # "sent" => status[r] = "none"

FundingInv ==
  TypeOK /\ PortalInv /\ CallInv /\ SeenInv /\ WalletInv /\ EntriesAudited /\ StatusIsAudited
    /\ TwiceOnlyInRace

-----------------------------------------------------------------------------
(* Frames: parts of the invariant that a step does not concern. *)

LEMMA BooksFrame ==
  ASSUME FundingInv, UNCHANGED <<status, wallets, entries, audits>>
  PROVE  EntriesAudited' /\ StatusIsAudited'
BY DEF FundingInv, EntriesAudited, StatusIsAudited, Signed

LEMMA CallsFrame ==
  ASSUME FundingInv, UNCHANGED <<audits, callVars>>,
         \A r \in Requests : status[r] # "none" => status'[r] # "none"
  PROVE  CallInv' /\ SeenInv' /\ TwiceOnlyInRace'
BY DEF FundingInv, TypeOK, CallInv, Working, SeenInv, TwiceOnlyInRace, callVars

LEMMA WalletFrame ==
  ASSUME FundingInv, UNCHANGED <<wallets, entries, callVars>>
  PROVE  WalletInv'
BY DEF FundingInv, WalletInv, OpeningWalletIsOnly, callVars

(* A step of one call that moves on without a decision. *)
LEMMA CallMoves ==
  ASSUME FundingInv, NEW c \in Calls, NEW p,
         pc' = [pc EXCEPT ![c] = p],
         pc[c] \in Working,
         p \in {"found", "cleared", "decided", "refused", "failed"},
         p \in {"found", "cleared"} => verdict[c] = "approve",
         UNCHANGED <<status, audits, target, verdict, seen>>,
         \A x \in Calls \ {c} : wallet'[x] = wallet[x]
  PROVE  CallInv' /\ SeenInv' /\ TwiceOnlyInRace'
<1>1. \A x \in Calls : pc'[x] = IF x = c THEN p ELSE pc[x]
  BY DEF FundingInv, TypeOK
<1>2. CallInv'
  BY <1>1 DEF FundingInv, CallInv, Working
<1>3. SeenInv'
  BY <1>1 DEF FundingInv, TypeOK, AuditRows, SeenInv, Working
<1> QED
  BY <1>2, <1>3 DEF FundingInv, TwiceOnlyInRace

-----------------------------------------------------------------------------
(* The portal. *)

LEMMA CreateDepositRequestKeeps ==
  ASSUME FundingInv, NEW r \in Requests, CreateDepositRequest(r)
  PROVE  FundingInv'
<1>1. TypeOK' /\ PortalInv'
  BY DEF FundingInv, TypeOK, PortalInv, CreateDepositRequest, bookVars, callVars
<1>2. CallInv' /\ SeenInv' /\ TwiceOnlyInRace'
  BY CallsFrame DEF FundingInv, TypeOK, CreateDepositRequest, bookVars
<1>3. WalletInv'
  BY WalletFrame DEF CreateDepositRequest, bookVars
<1>4. EntriesAudited' /\ StatusIsAudited'
  BY DEF FundingInv, TypeOK, PortalInv, EntriesAudited, StatusIsAudited, Signed,
         CreateDepositRequest, bookVars
<1> QED
  BY <1>1, <1>2, <1>3, <1>4 DEF FundingInv

LEMMA CheckWithdrawableKeeps ==
  ASSUME FundingInv, NEW r \in Requests, CheckWithdrawable(r)
  PROVE  FundingInv'
<1>1. PICK p \in {"checked", "refused"} :
        form[r] = "idle" /\ form' = [form EXCEPT ![r] = p]
  BY DEF CheckWithdrawable
<1>2. UNCHANGED <<status, bookVars, callVars, lock>>
  BY DEF CheckWithdrawable
<1>3. TypeOK' /\ PortalInv'
  BY <1>1, <1>2 DEF FundingInv, TypeOK, PortalInv, bookVars, callVars
<1> QED
  BY <1>2, <1>3, CallsFrame, WalletFrame, BooksFrame DEF FundingInv, bookVars

LEMMA CreateWithdrawalRequestKeeps ==
  ASSUME FundingInv, NEW r \in Requests, CreateWithdrawalRequest(r)
  PROVE  FundingInv'
<1>0. /\ form' \in [Requests -> {"idle", "checked", "sent", "refused"}]
      /\ status' \in [Requests -> {"none", "PENDING", "APPROVED", "REJECTED"}]
  BY DEF FundingInv, TypeOK, CreateWithdrawalRequest
<1>1. TypeOK' /\ PortalInv'
  <2>1. TypeOK'
    BY <1>0 DEF FundingInv, TypeOK, CreateWithdrawalRequest, bookVars, callVars
  <2>2. PortalInv'
    BY DEF FundingInv, TypeOK, PortalInv, CreateWithdrawalRequest, bookVars, callVars
  <2> QED
    BY <2>1, <2>2
<1>2. CallInv' /\ SeenInv' /\ TwiceOnlyInRace'
  BY CallsFrame DEF FundingInv, TypeOK, CreateWithdrawalRequest, bookVars
<1>3. WalletInv'
  BY WalletFrame DEF CreateWithdrawalRequest, bookVars
<1>4. EntriesAudited'
  <2>1. status[r] = "none" /\ status'[r] = "PENDING" /\ \A q \in Requests \ {r} : status'[q] = status[q]
    BY DEF FundingInv, TypeOK, PortalInv, CreateWithdrawalRequest
  <2>2. \A q \in Requests : status'[q] \in {"APPROVED", "REJECTED"} <=> status[q] \in {"APPROVED", "REJECTED"}
    BY <2>1
  <2>3. UNCHANGED <<entries, audits>>
    BY DEF CreateWithdrawalRequest, bookVars
  <2> QED
    BY <2>2, <2>3 DEF FundingInv, EntriesAudited, Signed
<1>5. StatusIsAudited'
  BY DEF FundingInv, TypeOK, PortalInv, StatusIsAudited, Signed, CreateWithdrawalRequest, bookVars
<1> QED
  BY <1>1, <1>2, <1>3, <1>4, <1>5 DEF FundingInv

LEMMA ChargeCommissionKeeps ==
  ASSUME FundingInv, NEW f \in Fills, ChargeCommission(f)
  PROVE  FundingInv'
<1> USE FundingAssumption, FundingDistinct
<1>1. PICK w \in UsableWallets(f) :
        /\ wallets' = wallets \cup {w}
        /\ entries' = entries \cup {[wallet |-> w, amount |-> -Commission,
                                     request |-> NoRequest, by |-> f]}
  BY DEF ChargeCommission
<1>2. UNCHANGED <<form, status, audits, callVars, lock>> /\ charged' = charged \cup {f}
  BY DEF ChargeCommission, portalVars
<1>3. w \in WalletIds
  BY DEF FundingInv, TypeOK, UsableWallets, WalletIds
<1>4. PICK row : /\ row = [wallet |-> w, amount |-> -Commission,
                           request |-> NoRequest, by |-> f]
                 /\ entries' = entries \cup {row}
  BY <1>1
<1>5. row \in Entries /\ row.wallet = w /\ row.request = NoRequest
  BY <1>3, <1>4 DEF Entries, WalletIds
<1>6. TypeOK' /\ PortalInv'
  BY <1>1, <1>2, <1>3, <1>4, <1>5 DEF FundingInv, TypeOK, PortalInv, callVars
<1>7. CallInv' /\ SeenInv' /\ TwiceOnlyInRace'
  BY <1>2, CallsFrame DEF FundingInv
<1>8. Opening \in wallets => w = Opening
  BY DEF FundingInv, WalletInv, OpeningWalletIsOnly, UsableWallets
<1>9. Opening \notin wallets => w # Opening
  BY DEF UsableWallets
<1>10. WalletInv'
  BY <1>1, <1>2, <1>4, <1>5, <1>8, <1>9
  DEF FundingInv, WalletInv, OpeningWalletIsOnly, callVars
<1>11. EntriesAudited' /\ StatusIsAudited'
  <2>1. \A r \in Requests :
          {e \in entries' : e.request = r} = {e \in entries : e.request = r}
    BY <1>4, <1>5
  <2>2. EntriesAudited'
    BY <1>2, <2>1 DEF FundingInv, EntriesAudited, Signed
  <2> QED
    BY <1>1, <1>2, <2>2 DEF FundingInv, StatusIsAudited
<1> QED
  BY <1>6, <1>7, <1>10, <1>11 DEF FundingInv

-----------------------------------------------------------------------------
(* Decisions. *)

LEMMA ReadRequestKeeps ==
  ASSUME FundingInv, NEW c \in Calls, ReadRequest(c)
  PROVE  FundingInv'
<1>1. PICK r \in Requests, v \in {"approve", "reject"}, p \in {"read", "refused"} :
        /\ pc[c] = "idle"
        /\ target' = [target EXCEPT ![c] = r]
        /\ verdict' = [verdict EXCEPT ![c] = v]
        /\ pc' = [pc EXCEPT ![c] = p]
        /\ p = "read" => status[r] = "PENDING"
  BY DEF ReadRequest
<1> USE FundingDistinct
<1>2. seen' = [seen EXCEPT ![c] = {a.by : a \in audits} \cup charged]
  BY DEF ReadRequest
<1>3. UNCHANGED <<form, status, bookVars, wallet, basis, lock>>
  BY DEF ReadRequest, portalVars
<1>4. \A x \in Calls : /\ pc'[x] = IF x = c THEN p ELSE pc[x]
                       /\ target'[x] = IF x = c THEN r ELSE target[x]
                       /\ verdict'[x] = IF x = c THEN v ELSE verdict[x]
                       /\ x # c => seen'[x] = seen[x]
  BY <1>1, <1>2 DEF FundingInv, TypeOK
<1>5. /\ {a.by : a \in audits} \subseteq Calls /\ charged \subseteq Fills
      /\ \A a \in audits : pc[a.by] = "committed"
      /\ \A x \in Calls : x \in seen'[c] => pc[x] = "committed"
  BY <1>2 DEF FundingInv, TypeOK, SeenInv, AuditRows
<1>6. TypeOK' /\ PortalInv'
  BY <1>1, <1>2, <1>3, <1>5 DEF FundingInv, TypeOK, PortalInv, bookVars
<1>7. CallInv'
  <2>1. p = "read" => \A a \in audits : a.request # r
    BY <1>1 DEF FundingInv, EntriesAudited
  <2> QED
    BY <1>1, <1>3, <1>4, <2>1 DEF FundingInv, CallInv, Working, bookVars
<1>8. SeenInv'
  BY <1>1, <1>3, <1>4, <1>5 DEF FundingInv, SeenInv, bookVars
<1>9. WalletInv'
  BY <1>1, <1>3, <1>4 DEF FundingInv, WalletInv, OpeningWalletIsOnly, bookVars
<1>10. TwiceOnlyInRace'
  <2>1. \A b \in audits : b.by \in Calls /\ b.by # c
    BY <1>1, <1>5 DEF FundingInv, SeenInv
  <2>2. \A b \in audits : seen'[b.by] = seen[b.by]
    BY <1>4, <2>1
  <2>3. audits' = audits
    BY <1>3 DEF bookVars
  <2> QED
    BY <2>2, <2>3 DEF FundingInv, TwiceOnlyInRace
<1>11. EntriesAudited' /\ StatusIsAudited'
  BY <1>3, BooksFrame DEF bookVars
<1> QED
  BY <1>6, <1>7, <1>8, <1>9, <1>10, <1>11 DEF FundingInv

LEMMA FindOrCreateWalletKeeps ==
  ASSUME FundingInv, NEW c \in Calls, FindOrCreateWallet(c)
  PROVE  FundingInv'
<1> USE FundingDistinct
<1>1. PICK w \in UsableWallets(c) : wallet' = [wallet EXCEPT ![c] = w]
  BY DEF FindOrCreateWallet
<1>2. PICK p \in {"found", "cleared"} : pc' = [pc EXCEPT ![c] = p]
  BY DEF FindOrCreateWallet
<1>3. /\ pc[c] = "read" /\ verdict[c] = "approve"
      /\ UNCHANGED <<form, status, bookVars, target, verdict, basis, seen, lock>>
  BY DEF FindOrCreateWallet, portalVars
<1>4. /\ w \in WalletIds
      /\ w \in wallets \cup {c}
      /\ w # NoWallet
      /\ Opening \in wallets => w = Opening
  BY DEF FundingInv, TypeOK, WalletInv, OpeningWalletIsOnly, UsableWallets, WalletIds
<1>5. TypeOK' /\ PortalInv'
  BY <1>1, <1>2, <1>3, <1>4 DEF FundingInv, TypeOK, PortalInv, bookVars
<1>6. CallInv' /\ SeenInv' /\ TwiceOnlyInRace'
  BY <1>1, <1>2, <1>3, CallMoves DEF FundingInv, TypeOK, Working, bookVars
<1>7. WalletInv'
  BY <1>1, <1>2, <1>3, <1>4
  DEF FundingInv, TypeOK, WalletInv, OpeningWalletIsOnly, bookVars
<1> QED
  BY <1>3, <1>5, <1>6, <1>7, BooksFrame DEF FundingInv, bookVars

(* A step of a call at work that touches none of its wallet, its request   *)
(* and the books.                                                          *)
LEMMA CallStep ==
  ASSUME FundingInv, NEW c \in Calls, NEW p,
         pc' = [pc EXCEPT ![c] = p],
         \/ /\ pc[c] \in {"found", "cleared"}
            /\ p \in {"cleared", "decided", "refused"}
         \/ pc[c] = "read" /\ p = "decided" /\ verdict[c] = "reject"
         \/ pc[c] \in Working /\ p = "failed",
         UNCHANGED <<form, status, bookVars, target, verdict, wallet, seen>>,
         basis' \in [Calls -> SUBSET Entries],
         lock' \in [Requests -> Calls \cup {NoCall}]
  PROVE  FundingInv'
<1>1. TypeOK' /\ PortalInv'
  BY DEF FundingInv, TypeOK, PortalInv, Working, bookVars
<1>2. CallInv' /\ SeenInv' /\ TwiceOnlyInRace'
  BY CallMoves DEF FundingInv, CallInv, Working, bookVars
<1>3. WalletInv'
  BY DEF FundingInv, TypeOK, CallInv, WalletInv, OpeningWalletIsOnly, bookVars
<1> QED
  BY <1>1, <1>2, <1>3, BooksFrame DEF FundingInv, bookVars

LEMMA CheckBalanceKeeps ==
  ASSUME FundingInv, NEW c \in Calls, CheckBalance(c)
  PROVE  FundingInv'
<1>1. PICK p \in {"cleared", "refused"} : pc' = [pc EXCEPT ![c] = p]
  BY DEF CheckBalance
<1>2. basis' \in [Calls -> SUBSET Entries]
  BY DEF FundingInv, TypeOK, CheckBalance, EntriesOf
<1>3. lock' \in [Requests -> Calls \cup {NoCall}]
  BY DEF FundingInv, TypeOK, CheckBalance
<1>4. /\ pc[c] = "found"
      /\ UNCHANGED <<form, status, bookVars, target, verdict, wallet, seen>>
  BY DEF CheckBalance, portalVars
<1> QED
  BY <1>1, <1>2, <1>3, <1>4, CallStep

LEMMA DecideKeeps ==
  ASSUME FundingInv, NEW c \in Calls, Decide(c)
  PROVE  FundingInv'
<1>1. lock' \in [Requests -> Calls \cup {NoCall}]
  BY DEF FundingInv, TypeOK, Decide
<1> QED
  BY <1>1, CallStep DEF FundingInv, TypeOK, Decide, portalVars

LEMMA FailKeeps ==
  ASSUME FundingInv, NEW c \in Calls, Fail(c)
  PROVE  FundingInv'
<1>1. lock' \in [Requests -> Calls \cup {NoCall}]
  BY DEF FundingInv, TypeOK, Fail
<1> QED
  BY <1>1, CallStep DEF FundingInv, TypeOK, Fail, portalVars, Working

(* What both decisions do to the audit log, and what follows from it. *)
LEMMA CommitAudits ==
  ASSUME FundingInv, NEW c \in Calls, Commit(c), NEW row, audits' = audits \cup {row},
         row.by = c, row.request = target[c]
  PROVE  CallInv' /\ SeenInv' /\ TwiceOnlyInRace'
<1>1. /\ pc[c] = "decided"
      /\ pc' = [pc EXCEPT ![c] = "committed"]
      /\ UNCHANGED <<target, verdict, wallet, seen>>
  BY DEF Commit
<1>2. \A x \in Calls : pc'[x] = IF x = c THEN "committed" ELSE pc[x]
  BY <1>1 DEF FundingInv, TypeOK
<1>3. \A r \in Requests : status[r] # "none" => status'[r] # "none"
  BY DEF FundingInv, TypeOK, Commit
<1>4. \A x \in Calls : c \notin seen[x]
  BY <1>1 DEF FundingInv, SeenInv
<1>5. CallInv'
  BY <1>1, <1>2, <1>3, <1>4 DEF FundingInv, TypeOK, CallInv, Working
<1>6. \A a \in audits : a.by \in Calls /\ a.by # c
  BY <1>1 DEF FundingInv, TypeOK, AuditRows, SeenInv
<1>7. SeenInv'
  BY <1>1, <1>2, <1>6 DEF FundingInv, SeenInv
<1>8. TwiceOnlyInRace'
  BY <1>1, <1>4, <1>6 DEF FundingInv, CallInv, Working, TwiceOnlyInRace
<1> QED
  BY <1>5, <1>7, <1>8

LEMMA ApprovalKeeps ==
  ASSUME FundingInv, NEW c \in Calls, Commit(c), verdict[c] = "approve"
  PROVE  FundingInv'
<1> USE FundingAssumption, FundingDistinct
<1>1. PICK r \in Requests : r = target[c]
  BY DEF FundingInv, TypeOK, Commit
<1>2. PICK w \in wallets \cup {c} : w = wallet[c] /\ w # NoWallet
  BY DEF FundingInv, WalletInv, Commit
<1>3. PICK row : row = [action |-> "deposit.approve", request |-> r, by |-> c]
  OBVIOUS
<1>4. PICK e : e = [wallet |-> w, amount |-> Signed(r), request |-> r, by |-> c]
  OBVIOUS
<1>5. /\ status' = [status EXCEPT ![r] = "APPROVED"]
      /\ wallets' = wallets \cup {w}
      /\ entries' = entries \cup {e}
      /\ audits' = audits \cup {row}
      /\ pc' = [pc EXCEPT ![c] = "committed"]
      /\ lock' = [lock EXCEPT ![r] = NoCall]
      /\ UNCHANGED <<form, charged, target, verdict, wallet, basis, seen>>
  BY <1>1, <1>2, <1>3, <1>4 DEF Commit
<1>6. w \in WalletIds /\ c \in WalletIds /\ Signed(r) \in Int
  BY <1>2 DEF FundingInv, TypeOK, WalletIds, Signed
<1>7. /\ row \in AuditRows /\ row.by = c /\ row.request = r
      /\ row.action = "deposit.approve"
  BY <1>3 DEF AuditRows
<1>8. /\ e \in Entries /\ e.wallet = w /\ e.request = r
      /\ e.by = c /\ e.amount = Signed(r)
  BY <1>4, <1>6 DEF Entries
<1>9. TypeOK'
  BY <1>1, <1>5, <1>6, <1>7, <1>8 DEF FundingInv, TypeOK
<1>10. PortalInv'
  BY <1>1, <1>5 DEF FundingInv, TypeOK, PortalInv, CallInv, Working, Commit
<1>11. CallInv' /\ SeenInv' /\ TwiceOnlyInRace'
  BY <1>1, <1>5, <1>7, CommitAudits
<1>12. WalletInv'
  BY <1>2, <1>5, <1>8 DEF FundingInv, TypeOK, WalletInv, OpeningWalletIsOnly
<1>13. EntriesAudited'
  <2>1. ASSUME NEW x \in Requests \ {r}
        PROVE  /\ {d \in entries' : d.request = x} = {d \in entries : d.request = x}
               /\ {a \in audits' : a.request = x /\ a.action = "deposit.approve"} =
                    {a \in audits : a.request = x /\ a.action = "deposit.approve"}
               /\ status'[x] = status[x]
               /\ (\E a \in audits' : a.request = x) <=> (\E a \in audits : a.request = x)
    BY <1>5, <1>7, <1>8 DEF FundingInv, TypeOK
  <2>2. /\ {d \in entries' : d.request = r} = {d \in entries : d.request = r} \cup {e}
        /\ {a \in audits' : a.request = r /\ a.action = "deposit.approve"} =
             {a \in audits : a.request = r /\ a.action = "deposit.approve"} \cup {row}
        /\ status'[r] = "APPROVED"
    BY <1>5, <1>7, <1>8 DEF FundingInv, TypeOK
  <2>3. [by |-> e.by, amount |-> e.amount] = [by |-> row.by, amount |-> Signed(r)]
    BY <1>7, <1>8
  <2> SUFFICES ASSUME NEW x \in Requests
               PROVE  /\ {[by |-> d.by, amount |-> d.amount] :
                            d \in {d \in entries' : d.request = x}} =
                         {[by |-> a.by, amount |-> Signed(x)] :
                            a \in {a \in audits' : a.request = x
                                                    /\ a.action = "deposit.approve"}}
                      /\ status'[x] \in {"APPROVED", "REJECTED"}
                           <=> \E a \in audits' : a.request = x
    BY DEF EntriesAudited, Signed
  <2>4. /\ {[by |-> d.by, amount |-> d.amount] : d \in {d \in entries : d.request = x}} =
             {[by |-> a.by, amount |-> Signed(x)] :
                a \in {a \in audits : a.request = x /\ a.action = "deposit.approve"}}
        /\ status[x] \in {"APPROVED", "REJECTED"} <=> \E a \in audits : a.request = x
    BY DEF FundingInv, EntriesAudited
  <2>5. CASE x # r
    BY <2>1, <2>4, <2>5
  <2>6. CASE x = r
    BY <1>5, <1>7, <2>2, <2>3, <2>4, <2>6
  <2> QED
    BY <2>5, <2>6
<1>14. StatusIsAudited'
  BY <1>5, <1>8 DEF FundingInv, TypeOK, StatusIsAudited, Signed
<1> QED
  BY <1>9, <1>10, <1>11, <1>12, <1>13, <1>14 DEF FundingInv

LEMMA RejectionKeeps ==
  ASSUME FundingInv, NEW c \in Calls, Commit(c), verdict[c] = "reject"
  PROVE  FundingInv'
<1> USE FundingDistinct
<1>1. PICK r \in Requests : r = target[c]
  BY DEF FundingInv, TypeOK, Commit
<1>2. PICK row : row = [action |-> "deposit.reject", request |-> r, by |-> c]
  OBVIOUS
<1>3. /\ status' = [status EXCEPT ![r] = "REJECTED"]
      /\ audits' = audits \cup {row}
      /\ pc' = [pc EXCEPT ![c] = "committed"]
      /\ lock' = [lock EXCEPT ![r] = NoCall]
      /\ UNCHANGED <<form, wallets, entries, charged, target, verdict, wallet, basis, seen>>
  BY <1>1, <1>2 DEF Commit
<1>4. /\ row \in AuditRows /\ row.by = c /\ row.request = r
      /\ row.action = "deposit.reject"
  BY <1>2 DEF AuditRows
<1>5. TypeOK'
  BY <1>1, <1>3, <1>4 DEF FundingInv, TypeOK
<1>6. PortalInv'
  BY <1>1, <1>3 DEF FundingInv, TypeOK, PortalInv, CallInv, Working, Commit
<1>7. CallInv' /\ SeenInv' /\ TwiceOnlyInRace'
  BY <1>1, <1>3, <1>4, CommitAudits
<1>8. WalletInv'
  BY <1>3 DEF FundingInv, TypeOK, WalletInv, OpeningWalletIsOnly
<1>9. EntriesAudited'
  <2>1. ASSUME NEW x \in Requests
        PROVE  {a \in audits' : a.request = x /\ a.action = "deposit.approve"} =
                 {a \in audits : a.request = x /\ a.action = "deposit.approve"}
    BY <1>3, <1>4
  <2>2. ASSUME NEW x \in Requests
        PROVE  status'[x] \in {"APPROVED", "REJECTED"} <=> \E a \in audits' : a.request = x
    BY <1>3, <1>4 DEF FundingInv, TypeOK, EntriesAudited
  <2> QED
    BY <1>3, <2>1, <2>2 DEF FundingInv, EntriesAudited, Signed
<1>10. StatusIsAudited'
  BY <1>3, <1>4 DEF FundingInv, TypeOK, StatusIsAudited
<1> QED
  BY <1>5, <1>6, <1>7, <1>8, <1>9, <1>10 DEF FundingInv

-----------------------------------------------------------------------------
(* The invariant holds. *)

LEMMA FundingInitHolds == Init => FundingInv
<1> SUFFICES ASSUME Init PROVE FundingInv
  OBVIOUS
<1> USE FundingAssumption, FundingDistinct
<1>1. TypeOK
  BY DEF Init, TypeOK, WalletIds, Entries
<1>2. PortalInv /\ CallInv /\ SeenInv /\ StatusIsAudited /\ TwiceOnlyInRace
  BY DEF Init, PortalInv, CallInv, Working, SeenInv, StatusIsAudited, TwiceOnlyInRace
<1>3. WalletInv
  BY DEF Init, WalletInv, OpeningWalletIsOnly
<1>4. \A e \in entries : e.request \notin Requests
  BY DEF Init
<1>5. EntriesAudited
  BY <1>4 DEF Init, EntriesAudited
<1> QED
  BY <1>1, <1>2, <1>3, <1>5 DEF FundingInv

LEMMA FundingStep == FundingInv /\ [Next]_vars => FundingInv'
<1> SUFFICES ASSUME FundingInv, [Next]_vars PROVE FundingInv'
  OBVIOUS
<1>1. ASSUME NEW r \in Requests,
             CreateDepositRequest(r) \/ CheckWithdrawable(r) \/ CreateWithdrawalRequest(r)
      PROVE  FundingInv'
  BY <1>1, CreateDepositRequestKeeps, CheckWithdrawableKeeps, CreateWithdrawalRequestKeeps
<1>2. ASSUME NEW f \in Fills, ChargeCommission(f) PROVE FundingInv'
  BY <1>2, ChargeCommissionKeeps
<1>3. ASSUME NEW c \in Calls, ReadRequest(c) \/ FindOrCreateWallet(c) \/ CheckBalance(c)
      PROVE  FundingInv'
  BY <1>3, ReadRequestKeeps, FindOrCreateWalletKeeps, CheckBalanceKeeps
<1>4. ASSUME NEW c \in Calls, Decide(c) \/ Fail(c) PROVE FundingInv'
  BY <1>4, DecideKeeps, FailKeeps
<1>5. ASSUME NEW c \in Calls, Commit(c) PROVE FundingInv'
  <2>1. verdict[c] \in {"approve", "reject"}
    BY <1>5 DEF Commit
  <2> QED
    BY <1>5, <2>1, ApprovalKeeps, RejectionKeeps
<1>6. CASE UNCHANGED vars
  <2>1. TypeOK' /\ PortalInv'
    BY <1>6 DEF FundingInv, TypeOK, PortalInv, vars, portalVars, bookVars, callVars
  <2> QED
    BY <1>6, <2>1, CallsFrame, WalletFrame, BooksFrame
    DEF FundingInv, vars, portalVars, bookVars
<1> QED
  BY <1>1, <1>2, <1>3, <1>4, <1>5, <1>6 DEF Next

LEMMA FundingInvariant == Spec => []FundingInv
BY FundingInitHolds, FundingStep, PTL DEF Spec

(* Requests, wallets, entries, audit rows and calls stay of their types:   *)
(* no wallet that nobody made, no call at work without a request.          *)
THEOREM FundingTypeCorrect == Spec => []TypeOK
<1>1. FundingInv => TypeOK
  BY DEF FundingInv
<1> QED
  BY <1>1, FundingInvariant, PTL

(* An entry of a request is there just when an audited approval of it is,  *)
(* and a request is decided just when some audit row says so.              *)
THEOREM BooksMatchAudits == Spec => []EntriesAudited
<1>1. FundingInv => EntriesAudited
  BY DEF FundingInv
<1> QED
  BY <1>1, FundingInvariant, PTL

(* What an approved or rejected request shows was decided, and money moved *)
(* for an APPROVED one.                                                    *)
THEOREM ShownStatusAudited == Spec => []StatusIsAudited
<1>1. FundingInv => StatusIsAudited
  BY DEF FundingInv
<1> QED
  BY <1>1, FundingInvariant, PTL

(* Of two decisions of one request neither saw the other.                  *)
THEOREM DecidedTwiceOnlyInRace == Spec => []TwiceOnlyInRace
<1>1. FundingInv => TwiceOnlyInRace
  BY DEF FundingInv
<1> QED
  BY <1>1, FundingInvariant, PTL

-----------------------------------------------------------------------------
(* Who makes a wallet. *)

(* A call's own wallet is committed by that call; a call that makes one    *)
(* has seen none of the others, a fill makes one only as the first.        *)
RaceInv ==
  /\ \A w \in wallets \cap Calls : pc[w] = "committed" /\ wallet[w] = w
  /\ wallets \cap Fills \subseteq charged
  /\ \A v, w \in wallets \cap Fills : v = w
  /\ \A c \in Calls : seen[c] \cap Fills \subseteq charged
  /\ \A c \in Calls : wallet[c] = c => \A v \in wallets : v # c => v \notin seen[c]

LEMMA RaceFrame ==
  ASSUME RaceInv, UNCHANGED <<wallets, charged, wallet, seen>>,
         \A c \in Calls : pc[c] = "committed" => pc'[c] = "committed"
  PROVE  RaceInv'
BY DEF RaceInv

LEMMA RaceCharge ==
  ASSUME FundingInv, RaceInv, NEW f \in Fills, ChargeCommission(f)
  PROVE  RaceInv'
<1> USE FundingDistinct
<1>1. PICK w \in UsableWallets(f) : wallets' = wallets \cup {w}
  BY DEF ChargeCommission
<1>2. f \notin charged /\ charged' = charged \cup {f} /\ UNCHANGED <<pc, wallet, seen>>
  BY DEF ChargeCommission, callVars
<1>3. CASE wallets = {}
  <2>1. wallets' = {f}
    BY <1>1, <1>3 DEF UsableWallets
  <2>2. \A c \in Calls : f \notin seen[c]
    BY <1>2 DEF RaceInv
  <2>. QED BY <1>2, <2>1, <2>2 DEF RaceInv
<1>4. CASE wallets # {}
  <2>1. wallets' = wallets
    BY <1>1, <1>4 DEF UsableWallets
  <2>. QED BY <1>2, <2>1 DEF RaceInv
<1>. QED BY <1>3, <1>4

LEMMA RaceRead ==
  ASSUME FundingInv, RaceInv, NEW c \in Calls, ReadRequest(c)
  PROVE  RaceInv'
<1> USE FundingDistinct
<1>1. /\ pc[c] = "idle" /\ wallet[c] = NoWallet
      /\ UNCHANGED <<wallets, charged, wallet>>
  BY DEF ReadRequest, bookVars, FundingInv, CallInv
<1>2. \A x \in Calls : x # c => pc'[x] = pc[x] /\ seen'[x] = seen[x]
  BY DEF ReadRequest, FundingInv, TypeOK
<1>3. {a.by : a \in audits} \subseteq Calls
  BY DEF FundingInv, TypeOK, AuditRows
<1>4. seen'[c] = {a.by : a \in audits} \cup charged
  BY DEF ReadRequest, FundingInv, TypeOK
<1>5. seen'[c] \cap Fills \subseteq charged
  BY <1>3, <1>4
<1>6. c \notin wallets
  BY <1>1 DEF RaceInv
<1>7. wallet[c] # c
  BY <1>1
<1>. QED BY <1>1, <1>2, <1>5, <1>6, <1>7 DEF RaceInv

LEMMA RaceFind ==
  ASSUME FundingInv, RaceInv, NEW c \in Calls, FindOrCreateWallet(c)
  PROVE  RaceInv'
<1>1. pc[c] = "read" /\ UNCHANGED <<wallets, charged, seen>>
  BY DEF FindOrCreateWallet, bookVars
<1>2. PICK w \in UsableWallets(c) : wallet' = [wallet EXCEPT ![c] = w]
  BY DEF FindOrCreateWallet
<1>3. \A x \in Calls : /\ x # c => pc'[x] = pc[x] /\ wallet'[x] = wallet[x]
                       /\ x = c => wallet'[x] = w
  BY <1>2 DEF FindOrCreateWallet, FundingInv, TypeOK
<1>4. c \notin wallets
  BY <1>1 DEF RaceInv
<1>5. w = c => wallets = {}
  BY <1>2, <1>4 DEF UsableWallets
<1>. QED BY <1>1, <1>3, <1>4, <1>5 DEF RaceInv

LEMMA RaceCommit ==
  ASSUME FundingInv, RaceInv, NEW c \in Calls, Commit(c)
  PROVE  RaceInv'
<1> USE FundingDistinct
<1>1. pc[c] = "decided" /\ UNCHANGED <<charged, wallet, seen>>
  BY DEF Commit
<1>2. \A x \in Calls : pc'[x] = IF x = c THEN "committed" ELSE pc[x]
  BY DEF Commit, FundingInv, TypeOK
<1>3. \A x \in Calls : c \notin seen[x]
  BY <1>1 DEF FundingInv, SeenInv
<1>4. \/ wallets' = wallets
      \/ wallets' = wallets \cup {c} /\ wallet[c] = c
  <2>1. CASE verdict[c] = "approve"
    <3>1. wallets' = wallets \cup {wallet[c]}
      BY <2>1 DEF Commit
    <3>2. wallet[c] \in wallets \/ wallet[c] = c
      BY <1>1, <2>1 DEF FundingInv, WalletInv
    <3>3. wallet[c] \in wallets => wallets' = wallets
      BY <3>1
    <3>4. wallet[c] = c => wallets' = wallets \cup {c}
      BY <3>1
    <3>. QED BY <3>2, <3>3, <3>4
  <2>2. verdict[c] # "approve" => wallets' = wallets
    BY DEF Commit
  <2>. QED BY <2>1, <2>2
<1>5. CASE wallets' = wallets
  BY <1>1, <1>2, <1>5 DEF RaceInv
<1>6. CASE wallets' = wallets \cup {c} /\ wallet[c] = c
  <2>1. c \notin Fills
    OBVIOUS
  <2>2. wallets' \cap Fills = wallets \cap Fills
    BY <1>6, <2>1
  <2>3. \A w \in wallets' \cap Calls : pc'[w] = "committed" /\ wallet'[w] = w
    BY <1>1, <1>2, <1>6 DEF RaceInv
  <2>4. \A x \in Calls : wallet'[x] = x => \A v \in wallets' : v # x => v \notin seen'[x]
    BY <1>1, <1>3, <1>6 DEF RaceInv
  <2>. QED BY <1>1, <2>2, <2>3, <2>4 DEF RaceInv
<1>. QED BY <1>4, <1>5, <1>6

LEMMA RaceStep == FundingInv /\ RaceInv /\ [Next]_vars => RaceInv'
<1> SUFFICES ASSUME FundingInv, RaceInv, [Next]_vars PROVE RaceInv'
  OBVIOUS
<1>1. ASSUME NEW r \in Requests,
             CreateDepositRequest(r) \/ CheckWithdrawable(r) \/ CreateWithdrawalRequest(r)
      PROVE  RaceInv'
  BY <1>1, RaceFrame DEF CreateDepositRequest, CheckWithdrawable, CreateWithdrawalRequest,
                         bookVars, callVars
<1>2. ASSUME NEW f \in Fills, ChargeCommission(f) PROVE RaceInv'
  BY <1>2, RaceCharge
<1>3. ASSUME NEW c \in Calls, ReadRequest(c) \/ FindOrCreateWallet(c) \/ Commit(c)
      PROVE  RaceInv'
  BY <1>3, RaceRead, RaceFind, RaceCommit
<1>4. ASSUME NEW c \in Calls, CheckBalance(c) \/ Decide(c) \/ Fail(c) PROVE RaceInv'
  <2>1. UNCHANGED <<wallets, charged, wallet, seen>>
    BY <1>4 DEF CheckBalance, Decide, Fail, bookVars
  <2>2. pc[c] # "committed" /\ \A x \in Calls : x # c => pc'[x] = pc[x]
    BY <1>4 DEF CheckBalance, Decide, Fail, FundingInv, TypeOK
  <2>. QED BY <2>1, <2>2, RaceFrame
<1>5. CASE UNCHANGED vars
  BY <1>5, RaceFrame DEF vars, bookVars, callVars
<1>. QED BY <1>1, <1>2, <1>3, <1>4, <1>5 DEF Next

(* An opening wallet stays the only one, and whoever makes a second wallet *)
(* is an approval that began before the others were committed              *)
(* (ledger.repository.ts:30-49, deposits-admin.controller.ts:95-160).      *)
THEOREM SecondWalletNeedsRace == Spec => []SecondWalletOnlyInRace
<1>1. Init => RaceInv
  BY FundingDistinct DEF Init, RaceInv
<1>2. FundingInv /\ RaceInv => SecondWalletOnlyInRace
  <2> SUFFICES ASSUME FundingInv, RaceInv, NEW v \in wallets, NEW w \in wallets, v # w,
                      OpeningWalletIsOnly
               PROVE  /\ v \in Calls \/ w \in Calls
                      /\ w \in Calls => v \notin seen[w]
    BY DEF SecondWalletOnlyInRace, FundingInv, WalletInv
  <2>1. v # Opening /\ w # Opening
    BY DEF OpeningWalletIsOnly
  <2>2. v \in Calls \cup Fills /\ w \in Calls \cup Fills
    BY <2>1 DEF FundingInv, TypeOK, WalletIds
  <2>3. v \in Calls \/ w \in Calls
    BY <2>2 DEF RaceInv
  <2>4. w \in Calls => v \notin seen[w]
    BY DEF RaceInv
  <2>. QED BY <2>3, <2>4
<1>. QED BY <1>1, <1>2, FundingInvariant, RaceStep, PTL DEF Spec

-----------------------------------------------------------------------------
(* What an approval leaves behind, and what its balance check stood on.    *)

(* An entry of a request was committed by the call that approved it, and   *)
(* all the others are not by calls.                                        *)
EntryInv ==
  /\ IsFiniteSet(entries)
  /\ \A e \in entries : e.request \in Requests =>
       /\ e.by \in Calls
       /\ pc[e.by] = "committed"
       /\ verdict[e.by] = "approve"
       /\ e.wallet = wallet[e.by]
       /\ e.request = target[e.by]
       /\ e.amount = Signed(e.request)
  /\ \A e \in entries : e.request \notin Requests => e.by \notin Calls

(* A withdrawal that has passed its balance check is covered by the        *)
(* entries the check summed up, which are of its wallet and do not include *)
(* its own; and a check that saw another withdrawal saw all that one saw.  *)
BasisInv ==
  /\ \A c \in Calls : basis[c] \subseteq entries
  /\ \A c \in Calls : \A e \in basis[c] : e.by # c
  /\ \A c \in Calls :
       /\ pc[c] \in {"cleared", "decided", "committed"}
       /\ verdict[c] = "approve"
       /\ target[c] \notin Deposits
       => basis[c] \subseteq EntriesOf(wallet[c]) /\ Amount[target[c]] <= Total(basis[c])
  /\ \A c \in Calls : \A d \in basis[c] :
       d.request \in Requests \ Deposits => basis[d.by] \subseteq basis[c]

LedgerInv == FundingInv /\ EntryInv /\ BasisInv

LEMMA LedgerFrame ==
  ASSUME LedgerInv, UNCHANGED <<entries, callVars>>
  PROVE  EntryInv' /\ BasisInv'
BY DEF LedgerInv, EntryInv, BasisInv, EntriesOf, Signed, callVars

(* A call that moves on without a balance check and without a commit.      *)
LEMMA LedgerMoves ==
  ASSUME LedgerInv, NEW c \in Calls, NEW p,
         pc' = [pc EXCEPT ![c] = p],
         pc[c] # "committed", p # "committed",
         UNCHANGED <<entries, basis>>,
         \A x \in Calls \ {c} : /\ target'[x] = target[x]
                                /\ verdict'[x] = verdict[x]
                                /\ wallet'[x] = wallet[x],
         p \in {"cleared", "decided"} =>
           \/ verdict'[c] # "approve"
           \/ target'[c] \in Deposits
           \/ pc[c] = "cleared" /\ UNCHANGED <<target, verdict, wallet>>
  PROVE  EntryInv' /\ BasisInv'
<1>1. \A x \in Calls : pc'[x] = IF x = c THEN p ELSE pc[x]
  BY DEF LedgerInv, FundingInv, TypeOK
<1>2. EntryInv'
  BY <1>1 DEF LedgerInv, EntryInv, Signed
<1>3. BasisInv'
  BY <1>1 DEF LedgerInv, BasisInv, EntriesOf
<1> QED
  BY <1>2, <1>3

LEMMA ChargeKeepsLedger ==
  ASSUME LedgerInv, NEW f \in Fills, ChargeCommission(f)
  PROVE  EntryInv' /\ BasisInv'
<1> USE FundingDistinct
<1>1. PICK w : entries' = entries \cup {[wallet |-> w, amount |-> -Commission,
                                         request |-> NoRequest, by |-> f]}
  BY DEF ChargeCommission
<1>2. PICK row : /\ row = [wallet |-> w, amount |-> -Commission,
                           request |-> NoRequest, by |-> f]
                 /\ entries' = entries \cup {row}
  BY <1>1
<1>3. row.request = NoRequest /\ row.by = f
  BY <1>2
<1>4. UNCHANGED callVars
  BY DEF ChargeCommission
<1>5. IsFiniteSet(entries')
  BY <1>2, FS_AddElement DEF LedgerInv, EntryInv
<1>6. EntryInv'
  BY <1>2, <1>3, <1>4, <1>5 DEF LedgerInv, EntryInv, Signed, callVars
<1>7. BasisInv'
  BY <1>2, <1>4 DEF LedgerInv, BasisInv, EntriesOf, callVars
<1> QED
  BY <1>6, <1>7

LEMMA ReadKeepsLedger ==
  ASSUME LedgerInv, NEW c \in Calls, ReadRequest(c)
  PROVE  EntryInv' /\ BasisInv'
<1>1. PICK p \in {"read", "refused"} : pc' = [pc EXCEPT ![c] = p]
  BY DEF ReadRequest
<1>2. pc[c] = "idle" /\ UNCHANGED <<entries, basis, wallet>>
  BY DEF ReadRequest, bookVars
<1>3. \A x \in Calls \ {c} : target'[x] = target[x] /\ verdict'[x] = verdict[x]
  BY DEF LedgerInv, FundingInv, TypeOK, ReadRequest
<1> QED
  BY <1>1, <1>2, <1>3, LedgerMoves

LEMMA WalletKeepsLedger ==
  ASSUME LedgerInv, NEW c \in Calls, FindOrCreateWallet(c)
  PROVE  EntryInv' /\ BasisInv'
<1>1. PICK p \in {"found", "cleared"} :
        /\ pc' = [pc EXCEPT ![c] = p]
        /\ p = "cleared" => target[c] \in Deposits
  BY DEF FindOrCreateWallet
<1>2. pc[c] = "read" /\ UNCHANGED <<entries, basis, target, verdict>>
  BY DEF FindOrCreateWallet, bookVars
<1>3. \A x \in Calls \ {c} : wallet'[x] = wallet[x]
  BY DEF LedgerInv, FundingInv, TypeOK, FindOrCreateWallet
<1> QED
  BY <1>1, <1>2, <1>3, LedgerMoves

LEMMA BalanceKeepsLedger ==
  ASSUME LedgerInv, NEW c \in Calls, CheckBalance(c)
  PROVE  EntryInv' /\ BasisInv'
<1>1. PICK p \in {"cleared", "refused"} :
        /\ pc' = [pc EXCEPT ![c] = p]
        /\ p = "cleared" => Amount[target[c]] <= Total(EntriesOf(wallet[c]))
  BY DEF CheckBalance, Balance
<1>2. /\ pc[c] = "found"
      /\ basis' = [basis EXCEPT ![c] = EntriesOf(wallet[c])]
      /\ UNCHANGED <<entries, target, verdict, wallet>>
  BY DEF CheckBalance, bookVars
<1>3. \A x \in Calls : /\ pc'[x] = IF x = c THEN p ELSE pc[x]
                       /\ basis'[x] = IF x = c THEN EntriesOf(wallet[c]) ELSE basis[x]
  BY <1>1, <1>2 DEF LedgerInv, FundingInv, TypeOK
<1>4. EntryInv'
  BY <1>2, <1>3 DEF LedgerInv, EntryInv, Signed
<1>5. \A e \in entries : e.by # c
  BY <1>2 DEF LedgerInv, EntryInv
<1>6. \A x \in Calls : basis'[x] \subseteq entries' /\ \A e \in basis'[x] : e.by # x
  BY <1>2, <1>3, <1>5 DEF LedgerInv, BasisInv, EntriesOf
<1>7. ASSUME NEW x \in Calls, pc'[x] \in {"cleared", "decided", "committed"},
             verdict'[x] = "approve", target'[x] \notin Deposits
      PROVE  /\ basis'[x] \subseteq EntriesOf(wallet[x])'
             /\ Amount[target'[x]] <= Total(basis'[x])
  <2>1. CASE x = c
    <3>1. basis'[c] = EntriesOf(wallet[c]) /\ wallet' = wallet /\ target' = target
      BY <1>2, <1>3
    <3>2. EntriesOf(wallet[c])' = EntriesOf(wallet[c])
      BY <1>2 DEF EntriesOf
    <3>3. Amount[target[c]] <= Total(EntriesOf(wallet[c]))
      BY <1>1, <1>3, <1>7, <2>1
    <3> QED
      BY <2>1, <3>1, <3>2, <3>3
  <2>2. CASE x # c
    <3>1. pc'[x] = pc[x] /\ basis'[x] = basis[x]
      BY <1>3, <2>2
    <3>2. basis[x] \subseteq EntriesOf(wallet[x]) /\ Amount[target[x]] <= Total(basis[x])
      BY <1>2, <1>7, <3>1 DEF LedgerInv, BasisInv
    <3> QED
      BY <1>2, <3>1, <3>2 DEF EntriesOf
  <2> QED
    BY <2>1, <2>2
<1>8. ASSUME NEW x \in Calls, NEW d \in basis'[x], d.request \in Requests \ Deposits
      PROVE  basis'[d.by] \subseteq basis'[x]
  <2>1. d \in entries
    BY <1>2, <1>6
  <2>2. /\ d.by \in Calls /\ d.by # c /\ pc[d.by] = "committed"
        /\ verdict[d.by] = "approve" /\ target[d.by] = d.request
        /\ d.wallet = wallet[d.by]
    BY <1>5, <1>8, <2>1 DEF LedgerInv, EntryInv
  <2>3. /\ basis'[d.by] = basis[d.by]
        /\ basis[d.by] \subseteq {e \in entries : e.wallet = d.wallet}
    BY <1>3, <1>8, <2>2 DEF LedgerInv, BasisInv, EntriesOf
  <2>4. CASE x = c
    <3>1. basis'[x] = {e \in entries : e.wallet = wallet[c]}
      BY <1>3, <2>4 DEF EntriesOf
    <3>2. d.wallet = wallet[c]
      BY <3>1
    <3> QED
      BY <2>3, <3>1, <3>2
  <2>5. CASE x # c
    <3>1. basis'[x] = basis[x]
      BY <1>3, <2>5
    <3> QED
      BY <1>8, <2>3, <3>1 DEF LedgerInv, BasisInv
  <2> QED
    BY <2>4, <2>5
<1>9. BasisInv'
  BY <1>6, <1>7, <1>8 DEF BasisInv
<1> QED
  BY <1>4, <1>9

LEMMA CommitKeepsLedger ==
  ASSUME LedgerInv, NEW c \in Calls, Commit(c)
  PROVE  EntryInv' /\ BasisInv'
<1> USE FundingDistinct
<1>1. /\ pc[c] = "decided" /\ target[c] \in Requests
      /\ pc' = [pc EXCEPT ![c] = "committed"]
      /\ UNCHANGED <<target, verdict, wallet, basis>>
  BY DEF LedgerInv, FundingInv, TypeOK, Commit
<1>2. \A x \in Calls : pc'[x] = IF x = c THEN "committed" ELSE pc[x]
  BY <1>1 DEF LedgerInv, FundingInv, TypeOK
<1>3. CASE verdict[c] = "approve"
  <2>1. PICK row : /\ row = [wallet |-> wallet[c], amount |-> Signed(target[c]),
                             request |-> target[c], by |-> c]
                   /\ entries' = entries \cup {row}
    BY <1>3 DEF Commit
  <2>2. /\ row.wallet = wallet[c] /\ row.amount = Signed(target[c])
        /\ row.request = target[c] /\ row.by = c
    BY <2>1
  <2>3. IsFiniteSet(entries')
    BY <2>1, FS_AddElement DEF LedgerInv, EntryInv
  <2>4. EntryInv'
    BY <1>1, <1>2, <1>3, <2>1, <2>2, <2>3 DEF LedgerInv, EntryInv, Signed
  <2>5. BasisInv'
    BY <1>1, <1>2, <2>1 DEF LedgerInv, BasisInv, EntriesOf
  <2> QED
    BY <2>4, <2>5
<1>4. CASE verdict[c] = "reject"
  <2>1. entries' = entries
    BY <1>4 DEF Commit
  <2>2. EntryInv'
    BY <1>1, <1>2, <2>1 DEF LedgerInv, EntryInv, Signed
  <2>3. BasisInv'
    BY <1>1, <1>2, <1>4, <2>1 DEF LedgerInv, BasisInv, EntriesOf
  <2> QED
    BY <2>2, <2>3
<1>5. verdict[c] \in {"approve", "reject"}
  BY DEF Commit
<1> QED
  BY <1>3, <1>4, <1>5

LEMMA LedgerInit == Init => LedgerInv
<1> SUFFICES ASSUME Init PROVE EntryInv /\ BasisInv
  BY FundingInitHolds DEF LedgerInv
<1> USE FundingDistinct
<1>1. IsFiniteSet(entries)
  <2>1. entries = {} \/ \E e : entries = {e}
    BY DEF Init
  <2>2. \A e : IsFiniteSet({e})
    BY FS_Singleton
  <2> QED
    BY <2>1, <2>2, FS_EmptySet
<1>2. \A e \in entries : e.request = NoRequest /\ e.by = Opening
  BY DEF Init
<1>3. EntryInv
  BY <1>1, <1>2 DEF EntryInv
<1>4. BasisInv
  BY DEF Init, BasisInv
<1> QED
  BY <1>3, <1>4

LEMMA LedgerStep == LedgerInv /\ [Next]_vars => LedgerInv'
<1> SUFFICES ASSUME LedgerInv, [Next]_vars PROVE EntryInv' /\ BasisInv'
  BY FundingStep DEF LedgerInv
<1>1. ASSUME NEW r \in Requests,
             CreateDepositRequest(r) \/ CheckWithdrawable(r) \/ CreateWithdrawalRequest(r)
      PROVE  EntryInv' /\ BasisInv'
  <2>1. UNCHANGED <<entries, callVars>>
    BY <1>1 DEF CreateDepositRequest, CheckWithdrawable, CreateWithdrawalRequest, bookVars
  <2> QED
    BY <2>1, LedgerFrame
<1>2. ASSUME NEW f \in Fills, ChargeCommission(f) PROVE EntryInv' /\ BasisInv'
  BY <1>2, ChargeKeepsLedger
<1>3. ASSUME NEW c \in Calls, ReadRequest(c) \/ FindOrCreateWallet(c) \/ CheckBalance(c)
      PROVE  EntryInv' /\ BasisInv'
  BY <1>3, ReadKeepsLedger, WalletKeepsLedger, BalanceKeepsLedger
<1>4. ASSUME NEW c \in Calls, Decide(c) PROVE EntryInv' /\ BasisInv'
  BY <1>4, LedgerMoves DEF Decide, bookVars
<1>5. ASSUME NEW c \in Calls, Fail(c) PROVE EntryInv' /\ BasisInv'
  BY <1>5, LedgerMoves DEF Fail, bookVars
<1>6. ASSUME NEW c \in Calls, Commit(c) PROVE EntryInv' /\ BasisInv'
  BY <1>6, CommitKeepsLedger
<1>7. CASE UNCHANGED vars
  BY <1>7, LedgerFrame DEF vars, bookVars
<1> QED
  BY <1>1, <1>2, <1>3, <1>4, <1>5, <1>6, <1>7 DEF Next

LEMMA LedgerInvariant == Spec => []LedgerInv
BY LedgerInit, LedgerStep, PTL DEF Spec

-----------------------------------------------------------------------------
(* Balances. *)

Worth == [e \in Entries |-> e.amount]

(* The fold behind a total, one entry after the other. *)
Folded(g, S) ==
  g = [T \in SUBSET S |-> IF T = {} THEN 0 ELSE Pick(T).amount + g[T \ {Pick(T)}]]

LEMMA TotalIsSum ==
  ASSUME NEW S, S \subseteq Entries, IsFiniteSet(S)
  PROVE  Total(S) = SumOver(Worth, S)
<1>1. \A T \in SUBSET S : T # {} => Worth[Pick(T)] = Pick(T).amount
  BY PickOne DEF Worth
<1>2. \A g : SumsUp(g, Worth, S) <=> Folded(g, S)
  <2> SUFFICES ASSUME NEW g
               PROVE  [T \in SUBSET S |-> IF T = {} THEN 0 ELSE Worth[Pick(T)] + g[T \ {Pick(T)}]]
                    = [T \in SUBSET S |-> IF T = {} THEN 0 ELSE Pick(T).amount + g[T \ {Pick(T)}]]
    BY DEF SumsUp, Folded
  <2> QED
    BY <1>1
<1>3. PICK h : h = CHOOSE a : Folded(a, S)
  OBVIOUS
<1>4. SumsUp(h, Worth, S)
  BY <1>2, <1>3, SumsExist
<1>5. Total(S) = h[S]
  BY <1>3 DEF Total, MapThenSumSet, MapThenFoldSet, Folded, Pick
<1> QED
  BY <1>4, <1>5, SumIs

(* Of the withdrawals of a wallet one was checked last: if its check saw   *)
(* every other debit, what it saw and itself leave a balance, and nothing  *)
(* else can lower it.                                                      *)
LEMMA CoveredUnlessRaced == LedgerInv => OverdrawnOnlyInRace
<1> SUFFICES ASSUME LedgerInv, NEW w \in wallets, WithdrawalsOf(w) # {},
                    \A e \in WithdrawalsOf(w), d \in DebitsOf(w) :
                      d # e /\ d \notin basis[e.by] => d.by \in Calls /\ e \in basis[d.by]
             PROVE  ~(Balance(w) < 0)
  BY DEF OverdrawnOnlyInRace
<1> DEFINE Unseen(e) == entries \ basis[e.by]
           B == {Unseen(e) : e \in WithdrawalsOf(w)}
<1>1. IsFiniteSet(entries) /\ entries \subseteq Entries
  BY DEF LedgerInv, FundingInv, TypeOK, EntryInv
<1>2. PICK e \in WithdrawalsOf(w) : \A d \in WithdrawalsOf(w) :
        Unseen(d) \subseteq Unseen(e) => Unseen(d) = Unseen(e)
  <2>1. B \subseteq SUBSET entries /\ B # {}
    OBVIOUS
  <2>2. PICK X \in B : \A Y \in B : Y \subseteq X => Y = X
    <3> HIDE DEF B
    <3> QED
      BY <1>1, <2>1, SmallestPart
  <2>3. PICK e \in WithdrawalsOf(w) : X = Unseen(e)
    OBVIOUS
  <2>4. \A d \in WithdrawalsOf(w) : Unseen(d) \in B
    OBVIOUS
  <2> HIDE DEF Unseen, B
  <2> QED
    BY <2>2, <2>3, <2>4
<1>3. \A d \in entries : d.request \in Requests /\ d.amount < 0 => d.request \notin Deposits
  BY FundingAssumption DEF LedgerInv, EntryInv, Signed
<1>4. /\ e \in entries /\ e.wallet = w /\ e.amount < 0
      /\ e.request \in Requests \ Deposits
  BY <1>3 DEF WithdrawalsOf, DebitsOf, EntriesOf
<1>5. /\ e.by \in Calls /\ pc[e.by] = "committed" /\ verdict[e.by] = "approve"
      /\ wallet[e.by] = w /\ target[e.by] = e.request
      /\ e.amount = -Amount[e.request]
  BY <1>4 DEF LedgerInv, EntryInv, Signed
<1>6. /\ basis[e.by] \subseteq EntriesOf(w)
      /\ Amount[e.request] <= Total(basis[e.by])
      /\ e \notin basis[e.by]
  BY <1>4, <1>5 DEF LedgerInv, BasisInv
<1>7. ASSUME NEW d \in DebitsOf(w), d # e, d \notin basis[e.by]
      PROVE  FALSE
  <2>1. d.by \in Calls /\ e \in basis[d.by]
    BY <1>7
  <2>2. d \in entries /\ d.amount < 0 /\ d.request \in Requests
    BY <2>1 DEF DebitsOf, EntriesOf, LedgerInv, EntryInv
  <2>3. d \in WithdrawalsOf(w)
    BY <2>2 DEF WithdrawalsOf
  <2>4. basis[e.by] \subseteq basis[d.by]
    BY <1>4, <2>1 DEF LedgerInv, BasisInv
  <2>5. Unseen(d) = Unseen(e)
    BY <1>2, <2>3, <2>4
  <2> QED
    BY <1>4, <1>6, <2>1, <2>5
<1> HIDE DEF B, Unseen
<1>8. EntriesOf(w) \subseteq Entries /\ IsFiniteSet(EntriesOf(w))
  BY <1>1, FS_Subset DEF EntriesOf
<1>9. \A d \in EntriesOf(w) : Worth[d] = d.amount /\ Worth[d] \in Int
  BY <1>8 DEF Worth, Entries
<1>10. \A d \in EntriesOf(w) \ (basis[e.by] \cup {e}) : Worth[d] >= 0
  BY <1>7, <1>9 DEF DebitsOf
<1>11. e \in EntriesOf(w)
  BY <1>4 DEF EntriesOf
<1>12. SumOver(Worth, EntriesOf(w)) >= SumOver(Worth, basis[e.by] \cup {e})
  <2>1. basis[e.by] \cup {e} \subseteq EntriesOf(w)
    BY <1>6, <1>11
  <2> QED
    BY <1>8, <1>9, <1>10, <2>1, SumAtLeast
<1>13. SumOver(Worth, basis[e.by] \cup {e}) = SumOver(Worth, basis[e.by]) + e.amount
  BY <1>6, <1>8, <1>9, <1>11, SumAdd
<1>14. Total(basis[e.by]) = SumOver(Worth, basis[e.by]) /\ Total(basis[e.by]) \in Int
  <2>1. basis[e.by] \subseteq Entries /\ IsFiniteSet(basis[e.by])
    BY <1>6, <1>8, FS_Subset
  <2>2. \A d \in basis[e.by] : Worth[d] \in Int
    BY <1>6, <1>9
  <2> QED
    BY <2>1, <2>2, TotalIsSum, SumType
<1>15. Balance(w) = SumOver(Worth, EntriesOf(w)) /\ Balance(w) \in Int
  BY <1>8, <1>9, TotalIsSum, SumType DEF Balance
<1>16. Amount[e.request] \in Int
  BY <1>4, FundingAssumption
<1> QED
  BY <1>5, <1>6, <1>12, <1>13, <1>14, <1>15, <1>16

(* A wallet with withdrawals is overdrawn only where a debit passed by the *)
(* balance check of one of them.                                           *)
THEOREM OverdrawnNeedsRace == Spec => []OverdrawnOnlyInRace
BY CoveredUnlessRaced, LedgerInvariant, PTL

=============================================================================
