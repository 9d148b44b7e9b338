------------------------------ MODULE Reports ------------------------------
(***************************************************************************)
(* What the dashboards read: the queries of the broker portal, of the      *)
(* trades API and of the admin console over the books, and what the pages  *)
(* of the two frontends make of the answers.                               *)
(*                                                                         *)
(* A table is a sequence of rows and a row's serial id is its position, so *)
(* the ids of one broker have gaps where another broker's rows are.  The   *)
(* position is the row's timestamp, too.  An answer is the sequence of the *)
(* ids it holds, newest first.  Money is in whole units, a broker has one  *)
(* wallet, and names, labels, layout and formats are left out.             *)
(***************************************************************************)
EXTENDS Integers, Sequences, FiniteSets, FiniteSetsExt

CONSTANTS
  Accounts,    \* the brokers in the order of their creation ...
  ClosedBrokers, \* ... and those that have been removed
  Opening,     \* the opening credit of a broker
  FLOOR,       \* WITHDRAW_FLOOR
  Limit,       \* the LIMIT of each kind of list ...
  ROW_CAP,     \* ... and the most rows a caller may ask of a repository
  PAGE_SIZE,   \* rows on a page of a table
  Pushes,      \* mark-to-market calls of the upstream broker, ...
  Positions,   \* ... how many positions each one carries ...
  Floating,    \* ... and their totalPnl
  None

ASSUME ReportsAssumption ==
  /\ Accounts \in Seq({Accounts[k] : k \in DOMAIN Accounts})
  /\ \A j, k \in DOMAIN Accounts : Accounts[j] = Accounts[k] => j = k
  /\ ClosedBrokers \subseteq {Accounts[k] : k \in DOMAIN Accounts}
  /\ Opening \in Int
  /\ \A list \in DOMAIN Limit : Limit[list] \in Nat \ {0}
  /\ {"trades", "requests", "commissions", "transactions", "dashboard", "deposits", "audit",
      "recentTrades"} \subseteq DOMAIN Limit
  /\ ROW_CAP \in Nat
  /\ None \notin Int
  /\ None \notin Pushes

ASSUME PagesAssumption ==
  /\ PAGE_SIZE \in Nat \ {0}
  /\ {"abook", "wallet"} \subseteq DOMAIN Limit
  /\ Positions \in [Pushes -> Nat]

VARIABLES
  trades,      \* trading.trades with the charge of each trade
  entries,     \* ledger.ledger_entries
  requests,    \* ledger.deposit_requests
  audits,      \* audit.audit_logs
  snapshot     \* the push that `positions:<brokerId>` holds in Redis, or None

books == <<trades, entries, requests, audits, snapshot>>

Brokers == {Accounts[k] : k \in DOMAIN Accounts}

Sum(f(_), S) == SumFunction([x \in S |-> f(x)])

Ids(table, b) == {i \in DOMAIN table : table[i].broker = b}

RowsIn(answer) == {answer[k] : k \in DOMAIN answer}

-----------------------------------------------------------------------------
(* The queries of the broker API. *)

(* ORDER BY id DESC LIMIT n *)
Newest(S, n) ==
  [k \in 1..Min({n, Cardinality(S)}) |->
     CHOOSE i \in S : Cardinality({j \in S : j > i}) = k - 1]

(* A broker's users see their broker whatever they ask for; the LP's have  *)
(* to name one.  None is a refusal.                                        *)
Scope(user, requested) == IF user.role = "broker_user" THEN user.broker ELSE requested

MutFindTrades(q) ==
  Newest({i \in Ids(trades, q.broker) :
            /\ q.symbol \in {None, trades[i].symbol}
            /\ q.side \in {None, trades[i].side}
            /\ q.from = None \/ i >= q.from
            /\ q.to = None \/ i <= q.to
            /\ q.cursor = None \/ i <= q.cursor}, q.limit)

FindTrades(q) ==
  Newest({i \in Ids(trades, q.broker) :
            /\ q.symbol \in {None, trades[i].symbol}
            /\ q.side \in {None, trades[i].side}
            /\ q.from = None \/ i >= q.from
            /\ q.to = None \/ i < q.to
            /\ q.cursor = None \/ i <= q.cursor}, q.limit)

TradeQuery(b, cursor, limit) ==
  [broker |-> b, symbol |-> None, side |-> None, from |-> None, to |-> None,
   cursor |-> cursor, limit |-> limit]

(* A full page names the id below its last row as the next cursor. *)
MutListTrades(q) ==
  LET items == FindTrades(q)
  IN  [items |-> items,
       nextCursor |-> IF items # <<>> /\ Len(items) = q.limit
                      THEN items[Len(items)] ELSE None]

ListTrades(q) ==
  LET items == FindTrades(q)
  IN  [items |-> items,
       nextCursor |-> IF items # <<>> /\ Len(items) = q.limit
                      THEN items[Len(items)] - 1 ELSE None]

TradeDetail(user, i) ==
  IF /\ i \in DOMAIN trades
     /\ user.role = "broker_user" => trades[i].broker = user.broker
  THEN trades[i] ELSE None

Capped(n) == Min({Max({n, 1}), ROW_CAP})

ListLedger(b, limit) == Newest(Ids(entries, b), Capped(limit))

ListDepositRequests(b) == Newest(Ids(requests, b), Limit.requests)

Balance(b) == Sum(LAMBDA i : entries[i].amount, Ids(entries, b))

Withdrawable(b) == Max({0, Balance(b) - FLOOR})

Charged(b) == {i \in Ids(trades, b) : trades[i].fee > 0}

Fee(i) == trades[i].fee

CommissionItems(b) == Newest(Charged(b), Limit.commissions)

CommissionTotal(b) == Sum(Fee, Charged(b))

(* A close carries an id with "-C" behind it, `deal' is that id: the       *)
(* clientOrderId of the open leg, or the tradeId the LP gave that leg.  An *)
(* open leg has its clientOrderId here.  The dashboard looks among those;  *)
(* of several open legs with the id the one that was read last counts.     *)
OpenLeg(legs, deal) ==
  LET opens == {i \in legs : trades[i].deal = deal /\ trades[i].leg = "OPEN"}
  IN  {i \in opens : \A j \in opens : j <= i}

Direction(i) == IF trades[i].side = "BUY" THEN 1 ELSE -1

(* A close among the legs counts if its open is, at the open's quantity. *)
RawPnl(legs) ==
  Sum(LAMBDA c :
        Sum(LAMBDA o : (trades[c].price - trades[o].price) * trades[o].qty * Direction(o),
            OpenLeg(legs, trades[c].deal)),
      {i \in legs : trades[i].leg = "CLOSE"})

FloatingPnl(s) == IF s = None THEN 0 ELSE Floating[s]

(* The answer of the dashboard from what its queries gave. *)
DashboardAnswer(balance, charges, raw, floating) ==
  [balance |-> balance, totalEquity |-> balance,
   freeMargin |-> Max({0, balance - FLOOR}), withdrawable |-> Max({0, balance - FLOOR}),
   totalCharges |-> charges, rawPnl |-> raw, netPnl |-> raw - charges,
   floatingPnl |-> floating]

-----------------------------------------------------------------------------
(* The queries of the admin console. *)

Roster == [b \in Brokers \ ClosedBrokers |-> Balance(b)]

TotalBalance == Sum(LAMBDA i : entries[i].amount, DOMAIN entries)

(* The "PnL" of the console is what entries of type TRADE moved. *)
TotalPnl ==
  Sum(LAMBDA i : entries[i].amount, {i \in DOMAIN entries : entries[i].type = "TRADE"})

TotalCommission == Sum(Fee, DOMAIN trades)

RecentBrokers ==
  {Accounts[k] : k \in {j \in DOMAIN Accounts : j > Len(Accounts) - Limit.recent}}

ABookTrades == Newest(DOMAIN trades, Limit.abook)

Instruments ==
  LET Of(s) == {i \in DOMAIN trades : trades[i].symbol = s}
  IN  [s \in {trades[i].symbol : i \in DOMAIN trades} |->
         [trades |-> Cardinality(Of(s)), lastPrice |-> trades[Max(Of(s))].price]]

TradesTotal == Len(trades)

AdminDeposits(status) ==
  Newest({i \in DOMAIN requests : status \in {None, requests[i].status}}, Limit.deposits)

AuditLogs(q) ==
  Newest({i \in DOMAIN audits :
            /\ q.action \in {None, audits[i].action}
            /\ q.resource \in {None, audits[i].request}
            /\ q.from = None \/ i >= q.from
            /\ q.to = None \/ i < q.to}, q.limit)

-----------------------------------------------------------------------------
(* What the pages make of the answers. *)

(* The rows of a page; a page beyond the last one shows the last one. *)
TotalPages(rows) == Max({1, (Len(rows) + PAGE_SIZE - 1) \div PAGE_SIZE})

MutCurrentPage(rows, page) == page

CurrentPage(rows, page) == Min({page, TotalPages(rows)})

Paginate(rows, page) ==
  LET current == CurrentPage(rows, page)
  IN  SubSeq(rows, (current - 1) * PAGE_SIZE + 1, Min({Len(rows), current * PAGE_SIZE}))

(* The date fields of a page take whole days, the last one included.  A    *)
(* day has one row here.                                                   *)
InRange(v, i) == (v.from = None \/ i >= v.from) /\ (v.to = None \/ i <= v.to)

(* What a row shows that the buttons, menus and search fields of its page  *)
(* can ask for: v.pick holds what is asked for, {} is "all".               *)
TradeTags(i) == {trades[i].side, trades[i].leg, trades[i].symbol, trades[i].user}

ABookTags(i) == {trades[i].leg, trades[i].user}

EntryTags(i) == {IF entries[i].amount >= 0 THEN "credit" ELSE "debit"}

Selected(v, i) ==
  CASE v.screen = "trades" -> InRange(v, i) /\ v.pick \subseteq TradeTags(i)
    [] v.screen = "transactions" -> InRange(v, i) /\ v.pick \subseteq EntryTags(i)
    [] v.screen = "a-book" -> v.pick \subseteq ABookTags(i)
    [] v.screen = "positions" -> TRUE
    [] OTHER -> InRange(v, i)

(* rows.filter keeps the rows at some places, in their order. *)
Keep(rows, places) ==
  [n \in 1..Cardinality(places) |->
     rows[CHOOSE k \in places : Cardinality({j \in places : j < k}) = n - 1]]

Filtered(v) == Keep(v.rows, {k \in DOMAIN v.rows : Selected(v, v.rows[k])})

(* buildPnlMap looks for the open leg under the tradeId the LP gave it.    *)
TradeId(i) == i

PagePnl(rows, c) ==
  IF trades[c].leg = "OPEN" THEN 0
  ELSE Sum(LAMBDA o : (trades[c].price - trades[o].price) * trades[c].qty * Direction(o),
           {o \in RowsIn(rows) : TradeId(o) = trades[c].deal})

TradesPage(rows) ==
  LET pnl(i) == PagePnl(rows, i)
      volume(i) == trades[i].qty
      S == RowsIn(rows)
  IN  [count |-> Len(rows), volume |-> Sum(volume, S), charges |-> Sum(Fee, S),
       net |-> Sum(pnl, S) - Sum(Fee, S),
       buys |-> Cardinality({i \in S : trades[i].side = "BUY"}),
       sells |-> Len(rows) - Cardinality({i \in S : trades[i].side = "BUY"})]

(* The dashboard counts the trades it has fetched and shows the newest. *)
DashboardPage(rows) ==
  [count |-> Len(rows), volume |-> Sum(LAMBDA i : trades[i].qty, RowsIn(rows)),
   recent |-> SubSeq(rows, 1, Min({Limit.recentTrades, Len(rows)}))]

ChargesPage(rows) == [total |-> Sum(Fee, RowsIn(rows)), count |-> Len(rows)]

TransactionsPage(rows) ==
  LET credits == Sum(LAMBDA i : entries[i].amount,
                     {i \in RowsIn(rows) : entries[i].amount >= 0})
      debits == Sum(LAMBDA i : -entries[i].amount,
                    {i \in RowsIn(rows) : entries[i].amount < 0})
  IN  [count |-> Len(rows), credits |-> credits, debits |-> debits, net |-> credits - debits]

ABookPage(rows) ==
  [count |-> Len(rows), volume |-> Sum(LAMBDA i : trades[i].qty, RowsIn(rows)),
   buys |-> Cardinality({i \in RowsIn(rows) : trades[i].side = "BUY"})]

DepositsPage(rows) ==
  LET pending == {i \in RowsIn(rows) : requests[i].status = "PENDING"}
  IN  [showing |-> Len(rows), pending |-> Cardinality(pending),
       amount |-> Sum(LAMBDA i : requests[i].amount, pending)]

(* The exports: one line for each row of the list as it is filtered, on    *)
(* whatever page the reader is.                                            *)
TradesPdf(v) == [k \in DOMAIN Filtered(v) |-> trades[Filtered(v)[k]]]

ChargesPdf(v) == [lines |-> Filtered(v), total |-> ChargesPage(Filtered(v)).total]

TransactionsPdf(v) == [k \in DOMAIN Filtered(v) |-> entries[Filtered(v)[k]]]

WalletPdf(v) == [k \in DOMAIN Filtered(v) |-> requests[Filtered(v)[k]]]

BuildCsv(rows) == [k \in DOMAIN rows |-> audits[rows[k]]]

Export(v) ==
  CASE v.screen = "trades" -> TradesPdf(v)
    [] v.screen = "charges" -> ChargesPdf(v).lines
    [] v.screen = "transactions" -> TransactionsPdf(v)
    [] v.screen = "requests" -> WalletPdf(v)
    [] v.screen = "audit" -> BuildCsv(v.rows)
    [] OTHER -> Filtered(v)
=============================================================================
