------------------------------- MODULE Portal -------------------------------
(***************************************************************************)
(* The dashboards at work: orders are filled and admins decide requests    *)
(* while a client pages through the trades, handlers of several queries    *)
(* run, a broker submits requests on the wallet page, the upstream broker  *)
(* pushes its positions, and tables are filtered and paged.                *)
(*                                                                         *)
(* A fill and a decision are one step each: their transactions are the     *)
(* subject of OrderPipeline and FundingRequests.                           *)
(*                                                                         *)
(* Reading changes nothing, and the feed and the wallet page's forms share *)
(* no state but the books: so a behaviour watches one part of the portal,  *)
(* `part', and in it one reader stands for all.                            *)
(***************************************************************************)
EXTENDS Reports

CONSTANTS
  Legs,         \* trades that may be executed
  Home,         \* the broker of the web pages, the requests and the pushes
  Users,        \* who reads
  Amount,       \* the amount of a request, by kind
  PageLimits,   \* the limits of a client that pages
  Filters,      \* what a reader sets in the fields of a table
  MaxWrites,    \* bounds for each part: fills, requests and pushes, ...
  MaxRequests,  \* ... and requests alone, ...
  MaxPosts      \* ... and for the submissions of the wallet page

Kinds == DOMAIN Amount

ASSUME PortalAssumption ==
  /\ \A l \in Legs : /\ l # None /\ l.broker \in Brokers
                     /\ l.fee \in Nat /\ l.price \in Nat /\ l.qty \in Nat
  /\ Home \in Brokers
  /\ Kinds \subseteq {"deposit", "withdrawal"}
  /\ \A k \in Kinds : Amount[k] \in Nat
  /\ PageLimits \subseteq Nat \ {0}

VARIABLES
  part,     \* the part that is watched
  reader,   \* a call of the API that reads, or NoReader
  view,     \* a page with a table, or NoView
  form,     \* the deposit and the withdrawal form of the wallet page
  posts,    \* the submissions it has sent
  list,     \* its cached list of requests
  push,     \* where the handler of each push is
  before,   \* the pushes that were answered before each push was received
  event     \* the last push sent to the broker's websocket room, or None

pageVars == <<form, posts, list>>
feedVars == <<push, before, event>>
portalVars == <<part, books, reader, view, pageVars, feedVars>>

NoReader == [op |-> None]
NoView == [screen |-> None]

Parts == {"calls", "tables", "wallet", "feed"}

(* Requests come from the watched page and from elsewhere. *)
Unsent == {p \in DOMAIN posts : posts[p].row = None}

Requested == Len(requests) + Cardinality(Unsent)

MayWrite ==
  Len(trades) + Requested + Cardinality({p \in Pushes : push[p] # "idle"}) < MaxWrites[part]

MayRequest == MayWrite /\ Requested < MaxRequests[part]

-----------------------------------------------------------------------------
PortalInit ==
  /\ part \in Parts
  /\ trades = <<>>
  /\ entries = [k \in DOMAIN Accounts |->
                  [broker |-> Accounts[k], amount |-> Opening, type |-> "DEPOSIT"]]
  /\ requests = <<>>
  /\ audits = <<>>
  /\ snapshot = None
  /\ reader = NoReader
  /\ view = NoView
  /\ form = [k \in Kinds |-> [open |-> FALSE, pending |-> None, intent |-> 1]]
  /\ posts = <<>>
  /\ list = [rows |-> <<>>, fetch |-> "sent", got |-> <<>>,
             data |-> FALSE, invalid |-> FALSE, early |-> FALSE]
  /\ push = [p \in Pushes |-> "idle"]
  /\ before = [p \in Pushes |-> {}]
  /\ event = None

-----------------------------------------------------------------------------
(* The books grow. *)

MutFill(l) ==
  /\ l \notin {trades[i] : i \in DOMAIN trades}
  /\ MayWrite
  /\ trades' = Append(trades, l)
  /\ entries' = Append(entries, [broker |-> l.broker, amount |-> l.fee, type |-> "CHARGE"])
  /\ UNCHANGED <<part, requests, audits, snapshot, reader, view, pageVars, feedVars>>

(* A fill records the trade, its charge and the debit of the charge. *)
Fill(l) ==
  /\ l \notin {trades[i] : i \in DOMAIN trades}
  /\ MayWrite
  /\ trades' = Append(trades, l)
  /\ entries' = IF l.fee > 0
                THEN Append(entries, [broker |-> l.broker, amount |-> -l.fee, type |-> "CHARGE"])
                ELSE entries
  /\ UNCHANGED <<part, requests, audits, snapshot, reader, view, pageVars, feedVars>>

(* A request that another browser submits. *)
PostRequest(k) ==
  /\ MayRequest
  /\ k = "withdrawal" => Amount[k] <= Withdrawable(Home)
  /\ requests' = Append(requests, [broker |-> Home, kind |-> k, amount |-> Amount[k],
                                   status |-> "PENDING"])
  /\ UNCHANGED <<part, trades, entries, audits, snapshot, reader, view, pageVars, feedVars>>

Approve(i) ==
  /\ requests[i].status = "PENDING"
  /\ requests[i].kind = "withdrawal" => Balance(requests[i].broker) >= requests[i].amount
  /\ requests' = [requests EXCEPT ![i].status = "APPROVED"]
  /\ entries' = Append(entries,
       IF requests[i].kind = "withdrawal"
       THEN [broker |-> requests[i].broker, amount |-> -requests[i].amount, type |-> "WITHDRAWAL"]
       ELSE [broker |-> requests[i].broker, amount |-> requests[i].amount, type |-> "DEPOSIT"])
  /\ audits' = Append(audits, [action |-> "deposit.approve", request |-> i])
  /\ UNCHANGED <<part, trades, snapshot, reader, view, pageVars, feedVars>>

Reject(i) ==
  /\ requests[i].status = "PENDING"
  /\ requests' = [requests EXCEPT ![i].status = "REJECTED"]
  /\ audits' = Append(audits, [action |-> "deposit.reject", request |-> i])
  /\ UNCHANGED <<part, trades, entries, snapshot, reader, view, pageVars, feedVars>>

-----------------------------------------------------------------------------
(* A call that reads.  Its queries run one after the other, outside of any *)
(* transaction; `at' remembers how long the books were at each.            *)

Ask(op, user, requested, limit) ==
  /\ reader = NoReader
  /\ Scope(user, requested) # None
  /\ reader' = [op |-> op, user |-> user, broker |-> Scope(user, requested), limit |-> limit,
                cursor |-> None, got |-> <<>>, at |-> <<>>, more |-> TRUE]
  /\ UNCHANGED <<part, books, view, pageVars, feedVars>>

MutQueries ==
  [commissions |-> <<"items", "total">>,
   dashboard |-> <<"balance", "legs", "charges", "snapshot">>,
   console |-> <<"brokersCount", "totalBalance", "totalPnl", "totalCommission", "recent">>]

Queries ==
  [commissions |-> <<"items", "total">>,
   dashboard |-> <<"balance", "charges", "legs", "snapshot">>,
   console |-> <<"brokersCount", "totalBalance", "totalPnl", "totalCommission", "recent">>]

Commissions(query, b) ==
  CASE query = "items" -> CommissionItems(b)
    [] query = "total" -> CommissionTotal(b)

Dashboard(query, b) ==
  CASE query = "balance" -> Balance(b)
    [] query = "charges" -> CommissionTotal(b)
    [] query = "legs" -> Ids(trades, b)
    [] query = "snapshot" -> snapshot

ConsoleDashboard(query) ==
  CASE query = "brokersCount" -> Len(Accounts)
    [] query = "totalBalance" -> TotalBalance
    [] query = "totalPnl" -> TotalPnl
    [] query = "totalCommission" -> TotalCommission
    [] query = "recent" -> [b \in RecentBrokers |-> Balance(b)]

Result(op, query, b) ==
  CASE op = "commissions" -> Commissions(query, b)
    [] op = "dashboard" -> Dashboard(query, b)
    [] op = "console" -> ConsoleDashboard(query)

Now == [trades |-> Len(trades), entries |-> Len(entries)]

(* The answers so far and one more. *)
With(answers, query, answer) ==
  [q \in DOMAIN answers \cup {query} |-> IF q = query THEN answer ELSE answers[q]]

RunQuery ==
  /\ reader.op \in DOMAIN Queries
  /\ reader.more
  /\ LET k == Cardinality(DOMAIN reader.got) + 1
         query == Queries[reader.op][k]
     IN  reader' = [reader EXCEPT !.got = With(@, query, Result(reader.op, query, reader.broker)),
                                  !.at = With(@, query, Now),
                                  !.more = k < Len(Queries[reader.op])]
  /\ UNCHANGED <<part, books, view, pageVars, feedVars>>

(* A page of the trades API.  The client, a broker's own program, follows  *)
(* nextCursor until there is none; none of the repository's pages does.    *)
ReadPage ==
  /\ reader.op = "trades"
  /\ reader.more
  /\ LET page == ListTrades(TradeQuery(reader.broker, reader.cursor, reader.limit))
     IN  reader' = [reader EXCEPT !.got = @ \o page.items, !.at = Append(@, Now),
                                  !.cursor = page.nextCursor,
                                  !.more = page.nextCursor # None]
  /\ UNCHANGED <<part, books, view, pageVars, feedVars>>

Leave ==
  /\ reader # NoReader
  /\ ~reader.more
  /\ reader' = NoReader
  /\ UNCHANGED <<part, books, view, pageVars, feedVars>>

-----------------------------------------------------------------------------
(* A page with a table. *)

Screens == {"trades", "charges", "transactions", "wallet", "requests", "positions", "a-book",
            "deposits", "audit"}

ASSUME ScreensAssumption == None \notin Screens \cup DOMAIN Queries

(* What the fields above a table offer beside the dates. *)
Offered(screen) ==
  CASE screen = "trades" ->
         {"BUY", "SELL", "OPEN", "CLOSE"} \cup UNION {{l.symbol, l.user} : l \in Legs}
    [] screen = "transactions" -> {"credit", "debit"}
    [] screen = "a-book" -> {"OPEN", "CLOSE"} \cup {l.user : l \in Legs}
    [] screen = "deposits" -> {"PENDING", "APPROVED", "REJECTED"}
    [] screen = "audit" -> {"deposit.approve", "deposit.reject"}
    [] OTHER -> {}

ASSUME FiltersAssumption ==
  /\ \A f \in Filters : f.from \in Nat \cup {None} /\ f.to \in Nat \cup {None}
  /\ None \notin {"deposit.approve", "deposit.reject"}

(* The one value a query is restricted to, or None. *)
Only(pick) == IF pick = {} THEN None ELSE CHOOSE x \in pick : TRUE

(* The answer for a page with the fields f; only two pages send theirs. *)
Answer(screen, f) ==
  CASE screen = "trades" -> FindTrades(TradeQuery(Home, None, Limit.trades))
    [] screen = "charges" -> CommissionItems(Home)
    [] screen = "transactions" -> ListLedger(Home, Limit.transactions)
    [] screen = "wallet" -> ListLedger(Home, Limit.wallet)
    [] screen = "requests" -> ListDepositRequests(Home)
    [] screen = "positions" -> [k \in 1..(IF snapshot = None THEN 0 ELSE Positions[snapshot]) |-> k]
    [] screen = "a-book" -> ABookTrades
    [] screen = "deposits" -> AdminDeposits(Only(f.pick))
    [] screen = "audit" -> AuditLogs([action |-> Only(f.pick), resource |-> None,
                                      from |-> f.from, to |-> f.to, limit |-> Limit.audit])

NoFilter == [from |-> None, to |-> None, pick |-> {}]

Open(screen) ==
  /\ view = NoView
  /\ view' = [screen |-> screen, rows |-> Answer(screen, NoFilter), from |-> None, to |-> None,
              pick |-> {}, page |-> 1]
  /\ UNCHANGED <<part, books, reader, pageVars, feedVars>>

(* The blotter polls, the lists of requests are fetched again after a      *)
(* change: the reader stays on the page with that number.                  *)
Refetch ==
  /\ view.screen \in {"positions", "requests", "deposits"}
  /\ view' = [view EXCEPT !.rows = Answer(view.screen, view)]
  /\ UNCHANGED <<part, books, reader, pageVars, feedVars>>

(* Each field of the forms above a table leads back to its first page, ... *)
SetFilter(f) ==
  /\ view.screen \notin {None, "positions", "deposits", "audit"}
  /\ f.pick \subseteq Offered(view.screen)
  /\ view' = [view EXCEPT !.from = f.from, !.to = f.to, !.pick = f.pick, !.page = 1]
  /\ UNCHANGED <<part, books, reader, pageVars, feedVars>>

(* ... but the Clear button of the wallet page. *)
ClearDates ==
  /\ view.screen \in {"wallet", "requests"}
  /\ view.from # None \/ view.to # None
  /\ view' = [view EXCEPT !.from = None, !.to = None]
  /\ UNCHANGED <<part, books, reader, pageVars, feedVars>>

(* The menu of the deposits page and the form of the audit page lead to a  *)
(* query of their own; a menu and a field hold one value, and the deposits *)
(* page has no dates.                                                      *)
Requery(f) ==
  /\ view.screen \in {"deposits", "audit"}
  /\ f.pick \subseteq Offered(view.screen)
  /\ \A x, y \in f.pick : x = y
  /\ view.screen = "deposits" => f.from = None /\ f.to = None
  /\ view' = [view EXCEPT !.from = f.from, !.to = f.to, !.pick = f.pick,
                          !.rows = Answer(view.screen, f)]
  /\ UNCHANGED <<part, books, reader, pageVars, feedVars>>

Paged == {"trades", "charges", "wallet", "requests", "positions", "a-book"}

NextPage ==
  /\ view.screen \in Paged
  /\ CurrentPage(Filtered(view), view.page) < TotalPages(Filtered(view))
  /\ view' = [view EXCEPT !.page = @ + 1]
  /\ UNCHANGED <<part, books, reader, pageVars, feedVars>>

MutPrevPage ==
  /\ view.screen \in Paged
  /\ view' = [view EXCEPT !.page = @ - 1]
  /\ UNCHANGED <<part, books, reader, pageVars, feedVars>>

PrevPage ==
  /\ view.screen \in Paged
  /\ CurrentPage(Filtered(view), view.page) > 1
  /\ view' = [view EXCEPT !.page = Max({1, @ - 1})]
  /\ UNCHANGED <<part, books, reader, pageVars, feedVars>>

Close ==
  /\ view # NoView
  /\ view' = NoView
  /\ UNCHANGED <<part, books, reader, pageVars, feedVars>>

-----------------------------------------------------------------------------
(* The forms of the wallet page. *)

(* A button opens or closes its form and closes the other one. *)
Toggle(k) ==
  /\ form' = [x \in Kinds |-> [form[x] EXCEPT !.open = (x = k) /\ ~form[x].open]]
  /\ UNCHANGED <<part, books, reader, view, posts, list, feedVars>>

(* The button is disabled while a submission is under way.  The withdrawal *)
(* form also compares the amount with a cached balance, which says nothing *)
(* about the one the server will see.                                      *)
CanSubmit(k) == form[k].open /\ form[k].pending = None

(* The amount in the form is what the reader wants until it is accepted:   *)
(* its intent.                                                             *)
MutSubmit(k) ==
  /\ form[k].open
  /\ MayRequest /\ Len(posts) < MaxPosts
  /\ posts' = Append(posts, [kind |-> k, intent |-> form[k].intent, stage |-> "sent",
                             row |-> None, lost |-> FALSE, told |-> FALSE])
  /\ form' = [form EXCEPT ![k].pending = Len(posts) + 1]
  /\ UNCHANGED <<part, books, reader, view, list, feedVars>>

Submit(k) ==
  /\ CanSubmit(k)
  /\ MayRequest /\ Len(posts) < MaxPosts
  /\ posts' = Append(posts, [kind |-> k, intent |-> form[k].intent, stage |-> "sent",
                             row |-> None, lost |-> FALSE, told |-> FALSE])
  /\ form' = [form EXCEPT ![k].pending = Len(posts) + 1]
  /\ UNCHANGED <<part, books, reader, view, list, feedVars>>

(* The server inserts the request ... *)
CreateRequest(p) ==
  /\ posts[p].stage = "sent"
  /\ posts[p].kind = "withdrawal" => Amount[posts[p].kind] <= Withdrawable(Home)
  /\ requests' = Append(requests, [broker |-> Home, kind |-> posts[p].kind,
                                   amount |-> Amount[posts[p].kind], status |-> "PENDING"])
  /\ posts' = [posts EXCEPT ![p].stage = "inserted", ![p].row = Len(requests) + 1]
  /\ UNCHANGED <<part, trades, entries, audits, snapshot, reader, view, form, list, feedVars>>

(* ... or refuses to withdraw more than is above the floor. *)
RefuseRequest(p) ==
  /\ posts[p].stage = "sent"
  /\ posts[p].kind = "withdrawal"
  /\ Amount[posts[p].kind] > Withdrawable(Home)
  /\ posts' = [posts EXCEPT ![p].stage = "refused"]
  /\ UNCHANGED <<part, books, reader, view, form, list, feedVars>>

(* The answer closes the form, and the list is invalidated: a fetch that   *)
(* is under way is dropped and a new one sent, but the first one of the    *)
(* page is kept as long as there is no data, and its answer counts for the *)
(* new one.  `early' remembers that it had been read by then.              *)
Succeed(p) ==
  /\ form[posts[p].kind].pending = p
  /\ posts[p].stage = "inserted"
  /\ form' = [form EXCEPT ![posts[p].kind] =
                [open |-> FALSE, pending |-> None, intent |-> @.intent + 1]]
  /\ posts' = [posts EXCEPT ![p].told = TRUE]
  /\ list' = IF ~list.data /\ list.fetch # "none"
             THEN [list EXCEPT !.invalid = TRUE, !.early = @ \/ list.fetch = "read"]
             ELSE [list EXCEPT !.invalid = TRUE, !.fetch = "sent", !.got = <<>>]
  /\ UNCHANGED <<part, books, reader, view, feedVars>>

(* An error, or ten seconds without an answer: the form keeps what was     *)
(* typed, and the server goes on with a submission that it still has.      *)
Fail(p) ==
  /\ form[posts[p].kind].pending = p
  /\ form' = [form EXCEPT ![posts[p].kind].pending = None]
  /\ posts' = [posts EXCEPT ![p].lost = posts[p].stage # "refused"]
  /\ UNCHANGED <<part, books, reader, view, list, feedVars>>

ShownRequests == RowsIn(list.rows)

(* The fetch of the list: the server reads, the page receives.  The one    *)
(* retry of a query that fails is a later read of the same fetch.          *)
FetchRead ==
  /\ list.fetch = "sent"
  /\ list' = [list EXCEPT !.fetch = "read", !.got = ListDepositRequests(Home)]
  /\ UNCHANGED <<part, books, reader, view, form, posts, feedVars>>

FetchReceive ==
  /\ list.fetch = "read"
  /\ list' = [rows |-> list.got, fetch |-> "none", got |-> <<>>,
              data |-> TRUE, invalid |-> FALSE, early |-> list.early /\ ~list.data]
  /\ UNCHANGED <<part, books, reader, view, form, posts, feedVars>>

FetchFail ==
  /\ list.fetch # "none"
  /\ list' = [list EXCEPT !.fetch = "none", !.got = <<>>, !.early = @ /\ list.data]
  /\ UNCHANGED <<part, books, reader, view, form, posts, feedVars>>

(* The network is back, and the list is no longer fresh. *)
FetchAgain ==
  /\ list.fetch = "none"
  /\ list' = [list EXCEPT !.fetch = "sent"]
  /\ UNCHANGED <<part, books, reader, view, form, posts, feedVars>>

-----------------------------------------------------------------------------
(* The positions feed. *)

ReceivePush(p) ==
  /\ push[p] = "idle"
  /\ MayWrite
  /\ push' = [push EXCEPT ![p] = "received"]
  /\ before' = [before EXCEPT ![p] = {q \in Pushes : push[q] = "done"}]
  /\ UNCHANGED <<part, books, reader, view, pageVars, event>>

(* markToMarket stores the snapshot, then publishes it. *)
StoreSnapshot(p) ==
  /\ push[p] = "received"
  /\ push' = [push EXCEPT ![p] = "stored"]
  /\ snapshot' = p
  /\ UNCHANGED <<part, trades, entries, requests, audits, reader, view, pageVars, before, event>>

MutPublishSnapshot(p) ==
  /\ push[p] \in {"received", "stored"}
  /\ push' = [push EXCEPT ![p] = "done"]
  /\ event' = p
  /\ UNCHANGED <<part, books, reader, view, pageVars, before>>

PublishSnapshot(p) ==
  /\ push[p] = "stored"
  /\ push' = [push EXCEPT ![p] = "done"]
  /\ event' = p
  /\ UNCHANGED <<part, books, reader, view, pageVars, before>>

FailPush(p) ==
  /\ push[p] \in {"received", "stored"}
  /\ push' = [push EXCEPT ![p] = "failed"]
  /\ UNCHANGED <<part, books, reader, view, pageVars, before, event>>

(* EX 30 *)
ExpireSnapshot ==
  /\ snapshot # None
  /\ snapshot' = None
  /\ UNCHANGED <<part, trades, entries, requests, audits, reader, view, pageVars, feedVars>>

-----------------------------------------------------------------------------
Fills == \E l \in Legs : Fill(l)

Requesting ==
  \/ \E k \in Kinds : PostRequest(k)
  \/ \E i \in DOMAIN requests : Approve(i) \/ Reject(i)

Reading ==
  \/ \E user \in Users, b \in Brokers \cup {None} :
       \/ \E n \in PageLimits : Ask("trades", user, b, n)
       \/ \E op \in DOMAIN Queries : Ask(op, user, b, None)
  \/ RunQuery \/ ReadPage \/ Leave

Tables ==
  \/ \E screen \in Screens : Open(screen)
  \/ \E f \in Filters : SetFilter(f) \/ Requery(f)
  \/ Refetch \/ ClearDates \/ NextPage \/ PrevPage \/ Close

WalletPage ==
  \/ \E k \in Kinds : Toggle(k) \/ Submit(k)
  \/ \E p \in DOMAIN posts : CreateRequest(p) \/ RefuseRequest(p) \/ Succeed(p) \/ Fail(p)
  \/ FetchRead \/ FetchReceive \/ FetchFail \/ FetchAgain

Feed ==
  \/ \E p \in Pushes :
       ReceivePush(p) \/ StoreSnapshot(p) \/ PublishSnapshot(p) \/ FailPush(p)
  \/ ExpireSnapshot

PortalNext ==
  \/ part \in {"calls", "tables"} /\ Fills
  \/ part # "feed" /\ Requesting
  \/ part = "calls" /\ Reading
  \/ part = "tables" /\ Tables
  \/ part = "wallet" /\ WalletPage
  \/ part \in {"tables", "feed"} /\ Feed

PortalSpec == PortalInit /\ [][PortalNext]_portalVars

-----------------------------------------------------------------------------
(* Properties. *)

(* The books hold rows the code writes, ids that pages keep are rows of    *)
(* the books, and no table is on a page before its first.                  *)
PortalTypeOK ==
  /\ \A i \in DOMAIN trades : trades[i] \in Legs
  /\ \A i \in DOMAIN entries :
       /\ entries[i].broker \in Brokers
       /\ entries[i].amount \in Int
       /\ entries[i].type \in {"DEPOSIT", "WITHDRAWAL", "CHARGE"}
  /\ \A i \in DOMAIN requests :
       requests[i] \in [broker : {Home}, kind : Kinds, amount : Nat,
                       status : {"PENDING", "APPROVED", "REJECTED"}]
  /\ \A i \in DOMAIN audits :
       audits[i] \in [action : {"deposit.approve", "deposit.reject"}, request : DOMAIN requests]
  /\ snapshot \in Pushes \cup {None}
  /\ event \in Pushes \cup {None}
  /\ \A k \in Kinds : form[k] \in [open : BOOLEAN, pending : DOMAIN posts \cup {None},
                                  intent : Nat]
  /\ \A p \in DOMAIN posts : posts[p].row \in DOMAIN requests \cup {None}
  /\ RowsIn(list.rows) \cup RowsIn(list.got) \subseteq DOMAIN requests
  /\ push \in [Pushes -> {"idle", "received", "stored", "done", "failed"}]
  /\ view # NoView => view.screen \in Screens /\ view.page \in Nat \ {0}

(* A client that follows nextCursor to the end has seen, newest first and  *)
(* each once, exactly the trades of its broker that were there at its      *)
(* first page, whatever is executed in the meantime and wherever another   *)
(* broker's trades leave gaps in the ids; and it may open each of them.    *)
WalkShowsAll ==
  reader.op = "trades" /\ ~reader.more =>
    /\ RowsIn(reader.got) = {i \in Ids(trades, reader.broker) : i <= reader.at[1].trades}
    /\ \A j, k \in DOMAIN reader.got : j < k => reader.got[j] > reader.got[k]
    /\ \A i \in RowsIn(reader.got) : TradeDetail(reader.user, i) # None

(* A report made of several queries reads books that grow between them.    *)
(* The commission list never adds up to more than the total beside it, and *)
(* what it lacks was charged after it was read or is beyond its LIMIT; the *)
(* dashboard never charges for a trade that its P&L does not know; the     *)
(* balances of the console differ from their total by what was booked      *)
(* between the two queries.                                                *)
AnswersOrdered ==
  reader # NoReader /\ ~reader.more =>
    /\ reader.op = "commissions" =>
         LET items == RowsIn(reader.got.items)
             missing == {i \in Charged(reader.broker) : i <= reader.at.total.trades} \ items
         IN  /\ reader.got.total = Sum(Fee, items) + Sum(Fee, missing)
             /\ \A i \in missing :
                  \/ i > reader.at.items.trades
                  \/ Cardinality(items) = Limit.commissions /\ \A j \in items : i < j
    /\ reader.op = "dashboard" =>
         LET answer == DashboardAnswer(reader.got.balance, reader.got.charges,
                                       RawPnl(reader.got.legs), FloatingPnl(reader.got.snapshot))
         IN  answer.netPnl >= answer.rawPnl - Sum(Fee, reader.got.legs)
    /\ /\ reader.op = "console"
       /\ Cardinality(DOMAIN reader.got.recent) = reader.got.brokersCount
       => Sum(LAMBDA b : reader.got.recent[b], Brokers) - reader.got.totalBalance
            = Sum(LAMBDA i : entries[i].amount,
                  (reader.at.totalBalance.entries + 1)..reader.at.recent.entries)

(* The pages tell one story about one state of the books. *)
Moved(b) ==
  Sum(LAMBDA i : IF requests[i].kind = "deposit" THEN requests[i].amount ELSE -requests[i].amount,
      {i \in Ids(requests, b) : requests[i].status = "APPROVED"})

AllTrades(b) == FindTrades(TradeQuery(b, None, Limit.trades))

BrokerFiguresAgree(b) ==
  /\ Balance(b) = Opening + Moved(b) - CommissionTotal(b)
  /\ LET rows == ListLedger(b, Limit.transactions)
     IN  Len(rows) = Cardinality(Ids(entries, b)) => TransactionsPage(rows).net = Balance(b)
  /\ Len(CommissionItems(b)) = Cardinality(Charged(b)) =>
       ChargesPage(CommissionItems(b)).total = CommissionTotal(b)
  /\ Len(AllTrades(b)) = Cardinality(Ids(trades, b)) =>
       /\ TradesPage(AllTrades(b)).charges = CommissionTotal(b)
       /\ LET summary == DashboardPage(FindTrades(TradeQuery(b, None, Limit.dashboard)))
          IN  summary.count = Cardinality(Ids(trades, b)) =>
                summary.volume = TradesPage(AllTrades(b)).volume

ConsoleFiguresAgree ==
  /\ TotalBalance = Sum(LAMBDA b : Roster[b], DOMAIN Roster) + Sum(Balance, ClosedBrokers)
  /\ TotalCommission = Sum(CommissionTotal, Brokers)
  /\ TotalPnl = 0
  /\ Sum(LAMBDA s : Instruments[s].trades, DOMAIN Instruments) = TradesTotal
  /\ LET pending == AdminDeposits("PENDING")
     IN  Len(pending) < Limit.deposits =>
           DepositsPage(pending).amount
             = Sum(LAMBDA i : requests[i].amount,
                   {i \in DOMAIN requests : requests[i].status = "PENDING"})

RecentTradesAgree ==
  \A b \in Brokers :
    Len(AllTrades(b)) = Cardinality(Ids(trades, b)) =>
      LET recent == DashboardPage(FindTrades(TradeQuery(b, None, Limit.dashboard))).recent
      IN  recent = SubSeq(AllTrades(b), 1, Len(recent))

(* The audit log of a request, exported, is the one decision on it. *)
AuditLogAgrees ==
  \A i \in DOMAIN requests :
    LET found == BuildCsv(AuditLogs([action |-> None, resource |-> i, from |-> None,
                                     to |-> None, limit |-> Limit.audit]))
    IN  found = CASE requests[i].status = "PENDING" -> <<>>
                  [] requests[i].status = "APPROVED" ->
                       <<[action |-> "deposit.approve", request |-> i]>>
                  [] OTHER -> <<[action |-> "deposit.reject", request |-> i]>>

(* Windows of the trades API that meet at a time share no row and lose     *)
(* none, and so do the days of a page.                                     *)
WindowsMeet ==
  \A b \in Brokers, t \in DOMAIN trades :
    LET Q == TradeQuery(b, None, ROW_CAP + Len(trades))
        early == FindTrades([Q EXCEPT !.to = t])
        late == FindTrades([Q EXCEPT !.from = t])
    IN  late \o early = FindTrades(Q)

(* The A-book holds what the brokers see. *)
ABookAgrees ==
  Len(ABookTrades) = TradesTotal =>
    \A b \in Brokers :
      Len(AllTrades(b)) = Cardinality(Ids(trades, b)) =>
        Keep(ABookTrades, {k \in DOMAIN ABookTrades : trades[ABookTrades[k]].broker = b})
          = AllTrades(b)

(* The pages of a table, one after the other, are the list that its export *)
(* prints, and the reader never looks at an empty page of a list that has  *)
(* rows, also when the list has become shorter under an open page.         *)
TablePages(v) ==
  LET rows == Filtered(v)
  IN  /\ rows # <<>> => Paginate(rows, v.page) # <<>>
      /\ \A k \in DOMAIN rows :
           \E n \in 1..TotalPages(rows) :
             /\ rows[k] \in RowsIn(Paginate(rows, n))
             /\ \A n2 \in 1..TotalPages(rows) \ {n} : rows[k] \notin RowsIn(Paginate(rows, n2))
      /\ v.screen = "charges" => ChargesPdf(v).total
                                  = Sum(Fee, {i \in RowsIn(v.rows) : InRange(v, i)})
      /\ Len(Export(v)) = Sum(LAMBDA n : Len(Paginate(rows, n)), 1..TotalPages(rows))
      /\ v.screen = "a-book" => /\ ABookPage(v.rows).volume = TradesPage(v.rows).volume
                                /\ ABookPage(v.rows).buys = TradesPage(v.rows).buys
      /\ v.screen = "audit" => \A i \in RowsIn(v.rows) : /\ v.pick \subseteq {audits[i].action}
                                                        /\ v.to # i

(* The figures of the portal's and of the console's pages agree whenever   *)
(* their lists are not cut off: the ledger pages show the balance, which   *)
(* is the opening credit with what was approved and without what was       *)
(* charged; the commissions page, the trades page and the dashboard show   *)
(* the same charges, and the last two the same volume; the console's       *)
(* totals are sums over brokers, the removed ones included, and its P&L is *)
(* zero.                                                                   *)
FiguresAgree ==
  /\ \A b \in Brokers : BrokerFiguresAgree(b)
  /\ ConsoleFiguresAgree

(* The lists agree as well: the dashboard shows the newest trades of the   *)
(* trades page, windows of the trades API that meet share no row and lose  *)
(* none, and the audit log knows of each request what became of it, once.  *)
ListsAgree ==
  /\ RecentTradesAgree
  /\ WindowsMeet
  /\ AuditLogAgrees

(* What the portal and the console report agrees: their figures with each  *)
(* other and with the ledger, and their lists with the tables they cut.    *)
(* The exception is the net P&L, see NetPnlMatchesDashboard.               *)
ReportsAgree == FiguresAgree /\ ListsAgree

(* A table that is paged, filtered and exported loses no row and adds      *)
(* none, and the console's A-book lists for each broker what its own page  *)
(* lists.                                                                  *)
TablesWhole ==
  /\ ABookAgrees
  /\ view # NoView => TablePages(view)

(* A request is submitted twice only if the first submission was given up  *)
(* without an answer, and once the page has said that a request is there,  *)
(* a list that counts as valid shows it, unless newer requests fill it.    *)
(* The exception is the page's first list if it was read, and not yet      *)
(* received, when the page said so: its fetch is not repeated.             *)
SubmittedOnceAndShown ==
  /\ \A p, q \in DOMAIN posts :
       /\ p < q
       /\ posts[p].kind = posts[q].kind /\ posts[p].intent = posts[q].intent
       /\ posts[p].stage # "refused"
       => posts[p].lost
  /\ ~list.invalid /\ ~list.early =>
       \A p \in DOMAIN posts :
         posts[p].told =>
           \/ posts[p].row \in ShownRequests
           \/ Cardinality({i \in Ids(requests, Home) : i > posts[p].row}) >= Limit.requests

(* What the blotter shows never goes back behind a push: neither what it   *)
(* polls nor what the websocket sent is a push that was answered before    *)
(* another one began that has been stored or sent since; and a reader who  *)
(* has the event finds no older snapshot.                                  *)
BlotterOrdered ==
  /\ \A p \in Pushes :
       /\ push[p] \in {"stored", "done"} => snapshot \notin before[p]
       /\ push[p] = "done" => event \notin before[p]
  /\ event # None => snapshot \notin before[event]

-----------------------------------------------------------------------------
(* What a comment says and the code does not keep. *)

(* "Net P&L = realized (closed-trade) P&L minus all charges -- matches the *)
(* dashboard's", wherever the page shows all trades of the broker.  The    *)
(* page looks for the open leg of a close under the LP's tradeId, the      *)
(* dashboard under the clientOrderId of the upstream broker.               *)
NetPnlMatchesDashboard ==
  \A b \in Brokers :
    Len(AllTrades(b)) = Cardinality(Ids(trades, b)) =>
      TradesPage(AllTrades(b)).net
        = DashboardAnswer(Balance(b), CommissionTotal(b), RawPnl(Ids(trades, b)), 0).netPnl
=============================================================================
