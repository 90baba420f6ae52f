------------------------------- MODULE Trading -------------------------------
(***************************************************************************)
(* The request APIs (api/trading.py, api/accounts.py, api/symbols.py and   *)
(* the history of api/market_data.py): what a call asks of the server, and *)
(* what it makes of the message that answers it.                           *)
(*                                                                         *)
(* One task has a call under way at a time.  How calls of several tasks    *)
(* are told apart is Requests' subject; here the answer to a call that has *)
(* timed out, and the second message of a trade, still arrive with its id. *)
(* The account has at most one order, which a fill turns into a position.  *)
(***************************************************************************)
EXTENDS Records, FiniteSets

CONSTANTS
    Account,    \* the account that trades
    Changes,    \* what an order or an amendment may set: <<field, value>>
    Truths,     \* per kind of query, what may be true at the server
    Serials     \* bound: numbers of the messages in flight and being handled

ASSUME SerialsAssumption == Serials \subseteq Nat /\ IsFiniteSet(Serials)

VARIABLES
    call,       \* the call under way, or None
    inbox,      \* requests the server has not answered
    wire,       \* messages under way from the server, in order
    book,       \* the server's order or position, or None
    asked,      \* history: what the applied requests have asked the book to be
    shown       \* what the last call returned, if it was a query

tradeVars == <<call, inbox, wire, book, asked, shown>>

Id == 1       \* of the account's order, and of its position
Login == 11   \* the trader login that is resolved

PlainOrder ==
    [symbol_id |-> 1, side |-> 1, volume |-> 2, order_type |-> 2, limit_price |-> 5,
     stop_price |-> None, stop_loss |-> None, take_profit |-> None,
     expiration_timestamp |-> None, position_id |-> None,
     base_slippage_price |-> None, slippage_in_points |-> None,
     relative_stop_loss |-> None, relative_take_profit |-> None,
     trailing_stop_loss |-> FALSE, guaranteed_stop_loss |-> FALSE,
     stop_trigger_method |-> None]

\* What an application gives for a field.  A volume of zero is no volume, a
\* distance is never negative, and an amendment says what the volume and the
\* flags are to be: left out, they are sent as zero and as false, which says
\* nothing about what is wanted.
Methods == {"stop_trigger_method", "stop_loss_trigger_method"}
Typed(f, v) ==
    /\ f \in Prices \cup Counts => v = None \/ v \in Int
    /\ f \in Distances \cup Times => v = None \/ v \in Nat
    /\ f \in Methods => v = None \/ v \in Triggers
    /\ f \in Flags => v \in BOOLEAN
    /\ f = "side" => v \in 1..2
    /\ f = "order_type" => v \in Types
    /\ f = "volume" => v \in Nat \ {0}

ASSUME ChangesAssumption == \A c \in Changes : c = <<c[1], c[2]>> /\ Typed(c[1], c[2])

Trades  == {"place", "amend", "cancel", "close", "amend_position"}
Queries == DOMAIN Truths
Reads   == {"orders", "pending", "positions"}

----------------------------------------------------------------------------
(* What the client sends.                                                  *)

With(r, c) == [r EXCEPT ![c[1]] = c[2]]

\* An amendment names every field it is to keep: the application starts from
\* the order it was shown.  A distance is shown in points and asked in price.
AmendmentOf(o) ==
    [f \in AmendFields |-> IF f \in Distances /\ o[f] # None THEN o[f] * Fine ELSE o[f]]

PositionFields == {"stop_loss", "take_profit", "trailing_stop_loss", "guaranteed_stop_loss",
                   "stop_loss_trigger_method"}
AmendmentOfPosition(p) == [f \in PositionFields |-> p[f]]

\* The message for a request, by its operation.
ToProto(op, req) ==
    CASE op = "place"          -> NewOrderToProto(req)
      [] op = "amend"          -> AmendOrderToProto(req)
      [] op = "amend_position" -> AmendPositionToProto(req)
      [] OTHER                 -> req

\* send_request: the request goes out with an id that nothing under way bears.
FreeIds == Serials \ ({inbox[i].n : i \in DOMAIN inbox} \cup {wire[i].n : i \in DOMAIN wire})

Send(by, op, req, fact) ==
    /\ call = None
    /\ \E n \in FreeIds :
        /\ \A m \in FreeIds : n <= m
        /\ call' = [by |-> by, n |-> n, op |-> op, slot |-> None, did |-> "nothing"]
        /\ inbox' = Append(inbox, [n |-> n, op |-> op, req |-> req, msg |-> ToProto(op, req), fact |-> fact])
    /\ shown' = None
    /\ UNCHANGED <<wire, book, asked>>

\* place_order, cancel_order, close_position.
PlaceOrder(by, req)     == Send(by, "place", req, None)
CancelOrder(by)         == Send(by, "cancel", [order_id |-> Id], None)
ClosePosition(by, volume) == Send(by, "close", [position_id |-> Id, volume |-> volume], None)

Saw(what) == shown # None /\ shown.op \in what /\ shown.val # <<>>

\* amend_order and amend_position, of what was shown last with one change.
AmendOrder(by, c) ==
    /\ Saw({"orders", "pending"})
    /\ Send(by, "amend", With(AmendmentOf(shown.val[1]), c), c)

AmendPosition(by, c) ==
    /\ Saw({"positions"})
    /\ Send(by, "amend_position", With(AmendmentOfPosition(shown.val[1]), c), c)

\* get_orders, get_pending_orders, get_open_positions; get_deals, get_trader
\* and the other queries, of which the server tells one of the Truths.
Read(by, op)       == Send(by, op, None, None)
Query(by, op)      == \E t \in Truths[op] : Send(by, op, None, t)

----------------------------------------------------------------------------
(* The server.                                                             *)

\* Its order for a request, and the position a filled order becomes.
OrderFor(msg) ==
    [f \in DOMAIN msg \cup {"order_id", "trade_data", "order_status", "execution_price"} |->
        CASE f = "order_id" -> Id [] f = "trade_data" -> TRUE [] f = "order_status" -> 1
          [] f = "execution_price" -> 0 [] OTHER -> msg[f]]

PositionFor(o) ==
    [position_id |-> Id, trade_data |-> TRUE, side |-> o.side, volume |-> o.volume, position_status |-> 1,
     money_digits |-> 3, swap |-> 0, commission |-> 0 - 7, used_margin |-> 15, margin_rate |-> 0,
     stop_loss |-> o.stop_loss, take_profit |-> o.take_profit,
     trailing_stop_loss |-> o.trailing_stop_loss, guaranteed_stop_loss |-> o.guaranteed_stop_loss,
     stop_loss_trigger_method |-> o.stop_trigger_method]

AskedPosition(a) ==
    [side |-> a.side, volume |-> a.volume, stop_loss |-> a.stop_loss, take_profit |-> a.take_profit,
     trailing_stop_loss |-> a.trailing_stop_loss, guaranteed_stop_loss |-> a.guaranteed_stop_loss,
     stop_loss_trigger_method |-> a.stop_trigger_method]

Order(o, a)    == [what |-> "order", rec |-> o, asked |-> a]
Position(p, a) == [what |-> "position", rec |-> p, asked |-> a]
Nothing        == [what |-> "none", rec |-> None, asked |-> None]
Book           == IF book = None THEN Nothing ELSE [what |-> book.what, rec |-> book.rec, asked |-> asked]

Execution(type) ==
    [class |-> "execution", account |-> Account, type |-> type,
     order |-> [order_id |-> Id, symbol |-> 1, side |-> 1], position |-> None, deal |-> None]
Refusal(class)  == [class |-> class, account |-> Account]

\* None is no number and no truth value, neither the end of the protocol nor an
\* event the application sees.
ASSUME NoneAssumption ==
    /\ None \notin Int /\ None \notin BOOLEAN
    /\ None # [class |-> "closed"]
    /\ \A type \in ExecutionTypes :
         None # [class |-> "execution", account |-> Account, type |-> type, order |-> Id, symbol |-> 1,
                 side |-> 1, position |-> None, volume |-> None, price |-> None]

\* What the server makes of a trade it accepts: the book after it, and the
\* types of the executions it reports.
Applied(r) ==
    LET b == Book IN
    CASE r.op = "place" /\ b.what = "none" ->
            {<<Order(OrderFor(r.msg), r.req), <<2>>>>,
             <<Position(PositionFor(OrderFor(r.msg)), AskedPosition(r.req)), <<2, 3>>>>}
      [] r.op = "amend" /\ b.what = "order" ->
            {<<Order([f \in DOMAIN b.rec |-> IF f \notin AmendFields \/ (f = "volume" /\ r.msg[f] = 0)
                                             THEN b.rec[f] ELSE r.msg[f]],
                     With(b.asked, r.fact)), <<4>>>>}
      [] r.op = "cancel" /\ b.what = "order" -> {<<Nothing, <<5>>>>}
      [] r.op = "close" /\ b.what = "position" /\ r.msg.volume <= b.rec.volume ->
            {<<IF r.msg.volume = b.rec.volume THEN Nothing
               ELSE Position([b.rec EXCEPT !.volume = @ - r.msg.volume],
                             [b.asked EXCEPT !.volume = @ - r.msg.volume]), <<2, 3>>>>}
      [] r.op = "amend_position" /\ b.what = "position" ->
            {<<Position([f \in DOMAIN b.rec |-> IF f \in PositionFields THEN r.msg[f] ELSE b.rec[f]],
                        With(b.asked, r.fact)), <<4>>>>}
      [] OTHER -> {}

\* The wire form of what is true: money as an integer of the message's
\* digits, two where the server omits them, bars as differences to their low,
\* ticks as differences to the tick before.
Unit(digits)     == 10 ^ (Places - (IF digits = 0 THEN 2 ELSE digits))
Cents(v, digits) == v \div Unit(digits)

WireClose(c) ==
    IF c = None THEN [digits |-> 0, profit |-> 0, balance |-> 0]
    ELSE [digits |-> c.digits, profit |-> Cents(c.profit, c.digits), balance |-> Cents(c.balance, c.digits)]
WireDeal(t) ==
    [side |-> t.side, digits |-> t.digits, commission |-> Cents(t.commission, t.digits), close |-> WireClose(t.close)]
WirePnL(t) ==
    [digits |-> t.digits,
     pnl |-> [i \in DOMAIN t.pnl |-> [gross |-> Cents(t.pnl[i].gross, t.digits), net |-> Cents(t.pnl[i].net, t.digits)]]]
WireTrader(t) ==
    [digits |-> t.digits, balance |-> Cents(t.balance, t.digits), rights |-> t.rights,
     bonus |-> IF t.bonus = None THEN 0 ELSE Cents(t.bonus, t.digits)]
WireAccounts(t) == [i \in DOMAIN t |-> [t[i] EXCEPT !.last_closing_deal = Sent(@)]]
WireLogins(t) ==
    <<[account_id |-> 9, login |-> Login + 1, last_closing_deal |-> 0]>>
    \o (IF t = None THEN <<>> ELSE <<[account_id |-> t, login |-> Login, last_closing_deal |-> 8]>>)
WireFound(t) ==
    <<[id |-> 9, matches |-> FALSE, category |-> 2]>>
    \o [i \in DOMAIN t |-> [t[i] EXCEPT !.category = Sent(@)]]
WireSymbol(t) ==
    IF t = None THEN <<>> ELSE <<[id |-> t.id, max_exposure |-> Sent(t.max_exposure), mode |-> t.mode]>>
WireBars(t) ==
    [i \in DOMAIN t |-> [low |-> t[i].low, delta_open |-> t[i].open - t[i].low,
                         delta_high |-> t[i].high - t[i].low, delta_close |-> t[i].close - t[i].low]]
WireTicks(t) ==
    [i \in DOMAIN t |-> IF i = 1 THEN t[1]
                        ELSE [time |-> t[i].time - t[i-1].time, price |-> t[i].price - t[i-1].price]]

Encode(op, t) ==
    CASE op = "deals"     -> WireDeal(t)
      [] op = "pnl"       -> WirePnL(t)
      [] op = "trader"    -> WireTrader(t)
      [] op = "accounts"  -> WireAccounts(t)
      [] op = "resolve"   -> WireLogins(t)
      [] op = "search"    -> WireFound(t)
      [] op = "symbol"    -> WireSymbol(t)
      [] op = "bars"      -> WireBars(t)
      [] op = "ticks"     -> WireTicks(t)
      [] op \in {"orders", "pending"} -> IF Book.what = "order" THEN <<book.rec>> ELSE <<>>
      [] op = "positions" -> IF Book.what = "position" THEN <<book.rec>> ELSE <<>>

\* What can be true: anything that the wire has a form for.  A message states
\* its digits or omits them, and can say the amounts that they are enough for.
Digits         == 0..Places
Amount(digits) == {v \in Int : v % Unit(digits) = 0}
Maybe(S)       == {None} \cup S
Facts ==
    [deals    |-> {t \in [side : 1..2, digits : Digits, commission : Int,
                          close : Maybe([digits : Digits, profit : Int, balance : Int])] :
                     /\ t.commission \in Amount(t.digits)
                     /\ t.close # None => /\ t.close.profit \in Amount(t.close.digits)
                                          /\ t.close.balance \in Amount(t.close.digits)},
     pnl      |-> {t \in [digits : Digits, pnl : Seq([gross : Int, net : Int])] :
                     \A i \in DOMAIN t.pnl : {t.pnl[i].gross, t.pnl[i].net} \subseteq Amount(t.digits)},
     trader   |-> {t \in [digits : Digits, balance : Int, bonus : Maybe(Int), rights : 0..3] :
                     {t.balance, t.bonus} \subseteq Maybe(Amount(t.digits))},
     accounts |-> Seq([account_id : Int, login : Int, last_closing_deal : Maybe(Int)]),
     resolve  |-> Maybe(Int),
     search   |-> Seq([id : Int, matches : {TRUE}, category : Maybe(Int)]),
     symbol   |-> Maybe([id : Int, max_exposure : Maybe(Int), mode : 0..3]),
     bars     |-> Seq([low : Int, open : Int, high : Int, close : Int]),
     ticks    |-> Seq([time : Int, price : Int])]

ASSUME TruthsAssumption == \A op \in Queries : op \in DOMAIN Facts /\ Truths[op] \subseteq Facts[op]

\* The messages with which a request may be answered, what the book is then,
\* and whether the server did what was asked.  A trade that was applied may
\* be reported with an execution type this client does not know.
Odd == 99
Replies(r) ==
    LET done(b, types) == [did |-> "applied", book |-> b, bodies |-> [i \in DOMAIN types |-> Execution(types[i])]]
        refused(class) == [did |-> "refused", book |-> Book, bodies |-> <<Refusal(class)>>]
    IN IF r.op \in Trades
       THEN {done(a[1], a[2]) : a \in Applied(r)} \cup {done(a[1], <<Odd>>) : a \in Applied(r)}
            \cup {refused(c) : c \in {"order_error", "error", "odd"}}
            \cup {[did |-> "refused", book |-> Book, bodies |-> <<Execution(7)>>]}
       ELSE {[did |-> "applied", book |-> Book,
              bodies |-> <<[class |-> "answer", op |-> r.op, fact |-> r.fact, wire |-> Encode(r.op, r.fact)]>>]}
            \cup {refused(c) : c \in {"error", "token_error", "odd"}}

FreeSerials(busy) == Serials \ ({wire[i].sn : i \in DOMAIN wire} \cup busy)

\* The count lowest of the free serials, in order.
Lowest(count, free) ==
    {f \in [1..count -> free] : \A i \in 1..count, x \in free : x < f[i] <=> \E k \in 1..(i-1) : f[k] = x}

\* Messages get the lowest free serials; none is sent without.
Sends(n, bodies, busy) ==
    \E f \in Lowest(Len(bodies), FreeSerials(busy)) :
        wire' = wire \o [i \in 1..Len(bodies) |-> [n |-> n, sn |-> f[i], body |-> bodies[i]]]

SetBook(b) ==
    /\ book'  = IF b.what = "none" THEN None ELSE [what |-> b.what, rec |-> b.rec]
    /\ asked' = b.asked

ServerActs(busy) ==
    /\ inbox # <<>>
    /\ \E a \in Replies(Head(inbox)) :
        /\ Sends(Head(inbox).n, a.bodies, busy)
        /\ SetBook(a.book)
        /\ call' = IF call # None /\ call.n = Head(inbox).n THEN [call EXCEPT !.did = a.did] ELSE call
    /\ inbox' = Tail(inbox)
    /\ UNCHANGED shown

\* A pending order fills, and the server says so without being asked.
ServerFills(busy) ==
    /\ Book.what = "order"
    /\ SetBook(Position(PositionFor(book.rec), AskedPosition(asked)))
    /\ Sends(0, <<Execution(3)>>, busy)
    /\ UNCHANGED <<call, inbox, shown>>

ServerPushes(body, busy) ==
    /\ Sends(0, <<body>>, busy)
    /\ UNCHANGED <<call, inbox, book, asked, shown>>

----------------------------------------------------------------------------
(* What the client makes of an answer.                                     *)

\* What the value returned by a query holds.
Decode(op, w) ==
    CASE op = "deals"     -> DealFromProto(w)
      [] op = "pnl"       -> UnrealizedPnL(w)
      [] op = "trader"    -> AccountFromProto(w)
      [] op = "accounts"  -> AccountsFromProto(w)
      [] op = "resolve"   -> ResolveAccountId(AccountsFromProto(w), Login)
      [] op = "search"    -> Search(SymbolsFromProto(w))
      [] op = "symbol"    -> SymbolFromProto(w)
      [] op = "bars"      -> [i \in DOMAIN w |-> Trendbar(w[i])]
      [] op = "ticks"     -> TicksFromProto(w)
      [] op = "orders"    -> [i \in DOMAIN w |-> OrderFromProto(w[i])]
      [] op = "pending"   -> Kept([i \in DOMAIN w |-> OrderFromProto(w[i])], IsPending)
      [] op = "positions" -> [i \in DOMAIN w |-> PositionFromProto(w[i])]

Ends(out, val) == [out |-> out, val |-> val]

\* _execute_trade: an order error is looked for before the type of the reply.
ExecuteTrade(body) ==
    CASE body.class = "order_error" -> Ends("order_error", None)
      [] body.class \notin {"order_error", "execution"} -> Ends("unexpected", None)
      [] body.class = "execution" /\ ExecutionFromProto(body) = None -> Ends("unknown_type", None)
      [] OTHER -> Ends("execution", ExecutionFromProto(body))

\* Protocol.request and what each query makes of its response.
FinishQuery(op, body) ==
    IF body.class = "answer" /\ body.op = op THEN Ends("ok", Decode(op, body.wire))
    ELSE Ends("unexpected", None)

\* list_by_token turns an error response about the token into TokenExpiredError.
ErrorOf(op, class) ==
    IF class = "token_error" /\ op \in {"accounts", "resolve"} THEN "token_expired" ELSE "api"

\* An error response, and the end of the protocol, are raised by send_request.
Raised == {"closed", "error", "token_error"}
Outcome(op, body) ==
    CASE body.class = "closed" -> Ends("closed", None)
      [] body.class \in {"error", "token_error"} -> Ends(ErrorOf(op, body.class), None)
      [] body.class \notin Raised /\ op \in Trades -> ExecuteTrade(body)
      [] OTHER -> FinishQuery(op, body)

Fact(body) == IF body.class = "answer" THEN body.fact ELSE None

EndCall(end, fact) ==
    /\ call' = None
    /\ shown' = IF end.out = "ok" THEN [op |-> call.op, fact |-> fact, val |-> end.val] ELSE None

\* The waiting task goes on: with the last message stored in its slot.
Resume ==
    /\ call # None /\ call.slot # None
    /\ EndCall(Outcome(call.op, call.slot), Fact(call.slot))
    /\ UNCHANGED <<inbox, wire, book, asked>>

\* The deadline passes, whether or not an answer has just been stored.
Timeout ==
    /\ call # None
    /\ EndCall(Ends("timeout", None), None)
    /\ UNCHANGED <<inbox, wire, book, asked>>

----------------------------------------------------------------------------
(* Properties.                                                             *)

\* A trade call never tells the application the opposite of what the server
\* did with that very request: an order error or an error response means it
\* was refused, an execution that it was applied, a rejection excepted.  The
\* late answer of an earlier call, a second message for the same call and a
\* timeout just before the answer are all in the way (_execute_trade,
\* _raise_if_order_error, _dispatch_message).
AnswerIsHonest ==
    (call # None /\ call.slot # None /\ call.op \in Trades) =>
        LET end == Outcome(call.op, call.slot)
        IN /\ end.out \in {"order_error", "api", "unexpected"} => call.did = "refused"
           /\ end.out = "execution" => (call.did = "applied") = (end.val.type # 7)
           /\ end.out = "unknown_type" => call.did = "applied"

\* How a value that was asked for is later shown: a zero is nothing, a distance
\* is in whole points and a time in whole milliseconds.
Seen(f, v) ==
    CASE f \in Prices \cup Counts -> Given(v)
      [] f \in Distances -> IF v = None \/ v < Fine THEN None ELSE v \div Fine
      [] f \in Times     -> IF v = None \/ v < Fine THEN None ELSE (v \div Fine) * Fine
      [] f \in Methods   -> IF v = None THEN 1 ELSE v
      [] OTHER -> v

\* What the server holds is, field by field, what the application asked it to
\* be with the order it placed and every amendment since, as the application
\* reads it back: an amendment built from what was shown changes one field and
\* keeps all the others, through four conversions and the server
\* (models/requests.py, models/order.py, models/position.py).
BookIsAsAsked ==
    book # None =>
        LET held == IF book.what = "order" THEN OrderFromProto(book.rec) ELSE PositionFromProto(book.rec)
        IN \A f \in DOMAIN asked : held[f] = Seen(f, asked[f])

\* How what is true is shown.  What the wire cannot tell from an absent value
\* is shown as absent: a bonus, time, category or exposure of zero.  So is the
\* close of a deal that left no positive balance, which Deal.from_proto takes
\* for a deal that closed nothing.
AsShown(op, t) ==
    CASE op = "deals" ->
            [side |-> t.side, commission |-> t.commission,
             close |-> IF t.close = None \/ (t.close # None /\ t.close.balance <= 0) THEN None
                       ELSE [profit |-> t.close.profit, balance |-> t.close.balance]]
      [] op = "pnl"      -> t.pnl
      [] op = "trader"   -> [balance |-> t.balance, bonus |-> Given(t.bonus), rights |-> t.rights]
      [] op = "accounts" -> [i \in DOMAIN t |-> [t[i] EXCEPT !.last_closing_deal = Given(@)]]
      [] op = "search"   -> [i \in DOMAIN t |-> [t[i] EXCEPT !.category = Given(@)]]
      [] op = "symbol"   -> IF t = None THEN None ELSE [t EXCEPT !.max_exposure = Given(@)]
      [] OTHER           -> t

\* A query returns what is true at the server, as it is shown: in its own scale
\* whatever digits its message states or omits and however many amounts share
\* them, and whatever the differences of bars and ticks are to; nothing else
\* than the absences above is lost (models/deal.py, account.py, market_data.py,
\* symbol.py, get_unrealized_pnl_per_position).
ReadsAreTrue ==
    (shown # None /\ shown.op \notin Reads) => shown.val = AsShown(shown.op, shown.fact)
=============================================================================
