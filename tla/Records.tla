------------------------------- MODULE Records -------------------------------
(***************************************************************************)
(* The conversions between what the wire carries and what the application  *)
(* sees (models/, _internal/conversions.py, events/_execution.py).         *)
(*                                                                         *)
(* A proto3 scalar that is absent parses as zero, so zero means "not set"  *)
(* in both directions.  Prices are integers in the smallest unit a price   *)
(* can have on the wire; amounts of money in units of 10^-Places; a        *)
(* distance or a time that the application gives is in 1/Fine of the       *)
(* wire's unit (the smallest price, the millisecond), because it may be    *)
(* finer than the wire can say.                                            *)
(* Enumerations are their wire codes; a code the client does not know is   *)
(* read as the default of its map.                                         *)
(***************************************************************************)
EXTENDS Integers, Sequences, SequencesExt

CONSTANTS
    None,       \* Python's None
    Fine        \* application units of a distance or a time in one of the wire

ASSUME FineAssumption == Fine \in Nat \ {0}

Given(w)     == IF w = 0 THEN None ELSE w             \* x if x else None
Sent(v)      == IF v = None THEN 0 ELSE v             \* v or 0, float(v) if v else 0.0
Known(w, codes, default) == IF w \in codes THEN w ELSE default

\* [x for x in s if Test(x)].
Kept(s, Test(_)) ==
    LET kept[i \in 0..Len(s)] ==
            IF i = 0 THEN <<>>
            ELSE IF Test(s[i]) THEN Append(kept[i-1], s[i]) ELSE kept[i-1]
    IN kept[Len(s)]

\* Money is scaled by the exponent that its message states, from 1 to Places
\* (bound), or omits.
Places        == 8
DefaultDigits == 2
MoneyDivisor(digits) == 10 ^ (IF digits = 0 THEN DefaultDigits ELSE digits)
Money(w, digits)     == w * (10 ^ Places \div MoneyDivisor(digits))

----------------------------------------------------------------------------
(* Orders and positions.                                                   *)

Prices    == {"limit_price", "stop_price", "stop_loss", "take_profit", "base_slippage_price"}
Counts    == {"slippage_in_points", "position_id"}
Times     == {"expiration_timestamp"}
Distances == {"relative_stop_loss", "relative_take_profit"}
Flags     == {"trailing_stop_loss", "guaranteed_stop_loss"}
Triggers  == 1..4           \* TRADE is 1
Types     == 1..6           \* MARKET is 1, LIMIT is 2

\* int(distance * 100000) if distance else 0; int(timestamp * 1000) likewise.
Points(d) == IF d = None THEN 0 ELSE d \div Fine

\* NewOrderRequest.to_proto.
NewOrderToProto(r) ==
    [f \in DOMAIN r |-> CASE f \in Prices \cup Counts      -> Sent(r[f])
                          [] f \in Distances \cup Times    -> Points(r[f])
                          [] f = "stop_trigger_method"     -> Sent(r[f])
                          [] OTHER                         -> r[f]]

AmendFields == (Prices \ {"base_slippage_price"}) \cup (Counts \ {"position_id"}) \cup Distances
               \cup Times \cup Flags \cup {"volume", "stop_trigger_method"}

\* Mutant of AmendOrderToProto: one of the fields is not sent.
AmendOrderUntriggered(r) ==
    [f \in AmendFields |-> CASE f \in Distances \cup Times -> Points(r[f])
                             [] f \in Flags     -> IF r[f] = None THEN FALSE ELSE r[f]
                             [] f = "stop_trigger_method" -> 0
                             [] OTHER           -> Sent(r[f])]

\* AmendOrderRequest.to_proto: an unset field is sent as zero or false, and
\* the server unsets it.
AmendOrderToProto(r) ==
    [f \in AmendFields |-> CASE f \in Distances \cup Times -> Points(r[f])
                             [] f \in Flags     -> IF r[f] = None THEN FALSE ELSE r[f]
                             [] OTHER           -> Sent(r[f])]

\* AmendPositionRequest.to_proto: without a trigger method TRADE is sent.
AmendPositionToProto(r) ==
    [f \in DOMAIN r |-> CASE f \in Prices                    -> Sent(r[f])
                          [] f = "stop_loss_trigger_method"  -> IF r[f] = None THEN 1 ELSE r[f]
                          [] OTHER                           -> r[f]]

\* Order.from_proto.  The distances stay in points.  What trade_data holds is
\* read as a default when the wire has no trade_data.
OrderFromProto(w) ==
    [f \in DOMAIN w \ {"trade_data"} |->
        CASE f \in Prices \cup Counts \cup Distances \cup {"execution_price"} -> Given(w[f])
          [] f \in Times                      -> IF w[f] = 0 THEN None ELSE w[f] * Fine
          [] f = "stop_trigger_method"        -> Known(w[f], Triggers, 1)
          [] f = "order_type"                 -> Known(w[f], Types, 1)
          [] f = "order_status"               -> Known(w[f], 1..5, 1)
          [] f \in {"symbol_id", "volume"}    -> IF w.trade_data THEN w[f] ELSE 0
          [] f = "guaranteed_stop_loss"       -> w.trade_data /\ w[f]
          [] f = "side"                       -> IF w.trade_data /\ w[f] = 2 THEN 2 ELSE 1
          [] OTHER                            -> w[f]]

IsPending(o) == o.order_status = 1

\* Position.from_proto.
PositionFromProto(w) ==
    [f \in DOMAIN w \ {"trade_data"} |->
        CASE f \in {"stop_loss", "take_profit", "margin_rate"}    -> Given(w[f])
          [] f \in {"swap", "commission", "used_margin"} -> Money(w[f], w.money_digits)
          [] f = "money_digits"            -> IF w[f] = 0 THEN DefaultDigits ELSE w[f]
          [] f = "stop_loss_trigger_method" -> Known(w[f], Triggers, 1)
          [] f = "position_status"         -> Known(w[f], 1..4, 1)
          [] f = "volume"                  -> IF w.trade_data THEN w[f] ELSE 0
          [] f = "side"                    -> IF w.trade_data /\ w[f] = 2 THEN 2 ELSE 1
          [] OTHER                         -> w[f]]

\* execution_event_from_proto: None for an execution type the client does not
\* know.  An absent order, position or deal is None on the wire.
ExecutionTypes == 2..12

ExecutionFromProto(w) ==
    IF w.type \notin ExecutionTypes THEN None
    ELSE [class    |-> "execution",
          account  |-> w.account,
          type     |-> w.type,
          order    |-> IF w.order = None THEN 0 ELSE w.order.order_id,
          symbol   |-> IF w.order = None THEN 0 ELSE w.order.symbol,
          side     |-> IF w.order # None /\ w.order.side = 2 THEN 2 ELSE 1,
          position |-> IF w.position = None THEN None ELSE w.position.position_id,
          volume   |-> IF w.deal = None THEN None ELSE Given(w.deal.volume),
          price    |-> IF w.deal = None THEN None ELSE Given(w.deal.price)]

----------------------------------------------------------------------------
(* Deals, accounts and symbols.                                            *)

\* CloseDetail.from_proto, Deal.from_proto: the wire always has a close
\* detail, with a zero balance when the deal closed nothing.
DealFromProto(w) ==
    [side       |-> IF w.side = 1 THEN 1 ELSE 2,
     commission |-> Money(w.commission, w.digits),
     close      |-> IF w.close.balance > 0
                    THEN [profit  |-> Money(w.close.profit, w.close.digits),
                          balance |-> Money(w.close.balance, w.close.digits)]
                    ELSE None]

\* get_unrealized_pnl_per_position: one scale for all positions.
UnrealizedPnL(w) ==
    [i \in DOMAIN w.pnl |-> [gross |-> Money(w.pnl[i].gross, w.digits), net |-> Money(w.pnl[i].net, w.digits)]]

\* Account.from_proto.
AccountFromProto(w) ==
    [balance |-> Money(w.balance, w.digits),
     bonus   |-> IF w.bonus = 0 THEN None ELSE Money(w.bonus, w.digits),
     rights  |-> Known(w.rights, 0..3, 0)]

\* AccountSummary.from_proto, list_by_token.
AccountsFromProto(ws) ==
    [i \in DOMAIN ws |-> [account_id |-> ws[i].account_id, login |-> ws[i].login,
                          last_closing_deal |-> Given(ws[i].last_closing_deal)]]

\* resolve_account_id: the first account of the token with that login, None
\* for AccountNotFoundError.
ResolveAccountId(accounts, login) ==
    LET at == {i \in DOMAIN accounts : accounts[i].login = login}
    IN IF at = {} THEN None ELSE accounts[CHOOSE i \in at : \A j \in at : i <= j].account_id

\* Symbol.from_proto, get_by_id: None when the server knows no such symbol
\* (ValueError).
SymbolFromProto(ws) ==
    IF ws = <<>> THEN None
    ELSE [id |-> ws[1].id, max_exposure |-> Given(ws[1].max_exposure), mode |-> Known(ws[1].mode, 0..3, 0)]

\* SymbolInfo.from_proto and search; of a name only whether it contains the
\* query, in either case, is kept.
SymbolsFromProto(ws) ==
    [i \in DOMAIN ws |-> [id |-> ws[i].id, matches |-> ws[i].matches, category |-> Given(ws[i].category)]]
Search(symbols) == Kept(symbols, LAMBDA s : s.matches)

----------------------------------------------------------------------------
(* Bars and ticks.                                                         *)

\* Trendbar.from_proto of a bar of the history.
Trendbar(w) ==
    [low |-> w.low, open |-> w.low + w.delta_open, high |-> w.low + w.delta_high,
     close |-> w.low + w.delta_close]

\* Mutant of TicksFromProto: differences to the first tick.
TicksFromFirst(ws) ==
    [i \in DOMAIN ws |-> IF i = 1 THEN ws[1]
                         ELSE [time |-> ws[1].time + ws[i].time, price |-> ws[1].price + ws[i].price]]

\* TickData.from_proto_list: the first tick is absolute, each of the others a
\* difference to the one before it.
TicksFromProto(ws) ==
    LET at[i \in 0..Len(ws)] ==
            IF i = 0 THEN [time |-> 0, price |-> 0]
            ELSE [time |-> at[i-1].time + ws[i].time, price |-> at[i-1].price + ws[i].price]
    IN [i \in DOMAIN ws |-> at[i]]
=============================================================================
