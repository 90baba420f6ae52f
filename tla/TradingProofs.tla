---------------------------- MODULE TradingProofs ----------------------------
(***************************************************************************)
(* Proofs about what the request APIs keep and tell: the server's book is  *)
(* what the application asked for, and a query returns what is true, for   *)
(* any changes the application makes and anything that may be true at the  *)
(* server.                                                                 *)
(***************************************************************************)
EXTENDS ClientProofs, RecordsProofs

----------------------------------------------------------------------------
(* The inductive invariant.                                                *)

OrderParts    == DOMAIN PlainOrder
OrderFields   == OrderParts \cup {"order_id", "trade_data", "order_status", "execution_price"}
AskedParts    == PositionFields \cup {"side", "volume"}
PositionParts == AskedParts \cup {"position_id", "trade_data", "position_status", "money_digits", "swap",
                                  "commission", "used_margin", "margin_rate"}

\* What the wire has for a field.
WireTyped(f, w) ==
    /\ f \in Prices \cup Counts => w \in Int
    /\ f \in Distances \cup Times => w \in Nat
    /\ f \in Methods => w = 0 \/ w \in Triggers
    /\ f \in Flags => w \in BOOLEAN
    /\ f = "side" => w \in 1..2
    /\ f = "order_type" => w \in Types
    /\ f = "volume" => w \in Nat \ {0}

\* An order, and a position, that is what was asked for.
OrderFits(o, a) ==
    /\ o = [f \in OrderFields |-> o[f]] /\ a = [f \in OrderParts |-> a[f]]
    /\ o.trade_data = TRUE /\ o.order_status = 1
    /\ \A f \in OrderParts : WireTyped(f, o[f]) /\ Typed(f, a[f]) /\ OrderFromProto(o)[f] = Seen(f, a[f])

PositionFits(p, a) ==
    /\ p = [f \in PositionParts |-> p[f]] /\ a = [f \in AskedParts |-> a[f]]
    /\ p.trade_data = TRUE
    /\ \A f \in AskedParts : WireTyped(f, p[f]) /\ Typed(f, a[f]) /\ PositionFromProto(p)[f] = Seen(f, a[f])

Fits(b) ==
    \/ b.what = "none"
    \/ b.what = "order" /\ OrderFits(b.rec, b.asked)
    \/ b.what = "position" /\ PositionFits(b.rec, b.asked)

BookFits ==
    /\ book # None => book = [what |-> book.what, rec |-> book.rec] /\ book.what \in {"order", "position"}
    /\ Fits(Book)

\* A request says what its operation does with what it was given; one that
\* amends starts from what the server still has.
RequestFits(r) ==
    /\ r.op = "place" =>
         /\ r.req = [f \in OrderParts |-> r.req[f]] /\ \A f \in OrderParts : Typed(f, r.req[f])
         /\ r.msg = NewOrderToProto(r.req)
    /\ r.op = "amend" =>
         /\ r.fact \in Changes /\ r.fact[1] \in AmendFields
         /\ Book.what = "order" =>
              r.msg = AmendOrderToProto(With(AmendmentOf(OrderFromProto(Book.rec)), r.fact))
    /\ r.op = "close" => r.msg.volume \in Nat \ {0}
    /\ r.op = "amend_position" =>
         /\ r.fact \in Changes /\ r.fact[1] \in PositionFields
         /\ Book.what = "position" =>
              r.msg = AmendPositionToProto(With(AmendmentOfPosition(PositionFromProto(Book.rec)), r.fact))
    /\ r.op \notin Trades \cup Reads => r.op \in Queries /\ r.fact \in Truths[r.op]

InboxFits ==
    /\ Len(inbox) <= 1
    /\ \A i \in DOMAIN inbox : RequestFits(inbox[i])

\* What the server tells of its book.
BookWire(op) ==
    IF Book.what = (IF op = "positions" THEN "position" ELSE "order") THEN <<Book.rec>> ELSE <<>>

\* An answer to a query tells what is true, and one to a read what the server
\* has.
AnswerTrue(body) ==
    (body.class = "answer" /\ body.op \notin Reads) =>
        Decode(body.op, body.wire) = AsShown(body.op, body.fact)
AnswerFits(body) ==
    (body.class = "answer" /\ body.op \in Reads) => body.wire = BookWire(body.op)

AnswersTrue ==
    /\ \A k \in DOMAIN wire : wire[k].n # 0 => AnswerTrue(wire[k].body)
    /\ call # None /\ call.slot # None => AnswerTrue(call.slot)

\* What was shown is what the server still has.
ShownFits ==
    shown # None =>
      /\ shown.op \in {"orders", "pending"} /\ shown.val # <<>> /\ Book.what = "order" =>
           shown.val[1] = OrderFromProto(Book.rec)
      /\ shown.op = "positions" /\ shown.val # <<>> =>
           Book.what = "position" /\ shown.val[1] = PositionFromProto(Book.rec)

\* In the data scenario every request is the one of the call under way.
DataFits ==
    Data =>
      /\ phase \notin {"closing", "leaving"}
      /\ call # None => shown = None
      /\ \A i \in DOMAIN inbox : call # None /\ inbox[i].n = call.n
      /\ call # None =>
           /\ \A k \in DOMAIN wire : wire[k].n # 0 /\ wire[k].n = call.n => AnswerFits(wire[k].body)
           /\ call.slot # None => AnswerFits(call.slot)
      /\ ShownFits

TradeInv ==
    /\ BookFits
    /\ InboxFits
    /\ AnswersTrue
    /\ ReadsAreTrue
    /\ DataFits

----------------------------------------------------------------------------
(* Field by field: what is read back of what was sent.                     *)

LEMMA OrderPartsAre ==
    OrderParts = Prices \cup Counts \cup Distances \cup Times \cup Flags
                 \cup {"stop_trigger_method", "symbol_id", "side", "order_type", "volume"}
  BY DEF OrderParts, PlainOrder, Prices, Counts, Distances, Times, Flags

LEMMA AmendedAre ==
    /\ AmendFields \subseteq OrderParts
    /\ \A f \in AmendFields : \/ f \in Prices \cup Counts \/ f \in Distances \/ f \in Times \/ f \in Flags
                              \/ f = "stop_trigger_method" \/ f = "volume"
    /\ "trade_data" \notin OrderParts /\ "order_status" \notin OrderParts
    /\ OrderParts \subseteq OrderFields
  BY OrderPartsAre DEF AmendFields, Prices, Counts, Distances, Times, Flags, OrderFields

\* How the wire's value of a field is read.
ReadBack(f, w) ==
    CASE f \in Prices \cup Counts \cup Distances -> Given(w)
      [] f \in Times   -> IF w = 0 THEN None ELSE w * Fine
      [] f \in Methods -> Known(w, Triggers, 1)
      [] OTHER -> w

LEMMA OrderReadBack ==
    ASSUME NEW o, o = [f \in OrderFields |-> o[f]], o.trade_data = TRUE,
           NEW f \in OrderParts, WireTyped(f, o[f])
    PROVE  OrderFromProto(o)[f] = ReadBack(f, o[f])
  <1>1. f # "trade_data" /\ f \in DOMAIN o
    BY OrderPartsAre DEF Prices, Counts, Distances, Times, Flags, OrderFields
  <1> QED
    BY <1>1, OrderPartsAre
    DEF OrderFromProto, ReadBack, WireTyped, Prices, Counts, Distances, Times, Flags, Known, Methods, Types

LEMMA PositionReadBack ==
    ASSUME NEW p, p = [f \in PositionParts |-> p[f]], p.trade_data = TRUE,
           NEW f \in AskedParts, WireTyped(f, p[f])
    PROVE  PositionFromProto(p)[f] = ReadBack(f, p[f])
  <1>1. f # "trade_data" /\ f \in DOMAIN p
    BY DEF AskedParts, PositionFields, PositionParts
  <1> QED
    BY <1>1
    DEF PositionFromProto, ReadBack, WireTyped, AskedParts, PositionFields, Prices, Counts, Distances, Times, Known, Methods

\* What is given for a field goes to the wire, and comes back as it is seen.
SentFor(f, v) ==
    CASE f \in Prices \cup Counts -> Sent(v)
      [] f \in Distances \cup Times -> Points(v)
      [] f \in Methods -> Sent(v)
      [] OTHER -> v

LEMMA PointsSeen ==
    ASSUME NEW v \in Nat
    PROVE  v \div Fine \in Nat /\ (v \div Fine = 0 <=> v < Fine)
  BY FineAssumption

LEMMA PointsBack == ASSUME NEW v \in Nat PROVE v * Fine \in Nat /\ (v * Fine) \div Fine = v
  BY FineAssumption

LEMMA SentIsSeen ==
    ASSUME NEW f, NEW v, Typed(f, v)
    PROVE  WireTyped(f, SentFor(f, v)) /\ ReadBack(f, SentFor(f, v)) = Seen(f, v)
  <1> USE NoneAssumption
  <1>1. CASE f \in Prices \cup Counts
    BY <1>1 DEF Typed, WireTyped, SentFor, ReadBack, Seen, Prices, Counts, Distances, Times, Methods, Flags, Sent, Given
  <1>2. CASE f \in Distances
    <2>1. f \notin Prices \cup Counts /\ f \notin Times /\ f \notin Methods /\ f \notin Flags /\ f \notin {"side", "order_type", "volume"}
      BY <1>2 DEF Prices, Counts, Distances, Times, Methods, Flags
    <2>2. CASE v = None
      BY <1>2, <2>1, <2>2 DEF Typed, WireTyped, SentFor, ReadBack, Seen, Points, Given
    <2>3. CASE v # None
      <3>1. v \in Nat
        BY <1>2, <2>3 DEF Typed
      <3> QED
        BY <1>2, <2>1, <2>3, <3>1, PointsSeen DEF WireTyped, SentFor, ReadBack, Seen, Points, Given
    <2> QED
      BY <2>2, <2>3
  <1>3. CASE f \in Methods
    <2>1. f \notin Prices \cup Counts /\ f \notin Distances \cup Times /\ f \notin Flags /\ f \notin {"side", "order_type", "volume"}
      BY <1>3 DEF Prices, Counts, Distances, Times, Methods, Flags
    <2> QED
      BY <1>3, <2>1 DEF Typed, WireTyped, SentFor, ReadBack, Seen, Sent, Known, Triggers
  <1>4. CASE f \notin Prices \cup Counts /\ f \notin Distances \cup Times /\ f \notin Methods
    BY <1>4 DEF Typed, WireTyped, SentFor, ReadBack, Seen
  <1>5. CASE f \in Times
    <2>1. f \notin Prices \cup Counts /\ f \notin Distances /\ f \notin Methods /\ f \notin Flags /\ f \notin {"side", "order_type", "volume"}
      BY <1>5 DEF Prices, Counts, Distances, Times, Methods, Flags
    <2>2. CASE v = None
      BY <1>5, <2>1, <2>2 DEF Typed, WireTyped, SentFor, ReadBack, Seen, Points
    <2>3. CASE v # None
      <3>1. v \in Nat
        BY <1>5, <2>3 DEF Typed
      <3>2. PICK w \in Nat : w = v \div Fine /\ (w = 0 <=> v < Fine)
        BY <3>1, PointsSeen
      <3>3. SentFor(f, v) = w
        BY <1>5, <2>1, <2>3, <3>2 DEF SentFor, Points
      <3>4. WireTyped(f, w)
        BY <1>5, <2>1 DEF WireTyped
      <3>5. ReadBack(f, w) = IF w = 0 THEN None ELSE w * Fine
        BY <1>5, <2>1 DEF ReadBack
      <3>6. Seen(f, v) = IF w = 0 THEN None ELSE w * Fine
        BY <1>5, <2>1, <2>3, <3>2 DEF Seen
      <3> QED
        BY <3>3, <3>4, <3>5, <3>6
    <2> QED
      BY <2>2, <2>3
  <1> QED
    BY <1>1, <1>2, <1>3, <1>4, <1>5

----------------------------------------------------------------------------
(* What the server makes of each trade.                                    *)

LEMMA NewOrderSends ==
    ASSUME NEW r, r = [f \in OrderParts |-> r[f]], \A f \in OrderParts : Typed(f, r[f])
    PROVE  NewOrderToProto(r) = [f \in OrderParts |-> SentFor(f, r[f])]
  <1>1. DOMAIN r = OrderParts
    OBVIOUS
  <1>2. ASSUME NEW f \in OrderParts PROVE NewOrderToProto(r)[f] = SentFor(f, r[f])
    BY <1>1, OrderPartsAre DEF NewOrderToProto, SentFor, Methods, Prices, Counts, Distances, Times, Flags
  <1> QED
    BY <1>1, <1>2 DEF NewOrderToProto

LEMMA PlaceFits ==
    ASSUME NEW r, r = [f \in OrderParts |-> r[f]], \A f \in OrderParts : Typed(f, r[f])
    PROVE  OrderFits(OrderFor(NewOrderToProto(r)), r)
  <1> DEFINE m == NewOrderToProto(r)
             o == OrderFor(m)
  <1>1. DOMAIN m = OrderParts /\ \A f \in OrderParts : m[f] = SentFor(f, r[f])
    BY NewOrderSends
  <1> HIDE DEF m
  <1>2. o = [f \in OrderFields |-> o[f]] /\ o.trade_data = TRUE /\ o.order_status = 1
    BY <1>1 DEF OrderFor, OrderFields
  <1>3. ASSUME NEW f \in OrderParts
        PROVE  o[f] = SentFor(f, r[f])
    <2>1. f \notin {"order_id", "trade_data", "order_status", "execution_price"}
      BY OrderPartsAre DEF Prices, Counts, Distances, Times, Flags
    <2> QED
      BY <1>1, <2>1 DEF OrderFor
  <1> HIDE DEF o
  <1>4. ASSUME NEW f \in OrderParts
        PROVE  WireTyped(f, o[f]) /\ OrderFromProto(o)[f] = Seen(f, r[f])
    <2>1. Typed(f, r[f])
      OBVIOUS
    <2>2. WireTyped(f, o[f]) /\ ReadBack(f, o[f]) = Seen(f, r[f])
      BY <1>3, <2>1, SentIsSeen
    <2> QED
      BY <1>2, <2>2, OrderReadBack
  <1>5. OrderFits(o, r)
    BY <1>2, <1>4 DEF OrderFits
  <1> QED
    BY <1>5 DEF o, m

\* What an amendment sends for a field.
AmendedFor(f, v) ==
    CASE f \in Distances \cup Times -> Points(v)
      [] f \in Flags     -> IF v = None THEN FALSE ELSE v
      [] OTHER           -> Sent(v)

\* A field that is changed is sent as in a new order.
LEMMA ChangedSends ==
    ASSUME NEW f \in AmendFields, NEW v, Typed(f, v)
    PROVE  AmendedFor(f, v) = SentFor(f, v)
  <1>1. CASE f \in Prices \cup Counts \/ f \in Distances \cup Times \/ f = "stop_trigger_method"
    BY <1>1 DEF AmendedFor, SentFor, Prices, Counts, Distances, Times, Flags, Methods
  <1>2. CASE f \in Flags
    <2>1. f \notin Distances \cup Times /\ f \notin Prices \cup Counts /\ f \notin Methods
      BY <1>2 DEF Prices, Counts, Distances, Times, Flags, Methods
    <2>2. v \in BOOLEAN
      BY <1>2 DEF Typed
    <2>3. v # None
      BY <2>2, NoneAssumption
    <2> QED
      BY <1>2, <2>1, <2>3 DEF AmendedFor, SentFor
  <1>3. CASE f = "volume"
    BY <1>3, NoneAssumption DEF Typed, AmendedFor, SentFor, Prices, Counts, Distances, Times, Flags, Methods, Sent
  <1> QED
    BY <1>1, <1>2, <1>3, AmendedAre

\* A distance that was shown is asked for in price.
AskedAgain(f, v) == IF f \in Distances /\ v # None THEN v * Fine ELSE v

\* A field that is kept is sent so that it is read as before.
LEMMA KeptSends ==
    ASSUME NEW f \in AmendFields, NEW w, WireTyped(f, w)
    PROVE  LET m == AmendedFor(f, AskedAgain(f, ReadBack(f, w)))
           IN WireTyped(f, m) /\ ReadBack(f, m) = ReadBack(f, w)
  <1> DEFINE m == AmendedFor(f, AskedAgain(f, ReadBack(f, w)))
  <1> USE NoneAssumption
  <1>1. CASE f \in Prices \cup Counts
    <2>1. f \notin Distances \cup Times /\ f \notin Flags /\ f \notin Methods /\ f \notin {"side", "order_type", "volume"}
      BY <1>1 DEF Prices, Counts, Distances, Times, Flags, Methods
    <2>2. w \in Int
      BY <1>1 DEF WireTyped
    <2>3. m = w
      BY <1>1, <2>1, <2>2 DEF AmendedFor, AskedAgain, ReadBack, Given, Sent
    <2> QED
      BY <2>3
  <1>2. CASE f \in Distances
    <2>1. f \notin Prices \cup Counts /\ f \notin Times /\ f \notin Flags /\ f \notin Methods /\ f \notin {"side", "order_type", "volume"}
      BY <1>2 DEF Prices, Counts, Distances, Times, Flags, Methods
    <2>2. w \in Nat
      BY <1>2 DEF WireTyped
    <2>3. CASE w = 0
      BY <1>2, <2>1, <2>3 DEF AmendedFor, AskedAgain, ReadBack, Given, Points
    <2>4. CASE w # 0
      <3>1. ReadBack(f, w) = w /\ w # None
        BY <1>2, <2>1, <2>2, <2>4 DEF ReadBack, Given
      <3>2. PICK d \in Nat : d = w * Fine /\ d \div Fine = w
        BY <2>2, PointsBack
      <3>3. AskedAgain(f, w) = d /\ d # None
        BY <1>2, <3>1, <3>2 DEF AskedAgain
      <3>4. m = w
        BY <1>2, <2>1, <3>1, <3>2, <3>3 DEF AmendedFor, Points
      <3> QED
        BY <3>4
    <2> QED
      BY <2>3, <2>4
  <1>3. CASE f \in Flags
    <2>1. f \notin Distances \cup Times /\ f \notin Prices \cup Counts /\ f \notin Methods
      BY <1>3 DEF Prices, Counts, Distances, Times, Flags, Methods
    <2>2. w \in BOOLEAN
      BY <1>3 DEF WireTyped
    <2>3. w # None
      BY <2>2
    <2>4. ReadBack(f, w) = w /\ AskedAgain(f, w) = w
      BY <2>1 DEF ReadBack, AskedAgain
    <2>5. m = w
      BY <1>3, <2>1, <2>3, <2>4 DEF AmendedFor
    <2> QED
      BY <2>5
  <1>4. CASE f = "stop_trigger_method"
    <2>1. /\ f \notin Distances \cup Times /\ f \notin Prices \cup Counts /\ f \notin Flags /\ f \in Methods
          /\ f \notin {"side", "order_type", "volume"}
      BY <1>4 DEF Prices, Counts, Distances, Times, Flags, Methods
    <2>2. ReadBack(f, w) = Known(w, Triggers, 1) /\ Known(w, Triggers, 1) \in Triggers
      BY <2>1 DEF ReadBack, Known, Triggers
    <2>3. m = ReadBack(f, w)
      BY <2>1, <2>2 DEF AmendedFor, AskedAgain, Sent, Triggers
    <2> QED
      BY <2>1, <2>2, <2>3 DEF WireTyped, ReadBack, Known
  <1>5. CASE f = "volume"
    <2>1. f \notin Distances \cup Times /\ f \notin Prices \cup Counts /\ f \notin Flags /\ f \notin Methods
      BY <1>5 DEF Prices, Counts, Distances, Times, Flags, Methods
    <2>2. w \in Nat \ {0}
      BY <1>5 DEF WireTyped
    <2>3. m = w
      BY <2>1, <2>2 DEF AmendedFor, AskedAgain, ReadBack, Sent
    <2> QED
      BY <2>3
  <1>6. CASE f \in Times
    <2>1. f \notin Prices \cup Counts /\ f \notin Distances /\ f \notin Flags /\ f \notin Methods /\ f \notin {"side", "order_type", "volume"}
      BY <1>6 DEF Prices, Counts, Distances, Times, Flags, Methods
    <2>2. w \in Nat
      BY <1>6 DEF WireTyped
    <2>3. PICK d \in Nat : d = w * Fine /\ d \div Fine = w
      BY <2>2, PointsBack
    <2>4. ReadBack(f, w) = IF w = 0 THEN None ELSE d
      BY <1>6, <2>1, <2>3 DEF ReadBack
    <2>5. \A x : AskedAgain(f, x) = x /\ AmendedFor(f, x) = Points(x)
      BY <1>6, <2>1 DEF AskedAgain, AmendedFor
    <2>6. m = Points(IF w = 0 THEN None ELSE d)
      BY <2>4, <2>5
    <2>7. m = w
      BY <2>2, <2>3, <2>6 DEF Points
    <2> QED
      BY <2>7
  <1> QED
    BY <1>1, <1>2, <1>3, <1>4, <1>5, <1>6, AmendedAre

\* The order after an amendment.
Amended(o, m) ==
    [f \in DOMAIN o |-> IF f \notin AmendFields \/ (f = "volume" /\ m[f] = 0) THEN o[f] ELSE m[f]]

LEMMA AmendFits ==
    ASSUME NEW o, NEW a, OrderFits(o, a), NEW c \in Changes, c[1] \in AmendFields
    PROVE  OrderFits(Amended(o, AmendOrderToProto(With(AmendmentOf(OrderFromProto(o)), c))), With(a, c))
  <1> DEFINE x == OrderFromProto(o)
             r == With(AmendmentOf(x), c)
             m == AmendOrderToProto(r)
             n == Amended(o, m)
             b == With(a, c)
  <1>1. Typed(c[1], c[2])
    BY ChangesAssumption
  <1>2. /\ o = [f \in OrderFields |-> o[f]] /\ a = [f \in OrderParts |-> a[f]]
        /\ o.trade_data = TRUE /\ o.order_status = 1
        /\ \A f \in OrderParts : WireTyped(f, o[f]) /\ Typed(f, a[f]) /\ x[f] = Seen(f, a[f])
    BY DEF OrderFits
  <1>3. DOMAIN o = OrderFields /\ DOMAIN a = OrderParts /\ c[1] \in OrderParts
    BY <1>2, AmendedAre
  <1>4. b = [f \in OrderParts |-> IF f = c[1] THEN c[2] ELSE a[f]]
    BY <1>3 DEF With
  <1>5. ASSUME NEW f \in OrderParts PROVE x[f] = ReadBack(f, o[f])
    BY <1>2, OrderReadBack
  <1> HIDE DEF x
  <1>6. r = [f \in AmendFields |-> IF f = c[1] THEN c[2] ELSE AskedAgain(f, x[f])]
    BY DEF With, AmendmentOf, AskedAgain
  <1> HIDE DEF r
  <1>7. \A f \in AmendFields : m[f] = AmendedFor(f, r[f])
    BY DEF AmendOrderToProto, AmendedFor
  <1> HIDE DEF m, b
  <1>8. /\ n = [f \in OrderFields |-> n[f]] /\ n.trade_data = TRUE /\ n.order_status = 1
        /\ \A f \in OrderParts : f \notin AmendFields => n[f] = o[f]
        /\ \A f \in AmendFields : n[f] = IF f = "volume" /\ m[f] = 0 THEN o[f] ELSE m[f]
    BY <1>2, <1>3, AmendedAre DEF Amended, OrderFields
  <1> HIDE DEF n
  <1>9. ASSUME NEW f \in OrderParts
        PROVE  WireTyped(f, n[f]) /\ Typed(f, b[f]) /\ OrderFromProto(n)[f] = Seen(f, b[f])
    <2>1. SUFFICES WireTyped(f, n[f]) /\ Typed(f, b[f]) /\ ReadBack(f, n[f]) = Seen(f, b[f])
      BY <1>8, OrderReadBack
    <2>2. CASE f \notin AmendFields
      <3>1. n[f] = o[f] /\ b[f] = a[f]
        BY <1>4, <1>8, <2>2
      <3> QED
        BY <1>2, <1>5, <3>1
    <2>3. CASE f = c[1]
      <3>1. b[f] = c[2] /\ r[f] = c[2] /\ m[f] = AmendedFor(f, c[2])
        BY <1>4, <1>6, <1>7, <2>3
      <3>2. m[f] = SentFor(f, c[2])
        BY <1>1, <2>3, <3>1, ChangedSends
      <3>3. WireTyped(f, m[f]) /\ ReadBack(f, m[f]) = Seen(f, c[2])
        BY <1>1, <2>3, <3>2, SentIsSeen
      <3>4. n[f] = m[f]
        BY <1>8, <2>3, <3>3 DEF WireTyped
      <3> QED
        BY <1>1, <2>3, <3>1, <3>3, <3>4
    <2>4. CASE f \in AmendFields /\ f # c[1]
      <3>1. b[f] = a[f] /\ m[f] = AmendedFor(f, AskedAgain(f, ReadBack(f, o[f])))
        BY <1>4, <1>5, <1>6, <1>7, <2>4
      <3>2. WireTyped(f, m[f]) /\ ReadBack(f, m[f]) = ReadBack(f, o[f])
        BY <1>2, <2>4, <3>1, KeptSends
      <3>3. n[f] = m[f]
        BY <1>8, <2>4, <3>2 DEF WireTyped
      <3> QED
        BY <1>2, <1>5, <3>1, <3>2, <3>3
    <2> QED
      BY <2>2, <2>3, <2>4
  <1>10. OrderFits(n, b)
    BY <1>4, <1>8, <1>9 DEF OrderFits
  <1> QED
    BY <1>10 DEF n, m, r, x, b

\* The position that a filled order becomes.
LEMMA FillFits ==
    ASSUME NEW o, NEW a, OrderFits(o, a)
    PROVE  PositionFits(PositionFor(o), AskedPosition(a))
  <1> DEFINE p == PositionFor(o)
             b == AskedPosition(a)
             Of(f) == IF f = "stop_loss_trigger_method" THEN "stop_trigger_method" ELSE f
  <1>1. /\ p = [f \in PositionParts |-> p[f]] /\ b = [f \in AskedParts |-> b[f]] /\ p.trade_data = TRUE
    BY DEF PositionFor, AskedPosition, PositionParts, AskedParts, PositionFields
  <1>2. ASSUME NEW f \in AskedParts
        PROVE  p[f] = o[Of(f)] /\ b[f] = a[Of(f)] /\ Of(f) \in OrderParts
    BY OrderPartsAre DEF PositionFor, AskedPosition, AskedParts, PositionFields, Prices, Flags
  <1> HIDE DEF p, b
  <1>3. ASSUME NEW f \in AskedParts
        PROVE  WireTyped(f, p[f]) /\ Typed(f, b[f]) /\ PositionFromProto(p)[f] = Seen(f, b[f])
    <2> DEFINE g == Of(f)
    <2>1. WireTyped(g, o[g]) /\ Typed(g, a[g]) /\ ReadBack(g, o[g]) = Seen(g, a[g])
      <3>1. g \in OrderParts
        BY <1>2
      <3> HIDE DEF g
      <3> QED
        BY <3>1, OrderReadBack DEF OrderFits
    <2>2. /\ WireTyped(f, o[g]) /\ Typed(f, a[g])
          /\ ReadBack(f, o[g]) = ReadBack(g, o[g]) /\ Seen(f, a[g]) = Seen(g, a[g])
      <3>1. CASE f # "stop_loss_trigger_method"
        BY <2>1, <3>1
      <3>2. CASE f = "stop_loss_trigger_method"
        BY <2>1, <3>2 DEF WireTyped, Typed, ReadBack, Seen, Prices, Counts, Distances, Times, Flags, Methods
      <3> QED
        BY <3>1, <3>2
    <2>3. WireTyped(f, p[f]) /\ Typed(f, b[f]) /\ ReadBack(f, p[f]) = Seen(f, b[f])
      <3>1. p[f] = o[g] /\ b[f] = a[g]
        BY <1>2
      <3> HIDE DEF g
      <3> QED
        BY <2>1, <2>2, <3>1
    <2> QED
      BY <1>1, <2>3, PositionReadBack
  <1>4. PositionFits(p, b)
    BY <1>1, <1>3 DEF PositionFits
  <1> QED
    BY <1>4 DEF p, b

\* A position that is closed in part.
LEMMA CloseFits ==
    ASSUME NEW p, NEW a, PositionFits(p, a), NEW v \in Nat \ {0}, v <= p.volume, v # p.volume
    PROVE  PositionFits([p EXCEPT !.volume = @ - v], [a EXCEPT !.volume = @ - v])
  <1> DEFINE q == [p EXCEPT !.volume = @ - v]
             b == [a EXCEPT !.volume = @ - v]
  <1>1. /\ p = [f \in PositionParts |-> p[f]] /\ a = [f \in AskedParts |-> a[f]] /\ p.trade_data = TRUE
        /\ \A f \in AskedParts : WireTyped(f, p[f]) /\ Typed(f, a[f]) /\ PositionFromProto(p)[f] = Seen(f, a[f])
        /\ "volume" \in AskedParts /\ AskedParts \subseteq PositionParts /\ "trade_data" \in PositionParts
        /\ "volume" # "trade_data"
    BY DEF PositionFits, AskedParts, PositionParts
  <1>2. /\ q = [f \in PositionParts |-> q[f]] /\ b = [f \in AskedParts |-> b[f]] /\ q.trade_data = TRUE
        /\ \A f \in AskedParts : f # "volume" => q[f] = p[f] /\ b[f] = a[f]
        /\ q.volume = p.volume - v /\ b.volume = a.volume - v
    BY <1>1
  <1> HIDE DEF q, b
  <1>3. \A f \in AskedParts : ReadBack(f, p[f]) = Seen(f, a[f])
    BY <1>1, PositionReadBack
  <1>4. /\ \A u : ReadBack("volume", u) = u /\ Seen("volume", u) = u
        /\ \A u : WireTyped("volume", u) <=> u \in Nat \ {0}
        /\ \A u : Typed("volume", u) <=> u \in Nat \ {0}
    BY DEF ReadBack, Seen, WireTyped, Typed, Prices, Counts, Distances, Times, Flags, Methods
  <1>5. a.volume = p.volume /\ p.volume \in Nat \ {0} /\ p.volume - v \in Nat \ {0}
    BY <1>1, <1>3, <1>4
  <1>6. ASSUME NEW f \in AskedParts
        PROVE  WireTyped(f, q[f]) /\ Typed(f, b[f]) /\ ReadBack(f, q[f]) = Seen(f, b[f])
    <2>1. CASE f = "volume"
      BY <1>2, <1>4, <1>5, <2>1
    <2>2. CASE f # "volume"
      BY <1>1, <1>2, <1>3, <2>2
    <2> QED
      BY <2>1, <2>2
  <1>7. PositionFits(q, b)
    BY <1>2, <1>6, PositionReadBack DEF PositionFits
  <1> QED
    BY <1>7 DEF q, b

\* The position after an amendment.
PositionAmended(p, m) == [f \in DOMAIN p |-> IF f \in PositionFields THEN m[f] ELSE p[f]]

LEMMA AmendPositionFits ==
    ASSUME NEW p, NEW a, PositionFits(p, a), NEW c \in Changes, c[1] \in PositionFields
    PROVE  PositionFits(PositionAmended(p, AmendPositionToProto(With(AmendmentOfPosition(PositionFromProto(p)), c))),
                        With(a, c))
  <1> DEFINE x == PositionFromProto(p)
             r == With(AmendmentOfPosition(x), c)
             m == AmendPositionToProto(r)
             q == PositionAmended(p, m)
             b == With(a, c)
  <1>1. Typed(c[1], c[2])
    BY ChangesAssumption
  <1>2. /\ p = [f \in PositionParts |-> p[f]] /\ a = [f \in AskedParts |-> a[f]] /\ p.trade_data = TRUE
        /\ \A f \in AskedParts : WireTyped(f, p[f]) /\ Typed(f, a[f]) /\ x[f] = Seen(f, a[f])
    BY DEF PositionFits
  <1>3. /\ DOMAIN p = PositionParts /\ DOMAIN a = AskedParts /\ c[1] \in AskedParts
        /\ PositionFields \subseteq AskedParts /\ AskedParts \subseteq PositionParts
        /\ "trade_data" \in PositionParts /\ "trade_data" \notin AskedParts
    BY <1>2 DEF AskedParts, PositionParts, PositionFields
  <1>4. b = [f \in AskedParts |-> IF f = c[1] THEN c[2] ELSE a[f]]
    BY <1>3 DEF With
  <1>5. ASSUME NEW f \in AskedParts PROVE x[f] = ReadBack(f, p[f])
    BY <1>2, PositionReadBack
  <1> HIDE DEF x
  <1>6. r = [f \in PositionFields |-> IF f = c[1] THEN c[2] ELSE x[f]]
    BY DEF With, AmendmentOfPosition
  <1> HIDE DEF r
  <1>7. \A f \in PositionFields :
          m[f] = IF f \in Prices THEN Sent(r[f])
                 ELSE IF f = "stop_loss_trigger_method" THEN (IF r[f] = None THEN 1 ELSE r[f]) ELSE r[f]
    BY <1>6 DEF AmendPositionToProto, Prices
  <1> HIDE DEF m, b
  <1>8. /\ q = [f \in PositionParts |-> q[f]] /\ q.trade_data = TRUE
        /\ \A f \in AskedParts : f \notin PositionFields => q[f] = p[f]
        /\ \A f \in PositionFields : q[f] = m[f]
    BY <1>2, <1>3 DEF PositionAmended
  <1> HIDE DEF q
  <1>9. ASSUME NEW f \in AskedParts
        PROVE  WireTyped(f, q[f]) /\ Typed(f, b[f]) /\ ReadBack(f, q[f]) = Seen(f, b[f])
    <2>1. CASE f \notin PositionFields
      BY <1>2, <1>3, <1>4, <1>5, <1>8, <2>1
    <2>2. CASE f \in PositionFields
      <3>1. q[f] = m[f] /\ r[f] = (IF f = c[1] THEN c[2] ELSE ReadBack(f, p[f])) /\ b[f] = (IF f = c[1] THEN c[2] ELSE a[f])
        BY <1>3, <1>4, <1>5, <1>6, <1>8, <2>2
      <3>2. WireTyped(f, p[f]) /\ Typed(f, b[f]) /\ ReadBack(f, p[f]) = Seen(f, a[f])
        BY <1>1, <1>2, <1>5, <3>1
      <3>3. CASE f \in Prices
        <4>1. /\ f \notin Distances \cup Times /\ f \notin Flags /\ f \notin Methods /\ f \notin {"side", "order_type", "volume"}
          BY <3>3 DEF Prices, Distances, Times, Flags, Methods
        <4>2. m[f] = Sent(r[f]) /\ p[f] \in Int /\ (b[f] = None \/ b[f] \in Int)
          BY <1>7, <2>2, <3>2, <3>3 DEF WireTyped, Typed
        <4> QED
          BY <3>1, <3>2, <3>3, <4>1, <4>2, NoneAssumption DEF WireTyped, ReadBack, Seen, Sent, Given
      <3>4. CASE f = "stop_loss_trigger_method"
        <4>1. /\ f \notin Prices \cup Counts /\ f \notin Distances \cup Times /\ f \notin Flags /\ f \in Methods
              /\ f \notin {"side", "order_type", "volume"}
          BY <3>4 DEF Prices, Counts, Distances, Times, Flags, Methods
        <4>2. /\ m[f] = (IF r[f] = None THEN 1 ELSE r[f])
              /\ p[f] = 0 \/ p[f] \in Triggers
              /\ b[f] = None \/ b[f] \in Triggers
          BY <1>7, <2>2, <3>2, <3>4, <4>1 DEF WireTyped, Typed
        <4> QED
          BY <3>1, <3>2, <4>1, <4>2, NoneAssumption DEF WireTyped, ReadBack, Seen, Known, Triggers
      <3>5. CASE f \in Flags
        <4>1. /\ f \notin Prices \cup Counts /\ f \notin Distances \cup Times /\ f \notin Methods
              /\ f \notin {"side", "order_type", "volume"} /\ f # "stop_loss_trigger_method"
          BY <3>5 DEF Prices, Counts, Distances, Times, Flags, Methods
        <4>2. /\ m[f] = r[f] /\ p[f] \in BOOLEAN /\ b[f] \in BOOLEAN
              /\ \A w : ReadBack(f, w) = w /\ Seen(f, w) = w
          BY <1>7, <2>2, <3>2, <3>5, <4>1 DEF WireTyped, Typed, ReadBack, Seen
        <4>3. q[f] = b[f]
          BY <3>1, <3>2, <4>2
        <4> QED
          BY <3>2, <3>5, <4>1, <4>2, <4>3 DEF WireTyped
      <3> QED
        BY <2>2, <3>3, <3>4, <3>5 DEF PositionFields, Prices, Flags
    <2> QED
      BY <2>1, <2>2
  <1>10. b = [f \in AskedParts |-> b[f]]
    BY <1>4
  <1>11. \A f \in AskedParts : PositionFromProto(q)[f] = Seen(f, b[f])
    BY <1>8, <1>9, PositionReadBack
  <1>12. PositionFits(q, b)
    BY <1>8, <1>9, <1>10, <1>11 DEF PositionFits
  <1> QED
    BY <1>12 DEF q, m, r, x, b

----------------------------------------------------------------------------
(* What a query makes of the wire form of what is true.                    *)

\* What has the scale of its message is in the scale of the application again.
LEMMA MoneyBack ==
    ASSUME NEW d \in Digits, NEW v \in Amount(d)
    PROVE  Cents(v, d) \in Int /\ Money(Cents(v, d), d) = v /\ (v > 0 <=> Cents(v, d) > 0) /\ (v = 0 <=> Cents(v, d) = 0)
  <1>1. PICK u \in Nat \ {0} : Unit(d) = u /\ 10 ^ Places \div MoneyDivisor(d) = u
    <2>1. d \in {0, 1, 2, 3, 4, 5, 6, 7, 8}
      BY DEF Digits, Places
    <2>2. CASE d = 0
      BY <2>2 DEF Unit, MoneyDivisor, Places, DefaultDigits
    <2>3. CASE d = 1
      BY <2>3 DEF Unit, MoneyDivisor, Places
    <2>4. CASE d = 2
      BY <2>4 DEF Unit, MoneyDivisor, Places
    <2>5. CASE d = 3
      BY <2>5 DEF Unit, MoneyDivisor, Places
    <2>6. CASE d = 4
      BY <2>6 DEF Unit, MoneyDivisor, Places
    <2>7. CASE d = 5
      BY <2>7 DEF Unit, MoneyDivisor, Places
    <2>8. CASE d = 6
      BY <2>8 DEF Unit, MoneyDivisor, Places
    <2>9. CASE d = 7
      BY <2>9 DEF Unit, MoneyDivisor, Places
    <2>10. CASE d = 8
      BY <2>10 DEF Unit, MoneyDivisor, Places
    <2> QED
      BY <2>1, <2>2, <2>3, <2>4, <2>5, <2>6, <2>7, <2>8, <2>9, <2>10
  <1>2. v \in Int /\ v % u = 0
    BY <1>1 DEF Amount
  <1>3. PICK k \in Int : k = v \div u /\ v = k * u
    BY <1>2
  <1>4. Cents(v, d) = k /\ Money(k, d) = k * u
    BY <1>1, <1>3 DEF Cents, Money
  <1>5. (v > 0 <=> k > 0) /\ (v = 0 <=> k = 0)
    BY <1>1, <1>3
  <1> QED
    BY <1>3, <1>4, <1>5

LEMMA DealsTrue == ASSUME NEW t \in Facts.deals PROVE DealFromProto(WireDeal(t)) = AsShown("deals", t)
  <1>1. /\ t.side \in 1..2 /\ t.digits \in Digits /\ t.commission \in Amount(t.digits)
        /\ t.close = None \/ t.close \in [digits : Digits, profit : Int, balance : Int]
        /\ t.close # None => t.close.profit \in Amount(t.close.digits) /\ t.close.balance \in Amount(t.close.digits)
    BY DEF Facts, Maybe
  <1>2. Money(Cents(t.commission, t.digits), t.digits) = t.commission
    BY <1>1, MoneyBack
  <1>3. CASE t.close = None
    <2>1. WireDeal(t) = [side |-> t.side, digits |-> t.digits, commission |-> Cents(t.commission, t.digits),
                         close |-> [digits |-> 0, profit |-> 0, balance |-> 0]]
      BY <1>3 DEF WireDeal, WireClose
    <2>2. DealFromProto(WireDeal(t)) = [side |-> t.side, commission |-> t.commission, close |-> None]
      BY <1>1, <1>2, <2>1 DEF DealFromProto
    <2> QED
      BY <1>3, <2>2 DEF AsShown
  <1>4. CASE t.close # None
    <2> DEFINE c == t.close
    <2>1. c.digits \in Digits /\ c.profit \in Amount(c.digits) /\ c.balance \in Amount(c.digits) /\ c.balance \in Int
      BY <1>1, <1>4
    <2>2. /\ Money(Cents(c.profit, c.digits), c.digits) = c.profit
          /\ Money(Cents(c.balance, c.digits), c.digits) = c.balance
          /\ c.balance > 0 <=> Cents(c.balance, c.digits) > 0
      BY <2>1, MoneyBack
    <2>3. WireDeal(t) = [side |-> t.side, digits |-> t.digits, commission |-> Cents(t.commission, t.digits),
                         close |-> [digits |-> c.digits, profit |-> Cents(c.profit, c.digits),
                                    balance |-> Cents(c.balance, c.digits)]]
      BY <1>4 DEF WireDeal, WireClose
    <2>4. DealFromProto(WireDeal(t)) =
            [side |-> t.side, commission |-> t.commission,
             close |-> IF c.balance > 0 THEN [profit |-> c.profit, balance |-> c.balance] ELSE None]
      BY <1>1, <1>2, <2>2, <2>3 DEF DealFromProto
    <2>5. c.balance <= 0 <=> ~(c.balance > 0)
      BY <2>1
    <2> QED
      BY <1>4, <2>4, <2>5 DEF AsShown
  <1> QED
    BY <1>3, <1>4

LEMMA PnLTrue == ASSUME NEW t \in Facts.pnl PROVE UnrealizedPnL(WirePnL(t)) = AsShown("pnl", t)
  <1> DEFINE G == [gross : Int, net : Int]
             p == t.pnl
             d == t.digits
  <1>1. /\ p \in Seq(G) /\ d \in Digits
        /\ \A i \in DOMAIN p : {p[i].gross, p[i].net} \subseteq Amount(d)
    BY DEF Facts
  <1>2. WirePnL(t).digits = d
        /\ WirePnL(t).pnl = [i \in DOMAIN p |-> [gross |-> Cents(p[i].gross, d), net |-> Cents(p[i].net, d)]]
    BY DEF WirePnL
  <1> HIDE DEF p, d
  <1>3. ASSUME NEW i \in DOMAIN p
        PROVE  [gross |-> Money(Cents(p[i].gross, d), d), net |-> Money(Cents(p[i].net, d), d)] = p[i]
    <2>1. p[i] \in G
      <3> HIDE DEF G
      <3> QED
        BY <1>1
    <2>2. p[i] = [gross |-> p[i].gross, net |-> p[i].net] /\ p[i].gross \in Amount(d) /\ p[i].net \in Amount(d)
      BY <1>1, <2>1
    <2>3. Money(Cents(p[i].gross, d), d) = p[i].gross /\ Money(Cents(p[i].net, d), d) = p[i].net
      BY <1>1, <2>2, MoneyBack
    <2> QED
      BY <2>2, <2>3
  <1>4. UnrealizedPnL(WirePnL(t)) = [i \in DOMAIN p |-> [gross |-> Money(Cents(p[i].gross, d), d),
                                                        net |-> Money(Cents(p[i].net, d), d)]]
    BY <1>2 DEF UnrealizedPnL
  <1>5. p = [i \in DOMAIN p |-> p[i]]
    <2> HIDE DEF G
    <2> QED
      BY <1>1
  <1>6. UnrealizedPnL(WirePnL(t)) = p
    BY <1>3, <1>4, <1>5
  <1> QED
    BY <1>6 DEF AsShown, p

LEMMA TraderTrue == ASSUME NEW t \in Facts.trader PROVE AccountFromProto(WireTrader(t)) = AsShown("trader", t)
  <1>1. /\ t.digits \in Digits /\ t.rights \in 0..3
        /\ t.balance \in Int /\ (t.bonus = None \/ t.bonus \in Int)
        /\ {t.balance, t.bonus} \subseteq Maybe(Amount(t.digits))
    BY DEF Facts, Maybe
  <1>2. t.balance \in Amount(t.digits) /\ (t.bonus = None \/ t.bonus \in Amount(t.digits))
    BY <1>1, NoneAssumption DEF Maybe
  <1>3. Money(Cents(t.balance, t.digits), t.digits) = t.balance
    BY <1>1, <1>2, MoneyBack
  <1>4. CASE t.bonus = None
    <2>1. WireTrader(t) = [digits |-> t.digits, balance |-> Cents(t.balance, t.digits), rights |-> t.rights, bonus |-> 0]
      BY <1>4 DEF WireTrader
    <2>2. AccountFromProto(WireTrader(t)) = [balance |-> t.balance, bonus |-> None, rights |-> t.rights]
      BY <1>1, <1>3, <2>1 DEF AccountFromProto, Known
    <2>3. Given(t.bonus) = None
      BY <1>4, NoneAssumption DEF Given
    <2> QED
      BY <2>2, <2>3 DEF AsShown
  <1>5. CASE t.bonus # None
    <2>1. Money(Cents(t.bonus, t.digits), t.digits) = t.bonus /\ (t.bonus = 0 <=> Cents(t.bonus, t.digits) = 0)
      BY <1>1, <1>2, <1>5, MoneyBack
    <2>2. WireTrader(t) = [digits |-> t.digits, balance |-> Cents(t.balance, t.digits), rights |-> t.rights,
                           bonus |-> Cents(t.bonus, t.digits)]
      BY <1>5 DEF WireTrader
    <2>3. AccountFromProto(WireTrader(t)) = [balance |-> t.balance, bonus |-> Given(t.bonus), rights |-> t.rights]
      BY <1>1, <1>3, <2>1, <2>2 DEF AccountFromProto, Known, Given
    <2> QED
      BY <2>3 DEF AsShown
  <1> QED
    BY <1>4, <1>5

\* A value comes back as it is shown, absent or not.
LEMMA GivenSent == \A v \in Maybe(Int) : Given(Sent(v)) = Given(v)
  BY NoneAssumption DEF Given, Sent, Maybe

LEMMA AccountsTrue == ASSUME NEW t \in Facts.accounts PROVE AccountsFromProto(WireAccounts(t)) = AsShown("accounts", t)
  <1> DEFINE A == [account_id : Int, login : Int, last_closing_deal : Maybe(Int)]
             w == WireAccounts(t)
  <1>1. t \in Seq(A)
    BY DEF Facts
  <1>2. DOMAIN w = DOMAIN t /\ \A i \in DOMAIN t : w[i] = [t[i] EXCEPT !.last_closing_deal = Sent(@)]
    BY DEF WireAccounts
  <1>3. ASSUME NEW i \in DOMAIN t
        PROVE  [account_id |-> w[i].account_id, login |-> w[i].login,
                last_closing_deal |-> Given(w[i].last_closing_deal)] = [t[i] EXCEPT !.last_closing_deal = Given(@)]
    <2> DEFINE e == t[i]
    <2>1. e \in A
      <3> HIDE DEF A
      <3> QED
        BY <1>1
    <2>2. e = [account_id |-> e.account_id, login |-> e.login, last_closing_deal |-> e.last_closing_deal]
      BY <2>1
    <2>3. Given(Sent(e.last_closing_deal)) = Given(e.last_closing_deal)
      BY <2>1, GivenSent
    <2>4. w[i] = [e EXCEPT !.last_closing_deal = Sent(@)]
      BY <1>2
    <2> HIDE DEF e, w
    <2>5. w[i] = [account_id |-> e.account_id, login |-> e.login, last_closing_deal |-> Sent(e.last_closing_deal)]
      BY <2>2, <2>4
    <2>6. [e EXCEPT !.last_closing_deal = Given(@)] =
             [account_id |-> e.account_id, login |-> e.login, last_closing_deal |-> Given(e.last_closing_deal)]
      BY <2>2
    <2>7. [account_id |-> w[i].account_id, login |-> w[i].login,
           last_closing_deal |-> Given(w[i].last_closing_deal)] = [e EXCEPT !.last_closing_deal = Given(@)]
      BY <2>3, <2>5, <2>6
    <2> QED
      BY <2>7 DEF e
  <1> HIDE DEF w
  <1>4. AccountsFromProto(w) = [i \in DOMAIN t |-> [t[i] EXCEPT !.last_closing_deal = Given(@)]]
    BY <1>2, <1>3 DEF AccountsFromProto
  <1> QED
    BY <1>4 DEF w, AsShown

LEMMA PairConcat == ASSUME NEW x, NEW y PROVE <<x>> \o <<y>> = <<x, y>>
  <1> DEFINE s == <<x>>
             t == <<y>>
             u == s \o t
             v == <<x, y>>
  <1>1. s \in Seq({x, y}) /\ t \in Seq({x, y}) /\ Len(s) = 1 /\ Len(t) = 1 /\ s[1] = x /\ t[1] = y
    OBVIOUS
  <1>2. v \in Seq({x, y}) /\ Len(v) = 2 /\ v[1] = x /\ v[2] = y
    OBVIOUS
  <1> HIDE DEF s, t, v
  <1>3. u \in Seq({x, y}) /\ Len(u) = 2 /\ u[1] = x /\ u[2] = y
    <2> DEFINE S == {x, y}
    <2>1. s \in Seq(S) /\ t \in Seq(S)
      BY <1>1
    <2> HIDE DEF S
    <2>2. /\ u \in Seq(S) /\ Len(u) = Len(s) + Len(t)
          /\ \A i \in 1..(Len(s) + Len(t)) : u[i] = IF i <= Len(s) THEN s[i] ELSE t[i - Len(s)]
      BY <2>1, ConcatProperties
    <2>3. u \in Seq(S) /\ Len(u) = 2 /\ u[1] = x /\ u[2] = y
      <3> HIDE DEF u
      <3> QED
        BY <1>1, <2>2
    <2> QED
      BY <2>3 DEF S
  <1> HIDE DEF u
  <1>4. u = v
    BY <1>2, <1>3
  <1> QED
    BY <1>4 DEF s, t, u, v

LEMMA ResolveTrue ==
    ASSUME NEW t \in Facts.resolve PROVE ResolveAccountId(AccountsFromProto(WireLogins(t)), Login) = t
  <1> DEFINE a == AccountsFromProto(WireLogins(t))
             at == {i \in DOMAIN a : a[i].login = Login}
  <1>1. CASE t = None
    <2>1. DOMAIN a = 1..1 /\ a[1].login = Login + 1
      BY <1>1 DEF AccountsFromProto, WireLogins
    <2>2. at = {}
      BY <2>1 DEF Login
    <2> QED
      BY <1>1, <2>2 DEF ResolveAccountId
  <1>2. CASE t # None
    <2>1. WireLogins(t) = <<[account_id |-> 9, login |-> Login + 1, last_closing_deal |-> 0],
                            [account_id |-> t, login |-> Login, last_closing_deal |-> 8]>>
      BY <1>2, PairConcat, Zenon DEF WireLogins
    <2>2. DOMAIN a = 1..2 /\ a[1].login = Login + 1 /\ a[2].login = Login /\ a[2].account_id = t
      BY <2>1 DEF AccountsFromProto
    <2>3. at = {2}
      BY <2>2 DEF Login
    <2>4. (CHOOSE i \in at : \A j \in at : i <= j) = 2
      BY <2>3
    <2> QED
      BY <2>2, <2>3, <2>4 DEF ResolveAccountId
  <1> QED
    BY <1>1, <1>2

LEMMA SymbolTrue == ASSUME NEW t \in Facts.symbol PROVE SymbolFromProto(WireSymbol(t)) = AsShown("symbol", t)
  <1>1. CASE t = None
    BY <1>1 DEF SymbolFromProto, WireSymbol, AsShown
  <1>2. CASE t # None
    <2>1. t \in [id : Int, max_exposure : Maybe(Int), mode : 0..3]
      BY <1>2 DEF Facts, Maybe
    <2>2. /\ t = [id |-> t.id, max_exposure |-> t.max_exposure, mode |-> t.mode] /\ t.mode \in 0..3
          /\ Given(Sent(t.max_exposure)) = Given(t.max_exposure)
      BY <2>1, GivenSent
    <2>3. [t EXCEPT !.max_exposure = Given(@)] = [id |-> t.id, max_exposure |-> Given(t.max_exposure), mode |-> t.mode]
      BY <2>2
    <2>4. SymbolFromProto(WireSymbol(t)) = [id |-> t.id, max_exposure |-> Given(t.max_exposure), mode |-> t.mode]
      BY <1>2, <2>2 DEF SymbolFromProto, WireSymbol, Known
    <2> QED
      BY <1>2, <2>3, <2>4 DEF AsShown
  <1> QED
    BY <1>1, <1>2

LEMMA SearchTrue == ASSUME NEW t \in Facts.search PROVE Search(SymbolsFromProto(WireFound(t))) = AsShown("search", t)
  <1> DEFINE S == [id : Int, matches : {TRUE}, category : Maybe(Int)]
             W(i) == [t[i] EXCEPT !.category = Sent(@)]
             V(i) == [t[i] EXCEPT !.category = Given(@)]
             q == [i \in DOMAIN t |-> V(i)]
             u == [i \in DOMAIN t |-> W(i)]
             x == [id |-> 9, matches |-> FALSE, category |-> 2]
             y == [id |-> 9, matches |-> FALSE, category |-> Given(2)]
             w == <<x>> \o u
             R(a) == [id |-> a.id, matches |-> a.matches, category |-> Given(a.category)]
  <1>1. t \in Seq(S)
    BY DEF Facts
  <1>2. Len(t) \in Nat /\ DOMAIN t = 1..Len(t)
    <2> HIDE DEF S
    <2> QED
      BY <1>1
  <1>3. ASSUME NEW i \in DOMAIN t PROVE R(W(i)) = V(i) /\ V(i).matches
    <2>1. t[i] \in S
      <3> HIDE DEF S
      <3> QED
        BY <1>1
    <2>2. t[i] = [id |-> t[i].id, matches |-> t[i].matches, category |-> t[i].category]
      BY <2>1
    <2>3. W(i) = [id |-> t[i].id, matches |-> t[i].matches, category |-> Sent(t[i].category)]
      <3> DEFINE e == t[i]
      <3> HIDE DEF e
      <3>1. [e EXCEPT !.category = Sent(@)] = [id |-> e.id, matches |-> e.matches, category |-> Sent(e.category)]
        BY <2>2 DEF e
      <3> QED
        BY <3>1 DEF e
    <2>4. V(i) = [id |-> t[i].id, matches |-> t[i].matches, category |-> Given(t[i].category)]
      <3> DEFINE e == t[i]
      <3> HIDE DEF e
      <3>1. [e EXCEPT !.category = Given(@)] = [id |-> e.id, matches |-> e.matches, category |-> Given(e.category)]
        BY <2>2 DEF e
      <3> QED
        BY <3>1 DEF e
    <2>5. t[i].matches
      BY <2>1
    <2>6. Given(Sent(t[i].category)) = Given(t[i].category)
      BY <2>1, GivenSent
    <2>7. R(W(i)) = [id |-> t[i].id, matches |-> t[i].matches, category |-> Given(Sent(t[i].category))]
      <3> HIDE DEF W
      <3> QED
        BY <2>3
    <2>8. V(i).matches = t[i].matches
      <3> HIDE DEF V
      <3> QED
        BY <2>4
    <2>9. R(W(i)) = V(i)
      BY <2>4, <2>6, <2>7, Zenon
    <2> HIDE DEF V, W, R
    <2> QED
      BY <2>5, <2>8, <2>9
  <1>4. /\ u \in Seq({W(i) : i \in DOMAIN t}) /\ Len(u) = Len(t)
        /\ \A i \in 1..Len(t) : u[i] = W(i)
    <2> HIDE DEF W
    <2> QED
      BY <1>2
  <1>5. w \in Seq({x} \cup {W(i) : i \in DOMAIN t}) /\ Len(w) = Len(t) + 1
    <2> DEFINE S2 == {x} \cup {W(i) : i \in DOMAIN t}
    <2>1. <<x>> \in Seq(S2) /\ Len(<<x>>) = 1
      <3> HIDE DEF W, x
      <3> QED
        OBVIOUS
    <2>2. u \in Seq(S2)
      <3> HIDE DEF W, x
      <3> QED
        BY <1>2
    <2> HIDE DEF S2, u, x
    <2>3. w \in Seq(S2) /\ Len(w) = Len(t) + 1
      BY <1>2, <1>4, <2>1, <2>2, ConcatProperties
    <2> QED
      BY <2>3 DEF S2
  <1>6. w[1] = x /\ \A i \in 2..(Len(t) + 1) : w[i] = W(i-1)
    <2> DEFINE S2 == {x} \cup {W(i) : i \in DOMAIN t}
               v == <<x>>
    <2>1. v \in Seq(S2) /\ Len(v) = 1 /\ v[1] = x
      <3> HIDE DEF W, x
      <3> QED
        OBVIOUS
    <2>2. u \in Seq(S2)
      <3> HIDE DEF W, x
      <3> QED
        BY <1>2
    <2> HIDE DEF S2, u, x, v, W
    <2>3. \A i \in 1..(Len(v) + Len(u)) : (v \o u)[i] = IF i <= Len(v) THEN v[i] ELSE u[i - Len(v)]
      BY <2>1, <2>2, ConcatProperties
    <2>4. (v \o u)[1] = x
      <3>1. 1 \in 1..(Len(v) + Len(u)) /\ 1 <= Len(v)
        BY <1>2, <1>4, <2>1
      <3> QED
        BY <2>1, <2>3, <3>1
    <2>5. ASSUME NEW i \in 2..(Len(t) + 1) PROVE (v \o u)[i] = W(i-1)
      <3>1. i \in 1..(Len(v) + Len(u)) /\ ~(i <= Len(v)) /\ i - Len(v) = i - 1 /\ i - 1 \in 1..Len(t)
        BY <1>2, <1>4, <2>1
      <3>2. (v \o u)[i] = u[i-1]
        BY <2>3, <3>1
      <3> QED
        BY <1>4, <3>1, <3>2
    <2> QED
      BY <2>4, <2>5 DEF v
  <1>7. SymbolsFromProto(w) = [i \in 1..(Len(t) + 1) |-> R(w[i])]
    <2> HIDE DEF w
    <2>1. DOMAIN w = 1..(Len(t) + 1)
      BY <1>2, <1>5
    <2> QED
      BY <2>1 DEF SymbolsFromProto
  <1>8. R(x) = y
    OBVIOUS
  <1>9. R(w[1]) = y /\ \A i \in 2..(Len(t) + 1) : R(w[i]) = q[i-1]
    <2>1. ASSUME NEW i \in 2..(Len(t) + 1) PROVE R(w[i]) = q[i-1]
      <3>0. i - 1 \in DOMAIN t
        BY <1>2
      <3>1. w[i] = W(i-1)
        <4> HIDE DEF w, W
        <4> QED
          BY <1>6
      <3>2. R(W(i-1)) = V(i-1)
        BY <1>3, <3>0
      <3>3. q[i-1] = V(i-1)
        <4> HIDE DEF V
        <4> QED
          BY <3>0
      <3> HIDE DEF w, W, V, q
      <3> QED
        BY <3>1, <3>2, <3>3
    <2>2. R(w[1]) = y
      <3> HIDE DEF w
      <3> QED
        BY <1>6, <1>8
    <2> QED
      BY <2>1, <2>2
  <1>10. SymbolsFromProto(w) = <<y>> \o q
    <2> DEFINE S3 == {y} \cup Range(q)
               v == <<y>>
               z == v \o q
    <2>1. v \in Seq(S3) /\ Len(v) = 1 /\ v[1] = y
      <3> HIDE DEF y, q
      <3> QED
        OBVIOUS
    <2>2. q \in Seq(S3) /\ Len(q) = Len(t)
      <3> HIDE DEF y, V
      <3> QED
        BY <1>2 DEF Range
    <2> HIDE DEF S3, v, y, R, w, q
    <2>3. /\ z \in Seq(S3) /\ Len(z) = Len(v) + Len(q)
          /\ \A i \in 1..(Len(v) + Len(q)) : z[i] = IF i <= Len(v) THEN v[i] ELSE q[i - Len(v)]
      BY <2>1, <2>2, ConcatProperties
    <2> HIDE DEF z
    <2>4. z = [i \in 1..(Len(t) + 1) |-> z[i]] /\ z[1] = y /\ \A i \in 2..(Len(t) + 1) : z[i] = q[i-1]
      BY <1>2, <2>1, <2>2, <2>3
    <2>5. ASSUME NEW i \in 1..(Len(t) + 1) PROVE z[i] = R(w[i])
      <3>1. CASE i = 1
        BY <1>9, <2>4, <3>1
      <3>2. CASE i # 1
        <4>1. i \in 2..(Len(t) + 1)
          BY <1>2, <3>2
        <4> QED
          BY <1>9, <2>4, <4>1
      <3> QED
        BY <3>1, <3>2
    <2>6. SymbolsFromProto(w) = z
      BY <1>7, <2>4, <2>5
    <2> QED
      BY <2>6 DEF z, v
  <1>11. Search(<<y>> \o q) = q
    <2> DEFINE S3 == {y} \cup Range(q)
    <2>1. y \in S3 /\ q \in Seq(S3) /\ \A i \in DOMAIN q : q[i].matches
      <3>1. \A i \in DOMAIN t : V(i).matches
        BY <1>3
      <3> HIDE DEF y, V
      <3> QED
        BY <1>2, <3>1 DEF Range
    <2>2. ~y.matches
      OBVIOUS
    <2> HIDE DEF S3, y, q
    <2> QED
      BY <2>1, <2>2, SearchFinds
  <1>12. WireFound(t) = w
    BY DEF WireFound
  <1>13. AsShown("search", t) = q
    BY DEF AsShown
  <1> HIDE DEF w, y, q
  <1> QED
    BY <1>10, <1>11, <1>12, <1>13

LEMMA BarsTrue ==
    ASSUME NEW t \in Facts.bars
    PROVE  [i \in DOMAIN WireBars(t) |-> Trendbar(WireBars(t)[i])] = t
  <1> DEFINE S == [low : Int, open : Int, high : Int, close : Int]
             w == WireBars(t)
  <1>1. t \in Seq(S)
    BY DEF Facts
  <1>2. DOMAIN w = DOMAIN t
    BY DEF WireBars
  <1>3. ASSUME NEW i \in DOMAIN t PROVE Trendbar(w[i]) = t[i]
    <2>1. t[i] \in S
      <3> HIDE DEF S
      <3> QED
        BY <1>1
    <2>2. t[i] = [low |-> t[i].low, open |-> t[i].open, high |-> t[i].high, close |-> t[i].close]
      BY <2>1
    <2>3. w[i] = [low |-> t[i].low, delta_open |-> t[i].open - t[i].low,
                  delta_high |-> t[i].high - t[i].low, delta_close |-> t[i].close - t[i].low]
      BY DEF WireBars
    <2>4. /\ t[i].low + (t[i].open - t[i].low) = t[i].open
          /\ t[i].low + (t[i].high - t[i].low) = t[i].high
          /\ t[i].low + (t[i].close - t[i].low) = t[i].close
      BY <2>1
    <2> HIDE DEF w
    <2> QED
      BY <2>2, <2>3, <2>4 DEF Trendbar
  <1>4. t = [i \in DOMAIN t |-> t[i]]
    <2> HIDE DEF S
    <2> QED
      BY <1>1
  <1> HIDE DEF w
  <1>5. [i \in DOMAIN w |-> Trendbar(w[i])] = t
    BY <1>2, <1>3, <1>4
  <1> QED
    BY <1>5 DEF w

LEMMA TicksTrue == ASSUME NEW t \in Facts.ticks PROVE TicksFromProto(WireTicks(t)) = t
  <1> DEFINE S == [time : Int, price : Int]
             w == WireTicks(t)
             g == [i \in 0..Len(t) |-> IF i = 0 THEN [time |-> 0, price |-> 0] ELSE t[i]]
  <1>1. t \in Seq(S)
    BY DEF Facts
  <1>2. Len(t) \in Nat /\ DOMAIN t = 1..Len(t) /\ t = [i \in DOMAIN t |-> t[i]] /\ \A i \in DOMAIN t : t[i] \in S
    <2> HIDE DEF S
    <2> QED
      BY <1>1
  <1>3. \A i \in DOMAIN t : t[i] = [time |-> t[i].time, price |-> t[i].price] /\ t[i].time \in Int /\ t[i].price \in Int
    BY <1>2
  <1>4. /\ DOMAIN w = DOMAIN t
        /\ \A i \in DOMAIN t : w[i] = IF i = 1 THEN t[1]
                                      ELSE [time |-> t[i].time - t[i-1].time, price |-> t[i].price - t[i-1].price]
    BY DEF WireTicks
  <1>5. w \in Seq(S) /\ Len(w) = Len(t)
    <2>1. \A i \in DOMAIN t : w[i] \in S
      <3> SUFFICES ASSUME NEW i \in DOMAIN t PROVE w[i] \in S
        OBVIOUS
      <3> HIDE DEF w
      <3>1. CASE i = 1
        BY <1>2, <1>4, <3>1
      <3>2. CASE i # 1
        <4>1. i - 1 \in DOMAIN t
          BY <1>2, <3>2
        <4> QED
          BY <1>3, <1>4, <3>2, <4>1
      <3> QED
        BY <3>1, <3>2
    <2>2. w = [i \in 1..Len(t) |-> w[i]]
      BY <1>2 DEF WireTicks
    <2> HIDE DEF w, S
    <2> QED
      BY <1>2, <2>1, <2>2
  <1> HIDE DEF w
  <1>6. ASSUME NEW i \in 0..Len(t)
        PROVE  g[i] = IF i = 0 THEN [time |-> 0, price |-> 0]
                      ELSE [time |-> g[i-1].time + w[i].time, price |-> g[i-1].price + w[i].price]
    <2>1. CASE i = 0
      BY <1>2, <2>1
    <2>2. CASE i = 1
      <3>1. g[1] = t[1] /\ g[0] = [time |-> 0, price |-> 0] /\ w[1] = t[1] /\ 1 \in DOMAIN t
        BY <1>2, <1>4, <2>2
      <3>2. t[1] = [time |-> 0 + t[1].time, price |-> 0 + t[1].price]
        BY <1>3, <3>1
      <3> HIDE DEF g
      <3> QED
        BY <2>2, <3>1, <3>2
    <2>3. CASE i # 0 /\ i # 1
      <3>1. i \in DOMAIN t /\ i - 1 \in DOMAIN t /\ i - 1 \in 0..Len(t) /\ i - 1 # 0
        BY <1>2, <2>3
      <3>2. g[i] = t[i] /\ g[i-1] = t[i-1]
        BY <2>3, <3>1
      <3>3. w[i] = [time |-> t[i].time - t[i-1].time, price |-> t[i].price - t[i-1].price]
        BY <1>4, <2>3, <3>1
      <3>4. t[i] = [time |-> t[i-1].time + (t[i].time - t[i-1].time), price |-> t[i-1].price + (t[i].price - t[i-1].price)]
        BY <1>3, <3>1
      <3> HIDE DEF g
      <3> QED
        BY <2>3, <3>2, <3>3, <3>4
    <2> QED
      BY <2>1, <2>2, <2>3
  <1>7. Sums(g, w)
    BY <1>5, <1>6 DEF Sums
  <1>8. TicksFromProto(w) = [i \in DOMAIN w |-> g[i]]
    <2> HIDE DEF g
    <2> QED
      BY <1>5, <1>7, TicksRead
  <1>9. TicksFromProto(w) = t
    BY <1>2, <1>4, <1>8
  <1> QED
    BY <1>9 DEF w

\* The value returned for an answer that tells the truth is the truth, as shown.
LEMMA QueryTrue ==
    ASSUME NEW op \in Queries, NEW t \in Truths[op]
    PROVE  op \notin Reads /\ op \notin Trades /\ Decode(op, Encode(op, t)) = AsShown(op, t)
  <1>1. op \in DOMAIN Facts /\ t \in Facts[op]
    BY TruthsAssumption
  <1>2. DOMAIN Facts = {"deals", "pnl", "trader", "accounts", "resolve", "search", "symbol", "bars", "ticks"}
    BY DEF Facts
  <1>3. op \notin Reads /\ op \notin Trades
    BY <1>1, <1>2 DEF Reads, Trades
  <1>4. CASE op = "deals"
    <2>1. t \in Facts.deals
      BY <1>1, <1>4
    <2>2. Encode(op, t) = WireDeal(t)
      BY <1>4 DEF Encode
    <2>3. Decode(op, WireDeal(t)) = DealFromProto(WireDeal(t))
      BY <1>4 DEF Decode
    <2> QED
      BY <1>3, <1>4, <2>1, <2>2, <2>3, DealsTrue
  <1>5. CASE op = "pnl"
    <2>1. t \in Facts.pnl
      BY <1>1, <1>5
    <2>2. Encode(op, t) = WirePnL(t)
      BY <1>5 DEF Encode
    <2>3. Decode(op, WirePnL(t)) = UnrealizedPnL(WirePnL(t))
      BY <1>5 DEF Decode
    <2> QED
      BY <1>3, <1>5, <2>1, <2>2, <2>3, PnLTrue
  <1>6. CASE op = "trader"
    <2>1. t \in Facts.trader
      BY <1>1, <1>6
    <2>2. Encode(op, t) = WireTrader(t)
      BY <1>6 DEF Encode
    <2>3. Decode(op, WireTrader(t)) = AccountFromProto(WireTrader(t))
      BY <1>6 DEF Decode
    <2> QED
      BY <1>3, <1>6, <2>1, <2>2, <2>3, TraderTrue
  <1>7. CASE op = "accounts"
    <2>1. t \in Facts.accounts
      BY <1>1, <1>7
    <2>2. Encode(op, t) = WireAccounts(t)
      BY <1>7 DEF Encode
    <2>3. Decode(op, WireAccounts(t)) = AccountsFromProto(WireAccounts(t))
      BY <1>7 DEF Decode
    <2> QED
      BY <1>3, <1>7, <2>1, <2>2, <2>3, AccountsTrue
  <1>8. CASE op = "resolve"
    <2>1. t \in Facts.resolve
      BY <1>1, <1>8
    <2>2. Encode(op, t) = WireLogins(t)
      BY <1>8 DEF Encode
    <2>3. Decode(op, WireLogins(t)) = ResolveAccountId(AccountsFromProto(WireLogins(t)), Login)
      BY <1>8 DEF Decode
    <2>4. AsShown(op, t) = t
      BY <1>8 DEF AsShown
    <2> QED
      BY <1>3, <2>1, <2>2, <2>3, <2>4, ResolveTrue
  <1>9. CASE op = "search"
    <2>1. t \in Facts.search
      BY <1>1, <1>9
    <2>2. Encode(op, t) = WireFound(t)
      BY <1>9 DEF Encode
    <2>3. Decode(op, WireFound(t)) = Search(SymbolsFromProto(WireFound(t)))
      BY <1>9 DEF Decode
    <2> QED
      BY <1>3, <1>9, <2>1, <2>2, <2>3, SearchTrue
  <1>10. CASE op = "symbol"
    <2>1. t \in Facts.symbol
      BY <1>1, <1>10
    <2>2. Encode(op, t) = WireSymbol(t)
      BY <1>10 DEF Encode
    <2>3. Decode(op, WireSymbol(t)) = SymbolFromProto(WireSymbol(t))
      BY <1>10 DEF Decode
    <2> QED
      BY <1>3, <1>10, <2>1, <2>2, <2>3, SymbolTrue
  <1>11. CASE op = "bars"
    <2>1. t \in Facts.bars
      BY <1>1, <1>11
    <2>2. Encode(op, t) = WireBars(t)
      BY <1>11 DEF Encode
    <2>3. Decode(op, WireBars(t)) = [i \in DOMAIN WireBars(t) |-> Trendbar(WireBars(t)[i])]
      BY <1>11 DEF Decode
    <2>4. AsShown(op, t) = t
      BY <1>11 DEF AsShown
    <2> QED
      BY <1>3, <2>1, <2>2, <2>3, <2>4, BarsTrue
  <1>12. CASE op = "ticks"
    <2>1. t \in Facts.ticks
      BY <1>1, <1>12
    <2>2. Encode(op, t) = WireTicks(t)
      BY <1>12 DEF Encode
    <2>3. Decode(op, WireTicks(t)) = TicksFromProto(WireTicks(t))
      BY <1>12 DEF Decode
    <2>4. AsShown(op, t) = t
      BY <1>12 DEF AsShown
    <2> QED
      BY <1>3, <2>1, <2>2, <2>3, <2>4, TicksTrue
  <1> QED
    BY <1>1, <1>2, <1>3, <1>4, <1>5, <1>6, <1>7, <1>8, <1>9, <1>10, <1>11, <1>12

----------------------------------------------------------------------------
(* The server's answers, and what is shown of them.                        *)

LEMMA AppliedFits ==
    ASSUME BookFits, NEW r, RequestFits(r), NEW z \in Applied(r) PROVE Fits(z[1])
  <1>1. CASE r.op = "place" /\ Book.what = "none"
    <2>1. OrderFits(OrderFor(r.msg), r.req)
      BY <1>1, PlaceFits DEF RequestFits
    <2>2. PositionFits(PositionFor(OrderFor(r.msg)), AskedPosition(r.req))
      BY <2>1, FillFits
    <2>3. \/ z = <<Order(OrderFor(r.msg), r.req), <<2>>>>
          \/ z = <<Position(PositionFor(OrderFor(r.msg)), AskedPosition(r.req)), <<2, 3>>>>
      BY <1>1 DEF Applied
    <2> QED
      BY <2>1, <2>2, <2>3 DEF Fits, Order, Position
  <1>2. CASE r.op = "amend" /\ Book.what = "order"
    <2>1. z[1] = Order(Amended(Book.rec, r.msg), With(Book.asked, r.fact))
      BY <1>2 DEF Applied, Amended
    <2>2. OrderFits(Book.rec, Book.asked)
      BY <1>2 DEF BookFits, Fits
    <2>3. /\ r.fact \in Changes /\ r.fact[1] \in AmendFields
          /\ r.msg = AmendOrderToProto(With(AmendmentOf(OrderFromProto(Book.rec)), r.fact))
      BY <1>2 DEF RequestFits
    <2>4. OrderFits(Amended(Book.rec, r.msg), With(Book.asked, r.fact))
      BY <2>2, <2>3, AmendFits
    <2> QED
      BY <2>1, <2>4 DEF Fits, Order
  <1>3. CASE r.op = "cancel" /\ Book.what = "order"
    BY <1>3 DEF Applied, Fits, Nothing
  <1>4. CASE r.op = "close" /\ Book.what = "position" /\ r.msg.volume <= Book.rec.volume
    <2>1. z[1] = IF r.msg.volume = Book.rec.volume THEN Nothing
                 ELSE Position([Book.rec EXCEPT !.volume = @ - r.msg.volume],
                               [Book.asked EXCEPT !.volume = @ - r.msg.volume])
      BY <1>4 DEF Applied
    <2>2. PositionFits(Book.rec, Book.asked) /\ r.msg.volume \in Nat \ {0}
      BY <1>4 DEF BookFits, Fits, RequestFits
    <2>3. CASE r.msg.volume = Book.rec.volume
      BY <2>1, <2>3 DEF Fits, Nothing
    <2>4. CASE r.msg.volume # Book.rec.volume
      <3>1. PositionFits([Book.rec EXCEPT !.volume = @ - r.msg.volume], [Book.asked EXCEPT !.volume = @ - r.msg.volume])
        BY <1>4, <2>2, <2>4, CloseFits
      <3> QED
        BY <2>1, <2>4, <3>1 DEF Fits, Position
    <2> QED
      BY <2>3, <2>4
  <1>5. CASE r.op = "amend_position" /\ Book.what = "position"
    <2>1. z[1] = Position(PositionAmended(Book.rec, r.msg), With(Book.asked, r.fact))
      BY <1>5 DEF Applied, PositionAmended
    <2>2. PositionFits(Book.rec, Book.asked)
      BY <1>5 DEF BookFits, Fits
    <2>3. /\ r.fact \in Changes /\ r.fact[1] \in PositionFields
          /\ r.msg = AmendPositionToProto(With(AmendmentOfPosition(PositionFromProto(Book.rec)), r.fact))
      BY <1>5 DEF RequestFits
    <2>4. PositionFits(PositionAmended(Book.rec, r.msg), With(Book.asked, r.fact))
      BY <2>2, <2>3, AmendPositionFits
    <2> QED
      BY <2>1, <2>4 DEF Fits, Position
  <1> QED
    BY <1>1, <1>2, <1>3, <1>4, <1>5 DEF Applied

LEMMA ReadEncodes == ASSUME NEW op \in Reads, NEW t PROVE Encode(op, t) = BookWire(op)
  <1>1. Book.what \in {"order", "position"} => Book.rec = book.rec
    BY DEF Book, Nothing
  <1>2. CASE op = "positions"
    BY <1>1, <1>2 DEF Encode, BookWire
  <1>3. CASE op \in {"orders", "pending"}
    BY <1>1, <1>3 DEF Encode, BookWire
  <1> QED
    BY <1>2, <1>3 DEF Reads

LEMMA ReportedTypes == ASSUME NEW types \in Reported PROVE types \in Seq({2, 3, 4, 5, Odd})
  <1> DEFINE T == {2, 3, 4, 5, Odd}
  <1>1. 2 \in T /\ 3 \in T /\ 4 \in T /\ 5 \in T /\ Odd \in T
    OBVIOUS
  <1> HIDE DEF T
  <1>2. types = <<2>> \/ types = <<2, 3>> \/ types = <<4>> \/ types = <<5>> \/ types = <<Odd>>
    BY DEF Reported
  <1>3. <<2>> \in Seq(T) /\ <<4>> \in Seq(T) /\ <<5>> \in Seq(T) /\ <<Odd>> \in Seq(T)
    BY <1>1
  <1>4. <<2, 3>> \in Seq(T)
    BY <1>1
  <1>5. types \in Seq(T)
    BY <1>2, <1>3, <1>4, Zenon
  <1> QED
    BY <1>5 DEF T

LEMMA RepliesFit ==
    ASSUME BookFits, NEW r, RequestFits(r), NEW a \in Replies(r)
    PROVE  /\ Fits(a.book)
           /\ \A i \in 1..Len(a.bodies) :
                /\ AnswerTrue(a.bodies[i])
                /\ (a.bodies[i].class = "answer" /\ a.bodies[i].op \in Reads) =>
                      a.bodies[i].wire = BookWire(a.bodies[i].op) /\ a.book = Book
  <1>1. CASE \E z \in Applied(r) : a.book = z[1] /\ \E types \in Reported : a.bodies = [i \in DOMAIN types |-> Execution(types[i])]
    <2>0. PICK z \in Applied(r) :
             a.book = z[1] /\ \E types \in Reported : a.bodies = [i \in DOMAIN types |-> Execution(types[i])]
      BY <1>1
    <2>1. PICK types \in Reported : a.bodies = [i \in DOMAIN types |-> Execution(types[i])]
      BY <2>0
    <2>2. Fits(a.book)
      BY <2>0, AppliedFits
    <2>3. \A i \in 1..Len(a.bodies) : a.bodies[i].class = "execution"
      <3>1. types \in Seq({2, 3, 4, 5, Odd})
        BY ReportedTypes
      <3>2. Len(types) \in Nat /\ DOMAIN types = 1..Len(types)
        BY <3>1
      <3>3. a.bodies \in Seq({Execution(types[i]) : i \in DOMAIN types}) /\ Len(a.bodies) = Len(types)
        BY <2>1, <3>2
      <3>4. ASSUME NEW i \in 1..Len(a.bodies) PROVE a.bodies[i] = Execution(types[i])
        BY <2>1, <3>2, <3>3
      <3>5. \A type : Execution(type).class = "execution"
        BY DEF Execution
      <3> QED
        BY <3>4, <3>5
    <2> QED
      BY <2>2, <2>3 DEF AnswerTrue
  <1>2. CASE a.book = Book /\ \E body : a.bodies = <<body>> /\ body.class # "answer"
    BY <1>2 DEF AnswerTrue, BookFits
  <1>3. CASE /\ r.op \notin Trades /\ a.book = Book
             /\ a.bodies = <<[class |-> "answer", op |-> r.op, fact |-> r.fact, wire |-> Encode(r.op, r.fact)]>>
    <2> DEFINE body == [class |-> "answer", op |-> r.op, fact |-> r.fact, wire |-> Encode(r.op, r.fact)]
    <2>1. body.op = r.op /\ body.fact = r.fact /\ body.wire = Encode(r.op, r.fact)
      OBVIOUS
    <2>2. AnswerTrue(body)
      <3>1. CASE r.op \in Reads
        BY <2>1, <3>1 DEF AnswerTrue
      <3>2. CASE r.op \notin Reads
        <4>1. r.op \in Queries /\ r.fact \in Truths[r.op]
          BY <1>3, <3>2 DEF RequestFits
        <4>2. Decode(r.op, Encode(r.op, r.fact)) = AsShown(r.op, r.fact)
          BY <4>1, QueryTrue
        <4> QED
          BY <2>1, <4>2 DEF AnswerTrue
      <3> QED
        BY <3>1, <3>2
    <2>3. body.op \in Reads => body.wire = BookWire(body.op)
      BY <2>1, ReadEncodes
    <2> HIDE DEF body
    <2>4. \A i \in 1..Len(a.bodies) : a.bodies[i] = body
      BY <1>3 DEF body
    <2> QED
      BY <1>3, <2>2, <2>3, <2>4 DEF BookFits
  <1>4. CASE r.op \in Trades
    <2>1. \/ \E z \in Applied(r) : a.book = z[1] /\ \E types \in {z[2], <<Odd>>} :
                a.bodies = [i \in DOMAIN types |-> Execution(types[i])]
          \/ a.book = Book /\ \E c \in {"order_error", "error", "odd"} : a.bodies = <<Refusal(c)>>
          \/ a.book = Book /\ a.bodies = <<Execution(7)>>
      <3>1. \/ \E z \in Applied(r) : a = [did |-> "applied", book |-> z[1],
                                        bodies |-> [i \in DOMAIN z[2] |-> Execution(z[2][i])]]
            \/ \E z \in Applied(r) : a = [did |-> "applied", book |-> z[1],
                                        bodies |-> [i \in DOMAIN <<Odd>> |-> Execution(<<Odd>>[i])]]
            \/ \E c \in {"order_error", "error", "odd"} :
                   a = [did |-> "refused", book |-> Book, bodies |-> <<Refusal(c)>>]
            \/ a = [did |-> "refused", book |-> Book, bodies |-> <<Execution(7)>>]
        BY <1>4, Zenon DEF Replies
      <3>2. ASSUME NEW z \in Applied(r), NEW types \in {z[2], <<Odd>>},
                   a = [did |-> "applied", book |-> z[1], bodies |-> [i \in DOMAIN types |-> Execution(types[i])]]
            PROVE  a.book = z[1] /\ a.bodies = [i \in DOMAIN types |-> Execution(types[i])]
        BY <3>2
      <3>3. ASSUME NEW bodies, a = [did |-> "refused", book |-> Book, bodies |-> bodies]
            PROVE  a.book = Book /\ a.bodies = bodies
        BY <3>3
      <3> QED
        BY <3>1, <3>2, <3>3, Zenon
    <2>2. \A z \in Applied(r) : z[2] \in Reported /\ <<Odd>> \in Reported
      BY AppliedTypes DEF Reported
    <2>3. CASE \E z \in Applied(r) : a.book = z[1] /\ \E types \in {z[2], <<Odd>>} :
                a.bodies = [i \in DOMAIN types |-> Execution(types[i])]
      <3>1. PICK z \in Applied(r) : a.book = z[1] /\ \E types \in {z[2], <<Odd>>} :
                a.bodies = [i \in DOMAIN types |-> Execution(types[i])]
        BY <2>3
      <3>2. \E types \in Reported : a.bodies = [i \in DOMAIN types |-> Execution(types[i])]
        BY <2>2, <3>1
      <3> QED
        BY <1>1, <3>1, <3>2
    <2>4. \A c : Refusal(c).class = c
      BY DEF Refusal
    <2>5. Execution(7).class = "execution"
      BY DEF Execution
    <2> QED
      BY <1>2, <2>1, <2>3, <2>4, <2>5
  <1>5. CASE r.op \notin Trades
    <2>1. \/ /\ a.book = Book
             /\ a.bodies = <<[class |-> "answer", op |-> r.op, fact |-> r.fact, wire |-> Encode(r.op, r.fact)]>>
          \/ a.book = Book /\ \E c \in {"error", "token_error", "odd"} : a.bodies = <<Refusal(c)>>
      BY <1>5 DEF Replies
    <2>2. \A c : Refusal(c).class = c
      BY DEF Refusal
    <2> QED
      BY <1>2, <1>3, <1>5, <2>1, <2>2
  <1> QED
    BY <1>4, <1>5

LEMMA SetBookFits == ASSUME NEW b, Fits(b), SetBook(b) PROVE BookFits'
  <1>1. CASE b.what = "none"
    <2>1. book' = None
      BY <1>1 DEF SetBook
    <2>2. Book' = Nothing
      BY <2>1 DEF Book
    <2> QED
      BY <2>1, <2>2 DEF BookFits, Fits, Nothing
  <1>2. CASE b.what # "none"
    <2>1. book' = [what |-> b.what, rec |-> b.rec] /\ asked' = b.asked /\ b.what \in {"order", "position"}
      BY <1>2 DEF SetBook, Fits
    <2>2. \/ book' = None /\ Book' = Nothing
          \/ Book'.what = b.what /\ Book'.rec = b.rec /\ Book'.asked = b.asked
      BY <2>1 DEF Book
    <2>3. Fits(Book')
      BY <2>2 DEF Fits, Nothing
    <2>4. Fits(Book)'
      BY <2>3 DEF Fits, OrderFits, PositionFits
    <2> QED
      BY <2>1, <2>4 DEF BookFits
  <1> QED
    BY <1>1, <1>2

LEMMA SameBook == ASSUME BookFits, SetBook(Book) PROVE Book' = Book
  <1>1. CASE book = None
    BY <1>1 DEF SetBook, Book, Nothing
  <1>2. CASE book # None
    <2>1. /\ book = [what |-> book.what, rec |-> book.rec] /\ book.what \in {"order", "position"}
          /\ Book = [what |-> book.what, rec |-> book.rec, asked |-> asked]
      BY <1>2 DEF BookFits, Book
    <2>2. book' = [what |-> Book.what, rec |-> Book.rec] /\ asked' = Book.asked
      BY <2>1 DEF SetBook
    <2>3. book' = book /\ asked' = asked
      BY <2>1, <2>2
    <2> QED
      BY <2>3 DEF Book
  <1> QED
    BY <1>1, <1>2

\* A call that returns a value was answered.
LEMMA OutcomeOk ==
    ASSUME NEW op, NEW body, Outcome(op, body).out = "ok"
    PROVE  body.class = "answer" /\ body.op = op /\ Outcome(op, body).val = Decode(op, body.wire)
  <1>1. CASE body.class = "closed"
    BY <1>1 DEF Outcome, Raised, Ends
  <1>2. CASE body.class \in {"error", "token_error"}
    BY <1>2 DEF Outcome, Raised, Ends, ErrorOf
  <1>3. CASE body.class \notin Raised /\ op \in Trades
    <2>1. Outcome(op, body) = ExecuteTrade(body)
      BY <1>3 DEF Outcome, Raised
    <2> QED
      BY <2>1 DEF ExecuteTrade, Ends
  <1>4. CASE body.class \notin Raised /\ op \notin Trades
    <2>1. Outcome(op, body) = FinishQuery(op, body)
      BY <1>4 DEF Outcome, Raised
    <2> QED
      BY <2>1 DEF FinishQuery, Ends
  <1> QED
    BY <1>1, <1>2, <1>3, <1>4 DEF Raised

\* What a read shows is what the server has.
LEMMA ReadShows ==
    ASSUME BookFits, NEW op \in Reads, NEW val, val = Decode(op, BookWire(op)), val # <<>>
    PROVE  /\ op \in {"orders", "pending"} => Book.what = "order" /\ val[1] = OrderFromProto(Book.rec)
           /\ op = "positions" => Book.what = "position" /\ val[1] = PositionFromProto(Book.rec)
  <1> DEFINE w == BookWire(op)
  <1>1. CASE op = "positions"
    <2>1. val = [i \in DOMAIN w |-> PositionFromProto(w[i])]
      BY <1>1 DEF Decode
    <2>2. CASE Book.what = "position"
      BY <1>1, <2>1, <2>2 DEF BookWire
    <2>3. CASE Book.what # "position"
      <3>1. w = <<>>
        BY <1>1, <2>3 DEF BookWire
      <3>2. val = <<>>
        BY <2>1, <3>1
      <3> QED
        BY <3>2
    <2> QED
      BY <2>2, <2>3
  <1>2. CASE op \in {"orders", "pending"}
    <2> DEFINE s == [i \in DOMAIN w |-> OrderFromProto(w[i])]
    <2>1. val = IF op = "orders" THEN s ELSE Kept(s, IsPending)
      BY <1>2 DEF Decode
    <2>2. CASE Book.what = "order"
      <3> DEFINE o == OrderFromProto(Book.rec)
      <3>1. w = <<Book.rec>>
        BY <1>2, <2>2 DEF BookWire
      <3>2. s = <<o>>
        BY <3>1
      <3>3. IsPending(o)
        <4>1. Book.rec = [f \in OrderFields |-> Book.rec[f]] /\ Book.rec.order_status = 1
          BY <2>2 DEF BookFits, Fits, OrderFits
        <4>2. "order_status" \in DOMAIN Book.rec \ {"trade_data"}
          BY <4>1 DEF OrderFields
        <4>3. OrderFromProto(Book.rec)["order_status"] = Known(Book.rec["order_status"], 1..5, 1)
          BY <4>2 DEF OrderFromProto, Prices, Counts, Distances
        <4> QED
          BY <4>1, <4>3 DEF IsPending, Known
      <3> HIDE DEF o, s
      <3>4. val = <<o>>
        BY <2>1, <3>2, <3>3, OnePending
      <3>5. val[1] = o
        BY <3>4
      <3> QED
        BY <1>2, <2>2, <3>5 DEF o
    <2>3. CASE Book.what # "order"
      <3>1. w = <<>>
        BY <1>2, <2>3 DEF BookWire
      <3>2. s = <<>>
        BY <3>1
      <3> HIDE DEF s
      <3>3. val = <<>>
        BY <2>1, <3>2, NonePending
      <3> QED
        BY <3>3
    <2> QED
      BY <2>2, <2>3
  <1> QED
    BY <1>1, <1>2 DEF Reads

----------------------------------------------------------------------------
(* Every step keeps the invariant.                                         *)

\* What depends on the book alone stays while the book does.
LEMMA BookStays ==
    ASSUME Book' = Book
    PROVE  /\ \A r : RequestFits(r)' <=> RequestFits(r)
           /\ \A body : AnswerFits(body)' <=> AnswerFits(body)
           /\ \A body : AnswerTrue(body)' <=> AnswerTrue(body)
  BY DEF RequestFits, AnswerFits, AnswerTrue, BookWire

LEMMA SameBookFits == ASSUME BookFits, UNCHANGED <<book, asked>> PROVE BookFits' /\ Book' = Book
  <1>1. Book' = Book
    BY DEF Book
  <1>2. Fits(Book)' <=> Fits(Book')
    BY DEF Fits, OrderFits, PositionFits
  <1> QED
    BY <1>1, <1>2 DEF BookFits

\* A step that leaves the calls, the messages and the book alone.
LEMMA TradeQuiet ==
    ASSUME TradeInv, UNCHANGED tradeVars, scenario' = scenario,
           Data => phase' \notin {"closing", "leaving"}
    PROVE  TradeInv'
  <1>1. BookFits' /\ Book' = Book
    BY SameBookFits DEF TradeInv, tradeVars
  <1>2. InboxFits'
    BY <1>1, BookStays DEF TradeInv, tradeVars, InboxFits
  <1>3. AnswersTrue'
    BY <1>1, BookStays DEF TradeInv, tradeVars, AnswersTrue
  <1>4. ReadsAreTrue'
    BY DEF TradeInv, tradeVars, ReadsAreTrue
  <1>5. DataFits'
    BY <1>1, BookStays DEF TradeInv, tradeVars, DataFits, Data, ShownFits
  <1> QED
    BY <1>1, <1>2, <1>3, <1>4, <1>5 DEF TradeInv

\* The protocol ends or the link is replaced, which does not happen in the data
\* scenario.
LEMMA TradeEnds ==
    ASSUME IInv, TradeInv, ProtocolFails \/ ProtocolStops \/ Closed \/ LinkReplaced PROVE TradeInv'
  <1> USE DEF eventVars, clientVars
  <1>1. ~Data /\ scenario' = scenario
    BY DEF TradeInv, DataFits, Data, Life, Reconnects, ProtocolFails, ProtocolStops, Closed, LinkReplaced, WindsDown, Goes
  <1>2. wire' = <<>> /\ inbox' = <<>> /\ UNCHANGED <<book, asked, shown>>
    BY DEF ProtocolFails, ProtocolStops, Closed, LinkReplaced, ProtocolEnds
  <1>3. call' = None \/ call' = call \/ (call # None /\ call' = [call EXCEPT !.slot = Gone])
    BY DEF ProtocolFails, ProtocolStops, Closed, LinkReplaced, ProtocolEnds
  <1>4. BookFits' /\ Book' = Book
    BY <1>2, SameBookFits DEF TradeInv
  <1>5. InboxFits'
    BY <1>2 DEF InboxFits
  <1>6. AnswersTrue'
    <2>1. call' # None /\ call'.slot # None => AnswerTrue(call'.slot)
      <3>1. CASE call' = call
        BY <3>1 DEF TradeInv, AnswersTrue
      <3>2. CASE call # None /\ call' = [call EXCEPT !.slot = Gone]
        <4>1. call'.slot = Gone
          BY <3>2 DEF IInv, ShapesAgree
        <4> QED
          BY <4>1 DEF AnswerTrue, Gone
      <3> QED
        BY <1>3, <3>1, <3>2
    <2>2. AnswerTrue(call'.slot) <=> AnswerTrue(call.slot)'
      BY DEF AnswerTrue
    <2> QED
      BY <1>2, <2>1, <2>2 DEF AnswersTrue
  <1>7. ReadsAreTrue'
    BY <1>2 DEF TradeInv, ReadsAreTrue
  <1>8. DataFits'
    BY <1>1 DEF DataFits, Data
  <1> QED
    BY <1>4, <1>5, <1>6, <1>7, <1>8 DEF TradeInv

\* A call begins, with nothing waiting at the server.
LEMMA TradeSend ==
    ASSUME IInv, TradeInv, NEW op \in Trades \cup Reads \cup Queries, NEW by, NEW req, NEW fact,
           Send(by, op, req, fact), inbox = <<>>, Data => by = App,
           \A n : RequestFits([n |-> n, op |-> op, req |-> req, msg |-> ToProto(op, req), fact |-> fact]),
           UNCHANGED <<scenario, phase>>
    PROVE  TradeInv'
  <1>1. PICK n \in FreeIds :
          /\ call' = [by |-> by, n |-> n, op |-> op, slot |-> None, did |-> "nothing"]
          /\ inbox' = Append(inbox, [n |-> n, op |-> op, req |-> req, msg |-> ToProto(op, req), fact |-> fact])
    BY DEF Send
  <1> DEFINE e == [n |-> n, op |-> op, req |-> req, msg |-> ToProto(op, req), fact |-> fact]
  <1>2. UNCHANGED <<wire, book, asked>> /\ shown' = None
    BY DEF Send
  <1>3. \A k \in DOMAIN wire : wire[k].n # n
    BY <1>1 DEF FreeIds
  <1>4. e.n = n /\ RequestFits(e)
    OBVIOUS
  <1>5. inbox' = <<e>>
    <2>1. inbox' = Append(<<>>, e)
      BY <1>1
    <2> HIDE DEF e
    <2> QED
      BY <2>1
  <1> HIDE DEF e
  <1>6. Len(inbox') = 1 /\ DOMAIN inbox' = {1} /\ inbox'[1] = e
    BY <1>5
  <1>7. BookFits' /\ Book' = Book
    BY <1>2, SameBookFits DEF TradeInv
  <1>8. InboxFits'
    BY <1>4, <1>6, <1>7, BookStays DEF InboxFits
  <1>9. AnswersTrue'
    BY <1>1, <1>2, <1>7, BookStays DEF TradeInv, AnswersTrue
  <1>10. ReadsAreTrue'
    BY <1>2 DEF ReadsAreTrue
  <1>11. ASSUME Data' PROVE call' # None
    <2>1. by = App /\ n \in Serials
      BY <1>1, <1>11 DEF Data, FreeIds
    <2> QED
      BY <1>1, <2>1, CallAssumption
  <1>12. call'.n = n /\ call'.slot = None
    BY <1>1
  <1>13. DataFits'
    <2> SUFFICES ASSUME Data' PROVE DataFits'
      BY DEF DataFits
    <2>1. phase' \notin {"closing", "leaving"}
      BY DEF TradeInv, DataFits, Data
    <2>2. \A i \in DOMAIN inbox' : call' # None /\ inbox'[i].n = call'.n
      BY <1>4, <1>6, <1>11, <1>12
    <2>3. \A k \in DOMAIN wire' : wire'[k].n # call'.n
      BY <1>2, <1>3, <1>12
    <2>4. ShownFits'
      BY <1>2 DEF ShownFits
    <2> QED
      BY <1>2, <1>12, <2>1, <2>2, <2>3, <2>4 DEF DataFits
  <1> QED
    BY <1>7, <1>8, <1>9, <1>10, <1>13 DEF TradeInv

LEMMA PlainTyped == \A f \in OrderParts : Typed(f, PlainOrder[f])
  <1>1. \A f \in Prices \cup Counts : PlainOrder[f] = None \/ PlainOrder[f] \in Int
    BY DEF PlainOrder, Prices, Counts
  <1>2. \A f \in Distances \cup Times : PlainOrder[f] = None
    BY DEF PlainOrder, Distances, Times
  <1>3. \A f \in Flags : PlainOrder[f] \in BOOLEAN
    <2>1. PlainOrder.trailing_stop_loss = FALSE /\ PlainOrder.guaranteed_stop_loss = FALSE
      BY DEF PlainOrder
    <2> QED
      BY <2>1 DEF Flags
  <1>4. /\ PlainOrder.stop_trigger_method = None /\ PlainOrder.side \in 1..2
        /\ PlainOrder.order_type \in Types /\ PlainOrder.volume \in Nat \ {0}
    BY DEF PlainOrder, Types
  <1>5. \A f \in OrderParts : f \in Methods => f = "stop_trigger_method"
    BY OrderPartsAre DEF Methods, Prices, Counts, Distances, Times, Flags
  <1> QED
    BY <1>1, <1>2, <1>3, <1>4, <1>5 DEF Typed

\* An order of the application: the plain one, perhaps with one change.
LEMMA PlacedFits ==
    ASSUME NEW req, req = PlainOrder \/ \E c \in Changes : c[1] \in DOMAIN PlainOrder /\ req = With(PlainOrder, c),
           NEW n
    PROVE  RequestFits([n |-> n, op |-> "place", req |-> req, msg |-> ToProto("place", req), fact |-> None])
  <1>1. PlainOrder = [f \in OrderParts |-> PlainOrder[f]]
    BY DEF OrderParts, PlainOrder
  <1>2. req = [f \in OrderParts |-> req[f]] /\ \A f \in OrderParts : Typed(f, req[f])
    <2>1. CASE req = PlainOrder
      BY <1>1, <2>1, PlainTyped
    <2>2. CASE \E c \in Changes : c[1] \in DOMAIN PlainOrder /\ req = With(PlainOrder, c)
      <3>1. PICK c \in Changes : c[1] \in OrderParts /\ req = With(PlainOrder, c)
        BY <2>2 DEF OrderParts
      <3>2. req = [f \in OrderParts |-> IF f = c[1] THEN c[2] ELSE PlainOrder[f]]
        <4> DEFINE p == PlainOrder
        <4> HIDE DEF p
        <4>1. DOMAIN p = OrderParts /\ p = [f \in OrderParts |-> p[f]]
          BY <1>1 DEF p
        <4>2. [p EXCEPT ![c[1]] = c[2]] = [f \in OrderParts |-> IF f = c[1] THEN c[2] ELSE p[f]]
          BY <4>1
        <4> QED
          BY <3>1, <4>2 DEF p, With
      <3>3. Typed(c[1], c[2])
        BY ChangesAssumption
      <3> QED
        BY <3>2, <3>3, PlainTyped
    <2> QED
      BY <2>1, <2>2
  <1>3. ToProto("place", req) = NewOrderToProto(req)
    BY DEF ToProto
  <1> QED
    BY <1>2, <1>3 DEF RequestFits, Trades

LEMMA TradeAsk == ASSUME IInv, TradeInv, Ask PROVE TradeInv'
  <1>1. PICK by : Send(by, "place", PlainOrder, None)
    BY DEF Ask, PlaceOrder
  <1>2. inbox = <<>> /\ ~Data /\ UNCHANGED <<scenario, phase>>
    BY DEF Ask, Life, Data, clientVars
  <1>3. \A n : RequestFits([n |-> n, op |-> "place", req |-> PlainOrder, msg |-> ToProto("place", PlainOrder), fact |-> None])
    BY PlacedFits
  <1>4. "place" \in Trades
    BY DEF Trades
  <1> QED
    BY <1>1, <1>2, <1>3, <1>4, TradeSend

\* The requests of the data scenario fit.
LEMMA TradeExamine == ASSUME IInv, TradeInv, Examine PROVE TradeInv'
  <1>1. Data /\ UNCHANGED <<scenario, phase>>
    BY DEF Examine, clientVars
  <1> DEFINE Sound(op, req, fact) ==
        \A n : RequestFits([n |-> n, op |-> op, req |-> req, msg |-> ToProto(op, req), fact |-> fact])
  <1>2. SUFFICES \E op, req, fact : op \in Trades \cup Reads \cup Queries /\ Send(App, op, req, fact) /\ Sound(op, req, fact)
    <2>1. PICK op, req, fact : op \in Trades \cup Reads \cup Queries /\ Send(App, op, req, fact) /\ Sound(op, req, fact)
      BY <1>2
    <2>2. call = None
      BY <2>1 DEF Send
    <2>3. inbox \in Seq(Range(inbox)) /\ \A i \in DOMAIN inbox : call # None
      BY <1>1 DEF IInv, ShapesAgree, TradeInv, DataFits
    <2>4. inbox = <<>>
      <3>1. Len(inbox) \in Nat /\ DOMAIN inbox = 1..Len(inbox)
        BY <2>3, SeqParts
      <3>2. 1 \notin DOMAIN inbox
        BY <2>2, <2>3
      <3>3. Len(inbox) = 0
        BY <3>1, <3>2
      <3> QED
        BY <2>3, <3>3
    <2> QED
      BY <1>1, <2>1, <2>4, TradeSend
  <1>3. /\ Trades \cap Reads = {} /\ {"place", "cancel", "close", "amend", "amend_position"} \subseteq Trades
        /\ \A op \in Queries : op \notin Trades /\ op \notin Reads
    <2>1. \A op \in Queries : op \notin Trades /\ op \notin Reads
      BY TruthsAssumption DEF Facts, Trades, Reads
    <2> QED
      BY <2>1 DEF Trades, Reads
  <1>4. CASE \E c \in Changes : c[1] \in DOMAIN PlainOrder /\ PlaceOrder(App, With(PlainOrder, c))
    <2>1. PICK c \in Changes : c[1] \in DOMAIN PlainOrder /\ Send(App, "place", With(PlainOrder, c), None)
      BY <1>4 DEF PlaceOrder
    <2>2. Sound("place", With(PlainOrder, c), None)
      BY <2>1, PlacedFits
    <2> QED
      BY <1>3, <2>1, <2>2
  <1>5. CASE CancelOrder(App)
    <2>1. Send(App, "cancel", [order_id |-> Id], None)
      BY <1>5 DEF CancelOrder
    <2>2. Sound("cancel", [order_id |-> Id], None)
      BY DEF RequestFits, Trades
    <2> QED
      BY <1>3, <2>1, <2>2
  <1>6. CASE \E v \in 1..PlainOrder.volume : ClosePosition(App, v)
    <2>1. PICK v \in 1..PlainOrder.volume : Send(App, "close", [position_id |-> Id, volume |-> v], None)
      BY <1>6 DEF ClosePosition
    <2>2. v \in Nat \ {0}
      BY <2>1 DEF PlainOrder
    <2>3. ToProto("close", [position_id |-> Id, volume |-> v]) = [position_id |-> Id, volume |-> v]
      BY DEF ToProto
    <2>4. Sound("close", [position_id |-> Id, volume |-> v], None)
      BY <2>2, <2>3 DEF RequestFits, Trades
    <2> QED
      BY <1>3, <2>1, <2>4
  <1>7. CASE \E c \in Changes : c[1] \in AmendFields /\ AmendOrder(App, c)
    <2>1. PICK c \in Changes : c[1] \in AmendFields /\ AmendOrder(App, c)
      BY <1>7
    <2> DEFINE req == With(AmendmentOf(shown.val[1]), c)
    <2>2. Send(App, "amend", req, c) /\ shown # None /\ shown.op \in {"orders", "pending"} /\ shown.val # <<>>
      BY <2>1 DEF AmendOrder, Saw
    <2>3. Book.what = "order" => shown.val[1] = OrderFromProto(Book.rec)
      BY <1>1, <2>2 DEF TradeInv, DataFits, ShownFits
    <2>4. Book.what = "order" => req = With(AmendmentOf(OrderFromProto(Book.rec)), c)
      BY <2>3
    <2> HIDE DEF req
    <2>5. ToProto("amend", req) = AmendOrderToProto(req)
      BY DEF ToProto
    <2>6. Sound("amend", req, c)
      BY <2>1, <2>4, <2>5 DEF RequestFits, Trades
    <2> QED
      BY <1>3, <2>2, <2>6
  <1>8. CASE \E c \in Changes : c[1] \in PositionFields /\ AmendPosition(App, c)
    <2>1. PICK c \in Changes : c[1] \in PositionFields /\ AmendPosition(App, c)
      BY <1>8
    <2> DEFINE req == With(AmendmentOfPosition(shown.val[1]), c)
    <2>2. Send(App, "amend_position", req, c) /\ shown # None /\ shown.op = "positions" /\ shown.val # <<>>
      BY <2>1 DEF AmendPosition, Saw
    <2>3. shown.val[1] = PositionFromProto(Book.rec)
      BY <1>1, <2>2 DEF TradeInv, DataFits, ShownFits
    <2>4. req = With(AmendmentOfPosition(PositionFromProto(Book.rec)), c)
      BY <2>3
    <2> HIDE DEF req
    <2>5. ToProto("amend_position", req) = AmendPositionToProto(req)
      BY DEF ToProto
    <2>6. Sound("amend_position", req, c)
      BY <2>1, <2>4, <2>5 DEF RequestFits, Trades
    <2> QED
      BY <1>3, <2>2, <2>6
  <1>9. CASE \E op \in Reads : Read(App, op)
    <2>1. PICK op \in Reads : Send(App, op, None, None)
      BY <1>9 DEF Read
    <2>2. op \notin Trades
      BY <1>3, <2>1
    <2>3. Sound(op, None, None)
      BY <1>3, <2>1, <2>2 DEF RequestFits
    <2> QED
      BY <2>1, <2>3
  <1>10. CASE \E op \in Queries : Query(App, op)
    <2>1. PICK op \in Queries : \E t \in Truths[op] : Send(App, op, None, t)
      BY <1>10 DEF Query
    <2>2. PICK t \in Truths[op] : Send(App, op, None, t)
      BY <2>1
    <2>3. op \notin Trades
      BY <1>3
    <2>4. Sound(op, None, t)
      BY <1>3, <2>2, <2>3 DEF RequestFits
    <2> QED
      BY <2>2, <2>4
  <1> HIDE DEF Sound
  <1> QED
    BY <1>4, <1>5, <1>6, <1>7, <1>8, <1>9, <1>10 DEF Examine

\* The call under way ends, and a value that it returns is shown.
LEMMA TradeResume == ASSUME IInv, TradeInv, Resumes \/ TimesOut PROVE TradeInv'
  <1>1. /\ call' = None /\ UNCHANGED <<inbox, wire, book, asked, scenario, phase>> /\ call # None
    BY DEF Resumes, TimesOut, Resume, Timeout, EndCall, clientVars
  <1>2. BookFits' /\ Book' = Book
    BY <1>1, SameBookFits DEF TradeInv
  <1>3. InboxFits' /\ AnswersTrue'
    BY <1>1, <1>2, BookStays DEF TradeInv, InboxFits, AnswersTrue
  <1>4. \/ shown' = None
        \/ /\ call.slot # None /\ call.slot.class = "answer" /\ call.slot.op = call.op
           /\ shown' = [op |-> call.op, fact |-> call.slot.fact, val |-> Decode(call.op, call.slot.wire)]
    <2>1. CASE TimesOut
      BY <2>1 DEF TimesOut, Timeout, EndCall, Ends
    <2>2. CASE Resumes
      <3> DEFINE end == Outcome(call.op, call.slot)
      <3>1. /\ call.slot # None
            /\ shown' = IF end.out = "ok" THEN [op |-> call.op, fact |-> Fact(call.slot), val |-> end.val] ELSE None
        BY <2>2 DEF Resumes, Resume, EndCall
      <3>2. end.out = "ok" => /\ call.slot.class = "answer" /\ call.slot.op = call.op
                              /\ end.val = Decode(call.op, call.slot.wire)
        BY OutcomeOk
      <3> HIDE DEF end
      <3> QED
        BY <3>1, <3>2 DEF Fact
    <2> QED
      BY <2>1, <2>2
  <1>5. ReadsAreTrue'
    <2>1. CASE shown' = None
      BY <2>1 DEF ReadsAreTrue
    <2>2. CASE shown' # None
      <3>1. /\ call.slot # None /\ call.slot.class = "answer" /\ call.slot.op = call.op
            /\ shown'.op = call.op /\ shown'.fact = call.slot.fact /\ shown'.val = Decode(call.op, call.slot.wire)
        BY <1>4, <2>2
      <3>2. AnswerTrue(call.slot)
        BY <1>1, <3>1 DEF TradeInv, AnswersTrue
      <3>3. call.op \notin Reads => Decode(call.op, call.slot.wire) = AsShown(call.op, call.slot.fact)
        BY <3>1, <3>2 DEF AnswerTrue
      <3> QED
        BY <3>1, <3>3 DEF ReadsAreTrue
    <2> QED
      BY <2>1, <2>2
  <1>6. ASSUME Data PROVE ShownFits'
    <2>1. CASE shown' = None
      BY <2>1 DEF ShownFits
    <2>2. CASE shown' # None
      <3>1. /\ call.slot # None /\ call.slot.class = "answer" /\ call.slot.op = call.op
            /\ shown'.op = call.op /\ shown'.val = Decode(call.op, call.slot.wire)
        BY <1>4, <2>2
      <3>2. call.op \in Reads => call.slot.wire = BookWire(call.op)
        BY <1>1, <1>6, <3>1 DEF TradeInv, DataFits, AnswerFits
      <3>3. call.op \in Reads /\ shown'.val # <<>> =>
              /\ call.op \in {"orders", "pending"} => Book.what = "order" /\ shown'.val[1] = OrderFromProto(Book.rec)
              /\ call.op = "positions" => Book.what = "position" /\ shown'.val[1] = PositionFromProto(Book.rec)
        BY <3>1, <3>2, ReadShows DEF TradeInv
      <3>4. {"orders", "pending", "positions"} = Reads
        BY DEF Reads
      <3> QED
        BY <1>2, <3>1, <3>3, <3>4 DEF ShownFits
    <2> QED
      BY <2>1, <2>2
  <1>7. DataFits'
    <2> SUFFICES ASSUME Data' PROVE DataFits'
      BY DEF DataFits
    <2>1. Data
      BY <1>1 DEF Data
    <2>2. ASSUME NEW i \in DOMAIN inbox PROVE FALSE
      <3>1. Resumes
        BY <2>1 DEF TimesOut, Life, Data
      <3>2. call.slot # None
        BY <3>1 DEF Resumes, Resume
      <3>3. inbox[i].n = call.n
        BY <2>1 DEF TradeInv, DataFits
      <3> QED
        BY <1>1, <3>2, <3>3 DEF IInv, AnswersAgree
    <2>3. phase' \notin {"closing", "leaving"}
      BY <1>1, <2>1 DEF TradeInv, DataFits
    <2> QED
      BY <1>1, <1>6, <2>1, <2>2, <2>3 DEF DataFits
  <1> QED
    BY <1>2, <1>3, <1>5, <1>7 DEF TradeInv

\* The reader takes a message; one that answers the call goes to its slot.
LEMMA TradeRead == ASSUME IInv, TradeInv, ReadMessage PROVE TradeInv'
  <1>1. /\ wire \in Seq(Range(wire)) /\ wire # <<>> /\ wire' = Tail(wire)
        /\ UNCHANGED <<inbox, book, asked, shown, scenario, phase>>
    BY DEF IInv, ShapesAgree, ReadMessage, clientVars
  <1>2. /\ 1 \in DOMAIN wire /\ Head(wire) = wire[1]
        /\ \A i \in DOMAIN wire' : i + 1 \in DOMAIN wire /\ wire'[i] = wire[i + 1]
    BY <1>1, TailParts
  <1>3. \/ call' = call
        \/ /\ call # None /\ wire[1].n # 0 /\ wire[1].n = call.n
           /\ call' = [call EXCEPT !.slot = wire[1].body]
    BY <1>2 DEF ReadMessage, Answers
  <1>4. BookFits' /\ Book' = Book
    BY <1>1, SameBookFits DEF TradeInv
  <1>5. InboxFits' /\ ReadsAreTrue'
    BY <1>1, <1>4, BookStays DEF TradeInv, InboxFits, ReadsAreTrue
  <1>6. /\ \A k \in DOMAIN wire' : wire'[k].n # 0 => AnswerTrue(wire'[k].body)
        /\ wire[1].n # 0 => AnswerTrue(wire[1].body)
    BY <1>2 DEF TradeInv, AnswersTrue
  <1>7. AnswersTrue'
    <2>1. call' # None /\ call'.slot # None => AnswerTrue(call'.slot)
      <3>1. CASE call' = call
        BY <3>1 DEF TradeInv, AnswersTrue
      <3>2. CASE call' # call
        <4>1. wire[1].n # 0 /\ call'.slot = wire[1].body
          BY <1>3, <3>2 DEF IInv, ShapesAgree
        <4> QED
          BY <1>6, <4>1
      <3> QED
        BY <3>1, <3>2
    <2>2. \A body : AnswerTrue(body)' <=> AnswerTrue(body)
      BY <1>4, BookStays
    <2>3. AnswerTrue(call'.slot) <=> AnswerTrue(call.slot)'
      BY DEF AnswerTrue
    <2>4. \A k \in DOMAIN wire' : AnswerTrue(wire'[k].body) <=> AnswerTrue(wire[k].body)'
      BY DEF AnswerTrue
    <2> QED
      BY <1>6, <2>1, <2>3, <2>4 DEF AnswersTrue
  <1>8. ASSUME Data PROVE DataFits'
    <2>1. /\ phase' \notin {"closing", "leaving"} /\ ShownFits'
      BY <1>1, <1>4, <1>8 DEF TradeInv, DataFits, ShownFits
    <2>2. CASE call' = call
      <3>1. \A i \in DOMAIN inbox' : call' # None /\ inbox'[i].n = call'.n
        BY <1>1, <1>8, <2>2 DEF TradeInv, DataFits
      <3>2. call' # None => shown' = None
        BY <1>1, <1>8, <2>2 DEF TradeInv, DataFits
      <3>3. call' # None =>
              /\ \A k \in DOMAIN wire' : wire'[k].n # 0 /\ wire'[k].n = call'.n => AnswerFits(wire'[k].body)
              /\ call'.slot # None => AnswerFits(call'.slot)
        BY <1>2, <1>8, <2>2 DEF TradeInv, DataFits
      <3>4. /\ AnswerFits(call'.slot) => AnswerFits(call.slot)'
            /\ \A k \in DOMAIN wire' : AnswerFits(wire'[k].body) => AnswerFits(wire[k].body)'
        BY <1>4 DEF AnswerFits, BookWire
      <3> QED
        BY <2>1, <3>1, <3>2, <3>3, <3>4 DEF DataFits
    <2>3. CASE call' # call
      <3>1. /\ call # None /\ wire[1].n # 0 /\ wire[1].n = call.n
            /\ call'.slot = wire[1].body /\ call'.n = call.n
        BY <1>3, <2>3 DEF IInv, ShapesAgree
      <3>2. ASSUME NEW i \in DOMAIN inbox' PROVE FALSE
        <4>1. inbox[i].n = call.n /\ i \in DOMAIN inbox
          BY <1>1, <1>8 DEF TradeInv, DataFits
        <4> QED
          BY <1>2, <3>1, <4>1 DEF IInv, AnswersAgree
      <3>3. shown' = None
        BY <1>1, <1>8, <3>1 DEF TradeInv, DataFits
      <3>4. /\ \A k \in DOMAIN wire' : wire'[k].n # 0 /\ wire'[k].n = call'.n => AnswerFits(wire'[k].body)
            /\ AnswerFits(call'.slot)
        BY <1>2, <1>8, <3>1 DEF TradeInv, DataFits
      <3>5. /\ AnswerFits(call'.slot) => AnswerFits(call.slot)'
            /\ \A k \in DOMAIN wire' : AnswerFits(wire'[k].body) => AnswerFits(wire[k].body)'
        BY <1>4 DEF AnswerFits, BookWire
      <3> QED
        BY <2>1, <3>2, <3>3, <3>4, <3>5 DEF DataFits
    <2> QED
      BY <2>2, <2>3
  <1>9. DataFits'
    BY <1>1, <1>8 DEF DataFits, Data
  <1> QED
    BY <1>4, <1>5, <1>7, <1>9 DEF TradeInv

\* The server deals with the one request there is.
LEMMA TradeActs ==
    ASSUME IInv, TradeInv, phase = "open", ServerActs(Busy), UNCHANGED <<eventVars, clientVars>>
    PROVE  TradeInv'
  <1> DEFINE r == inbox[1]
  <1>1. /\ inbox \in Seq(Range(inbox)) /\ inbox # <<>> /\ inbox' = Tail(inbox) /\ shown' = shown
        /\ scenario' = scenario /\ phase' = phase /\ jobs' = jobs
    BY DEF IInv, ShapesAgree, ServerActs, eventVars, clientVars
  <1>2. /\ 1 \in DOMAIN inbox /\ Head(inbox) = r
        /\ inbox' \in Seq(Range(inbox')) /\ DOMAIN inbox' = 1..(Len(inbox) - 1)
    BY <1>1, TailParts
  <1>3. Len(inbox') = 0 /\ DOMAIN inbox' = {}
    <2>1. Len(inbox) <= 1 /\ Len(inbox) \in Nat
      BY <1>1, SeqParts DEF TradeInv, InboxFits
    <2> QED
      BY <1>2, <2>1, SeqParts
  <1>4. RequestFits(r)
    BY <1>2 DEF TradeInv, InboxFits
  <1>5. PICK a \in Replies(r) :
          /\ Sends(r.n, a.bodies, Busy) /\ SetBook(a.book)
          /\ call' = IF call # None /\ call.n = r.n THEN [call EXCEPT !.did = a.did] ELSE call
    BY <1>2 DEF ServerActs
  <1> HIDE DEF r
  <1>6. /\ Fits(a.book)
        /\ \A i \in 1..Len(a.bodies) :
             /\ AnswerTrue(a.bodies[i])
             /\ (a.bodies[i].class = "answer" /\ a.bodies[i].op \in Reads) =>
                   a.bodies[i].wire = BookWire(a.bodies[i].op) /\ a.book = Book
    BY <1>4, RepliesFit DEF TradeInv
  <1>7. /\ \A i \in DOMAIN wire : i \in DOMAIN wire' /\ wire'[i] = wire[i]
        /\ \A i \in DOMAIN wire' \ DOMAIN wire :
             wire'[i].n = r.n /\ \E k \in 1..Len(a.bodies) : wire'[i].body = a.bodies[k]
    BY <1>1, <1>5, RepliesTell, SendsKeeps
  <1>8. BookFits'
    BY <1>5, <1>6, SetBookFits
  <1>9. call' # None => call # None /\ call'.n = call.n /\ call'.slot = call.slot
    BY <1>5 DEF IInv, ShapesAgree
  <1>10. InboxFits'
    BY <1>3 DEF InboxFits
  <1>11. AnswersTrue'
    <2>1. \A k \in DOMAIN wire' : wire'[k].n # 0 => AnswerTrue(wire'[k].body)
      BY <1>6, <1>7 DEF TradeInv, AnswersTrue
    <2>2. call' # None /\ call'.slot # None => AnswerTrue(call'.slot)
      BY <1>9 DEF TradeInv, AnswersTrue
    <2>3. /\ AnswerTrue(call'.slot) <=> AnswerTrue(call.slot)'
          /\ \A k \in DOMAIN wire' : AnswerTrue(wire'[k].body) <=> AnswerTrue(wire[k].body)'
      BY DEF AnswerTrue
    <2> QED
      BY <2>1, <2>2, <2>3 DEF AnswersTrue
  <1>12. ReadsAreTrue'
    BY <1>1 DEF TradeInv, ReadsAreTrue
  <1>13. ASSUME Data PROVE DataFits'
    <2>1. call # None /\ r.n = call.n /\ shown = None /\ phase' \notin {"closing", "leaving"}
      BY <1>1, <1>2, <1>13 DEF TradeInv, DataFits, r
    <2>2. call.slot = None /\ \A k \in DOMAIN wire : wire[k].n # 0 => wire[k].n # call.n
      BY <1>2, <2>1 DEF IInv, AnswersAgree, r
    <2>3. ASSUME call' # None, NEW k \in DOMAIN wire', wire'[k].n # 0, wire'[k].n = call'.n
          PROVE  AnswerFits(wire[k].body)'
      <3>1. k \notin DOMAIN wire
        BY <1>7, <1>9, <2>2, <2>3
      <3>2. PICK i \in 1..Len(a.bodies) : wire'[k].body = a.bodies[i]
        BY <1>7, <3>1
      <3> DEFINE body == a.bodies[i]
      <3>3. body.class = "answer" /\ body.op \in Reads => body.wire = BookWire(body.op) /\ Book' = Book
        BY <1>5, <1>6, SameBook DEF TradeInv
      <3>4. body.class = "answer" /\ body.op \in Reads => body.wire = BookWire(body.op)'
        BY <3>3 DEF BookWire
      <3> HIDE DEF body
      <3> QED
        BY <3>2, <3>4 DEF AnswerFits, BookWire, body
    <2>4. ShownFits' /\ shown' = None
      BY <1>1, <2>1 DEF ShownFits
    <2> QED
      BY <1>3, <1>9, <2>1, <2>2, <2>3, <2>4 DEF DataFits
  <1>14. DataFits'
    BY <1>1, <1>13 DEF DataFits, Data
  <1> QED
    BY <1>8, <1>10, <1>11, <1>12, <1>14 DEF TradeInv

\* The server says something unasked, and perhaps fills the order.
LEMMA TradeTells ==
    ASSUME IInv, TradeInv, NEW body, Sends(0, <<body>>, Busy), UNCHANGED <<call, inbox, shown>>,
           UNCHANGED <<eventVars, clientVars>>, BookFits',
           \/ Book' = Book
           \/ Data /\ call = None /\ Book.what = "order" /\ Book'.what # "order"
    PROVE  TradeInv'
  <1>1. scenario' = scenario /\ phase' = phase /\ jobs' = jobs
    BY DEF eventVars, clientVars
  <1>2. Len(<<body>>) \in Nat
    OBVIOUS
  <1>3. /\ \A i \in DOMAIN wire : i \in DOMAIN wire' /\ wire'[i] = wire[i]
        /\ \A i \in DOMAIN wire' \ DOMAIN wire : wire'[i].n = 0
    <2> DEFINE b == <<body>>
    <2>1. Len(b) \in Nat /\ Sends(0, b, Busy)
      BY <1>2
    <2> HIDE DEF b
    <2> QED
      BY <1>1, <2>1, SendsKeeps
  <1>4. AnswersTrue'
    <2>1. \A k \in DOMAIN wire' : wire'[k].n # 0 => AnswerTrue(wire'[k].body)
      BY <1>3 DEF TradeInv, AnswersTrue
    <2>2. call' # None /\ call'.slot # None => AnswerTrue(call'.slot)
      BY DEF TradeInv, AnswersTrue
    <2>3. /\ AnswerTrue(call'.slot) <=> AnswerTrue(call.slot)'
          /\ \A k \in DOMAIN wire' : AnswerTrue(wire'[k].body) <=> AnswerTrue(wire[k].body)'
      BY DEF AnswerTrue
    <2> QED
      BY <2>1, <2>2, <2>3 DEF AnswersTrue
  <1>5. ReadsAreTrue'
    BY DEF TradeInv, ReadsAreTrue
  <1>6. CASE Book' = Book
    <2>1. InboxFits'
      BY <1>6, BookStays DEF TradeInv, InboxFits
    <2>2. DataFits'
      <3> SUFFICES ASSUME Data' PROVE DataFits'
        BY DEF DataFits
      <3>1. Data
        BY <1>1 DEF Data
      <3>2. /\ phase' \notin {"closing", "leaving"} /\ (call' # None => shown' = None)
            /\ \A i \in DOMAIN inbox' : call' # None /\ inbox'[i].n = call'.n
        BY <1>1, <3>1 DEF TradeInv, DataFits
      <3>3. ASSUME call' # None PROVE
              /\ \A k \in DOMAIN wire' : wire'[k].n # 0 /\ wire'[k].n = call'.n => AnswerFits(wire'[k].body)
              /\ call'.slot # None => AnswerFits(call'.slot)
        BY <1>3, <3>1, <3>3 DEF TradeInv, DataFits
      <3>4. /\ AnswerFits(call'.slot) => AnswerFits(call.slot)'
            /\ \A k \in DOMAIN wire' : AnswerFits(wire'[k].body) => AnswerFits(wire[k].body)'
        BY <1>6 DEF AnswerFits, BookWire
      <3>5. ShownFits'
        BY <1>6, <3>1 DEF TradeInv, DataFits, ShownFits
      <3> QED
        BY <3>2, <3>3, <3>4, <3>5 DEF DataFits
    <2> QED
      BY <1>4, <1>5, <2>1, <2>2 DEF TradeInv
  <1>7. CASE Data /\ call = None /\ Book.what = "order" /\ Book'.what # "order"
    <2>1. DOMAIN inbox' = {} /\ Len(inbox') <= 1
      BY <1>7 DEF TradeInv, DataFits, InboxFits
    <2>2. InboxFits'
      BY <2>1 DEF InboxFits
    <2>3. ShownFits
      BY <1>7 DEF TradeInv, DataFits
    <2>4. ShownFits'
      BY <1>7, <2>3 DEF ShownFits
    <2>5. DataFits'
      BY <1>1, <1>7, <2>1, <2>4 DEF TradeInv, DataFits, Data
    <2> QED
      BY <1>4, <1>5, <2>2, <2>5 DEF TradeInv
  <1> QED
    BY <1>6, <1>7

LEMMA TradeServer == ASSUME IInv, TradeInv, Server PROVE TradeInv'
  <1>1. phase = "open" /\ UNCHANGED <<eventVars, clientVars>>
    BY DEF Server
  <1>2. CASE ServerActs(Busy)
    BY <1>1, <1>2, TradeActs
  <1>3. CASE Data /\ call = None /\ wire = <<>> /\ ServerFills(Busy)
    <2> DEFINE b == Position(PositionFor(book.rec), AskedPosition(asked))
    <2>1. /\ Book.what = "order" /\ SetBook(b) /\ Sends(0, <<Execution(3)>>, Busy)
          /\ UNCHANGED <<call, inbox, shown>>
      BY <1>3 DEF ServerFills
    <2>2. Book.rec = book.rec /\ Book.asked = asked
      BY <2>1 DEF Book, Nothing
    <2>3. OrderFits(book.rec, asked)
      BY <2>1, <2>2 DEF TradeInv, BookFits, Fits
    <2>4. Fits(b) /\ b.what = "position"
      BY <2>3, FillFits DEF Fits, Position
    <2> HIDE DEF b
    <2>5. BookFits'
      BY <2>1, <2>4, SetBookFits
    <2>6. Book'.what # "order"
      BY <2>1, <2>4 DEF SetBook, Book, Nothing
    <2> QED
      BY <1>1, <1>3, <2>1, <2>5, <2>6, TradeTells
  <1>4. CASE \E body \in Pushes : ServerPushes(body, Busy)
    <2>1. PICK body : Sends(0, <<body>>, Busy) /\ UNCHANGED <<call, inbox, book, asked, shown>>
      BY <1>4 DEF ServerPushes
    <2>2. BookFits' /\ Book' = Book
      BY <2>1, SameBookFits DEF TradeInv
    <2> QED
      BY <1>1, <2>1, <2>2, TradeTells
  <1> QED
    BY <1>2, <1>3, <1>4 DEF Server

----------------------------------------------------------------------------
(* The theorems.                                                           *)

LEMMA TradeInit == Init => TradeInv
  <1> SUFFICES ASSUME Init PROVE TradeInv
    OBVIOUS
  <1>1. Book = Nothing /\ book = None /\ call = None /\ shown = None
    BY DEF Init, Book
  <1>2. DOMAIN inbox = {} /\ Len(inbox) = 0 /\ DOMAIN wire = {}
    BY DEF Init
  <1>3. BookFits
    BY <1>1 DEF BookFits, Fits, Nothing
  <1>4. InboxFits /\ AnswersTrue /\ ReadsAreTrue
    BY <1>1, <1>2 DEF InboxFits, AnswersTrue, ReadsAreTrue
  <1>5. DataFits
    BY <1>1, <1>2 DEF DataFits, ShownFits, Init
  <1> QED
    BY <1>3, <1>4, <1>5 DEF TradeInv

LEMMA TradeStep == ASSUME IInv, TradeInv, Next PROVE TradeInv'
  <1> USE DEF tradeVars
  <1>1. CASE UNCHANGED tradeVars /\ scenario' = scenario /\ (Data => phase' \notin {"closing", "leaving"})
    BY <1>1, TradeQuiet
  <1>2. \/ UNCHANGED tradeVars /\ scenario' = scenario /\ (Data => phase' \notin {"closing", "leaving"})
        \/ ProtocolFails \/ ProtocolStops \/ Closed \/ LinkReplaced \/ Ask \/ Examine \/ Resumes \/ TimesOut \/ ReadMessage \/ Server
    <2>1. CASE Enter \/ ConnectFails \/ Connected \/ AppAuthenticated \/ AppAuthFails \/ Opened
      BY <2>1 DEF Enter, ConnectFails, Connected, AppAuthenticated, AppAuthFails, Opened, Goes, Life, Data
    <2>2. CASE Leave \/ \E m \in Monitors : Serve(m) \/ MonitorDies(m)
      BY <2>2 DEF Serve, MonitorDies, Leave, WindsDown, Goes, Life, Data
    <2>3. CASE MonitorsEnd \/ Registers \/ Handles
      BY <2>3 DEF MonitorsEnd, Registers, Handles, Life, Data, clientVars, TradeInv, DataFits
    <2> QED
      BY <2>1, <2>2, <2>3 DEF Next
  <1> QED
    BY <1>1, <1>2, TradeEnds, TradeAsk, TradeExamine, TradeResume, TradeRead, TradeServer

\* In every reachable state the server's book is what was asked of it, a request
\* under way says what its operation does, and an answer under way tells the
\* truth about the server (to_proto, from_proto, send_request, _dispatch_message).
THEOREM TradeInductive == Spec => []TradeInv
  <1>1. IInv /\ TradeInv /\ [Next]_vars => TradeInv'
    <2>1. ASSUME IInv, TradeInv, UNCHANGED vars PROVE TradeInv'
      <3>1. UNCHANGED tradeVars /\ scenario' = scenario /\ phase' = phase
        BY <2>1 DEF vars, clientVars
      <3> QED
        BY <2>1, <3>1, TradeQuiet DEF TradeInv, DataFits
    <2> QED
      BY <2>1, TradeStep
  <1> QED
    BY TradeInit, Inductive, <1>1, PTL DEF Spec

\* What the server holds is, field by field, what the application asked it to
\* be with the order it placed and every amendment since, as it is read back:
\* for any changes and any fineness of distances and times (NewOrderRequest.to_proto,
\* AmendOrderRequest.to_proto, AmendPositionRequest.to_proto, Order.from_proto,
\* Position.from_proto).
THEOREM BookIsAsAskedHolds == Spec => []BookIsAsAsked
  <1>1. TradeInv => BookIsAsAsked
    <2> SUFFICES ASSUME TradeInv, book # None PROVE BookIsAsAsked
      BY DEF BookIsAsAsked
    <2>1. Book.what = book.what /\ Book.rec = book.rec /\ Book.asked = asked /\ book.what \in {"order", "position"}
      BY DEF TradeInv, BookFits, Book
    <2>2. CASE book.what = "order"
      <3>1. OrderFits(book.rec, asked)
        BY <2>1, <2>2 DEF TradeInv, BookFits, Fits
      <3>2. DOMAIN asked = OrderParts
        BY <3>1 DEF OrderFits
      <3> QED
        BY <2>2, <3>1, <3>2 DEF BookIsAsAsked, OrderFits
    <2>3. CASE book.what = "position"
      <3>1. PositionFits(book.rec, asked)
        BY <2>1, <2>3 DEF TradeInv, BookFits, Fits
      <3>2. DOMAIN asked = AskedParts
        BY <3>1 DEF PositionFits
      <3> QED
        BY <2>3, <3>1, <3>2 DEF BookIsAsAsked, PositionFits
    <2> QED
      BY <2>1, <2>2, <2>3
  <1> QED
    BY <1>1, TradeInductive, PTL

\* A query returns what is true at the server, as it is shown: any amounts of
\* money, zero and negative ones too, whatever digits from 1 to 8 their message
\* states or omits, and bars and ticks of any number from their differences.
\* AsShown says what is lost: what the wire cannot tell from absent, and the
\* close of a deal that left no positive balance (Deal.from_proto and the other
\* from_proto methods, resolve_account_id, search).
THEOREM ReadsAreTrueHolds == Spec => []ReadsAreTrue
  <1>1. TradeInv => ReadsAreTrue
    BY DEF TradeInv
  <1> QED
    BY <1>1, TradeInductive, PTL
=============================================================================
