---------------------------- MODULE FillsProofs ----------------------------
(***************************************************************************)
(* What holds of Fills for any prices, flags, number of bars and settings: *)
(* the walk of one bar, stage by stage, keeps the books in order.          *)
(***************************************************************************)
EXTENDS Fills, TLAPS

Side == {-1, 0, 1}

Position == {p \in [has: BOOLEAN, side: Side, ei: Nat, px: Int, stop: Int, target: Int] :
               p.has <=> p.side # 0}

Order == [on: BOOLEAN, exit: BOOLEAN, side: Side]

Reasons == {"signal", "stop", "take_profit", "time", "end", "liquidated"}

Trade == [pos: Position, raw: Int, reason: Reasons, xi: Nat, bar: Bar]

Book == [i: 0..(LastBar + 1), pos: Position, pending: Order, funds: Side, ruin: BOOLEAN,
         closed: Seq(Trade), mark: Side, low: Side, seen: Side]

-----------------------------------------------------------------------------
(* What holds of the books between any two stages of a bar.                *)

Fair(t) ==
  t.reason # "stop" \/ cfg.stop_gap
    => (t.raw - Extreme(t.bar, t.pos.side)) * t.pos.side <= 0

ClearOfStop(t) ==
  t.reason = "take_profit" =>
    cfg.stop = "none" \/ ~Past(Extreme(t.bar, -t.pos.side), t.pos.stop, -t.pos.side)

\* A position entered on bar i is on the side e.
Asked(p, i, e) == p.has /\ p.ei = i => p.side = e

Rightly(t, i, e) == Fair(t) /\ ClearOfStop(t) /\ Asked(t.pos, i, e)

\* The trade that Push books.
TradeOf(v, raw, reason, b) == [pos |-> v.pos, raw |-> raw, reason |-> reason, xi |-> v.i, bar |-> b]

Closings(v, e) == \A k \in DOMAIN v.closed : Rightly(v.closed[k], v.i, e)

\* Of a position: what it was entered at, a price or half of one.
Priced(p) == p.px \in Nat \ {0} /\ p.px % 4 = 0

Accounts(v) ==
  /\ v.ruin => ~v.pos.has
  /\ cfg.liquidate => v.funds >= 0 /\ (v.ruin => v.funds = 0)
  /\ v.pos.has => Priced(v.pos)
  /\ cfg.fill_open \/ v.pending = NoOrder

\* During a bar on which entries are on side e.
Standing(v, e) ==
  /\ v \in Book
  /\ Accounts(v)
  /\ v.pos.has => v.pos.ei <= v.i
  /\ Asked(v.pos, v.i, e)
  /\ Closings(v, e)

\* What an open position has been spared on bar b.
Survived(v, b) ==
  cfg.liquidate /\ v.pos.has /\ v.pos.ei < v.i
    => Worth(v.pos.px, Extreme(b, -v.pos.side), v.pos.side) > 0

InTime(v) == cfg.max_bars >= 1 /\ v.pos.has => v.i - v.pos.ei < cfg.max_bars

\* Between two bars.
WalkInv ==
  /\ cfg \in Setting
  /\ w \in Book
  /\ Accounts(w)
  /\ w.pos.has => w.pos.ei < w.i
  /\ w.pending.side # 0 => w.pending.side = w.seen

-----------------------------------------------------------------------------
(* Settings, bars and arithmetic.                                          *)

LEMMA SettingMeans ==
  ASSUME cfg \in Setting
  PROVE  /\ cfg.fill_open \in BOOLEAN /\ cfg.close_open \in BOOLEAN
         /\ cfg.stop_gap \in BOOLEAN /\ cfg.liquidate \in BOOLEAN
         /\ cfg.slip \in {0, 1} /\ cfg.frac \in {1, 2} /\ cfg.max_bars \in Int
  BY WalkAssumption

LEMMA BarMeans ==
  ASSUME NEW b \in Bar
  PROVE  /\ b.o \in Price /\ b.h \in Price /\ b.l \in Price /\ b.c \in Price
         /\ b.o \in Nat /\ b.h \in Nat /\ b.l \in Nat /\ b.c \in Nat
         /\ b.l <= b.o /\ b.l <= b.c /\ b.o <= b.h /\ b.c <= b.h
  BY WalkAssumption DEF Bar

LEMMA SignMeans ==
  ASSUME NEW x \in Int
  PROVE  Sign(x) \in Side /\ (Sign(x) > 0 <=> x > 0) /\ (Sign(x) < 0 <=> x < 0)
  BY DEF Sign, Side

(* Slippage moves a price by half of it, against whoever trades.           *)
LEMMA SlippedMeans ==
  ASSUME cfg \in Setting, NEW raw \in Int, NEW d \in {-1, 1}
  PROVE  /\ Slipped(raw, d) \in Int
         /\ raw >= 0 => (Slipped(raw, d) - raw) * d >= 0
         /\ raw \in Price => Slipped(raw, d) \in Nat \ {0} /\ Slipped(raw, d) % 4 = 0
<1>1. PICK s \in {-1, 0, 1} : cfg.slip * d = s /\ s * d >= 0
  BY SettingMeans
<1>2. Slipped(raw, d) = (raw * (2 + s)) \div 2
  BY <1>1 DEF Slipped
<1>3. raw \in Price => raw \in Nat \ {0} /\ raw % 8 = 0
  BY WalkAssumption
<1>4. CASE s = 0
  <2>1. (raw * (2 + s)) \div 2 = raw
    BY <1>4
  <2> QED
    BY <1>2, <1>3, <2>1
<1>5. CASE s = 1
  <2>1. d = 1 /\ Slipped(raw, d) = (raw * 3) \div 2
    BY <1>1, <1>2, <1>5
  <2> QED
    BY <1>3, <2>1
<1>6. CASE s = -1
  <2>1. d = -1 /\ Slipped(raw, d) = raw \div 2
    BY <1>1, <1>2, <1>6
  <2> QED
    BY <1>3, <2>1
<1> QED
  BY <1>4, <1>5, <1>6

LEMMA WorthMeans ==
  ASSUME cfg \in Setting, NEW epx \in Int, NEW px \in Int, NEW side \in Side
  PROVE  Worth(epx, px, side) \in Int
<1>1. CASE cfg.frac = 1
  BY <1>1 DEF Worth, Side
<1>2. CASE cfg.frac = 2
  BY <1>2 DEF Worth, Side
<1> QED
  BY <1>1, <1>2, SettingMeans

(* A position is worth no less at a price better for it.                   *)
LEMMA WorthGrows ==
  ASSUME cfg \in Setting, NEW epx \in Int, NEW px \in Int, NEW py \in Int, NEW side \in {-1, 1},
         (py - px) * side >= 0
  PROVE  Worth(epx, py, side) >= Worth(epx, px, side)
<1>1. CASE cfg.frac = 1
  BY <1>1 DEF Worth
<1>2. CASE cfg.frac = 2
  BY <1>2 DEF Worth
<1> QED
  BY <1>1, <1>2, SettingMeans

(* Closed at its wipe-out price a position leaves nothing.                 *)
LEMMA WipeOutMeans ==
  ASSUME cfg \in Setting, NEW p \in Position, p.has, Priced(p)
  PROVE  /\ WipeOut(p) \in Nat
         /\ Worth(p.px, WipeOut(p), p.side) = 0
<1>1. p.side \in {-1, 1} /\ p.px \in Nat /\ p.px % 4 = 0
  BY DEF Position, Side, Priced
<1>2. CASE cfg.frac = 1 /\ p.side = 1
  <2>1. WipeOut(p) = 0
    BY <1>1, <1>2 DEF WipeOut
  <2> QED
    BY <1>1, <1>2, <2>1 DEF Worth
<1>3. CASE cfg.frac = 1 /\ p.side = -1
  <2>1. WipeOut(p) = 2 * p.px
    BY <1>1, <1>3 DEF WipeOut
  <2> QED
    BY <1>1, <1>3, <2>1 DEF Worth
<1>4. CASE cfg.frac = 2 /\ p.side = 1
  <2>1. WipeOut(p) = p.px - p.px \div 2 /\ 2 * (p.px \div 2) = p.px /\ p.px \div 2 \in Nat
    BY <1>1, <1>4 DEF WipeOut
  <2> QED
    BY <1>1, <1>4, <2>1 DEF Worth
<1>5. CASE cfg.frac = 2 /\ p.side = -1
  <2>1. WipeOut(p) = p.px - (-p.px) \div 2 /\ 2 * ((-p.px) \div 2) = -p.px
        /\ (-p.px) \div 2 \in Int
    BY <1>1, <1>5 DEF WipeOut
  <2>2. WipeOut(p) \in Nat
    BY <1>1, <2>1
  <2> QED
    BY <1>1, <1>5, <2>1, <2>2 DEF Worth
<1> QED
  BY <1>1, <1>2, <1>3, <1>4, <1>5, SettingMeans

-----------------------------------------------------------------------------
(* Opening and closing a position.                                         *)

LEMMA AppendMeans ==
  ASSUME NEW T, NEW s \in Seq(T), NEW x \in T
  PROVE  /\ Append(s, x) \in Seq(T)
         /\ \A k \in DOMAIN Append(s, x) :
              Append(s, x)[k] = x \/ (k \in DOMAIN s /\ Append(s, x)[k] = s[k])
  OBVIOUS

LEMMA FlatMeans == Flat \in Position /\ ~Flat.has /\ Flat.side = 0
  BY DEF Flat, Position, Side

LEMMA SettledMeans ==
  ASSUME cfg \in Setting, NEW v, v.pos \in Position, v.pos.has, NEW raw \in Int
  PROVE  Settled(v, raw) \in Side /\ (cfg.liquidate => Settled(v, raw) >= 0)
<1>1. v.pos.side \in {-1, 1} /\ -v.pos.side \in {-1, 1} /\ v.pos.px \in Int
  BY DEF Position, Side
<1>2. Slipped(raw, -v.pos.side) \in Int
  BY <1>1, SlippedMeans
<1>3. Worth(v.pos.px, Slipped(raw, -v.pos.side), v.pos.side) \in Int
  BY <1>1, <1>2, WorthMeans DEF Side
<1>4. Sign(Worth(v.pos.px, Slipped(raw, -v.pos.side), v.pos.side)) \in Side
  BY <1>3, SignMeans
<1> QED
  BY <1>4 DEF Settled, Side

(* A close in order keeps the books in order, and leaves the walk flat.    *)
LEMMA PushKeeps ==
  ASSUME cfg \in Setting, NEW v, NEW e, Standing(v, e), v.pos.has,
         NEW b \in Bar, NEW raw \in Int, NEW reason \in Reasons,
         Fair(TradeOf(v, raw, reason, b)), ClearOfStop(TradeOf(v, raw, reason, b))
  PROVE  /\ Standing(Push(v, raw, reason, b), e)
         /\ Push(v, raw, reason, b).pos = Flat
         /\ Push(v, raw, reason, b).pending = v.pending
         /\ Push(v, raw, reason, b).i = v.i
<1> DEFINE trade == TradeOf(v, raw, reason, b)
           funds == Settled(v, raw)
           ruin == funds <= 0
           x == Push(v, raw, reason, b)
<1>1. v \in Book /\ v.pos \in Position /\ v.i \in Nat /\ v.closed \in Seq(Trade)
  BY WalkAssumption DEF Standing, Book
<1>2. trade \in Trade /\ Rightly(trade, v.i, e)
  BY <1>1 DEF Trade, Rightly, Standing, TradeOf
<1>3. funds \in Side /\ (cfg.liquidate => funds >= 0) /\ ruin \in BOOLEAN
  BY <1>1, SettledMeans
<1>4. Flat \in Position /\ ~Flat.has
  BY FlatMeans
<1>5. x = [v EXCEPT !.closed = Append(@, trade), !.pos = Flat, !.funds = funds, !.ruin = ruin]
  BY DEF Push, TradeOf
<1>6. Append(v.closed, trade) \in Seq(Trade)
      /\ \A k \in DOMAIN Append(v.closed, trade) :
           Append(v.closed, trade)[k] = trade
           \/ (k \in DOMAIN v.closed /\ Append(v.closed, trade)[k] = v.closed[k])
  BY <1>1, <1>2, AppendMeans
<1>7. ruin => funds <= 0
  OBVIOUS
<1> DEFINE more == Append(v.closed, trade)
<1> HIDE DEF trade, x, funds, ruin, more
<1>8. x = [v EXCEPT !.closed = more, !.pos = Flat, !.funds = funds, !.ruin = ruin]
  BY <1>5 DEF more
<1>9. /\ x.i = v.i /\ x.pos = Flat /\ x.pending = v.pending /\ x.funds = funds
      /\ x.ruin = ruin /\ x.closed = more
  BY <1>1, <1>8 DEF Book
<1>10. x \in Book
  BY <1>1, <1>3, <1>4, <1>6, <1>8 DEF Book, more
<1>11. Closings(x, e)
  BY <1>2, <1>6, <1>9 DEF Closings, Standing, more
<1>12. Accounts(x)
  <2>1. cfg.liquidate => x.funds >= 0 /\ (x.ruin => x.funds = 0)
    BY <1>3, <1>7, <1>9 DEF Side
  <2> QED
    BY <1>4, <1>9, <2>1 DEF Accounts, Standing
<1> QED
  BY <1>4, <1>9, <1>10, <1>11, <1>12 DEF Standing, Asked, x

(* An entry of the side asked for keeps the books in order.                *)
LEMMA EntryKeeps ==
  ASSUME cfg \in Setting, NEW v, NEW e, Standing(v, e), ~v.pos.has, ~v.ruin,
         NEW raw \in Price, NEW side \in {-1, 1}, side = e
  PROVE  /\ Standing(TryEnter(v, raw, side), e)
         /\ TryEnter(v, raw, side).pending = v.pending
         /\ TryEnter(v, raw, side).i = v.i
         /\ TryEnter(v, raw, side).pos.has => TryEnter(v, raw, side).pos.ei = v.i
<1>1. v \in Book /\ v.i \in Nat
  BY WalkAssumption DEF Standing, Book
<1>2. CASE v.funds <= 0
  <2> DEFINE x == [v EXCEPT !.ruin = TRUE]
  <2>1. TryEnter(v, raw, side) = x
    BY <1>2 DEF TryEnter
  <2>2. x \in Book /\ x.i = v.i /\ x.pos = v.pos /\ x.pending = v.pending /\ x.funds = v.funds
        /\ x.closed = v.closed
    BY <1>1 DEF Book
  <2> HIDE DEF x
  <2>3. Accounts(x)
    BY <1>1, <1>2, <2>2 DEF Accounts, Standing, Book, Side
  <2> QED
    BY <2>1, <2>2, <2>3 DEF Standing, Closings
<1>3. CASE ~(v.funds <= 0)
  <2> DEFINE px == Slipped(raw, side)
             p == [has |-> TRUE, side |-> side, ei |-> v.i, px |-> px,
                   stop |-> Level(cfg.stop, px, v.i, -side),
                   target |-> Level(cfg.target, px, v.i, side)]
             x == [v EXCEPT !.pos = p]
  <2>1. TryEnter(v, raw, side) = x
    BY <1>3 DEF TryEnter, Enter
  <2>2. px \in Nat \ {0} /\ px % 4 = 0
    BY SlippedMeans, WalkAssumption
  <2> HIDE DEF px
  <2>3. \A kind : Level(kind, px, v.i, side) \in Int /\ Level(kind, px, v.i, -side) \in Int
    BY <2>2, WalkAssumption DEF Level, Far
  <2> DEFINE stop == Level(cfg.stop, px, v.i, -side)
             target == Level(cfg.target, px, v.i, side)
  <2>7. stop \in Int /\ target \in Int
    BY <2>3
  <2> HIDE DEF stop, target
  <2>4. p \in Position /\ Priced(p) /\ p.has /\ p.side = e /\ p.ei = v.i
    BY <1>1, <2>2, <2>7 DEF Position, Priced, Side, stop, target
  <2> HIDE DEF p
  <2>5. x \in Book /\ x.i = v.i /\ x.pos = p /\ x.pending = v.pending /\ x.funds = v.funds
        /\ x.closed = v.closed /\ x.ruin = v.ruin
    BY <1>1, <2>4 DEF Book
  <2> HIDE DEF x
  <2>6. Accounts(x)
    BY <2>4, <2>5 DEF Accounts, Standing
  <2> QED
    BY <1>1, <2>1, <2>4, <2>5, <2>6 DEF Standing, Closings, Asked
<1> QED
  BY <1>2, <1>3

-----------------------------------------------------------------------------
(* The stages of a bar.                                                    *)

LEMMA FillPendingKeeps ==
  ASSUME cfg \in Setting, NEW v, NEW e, Standing(v, e), NEW b \in Bar,
         v.pending.side # 0 => v.pending.side = e
  PROVE  /\ Standing(FillPending(v, b), e)
         /\ FillPending(v, b).i = v.i
         /\ FillPending(v, b).pending = NoOrder
<1> DEFINE out == IF v.pending.exit /\ v.pos.has THEN Push(v, b.o, "signal", b) ELSE v
           in == IF v.pending.side # 0 /\ ~out.pos.has /\ ~out.ruin
                   THEN TryEnter(out, b.o, v.pending.side) ELSE out
           end == [in EXCEPT !.pending = NoOrder]
<1>1. Standing(out, e) /\ out.i = v.i /\ out.pending = v.pending
  <2>1. CASE v.pending.exit /\ v.pos.has
    <3>1. v.pos.side \in {-1, 1}
      BY <2>1 DEF Standing, Book, Position, Side
    <3>2. b.o \in Int
          /\ Fair(TradeOf(v, b.o, "signal", b))
          /\ ClearOfStop(TradeOf(v, b.o, "signal", b))
      BY <3>1, BarMeans DEF Fair, ClearOfStop, Extreme, TradeOf
    <3>3. out = Push(v, b.o, "signal", b) /\ v.pos.has
      BY <2>1
    <3> HIDE DEF out
    <3> QED
      BY <3>2, <3>3, PushKeeps DEF Reasons
  <2>2. CASE ~(v.pending.exit /\ v.pos.has)
    BY <2>2
  <2> QED
    BY <2>1, <2>2
<1>2. v.pending.side \in Side /\ b.o \in Price
  BY BarMeans DEF Standing, Book, Order
<1> HIDE DEF out
<1>3. Standing(in, e) /\ in.i = v.i
  BY <1>1, <1>2, EntryKeeps DEF Side
<1> HIDE DEF in
<1>4. end \in Book /\ end.i = in.i /\ end.pos = in.pos /\ end.funds = in.funds
      /\ end.ruin = in.ruin /\ end.closed = in.closed /\ end.pending = NoOrder
  BY <1>3 DEF Standing, Book, NoOrder, Order, Side
<1>5. FillPending(v, b) = end
  BY DEF FillPending, end, in, out
<1> HIDE DEF end
<1>6. Standing(end, e)
  BY <1>3, <1>4 DEF Standing, Accounts, Closings
<1> QED
  BY <1>3, <1>4, <1>5, <1>6

(* Stop and target: whichever is taken, its price is one the bar traded    *)
(* at, and a target is not taken on a bar that reached the stop.           *)
LEMMA ProtectKeeps ==
  ASSUME cfg \in Setting, NEW v, NEW e, Standing(v, e), NEW b \in Bar
  PROVE  /\ Standing(Protect(v, b), e)
         /\ Protect(v, b).i = v.i
         /\ Protect(v, b).pending = v.pending
<1> DEFINE gapped == Past(b.o, v.pos.stop, -v.pos.side)
           raw == IF gapped /\ cfg.stop_gap THEN b.o ELSE v.pos.stop
           hit == StopHit(v, b)
           reached == cfg.target # "none" /\ Past(Extreme(b, v.pos.side), v.pos.target, v.pos.side)
<1>1. CASE ~Exposed(v)
  <2>1. Protect(v, b) = v
    BY <1>1 DEF Protect
  <2> QED
    BY <2>1
<1>2. Exposed(v) => v.pos.has /\ v.pos.side \in {-1, 1} /\ v.pos.stop \in Int /\ v.pos.target \in Int
  BY DEF Exposed, Standing, Book, Position, Side
<1>3. CASE Exposed(v) /\ hit
  <2>1. Protect(v, b) = Push(v, raw, "stop", b)
    BY <1>3 DEF Protect
  <2>2. raw \in Int
    BY <1>2, <1>3, BarMeans
  <2>3. Fair(TradeOf(v, raw, "stop", b))
    BY <1>2, <1>3, BarMeans DEF Fair, Extreme, StopHit, Past, TradeOf
  <2>4. ClearOfStop(TradeOf(v, raw, "stop", b))
    BY DEF ClearOfStop, TradeOf
  <2> HIDE DEF raw
  <2>5. v.pos.has
    BY <1>2, <1>3
  <2> QED
    BY <2>1, <2>2, <2>3, <2>4, <2>5, PushKeeps DEF Reasons
<1>4. CASE Exposed(v) /\ ~hit /\ reached
  <2>1. Protect(v, b) = Push(v, v.pos.target, "take_profit", b)
    BY <1>4 DEF Protect
  <2>2. Fair(TradeOf(v, v.pos.target, "take_profit", b))
    BY <1>2, <1>4, BarMeans DEF Fair, Extreme, Past, TradeOf
  <2>3. ClearOfStop(TradeOf(v, v.pos.target, "take_profit", b))
    BY <1>4 DEF ClearOfStop, StopHit, TradeOf
  <2>4. v.pos.has /\ v.pos.target \in Int
    BY <1>2, <1>4
  <2> QED
    BY <2>1, <2>2, <2>3, <2>4, PushKeeps DEF Reasons
<1>5. CASE Exposed(v) /\ ~hit /\ ~reached
  <2>1. Protect(v, b) = v
    BY <1>5 DEF Protect
  <2> QED
    BY <2>1
<1> QED
  BY <1>1, <1>3, <1>4, <1>5

(* Liquidation: the account is left empty, and a position that is not      *)
(* closed would have survived the worst price of the bar.                  *)
LEMMA LiquidateKeeps ==
  ASSUME cfg \in Setting, NEW v, NEW e, Standing(v, e), NEW b \in Bar
  PROVE  /\ Standing(Liquidate(v, b), e)
         /\ Survived(Liquidate(v, b), b)
         /\ Liquidate(v, b).i = v.i
         /\ Liquidate(v, b).pending = v.pending
<1> DEFINE p == v.pos
           wipe == WipeOut(p)
           px == IF Past(b.o, wipe, -p.side) THEN b.o ELSE wipe
           worst == Worth(p.px, Extreme(b, -p.side), p.side)
           x == Push(v, px, "liquidated", b)
           y == [x EXCEPT !.ruin = TRUE]
<1>1. p \in Position /\ v.i \in Nat /\ p.ei \in Nat /\ p.px \in Int /\ p.side \in Side
      /\ (p.has => p.side \in {-1, 1})
  BY WalkAssumption DEF Standing, Book, Position, Side
<1>2. worst \in Int
  <2>1. Extreme(b, -p.side) \in Int
    BY BarMeans DEF Extreme
  <2> QED
    BY <1>1, <2>1, WorthMeans
<1>3. Liquidate(v, b) = IF cfg.liquidate /\ Exposed(v) /\ worst <= 0 THEN y ELSE v
  BY DEF Liquidate
<1>4. CASE cfg.liquidate /\ Exposed(v) /\ worst <= 0
  <2>1. p.has /\ Priced(p) /\ p.side \in {-1, 1} /\ -p.side \in {-1, 1}
    BY <1>1, <1>4 DEF Exposed, Standing, Accounts
  <2>2. wipe \in Nat /\ Worth(p.px, wipe, p.side) = 0
    BY <1>1, <2>1, WipeOutMeans
  <2> HIDE DEF wipe
  <2>3. px \in Nat /\ (wipe - px) * p.side >= 0
    BY <2>1, <2>2, BarMeans DEF Past
  <2>4. Fair(TradeOf(v, px, "liquidated", b)) /\ ClearOfStop(TradeOf(v, px, "liquidated", b))
    BY <2>1, <2>2, BarMeans DEF Fair, ClearOfStop, TradeOf, Extreme, Past
  <2> HIDE DEF px, x, p
  <2>5. Standing(x, e) /\ x.pos = Flat /\ x.pending = v.pending /\ x.i = v.i
    BY <2>1, <2>3, <2>4, PushKeeps DEF Reasons, x, p
  <2> DEFINE out == Slipped(px, -p.side)
             left == Worth(p.px, out, p.side)
  <2>6. left \in Int /\ left <= 0
    <3>1. out \in Int /\ (out - px) * (-p.side) >= 0
      BY <2>1, <2>3, SlippedMeans
    <3> HIDE DEF out
    <3>2. (px - out) * p.side >= 0
      BY <2>1, <2>3, <3>1
    <3>3. Worth(p.px, px, p.side) >= left
      BY <1>1, <2>1, <2>3, <3>1, <3>2, WorthGrows
    <3>4. 0 >= Worth(p.px, px, p.side)
      BY <1>1, <2>1, <2>2, <2>3, WorthGrows
    <3>5. left \in Int /\ Worth(p.px, px, p.side) \in Int
      BY <1>1, <2>3, <3>1, WorthMeans
    <3> QED
      BY <3>3, <3>4, <3>5
  <2>7. Settled(v, px) = 0
    <3> HIDE DEF left
    <3>1. Sign(left) \in Side /\ ~(Sign(left) > 0)
      BY <2>6, SignMeans
    <3> QED
      BY <1>4, <3>1 DEF Settled, left, p, Side
  <2>8. x.funds = 0
    BY <2>5, <2>7 DEF x, Push, Standing, Book
  <2>9. y \in Book /\ y.i = x.i /\ y.pos = x.pos /\ y.pending = x.pending /\ y.funds = x.funds
        /\ y.closed = x.closed
    BY <2>5 DEF Standing, Book
  <2> HIDE DEF y
  <2>10. Accounts(y)
    BY <2>5, <2>8, <2>9, FlatMeans DEF Accounts, Standing
  <2>11. Standing(y, e) /\ Survived(y, b)
    BY <2>5, <2>9, <2>10, FlatMeans DEF Standing, Closings, Survived, Asked
  <2> QED
    BY <1>3, <1>4, <2>5, <2>9, <2>11
<1>5. CASE ~(cfg.liquidate /\ Exposed(v) /\ worst <= 0)
  <2>1. Liquidate(v, b) = v
    BY <1>3, <1>5
  <2>2. Survived(v, b)
    <3> SUFFICES ASSUME cfg.liquidate, v.pos.has, v.pos.ei < v.i PROVE worst > 0
      BY DEF Survived
    <3>1. Exposed(v)
      BY DEF Exposed, Standing, Accounts
    <3> QED
      BY <1>2, <1>5, <3>1
  <2> QED
    BY <2>1, <2>2
<1> QED
  BY <1>4, <1>5

(* Time and signal exits: nothing is held on past max_bars.                *)
LEMMA ExitsKeep ==
  ASSUME cfg \in Setting, NEW v, NEW e, Standing(v, e), NEW b \in Bar, NEW f, Survived(v, b),
         v.pending = NoOrder
  PROVE  /\ Standing(Exits(v, b, f), e)
         /\ Survived(Exits(v, b, f), b)
         /\ InTime(Exits(v, b, f))
         /\ Exits(v, b, f).i = v.i
         /\ Exits(v, b, f).pending.side = 0
<1> DEFINE x == Exits(v, b, f)
           signal == (IF v.pos.side > 0 THEN "xl" ELSE "xs") \in f
           reason == IF Timed(v) THEN "time" ELSE "signal"
           order == [on |-> TRUE, exit |-> TRUE, side |-> 0]
<1>1. v.pos \in Position /\ v.i \in Nat /\ v.pos.ei \in Nat /\ cfg.max_bars \in Int
      /\ (v.pos.has => v.pos.side \in {-1, 1})
  BY WalkAssumption, SettingMeans DEF Standing, Book, Position, Side
<1>2. NoOrder.side = 0
  BY DEF NoOrder
<1>3. CASE v.ruin \/ ~v.pos.has \/ ~(Timed(v) \/ signal)
  <2>1. x = v
    BY <1>3 DEF Exits
  <2>2. InTime(v)
    BY <1>1, <1>3 DEF InTime, Timed, Standing, Accounts
  <2> QED
    BY <1>2, <2>1, <2>2
<1>4. CASE ~(v.ruin \/ ~v.pos.has \/ ~(Timed(v) \/ signal)) /\ (~cfg.fill_open \/ Timed(v))
  <2>1. x = Push(v, b.c, reason, b)
    BY <1>4 DEF Exits
  <2>2. v.pos.has /\ b.c \in Int /\ reason \in Reasons
    BY <1>4, BarMeans DEF Reasons
  <2>3. Fair(TradeOf(v, b.c, reason, b)) /\ ClearOfStop(TradeOf(v, b.c, reason, b))
    BY <1>1, <2>2, BarMeans DEF Fair, ClearOfStop, TradeOf, Extreme
  <2> HIDE DEF x, reason
  <2>4. Standing(x, e) /\ x.pos = Flat /\ x.pending = v.pending /\ x.i = v.i
    BY <2>1, <2>2, <2>3, PushKeeps
  <2> QED
    BY <1>2, <2>4, FlatMeans DEF Survived, InTime, x
<1>5. CASE ~(v.ruin \/ ~v.pos.has \/ ~(Timed(v) \/ signal)) /\ ~(~cfg.fill_open \/ Timed(v))
  <2>1. x = [v EXCEPT !.pending = order]
    BY <1>5 DEF Exits
  <2>2. order \in Order /\ order.side = 0
    BY DEF Order, Side
  <2> HIDE DEF order, x
  <2>3. x \in Book /\ x.i = v.i /\ x.pos = v.pos /\ x.pending = order /\ x.funds = v.funds
        /\ x.closed = v.closed /\ x.ruin = v.ruin
    BY <2>1, <2>2 DEF Standing, Book
  <2>4. Standing(x, e) /\ Survived(x, b)
    BY <1>5, <2>3 DEF Standing, Accounts, Closings, Survived
  <2>5. InTime(x)
    BY <1>1, <1>5, <2>3 DEF InTime, Timed
  <2> QED
    BY <2>2, <2>3, <2>4, <2>5 DEF x
<1> QED
  BY <1>3, <1>4, <1>5

LEMMA WantedMeans == ASSUME NEW f PROVE Wanted(f) \in Side
  BY DEF Wanted, Side

(* An entry, or the order for one, is on the side this bar signals.        *)
LEMMA EntriesKeep ==
  ASSUME cfg \in Setting, NEW v, NEW e, Standing(v, e), NEW b \in Bar, NEW f, Survived(v, b),
         InTime(v), v.pending.side = 0, ~cfg.fill_open => e = Wanted(f)
  PROVE  /\ Standing(Entries(v, b, f), e)
         /\ Survived(Entries(v, b, f), b)
         /\ InTime(Entries(v, b, f))
         /\ Entries(v, b, f).i = v.i
         /\ Entries(v, b, f).pending.side # 0 => Entries(v, b, f).pending.side = Wanted(f)
<1> DEFINE x == Entries(v, b, f)
           flat == ~v.pos.has \/ (v.pending.on /\ v.pending.exit)
           side == Wanted(f)
           skip == v.ruin \/ ~flat \/ side = 0 \/ (cfg.close_open /\ v.i = LastBar)
<1>1. v.i \in Nat /\ cfg.max_bars \in Int /\ side \in Side /\ v.pending \in Order /\ b.c \in Price
  BY WalkAssumption, SettingMeans, BarMeans, WantedMeans DEF Standing, Book
<1>2. CASE skip \/ (cfg.fill_open /\ ~(v.i < LastBar))
  <2>1. x = v
    BY <1>2 DEF Entries
  <2> QED
    BY <2>1
<1>3. CASE ~skip /\ ~cfg.fill_open
  <2>1. x = TryEnter(v, b.c, side)
    BY <1>3 DEF Entries
  <2>2. v.pending = NoOrder /\ ~v.pending.on
    BY <1>3 DEF Standing, Accounts, NoOrder
  <2>3. ~v.pos.has /\ ~v.ruin /\ side \in {-1, 1} /\ side = e
    BY <1>1, <1>3, <2>2 DEF Side
  <2> HIDE DEF x, side
  <2>4. Standing(x, e) /\ x.pending = v.pending /\ x.i = v.i /\ (x.pos.has => x.pos.ei = v.i)
    BY <1>1, <2>1, <2>3, EntryKeeps
  <2>5. Survived(x, b) /\ InTime(x)
    BY <1>1, <2>4 DEF Survived, InTime
  <2> QED
    BY <2>4, <2>5 DEF x
<1>4. CASE ~skip /\ cfg.fill_open /\ v.i < LastBar
  <2> DEFINE order == [v.pending EXCEPT !.on = TRUE, !.side = side]
  <2>1. x = [v EXCEPT !.pending = order]
    <3>1. x = [v EXCEPT !.pending.on = TRUE, !.pending.side = side]
      BY <1>4 DEF Entries
    <3> QED
      BY <1>1, <3>1 DEF Standing, Book, Order
  <2>2. order \in Order /\ order.side = side
    BY <1>1 DEF Order
  <2> HIDE DEF order, x, side
  <2>3. x \in Book /\ x.i = v.i /\ x.pos = v.pos /\ x.pending = order /\ x.funds = v.funds
        /\ x.closed = v.closed /\ x.ruin = v.ruin
    BY <2>1, <2>2 DEF Standing, Book
  <2>4. Standing(x, e) /\ Survived(x, b) /\ InTime(x)
    BY <1>4, <2>3 DEF Standing, Accounts, Closings, Survived, InTime
  <2> QED
    BY <2>2, <2>3, <2>4 DEF x, side
<1> QED
  BY <1>2, <1>3, <1>4

(* The close at the end of the window.                                     *)
LEMMA CloseOpenKeeps ==
  ASSUME cfg \in Setting, NEW v, NEW e, Standing(v, e), NEW b \in Bar, Survived(v, b), InTime(v)
  PROVE  /\ Standing(CloseOpen(v, b), e)
         /\ Survived(CloseOpen(v, b), b)
         /\ InTime(CloseOpen(v, b))
         /\ CloseOpen(v, b).i = v.i
         /\ CloseOpen(v, b).pending = v.pending
<1> DEFINE x == Push(v, b.c, "end", b)
           y == [x EXCEPT !.ruin = FALSE]
<1>1. CASE v.i = LastBar /\ ~v.ruin /\ v.pos.has /\ cfg.close_open
  <2>1. v.pos.side \in {-1, 1} /\ b.c \in Int
    BY <1>1, BarMeans DEF Standing, Book, Position, Side
  <2>2. Fair(TradeOf(v, b.c, "end", b)) /\ ClearOfStop(TradeOf(v, b.c, "end", b))
    BY <2>1, BarMeans DEF Fair, ClearOfStop, TradeOf, Extreme
  <2> HIDE DEF x
  <2>3. Standing(x, e) /\ x.pos = Flat /\ x.pending = v.pending /\ x.i = v.i
    BY <1>1, <2>1, <2>2, PushKeeps DEF Reasons, x
  <2>4. y \in Book /\ y.i = x.i /\ y.pos = x.pos /\ y.pending = x.pending /\ y.funds = x.funds
        /\ y.closed = x.closed /\ ~y.ruin
    BY <2>3 DEF Standing, Book
  <2>5. CloseOpen(v, b) = y
    BY <1>1 DEF CloseOpen, x
  <2> HIDE DEF y
  <2>6. Standing(y, e) /\ Survived(y, b) /\ InTime(y)
    BY <2>3, <2>4, FlatMeans DEF Standing, Accounts, Closings, Asked, Survived, InTime
  <2> QED
    BY <2>3, <2>4, <2>5, <2>6
<1>2. CASE ~(v.i = LastBar /\ ~v.ruin /\ v.pos.has /\ cfg.close_open)
  <2>1. CloseOpen(v, b) = v
    BY <1>2 DEF CloseOpen
  <2> QED
    BY <2>1
<1> QED
  BY <1>1, <1>2

-----------------------------------------------------------------------------
(* A bar, and the walk.                                                    *)

\* The side on which entries on the bar to come are.
SideNow(f) == IF cfg.fill_open THEN w.seen ELSE Wanted(f)

LEMMA MarkMeans ==
  ASSUME cfg \in Setting, NEW v \in Book, NEW px \in Int
  PROVE  Mark(v, px) \in Side
<1>1. v.pos \in Position /\ v.pos.px \in Int /\ v.pos.side \in Side /\ v.funds \in Side
  BY DEF Book, Position
<1>2. Worth(v.pos.px, px, v.pos.side) \in Int
  BY <1>1, WorthMeans
<1> QED
  BY <1>1, <1>2, SignMeans DEF Mark

(* What one bar does, in one piece.                                        *)
LEMMA WalkMeans ==
  ASSUME WalkInv, w.i <= LastBar, NEW b \in Bar, NEW f
  PROVE  \E end \in Book :
           /\ Standing(end, SideNow(f)) /\ Survived(end, b) /\ InTime(end)
           /\ end.i = w.i
           /\ end.pending.side # 0 => end.pending.side = Wanted(f)
           /\ Walk(b, f) = [end EXCEPT !.mark = Mark(end, b.c),
                                       !.low = Mark(end, Extreme(b, -end.pos.side)),
                                       !.i = @ + 1, !.seen = Wanted(f)]
<1> DEFINE e == SideNow(f)
           v0 == [w EXCEPT !.closed = <<>>]
           v1 == FillPending(v0, b)
           v2 == Protect(v1, b)
           v3 == Liquidate(v2, b)
           v4 == Exits(v3, b, f)
           v5 == Entries(v4, b, f)
           v6 == CloseOpen(v5, b)
<1>1. cfg \in Setting /\ w \in Book
  BY DEF WalkInv
<1>2. /\ v0 \in Book /\ v0.i = w.i /\ v0.pos = w.pos /\ v0.pending = w.pending
      /\ v0.funds = w.funds /\ v0.ruin = w.ruin /\ v0.closed = <<>>
  <2> DEFINE none == <<>>
  <2>1. none \in Seq(Trade)
    OBVIOUS
  <2> HIDE DEF none
  <2>2. v0 = [w EXCEPT !.closed = none]
    BY DEF none
  <2> HIDE DEF v0
  <2>3. /\ v0 \in Book /\ v0.i = w.i /\ v0.pos = w.pos /\ v0.pending = w.pending
        /\ v0.funds = w.funds /\ v0.ruin = w.ruin /\ v0.closed = none
    BY <1>1, <2>1, <2>2 DEF Book
  <2> QED
    BY <2>3 DEF none
<1>3. w.pos.ei \in Nat /\ w.i \in Nat
  BY <1>1, WalkAssumption DEF Book, Position
<1>4. w.pending.side # 0 => w.pending.side = e
  BY DEF WalkInv, Accounts, NoOrder, SideNow
<1>5. ~cfg.fill_open => e = Wanted(f)
  BY DEF SideNow
<1>6. Walk(b, f) = [v6 EXCEPT !.mark = Mark(v6, b.c), !.low = Mark(v6, Extreme(b, -v6.pos.side)),
                             !.i = @ + 1, !.seen = Wanted(f)]
  BY DEF Walk
<1> HIDE DEF e, v0, v1, v2, v3, v4, v5, v6
<1>7. Standing(v0, e)
  BY <1>2, <1>3 DEF WalkInv, Standing, Accounts, Asked, Closings
<1>8. Standing(v1, e) /\ v1.i = w.i /\ v1.pending = NoOrder
  BY <1>1, <1>2, <1>4, <1>7, FillPendingKeeps DEF v1
<1>9. Standing(v2, e) /\ v2.i = w.i /\ v2.pending = NoOrder
  BY <1>1, <1>8, ProtectKeeps DEF v2
<1>10. Standing(v3, e) /\ Survived(v3, b) /\ v3.i = w.i /\ v3.pending = NoOrder
  BY <1>1, <1>9, LiquidateKeeps DEF v3
<1>11. Standing(v4, e) /\ Survived(v4, b) /\ InTime(v4) /\ v4.i = w.i /\ v4.pending.side = 0
  BY <1>1, <1>10, ExitsKeep DEF v4
<1>12. Standing(v5, e) /\ Survived(v5, b) /\ InTime(v5) /\ v5.i = w.i
       /\ (v5.pending.side # 0 => v5.pending.side = Wanted(f))
  BY <1>1, <1>5, <1>11, EntriesKeep DEF v5
<1>13. Standing(v6, e) /\ Survived(v6, b) /\ InTime(v6) /\ v6.i = w.i
       /\ (v6.pending.side # 0 => v6.pending.side = Wanted(f))
  BY <1>1, <1>12, CloseOpenKeeps DEF v6
<1>14. v6 \in Book
  BY <1>13 DEF Standing
<1> QED
  BY <1>6, <1>13, <1>14 DEF e

\* The properties of the trades and of the account, for the bar just walked.
BarInv ==
  WalkInv /\ NoBetterThanTraded /\ StopBeforeTarget /\ HeldWithinMaxBars /\ SolventOnceExposed

OnSignal == \A p \in Entered' : p.side = IF cfg.fill_open THEN w.seen ELSE w'.seen

LEMMA StepKeeps == ASSUME WalkInv, Step PROVE BarInv' /\ OnSignal
<1>1. PICK b \in Bar, f \in Flags : w' = Walk(b, f)
  BY DEF Step
<1>2. cfg' = cfg /\ w.i <= LastBar
  BY DEF Step
<1> DEFINE e == SideNow(f)
<1>3. PICK v \in Book :
        /\ Standing(v, e) /\ Survived(v, b) /\ InTime(v)
        /\ v.i = w.i
        /\ v.pending.side # 0 => v.pending.side = Wanted(f)
        /\ Walk(b, f) = [v EXCEPT !.mark = Mark(v, b.c), !.low = Mark(v, Extreme(b, -v.pos.side)),
                                  !.i = @ + 1, !.seen = Wanted(f)]
  BY <1>2, WalkMeans
<1>4. cfg \in Setting /\ w \in Book
  BY DEF WalkInv
<1> DEFINE mark == Mark(v, b.c)
           low == Mark(v, Extreme(b, -v.pos.side))
           seen == Wanted(f)
<1>5. mark \in Side /\ low \in Side /\ seen \in Side
  <2>1. b.c \in Int /\ Extreme(b, -v.pos.side) \in Int
    BY BarMeans DEF Extreme
  <2> QED
    BY <1>4, <2>1, MarkMeans, WantedMeans
<1>6. w' = [v EXCEPT !.mark = mark, !.low = low, !.i = @ + 1, !.seen = seen]
  BY <1>1, <1>3
<1> HIDE DEF mark, low, seen, e
<1>7. /\ w'.i = w.i + 1 /\ w'.pos = v.pos /\ w'.pending = v.pending /\ w'.funds = v.funds
      /\ w'.ruin = v.ruin /\ w'.closed = v.closed /\ w'.mark = mark /\ w'.low = low /\ w'.seen = seen
  BY <1>3, <1>6 DEF Book
<1>8. w.i \in Nat /\ v.pos.ei \in Nat /\ v.pos \in Position /\ w.i \in 0..LastBar /\ LastBar \in Nat
  BY <1>2, <1>4, WalkAssumption DEF Book, Position
<1>9. w' \in Book
  <2>1. w.i + 1 \in 0..(LastBar + 1)
    BY <1>8
  <2>2. w' = [v EXCEPT !.mark = mark, !.low = low, !.i = w.i + 1, !.seen = seen]
    BY <1>3, <1>6 DEF Book
  <2> QED
    BY <1>5, <2>1, <2>2 DEF Book
<1>10. WalkInv'
  <2>1. Accounts(w)'
    BY <1>2, <1>3, <1>7 DEF Accounts, Standing, Priced
  <2>2. (w.pos.has => w.pos.ei < w.i)'
    BY <1>3, <1>7, <1>8 DEF Standing
  <2>3. (w.pending.side # 0 => w.pending.side = w.seen)'
    BY <1>3, <1>7 DEF seen
  <2> QED
    BY <1>2, <1>4, <1>9, <2>1, <2>2, <2>3 DEF WalkInv
<1>11. \A t \in Closed' : Rightly(t, w.i, e)
  BY <1>3, <1>7 DEF Closed, Standing, Closings
<1>12. NoBetterThanTraded' /\ StopBeforeTarget'
  BY <1>2, <1>11 DEF NoBetterThanTraded, StopBeforeTarget, Rightly, Fair, ClearOfStop
<1>13. HeldWithinMaxBars'
  BY <1>2, <1>3, <1>7, <1>8 DEF HeldWithinMaxBars, InTime
<1>14. OnSignal
  <2>1. w'.i - 1 = w.i
    BY <1>7, <1>8
  <2>2. \A p \in Entered' : Asked(p, w.i, e) /\ p.has /\ p.ei = w.i
    BY <1>3, <1>7, <1>11, <2>1 DEF Entered, Standing, Rightly
  <2>3. e = IF cfg.fill_open THEN w.seen ELSE w'.seen
    BY <1>7 DEF e, SideNow, seen
  <2> QED
    BY <2>2, <2>3 DEF OnSignal, Asked
<1>15. SolventOnceExposed'
  <2>1. ASSUME cfg.liquidate, v.pos.has, v.pos.ei < w.i PROVE low > 0 /\ mark > 0
    <3> DEFINE p == v.pos
               worst == Extreme(b, -p.side)
    <3>1. p.side \in {-1, 1} /\ p.px \in Int /\ ~v.ruin
      BY <1>3, <1>8, <2>1 DEF Position, Side, Standing, Accounts
    <3>2. worst \in Int /\ b.c \in Int /\ (b.c - worst) * p.side >= 0
      BY <3>1, BarMeans DEF Extreme
    <3>3. Worth(p.px, worst, p.side) > 0
      BY <1>3, <2>1 DEF Survived
    <3> HIDE DEF worst, p
    <3>4. Worth(p.px, b.c, p.side) >= Worth(p.px, worst, p.side)
      BY <1>4, <3>1, <3>2, WorthGrows
    <3>5. Worth(p.px, b.c, p.side) \in Int /\ Worth(p.px, worst, p.side) \in Int
      BY <1>4, <3>1, <3>2, WorthMeans DEF Side
    <3>6. Sign(Worth(p.px, b.c, p.side)) > 0 /\ Sign(Worth(p.px, worst, p.side)) > 0
      BY <3>3, <3>4, <3>5, SignMeans
    <3>7. low = Sign(Worth(p.px, worst, p.side)) /\ mark = Sign(Worth(p.px, b.c, p.side))
      BY <2>1, <3>1 DEF low, mark, Mark, p, worst
    <3> QED
      BY <3>6, <3>7
  <2>2. cfg.liquidate /\ v.ruin => v.funds = 0 /\ ~v.pos.has
    BY <1>3 DEF Standing, Accounts
  <2> QED
    BY <1>2, <1>7, <1>8, <2>1, <2>2 DEF SolventOnceExposed
<1> QED
  BY <1>10, <1>12, <1>13, <1>14, <1>15 DEF BarInv

LEMMA BarInit == Init => BarInv
<1> SUFFICES ASSUME Init PROVE BarInv
  OBVIOUS
<1>1. w = Start /\ cfg \in Setting
  BY DEF Init
<1>2. Start \in Book
  <2>1. NoOrder \in Order /\ Flat \in Position /\ <<>> \in Seq(Trade) /\ 0 \in 0..(LastBar + 1)
    BY FlatMeans, WalkAssumption DEF NoOrder, Order, Side
  <2> QED
    BY <2>1 DEF Start, Book, Side
<1>3. /\ w.pos = Flat /\ w.pending = NoOrder /\ w.funds = 1 /\ w.ruin = FALSE /\ w.closed = <<>>
      /\ NoOrder.side = 0
  BY <1>1 DEF Start, NoOrder
<1>4. WalkInv
  BY <1>1, <1>2, <1>3, FlatMeans DEF WalkInv, Accounts
<1>5. Closed = {}
  BY <1>3 DEF Closed
<1> QED
  BY <1>3, <1>4, <1>5, FlatMeans
     DEF BarInv, NoBetterThanTraded, StopBeforeTarget, HeldWithinMaxBars, SolventOnceExposed

LEMMA BarStep == BarInv /\ [Next]_vars => BarInv'
<1> SUFFICES ASSUME BarInv, [Next]_vars PROVE BarInv'
  OBVIOUS
<1>1. CASE Step
  BY <1>1, StepKeeps DEF BarInv
<1>2. CASE UNCHANGED vars
  BY <1>2 DEF vars, BarInv, WalkInv, Accounts, Closed, Priced,
     NoBetterThanTraded, StopBeforeTarget, HeldWithinMaxBars, SolventOnceExposed
<1> QED
  BY <1>1, <1>2 DEF Next, Done

LEMMA BarHolds == Spec => []BarInv
<1> QED
  BY BarInit, BarStep, PTL DEF Spec

(* The walk's variables keep their types on every bar.                     *)
THEOREM FillsTyped == Spec => []TypeOK
<1>1. BarInv => TypeOK
  BY DEF BarInv, WalkInv, TypeOK, Book, Position, Order, Side
<1> QED
  BY <1>1, BarHolds, PTL

(* Whatever the prices, the gaps, the leverage and the slippage, no exit   *)
(* is better than the best price of its bar; exact stop fills excepted.    *)
THEOREM ExitsTraded == Spec => []NoBetterThanTraded
<1>1. BarInv => NoBetterThanTraded
  BY DEF BarInv
<1> QED
  BY <1>1, BarHolds, PTL

(* A target is taken only on a bar whose range stayed clear of the stop.   *)
THEOREM StopFirst == Spec => []StopBeforeTarget
<1>1. BarInv => StopBeforeTarget
  BY DEF BarInv
<1> QED
  BY <1>1, BarHolds, PTL

(* No position is held past max_bars, whichever exit came in the way.      *)
THEOREM HeldInTime == Spec => []HeldWithinMaxBars
<1>1. BarInv => HeldWithinMaxBars
  BY DEF BarInv
<1> QED
  BY <1>1, BarHolds, PTL

(* A position a liquidated account still holds survived the worst price of *)
(* the bar; if it did not, the run ended with the account empty and flat.  *)
THEOREM SolventHeld == Spec => []SolventOnceExposed
<1>1. BarInv => SolventOnceExposed
  BY DEF BarInv
<1> QED
  BY <1>1, BarHolds, PTL

(* Every position opened is on the side signalled on its own bar, or, with *)
(* fills at the open, on the bar before.                                   *)
THEOREM EntriesAsSignalled == Spec => EntersOnSignal
<1>1. BarInv /\ [Next]_vars => [OnSignal]_vars
  BY StepKeeps DEF BarInv, Next, Done
<1>2. Spec => [][OnSignal]_vars
  BY <1>1, BarHolds, PTL DEF Spec
<1> QED
  BY <1>2 DEF EntersOnSignal, OnSignal
=============================================================================
