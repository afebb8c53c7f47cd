------------------------------- MODULE Fills --------------------------------
(* The walk that turns signals into trades (engine/fills.py), one bar a      *)
(* step.  A bar is four prices, a signal bar the set of its raised flags,    *)
(* both chosen as the walk reaches them.  Prices are small integers; a       *)
(* percentage stop or target lies half the entry price away.  What an        *)
(* account is worth matters only by its sign, and the worth of a position    *)
(* relative to the equity it was entered with needs no equity at all: see    *)
(* Worth.  Slippage moves a fill by half its price; commission, which only   *)
(* lowers the worth, is left out.                                            *)
EXTENDS Integers, Sequences

CONSTANTS
  LastBar,    \* i1; the walk starts at i0 = 0
  Price,      \* prices a bar may show, multiples of 8
  AtrDist,    \* a stop's distance in ATR, once the ATR exists
  AtrFrom,    \* the first bar that has an ATR
  Flags,      \* the sets of entry and exit flags a bar may raise
  Setting     \* fill, stop_fill, ..., as simulate's caller gives them

ASSUME WalkAssumption ==
  /\ LastBar \in Nat /\ AtrDist \in Nat /\ AtrFrom \in Nat
  /\ \A x \in Price : x \in Nat \ {0} /\ x % 8 = 0
  /\ \A s \in Setting :
       s \in [fill_open: BOOLEAN, close_open: BOOLEAN, slip: {0, 1}, stop_gap: BOOLEAN,
             liquidate: BOOLEAN, max_bars: Int, stop: {"none", "pct", "atr"},
             target: {"none", "pct", "atr"}, frac: {1, 2}]

VARIABLES
  cfg,        \* the arguments that do not change, a member of Setting
  w           \* the walk: see Start

vars == <<cfg, w>>

Bar == {b \in [o: Price, h: Price, l: Price, c: Price] :
          b.l <= b.o /\ b.l <= b.c /\ b.o <= b.h /\ b.c <= b.h}

Far == 1000
NoOrder == [on |-> FALSE, exit |-> FALSE, side |-> 0]
Flat == [has |-> FALSE, side |-> 0, ei |-> 0, px |-> 0, stop |-> 0, target |-> 0]

\* i: the bar to come.  Of the last bar, closed: the trades it closed; mark,
\* low: the sign of the account's value at its close, and at its worst price
\* for the position left open; seen: the entry it signalled.
Start == [i |-> 0, pos |-> Flat, pending |-> NoOrder, funds |-> 1, ruin |-> FALSE,
          closed |-> <<>>, mark |-> 1, low |-> 1, seen |-> 0]

Init == cfg \in Setting /\ w = Start

Sign(x) == IF x > 0 THEN 1 ELSE IF x = 0 THEN 0 ELSE -1
Slipped(raw, direction) == (raw * (2 + cfg.slip * direction)) \div 2

\* Equity after closing at px what was entered at epx, per unit of equity at
\* entry, times epx.
Worth(epx, px, side) == epx + cfg.frac * (px - epx) * side

Level(kind, epx, i, direction) ==
  CASE kind = "pct" -> (epx * (2 + direction)) \div 2
    [] kind = "atr" -> IF i < AtrFrom THEN direction * Far ELSE epx + direction * AtrDist
    [] OTHER        -> 0

Enter(v, raw, side) ==
  LET px == Slipped(raw, side)
  IN [v EXCEPT !.pos = [has |-> TRUE, side |-> side, ei |-> v.i, px |-> px,
                        stop |-> Level(cfg.stop, px, v.i, -side),
                        target |-> Level(cfg.target, px, v.i, side)]]

\* Faulty variant: a loss past the account stays on the books.
SettledAsIs(v, raw) == Worth(v.pos.px, Slipped(raw, -v.pos.side), v.pos.side)

\* Funds after an exit: floored at zero when the account can be liquidated.
Settled(v, raw) ==
  LET worth == Sign(Worth(v.pos.px, Slipped(raw, -v.pos.side), v.pos.side))
  IN IF cfg.liquidate /\ worth < 0 THEN 0 ELSE worth

Push(v, raw, reason, b) ==
  LET trade == [pos |-> v.pos, raw |-> raw, reason |-> reason, xi |-> v.i, bar |-> b]
  IN [v EXCEPT !.closed = Append(@, trade), !.pos = Flat,
               !.funds = Settled(v, raw), !.ruin = Settled(v, raw) <= 0]

TryEnter(v, raw, side) ==
  IF v.funds <= 0 THEN [v EXCEPT !.ruin = TRUE] ELSE Enter(v, raw, side)

\* Faulty variant: the queue is not emptied once it has filled.
FillPendingKept(v, b) ==
  LET out == IF v.pending.exit /\ v.pos.has THEN Push(v, b.o, "signal", b) ELSE v
  IN IF v.pending.side # 0 /\ ~out.pos.has /\ ~out.ruin
       THEN TryEnter(out, b.o, v.pending.side) ELSE out

\* Orders queued on the previous bar fill at this bar's open.
FillPending(v, b) ==
  LET out == IF v.pending.exit /\ v.pos.has THEN Push(v, b.o, "signal", b) ELSE v
      in == IF v.pending.side # 0 /\ ~out.pos.has /\ ~out.ruin
              THEN TryEnter(out, b.o, v.pending.side) ELSE out
  IN [in EXCEPT !.pending = NoOrder]

Exposed(v) == ~v.ruin /\ v.pos.has /\ v.pos.ei < v.i

\* Whether a price is at or past a level, seen from below or from above.
Past(px, level, direction) == (px - level) * direction >= 0

\* The bar's extreme in a direction.
Extreme(b, direction) == IF direction > 0 THEN b.h ELSE b.l

StopHit(v, b) ==
  cfg.stop # "none" /\ Past(Extreme(b, -v.pos.side), v.pos.stop, -v.pos.side)

\* Faulty variant: the better of two exits within one bar is assumed.
ProtectTargetFirst(v, b) ==
  IF Exposed(v) /\ cfg.target # "none"
     /\ Past(Extreme(b, v.pos.side), v.pos.target, v.pos.side)
    THEN Push(v, v.pos.target, "take_profit", b)
    ELSE IF Exposed(v) /\ StopHit(v, b) THEN Push(v, v.pos.stop, "stop", b) ELSE v

\* Faulty variant: a stop always fills at its level.
ProtectExact(v, b) ==
  IF Exposed(v) /\ StopHit(v, b) THEN Push(v, v.pos.stop, "stop", b) ELSE v

\* Stop, then take-profit, against the bar's range.
Protect(v, b) ==
  LET side == v.pos.side
      gapped == Past(b.o, v.pos.stop, -side)
  IN CASE ~Exposed(v) -> v
       [] Exposed(v) /\ StopHit(v, b) ->
            Push(v, IF gapped /\ cfg.stop_gap THEN b.o ELSE v.pos.stop, "stop", b)
       [] Exposed(v) /\ ~StopHit(v, b) /\ cfg.target # "none"
          /\ Past(Extreme(b, side), v.pos.target, side) ->
            Push(v, v.pos.target, "take_profit", b)
       [] OTHER -> v

\* The price at which the account is worth nothing.
WipeOut(p) == p.px - (p.px * p.side) \div cfg.frac

\* Faulty variant: the account is looked at when the bar closes.
LiquidateAtClose(v, b) ==
  IF cfg.liquidate /\ Exposed(v) /\ Worth(v.pos.px, b.c, v.pos.side) <= 0
    THEN [Push(v, WipeOut(v.pos), "liquidated", b) EXCEPT !.ruin = TRUE]
    ELSE v

\* The bar's worst price wipes out the account.
Liquidate(v, b) ==
  LET p == v.pos
      px == IF Past(b.o, WipeOut(p), -p.side) THEN b.o ELSE WipeOut(p)
  IN IF cfg.liquidate /\ Exposed(v) /\ Worth(p.px, Extreme(b, -p.side), p.side) <= 0
       THEN [Push(v, px, "liquidated", b) EXCEPT !.ruin = TRUE]
       ELSE v

\* Faulty variant: off by one.
TimedLate(v) == cfg.max_bars >= 0 /\ v.i - v.pos.ei > cfg.max_bars

Timed(v) == cfg.max_bars >= 0 /\ v.i - v.pos.ei >= cfg.max_bars

\* Time and signal exits.
Exits(v, b, f) ==
  LET signal == (IF v.pos.side > 0 THEN "xl" ELSE "xs") \in f
  IN CASE v.ruin \/ ~v.pos.has \/ ~(Timed(v) \/ signal) -> v
       [] OTHER -> IF ~cfg.fill_open \/ Timed(v)
                     THEN Push(v, b.c, IF Timed(v) THEN "time" ELSE "signal", b)
                     ELSE [v EXCEPT !.pending = [on |-> TRUE, exit |-> TRUE, side |-> 0]]

Wanted(f) == IF "el" \in f THEN 1 ELSE IF "es" \in f THEN -1 ELSE 0

\* Entries, when flat or about to be; none on a bar that would close them.
Entries(v, b, f) ==
  LET flat == ~v.pos.has \/ (v.pending.on /\ v.pending.exit)
      side == Wanted(f)
  IN CASE v.ruin \/ ~flat \/ side = 0 \/ (cfg.close_open /\ v.i = LastBar) -> v
       [] OTHER -> IF ~cfg.fill_open THEN TryEnter(v, b.c, side)
                   ELSE IF v.i < LastBar
                     THEN [v EXCEPT !.pending.on = TRUE, !.pending.side = side]
                     ELSE v

\* What is still open at the last bar is closed there.
CloseOpen(v, b) ==
  IF v.i = LastBar /\ ~v.ruin /\ v.pos.has /\ cfg.close_open
    THEN [Push(v, b.c, "end", b) EXCEPT !.ruin = FALSE]
    ELSE v

\* The sign of the account's value with the position, if any, at px.
Mark(v, px) ==
  IF ~v.ruin /\ v.pos.has THEN Sign(Worth(v.pos.px, px, v.pos.side)) ELSE v.funds

\* One bar of _walk.  A ruin inside it leaves the rest of the bar undone.
Walk(b, f) ==
  LET v == Entries(Exits(Liquidate(Protect(FillPending([w EXCEPT !.closed = <<>>], b),
                                           b), b), b, f), b, f)
      end == CloseOpen(v, b)
  IN [end EXCEPT !.mark = Mark(end, b.c), !.low = Mark(end, Extreme(b, -end.pos.side)),
                 !.i = @ + 1, !.seen = Wanted(f)]

Step == /\ w.i <= LastBar /\ ~w.ruin
        /\ \E b \in Bar, f \in Flags : w' = Walk(b, f)
        /\ UNCHANGED cfg

Done == (w.i > LastBar \/ w.ruin) /\ UNCHANGED vars

Next == Step \/ Done

Spec == Init /\ [][Next]_vars

-----------------------------------------------------------------------------

\* The walk's variables have their types.
TypeOK ==
  /\ cfg \in Setting
  /\ w.i \in 0..(LastBar + 1)
  /\ w.pos.side \in {-1, 0, 1} /\ w.pos.has = (w.pos.side # 0)
  /\ w.pending \in [on: BOOLEAN, exit: BOOLEAN, side: {-1, 0, 1}]
  /\ {w.funds, w.mark, w.low, w.seen} \subseteq {-1, 0, 1}

Closed == {w.closed[k] : k \in DOMAIN w.closed}
Entered == {p \in {w.pos} \cup {t.pos : t \in Closed} : p.has /\ p.ei = w.i - 1}

\* No exit is better than the best price of its bar, whatever the stop, the
\* gap or the order of exits within the bar ("every rule closes a way a
\* backtest can come out better than the strategy would trade").  Exact stop
\* fills are the documented exception.
NoBetterThanTraded ==
  \A t \in Closed : (t.reason # "stop" \/ cfg.stop_gap)
    => (t.raw - Extreme(t.bar, t.pos.side)) * t.pos.side <= 0

\* "Stop before take-profit when a single bar touches both": a target is
\* taken only on a bar whose range stayed clear of the stop.
StopBeforeTarget ==
  \A t \in Closed : t.reason = "take_profit" =>
    cfg.stop = "none" \/ ~Past(Extreme(t.bar, -t.pos.side), t.pos.stop, -t.pos.side)

\* A position is not held past max_bars, whichever exit was queued, refused or
\* overtaken by another on the way.
HeldWithinMaxBars ==
  cfg.max_bars >= 1 /\ w.pos.has => (w.i - 1) - w.pos.ei < cfg.max_bars

\* Every position opened is one the signal asked for: on the bar itself when
\* fills are at the close, on the bar before it when they are at the open.
\* No order is left over to fill again, none fills before its signal is known.
EntersOnSignal ==
  [][\A p \in Entered' : p.side = IF cfg.fill_open THEN w.seen ELSE w'.seen]_vars

\* "Equity is floored at zero": once a liquidated account's position has been
\* exposed to a bar's range, it would have survived the worst price of that
\* bar; otherwise the run has ended as ruin, with the account empty and flat.
SolventOnceExposed ==
  cfg.liquidate =>
    /\ w.pos.has /\ w.pos.ei < w.i - 1 => w.low > 0 /\ w.mark > 0
    /\ w.ruin => w.funds = 0 /\ ~w.pos.has

\* "If the bar's worst price would take the account's mark-to-market equity to
\* zero, the position is closed there": so the curve of an account that can be
\* liquidated is never below zero.  (Does not hold: see the README.)
FlooredAtZero == cfg.liquidate => w.mark >= 0
=============================================================================
