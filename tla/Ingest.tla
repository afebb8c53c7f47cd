------------------------------- MODULE Ingest -------------------------------
(***************************************************************************)
(* The one path by which bars enter the database: ingest_series            *)
(* (backend/btb/data/ingest.py) over the bars and series tables            *)
(* (backend/btb/db.py), run by the worker's refresher and by a backfill    *)
(* beside it (backend/btb/data/cli.py build).                              *)
(*                                                                         *)
(* One series.  A slot is a bar period: slot b is over once the clock has  *)
(* passed b.  Of a bar's prices only when they were read matters: read     *)
(* while its slot was the clock's, they are those of a forming bar.        *)
(***************************************************************************)
EXTENDS Integers, FiniteSetsExt

CONSTANTS Process,     \* who ingests
          Keeps,       \* those that go on in the same transaction after an error
          Traded,      \* the slots the venue has a bar for
          Since,       \* where history may be asked to begin
          FirstClock, LastClock,
          Page,        \* PAGE_LIMIT: the slots one request of a venue covers
          EmptyPages,  \* EMPTY_PAGES_STOP: empty ones that end the history
          Reach,       \* the slots after which MAX_PAGES may end a fetch
          Depth,       \* how many slots back from the clock a source goes
          None


ASSUME IngestAssumption ==
  /\ Keeps \subseteq Process
  /\ Traded \subseteq Nat
  /\ Since \subseteq Nat
  /\ LastClock \in Nat /\ FirstClock \in 0..LastClock
  /\ Page \in Nat \ {0} /\ EmptyPages \in Nat \ {0} /\ Reach \in Nat /\ Depth \in Nat
  /\ None \notin Nat

VARIABLES clock,    \* the slot that is forming
          bars,     \* the committed rows: slot -> when read, and partial
          series,   \* the manifest row: the complete bars its audit covered
          pending,  \* rows each process has written and not committed
          ingest,   \* where ingest_series is, and what it holds in memory
          cut       \* auxiliary: the slots some fetch asked for and a source's
                    \* limits left out of its answer

vars == <<clock, bars, series, pending, ingest, cut>>

Empty == [b \in {} |-> None]

Idle == [stage |-> "idle", since |-> None, start |-> None, held |-> {},
         full |-> FALSE, fresh |-> Empty, forming |-> {}, stored |-> Empty]

Init ==
  /\ clock = FirstClock
  /\ bars = Empty
  /\ series = None
  /\ pending = [p \in Process |-> Empty]
  /\ ingest = [p \in Process |-> Idle]
  /\ cut = {}

-----------------------------------------------------------------------------
(* bars.merge, and the upsert of write_bars: new rows win.                 *)
Merge(old, new) ==
  [b \in DOMAIN old \cup DOMAIN new |-> IF b \in DOMAIN new THEN new[b] ELSE old[b]]

(* What the statements of a process see.                                   *)
View(p) == Merge(bars, pending[p])

\* read_bars without include_partial.
Complete(rows) == {b \in DOMAIN rows : ~rows[b].partial}
Stored(rows) == [b \in Complete(rows) |-> rows[b].readAt]

Newest(slots) == Max(slots)
Oldest(slots) == Min(slots)

\* Faulty variant: resume after the newest bar held.
ResumeAfter(held, since) ==
  IF held = {} \/ Newest(held) < since THEN since ELSE Newest(held) + 1

(* Where an incremental fetch begins: one bar before the newest held.      *)
Resume(held, since) ==
  IF held = {} \/ Newest(held) - 1 < since THEN since ELSE Newest(held) - 1

\* The bars from..upto a venue has published up to the one of slot newest.
Asked(from, upto, newest) == {b \in Traded : from <= b /\ b <= upto /\ b <= newest}

(* What src.fetch may answer with.  A source goes back so far and no       *)
(* further (MAX_DAYS; a venue that ignores `since`).  Of what is in depth, *)
(* the pages of a venue find one stretch: its start is the oldest bar, or  *)
(* any after an empty page, which the search for the first page may take   *)
(* for the listing date; its end is the newest bar, or any before enough   *)
(* empty pages, or whichever MAX_PAGES leave it at.                        *)
Answers(from, upto, newest) ==
  LET S == {b \in Asked(from, upto, newest) : clock - Depth <= b}
      MayStart(a) == \A s \in S : s < a => from <= a - Page /\ s < a - Page
      MayEnd(a, b) == b - a >= Reach \/ \A s \in S : s > b => s > b + EmptyPages * Page
  IN IF S = {} THEN {{}}
     ELSE {{s \in S : e[1] <= s /\ s <= e[2]} :
             e \in {e \in S \X S : MayStart(e[1]) /\ MayEnd(e[1], e[2])}}

\* The answer, read at the clock's slot.
Read(slots) == [b \in slots |-> clock]

(* How far a venue has published when it is asked: at least what is held,  *)
(* or it answers with nothing.                                             *)
MayHavePublished(held) == {-1} \cup (Max(held \cup {0})..clock)

At(p, stage) == ingest[p].stage = stage

-----------------------------------------------------------------------------
(* The refresher or the backfill starts on the series.  A history asked    *)
(* for from after the bars held would leave a hole by request.             *)
Start(p, since, full) ==
  LET held == DOMAIN View(p) IN
  /\ At(p, "idle")
  /\ pending[p] = Empty
  /\ held = {} \/ \E b \in held : since <= b
  /\ ingest' = [ingest EXCEPT ![p] =
                  [Idle EXCEPT !.stage = "started",
                               !.since = since,
                               !.start = IF full THEN since ELSE Resume(held, since),
                               !.held = held,
                               !.full = full]]
  /\ UNCHANGED <<clock, bars, series, pending, cut>>

(* src.fetch from there on.                                                *)
Fetch(p) ==
  /\ At(p, "started")
  /\ \E newest \in MayHavePublished(ingest[p].held) :
     \E answer \in Answers(ingest[p].start, clock, newest) :
       /\ ingest' = [ingest EXCEPT ![p].stage = "fetched", ![p].fresh = Read(answer)]
       /\ cut' = cut \cup (Asked(ingest[p].start, clock, newest) \ answer)
  /\ UNCHANGED <<clock, bars, series, pending>>

\* The front of the series is fetched too if it begins too late.
HeadMissing(p) ==
  LET i == ingest[p] IN
  ~i.full /\ i.held # {} /\ Oldest(i.held) > i.since + 1

(* The head is fetched from since up to there, and comes before the rest.  *)
HeadUpTo(p, upto) ==
  \E newest \in MayHavePublished(ingest[p].held) :
  \E answer \in Answers(ingest[p].since, upto, newest) :
    /\ ingest' = [ingest EXCEPT ![p].stage = "merged",
                                ![p].fresh = Merge(Read(answer), @)]
    /\ cut' = cut \cup (Asked(ingest[p].since, upto, newest) \ answer)

SkipHead(p) ==
  /\ ingest' = [ingest EXCEPT ![p].stage = "merged"]
  /\ UNCHANGED cut

\* Faulty variant: the head's fetch stops short of the bars held.
FetchHeadShort(p) ==
  /\ At(p, "fetched")
  /\ IF HeadMissing(p) THEN HeadUpTo(p, Oldest(ingest[p].held) - 2) ELSE SkipHead(p)
  /\ UNCHANGED <<clock, bars, series, pending>>

FetchHead(p) ==
  /\ At(p, "fetched")
  /\ IF HeadMissing(p) THEN HeadUpTo(p, Oldest(ingest[p].held) + 1) ELSE SkipHead(p)
  /\ UNCHANGED <<clock, bars, series, pending>>

\* Faulty variant: the newest bar served counts as forming whatever the clock says.
JudgeByPosition(p) ==
  LET slots == DOMAIN ingest[p].fresh IN
  /\ At(p, "merged")
  /\ ingest' = [ingest EXCEPT ![p].stage = "judged",
                              ![p].forming = {b \in slots : b = Newest(slots)}]
  /\ UNCHANGED <<clock, bars, series, pending, cut>>

\* Faulty variant: the clock's slot counts as forming whether served or not.
JudgeByClock(p) ==
  /\ At(p, "merged")
  /\ ingest' = [ingest EXCEPT ![p].stage = "judged", ![p].forming = {clock}]
  /\ UNCHANGED <<clock, bars, series, pending, cut>>

(* partial_last: the newest bar is forming if its slot is not over by the  *)
(* clock now, after the fetches.                                           *)
Judge(p) ==
  LET slots == DOMAIN ingest[p].fresh IN
  /\ At(p, "merged")
  /\ ingest' = [ingest EXCEPT ![p].stage = "judged",
                              ![p].forming = {b \in slots : b = Newest(slots) /\ b >= clock}]
  /\ UNCHANGED <<clock, bars, series, pending, cut>>

(* write_bars.  The upsert waits for rows another transaction has written. *)
Write(p) ==
  LET i == ingest[p] IN
  /\ At(p, "judged")
  /\ \A q \in Process \ {p} : DOMAIN pending[q] \cap DOMAIN i.fresh = {}
  /\ pending' = [pending EXCEPT ![p] =
                   Merge(@, [b \in DOMAIN i.fresh |->
                               [readAt |-> i.fresh[b], partial |-> b \in i.forming]])]
  /\ ingest' = [ingest EXCEPT ![p].stage = "written"]
  /\ UNCHANGED <<clock, bars, series, cut>>

Committed(p) ==
  /\ bars' = View(p)
  /\ pending' = [pending EXCEPT ![p] = Empty]

(* Corporate actions came with the bars: both are committed at once.       *)
CommitEvents(p) ==
  /\ At(p, "written")
  /\ Committed(p)
  /\ ingest' = [ingest EXCEPT ![p].stage = "evented"]
  /\ UNCHANGED <<clock, series, cut>>

(* The stored series is read back and checked ...                          *)
Audit(p) ==
  /\ At(p, "written") \/ At(p, "evented")
  /\ ingest' = [ingest EXCEPT ![p].stage = "audited", ![p].stored = Stored(View(p))]
  /\ UNCHANGED <<clock, bars, series, pending, cut>>

(* ... and the manifest takes its span and the report.                     *)
Record(p) ==
  /\ At(p, "audited")
  /\ series' = ingest[p].stored
  /\ Committed(p)
  /\ ingest' = [ingest EXCEPT ![p] = Idle]
  /\ UNCHANGED <<clock, cut>>

(* refresh_once rolls back on an error; so does the server when the        *)
(* process or its connection dies, or when a statement failed.             *)
Abort(p) ==
  /\ ~At(p, "idle")
  /\ pending' = [pending EXCEPT ![p] = Empty]
  /\ ingest' = [ingest EXCEPT ![p] = Idle]
  /\ UNCHANGED <<clock, bars, series, cut>>

(* cmd_build does not: it goes on to the next series ...                   *)
GoOn(p) ==
  /\ p \in Keeps
  /\ ~At(p, "idle")
  /\ ingest' = [ingest EXCEPT ![p] = Idle]
  /\ UNCHANGED <<clock, bars, series, pending, cut>>

(* ... whose commit, or the end of the connection's block, is this one's.  *)
CommitLeftover(p) ==
  /\ At(p, "idle")
  /\ pending[p] # Empty
  /\ Committed(p)
  /\ UNCHANGED <<clock, series, ingest, cut>>

Tick ==
  /\ clock < LastClock
  /\ clock' = clock + 1
  /\ UNCHANGED <<bars, series, pending, ingest, cut>>

Next ==
  \/ Tick
  \/ \E p \in Process, since \in Since, full \in BOOLEAN : Start(p, since, full)
  \/ \E p \in Process : Fetch(p)
  \/ \E p \in Process : FetchHead(p)
  \/ \E p \in Process : Judge(p)
  \/ \E p \in Process : Write(p)
  \/ \E p \in Process : CommitEvents(p)
  \/ \E p \in Process : Audit(p)
  \/ \E p \in Process : Record(p)
  \/ \E p \in Process : Abort(p)
  \/ \E p \in Process : GoOn(p)
  \/ \E p \in Process : CommitLeftover(p)

Spec == Init /\ [][Next]_vars

-----------------------------------------------------------------------------
Slot == 0..LastClock
RowAt == [readAt : Slot, partial : BOOLEAN]
BySlot(rows, S) == DOMAIN rows \subseteq Slot /\ rows \in [DOMAIN rows -> S]

(* What ingest_series holds has the types it needs, only bars it fetched   *)
(* are forming, and rows wait for a commit only between a write and the    *)
(* commit, or where cmd_build went on.                                     *)
TypeOK ==
  /\ clock \in Slot
  /\ BySlot(bars, RowAt)
  /\ series = None \/ BySlot(series, Slot)
  /\ cut \subseteq Slot
  /\ \A p \in Process :
       /\ BySlot(pending[p], RowAt)
       /\ ingest[p].stage \in {"idle", "started", "fetched", "merged", "judged",
                               "written", "evented", "audited"}
       /\ BySlot(ingest[p].fresh, Slot)
       /\ ingest[p].forming \subseteq DOMAIN ingest[p].fresh
       /\ BySlot(ingest[p].stored, Slot)
       /\ pending[p] # Empty =>
            At(p, "written") \/ At(p, "audited") \/ (At(p, "idle") /\ p \in Keeps)

(* Whether the answers were whole or not, late or missing, and whatever    *)
(* failed in between: a bar missing between the oldest and the newest held *)
(* was asked for and left out by the limits of a source.  Resuming,        *)
(* fetching the missing head and starting over skip nothing themselves.    *)
(* With one process at a time.                                             *)
OnlyCutsLeaveHoles ==
  \A b \in Traded \ DOMAIN bars :
    (\E i, j \in DOMAIN bars : i < b /\ b < j) => b \in cut

(* What a test may have been run on stays: a bar the manifest counts is    *)
(* not taken back by a later or a failed ingest.  With one process at a    *)
(* time.                                                                   *)
AuditedStaysReadable == series # None => DOMAIN series \subseteq Complete(bars)

(* A price read before its bar was over is corrected in time: only the     *)
(* newest bar and the one before may hold one, which the next fetch reads  *)
(* again, unless it is asked for history from right after that bar, or the *)
(* bar was out of the source's reach when it was asked for.  With one      *)
(* process at a time.                                                      *)
UnfinishedAtSeam ==
  \A b \in DOMAIN bars \ cut :
    bars[b].readAt <= b => b >= Newest(DOMAIN bars) - 1 \/ b + 1 \in Since

(* "The newest bar of a live series has not finished ... It is written     *)
(* with `partial = true`, excluded from every research read".              *)
FormingIsPartial == \A b \in Complete(bars) : bars[b].readAt > b

(* "Recording the audit in the same transaction as the bars means a bad    *)
(* series sits in the database with a FAIL stamped on it": whatever a test *)
(* can read, the recorded audit has seen.  (Does not hold: see the README.) *)
ReadMeansAudited ==
  Complete(bars) \subseteq (IF series = None THEN {} ELSE DOMAIN series)

(* "If what we hold begins after the window we were asked for, fetch the   *)
(* missing head as well.  A series that is already complete skips this."   *)
(* A series that skips it is complete from the start of the window to its  *)
(* newest bar.  (Does not hold: see the README.)                           *)
SkippedIsComplete ==
  \A p \in Process :
    LET i == ingest[p] IN
    At(p, "merged") /\ ~i.full /\ i.held # {} /\ ~HeadMissing(p) =>
      \A b \in Traded : i.since < b /\ b < Newest(i.held) => b \in i.held
=============================================================================
