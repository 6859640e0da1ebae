-------------------------- MODULE AnalyticsWindows --------------------------
(***************************************************************************)
(* The windows of the dashboard and what is counted in them: the spans     *)
(* that web/static/app.js asks for, the defaults and buckets of            *)
(* internal/analytics, and the timeseries and heatmap that                 *)
(* internal/storage/sqlite.go sums up from the stored texts of the times.  *)
(*                                                                         *)
(* A time is a number of ticks. Calls find the store at rest: those that   *)
(* do not are in UsageReads.                                               *)
(***************************************************************************)
EXTENDS Integers, FiniteSets

CONSTANTS
  Second,        \* the ticks of a second
  Unit,          \* the ticks of an hour or a day: where windows may end
  Bucket,        \* spec.BucketDuration
  BucketCount,   \* spec.BucketCount
  Shift,         \* what the local clock is put back or forward by
  Slots,         \* the 7 * 24 cells of the heatmap, each a Unit
  Zone,          \* the time zones are at most this far from UTC
  MaxTime, MaxRows   \* bounds on the time and the requests

ASSUME WindowsAssumption ==
  /\ {Second, Unit, Bucket, BucketCount, Slots} \subseteq Nat \ {0}
  /\ Unit % Second = 0 /\ Bucket % Unit = 0
  /\ Shift \in 0 .. BucketCount * Bucket /\ Zone \in Nat
  /\ MaxTime \in Nat /\ MaxRows \in Nat

VARIABLES
  now,      \* the clock
  rows,     \* the started_at of the stored requests
  window,   \* the window last asked for
  answer    \* what was counted in it

windowVars == <<now, rows, window, answer>>

Span == BucketCount * Bucket
Shifts == {-Shift, 0, Shift}
Offsets == {-Zone, 0, Zone}
Buckets == 0 .. BucketCount - 1
Cells == 0 .. Slots - 1

NoAnswer == [total |-> 0, previous |-> 0, buckets |-> [b \in Buckets |-> {}],
             cells |-> [c \in Cells |-> {}]]

WindowsInit ==
  /\ now = 0 /\ rows = {}
  /\ window = [start |-> 0, end |-> 0, previous |-> 0]
  /\ answer = NoAnswer

-----------------------------------------------------------------------------
(* The order of the stored texts. RFC3339Nano leaves out a fraction that   *)
(* is 0, and the "Z" that follows then sorts after the "." of a fraction.  *)
Rank(t) == IF t % Second = 0 THEN Second ELSE t % Second

TextLess(t, u) ==
  \/ t \div Second < u \div Second
  \/ t \div Second = u \div Second /\ Rank(t) < Rank(u)

(* The rows that started_at >= ? AND started_at < ? selects *)
InWindow(start, end) ==
  {t \in rows : ~TextLess(t, start) /\ TextLess(t, end)}

(* Fault: the last bucket counts nothing *)
BucketIndexDropsLast(start, t) ==
  LET index == (t - start) \div Bucket IN
  IF t < start \/ index + 1 \notin Buckets THEN -1 ELSE index

(* Fault: a request is put in the bucket whose end it is nearer to *)
BucketIndexRounds(start, t) ==
  LET index == (t - start + Bucket \div 2) \div Bucket IN
  IF t < start \/ index \notin Buckets THEN -1 ELSE index

(* bucketIndex; -1 for a row that no bucket counts *)
BucketIndex(start, t) ==
  LET index == (t - start) \div Bucket IN
  IF t < start \/ index \notin Buckets THEN -1 ELSE index

(* BucketWindows: no bucket is longer than the others but the last one,    *)
(* and none reaches past the end.                                          *)
BucketWindow(start, end, b) ==
  LET Clamped(t) == IF t > end THEN end ELSE t IN
  [start |-> Clamped(start + b * Bucket),
   end   |-> IF b = BucketCount - 1 THEN end
             ELSE Clamped(start + (b + 1) * Bucket)]

(* UsageHeatmap: weekday and hour in the caller's zone *)
Slot(t, offset) == ((t - offset) \div Unit) % Slots

(* UsageSummary, UsageTimeseries and UsageHeatmap of a window, and the     *)
(* UsageSummary of the one before it                                       *)
Counted(w, offset) ==
  LET selected == InWindow(w.start, w.end) IN
  [total    |-> Cardinality(selected),
   previous |-> Cardinality(InWindow(w.previous, w.start)),
   buckets  |-> [b \in Buckets |->
                  {t \in selected : BucketIndex(w.start, t) = b}],
   cells    |-> [c \in Cells |-> {t \in selected : Slot(t, offset) = c}]]

-----------------------------------------------------------------------------
Tick ==
  /\ now < MaxTime
  /\ now' = now + 1 /\ UNCHANGED <<rows, window, answer>>

Record ==
  /\ Cardinality(rows) < MaxRows
  /\ rows' = rows \cup {now} /\ UNCHANGED <<now, window, answer>>

Ask(w, offset) ==
  /\ window' = w /\ answer' = Counted(w, offset)
  /\ UNCHANGED <<now, rows>>

(* Fault: the earlier span is added *)
DashboardWindowAhead(shift, earlier) ==
  LET end == (now \div Unit + 1) * Unit IN
  [start |-> end - Span - shift, end |-> end,
   previous |-> end - shift + earlier]

(* currentWindow and previousWindow: from the next boundary back by local  *)
(* calendar arithmetic, which a change of the local clock in a window      *)
(* makes longer or shorter                                                 *)
DashboardWindow(shift, earlier) ==
  LET end == (now \div Unit + 1) * Unit IN
  [start |-> end - Span - shift, end |-> end,
   previous |-> end - 2 * Span - shift - earlier]

(* DefaultWindow and PreviousWindow, for a caller that gives no window     *)
DefaultWindow ==
  [start |-> now - Span, end |-> now, previous |-> now - 2 * Span]

WindowsNext ==
  \/ Tick \/ Record
  \/ \E offset \in Offsets :
       \/ \E shift \in Shifts, earlier \in Shifts :
            Ask(DashboardWindow(shift, earlier), offset)
       \/ Ask(DefaultWindow, offset)

WindowsSpec == WindowsInit /\ [][WindowsNext]_windowVars

-----------------------------------------------------------------------------
(* Properties *)

WindowsTypeOK ==
  /\ now \in 0 .. MaxTime /\ rows \subseteq 0 .. MaxTime
  /\ window \in [start : Int, end : Int, previous : Int]
  /\ window.previous <= window.start /\ window.start <= window.end
  /\ answer.total \in 0 .. MaxRows /\ answer.previous \in 0 .. MaxRows
  /\ answer.buckets \in [Buckets -> SUBSET rows]
  /\ answer.cells \in [Cells -> SUBSET rows]

InBuckets == UNION {answer.buckets[b] : b \in Buckets}
InCells   == UNION {answer.cells[c] : c \in Cells}

(* The heatmap adds up to the total beside it, whatever the time zone; the *)
(* chart does so when its window is no longer than its buckets and begins  *)
(* at a whole second, as the dashboard's do but for the weeks in which     *)
(* clocks are put back (UsageHeatmap, bucketIndex).                        *)
DrawingsAddUp ==
  /\ Cardinality(InCells) = answer.total
  /\ (/\ window.end - window.start <= Span
      /\ window.start % Second = 0 /\ window.end % Second = 0)
       => Cardinality(InBuckets) = answer.total

(* A request is drawn in a bucket whose labelled times it lies between,    *)
(* and the labelled buckets cover the window without gap or overlap        *)
(* (bucketIndex, BucketWindows).                                           *)
RowsLieInTheirBucket ==
  LET w(b) == BucketWindow(window.start, window.end, b) IN
  /\ \A b \in Buckets : \A t \in answer.buckets[b] :
       w(b).start <= t /\ t < w(b).end
  /\ (window.start < window.end) =>
       /\ w(0).start = window.start /\ w(BucketCount - 1).end = window.end
       /\ \A b \in Buckets \ {0} : w(b - 1).end = w(b).start

(* internal/api/server_test.go:74, TestUsageEndpointsRespectWindowBounds:  *)
(* of the requests stored when it was asked, a window counts those that    *)
(* started in it.                                                          *)
WindowBoundsRespected ==
  [][window' # window =>
       answer'.total = Cardinality({t \in rows : window'.start <= t
                                                 /\ t < window'.end})]_windowVars
=============================================================================
