------------------------------ MODULE Traffic -------------------------------
(***************************************************************************)
(* The traffic statistics (ui/app/db.py): bytes are added to minute        *)
(* buckets, folded into hourly ones and then into daily ones, moved to an  *)
(* archive key when a client is created again, and read back for the       *)
(* ranges and charts of the overview (range_bounds and fill_series in      *)
(* ui/app/main.py).  Times are in seconds; Minute, Hour, Day and the       *)
(* retention times are constants, so that a few seconds make a day.        *)
(* A definition in front of one of the same form is a seeded fault.        *)
(***************************************************************************)
EXTENDS Integers, FiniteSets, FiniteSetsExt

CONSTANTS
    Minute, Hour, Day,
    MinuteRetention, HourRetention,
    Week,           \* a range longer than MinuteRetention
    Zone,           \* offsets of browsers' time zones, in whole minutes
    MaxTransfer, MaxSecond

VARIABLES
    bucket,         \* bucket[size][owner][ts]: bytes
    added,          \* added[owner][ts]: the bytes that were added at ts
    second          \* the time

trafficVars == <<bucket, added, second>>

Size == {"minute", "hour", "day"}
Owner == {"client", "archived"}
Time == 0..MaxSecond
BytesIn(f, from, to) == MapThenSumSet(LAMBDA t : f[t], {t \in Time : from <= t /\ t < to})

NoTraffic == [o \in Owner |-> [t \in Time |-> 0]]

TrafficInit ==
    /\ bucket = [s \in Size |-> NoTraffic]
    /\ added = NoTraffic
    /\ second = 0

-----------------------------------------------------------------------------
Floor(t, width) == (t \div width) * width

(* poll adds to the bucket of the minute it runs in.                       *)
add_traffic ==
    /\ MapThenSumSet(LAMBDA o : BytesIn(added[o], 0, MaxSecond + 1), Owner) < MaxTransfer
    /\ bucket' = [bucket EXCEPT !["minute"]["client"][Floor(second, Minute)] = @ + 1]
    /\ added' = [added EXCEPT !["client"][second] = @ + 1]
    /\ UNCHANGED second

(* One fold of rollup: rows before the cutoff are added to the bucket that *)
(* they lie in, and deleted.                                               *)
FoldReplaces(from, width, to, cutoff) ==
    [from |-> [t \in Time |-> IF t < cutoff THEN 0 ELSE from[t]],
     to |-> [t \in Time |->
               LET old == {u \in Time : u < cutoff /\ Floor(u, width) = t /\ from[u] > 0}
               IN IF old = {} THEN to[t] ELSE MapThenSumSet(LAMBDA u : from[u], old)]]
Fold(from, width, to, cutoff) ==
    [from |-> [t \in Time |-> IF t < cutoff THEN 0 ELSE from[t]],
     to |-> [t \in Time |->
               to[t] + MapThenSumSet(LAMBDA u : from[u],
                                     {u \in Time : u < cutoff /\ Floor(u, width) = t})]]

rollup ==
    LET hourly == [o \in Owner |-> Fold(bucket["minute"][o], Hour, bucket["hour"][o],
                                        second - MinuteRetention)]
        daily == [o \in Owner |-> Fold(hourly[o].to, Day, bucket["day"][o], second - HourRetention)]
    IN /\ bucket' = [minute |-> [o \in Owner |-> hourly[o].from],
                     hour |-> [o \in Owner |-> daily[o].from],
                     day |-> [o \in Owner |-> daily[o].to]]
       /\ UNCHANGED <<added, second>>

(* archive_client_history: every row gets the archive's key, in one        *)
(* transaction; the archives are taken together.                           *)
Moved(f) == [client |-> [t \in Time |-> 0],
             archived |-> [t \in Time |-> f["archived"][t] + f["client"][t]]]
archive_client_history ==
    /\ bucket' = [s \in Size |-> Moved(bucket[s])]
    /\ added' = Moved(added)
    /\ UNCHANGED second

TrafficTick == second < MaxSecond /\ second' = second + 1 /\ UNCHANGED <<bucket, added>>

TrafficNext == add_traffic \/ rollup \/ archive_client_history \/ TrafficTick

-----------------------------------------------------------------------------
Stored(o, t) == bucket["minute"][o][t] + bucket["hour"][o][t] + bucket["day"][o][t]
totals(o, start, end) == MapThenSumSet(LAMBDA t : Stored(o, t), {t \in Time : start <= t /\ t < end})

first_traffic_ts ==
    LET seen == {t \in Time : \E p \in Owner : Stored(p, t) > 0}
    IN IF seen = {} THEN second - Day ELSE Min(seen)

Aligned(t, width, tz) == Floor(t + tz, width) - tz

(* range_bounds, for a browser tz east of UTC.                             *)
range_bounds(name, tz) ==
    CASE name = "today" -> Aligned(second, Day, tz)
      [] name = "24h" -> second - Day
      [] name = "week" -> second - Week
      [] name = "all" -> first_traffic_ts

(* series groups what totals adds up; fill_series lists the buckets that   *)
(* the chart shows.                                                        *)
series(o, start, end, width, tz, b) ==
    MapThenSumSet(LAMBDA t : Stored(o, t),
                  {t \in Time : start <= t /\ t < end /\ Aligned(t, width, tz) = b})
fill_series(start, end, width, tz) ==
    LET first == Aligned(start, width, tz)
    IN {b \in first..(end - 1) : (b - first) % width = 0}

-----------------------------------------------------------------------------
TrafficTypeOK ==
    /\ bucket \in [Size -> [Owner -> [Time -> 0..MaxTransfer]]]
    /\ added \in [Owner -> [Time -> 0..MaxTransfer]]
    /\ second \in Time

(* The chart adds up to the total above it, for every range and time zone: *)
(* series and fill_series cut time at the same places.                     *)
ChartAddsUp ==
    \A name \in {"today", "24h", "week", "all"}, tz \in Zone, width \in {Minute, Hour, Day} :
        LET start == range_bounds(name, tz)
        IN MapThenSumSet(LAMBDA b : series("client", start, second + 1, width, tz, b),
                         fill_series(start, second + 1, width, tz))
           = totals("client", start, second + 1)

(* No byte is lost or counted twice by roll-ups and archives, in any order *)
(* and at any second: today is shown in full and nothing before it; the    *)
(* last 24 hours from the first full minute on, since a bucket counts at   *)
(* the minute it begins; a range longer than minutes are kept leaves out   *)
(* at most the hour it begins in; all is all that ever was.  And charts    *)
(* add up to the totals.                                                   *)
RangesExact == added # NoTraffic =>
    /\ \A o \in Owner :
        LET Displayed(name, tz) == totals(o, range_bounds(name, tz), second + 1)
            Since(t) == BytesIn(added[o], t, second + 1)
        IN /\ \A tz \in Zone : Displayed("today", tz) = Since(range_bounds("today", tz))
           /\ Displayed("24h", 0) = Since(Floor(range_bounds("24h", 0) + Minute - 1, Minute))
           /\ Displayed("all", 0) = Since(0)
           /\ Displayed("week", 0) <= Since(range_bounds("week", 0))
           /\ Displayed("week", 0) >= Since(range_bounds("week", 0) + Hour - 1)
    /\ ChartAddsUp
=============================================================================
