-------------------------- MODULE RecordTimeProofs --------------------------
(***************************************************************************)
(* The way of a date and a zone, for every first year, any number of days  *)
(* and every zone.  The calendar is the C library's, for all time: its     *)
(* months follow one another and hold every day once.  On it stand the     *)
(* conversions, each there and back (DateComesBack, ZoneComesBack,         *)
(* SetAgain), and on these the invariants Dates and ZoneSame, which say    *)
(* how far the clocks and the record have strayed from the server.         *)
(***************************************************************************)
EXTENDS RecordTime, WellFoundedInduction, TLAPS

-----------------------------------------------------------------------------
(* The calendar.                                                             *)

\* A least element: induction over the months goes by the least counterexample.
LEMMA Least ==
    ASSUME NEW T \in SUBSET Nat, T # {}
    PROVE  \E n \in T : \A k \in T : n <= k
<1> DEFINE R == {p \in Nat \X Nat : p[1] < p[2]}
<1>1. IsWellFoundedOn(R, Nat)
  BY NatLessThanWellFounded DEF OpToRel
<1> HIDE DEF R
<1>2. PICK n \in T : \A k \in T : ~(<<k, n>> \in R)
  BY <1>1, WFMin, Zenon
<1>3. \A k \in T : ~(k < n)
  BY <1>2 DEF R
<1> QED
  BY <1>3

\* A year has 365 days, a leap year one more: 4, 100 and 400 years are counted right.
LEMMA YearNext ==
    ASSUME NEW y \in Int
    PROVE  YearDays(y) \in Int /\ YearDays(y + 1) = YearDays(y) + 365 + (IF Leap(y) THEN 1 ELSE 0)
  BY DEF YearDays, Leaps, Leap

\* From February to the long months.
LEMMA MonthLength ==
    ASSUME NEW m \in Int
    PROVE  MonthDays(m) \in 28 .. 31
  BY DEF MonthDays

\* Days are numbered from 1 January of FirstYear.
LEMMA FirstDayZero == FirstDayOf(0) = 0
<1>1. 0 \div 12 = 0 /\ 0 % 12 = 0 /\ FirstYear \in Int
  BY TimeAssumption
<1>2. FirstDayOf(0) = YearDays(FirstYear) - YearDays(FirstYear) + 0 + 0
  BY <1>1 DEF FirstDayOf, DaysBefore
<1> QED
  BY <1>1, <1>2, YearNext

\* A month begins where the one before it ends, across the end of a year and in
\* leap years too.
LEMMA FirstDayNext ==
    ASSUME NEW m \in Int
    PROVE  FirstDayOf(m) \in Int /\ FirstDayOf(m + 1) = FirstDayOf(m) + MonthDays(m)
<1> DEFINE k == m % 12
           y == FirstYear + m \div 12
           leap == IF Leap(y) THEN 1 ELSE 0
<1>1. FirstYear \in Int /\ k \in 0 .. 11 /\ y \in Int /\ leap \in {0, 1}
  BY TimeAssumption
<1>2. FirstDayOf(m) = YearDays(y) - YearDays(FirstYear) + DaysBefore[k + 1] + (IF k > 1 THEN leap ELSE 0)
  BY DEF FirstDayOf
<1>3. YearDays(y) \in Int /\ YearDays(FirstYear) \in Int /\ YearDays(y + 1) = YearDays(y) + 365 + leap
  BY <1>1, YearNext
<1>4. MonthDays(m) = CASE k = 1 -> 28 + leap [] k \in {3, 5, 8, 10} -> 30 [] OTHER -> 31
  BY DEF MonthDays
<1>5. CASE k = 11
  <2>1. (m + 1) % 12 = 0 /\ FirstYear + (m + 1) \div 12 = y + 1
    BY <1>1, <1>5
  <2>2. FirstDayOf(m + 1) = YearDays(y + 1) - YearDays(FirstYear) + 0 + 0
    BY <2>1 DEF FirstDayOf, DaysBefore
  <2> QED
    BY <1>1, <1>2, <1>3, <1>4, <1>5, <2>2 DEF DaysBefore
<1>6. CASE k # 11
  <2>1. (m + 1) % 12 = k + 1 /\ FirstYear + (m + 1) \div 12 = y
    BY <1>1, <1>6
  <2>2. FirstDayOf(m + 1) = YearDays(y) - YearDays(FirstYear) + DaysBefore[(k + 1) + 1]
                               + (IF k + 1 > 1 THEN leap ELSE 0)
    BY <2>1 DEF FirstDayOf
  <2>3. /\ DaysBefore[k + 1] \in Int /\ DaysBefore[(k + 1) + 1] \in Int /\ MonthDays(m) \in Int
        /\ (IF k > 1 THEN leap ELSE 0) \in Int /\ (IF k + 1 > 1 THEN leap ELSE 0) \in Int
        /\ DaysBefore[(k + 1) + 1] + (IF k + 1 > 1 THEN leap ELSE 0)
             = DaysBefore[k + 1] + (IF k > 1 THEN leap ELSE 0) + MonthDays(m)
    BY <1>1, <1>4, <1>6 DEF DaysBefore
  <2> HIDE DEF k, y, leap
  <2> QED
    BY ONLY <1>2, <1>3, <2>2, <2>3
<1> QED
  BY <1>5, <1>6

\* A month begins after 28 days of each month before it at least, after 31 at most.
LEMMA FirstDayBounds ==
    ASSUME NEW m \in Nat
    PROVE  FirstDayOf(m) \in Int /\ 28 * m <= FirstDayOf(m) /\ FirstDayOf(m) <= 31 * m
<1> DEFINE Bad == {n \in Nat : ~(28 * n <= FirstDayOf(n) /\ FirstDayOf(n) <= 31 * n)}
<1>1. ASSUME Bad # {} PROVE FALSE
  <2>1. PICK n \in Bad : \A k \in Bad : n <= k
    <3> HIDE DEF Bad
    <3>1. Bad \in SUBSET Nat
      BY DEF Bad
    <3> QED
      BY <1>1, <3>1, Least
  <2>2. n \in Nat /\ n # 0
    BY FirstDayZero
  <2>3. n - 1 \in Nat /\ n - 1 \notin Bad
    BY <2>1, <2>2
  <2>4. 28 * (n - 1) <= FirstDayOf(n - 1) /\ FirstDayOf(n - 1) <= 31 * (n - 1)
    BY <2>3
  <2>5. /\ FirstDayOf(n - 1) \in Int /\ MonthDays(n - 1) \in 28 .. 31
        /\ FirstDayOf(n) = FirstDayOf(n - 1) + MonthDays(n - 1)
    <3>1. n - 1 \in Int /\ (n - 1) + 1 = n
      BY <2>2
    <3> QED
      BY <3>1, FirstDayNext, MonthLength
  <2>6. 28 * n <= FirstDayOf(n) /\ FirstDayOf(n) <= 31 * n
    BY ONLY <2>2, <2>4, <2>5
  <2> QED
    BY <2>6
<1>2. m \notin Bad
  BY <1>1
<1>3. FirstDayOf(m) \in Int
  BY FirstDayNext
<1> QED
  BY <1>2, <1>3

\* Months follow one another.
LEMMA FirstDayRises ==
    ASSUME NEW m \in Nat, NEW n \in Nat, m < n
    PROVE  FirstDayOf(m + 1) <= FirstDayOf(n)
<1> DEFINE Bad == {k \in Nat : m < k /\ ~(FirstDayOf(m + 1) <= FirstDayOf(k))}
<1>1. ASSUME Bad # {} PROVE FALSE
  <2>1. PICK k \in Bad : \A l \in Bad : k <= l
    <3> HIDE DEF Bad
    <3>1. Bad \in SUBSET Nat
      BY DEF Bad
    <3> QED
      BY <1>1, <3>1, Least
  <2>2. k \in Nat /\ m + 1 \in Int /\ FirstDayOf(m + 1) \in Int /\ ~(FirstDayOf(m + 1) <= FirstDayOf(k))
    BY FirstDayNext
  <2>3. k # m + 1 /\ m < k
    BY <2>2
  <2>4. k - 1 \in Nat /\ m < k - 1 /\ k - 1 \notin Bad
    BY <2>1, <2>2, <2>3
  <2>5. FirstDayOf(m + 1) <= FirstDayOf(k - 1)
    BY <2>4
  <2>6. /\ FirstDayOf(k - 1) \in Int /\ MonthDays(k - 1) \in 28 .. 31
        /\ FirstDayOf(k) = FirstDayOf(k - 1) + MonthDays(k - 1)
    <3>1. k - 1 \in Int /\ (k - 1) + 1 = k
      BY <2>2
    <3> QED
      BY <3>1, FirstDayNext, MonthLength
  <2> QED
    BY ONLY <2>2, <2>5, <2>6
<1> QED
  BY <1>1

\* Every day is in a month, ...
LEMMA MonthOfDay ==
    ASSUME NEW day \in Nat
    PROVE  LET m == MonthOf(day) IN
           m \in Nat /\ FirstDayOf(m) <= day /\ day < FirstDayOf(m + 1)
<1> DEFINE Later == {n \in Nat : day < FirstDayOf(n)}
<1>1. PICK n \in Later : \A k \in Later : n <= k
  <2>1. day + 1 \in Nat /\ day < 28 * (day + 1)
    OBVIOUS
  <2>2. day + 1 \in Later
    BY <2>1, FirstDayBounds
  <2> HIDE DEF Later
  <2>3. Later \in SUBSET Nat
    BY DEF Later
  <2> QED
    BY <2>2, <2>3, Least
<1>2. n \in Nat /\ day < FirstDayOf(n) /\ n # 0
  BY FirstDayZero
<1>3. n - 1 \in Nat /\ (n - 1) + 1 = n /\ n - 1 \notin Later
  BY <1>1, <1>2
<1>4. FirstDayOf(n - 1) <= day /\ day < FirstDayOf((n - 1) + 1)
  BY <1>2, <1>3, FirstDayBounds
<1>5. n - 1 \in day \div 31 .. day \div 28
  <2>1. 28 * (n - 1) <= day
    BY <1>3, <1>4, FirstDayBounds
  <2>2. day < 31 * n
    BY <1>2, FirstDayBounds
  <2> QED
    BY ONLY <1>2, <2>1, <2>2, day \in Nat
<1>6. \A m \in day \div 31 .. day \div 28 : m \in Nat
  OBVIOUS
<1> HIDE DEF Later
<1> QED
  BY <1>4, <1>5, <1>6 DEF MonthOf

\* ... and in no other.
LEMMA MonthUnique ==
    ASSUME NEW day \in Nat, NEW m \in Nat, FirstDayOf(m) <= day, day < FirstDayOf(m + 1)
    PROVE  MonthOf(day) = m
<1> PICK k : k = MonthOf(day)
  OBVIOUS
<1>1. k \in Nat /\ FirstDayOf(k) <= day /\ day < FirstDayOf(k + 1)
  BY MonthOfDay
<1>2. /\ FirstDayOf(m) \in Int /\ FirstDayOf(k) \in Int
      /\ FirstDayOf(m + 1) \in Int /\ FirstDayOf(k + 1) \in Int
  BY <1>1, FirstDayNext
<1>3. ~(k < m)
  BY <1>1, <1>2, FirstDayRises
<1>4. ~(m < k)
  BY <1>1, <1>2, FirstDayRises
<1> QED
  BY <1>1, <1>3, <1>4

-----------------------------------------------------------------------------
(* Dates.                                                                    *)

\* The clock that a server's answer of day s sets: the same day of the next month.
Ahead(s) == ClockFrom(ServerDate(s))

\* The month that get_time_parse adds by storing 1..12 in tm_mon.
LEMMA AheadIs ==
    ASSUME NEW s \in Nat
    PROVE  /\ Ahead(s) = FirstDayOf(MonthOf(s) + 1) + (s - FirstDayOf(MonthOf(s)))
           /\ Ahead(s) \in Nat
<1> PICK m : m = MonthOf(s)
  OBVIOUS
<1>1. m \in Nat /\ FirstDayOf(m) <= s /\ s < FirstDayOf(m + 1)
  BY MonthOfDay
<1>2. FirstDayOf(m) \in Int /\ FirstDayOf(m + 1) \in Int /\ FirstYear \in Int
  BY <1>1, FirstDayNext, TimeAssumption
<1>3. /\ ServerDate(s).year = FirstYear + m \div 12 /\ ServerDate(s).month = (m % 12) + 1
      /\ ServerDate(s).mday = s - FirstDayOf(m) + 1
  BY DEF ServerDate, Gmtime
<1>4. 12 * ((FirstYear + m \div 12) - FirstYear) + ((m % 12) + 1) = m + 1
  BY <1>1, <1>2
<1>5. Ahead(s) = FirstDayOf(m + 1) + (s - FirstDayOf(m) + 1) - 1
  BY <1>3, <1>4 DEF Ahead, ClockFrom, Mktime
<1> QED
  BY <1>1, <1>2, <1>5

\* The date uploaded d - s days after that, in the same month.
LEMMA DateComesBack ==
    ASSUME NEW s \in Nat, NEW d \in Nat, s <= d, MonthOf(d) = MonthOf(s)
    PROVE  LET date == ServerDate(d) IN
           DatePrinted(Ahead(s) + (d - s)) = date <=>
              date.month # 12 /\ date.mday <= MonthDays(MonthOf(d) + 1)
<1> PICK m : m = MonthOf(d)
  OBVIOUS
<1> PICK c : c = Ahead(s) + (d - s)
  OBVIOUS
<1> PICK k : k = MonthOf(c)
  OBVIOUS
<1>1. /\ m \in Nat /\ FirstDayOf(m) <= d /\ d < FirstDayOf(m + 1)
      /\ FirstDayOf(m) \in Int /\ FirstDayOf(m + 1) \in Int /\ FirstDayOf(m + 2) \in Int
      /\ FirstDayOf(m + 3) \in Int
      /\ FirstDayOf(m + 1) = FirstDayOf(m) + MonthDays(m)
      /\ FirstDayOf(m + 2) = FirstDayOf(m + 1) + MonthDays(m + 1)
      /\ FirstDayOf(m + 3) = FirstDayOf(m + 2) + MonthDays(m + 2)
      /\ MonthDays(m) \in 28 .. 31 /\ MonthDays(m + 1) \in 28 .. 31 /\ MonthDays(m + 2) \in 28 .. 31
  <2>1. m \in Nat /\ FirstDayOf(m) <= d /\ d < FirstDayOf(m + 1)
    BY MonthOfDay
  <2>2. m \in Int /\ m + 1 \in Int /\ m + 2 \in Int /\ (m + 1) + 1 = m + 2 /\ (m + 2) + 1 = m + 3
    BY <2>1
  <2> QED
    BY <2>1, <2>2, FirstDayNext, MonthLength
<1>2. c = FirstDayOf(m + 1) + (d - FirstDayOf(m)) /\ c \in Nat
  BY <1>1, AheadIs
<1>3. /\ ServerDate(d).year = FirstYear + m \div 12 /\ ServerDate(d).month = (m % 12) + 1
      /\ ServerDate(d).mday = d - FirstDayOf(m) + 1
      /\ ServerDate(d) = [year |-> FirstYear + m \div 12, month |-> (m % 12) + 1,
                          mday |-> d - FirstDayOf(m) + 1]
  BY DEF ServerDate, Gmtime
<1>4. DatePrinted(c) = [year |-> FirstYear + k \div 12, month |-> k % 12, mday |-> c - FirstDayOf(k) + 1]
  BY DEF DatePrinted, Gmtime
<1>5. DatePrinted(c) = ServerDate(d) <=>
         /\ FirstYear + k \div 12 = FirstYear + m \div 12 /\ k % 12 = (m % 12) + 1
         /\ c - FirstDayOf(k) + 1 = d - FirstDayOf(m) + 1
  BY <1>3, <1>4
<1>6. CASE d - FirstDayOf(m) + 1 <= MonthDays(m + 1)
  <2>1. FirstDayOf(m + 1) <= c /\ c < FirstDayOf((m + 1) + 1) /\ m + 1 \in Nat
    <3>1. (m + 1) + 1 = m + 2
      BY <1>1
    <3> QED
      BY <1>1, <1>2, <1>6, <3>1
  <2>2. k = m + 1
    BY <1>2, <2>1, MonthUnique
  <2>3. c - FirstDayOf(k) + 1 = d - FirstDayOf(m) + 1
    BY <1>1, <1>2, <2>2
  <2>4. /\ FirstYear + (m + 1) \div 12 = FirstYear + m \div 12 <=> (m % 12) + 1 # 12
        /\ (m + 1) % 12 = (m % 12) + 1 <=> (m % 12) + 1 # 12
    <3>1. m \in Nat /\ FirstYear \in Nat
      BY <1>1, TimeAssumption
    <3> QED
      BY ONLY <3>1
  <2> QED
    BY <1>3, <1>5, <1>6, <2>2, <2>3, <2>4
<1>7. CASE ~(d - FirstDayOf(m) + 1 <= MonthDays(m + 1))
  <2>1. FirstDayOf(m + 2) <= c /\ c < FirstDayOf((m + 2) + 1) /\ m + 2 \in Nat
    <3>1. (m + 2) + 1 = m + 3
      BY <1>1
    <3> QED
      BY <1>1, <1>2, <1>7, <3>1
  <2>2. k = m + 2
    BY <1>2, <2>1, MonthUnique
  <2>3. c - FirstDayOf(k) + 1 # d - FirstDayOf(m) + 1
    BY <1>1, <1>2, <2>2
  <2> QED
    BY <1>3, <1>5, <1>7, <2>3
<1> QED
  BY <1>6, <1>7

\* Where another answer puts a clock that was set on day s.
LEMMA SetAgain ==
    ASSUME NEW s \in Nat, NEW d \in Nat, s <= d
    PROVE  /\ Ahead(d) - (Ahead(s) + (d - s)) \in -3 .. 3
           /\ MonthOf(d) = MonthOf(s) => Ahead(d) = Ahead(s) + (d - s)
<1> PICK m, n : m = MonthOf(d) /\ n = MonthOf(s)
  OBVIOUS
<1>1. m \in Int /\ n \in Int
  BY MonthOfDay
<1>2. /\ FirstDayOf(m) \in Int /\ FirstDayOf(m + 1) = FirstDayOf(m) + MonthDays(m)
      /\ FirstDayOf(n) \in Int /\ FirstDayOf(n + 1) = FirstDayOf(n) + MonthDays(n)
      /\ MonthDays(m) \in 28 .. 31 /\ MonthDays(n) \in 28 .. 31
  BY <1>1, FirstDayNext, MonthLength
<1>3. /\ Ahead(d) = FirstDayOf(m + 1) + (d - FirstDayOf(m))
      /\ Ahead(s) = FirstDayOf(n + 1) + (s - FirstDayOf(n))
  BY AheadIs
<1>4. Ahead(d) = MonthDays(m) + d /\ Ahead(s) = MonthDays(n) + s
  BY <1>2, <1>3
<1> QED
  BY <1>2, <1>4

-----------------------------------------------------------------------------
(* Zones.                                                                    *)

\* A zone that goes to the peer and comes back with a record.
ZoneBack(z) == ZonePrinted(ZoneBytes(ZoneStored(z)))

\* It is the same if and only if it is in whole hours and not west of Greenwich.
LEMMA ZoneComesBack ==
    ASSUME NEW z \in Zones
    PROVE  ZoneBack(z) = z <=> z >= 0 /\ z % 100 = 0
<1>1. z \in Int /\ z < 50 * 65536
  BY TimeAssumption
<1> PICK t : t = ZoneStored(z)
  OBVIOUS
<1>2. t = IF z >= 0 THEN z \div 50 ELSE -((-z) \div 50)
  BY DEF ZoneStored, CDiv
<1>3. t \in Int
  BY <1>1, <1>2
<1>4. 256 * ((t % 65536) \div 256) + (t % 256) = t % 65536
  BY ONLY <1>3
<1>5. ZoneBack(z) = 100 * ((t % 65536) \div 2)
  BY <1>4 DEF ZoneBack, ZonePrinted, ZoneBytes
<1>6. CASE z >= 0
  <2>1. t = z \div 50 /\ t % 65536 = t
    BY ONLY <1>1, <1>2, <1>3, <1>6
  <2>2. t \div 2 = z \div 100
    BY ONLY <1>1, <1>6, <2>1
  <2> QED
    BY ONLY <1>1, <1>5, <1>6, <2>1, <2>2
<1>7. CASE ~(z >= 0)
  BY ONLY <1>1, <1>3, <1>5, <1>7
<1> QED
  BY <1>6, <1>7

-----------------------------------------------------------------------------
(* The clocks of the gateway and of the peer, and the record, run a month    *)
(* ahead since the day of their setting.                                     *)

\* The server's day.
IsDays == start \in Nat /\ today \in Nat /\ start <= today

\* The gateway's clock.
GatewayAhead ==
    clock # NoClock => setOn \in 0 .. today /\ clock = Ahead(setOn) + (today - setOn)

\* The peer's clock: it keeps the error of the day on which the gateway's was set.
PeerAhead ==
    peerClock # NoClock => syncOn \in 0 .. today /\ peerClock = Ahead(syncOn) + (today - syncOn)

\* A record: the date of that clock on the day it was measured.
RecordAhead ==
    record # NoRecord =>
       /\ record.on \in 0 .. today /\ record.syncOn \in 0 .. record.on
       /\ record.date = DatePrinted(Ahead(record.syncOn) + (record.on - record.syncOn))

Dates == IsDays /\ GatewayAhead /\ PeerAhead /\ RecordAhead

\* The zone on its way.
ZoneSame ==
    /\ zone \in Zones
    /\ clock # NoClock => timezone = ZoneStored(zone)
    /\ peerClock # NoClock => peerZone = ZoneBytes(ZoneStored(zone))
    /\ record # NoRecord => record.zone = ZoneBack(zone)

\* No clock is set at first.
LEMMA DatesInit == Init => Dates
  BY TimeAssumption DEF Init, Dates, IsDays, GatewayAhead, PeerAhead, RecordAhead

\* Both clocks keep their lead over the days that pass (NextDay), an answer of the
\* server sets it anew (GetTime), and TimeSync and Upload hand it on.
LEMMA DatesStep == Dates /\ [Next]_vars => Dates'
<1> SUFFICES ASSUME Dates, [Next]_vars PROVE Dates'
  OBVIOUS
<1> USE DEF Dates, IsDays
<1>0. ASSUME NEW s \in 0 .. today PROVE Ahead(s) \in Nat /\ s \in Nat
  BY <1>0, AheadIs
<1>1. CASE NextDay
  <2>1. ASSUME NEW s \in 0 .. today, NEW c, c = Ahead(s) + (today - s)
        PROVE  Tick(c) = Ahead(s) + (today' - s) /\ s \in 0 .. today'
    <3>1. Ahead(s) \in Nat /\ c # NoClock /\ today' = today + 1
      BY <1>0, <1>1, <2>1 DEF NextDay, NoClock
    <3> QED
      BY <2>1, <3>1 DEF Tick
  <2>2. today' = today + 1 /\ clock' = Tick(clock) /\ peerClock' = Tick(peerClock)
        /\ UNCHANGED <<start, record, setOn, syncOn>>
    BY <1>1 DEF NextDay
  <2>3. GatewayAhead'
    BY <2>1, <2>2 DEF GatewayAhead, Tick
  <2>4. PeerAhead'
    BY <2>1, <2>2 DEF PeerAhead, Tick
  <2>5. RecordAhead'
    BY <2>2 DEF RecordAhead
  <2> QED
    BY <2>2, <2>3, <2>4, <2>5
<1>2. CASE GetTime
  <2>1. GatewayAhead'
    <3>1. clock' = Ahead(today) /\ setOn' = today /\ today' = today
      BY <1>2 DEF GetTime, Ahead
    <3>2. Ahead(today) \in Nat
      BY <1>0
    <3> QED
      BY <3>1, <3>2 DEF GatewayAhead
  <2> QED
    BY <1>2, <2>1 DEF GetTime, PeerAhead, RecordAhead
<1>3. CASE TimeSync
  BY <1>3 DEF TimeSync, GatewayAhead, PeerAhead, RecordAhead
<1>4. CASE Upload
  BY <1>4 DEF Upload, GatewayAhead, PeerAhead, RecordAhead
<1>5. CASE UNCHANGED vars
  BY <1>5 DEF vars, GatewayAhead, PeerAhead, RecordAhead
<1> QED
  BY <1>1, <1>2, <1>3, <1>4, <1>5 DEF Next

\* Nothing has been taken over yet.
LEMMA ZoneInit == Init => ZoneSame
  BY DEF Init, ZoneSame

\* The zone goes one conversion further with each of GetTime, TimeSync and Upload.
LEMMA ZoneStep == ZoneSame /\ [Next]_vars => ZoneSame'
<1> SUFFICES ASSUME ZoneSame, [Next]_vars PROVE ZoneSame'
  OBVIOUS
<1> USE DEF ZoneSame
<1>1. CASE NextDay
  BY <1>1 DEF NextDay, Tick, NoClock
<1>2. CASE GetTime
  BY <1>2 DEF GetTime
<1>3. CASE TimeSync
  BY <1>3 DEF TimeSync
<1>4. CASE Upload
  BY <1>4 DEF Upload, ZoneBack
<1>5. CASE UNCHANGED vars
  BY <1>5 DEF vars
<1> QED
  BY <1>1, <1>2, <1>3, <1>4, <1>5 DEF Next

-----------------------------------------------------------------------------
(* The theorems.                                                             *)

\* A record measured in the month in which the clock was set has the server's date
\* if and only if that is not in December and the next month has such a day: the two
\* errors of get_time_parse and measure_time cancel there and nowhere else.
THEOREM DateKeptHolds == Spec => []DateKept
<1>1. Dates => DateKept
  <2> SUFFICES ASSUME Dates, record # NoRecord, MonthOf(record.on) = MonthOf(record.syncOn)
               PROVE  LET d == ServerDate(record.on)
                      IN  record.date = d <=> d.month # 12 /\ d.mday <= MonthDays(MonthOf(record.on) + 1)
    BY DEF DateKept
  <2>1. record.on \in Nat /\ record.syncOn \in Nat /\ record.syncOn <= record.on
    BY DEF Dates, IsDays, RecordAhead
  <2>2. record.date = DatePrinted(Ahead(record.syncOn) + (record.on - record.syncOn))
    BY DEF Dates, RecordAhead
  <2> QED
    BY <2>1, <2>2, DateComesBack
<1> QED
  BY <1>1, DatesInit, DatesStep, PTL DEF Spec

\* A record has the server's zone if and only if that is in whole hours and not west
\* of Greenwich: the bytes of time_sync_rsp lose the rest.
THEOREM ZoneKeptHolds == Spec => []ZoneKept
<1>1. ZoneSame => ZoneKept
  BY ZoneComesBack DEF ZoneSame, ZoneKept
<1> QED
  BY <1>1, ZoneInit, ZoneStep, PTL DEF Spec

\* Another answer of the server does not move the clock within the month in which it
\* was set, and by three days at most after it.
THEOREM ClockSteadyHolds == Spec => ClockSteady
<1> DEFINE Steady == clock # NoClock /\ today' = today /\ clock' # clock =>
                        MonthOf(today) # MonthOf(setOn) /\ clock' - clock \in -3 .. 3
<1>1. Dates /\ [Next]_vars => [Steady]_vars
  <2> SUFFICES ASSUME Dates, Next, clock # NoClock, today' = today, clock' # clock
               PROVE  MonthOf(today) # MonthOf(setOn) /\ clock' - clock \in -3 .. 3
    OBVIOUS
  <2>1. today \in Nat /\ setOn \in Nat /\ setOn <= today /\ clock = Ahead(setOn) + (today - setOn)
    BY DEF Dates, IsDays, GatewayAhead
  <2>2. GetTime
    BY <2>1 DEF Next, NextDay, TimeSync, Upload
  <2>3. clock' = Ahead(today)
    BY <2>2 DEF GetTime, Ahead
  <2> QED
    BY <2>1, <2>3, SetAgain
<1> QED
  BY <1>1, DatesInit, DatesStep, PTL DEF Spec, ClockSteady
=============================================================================
