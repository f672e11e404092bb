----------------------------- MODULE RecordTime -----------------------------
(***************************************************************************)
(* The way of a date and a time zone through the program: from the web     *)
(* server's answer into the system clock (get_time_parse), from the clock  *)
(* to the peer (time_sync_rsp), and from the peer's record into the upload *)
(* (http_up_data_rsp).  Months are handled twice with an offset of one:    *)
(* the server's 1..12 goes into tm_mon, which counts from 0, and the       *)
(* tm_mon of a record is printed as it is.                                 *)
(*                                                                         *)
(* Days are numbered from 1 January of FirstYear, months from 0; the time  *)
(* of day goes through unchanged and is left out.                          *)
(*                                                                         *)
(* The gateway is taken to run with TZ=UTC: mktime (http_protocol.c:109)   *)
(* reads its date as local time, gmtime (uart_protocol.c:369) gives UTC.   *)
(***************************************************************************)
EXTENDS Integers

CONSTANTS
    FirstYear,
    Days,       \* days on which the server is first asked
    MaxDays,    \* bound: days that pass after that
    Zones       \* the server's zones as hhmm: 800 for +0800, -530 for -0530

\* A zone of +hhmm has four digits; that half an hour counts fits two bytes is enough.
ASSUME TimeAssumption ==
    /\ FirstYear \in Nat /\ Days \subseteq Nat /\ MaxDays \in Nat
    /\ Zones \subseteq Int /\ \A z \in Zones : z < 50 * 65536

-----------------------------------------------------------------------------
(* The C library's calendar.                                                 *)

Leap(year) == year % 4 = 0 /\ (year % 100 = 0 => year % 400 = 0)

MonthDays(m) ==
    CASE m % 12 = 1 -> IF Leap(FirstYear + m \div 12) THEN 29 ELSE 28
      [] m % 12 \in {3, 5, 8, 10} -> 30
      [] OTHER -> 31

\* Leap years up to year; days up to 1 January of it, but for a constant.
Leaps(year) == year \div 4 - year \div 100 + year \div 400
YearDays(year) == 365 * year + Leaps(year - 1)

\* Days of the year before a month, 29 February apart.
DaysBefore == <<0, 31, 59, 90, 120, 151, 181, 212, 243, 273, 304, 334>>

FirstDayOf(m) ==
    LET year == FirstYear + m \div 12
    IN  YearDays(year) - YearDays(FirstYear) + DaysBefore[(m % 12) + 1]
           + (IF m % 12 > 1 /\ Leap(year) THEN 1 ELSE 0)

\* No month has less than 28 days or more than 31.
MonthOf(day) ==
    CHOOSE m \in day \div 31 .. day \div 28 :
       FirstDayOf(m) <= day /\ day < FirstDayOf(m + 1)

\* gmtime: tm_mon is 0..11.
Gmtime(day) ==
    LET m == MonthOf(day)
    IN  [year |-> FirstYear + m \div 12, mon |-> m % 12, mday |-> day - FirstDayOf(m) + 1]

\* mktime that cuts an impossible day to the end of its month.
MktimeCut(year, mon, mday) ==
    LET m == 12 * (year - FirstYear) + mon
    IN  FirstDayOf(m) + (IF mday > MonthDays(m) THEN MonthDays(m) ELSE mday) - 1

\* mktime brings a month 12 and the 31st of a short month into range.
Mktime(year, mon, mday) == FirstDayOf(12 * (year - FirstYear) + mon) + mday - 1

-----------------------------------------------------------------------------
(* The conversions of the program.                                           *)

\* What the server sends on a day: its month is 1..12.
ServerDate(day) ==
    LET t == Gmtime(day) IN [year |-> t.year, month |-> t.mon + 1, mday |-> t.mday]

\* ClockFrom with the month corrected, and nothing else.
ClockFromFixed(s) == Mktime(s.year, s.month - 1, s.mday)

\* get_time_parse: sscanf stores the month in tm_mon, mktime counts from 0.
ClockFrom(s) == Mktime(s.year, s.month, s.mday)

\* Division of int in C.
CDiv(a, b) == IF a >= 0 THEN a \div b ELSE -((-a) \div b)

\* ZoneStored in hours.
ZoneStoredHours(z) == CDiv(z, 100)

\* atoi(time_zone)/50 in a __s16.
ZoneStored(z) == CDiv(z, 50)

\* time_sync_rsp sends two bytes, which a record of the peer repeats.
ZoneBytes(timezone) == <<(timezone % 65536) \div 256, timezone % 256>>

\* http_up_data_rsp: the bytes make an int that is never negative, and half of it
\* fits the __s16, so that the branches for timezone < 0 are never taken.
ZonePrinted(bytes) == 100 * ((256 * bytes[1] + bytes[2]) \div 2)

\* measure_time: tm_mon is printed as it is.
DatePrinted(day) ==
    LET t == Gmtime(day) IN [year |-> t.year, month |-> t.mon, mday |-> t.mday]

-----------------------------------------------------------------------------
NoClock == -1

VARIABLES
    start, today, zone,     \* the server: its first day, the day, its zone
    clock, timezone,        \* the gateway: the day by its clock, system_info.timezone
    peerClock, peerZone,    \* the peer: what it keeps of the last time_sync_rsp
    record,                 \* the last record uploaded: its date and zone
    setOn, syncOn           \* history: the day of the setting of clock, of peerClock
vars == <<start, today, zone, clock, timezone, peerClock, peerZone, record, setOn, syncOn>>

\* on and syncOn are history: the day of the record, and that of the setting of the
\* clock that stamped it.
NoRecord == [on |-> NoClock, syncOn |-> NoClock, date |-> <<>>, zone |-> 0]

Init ==
    /\ start \in Days /\ today = start /\ zone \in Zones
    /\ clock = NoClock /\ timezone = 0
    /\ peerClock = NoClock /\ peerZone = <<0, 0>>
    /\ record = NoRecord
    /\ setOn = NoClock /\ syncOn = NoClock

\* Midnight, by every clock that is set.
Tick(c) == IF c = NoClock THEN NoClock ELSE c + 1
NextDay ==
    /\ today < start + MaxDays
    /\ today' = today + 1 /\ clock' = Tick(clock) /\ peerClock' = Tick(peerClock)
    /\ UNCHANGED <<start, zone, timezone, peerZone, record, setOn, syncOn>>

\* get_time_Url, every minute at most: settimeofday, timezone, time_valid.
GetTime ==
    /\ clock' = ClockFrom(ServerDate(today)) /\ timezone' = ZoneStored(zone)
    /\ setOn' = today
    /\ UNCHANGED <<start, today, zone, peerClock, peerZone, record, syncOn>>

\* The peer takes over an answer with time_valid = 1.
TimeSync ==
    /\ clock # NoClock
    /\ peerClock' = clock /\ peerZone' = ZoneBytes(timezone)
    /\ syncOn' = setOn
    /\ UNCHANGED <<start, today, zone, clock, timezone, record, setOn>>

\* The peer stamps a record with its clock; http_up_data_rsp converts it.
Upload ==
    /\ peerClock # NoClock
    /\ record' = [on |-> today, syncOn |-> syncOn,
                  date |-> DatePrinted(peerClock), zone |-> ZonePrinted(peerZone)]
    /\ UNCHANGED <<start, today, zone, clock, timezone, peerClock, peerZone, setOn, syncOn>>

Next == NextDay \/ GetTime \/ TimeSync \/ Upload

Spec == Init /\ [][Next]_vars

-----------------------------------------------------------------------------
(* Properties.                                                               *)

\* The two errors in the month cancel, but only there: a record measured in the
\* month in which the clock was set has the server's date if and only if that is not
\* in December and the next month has such a day too.
DateKept ==
    record # NoRecord /\ MonthOf(record.on) = MonthOf(record.syncOn) =>
       LET d == ServerDate(record.on)
       IN  record.date = d <=> d.month # 12 /\ d.mday <= MonthDays(MonthOf(record.on) + 1)

\* A record has the server's zone if and only if that is in whole hours and not
\* west of Greenwich.
ZoneKept ==
    record # NoRecord => (record.zone = zone <=> zone >= 0 /\ zone % 100 = 0)

\* Asking the server again does not move the clock within a month; after its end it
\* does, by three days at most in either direction.  (A clock that is set back is
\* what the timed wait of hid_data_tsk has to live with.)
ClockSteady ==
    [][clock # NoClock /\ today' = today /\ clock' # clock =>
          MonthOf(today) # MonthOf(setOn) /\ clock' - clock \in -3 .. 3]_vars
=============================================================================
