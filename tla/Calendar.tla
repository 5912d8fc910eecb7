------------------------------ MODULE Calendar ------------------------------
(***************************************************************************)
(* Dates.  Every row carries its day as Jalali text; the program converts  *)
(* between that and the Gregorian Date of the browser with integer         *)
(* arithmetic it has in a dozen copies (Jalali.js, the views, the          *)
(* controllers), and cuts periods for reports, the dashboard and its       *)
(* charts out of the result.                                               *)
(*                                                                         *)
(* The state is the wall clock.  Each night it moves both calendars by     *)
(* their own rules (month lengths and leap years), so that the arithmetic  *)
(* of the program has something to be compared with.  A Jalali or          *)
(* Gregorian date is <<year, month, day>>; a Date at midnight is its       *)
(* number of days, a time of day a number of minutes.  No daylight saving. *)
(***************************************************************************)
EXTENDS Integers, FiniteSets

CONSTANT LastYear                    \* the Jalali year in which the clock stops

ASSUME LastYearAssumption == LastYear \in 1403 .. 1599

VARIABLES gdate, jdate               \* today in both calendars

vars == <<gdate, jdate>>

-----------------------------------------------------------------------------
(* The two calendars (the reference; the browser knows only the first).    *)

GLeap(y) == (y % 4 = 0 /\ y % 100 # 0) \/ y % 400 = 0
GMonthDays(y, m) ==
  CASE m = 2 -> IF GLeap(y) THEN 29 ELSE 28
    [] m \in {4, 6, 9, 11} -> 30
    [] OTHER -> 31

JLeap(y) == y % 33 \in {1, 5, 9, 13, 17, 22, 26, 30}
JMonthDays(y, m) ==
  CASE m <= 6 -> 31
    [] m \in 7 .. 11 -> 30
    [] OTHER -> IF JLeap(y) THEN 30 ELSE 29

\* The day after d in a calendar whose months have Len(y, m) days.
Next1(d, Len(_, _)) ==
  IF d[3] < Len(d[1], d[2]) THEN <<d[1], d[2], d[3] + 1>>
  ELSE IF d[2] < 12 THEN <<d[1], d[2] + 1, 1>>
  ELSE <<d[1] + 1, 1, 1>>

DaysBefore == <<0, 31, 59, 90, 120, 151, 181, 212, 243, 273, 304, 334>>

-----------------------------------------------------------------------------
(* The browser's Date, as src/ uses it.                                    *)

\* new Date(y, m - 1, d): a number of days
DateOf(g) ==
  LET y == IF g[2] > 2 THEN g[1] ELSE g[1] - 1
  IN 365 * g[1] + y \div 4 - y \div 100 + y \div 400 + DaysBefore[g[2]] + g[3]

\* d.setMonth(d.getMonth() - k): a day the month does not have spills over
SetMonth(g, k) ==
  LET n == 12 * g[1] + g[2] - 1 - k
      y == n \div 12
      m == (n % 12) + 1
      extra == g[3] - GMonthDays(y, m)
  IN IF extra <= 0 THEN <<y, m, g[3]>>
     ELSE IF m = 12 THEN <<y + 1, 1, extra>> ELSE <<y, m + 1, extra>>

\* d.setFullYear(d.getFullYear() - k)
SetFullYear(g, k) == SetMonth(g, 12 * k)

-----------------------------------------------------------------------------
(* Jalali.js                                                               *)

\* Mutant: the last day of a leap year is the first of the next.
YearEnds(days) == <<days \div 365, days % 365>>

\* The year of a day of four years, the first of them leap, and its day.
InFourYears(days) ==
  IF days > 365 THEN <<(days - 1) \div 365, (days - 1) % 365>> ELSE <<0, days>>

\* Days since the spring of 1600, the first of Farvardin 979.
DaysOf(g) ==
  LET gy == g[1] - 1600
      gy2 == IF g[2] > 2 THEN gy + 1 ELSE gy
  IN 365 * gy + (gy2 + 3) \div 4 - (gy2 + 99) \div 100 + (gy2 + 399) \div 400
       - 80 + g[3] + DaysBefore[g[2]]

\* The day rest of the Jalali year y, counted from 0.
JMonthAndDay(y, rest) ==
  IF rest < 186 THEN <<y, 1 + rest \div 31, 1 + (rest % 31)>>
                ELSE <<y, 7 + (rest - 186) \div 30, 1 + ((rest - 186) % 30)>>

JDate(days) ==
  LET four == InFourYears((days % 12053) % 1461)
  IN JMonthAndDay(979 + 33 * (days \div 12053) + 4 * ((days % 12053) \div 1461) + four[1],
                  four[2])

G2J(g) == JDate(DaysOf(g))

\* The month and day of a day of a Gregorian year counted from 0, as the loop
\* over sal_a finds them.
MonthAndDay(y, days) ==
  LET Before(m) == DaysBefore[m] + (IF m > 2 /\ GLeap(y) THEN 1 ELSE 0)
      month == CHOOSE m \in 1 .. 12 : Before(m) <= days /\ (m = 12 \/ days < Before(m + 1))
  IN <<y, month, days - Before(month) + 1>>

\* The text of dates that is in range: what the regular expression of
\* assertJalaliDate lets through, of the years the clock is near.
Years == 1390 .. LastYear + 1
InShape(j) == j[1] \in Years /\ j[2] \in 1 .. 12 /\ j[3] \in 1 .. 31

JDays(y, m, d) ==
  LET jy == y - 979
  IN 365 * jy + (jy \div 33) * 8 + ((jy % 33) + 3) \div 4 + 78 + d
       + (IF m < 7 THEN (m - 1) * 31 ELSE (m - 7) * 30 + 186)

\* The day d of a century that begins with the year gy.
InCentury(gy, d) ==
  LET four == InFourYears(d % 1461)
  IN MonthAndDay(gy + 4 * (d \div 1461) + four[1], four[2])

\* The day d of four centuries that begin with the year gy.
InFourCenturies(gy, d) ==
  LET rest == (d - 1) % 36524
  IN IF d > 36524
     THEN InCentury(gy + 100 * ((d - 1) \div 36524), IF rest >= 365 THEN rest + 1 ELSE rest)
     ELSE InCentury(gy, d)

GDate(days) == InFourCenturies(1600 + 400 * (days \div 146097), days % 146097)

J2G == [y \in Years |-> [m \in 1 .. 12 |-> [d \in 1 .. 31 |-> GDate(JDays(y, m, d))]]]

\* toDate gives noon, which fromDate takes back
FromDate(g) == G2J(g)
ToDate(j) == J2G[j[1]][j[2]][j[3]]

-----------------------------------------------------------------------------
(* Dates that enter the program: typed text of the right shape, or the day *)
(* a form or a controller puts in.                                         *)

AssertJalaliDate(j) ==
  /\ InShape(j)
  /\ j[2] >= 7 => j[3] <= 30
  /\ FromDate(ToDate(j)) = j

InvoiceStamp == G2J(gdate)
TreasuryStamp == G2J(gdate)
ChequeStamp == G2J(gdate)
TransactionStamp == G2J(gdate)

-----------------------------------------------------------------------------
(* ReportController: periods                                               *)

Today == DateOf(gdate)

ReportDay(j) == DateOf(ToDate(j))

RangeOf(preset) ==
  LET year == G2J(gdate)[1]
  IN CASE preset = "today"    -> [from |-> Today, to |-> Today]
       [] preset = "7days"    -> [from |-> Today - 6, to |-> Today]
       [] preset = "30days"   -> [from |-> Today - 29, to |-> Today]
       [] preset = "3months"  -> [from |-> DateOf(SetMonth(gdate, 3)), to |-> Today]
       [] preset = "thisYear" -> [from |-> ReportDay(<<year, 1, 1>>), to |-> Today]
       [] preset = "lastYear" -> [from |-> ReportDay(<<year - 1, 1, 1>>),
                                  to |-> ReportDay(<<year - 1, 12, 29>>)]

CustomRange(j1, j2) == [from |-> ReportDay(j1), to |-> ReportDay(j2)]

\* to is taken to the end of its day
InRange(j, range) == range.from <= ReportDay(j) /\ ReportDay(j) <= range.to

-----------------------------------------------------------------------------
(* DashboardView and ChequesView                                           *)

DashboardDate(j) == ToDate(j)

\* Math.ceil((due - now) / day) at the given minute of today
DaysLeft(j, minute) ==
  -((minute + 1440 * (Today - DateOf(DashboardDate(j)))) \div 1440)

DueThisWeek(j, minute) == DaysLeft(j, minute) \in 0 .. 7
DueListed(j, minute) == DaysLeft(j, minute) \in -30 .. 30

\* the badge of a cheque in the list of cheques
ChequeBadge(j, minute) ==
  LET left == -((minute + 1440 * (Today - DateOf(ToDate(j)))) \div 1440)
  IN IF left < 0 THEN "overdue" ELSE IF left <= 7 THEN "soon" ELSE "none"

\* The columns of the sales chart, oldest first: the label, and the sales summed.
DailyColumn(i) == Today - (14 - i)
DailyHas(i, j) == DateOf(DashboardDate(j)) = DailyColumn(i)

\* a month of the Gregorian calendar
MonthlyColumn(i) == SetMonth(gdate, 12 - i)
MonthlyHas(i, j) ==
  /\ DashboardDate(j)[1] = MonthlyColumn(i)[1] /\ DashboardDate(j)[2] = MonthlyColumn(i)[2]

YearlyColumn(i) == SetFullYear(gdate, 5 - i)
YearlyHas(i, j) == DashboardDate(j)[1] = YearlyColumn(i)[1]

-----------------------------------------------------------------------------
\* 1 Farvardin 1403 was 20 March 2024.
Init == gdate = <<2024, 3, 20>> /\ jdate = <<1403, 1, 1>>

Midnight ==
  /\ jdate[1] <= LastYear
  /\ gdate' = Next1(gdate, GMonthDays)
  /\ jdate' = Next1(jdate, JMonthDays)

Next == Midnight

Spec == Init /\ [][Next]_vars

-----------------------------------------------------------------------------
(* Properties.  DayNo counts the days of the Jalali calendar by its rules. *)

YearStart == [y \in Years |-> 365 * (y - 1390) + Cardinality({z \in 1390 .. y - 1 : JLeap(z)})]

DayNo(j) == YearStart[j[1]] + (IF j[2] <= 7 THEN 31 * (j[2] - 1) ELSE 186 + 30 * (j[2] - 7)) + j[3]

Ago(j) == DayNo(jdate) - DayNo(j)

MonthOf(y, m) == {<<y, m, d>> : d \in 1 .. JMonthDays(y, m)}
MonthBefore(j) == IF j[2] = 1 THEN <<j[1] - 1, 12>> ELSE <<j[1], j[2] - 1>>
MonthAfter(j) == IF j[2] = 12 THEN <<j[1] + 1, 1>> ELSE <<j[1], j[2] + 1>>

\* The days of the last, this and the next month, and the ends of years.
Nearby ==
  UNION {MonthOf(ym[1], ym[2]) : ym \in {MonthBefore(jdate), jdate, MonthAfter(jdate)}}
    \cup UNION {{<<y, 1, 1>>, <<y, 12, 29>>, <<y, 12, JMonthDays(y, 12)>>}
                  : y \in jdate[1] - 2 .. jdate[1]}

Minutes == {0, 1, 719, 1439}

\* The two conversions agree with the calendars on every day, leap years and
\* the turn of either year included, and each undoes the other.
ClocksAgree == G2J(gdate) = jdate /\ ToDate(jdate) = gdate

\* assertJalaliDate accepts the days the calendar has and no other: 31 Mehr and
\* 30 Esfand of a common year are refused, 30 Esfand of a leap year is not.
AcceptsExactly ==
  \A d \in 1 .. 31 :
    AssertJalaliDate(<<jdate[1], jdate[2], d>>) <=> d <= JMonthDays(jdate[1], jdate[2])

\* The day every form and controller proposes is today's, and is accepted.
StampsAccepted ==
  \A stamp \in {InvoiceStamp, TreasuryStamp, ChequeStamp, TransactionStamp} :
    stamp = jdate /\ AssertJalaliDate(stamp)

\* The periods of the report tabs hold the days their buttons name, to the day,
\* whatever month ends and leap days lie between, with two exceptions: last year
\* is without 30 Esfand of a leap year (ReportController.js:87), and three months
\* are those of the Gregorian calendar, 89 to 92 days (ReportController.js:76).
WindowsExact ==
  LET Period(p) == {j \in Nearby : \E range \in {RangeOf(p)} : InRange(j, range)}
      Past(n) == {j \in Nearby : Ago(j) \in 0 .. n}
  IN /\ Period("today") = {jdate}
     /\ Period("7days") = Past(6)
     /\ Period("30days") = Past(29)
     /\ Period("thisYear") = {j \in Past(366) : j[1] = jdate[1]}
     /\ Period("lastYear") =
          {j \in Nearby : j[1] = jdate[1] - 1 /\ <<j[2], j[3]>> # <<12, 30>>}
     /\ RangeOf("3months").from \in Today - 92 .. Today - 89
     /\ Period("thisYear") = {j \in Nearby : InRange(j, CustomRange(<<jdate[1], 1, 1>>, jdate))}

\* The days left to a due date are the days of the calendar at any time of day,
\* so that the figure of the dashboard, its list and the badges agree.
DueByTheDay ==
  \A j \in Nearby, minute \in Minutes :
    /\ DaysLeft(j, minute) = -Ago(j)
    /\ DueThisWeek(j, minute) <=> ChequeBadge(j, minute) = "soon"
    /\ DueThisWeek(j, minute) => DueListed(j, minute)

MonthsAgo(j) == 12 * (gdate[1] - ToDate(j)[1]) + gdate[2] - ToDate(j)[2]

\* Every sale of the last 14 days is in exactly one column of the daily chart, and
\* of the last twelve months in one of the monthly chart, up to the 28th of a month
\* (on a later day a column of a shorter month spills over into the next one,
\* DashboardView.js:246-247); and no sale is counted in two years.
ColumnsPartition ==
  /\ \A j \in Nearby : Cardinality({i \in 1 .. 14 : DailyHas(i, j)}) = IF Ago(j) \in 0 .. 13 THEN 1 ELSE 0
  /\ gdate[3] <= 28 => \A j \in Nearby :
       Cardinality({i \in 1 .. 12 : MonthlyHas(i, j)}) = IF MonthsAgo(j) \in 0 .. 11 THEN 1 ELSE 0
  /\ \A j \in Nearby : Cardinality({i \in 1 .. 5 : YearlyHas(i, j)}) <= 1

\* As days pass, the start of a period never moves back, but for three months:
\* from 31 May to 1 June it goes from 3 to 1 March.
WindowsSlideStep ==
  \A p \in {"today", "7days", "30days", "thisYear", "lastYear"} :
    RangeOf(p).from <= RangeOf(p).from'

=============================================================================
