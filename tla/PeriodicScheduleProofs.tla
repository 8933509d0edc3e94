----------------------- MODULE PeriodicScheduleProofs -----------------------
(***************************************************************************)
(* Theorems about PeriodicSchedule, for any calendar, any values clients   *)
(* write and any clock bound.                                              *)
(***************************************************************************)
EXTENDS PeriodicSchedule, ScheduleProofs

-----------------------------------------------------------------------------
(* Quotient and remainder.                                                 *)

LEMMA ProductGrows ==
  ASSUME NEW x \in Nat, NEW y \in Nat, NEW d \in Nat, x < y
  PROVE  x * d + d <= y * d
<1>1. y - x - 1 \in Nat /\ y = x + 1 + (y - x - 1)
  OBVIOUS
<1>2. y * d = x * d + d + (y - x - 1) * d
  BY <1>1
<1>3. (y - x - 1) * d \in Nat
  BY <1>1
<1> QED
  BY <1>2, <1>3

LEMMA QuotientIs ==
  ASSUME NEW q \in Nat, NEW d \in Nat \ {0}, NEW r \in Nat, r < d
  PROVE  (q * d + r) \div d = q /\ (q * d + r) % d = r
<1> DEFINE a == q * d + r
           p == a \div d
           s == a % d
<1>1. a \in Nat /\ p \in Nat /\ s \in Nat /\ s < d /\ a = p * d + s
  OBVIOUS
<1> HIDE DEF p, s
<1>2. q * d \in Nat /\ p * d \in Nat
  BY <1>1
<1>3. ~(p < q)
  BY <1>1, <1>2, ProductGrows
<1>4. ~(q < p)
  BY <1>1, <1>2, ProductGrows
<1>5. p = q
  BY <1>1, <1>3, <1>4
<1> QED
  BY <1>1, <1>2, <1>5 DEF p, s

(* A positive multiple of d is the product of d and some k > 0.            *)
LEMMA MultipleIs ==
  ASSUME NEW a \in Nat, NEW d \in Nat \ {0}, a # 0, a % d = 0
  PROVE  \E k \in Nat : a = k * d /\ k > 0 /\ a >= d
<1>1. a \div d \in Nat /\ a = (a \div d) * d
  OBVIOUS
<1>2. a \div d # 0
  BY <1>1
<1>3. 0 * d + d <= (a \div d) * d
  BY <1>1, <1>2, ProductGrows
<1> QED
  BY <1>1, <1>2, <1>3

-----------------------------------------------------------------------------
(* The calendar: a time is an hour, a minute of it and a part of that.     *)

Minutes == 0..(MinutesPerHour - 1)

PartsOfMinute == 0..(TicksPerMinute - 1)

TimeAt(h, mn, r) == h * Hour + mn * TicksPerMinute + r

LEMMA HourIs == Hour \in Nat \ {0}
BY CalendarAssumption DEF CalendarAssumption, Hour

LEMMA MinuteInHour ==
  ASSUME NEW mn \in Minutes, NEW r \in PartsOfMinute
  PROVE  /\ mn * TicksPerMinute \in Nat
         /\ mn * TicksPerMinute + TicksPerMinute <= Hour
         /\ mn * TicksPerMinute + r < Hour
<1>1. TicksPerMinute \in Nat \ {0} /\ MinutesPerHour \in Nat \ {0}
  BY CalendarAssumption DEF CalendarAssumption
<1>2. mn \in Nat /\ mn < MinutesPerHour
  BY <1>1 DEF Minutes
<1>3. mn * TicksPerMinute + TicksPerMinute <= MinutesPerHour * TicksPerMinute
  BY <1>1, <1>2, ProductGrows
<1>4. mn * TicksPerMinute \in Nat
  BY <1>1, <1>2
<1> QED
  BY <1>1, <1>3, <1>4 DEF Hour, PartsOfMinute

LEMMA TimeAtExists ==
  ASSUME NEW t \in Nat
  PROVE  \E h \in Nat, mn \in Minutes, r \in PartsOfMinute : t = TimeAt(h, mn, r)
<1> DEFINE q == t \div TicksPerMinute
           r == t % TicksPerMinute
           h == q \div MinutesPerHour
           mn == q % MinutesPerHour
<1>1. TicksPerMinute \in Nat \ {0} /\ MinutesPerHour \in Nat \ {0}
  BY CalendarAssumption DEF CalendarAssumption
<1>2. q \in Nat /\ r \in PartsOfMinute /\ t = q * TicksPerMinute + r
  BY <1>1 DEF PartsOfMinute
<1>3. h \in Nat /\ mn \in Minutes /\ q = h * MinutesPerHour + mn
  BY <1>1, <1>2 DEF Minutes
<1> HIDE DEF q, r, h, mn
<1>4. mn \in Nat /\ r \in Nat
  BY <1>1, <1>2, <1>3 DEF Minutes, PartsOfMinute
<1>5. (h * MinutesPerHour + mn) * TicksPerMinute
        = h * (TicksPerMinute * MinutesPerHour) + mn * TicksPerMinute
  BY <1>1, <1>3, <1>4
<1>6. t = TimeAt(h, mn, r)
  BY <1>2, <1>3, <1>5 DEF TimeAt, Hour
<1> QED
  BY <1>2, <1>3, <1>6

LEMMA ClockAt ==
  ASSUME NEW h \in Nat, NEW mn \in Minutes, NEW r \in PartsOfMinute
  PROVE  /\ TimeAt(h, mn, r) \in Nat
         /\ MinuteOf(TimeAt(h, mn, r)) = mn
         /\ TimeAt(h, mn, r) % TicksPerMinute = r
         /\ HourCount(TimeAt(h, mn, r)) = h
<1> DEFINE t == TimeAt(h, mn, r)
           q == h * MinutesPerHour + mn
           x == mn * TicksPerMinute + r
<1>1. /\ TicksPerMinute \in Nat \ {0} /\ MinutesPerHour \in Nat \ {0}
      /\ mn \in Nat /\ mn < MinutesPerHour
      /\ r \in Nat /\ r < TicksPerMinute
  BY CalendarAssumption DEF CalendarAssumption, Minutes, PartsOfMinute
<1>2. t = q * TicksPerMinute + r /\ q \in Nat
  BY <1>1 DEF TimeAt, Hour
<1>3. t = h * Hour + x /\ x \in Nat /\ x < Hour
  BY <1>1, MinuteInHour, HourIs DEF TimeAt
<1> HIDE DEF t, q, x
<1>4. t \div TicksPerMinute = q /\ t % TicksPerMinute = r
  BY <1>1, <1>2, QuotientIs
<1>5. q % MinutesPerHour = mn
  BY <1>1, QuotientIs DEF q
<1>6. t \div Hour = h
  BY <1>3, HourIs, QuotientIs
<1>7. t \in Nat
  BY <1>1, <1>2
<1> QED
  BY <1>4, <1>5, <1>6, <1>7 DEF MinuteOf, HourCount, t

(* updateNextPeriodicStartTime replaces the minute and keeps the rest.     *)
LEMMA SetMinuteAt ==
  ASSUME NEW h \in Nat, NEW m \in Minutes, NEW r \in PartsOfMinute,
         NEW mn \in Minutes
  PROVE  SetMinute(TimeAt(h, m, r), mn) = TimeAt(h, mn, r)
<1>1. TicksPerMinute \in Nat /\ m \in Nat /\ mn \in Nat /\ r \in Nat
  BY CalendarAssumption DEF CalendarAssumption, Minutes, PartsOfMinute
<1>2. h * Hour \in Nat
  BY HourIs
<1>3. (mn - m) * TicksPerMinute = mn * TicksPerMinute - m * TicksPerMinute
  BY <1>1
<1>4. MinuteOf(TimeAt(h, m, r)) = m
  BY ClockAt
<1>5. m * TicksPerMinute \in Nat /\ mn * TicksPerMinute \in Nat
  BY <1>1
<1> QED
  BY <1>1, <1>2, <1>3, <1>4, <1>5 DEF SetMinute, TimeAt

(* The hour of the day is replaced by one that keeps time from underflow.  *)
LEMMA SetHourType ==
  ASSUME NEW t \in Nat, NEW hr \in 0..(HoursPerDay - 1)
  PROVE  SetHour(t, hr) \in Nat
<1> DEFINE h == t \div Hour
           d == h % HoursPerDay
<1>1. h \in Nat /\ t % Hour \in Nat /\ t = h * Hour + (t % Hour)
  BY HourIs
<1>2. d \in Nat /\ d <= h
  BY <1>1, CalendarAssumption DEF CalendarAssumption
<1>3. hr \in Nat
  BY CalendarAssumption DEF CalendarAssumption
<1> HIDE DEF h, d
<1>4. (hr - d) * Hour + h * Hour = hr * Hour + (h - d) * Hour
  BY <1>1, <1>2, <1>3, HourIs
<1>5. hr * Hour \in Nat /\ (h - d) * Hour \in Nat
  BY <1>1, <1>2, <1>3, HourIs
<1>6. (hr - d) * Hour \in Int
  BY <1>2, <1>3, HourIs
<1>7. t + (hr - d) * Hour = hr * Hour + (h - d) * Hour + (t % Hour)
  <2>1. h * Hour \in Int
    BY <1>1, HourIs
  <2> QED
    BY <1>1, <1>4, <1>5, <1>6, <2>1
<1> QED
  BY <1>1, <1>5, <1>7 DEF SetHour, HourOfDay, h, d

-----------------------------------------------------------------------------
(* An hourly start time.                                                   *)

LEMMA TimeAtGrows ==
  ASSUME NEW g \in Nat, NEW h \in Nat, NEW mn \in Minutes, NEW r \in PartsOfMinute
  PROVE  /\ TimeAt(h + 1, mn, r) = TimeAt(h, mn, r) + Hour
         /\ g < h => TimeAt(g, mn, r) + Hour <= TimeAt(h, mn, r)
<1>1. mn * TicksPerMinute \in Nat /\ r \in Nat
  BY MinuteInHour DEF PartsOfMinute
<1>2. (h + 1) * Hour = h * Hour + Hour /\ h * Hour \in Nat /\ g * Hour \in Nat
  BY HourIs
<1>3. g < h => g * Hour + Hour <= h * Hour
  BY HourIs, ProductGrows
<1> QED
  BY <1>1, <1>2, <1>3, HourIs DEF TimeAt

(* The times Occurrences means, seen from a time at part r of a minute.    *)
LEMMA OccurrencesAre ==
  ASSUME NEW t \in Nat, NEW mn \in Minutes, NEW o \in Occurrences(mn, t)
  PROVE  o \in Nat /\ \E g \in Nat : o = TimeAt(g, mn, t % TicksPerMinute)
<1>1. o \in Nat /\ MinuteOf(o) = mn /\ o % TicksPerMinute = t % TicksPerMinute
  BY HourIs DEF Occurrences
<1>2. PICK g \in Nat, m \in Minutes, r \in PartsOfMinute : o = TimeAt(g, m, r)
  BY <1>1, TimeAtExists
<1>3. m = mn /\ r = t % TicksPerMinute
  BY <1>1, <1>2, ClockAt
<1> QED
  BY <1>1, <1>2, <1>3

LEMMA TimeAtOccurs ==
  ASSUME NEW t \in Nat, NEW mn \in Minutes, NEW g \in Nat, NEW r \in PartsOfMinute,
         r = t % TicksPerMinute, TimeAt(g, mn, r) <= t + Hour
  PROVE  TimeAt(g, mn, r) \in Occurrences(mn, t)
BY ClockAt, HourIs DEF Occurrences

LEMMA MinIs ==
  ASSUME NEW S \in SUBSET Nat, NEW x \in S, \A y \in S : x <= y
  PROVE  Min(S) = x
<1>1. Min(S) \in S /\ \A y \in S : Min(S) <= y
  BY MinOfTimes
<1>2. Min(S) \in Nat /\ x \in Nat
  BY <1>1
<1>3. Min(S) <= x /\ x <= Min(S)
  BY <1>1
<1> QED
  BY <1>2, <1>3

LEMMA MaxIs ==
  ASSUME NEW S \in SUBSET Nat, NEW x \in S, \A y \in S : x >= y
  PROVE  Max(S) = x
<1>1. Max(S) \in S /\ \A y \in S : Max(S) >= y
  BY DEF Max
<1>2. Max(S) \in Nat /\ x \in Nat
  BY <1>1
<1>3. Max(S) >= x /\ x >= Max(S)
  BY <1>1
<1> QED
  BY <1>2, <1>3

(* What is planned, asked at minute m of hour h: the start in this hour if *)
(* it is ahead or its run under way, else the start in the next hour.      *)
LEMMA NextHourlyAt ==
  ASSUME NEW h \in Nat, NEW m \in Minutes, NEW r \in PartsOfMinute,
         NEW mn \in Minutes, NEW t \in Nat, t = TimeAt(h, m, r),
         schdIntv * numEntr \in Nat
  PROVE  NextHourly(mn, 0, t) =
           IF TimeAt(h, mn, r) >= t \/ t < TimeAt(h, mn, r) + schdIntv * numEntr
           THEN TimeAt(h, mn, r) ELSE TimeAt(h + 1, mn, r)
<1> DEFINE start == TimeAt(h, mn, r)
<1>1. SetMinute(t, mn) = start /\ start \in Nat
  BY SetMinuteAt, ClockAt
<1>2. start + Hour = TimeAt(h + 1, mn, r)
  BY TimeAtGrows
<1>3. t < start + Hour
  <2>1. TimeAt(h, m, r) < h * Hour + Hour /\ h * Hour <= start
    <3>1. h * Hour \in Nat
      BY HourIs
    <3>2. m * TicksPerMinute + r < Hour /\ m * TicksPerMinute \in Nat
      BY MinuteInHour
    <3>3. mn * TicksPerMinute \in Nat /\ r \in Nat
      BY MinuteInHour DEF PartsOfMinute
    <3> QED
      BY <3>1, <3>2, <3>3, HourIs DEF TimeAt
  <2> HIDE DEF start
  <2>2. h * Hour \in Nat
    BY HourIs
  <2> QED
    BY <1>1, <2>1, <2>2, HourIs
<1> HIDE DEF start
<1>4. CASE start >= t
  BY <1>1, <1>4 DEF NextHourly, start
<1>5. CASE start < t /\ t < start + schdIntv * numEntr
  BY <1>1, <1>5 DEF NextHourly, WithinRun, start
<1>6. CASE start < t /\ ~(t < start + schdIntv * numEntr)
  <2>1. start + Hour >= t
    BY <1>1, <1>3, HourIs
  <2>2. NextHourly(mn, 0, t) = start + Hour
    BY <1>1, <1>6, <2>1 DEF NextHourly, WithinRun
  <2>3. ~(start >= t)
    BY <1>1, <1>6
  <2> QED
    BY <1>2, <1>6, <2>2, <2>3 DEF start
<1> QED
  BY <1>1, <1>4, <1>5, <1>6

LEMMA RunLength == ASSUME TypeOK PROVE schdIntv * numEntr \in Nat
BY DEF TypeOK

LEMMA AnyPlanIsOccurrence ==
  ASSUME TypeOK, NEW mn \in Minutes,
         mn * TicksPerMinute + TicksPerMinute + schdIntv * numEntr <= Hour
  PROVE  NextHourly(mn, 0, now) =
           IF UnderWay(mn, now) # {} THEN Max(UnderWay(mn, now))
           ELSE Min({o \in Occurrences(mn, now) : o >= now})
<1>1. now \in Nat
  BY DEF TypeOK
<1>2. PICK h \in Nat, m \in Minutes, r \in PartsOfMinute : now = TimeAt(h, m, r)
  BY <1>1, TimeAtExists
<1> DEFINE D == schdIntv * numEntr
           start == TimeAt(h, mn, r)
           Ahead == {o \in Occurrences(mn, now) : o >= now}
<1>3. D \in Nat
  BY RunLength
<1>4. now % TicksPerMinute = r
  BY <1>2, ClockAt
<1>5. start \in Nat /\ start + Hour = TimeAt(h + 1, mn, r)
  BY ClockAt, TimeAtGrows
<1>6. Ahead \in SUBSET Nat /\ UnderWay(mn, now) \in SUBSET Nat
  BY <1>1, OccurrencesAre DEF UnderWay
<1>7. /\ h * Hour <= now /\ h * Hour + r <= now /\ now < h * Hour + Hour
      /\ start = h * Hour + mn * TicksPerMinute + r
      /\ h * Hour \in Nat /\ mn * TicksPerMinute \in Nat /\ r \in Nat
      /\ r < TicksPerMinute /\ TicksPerMinute \in Nat
  <2>1. h * Hour \in Nat
    BY HourIs
  <2>2. m * TicksPerMinute \in Nat /\ m * TicksPerMinute + r < Hour
    BY MinuteInHour
  <2>3. mn * TicksPerMinute \in Nat
    BY MinuteInHour
  <2>4. r \in Nat /\ r < TicksPerMinute /\ TicksPerMinute \in Nat
    BY CalendarAssumption DEF CalendarAssumption, PartsOfMinute
  <2> QED
    BY <1>2, <2>1, <2>2, <2>3, <2>4, HourIs DEF TimeAt
(* An occurrence is the start in this hour, an hour or more before it, its *)
(* run over by now, or an hour or more after it, and then after now.       *)
<1>8. ASSUME NEW o \in Occurrences(mn, now)
      PROVE  /\ o \in Nat
             /\ \/ o = start
                \/ o + Hour <= start /\ o < now /\ ~(now < o + D)
                \/ o >= start + Hour /\ o > now
  <2>1. PICK g \in Nat : o = TimeAt(g, mn, r)
    BY <1>1, <1>4, OccurrencesAre
  <2>2. o \in Nat
    BY <1>1, OccurrencesAre
  <2>3. CASE g = h
    BY <2>1, <2>2, <2>3
  <2>4. CASE g < h
    <3>1. o + Hour <= start
      BY <2>1, <2>4, TimeAtGrows
    <3> HIDE DEF start, D
    <3>2. mn * TicksPerMinute + TicksPerMinute + D <= Hour
      BY DEF D
    <3>3. o + D <= h * Hour + r
      BY <1>3, <1>7, <2>2, <3>1, <3>2, HourIs
    <3> QED
      BY <1>1, <1>3, <1>7, <2>2, <3>1, <3>2, <3>3, HourIs
  <2>5. CASE h < g
    <3>1. start + Hour <= o
      BY <2>1, <2>5, TimeAtGrows
    <3> HIDE DEF start, D
    <3> QED
      BY <1>1, <1>5, <1>7, <2>2, <3>1, HourIs
  <2> QED
    BY <2>3, <2>4, <2>5
<1>9. start < now + Hour
  <2> HIDE DEF start
  <2>1. mn * TicksPerMinute + r < Hour
    BY MinuteInHour
  <2> QED
    BY <1>1, <1>7, <2>1, HourIs
<1>10. start \in Occurrences(mn, now)
  <2>1. start <= now + Hour
    BY <1>1, <1>5, <1>9, HourIs
  <2> QED
    BY <1>1, <1>4, <2>1, TimeAtOccurs
<1>11. NextHourly(mn, 0, now) =
         IF start >= now \/ now < start + D THEN start ELSE start + Hour
  BY <1>1, <1>2, <1>3, <1>5, NextHourlyAt
<1> HIDE DEF start, D
<1>12. CASE start >= now
  <2>1. UnderWay(mn, now) = {}
    BY <1>1, <1>3, <1>5, <1>8, <1>12, HourIs DEF UnderWay, WithinRun, D
  <2>2. start \in Ahead /\ \A o \in Ahead : start <= o
    BY <1>1, <1>5, <1>8, <1>10, <1>12, HourIs
  <2>3. Min(Ahead) = start
    BY <1>6, <2>2, MinIs
  <2> QED
    BY <1>11, <1>12, <2>1, <2>3
<1>13. CASE start < now /\ now < start + D
  <2>1. /\ start \in UnderWay(mn, now)
        /\ \A o \in UnderWay(mn, now) : start >= o
    BY <1>1, <1>3, <1>5, <1>8, <1>10, <1>13, HourIs DEF UnderWay, WithinRun, D
  <2>2. Max(UnderWay(mn, now)) = start
    BY <1>6, <2>1, MaxIs
  <2> QED
    BY <1>11, <1>13, <2>1, <2>2
<1>14. CASE start < now /\ ~(now < start + D)
  <2>1. UnderWay(mn, now) = {}
    BY <1>1, <1>3, <1>5, <1>8, <1>14, HourIs DEF UnderWay, WithinRun, D
  <2>2. start + Hour \in Occurrences(mn, now)
    <3>1. start + Hour <= now + Hour
      BY <1>1, <1>5, <1>14, HourIs
    <3> QED
      BY <1>1, <1>4, <1>5, <3>1, TimeAtOccurs
  <2>3. start + Hour \in Ahead /\ \A o \in Ahead : start + Hour <= o
    <3>1. start + Hour >= now
      BY <1>1, <1>5, <1>7, HourIs DEF start
    <3> QED
      BY <1>1, <1>5, <1>8, <1>14, <2>2, <3>1, HourIs
  <2>4. Min(Ahead) = start + Hour
    BY <1>6, <2>3, MinIs
  <2>5. ~(start >= now)
    BY <1>1, <1>5, <1>14
  <2> QED
    BY <1>11, <1>14, <2>1, <2>4, <2>5
<1> QED
  BY <1>1, <1>5, <1>12, <1>13, <1>14

-----------------------------------------------------------------------------
(* The pass over the start time objects.                                   *)

LEMMA UpdateNextType ==
  ASSUME NEW c \in CalendarTimes, NEW n \in Nat, NEW t \in Nat,
         schdIntv * numEntr \in Nat
  PROVE  UpdateNext(c, n, t) \in Nat
<1>1. /\ c.occPer \in {"Hour", "Day", "Unsupported"}
      /\ c.hr \in 0..(HoursPerDay - 1) /\ c.mn \in Minutes
  BY DEF CalendarTimes, Minutes
<1>2. SetHour(t, c.hr) \in Nat
  BY <1>1, SetHourType
<1>3. SetMinute(t, c.mn) \in Nat
  <2>1. PICK h \in Nat, m \in Minutes, r \in PartsOfMinute : t = TimeAt(h, m, r)
    BY TimeAtExists
  <2> QED
    BY <1>1, <2>1, SetMinuteAt, ClockAt
<1>4. NextDaily(c.hr, n, t) \in Nat
  <2> DEFINE start == SetHour(t, c.hr)
  <2>1. CASE start >= t
    BY <1>2, <2>1 DEF NextDaily
  <2>2. CASE start < t /\ WithinRun(start, t)
    BY <1>2, <2>2 DEF NextDaily
  <2>3. CASE start < t /\ ~WithinRun(start, t)
    BY <1>2, <2>3, HourIs DEF NextDaily
  <2> QED
    BY <1>2, <2>1, <2>2, <2>3
<1>5. NextHourly(c.mn, n, t) \in Nat
  <2> DEFINE start == SetMinute(t, c.mn)
  <2>1. CASE start >= t
    BY <1>3, <2>1 DEF NextHourly
  <2>2. CASE start < t /\ WithinRun(start, t)
    BY <1>3, <2>2 DEF NextHourly
  <2>3. CASE start < t /\ ~WithinRun(start, t)
    BY <1>3, <2>3, HourIs DEF NextHourly
  <2> QED
    BY <1>3, <2>1, <2>2, <2>3
<1> QED
  BY <1>1, <1>4, <1>5 DEF UpdateNext

(* What the pass does at position i of the list.                           *)
UpdateAt(ok, i, n, t) ==
  IF ok[StrTmOrder[i]] THEN UpdateNext(cal[StrTmOrder[i]], n, t) ELSE n

LEMMA UpdateAtType ==
  ASSUME cal \in [StrTm -> CalendarTimes], schdIntv * numEntr \in Nat,
         NEW ok, NEW t \in Nat, NEW i \in 1..Len(StrTmOrder), NEW n \in Nat
  PROVE  UpdateAt(ok, i, n, t) \in Nat
<1>1. cal[StrTmOrder[i]] \in CalendarTimes
  BY CalendarAssumption DEF CalendarAssumption
<1> QED
  BY <1>1, UpdateNextType DEF UpdateAt

(* NextPeriodic is the result of such a pass, which starts with 0.         *)
LEMMA NextPeriodicIs ==
  ASSUME cal \in [StrTm -> CalendarTimes], schdIntv * numEntr \in Nat,
         NEW ok, NEW t \in Nat
  PROVE  \E g :
           /\ \A i \in 0..Len(StrTmOrder) :
                g[i] = IF i = 0 THEN 0 ELSE UpdateAt(ok, i, g[i - 1], t)
           /\ NextPeriodic(ok, t) = g[Len(StrTmOrder)]
<1> DEFINE f == [i \in 1..Len(StrTmOrder) |-> [n \in Nat |-> UpdateAt(ok, i, n, t)]]
           P(g) == g = [i \in 0..Len(StrTmOrder) |->
                          IF i = 0 THEN 0
                          ELSE IF ok[StrTmOrder[i]]
                               THEN UpdateNext(cal[StrTmOrder[i]], g[i - 1], t)
                               ELSE g[i - 1]]
<1>1. Len(StrTmOrder) \in Nat
  BY CalendarAssumption DEF CalendarAssumption
<1>2. f \in [1..Len(StrTmOrder) -> [Nat -> Nat]]
  BY UpdateAtType
<1>3. PICK e \in [0..Len(StrTmOrder) -> Nat] :
        IsPassOf(e, Len(StrTmOrder), 0, f)
  <2>1. 0 \in Nat
    OBVIOUS
  <2> HIDE DEF f
  <2> QED
    BY <1>1, <1>2, <2>1, PassOfExists
<1>4. ASSUME NEW i \in 0..Len(StrTmOrder)
      PROVE  e[i] = IF i = 0 THEN 0 ELSE UpdateAt(ok, i, e[i - 1], t)
  <2>1. i # 0 => i \in 1..Len(StrTmOrder) /\ e[i - 1] \in Nat
    BY <1>1
  <2> QED
    BY <1>3, <2>1 DEF IsPassOf
<1>5. P(e)
  BY <1>4 DEF UpdateAt
<1>6. P(CHOOSE g : P(g))
  BY <1>5, Zenon
<1>7. NextPeriodic(ok, t) = (CHOOSE g : P(g))[Len(StrTmOrder)]
  BY Zenon DEF NextPeriodic
<1>8. PICK g : P(g) /\ NextPeriodic(ok, t) = g[Len(StrTmOrder)]
  BY <1>6, <1>7, Zenon
<1>9. \A i \in 0..Len(StrTmOrder) :
        g[i] = IF i = 0 THEN 0 ELSE UpdateAt(ok, i, g[i - 1], t)
  BY <1>8 DEF UpdateAt
<1> QED
  BY <1>8, <1>9

LEMMA NextPeriodicType ==
  ASSUME cal \in [StrTm -> CalendarTimes], schdIntv * numEntr \in Nat,
         NEW ok, NEW t \in Nat
  PROVE  NextPeriodic(ok, t) \in Nat
<1>1. PICK g :
        /\ \A i \in 0..Len(StrTmOrder) :
             g[i] = IF i = 0 THEN 0 ELSE UpdateAt(ok, i, g[i - 1], t)
        /\ NextPeriodic(ok, t) = g[Len(StrTmOrder)]
  BY NextPeriodicIs
<1> DEFINE S == {i \in 0..Len(StrTmOrder) : g[i] \in Nat}
<1>2. Len(StrTmOrder) \in Nat
  BY CalendarAssumption DEF CalendarAssumption
<1>3. 0 \in S
  BY <1>1, <1>2
<1>4. ASSUME NEW i \in 0..(Len(StrTmOrder) - 1), i \in S PROVE i + 1 \in S
  <2>1. i + 1 \in 1..Len(StrTmOrder) /\ (i + 1) - 1 = i
    BY <1>2
  <2>2. g[i + 1] = UpdateAt(ok, i + 1, g[i], t)
    BY <1>1, <1>2, <2>1
  <2>3. g[i + 1] \in Nat
    BY <1>4, <2>1, <2>2, UpdateAtType
  <2> QED
    BY <1>2, <2>1, <2>3
<1> HIDE DEF S
<1>5. 0..Len(StrTmOrder) \subseteq S
  BY <1>2, <1>3, <1>4, PositionInduction
<1>6. Len(StrTmOrder) \in S
  BY <1>2, <1>5
<1> QED
  BY <1>1, <1>6 DEF S

-----------------------------------------------------------------------------
(* The inductive invariant.  A periodic schedule may plan a time that lies *)
(* before the last start, so TimesOrdered of ScheduleProofs does not hold. *)

PInv ==
  /\ RInv
  /\ cal \in [StrTm -> SetCals]
  /\ touched \in 0..2
  /\ Hour <= now

LEMMA PInvTypes ==
  ASSUME PInv
  PROVE  /\ TypeOK /\ RunTimesOrdered
         /\ cal \in [StrTm -> CalendarTimes]
         /\ schdIntv * numEntr \in Nat
         /\ now \in Nat
BY RunLength, CalendarAssumption DEF PInv, RInv, TypeOK, CalendarAssumption

LEMMA PlanType == ASSUME PInv, NEW ok PROVE Plan(ok) \in Nat
BY PInvTypes, NextPeriodicType DEF Plan, TypeOK

LEMMA PInvInit == PeriodicInit => PInv
<1> SUFFICES ASSUME PeriodicInit PROVE PInv
  OBVIOUS
<1>1. RInv
  BY IInvInit DEF PeriodicInit, IInv, RInv, TimesOrdered
<1> QED
  BY <1>1, CalendarAssumption, HourIs
     DEF PeriodicInit, Init, PInv, CalendarAssumption

LEMMA ThreadKeepsPInv == ASSUME PInv, PeriodicThreadStep PROVE PInv'
<1> USE DEF NOT_READY, READY, RUNNING, States
<1>t. /\ TypeOK /\ RunTimesOrdered /\ now \in Nat
      /\ cal \in [StrTm -> CalendarTimes]
      /\ schdIntv * numEntr \in Nat
  BY PInvTypes
<1>1. CASE RunStep /\ UNCHANGED <<cal, touched>>
  <2>1. RInv'
    BY <1>1, RunStepKeepsRInv DEF PInv
  <2>2. now' = now
    BY <1>1 DEF RunStep, Poll, RunEntry, SameEntry, Commit, ClearSchdEntr
  <2> QED
    BY <1>1, <2>1, <2>2 DEF PInv
<1>2. ASSUME NEW ok \in Returns, KeepWaitingPeriodic(ok) PROVE PInv'
  <2>1. TypeOK'
    BY <1>2, <1>t, PlanType
       DEF KeepWaitingPeriodic, EndIteration, TypeOK, clientVars, statusVars
  <2> QED
    BY <1>2, <2>1 DEF KeepWaitingPeriodic, EndIteration, PInv, RInv,
                      RunTimesOrdered
<1>3. ASSUME NEW ok \in Returns, NEW okNext \in Returns, StartPeriodic(ok, okNext)
      PROVE  PInv'
  <2>1. /\ Plan(ok) \in Nat /\ Plan(ok) # 0
        /\ Plan(ok) < tTime /\ tTime <= now
    BY <1>3, <1>t, PlanType DEF StartPeriodic, PlanIsDue, RunTimesOrdered
  <2>2. strTm' \in [StrTm -> Nat]
    BY <1>3, <1>t, <2>1, EraseStartTimeType DEF StartPeriodic, TypeOK
  <2>3. nextStartTime' \in Nat
    BY <1>3, <1>t, NextPeriodicType DEF StartPeriodic
  <2>4. actStrTmGood' \in BOOLEAN /\ valGood' \in BOOLEAN /\ allow' \in Access
    BY <1>3, <1>t DEF StartPeriodic, TypeOK
  <2>5. TypeOK'
    BY <1>3, <1>t, <2>1, <2>2, <2>3, <2>4
       DEF StartPeriodic, BeginRun, ReachCommit, TypeOK
  <2>6. RunTimesOrdered'
    BY <1>3, <1>t, <2>1
       DEF StartPeriodic, BeginRun, ReachCommit, TypeOK, RunTimesOrdered
  <2>7. touched' \in 0..2
    BY <1>3 DEF StartPeriodic, PInv
  <2> QED
    BY <1>3, <2>5, <2>6, <2>7 DEF StartPeriodic, PInv, RInv
<1>4. ASSUME NEW ok \in Returns, EndPeriodic(ok) PROVE PInv'
  <2>1. nextStartTime' \in Nat
    BY <1>4, <1>t, NextPeriodicType DEF EndPeriodic
  <2>2. actStrTmGood' \in BOOLEAN /\ valGood' \in BOOLEAN
    BY <1>4 DEF EndPeriodic
  <2>3. tNew' \in States /\ tNew' # RUNNING /\ pc' = "commit"
        /\ UNCHANGED <<tState, tTime>>
    BY <1>4 DEF EndPeriodic, ReachCommit
  <2>4. TypeOK'
    BY <1>4, <1>t, <2>1, <2>2, <2>3 DEF EndPeriodic, TypeOK, clientVars
  <2>5. RunTimesOrdered'
    BY <1>4, <1>t, <2>3 DEF EndPeriodic, RunTimesOrdered
  <2> QED
    BY <1>4, <2>4, <2>5 DEF EndPeriodic, PInv, RInv
<1>5. CASE CrashPeriodic
  BY <1>5 DEF CrashPeriodic, PInv, RInv, TypeOK, RunTimesOrdered, clientVars,
              statusVars, runVars
<1> QED
  BY <1>1, <1>2, <1>3, <1>4, <1>5 DEF PeriodicThreadStep, RunStep

LEMMA EnablePeriodicKeepsPInv ==
  ASSUME PInv, EnablePeriodic, touched' \in 0..2
  PROVE  PInv'
<1> USE DEF NOT_READY, READY, RUNNING, States
<1>1. EnablingError \in EnablingErrors
  BY DEF EnablingError, EnablingErrors, GenericChecks
<1>2. TypeOK'
  BY <1>1, PInvTypes DEF EnablePeriodic, TypeOK, clientVars, threadVars
<1>3. RunTimesOrdered'
  BY PInvTypes DEF EnablePeriodic, RunTimesOrdered, threadVars
<1> QED
  BY <1>2, <1>3 DEF EnablePeriodic, PInv, RInv

LEMMA PInvStep == PInv /\ [PeriodicNext]_periodicVars => PInv'
<1> SUFFICES ASSUME PInv, [PeriodicNext]_periodicVars PROVE PInv'
  OBVIOUS
<1> USE DEF NOT_READY, READY, RUNNING, States
<1>t. TypeOK /\ RunTimesOrdered /\ touched \in 0..2 /\ now \in Nat
  BY PInvTypes DEF PInv
<1>1. CASE PeriodicThreadStep
  BY <1>1, ThreadKeepsPInv
<1>2. ASSUME NEW ok \in Returns, PublishEnabledPeriodic(ok) PROVE PInv'
  <2>1. nxtStrTm' \in Nat
    BY <1>2, PInvTypes, NextPeriodicType DEF PublishEnabledPeriodic
  <2>2. TypeOK'
    BY <1>2, <1>t, <2>1
       DEF PublishEnabledPeriodic, TypeOK, EnablingErrors, clientVars, runVars,
           threadVars
  <2> QED
    BY <1>2, <2>2 DEF PublishEnabledPeriodic, PInv, RInv, RunTimesOrdered,
                      runVars, threadVars
<1>3. ASSUME NEW s \in StrTm, NEW c \in SetCals, WriteSetCal(s, c), touched' = 2
      PROVE  PInv'
  <2>1. RInv'
    BY <1>3, <1>t DEF WriteSetCal, vars, RInv, TypeOK, RunTimesOrdered,
           clientVars, statusVars, runVars, threadVars
  <2> QED
    BY <1>3, <2>1 DEF WriteSetCal, vars, PInv
<1>4. ASSUME EnaReqStep \/ ClientStep \/ ApplicationStep, UNCHANGED <<now, cal>>,
             touched' \in 0..2
      PROVE  PInv'
  BY <1>4, ServerKeepsRInv DEF PInv
<1>5. CASE WritePeriodic
  <2>1. touched' = 2 /\ touched' \in 0..2
    BY <1>5 DEF WritePeriodic
  <2>2. ASSUME NEW n \in NumEntrValues, WriteNumEntr(n), UNCHANGED cal PROVE PInv'
    <3>1. now' = now
      BY <2>2 DEF WriteNumEntr
    <3> QED
      BY <1>4, <2>1, <2>2, <3>1 DEF ClientStep
  <2>3. ASSUME NEW i \in SchdIntvValues, WriteSchdIntv(i), UNCHANGED cal PROVE PInv'
    <3>1. now' = now
      BY <2>3 DEF WriteSchdIntv
    <3> QED
      BY <1>4, <2>1, <2>3, <3>1 DEF ClientStep
  <2> QED
    BY <1>3, <1>5, <2>1, <2>2, <2>3 DEF WritePeriodic
<1>6. CASE Enable
  <2>1. EnablePeriodic /\ touched' \in 0..2
    BY <1>6, <1>t DEF Enable, EnableByRequest, EnableByApplication
  <2> QED
    BY <2>1, EnablePeriodicKeepsPInv
<1>7. CASE ServeOther
  <2>1. UNCHANGED <<cal, touched>>
    BY <1>7 DEF ServeOther
  <2>2. CASE Tick
    BY <1>t, <2>1, <2>2, HourIs
       DEF Tick, PInv, RInv, TypeOK, RunTimesOrdered, clientVars, statusVars,
           runVars, threadVars
  <2>3. CASE ~Tick
    <3>1. EnaReqStep \/ ClientStep \/ ApplicationStep
      BY <1>7, <2>3 DEF ServeOther, EnaReqStep, ClientStep, ApplicationStep
    <3>2. now' = now
      BY <1>7, <2>3 DEF ServeOther, CheckEnaReq, OperateDsaReq,
             ApplicationDisables, DisableSchedule, WriteValue,
             ApplicationSetsAccess
    <3> QED
      BY <1>4, <1>t, <2>1, <3>1, <3>2
  <2> QED
    BY <2>2, <2>3
<1>8. CASE UNCHANGED periodicVars
  BY <1>8, <1>t
     DEF periodicVars, vars, PInv, RInv, TypeOK, RunTimesOrdered, clientVars,
         statusVars, runVars, threadVars
<1> QED
  BY <1>1, <1>2, <1>5, <1>6, <1>7, <1>8 DEF PeriodicNext

LEMMA PInvHolds == PeriodicSpec => []PInv
BY PInvInit, PInvStep, PTL DEF PeriodicSpec

(* The schedule keeps its types, and its calendar attributes theirs: no    *)
(* time computed from a calendar falls below 0, where the unsigned         *)
(* arithmetic of updateNextPeriodicStartTime would wrap around.            *)
THEOREM PeriodicTypeCorrect == PeriodicSpec => []PeriodicTypeOK
<1>1. PInv => PeriodicTypeOK
  BY PInvTypes DEF PInv, PeriodicTypeOK
<1> QED
  BY <1>1, PInvHolds, PTL

(* A periodic schedule does not run before its start time either.          *)
THEOREM PeriodicNeverEarly == PeriodicSpec => []NeverEarly
<1>1. PInv => NeverEarly
  BY PInvTypes DEF TypeOK, RunTimesOrdered, NeverEarly
<1> QED
  BY <1>1, PInvHolds, PTL

(* The start planned for an hourly schedule is the occurrence that a run   *)
(* should be under way from, else the next one.                            *)
THEOREM PlansOccurrenceHolds == PeriodicSpec => []PlansOccurrence
<1>1. PInv => PlansOccurrence
  BY PInvTypes, AnyPlanIsOccurrence DEF PlansOccurrence, Minutes
<1> QED
  BY <1>1, PInvHolds, PTL

-----------------------------------------------------------------------------
(* RunIsReported, by the invariant Reporting of ScheduleProofs.            *)

LEMMA PeriodicKeepsReporting ==
  ASSUME PInv, Reporting, [PeriodicNext]_periodicVars
  PROVE  Reporting'
<1> USE DEF NOT_READY, READY, RUNNING
<1>1. CASE RunStep
  BY <1>1, RunStepKeepsReporting DEF PInv
<1>2. ASSUME NEW ok \in Returns, KeepWaitingPeriodic(ok) PROVE Reporting'
  BY <1>2 DEF KeepWaitingPeriodic, EndIteration, statusVars, Reporting
<1>3. ASSUME NEW ok \in Returns, NEW okNext \in Returns, StartPeriodic(ok, okNext)
      PROVE  Reporting'
  BY <1>3 DEF StartPeriodic, BeginRun, ReachCommit, Reporting
<1>4. ASSUME NEW ok \in Returns, EndPeriodic(ok) PROVE Reporting'
  BY <1>4 DEF EndPeriodic, ReachCommit, Reporting
<1>5. CASE CrashPeriodic
  BY <1>5 DEF CrashPeriodic, Reporting
<1>6. CASE \/ \E ok \in Returns : PublishEnabledPeriodic(ok)
           \/ WritePeriodic \/ Enable \/ ServeOther
           \/ UNCHANGED periodicVars
  <2>1. LeavesRun
    BY <1>6
       DEF LeavesRun, PublishEnabledPeriodic, WritePeriodic, WriteSetCal,
           WriteNumEntr, WriteSchdIntv, Enable, EnableByRequest,
           EnableByApplication, EnablePeriodic, ServeOther, CheckEnaReq,
           OperateDsaReq, ApplicationDisables, DisableSchedule, WriteValue,
           ApplicationSetsAccess, Tick, periodicVars, vars, statusVars,
           runVars, threadVars
  <2> QED
    BY <2>1, LeavesRunKeepsReporting
<1> QED
  BY <1>1, <1>2, <1>3, <1>4, <1>5, <1>6
     DEF PeriodicNext, PeriodicThreadStep, RunStep

(* A RUNNING periodic schedule reports the start and the entry of its own  *)
(* run.                                                                    *)
THEOREM PeriodicRunIsReported == PeriodicSpec => []RunIsReported
<1>1. PeriodicInit => Reporting
  BY DEF PeriodicInit, Init, Reporting, NOT_READY, READY, RUNNING
<1>2. PInv /\ Reporting /\ [PeriodicNext]_periodicVars => Reporting'
  BY PeriodicKeepsReporting
<1>3. Reporting => RunIsReported
  BY DEF Reporting, RunIsReported, EntryReported
<1> QED
  BY <1>1, <1>2, <1>3, PInvHolds, PTL DEF PeriodicSpec

-----------------------------------------------------------------------------
(* EntriesInOrder, by the invariant EntriesDue of ScheduleProofs.          *)

(* Requests, writes, and iterations of the thread that publish nothing.    *)
PeriodicLeavesEntries ==
  \/ \E ok \in Returns :
       KeepWaitingPeriodic(ok) \/ EndPeriodic(ok) \/ PublishEnabledPeriodic(ok)
  \/ CrashPeriodic \/ WritePeriodic \/ Enable
  \/ (ServeOther /\ ~Tick)
  \/ UNCHANGED periodicVars

LEMMA OthersLeaveEntries ==
  ASSUME PeriodicLeavesEntries PROVE LeavesEntries /\ UNCHANGED schdEntr
<1>1. CASE \E ok \in Returns : KeepWaitingPeriodic(ok) \/ EndPeriodic(ok)
  BY <1>1 DEF KeepWaitingPeriodic, EndPeriodic, EndIteration, ReachCommit,
              LeavesEntries, statusVars
<1>2. CASE \E ok \in Returns : PublishEnabledPeriodic(ok)
  BY <1>2 DEF PublishEnabledPeriodic, LeavesEntries, runVars, threadVars
<1>3. CASE CrashPeriodic \/ Enable \/ UNCHANGED periodicVars
  BY <1>3 DEF CrashPeriodic, Enable, EnableByRequest, EnableByApplication,
              EnablePeriodic, LeavesEntries, periodicVars, vars, statusVars,
              runVars, threadVars
<1>4. CASE WritePeriodic \/ (ServeOther /\ ~Tick)
  BY <1>4 DEF WritePeriodic, WriteSetCal, WriteNumEntr, WriteSchdIntv,
              ServeOther, CheckEnaReq, OperateDsaReq, ApplicationDisables,
              DisableSchedule, WriteValue, ApplicationSetsAccess,
              LeavesEntries, vars, statusVars, runVars, threadVars
<1> QED
  BY <1>1, <1>2, <1>3, <1>4 DEF PeriodicLeavesEntries

LEMMA PeriodicKeepsEntriesDue ==
  ASSUME PInv, EntriesDue, [PeriodicNext]_periodicVars PROVE EntriesDue'
<1>1. CASE RunStep
  BY <1>1, RunStepKeepsEntriesDue DEF PInv
<1>2. ASSUME NEW ok \in Returns, NEW okNext \in Returns, StartPeriodic(ok, okNext)
      PROVE  EntriesDue'
  <2>1. startTime' \in Nat /\ startTime' < now /\ now \in Nat
        /\ entryDurationInMs' \in Nat
    BY <1>2, PlanType, PInvTypes
       DEF StartPeriodic, BeginRun, PlanIsDue, TypeOK, RunTimesOrdered
  <2>2. currentEntryIdx' = -2 /\ pc' = "commit" /\ UNCHANGED now
    BY <1>2 DEF StartPeriodic, BeginRun, ReachCommit
  <2> QED
    BY <2>1, <2>2, StartKeepsEntriesDue
<1>3. CASE Tick
  BY <1>3, TickKeepsEntriesDue DEF PInv
<1>4. CASE PeriodicLeavesEntries
  BY <1>4, OthersLeaveEntries, LeavesEntriesKeepsEntriesDue
<1> QED
  BY <1>1, <1>2, <1>3, <1>4
     DEF PeriodicNext, PeriodicThreadStep, RunStep, PeriodicLeavesEntries

(* SchdEntr of a periodic schedule never goes back within a run, though a  *)
(* run may start before the last one (a client has changed the calendar).  *)
THEOREM PeriodicEntriesInOrder == PeriodicSpec => EntriesInOrder
<1>1. PeriodicInit => EntriesDue
  BY EntriesDueInit DEF PeriodicInit
<1>2. PInv /\ EntriesDue /\ [PeriodicNext]_periodicVars => EntriesDue'
  BY PeriodicKeepsEntriesDue
<1>3. PInv /\ EntriesDue /\ [PeriodicNext]_periodicVars
        => [schdEntr' < schdEntr => schdEntr' = 0 \/ currentEntryIdx = -2]_vars
  <2> SUFFICES ASSUME PInv, EntriesDue, [PeriodicNext]_periodicVars,
                      schdEntr' < schdEntr
               PROVE  schdEntr' = 0 \/ currentEntryIdx = -2
    OBVIOUS
  <2>1. schdEntr' # schdEntr
    BY DEF PInv, RInv, TypeOK
  <2>2. CASE RunStep
    BY <2>2, RunStepMovesForward DEF PInv
  <2>3. CASE \E ok, okNext \in Returns : StartPeriodic(ok, okNext)
    BY <2>1, <2>3 DEF StartPeriodic
  <2>4. CASE Tick
    BY <2>1, <2>4 DEF Tick, statusVars
  <2>5. CASE PeriodicLeavesEntries
    BY <2>1, <2>5, OthersLeaveEntries
  <2> QED
    BY <2>2, <2>3, <2>4, <2>5
       DEF PeriodicNext, PeriodicThreadStep, RunStep, PeriodicLeavesEntries
<1> QED
  BY <1>1, <1>2, <1>3, PInvHolds, PTL DEF PeriodicSpec, EntriesInOrder

-----------------------------------------------------------------------------
(* StaysEnabled, for hourly start times.                                   *)

AllHourly == StrTm # {} /\ \A c \in SetCals : c.occPer = "Hour"

(* Some time ahead or under way is found whatever was found before it.     *)
LEMMA NextHourlyIsSet ==
  ASSUME NEW mn \in Minutes, NEW n \in Nat, NEW t \in Nat, Hour <= t
  PROVE  NextHourly(mn, n, t) # 0
<1>1. PICK h \in Nat, m \in Minutes, r \in PartsOfMinute : t = TimeAt(h, m, r)
  BY TimeAtExists
<1> DEFINE start == TimeAt(h, mn, r)
<1>2. SetMinute(t, mn) = start /\ start \in Nat
  BY <1>1, SetMinuteAt, ClockAt
<1>3. /\ h * Hour \in Nat
      /\ t < h * Hour + Hour /\ start >= h * Hour
  <2>1. h * Hour \in Nat
    BY HourIs
  <2>2. /\ m * TicksPerMinute \in Nat /\ m * TicksPerMinute + r < Hour
        /\ mn * TicksPerMinute \in Nat /\ r \in Nat
    BY MinuteInHour DEF PartsOfMinute
  <2> QED
    BY <1>1, <2>1, <2>2, HourIs DEF TimeAt
<1>4. h # 0
  BY <1>3, HourIs
<1>5. h * Hour >= Hour
  BY <1>4, HourIs
<1>6. start >= Hour /\ start + Hour > t
  <2> HIDE DEF start
  <2> QED
    BY <1>2, <1>3, <1>5, HourIs
<1> HIDE DEF start
<1>7. CASE start >= t
  BY <1>2, <1>6, <1>7, HourIs DEF NextHourly
<1>8. CASE start < t /\ WithinRun(start, t)
  BY <1>2, <1>6, <1>8, HourIs DEF NextHourly
<1>9. CASE start < t /\ ~WithinRun(start, t)
  BY <1>2, <1>6, <1>9, HourIs DEF NextHourly
<1> QED
  BY <1>2, <1>7, <1>8, <1>9

LEMMA NextPeriodicIsSet ==
  ASSUME PInv, AllHourly, NEW ok, \A s \in StrTm : ok[s] = TRUE
  PROVE  NextPeriodic(ok, now) # 0
<1>t. /\ now \in Nat /\ Hour <= now
      /\ cal \in [StrTm -> CalendarTimes]
      /\ schdIntv * numEntr \in Nat
  BY PInvTypes DEF PInv
<1>1. PICK g :
        /\ \A i \in 0..Len(StrTmOrder) :
             g[i] = IF i = 0 THEN 0 ELSE UpdateAt(ok, i, g[i - 1], now)
        /\ NextPeriodic(ok, now) = g[Len(StrTmOrder)]
  BY <1>t, NextPeriodicIs
<1> DEFINE S == {i \in 0..Len(StrTmOrder) : g[i] \in Nat /\ (i # 0 => g[i] # 0)}
<1>2. Len(StrTmOrder) \in Nat /\ Len(StrTmOrder) # 0
  BY CalendarAssumption DEF CalendarAssumption, AllHourly, ToSet
<1>3. 0 \in S
  BY <1>1, <1>2
<1>4. ASSUME NEW i \in 0..(Len(StrTmOrder) - 1), i \in S PROVE i + 1 \in S
  <2>1. i + 1 \in 1..Len(StrTmOrder) /\ (i + 1) - 1 = i
    BY <1>2
  <2>2. g[i + 1] = UpdateAt(ok, i + 1, g[i], now)
    BY <1>1, <1>2, <2>1
  <2>3. StrTmOrder[i + 1] \in StrTm
    BY <2>1, CalendarAssumption DEF CalendarAssumption
  <2> DEFINE c == cal[StrTmOrder[i + 1]]
  <2>4. c \in CalendarTimes /\ c.occPer = "Hour"
    BY <1>t, <2>3 DEF PInv, AllHourly
  <2>5. c.mn \in Minutes
    BY <2>4 DEF CalendarTimes, Minutes
  <2>6. g[i + 1] = NextHourly(c.mn, g[i], now)
    BY <2>2, <2>3, <2>4 DEF UpdateAt, UpdateNext
  <2>7. g[i + 1] # 0
    BY <1>t, <1>4, <2>5, <2>6, NextHourlyIsSet
  <2>8. g[i + 1] \in Nat
    BY <1>t, <1>4, <2>1, <2>2, UpdateAtType
  <2> QED
    BY <1>2, <2>1, <2>7, <2>8
<1> HIDE DEF S
<1>5. 0..Len(StrTmOrder) \subseteq S
  BY <1>2, <1>3, <1>4, PositionInduction
<1>6. Len(StrTmOrder) \in S
  BY <1>2, <1>5
<1> QED
  BY <1>1, <1>2, <1>6 DEF S

(* The end of a run leaves a schedule with hourly start times READY: the   *)
(* start in the next hour is always found.  (A daily one is not: see the   *)
(* run that finds StaysEnabled violated.)                                  *)
THEOREM HourlyStaysEnabled ==
  ASSUME AllHourly
  PROVE  PeriodicSpec => StaysEnabled
<1> DEFINE good == [s \in StrTm |-> TRUE]
<1>1. ASSUME PInv, EndPeriodic(good) PROVE tNew' = READY
  <2>1. NextPeriodic(good, now) # 0
    BY <1>1, NextPeriodicIsSet
  <2> QED
    BY <1>1, <2>1 DEF EndPeriodic, ReachCommit
<1>2. PInv /\ [PeriodicNext]_periodicVars
        => [EndPeriodic([s \in StrTm |-> TRUE]) => tNew' = READY]_periodicVars
  BY <1>1
<1> QED
  BY <1>2, PInvHolds, PTL DEF PeriodicSpec, StaysEnabled

-----------------------------------------------------------------------------
(* OncePerHour, for one start time object.                                 *)

OneStrTmObject == Len(StrTmOrder) = 1

TheCal == cal[StrTmOrder[1]]

IsHourly == TheCal.occPer = "Hour"

(* The runs the property is about. *)
Steady == IsHourly /\ numEntr > 0 /\ (schdIntv * numEntr) % TicksPerMinute = 0

HourAhead ==
  nextStartTime # 0 /\ HourCount(nextStartTime) > HourCount(startTime)

(* What is planned, and what has run, is at the minute of the start time   *)
(* object unless a client has changed that meanwhile.                      *)
KeepsMinute ==
  /\ touched <= 1 /\ IsHourly /\ nextStartTime # 0
       => MinuteOf(nextStartTime) = TheCal.mn
  /\ touched = 0 /\ IsHourly /\ startTime # 0
       => MinuteOf(startTime) = TheCal.mn

(* The run is the one the data model describes. *)
AsWritten ==
  touched = 0 /\ startTime # 0
    => entryDurationInMs = schdIntv /\ numberOfScheduleEntries = numEntr

(* A schedule that waits after a run waits for a later hour.               *)
WaitsForNextHour ==
  touched = 0 /\ startTime # 0 /\ Steady =>
    /\ schdSt = READY => HourAhead \/ (pc = "commit" /\ tNew = RUNNING)
    /\ pc = "act" /\ tState = READY => HourAhead
    /\ pc = "commit" /\ tNew = READY => HourAhead

(* Nobody made the state READY behind the back of a run.                   *)
NotReenabled ==
  touched = 0 /\ pc = "act" /\ tState = RUNNING => schdSt # READY

(* Before the first start only EnaReq wakes the thread.                    *)
FirstIsEnabled ==
  touched = 0 /\ startTime = 0 => schdSt = NOT_READY /\ pc = "poll"

HourlyInv ==
  KeepsMinute /\ AsWritten /\ WaitsForNextHour /\ NotReenabled /\ FirstIsEnabled

LEMMA TheStrTm == ASSUME OneStrTmObject PROVE StrTmOrder[1] \in StrTm
<1>1. StrTmOrder \in Seq(StrTm)
  BY CalendarAssumption DEF CalendarAssumption
<1>2. 1 \in 1..Len(StrTmOrder)
  BY DEF OneStrTmObject
<1> QED
  BY <1>1, <1>2

LEMMA TheCalType ==
  ASSUME PInv, OneStrTmObject
  PROVE  TheCal \in CalendarTimes /\ (IsHourly => TheCal.mn \in Minutes)
BY TheStrTm, PInvTypes DEF TheCal, CalendarTimes, Minutes

(* With one object a plan is its next hourly time, or none.                *)
LEMMA OneObjectPlan ==
  ASSUME PInv, OneStrTmObject, IsHourly, NEW ok
  PROVE  NextPeriodic(ok, now) \in {0, NextHourly(TheCal.mn, 0, now)}
<1>1. PICK g :
        /\ \A i \in 0..Len(StrTmOrder) :
             g[i] = IF i = 0 THEN 0 ELSE UpdateAt(ok, i, g[i - 1], now)
        /\ NextPeriodic(ok, now) = g[Len(StrTmOrder)]
  BY PInvTypes, NextPeriodicIs
<1>2. g[0] = 0 /\ g[1] = UpdateAt(ok, 1, g[0], now) /\ NextPeriodic(ok, now) = g[1]
  BY <1>1 DEF OneStrTmObject
<1> QED
  BY <1>2, TheCalType DEF UpdateAt, UpdateNext, TheCal, IsHourly

LEMMA PlanAtMinute ==
  ASSUME PInv, OneStrTmObject, IsHourly, NEW ok, NextPeriodic(ok, now) # 0
  PROVE  MinuteOf(NextPeriodic(ok, now)) = TheCal.mn
<1>1. NextPeriodic(ok, now) = NextHourly(TheCal.mn, 0, now)
  BY OneObjectPlan
<1>2. TheCal.mn \in Minutes /\ now \in Nat /\ schdIntv * numEntr \in Nat
  BY TheCalType, PInvTypes
<1>3. PICK h \in Nat, m \in Minutes, r \in PartsOfMinute : now = TimeAt(h, m, r)
  BY <1>2, TimeAtExists
<1>4. NextHourly(TheCal.mn, 0, now)
        \in {TimeAt(h, TheCal.mn, r), TimeAt(h + 1, TheCal.mn, r)}
  BY <1>2, <1>3, NextHourlyAt
<1> QED
  BY <1>1, <1>2, <1>4, ClockAt

(* A run of whole minutes that is over now began in an earlier hour than   *)
(* the one that is planned now.                                            *)
LEMMA NextHourlyIsLater ==
  ASSUME NEW mn \in Minutes, NEW s \in Nat, NEW t \in Nat,
         MinuteOf(s) = mn, schdIntv * numEntr \in Nat,
         schdIntv * numEntr # 0, (schdIntv * numEntr) % TicksPerMinute = 0,
         s + schdIntv * numEntr <= t
  PROVE  HourCount(NextHourly(mn, 0, t)) > HourCount(s)
<1> DEFINE D == schdIntv * numEntr
           T == TicksPerMinute
<1>1. T \in Nat /\ T > 0
  BY CalendarAssumption DEF CalendarAssumption
<1>2. PICK k \in Nat : D = k * T /\ k > 0 /\ D >= T
  <2>1. D \in Nat /\ D # 0 /\ D % T = 0 /\ T \in Nat \ {0}
    BY <1>1
  <2> HIDE DEF D, T
  <2> QED
    BY <2>1, MultipleIs, Zenon
<1>3. PICK g \in Nat, rs \in PartsOfMinute : s = TimeAt(g, mn, rs)
  BY TimeAtExists, ClockAt
<1>4. PICK h \in Nat, m \in Minutes, r \in PartsOfMinute : t = TimeAt(h, m, r)
  BY TimeAtExists
<1>5. /\ r \in Nat /\ rs \in Nat /\ r < T /\ rs < T
      /\ m \in Nat /\ mn \in Nat /\ m * T \in Nat /\ mn * T \in Nat
      /\ m * T + T <= Hour /\ mn * T + T <= Hour
      /\ h * Hour \in Nat /\ g * Hour \in Nat
  <2>1. m \in Nat /\ mn \in Nat /\ r \in Nat /\ rs \in Nat /\ r < T /\ rs < T
    BY <1>1, CalendarAssumption DEF PartsOfMinute, Minutes, CalendarAssumption
  <2>2. /\ m * T \in Nat /\ mn * T \in Nat
        /\ m * T + T <= Hour /\ mn * T + T <= Hour
    BY MinuteInHour
  <2>3. h * Hour \in Nat /\ g * Hour \in Nat
    BY HourIs
  <2> QED
    BY <2>1, <2>2, <2>3
<1>6. s = g * Hour + mn * T + rs /\ t = h * Hour + m * T + r
  BY <1>3, <1>4 DEF TimeAt
<1> DEFINE start == TimeAt(h, mn, r)
<1>7. start = h * Hour + mn * T + r
  BY DEF TimeAt
<1>8. s + D <= t
  OBVIOUS
<1>9. NextHourly(mn, 0, t) =
        IF start >= t \/ t < start + D THEN start ELSE TimeAt(h + 1, mn, r)
  BY <1>4, NextHourlyAt
<1>10. /\ HourCount(start) = h /\ HourCount(TimeAt(h + 1, mn, r)) = h + 1
       /\ HourCount(s) = g
  BY <1>3, ClockAt
<1> HIDE DEF start, T, D
<1>11. g <= h
  <2>1. CASE h < g
    <3>1. h * Hour + Hour <= g * Hour
      BY <2>1, HourIs, ProductGrows
    <3>2. t < g * Hour
      BY <1>1, <1>5, <1>6, <3>1, HourIs
    <3> QED
      BY <1>1, <1>2, <1>5, <1>6, <1>8, <3>2, HourIs
  <2> QED
    BY <2>1
<1>12. ASSUME g = h PROVE ~(start >= t \/ t < start + D)
  <2>1. ~(start >= t)
    BY <1>1, <1>2, <1>5, <1>6, <1>7, <1>8, <1>12, HourIs
  <2>2. ASSUME t < start + D PROVE FALSE
    <3>1. m * T < mn * T + k * T
      BY <1>1, <1>2, <1>5, <1>6, <1>7, <2>2, HourIs
    <3>2. (mn + k) * T = mn * T + k * T
      BY <1>1, <1>2, <1>5
    <3>3. m \in Nat /\ mn + k \in Nat
      BY <1>2, <1>5
    <3>4. m < mn + k
      <4>1. CASE mn + k < m
        <5>1. (mn + k) * T + T <= m * T
          BY <1>1, <1>5, <3>3, <4>1, ProductGrows
        <5> QED
          BY <1>1, <1>5, <3>1, <3>2, <5>1
      <4>2. CASE mn + k = m
        BY <1>1, <1>5, <3>1, <3>2, <4>2
      <4> QED
        BY <3>3, <4>1, <4>2
    <3>5. m * T + T <= (mn + k) * T
      BY <1>1, <1>5, <3>3, <3>4, ProductGrows
    <3>6. m * T + T <= mn * T + D
      BY <1>2, <3>2, <3>5
    <3> QED
      BY <1>1, <1>2, <1>5, <1>6, <1>8, <1>12, <3>6, HourIs
  <2> QED
    BY <2>1, <2>2
<1> QED
  BY <1>9, <1>10, <1>11, <1>12

(* The entry index says that a run is over once all its entries are.       *)
LEMMA RunIsOver ==
  ASSUME PInv, pc = "act", entryDurationInMs # 0, CurrentIdxAt(tTime) = -1
  PROVE  startTime + entryDurationInMs * numberOfScheduleEntries <= now
<1> DEFINE a == tTime - startTime
           d == entryDurationInMs
           n == numberOfScheduleEntries
           q == a \div d
<1>1. /\ a \in Nat /\ d \in Nat \ {0} /\ n \in Nat
      /\ tTime <= now /\ now \in Nat /\ tTime \in Nat /\ startTime \in Nat
  BY PInvTypes DEF TypeOK, RunTimesOrdered
<1>2. q >= n
  <2>1. q \in Nat
    BY <1>1
  <2> QED
    BY <2>1 DEF CurrentIdxAt
<1>3. startTime + a <= now
  BY <1>1
<1> HIDE DEF a, d, n
<1>4. q \in Nat /\ q * d \in Nat /\ q * d <= a
  BY <1>1
<1> HIDE DEF q
<1>5. n * d \in Nat /\ n * d <= q * d
  <2>1. CASE n = q
    BY <1>4, <2>1
  <2>2. CASE n < q
    <3>1. n * d \in Nat
      BY <1>1
    <3> QED
      BY <1>1, <1>4, <2>2, <3>1, ProductGrows
  <2> QED
    BY <1>1, <1>2, <1>4, <2>1, <2>2
<1>6. startTime + n * d <= now
  BY <1>1, <1>3, <1>4, <1>5
<1>7. n * d = d * n
  BY <1>1
<1> QED
  BY <1>6, <1>7 DEF d, n

LEMMA StartKeepsHourlyInv ==
  ASSUME PInv, HourlyInv, OneStrTmObject, NEW ok, NEW okNext,
         StartPeriodic(ok, okNext)
  PROVE  HourlyInv'
<1> USE DEF NOT_READY, READY, RUNNING
<1>1. /\ UNCHANGED <<cal, schdSt, tState, numEntr, schdIntv>>
      /\ pc' = "commit" /\ tNew' = RUNNING /\ startTime' = Plan(ok)
      /\ entryDurationInMs' = schdIntv /\ numberOfScheduleEntries' = numEntr
      /\ nextStartTime' = NextPeriodic(okNext, now)
      /\ touched' = IF touched = 0 THEN 0 ELSE touched - 1
  BY DEF StartPeriodic, BeginRun, ReachCommit
<1>2. touched \in 0..2 /\ Plan(ok) # 0
  BY DEF PInv, StartPeriodic, PlanIsDue
<1>3. UNCHANGED <<TheCal, IsHourly>>
  BY <1>1 DEF TheCal, IsHourly
<1>4. KeepsMinute'
  <2>1. IsHourly /\ nextStartTime' # 0 => MinuteOf(nextStartTime') = TheCal.mn
    BY <1>1, PlanAtMinute
  <2>2. ASSUME touched' = 0, IsHourly PROVE MinuteOf(startTime') = TheCal.mn
    <3>1. touched <= 1
      BY <1>1, <1>2, <2>2
    <3>2. CASE nextStartTime = 0
      BY <1>1, <1>2, <2>2, <3>2, PlanAtMinute DEF Plan
    <3>3. CASE nextStartTime # 0
      BY <1>1, <2>2, <3>1, <3>3 DEF Plan, HourlyInv, KeepsMinute
    <3> QED
      BY <3>2, <3>3
  <2> QED
    BY <1>3, <2>1, <2>2 DEF KeepsMinute, MinuteOf
<1>5. AsWritten'
  BY <1>1 DEF AsWritten
<1>6. WaitsForNextHour'
  BY <1>1 DEF WaitsForNextHour
<1>7. NotReenabled'
  BY <1>1 DEF NotReenabled
<1>8. FirstIsEnabled'
  BY <1>1, <1>2 DEF FirstIsEnabled
<1> QED
  BY <1>4, <1>5, <1>6, <1>7, <1>8 DEF HourlyInv

LEMMA EndKeepsHourlyInv ==
  ASSUME PInv, HourlyInv, OneStrTmObject, NEW ok, EndPeriodic(ok)
  PROVE  HourlyInv'
<1> USE DEF NOT_READY, READY, RUNNING
<1>1. /\ UNCHANGED <<cal, schdSt, tState, numEntr, schdIntv, startTime,
                     entryDurationInMs, numberOfScheduleEntries, touched>>
      /\ pc = "act" /\ tState = RUNNING /\ entryDurationInMs # 0
      /\ CurrentIdxAt(tTime) = -1
      /\ pc' = "commit"
      /\ nextStartTime' = NextPeriodic(ok, now)
      /\ tNew' = (IF nextStartTime' # 0 THEN READY ELSE NOT_READY)
  BY DEF EndPeriodic, ReachCommit, clientVars
<1>2. UNCHANGED <<TheCal, IsHourly, Steady>>
  BY <1>1 DEF TheCal, IsHourly, Steady
<1>3. KeepsMinute'
  <2>1. IsHourly /\ nextStartTime' # 0 => MinuteOf(nextStartTime') = TheCal.mn
    BY <1>1, PlanAtMinute
  <2>2. touched = 0 /\ IsHourly /\ startTime # 0 => MinuteOf(startTime) = TheCal.mn
    BY DEF HourlyInv, KeepsMinute
  <2> QED
    BY <1>1, <1>2, <2>1, <2>2 DEF KeepsMinute, MinuteOf
<1>4. AsWritten'
  BY <1>1 DEF HourlyInv, AsWritten
<1>5. WaitsForNextHour'
  <2> SUFFICES ASSUME touched = 0, startTime # 0, Steady, nextStartTime' # 0
               PROVE  HourAhead'
    <3>1. touched = 0 => schdSt # READY
      BY <1>1 DEF HourlyInv, NotReenabled
    <3> QED
      BY <1>1, <1>2, <3>1 DEF WaitsForNextHour
  <2> DEFINE D == schdIntv * numEntr
  <2>1. /\ startTime \in Nat /\ now \in Nat /\ D \in Nat
        /\ schdIntv \in Nat /\ numEntr \in Nat
    BY PInvTypes DEF TypeOK
  <2>2. entryDurationInMs = schdIntv /\ numberOfScheduleEntries = numEntr
    BY DEF HourlyInv, AsWritten
  <2>3. startTime + D <= now
    BY <1>1, <2>2, RunIsOver
  <2>4. D # 0 /\ D % TicksPerMinute = 0
    <3>1. schdIntv > 0 /\ numEntr > 0
      BY <1>1, <2>1, <2>2 DEF Steady
    <3> QED
      BY <2>1, <3>1 DEF Steady
  <2>5. IsHourly /\ TheCal.mn \in Minutes /\ MinuteOf(startTime) = TheCal.mn
    BY TheCalType DEF Steady, HourlyInv, KeepsMinute
  <2>6. nextStartTime' = NextHourly(TheCal.mn, 0, now)
    BY <1>1, <2>5, OneObjectPlan
  <2> HIDE DEF D
  <2>7. HourCount(nextStartTime') > HourCount(startTime)
    BY <2>1, <2>3, <2>4, <2>5, <2>6, NextHourlyIsLater DEF D
  <2> QED
    BY <1>1, <2>7 DEF HourAhead, HourCount
<1>6. NotReenabled'
  BY <1>1 DEF NotReenabled
<1>7. FirstIsEnabled'
  BY <1>1 DEF HourlyInv, FirstIsEnabled
<1> QED
  BY <1>3, <1>4, <1>5, <1>6, <1>7 DEF HourlyInv

(* The rest of the thread leaves the plan alone, or makes the first one.   *)
LEMMA KeepWaitingKeepsHourlyInv ==
  ASSUME PInv, HourlyInv, OneStrTmObject, NEW ok, KeepWaitingPeriodic(ok)
  PROVE  HourlyInv'
<1> USE DEF NOT_READY, READY, RUNNING
<1>1. /\ UNCHANGED <<cal, schdSt, numEntr, schdIntv, startTime,
                     entryDurationInMs, numberOfScheduleEntries, touched>>
      /\ pc = "act" /\ tState = READY
      /\ pc' = "poll" /\ tState' = NOT_READY
      /\ nextStartTime' = Plan(ok)
  BY DEF KeepWaitingPeriodic, EndIteration, clientVars
<1>2. UNCHANGED <<TheCal, IsHourly, Steady>>
  BY <1>1 DEF TheCal, IsHourly, Steady
<1>3. KeepsMinute'
  <2>1. ASSUME IsHourly, touched <= 1, nextStartTime' # 0
        PROVE  MinuteOf(nextStartTime') = TheCal.mn
    <3>1. CASE nextStartTime = 0
      BY <1>1, <2>1, <3>1, PlanAtMinute DEF Plan
    <3>2. CASE nextStartTime # 0
      BY <1>1, <2>1, <3>2 DEF Plan, HourlyInv, KeepsMinute
    <3> QED
      BY <3>1, <3>2
  <2>2. touched = 0 /\ IsHourly /\ startTime # 0 => MinuteOf(startTime) = TheCal.mn
    BY DEF HourlyInv, KeepsMinute
  <2> QED
    BY <1>1, <1>2, <2>1, <2>2 DEF KeepsMinute, MinuteOf
<1>4. AsWritten' /\ NotReenabled'
  BY <1>1 DEF HourlyInv, AsWritten, NotReenabled
<1>5. WaitsForNextHour'
  <2>1. ASSUME HourAhead PROVE HourAhead'
    BY <1>1, <2>1 DEF HourAhead, Plan, HourCount
  <2> QED
    BY <1>1, <1>2, <2>1 DEF HourlyInv, WaitsForNextHour
<1>6. FirstIsEnabled'
  BY <1>1 DEF HourlyInv, FirstIsEnabled
<1> QED
  BY <1>3, <1>4, <1>5, <1>6 DEF HourlyInv

(* Everything else leaves the plan and the data model alone, and, but for  *)
(* Commit, makes no state READY.                                           *)
LEMMA LeavesPlanKeepsHourlyInv ==
  ASSUME HourlyInv,
         UNCHANGED <<cal, numEntr, schdIntv, startTime, nextStartTime, touched>>,
         entryDurationInMs' = entryDurationInMs,
         numberOfScheduleEntries' \in {numberOfScheduleEntries, numEntr},
         \/ UNCHANGED <<pc, tState, tNew>> /\ schdSt' \in {schdSt, NOT_READY}
         \/ Poll \/ Commit
         \/ pc \in {"act", "clear"} /\ pc' \in {"poll", "crashed"}
            /\ schdSt' = schdSt
  PROVE  HourlyInv'
<1> USE DEF NOT_READY, READY, RUNNING
<1>1. UNCHANGED <<TheCal, IsHourly, Steady, HourAhead>>
  BY DEF TheCal, IsHourly, Steady, HourAhead, HourCount
<1>2. KeepsMinute' /\ AsWritten'
  BY <1>1 DEF HourlyInv, KeepsMinute, AsWritten, MinuteOf
<1>3. WaitsForNextHour'
  BY <1>1 DEF HourlyInv, WaitsForNextHour, Poll, Commit, EndIteration
<1>4. NotReenabled'
  BY <1>1 DEF HourlyInv, NotReenabled, Poll, Commit, EndIteration
<1>5. FirstIsEnabled'
  BY <1>1 DEF HourlyInv, FirstIsEnabled, Poll, Commit
<1> QED
  BY <1>2, <1>3, <1>4, <1>5 DEF HourlyInv

(* A write, and EnaReq after the last start, suspend the invariant: all of *)
(* it but the plan's minute is about what was left alone since.            *)
LEMMA TouchKeepsHourlyInv ==
  ASSUME HourlyInv,
         \/ touched' = 2
         \/ UNCHANGED <<cal, nextStartTime>> /\ touched <= touched'
            /\ touched' = 1 /\ touched \in 0..2
  PROVE  HourlyInv'
<1>1. KeepsMinute'
  BY DEF HourlyInv, KeepsMinute, TheCal, IsHourly, MinuteOf
<1> QED
  BY <1>1 DEF HourlyInv, AsWritten, WaitsForNextHour, NotReenabled,
              FirstIsEnabled

LEMMA HourlyInvStep ==
  ASSUME PInv, HourlyInv, OneStrTmObject, [PeriodicNext]_periodicVars
  PROVE  HourlyInv'
<1>1. ASSUME NEW ok \in Returns, KeepWaitingPeriodic(ok) PROVE HourlyInv'
  BY <1>1, KeepWaitingKeepsHourlyInv
<1>2. ASSUME NEW ok \in Returns, NEW okNext \in Returns, StartPeriodic(ok, okNext)
      PROVE  HourlyInv'
  BY <1>2, StartKeepsHourlyInv
<1>3. ASSUME NEW ok \in Returns, EndPeriodic(ok) PROVE HourlyInv'
  BY <1>3, EndKeepsHourlyInv
<1>4. CASE RunStep /\ UNCHANGED <<cal, touched>>
  <2>1. UNCHANGED <<numEntr, schdIntv, startTime, nextStartTime,
                    entryDurationInMs, numberOfScheduleEntries>>
    BY <1>4 DEF RunStep, Poll, RunEntry, SameEntry, Commit, ClearSchdEntr,
                clientVars, runVars
  <2>2. \/ Poll \/ Commit
        \/ pc \in {"act", "clear"} /\ pc' \in {"poll", "crashed"}
           /\ schdSt' = schdSt
    BY <1>4 DEF RunStep, RunEntry, SameEntry, ClearSchdEntr, EndIteration
  <2> QED
    BY <1>4, <2>1, <2>2, LeavesPlanKeepsHourlyInv
<1>5. CASE CrashPeriodic
  <2>1. /\ UNCHANGED <<cal, numEntr, schdIntv, startTime, nextStartTime, touched,
                       entryDurationInMs, numberOfScheduleEntries, schdSt>>
        /\ pc = "act" /\ pc' = "crashed"
    BY <1>5 DEF CrashPeriodic, clientVars, runVars
  <2> QED
    BY <2>1, LeavesPlanKeepsHourlyInv
<1>6. CASE WritePeriodic
  BY <1>6, TouchKeepsHourlyInv DEF WritePeriodic
<1>7. CASE Enable
  <2>1. touched' = (IF touched = 0 THEN 1 ELSE touched) /\ touched \in 0..2
    BY <1>7 DEF Enable, PInv
  <2>2. UNCHANGED <<cal, nextStartTime>>
    BY <1>7 DEF Enable, EnableByRequest, EnableByApplication, EnablePeriodic
  <2> QED
    BY <2>1, <2>2, TouchKeepsHourlyInv
<1>8. CASE \/ \E ok \in Returns : PublishEnabledPeriodic(ok)
           \/ ServeOther \/ UNCHANGED periodicVars
  <2>1. /\ UNCHANGED <<cal, numEntr, schdIntv, startTime, nextStartTime, touched,
                       entryDurationInMs, pc, tState, tNew>>
        /\ numberOfScheduleEntries' \in {numberOfScheduleEntries, numEntr}
        /\ schdSt' \in {schdSt, NOT_READY}
    BY <1>8
       DEF PublishEnabledPeriodic, ServeOther, CheckEnaReq, OperateDsaReq,
           ApplicationDisables, DisableSchedule, WriteValue,
           ApplicationSetsAccess, Tick, periodicVars, vars, clientVars,
           runVars, threadVars
  <2> QED
    BY <2>1, LeavesPlanKeepsHourlyInv
<1> QED
  BY <1>1, <1>2, <1>3, <1>4, <1>5, <1>6, <1>7, <1>8
     DEF PeriodicNext, PeriodicThreadStep, RunStep

(* A schedule with one start time object, hourly, with entries, and with   *)
(* runs that last for whole minutes starts no second run in an hour, for   *)
(* any calendar and interleaving: the end of its run is not mistaken for   *)
(* one still under way.  It may if a client has enabled it again since the *)
(* last start, or written to it since the start before.                    *)
THEOREM OncePerHourHolds == PeriodicSpec => OncePerHour
<1> DEFINE Inv == OneStrTmObject => HourlyInv
<1>1. PeriodicInit => Inv
  BY DEF PeriodicInit, Init, HourlyInv, KeepsMinute, AsWritten,
         WaitsForNextHour, NotReenabled, FirstIsEnabled, NOT_READY, READY,
         RUNNING
<1>2. PInv /\ Inv /\ [PeriodicNext]_periodicVars => Inv'
  BY HourlyInvStep DEF OneStrTmObject
<1>3. ASSUME PInv, HourlyInv, OneStrTmObject, NEW ok, NEW okNext,
             StartPeriodic(ok, okNext), touched = 0,
             \A s \in StrTm : cal[s].occPer = "Hour",
             numEntr > 0, (schdIntv * numEntr) % TicksPerMinute = 0
      PROVE  HourCount(startTime') > HourCount(startTime)
  <2>1. StrTmOrder[1] \in StrTm
    BY <1>3, TheStrTm
  <2>2. Steady
    BY <1>3, <2>1 DEF Steady, IsHourly, TheCal
  <2>3. pc = "act" /\ tState = READY /\ startTime' = Plan(ok)
    BY <1>3 DEF StartPeriodic, BeginRun
  <2>4. startTime # 0
    BY <1>3, <2>3 DEF HourlyInv, FirstIsEnabled
  <2>5. HourAhead
    BY <1>3, <2>2, <2>3, <2>4 DEF HourlyInv, WaitsForNextHour
  <2> QED
    BY <2>3, <2>5 DEF HourAhead, Plan, HourCount
<1>4. PInv /\ Inv /\ [PeriodicNext]_periodicVars =>
        [\A ok, okNext \in Returns :
           /\ StartPeriodic(ok, okNext) /\ touched = 0
           /\ Len(StrTmOrder) = 1
           /\ \A s \in StrTm : cal[s].occPer = "Hour"
           /\ numEntr > 0 /\ (schdIntv * numEntr) % TicksPerMinute = 0
           => HourCount(startTime') > HourCount(startTime)]_periodicVars
  BY <1>3 DEF OneStrTmObject
<1> QED
  BY <1>1, <1>2, <1>4, PInvHolds, PTL DEF PeriodicSpec, OncePerHour

=============================================================================
