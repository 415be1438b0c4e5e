-------------------------- MODULE AlgorithmProofs --------------------------
(***************************************************************************)
(* Theorems about the three pure parts, MarketCalendar, ForwardTest and       *)
(* SniperRanking: for all years, schedules and moments, for any trades and     *)
(* price paths of any length, for any candidates, floor and limit.           *)
(***************************************************************************)
EXTENDS MarketCalendar, ForwardTest, SniperRanking, FiniteSetTheorems, WellFoundedInduction, TLAPS

-----------------------------------------------------------------------------
(* Dates                                                                   *)

\* The first of March, before which a leap year has had its day.
LEMMA FirstOfMarch ==
    ASSUME NEW y \in Nat
    PROVE  /\ Date(y, 3, 1) \in Int
           /\ Date(y, 3, 1) = 365 * y - 305 + y \div 4 - y \div 100 + y \div 400
<1>1. /\ y % 400 = 0 => y % 100 = 0
      /\ y % 100 = 0 => y % 4 = 0
  OBVIOUS
<1>2. (y - 1) \div 4 = (IF y % 4 = 0 THEN (y \div 4) - 1 ELSE y \div 4)
  OBVIOUS
<1>3. (y - 1) \div 100 = (IF y % 100 = 0 THEN (y \div 100) - 1 ELSE y \div 100)
  OBVIOUS
<1>4. (y - 1) \div 400 = (IF y % 400 = 0 THEN (y \div 400) - 1 ELSE y \div 400)
  OBVIOUS
<1>5. y \div 4 \in Int /\ y \div 100 \in Int /\ y \div 400 \in Int
  OBVIOUS
<1> QED BY <1>1, <1>2, <1>3, <1>4, <1>5 DEF Date, DaysBefore, Leap

\* The dates of the months that matter count from it.
LEMMA Dates ==
    ASSUME NEW y \in Nat, NEW d \in Int
    PROVE  /\ Date(y, 3, d) = Date(y, 3, 1) + d - 1
           /\ Date(y, 4, d) = Date(y, 3, 1) + 30 + d
           /\ Date(y, 5, d) = Date(y, 3, 1) + 60 + d
           /\ Date(y, 6, d) = Date(y, 3, 1) + 91 + d
           /\ Date(y, 7, d) = Date(y, 3, 1) + 121 + d
           /\ Date(y, 9, d) = Date(y, 3, 1) + 183 + d
           /\ Date(y, 11, d) = Date(y, 3, 1) + 244 + d
           /\ Date(y, 12, d) = Date(y, 3, 1) + 274 + d
<1>1. (y - 1) \div 4 \in Int /\ (y - 1) \div 100 \in Int /\ (y - 1) \div 400 \in Int
  OBVIOUS
<1> QED BY <1>1 DEF Date, DaysBefore

\* A January's dates count from the December before it.
LEMMA Januaries ==
    ASSUME NEW y \in Nat, NEW d \in Int
    PROVE  /\ Date(y, 1, d) = Date(y, 1, 1) + d - 1
           /\ Date(y, 2, d) = Date(y, 1, 1) + 30 + d
           /\ Date(y, 1, 1) \in {Date(y, 3, 1) - 59, Date(y, 3, 1) - 60}
           /\ Date(y + 1, 1, d) = Date(y, 12, 31) + d
<1>1. (y - 1) \div 4 \in Int /\ (y - 1) \div 100 \in Int /\ (y - 1) \div 400 \in Int
  OBVIOUS
<1>2. \A e \in Int : Date(y, 1, e) = 365 * (y - 1) + (y - 1) \div 4 - (y - 1) \div 100 + (y - 1) \div 400 + e
  BY <1>1 DEF Date, DaysBefore
<1>3. Date(y, 2, d) = Date(y, 1, d) + 31
  BY <1>1 DEF Date, DaysBefore
<1>4. Date(y, 3, 1) = Date(y, 1, 1) + 59 + (IF Leap(y) THEN 1 ELSE 0)
  BY <1>1 DEF Date, DaysBefore
<1>5. Date(y + 1, 1, d) = 365 * y + y \div 4 - y \div 100 + y \div 400 + d
  BY DEF Date, DaysBefore
<1>6. y \div 4 \in Int /\ y \div 100 \in Int /\ y \div 400 \in Int
  OBVIOUS
<1>7. Date(y, 12, 31) = Date(y, 3, 1) + 305 /\ Date(y, 3, 1) = 365 * y - 305 + y \div 4 - y \div 100 + y \div 400
  <2>1. \A e \in Int : Date(y, 12, e) = Date(y, 3, 1) + 274 + e
    BY Dates
  <2>2. /\ Date(y, 3, 1) = 365 * y - 305 + y \div 4 - y \div 100 + y \div 400
        /\ Date(y, 3, 1) \in Int
    BY FirstOfMarch
  <2> QED BY <2>1, <2>2
<1> QED BY <1>1, <1>2, <1>3, <1>4, <1>5, <1>6, <1>7

-----------------------------------------------------------------------------
(* Easter                                                                  *)

\* The week-day of the first of March, as Easter's formula knows it.
LEMMA MarchFirst ==
    ASSUME NEW y \in Nat
    PROVE  (Date(y, 3, 1) + 53 + 2 * ((y \div 100) % 4) + 2 * ((y % 100) \div 4)
              - ((y % 100) % 4)) % 7 = 0
<1> DEFINE b == y \div 100
           c == y % 100
<1>1. b \in Nat /\ c \in 0 .. 99 /\ y = 100 * b + c
  OBVIOUS
<1>2. y \div 4 = 25 * b + c \div 4 /\ y \div 400 = b \div 4
  OBVIOUS
<1>3. PICK r \in 0 .. 3, s \in 0 .. 3 : r = b % 4 /\ s = c % 4
  BY <1>1
<1>4. PICK B \in Nat, C \in Nat : B = b \div 4 /\ C = c \div 4
  BY <1>1
<1>5. b = 4 * B + r /\ c = 4 * C + s
  BY <1>1, <1>3, <1>4
<1>6. Date(y, 3, 1) = 365 * (100 * (4 * B + r) + (4 * C + s)) - 305
                        + (25 * (4 * B + r) + C) - (4 * B + r) + B
  <2>1. Date(y, 3, 1) = 365 * y - 305 + y \div 4 - y \div 100 + y \div 400
    BY FirstOfMarch, ZenonT(30)
  <2>2. y \div 4 = 25 * (4 * B + r) + C /\ y \div 100 = 4 * B + r /\ y \div 400 = B
    BY <1>2, <1>4, <1>5
  <2>3. y = 100 * (4 * B + r) + (4 * C + s)
    BY <1>1, <1>5
  <2> QED BY <2>1, <2>2, <2>3
<1>7. Date(y, 3, 1) + 53 + 2 * r + 2 * C - s = 7 * (20871 * B + 5218 * r + 209 * C + 52 * s - 36)
  BY <1>6
<1>8. \A k \in Int : (7 * k) % 7 = 0
  OBVIOUS
<1>9. 20871 * B + 5218 * r + 209 * C + 52 * s - 36 \in Int
  OBVIOUS
<1>10. (Date(y, 3, 1) + 53 + 2 * r + 2 * C - s) % 7 = 0
  BY <1>7, <1>8, <1>9
<1> HIDE DEF b, c
<1>11. (Date(y, 3, 1) + 53 + 2 * (b % 4) + 2 * (c \div 4) - (c % 4)) % 7 = 0
  BY <1>3, <1>4, <1>10
<1> QED BY <1>11 DEF b, c

\* The days that Easter's formula counts to the full moon, and the age of the
\* moon that the epact counts from it, in the a-th year of the moon's cycle.
MoonDays(a, b) == (19 * a + b - b \div 4 - ((b - ((b + 8) \div 25) + 1) \div 3) + 15) % 30
MoonAge(a, b) ==
    (11 * (a + 1) + 20 + ((8 * (b + 1) + 5) \div 25 - 5) - ((3 * (b + 1)) \div 4 - 12)) % 30

LEMMA Epact ==
    ASSUME NEW a \in 0 .. 18, NEW b \in Nat
    PROVE  /\ MoonDays(a, b) \in 0 .. 29 /\ MoonAge(a, b) \in 0 .. 29
           /\ MoonDays(a, b) = IF MoonAge(a, b) <= 23 THEN 23 - MoonAge(a, b)
                               ELSE 53 - MoonAge(a, b)
<1>1. a \in 0 .. 18 /\ b \in Nat
  OBVIOUS
<1>2. PICK B \in Nat : B = b \div 4
  BY <1>1
<1>3. PICK g \in Int : g = (b - ((b + 8) \div 25) + 1) \div 3
  BY <1>1
<1>4. (8 * (b + 1) + 5) \div 25 = g
  BY <1>1, <1>3
<1>5. (3 * (b + 1)) \div 4 = b - B
  BY <1>1, <1>2
<1>6. MoonDays(a, b) = (19 * a + b - B - g + 15) % 30
  BY <1>2, <1>3 DEF MoonDays
<1>7. MoonAge(a, b) = (11 * (a + 1) + 20 + (g - 5) - (b - B - 12)) % 30
  BY <1>4, <1>5 DEF MoonAge
<1> QED BY <1>1, <1>6, <1>7

\* The Sunday after the moon, with and without the two corrections.
Late(h, z) == (z - h) % 7
Correction(a, h, z) == (a + 11 * h + 22 * Late(h, z)) \div 451
Moon(base, a, h) == base + 20 + (IF h = 29 \/ (h = 28 /\ a > 10) THEN h - 1 ELSE h)
Easter(base, a, h, z) == base + 21 + h + Late(h, z) - 7 * Correction(a, h, z)

LEMMA SundayAfter ==
    ASSUME NEW base \in Int, NEW a \in 0 .. 18, NEW h \in 0 .. 29, NEW z \in Int,
           (base + 21 + z) % 7 = 0
    PROVE  /\ Late(h, z) \in Int /\ Correction(a, h, z) \in Int
           /\ h + Late(h, z) - 7 * Correction(a, h, z) \in 0 .. 35
           /\ Easter(base, a, h, z) =
                Moon(base, a, h) + 7 - ((Weekday(Moon(base, a, h)) + 1) % 7)
           /\ Weekday(Easter(base, a, h, z)) = Sunday
<1> DEFINE moon == Moon(base, a, h)
<1>0. PICK l, m : l = Late(h, z) /\ m = Correction(a, h, z)
  OBVIOUS
<1>1. l \in 0 .. 6 /\ (base + 21 + h + l) % 7 = 0
  BY <1>0 DEF Late
<1>2. m = IF l = 6 /\ (h = 29 \/ (h = 28 /\ a > 10)) THEN 1 ELSE 0
  <2>1. m = (a + 11 * h + 22 * l) \div 451
    BY <1>0 DEF Correction
  <2> QED BY <1>1, <2>1
<1>3. moon \in Int /\ (Weekday(moon) + 1) % 7 = moon % 7
  BY DEF Weekday, Moon
<1>4. h + l - 7 * m \in 0 .. 35
  BY <1>1, <1>2
<1>5. base + 21 + h + l - 7 * m = moon + 7 - (moon % 7)
  BY <1>1, <1>2 DEF Moon
<1>6. (base + 21 + h + l - 7 * m) % 7 = 0
  BY <1>1, <1>2
<1>7. Weekday(base + 21 + h + l - 7 * m) = Sunday
  BY <1>1, <1>2, <1>6 DEF Weekday, Sunday
<1> HIDE DEF moon
<1>8. Easter(base, a, h, z) = base + 21 + h + l - 7 * m
  BY <1>0 DEF Easter
<1>9. l \in Int /\ m \in Int
  BY <1>1, <1>2
<1> QED BY <1>0, <1>3, <1>4, <1>5, <1>7, <1>8, <1>9 DEF moon

\* In every year the anonymous formula of easter_sunday finds the Sunday after the
\* full moon of the epact (scheduler.py:43-59).
THEOREM EasterIsPaschal ==
    ASSUME NEW y \in Nat
    PROVE  /\ EasterSunday(y) \in Int
           /\ EasterSunday(y) = PaschalSunday(y)
           /\ Weekday(EasterSunday(y)) = Sunday
<1> DEFINE a == y % 19
           b == y \div 100
           c == y % 100
           f == (b + 8) \div 25
           g == (b - f + 1) \div 3
           h == (19 * a + b - b \div 4 - g + 15) % 30
           l == (32 + 2 * (b % 4) + 2 * (c \div 4) - h - (c % 4)) % 7
           m == (a + 11 * h + 22 * l) \div 451
           n == h + l - 7 * m + 114
           golden == (y % 19) + 1
           century == y \div 100 + 1
           solar == (3 * century) \div 4 - 12
           lunar == (8 * century + 5) \div 25 - 5
           age == (11 * golden + 20 + lunar - solar) % 30
           epact == IF age = 24 \/ (age = 25 /\ golden > 11) THEN age + 1 ELSE age
           base == Date(y, 3, 1)
           moon == base + (IF epact > 23 THEN 74 - epact ELSE 44 - epact) - 1
           z == 32 + 2 * (b % 4) + 2 * (c \div 4) - (c % 4)
<1>1. EasterSunday(y) = Date(y, n \div 31, (n % 31) + 1)
  BY DEF EasterSunday
<1>2. PaschalSunday(y) = moon + 7 - ((Weekday(moon) + 1) % 7)
  BY DEF PaschalSunday
<1>3. a \in 0 .. 18 /\ b \in Nat /\ c \in 0 .. 99 /\ golden = a + 1 /\ century = b + 1
  OBVIOUS
<1>4. base \in Int
  BY FirstOfMarch
<1>5. (base + 53 + 2 * (b % 4) + 2 * (c \div 4) - (c % 4)) % 7 = 0
  BY MarchFirst
<1>6. z \in Int /\ b % 4 \in Int /\ c \div 4 \in Int /\ c % 4 \in Int
  BY <1>3
<1>7. (base + 21 + z) % 7 = 0
  <2> HIDE DEF b, c, base
  <2> QED BY <1>4, <1>5, <1>6 DEF z
<1>8. h \in 0 .. 29 /\ age \in 0 .. 29 /\ h = (IF age <= 23 THEN 23 - age ELSE 53 - age)
  <2>1. h = MoonDays(a, b) /\ age = MoonAge(a, b)
    BY DEF MoonDays, MoonAge
  <2> HIDE DEF a, b, h, age
  <2> QED BY <1>3, <2>1, Epact
<1>9. l = (z - h) % 7
  BY <1>3, <1>6, <1>8
<1>10. moon = base + 20 + (IF h = 29 \/ (h = 28 /\ a > 10) THEN h - 1 ELSE h)
  <2> HIDE DEF a, b, c, h, age, base
  <2> QED BY <1>3, <1>4, <1>8
<1> HIDE DEF a, b, c, h, z, base, moon, age
<1>0. l = Late(h, z) /\ m = Correction(a, h, z) /\ moon = Moon(base, a, h)
  BY <1>9, <1>10 DEF Late, Correction, Moon
<1> HIDE DEF l, m
<1>15. /\ Late(h, z) \in Int /\ Correction(a, h, z) \in Int
       /\ h + Late(h, z) - 7 * Correction(a, h, z) \in 0 .. 35
       /\ Easter(base, a, h, z) =
            Moon(base, a, h) + 7 - ((Weekday(Moon(base, a, h)) + 1) % 7)
       /\ Weekday(Easter(base, a, h, z)) = Sunday
  <2>1. a \in 0 .. 18 /\ base \in Int /\ z \in Int /\ h \in 0 .. 29
    BY <1>3, <1>4, <1>6, <1>8
  <2> QED BY ONLY <2>1, <1>7, SundayAfter
<1>11. /\ h + l - 7 * m \in 0 .. 35
       /\ base + 21 + h + l - 7 * m = moon + 7 - ((Weekday(moon) + 1) % 7)
       /\ Weekday(base + 21 + h + l - 7 * m) = Sunday
  BY <1>0, <1>15 DEF Easter
<1>12. n \in 114 .. 149
  BY <1>11 DEF n
<1> HIDE DEF n
<1>13. Date(y, n \div 31, (n % 31) + 1) = base + n - 93
  <2>1. (n % 31) + 1 \in Int
    BY <1>12
  <2>2. /\ Date(y, 3, (n % 31) + 1) = base + ((n % 31) + 1) - 1
        /\ Date(y, 4, (n % 31) + 1) = base + 30 + ((n % 31) + 1)
    <3>1. \A d \in Int : /\ Date(y, 3, d) = Date(y, 3, 1) + d - 1
                         /\ Date(y, 4, d) = Date(y, 3, 1) + 30 + d
      BY Dates
    <3> QED BY <2>1, <3>1 DEF base
  <2>3. CASE n < 124
    <3>1. n \div 31 = 3 /\ n % 31 = n - 93
      BY <1>12, <2>3
    <3> QED BY <1>4, <1>12, <2>2, <3>1
  <2>4. CASE n >= 124
    <3>1. n \div 31 = 4 /\ n % 31 = n - 124
      BY <1>12, <2>4
    <3> QED BY <1>4, <1>12, <2>2, <3>1
  <2> QED BY <1>12, <2>3, <2>4
<1>14. base + n - 93 = base + 21 + h + l - 7 * m /\ base + n - 93 \in Int
  <2>1. l \in Int /\ h \in Int /\ m \in Int
    BY <1>0, <1>8, <1>15
  <2> QED BY <1>4, <2>1 DEF n
<1> QED BY <1>1, <1>2, <1>11, <1>13, <1>14

-----------------------------------------------------------------------------
(* The exchange's days                                                     *)

\* The dates named are integers.
LEMMA DateIsInteger ==
    ASSUME NEW y \in Nat
    PROVE  /\ Date(y, 1, 1) \in Int /\ Date(y, 2, 1) \in Int /\ Date(y, 5, 31) \in Int
           /\ Date(y, 9, 1) \in Int /\ Date(y, 11, 1) \in Int
           /\ Date(y, 6, 19) \in Int /\ Date(y, 7, 4) \in Int /\ Date(y, 12, 25) \in Int
           /\ Date(y, 12, 31) \in Int
<1>1. (y - 1) \div 4 \in Int /\ (y - 1) \div 100 \in Int /\ (y - 1) \div 400 \in Int
  OBVIOUS
<1> QED BY <1>1 DEF Date, DaysBefore

LEMMA NthOfMonth ==
    ASSUME NEW y \in Nat, NEW m, Date(y, m, 1) \in Int, NEW w \in 0 .. 6, NEW n \in Int,
           NEW d \in Int
    PROVE  d = NthWeekday(y, m, w, n) <=>
            /\ Weekday(d) = w
            /\ Date(y, m, 1) + 7 * (n - 1) <= d /\ d <= Date(y, m, 1) + 7 * (n - 1) + 6
<1>1. PICK first \in Int, k \in Int : first = Date(y, m, 1) /\ k = 7 * (n - 1)
  OBVIOUS
<1>2. NthWeekday(y, m, w, n) = first + ((w - ((first + 6) % 7)) % 7) + k
  BY <1>1 DEF NthWeekday, Weekday
<1>3. k % 7 = 0
  <2>1. \A j \in Int : (7 * j) % 7 = 0
    OBVIOUS
  <2> QED BY <1>1, <2>1
<1>4. d = first + ((w - ((first + 6) % 7)) % 7) + k <=>
        (d + 6) % 7 = w /\ first + k <= d /\ d <= first + k + 6
  BY <1>3
<1> QED BY <1>1, <1>2, <1>4 DEF Weekday

LEMMA LastOfMonth ==
    ASSUME NEW y \in Nat, NEW m, Date(y, m, DaysIn(y, m)) \in Int, NEW w \in 0 .. 6,
           NEW d \in Int
    PROVE  d = LastWeekday(y, m, w) <=>
            /\ Weekday(d) = w
            /\ Date(y, m, DaysIn(y, m)) - 6 <= d /\ d <= Date(y, m, DaysIn(y, m))
<1>1. PICK last \in Int : last = Date(y, m, DaysIn(y, m))
  OBVIOUS
<1>2. LastWeekday(y, m, w) = last - ((((last + 6) % 7) - w) % 7)
  BY <1>1 DEF LastWeekday, Weekday
<1>3. d = last - ((((last + 6) % 7) - w) % 7) <=>
        (d + 6) % 7 = w /\ last - 6 <= d /\ d <= last
  OBVIOUS
<1> QED BY <1>1, <1>2, <1>3 DEF Weekday

\* A holiday of a fixed date, as a working day finds it.
LEMMA ObservedOn ==
    ASSUME NEW y \in Nat, NEW m, NEW k, Date(y, m, k) \in Int,
           NEW d \in Int, Weekday(d) < 5
    PROVE  d = ObservedFixedHoliday(y, m, k) <=>
            \/ d = Date(y, m, k)
            \/ Weekday(d) = Monday /\ d - 1 = Date(y, m, k)
            \/ Weekday(d) = Friday /\ d + 1 = Date(y, m, k)
<1>1. PICK h \in Int : h = Date(y, m, k)
  OBVIOUS
<1> QED BY <1>1 DEF ObservedFixedHoliday, Weekday, Saturday, Sunday, Monday, Friday

\* The scheduler's holidays are the exchange's closed days of the week.
LEMMA ClosedDays ==
    ASSUME NEW y \in Nat, NEW d \in Int
    PROVE  Weekday(d) < 5 /\ d \notin NyseHolidays(y) <=> ~ Closed(y, d)
<1>1. Weekday(d) \in 0 .. 6
  BY DEF Weekday
<1>2. CASE ~ (Weekday(d) < 5)
  BY <1>1, <1>2 DEF Closed, Saturday, Sunday
<1>3. CASE Weekday(d) < 5
  <2>1. PICK jan, feb, may, sep, nov \in Int :
            /\ jan = Date(y, 1, 1) /\ feb = Date(y, 2, 1) /\ may = Date(y, 5, 31)
            /\ sep = Date(y, 9, 1) /\ nov = Date(y, 11, 1)
    BY DateIsInteger
  <2>2. /\ Date(y, 1, 15) = jan + 14 /\ Date(y, 1, 21) = jan + 20
        /\ Date(y, 2, 15) = feb + 14 /\ Date(y, 2, 21) = feb + 20
        /\ Date(y, 5, 25) = may - 6 /\ Date(y, 9, 7) = sep + 6
        /\ Date(y, 11, 22) = nov + 21 /\ Date(y, 11, 28) = nov + 27
    <3>1. (y - 1) \div 4 \in Int /\ (y - 1) \div 100 \in Int /\ (y - 1) \div 400 \in Int
      OBVIOUS
    <3> QED BY <2>1, <3>1 DEF Date, DaysBefore
  <2>3. d = NthWeekday(y, 1, Monday, 3) <=> Weekday(d) = Monday /\ d \in jan + 14 .. jan + 20
    BY <2>1, NthOfMonth DEF Monday
  <2>4. d = NthWeekday(y, 2, Monday, 3) <=> Weekday(d) = Monday /\ d \in feb + 14 .. feb + 20
    BY <2>1, NthOfMonth DEF Monday
  <2>5. d = NthWeekday(y, 9, Monday, 1) <=> Weekday(d) = Monday /\ d \in sep .. sep + 6
    BY <2>1, NthOfMonth DEF Monday
  <2>6. d = NthWeekday(y, 11, Thursday, 4) <=> Weekday(d) = Thursday /\ d \in nov + 21 .. nov + 27
    BY <2>1, NthOfMonth DEF Thursday
  <2>7. d = LastWeekday(y, 5, Monday) <=> Weekday(d) = Monday /\ d \in may - 6 .. may
    <3>1. DaysIn(y, 5) = 31
      BY DEF DaysIn
    <3> QED BY <2>1, <3>1, LastOfMonth DEF Monday
  <2>8. d = EasterSunday(y) - 2 <=> d + 2 = PaschalSunday(y)
    BY EasterIsPaschal
  <2> DEFINE On(h) == \/ d = h
                      \/ Weekday(d) = Monday /\ d - 1 = h
                      \/ Weekday(d) = Friday /\ d + 1 = h
  <2>9. /\ d = ObservedFixedHoliday(y, 1, 1) <=> On(Date(y, 1, 1))
        /\ d = ObservedFixedHoliday(y, 6, 19) <=> On(Date(y, 6, 19))
        /\ d = ObservedFixedHoliday(y, 7, 4) <=> On(Date(y, 7, 4))
        /\ d = ObservedFixedHoliday(y, 12, 25) <=> On(Date(y, 12, 25))
    BY <1>3, DateIsInteger, ObservedOn
  <2>10. d \in NyseHolidays(y) <=>
            \/ Weekday(d) = Monday
               /\ (d \in jan + 14 .. jan + 20 \/ d \in feb + 14 .. feb + 20
                    \/ d \in may - 6 .. may \/ d \in sep .. sep + 6)
            \/ Weekday(d) = Thursday /\ d \in nov + 21 .. nov + 27
            \/ d + 2 = PaschalSunday(y)
            \/ On(Date(y, 1, 1)) \/ On(Date(y, 6, 19)) \/ On(Date(y, 7, 4))
            \/ On(Date(y, 12, 25))
    <3> HIDE DEF On
    <3> QED BY <2>3, <2>4, <2>5, <2>6, <2>7, <2>8, <2>9 DEF NyseHolidays
  <2>11. Closed(y, d) <=>
            \/ Weekday(d) = Monday
               /\ (d \in jan + 14 .. jan + 20 \/ d \in feb + 14 .. feb + 20
                    \/ d \in may - 6 .. may \/ d \in sep .. sep + 6)
            \/ Weekday(d) = Thursday /\ d \in nov + 21 .. nov + 27
            \/ d + 2 = PaschalSunday(y)
            \/ On(Date(y, 1, 1)) \/ On(Date(y, 6, 19)) \/ On(Date(y, 7, 4))
            \/ On(Date(y, 12, 25))
    <3>1. Weekday(d) \notin {Saturday, Sunday}
      BY <1>3 DEF Saturday, Sunday
    <3> QED BY <2>1, <2>2, <3>1, ZenonT(30) DEF Closed
  <2> QED BY <1>3, <2>10, <2>11
<1> QED BY <1>2, <1>3

-----------------------------------------------------------------------------
(* Between one scan day and the next                                        *)

\* The holidays of a fixed date: the only ones that close a Tuesday or Wednesday.
FixedHolidays(y) == {Date(y, 1, 1), Date(y, 6, 19), Date(y, 7, 4), Date(y, 12, 25)}

LEMMA MidWeek ==
    ASSUME NEW y \in Nat, NEW d \in Int, Weekday(d) \in {1, 2}, Closed(y, d)
    PROVE  d \in FixedHolidays(y)
<1>1. Weekday(d) \notin {Saturday, Sunday, Monday, Thursday, Friday}
  BY DEF Saturday, Sunday, Monday, Thursday, Friday
<1>2. d + 2 # PaschalSunday(y)
  <2>1. Weekday(d + 2) # Sunday
    BY DEF Weekday, Sunday
  <2> QED BY <2>1, EasterIsPaschal
<1> QED BY <1>1, <1>2 DEF Closed, FixedHolidays

\* Two of them are never within six days, over the turn of the year either.
LEMMA FixedApart ==
    ASSUME NEW y \in Nat,
           NEW u \in FixedHolidays(y) \union FixedHolidays(y + 1),
           NEW w \in FixedHolidays(y) \union FixedHolidays(y + 1),
           u < w
    PROVE  u + 7 <= w
<1> DEFINE A == Date(y, 3, 1)
           B == Date(y + 1, 3, 1)
<1>1. A \in Int /\ B \in Int
  BY FirstOfMarch
<1>2. /\ Date(y, 6, 19) = A + 110 /\ Date(y, 7, 4) = A + 125 /\ Date(y, 12, 25) = A + 299
      /\ Date(y, 12, 31) = A + 305
      /\ Date(y + 1, 6, 19) = B + 110 /\ Date(y + 1, 7, 4) = B + 125
      /\ Date(y + 1, 12, 25) = B + 299
  <2>1. \A z \in {y, y + 1} :
            /\ Date(z, 6, 19) = Date(z, 3, 1) + 110 /\ Date(z, 7, 4) = Date(z, 3, 1) + 125
            /\ Date(z, 12, 25) = Date(z, 3, 1) + 299 /\ Date(z, 12, 31) = Date(z, 3, 1) + 305
    <3> SUFFICES ASSUME NEW z \in {y, y + 1}
                 PROVE  /\ Date(z, 6, 19) = Date(z, 3, 1) + 110
                        /\ Date(z, 7, 4) = Date(z, 3, 1) + 125
                        /\ Date(z, 12, 25) = Date(z, 3, 1) + 299
                        /\ Date(z, 12, 31) = Date(z, 3, 1) + 305
      OBVIOUS
    <3>1. \A d \in Int : /\ Date(z, 6, d) = Date(z, 3, 1) + 91 + d
                         /\ Date(z, 7, d) = Date(z, 3, 1) + 121 + d
                         /\ Date(z, 12, d) = Date(z, 3, 1) + 274 + d
      BY Dates
    <3>2. Date(z, 3, 1) \in Int
      BY FirstOfMarch
    <3> QED BY <3>1, <3>2
  <2> QED BY <2>1
<1>3. /\ Date(y, 1, 1) \in {A - 59, A - 60}
      /\ Date(y + 1, 1, 1) \in {B - 59, B - 60}
  <2>1. \A z \in Nat : \A d \in Int : Date(z, 1, 1) \in {Date(z, 3, 1) - 59, Date(z, 3, 1) - 60}
    BY Januaries
  <2> QED BY <2>1
<1>4. Date(y + 1, 1, 1) = A + 306
  <2>1. \A d \in Int : Date(y + 1, 1, d) = Date(y, 12, 31) + d
    BY Januaries
  <2> QED BY <1>1, <1>2, <2>1
<1>5. /\ FixedHolidays(y) = {Date(y, 1, 1), A + 110, A + 125, A + 299}
      /\ FixedHolidays(y + 1) = {A + 306, B + 110, B + 125, B + 299}
  BY <1>2, <1>4 DEF FixedHolidays
<1> HIDE DEF A, B
<1> QED BY <1>1, <1>3, <1>4, <1>5

\* From any day of a year, one of the next seven is a day the exchange works.
LEMMA OpenSoon ==
    ASSUME NEW y \in Nat, NEW t \in Int
    PROVE  \E d \in t + 1 .. t + 7 : ~ Closed(IF d > Date(y, 12, 31) THEN y + 1 ELSE y, d)
<1> DEFINE Y(d) == IF d > Date(y, 12, 31) THEN y + 1 ELSE y
<1>1. \E u \in t + 1 .. t + 7 : Weekday(u) = 1
  <2>1. t + 1 + ((1 - ((t + 7) % 7)) % 7) \in t + 1 .. t + 7
    OBVIOUS
  <2>2. (t + 1 + ((1 - ((t + 7) % 7)) % 7) + 6) % 7 = 1
    OBVIOUS
  <2> QED BY <2>1, <2>2 DEF Weekday
<1>2. \E w \in t + 1 .. t + 7 : Weekday(w) = 2
  <2>1. t + 1 + ((2 - ((t + 7) % 7)) % 7) \in t + 1 .. t + 7
    OBVIOUS
  <2>2. (t + 1 + ((2 - ((t + 7) % 7)) % 7) + 6) % 7 = 2
    OBVIOUS
  <2> QED BY <2>1, <2>2 DEF Weekday
<1>3. PICK u \in t + 1 .. t + 7, w \in t + 1 .. t + 7 : Weekday(u) = 1 /\ Weekday(w) = 2
  BY <1>1, <1>2
<1>4. u \in Int /\ w \in Int /\ u # w /\ u < w + 7 /\ w < u + 7
  BY <1>3
<1> SUFFICES ASSUME Closed(Y(u), u), Closed(Y(w), w) PROVE FALSE
  BY <1>3
<1>5. u \in FixedHolidays(Y(u)) /\ w \in FixedHolidays(Y(w))
  <2>1. Y(u) \in Nat /\ Y(w) \in Nat
    OBVIOUS
  <2> HIDE DEF Y
  <2> QED BY <1>3, <1>4, <2>1, MidWeek
<1>6. u \in FixedHolidays(y) \union FixedHolidays(y + 1) /\ w \in FixedHolidays(y) \union FixedHolidays(y + 1)
  BY <1>5
<1>7. u < w \/ w < u
  BY <1>4
<1>8. u + 7 <= w \/ w + 7 <= u
  BY <1>6, <1>7, FixedApart
<1> QED BY <1>4, <1>8

\* A set of integers with a bound has a least member.
LEMMA Least ==
    ASSUME NEW S \in SUBSET Int, S # {}, NEW b \in Int, \A x \in S : b <= x
    PROVE  \E x \in S : \A z \in S : x <= z
<1> DEFINE D == {x - b : x \in S}
<1>1. D \in SUBSET Nat /\ D # {}
  <2>1. \A x \in S : x - b \in Nat
    OBVIOUS
  <2> QED BY <2>1
<1>2. PICK n \in D : \A m \in D : ~ (<<m, n>> \in OpToRel(<, Nat))
  BY <1>1, NatLessThanWellFounded, WFMin
<1>3. \A m \in D : ~ (m < n)
  BY <1>1, <1>2 DEF OpToRel
<1>4. PICK x \in S : n = x - b
  BY <1>2
<1>5. ASSUME NEW z \in S PROVE x <= z
  <2>1. z - b \in D
    OBVIOUS
  <2>2. ~ (z - b < x - b)
    BY <1>3, <1>4, <2>1
  <2> QED BY <2>2
<1> QED BY <1>5

-----------------------------------------------------------------------------
(* The calendar and the run it announces                                    *)

CalendarTypeOK ==
    /\ year \in Years
    /\ now \in [date : Date(year, 1, 1) .. Date(year, 12, 31), tick : Nat]
    /\ enabled \in SUBSET Scans

LEMMA CalendarTypeCorrect == CalendarSpec => []CalendarTypeOK
<1>1. CalendarInit => CalendarTypeOK
  <2> SUFFICES ASSUME CalendarInit PROVE CalendarTypeOK
    OBVIOUS
  <2>1. year \in Years /\ year \in Nat
    BY CalendarAssumption DEF CalendarInit
  <2>2. Date(year, 1, 1) \in Int /\ Date(year, 1, 1) \in {Date(year, 3, 1) - 59, Date(year, 3, 1) - 60}
    <3>1. \A d \in Int : Date(year, 1, 1) \in {Date(year, 3, 1) - 59, Date(year, 3, 1) - 60}
      BY <2>1, Januaries
    <3> QED BY <2>1, <3>1, DateIsInteger
  <2>3. Date(year, 12, 31) = Date(year, 3, 1) + 305
    <3>1. \A d \in Int : Date(year, 12, d) = Date(year, 3, 1) + 274 + d
      BY <2>1, Dates
    <3>2. Date(year, 3, 1) \in Int
      BY <2>1, FirstOfMarch
    <3> QED BY <3>1, <3>2
  <2>4. Date(year, 3, 1) \in Int
    BY <2>1, FirstOfMarch
  <2>5. Date(year, 1, 1) \in Date(year, 1, 1) .. Date(year, 12, 31)
    BY <2>2, <2>3, <2>4
  <2> QED BY <2>1, <2>5 DEF CalendarInit, CalendarTypeOK
<1>2. CalendarTypeOK /\ [CalendarTick]_calendarVars => CalendarTypeOK'
  <2> SUFFICES ASSUME CalendarTypeOK, CalendarTick PROVE CalendarTypeOK'
    BY DEF CalendarTypeOK, calendarVars
  <2>1. year' = year /\ enabled' = enabled
    BY DEF CalendarTick
  <2>2. PICK first \in Int, last \in Int : first = Date(year, 1, 1) /\ last = Date(year, 12, 31)
    <3>1. year \in Nat
      BY CalendarAssumption DEF CalendarTypeOK
    <3> QED BY <3>1, DateIsInteger
  <2>3. now \in [date : first .. last, tick : Nat]
    BY <2>2 DEF CalendarTypeOK
  <2>4. Date(year', 1, 1) = first /\ Date(year', 12, 31) = last
    BY <2>1, <2>2
  <2>5. now' \in [date : first .. last, tick : Nat]
    <3>1. CASE now' = [now EXCEPT !.tick = @ + 1]
      BY <2>3, <3>1
    <3>2. CASE now.date < last /\ now' = [date |-> now.date + 1, tick |-> 0]
      <4>1. now.date + 1 \in first .. last
        BY <2>2, <2>3, <3>2
      <4> QED BY <3>2, <4>1
    <3> QED BY <2>2, <3>1, <3>2 DEF CalendarTick
  <2> QED BY <2>1, <2>4, <2>5 DEF CalendarTypeOK
<1> QED BY <1>1, <1>2, PTL DEF CalendarSpec

\* The days that next_run looks at, of this year and of the next.
LEMMA ScanDays ==
    ASSUME CalendarTypeOK, NEW d \in Int
    PROVE  IsScanDay(d) <=> ~ Closed(YearOf(d), d)
<1>1. YearOf(d) \in Years \union {z + 1 : z \in Years} /\ YearOf(d) \in Nat
  BY CalendarAssumption DEF YearOf, CalendarTypeOK
<1>2. HolidaysOf[YearOf(d)] = NyseHolidays(YearOf(d))
  BY <1>1 DEF HolidaysOf
<1> QED BY <1>1, <1>2, ClosedDays DEF IsScanDay, IsMarketHoliday

\* For any years: the days the scheduler works are the exchange's
\* (scheduler.py:62-88).
THEOREM CalendarIsExchangeHolds == CalendarSpec => []CalendarIsExchange
<1>1. CalendarTypeOK => CalendarIsExchange
  <2> SUFFICES ASSUME CalendarTypeOK PROVE CalendarIsExchange
    OBVIOUS
  <2>1. PICK d \in Int : d = now.date
    BY DEF CalendarTypeOK
  <2>2. ~ (d > Date(year, 12, 31))
    <3>1. Date(year, 12, 31) \in Int
      BY CalendarAssumption, DateIsInteger DEF CalendarTypeOK
    <3> QED BY <2>1, <3>1 DEF CalendarTypeOK
  <2>3. YearOf(d) = year
    BY <2>2 DEF YearOf
  <2> QED BY <2>1, <2>3, ScanDays DEF CalendarIsExchange
<1> QED BY <1>1, CalendarTypeCorrect, PTL

\* For any years, any schedule and any set of enabled scans: the run announced is
\* the earliest still to come, and there always is one (scheduler.py:166-185).
THEOREM NextRunIsEarliestHolds == CalendarSpec => []NextRunIsEarliest
<1>1. CalendarTypeOK => NextRunIsEarliest
  <2> SUFFICES ASSUME CalendarTypeOK PROVE NextRunIsEarliest
    OBVIOUS
  <2> DEFINE days == {d \in now.date .. now.date + Lookahead - 1 : Ahead(d) # {}}
             day == CHOOSE d \in days : \A e \in days : d <= e
             first == CHOOSE s \in Ahead(day) : \A t \in Ahead(day) : TimeOf[s] <= TimeOf[t]
             comes == {At(s, d) : s \in enabled,
                       d \in {e \in now.date .. now.date + 13 : ~ Closed(YearOf(e), e)}}
             ahead == {m \in comes : After(m, now)}
  <2>1. NextRun = IF days = {} THEN NoRun ELSE At(first, day)
    BY DEF NextRun
  <2>2. NextRunIsEarliest <=>
            IF enabled = {} THEN NextRun = NoRun
            ELSE NextRun \in ahead /\ \A m \in ahead : ~ After(NextRun, m)
    BY DEF NextRunIsEarliest
  <2>3. year \in Nat /\ now.date \in Int /\ now.tick \in Nat
    BY CalendarAssumption DEF CalendarTypeOK
  <2>4. \A s \in enabled : TimeOf[s] \in Nat
    BY CalendarAssumption DEF CalendarTypeOK
  <2>5. \A d \in Int : \A s : s \in Ahead(d) <=>
            s \in enabled /\ ~ Closed(YearOf(d), d) /\ After(At(s, d), now)
    BY ScanDays DEF Ahead
  <2>6. CASE enabled = {}
    <3>1. days = {}
      BY <2>3, <2>5, <2>6
    <3> QED BY <2>1, <2>2, <2>6, <3>1
  <2>7. CASE enabled # {}
    <3>1. PICK s0 \in enabled : TRUE
      BY <2>7
    <3>2. PICK d0 \in now.date + 1 .. now.date + 7 : ~ Closed(YearOf(d0), d0)
      BY <2>3, OpenSoon DEF YearOf
    <3>3. s0 \in Ahead(d0)
      BY <2>3, <2>5, <3>1, <3>2 DEF At, After
    <3>4. d0 \in days
      BY <2>3, <3>2, <3>3 DEF Lookahead
    <3>5. days \in SUBSET Int /\ \A d \in days : now.date <= d /\ d <= now.date + 7
      BY <2>3 DEF Lookahead
    <3>6. day \in days /\ \A e \in days : day <= e
      BY <2>3, <3>4, <3>5, Least
    <3> HIDE DEF day
    <3>7. Ahead(day) # {} /\ day \in Int /\ now.date <= day /\ day <= now.date + 7
      BY <3>5, <3>6
    <3>8. \E s \in Ahead(day) : \A t \in Ahead(day) : TimeOf[s] <= TimeOf[t]
      <4> DEFINE T == {TimeOf[s] : s \in Ahead(day)}
      <4>1. T \in SUBSET Int /\ T # {} /\ \A n \in T : 0 <= n
        BY <2>4, <2>5, <3>7
      <4>2. PICK n \in T : \A m \in T : n <= m
        <5> HIDE DEF T
        <5>1. 0 \in Int
          OBVIOUS
        <5> QED BY <4>1, <5>1, Least
      <4> QED BY <4>2
    <3>9. first \in Ahead(day) /\ \A t \in Ahead(day) : TimeOf[first] <= TimeOf[t]
      BY <3>8
    <3> HIDE DEF first
    <3>10. /\ NextRun = At(first, day) /\ first \in enabled /\ ~ Closed(YearOf(day), day)
           /\ After(At(first, day), now)
      BY <2>1, <2>5, <3>4, <3>7, <3>9
    <3>11. NextRun \in ahead
      <4>1. day \in now.date .. now.date + 13
        BY <2>3, <3>7
      <4> QED BY <3>10, <4>1
    <3>12. ASSUME NEW m \in ahead PROVE ~ After(NextRun, m)
      <4>1. PICK s \in enabled, d \in now.date .. now.date + 13 :
                m = At(s, d) /\ ~ Closed(YearOf(d), d) /\ After(At(s, d), now)
        BY <3>12
      <4>2. d \in Int /\ now.date <= d
        BY <2>3, <4>1
      <4>3. s \in Ahead(d)
        BY <2>5, <4>1, <4>2
      <4>4. d <= now.date + 7 => d \in days
        BY <2>3, <4>2, <4>3 DEF Lookahead
      <4>5. day <= d
        BY <2>3, <3>6, <3>7, <4>2, <4>4
      <4>6. d = day => TimeOf[first] <= TimeOf[s]
        BY <3>9, <4>3
      <4>7. TimeOf[s] \in Nat /\ TimeOf[first] \in Nat
        BY <2>4, <3>10, <4>1
      <4> HIDE DEF ahead, comes
      <4> QED BY <3>7, <3>10, <4>1, <4>2, <4>5, <4>6, <4>7 DEF At, After
    <3> QED BY <2>2, <2>7, <3>11, <3>12
  <2> QED BY <2>6, <2>7
<1> QED BY <1>1, CalendarTypeCorrect, PTL

-----------------------------------------------------------------------------
(* Induction, with a set in the place of a predicate                         *)

LEMMA Induction ==
    ASSUME NEW T \in SUBSET Nat, 0 \in T, \A n \in T : n + 1 \in T
    PROVE  T = Nat
<1> DEFINE Rest == Nat \ T
<1> SUFFICES ASSUME Rest # {} PROVE FALSE
  OBVIOUS
<1>1. PICK n \in Rest : \A m \in Rest : ~ (<<m, n>> \in OpToRel(<, Nat))
  BY NatLessThanWellFounded, WFMin
<1>2. \A m \in Rest : ~ (m < n)
  BY <1>1 DEF OpToRel
<1>3. n - 1 \in T
  BY <1>2
<1> QED BY <1>3

\* From the end of a path back to its beginning.
LEMMA Backwards ==
    ASSUME NEW n \in Nat, NEW T, n + 1 \in T, \A i \in 1 .. n : i + 1 \in T => i \in T
    PROVE  \A i \in 1 .. n + 1 : i \in T
<1> DEFINE B == {j \in Nat : j <= n => n + 1 - j \in T}
<1>1. 0 \in B
  OBVIOUS
<1>2. ASSUME NEW j \in B PROVE j + 1 \in B
  <2> SUFFICES ASSUME j + 1 <= n PROVE n + 1 - (j + 1) \in T
    OBVIOUS
  <2>1. j \in Nat /\ n + 1 - j \in T
    OBVIOUS
  <2>2. n - j \in 1 .. n /\ (n - j) + 1 = n + 1 - j
    BY <2>1
  <2>3. n - j \in T
    BY <2>1, <2>2
  <2> QED BY <2>1, <2>3
<1> HIDE DEF B
<1>3. B = Nat
  <2>1. B \in SUBSET Nat
    BY DEF B
  <2>2. \A j \in B : j + 1 \in B
    BY <1>2
  <2> QED BY <1>1, <2>1, <2>2, Induction
<1> SUFFICES ASSUME NEW i \in 1 .. n + 1 PROVE i \in T
  OBVIOUS
<1>4. n + 1 - i \in B /\ n + 1 - i <= n
  BY <1>3
<1>5. n + 1 - (n + 1 - i) = i
  OBVIOUS
<1> QED BY <1>4, <1>5 DEF B

-----------------------------------------------------------------------------
(* The walk                                                                *)

\* What the loop makes of the observations from the i-th on.
Turn(t, p, f, i) ==
    IF i > Len(p) THEN Verdict("OPEN", Gain(t, p[Len(p)]))
    ELSE IF p[i] <= t.stop THEN Verdict("STOPPED", Gain(t, t.stop))
    ELSE IF p[i] >= t.target THEN Verdict("TARGET", Gain(t, t.target))
    ELSE f[i + 1]

Turns(t, p, k, f) == f = [i \in k .. Len(p) + 1 |-> Turn(t, p, f, i)]

LEMMA TurnsExist ==
    ASSUME NEW t, NEW p, Len(p) \in Nat
    PROVE  \E f : Turns(t, p, 1, f)
<1> DEFINE n == Len(p)
           T == {k \in 1 .. n + 1 : \E f : Turns(t, p, k, f)}
<1>1. n + 1 \in T
  <2> DEFINE f == [i \in n + 1 .. n + 1 |-> Verdict("OPEN", Gain(t, p[n]))]
  <2>1. Turns(t, p, n + 1, f)
    BY DEF Turns, Turn
  <2> QED BY <2>1
<1>2. ASSUME NEW k \in 1 .. n, k + 1 \in T PROVE k \in T
  <2>1. PICK g : Turns(t, p, k + 1, g)
    BY <1>2
  <2> DEFINE f == [i \in k .. n + 1 |-> IF i = k THEN Turn(t, p, g, k) ELSE g[i]]
  <2>2. Turns(t, p, k, f)
    <3> SUFFICES ASSUME NEW i \in k .. n + 1 PROVE f[i] = Turn(t, p, f, i)
      BY DEF Turns
    <3>1. CASE i = k
      <4>1. f[k + 1] = g[k + 1]
        OBVIOUS
      <4> QED BY <3>1, <4>1 DEF Turn
    <3>2. CASE i # k
      <4>1. i \in k + 1 .. n + 1
        BY <3>2
      <4>2. g[i] = Turn(t, p, g, i)
        BY <2>1, <4>1 DEF Turns
      <4>3. i <= n => f[i + 1] = g[i + 1]
        BY <4>1
      <4> QED BY <3>2, <4>1, <4>2, <4>3 DEF Turn
    <3> QED BY <3>1, <3>2
  <2> QED BY <2>2
<1> HIDE DEF T
<1>3. 1 \in T
  BY <1>1, <1>2, Backwards
<1> QED BY <1>3 DEF T

LEMMA WalkTurns ==
    ASSUME NEW t, NEW p, Len(p) \in Nat
    PROVE  \E f : /\ Walk(t, p) = f[1]
                  /\ \A i \in 1 .. Len(p) + 1 : f[i] = Turn(t, p, f, i)
<1> DEFINE c == CHOOSE f : Turns(t, p, 1, f)
<1>1. Turns(t, p, 1, c)
  BY TurnsExist
<1>2. Walk(t, p) = c[1]
  BY DEF Walk, Turns, Turn
<1>3. \A i \in 1 .. Len(p) + 1 : c[i] = Turn(t, p, c, i)
  BY <1>1 DEF Turns
<1> QED BY <1>2, <1>3

LEMMA PathOfIntegers ==
    ASSUME NEW P, P \subseteq Int, NEW p \in Seq(P)
    PROVE  p \in Seq(Int)
<1>1. /\ Len(p) \in Nat /\ p = [i \in 1 .. Len(p) |-> p[i]]
      /\ \A i \in 1 .. Len(p) : p[i] \in P
  OBVIOUS
<1>2. \A i \in 1 .. Len(p) : p[i] \in Int
  BY <1>1
<1>3. [i \in 1 .. Len(p) |-> p[i]] \in Seq(Int)
  BY <1>1, <1>2
<1> QED BY <1>1, <1>3

LEMMA OneMorePrice ==
    ASSUME NEW p \in Seq(Int), NEW x \in Int
    PROVE  /\ Append(p, x) \in Seq(Int) /\ Len(Append(p, x)) = Len(p) + 1 /\ Len(p) \in Nat
           /\ \A i \in 1 .. Len(p) : Append(p, x)[i] = p[i] /\ p[i] \in Int
           /\ Append(p, x)[Len(p) + 1] = x
OBVIOUS

\* A verdict other than OPEN is not changed by one more price.
LEMMA VerdictKept ==
    ASSUME NEW t, NEW p \in Seq(Int), NEW x \in Int, NEW q, q = Append(p, x),
           Walk(t, p).result # "OPEN"
    PROVE  Walk(t, q) = Walk(t, p)
<1>1. /\ Len(p) \in Nat /\ Len(q) = Len(p) + 1
      /\ \A i \in 1 .. Len(p) : q[i] = p[i]
  BY OneMorePrice
<1>2. PICK f : /\ Walk(t, p) = f[1]
               /\ \A i \in 1 .. Len(p) + 1 : f[i] = Turn(t, p, f, i)
  BY <1>1, WalkTurns
<1>3. PICK g : /\ Walk(t, q) = g[1]
               /\ \A i \in 1 .. Len(q) + 1 : g[i] = Turn(t, q, g, i)
  <2>1. Len(q) \in Nat
    BY <1>1
  <2> QED BY ONLY <2>1, WalkTurns
<1> DEFINE T == {i \in 1 .. Len(p) + 1 : f[i].result # "OPEN" => g[i] = f[i]}
<1>4. Len(p) + 1 \in T
  <2>1. f[Len(p) + 1] = Verdict("OPEN", Gain(t, p[Len(p)]))
    BY <1>1, <1>2 DEF Turn
  <2>2. f[Len(p) + 1].result = "OPEN"
    BY <2>1 DEF Verdict
  <2> QED BY <1>1, <2>2
<1>5. ASSUME NEW i \in 1 .. Len(p), i + 1 \in T PROVE i \in T
  <2>1. /\ i \in 1 .. Len(p) + 1 /\ i \in 1 .. Len(q) + 1 /\ ~ (i > Len(p)) /\ ~ (i > Len(q))
        /\ q[i] = p[i]
    BY <1>1
  <2>2. f[i] = Turn(t, p, f, i) /\ g[i] = Turn(t, q, g, i)
    BY <1>2, <1>3, <2>1
  <2>3. f[i + 1].result # "OPEN" => g[i + 1] = f[i + 1]
    BY <1>5
  <2>4. f[i].result # "OPEN" => g[i] = f[i]
    BY <2>1, <2>2, <2>3 DEF Turn
  <2> QED BY <2>1, <2>4
<1> HIDE DEF T
<1>6. 1 \in T
  <2>1. \A i \in 1 .. Len(p) + 1 : i \in T
    BY <1>1, <1>4, <1>5, Backwards
  <2> QED BY <1>1, <2>1
<1>7. f[1].result # "OPEN" => g[1] = f[1]
  BY <1>6 DEF T
<1> QED BY <1>2, <1>3, <1>7

-----------------------------------------------------------------------------
(* The excursions                                                          *)

IsLow(x, S) == x \in S /\ \A y \in S : x <= y
IsHigh(x, S) == x \in S /\ \A y \in S : y <= x

\* The gains of the first n prices.
FirstGains(t, p, n) == {Gain(t, p[i]) : i \in 1 .. n}

\* A path with a price has a lowest and a highest gain.
LEMMA GainsBounded ==
    ASSUME NEW t, t.entry \in Int, NEW p \in Seq(Int), p # <<>>
    PROVE  /\ Gains(t, p) \subseteq Int
           /\ \E x : IsLow(x, Gains(t, p))
           /\ \E x : IsHigh(x, Gains(t, p))
<1> DEFINE T == {k \in Nat : k + 1 <= Len(p) =>
                    (\E x : IsLow(x, FirstGains(t, p, k + 1))) /\ (\E x : IsHigh(x, FirstGains(t, p, k + 1)))}
<1>1. Len(p) \in Nat /\ Len(p) >= 1 /\ DOMAIN p = 1 .. Len(p)
  OBVIOUS
<1>2. \A i \in 1 .. Len(p) : Gain(t, p[i]) \in Int
  BY DEF Gain
<1>3. 0 \in T
  <2>1. FirstGains(t, p, 1) = {Gain(t, p[1])} /\ Gain(t, p[1]) \in Int
    BY <1>1, <1>2 DEF FirstGains
  <2>2. IsLow(Gain(t, p[1]), FirstGains(t, p, 1)) /\ IsHigh(Gain(t, p[1]), FirstGains(t, p, 1))
    BY <2>1 DEF IsLow, IsHigh
  <2> QED BY <2>2
<1>4. ASSUME NEW k \in Nat, k \in T PROVE k + 1 \in T
  <2> SUFFICES ASSUME (k + 1) + 1 <= Len(p)
               PROVE  /\ \E x : IsLow(x, FirstGains(t, p, (k + 1) + 1))
                      /\ \E x : IsHigh(x, FirstGains(t, p, (k + 1) + 1))
    OBVIOUS
  <2>1. k + 1 <= Len(p)
    BY <1>1
  <2> DEFINE z == Gain(t, p[(k + 1) + 1])
  <2>2. z \in Int /\ FirstGains(t, p, (k + 1) + 1) = FirstGains(t, p, k + 1) \union {z}
    <3>1. (k + 1) + 1 \in 1 .. Len(p) /\ 1 .. (k + 1) + 1 = (1 .. k + 1) \union {(k + 1) + 1}
      BY <2>1
    <3> QED BY <1>2, <3>1 DEF FirstGains
  <2>3. FirstGains(t, p, k + 1) \subseteq Int
    BY <1>1, <1>2, <2>1 DEF FirstGains
  <2>0. (\E y : IsLow(y, FirstGains(t, p, k + 1))) /\ (\E y : IsHigh(y, FirstGains(t, p, k + 1)))
    BY <1>4, <2>1
  <2>4. PICK lo, hi : IsLow(lo, FirstGains(t, p, k + 1)) /\ IsHigh(hi, FirstGains(t, p, k + 1))
    BY <2>0
  <2> HIDE DEF z
  <2>5. IsLow(IF z < lo THEN z ELSE lo, FirstGains(t, p, (k + 1) + 1))
    BY <2>2, <2>3, <2>4 DEF IsLow
  <2>6. IsHigh(IF hi < z THEN z ELSE hi, FirstGains(t, p, (k + 1) + 1))
    BY <2>2, <2>3, <2>4 DEF IsHigh
  <2> QED BY <2>5, <2>6
<1> HIDE DEF T
<1>5. T = Nat
  <2>1. T \in SUBSET Nat
    BY DEF T
  <2>2. \A k \in T : k + 1 \in T
    BY <1>4, <2>1
  <2> QED BY <1>3, <2>1, <2>2, Induction
<1>6. Len(p) - 1 \in T /\ (Len(p) - 1) + 1 = Len(p)
  BY <1>1, <1>5
<1>7. (\E x : IsLow(x, FirstGains(t, p, Len(p)))) /\ (\E x : IsHigh(x, FirstGains(t, p, Len(p))))
  BY <1>1, <1>6 DEF T
<1>8. Gains(t, p) = FirstGains(t, p, Len(p))
  BY <1>1 DEF Gains, FirstGains
<1>9. Gains(t, p) \subseteq Int
  BY <1>1, <1>2 DEF Gains
<1> QED BY <1>7, <1>8, <1>9

LEMMA ExcursionsWiden ==
    ASSUME NEW t, t.entry \in Int, NEW p \in Seq(Int), p # <<>>, NEW x \in Int,
           NEW q, q = Append(p, x)
    PROVE  /\ EvaluatePath(t, q).mae <= EvaluatePath(t, p).mae
           /\ EvaluatePath(t, p).mfe <= EvaluatePath(t, q).mfe
<1>1. /\ q \in Seq(Int) /\ q # <<>> /\ Len(q) = Len(p) + 1 /\ Len(p) \in Nat
      /\ \A i \in 1 .. Len(p) : q[i] = p[i]
  BY OneMorePrice
<1>2. Gains(t, p) \subseteq Gains(t, q)
  <2>1. DOMAIN p = 1 .. Len(p) /\ DOMAIN p \subseteq DOMAIN q
    BY <1>1
  <2> QED BY <1>1, <2>1 DEF Gains
<1>3. /\ Gains(t, q) \subseteq Int
      /\ \E y : IsLow(y, Gains(t, p)) /\ \E z : IsLow(z, Gains(t, q))
      /\ \E y : IsHigh(y, Gains(t, p)) /\ \E z : IsHigh(z, Gains(t, q))
  BY <1>1, GainsBounded
<1> DEFINE low(S) == CHOOSE y \in S : \A z \in S : y <= z
           high(S) == CHOOSE y \in S : \A z \in S : z <= y
<1>4. IsLow(low(Gains(t, p)), Gains(t, p)) /\ IsLow(low(Gains(t, q)), Gains(t, q))
  BY <1>3 DEF IsLow
<1>5. IsHigh(high(Gains(t, p)), Gains(t, p)) /\ IsHigh(high(Gains(t, q)), Gains(t, q))
  BY <1>3 DEF IsHigh
<1>6. /\ EvaluatePath(t, p).mae = low(Gains(t, p)) /\ EvaluatePath(t, q).mae = low(Gains(t, q))
      /\ EvaluatePath(t, p).mfe = high(Gains(t, p)) /\ EvaluatePath(t, q).mfe = high(Gains(t, q))
  BY DEF EvaluatePath
<1> HIDE DEF low, high
<1> QED BY <1>2, <1>4, <1>5, <1>6 DEF IsLow, IsHigh

-----------------------------------------------------------------------------

PathTypeOK == trade \in Trades /\ path \in Seq(Prices)

\* For any trade and any prices: once stopped or at its target, a trade keeps its
\* verdict and its R however long it is watched, and its excursions only widen
\* (forward_test.py:42-52).
THEOREM VerdictStandsHolds == PathSpec => VerdictStands
<1>1. PathInit => PathTypeOK
  BY DEF PathInit, PathTypeOK
<1>2. PathTypeOK /\ [Observe]_pathVars => PathTypeOK'
  BY DEF PathTypeOK, Observe, pathVars
<1> DEFINE Stands == LET before == EvaluatePath(trade, path)
                         after == EvaluatePath(trade, path')
                     IN  ~ Refused(trade, path) /\ ~ Refused(trade, path') =>
                          /\ before.verdict.result # "OPEN" => after.verdict = before.verdict
                          /\ after.mae <= before.mae /\ before.mfe <= after.mfe
<1>3. PathTypeOK /\ [Observe]_pathVars => [Stands]_pathVars
  <2> SUFFICES ASSUME PathTypeOK, Observe, ~ Refused(trade, path)
               PROVE  Stands
    OBVIOUS
  <2>1. PICK x \in Prices : path' = Append(path, x)
    BY DEF Observe
  <2>2. x \in Int /\ path \in Seq(Int) /\ trade.entry \in Int
    <3>1. Prices \subseteq Int
      BY PriceAssumption
    <3>2. trade \in Trades /\ path \in Seq(Prices)
      BY DEF PathTypeOK
    <3>3. trade.entry \in Int
      BY <3>2, PriceAssumption
    <3>4. path \in Seq(Int)
      BY <3>1, <3>2, PathOfIntegers
    <3> QED BY <3>1, <3>3, <3>4
  <2>3. path # <<>>
    BY DEF Refused
  <2>4. PICK q : q = path'
    OBVIOUS
  <2>5. Walk(trade, path).result # "OPEN" => Walk(trade, q) = Walk(trade, path)
    BY <2>1, <2>2, <2>4, VerdictKept
  <2>6. /\ EvaluatePath(trade, q).mae <= EvaluatePath(trade, path).mae
        /\ EvaluatePath(trade, path).mfe <= EvaluatePath(trade, q).mfe
    BY <2>1, <2>2, <2>3, <2>4, ExcursionsWiden
  <2>7. /\ EvaluatePath(trade, q).verdict = Walk(trade, q)
        /\ EvaluatePath(trade, path).verdict = Walk(trade, path)
    BY DEF EvaluatePath
  <2> QED BY <2>4, <2>5, <2>6, <2>7
<1> QED BY <1>1, <1>2, <1>3, PTL DEF PathSpec, VerdictStands

-----------------------------------------------------------------------------
(* The list                                                                *)

LEMMA ScoreType ==
    ASSUME NEW e \in Evidence
    PROVE  SniperScore(e) \in Int
<1>1. e.sum \in Scores
  BY RankingAssumption
<1>2. e.sum \in Int
  <2>1. Scores \subseteq Int
    BY DEF Scores
  <2> QED BY <1>1, <2>1
<1>3. SniperScore(e) \in {e.sum, 0, e.sum - 1000}
  BY DEF SniperScore
<1> QED BY <1>2, <1>3

LEMMA OneMoreCandidate ==
    ASSUME NEW S, NEW c \in Seq(S), NEW e \in S
    PROVE  /\ Append(c, e) \in Seq(S) /\ Len(c) \in Nat /\ Len(Append(c, e)) = Len(c) + 1
           /\ DOMAIN c = 1 .. Len(c) /\ DOMAIN Append(c, e) = 1 .. Len(c) + 1
           /\ \A i \in 1 .. Len(c) : Append(c, e)[i] = c[i] /\ c[i] \in S
           /\ Append(c, e)[Len(c) + 1] = e
OBVIOUS

\* The order is strict and total on the positions of a scan's candidates.
LEMMA BeforeIsOrder ==
    ASSUME NEW cs \in Seq(Evidence)
    PROVE  /\ \A i \in DOMAIN cs : ~ Before(cs, i, i)
           /\ \A i, j, k \in DOMAIN cs : Before(cs, i, j) /\ Before(cs, j, k) => Before(cs, i, k)
           /\ \A i, j \in DOMAIN cs : i # j => Before(cs, i, j) \/ Before(cs, j, i)
<1>1. DOMAIN cs \subseteq Int /\ \A i \in DOMAIN cs : cs[i] \in Evidence
  OBVIOUS
<1>2. \A i \in DOMAIN cs : SniperScore(cs[i]) \in Int
  BY <1>1, ScoreType
<1> QED BY <1>1, <1>2 DEF Before

\* The candidates listed before one of them, if the list is long enough.
AheadOf(cs, i) == {j \in Qualified(cs) : Before(cs, j, i)}

LEMMA QualifiedIsFinite ==
    ASSUME NEW cs \in Seq(Evidence)
    PROVE  /\ IsFiniteSet(Qualified(cs)) /\ Cardinality(Qualified(cs)) \in Nat
           /\ Qualified(cs) \subseteq DOMAIN cs
           /\ \A i : /\ IsFiniteSet(AheadOf(cs, i)) /\ Cardinality(AheadOf(cs, i)) \in Nat
                     /\ Place(cs, i) = 1 + Cardinality(AheadOf(cs, i))
<1>1. DOMAIN cs = 1 .. Len(cs) /\ Len(cs) \in Int /\ 1 \in Int
  OBVIOUS
<1>2. IsFiniteSet(DOMAIN cs)
  BY <1>1, FS_Interval
<1>3. Qualified(cs) \in SUBSET DOMAIN cs
  BY DEF Qualified
<1>4. IsFiniteSet(Qualified(cs))
  BY <1>2, <1>3, FS_Subset
<1>5. ASSUME NEW i PROVE IsFiniteSet(AheadOf(cs, i))
  <2>1. AheadOf(cs, i) \in SUBSET Qualified(cs)
    BY DEF AheadOf
  <2> QED BY <1>4, <2>1, FS_Subset
<1>6. \A i : Place(cs, i) = 1 + Cardinality(AheadOf(cs, i))
  BY DEF Place, AheadOf
<1> QED BY <1>3, <1>4, <1>5, <1>6, FS_CardinalityType

\* Every place from the first to the last is taken, by one candidate.
LEMMA Places ==
    ASSUME NEW cs \in Seq(Evidence)
    PROVE  LET n == Cardinality(Qualified(cs))
           IN  /\ \A i \in Qualified(cs) : Place(cs, i) \in 1 .. n
               /\ \A i, j \in Qualified(cs) : Before(cs, i, j) => Place(cs, i) < Place(cs, j)
               /\ \A i, j \in Qualified(cs) : Place(cs, i) = Place(cs, j) => i = j
               /\ \A p \in 1 .. n : \E i \in Qualified(cs) : Place(cs, i) = p
<1> DEFINE Q == Qualified(cs)
           n == Cardinality(Q)
<1>1. IsFiniteSet(Q) /\ n \in Nat /\ Q \subseteq DOMAIN cs
  BY QualifiedIsFinite
<1>2. ASSUME NEW i \in Q PROVE Place(cs, i) \in 1 .. n
  <2>1. AheadOf(cs, i) \in SUBSET (Q \ {i})
    BY <1>1, BeforeIsOrder DEF AheadOf
  <2>2. IsFiniteSet(Q \ {i}) /\ Cardinality(Q \ {i}) = n - 1
    BY <1>1, FS_RemoveElement
  <2>3. Cardinality(AheadOf(cs, i)) <= n - 1
    BY <2>1, <2>2, FS_Subset
  <2>4. Cardinality(AheadOf(cs, i)) \in Nat /\ Place(cs, i) = 1 + Cardinality(AheadOf(cs, i))
    BY QualifiedIsFinite
  <2> HIDE DEF n
  <2> QED BY <1>1, <2>3, <2>4
<1>3. ASSUME NEW i \in Q, NEW j \in Q, Before(cs, i, j) PROVE Place(cs, i) < Place(cs, j)
  <2>1. AheadOf(cs, i) \union {i} \in SUBSET AheadOf(cs, j)
    BY <1>1, <1>3, BeforeIsOrder DEF AheadOf
  <2>2. i \notin AheadOf(cs, i)
    BY <1>1, BeforeIsOrder DEF AheadOf
  <2>3. /\ IsFiniteSet(AheadOf(cs, i)) /\ Cardinality(AheadOf(cs, i)) \in Nat
        /\ IsFiniteSet(AheadOf(cs, j)) /\ Cardinality(AheadOf(cs, j)) \in Nat
        /\ Place(cs, i) = 1 + Cardinality(AheadOf(cs, i))
        /\ Place(cs, j) = 1 + Cardinality(AheadOf(cs, j))
    BY QualifiedIsFinite
  <2>4. Cardinality(AheadOf(cs, i) \union {i}) = Cardinality(AheadOf(cs, i)) + 1
    BY <2>2, <2>3, FS_AddElement
  <2>5. Cardinality(AheadOf(cs, i) \union {i}) <= Cardinality(AheadOf(cs, j))
    BY <2>1, <2>3, FS_Subset
  <2> QED BY <2>3, <2>4, <2>5
<1>4. ASSUME NEW i \in Q, NEW j \in Q, Place(cs, i) = Place(cs, j) PROVE i = j
  <2> SUFFICES ASSUME i # j PROVE FALSE
    OBVIOUS
  <2>1. Before(cs, i, j) \/ Before(cs, j, i)
    BY <1>1, BeforeIsOrder
  <2>2. Place(cs, i) \in Int /\ Place(cs, j) \in Int
    BY <1>2
  <2> QED BY <1>3, <1>4, <2>1, <2>2
<1>5. ASSUME NEW p \in 1 .. n PROVE \E i \in Q : Place(cs, i) = p
  <2> DEFINE f == [i \in Q |-> Place(cs, i)]
  <2>1. f \in Injection(Q, 1 .. n)
    BY <1>2, <1>4 DEF Injection, IsInjective
  <2>2. IsFiniteSet(1 .. n) /\ Cardinality(1 .. n) = n
    <3>1. 1 \in Int /\ n \in Int
      BY <1>1
    <3>2. IsFiniteSet(1 .. n) /\ Cardinality(1 .. n) = IF 1 > n THEN 0 ELSE n - 1 + 1
      BY <3>1, FS_Interval
    <3> HIDE DEF n
    <3> QED BY <1>1, <3>2
  <2>3. f \in Surjection(Q, 1 .. n)
    <3> HIDE DEF f
    <3> QED BY <2>1, <2>2, FS_Injection
  <2>4. \E i \in Q : f[i] = p
    BY <2>3 DEF Surjection
  <2> QED BY <2>4
<1> QED BY <1>2, <1>3, <1>4, <1>5

\* The list is made of the first places.
LEMMA ListedByPlace ==
    ASSUME NEW cs \in Seq(Evidence)
    PROVE  LET n == Cardinality(Qualified(cs))
           IN  /\ Listed(cs) = {i \in Qualified(cs) : Place(cs, i) <= Limit}
               /\ Len(Rank(cs)) = IF n < Limit THEN n ELSE Limit
<1> DEFINE Q == Qualified(cs)
           n == Cardinality(Q)
           k == IF n < Limit THEN n ELSE Limit
<1>1. n \in Nat /\ Limit \in Nat /\ k \in Nat /\ k <= n /\ k <= Limit
  <2>1. n \in Nat
    BY QualifiedIsFinite, Zenon
  <2>2. Limit \in Nat
    BY RankingAssumption, Zenon
  <2> QED BY ONLY <2>1, <2>2
<1>2. Rank(cs) = [p \in 1 .. k |-> CHOOSE i \in Q : Place(cs, i) = p]
  BY DEF Rank
<1>3. /\ \A i \in Q : Place(cs, i) \in 1 .. n
      /\ \A i, j \in Q : Place(cs, i) = Place(cs, j) => i = j
      /\ \A p \in 1 .. n : \E i \in Q : Place(cs, i) = p
  BY Places
<1> HIDE DEF n
<1>4. \A p \in 1 .. k : Rank(cs)[p] \in Q /\ Place(cs, Rank(cs)[p]) = p
  BY <1>1, <1>2, <1>3
<1>5. DOMAIN Rank(cs) = 1 .. k /\ Len(Rank(cs)) = k
  BY <1>1, <1>2
<1>6. Listed(cs) = {Rank(cs)[p] : p \in 1 .. k}
  BY <1>5 DEF Listed, Range
<1>7. ASSUME NEW i \in Q, Place(cs, i) <= Limit PROVE \E p \in 1 .. k : i = Rank(cs)[p]
  <2>1. Place(cs, i) \in 1 .. k
    BY <1>1, <1>3, <1>7
  <2> QED BY <1>3, <1>4, <2>1
<1>8. \A p \in 1 .. k : Rank(cs)[p] \in Q /\ Place(cs, Rank(cs)[p]) <= Limit
  BY <1>1, <1>4
<1> QED BY <1>5, <1>6, <1>7, <1>8 DEF n

\* What one more candidate does to the places of the others.
LEMMA PlacesAfter ==
    ASSUME NEW cs \in Seq(Evidence), NEW e \in Evidence
    PROVE  LET ds == Append(cs, e)
               new == Len(cs) + 1
           IN  /\ ds \in Seq(Evidence) /\ new \notin Qualified(cs)
               /\ Qualified(ds) = IF Qualifies(e) THEN Qualified(cs) \union {new} ELSE Qualified(cs)
               /\ \A i \in Qualified(cs) :
                    Place(ds, i) = IF Qualifies(e) /\ Before(ds, new, i) THEN Place(cs, i) + 1
                                   ELSE Place(cs, i)
<1> DEFINE ds == Append(cs, e)
           new == Len(cs) + 1
<1>1. /\ ds \in Seq(Evidence) /\ Len(cs) \in Nat /\ Len(ds) = Len(cs) + 1
      /\ DOMAIN cs = 1 .. Len(cs) /\ DOMAIN ds = 1 .. Len(cs) + 1
      /\ \A i \in 1 .. Len(cs) : ds[i] = cs[i]
      /\ ds[new] = e
  BY OneMoreCandidate
<1> HIDE DEF ds, new
<1>2. new \notin Qualified(cs) /\ new \in DOMAIN ds /\ DOMAIN ds = DOMAIN cs \union {new}
  <2>1. new \notin DOMAIN cs /\ new \in DOMAIN ds /\ DOMAIN ds = DOMAIN cs \union {new}
    BY <1>1 DEF new
  <2> QED BY <2>1 DEF Qualified
<1>3. Qualified(ds) = IF Qualifies(e) THEN Qualified(cs) \union {new} ELSE Qualified(cs)
  BY <1>1, <1>2 DEF Qualified
<1>4. Qualified(cs) \subseteq DOMAIN cs
  BY DEF Qualified
<1>5. \A i, j \in DOMAIN cs : Before(ds, i, j) <=> Before(cs, i, j)
  BY <1>1 DEF Before
<1>6. ASSUME NEW i \in Qualified(cs)
      PROVE  Place(ds, i) = IF Qualifies(e) /\ Before(ds, new, i) THEN Place(cs, i) + 1
                            ELSE Place(cs, i)
  <2>1. AheadOf(ds, i) = IF Qualifies(e) /\ Before(ds, new, i) THEN AheadOf(cs, i) \union {new}
                         ELSE AheadOf(cs, i)
    BY <1>3, <1>4, <1>5 DEF AheadOf
  <2>2. new \notin AheadOf(cs, i)
    BY <1>2 DEF AheadOf
  <2>3. /\ IsFiniteSet(AheadOf(cs, i)) /\ Cardinality(AheadOf(cs, i)) \in Nat
        /\ Place(cs, i) = 1 + Cardinality(AheadOf(cs, i))
    BY QualifiedIsFinite
  <2>4. Place(ds, i) = 1 + Cardinality(AheadOf(ds, i))
    BY <1>1, QualifiedIsFinite
  <2>5. Cardinality(AheadOf(cs, i) \union {new}) = Cardinality(AheadOf(cs, i)) + 1
    BY <2>2, <2>3, FS_AddElement
  <2> QED BY <2>1, <2>3, <2>4, <2>5
<1> QED BY <1>1, <1>2, <1>3, <1>6 DEF ds, new

LEMMA NewcomerIsBetter ==
    ASSUME NEW cs \in Seq(Evidence), NEW e \in Evidence, NEW ds, ds = Append(cs, e),
           NEW new, new = Len(ds)
    PROVE  LET left == Listed(cs) \ Listed(ds)
           IN  /\ \A i \in left : /\ new \in Listed(ds)
                                 /\ SniperScore(ds[new]) > SniperScore(cs[i])
               /\ Cardinality(left) <= 1
               /\ left # {} => Len(Rank(cs)) = Limit
               /\ \A i \in Listed(ds) : Qualifies(ds[i])
               /\ Qualifies(ds[new]) /\ new \notin Listed(ds) => Len(Rank(cs)) = Limit
<1> DEFINE left == Listed(cs) \ Listed(ds)
           n == Cardinality(Qualified(cs))
<1>1. /\ Len(cs) \in Nat /\ new = Len(cs) + 1 /\ ds[new] = e /\ new \in DOMAIN ds
      /\ \A i \in DOMAIN cs : ds[i] = cs[i] /\ i < new /\ i \in Nat /\ i \in DOMAIN ds
  BY OneMoreCandidate
<1>2. /\ ds \in Seq(Evidence) /\ new \notin Qualified(cs)
      /\ Qualified(ds) = IF Qualifies(e) THEN Qualified(cs) \union {new} ELSE Qualified(cs)
      /\ \A i \in Qualified(cs) :
            Place(ds, i) = IF Qualifies(e) /\ Before(ds, new, i) THEN Place(cs, i) + 1
                           ELSE Place(cs, i)
  <2>1. ds = Append(cs, e) /\ new = Len(cs) + 1
    BY <1>1
  <2> QED BY ONLY <2>1, cs \in Seq(Evidence), e \in Evidence, PlacesAfter
<1>3. /\ Listed(cs) = {i \in Qualified(cs) : Place(cs, i) <= Limit}
      /\ Listed(ds) = {i \in Qualified(ds) : Place(ds, i) <= Limit}
      /\ Len(Rank(cs)) = IF n < Limit THEN n ELSE Limit
  BY <1>2, ListedByPlace
<1>4. /\ n \in Nat /\ Limit \in Nat
      /\ Qualified(cs) \subseteq DOMAIN cs
  BY QualifiedIsFinite, RankingAssumption
<1>5. /\ \A i \in Qualified(cs) : Place(cs, i) \in 1 .. n
      /\ \A i, j \in Qualified(cs) : Place(cs, i) = Place(cs, j) => i = j
  BY Places
<1>6. /\ \A i \in Qualified(ds) : Place(ds, i) \in Nat
      /\ \A i, j \in Qualified(ds) : Before(ds, i, j) => Place(ds, i) < Place(ds, j)
  <2>1. /\ \A i \in Qualified(ds) : Place(ds, i) \in 1 .. Cardinality(Qualified(ds))
        /\ \A i, j \in Qualified(ds) : Before(ds, i, j) => Place(ds, i) < Place(ds, j)
    BY <1>2, Places
  <2>2. Cardinality(Qualified(ds)) \in Nat
    BY <1>2, QualifiedIsFinite
  <2> QED BY <2>1, <2>2
<1>7. Cardinality(Qualified(ds)) = IF Qualifies(e) THEN n + 1 ELSE n
  <2>1. IsFiniteSet(Qualified(cs))
    BY QualifiedIsFinite
  <2> QED BY <1>2, <2>1, FS_AddElement, ZenonT(30)
<1> HIDE DEF n
<1>8. ASSUME NEW i \in left
      PROVE  /\ i \in Qualified(cs) /\ i \in Qualified(ds) /\ Place(cs, i) = Limit
             /\ Qualifies(e) /\ Before(ds, new, i) /\ Place(ds, i) = Limit + 1
  <2>1. i \in Qualified(cs) /\ Place(cs, i) <= Limit
    BY <1>3
  <2>2. i \in Qualified(ds) /\ ~ (Place(ds, i) <= Limit)
    BY <1>2, <1>3, <2>1
  <2>3. Place(cs, i) \in Nat
    BY <1>5, <2>1
  <2> QED BY <1>2, <1>4, <2>1, <2>2, <2>3
<1>9. ASSUME NEW i \in left
      PROVE  new \in Listed(ds) /\ SniperScore(ds[new]) > SniperScore(cs[i])
  <2>1. /\ i \in Qualified(cs) /\ i \in Qualified(ds) /\ Qualifies(e) /\ Before(ds, new, i)
        /\ Place(ds, i) = Limit + 1
    BY <1>8
  <2>2. new \in Qualified(ds)
    BY <1>2, <2>1
  <2>3. Place(ds, new) < Limit + 1 /\ Place(ds, new) \in Nat
    BY <1>6, <2>1, <2>2
  <2>4. new \in Listed(ds)
    BY <1>3, <1>4, <2>2, <2>3
  <2>5. i \in DOMAIN cs /\ ds[i] = cs[i] /\ i < new /\ i \in Nat
    BY <1>1, <1>4, <2>1
  <2>6. ~ (new < i)
    BY <1>1, <2>5
  <2>7. SniperScore(ds[new]) > SniperScore(cs[i])
    BY <2>1, <2>5, <2>6 DEF Before
  <2> QED BY <2>4, <2>7
<1>10. Cardinality(left) <= 1
  <2>1. CASE left = {}
    <3> HIDE DEF left
    <3>1. Cardinality({}) = 0
      BY FS_EmptySet
    <3> QED BY <2>1, <3>1
  <2>2. CASE left # {}
    <3>1. PICK i \in left : TRUE
      BY <2>2
    <3>2. \A j \in left : j = i
      BY <1>5, <1>8, <3>1
    <3>3. left = {i}
      BY <3>1, <3>2
    <3> HIDE DEF left
    <3>4. Cardinality({i}) = 1
      BY FS_Singleton
    <3> QED BY <3>3, <3>4
  <2> QED BY <2>1, <2>2
<1>11. left # {} => Len(Rank(cs)) = Limit
  <2> SUFFICES ASSUME NEW i \in left PROVE Len(Rank(cs)) = Limit
    OBVIOUS
  <2>1. i \in Qualified(cs) /\ Place(cs, i) = Limit
    BY <1>8
  <2>2. Limit <= n
    BY <1>4, <1>5, <2>1
  <2> QED BY <1>3, <1>4, <2>2
<1>12. \A i \in Listed(ds) : Qualifies(ds[i])
  BY <1>3 DEF Qualified
<1>13. Qualifies(ds[new]) /\ new \notin Listed(ds) => Len(Rank(cs)) = Limit
  <2> SUFFICES ASSUME Qualifies(e), new \notin Listed(ds) PROVE Len(Rank(cs)) = Limit
    BY <1>1
  <2>1. new \in Qualified(ds) /\ ~ (Place(ds, new) <= Limit)
    BY <1>2, <1>3
  <2>2. Place(ds, new) \in 1 .. n + 1
    BY <1>2, <1>7, <2>1, Places
  <2>3. Limit <= n
    BY <1>4, <2>1, <2>2
  <2> QED BY <1>3, <1>4, <2>3
<1> QED BY <1>9, <1>10, <1>11, <1>12, <1>13

\* For any candidates, any floor and any limit: a newcomer displaces at most one
\* candidate, and only one that it beats (sniper.py:98-112).
THEOREM NewcomersMustBeBetterHolds == RankingSpec => NewcomersMustBeBetter
<1> DEFINE Type == candidates \in Seq(Evidence)
<1>1. RankingInit => Type
  BY DEF RankingInit
<1>2. Type /\ [Discover]_candidates => Type'
  <2> SUFFICES ASSUME Type, Discover PROVE Type'
    OBVIOUS
  <2>1. PICK e \in Evidence : candidates' = Append(candidates, e)
    BY DEF Discover
  <2> QED BY <2>1
<1> DEFINE Better ==
        LET new == Len(candidates')
            left == Listed(candidates) \ Listed(candidates')
        IN  candidates' # candidates =>
            /\ \A i \in left : /\ new \in Listed(candidates')
                              /\ SniperScore(candidates'[new]) > SniperScore(candidates[i])
            /\ Cardinality(left) <= 1
            /\ left # {} => Len(Rank(candidates)) = Limit
            /\ \A i \in Listed(candidates') : Qualifies(candidates'[i])
            /\ Qualifies(candidates'[new]) /\ new \notin Listed(candidates') =>
                 Len(Rank(candidates)) = Limit
<1>3. Type /\ [Discover]_candidates => [Better]_candidates
  <2> SUFFICES ASSUME Type, Discover PROVE Better
    OBVIOUS
  <2>1. PICK e \in Evidence : candidates' = Append(candidates, e)
    BY DEF Discover
  <2>2. PICK ds, new : ds = candidates' /\ new = Len(ds)
    OBVIOUS
  <2> QED BY <2>1, <2>2, NewcomerIsBetter
<1> QED BY <1>1, <1>2, <1>3, PTL DEF RankingSpec, NewcomersMustBeBetter

=============================================================================
