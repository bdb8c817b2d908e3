--------------------------- MODULE RecurrenceProofs ---------------------------
(***************************************************************************)
(* The answers of a recurrence are the occurrences its rules and dates     *)
(* define, whatever was changed and cached before, and a to-do that is     *)
(* completed moves on to the right one: for any calendar, rules, dates and *)
(* number of changes.                                                      *)
(*                                                                         *)
(* What a search returns is described as the least or the greatest element *)
(* of a set of date/times, so that no induction over date/times is needed: *)
(* an occurrence a search misses would be in an interval it looked at.     *)
(***************************************************************************)
EXTENDS Recurrence, FiniteSetTheorems, WellFoundedInduction, TLAPS

-----------------------------------------------------------------------------
(* Division. *)

\* The quotient and the remainder.
LEMMA DivMod ==
  ASSUME NEW a \in Int, NEW b \in Int, b > 0
  PROVE  /\ a \div b \in Int /\ a % b \in Int
         /\ a = (a \div b) * b + (a % b)
         /\ 0 <= a % b /\ a % b < b
<1>1. a \div b \in Int /\ a % b \in Int /\ 0 <= a % b /\ a % b < b
  OBVIOUS
<1>2. a - (a \div b) * b = a % b
  OBVIOUS
<1>3. (a \div b) * b \in Int
  BY <1>1
<1>4. \A x, y, z \in Int : x - y = z => x = y + z
  OBVIOUS
<1> QED BY <1>1, <1>2, <1>3, <1>4

\* Multiples of b are b apart.
LEMMA Apart ==
  ASSUME NEW q \in Int, NEW p \in Int, NEW b \in Int, b > 0, q < p
  PROVE  q * b + b <= p * b /\ q * b \in Int /\ p * b \in Int
  OBVIOUS

\* They are determined by the equation.
LEMMA DivModUnique ==
  ASSUME NEW a \in Int, NEW b \in Int, b > 0, NEW q \in Int, NEW x \in Int,
         0 <= x, x < b, a = q * b + x
  PROVE  a \div b = q /\ a % b = x
  OBVIOUS

\* The quotient grows with the dividend.
LEMMA DivMono ==
  ASSUME NEW a \in Int, NEW c \in Int, NEW b \in Int, b > 0, a <= c
  PROVE  a \div b <= c \div b
<1>1. SUFFICES ASSUME c \div b < a \div b PROVE FALSE
  BY DivMod
<1> DEFINE q == a \div b
           p == c \div b
<1>2. q \in Int /\ p \in Int /\ p < q /\ q * b <= a /\ c < p * b + b
  <2>1. /\ a \div b \in Int /\ a % b \in Int
        /\ a = (a \div b) * b + (a % b) /\ 0 <= a % b
    BY DivMod
  <2>2. /\ c \div b \in Int /\ c % b \in Int
        /\ c = (c \div b) * b + (c % b) /\ c % b < b
    BY DivMod
  <2> QED BY <1>1, <2>1, <2>2
<1> HIDE DEF q, p
<1>3. p * b + b <= q * b /\ p * b \in Int /\ q * b \in Int
  BY <1>2, Apart
<1> QED BY <1>2, <1>3

\* A number is a multiple of b exactly if nothing remains.
LEMMA Multiple ==
  ASSUME NEW q \in Int, NEW b \in Int, b > 0
  PROVE  (q * b) % b = 0 /\ (q * b) \div b = q
<1>1. q * b \in Int /\ q * b = q * b + 0
  OBVIOUS
<1> QED BY <1>1, DivModUnique

\* A multiple is its quotient times the divisor.
LEMMA NoRemainder ==
  ASSUME NEW a \in Int, NEW b \in Int, b > 0, a % b = 0
  PROVE  a \div b \in Int /\ a = (a \div b) * b
<1> QED BY DivMod

\* The smallest multiple that is not less.
LEMMA Ceiling ==
  ASSUME NEW a \in Int, NEW b \in Int, b > 0
  PROVE  /\ (a + b - 1) \div b \in Int
         /\ a <= ((a + b - 1) \div b) * b
         /\ ((a + b - 1) \div b) * b < a + b
<1> DEFINE e == a + b - 1
           m == e \div b
<1>1. e \in Int
  OBVIOUS
<1>2. m \in Int /\ e % b \in Int /\ e = m * b + (e % b) /\ 0 <= e % b /\ e % b < b
  <2> HIDE DEF e
  <2> QED BY <1>1, DivMod DEF m
<1>3. m * b \in Int
  BY <1>2
<1> DEFINE z == m * b
           w == e % b
<1>4. e = z + w /\ z \in Int /\ w \in Int /\ 0 <= w /\ w < b
  BY <1>2, <1>3
<1>5. a <= z /\ z < a + b
  <2> HIDE DEF z, w
  <2> QED BY <1>4
<1> QED BY <1>2, <1>5

\* A set of natural numbers has a least element.
LEMMA Least ==
  ASSUME NEW T \in SUBSET Nat, T # {}
  PROVE  \E m \in T : \A k \in T : m <= k
<1> DEFINE R == {ss \in Nat \X Nat : ss[1] < ss[2]}
<1>1. IsWellFoundedOn(R, Nat)
  BY NatLessThanWellFounded DEF OpToRel
<1>2. \A x \in Nat, y \in Nat : <<x, y>> \in R <=> x < y
  OBVIOUS
<1> HIDE DEF R
<1>3. \A TT : TT \subseteq Nat /\ TT # {} => \E x \in TT : \A y \in TT : ~ (<<y, x>> \in R)
  BY <1>1, WFMin, Zenon
<1>4. PICK x \in T : \A y \in T : ~ (<<y, x>> \in R)
  BY <1>3
<1>5. \A y \in T : x <= y
  <2> TAKE y \in T
  <2>1. x \in Nat /\ y \in Nat /\ ~ (<<y, x>> \in R)
    BY <1>4
  <2> QED BY <1>2, <2>1
<1> QED BY <1>5

\* Min() of a set of integers that is bounded from below,
LEMMA MinOf ==
  ASSUME NEW T \in SUBSET Int, NEW b \in Int, \A x \in T : b <= x, T # {}
  PROVE  Min(T) \in T /\ \A x \in T : Min(T) <= x
<1> DEFINE U == {x - b : x \in T}
<1>0. \A x \in T : x - b \in Nat
  OBVIOUS
<1>1. U \in SUBSET Nat /\ U # {}
  BY <1>0, Zenon
<1>2. PICK u \in U : \A k \in U : u <= k
  <2> HIDE DEF U
  <2> QED BY <1>1, Least
<1>3. PICK m \in T : u = m - b
  BY <1>2
<1>4. \A x \in T : m <= x
  <2> TAKE x \in T
  <2>1. x - b \in U
    OBVIOUS
  <2>2. m - b <= x - b /\ m \in Int /\ x \in Int
    BY <1>2, <1>3, <2>1
  <2> QED BY <2>2
<1> QED BY <1>4 DEF Min

\* and Max() of one that is bounded from above.
LEMMA MaxOf ==
  ASSUME NEW T \in SUBSET Int, NEW b \in Int, \A x \in T : x <= b, T # {}
  PROVE  Max(T) \in T /\ \A x \in T : x <= Max(T)
<1> DEFINE U == {b - x : x \in T}
<1>0. \A x \in T : b - x \in Nat
  OBVIOUS
<1>1. U \in SUBSET Nat /\ U # {}
  BY <1>0, Zenon
<1>2. PICK u \in U : \A k \in U : u <= k
  <2> HIDE DEF U
  <2> QED BY <1>1, Least
<1>3. PICK m \in T : u = b - m
  BY <1>2
<1>4. \A x \in T : x <= m
  <2> TAKE x \in T
  <2>1. b - x \in U
    OBVIOUS
  <2>2. b - m <= b - x /\ m \in Int /\ x \in Int
    BY <1>2, <1>3, <2>1
  <2> QED BY <2>2
<1>5. \E y \in T : \A x \in T : y >= x
  BY <1>4
<1>6. Max(T) \in T /\ \A x \in T : Max(T) >= x
  BY <1>5 DEF Max
<1> QED BY <1>6

-----------------------------------------------------------------------------
(* The calendar. *)

\* What CalendarAssumption says of the calendar, for the arithmetic below.
LEMMA Constants ==
  /\ Minute \in Int /\ Minute > 1
  /\ DayLength \in Int /\ DayLength > 0
  /\ Long \in Int /\ Short \in Int /\ 0 < Short /\ Short < Long
BY CalendarAssumption

\* A day lasts a whole number of minutes.
LEMMA DayOfMinutes ==
  \E m \in Int : m > 0 /\ DayLength = m * Minute
<1> DEFINE m == DayLength \div Minute
<1>1. m \in Int /\ DayLength = m * Minute
  BY CalendarAssumption, Constants, NoRemainder
<1>2. m > 0
  <2>1. SUFFICES ASSUME m <= 0 PROVE FALSE
    BY <1>1
  <2> HIDE DEF m
  <2>2. m = 0 \/ m < 0
    BY <1>1, <2>1
  <2>3. m = 0 => FALSE
    BY <1>1, Constants
  <2>4. m < 0 => m * Minute + Minute <= 0 * Minute
    BY <1>1, Apart, Constants
  <2> QED BY <1>1, <2>2, <2>3, <2>4, Constants
<1> QED BY <1>1, <1>2

\* Months: an even number of them lasts Long + Short days each pair.
LEMMA FirstDayEven ==
  ASSUME NEW a \in Int
  PROVE  /\ FirstDay(2 * a) = a * (Long + Short)
         /\ FirstDay(2 * a + 1) = a * (Long + Short) + Long
<1>1. (2 * a) \div 2 = a /\ (2 * a) % 2 = 0
  OBVIOUS
<1>2. (2 * a + 1) \div 2 = a /\ (2 * a + 1) % 2 = 1
  OBVIOUS
<1> QED BY <1>1, <1>2, Constants DEF FirstDay

\* Months come in pairs.
LEMMA EvenOdd ==
  ASSUME NEW i \in Int
  PROVE  \E a \in Int : i = 2 * a \/ i = 2 * a + 1
<1>1. i \div 2 \in Int /\ i % 2 \in Int /\ i = (i \div 2) * 2 + (i % 2) /\ 0 <= i % 2 /\ i % 2 < 2
  BY DivMod
<1>2. i = 2 * (i \div 2) \/ i = 2 * (i \div 2) + 1
  BY <1>1
<1> QED BY <1>1, <1>2

\* Months have days, and the next one begins when they are over.
LEMMA MonthLasts ==
  ASSUME NEW i \in Int
  PROVE  FirstDay(i) \in Int /\ FirstDay(i) < FirstDay(i + 1)
<1>1. PICK a \in Int : i = 2 * a \/ i = 2 * a + 1
  BY EvenOdd
<1> DEFINE p == a * (Long + Short)
           n == (a + 1) * (Long + Short)
<1>2. p \in Int /\ n = p + Long + Short
  BY Constants
<1>3. /\ FirstDay(2 * a) = p /\ FirstDay(2 * a + 1) = p + Long
  BY FirstDayEven
<1>4. FirstDay(2 * (a + 1)) = n
  BY FirstDayEven
<1>5. 2 * (a + 1) = 2 * a + 1 + 1
  OBVIOUS
<1> HIDE DEF p, n
<1> QED BY <1>1, <1>2, <1>3, <1>4, <1>5, Constants

\* The month that a day is in.
LEMMA MonthOfDay ==
  ASSUME NEW d \in Int
  PROVE  /\ MonthOf(d) \in Int
         /\ FirstDay(MonthOf(d)) <= d /\ d < FirstDay(MonthOf(d) + 1)
<1> DEFINE b == Long + Short
           q == d \div b
           x == d % b
           p == q * b
           n == (q + 1) * b
<1>1. b \in Int /\ b > 0
  BY Constants
<1>2. q \in Int /\ x \in Int /\ 0 <= x /\ x < b /\ d = p + x
  <2> HIDE DEF b
  <2> QED BY <1>1, DivMod DEF q, x
<1>3. p \in Int /\ n = p + b
  <2> HIDE DEF b, q
  <2> QED BY <1>1, <1>2
<1>4. /\ FirstDay(2 * q) = p /\ FirstDay(2 * q + 1) = p + Long
  <2> HIDE DEF q
  <2> QED BY <1>2, FirstDayEven
<1>5. FirstDay(2 * (q + 1)) = n
  <2> HIDE DEF q
  <2> QED BY <1>2, FirstDayEven
<1>6. 2 * (q + 1) = 2 * q + 1 + 1
  <2> HIDE DEF q
  <2> QED BY <1>2
<1>7. MonthOf(d) = 2 * q + IF x < Long THEN 0 ELSE 1
  BY DEF MonthOf
<1> HIDE DEF q, x, p, n
<1> QED BY <1>1, <1>2, <1>3, <1>4, <1>5, <1>6, <1>7, Constants

-----------------------------------------------------------------------------
(* The intervals of a rule. *)

\* A date/time is within its day.
LEMMA DayOf ==
  ASSUME NEW t \in Int
  PROVE  /\ Date(t) \in Int /\ Date(t) * DayLength <= t
         /\ t < (Date(t) + 1) * DayLength
<1>1. /\ t \div DayLength \in Int /\ t % DayLength \in Int
      /\ t = (t \div DayLength) * DayLength + (t % DayLength)
      /\ 0 <= t % DayLength /\ t % DayLength < DayLength
  BY DivMod, Constants
<1> DEFINE q == t \div DayLength
<1>2. (q + 1) * DayLength = q * DayLength + DayLength /\ q * DayLength \in Int
  <2> HIDE DEF q
  <2> QED BY <1>1, Constants DEF q
<1> QED BY <1>1, <1>2, Constants DEF Date

Timely(r) == r.unit \in Units /\ r.freq \in Nat \ {0} /\ r.start \in Nat

\* An interval begins before the next,
LEMMA IntervalFirst ==
  ASSUME NEW r, Timely(r), NEW i \in Int
  PROVE  /\ IntervalDateTime(r, i) \in Int
         /\ IntervalDateTime(r, i) < IntervalDateTime(r, i + 1)
<1>1. CASE r.unit = "minutely"
  <2>1. IntervalDateTime(r, i) = i * Minute /\ IntervalDateTime(r, i + 1) = (i + 1) * Minute
    BY <1>1 DEF IntervalDateTime
  <2> QED BY <2>1, Constants, Apart, i + 1 \in Int, i < i + 1
<1>2. CASE r.unit = "daily"
  <2>1. IntervalDateTime(r, i) = i * DayLength /\ IntervalDateTime(r, i + 1) = (i + 1) * DayLength
    BY <1>2 DEF IntervalDateTime
  <2> QED BY <2>1, Constants, Apart, i + 1 \in Int, i < i + 1
<1>3. CASE r.unit = "monthly"
  <2>1. /\ IntervalDateTime(r, i) = FirstDay(i) * DayLength
        /\ IntervalDateTime(r, i + 1) = FirstDay(i + 1) * DayLength
    BY <1>3 DEF IntervalDateTime
  <2>2. FirstDay(i) \in Int /\ FirstDay(i + 1) \in Int /\ FirstDay(i) < FirstDay(i + 1)
    BY MonthLasts
  <2> QED BY <2>1, <2>2, Constants, Apart
<1> QED BY <1>1, <1>2, <1>3 DEF Timely, Units

\* a date/time is within its interval,
LEMMA IntervalHolds ==
  ASSUME NEW r, Timely(r), NEW t \in Int
  PROVE  /\ IntervalOf(r, t) \in Int
         /\ IntervalDateTime(r, IntervalOf(r, t)) <= t
         /\ t < IntervalDateTime(r, IntervalOf(r, t) + 1)
<1>1. CASE r.unit = "minutely"
  <2> DEFINE q == t \div Minute
  <2>1. IntervalOf(r, t) = q
    BY <1>1 DEF IntervalOf
  <2>2. q \in Int /\ t % Minute \in Int /\ t = q * Minute + (t % Minute) /\ t % Minute >= 0 /\ t % Minute < Minute
    BY DivMod, Constants
  <2>3. /\ IntervalDateTime(r, q) = q * Minute /\ IntervalDateTime(r, q + 1) = (q + 1) * Minute
    BY <1>1 DEF IntervalDateTime
  <2> HIDE DEF q
  <2>4. (q + 1) * Minute = q * Minute + Minute /\ q * Minute \in Int
    BY <2>2, Constants
  <2> QED BY <2>1, <2>2, <2>3, <2>4, Constants
<1>2. CASE r.unit = "daily"
  <2>1. IntervalOf(r, t) = Date(t)
    BY <1>2 DEF IntervalOf
  <2>2. /\ IntervalDateTime(r, Date(t)) = Date(t) * DayLength
        /\ IntervalDateTime(r, Date(t) + 1) = (Date(t) + 1) * DayLength
    BY <1>2 DEF IntervalDateTime
  <2> QED BY <2>1, <2>2, DayOf
<1>3. CASE r.unit = "monthly"
  <2> DEFINE d == Date(t)
             m == MonthOf(d)
             f == FirstDay(m)
             g == FirstDay(m + 1)
  <2>1. IntervalOf(r, t) = m
    BY <1>3 DEF IntervalOf
  <2>2. /\ IntervalDateTime(r, m) = f * DayLength
        /\ IntervalDateTime(r, m + 1) = g * DayLength
    BY <1>3 DEF IntervalDateTime
  <2>3. d \in Int /\ d * DayLength <= t /\ t < (d + 1) * DayLength
    BY DayOf
  <2>4. m \in Int /\ f <= d /\ d < g /\ f \in Int /\ g \in Int
    <3>1. m \in Int /\ f <= d /\ d < g
      BY <2>3, MonthOfDay
    <3> QED BY <3>1, MonthLasts, m + 1 \in Int
  <2> HIDE DEF d, m, f, g
  <2>5. f * DayLength <= d * DayLength /\ (d + 1) * DayLength <= g * DayLength
    <3>1. f < d => f * DayLength + DayLength <= d * DayLength
      BY <2>3, <2>4, Apart, Constants
    <3>2. d + 1 < g => (d + 1) * DayLength + DayLength <= g * DayLength
      BY <2>3, <2>4, Apart, Constants, d + 1 \in Int
    <3>3. f * DayLength \in Int /\ d * DayLength \in Int /\ (d + 1) * DayLength \in Int
      BY <2>3, <2>4, Constants
    <3>4. (f = d \/ f < d) /\ (d + 1 = g \/ d + 1 < g)
      BY <2>3, <2>4
    <3>5. f * DayLength <= d * DayLength
      BY <3>1, <3>3, <3>4, Constants
    <3>6. (d + 1) * DayLength <= g * DayLength
      BY <3>2, <3>3, <3>4, Constants, <2>4
    <3> QED BY <3>5, <3>6
  <2>6. f * DayLength \in Int /\ d * DayLength \in Int /\ (d + 1) * DayLength \in Int /\ g * DayLength \in Int
    BY <2>3, <2>4, Constants
  <2> QED BY <2>1, <2>2, <2>3, <2>4, <2>5, <2>6
<1> QED BY <1>1, <1>2, <1>3 DEF Timely, Units

\* What grows with every step grows.
LEMMA Growing ==
  ASSUME NEW f \in [Int -> Int], \A i \in Int : f[i] < f[i + 1],
         NEW i \in Int, NEW j \in Int, i < j
  PROVE  f[i] < f[j]
<1> DEFINE T == {n \in Nat : n > 0 /\ ~ (f[i] < f[i + n])}
<1>1. CASE T = {}
  <2>1. j - i \in Nat /\ j - i > 0 /\ i + (j - i) = j
    OBVIOUS
  <2>2. j - i \notin T
    BY <1>1
  <2>3. f[i] < f[i + (j - i)]
    BY <2>1, <2>2
  <2> QED BY <2>1, <2>3
<1>2. CASE T # {}
  <2>1. PICK n \in T : \A k \in T : n <= k
    <3>1. T \in SUBSET Nat
      OBVIOUS
    <3> HIDE DEF T
    <3> QED BY <1>2, <3>1, Least
  <2>2. n \in Nat /\ n > 0 /\ ~ (f[i] < f[i + n])
    BY <2>1
  <2>3. n # 1
    BY <2>2
  <2>4. n - 1 \in Nat /\ n - 1 > 0 /\ n - 1 \notin T
    <3>1. n - 1 \in Nat /\ n - 1 > 0 /\ ~ (n <= n - 1)
      BY <2>2, <2>3
    <3> HIDE DEF T
    <3> QED BY <2>1, <3>1
  <2>5. f[i] < f[i + (n - 1)]
    BY <2>4
  <2>6. i + (n - 1) \in Int /\ i + (n - 1) + 1 = i + n
    BY <2>2
  <2>7. f[i + (n - 1)] < f[i + n]
    BY <2>6
  <2>8. f[i] \in Int /\ f[i + (n - 1)] \in Int /\ f[i + n] \in Int
    BY <2>2, <2>6
  <2> QED BY <2>2, <2>5, <2>7, <2>8
<1> QED BY <1>1, <1>2

\* and intervals follow each other as their numbers do.
LEMMA IntervalsInOrder ==
  ASSUME NEW r, Timely(r), NEW i \in Int, NEW j \in Int, i < j
  PROVE  IntervalDateTime(r, i) < IntervalDateTime(r, j)
<1> DEFINE f == [k \in Int |-> IntervalDateTime(r, k)]
<1>1. f \in [Int -> Int]
  BY IntervalFirst
<1>2. \A k \in Int : f[k] < f[k + 1]
  BY IntervalFirst
<1>3. f[i] = IntervalDateTime(r, i) /\ f[j] = IntervalDateTime(r, j)
  OBVIOUS
<1>4. f[i] < f[j]
  <2> HIDE DEF f
  <2> QED BY <1>1, <1>2, Growing
<1> QED BY <1>3, <1>4

\* The instants of an interval are those from its first to before the next's.
LEMMA InInterval ==
  ASSUME NEW r, Timely(r), NEW i \in Int, NEW t \in Int
  PROVE  /\ IntervalOf(r, t) \in Int
         /\ IntervalOf(r, t) = i
              <=> IntervalDateTime(r, i) <= t /\ t < IntervalDateTime(r, i + 1)
         /\ IntervalOf(r, t) < i <=> t < IntervalDateTime(r, i)
<1> DEFINE n == IntervalOf(r, t)
<1>1. n \in Int /\ IntervalDateTime(r, n) <= t /\ t < IntervalDateTime(r, n + 1)
  BY IntervalHolds
<1> HIDE DEF n
<1>2. \A k \in Int : IntervalDateTime(r, k) \in Int
  BY IntervalFirst
<1>3. \A k, m \in Int : k < m => IntervalDateTime(r, k) < IntervalDateTime(r, m)
  BY IntervalsInOrder
<1>4. n < i => t < IntervalDateTime(r, i)
  <2> SUFFICES ASSUME n < i PROVE t < IntervalDateTime(r, i)
    OBVIOUS
  <2>1. n + 1 \in Int /\ (n + 1 = i \/ n + 1 < i)
    BY <1>1
  <2> QED BY <2>1, <1>1, <1>2, <1>3
<1>5. i < n => IntervalDateTime(r, i + 1) <= t
  <2> SUFFICES ASSUME i < n PROVE IntervalDateTime(r, i + 1) <= t
    OBVIOUS
  <2>1. i + 1 \in Int /\ (i + 1 = n \/ i + 1 < n)
    BY <1>1
  <2> QED BY <2>1, <1>1, <1>2, <1>3
<1>6. ~ (n < i) => IntervalDateTime(r, i) <= t
  <2> SUFFICES ASSUME ~ (n < i) PROVE IntervalDateTime(r, i) <= t
    OBVIOUS
  <2>1. i = n \/ i < n
    BY <1>1
  <2> QED BY <2>1, <1>1, <1>2, <1>3
<1>7. IntervalDateTime(r, i) \in Int /\ IntervalDateTime(r, i + 1) \in Int
  BY <1>2, i + 1 \in Int
<1> QED BY <1>1, <1>4, <1>5, <1>6, <1>7 DEF n

\* datesForInterval() gives what is in the interval and matches.
LEMMA DatesOfInterval ==
  ASSUME NEW r, Timely(r), NEW i \in Int
  PROVE  DatesForInterval(r, i) = {t \in Int : IntervalOf(r, t) = i /\ Matches(r, t)}
<1>1. IntervalDateTime(r, i) \in Int /\ IntervalDateTime(r, i + 1) \in Int
  BY IntervalFirst, i + 1 \in Int
<1>2. \A t \in Int : t \in IntervalDateTime(r, i) .. IntervalDateTime(r, i + 1) - 1
                      <=> IntervalOf(r, t) = i
  <2> TAKE t \in Int
  <2>1. IntervalOf(r, t) = i
          <=> IntervalDateTime(r, i) <= t /\ t < IntervalDateTime(r, i + 1)
    BY InInterval
  <2> QED BY <1>1, <2>1
<1>3. IntervalDateTime(r, i) .. IntervalDateTime(r, i + 1) - 1 \subseteq Int
  BY <1>1
<1> QED BY <1>2, <1>3 DEF DatesForInterval

\* The larger of two.
LEMMA MaxOfTwo ==
  ASSUME NEW a \in Int, NEW b \in Int
  PROVE  Max({a, b}) = IF a < b THEN b ELSE a
<1>1. {a, b} \in SUBSET Int /\ {a, b} # {}
  OBVIOUS
<1> DEFINE c == IF a < b THEN b ELSE a
<1>2. c \in Int /\ \A x \in {a, b} : x <= c
  OBVIOUS
<1>3. Max({a, b}) \in {a, b} /\ \A x \in {a, b} : x <= Max({a, b})
  <2> HIDE DEF c
  <2> QED BY <1>1, <1>2, MaxOf
<1> HIDE DEF c
<1>4. a <= Max({a, b}) /\ b <= Max({a, b}) /\ Max({a, b}) \in {a, b}
  BY <1>3
<1> QED BY <1>4

-----------------------------------------------------------------------------
(* The intervals since the start. *)

\* Later date/times are in no earlier interval,
LEMMA IntervalMono ==
  ASSUME NEW r, Timely(r), NEW t \in Int, NEW u \in Int, t <= u
  PROVE  IntervalOf(r, t) <= IntervalOf(r, u)
<1>1. IntervalOf(r, t) \in Int /\ IntervalOf(r, u) \in Int
  BY InInterval
<1>2. IntervalDateTime(r, IntervalOf(r, t)) <= t /\ IntervalDateTime(r, IntervalOf(r, t)) \in Int
  BY <1>1, IntervalHolds, IntervalFirst
<1>3. IntervalOf(r, u) < IntervalOf(r, t) <=> u < IntervalDateTime(r, IntervalOf(r, t))
  BY <1>1, InInterval
<1> QED BY <1>1, <1>2, <1>3

\* nor fewer periods after the start,
LEMMA PeriodsMono ==
  ASSUME NEW r, Timely(r), NEW t \in Int, NEW u \in Int, t <= u
  PROVE  /\ Periods(r, t) \in Int /\ Periods(r, u) \in Int
         /\ Periods(r, t) <= Periods(r, u)
<1>1. r.start \in Int
  BY DEF Timely
<1>2. CASE r.unit = "minutely"
  <2>1. Periods(r, t) = (t - r.start) \div Minute /\ Periods(r, u) = (u - r.start) \div Minute
    BY <1>2 DEF Periods
  <2>2. t - r.start \in Int /\ u - r.start \in Int /\ t - r.start <= u - r.start
    BY <1>1
  <2> QED BY <2>1, <2>2, DivMono, DivMod, Constants
<1>3. CASE r.unit # "minutely"
  <2>1. /\ Periods(r, t) = IntervalOf(r, t) - IntervalOf(r, r.start)
        /\ Periods(r, u) = IntervalOf(r, u) - IntervalOf(r, r.start)
    BY <1>3 DEF Periods
  <2>2. IntervalOf(r, t) \in Int /\ IntervalOf(r, u) \in Int /\ IntervalOf(r, r.start) \in Int
    BY <1>1, InInterval
  <2>3. IntervalOf(r, t) <= IntervalOf(r, u)
    BY IntervalMono
  <2> QED BY <2>1, <2>2, <2>3
<1> QED BY <1>2, <1>3

\* What agrees with the start in all that is less significant is a whole number
\* of intervals away.
LEMMA PeriodsOfMatch ==
  ASSUME NEW r, Timely(r), NEW t \in Int, Matches(r, t)
  PROVE  /\ Periods(r, t) = IntervalOf(r, t) - IntervalOf(r, r.start)
         /\ Periods(r, t) \in Int
<1>1. r.start \in Int
  BY DEF Timely
<1>2. CASE r.unit = "minutely"
  <2>1. t % Minute = r.start % Minute
    BY <1>2 DEF Matches
  <2>2. IntervalOf(r, t) = t \div Minute /\ IntervalOf(r, r.start) = r.start \div Minute
    BY <1>2 DEF IntervalOf
  <2> DEFINE q == t \div Minute
             p == r.start \div Minute
             x == t % Minute
  <2>3. q \in Int /\ x \in Int /\ t = q * Minute + x
    BY DivMod, Constants
  <2>4. p \in Int /\ r.start = p * Minute + x
    <3>1. /\ r.start \div Minute \in Int
          /\ r.start = (r.start \div Minute) * Minute + (r.start % Minute)
      BY DivMod, Constants, <1>1
    <3> QED BY <3>1, <2>1
  <2>5. Periods(r, t) = (t - r.start) \div Minute
    BY <1>2 DEF Periods
  <2>6. IntervalOf(r, t) = q /\ IntervalOf(r, r.start) = p
    BY <2>2
  <2> HIDE DEF q, p, x
  <2>7. q * Minute \in Int /\ p * Minute \in Int /\ (q - p) * Minute = q * Minute - p * Minute
    BY <2>3, <2>4, Constants
  <2>8. t - r.start = (q - p) * Minute
    BY <2>3, <2>4, <2>7
  <2>9. ((q - p) * Minute) \div Minute = q - p
    BY <2>3, <2>4, Multiple, Constants, q - p \in Int
  <2> QED BY <2>3, <2>4, <2>5, <2>6, <2>8, <2>9
<1>3. CASE r.unit # "minutely"
  <2>1. Periods(r, t) = IntervalOf(r, t) - IntervalOf(r, r.start)
    BY <1>3 DEF Periods
  <2> QED BY <2>1, <1>1, InInterval
<1> QED BY <1>2, <1>3

\* which is itself none after.
LEMMA PeriodsOfStart ==
  ASSUME NEW r, Timely(r)
  PROVE  Periods(r, r.start) = 0
<1>1. r.start \in Int
  BY DEF Timely
<1>2. CASE r.unit = "minutely"
  <2>1. Periods(r, r.start) = (r.start - r.start) \div Minute /\ r.start - r.start = 0
    BY <1>1, <1>2 DEF Periods
  <2>2. 0 \div Minute = 0
    BY Constants, DivModUnique, 0 = 0 * Minute + 0
  <2> QED BY <2>1, <2>2
<1>3. CASE r.unit # "minutely"
  <2>1. Periods(r, r.start) = IntervalOf(r, r.start) - IntervalOf(r, r.start)
    BY <1>3 DEF Periods
  <2> QED BY <2>1, <1>1, InInterval
<1> QED BY <1>2, <1>3

\* The occurrences of a rule that has no end.
Occurs(r, t) ==
    /\ t \in Int /\ t >= r.start /\ Matches(r, t)
    /\ (IntervalOf(r, t) - IntervalOf(r, r.start)) % r.freq = 0

\* They lie in every freq-th interval from that of the start.
LEMMA OccursEvery ==
  ASSUME NEW r, Timely(r), NEW t \in Int, Matches(r, t)
  PROVE  Occurs(r, t)
           <=> t >= r.start /\ \E k \in Nat : /\ IntervalOf(r, t) = IntervalOf(r, r.start) + k * r.freq
                                             /\ Periods(r, t) = k * r.freq
<1>1. r.start \in Int /\ r.freq \in Int /\ r.freq > 0
  BY DEF Timely
<1> DEFINE f == r.freq
           n == Periods(r, t)
           s == IntervalOf(r, r.start)
<1>2. n \in Int /\ s \in Int /\ IntervalOf(r, t) = s + n /\ n = IntervalOf(r, t) - s
  BY <1>1, PeriodsOfMatch, InInterval
<1>3. ASSUME t >= r.start PROVE n >= 0
  <2>1. Periods(r, r.start) <= Periods(r, t)
    BY <1>1, <1>3, PeriodsMono
  <2> QED BY <2>1, <1>2, PeriodsOfStart
<1>4. Occurs(r, t) <=> t >= r.start /\ n % f = 0
  BY <1>2 DEF Occurs
<1>5. f \in Int /\ f > 0
  BY <1>1
<1> HIDE DEF n, s, f
<1>6. ASSUME NEW k \in Nat, n = k * f PROVE n % f = 0
  BY <1>5, <1>6, Multiple
<1>7. ASSUME n % f = 0, n >= 0 PROVE \E k \in Nat : n = k * f
  <2>1. n \div f \in Int /\ n = (n \div f) * f
    BY <1>2, <1>5, <1>7, NoRemainder
  <2>2. 0 \div f <= n \div f /\ 0 \div f = 0
    BY <1>2, <1>5, <1>7, DivMono, DivModUnique, 0 = 0 * f + 0
  <2>3. n \div f \in Nat
    BY <2>1, <2>2
  <2> QED BY <2>1, <2>3
<1>8. (\E k \in Nat : IntervalOf(r, t) = s + k * f /\ n = k * f) <=> \E k \in Nat : n = k * f
  BY <1>2
<1>9. Occurs(r, t) <=> t >= r.start /\ \E k \in Nat : n = k * f
  BY <1>3, <1>4, <1>6, <1>7
<1> QED BY <1>8, <1>9 DEF n, s, f

-----------------------------------------------------------------------------
(* The interval a search begins with. *)

\* getNextValidDateInterval() rounds up, but not to before the start;
LEMMA NextValid ==
  ASSUME NEW r, Timely(r), NEW t \in Int
  PROVE  \E m \in Nat : /\ NextValidInterval(r, t) = IntervalOf(r, r.start) + m * r.freq
                        /\ Periods(r, t) <= m * r.freq
                        /\ m = 0 \/ m * r.freq < Periods(r, t) + r.freq
<1>1. r.start \in Int /\ r.freq \in Int /\ r.freq > 0
  BY DEF Timely
<1> DEFINE f == r.freq
           p == Periods(r, t)
           a == IF 0 < p THEN p ELSE 0
           m == (a + f - 1) \div f
<1>2. p \in Int
  BY PeriodsMono
<1>3. Max({0, p}) = a
  <2> HIDE DEF p
  <2> QED BY <1>2, MaxOfTwo
<1>4. a \in Int /\ a >= 0 /\ a >= p /\ (a = 0 \/ a = p)
  <2> HIDE DEF p
  <2> QED BY <1>2
<1>5. NextValidInterval(r, t) = IntervalOf(r, r.start) + m * f
  BY <1>3 DEF NextValidInterval
<1>6. f \in Int /\ f > 0
  BY <1>1
<1> HIDE DEF a, p, f
<1>7. m \in Int /\ a <= m * f /\ m * f < a + f
  BY <1>4, <1>6, Ceiling
<1>8. m >= 0
  <2>1. 0 \div f = 0
    BY <1>6, DivModUnique, 0 = 0 * f + 0
  <2>2. a + f - 1 \in Int /\ 0 <= a + f - 1
    BY <1>4, <1>6
  <2>3. 0 \div f <= (a + f - 1) \div f
    BY <1>6, <2>2, DivMono
  <2> QED BY <1>7, <2>1, <2>3
<1>9. m \in Nat /\ m * f \in Int
  BY <1>6, <1>7, <1>8
<1> HIDE DEF m
<1>10. a = 0 => m = 0
  <2> SUFFICES ASSUME a = 0, m # 0 PROVE FALSE
    OBVIOUS
  <2>1. 0 < m
    BY <1>9
  <2>2. 0 * f + f <= m * f
    BY <1>6, <1>9, <2>1, Apart
  <2> QED BY <2>2, <1>6, <1>7, <1>9
<1>11. p <= m * f /\ (m = 0 \/ m * f < p + f)
  BY <1>2, <1>4, <1>6, <1>7, <1>9, <1>10
<1> QED BY <1>5, <1>9, <1>11 DEF p, f

\* getPreviousValidDateInterval() rounds down.
LEMMA PreviousValid ==
  ASSUME NEW r, Timely(r), NEW t \in Int
  PROVE  \E m \in Int : /\ PreviousValidInterval(r, t) = IntervalOf(r, r.start) + m * r.freq
                        /\ m * r.freq <= Periods(r, t)
                        /\ Periods(r, t) < m * r.freq + r.freq
<1>1. r.freq \in Int /\ r.freq > 0
  BY DEF Timely
<1> DEFINE f == r.freq
           p == Periods(r, t)
           m == p \div f
<1>2. p \in Int
  BY PeriodsMono
<1>3. PreviousValidInterval(r, t) = IntervalOf(r, r.start) + m * f
  BY DEF PreviousValidInterval
<1> HIDE DEF p
<1>4. m \in Int /\ p % f \in Int /\ p = m * f + (p % f) /\ 0 <= p % f /\ p % f < f
  BY <1>1, <1>2, DivMod
<1> HIDE DEF m
<1>5. m * f \in Int
  BY <1>1, <1>4
<1>6. m * f <= p /\ p < m * f + f
  BY <1>1, <1>2, <1>4, <1>5
<1> QED BY <1>3, <1>4, <1>6 DEF p

\* An occurrence from t on is in an interval that a search from t on looks at.
LEMMA FromNext ==
  ASSUME NEW r, Timely(r), NEW t \in Int, NEW u, Occurs(r, u), t <= u
  PROVE  \E k \in Nat : IntervalOf(r, u) = NextValidInterval(r, t) + k * r.freq
<1> DEFINE f == r.freq
           s == IntervalOf(r, r.start)
           p == Periods(r, t)
           i == IntervalOf(r, u)
<1>1. f \in Int /\ f > 0 /\ r.start \in Int
  BY DEF Timely
<1>2. u \in Int /\ Matches(r, u)
  BY DEF Occurs
<1>3. PICK n \in Nat : i = s + n * f /\ Periods(r, u) = n * f
  BY <1>2, OccursEvery
<1>4. PICK m \in Nat : NextValidInterval(r, t) = s + m * f /\ (m = 0 \/ m * f < p + f)
  BY NextValid
<1>5. p \in Int /\ p <= n * f
  BY <1>2, <1>3, PeriodsMono
<1>6. s \in Int
  BY <1>1, InInterval
<1> HIDE DEF f, s, p, i
<1>7. m <= n
  <2> SUFFICES ASSUME n < m PROVE FALSE
    OBVIOUS
  <2>1. n * f + f <= m * f /\ n * f \in Int /\ m * f \in Int
    BY <1>1, Apart
  <2>2. m * f < p + f
    BY <1>4
  <2> QED BY <1>1, <1>5, <2>1, <2>2
<1>8. n - m \in Nat /\ (n - m) * f = n * f - m * f /\ n * f \in Int /\ m * f \in Int
  BY <1>1, <1>7
<1>9. i = NextValidInterval(r, t) + (n - m) * f
  BY <1>3, <1>4, <1>6, <1>8
<1> QED BY <1>8, <1>9 DEF i, f

\* What such a search finds is an occurrence, after t if not in its first interval.
LEMMA AfterNext ==
  ASSUME NEW r, Timely(r), NEW t \in Int, NEW k \in Nat,
         NEW u \in DatesForInterval(r, NextValidInterval(r, t) + k * r.freq)
  PROVE  /\ u \in Int
         /\ u >= r.start => Occurs(r, u)
         /\ k > 0 => u > t /\ Occurs(r, u)
<1> DEFINE f == r.freq
           s == IntervalOf(r, r.start)
           p == Periods(r, t)
           i == IntervalOf(r, u)
           x == NextValidInterval(r, t)
<1>1. f \in Int /\ f > 0 /\ r.start \in Int
  BY DEF Timely
<1>2. PICK m \in Nat : x = s + m * f /\ p <= m * f
  BY NextValid
<1>3. s \in Int /\ p \in Int
  BY <1>1, InInterval, PeriodsMono
<1>4. x + k * f \in Int
  <2> HIDE DEF x, f, s
  <2> QED BY <1>1, <1>2, <1>3
<1>5. u \in Int /\ i = x + k * f /\ Matches(r, u)
  BY <1>4, DatesOfInterval
<1>6. Periods(r, u) = i - s /\ i \in Int
  BY <1>5, PeriodsOfMatch, InInterval
<1> HIDE DEF f, s, p, i, x
<1>7. m + k \in Nat /\ (m + k) * f = m * f + k * f /\ m * f \in Int /\ k * f \in Int
  BY <1>1
<1>8. i = s + (m + k) * f /\ Periods(r, u) = (m + k) * f
  BY <1>2, <1>3, <1>5, <1>6, <1>7
<1>9. u >= r.start => Occurs(r, u)
  BY <1>5, <1>7, <1>8, OccursEvery DEF s, i, f
<1>10. ASSUME k > 0 PROVE u > t /\ u > r.start
  <2>1. 0 * f + f <= k * f
    BY <1>1, <1>10, Apart
  <2>2. p < Periods(r, u) /\ 0 < Periods(r, u)
    <3>1. 0 <= m * f
      <4>1. 0 < m => 0 * f + f <= m * f
        BY <1>1, Apart
      <4> QED BY <4>1, <1>1
    <3> QED BY <1>1, <1>2, <1>3, <1>7, <1>8, <2>1, <3>1
  <2>3. u <= t => Periods(r, u) <= p /\ Periods(r, u) \in Int
    BY <1>5, PeriodsMono DEF p
  <2>4. u <= r.start => Periods(r, u) <= 0 /\ Periods(r, u) \in Int
    BY <1>1, <1>5, PeriodsMono, PeriodsOfStart
  <2> QED BY <1>1, <1>3, <1>5, <2>2, <2>3, <2>4
<1> QED BY <1>1, <1>5, <1>9, <1>10

\* An occurrence up to t is in an interval that a search down from t looks at,
LEMMA FromPrevious ==
  ASSUME NEW r, Timely(r), NEW t \in Int, NEW u, Occurs(r, u), u <= t
  PROVE  \E k \in Nat : IntervalOf(r, u) = PreviousValidInterval(r, t) - k * r.freq
<1> DEFINE f == r.freq
           s == IntervalOf(r, r.start)
           p == Periods(r, t)
           i == IntervalOf(r, u)
<1>1. f \in Int /\ f > 0 /\ r.start \in Int
  BY DEF Timely
<1>2. u \in Int /\ Matches(r, u)
  BY DEF Occurs
<1>3. PICK n \in Nat : i = s + n * f /\ Periods(r, u) = n * f
  BY <1>2, OccursEvery
<1>4. PICK m \in Int : PreviousValidInterval(r, t) = s + m * f /\ p < m * f + f
  BY PreviousValid
<1>5. p \in Int /\ n * f <= p
  BY <1>2, <1>3, PeriodsMono
<1>6. s \in Int
  BY <1>1, InInterval
<1> HIDE DEF f, s, p, i
<1>7. n <= m
  <2> SUFFICES ASSUME m < n PROVE FALSE
    OBVIOUS
  <2>1. m * f + f <= n * f /\ n * f \in Int /\ m * f \in Int
    BY <1>1, Apart
  <2> QED BY <1>1, <1>4, <1>5, <2>1
<1>8. m - n \in Nat /\ (m - n) * f = m * f - n * f /\ n * f \in Int /\ m * f \in Int
  BY <1>1, <1>7
<1>9. i = PreviousValidInterval(r, t) - (m - n) * f
  BY <1>3, <1>4, <1>6, <1>8
<1> QED BY <1>8, <1>9 DEF i, f

\* and what such a search finds from the start on is an occurrence.
LEMMA BeforePrevious ==
  ASSUME NEW r, Timely(r), NEW t \in Int, NEW k \in Nat,
         NEW u \in DatesForInterval(r, PreviousValidInterval(r, t) - k * r.freq)
  PROVE  /\ u \in Int
         /\ u >= r.start => Occurs(r, u)
         /\ k > 0 => u < t
<1> DEFINE f == r.freq
           s == IntervalOf(r, r.start)
           p == Periods(r, t)
           i == IntervalOf(r, u)
           x == PreviousValidInterval(r, t)
<1>1. f \in Int /\ f > 0 /\ r.start \in Int
  BY DEF Timely
<1>2. PICK m \in Int : x = s + m * f /\ m * f <= p
  BY PreviousValid
<1>3. s \in Int /\ p \in Int
  BY <1>1, InInterval, PeriodsMono
<1>4. x - k * f \in Int
  <2> HIDE DEF x, f, s
  <2> QED BY <1>1, <1>2, <1>3
<1>5. u \in Int /\ i = x - k * f /\ Matches(r, u)
  BY <1>4, DatesOfInterval
<1>6. Periods(r, u) = i - s /\ i \in Int
  BY <1>5, PeriodsOfMatch, InInterval
<1> HIDE DEF f, s, p, i, x
<1>7. m - k \in Int /\ (m - k) * f = m * f - k * f /\ m * f \in Int /\ k * f \in Int
  BY <1>1
<1>8. i - s = (m - k) * f /\ Periods(r, u) = (m - k) * f
  BY <1>2, <1>3, <1>5, <1>6, <1>7
<1>9. u >= r.start => Occurs(r, u)
  <2>1. (i - s) % f = 0
    BY <1>1, <1>7, <1>8, Multiple
  <2> QED BY <1>5, <2>1 DEF s, i, f, Occurs
<1>10. ASSUME k > 0 PROVE u < t
  <2>1. 0 * f + f <= k * f
    BY <1>1, <1>10, Apart
  <2>2. Periods(r, u) < p
    BY <1>1, <1>2, <1>3, <1>7, <1>8, <2>1
  <2>3. t <= u => p <= Periods(r, u) /\ Periods(r, u) \in Int
    BY <1>5, PeriodsMono DEF p
  <2> QED BY <1>3, <1>5, <2>2, <2>3
<1> QED BY <1>5, <1>9, <1>10

\* One search looks at all the intervals up to the horizon.
Reaches(r) == IntervalDateTime(r, IntervalOf(r, r.start) + Limit * r.freq) > Horizon

\* No occurrence up to Horizon is LOOP_LIMIT intervals away.
LEMMA WithinLimit ==
  ASSUME NEW r, Timely(r), Reaches(r), NEW t \in Int, NEW k \in Nat, NEW u \in Int, u <= Horizon,
         IntervalOf(r, u) = NextValidInterval(r, t) + k * r.freq
  PROVE  k < Limit
<1> DEFINE f == r.freq
           s == IntervalOf(r, r.start)
           i == IntervalOf(r, u)
<1>1. f \in Int /\ f > 0 /\ r.start \in Int
  BY DEF Timely
<1>2. PICK m \in Nat : NextValidInterval(r, t) = s + m * f
  BY NextValid
<1>3. s \in Int /\ i \in Int
  BY <1>1, InInterval
<1>4. Limit \in Nat /\ Horizon \in Nat
  BY InputAssumption
<1> HIDE DEF f, s, i
<1> SUFFICES ASSUME Limit <= k PROVE FALSE
  BY <1>4
<1>5. i = s + m * f + k * f
  BY <1>2 DEF i, f
<1>6. 0 <= m * f /\ m * f \in Int
  <2>1. 0 < m => 0 * f + f <= m * f /\ m * f \in Int
    BY <1>1, Apart
  <2> QED BY <2>1, <1>1
<1>7. Limit * f <= k * f /\ Limit * f \in Int /\ k * f \in Int
  <2>1. Limit < k => Limit * f + f <= k * f /\ Limit * f \in Int /\ k * f \in Int
    BY <1>1, <1>4, Apart
  <2>2. Limit = k \/ Limit < k
    BY <1>4
  <2> QED BY <2>1, <2>2, <1>1, <1>4
<1>8. s + Limit * f <= i /\ s + Limit * f \in Int
  BY <1>3, <1>5, <1>6, <1>7
<1>9. IntervalDateTime(r, s + Limit * f) <= u
  <2>1. ~ (IntervalOf(r, u) < s + Limit * f)
    BY <1>3, <1>8 DEF i
  <2>2. IntervalDateTime(r, s + Limit * f) \in Int
    BY <1>8, IntervalFirst
  <2> QED BY <1>8, <2>1, <2>2, InInterval
<1>10. IntervalDateTime(r, s + Limit * f) > Horizon /\ IntervalDateTime(r, s + Limit * f) \in Int
  BY <1>8, IntervalFirst DEF Reaches, s, f
<1> QED BY <1>4, <1>9, <1>10

-----------------------------------------------------------------------------
(* The rules of the to-do, and their occurrences. *)

\* What the rules of the to-do are, at all times.
RuleOK(r) == /\ r \in RuleType /\ Reaches(r)
             /\ r.duration = 0 => r.end \in Nat

\* The type of a rule, for the arithmetic.
LEMMA RuleIsTimely ==
  ASSUME NEW r, RuleOK(r)
  PROVE  Timely(r) /\ r.duration \in Int /\ r.start \in Int /\ r.freq \in Int /\ r.freq > 0
BY DEF RuleOK, RuleType, Timely

\* A simple sub-daily rule occurs at the multiples of its repetition.
LEMMA TimedOccurs ==
  ASSUME NEW r, Timely(r), TimedRepetition(r) # 0
  PROVE  /\ TimedRepetition(r) \in Int /\ TimedRepetition(r) > 1
         /\ \A t \in Int : Occurs(r, t)
              <=> t >= r.start /\ (t - r.start) % TimedRepetition(r) = 0
<1> DEFINE f == r.freq
           s == r.start
           d == f * Minute
           p == s \div Minute
           x == s % Minute
<1>1. r.unit = "minutely" /\ r.days = {} /\ TimedRepetition(r) = d
  BY DEF TimedRepetition
<1>2. f \in Int /\ f > 0 /\ s \in Int
  BY DEF Timely
<1>3. d \in Int /\ d > 1
  <2> HIDE DEF f
  <2>1. d \in Int
    BY <1>2, Constants
  <2>2. f = 1 \/ 1 < f
    BY <1>2
  <2>3. 1 < f => 1 * Minute + Minute <= f * Minute
    BY <1>2, Apart, Constants
  <2> QED BY <2>1, <2>2, <2>3, Constants
<1>4. p \in Int /\ x \in Int /\ s = p * Minute + x /\ 0 <= x /\ x < Minute
  <2> HIDE DEF s
  <2> QED BY <1>2, DivMod, Constants DEF p, x
<1>5. ASSUME NEW t \in Int
      PROVE  Occurs(r, t) <=> t >= s /\ (t - s) % d = 0
  <2> DEFINE q == t \div Minute
             y == t % Minute
  <2>1. q \in Int /\ y \in Int /\ t = q * Minute + y
    BY DivMod, Constants
  <2>2. Matches(r, t) <=> y = x
    BY <1>1 DEF Matches
  <2>3. IntervalOf(r, t) = q /\ IntervalOf(r, s) = p
    BY <1>1 DEF IntervalOf
  <2>4. Occurs(r, t) <=> t >= s /\ y = x /\ (q - p) % f = 0
    BY <2>2, <2>3 DEF Occurs
  <2>5. ASSUME y = x, (q - p) % f = 0
        PROVE  (t - s) % d = 0
    <3> HIDE DEF q, p, x, y, f, s
    <3>1. (q - p) \div f \in Int /\ q - p = ((q - p) \div f) * f
      BY <1>2, <1>4, <2>1, <2>5, NoRemainder, q - p \in Int
    <3> DEFINE k == (q - p) \div f
    <3>2. k \in Int /\ q - p = k * f
      BY <3>1
    <3> HIDE DEF k
    <3>3. t - s = (q - p) * Minute
      BY <1>4, <2>1, <2>5, Constants
    <3>4. (k * f) * Minute = k * d
      BY <1>2, <3>2, Constants
    <3>5. t - s = k * d
      BY <3>2, <3>3, <3>4
    <3> QED BY <1>3, <3>2, <3>5, Multiple
  <2>6. ASSUME (t - s) % d = 0
        PROVE  y = x /\ (q - p) % f = 0
    <3> DEFINE k == (t - s) \div d
    <3>1. k \in Int /\ t - s = k * d
      <4> HIDE DEF d, s
      <4> QED BY <1>2, <1>3, <2>6, NoRemainder, t - s \in Int
    <3> HIDE DEF k, q, p, x, y, f, s
    <3>2. k * d = (k * f) * Minute /\ k * f \in Int
      BY <1>2, <3>1, Constants
    <3>3. t = (p + k * f) * Minute + x
      <4>1. (p + k * f) * Minute = p * Minute + (k * f) * Minute /\ p * Minute \in Int /\ (k * f) * Minute \in Int
        BY <1>4, <3>2, Constants
      <4> QED BY <1>2, <1>4, <3>1, <3>2, <4>1
    <3>4. t \div Minute = p + k * f /\ t % Minute = x
      <4> DEFINE g == p + k * f
      <4>1. g \in Int /\ t = g * Minute + x
        BY <1>4, <3>2, <3>3
      <4> HIDE DEF g
      <4>2. t \div Minute = g /\ t % Minute = x
        BY <1>4, <4>1, DivModUnique, Constants
      <4> QED BY <4>2 DEF g
    <3>5. y = x /\ q - p = k * f
      BY <1>4, <3>2, <3>4 DEF q, y
    <3> QED BY <1>2, <3>1, <3>5, Multiple
  <2> QED BY <2>4, <2>5, <2>6
<1> QED BY <1>1, <1>3, <1>5

-----------------------------------------------------------------------------
(* Finite sets of date/times. *)

Before(S, t) == {u \in S : u < t}

\* The first n of a finite set: whatever is before one of them is one of them,
LEMMA FirstOnes ==
  ASSUME NEW b \in Nat, NEW S \in SUBSET (0 .. b), NEW n \in Nat \ {0}
  PROVE  /\ First(n, S) = {t \in S : Cardinality(Before(S, t)) < n}
         /\ IsFiniteSet(S) /\ IsFiniteSet(First(n, S))
         /\ \A t : IsFiniteSet(Before(S, t)) /\ Cardinality(Before(S, t)) \in Nat
         /\ \A t \in S, u \in First(n, S) : t <= u => t \in First(n, S)
         /\ Cardinality(S) < n => First(n, S) = S
<1>1. First(n, S) = {t \in S : Cardinality(Before(S, t)) < n}
  BY DEF First, Before
<1>2. IsFiniteSet(S)
  <2>1. IsFiniteSet(0 .. b)
    BY FS_Interval
  <2> QED BY <2>1, FS_Subset
<1>3. \A t : IsFiniteSet(Before(S, t)) /\ Cardinality(Before(S, t)) \in Nat /\ Cardinality(Before(S, t)) <= Cardinality(S)
  <2> TAKE t
  <2>1. Before(S, t) \subseteq S
    BY DEF Before
  <2>2. IsFiniteSet(Before(S, t)) /\ Cardinality(Before(S, t)) <= Cardinality(S)
    BY <1>2, <2>1, FS_Subset
  <2> QED BY <2>2, FS_CardinalityType
<1>4. IsFiniteSet(First(n, S))
  <2>1. First(n, S) \subseteq S
    BY <1>1
  <2> QED BY <1>2, <2>1, FS_Subset
<1>5. ASSUME NEW t \in S, NEW u \in First(n, S), t <= u
      PROVE  t \in First(n, S)
  <2>0. \A x \in S : x \in Int
    OBVIOUS
  <2>i. u \in S /\ u \in Int /\ t \in Int
    BY <1>1, <2>0
  <2>1. Before(S, t) \subseteq Before(S, u)
    <3>1. \A x \in S : x < t => x < u
      BY <1>5, <2>0, <2>i
    <3> QED BY <3>1 DEF Before
  <2>2. Cardinality(Before(S, t)) <= Cardinality(Before(S, u))
    BY <1>3, <2>1, FS_Subset
  <2>3. Cardinality(Before(S, u)) < n
    BY <1>1
  <2>4. Cardinality(Before(S, t)) < n
    BY <1>3, <2>2, <2>3
  <2> QED BY <1>1, <2>4
<1>6. ASSUME Cardinality(S) < n PROVE First(n, S) = S
  <2>1. Cardinality(S) \in Nat
    BY <1>2, FS_CardinalityType
  <2>2. \A t \in S : Cardinality(Before(S, t)) < n
    BY <1>3, <1>6, <2>1
  <2> QED BY <1>1, <2>2
<1> QED BY <1>1, <1>2, <1>3, <1>4, <1>5, <1>6

\* and they are n, if there are as many.
LEMMA FirstCount ==
  ASSUME NEW b \in Nat, NEW S \in SUBSET (0 .. b), NEW n \in Nat \ {0}, Cardinality(S) >= n
  PROVE  Cardinality(First(n, S)) = n
<1> DEFINE F == First(n, S)
<1>1. /\ F = {t \in S : Cardinality(Before(S, t)) < n}
      /\ IsFiniteSet(S) /\ IsFiniteSet(F)
      /\ \A t : IsFiniteSet(Before(S, t)) /\ Cardinality(Before(S, t)) \in Nat
      /\ \A t \in S, u \in F : t <= u => t \in F
  BY FirstOnes
<1> HIDE DEF F
<1>2. S \in SUBSET Int /\ (\A x \in S : 0 <= x /\ x <= b) /\ Cardinality(S) \in Nat
  BY <1>1, FS_CardinalityType
<1>i. 0 \in Int /\ b \in Int /\ \A x \in S : x \in Int
  BY <1>2
<1>3. S # {}
  BY FS_EmptySet
<1>4. F # {}
  <2>1. Min(S) \in S /\ \A x \in S : Min(S) <= x
    BY <1>i, <1>2, <1>3, MinOf
  <2>2. Before(S, Min(S)) = {}
    <3> DEFINE m == Min(S)
    <3>1. \A x \in S : ~ (x < m)
      <4>1. m \in S /\ \A x \in S : m <= x
        BY <2>1
      <4> HIDE DEF m
      <4> QED BY <1>i, <4>1
    <3> QED BY <3>1 DEF Before
  <2>3. Cardinality(Before(S, Min(S))) = 0
    BY <2>2, FS_EmptySet
  <2> QED BY <1>1, <2>1, <2>3
<1>5. Cardinality(F) <= n /\ Cardinality(F) \in Nat
  <2>1. F \in SUBSET Int /\ \A x \in F : x <= b
    BY <1>1, <1>2
  <2>2. Max(F) \in F /\ \A x \in F : x <= Max(F)
    BY <1>i, <1>4, <2>1, MaxOf
  <2> DEFINE x == Max(F)
  <2>3. x \in F /\ \A y \in F : y <= x
    BY <2>2
  <2> HIDE DEF x
  <2>4. F = Before(S, x) \cup {x}
    <3>1. \A y \in F : y \in S /\ (y < x \/ y = x)
      BY <1>i, <1>1, <2>3
    <3>2. \A y \in S : y < x => y \in F
      BY <1>i, <1>1, <2>3
    <3> QED BY <2>3, <3>1, <3>2 DEF Before
  <2>5. x \notin Before(S, x)
    BY <1>1, <1>2, <2>3 DEF Before
  <2>6. Cardinality(F) = Cardinality(Before(S, x)) + 1
    BY <1>1, <2>4, <2>5, FS_AddElement
  <2>7. Cardinality(Before(S, x)) < n
    BY <1>1, <2>3
  <2> QED BY <1>1, <2>6, <2>7
<1>6. CASE F = S
  BY <1>2, <1>5, <1>6 DEF F
<1>7. CASE F # S
  <2>1. S \ F \in SUBSET Int /\ (\A x \in S \ F : 0 <= x) /\ S \ F # {}
    BY <1>1, <1>2, <1>7
  <2> DEFINE m == Min(S \ F)
  <2>2. m \in S \ F /\ \A x \in S \ F : m <= x
    <3> DEFINE G == S \ F
    <3> HIDE DEF G
    <3>1. Min(G) \in G /\ \A x \in G : Min(G) <= x
      BY <1>i, <2>1, MinOf DEF G
    <3> QED BY <3>1 DEF G
  <2> HIDE DEF m
  <2>3. Before(S, m) = F
    <3>1. \A y \in S : y < m => y \in F
      BY <1>i, <2>2
    <3>2. \A y \in F : y \in S /\ y < m
      <4> TAKE y \in F
      <4>1. y \in S /\ ~ (m <= y)
        BY <1>1, <2>2
      <4> QED BY <1>i, <2>2, <4>1
    <3> QED BY <3>1, <3>2 DEF Before
  <2>4. ~ (Cardinality(Before(S, m)) < n)
    BY <1>1, <2>2
  <2> QED BY <1>5, <2>3, <2>4 DEF F
<1> QED BY <1>6, <1>7

\* The occurrences of a rule without end before x, and those up to Horizon.
Until(r, x) == {t \in Int : Occurs(r, t) /\ t < x}

\* They are finitely many.
LEMMA UntilIsFinite ==
  ASSUME NEW r, Timely(r), NEW x \in Int
  PROVE  \E b \in Nat : Until(r, x) \in SUBSET (0 .. b)
<1> DEFINE b == IF x < 0 THEN 0 ELSE x
<1>1. b \in Nat /\ x <= b
  OBVIOUS
<1> HIDE DEF b
<1>2. \A t \in Int : Occurs(r, t) /\ t < x => t \in 0 .. b
  <2> SUFFICES ASSUME NEW t \in Int, Occurs(r, t), t < x PROVE t \in 0 .. b
    OBVIOUS
  <2>1. t >= r.start /\ r.start \in Nat
    BY DEF Occurs, Timely
  <2> QED BY <1>1, <2>1
<1>3. Until(r, x) \in SUBSET (0 .. b)
  BY <1>2 DEF Until
<1> QED BY <1>1, <1>3

\* The occurrences the properties speak of, in these terms.
LEMMA RuleOccurrencesAre ==
  ASSUME NEW r, RuleOK(r)
  PROVE  LET all == Until(r, Horizon + 1)
         IN  RuleOccurrences(r) = CASE r.duration < 0 -> all
                                    [] r.duration = 0 -> {t \in all : t <= r.end}
                                    [] r.duration > 0 -> First(r.duration, all)
<1> DEFINE fits(t) == IF TimedRepetition(r) > 0
                      THEN (t - r.start) % TimedRepetition(r) = 0
                      ELSE /\ Matches(r, t)
                           /\ (IntervalOf(r, t) - IntervalOf(r, r.start)) % r.freq = 0
           every == {t \in r.start .. Horizon : fits(t)}
<1>1. Timely(r) /\ r.start \in Int /\ Horizon \in Int
  BY RuleIsTimely, InputAssumption
<1>2. TimedRepetition(r) \in Int /\ (TimedRepetition(r) > 0 <=> TimedRepetition(r) # 0)
  <2>1. TimedRepetition(r) # 0 => TimedRepetition(r) \in Int /\ TimedRepetition(r) > 1
    BY <1>1, TimedOccurs
  <2> QED BY <2>1
<1>3. ASSUME NEW t \in Int, t >= r.start
      PROVE  Occurs(r, t) <=> fits(t)
  <2>1. CASE TimedRepetition(r) > 0
    <3>1. Occurs(r, t) <=> t >= r.start /\ (t - r.start) % TimedRepetition(r) = 0
      BY <1>1, <1>2, <2>1, TimedOccurs
    <3> QED BY <3>1, <2>1, <1>3
  <2>2. CASE ~ (TimedRepetition(r) > 0)
    BY <2>2, <1>3 DEF Occurs
  <2> QED BY <2>1, <2>2
<1>4. every = Until(r, Horizon + 1)
  <2>1. ASSUME NEW t
        PROVE  t \in r.start .. Horizon <=> t \in Int /\ t >= r.start /\ t < Horizon + 1
    BY <1>1
  <2>2. ASSUME NEW t \in Int
        PROVE  Occurs(r, t) => t >= r.start
    BY DEF Occurs
  <2> HIDE DEF fits
  <2>3. \A t : t \in every <=> t \in Until(r, Horizon + 1)
    BY <1>3, <2>1, <2>2 DEF Until
  <2> QED BY <2>3
<1>5. RuleOccurrences(r) = CASE r.duration < 0 -> every
                             [] r.duration = 0 -> {t \in every : t <= r.end}
                             [] r.duration > 0 -> First(r.duration, every)
  BY DEF RuleOccurrences
<1> HIDE DEF every
<1> QED BY <1>4, <1>5

-----------------------------------------------------------------------------
(* The cache. *)

\* The dates of the first intervals.
FoundIn(r, k) == {t \in UNION {DatesForInterval(r, NextValidInterval(r, r.start) + j * r.freq)
                                  : j \in 0 .. k} : t >= r.start}

\* The occurrences in the first intervals are those before some date/time.
LEMMA FoundAre ==
  ASSUME NEW r, Timely(r), NEW k \in Nat
  PROVE  \E x \in Int : /\ FoundIn(r, k) = Until(r, x)
                        /\ k = Limit /\ Reaches(r) => x > Horizon
<1> DEFINE i(j) == NextValidInterval(r, r.start) + j * r.freq
           x == IntervalDateTime(r, i(k) + 1)
<1>1. r.start \in Int /\ r.freq \in Int /\ r.freq > 0
  BY DEF Timely
<1>2. NextValidInterval(r, r.start) \in Int
  <2>1. PICK m \in Nat : NextValidInterval(r, r.start) = IntervalOf(r, r.start) + m * r.freq
    BY <1>1, NextValid
  <2>2. IntervalOf(r, r.start) \in Int
    BY <1>1, InInterval
  <2> QED BY <1>1, <2>1, <2>2
<1>3. \A j \in Nat : i(j) \in Int
  BY <1>1, <1>2
<1>4. x \in Int
  <2>1. i(k) + 1 \in Int
    BY <1>3
  <2> HIDE DEF i
  <2> QED BY <2>1, IntervalFirst
<1>5. \A j \in Nat : i(j) <= i(k) <=> j <= k
  <2> SUFFICES ASSUME NEW j \in Nat PROVE i(j) <= i(k) <=> j <= k
    OBVIOUS
  <2>1. j < k => j * r.freq + r.freq <= k * r.freq
    BY <1>1, Apart
  <2>2. k < j => k * r.freq + r.freq <= j * r.freq
    BY <1>1, Apart
  <2>3. j * r.freq \in Int /\ k * r.freq \in Int
    BY <1>1
  <2>4. j < k \/ k < j \/ j = k
    OBVIOUS
  <2> QED BY <1>1, <1>2, <2>1, <2>2, <2>3, <2>4
<1>6. ASSUME NEW t \in FoundIn(r, k) PROVE t \in Until(r, x)
  <2>1. PICK j \in 0 .. k : t \in DatesForInterval(r, i(j))
    BY DEF FoundIn
  <2>2. t >= r.start
    BY DEF FoundIn
  <2>3. t \in Int /\ Occurs(r, t)
    BY <1>1, <2>1, <2>2, AfterNext, j \in Nat
  <2>4. IntervalOf(r, t) = i(j)
    BY <1>3, <2>1, DatesOfInterval, j \in Nat
  <2>5. i(j) < i(k) + 1 /\ i(k) + 1 \in Int
    BY <1>3, <1>5, j \in Nat, j <= k
  <2> HIDE DEF i
  <2>6. t < x
    BY <2>3, <2>4, <2>5, InInterval
  <2> QED BY <2>3, <2>6 DEF Until
<1>7. ASSUME NEW t \in Until(r, x) PROVE t \in FoundIn(r, k)
  <2>1. t \in Int /\ Occurs(r, t) /\ t < x
    BY DEF Until
  <2>2. t >= r.start /\ Matches(r, t)
    BY <2>1 DEF Occurs
  <2>3. PICK j \in Nat : IntervalOf(r, t) = i(j)
    BY <1>1, <2>1, <2>2, FromNext
  <2>4. i(k) + 1 \in Int /\ i(j) \in Int /\ i(k) \in Int
    BY <1>3
  <2>5. i(j) < i(k) + 1
    <3> HIDE DEF i
    <3> QED BY <2>1, <2>3, <2>4, InInterval
  <2>6. j <= k
    <3> HIDE DEF i
    <3> QED BY <1>5, <2>4, <2>5
  <2>7. t \in DatesForInterval(r, i(j))
    BY <2>1, <2>2, <2>3, <2>4, DatesOfInterval
  <2>8. j \in 0 .. k
    BY <2>6
  <2> QED BY <2>2, <2>7, <2>8 DEF FoundIn
<1>8. ASSUME k = Limit, Reaches(r) PROVE x > Horizon
  <2> DEFINE l == IntervalOf(r, r.start) + Limit * r.freq
  <2>1. PICK m \in Nat : NextValidInterval(r, r.start) = IntervalOf(r, r.start) + m * r.freq
    BY <1>1, NextValid
  <2>2. IntervalOf(r, r.start) \in Int
    BY <1>1, InInterval
  <2>3. m * r.freq \in Int /\ m * r.freq >= 0
    <3>1. m = 0 \/ 0 < m
      OBVIOUS
    <3>2. 0 < m => 0 * r.freq + r.freq <= m * r.freq
      BY <1>1, Apart
    <3> QED BY <3>1, <3>2, <1>1
  <2>4. l < i(k) + 1 /\ l \in Int /\ i(k) + 1 \in Int
    <3>1. k * r.freq \in Int
      BY <1>1
    <3> QED BY <1>8, <2>1, <2>2, <2>3, <3>1
  <2>5. IntervalDateTime(r, l) > Horizon
    BY <1>8 DEF Reaches
  <2> HIDE DEF l, i
  <2>6. IntervalDateTime(r, l) < x /\ IntervalDateTime(r, l) \in Int
    BY <2>4, IntervalsInOrder, IntervalFirst
  <2>7. Horizon \in Int
    BY InputAssumption
  <2> HIDE DEF x
  <2> QED BY <1>4, <2>5, <2>6, <2>7
<1>9. FoundIn(r, k) = Until(r, x)
  <2> HIDE DEF x
  <2> QED BY <1>6, <1>7
<1> HIDE DEF x
<1> QED BY <1>4, <1>8, <1>9

\* Either enough occurrences are found, or all that are up to Horizon.
LEMMA CacheIs ==
  ASSUME NEW r, RuleOK(r), r.duration > 0
  PROVE  \E x \in Int :
           LET found == Until(r, x)
           IN  /\ BuildCache(r).dates = First(r.duration, found)
               /\ BuildCache(r).end = IF Cardinality(First(r.duration, found)) = r.duration
                                      THEN Max(First(r.duration, found)) ELSE None
               /\ Cardinality(found) >= r.duration \/ x > Horizon
<1> DEFINE Interval(k) == NextValidInterval(r, r.start) + k * r.freq
           Found(k)    == {t \in UNION {DatesForInterval(r, Interval(j)) : j \in 0 .. k} :
                               t >= r.start}
           enough      == {k \in 0 .. Limit : Cardinality(Found(k)) >= r.duration}
           loops       == IF enough = {} THEN Limit ELSE Min(enough)
           found       == First(r.duration, Found(loops))
<1>1. /\ BuildCache(r).dates = found
      /\ BuildCache(r).end = IF Cardinality(found) = r.duration THEN Max(found) ELSE None
  BY DEF BuildCache
<1>2. \A k : Found(k) = FoundIn(r, k)
  BY DEF FoundIn
<1>3. Limit \in Nat
  BY InputAssumption
<1>4. loops \in Nat /\ (Cardinality(Found(loops)) >= r.duration \/ loops = Limit)
  <2> HIDE DEF Found
  <2>1. CASE enough = {}
    BY <1>3, <2>1
  <2>2. CASE enough # {}
    <3>1. enough \in SUBSET Int /\ (\A k \in enough : 0 <= k) /\ 0 \in Int
      BY <1>3
    <3>2. Min(enough) \in enough
      <4> HIDE DEF enough
      <4> QED BY <2>2, <3>1, MinOf
    <3>3. loops \in enough
      BY <2>2, <3>2
    <3> HIDE DEF loops
    <3> QED BY <1>3, <3>3
  <2> QED BY <2>1, <2>2
<1> HIDE DEF loops, Found
<1>5. PICK x \in Int : Found(loops) = Until(r, x) /\ (loops = Limit => x > Horizon)
  BY <1>2, <1>4, FoundAre, RuleIsTimely DEF RuleOK
<1> QED BY <1>1, <1>4, <1>5

\* The occurrences before t, of those before a later one,
LEMMA BeforeUntil ==
  ASSUME NEW r, NEW x \in Int, NEW t \in Int, t <= x
  PROVE  Before(Until(r, x), t) = Until(r, t)
<1>1. ASSUME NEW u \in Int PROVE u < t => u < x
  OBVIOUS
<1> QED BY <1>1 DEF Before, Until

\* are no more than these.
LEMMA UntilGrows ==
  ASSUME NEW r, Timely(r), NEW x \in Int, NEW t \in Int, t <= x
  PROVE  /\ Cardinality(Until(r, t)) \in Nat /\ Cardinality(Until(r, x)) \in Nat
         /\ Cardinality(Until(r, t)) <= Cardinality(Until(r, x))
<1>1. ASSUME NEW u \in Int PROVE u < t => u < x
  OBVIOUS
<1>2. Until(r, t) \subseteq Until(r, x)
  BY <1>1 DEF Until
<1>3. PICK b \in Nat : Until(r, x) \in SUBSET (0 .. b)
  BY UntilIsFinite
<1>4. IsFiniteSet(Until(r, x))
  <2>1. IsFiniteSet(0 .. b)
    BY FS_Interval
  <2> QED BY <1>3, <2>1, FS_Subset
<1>5. IsFiniteSet(Until(r, t)) /\ Cardinality(Until(r, t)) <= Cardinality(Until(r, x))
  BY <1>2, <1>4, FS_Subset
<1> QED BY <1>4, <1>5, FS_CardinalityType

\* The first occurrences are those that few occurrences come before.
LEMMA FirstUntil ==
  ASSUME NEW r, Timely(r), NEW x \in Int, NEW n \in Nat \ {0}, NEW t \in Int
  PROVE  t \in First(n, Until(r, x))
           <=> Occurs(r, t) /\ t < x /\ Cardinality(Until(r, t)) < n
<1>1. PICK b \in Nat : Until(r, x) \in SUBSET (0 .. b)
  BY UntilIsFinite
<1>2. First(n, Until(r, x)) = {u \in Until(r, x) : Cardinality(Before(Until(r, x), u)) < n}
  BY <1>1, FirstOnes
<1>3. t \in Until(r, x) <=> Occurs(r, t) /\ t < x
  BY DEF Until
<1>4. t < x => Before(Until(r, x), t) = Until(r, t)
  <2>1. t < x => t <= x
    OBVIOUS
  <2> QED BY <2>1, BeforeUntil
<1> QED BY <1>2, <1>3, <1>4

\* The cache of a rule that has a number of occurrences holds the occurrences,
\* up to the horizon at least.
CacheHolds(r, c) ==
  /\ \A t \in c.dates : Occurs(r, t)
  /\ \A t \in Int : Occurs(r, t) /\ t <= Horizon =>
        (t \in c.dates <=> t \in RuleOccurrences(r))
  /\ \A u \in c.dates, t \in Int : Occurs(r, t) /\ t < u => t \in c.dates
  /\ \E b \in Nat : c.dates \in SUBSET (0 .. b)
  /\ c.end = None \/ (c.end \in c.dates /\ \A t \in c.dates : t <= c.end)
  /\ RuleOccurrences(r) = {t \in Until(r, Horizon + 1) : c.end # None => t <= c.end}

\* buildCache() caches the first occurrences, as many as the rule has up to
\* Horizon, and knows the end if it has found all of them.
LEMMA CacheFacts ==
  ASSUME NEW r, RuleOK(r), r.duration > 0
  PROVE  CacheHolds(r, BuildCache(r))
<1> DEFINE n == r.duration
           D == BuildCache(r).dates
           e == BuildCache(r).end
           O == RuleOccurrences(r)
<1>1. Timely(r) /\ n \in Nat \ {0}
  BY RuleIsTimely
<1>2. Horizon \in Int /\ Horizon + 1 \in Int
  BY InputAssumption
<1>3. PICK x \in Int :
        /\ D = First(n, Until(r, x))
        /\ e = IF Cardinality(D) = n THEN Max(D) ELSE None
        /\ Cardinality(Until(r, x)) >= n \/ x > Horizon
  BY CacheIs
<1>4. O = First(n, Until(r, Horizon + 1))
  <2>1. ~ (n < 0) /\ n # 0 /\ n > 0
    BY <1>1
  <2> QED BY <2>1, RuleOccurrencesAre
<1>5. PICK b \in Nat : Until(r, x) \in SUBSET (0 .. b)
  BY <1>1, UntilIsFinite
<1> HIDE DEF D, e, O, n
<1>6. D \in SUBSET Until(r, x) /\ D \in SUBSET (0 .. b) /\ D \in SUBSET Int
  <2>1. D \in SUBSET Until(r, x)
    BY <1>3 DEF First
  <2> QED BY <2>1, <1>5
<1>7. \A t \in Int : t \in D <=> Occurs(r, t) /\ t < x /\ Cardinality(Until(r, t)) < n
  BY <1>1, <1>3, FirstUntil
<1>8. \A t \in Int : t \in O <=> Occurs(r, t) /\ t < Horizon + 1 /\ Cardinality(Until(r, t)) < n
  BY <1>1, <1>2, <1>4, FirstUntil
<1>9. ASSUME NEW t \in D PROVE Occurs(r, t)
  BY <1>6, <1>7
<1>10. ASSUME NEW t \in Int, Occurs(r, t), t <= Horizon
       PROVE  t \in D <=> t \in O
  <2>1. t < Horizon + 1
    BY <1>2, <1>10
  <2>2. CASE t < x
    BY <1>7, <1>8, <1>10, <2>1, <2>2
  <2>3. CASE ~ (t < x)
    <3>1. x <= t /\ ~ (x > Horizon)
      BY <1>2, <1>10, <2>3
    <3>2. Cardinality(Until(r, x)) >= n
      BY <1>3, <3>1
    <3>3. /\ Cardinality(Until(r, t)) \in Nat /\ Cardinality(Until(r, x)) \in Nat
          /\ Cardinality(Until(r, x)) <= Cardinality(Until(r, t))
      BY <1>1, <3>1, UntilGrows
    <3>4. ~ (Cardinality(Until(r, t)) < n)
      BY <1>1, <3>2, <3>3
    <3> QED BY <1>7, <1>8, <3>4
  <2> QED BY <2>2, <2>3
<1>11. ASSUME NEW u \in D, NEW t \in Int, Occurs(r, t), t < u
       PROVE  t \in D
  <2>1. u \in Int /\ u < x /\ Cardinality(Until(r, u)) < n
    BY <1>6, <1>7
  <2>2. t < x /\ t <= u
    BY <1>11, <2>1
  <2>3. /\ Cardinality(Until(r, t)) \in Nat /\ Cardinality(Until(r, u)) \in Nat
        /\ Cardinality(Until(r, t)) <= Cardinality(Until(r, u))
    BY <1>1, <2>1, <2>2, UntilGrows
  <2>4. Cardinality(Until(r, t)) < n
    BY <1>1, <2>1, <2>3
  <2> QED BY <1>7, <1>11, <2>2, <2>4
<1>12. Cardinality(D) = n => e \in D /\ e # None /\ \A t \in D : t <= e
  <2> SUFFICES ASSUME Cardinality(D) = n
               PROVE  e \in D /\ e # None /\ \A t \in D : t <= e
    OBVIOUS
  <2>1. D # {}
    BY <1>1, FS_EmptySet
  <2>2. Max(D) \in D /\ \A t \in D : t <= Max(D)
    <3>1. \A t \in D : t <= b
      BY <1>6
    <3> QED BY <1>6, <2>1, <3>1, MaxOf
  <2>3. e = Max(D)
    BY <1>3
  <2>4. \A t \in D : t # None
    BY <1>6 DEF None
  <2> QED BY <2>2, <2>3, <2>4
<1>13. ASSUME NEW t \in O PROVE t \in Until(r, Horizon + 1) /\ (e # None => t <= e)
  <2>1. t \in Until(r, Horizon + 1) /\ t \in Int
    BY <1>4 DEF First, Until
  <2>2. Occurs(r, t) /\ t <= Horizon
    BY <1>2, <2>1 DEF Until
  <2>3. t \in D
    BY <1>10, <2>1, <2>2
  <2> QED BY <1>3, <1>12, <2>1, <2>3
<1>14. ASSUME NEW t \in Until(r, Horizon + 1), e # None => t <= e
       PROVE  t \in O
  <2>1. t \in Int /\ Occurs(r, t) /\ t <= Horizon
    BY <1>2 DEF Until
  <2>2. CASE e # None
    <3>1. e \in D /\ t <= e /\ e \in Int
      BY <1>3, <1>6, <1>12, <1>14, <2>2
    <3>2. t = e \/ t < e
      BY <2>1, <3>1
    <3>3. t \in D
      BY <1>11, <2>1, <3>1, <3>2
    <3> QED BY <1>10, <2>1, <3>3
  <2>3. CASE e = None
    <3>1. Cardinality(D) # n
      BY <1>12, <2>3
    <3>2. Cardinality(Until(r, x)) \in Nat
      BY <1>1, UntilGrows
    <3>3. ~ (Cardinality(Until(r, x)) >= n)
      BY <1>1, <1>3, <1>5, <3>1, FirstCount
    <3>4. D = Until(r, x)
      <4>1. Cardinality(Until(r, x)) < n
        BY <1>1, <3>2, <3>3
      <4> QED BY <1>1, <1>3, <1>5, <4>1, FirstOnes
    <3>5. t < x
      BY <1>2, <1>3, <2>1, <3>3
    <3>6. t \in D
      BY <2>1, <3>4, <3>5 DEF Until
    <3> QED BY <1>10, <2>1, <3>6
  <2> QED BY <2>2, <2>3
<1>15. e = None \/ (e \in D /\ \A t \in D : t <= e)
  BY <1>3, <1>12
<1>16. O = {t \in Until(r, Horizon + 1) : e # None => t <= e}
  BY <1>13, <1>14
<1> QED BY <1>6, <1>9, <1>10, <1>11, <1>15, <1>16 DEF CacheHolds, D, e, O

-----------------------------------------------------------------------------
(* Searching a rule forward and backward. *)

\* findGT() answers with the least of the later ones,
LEMMA LeastFirst ==
  ASSUME NEW S \in SUBSET Int, NEW b \in Int, \A t \in S : b <= t, S # {}
  PROVE  FirstOf[S] \in S /\ \A t \in S : FirstOf[S] <= t
<1>1. FirstOf[S] = Min(S)
  BY DEF FirstOf
<1> QED BY <1>1, MinOf

\* findLT() with the greatest of the earlier ones.
LEMMA GreatestLast ==
  ASSUME NEW S \in SUBSET Int, NEW b \in Int, \A t \in S : t <= b, S # {}
  PROVE  LastOf[S] \in S /\ \A t \in S : t <= LastOf[S]
<1>1. LastOf[S] = Max(S)
  BY DEF LastOf
<1> QED BY <1>1, MaxOf

\* The first and the last date of an interval that has any.
LEMMA EndsOfInterval ==
  ASSUME NEW r, Timely(r), NEW i \in Int, DatesForInterval(r, i) # {}
  PROVE  LET found == DatesForInterval(r, i)
         IN  /\ FirstOf[found] \in found /\ \A t \in found : FirstOf[found] <= t
             /\ LastOf[found] \in found /\ \A t \in found : t <= LastOf[found]
<1> DEFINE S == DatesForInterval(r, i)
           a == IntervalDateTime(r, i)
           b == IntervalDateTime(r, i + 1)
<1>1. a \in Int /\ b \in Int
  BY IntervalFirst, i + 1 \in Int
<1>2. S \in SUBSET Int
  BY DatesOfInterval
<1>3. \A t \in S : a <= t /\ t <= b
  <2> TAKE t \in S
  <2>1. t \in Int /\ IntervalOf(r, t) = i
    BY DatesOfInterval
  <2>2. a <= t /\ t < b
    BY <2>1, InInterval
  <2> QED BY <1>1, <2>1, <2>2
<1> HIDE DEF S, a, b
<1>4. FirstOf[S] \in S /\ \A t \in S : FirstOf[S] <= t
  BY <1>1, <1>2, <1>3, LeastFirst DEF S
<1>5. LastOf[S] \in S /\ \A t \in S : t <= LastOf[S]
  BY <1>1, <1>2, <1>3, GreatestLast DEF S
<1> QED BY <1>4, <1>5 DEF S

\* Intervals one search after another looks at.
LEMMA Steps ==
  ASSUME NEW r, Timely(r), NEW x \in Int, NEW k \in Nat
  PROVE  /\ x + k * r.freq \in Int /\ x - k * r.freq \in Int
         /\ \A j \in Nat : j < k => /\ x + j * r.freq < x + k * r.freq
                                    /\ x - k * r.freq < x - j * r.freq
<1>1. r.freq \in Int /\ r.freq > 0
  BY DEF Timely
<1>2. k * r.freq \in Int
  BY <1>1
<1>3. ASSUME NEW j \in Nat, j < k
      PROVE  x + j * r.freq < x + k * r.freq /\ x - k * r.freq < x - j * r.freq
  <2>1. j * r.freq + r.freq <= k * r.freq /\ j * r.freq \in Int
    BY <1>1, <1>3, Apart
  <2> QED BY <1>1, <1>2, <2>1
<1> QED BY <1>2, <1>3

\* The intervals a search begins with have a number,
LEMMA NextValidIsInt ==
  ASSUME NEW r, Timely(r), NEW t \in Int
  PROVE  NextValidInterval(r, t) \in Int /\ PreviousValidInterval(r, t) \in Int
<1>1. r.start \in Int /\ r.freq \in Int /\ IntervalOf(r, r.start) \in Int
  <2>1. r.start \in Int /\ r.freq \in Int
    BY DEF Timely
  <2> QED BY <2>1, InInterval
<1>2. PICK m \in Nat : NextValidInterval(r, t) = IntervalOf(r, r.start) + m * r.freq
  BY NextValid
<1>3. PICK n \in Int : PreviousValidInterval(r, t) = IntervalOf(r, r.start) + n * r.freq
  BY PreviousValid
<1> QED BY <1>1, <1>2, <1>3

\* What the search forward finds is the next occurrence; what it misses is beyond
\* the horizon or the end, or is the end itself at the beginning of an interval.
LEMMA ForwardFinds ==
  ASSUME NEW r, Timely(r), r.duration \in Int, Reaches(r),
         NEW end \in Int, NEW from \in Int, from >= r.start - 1
  PROVE  LET next == SearchForward(r, end, from)
         IN  /\ \/ next = None
                \/ /\ Occurs(r, next) /\ next > from
                   /\ \A u \in Int : Occurs(r, u) /\ u > from => next <= u
             /\ next = None => \A u \in Int :
                    Occurs(r, u) /\ u > from /\ u <= Horizon =>
                       \/ r.duration >= 0 /\ u > end
                       \/ r.duration >= 0 /\ u = IntervalDateTime(r, IntervalOf(r, u)) /\ u = end
<1> DEFINE interval == NextValidInterval(r, from)
           Then(k)  == interval + k * r.freq
           later    == {t \in DatesForInterval(r, interval) : t > from}
           tried    == {k \in 1 .. Limit :
                        \/ r.duration < 0
                        \/ /\ IntervalDateTime(r, Then(1)) <= end
                           /\ k = 1 \/ IntervalDateTime(r, Then(k)) < end}
           hits     == {k \in tried : DatesForInterval(r, Then(k)) # {}}
           next     == SearchForward(r, end, from)
<1>1. next = IF later # {} THEN FirstOf[later]
             ELSE IF hits # {} THEN FirstOf[DatesForInterval(r, Then(Min(hits)))]
             ELSE None
  BY DEF SearchForward
<1>2. r.start \in Int /\ r.freq \in Int /\ r.freq > 0 /\ Limit \in Nat /\ Horizon \in Int
  BY InputAssumption DEF Timely
<1>3. interval \in Int
  BY NextValidIsInt
<1>4. ASSUME NEW k \in Nat
      PROVE  /\ Then(k) \in Int
             /\ \A j \in Nat : j < k => Then(j) < Then(k)
  <2> HIDE DEF interval
  <2> QED BY <1>3, Steps
<1>5. Then(0) = interval
  <2> HIDE DEF interval
  <2> QED BY <1>2, <1>3
<1>6. ASSUME NEW u \in Int, Occurs(r, u), u > from
      PROVE  \E k \in Nat : IntervalOf(r, u) = Then(k) /\ u \in DatesForInterval(r, Then(k))
  <2>1. from <= u
    BY <1>6
  <2>2. PICK k \in Nat : IntervalOf(r, u) = Then(k)
    BY <1>6, <2>1, FromNext
  <2>3. Matches(r, u) /\ Then(k) \in Int
    BY <1>4, <1>6 DEF Occurs
  <2> HIDE DEF Then
  <2>4. u \in DatesForInterval(r, Then(k))
    BY <2>2, <2>3, DatesOfInterval
  <2> QED BY <2>2, <2>4
<1>7. ASSUME NEW k \in Nat, NEW u \in DatesForInterval(r, Then(k)), k > 0 \/ u > from
      PROVE  u \in Int /\ Occurs(r, u) /\ u > from /\ IntervalOf(r, u) = Then(k)
  <2>1. /\ u \in Int
        /\ u >= r.start => Occurs(r, u)
        /\ k > 0 => u > from /\ Occurs(r, u)
    BY AfterNext
  <2>2. u > from => u >= r.start
    BY <1>2, <2>1
  <2>3. Then(k) \in Int
    BY <1>4
  <2> HIDE DEF Then
  <2>4. IntervalOf(r, u) = Then(k)
    BY <2>3, DatesOfInterval
  <2> QED BY <1>7, <2>1, <2>2, <2>4
<1> HIDE DEF interval, Then
\* An occurrence in an earlier interval is earlier.
<1>8. ASSUME NEW j \in Nat, NEW k \in Nat, j < k, NEW u \in Int, NEW v \in Int,
             IntervalOf(r, u) = Then(j), IntervalOf(r, v) = Then(k)
      PROVE  u < v
  <2>1. Then(j) < Then(k) /\ Then(j) \in Int /\ Then(k) \in Int
    BY <1>4, <1>8
  <2>2. v <= u => IntervalOf(r, v) <= IntervalOf(r, u)
    BY IntervalMono
  <2> QED BY <1>8, <2>1, <2>2
<1>9. CASE later # {}
  <2>1. \A t \in later : t \in Int /\ from <= t
    BY <1>2, <1>5, <1>7
  <2>2. next \in later /\ \A t \in later : next <= t
    <3>1. next = FirstOf[later]
      BY <1>1, <1>9
    <3> HIDE DEF later, next
    <3>2. later \in SUBSET Int
      BY <2>1
    <3> QED BY <1>9, <2>1, <3>1, <3>2, LeastFirst
  <2>3. next \in DatesForInterval(r, Then(0)) /\ next > from
    BY <1>5, <2>2
  <2> HIDE DEF next
  <2>4. next \in Int /\ Occurs(r, next) /\ IntervalOf(r, next) = Then(0)
    BY <1>7, <2>3
  <2>5. ASSUME NEW u \in Int, Occurs(r, u), u > from
        PROVE  next <= u
    <3>1. PICK k \in Nat : IntervalOf(r, u) = Then(k) /\ u \in DatesForInterval(r, Then(k))
      BY <1>6, <2>5
    <3>2. CASE k = 0
      BY <1>5, <2>2, <2>5, <3>1, <3>2
    <3>3. CASE k > 0
      BY <1>8, <2>4, <3>1, <3>3
    <3> QED BY <3>2, <3>3
  <2>6. next # None
    BY <1>2, <2>4 DEF None, Occurs, Timely
  <2> QED BY <2>3, <2>4, <2>5, <2>6 DEF next
\* An occurrence is at a later step; if that is tried, there is a hit.
<1>10. ASSUME later = {}, NEW u \in Int, Occurs(r, u), u > from
       PROVE  \E k \in Nat : /\ k > 0 /\ IntervalOf(r, u) = Then(k)
                             /\ u \in DatesForInterval(r, Then(k))
                             /\ k \in tried => k \in hits
  <2>1. PICK k \in Nat : IntervalOf(r, u) = Then(k) /\ u \in DatesForInterval(r, Then(k))
    BY <1>6, <1>10
  <2>2. k # 0
    BY <1>5, <1>10, <2>1
  <2>3. k > 0
    BY <2>2
  <2>4. k \in tried => k \in hits
    BY <2>1
  <2> QED BY <2>1, <2>3, <2>4
<1>11. ASSUME NEW k \in tried, NEW j \in Nat, j > 0, j <= k
       PROVE  j \in tried
  <2>1. k \in Nat /\ k <= Limit /\ j \in 1 .. Limit
    BY <1>2, <1>11
  <2>2. CASE r.duration < 0
    BY <2>1, <2>2
  <2>3. CASE ~ (r.duration < 0)
    <3>1. /\ IntervalDateTime(r, Then(1)) <= end
          /\ k = 1 \/ IntervalDateTime(r, Then(k)) < end
      BY <2>3
    <3>2. j < k => IntervalDateTime(r, Then(j)) < IntervalDateTime(r, Then(k))
      <4>1. Then(j) \in Int /\ Then(k) \in Int /\ (j < k => Then(j) < Then(k))
        BY <1>4, <2>1
      <4> QED BY <4>1, IntervalsInOrder
    <3>3. IntervalDateTime(r, Then(j)) \in Int /\ IntervalDateTime(r, Then(k)) \in Int
      <4>1. Then(j) \in Int /\ Then(k) \in Int
        BY <1>4, <2>1
      <4> QED BY <4>1, IntervalFirst
    <3>4. j = k \/ j < k
      BY <1>11, <2>1
    <3>5. j = 1 \/ IntervalDateTime(r, Then(j)) < end
      BY <1>11, <2>1, <3>1, <3>2, <3>3, <3>4
    <3> QED BY <2>1, <3>1, <3>5
  <2> QED BY <2>2, <2>3
<1>12. CASE later = {} /\ hits # {}
  <2> DEFINE m == Min(hits)
  <2>1. m \in hits /\ \A k \in hits : m <= k
    <3>1. hits \in SUBSET Int /\ (\A k \in hits : 1 <= k) /\ 1 \in Int
      BY <1>2
    <3> HIDE DEF hits
    <3> QED BY <1>12, <3>1, MinOf
  <2>2. next = FirstOf[DatesForInterval(r, Then(m))]
    BY <1>1, <1>12
  <2>3. m \in tried /\ m \in Nat /\ m > 0 /\ DatesForInterval(r, Then(m)) # {}
    BY <1>2, <2>1
  <2> HIDE DEF m, next
  <2>4. next \in DatesForInterval(r, Then(m)) /\ \A t \in DatesForInterval(r, Then(m)) : next <= t
    BY <1>4, <2>2, <2>3, EndsOfInterval
  <2>5. next \in Int /\ Occurs(r, next) /\ next > from /\ IntervalOf(r, next) = Then(m)
    BY <1>7, <2>3, <2>4
  <2>6. ASSUME NEW u \in Int, Occurs(r, u), u > from
        PROVE  next <= u
    <3>1. PICK k \in Nat : /\ k > 0 /\ IntervalOf(r, u) = Then(k)
                           /\ u \in DatesForInterval(r, Then(k))
                           /\ k \in tried => k \in hits
      BY <1>10, <1>12, <2>6
    <3>2. ~ (k < m)
      <4> SUFFICES ASSUME k < m PROVE FALSE
        OBVIOUS
      <4>1. k \in tried
        <5>1. k <= m
          BY <2>3
        <5> HIDE DEF tried
        <5> QED BY <1>11, <2>3, <3>1, <5>1
      <4>2. m <= k
        BY <2>1, <3>1, <4>1
      <4> QED BY <2>3, <4>2
    <3>3. CASE k = m
      BY <2>4, <3>1, <3>3
    <3>4. CASE m < k
      BY <1>8, <2>3, <2>5, <3>1, <3>4
    <3> QED BY <2>3, <3>2, <3>3, <3>4
  <2>7. next # None
    BY <1>2, <2>5 DEF None, Occurs, Timely
  <2> QED BY <2>5, <2>6, <2>7 DEF next
<1>13. CASE later = {} /\ hits = {}
  <2>1. next = None
    BY <1>1, <1>13
  <2>2. ASSUME NEW u \in Int, Occurs(r, u), u > from, u <= Horizon
        PROVE  \/ r.duration >= 0 /\ u > end
               \/ r.duration >= 0 /\ u = IntervalDateTime(r, IntervalOf(r, u)) /\ u = end
    <3>1. PICK k \in Nat : k > 0 /\ IntervalOf(r, u) = Then(k) /\ k \notin tried
      BY <1>10, <1>13, <2>2
    <3>2. k < Limit
      BY <2>2, <3>1, WithinLimit DEF Then, interval
    <3>3. k \in 1 .. Limit
      BY <1>2, <3>1, <3>2
    <3>4. /\ ~ (r.duration < 0)
          /\ ~ (IntervalDateTime(r, Then(1)) <= end) \/ (k # 1 /\ ~ (IntervalDateTime(r, Then(k)) < end))
      BY <3>1, <3>3
    <3>5. Then(1) \in Int /\ Then(k) \in Int /\ (1 < k => Then(1) < Then(k))
      BY <1>4, <3>1
    <3>6. IntervalDateTime(r, Then(1)) \in Int /\ IntervalDateTime(r, Then(k)) \in Int
      BY <3>5, IntervalFirst
    <3>7. IntervalDateTime(r, Then(k)) <= u
      BY <3>1, IntervalHolds
    <3>8. IntervalDateTime(r, Then(1)) <= IntervalDateTime(r, Then(k))
      <4>1. 1 < k => IntervalDateTime(r, Then(1)) < IntervalDateTime(r, Then(k))
        BY <3>5, IntervalsInOrder
      <4>2. k = 1 \/ 1 < k
        BY <3>1
      <4> QED BY <3>6, <4>1, <4>2
    <3>9. IntervalOf(r, u) = Then(k)
      BY <3>1
    <3> HIDE DEF tried
    <3> QED BY <3>4, <3>6, <3>7, <3>8, <3>9
  <2> QED BY <2>1, <2>2
<1> HIDE DEF next, later, hits
<1> QED BY <1>9, <1>12, <1>13 DEF next

\* which from the year 0 on is not negative.
LEMMA NotNegative ==
  ASSUME NEW r, Timely(r), NEW u \in Nat
  PROVE  IntervalOf(r, u) \in Nat
<1>1. IntervalDateTime(r, 0) = 0
  <2>1. FirstDay(0) = 0
    <3>1. FirstDay(2 * 0) = 0 * (Long + Short)
      BY FirstDayEven
    <3> QED BY <3>1, Constants
  <2> QED BY <2>1, Constants DEF IntervalDateTime, Timely, Units
<1>2. IntervalOf(r, u) \in Int /\ (IntervalOf(r, u) < 0 <=> u < IntervalDateTime(r, 0))
  <2>1. 0 \in Int /\ u \in Int
    OBVIOUS
  <2> QED BY <2>1, InInterval
<1> QED BY <1>1, <1>2

\* What the search backward finds from the start on is the previous occurrence.
LEMMA BackwardFinds ==
  ASSUME NEW r, Timely(r), NEW prev \in Int
  PROVE  LET found == SearchBackward(r, prev)
         IN  /\ found \in Int
             /\ found >= r.start => Occurs(r, found) /\ found < prev
             /\ \A u \in Int : Occurs(r, u) /\ u < prev => u <= found
<1> DEFINE interval == PreviousValidInterval(r, prev)
           Then(k)  == interval - k * r.freq
           earlier  == {t \in DatesForInterval(r, interval) : t < prev}
           hits     == {k \in 1 .. interval :
                        /\ IntervalDateTime(r, Then(k - 1)) > r.start
                        /\ DatesForInterval(r, Then(k)) # {}}
           found    == SearchBackward(r, prev)
<1>1. found = IF earlier # {} THEN LastOf[earlier]
              ELSE IF hits # {} THEN LastOf[DatesForInterval(r, Then(Min(hits)))]
              ELSE None
  BY DEF SearchBackward
<1>2. r.start \in Int /\ r.start >= 0 /\ r.freq \in Int /\ r.freq > 0
  BY DEF Timely
<1>3. interval \in Int
  BY NextValidIsInt
<1>4. ASSUME NEW k \in Nat
      PROVE  /\ Then(k) \in Int
             /\ \A j \in Nat : j < k => Then(k) < Then(j)
  <2> HIDE DEF interval
  <2> QED BY <1>3, Steps
<1>5. Then(0) = interval
  <2> HIDE DEF interval
  <2> QED BY <1>2, <1>3
<1>6. ASSUME NEW u \in Int, Occurs(r, u), u < prev
      PROVE  \E k \in Nat : IntervalOf(r, u) = Then(k) /\ u \in DatesForInterval(r, Then(k))
  <2>1. u <= prev
    BY <1>6
  <2>2. PICK k \in Nat : IntervalOf(r, u) = Then(k)
    BY <1>6, <2>1, FromPrevious
  <2>3. Matches(r, u) /\ Then(k) \in Int
    BY <1>4, <1>6 DEF Occurs
  <2> HIDE DEF Then
  <2>4. u \in DatesForInterval(r, Then(k))
    BY <2>2, <2>3, DatesOfInterval
  <2> QED BY <2>2, <2>4
<1>7. ASSUME NEW k \in Nat, NEW u \in DatesForInterval(r, Then(k))
      PROVE  /\ u \in Int /\ IntervalOf(r, u) = Then(k)
             /\ u >= r.start => Occurs(r, u)
             /\ k > 0 => u < prev
  <2>1. /\ u \in Int
        /\ u >= r.start => Occurs(r, u)
        /\ k > 0 => u < prev
    BY BeforePrevious
  <2>3. Then(k) \in Int
    BY <1>4
  <2> HIDE DEF Then
  <2>4. IntervalOf(r, u) = Then(k)
    BY <2>3, DatesOfInterval
  <2> QED BY <2>1, <2>4
<1>8. ASSUME NEW j \in Nat, NEW k \in Nat, j < k, NEW u \in Int, NEW v \in Int,
             IntervalOf(r, u) = Then(j), IntervalOf(r, v) = Then(k)
      PROVE  v < u
  <2> HIDE DEF Then
  <2>1. Then(k) < Then(j) /\ Then(j) \in Int /\ Then(k) \in Int
    BY <1>4, <1>8
  <2>2. u <= v => IntervalOf(r, u) <= IntervalOf(r, v)
    BY IntervalMono
  <2> QED BY <1>8, <2>1, <2>2
<1>9. ASSUME earlier = {}, NEW u \in Int, Occurs(r, u), u < prev
      PROVE  \E k \in hits : k \in Nat /\ u \in DatesForInterval(r, Then(k)) /\ IntervalOf(r, u) = Then(k)
  <2>1. PICK k \in Nat : IntervalOf(r, u) = Then(k) /\ u \in DatesForInterval(r, Then(k))
    BY <1>6, <1>9
  <2>2. k # 0
    BY <1>5, <1>9, <2>1
  <2>3. k - 1 \in Nat /\ k - 1 < k
    BY <2>2
  <2>4. u \in Nat /\ u >= r.start
    BY <1>2, <1>9 DEF Occurs
  <2>5. IntervalOf(r, u) \in Nat
    BY <2>4, NotNegative
  <2>6. k <= interval
    <3> DEFINE y == k * r.freq
    <3>1. y \in Int /\ k <= y
      <4>1. k * 1 <= k * r.freq /\ k * r.freq \in Int
        <5>1. k * (r.freq - 1) >= 0 /\ k * r.freq = k * (r.freq - 1) + k /\ k * r.freq \in Int
          BY <1>2
        <5> QED BY <5>1, <1>2
      <4> QED BY <4>1
    <3>2. interval - y \in Nat
      BY <2>1, <2>5
    <3> HIDE DEF y, interval
    <3> QED BY <1>3, <3>1, <3>2
  <2>7. IntervalDateTime(r, Then(k - 1)) > r.start
    <3> HIDE DEF Then
    <3>1. Then(k) < Then(k - 1) /\ Then(k - 1) \in Int
      BY <1>4, <2>3
    <3>2. u < IntervalDateTime(r, Then(k - 1))
      BY <2>1, <3>1, InInterval
    <3>3. IntervalDateTime(r, Then(k - 1)) \in Int
      BY <3>1, IntervalFirst
    <3> QED BY <1>2, <2>4, <3>2, <3>3
  <2>8. k \in hits
    <3>1. k \in 1 .. interval
      BY <1>3, <2>2, <2>6
    <3> HIDE DEF Then, interval
    <3> QED BY <2>1, <2>7, <3>1
  <2> QED BY <2>1, <2>8
<1> HIDE DEF interval, Then
<1>10. CASE earlier # {}
  <2>1. \A t \in earlier : t \in Int /\ t <= prev
    <3> TAKE t \in earlier
    <3>1. t \in DatesForInterval(r, Then(0)) /\ t < prev
      BY <1>5
    <3>2. t \in Int
      BY <1>7, <3>1
    <3> QED BY <3>1, <3>2
  <2>2. found \in earlier /\ \A t \in earlier : t <= found
    <3>1. found = LastOf[earlier]
      BY <1>1, <1>10
    <3> HIDE DEF earlier, found
    <3>2. earlier \in SUBSET Int
      BY <2>1
    <3> QED BY <1>10, <2>1, <3>1, <3>2, GreatestLast
  <2>3. found \in DatesForInterval(r, Then(0)) /\ found < prev
    BY <1>5, <2>2
  <2> HIDE DEF found
  <2>4. found \in Int /\ IntervalOf(r, found) = Then(0) /\ (found >= r.start => Occurs(r, found))
    BY <1>7, <2>3
  <2>5. ASSUME NEW u \in Int, Occurs(r, u), u < prev
        PROVE  u <= found
    <3>1. PICK k \in Nat : IntervalOf(r, u) = Then(k) /\ u \in DatesForInterval(r, Then(k))
      BY <1>6, <2>5
    <3>2. CASE k = 0
      BY <1>5, <2>2, <2>5, <3>1, <3>2
    <3>3. CASE k > 0
      <4>1. u < found
        BY <1>8, <2>4, <3>1, <3>3
      <4> QED BY <2>4, <4>1
    <3> QED BY <3>2, <3>3
  <2> QED BY <2>3, <2>4, <2>5 DEF found
<1>11. CASE earlier = {} /\ hits # {}
  <2> DEFINE m == Min(hits)
  <2>0. \A k \in hits : k \in Nat /\ 1 <= k
    BY <1>3
  <2>1. m \in hits /\ \A k \in hits : m <= k
    <3>1. hits \in SUBSET Int /\ (\A k \in hits : 1 <= k) /\ 1 \in Int
      BY <2>0
    <3> HIDE DEF hits
    <3> QED BY <1>11, <3>1, MinOf
  <2>2. found = LastOf[DatesForInterval(r, Then(m))]
    BY <1>1, <1>11
  <2>3. m \in Nat /\ m > 0 /\ DatesForInterval(r, Then(m)) # {}
    <3>1. m \in Nat /\ 1 <= m
      BY <2>0, <2>1
    <3>2. DatesForInterval(r, Then(m)) # {}
      BY <2>1
    <3> QED BY <3>1, <3>2
  <2> HIDE DEF m, found
  <2>4. found \in DatesForInterval(r, Then(m)) /\ \A t \in DatesForInterval(r, Then(m)) : t <= found
    BY <1>4, <2>2, <2>3, EndsOfInterval
  <2>5. /\ found \in Int /\ IntervalOf(r, found) = Then(m) /\ found < prev
        /\ found >= r.start => Occurs(r, found)
    BY <1>7, <2>3, <2>4
  <2>6. ASSUME NEW u \in Int, Occurs(r, u), u < prev
        PROVE  u <= found
    <3>1. PICK k \in hits : k \in Nat /\ u \in DatesForInterval(r, Then(k)) /\ IntervalOf(r, u) = Then(k)
      BY <1>9, <1>11, <2>6
    <3>2. m <= k
      BY <2>1, <3>1
    <3>3. CASE k = m
      BY <2>4, <3>1, <3>3
    <3>4. CASE m < k
      <4>1. u < found
        BY <1>8, <2>3, <2>5, <3>1, <3>4
      <4> QED BY <2>5, <4>1
    <3> QED BY <2>3, <3>1, <3>2, <3>3, <3>4
  <2> QED BY <2>5, <2>6 DEF found
<1>12. CASE earlier = {} /\ hits = {}
  <2>1. found = None
    BY <1>1, <1>12
  <2>2. \A u \in Int : Occurs(r, u) /\ u < prev => u <= found
    BY <1>9, <1>12
  <2> QED BY <1>2, <2>1, <2>2 DEF None
<1> HIDE DEF found, earlier, hits
<1> QED BY <1>10, <1>11, <1>12 DEF found

-----------------------------------------------------------------------------
(* The end of a rule, and recursAt() of a rule. *)

\* A rule with what a query finds in its cache.
Cached(r, c) == RuleOK(r) /\ (r.duration > 0 => c = BuildCache(r))

\* endDt() is that of the rule, whichever way it ends.
LEMMA EndIs ==
  ASSUME NEW r, NEW c, Cached(r, c)
  PROVE  /\ EndDt(r, c) \in Int /\ EndDt(r, c) >= None
         /\ r.duration < 0 => EndDt(r, c) = None
         /\ r.duration = 0 => EndDt(r, c) = r.end /\ EndDt(r, c) # None
         /\ r.duration > 0 => EndDt(r, c) = c.end /\ CacheHolds(r, c)
<1>1. RuleOK(r) /\ r.duration \in Int
  BY RuleIsTimely DEF Cached
<1>2. CASE r.duration < 0
  BY <1>1, <1>2 DEF EndDt, None
<1>3. CASE r.duration = 0
  BY <1>1, <1>3 DEF EndDt, None, RuleOK
<1>4. CASE r.duration > 0
  <2>1. CacheHolds(r, c)
    BY <1>1, <1>4, CacheFacts DEF Cached
  <2>2. EndDt(r, c) = c.end
    BY <1>1, <1>4 DEF EndDt
  <2>3. c.end = None \/ c.end \in Nat
    BY <2>1 DEF CacheHolds
  <2> QED BY <1>1, <1>4, <2>1, <2>2, <2>3 DEF None
<1> QED BY <1>1, <1>2, <1>3, <1>4

\* The occurrences of a rule up to its end, as far as that is known.
Recurs(r, c, t) == Occurs(r, t) /\ (EndDt(r, c) # None => t <= EndDt(r, c))

\* What the rule recurs at by its cached end is what the properties speak of.
LEMMA RecursUpToHorizon ==
  ASSUME NEW r, NEW c, Cached(r, c)
  PROVE  /\ RuleOccurrences(r) = {t \in Until(r, Horizon + 1) :
                                     EndDt(r, c) # None => t <= EndDt(r, c)}
         /\ \A t : t \in RuleOccurrences(r) <=> Recurs(r, c, t) /\ t <= Horizon
<1>1. RuleOK(r) /\ r.duration \in Int /\ Horizon \in Int
  BY RuleIsTimely, InputAssumption DEF Cached
<1>2. RuleOccurrences(r) = {t \in Until(r, Horizon + 1) :
                                EndDt(r, c) # None => t <= EndDt(r, c)}
  <2>1. CASE r.duration > 0
    BY <2>1, EndIs DEF CacheHolds
  <2>2. CASE r.duration = 0
    <3>1. EndDt(r, c) = r.end /\ EndDt(r, c) # None
      BY <2>2, EndIs
    <3>2. RuleOccurrences(r) = {t \in Until(r, Horizon + 1) : t <= r.end}
      BY <1>1, <2>2, RuleOccurrencesAre
    <3> QED BY <3>1, <3>2
  <2>3. CASE r.duration < 0
    <3>1. EndDt(r, c) = None
      BY <2>3, EndIs
    <3>2. RuleOccurrences(r) = Until(r, Horizon + 1)
      BY <1>1, <2>3, RuleOccurrencesAre
    <3>3. Until(r, Horizon + 1) = {t \in Until(r, Horizon + 1) : EndDt(r, c) # None => t <= EndDt(r, c)}
      BY <3>1
    <3> QED BY <3>2, <3>3
  <2> QED BY <1>1, <2>1, <2>2, <2>3
<1>3. \A t : t \in Until(r, Horizon + 1) <=> Occurs(r, t) /\ t <= Horizon
  <2>1. \A t : t \in Until(r, Horizon + 1) <=> t \in Int /\ Occurs(r, t) /\ t < Horizon + 1
    BY DEF Until
  <2>2. \A t : Occurs(r, t) => t \in Int
    BY DEF Occurs
  <2>3. \A t \in Int : t < Horizon + 1 <=> t <= Horizon
    BY <1>1
  <2> QED BY <2>1, <2>2, <2>3
<1> QED BY <1>2, <1>3 DEF Recurs

\* recursAt() of a rule.
LEMMA RecursAtRule ==
  ASSUME NEW r, Timely(r), NEW c, NEW t \in Int
  PROVE  RuleRecursAt(r, c, t) <=> Occurs(r, t) /\ (r.duration >= 0 => t <= EndDt(r, c))
<1>1. CASE TimedRepetition(r) # 0
  <2>1. TimedRepetition(r) > 0
    BY <1>1, TimedOccurs
  <2>2. Occurs(r, t) <=> t >= r.start /\ (t - r.start) % TimedRepetition(r) = 0
    BY <1>1, TimedOccurs
  <2> QED BY <2>1, <2>2 DEF RuleRecursAt
<1>2. CASE TimedRepetition(r) = 0
  <2>1. RuleRecursAt(r, c, t) <=> /\ t >= r.start
                                  /\ r.duration >= 0 => t <= EndDt(r, c)
                                  /\ Matches(r, t) /\ IntervalOf(r, t) = NextValidInterval(r, t)
    BY <1>2 DEF RuleRecursAt
  <2>2. ASSUME t >= r.start, Matches(r, t)
        PROVE  IntervalOf(r, t) = NextValidInterval(r, t)
                 <=> (IntervalOf(r, t) - IntervalOf(r, r.start)) % r.freq = 0
    <3> DEFINE a == IntervalOf(r, t)
               s == IntervalOf(r, r.start)
               f == r.freq
    <3>1. f \in Int /\ f > 0 /\ r.start \in Int
      BY DEF Timely
    <3>2. a \in Int /\ s \in Int
      BY <3>1, InInterval
    <3>3. Periods(r, t) = a - s
      BY <2>2, PeriodsOfMatch
    <3>4. PICK m \in Nat : /\ NextValidInterval(r, t) = s + m * f
                           /\ Periods(r, t) <= m * f
                           /\ m = 0 \/ m * f < Periods(r, t) + f
      BY NextValid
    <3>5. s <= a
      BY <2>2, <3>1, IntervalMono
    <3> HIDE DEF a, s, f
    <3>6. ASSUME a = NextValidInterval(r, t)
          PROVE  (a - s) % f = 0
      <4>1. m * f \in Int
        BY <3>1
      <4>2. a - s = m * f
        BY <3>2, <3>4, <3>6, <4>1
      <4> QED BY <3>1, <4>2, Multiple
    <3>7. ASSUME (a - s) % f = 0
          PROVE  a = NextValidInterval(r, t)
      <4> DEFINE d == (a - s) \div f
      <4>1. d \in Int /\ a - s = d * f
        <5>1. a - s \in Int
          BY <3>2
        <5> HIDE DEF d
        <5> QED BY <3>1, <3>7, <5>1, NoRemainder DEF d
      <4> HIDE DEF d
      <4>2. d * f \in Int /\ m * f \in Int /\ d * f <= m * f /\ (m = 0 \/ m * f < d * f + f)
        BY <3>1, <3>3, <3>4, <4>1
      <4>3. m < d => m * f + f <= d * f
        BY <3>1, <4>1, Apart
      <4>4. d < m => d * f + f <= m * f
        BY <3>1, <4>1, Apart
      <4>5. 0 <= d * f
        BY <3>2, <3>5, <4>1
      <4>6. d * f = m * f
        <5>1. CASE m = 0
          <6>1. m * f = 0
            BY <3>1, <5>1
          <6> QED BY <4>2, <4>5, <6>1
        <5>2. CASE m # 0
          <6>1. ~ (m < d) /\ ~ (d < m)
            BY <3>1, <4>2, <4>3, <4>4, <5>2
          <6>2. m = d
            BY <4>1, <6>1
          <6> QED BY <6>2
        <5> QED BY <5>1, <5>2
      <4> QED BY <3>2, <3>4, <4>1, <4>2, <4>6
    <3> QED BY <3>6, <3>7 DEF a, s, f
  <2> QED BY <2>1, <2>2 DEF Occurs
<1> QED BY <1>1, <1>2

-----------------------------------------------------------------------------
(* getNextDate() and getPreviousDate() of a rule. *)

\* The multiple of rep from start that the search for the next occurrence of a
\* simple sub-daily rule answers with.
LEMMA TimedNext ==
  ASSUME NEW start \in Int, NEW from \in Int, from >= start - 1, NEW rep \in Int, rep > 1
  PROVE  LET timed == from + rep - ((from - start + 1) % rep) + 1
         IN  /\ timed \in Int /\ timed > start /\ timed > from
             /\ (timed - start) % rep = 0
             /\ \A u \in Int : u > from + 1 /\ (u - start) % rep = 0 => timed <= u
<1> DEFINE y == from - start + 1
           q == y \div rep
           x == y % rep
           timed == from + rep - x + 1
<1>1. y \in Int /\ 0 <= y
  OBVIOUS
<1>2. q \in Int /\ x \in Int /\ y = q * rep + x /\ 0 <= x /\ x < rep
  <2> HIDE DEF y
  <2> QED BY <1>1, DivMod
<1>3. from = start + y - 1
  OBVIOUS
<1> HIDE DEF y
<1> DEFINE qr == q * rep
<1>4. qr \in Int /\ (q + 1) * rep = qr + rep /\ (q + 1) * rep \in Int /\ q + 1 \in Int
  <2> HIDE DEF q
  <2> QED BY <1>2
<1>5. y = qr + x
  BY <1>2
<1> HIDE DEF q, x, qr
<1>6. timed \in Int /\ timed - start = qr + rep /\ timed > from
  BY <1>2, <1>3, <1>4, <1>5
<1>7. timed > start
  BY <1>1, <1>2, <1>3, <1>5, <1>6
<1>8. (timed - start) % rep = 0
  BY <1>4, <1>6, Multiple
<1>9. ASSUME NEW u \in Int, u > from + 1, (u - start) % rep = 0
      PROVE  timed <= u
  <2> DEFINE k == (u - start) \div rep
  <2>1. k \in Int /\ u - start = k * rep
    <3>1. u - start \in Int
      OBVIOUS
    <3> HIDE DEF k
    <3> QED BY <1>9, <3>1, NoRemainder DEF k
  <2> HIDE DEF k
  <2>2. k * rep \in Int /\ k * rep > y
    BY <1>1, <1>3, <1>9, <2>1
  <2>3. k < q \/ k = q \/ q + 1 = k \/ q + 1 < k
    BY <1>2, <2>1
  <2>4. k < q => k * rep + rep <= qr
    BY <1>2, <2>1, Apart DEF qr
  <2>5. k = q => k * rep = qr
    BY DEF qr
  <2>6. q + 1 = k => k * rep = qr + rep
    BY <1>4
  <2>7. q + 1 < k => qr + rep + rep <= k * rep
    BY <1>4, <2>1, Apart
  <2>8. k * rep >= qr + rep
    BY <1>1, <1>2, <1>4, <1>5, <2>2, <2>3, <2>4, <2>5, <2>6, <2>7
  <2> HIDE DEF timed
  <2> QED BY <1>4, <1>6, <2>1, <2>2, <2>8
<1> HIDE DEF timed
<1> QED BY <1>6, <1>7, <1>8, <1>9 DEF timed, x, y

\* The search for the previous occurrence of a simple sub-daily rule.
LEMMA TimedPrevious ==
  ASSUME NEW start \in Int, NEW prev \in Int, prev > start, NEW rep \in Int, rep > 1
  PROVE  LET timed == prev - ((prev - start - 1) % rep) - 1
         IN  /\ timed \in Int /\ timed >= start /\ timed < prev
             /\ (timed - start) % rep = 0
             /\ \A u \in Int : u < prev /\ (u - start) % rep = 0 => u <= timed
<1> DEFINE y == prev - start - 1
           q == y \div rep
           x == y % rep
           timed == prev - x - 1
<1>1. y \in Int /\ 0 <= y
  OBVIOUS
<1>2. q \in Int /\ x \in Int /\ y = q * rep + x /\ 0 <= x /\ x < rep
  <2> HIDE DEF y
  <2> QED BY <1>1, DivMod
<1>3. prev = start + y + 1
  OBVIOUS
<1> HIDE DEF y
<1> DEFINE qr == q * rep
<1>4. qr \in Int /\ (q + 1) * rep = qr + rep /\ q + 1 \in Int
  <2> HIDE DEF q
  <2> QED BY <1>2
<1>5. y = qr + x
  BY <1>2
<1>6. qr >= 0
  <2>1. q < 0 => q * rep + rep <= 0 * rep /\ q * rep \in Int
    <3> HIDE DEF q
    <3> QED BY <1>2, Apart, 0 \in Int
  <2>2. 0 * rep = 0
    OBVIOUS
  <2>3. q >= 0 => qr >= 0
    <3> HIDE DEF q
    <3> QED BY <1>2
  <2> HIDE DEF q, x
  <2> QED BY <1>1, <1>2, <1>4, <1>5, <2>1, <2>2, <2>3 DEF qr
<1>7. qr % rep = 0
  <2> HIDE DEF q
  <2> QED BY <1>2, Multiple
<1> HIDE DEF q, x, qr
<1>8. timed \in Int /\ timed - start = qr /\ timed < prev /\ timed >= start
  BY <1>2, <1>3, <1>4, <1>5, <1>6
<1>9. ASSUME NEW u \in Int, u < prev, (u - start) % rep = 0
      PROVE  u <= timed
  <2> DEFINE k == (u - start) \div rep
  <2>1. k \in Int /\ u - start = k * rep
    <3>1. u - start \in Int
      OBVIOUS
    <3> HIDE DEF k
    <3> QED BY <1>9, <3>1, NoRemainder DEF k
  <2> HIDE DEF k
  <2>2. k * rep \in Int /\ k * rep <= y
    BY <1>1, <1>3, <1>9, <2>1
  <2>3. q < k => qr + rep <= k * rep
    BY <1>2, <2>1, Apart DEF qr
  <2>4. k = q => k * rep = qr
    BY DEF qr
  <2>5. k < q => k * rep + rep <= qr
    BY <1>2, <2>1, Apart DEF qr
  <2>6. k * rep <= qr
    BY <1>2, <1>4, <1>5, <2>1, <2>2, <2>3, <2>4, <2>5
  <2> HIDE DEF timed
  <2> QED BY <1>4, <1>8, <2>1, <2>2, <2>6
<1> HIDE DEF timed
<1> QED BY <1>7, <1>8, <1>9 DEF timed, x, y

\* What the search for the next occurrence of a rule misses: of a simple
\* sub-daily rule the start and what is one second later than asked; of another
\* an end that is the first instant of an interval.
NextMissed(r, p, u) ==
    IF TimedRepetition(r) = 0
    THEN r.duration = 0 /\ u = r.end /\ u = IntervalDateTime(r, IntervalOf(r, u))
    ELSE u = r.start \/ u = p + 1

\* getNextDate() answers with the first occurrence after p, unless it misses one.
LEMMA NextDate ==
  ASSUME NEW r, NEW c, Cached(r, c), NEW p \in Int
  PROVE  LET next == GetNextDate(r, c, p)
         IN  /\ next = None \/ (next # None /\ next > p /\ Recurs(r, c, next))
             /\ next \in Int
             /\ \A u \in Int : Recurs(r, c, u) /\ u <= Horizon /\ u > p /\ ~NextMissed(r, p, u)
                    => next # None /\ next <= u
<1> DEFINE end    == EndDt(r, c)
           from   == Max({p, r.start - 1})
           rep    == TimedRepetition(r)
           timed  == from + rep - ((from - r.start + 1) % rep) + 1
           later  == {t \in c.dates : t > from}
           found  == SearchForward(r, end, from)
           next   == GetNextDate(r, c, p)
<1>1. next = IF r.duration >= 0 /\ end # None /\ p >= end THEN None
             ELSE IF rep > 0 THEN IF end # None /\ timed > end THEN None ELSE timed
             ELSE IF r.duration > 0 /\ later # {} THEN FirstOf[later]
             ELSE IF r.duration >= 0 /\ found > end THEN None
             ELSE found
  BY DEF GetNextDate
<1>2. /\ RuleOK(r) /\ Timely(r) /\ r.duration \in Int /\ r.start \in Nat /\ Reaches(r)
      /\ Horizon \in Int
  BY RuleIsTimely, InputAssumption DEF Cached, RuleOK, Timely
<1>3. /\ end \in Int /\ end >= None
      /\ r.duration < 0 => end = None
      /\ r.duration = 0 => end = r.end /\ end # None
      /\ r.duration > 0 => end = c.end /\ CacheHolds(r, c)
  BY EndIs
<1>4. /\ from \in Int /\ from >= p /\ from >= r.start - 1
      /\ from = p \/ from = r.start - 1
  <2>1. r.start - 1 \in Int
    BY <1>2
  <2>2. from = IF p < r.start - 1 THEN r.start - 1 ELSE p
    BY <2>1, MaxOfTwo
  <2> QED BY <1>2, <2>2
<1>5. \A u : Recurs(r, c, u) <=> Occurs(r, u) /\ (end # None => u <= end)
  BY DEF Recurs
<1>6. \A u : Occurs(r, u) => u \in Int /\ u >= r.start /\ u # None /\ u >= 0
  BY <1>2 DEF Occurs, None
<1>7. rep = 0 \/ (rep \in Int /\ rep > 1 /\ rep > 0)
  BY <1>2, TimedOccurs
<1> HIDE DEF end, from
<1>8. CASE r.duration >= 0 /\ end # None /\ p >= end
  <2>1. next = None
    BY <1>1, <1>8
  <2>2. \A u \in Int : ~ (Recurs(r, c, u) /\ u > p)
    BY <1>3, <1>5, <1>8
  <2> QED BY <2>1, <2>2 DEF None
<1>9. CASE rep > 0 /\ ~ (r.duration >= 0 /\ end # None /\ p >= end)
  <2>1. rep # 0 /\ rep \in Int /\ rep > 1
    BY <1>7, <1>9
  <2>2. \A t \in Int : Occurs(r, t) <=> t >= r.start /\ (t - r.start) % rep = 0
    BY <1>2, <2>1, TimedOccurs
  <2>3. r.start \in Int
    BY <1>2
  <2> HIDE DEF rep
  <2>4. /\ timed \in Int /\ timed > r.start /\ timed > from
        /\ (timed - r.start) % rep = 0
        /\ \A u \in Int : u > from + 1 /\ (u - r.start) % rep = 0 => timed <= u
    BY <1>4, <2>1, <2>3, TimedNext
  <2>5. next = IF end # None /\ timed > end THEN None ELSE timed
    BY <1>1, <1>9 DEF rep
  <2> HIDE DEF timed, next
  <2>6. Occurs(r, timed) /\ timed > p /\ timed # None
    BY <1>4, <1>6, <2>2, <2>3, <2>4
  <2>7. next = None \/ (next # None /\ next > p /\ Recurs(r, c, next))
    BY <1>3, <1>5, <2>4, <2>5, <2>6
  <2>8. ASSUME NEW u \in Int, Recurs(r, c, u), u <= Horizon, u > p, ~NextMissed(r, p, u)
        PROVE  next # None /\ next <= u
    <3>1. u # r.start /\ u # p + 1 /\ Occurs(r, u) /\ (end # None => u <= end)
      BY <1>5, <2>1, <2>8 DEF NextMissed, rep
    <3>2. u >= r.start /\ (u - r.start) % rep = 0
      BY <2>2, <3>1
    <3>3. u > from + 1
      BY <1>4, <2>3, <2>8, <3>1, <3>2
    <3>4. timed <= u
      BY <2>4, <3>2, <3>3
    <3>5. next = timed
      BY <1>3, <2>4, <2>5, <3>1, <3>4
    <3> QED BY <2>6, <3>4, <3>5
  <2>9. next \in Int
    BY <2>4, <2>5 DEF None
  <2> QED BY <2>7, <2>8, <2>9 DEF next
<1>10. CASE rep = 0 /\ ~ (r.duration >= 0 /\ end # None /\ p >= end) /\ r.duration > 0 /\ later # {}
  <2>1. next = FirstOf[later]
    BY <1>1, <1>10
  <2>2. CacheHolds(r, c)
    BY <1>3, <1>10
  <2>3. later \in SUBSET Int /\ \A t \in later : from <= t
    <3>1. \A t \in c.dates : t \in Int
      BY <1>6, <2>2 DEF CacheHolds
    <3> QED BY <1>4, <3>1
  <2> HIDE DEF later, next
  <2>4. next \in later /\ \A t \in later : next <= t
    BY <1>4, <1>10, <2>1, <2>3, LeastFirst
  <2>5. next \in c.dates /\ next > from /\ next \in Int
    BY <2>3, <2>4 DEF later
  <2>6. Recurs(r, c, next)
    <3>1. Occurs(r, next) /\ (c.end = None \/ next <= c.end)
      BY <2>2, <2>5 DEF CacheHolds
    <3>2. end = c.end
      BY <1>3, <1>10
    <3> QED BY <1>5, <3>1, <3>2
  <2>7. next > p /\ next # None
    BY <1>4, <1>5, <1>6, <2>5, <2>6
  <2>8. ASSUME NEW u \in Int, Recurs(r, c, u), u <= Horizon, u > p
        PROVE  next <= u
    <3>1. u \in RuleOccurrences(r) /\ Occurs(r, u)
      BY <1>5, <2>8, RecursUpToHorizon
    <3>2. u \in c.dates
      BY <2>2, <2>8, <3>1 DEF CacheHolds
    <3>3. u > from
      BY <1>2, <1>4, <1>6, <2>8, <3>1
    <3>4. u \in later
      BY <3>2, <3>3 DEF later
    <3> QED BY <2>4, <3>4
  <2> QED BY <2>5, <2>6, <2>7, <2>8 DEF next
<1>11. CASE rep = 0 /\ ~ (r.duration >= 0 /\ end # None /\ p >= end) /\ ~ (r.duration > 0 /\ later # {})
  <2>1. next = IF r.duration >= 0 /\ found > end THEN None ELSE found
    BY <1>1, <1>11
  <2>2. /\ \/ found = None
           \/ /\ Occurs(r, found) /\ found > from
              /\ \A u \in Int : Occurs(r, u) /\ u > from => found <= u
        /\ found = None => \A u \in Int :
               Occurs(r, u) /\ u > from /\ u <= Horizon =>
                  \/ r.duration >= 0 /\ u > end
                  \/ r.duration >= 0 /\ u = IntervalDateTime(r, IntervalOf(r, u)) /\ u = end
    BY <1>2, <1>3, <1>4, ForwardFinds
  <2> HIDE DEF found, next, later
  <2>3. found \in Int /\ (found # None => found >= 0 /\ found > p)
    BY <1>2, <1>4, <1>6, <2>2 DEF None
  <2>4. next = None \/ (next # None /\ next > p /\ Recurs(r, c, next))
    <3>1. CASE next # None
      <4>1. next = found /\ ~ (r.duration >= 0 /\ found > end)
        BY <2>1, <3>1
      <4>2. Occurs(r, next)
        BY <2>2, <3>1, <4>1
      <4>3. end # None => next <= end
        BY <1>2, <1>3, <2>3, <4>1
      <4> QED BY <1>5, <2>3, <3>1, <4>1, <4>2, <4>3
    <3> QED BY <3>1
  <2>5. ASSUME NEW u \in Int, Recurs(r, c, u), u <= Horizon, u > p, ~NextMissed(r, p, u)
        PROVE  next # None /\ next <= u
    <3>1. Occurs(r, u) /\ (end # None => u <= end) /\ u > from
      BY <1>2, <1>4, <1>5, <1>6, <2>5
    <3>2. ~ (r.duration = 0 /\ u = r.end /\ u = IntervalDateTime(r, IntervalOf(r, u)))
      BY <1>11, <2>5 DEF NextMissed
    <3>3. CASE r.duration > 0
      <4>1. u \in RuleOccurrences(r) /\ CacheHolds(r, c)
        BY <1>3, <2>5, <3>3, RecursUpToHorizon
      <4>2. u \in c.dates
        BY <2>5, <3>1, <4>1 DEF CacheHolds
      <4>3. u \in later
        BY <3>1, <4>2 DEF later
      <4> QED BY <1>11, <3>3, <4>3
    <3>4. CASE r.duration <= 0
      <4>1. r.duration >= 0 => r.duration = 0 /\ end = r.end /\ end # None
        BY <1>2, <1>3, <3>4
      <4>2. found # None
        BY <1>3, <2>2, <2>5, <3>1, <3>2, <4>1
      <4>3. found <= u
        BY <2>2, <3>1, <4>2
      <4>4. r.duration >= 0 => found <= end
        BY <1>3, <2>3, <3>1, <4>1, <4>3
      <4>5. ~ (r.duration >= 0 /\ found > end)
        BY <1>3, <2>3, <4>4
      <4> QED BY <2>1, <4>2, <4>3, <4>5
    <3> QED BY <1>2, <3>3, <3>4
  <2>6. next \in Int
    BY <2>1, <2>3 DEF None
  <2> QED BY <2>4, <2>5, <2>6 DEF next
<1> HIDE DEF next, later, rep
<1> QED BY <1>7, <1>8, <1>9, <1>10, <1>11 DEF next

\* getPreviousDate() answers with the last occurrence before a.
LEMMA PreviousDate ==
  ASSUME NEW r, NEW c, Cached(r, c), NEW a \in Int
  PROVE  LET prev == GetPreviousDate(r, c, a)
         IN  /\ prev = None \/ (prev # None /\ prev < a /\ Recurs(r, c, prev))
             /\ prev \in Int
             /\ \A u \in Int : Recurs(r, c, u) /\ u <= Horizon /\ u < a => u <= prev
<1> DEFINE end   == EndDt(r, c)
           prev  == IF end # None /\ a > end THEN end + 1 ELSE a
           rep   == TimedRepetition(r)
           timed == prev - ((prev - r.start - 1) % rep) - 1
           earlier == {t \in c.dates : t < a}
           found == SearchBackward(r, prev)
           got   == GetPreviousDate(r, c, a)
<1>1. got = IF a < r.start THEN None
            ELSE IF rep > 0 THEN IF prev <= r.start THEN None ELSE timed
            ELSE IF r.duration > 0 THEN LastOf[earlier]
            ELSE IF found < r.start THEN None
            ELSE found
  BY DEF GetPreviousDate
<1>2. /\ RuleOK(r) /\ Timely(r) /\ r.duration \in Int /\ r.start \in Int /\ r.start >= 0
      /\ Horizon \in Int
  BY RuleIsTimely, InputAssumption DEF Cached, RuleOK, Timely
<1>3. /\ end \in Int /\ end >= None
      /\ r.duration > 0 => end = c.end /\ CacheHolds(r, c)
  BY EndIs
<1>4. \A u : Recurs(r, c, u) <=> Occurs(r, u) /\ (end # None => u <= end)
  BY DEF Recurs
<1>5. \A u : Occurs(r, u) => u \in Int /\ u >= r.start /\ u # None /\ u >= 0
  BY <1>2 DEF Occurs, None
<1>6. rep = 0 \/ (rep \in Int /\ rep > 1 /\ rep > 0)
  BY <1>2, TimedOccurs
<1>7. prev \in Int /\ prev <= a /\ \A u \in Int : u < prev <=> (u < a /\ (end # None => u <= end))
  BY <1>3
<1> HIDE DEF end, prev
<1>8. CASE a < r.start
  <2>1. got = None
    BY <1>1, <1>8
  <2>2. \A u \in Int : ~ (Recurs(r, c, u) /\ u < a)
    BY <1>2, <1>4, <1>5, <1>8
  <2> QED BY <2>1, <2>2 DEF None
<1>9. CASE rep > 0 /\ ~ (a < r.start)
  <2>1. rep # 0 /\ rep \in Int /\ rep > 1
    BY <1>6, <1>9
  <2>2. \A t \in Int : Occurs(r, t) <=> t >= r.start /\ (t - r.start) % rep = 0
    BY <1>2, <2>1, TimedOccurs
  <2>3. got = IF prev <= r.start THEN None ELSE timed
    BY <1>1, <1>9
  <2> HIDE DEF rep
  <2>4. CASE prev <= r.start
    <3>1. got = None
      BY <2>3, <2>4
    <3>2. \A u \in Int : ~ (Recurs(r, c, u) /\ u < a)
      BY <1>2, <1>4, <1>5, <1>7, <2>4
    <3> QED BY <3>1, <3>2 DEF None
  <2>5. CASE ~ (prev <= r.start)
    <3>0. prev > r.start
      BY <1>2, <1>7, <2>5
    <3>1. /\ timed \in Int /\ timed >= r.start /\ timed < prev
          /\ (timed - r.start) % rep = 0
          /\ \A u \in Int : u < prev /\ (u - r.start) % rep = 0 => u <= timed
      BY <1>2, <1>7, <2>1, <3>0, TimedPrevious
    <3>2. got = timed
      BY <2>3, <2>5
    <3> HIDE DEF timed, got
    <3>3. Recurs(r, c, got) /\ got < a /\ got # None
      BY <1>4, <1>5, <1>7, <2>2, <3>1, <3>2
    <3>4. \A u \in Int : Recurs(r, c, u) /\ u < a => u <= got
      BY <1>4, <1>7, <2>2, <3>1, <3>2
    <3> QED BY <3>1, <3>2, <3>3, <3>4 DEF got
  <2> QED BY <2>4, <2>5
<1>10. CASE rep = 0 /\ ~ (a < r.start) /\ r.duration > 0
  <2>1. got = LastOf[earlier]
    BY <1>1, <1>10
  <2>2. CacheHolds(r, c) /\ end = c.end
    BY <1>3, <1>10
  <2>3. earlier \in SUBSET Int /\ \A t \in earlier : t <= a
    <3>1. \A t \in c.dates : t \in Int
      BY <1>5, <2>2 DEF CacheHolds
    <3> QED BY <3>1
  <2>4. ASSUME NEW u \in Int, Recurs(r, c, u), u <= Horizon, u < a
        PROVE  u \in earlier
    <3>1. u \in RuleOccurrences(r) /\ Occurs(r, u)
      BY <1>4, <2>4, RecursUpToHorizon
    <3>2. u \in c.dates
      BY <2>2, <2>4, <3>1 DEF CacheHolds
    <3> QED BY <2>4, <3>2
  <2>5. ASSUME NEW t \in earlier
        PROVE  Recurs(r, c, t) /\ t < a /\ t # None
    <3>1. Occurs(r, t) /\ (c.end = None \/ t <= c.end)
      BY <2>2 DEF CacheHolds
    <3> QED BY <1>4, <1>5, <2>2, <3>1
  <2> HIDE DEF earlier, got
  <2>6. CASE earlier = {}
    <3>1. got = None
      BY <2>1, <2>6, {} \in SUBSET Int DEF LastOf
    <3> QED BY <2>4, <2>6, <3>1 DEF got, None
  <2>7. CASE earlier # {}
    <3>1. got \in earlier /\ \A t \in earlier : t <= got
      BY <2>1, <2>3, <2>7, GreatestLast
    <3> QED BY <2>3, <2>4, <2>5, <3>1 DEF got
  <2> QED BY <2>6, <2>7
<1>11. CASE rep = 0 /\ ~ (a < r.start) /\ ~ (r.duration > 0)
  <2>1. got = IF found < r.start THEN None ELSE found
    BY <1>1, <1>11
  <2>2. /\ found \in Int
        /\ found >= r.start => Occurs(r, found) /\ found < prev
        /\ \A u \in Int : Occurs(r, u) /\ u < prev => u <= found
    BY <1>2, <1>7, BackwardFinds
  <2> HIDE DEF found, got
  <2>3. CASE found < r.start
    <3>1. got = None
      BY <2>1, <2>3
    <3>2. \A u \in Int : ~ (Recurs(r, c, u) /\ u < a)
      BY <1>2, <1>4, <1>5, <1>7, <2>2, <2>3
    <3> QED BY <3>1, <3>2 DEF None, got
  <2>4. CASE found >= r.start
    <3>1. got = found
      BY <1>2, <2>1, <2>2, <2>4
    <3>2. Recurs(r, c, got) /\ got < a /\ got # None
      BY <1>4, <1>5, <1>7, <2>2, <2>4, <3>1
    <3>3. \A u \in Int : Recurs(r, c, u) /\ u < a => u <= got
      BY <1>4, <1>7, <2>2, <3>1
    <3> QED BY <2>2, <3>1, <3>2, <3>3 DEF got
  <2> QED BY <1>2, <2>2, <2>3, <2>4
<1> HIDE DEF got, earlier, rep
<1> QED BY <1>6, <1>8, <1>9, <1>10, <1>11 DEF got

-----------------------------------------------------------------------------
(* The loop of getNextDateTime() and getPreviousDateTime(). *)

\* The loop of getNextDateTime() and getPreviousDateTime(): at most n times from
\* a date to the one that cand gives, until one is not in X.
Rounds(f, X, cand, n) ==
    [l \in 0 .. n |-> [x \in Int |-> IF l = n \/ x = None THEN None
                                   ELSE IF x \in X THEN f[l + 1][cand[x]]
                                   ELSE x]]

\* There is a function that satisfies the equation of the loop: it is built from
\* the last round to the first.
LEMMA LoopIs ==
  ASSUME NEW X, NEW cand \in [Int -> Int], NEW n \in Nat
  PROVE  \E f : f = Rounds(f, X, cand, n)
<1> DEFINE Step(f, l) == [x \in Int |-> IF l = n \/ x = None THEN None
                                        ELSE IF x \in X THEN f[l + 1][cand[x]]
                                        ELSE x]
           Is(f, k) == \A l \in k .. n : f[l] = Step(f, l)
           Done(d)  == \E f : f = [l \in 0 .. n |-> f[l]] /\ Is(f, n - d)
           Bad      == {d \in 0 .. n : ~Done(d)}
<1>0. ASSUME NEW f, NEW g, NEW l \in Int, l = n \/ f[l + 1] = g[l + 1]
      PROVE  Step(f, l) = Step(g, l)
  BY <1>0
<1>1. Bad = {}
  <2> HIDE DEF Done
  <2> SUFFICES ASSUME Bad # {} PROVE FALSE
    OBVIOUS
  <2>1. PICK m \in Bad : \A d \in Bad : m <= d
    <3>1. Bad \in SUBSET Nat
      OBVIOUS
    <3> HIDE DEF Bad
    <3> QED BY <3>1, Least
  <2>2. m \in 0 .. n /\ m \in Nat /\ m <= n /\ ~Done(m)
    OBVIOUS
  <2>3. CASE m = 0
    <3> DEFINE g == [l \in 0 .. n |-> Step(<<>>, l)]
    <3>1. g = [l \in 0 .. n |-> g[l]]
      <4> HIDE DEF Step
      <4> QED OBVIOUS
    <3>2. ASSUME NEW l \in n - m .. n
          PROVE  g[l] = Step(g, l)
      <4>1. l = n /\ l \in 0 .. n
        BY <2>2, <2>3
      <4>2. g[l] = Step(<<>>, l)
        <5> HIDE DEF Step
        <5> QED BY <4>1
      <4>3. Step(<<>>, l) = Step(g, l)
        <5> HIDE DEF g, Step
        <5> QED BY <1>0, <4>1
      <4> QED BY <4>2, <4>3
    <3>3. Done(m)
      <4> HIDE DEF g, Step
      <4> QED BY <3>1, <3>2 DEF Done
    <3> QED BY <2>2, <3>3
  <2>4. CASE m # 0
    <3>1. m - 1 \in 0 .. n /\ m - 1 \notin Bad
      <4>1. m - 1 \in Nat /\ m - 1 <= n /\ ~ (m <= m - 1)
        BY <2>2, <2>4
      <4> HIDE DEF Bad
      <4> QED BY <2>1, <4>1
    <3>2. Done(m - 1)
      BY <3>1
    <3>3. PICK f : f = [l \in 0 .. n |-> f[l]] /\ Is(f, n - (m - 1))
      <4> HIDE DEF Is, Bad
      <4> QED BY <3>2 DEF Done
    <3> DEFINE k == n - m
               g == [l \in 0 .. n |-> IF l = k THEN Step(f, k) ELSE f[l]]
    <3>4. k \in Nat /\ k < n /\ k + 1 = n - (m - 1)
      BY <2>2, <2>4
    <3>5. g = [l \in 0 .. n |-> g[l]]
      <4> HIDE DEF Step, k
      <4> QED OBVIOUS
    <3>6. ASSUME NEW l \in k .. n
          PROVE  g[l] = Step(g, l)
      <4>1. l \in 0 .. n /\ l \in Int /\ k <= l /\ l <= n
        BY <3>4
      <4>2. g[l] = Step(f, l)
        <5>1. g[l] = IF l = k THEN Step(f, k) ELSE f[l]
          <6> HIDE DEF Step, k
          <6> QED BY <4>1
        <5>2. l # k => l \in n - (m - 1) .. n
          BY <3>4, <4>1
        <5>3. l # k => f[l] = Step(f, l)
          <6> HIDE DEF Step, k
          <6> QED BY <3>3, <5>2
        <5> HIDE DEF Step, k, g
        <5> QED BY <5>1, <5>3
      <4>3. l = n \/ f[l + 1] = g[l + 1]
        <5>1. l # n => l + 1 \in 0 .. n /\ l + 1 # k
          BY <3>4, <4>1
        <5> HIDE DEF Step, k
        <5> QED BY <5>1
      <4>4. Step(f, l) = Step(g, l)
        <5> HIDE DEF Step, k, g
        <5> QED BY <1>0, <4>1, <4>3
      <4> QED BY <4>2, <4>4
    <3>7. Is(g, n - m)
      <4> HIDE DEF g, Step
      <4> QED BY <3>6
    <3>8. Done(m)
      <4> HIDE DEF g, Is
      <4> QED BY <3>5, <3>7 DEF Done
    <3> QED BY <2>2, <3>8
  <2> QED BY <2>3, <2>4
<1> HIDE DEF Done
<1>2. n \in 0 .. n /\ n - n = 0
  OBVIOUS
<1>3. Done(n)
  BY <1>1, <1>2
<1>4. PICK f : f = [l \in 0 .. n |-> f[l]] /\ Is(f, n - n)
  <2> HIDE DEF Is
  <2> QED BY <1>3 DEF Done
<1>5. \A l \in 0 .. n : f[l] = Step(f, l)
  <2> HIDE DEF Step
  <2> QED BY <1>2, <1>4
<1>6. f = [l \in 0 .. n |-> Step(f, l)]
  <2> HIDE DEF Step
  <2> QED BY <1>4, <1>5
<1> QED BY <1>6 DEF Rounds

\* In the order ord, a is the first of S after x, or at least not after any of G.
Follows(a, x, ord, S, G) ==
    /\ a = None \/ (a \in S /\ ord[x] < ord[a])
    /\ \A u \in G : ord[x] < ord[u] => a # None /\ ord[a] <= ord[u]

\* Date/times are ordered, for the provers that know no arithmetic.
LEMMA InOrder ==
  /\ \A x, y \in Int : x <= y /\ x # y => x < y
  /\ \A x, y, z \in Int : x < y /\ y < z => x < z
OBVIOUS

\* If cand gives what follows, the loop gives what follows of those not in X,
\* unless there are n of G in X.
LEMMA LoopFinds ==
  ASSUME NEW X, NEW cand \in [Int -> Int], NEW n \in Nat, NEW f,
         f = Rounds(f, X, cand, n),
         NEW ord \in [Int -> Int], \A x, y \in Int : ord[x] = ord[y] => x = y,
         NEW C \in SUBSET Nat, NEW G \in SUBSET C,
         IsFiniteSet(G), Cardinality(G \cap X) < n, NEW t \in Int,
         \A x \in C, y \in G : ord[t] < ord[x] /\ ord[x] < ord[y] => x \in G,
         Follows(cand[t], t, ord, C, G),
         \A x \in C \cap X : ord[t] < ord[x] => Follows(cand[x], x, ord, C, G)
  PROVE  Follows(f[0][cand[t]], t, ord, C \ X, G \ X)
<1> DEFINE Met(x)    == {e \in G \cap X : ord[e] < ord[x]}
           Inv(l, x) == /\ x = None \/ (x \in C /\ ord[t] < ord[x])
                        /\ \A u \in G \ X : ord[t] < ord[u] => x # None /\ ord[x] <= ord[u]
                        /\ x \in G => Cardinality(Met(x)) >= l
           Claim(l)  == \A x \in Int : Inv(l, x) => Follows(f[l][x], t, ord, C \ X, G \ X)
           Bad       == {d \in 0 .. n : ~Claim(n - d)}
<1>1. /\ None \notin C /\ None \in Int /\ ord[t] \in Int
      /\ \A x \in C : x \in Int /\ ord[x] \in Int
  BY DEF None
<1>2. \A l \in 0 .. n, x \in Int : f[l][x] = IF l = n \/ x = None THEN None
                                             ELSE IF x \in X THEN f[l + 1][cand[x]]
                                             ELSE x
  <2> DEFINE Step(l) == [x \in Int |-> IF l = n \/ x = None THEN None
                                      ELSE IF x \in X THEN f[l + 1][cand[x]]
                                      ELSE x]
  <2>1. f = [l \in 0 .. n |-> Step(l)]
    BY DEF Rounds
  <2>2. \A l \in 0 .. n : f[l] = Step(l)
    <3> HIDE DEF Step
    <3> QED BY <2>1
  <2>3. \A l \in 0 .. n, x \in Int : f[l][x] = Step(l)[x]
    <3> HIDE DEF Step
    <3> QED BY <2>2
  <2> QED BY <2>3
<1>3. IsFiniteSet(G \cap X) /\ Cardinality(G \cap X) \in Nat
  BY FS_Subset, FS_CardinalityType
<1>4. ASSUME NEW x
      PROVE  /\ IsFiniteSet(Met(x)) /\ Cardinality(Met(x)) \in Nat
             /\ Cardinality(Met(x)) <= Cardinality(G \cap X)
  <2>1. Met(x) \subseteq G \cap X
    OBVIOUS
  <2> QED BY <1>3, <2>1, FS_Subset, FS_CardinalityType
<1> HIDE DEF Inv
\* No round is left.
<1>5. Claim(n)
  <2>0. \A x \in Int : f[n][x] = None
    <3>1. n \in 0 .. n
      OBVIOUS
    <3> QED BY <1>2, <3>1
  <2> SUFFICES ASSUME NEW x \in Int, Inv(n, x), NEW u \in G \ X, ord[t] < ord[u]
               PROVE  FALSE
    BY <2>0 DEF Follows
  <2>1. x # None /\ ord[x] <= ord[u] /\ x \in C /\ ord[t] < ord[x]
    BY DEF Inv
  <2>2. x \in G
    <3>1. ord[x] < ord[u] \/ x = u
      <4>1. u \in Int /\ ord[u] \in Int /\ ord[x] \in Int
        BY <1>1, <2>1
      <4>2. ord[x] < ord[u] \/ ord[x] = ord[u]
        BY <2>1, <4>1, InOrder, Zenon
      <4> QED BY <4>1, <4>2
    <3> QED BY <2>1, <3>1
  <2>3. Cardinality(Met(x)) >= n
    BY <2>2 DEF Inv
  <2>4. Cardinality(Met(x)) \in Nat /\ Cardinality(Met(x)) <= Cardinality(G \cap X)
    BY <1>4
  <2> HIDE DEF Met
  <2> QED BY <1>3, <2>3, <2>4
\* One round.
<1>6. ASSUME NEW l \in 0 .. n, l # n, Claim(l + 1)
      PROVE  Claim(l)
  <2> SUFFICES ASSUME NEW x \in Int, Inv(l, x)
               PROVE  Follows(f[l][x], t, ord, C \ X, G \ X)
    OBVIOUS
  <2>1. CASE x = None
    <3>1. f[l][x] = None
      BY <1>2, <2>1
    <3> QED BY <2>1, <3>1 DEF Inv, Follows
  <2>2. CASE x # None /\ x \notin X
    <3>1. f[l][x] = x
      BY <1>2, <1>6, <2>2
    <3> QED BY <2>2, <3>1 DEF Inv, Follows
  <2>3. CASE x # None /\ x \in X
    <3> DEFINE y == cand[x]
    <3>1. f[l][x] = f[l + 1][y] /\ y \in Int
      BY <1>2, <1>6, <2>3
    <3>2. x \in C /\ ord[t] < ord[x]
      BY <2>3 DEF Inv
    <3>3. Follows(y, x, ord, C, G)
      BY <2>3, <3>2
    <3> HIDE DEF y
    <3>0. x \in Int /\ ord[x] \in Int
      BY <1>1, <3>2
    <3>4. y = None \/ (y \in C /\ ord[t] < ord[y] /\ ord[x] < ord[y])
      <4>1. y = None \/ (y \in C /\ ord[x] < ord[y])
        BY <3>3 DEF Follows
      <4>2. y \in C => ord[y] \in Int
        BY <1>1
      <4> QED BY <1>1, <3>0, <3>2, <4>1, <4>2, InOrder, Zenon
    <3>5. ASSUME NEW u \in G \ X, ord[t] < ord[u]
          PROVE  y # None /\ ord[y] <= ord[u]
      <4>1. ord[x] <= ord[u] /\ x # u
        BY <2>3, <3>5 DEF Inv
      <4>2. ord[x] < ord[u]
        <5>1. u \in Int /\ ord[u] \in Int
          BY <1>1
        <5>2. ord[x] # ord[u]
          BY <3>0, <4>1, <5>1
        <5> QED BY <3>0, <4>1, <5>1, <5>2, InOrder, Zenon
      <4> QED BY <3>3, <4>2 DEF Follows
    <3>6. ASSUME y \in G
          PROVE  Cardinality(Met(y)) >= l + 1
      <4>1. y # None /\ ord[x] < ord[y]
        BY <1>1, <3>4, <3>6
      <4>2. x \in G
        BY <3>2, <3>6, <4>1
      <4>3. Cardinality(Met(x)) >= l
        BY <4>2 DEF Inv
      <4>4. x \notin Met(x)
        <5>1. ~ (ord[x] < ord[x])
          BY <1>1
        <5> QED BY <5>1
      <4>5. Cardinality(Met(x) \cup {x}) = Cardinality(Met(x)) + 1
        <5> HIDE DEF Met
        <5> QED BY <1>4, <4>4, FS_AddElement
      <4>6. Met(x) \cup {x} \subseteq Met(y)
        <5>1. y \in C /\ ord[y] \in Int
          BY <1>1, <3>6
        <5>2. ASSUME NEW e \in Met(x)
              PROVE  ord[e] < ord[y]
          <6>1. ord[e] \in Int /\ ord[e] < ord[x]
            BY <1>1
          <6> HIDE DEF Met
          <6> QED BY <3>0, <4>1, <5>1, <6>1, InOrder, Zenon
        <5> QED BY <2>3, <4>1, <4>2, <5>2
      <4>7. Cardinality(Met(x) \cup {x}) <= Cardinality(Met(y))
        <5> HIDE DEF Met
        <5> QED BY <1>4, <4>6, FS_Subset
      <4>8. Cardinality(Met(x)) \in Nat /\ Cardinality(Met(y)) \in Nat
        BY <1>4
      <4> HIDE DEF Met
      <4> DEFINE a == Cardinality(Met(x))
                 b == Cardinality(Met(y))
      <4>9. l \in Nat /\ a \in Nat /\ b \in Nat /\ a >= l /\ a + 1 <= b
        BY <4>3, <4>5, <4>7, <4>8
      <4> HIDE DEF a, b
      <4>10. b >= l + 1
        BY <4>9
      <4> QED BY <4>10 DEF b
    <3>7. Inv(l + 1, y)
      BY <3>4, <3>5, <3>6 DEF Inv
    <3> HIDE DEF Met
    <3> QED BY <1>6, <3>1, <3>7
  <2> QED BY <2>1, <2>2, <2>3
<1> HIDE DEF Claim, Met
<1>7. Bad = {}
  <2> SUFFICES ASSUME Bad # {} PROVE FALSE
    OBVIOUS
  <2>1. PICK m \in Bad : \A d \in Bad : m <= d
    <3>1. Bad \in SUBSET Nat
      OBVIOUS
    <3> HIDE DEF Bad
    <3> QED BY <3>1, Least
  <2>2. m \in 0 .. n /\ m \in Nat /\ m <= n /\ ~Claim(n - m)
    OBVIOUS
  <2>3. m # 0
    <3>1. m = 0 => n - m = n
      OBVIOUS
    <3> QED BY <1>5, <2>2, <3>1
  <2>4. m - 1 \in 0 .. n /\ m - 1 \notin Bad
    <3>1. m - 1 \in Nat /\ m - 1 <= n /\ ~ (m <= m - 1)
      BY <2>2, <2>3
    <3> HIDE DEF Bad
    <3> QED BY <2>1, <3>1
  <2>5. Claim(n - (m - 1))
    BY <2>4
  <2>6. n - m \in 0 .. n /\ n - m # n /\ n - (m - 1) = (n - m) + 1
    BY <2>2, <2>3
  <2> QED BY <1>6, <2>2, <2>5, <2>6
<1>8. Claim(0)
  <2>1. n \in 0 .. n /\ n - n = 0
    OBVIOUS
  <2> QED BY <1>7, <2>1
<1>9. Inv(0, cand[t])
  <2>1. Cardinality(Met(cand[t])) >= 0
    BY <1>4
  <2> QED BY <2>1 DEF Inv, Follows
<1> QED BY <1>8, <1>9 DEF Claim

-----------------------------------------------------------------------------
(* The next and the previous occurrence of the recurrence. *)

\* What the recurrence of the to-do is, at all times.
RecurrenceOK(s) ==
    /\ Cached(s.rule, s.cache)
    /\ \A r \in s.exrules : RuleOK(r) /\ r.duration = -1
    /\ \E b \in Nat : SingleDates(s) \in SUBSET (0 .. b)

\* What recurs if nothing is excluded.
Candidates(s) == {u \in Nat : u \in SingleDates(s) \/ Recurs(s.rule, s.cache, u)}

\* What the search for the next candidate misses.
Overlooked(s, t, u) == u \notin SingleDates(s) /\ NextMissed(s.rule, t, u)

\* The next candidate is the first date after t of the rule or of the single dates,
LEMMA NextCandidateIs ==
  ASSUME NEW s, RecurrenceOK(s), NEW t \in Int
  PROVE  LET a == NextCandidate(s, t)
         IN  /\ a = None \/ (a \in Candidates(s) /\ t < a)
             /\ \A u \in Candidates(s) : u <= Horizon /\ t < u /\ ~Overlooked(s, t, u)
                    => a # None /\ a <= u
<1> DEFINE S == ({u \in SingleDates(s) : u > t} \cup {GetNextDate(s.rule, s.cache, t)}) \ {None}
           g == GetNextDate(s.rule, s.cache, t)
           a == NextCandidate(s, t)
<1>1. a = FirstOf[S]
  BY DEF NextCandidate
<1>2. Cached(s.rule, s.cache) /\ \A u \in SingleDates(s) : u \in Nat /\ u # None
  BY DEF RecurrenceOK, None
<1>3. /\ g = None \/ (g # None /\ g > t /\ Recurs(s.rule, s.cache, g))
      /\ g \in Int
      /\ \A u \in Int : Recurs(s.rule, s.cache, u) /\ u <= Horizon /\ u > t
                            /\ ~NextMissed(s.rule, t, u) => g # None /\ g <= u
  BY <1>2, NextDate
<1>4. g # None => g \in Nat
  <2>1. s.rule.start \in Nat
    BY <1>2 DEF Cached, RuleOK, RuleType
  <2>2. Recurs(s.rule, s.cache, g) => g \in Int /\ g >= s.rule.start
    BY DEF Recurs, Occurs
  <2> HIDE DEF g
  <2> QED BY <1>3, <2>1, <2>2
<1> HIDE DEF g
<1>5. /\ S = {u \in SingleDates(s) : u > t} \cup ({g} \ {None})
      /\ S \in SUBSET Int /\ \A u \in S : u \in Nat /\ t <= u /\ t < u
  BY <1>2, <1>3, <1>4 DEF g
<1> HIDE DEF S, a
<1>6. ASSUME NEW u \in Candidates(s), u <= Horizon, t < u, ~Overlooked(s, t, u)
      PROVE  \E v \in S : v <= u
  <2>1. u \in Int
    BY DEF Candidates
  <2>2. CASE u \in SingleDates(s)
    <3>1. u \in S
      BY <1>5, <1>6, <2>1, <2>2
    <3> QED BY <2>1, <3>1
  <2>3. CASE u \notin SingleDates(s)
    <3>1. Recurs(s.rule, s.cache, u) /\ ~NextMissed(s.rule, t, u)
      BY <1>6, <2>3 DEF Candidates, Overlooked
    <3>2. g # None /\ g <= u
      BY <1>3, <1>6, <2>1, <3>1
    <3>3. g \in S
      BY <1>5, <3>2
    <3> QED BY <3>2, <3>3
  <2> QED BY <2>2, <2>3
<1>7. CASE S = {}
  <2>1. a = None
    BY <1>1, <1>7, {} \in SUBSET Int DEF FirstOf
  <2> QED BY <1>6, <1>7, <2>1 DEF a
<1>8. CASE S # {}
  <2>1. a \in S /\ \A u \in S : a <= u
    BY <1>1, <1>5, <1>8, LeastFirst
  <2>2. a \in Nat /\ a # None /\ t < a
    BY <1>5, <2>1 DEF None
  <2>3. a \in Candidates(s)
    <3>1. a \in SingleDates(s) \/ a = g
      BY <1>5, <2>1
    <3>2. a = g => Recurs(s.rule, s.cache, a)
      BY <1>3, <2>2
    <3> QED BY <2>2, <3>1, <3>2 DEF Candidates
  <2>4. ASSUME NEW u \in Candidates(s), u <= Horizon, t < u, ~Overlooked(s, t, u)
        PROVE  a <= u
    <3>1. PICK v \in S : v <= u
      BY <1>6, <2>4
    <3>2. a <= v /\ v \in Int /\ u \in Int
      BY <1>5, <2>1 DEF Candidates
    <3> QED BY <2>2, <3>1, <3>2
  <2> QED BY <2>2, <2>3, <2>4 DEF a
<1> QED BY <1>7, <1>8

\* the previous one the last date before t.
LEMMA PreviousCandidateIs ==
  ASSUME NEW s, RecurrenceOK(s), NEW t \in Int
  PROVE  LET a == PreviousCandidate(s, t)
         IN  /\ a = None \/ (a \in Candidates(s) /\ a < t)
             /\ \A u \in Candidates(s) : u <= Horizon /\ u < t => a # None /\ u <= a
<1> DEFINE S == ({u \in SingleDates(s) : u < t} \cup {GetPreviousDate(s.rule, s.cache, t)}) \ {None}
           g == GetPreviousDate(s.rule, s.cache, t)
           a == PreviousCandidate(s, t)
<1>1. a = LastOf[S]
  BY DEF PreviousCandidate
<1>2. Cached(s.rule, s.cache) /\ \A u \in SingleDates(s) : u \in Nat /\ u # None
  BY DEF RecurrenceOK, None
<1>3. /\ g = None \/ (g # None /\ g < t /\ Recurs(s.rule, s.cache, g))
      /\ g \in Int
      /\ \A u \in Int : Recurs(s.rule, s.cache, u) /\ u <= Horizon /\ u < t => u <= g
  BY <1>2, PreviousDate
<1>4. g # None => g \in Nat
  <2>1. s.rule.start \in Nat
    BY <1>2 DEF Cached, RuleOK, RuleType
  <2>2. Recurs(s.rule, s.cache, g) => g \in Int /\ g >= s.rule.start
    BY DEF Recurs, Occurs
  <2> HIDE DEF g
  <2> QED BY <1>3, <2>1, <2>2
<1> HIDE DEF g
<1>5. /\ S = {u \in SingleDates(s) : u < t} \cup ({g} \ {None})
      /\ S \in SUBSET Int /\ \A u \in S : u \in Nat /\ u <= t /\ u < t
  BY <1>2, <1>3, <1>4 DEF g
<1> HIDE DEF S, a
<1>6. ASSUME NEW u \in Candidates(s), u <= Horizon, u < t
      PROVE  \E v \in S : u <= v
  <2>1. u \in Int /\ u >= 0
    BY DEF Candidates
  <2>2. CASE u \in SingleDates(s)
    <3>1. u \in S
      BY <1>5, <1>6, <2>1, <2>2
    <3> QED BY <2>1, <3>1
  <2>3. CASE u \notin SingleDates(s)
    <3>1. Recurs(s.rule, s.cache, u)
      BY <1>6, <2>3 DEF Candidates
    <3>2. u <= g
      BY <1>3, <1>6, <2>1, <3>1
    <3>3. g # None
      BY <1>3, <2>1, <3>2 DEF None
    <3>4. g \in S
      BY <1>5, <3>3
    <3> QED BY <3>2, <3>4
  <2> QED BY <2>2, <2>3
<1>7. CASE S = {}
  <2>1. a = None
    BY <1>1, <1>7, {} \in SUBSET Int DEF LastOf
  <2> QED BY <1>6, <1>7, <2>1 DEF a
<1>8. CASE S # {}
  <2>1. a \in S /\ \A u \in S : u <= a
    BY <1>1, <1>5, <1>8, GreatestLast
  <2>2. a \in Nat /\ a # None /\ a < t
    BY <1>5, <2>1 DEF None
  <2>3. a \in Candidates(s)
    <3>1. a \in SingleDates(s) \/ a = g
      BY <1>5, <2>1
    <3>2. a = g => Recurs(s.rule, s.cache, a)
      BY <1>3, <2>2
    <3> QED BY <2>2, <3>1, <3>2 DEF Candidates
  <2>4. ASSUME NEW u \in Candidates(s), u <= Horizon, u < t
        PROVE  u <= a
    <3>1. PICK v \in S : u <= v
      BY <1>6, <2>4
    <3>2. v <= a /\ v \in Int /\ u \in Int
      BY <1>5, <2>1 DEF Candidates
    <3> QED BY <2>2, <3>1, <3>2
  <2> QED BY <2>2, <2>3, <2>4 DEF a
<1> QED BY <1>7, <1>8

\* So many candidates are excluded.
GivesUpOn(s) == Cardinality({u \in Candidates(s) : u <= Horizon /\ Excluded(s, u)}) >= Loops

\* Finitely many candidates are up to Horizon; fewer than 1000 of them are excluded
\* where the loop does not give up.
LEMMA UpToHorizon ==
  ASSUME NEW s
  PROVE  LET G == {u \in Candidates(s) : u <= Horizon}
             X == {x \in Int : Excluded(s, x)}
         IN  /\ IsFiniteSet(G)
             /\ ~GivesUpOn(s) => Cardinality(G \cap X) < Loops
<1> DEFINE G == {u \in Candidates(s) : u <= Horizon}
           X == {x \in Int : Excluded(s, x)}
           E == {u \in Candidates(s) : u <= Horizon /\ Excluded(s, u)}
<1>1. Horizon \in Nat /\ Loops \in Nat
  BY InputAssumption
<1>2. G \subseteq 0 .. Horizon
  BY <1>1 DEF Candidates
<1>3. IsFiniteSet(G)
  <2>1. IsFiniteSet(0 .. Horizon)
    BY <1>1, FS_Interval
  <2> HIDE DEF G
  <2> QED BY <1>2, <2>1, FS_Subset
<1>4. G \cap X = E
  BY DEF Candidates
<1>5. IsFiniteSet(G \cap X)
  <2> HIDE DEF G, X
  <2> QED BY <1>3, FS_Subset
<1>6. Cardinality(E) \in Nat
  <2> HIDE DEF G, X, E
  <2> QED BY <1>4, <1>5, FS_CardinalityType
<1>7. ~GivesUpOn(s) => Cardinality(E) < Loops
  BY <1>1, <1>6 DEF GivesUpOn
<1> QED BY <1>3, <1>4, <1>7

\* What the loop passes by, and what it moves on to.
Excludeds(s) == {x \in Int : Excluded(s, x)}

NextOnes(s) == [x \in Int |-> NextCandidate(s, x)]

\* getNextDateTime() is such a loop.
LEMMA NextLoop ==
  ASSUME NEW s, RecurrenceOK(s), NEW t \in Int
  PROVE  /\ NextOnes(s) \in [Int -> Int]
         /\ \E f : /\ f = Rounds(f, Excludeds(s), NextOnes(s), Loops)
                  /\ GetNextDateTime(s, t) = f[0][NextOnes(s)[t]]
<1> DEFINE X    == Excludeds(s)
           cand == NextOnes(s)
           Round(f) == [loop \in 0 .. Loops |-> [next \in Int |->
                          IF loop = Loops \/ next = None THEN None
                          ELSE IF Excluded(s, next) THEN f[loop + 1][NextCandidate(s, next)]
                          ELSE next]]
           after == CHOOSE f : f = Round(f)
<1>1. Loops \in Nat
  BY InputAssumption
<1>2. ASSUME NEW f
      PROVE  Round(f) = Rounds(f, X, cand, Loops)
  <2>1. \A x \in Int : (x \in X <=> Excluded(s, x)) /\ cand[x] = NextCandidate(s, x)
    BY DEF Excludeds, NextOnes
  <2> HIDE DEF X, cand
  <2> QED BY <2>1 DEF Rounds
<1>3. GetNextDateTime(s, t) = after[0][NextCandidate(s, t)]
  BY DEF GetNextDateTime
<1>4. cand[t] = NextCandidate(s, t)
  BY DEF NextOnes
<1>5. cand \in [Int -> Int]
  <2>1. \A x \in Int : NextCandidate(s, x) \in Int
    BY NextCandidateIs DEF Candidates, None
  <2> QED BY <2>1 DEF NextOnes
<1> HIDE DEF X, cand
<1>6. after = Rounds(after, X, cand, Loops)
  <2>1. \E f : f = Rounds(f, X, cand, Loops)
    BY <1>1, <1>5, LoopIs
  <2>2. \E f : f = Round(f)
    <3> HIDE DEF Round
    <3> QED BY <1>2, <2>1
  <2>3. after = Round(after)
    <3> HIDE DEF Round
    <3> QED BY <2>2
  <2> HIDE DEF Round, after
  <2> QED BY <1>2, <2>3
<1> HIDE DEF after
<1> QED BY <1>3, <1>4, <1>5, <1>6 DEF X, cand

\* getNextDateTime()
LEMMA NextFinds ==
  ASSUME NEW s, RecurrenceOK(s), NEW t \in Int, ~GivesUpOn(s),
         \A u \in Candidates(s) : u <= Horizon /\ t < u => ~Overlooked(s, t, u),
         \A x, u \in Candidates(s) : u <= Horizon /\ t < x /\ x < u /\ Excluded(s, x) => ~Overlooked(s, x, u)
  PROVE  LET a == GetNextDateTime(s, t)
         IN  /\ a = None \/ (a \in Candidates(s) /\ t < a /\ ~Excluded(s, a))
             /\ \A u \in Candidates(s) : u <= Horizon /\ t < u /\ ~Excluded(s, u)
                    => a # None /\ a <= u
<1> DEFINE C    == Candidates(s)
           G    == {u \in Candidates(s) : u <= Horizon}
           X    == Excludeds(s)
           cand == NextOnes(s)
           ord  == [x \in Int |-> x]
<1>1. Loops \in Nat /\ Horizon \in Nat
  BY InputAssumption
<1>3. PICK f : f = Rounds(f, X, cand, Loops) /\ GetNextDateTime(s, t) = f[0][cand[t]]
  BY NextLoop
<1>4. \A x \in Int : cand[x] = NextCandidate(s, x) /\ ord[x] = x
  BY DEF NextOnes
<1>5. cand \in [Int -> Int] /\ ord \in [Int -> Int]
  BY NextLoop
<1>6. C \in SUBSET Nat /\ G \in SUBSET C /\ \A x : x \in X => Excluded(s, x)
  BY DEF Candidates, Excludeds
<1>7. IsFiniteSet(G) /\ Cardinality(G \cap X) < Loops
  BY UpToHorizon DEF Excludeds
<1>8. \A u : u \in C => u \in Int /\ u # None
  BY <1>6 DEF None
<1>9. \A u : u \in G <=> u \in C /\ u <= Horizon
  OBVIOUS
<1>10. \A x \in Int : x \in X <=> Excluded(s, x)
  BY DEF Excludeds
<1> HIDE DEF C, G, X, cand, ord
<1>12. \A x, y \in Int : ord[x] = ord[y] => x = y
  BY <1>4
<1>13. ASSUME NEW x \in C, NEW y \in G, ord[t] < ord[x], ord[x] < ord[y]
       PROVE  x \in G
  <2>1. x \in Int /\ y \in Int /\ y <= Horizon
    BY <1>8, <1>9
  <2>2. x < y
    BY <1>4, <1>13, <2>1
  <2> QED BY <1>1, <1>9, <2>1, <2>2
<1>14. ASSUME NEW x \in Int, \A u \in C : u <= Horizon /\ x < u => ~Overlooked(s, x, u)
       PROVE  Follows(cand[x], x, ord, C, G)
  <2> DEFINE a == NextCandidate(s, x)
  <2>1. /\ a = None \/ (a \in C /\ x < a)
        /\ \A u \in C : u <= Horizon /\ x < u /\ ~Overlooked(s, x, u) => a # None /\ a <= u
    BY NextCandidateIs DEF C
  <2>2. cand[x] = a
    BY <1>4
  <2> HIDE DEF a
  <2>3. a = None \/ (a \in C /\ ord[x] < ord[a])
    BY <1>4, <1>8, <2>1
  <2>4. ASSUME NEW u \in G, ord[x] < ord[u]
        PROVE  a # None /\ ord[a] <= ord[u]
    <3>1. u \in C /\ u \in Int /\ u <= Horizon
      BY <1>8, <1>9
    <3>2. x < u
      BY <1>4, <2>4, <3>1
    <3>3. a # None /\ a <= u
      BY <1>14, <2>1, <3>1, <3>2
    <3>4. a \in Int
      BY <1>8, <2>1, <3>3
    <3> QED BY <1>4, <3>1, <3>3, <3>4
  <2> QED BY <2>2, <2>3, <2>4 DEF Follows
<1>15. Follows(cand[t], t, ord, C, G)
  BY <1>14 DEF C
<1>16. ASSUME NEW x \in C \cap X, ord[t] < ord[x]
       PROVE  Follows(cand[x], x, ord, C, G)
  <2>1. x \in Int /\ t < x /\ Excluded(s, x)
    BY <1>4, <1>6, <1>8, <1>16
  <2>2. \A u \in C : u <= Horizon /\ x < u => ~Overlooked(s, x, u)
    BY <2>1 DEF C
  <2> QED BY <1>14, <2>1, <2>2
<1> DEFINE a == f[0][cand[t]]
<1>17. Follows(a, t, ord, C \ X, G \ X)
  BY <1>1, <1>5, <1>6, <1>3, <1>7, <1>12, <1>13, <1>15, <1>16, LoopFinds
<1>18. GetNextDateTime(s, t) = a
  BY <1>3
<1> HIDE DEF a
<1>19. a = None \/ (a \in C /\ t < a /\ ~Excluded(s, a))
  <2>1. a = None \/ (a \in C \ X /\ ord[t] < ord[a])
    BY <1>17 DEF Follows
  <2> QED BY <1>4, <1>8, <1>10, <2>1
<1>20. ASSUME NEW u \in C, u <= Horizon, t < u, ~Excluded(s, u)
       PROVE  a # None /\ a <= u
  <2>1. u \in G \ X /\ u \in Int
    BY <1>6, <1>8, <1>9, <1>20
  <2>2. ord[t] < ord[u]
    BY <1>4, <1>20, <2>1
  <2>3. a # None /\ ord[a] <= ord[u]
    BY <1>17, <2>1, <2>2 DEF Follows
  <2>4. a \in Int
    BY <1>8, <1>19, <2>3
  <2> QED BY <1>4, <2>1, <2>3, <2>4
<1> QED BY <1>18, <1>19, <1>20 DEF C

\* Even if it gives up: the answer is no date at all or one that recurs.
LEMMA NextIsDate ==
  ASSUME NEW s, RecurrenceOK(s), NEW t \in Int
  PROVE  LET a == GetNextDateTime(s, t)
         IN  a = None \/ (a \in Candidates(s) /\ t < a /\ ~Excluded(s, a))
<1> DEFINE C    == Candidates(s)
           X    == Excludeds(s)
           cand == NextOnes(s)
           ord  == [x \in Int |-> x]
<1>1. PICK f : f = Rounds(f, X, cand, Loops) /\ GetNextDateTime(s, t) = f[0][cand[t]]
  BY NextLoop
<1>2. cand \in [Int -> Int] /\ Loops \in Nat /\ ord \in [Int -> Int]
  BY NextLoop, InputAssumption
<1>3. C \in SUBSET Nat /\ {} \in SUBSET C
  BY DEF Candidates
<1>4. \A x \in Int : cand[x] = NextCandidate(s, x) /\ ord[x] = x /\ (x \in X <=> Excluded(s, x))
  BY DEF NextOnes, Excludeds
<1> HIDE DEF X, cand, ord
<1>5. ASSUME NEW x \in Int
      PROVE  Follows(cand[x], x, ord, C, {})
  <2>1. cand[x] = None \/ (cand[x] \in C /\ x < cand[x])
    BY <1>4, NextCandidateIs
  <2> HIDE DEF C
  <2>2. cand[x] = None \/ (cand[x] \in C /\ ord[x] < ord[cand[x]])
    <3> DEFINE y == cand[x]
    <3> HIDE DEF y
    <3>1. y \in C => y \in Int
      BY <1>3
    <3>2. y \in C => ord[y] = y /\ ord[x] = x
      BY <1>4, <3>1
    <3> QED BY <2>1, <3>2 DEF y
  <2> QED BY <2>2 DEF Follows
<1> HIDE DEF C
<1> DEFINE a == f[0][cand[t]]
<1>6. CASE Loops = 0
  <2> DEFINE Step(l) == [x \in Int |-> IF l = Loops \/ x = None THEN None
                                      ELSE IF x \in X THEN f[l + 1][cand[x]]
                                      ELSE x]
  <2>1. f = [l \in 0 .. Loops |-> Step(l)]
    BY <1>1 DEF Rounds
  <2>2. f[0] = Step(0)
    <3> HIDE DEF Step
    <3> QED BY <1>2, <2>1
  <2>3. Step(0)[cand[t]] = None
    BY <1>2, <1>6
  <2> QED BY <1>1, <2>2, <2>3
<1>7. CASE Loops # 0
  <2>1. IsFiniteSet({}) /\ Cardinality({} \cap X) < Loops
    BY <1>2, <1>7, FS_EmptySet
  <2>2. \A x, y \in Int : ord[x] = ord[y] => x = y
    BY <1>4
  <2>3. \A x \in C : x \in Int
    BY <1>3
  <2>4. Follows(a, t, ord, C \ X, {} \ X)
    <3> HIDE DEF a
    <3>1. \A x \in C \cap X : ord[t] < ord[x] => Follows(cand[x], x, ord, C, {})
      BY <1>5, <2>3
    <3>2. Follows(cand[t], t, ord, C, {})
      BY <1>5
    <3>3. \A x \in C, y \in {} : ord[t] < ord[x] /\ ord[x] < ord[y] => x \in {}
      OBVIOUS
    <3> QED BY <1>1, <1>2, <1>3, <2>1, <2>2, <3>1, <3>2, <3>3, LoopFinds DEF a
  <2>5. a = None \/ (a \in C \ X /\ ord[t] < ord[a])
    BY <2>4 DEF Follows
  <2> HIDE DEF a
  <2>6. a = None \/ (a \in C /\ t < a /\ ~Excluded(s, a))
    BY <1>4, <2>3, <2>5
  <2> QED BY <1>1, <2>6 DEF C, a
<1> QED BY <1>6, <1>7

\* getPreviousDateTime()
LEMMA PreviousFinds ==
  ASSUME NEW s, RecurrenceOK(s), NEW t \in Int, t <= Horizon, ~GivesUpOn(s)
  PROVE  LET a == GetPreviousDateTime(s, t)
         IN  /\ a = None \/ (a \in Candidates(s) /\ a < t /\ ~Excluded(s, a))
             /\ \A u \in Candidates(s) : u < t /\ ~Excluded(s, u) => a # None /\ u <= a
<1> DEFINE C    == Candidates(s)
           G    == {u \in Candidates(s) : u <= Horizon}
           X    == {x \in Int : Excluded(s, x)}
           cand == [x \in Int |-> PreviousCandidate(s, x)]
           ord  == [x \in Int |-> 0 - x]
           Round(f) == [loop \in 0 .. Loops |-> [prev \in Int |->
                          IF loop = Loops \/ prev = None THEN None
                          ELSE IF Excluded(s, prev) THEN f[loop + 1][PreviousCandidate(s, prev)]
                          ELSE prev]]
           before == CHOOSE f : f = Round(f)
<1>1. Loops \in Nat /\ Horizon \in Nat
  BY InputAssumption
<1>2. ASSUME NEW f
      PROVE  Round(f) = Rounds(f, X, cand, Loops)
  <2>1. \A x \in Int : (x \in X <=> Excluded(s, x)) /\ cand[x] = PreviousCandidate(s, x)
    OBVIOUS
  <2> HIDE DEF X, cand
  <2> QED BY <2>1 DEF Rounds
<1>3. GetPreviousDateTime(s, t) = before[0][PreviousCandidate(s, t)]
  BY DEF GetPreviousDateTime
<1>4. \A x \in Int : cand[x] = PreviousCandidate(s, x) /\ ord[x] = 0 - x
  OBVIOUS
<1>5. cand \in [Int -> Int] /\ ord \in [Int -> Int]
  <2>1. \A x \in Int : PreviousCandidate(s, x) \in Int
    BY PreviousCandidateIs DEF Candidates, None
  <2> QED BY <2>1
<1>6. C \in SUBSET Nat /\ G \in SUBSET C /\ \A x : x \in X => Excluded(s, x)
  BY DEF Candidates
<1>7. IsFiniteSet(G) /\ Cardinality(G \cap X) < Loops
  BY UpToHorizon
<1>8. \A u : u \in C => u \in Int /\ u # None
  BY <1>6 DEF None
<1>9. \A u : u \in G <=> u \in C /\ u <= Horizon
  OBVIOUS
<1>10. \A x \in Int : x \in X <=> Excluded(s, x)
  OBVIOUS
<1> HIDE DEF C, G, X, cand, ord
<1>11. before = Rounds(before, X, cand, Loops)
  <2>1. \E f : f = Rounds(f, X, cand, Loops)
    BY <1>1, <1>5, LoopIs
  <2>2. \E f : f = Round(f)
    <3> HIDE DEF Round
    <3> QED BY <1>2, <2>1
  <2>3. before = Round(before)
    <3> HIDE DEF Round
    <3> QED BY <2>2
  <2> HIDE DEF Round, before
  <2> QED BY <1>2, <2>3
<1> HIDE DEF before
<1>12. \A x, y \in Int : ord[x] = ord[y] => x = y
  BY <1>4
<1>13. ASSUME NEW x \in C, NEW y \in G, ord[t] < ord[x], ord[x] < ord[y]
       PROVE  x \in G
  <2>1. x \in Int /\ y \in Int /\ y <= Horizon
    BY <1>8, <1>9
  <2>2. x < t
    BY <1>4, <1>13, <2>1
  <2> QED BY <1>1, <1>9, <2>1, <2>2
<1>14. ASSUME NEW x \in Int
       PROVE  Follows(cand[x], x, ord, C, G)
  <2> DEFINE a == PreviousCandidate(s, x)
  <2>1. /\ a = None \/ (a \in C /\ a < x)
        /\ \A u \in C : u <= Horizon /\ u < x => a # None /\ u <= a
    BY PreviousCandidateIs DEF C
  <2>2. cand[x] = a
    BY <1>4
  <2> HIDE DEF a
  <2>3. a = None \/ (a \in C /\ ord[x] < ord[a])
    BY <1>4, <1>8, <2>1
  <2>4. ASSUME NEW u \in G, ord[x] < ord[u]
        PROVE  a # None /\ ord[a] <= ord[u]
    <3>1. u \in C /\ u \in Int /\ u <= Horizon
      BY <1>8, <1>9
    <3>2. u < x
      BY <1>4, <2>4, <3>1
    <3>3. a # None /\ u <= a
      BY <2>1, <3>1, <3>2
    <3>4. a \in Int
      BY <1>8, <2>1, <3>3
    <3> QED BY <1>4, <3>1, <3>3, <3>4
  <2> QED BY <2>2, <2>3, <2>4 DEF Follows
<1>15. Follows(cand[t], t, ord, C, G)
  BY <1>14 DEF C
<1>16. \A x \in C \cap X : Follows(cand[x], x, ord, C, G)
  BY <1>8, <1>14
<1> DEFINE a == before[0][cand[t]]
<1>17. Follows(a, t, ord, C \ X, G \ X)
  BY <1>1, <1>5, <1>6, <1>7, <1>11, <1>12, <1>13, <1>15, <1>16, LoopFinds
<1>18. GetPreviousDateTime(s, t) = a
  BY <1>3, <1>4
<1> HIDE DEF a
<1>19. a = None \/ (a \in C /\ a < t /\ ~Excluded(s, a))
  <2>1. a = None \/ (a \in C \ X /\ ord[t] < ord[a])
    BY <1>17 DEF Follows
  <2> QED BY <1>4, <1>8, <1>10, <2>1
<1>20. ASSUME NEW u \in C, u < t, ~Excluded(s, u)
       PROVE  a # None /\ u <= a
  <2>1. u \in G \ X /\ u \in Int
    <3>1. u \in Int /\ u <= Horizon
      BY <1>1, <1>8, <1>20
    <3> QED BY <1>6, <1>9, <1>20, <3>1
  <2>2. ord[t] < ord[u]
    BY <1>4, <1>20, <2>1
  <2>3. a # None /\ ord[a] <= ord[u]
    BY <1>17, <2>1, <2>2 DEF Follows
  <2>4. a \in Int
    BY <1>8, <1>19, <2>3
  <2> QED BY <1>4, <2>1, <2>3, <2>4
<1> QED BY <1>18, <1>19, <1>20 DEF C

-----------------------------------------------------------------------------
(* The occurrences of an interval. *)

\* Every interval begins with a minute.
LEMMA IntervalOnMinute ==
  ASSUME NEW r, Timely(r), NEW i \in Int
  PROVE  IntervalDateTime(r, i) % Minute = 0
<1>1. \A q \in Int : (q * Minute) % Minute = 0
  BY Constants, Multiple
<1>2. PICK m \in Int : DayLength = m * Minute
  BY DayOfMinutes
<1>3. ASSUME NEW q \in Int
      PROVE  (q * DayLength) % Minute = 0
  <2>1. q * DayLength = (q * m) * Minute /\ q * m \in Int
    BY <1>2, Constants
  <2>2. ((q * m) * Minute) % Minute = 0
    BY <1>1, <2>1
  <2> QED BY <2>1, <2>2
<1>4. CASE r.unit = "minutely"
  BY <1>1, <1>4 DEF IntervalDateTime
<1>5. CASE r.unit = "daily"
  BY <1>3, <1>5 DEF IntervalDateTime
<1>6. CASE r.unit = "monthly"
  <2>1. FirstDay(i) \in Int
    BY MonthLasts
  <2>2. IntervalDateTime(r, i) = FirstDay(i) * DayLength
    BY <1>6 DEF IntervalDateTime
  <2>3. (FirstDay(i) * DayLength) % Minute = 0
    BY <1>3, <2>1
  <2> QED BY <2>2, <2>3
<1> QED BY <1>4, <1>5, <1>6 DEF Timely, Units

\* The intervals looked at for a list hold all the occurrences in it, unless it
\* ends as a minute begins.
LEMMA IntervalList ==
  ASSUME NEW r, Timely(r), Reaches(r), NEW st \in Int, st >= r.start,
         NEW end \in Int, end <= Horizon, end % Minute # 0, NEW enddt \in Int, enddt <= end
  PROVE  ListIntervals(r, st, end, enddt) = {u \in Int : Occurs(r, u) /\ st <= u /\ u <= enddt}
<1> DEFINE interval == NextValidInterval(r, st)
           Then(k)  == interval + k * r.freq
           ends     == {k \in 0 .. Limit - 1 :
                           \/ IntervalDateTime(r, Then(k + 1)) >= end
                           \/ \E t \in DatesForInterval(r, Then(k)) : t > enddt}
           loops    == IF ends = {} THEN Limit - 1 ELSE Min(ends)
           all      == UNION {DatesForInterval(r, Then(k)) : k \in 0 .. loops}
<1>1. ListIntervals(r, st, end, enddt) = {t \in all : t >= st /\ t <= enddt}
  BY DEF ListIntervals
<1>2. r.start \in Int /\ r.freq \in Int /\ r.freq > 0 /\ Limit \in Nat /\ Horizon \in Int
  BY InputAssumption DEF Timely
<1>3. interval \in Int
  BY NextValidIsInt
<1>4. ASSUME NEW k \in Nat
      PROVE  /\ Then(k) \in Int
             /\ \A j \in Nat : j < k => Then(j) < Then(k)
  <2> HIDE DEF interval
  <2> QED BY <1>3, Steps
<1>5. ASSUME NEW u \in Int, Occurs(r, u), st <= u
      PROVE  \E k \in Nat : /\ IntervalOf(r, u) = Then(k) /\ u \in DatesForInterval(r, Then(k))
                            /\ u <= Horizon => k < Limit
  <2>1. PICK k \in Nat : IntervalOf(r, u) = Then(k)
    BY <1>5, FromNext
  <2>2. Matches(r, u) /\ Then(k) \in Int
    BY <1>4, <1>5 DEF Occurs
  <2>3. u <= Horizon => k < Limit
    BY <2>1, WithinLimit
  <2> HIDE DEF Then
  <2>4. u \in DatesForInterval(r, Then(k))
    BY <2>1, <2>2, DatesOfInterval
  <2> QED BY <2>1, <2>3, <2>4
<1>6. ASSUME NEW k \in Nat, NEW u \in DatesForInterval(r, Then(k))
      PROVE  u \in Int /\ IntervalOf(r, u) = Then(k) /\ (u >= r.start => Occurs(r, u))
  <2>1. u \in Int /\ (u >= r.start => Occurs(r, u))
    BY AfterNext
  <2>2. Then(k) \in Int
    BY <1>4
  <2> HIDE DEF Then
  <2>3. IntervalOf(r, u) = Then(k)
    BY <2>2, DatesOfInterval
  <2> QED BY <2>1, <2>3
<1> HIDE DEF interval, Then
<1>7. loops \in Int /\ loops <= Limit - 1 /\ (ends # {} => loops \in ends /\ loops \in Nat)
  <2>1. CASE ends = {}
    BY <1>2, <2>1
  <2>2. CASE ends # {}
    <3>1. \A k \in ends : k \in Nat /\ 0 <= k /\ k <= Limit - 1
      BY <1>2
    <3>2. ends \in SUBSET Int /\ (\A k \in ends : 0 <= k) /\ 0 \in Int
      BY <3>1
    <3>3. loops = Min(ends)
      BY <2>2
    <3> HIDE DEF ends, loops
    <3>4. loops \in ends
      BY <2>2, <3>2, <3>3, MinOf
    <3> QED BY <3>1, <3>4
  <2> QED BY <2>1, <2>2
<1>8. ASSUME NEW t \in all, t >= st, t <= enddt
      PROVE  t \in Int /\ Occurs(r, t)
  <2>1. PICK k \in 0 .. loops : t \in DatesForInterval(r, Then(k))
    OBVIOUS
  <2> HIDE DEF loops
  <2>2. k \in Nat
    BY <1>7
  <2>3. t \in Int
    BY <1>6, <2>1, <2>2
  <2>4. t >= r.start
    BY <1>2, <1>8, <2>3
  <2> QED BY <1>6, <2>1, <2>2, <2>3, <2>4
<1>9. ASSUME NEW u \in Int, Occurs(r, u), st <= u, u <= enddt
      PROVE  u \in all
  <2>1. u <= Horizon
    BY <1>2, <1>9
  <2>2. PICK k \in Nat : /\ IntervalOf(r, u) = Then(k) /\ u \in DatesForInterval(r, Then(k))
                         /\ k < Limit
    BY <1>5, <1>9, <2>1
  <2>3. k <= loops
    <3>1. CASE ends = {}
      BY <1>2, <2>2, <3>1
    <3>2. CASE ends # {}
      <4>1. loops \in ends /\ loops \in Nat
        BY <1>7, <3>2
      <4> SUFFICES ASSUME loops < k PROVE FALSE
        BY <2>2, <4>1
      <4>2. \/ IntervalDateTime(r, Then(loops + 1)) >= end
            \/ \E t \in DatesForInterval(r, Then(loops)) : t > enddt
        BY <4>1
      <4> HIDE DEF loops, ends
      <4>3. CASE IntervalDateTime(r, Then(loops + 1)) >= end
        <5> DEFINE a == IntervalDateTime(r, Then(loops + 1))
        <5>1. loops + 1 \in Nat /\ loops + 1 <= k
          BY <2>2, <4>1
        <5>2. Then(loops + 1) \in Int /\ Then(k) \in Int
          BY <1>4, <2>2, <5>1
        <5>3. a \in Int /\ IntervalDateTime(r, Then(k)) \in Int
          BY <5>2, IntervalFirst
        <5>4. a <= IntervalDateTime(r, Then(k))
          <6>1. CASE loops + 1 = k
            BY <5>3, <6>1
          <6>2. CASE loops + 1 # k
            <7>1. loops + 1 < k
              BY <2>2, <5>1, <6>2
            <7>2. Then(loops + 1) < Then(k)
              BY <1>4, <2>2, <5>1, <7>1
            <7>3. a < IntervalDateTime(r, Then(k))
              BY <5>2, <7>2, IntervalsInOrder
            <7> QED BY <5>3, <7>3
          <6> QED BY <6>1, <6>2
        <5>5. IntervalDateTime(r, Then(k)) <= u
          BY <2>2, IntervalHolds
        <5>6. a >= end
          BY <4>3
        <5>7. a % Minute = 0
          BY <5>2, IntervalOnMinute
        <5> HIDE DEF a
        <5>8. a = end
          BY <1>9, <5>3, <5>4, <5>5, <5>6
        <5> QED BY <5>7, <5>8
      <4>4. CASE \E t \in DatesForInterval(r, Then(loops)) : t > enddt
        <5>1. PICK t \in DatesForInterval(r, Then(loops)) : t > enddt
          BY <4>4
        <5>2. t \in Int /\ IntervalOf(r, t) = Then(loops)
          BY <1>6, <4>1, <5>1
        <5>3. Then(loops) < Then(k) /\ Then(loops) \in Int /\ Then(k) \in Int
          BY <1>4, <2>2, <4>1
        <5>4. u <= t => IntervalOf(r, u) <= IntervalOf(r, t)
          BY <5>2, IntervalMono
        <5>5. ~ (u <= t)
          BY <2>2, <5>2, <5>3, <5>4
        <5> QED BY <1>9, <5>1, <5>2, <5>5
      <4> QED BY <4>2, <4>3, <4>4
    <3> QED BY <3>1, <3>2
  <2> HIDE DEF loops
  <2>4. k \in 0 .. loops
    BY <1>7, <2>2, <2>3
  <2> QED BY <2>2, <2>4
<1>10. \A t : t \in all /\ t >= st /\ t <= enddt <=> t \in Int /\ Occurs(r, t) /\ st <= t /\ t <= enddt
  <2> HIDE DEF all
  <2> QED BY <1>8, <1>9
<1> HIDE DEF all
<1> QED BY <1>1, <1>10

\* timesInInterval() of a rule that is not a simple sub-daily one.
LEMMA RuleList ==
  ASSUME NEW r, NEW c, Cached(r, c), TimedRepetition(r) = 0,
         r.duration > 0 => c.end # None,
         NEW start \in Int, start >= r.start, NEW end \in Int, end <= Horizon, end % Minute # 0
  PROVE  TimesInRuleInterval(r, c, start, end)
           = {u \in RuleOccurrences(r) : start <= u /\ u <= end}
<1> DEFINE last  == EndDt(r, c)
           enddt == IF last # None /\ end > last THEN last ELSE end
           hit   == {t \in c.dates : t >= start /\ t <= enddt}
           times == TimesInRuleInterval(r, c, start, end)
           occs  == {u \in RuleOccurrences(r) : start <= u /\ u <= end}
<1>1. times = IF end < r.start \/ (last # None /\ start > last) THEN {}
              ELSE IF r.duration <= 0 THEN ListIntervals(r, start, end, enddt)
              ELSE IF last # None THEN hit
              ELSE IF hit # {} THEN hit \cup {None}
              ELSE ListIntervals(r, c.last + 1, end, enddt)
  BY DEF TimesInRuleInterval
<1>2. /\ RuleOK(r) /\ Timely(r) /\ r.duration \in Int /\ r.start \in Int /\ Reaches(r)
      /\ Horizon \in Int
  BY RuleIsTimely, InputAssumption DEF Cached, RuleOK
<1>3. /\ last \in Int
      /\ r.duration > 0 => last = c.end /\ CacheHolds(r, c)
  BY EndIs
<1>4. \A u : u \in occs <=> /\ u \in Int /\ Occurs(r, u) /\ start <= u /\ u <= end
                            /\ last # None => u <= last
  <2>1. \A u : u \in RuleOccurrences(r) <=> Recurs(r, c, u) /\ u <= Horizon
    BY RecursUpToHorizon
  <2>2. \A u : Recurs(r, c, u) <=> u \in Int /\ Occurs(r, u) /\ (last # None => u <= last)
    BY DEF Recurs, Occurs
  <2>3. \A u \in Int : u <= end => u <= Horizon
    BY <1>2
  <2> HIDE DEF last
  <2> QED BY <2>1, <2>2, <2>3
<1>5. enddt \in Int /\ enddt <= end
      /\ \A u \in Int : u <= enddt <=> (u <= end /\ (last # None => u <= last))
  BY <1>3
<1> HIDE DEF last, enddt, occs, times
<1>6. CASE end < r.start \/ (last # None /\ start > last)
  <2>1. times = {}
    BY <1>1, <1>6
  <2>2. \A u \in Int : Occurs(r, u) => u >= r.start
    BY DEF Occurs
  <2>3. \A u : u \notin occs
    BY <1>2, <1>3, <1>4, <1>6, <2>2
  <2> QED BY <2>1, <2>3 DEF times, occs
<1>7. CASE ~ (end < r.start \/ (last # None /\ start > last)) /\ r.duration <= 0
  <2>1. times = ListIntervals(r, start, end, enddt)
    BY <1>1, <1>7
  <2>2. times = {u \in Int : Occurs(r, u) /\ start <= u /\ u <= enddt}
    BY <1>2, <1>5, <2>1, IntervalList
  <2>3. \A u : u \in times <=> u \in occs
    BY <1>4, <1>5, <2>2
  <2> QED BY <2>3 DEF times, occs
<1>8. CASE ~ (end < r.start \/ (last # None /\ start > last)) /\ r.duration > 0
  <2>1. times = hit /\ last = c.end /\ CacheHolds(r, c)
    <3>1. ~ (r.duration <= 0) /\ last = c.end /\ last # None /\ CacheHolds(r, c)
      BY <1>2, <1>3, <1>8
    <3> HIDE DEF hit
    <3> QED BY <1>1, <1>8, <3>1
  <2>2. \A t \in c.dates : t \in Int /\ Occurs(r, t)
    BY <2>1 DEF CacheHolds, Occurs
  <2>3. \A t \in Int : Occurs(r, t) /\ t <= Horizon => (t \in c.dates <=> t \in RuleOccurrences(r))
    BY <2>1 DEF CacheHolds
  <2>4. \A t \in Int : t <= end => t <= Horizon
    BY <1>2
  <2>5. \A u : u \in occs => u \in RuleOccurrences(r)
    BY DEF occs
  <2>6. ASSUME NEW u \in occs
        PROVE  u \in times
    <3>1. u \in Int /\ Occurs(r, u) /\ start <= u /\ u <= end /\ (last # None => u <= last)
      BY <1>4, <2>6
    <3>2. u \in c.dates
      BY <2>3, <2>4, <2>5, <2>6, <3>1
    <3> QED BY <1>5, <2>1, <3>1, <3>2
  <2>7. ASSUME NEW u \in times
        PROVE  u \in occs
    <3>1. u \in c.dates /\ u >= start /\ u <= enddt /\ u \in Int /\ Occurs(r, u)
      BY <2>1, <2>2, <2>7
    <3> QED BY <1>4, <1>5, <3>1
  <2> QED BY <2>6, <2>7 DEF times, occs
<1> QED BY <1>2, <1>6, <1>7, <1>8

-----------------------------------------------------------------------------
(* What holds of the to-do at all times, and the occurrences by definition. *)

\* A rule of one of the patterns is a rule the searches work for.
LEMMA RuleOfPattern ==
  ASSUME NEW r, RuleOf(r, Patterns) \/ RuleOf(r, ExPatterns)
  PROVE  RuleOK(r)
<1> DEFINE p == [unit |-> r.unit, freq |-> r.freq, days |-> r.days]
           q == Rule(p, r.start, -1)
<1>1. p \in Patterns \cup ExPatterns /\ r.start \in Starts /\ r \in RuleType
  BY DEF RuleOf
<1>2. IntervalDateTime(q, IntervalOf(q, r.start) + Limit * q.freq) > Horizon
  <2> HIDE DEF p
  <2> QED BY <1>1, ReachAssumption DEF Rule
<1>3. q.unit = r.unit /\ q.freq = r.freq
  BY DEF Rule
<1>4. IntervalOf(q, r.start) = IntervalOf(r, r.start)
  <2> HIDE DEF q
  <2> QED BY <1>3 DEF IntervalOf
<1>5. \A i : IntervalDateTime(q, i) = IntervalDateTime(r, i)
  <2> HIDE DEF q
  <2> QED BY <1>3 DEF IntervalDateTime
<1> HIDE DEF q
<1>6. Reaches(r)
  BY <1>2, <1>3, <1>4, <1>5 DEF Reaches
<1>7. r.duration = 0 => r.end \in Nat
  BY <1>1 DEF RuleOf, RuleType, None
<1> QED BY <1>1, <1>6, <1>7 DEF RuleOK

\* What the answers rest on.
Sane == TypeOK /\ CacheIsCurrent

\* The recurrence a query sees is that of the to-do.
LEMMA HereIs ==
  /\ Here.rule = rule /\ Here.cache = Filled(rule, cache) /\ Here.exrules = exrules
  /\ Here.rdates = dates.rdates /\ Here.rdatetimes = dates.rdatetimes
  /\ Here.exdates = dates.exdates /\ Here.exdatetimes = dates.exdatetimes
BY DEF Here

\* A query finds a cache that was built from the rule as it is.
LEMMA FilledIs ==
  ASSUME Sane
  PROVE  Cached(rule, Filled(rule, cache))
<1>1. RuleOK(rule) /\ rule.duration \in Int
  <2>1. RuleOK(rule)
    BY RuleOfPattern DEF Sane, TypeOK
  <2> QED BY <2>1, RuleIsTimely
<1>2. ASSUME rule.duration > 0
      PROVE  Filled(rule, cache) = BuildCache(rule)
  <2>1. BuildCache(rule).valid
    BY DEF BuildCache
  <2>2. ~NoCache.valid
    BY DEF NoCache
  <2>3. cache = NoCache \/ cache = BuildCache(rule)
    BY DEF Sane, CacheIsCurrent
  <2> QED BY <1>2, <2>1, <2>2, <2>3 DEF Filled
<1> QED BY <1>1, <1>2 DEF Cached

\* A finite set of natural numbers is bounded.
LEMMA FiniteIsBounded ==
  ASSUME NEW S \in SUBSET Nat, IsFiniteSet(S)
  PROVE  \E b \in Nat : \A t \in S : t <= b
<1> DEFINE Bounded(T) == \E b \in Nat : \A t \in T : t <= b
           Bad == {n \in Nat : \E T \in SUBSET Nat : /\ IsFiniteSet(T) /\ ~Bounded(T)
                                                    /\ Cardinality(T) = n}
<1>1. SUFFICES Bad = {}
  <2>1. Cardinality(S) \in Nat
    BY FS_CardinalityType
  <2> QED BY <2>1
<1> SUFFICES ASSUME Bad # {} PROVE FALSE
  OBVIOUS
<1>2. PICK m \in Bad : \A n \in Bad : m <= n
  <2> HIDE DEF Bounded
  <2>1. Bad \in SUBSET Nat
    OBVIOUS
  <2> HIDE DEF Bad
  <2> QED BY <2>1, Least
<1>3. PICK T \in SUBSET Nat : IsFiniteSet(T) /\ ~Bounded(T) /\ Cardinality(T) = m
  <2> HIDE DEF Bounded
  <2> QED OBVIOUS
<1>4. T # {}
  BY <1>3
<1>5. PICK x : x \in T
  BY <1>4
<1>6. IsFiniteSet(T \ {x}) /\ Cardinality(T \ {x}) = m - 1 /\ m \in Nat
  BY <1>3, <1>5, FS_RemoveElement, FS_CardinalityType
<1>7. ~ (m <= m - 1) /\ Cardinality(T \ {x}) \in Nat
  BY <1>6, FS_CardinalityType
<1>8. Bounded(T \ {x})
  <2>1. m - 1 \notin Bad /\ m - 1 \in Nat
    <3> HIDE DEF Bad
    <3> QED BY <1>2, <1>6, <1>7
  <2> HIDE DEF Bounded
  <2> QED BY <1>6, <2>1
<1>9. PICK b \in Nat : \A t \in T \ {x} : t <= b
  BY <1>8
<1>10. \A t \in T : t <= b + x
  BY <1>5, <1>9
<1>11. b + x \in Nat
  BY <1>5, <1>9
<1> HIDE DEF Bad
<1> QED BY <1>3, <1>10, <1>11

\* The recurrence of the to-do is one the lemmas above are about.
LEMMA HereOK ==
  ASSUME Sane
  PROVE  /\ RecurrenceOK(Here) /\ SingleDates(Here) \in SUBSET Nat
         /\ RuleOK(rule) /\ Timely(rule) /\ rule.start \in SingleDates(Here)
         /\ \A r \in exrules : RuleOK(r) /\ Timely(r) /\ r.duration = -1 /\ r.start = rule.start
<1>1. RuleOK(rule) /\ Timely(rule) /\ rule.start \in Nat
  <2>1. RuleOK(rule)
    BY RuleOfPattern DEF Sane, TypeOK
  <2> QED BY <2>1, RuleIsTimely DEF Timely
<1>2. ASSUME NEW r \in exrules
      PROVE  RuleOK(r) /\ Timely(r) /\ r.duration = -1 /\ r.start = rule.start
  <2>1. RuleOK(r) /\ r.duration = -1 /\ r.start = rule.start
    BY RuleOfPattern DEF Sane, TypeOK, CacheIsCurrent
  <2> QED BY <2>1, RuleIsTimely
<1>3. Cached(Here.rule, Here.cache)
  BY FilledIs, HereIs
<1> DEFINE x == TimeOfDay(rule.start)
           OnDay(d) == d * DayLength + x
<1>4. SingleDates(Here) = {rule.start} \cup dates.rdatetimes \cup {OnDay(d) : d \in dates.rdates}
  BY HereIs DEF SingleDates, OnDate
<1>5. x \in Nat
  BY <1>1, Constants, DivMod DEF TimeOfDay
<1> HIDE DEF x
<1>6. PICK b \in Nat : \A t \in dates.rdates \cup dates.rdatetimes : t \in Nat /\ t <= b
  <2>1. dates.rdates \cup dates.rdatetimes \in SUBSET Nat
    BY DEF Sane, TypeOK
  <2>2. IsFiniteSet(dates.rdates \cup dates.rdatetimes)
    BY FS_Union DEF Sane, TypeOK
  <2> QED BY <2>1, <2>2, FiniteIsBounded
<1> DEFINE m == rule.start + b + b * DayLength + x
<1>7. m \in Nat
  <2>1. b * DayLength \in Nat
    BY <1>6, Constants
  <2> QED BY <1>1, <1>5, <1>6, <2>1
<1>8. ASSUME NEW d \in dates.rdates
      PROVE  OnDay(d) \in 0 .. m
  <2>1. d \in Nat /\ d <= b
    BY <1>6
  <2>2. d * DayLength \in Nat /\ b * DayLength \in Nat /\ d * DayLength <= b * DayLength
    <3>1. d = b \/ d < b
      BY <1>6, <2>1
    <3>2. d < b => d * DayLength + DayLength <= b * DayLength
      BY <1>6, <2>1, Apart, Constants
    <3> QED BY <1>6, <2>1, <3>1, <3>2, Constants
  <2> QED BY <1>1, <1>5, <1>6, <2>2
<1>9. /\ rule.start \in 0 .. m
      /\ \A t \in dates.rdatetimes : t \in 0 .. m
  <2>1. b * DayLength \in Nat
    BY <1>6, Constants
  <2> QED BY <1>1, <1>5, <1>6, <2>1
<1> HIDE DEF m, OnDay
<1>12. SingleDates(Here) \in SUBSET (0 .. m)
  BY <1>4, <1>8, <1>9
<1>13. SingleDates(Here) \in SUBSET Nat
  BY <1>12
<1> QED BY <1>1, <1>2, <1>3, <1>4, <1>7, <1>12, <1>13, HereIs DEF RecurrenceOK

\* What the exception rules exclude.
LEMMA ExcludedIs ==
  ASSUME Sane, NEW t \in Int
  PROVE  Excluded(Here, t) <=> \/ Date(t) \in dates.exdates
                               \/ t \in dates.exdatetimes
                               \/ \E r \in exrules : Occurs(r, t)
<1>1. ASSUME NEW r \in exrules
      PROVE  RuleRecursAt(r, NoCache, t) <=> Occurs(r, t)
  <2>1. Timely(r) /\ r.duration = -1
    BY HereOK
  <2> QED BY <2>1, RecursAtRule
<1> QED BY <1>1, HereIs DEF Excluded

\* The occurrences by definition are what recurs and is not excluded.
LEMMA OccurrencesAre ==
  ASSUME Sane
  PROVE  /\ \A u \in Int : u <= Horizon =>
              (u \in RuleOccurrences(rule) <=> Recurs(rule, Here.cache, u))
         /\ \A u : u \in RuleOccurrences(rule) => u \in Nat /\ u <= Horizon
         /\ \A u : u \in Candidates(Here) /\ u <= Horizon
                <=> u \in SingleDates(Here) \cup RuleOccurrences(rule) /\ u <= Horizon
         /\ \A u : u \in Occurrences(dates.rdates)
                <=> u \in Candidates(Here) /\ u <= Horizon /\ ~Excluded(Here, u)
         /\ \A u : u \in Occurrences({})
                <=> /\ u \in {rule.start} \cup dates.rdatetimes \cup RuleOccurrences(rule)
                    /\ u <= Horizon /\ ~Excluded(Here, u)
<1>1. Cached(rule, Here.cache) /\ rule.start \in Nat /\ Horizon \in Int
  BY FilledIs, HereIs, HereOK, InputAssumption DEF Timely
<1>2. \A u : u \in RuleOccurrences(rule) <=> Recurs(rule, Here.cache, u) /\ u <= Horizon
  BY <1>1, RecursUpToHorizon
<1>3. \A u : Recurs(rule, Here.cache, u) => u \in Nat
  BY <1>1 DEF Recurs, Occurs
<1>4. \A u : u \in SingleDates(Here) => u \in Nat
  BY HereOK
<1>5. \A u : u \in Candidates(Here)
          <=> u \in Nat /\ (u \in SingleDates(Here) \/ Recurs(rule, Here.cache, u))
  BY HereIs DEF Candidates
<1>6. ASSUME NEW r \in exrules, NEW u \in Int, u <= Horizon
      PROVE  u \in RuleOccurrences(r) <=> Occurs(r, u)
  <2>1. RuleOK(r) /\ r.duration = -1
    BY HereOK
  <2>2. Cached(r, NoCache)
    BY <2>1 DEF Cached
  <2>3. EndDt(r, NoCache) = None
    BY <2>1, <2>2, EndIs
  <2> QED BY <1>6, <2>2, <2>3, RecursUpToHorizon DEF Recurs
<1>7. ASSUME NEW u \in Int, u <= Horizon
      PROVE  Excluded(Here, u) <=>
                \/ Date(u) \in dates.exdates
                \/ u \in dates.exdatetimes \cup UNION {RuleOccurrences(r) : r \in exrules}
  BY <1>6, <1>7, ExcludedIs
<1>8. SingleDates(Here) = {rule.start} \cup dates.rdatetimes \cup {OnDate(Here, d) : d \in dates.rdates}
  BY HereIs DEF SingleDates
<1>9. \A u : u \in Occurrences(dates.rdates)
          <=> /\ u \in SingleDates(Here) \cup RuleOccurrences(rule)
              /\ u <= Horizon /\ ~Excluded(Here, u)
  <2> DEFINE E == dates.exdatetimes \cup UNION {RuleOccurrences(r) : r \in exrules}
  <2>1. Occurrences(dates.rdates) = {t \in (SingleDates(Here) \cup RuleOccurrences(rule)) \ E :
                                        Date(t) \notin dates.exdates /\ t <= Horizon}
    BY <1>8 DEF Occurrences
  <2>2. \A u \in SingleDates(Here) \cup RuleOccurrences(rule) : u \in Int
    BY <1>2, <1>3, <1>4
  <2>3. \A u \in Int : u <= Horizon => (Excluded(Here, u) <=> Date(u) \in dates.exdates \/ u \in E)
    BY <1>7
  <2> HIDE DEF E
  <2> QED BY <2>1, <2>2, <2>3
<1>10. \A u : u \in Occurrences({})
          <=> /\ u \in {rule.start} \cup dates.rdatetimes \cup RuleOccurrences(rule)
              /\ u <= Horizon /\ ~Excluded(Here, u)
  <2> DEFINE E == dates.exdatetimes \cup UNION {RuleOccurrences(r) : r \in exrules}
             A == {rule.start} \cup dates.rdatetimes \cup RuleOccurrences(rule)
  <2>1. Occurrences({}) = {t \in A \ E : Date(t) \notin dates.exdates /\ t <= Horizon}
    <3>1. {OnDate(Here, d) : d \in {}} = {}
      OBVIOUS
    <3> QED BY <3>1 DEF Occurrences
  <2>2. \A u \in A : u \in Int
    BY <1>2, <1>3, <1>4, <1>8
  <2>3. \A u \in Int : u <= Horizon => (Excluded(Here, u) <=> Date(u) \in dates.exdates \/ u \in E)
    BY <1>7
  <2> HIDE DEF E, A
  <2>4. \A u : u \in Occurrences({}) <=> u \in A /\ u <= Horizon /\ ~Excluded(Here, u)
    BY <2>1, <2>2, <2>3
  <2> QED BY <2>4 DEF A
<1>11. \A u : u \in Candidates(Here) /\ u <= Horizon
          <=> u \in SingleDates(Here) \cup RuleOccurrences(rule) /\ u <= Horizon
  BY <1>2, <1>3, <1>4, <1>5
<1> QED BY <1>2, <1>3, <1>9, <1>10, <1>11

-----------------------------------------------------------------------------
(* The three answers. *)

\* The second before an occurrence of a simple sub-daily rule is Skipped, an
\* occurrence is not.
LEMMA SkippedIs ==
  ASSUME Sane, NEW x \in Int
  PROVE  /\ TimedRepetition(rule) = 0 => x \notin Skipped
         /\ \A u : u \in RuleOccurrences(rule) /\ u # rule.start /\ u = x + 1
                       /\ TimedRepetition(rule) # 0 => x \in Skipped
         /\ Recurs(rule, Here.cache, x) => x \notin Skipped
<1>1. Timely(rule) /\ rule.start \in Nat /\ Cached(rule, Here.cache)
  BY HereOK, FilledIs, HereIs DEF Timely
<1>2. TimedRepetition(rule) = 0 => Skipped = {}
  BY DEF Skipped
<1>3. TimedRepetition(rule) # 0 => Skipped = {u - 1 : u \in RuleOccurrences(rule) \ {rule.start}}
  BY DEF Skipped
<1>4. \A u : u \in RuleOccurrences(rule) => u \in Int
  BY OccurrencesAre
<1>5. ASSUME NEW u, u \in RuleOccurrences(rule), u # rule.start, u = x + 1, TimedRepetition(rule) # 0
      PROVE  x \in Skipped
  <2>1. u - 1 = x
    BY <1>5
  <2> QED BY <1>3, <1>5, <2>1
<1>6. ASSUME Recurs(rule, Here.cache, x), x \in Skipped
      PROVE  FALSE
  <2> DEFINE rep == TimedRepetition(rule)
             start == rule.start
  <2>1. rep # 0
    BY <1>2, <1>6
  <2>2. rep \in Int /\ rep > 1 /\ \A v \in Int : Occurs(rule, v) <=> v >= start /\ (v - start) % rep = 0
    BY <1>1, <2>1, TimedOccurs
  <2>3. PICK u \in RuleOccurrences(rule) : x = u - 1
    BY <1>3, <1>6, <2>1
  <2>4. u \in Int /\ Occurs(rule, u) /\ Occurs(rule, x)
    BY <1>1, <1>4, <1>6, <2>3, RecursUpToHorizon DEF Recurs
  <2>5. (u - start) % rep = 0 /\ (x - start) % rep = 0
    BY <2>2, <2>4
  <2>6. u - start \in Int /\ x - start \in Int /\ u - start = (x - start) + 1
    BY <1>1, <2>3, <2>4
  <2> HIDE DEF rep, start
  <2> DEFINE p == (u - start) \div rep
             q == (x - start) \div rep
  <2>7. p \in Int /\ u - start = p * rep
    <3> HIDE DEF p
    <3> QED BY <2>2, <2>5, <2>6, NoRemainder DEF p
  <2>8. q \in Int /\ x - start = q * rep
    <3> HIDE DEF q
    <3> QED BY <2>2, <2>5, <2>6, NoRemainder DEF q
  <2> HIDE DEF p, q
  <2>9. p * rep \in Int /\ q * rep \in Int /\ p * rep = q * rep + 1
    BY <2>2, <2>6, <2>7, <2>8
  <2>10. q < p => q * rep + rep <= p * rep
    BY <2>2, <2>7, <2>8, Apart
  <2>11. p < q => p * rep + rep <= q * rep
    BY <2>2, <2>7, <2>8, Apart
  <2>12. p = q => p * rep = q * rep
    OBVIOUS
  <2> QED BY <2>2, <2>7, <2>8, <2>9, <2>10, <2>11, <2>12
<1> QED BY <1>2, <1>5, <1>6

\* From where nothing is skipped nothing is overlooked.
LEMMA NotOverlooked ==
  ASSUME Sane, ~EndMissed, NEW x \in Int, x \notin Skipped,
         NEW u \in Candidates(Here), u <= Horizon, x < u
  PROVE  ~Overlooked(Here, x, u)
<1> SUFFICES ASSUME Overlooked(Here, x, u) PROVE FALSE
  OBVIOUS
<1>1. u \notin SingleDates(Here) /\ NextMissed(rule, x, u)
  BY HereIs DEF Overlooked
<1>2. u \in Int /\ Recurs(rule, Here.cache, u)
  BY <1>1, HereIs DEF Candidates
<1>3. u \in RuleOccurrences(rule)
  BY <1>2, OccurrencesAre
<1>4. rule.start \in SingleDates(Here)
  BY HereOK
<1>5. CASE TimedRepetition(rule) = 0
  <2>1. rule.duration = 0 /\ u = rule.end /\ u = IntervalDateTime(rule, IntervalOf(rule, u))
    BY <1>1, <1>5 DEF NextMissed
  <2>2. EndMissed
    BY <1>3, <1>5, <2>1 DEF EndMissed
  <2> QED BY <2>2
<1>6. CASE TimedRepetition(rule) # 0
  <2>1. u = rule.start \/ u = x + 1
    BY <1>1, <1>6 DEF NextMissed
  <2>2. u # rule.start
    BY <1>1, <1>4
  <2> QED BY <1>3, <1>6, <2>1, <2>2, SkippedIs
<1> QED BY <1>5, <1>6

\* The properties' excuse for the 1000 loops is that of the lemmas.
LEMMA GivesUpIs ==
  ASSUME Sane
  PROVE  GivesUp <=> GivesUpOn(Here)
<1>1. {t \in SingleDates(Here) \cup RuleOccurrences(rule) : t <= Horizon /\ Excluded(Here, t)}
        = {u \in Candidates(Here) : u <= Horizon /\ Excluded(Here, u)}
  BY OccurrencesAre
<1> QED BY <1>1 DEF GivesUp, GivesUpOn

\* The next occurrence of the to-do's recurrence.
LEMMA NextHere ==
  ASSUME Sane, NEW t \in Int, ~Misses(t)
  PROVE  LET a == GetNextDateTime(Here, t)
         IN  /\ a = None \/ (a \in Candidates(Here) /\ t < a /\ ~Excluded(Here, a))
             /\ \A u \in Candidates(Here) : u <= Horizon /\ t < u /\ ~Excluded(Here, u)
                    => a # None /\ a <= u
<1>1. RecurrenceOK(Here) /\ ~GivesUpOn(Here) /\ ~EndMissed /\ t \notin Skipped
  BY HereOK, GivesUpIs DEF Misses
<1>2. \A u \in SingleDates(Here) : u > t /\ Excluded(Here, u) => u \notin Skipped
  BY DEF Misses
<1>3. \A u \in Candidates(Here) : u <= Horizon /\ t < u => ~Overlooked(Here, t, u)
  BY <1>1, NotOverlooked
<1>4. ASSUME NEW x \in Candidates(Here), NEW u \in Candidates(Here),
             u <= Horizon, t < x, x < u, Excluded(Here, x)
      PROVE  ~Overlooked(Here, x, u)
  <2>1. x \in Int /\ (x \in SingleDates(Here) \/ Recurs(rule, Here.cache, x))
    BY HereIs DEF Candidates
  <2>2. x \notin Skipped
    <3>1. CASE x \in SingleDates(Here)
      <4>1. x > t
        BY <1>4, <2>1
      <4> QED BY <1>2, <1>4, <3>1, <4>1
    <3>2. CASE Recurs(rule, Here.cache, x)
      BY <2>1, <3>2, SkippedIs
    <3> QED BY <2>1, <3>1, <3>2
  <2> QED BY <1>1, <1>4, <2>1, <2>2, NotOverlooked
<1> QED BY <1>1, <1>3, <1>4, NextFinds

\* The next occurrence.
LEMMA NextIsRight ==
  ASSUME Sane, NEW t \in Int
  PROVE  NextAgrees(Here, Occurrences(dates.rdates), t) \/ Misses(t)
<1> SUFFICES ASSUME ~Misses(t)
             PROVE  NextAgrees(Here, Occurrences(dates.rdates), t)
  OBVIOUS
<1> DEFINE next  == GetNextDateTime(Here, t)
           later == {u \in Occurrences(dates.rdates) : u > t}
<1>1. /\ next = None \/ (next \in Candidates(Here) /\ t < next /\ ~Excluded(Here, next))
      /\ \A u \in Candidates(Here) : u <= Horizon /\ t < u /\ ~Excluded(Here, u)
             => next # None /\ next <= u
  BY NextHere
<1>2. \A u : u \in later <=> /\ u \in Int /\ u \in Candidates(Here) /\ u <= Horizon
                             /\ t < u /\ ~Excluded(Here, u)
  <2>1. \A u \in Candidates(Here) : u \in Int
    BY DEF Candidates
  <2>2. \A u : u \in later <=> u \in Candidates(Here) /\ u <= Horizon /\ ~Excluded(Here, u) /\ u > t
    BY OccurrencesAre
  <2>3. \A u \in Int : u > t <=> t < u
    OBVIOUS
  <2> HIDE DEF later
  <2> QED BY <2>1, <2>2, <2>3
<1>3. next \in Int /\ Horizon \in Int
  BY <1>1, InputAssumption DEF Candidates, None
<1> HIDE DEF next, later
<1>4. CASE later = {}
  <2>1. next = None \/ next > Horizon
    BY <1>1, <1>2, <1>3, <1>4
  <2> QED BY <1>4, <2>1 DEF NextAgrees, next, later
<1>5. CASE later # {}
  <2>1. PICK u : u \in later
    BY <1>5
  <2>2. next \in later /\ \A v \in later : next <= v
    <3>1. \A v \in later : next # None /\ next <= v
      BY <1>1, <1>2
    <3>2. next <= Horizon
      BY <1>2, <1>3, <2>1, <3>1
    <3> QED BY <1>1, <1>2, <1>3, <2>1, <3>1, <3>2
  <2>3. Min(later) \in later /\ \A v \in later : Min(later) <= v
    <3>1. later \in SUBSET Int /\ (\A v \in later : t <= v)
      BY <1>2
    <3> QED BY <1>5, <3>1, MinOf
  <2>4. next = Min(later)
    <3>1. next <= Min(later) /\ Min(later) <= next /\ Min(later) \in Int
      BY <1>2, <2>2, <2>3
    <3> QED BY <1>3, <3>1
  <2> QED BY <1>5, <2>4 DEF NextAgrees, next, later
<1> QED BY <1>4, <1>5

\* The previous occurrence.
LEMMA PreviousIsRight ==
  ASSUME Sane, NEW t \in Int, t <= Horizon
  PROVE  PreviousAgrees(Here, Occurrences(dates.rdates), t) \/ GivesUp
<1> SUFFICES ASSUME ~GivesUp
             PROVE  PreviousAgrees(Here, Occurrences(dates.rdates), t)
  OBVIOUS
<1> DEFINE prev    == GetPreviousDateTime(Here, t)
           earlier == {u \in Occurrences(dates.rdates) : u < t}
<1>1. /\ prev = None \/ (prev \in Candidates(Here) /\ prev < t /\ ~Excluded(Here, prev))
      /\ \A u \in Candidates(Here) : u < t /\ ~Excluded(Here, u) => prev # None /\ u <= prev
  BY HereOK, GivesUpIs, PreviousFinds
<1>2. \A u : u \in earlier <=> u \in Int /\ u \in Candidates(Here) /\ u < t /\ ~Excluded(Here, u)
  <2>1. \A u \in Candidates(Here) : u \in Int
    BY DEF Candidates
  <2>2. \A u : u \in earlier <=> u \in Candidates(Here) /\ u <= Horizon /\ ~Excluded(Here, u) /\ u < t
    BY OccurrencesAre
  <2>3. \A u \in Int : u < t => u <= Horizon
    BY InputAssumption
  <2> HIDE DEF earlier
  <2> QED BY <2>1, <2>2, <2>3
<1>3. prev \in Int
  BY <1>1 DEF Candidates, None
<1> HIDE DEF prev, earlier
<1>4. CASE earlier = {}
  <2>1. prev = None
    BY <1>1, <1>2, <1>3, <1>4
  <2>2. LastOf[earlier] = None
    BY <1>4, {} \in SUBSET Int DEF LastOf
  <2> QED BY <2>1, <2>2 DEF PreviousAgrees, prev, earlier
<1>5. CASE earlier # {}
  <2>1. PICK u : u \in earlier
    BY <1>5
  <2>2. prev \in earlier /\ \A v \in earlier : v <= prev
    <3>1. \A v \in earlier : prev # None /\ v <= prev
      BY <1>1, <1>2
    <3> QED BY <1>1, <1>2, <1>3, <2>1, <3>1
  <2>3. LastOf[earlier] \in earlier /\ \A v \in earlier : v <= LastOf[earlier]
    <3>1. earlier \in SUBSET Int /\ (\A v \in earlier : v <= t)
      BY <1>2
    <3> QED BY <1>5, <3>1, GreatestLast
  <2>4. prev = LastOf[earlier]
    <3>1. prev <= LastOf[earlier] /\ LastOf[earlier] <= prev /\ LastOf[earlier] \in Int
      BY <1>2, <2>2, <2>3
    <3> QED BY <1>3, <3>1
  <2> QED BY <2>4 DEF PreviousAgrees, prev, earlier
<1> QED BY <1>4, <1>5

\* The list of an interval.
LEMMA ListIsRight ==
  ASSUME Sane, \A r \in {rule} \cup exrules : ~ (TimedRepetition(r) > 0), ~Contradictory,
         NEW t \in Int, t >= rule.start, NEW end \in Int, end <= Horizon, end % Minute # 0
  PROVE  TimesInInterval(Here, t, end)
           = {u \in Listed(Here, Occurrences(dates.rdates)) : u >= t /\ u <= end}
<1> DEFINE c      == Here.cache
           days   == {OnDate(Here, d) : d \in dates.rdates}
           occs   == Occurrences(dates.rdates)
           listed == Listed(Here, occs)
           In(u)  == u >= t /\ u <= end
           byRule == TimesInRuleInterval(rule, c, t, end)
           times  == byRule \cup {u \in dates.rdatetimes \cup days : In(u)}
           ex     == UNION {TimesInRuleInterval(r, NoCache, t, end) : r \in exrules}
<1>1. TimesInInterval(Here, t, end)
        = {u \in times : Date(u) \notin dates.exdates} \ (ex \cup dates.exdatetimes)
  BY HereIs DEF TimesInInterval
<1>2. ASSUME NEW r, Timely(r), r \in {rule} \cup exrules
      PROVE  TimedRepetition(r) = 0
  BY <1>2, TimedOccurs
<1>3. \A u : u \in byRule <=> u \in RuleOccurrences(rule) /\ In(u)
  <2>1. Cached(rule, c) /\ Timely(rule) /\ TimedRepetition(rule) = 0
    BY <1>2, FilledIs, HereIs, HereOK
  <2>2. rule.duration > 0 => c.end # None
    BY DEF Contradictory
  <2> HIDE DEF c
  <2>3. byRule = {u \in RuleOccurrences(rule) : t <= u /\ u <= end}
    BY <2>1, <2>2, RuleList
  <2>4. \A u \in RuleOccurrences(rule) : u \in Int
    BY OccurrencesAre
  <2> QED BY <2>3, <2>4
<1>4. ASSUME NEW r \in exrules, NEW u
      PROVE  u \in TimesInRuleInterval(r, NoCache, t, end) <=> u \in Int /\ Occurs(r, u) /\ In(u)
  <2>1. RuleOK(r) /\ Timely(r) /\ r.duration = -1 /\ r.start = rule.start /\ TimedRepetition(r) = 0
    BY <1>2, HereOK
  <2>2. Cached(r, NoCache)
    BY <2>1 DEF Cached
  <2>3. TimesInRuleInterval(r, NoCache, t, end) = {v \in RuleOccurrences(r) : t <= v /\ v <= end}
    BY <2>1, <2>2, RuleList
  <2>4. EndDt(r, NoCache) = None
    BY <2>1, <2>2, EndIs
  <2>5. \A v : v \in RuleOccurrences(r) <=> v \in Int /\ Occurs(r, v) /\ v <= Horizon
    BY <2>2, <2>4, RecursUpToHorizon DEF Recurs, Occurs
  <2>6. \A v \in Int : v <= end => v <= Horizon
    BY InputAssumption
  <2> QED BY <2>3, <2>5, <2>6
<1>5. \A u : u \in ex <=> \E r \in exrules : u \in Int /\ Occurs(r, u) /\ In(u)
  BY <1>4
<1>6. SingleDates(Here) = {rule.start} \cup dates.rdatetimes \cup days
  BY HereIs DEF SingleDates
<1>7. \A u : u \in occs <=> /\ u \in {rule.start} \cup dates.rdatetimes \cup days \cup RuleOccurrences(rule)
                            /\ u <= Horizon /\ ~Excluded(Here, u)
  BY <1>6, OccurrencesAre
<1>8. \A u : u \in {rule.start} \cup dates.rdatetimes \cup days \cup RuleOccurrences(rule) => u \in Int
  BY <1>6, HereOK, OccurrencesAre
<1>9. listed = IF rule.start \in RuleOccurrences(rule) \cup dates.rdatetimes \cup days
               THEN occs ELSE occs \ {rule.start}
  BY HereIs DEF Listed
<1> HIDE DEF days, occs, byRule, ex, listed
<1>10. \A u : u \in listed <=> /\ u \in RuleOccurrences(rule) \cup dates.rdatetimes \cup days
                               /\ u <= Horizon /\ ~Excluded(Here, u)
  BY <1>7, <1>9
<1>11. \A u \in Int : In(u) => /\ u <= Horizon
                               /\ Excluded(Here, u) <=> \/ Date(u) \in dates.exdates
                                                        \/ u \in dates.exdatetimes
                                                        \/ u \in ex
  <2> SUFFICES ASSUME NEW u \in Int, In(u)
               PROVE  /\ u <= Horizon
                      /\ Excluded(Here, u) <=> \/ Date(u) \in dates.exdates
                                               \/ u \in dates.exdatetimes
                                               \/ u \in ex
    OBVIOUS
  <2>1. u <= Horizon
    BY InputAssumption
  <2>2. u \in ex <=> \E r \in exrules : Occurs(r, u)
    BY <1>5
  <2> QED BY <2>1, <2>2, ExcludedIs
<1>12. \A u : u \in times <=> u \in RuleOccurrences(rule) \cup dates.rdatetimes \cup days /\ In(u)
  BY <1>3
<1> HIDE DEF times, In
<1>13. \A u : u \in TimesInInterval(Here, t, end) <=> u \in listed /\ In(u)
  BY <1>1, <1>8, <1>10, <1>11, <1>12
<1> QED BY <1>13 DEF In, listed, occs

\* What the properties ask is answered in every state that is sane.
LEMMA SaneAnswers ==
  ASSUME Sane
  PROVE  AnswersAgree
<1>1. ASSUME NEW t \in Asked
      PROVE  t \in Int /\ t <= Horizon
  BY InputAssumption
<1>2. rule.start \in Int
  BY HereOK DEF Timely
<1>3. ASSUME NEW t \in Asked, ~ (\E r \in {rule} \cup exrules : TimedRepetition(r) > 0),
             ~ (t < rule.start), ~Contradictory, NEW end \in Asked, end % Minute # 0
      PROVE  TimesInInterval(Here, t, end)
               = {u \in Listed(Here, Occurrences(dates.rdates)) : u >= t /\ u <= end}
  <2>1. t >= rule.start
    BY <1>1, <1>2, <1>3
  <2> QED BY <1>1, <1>3, <2>1, ListIsRight
<1>4. \A t \in Asked : NextAgrees(Here, Occurrences(dates.rdates), t) \/ Misses(t)
  BY <1>1, NextIsRight
<1>5. \A t \in Asked : PreviousAgrees(Here, Occurrences(dates.rdates), t) \/ GivesUp
  BY <1>1, PreviousIsRight
<1>6. \A t \in Asked :
            \/ \E r \in {rule} \cup exrules : TimedRepetition(r) > 0
            \/ t < rule.start \/ Contradictory
            \/ \A end \in {u \in Asked : u >= t /\ u % Minute # 0} :
                   TimesInInterval(Here, t, end)
                     = {u \in Listed(Here, Occurrences(dates.rdates)) : u >= t /\ u <= end}
  BY <1>3
<1> QED BY <1>4, <1>5, <1>6 DEF AnswersAgree

-----------------------------------------------------------------------------
(* Every step leaves rules and cache as they should be. *)

\* A rule of another start, duration or end is still one of its pattern.
LEMMA RuleChanged ==
  ASSUME NEW P, NEW r, RuleOf(r, P)
  PROVE  /\ \A t \in Starts : RuleOf([r EXCEPT !.start = t], P)
         /\ \A n \in Durations : RuleOf([r EXCEPT !.duration = n], P)
         /\ \A t \in Untils : RuleOf([r EXCEPT !.duration = 0, !.end = t], P)
<1>1. /\ r \in RuleType /\ r.start \in Starts /\ (r.duration = 0 => r.end # None)
      /\ [unit |-> r.unit, freq |-> r.freq, days |-> r.days] \in P
  BY DEF RuleOf
<1>2. ASSUME NEW t \in Starts
      PROVE  RuleOf([r EXCEPT !.start = t], P)
  <2> DEFINE q == [r EXCEPT !.start = t]
  <2>1. t \in Nat
    BY InputAssumption
  <2>2. /\ q \in RuleType /\ q.unit = r.unit /\ q.freq = r.freq /\ q.days = r.days
        /\ q.start = t /\ q.duration = r.duration /\ q.end = r.end
    BY <1>1, <2>1 DEF RuleType
  <2> HIDE DEF q
  <2>3. RuleOf(q, P)
    BY <1>1, <2>2 DEF RuleOf
  <2> QED BY <2>3 DEF q
<1>3. ASSUME NEW n \in Durations
      PROVE  RuleOf([r EXCEPT !.duration = n], P)
  <2> DEFINE q == [r EXCEPT !.duration = n]
  <2>1. n \in {-1} \cup Nat /\ n # 0
    BY InputAssumption
  <2>2. /\ q \in RuleType /\ q.unit = r.unit /\ q.freq = r.freq /\ q.days = r.days
        /\ q.start = r.start /\ q.duration = n
    BY <1>1, <2>1 DEF RuleType
  <2> HIDE DEF q
  <2>3. RuleOf(q, P)
    BY <1>1, <2>1, <2>2 DEF RuleOf
  <2> QED BY <2>3 DEF q
<1>4. ASSUME NEW t \in Untils
      PROVE  RuleOf([r EXCEPT !.duration = 0, !.end = t], P)
  <2> DEFINE q == [r EXCEPT !.duration = 0, !.end = t]
  <2>1. t \in Nat /\ t # None
    BY InputAssumption DEF None
  <2>2. /\ q \in RuleType /\ q.unit = r.unit /\ q.freq = r.freq /\ q.days = r.days
        /\ q.start = r.start /\ q.end = t
    BY <1>1, <2>1 DEF RuleType
  <2> HIDE DEF q
  <2>3. RuleOf(q, P)
    BY <1>1, <2>1, <2>2 DEF RuleOf
  <2> QED BY <2>3 DEF q
<1> QED BY <1>2, <1>3, <1>4

\* A new rule is of its pattern.
LEMMA RuleNew ==
  ASSUME NEW P, NEW p \in P, P \subseteq Patterns \cup ExPatterns, NEW t \in Starts,
         NEW n \in Durations \cup {-1}
  PROVE  /\ RuleOf(Rule(p, t, n), P)
         /\ Rule(p, t, n).start = t /\ Rule(p, t, n).duration = n
<1> DEFINE q == Rule(p, t, n)
<1>1. p \in [unit : Units, freq : Nat \ {0}, days : SUBSET Nat] /\ t \in Nat
  BY InputAssumption
<1>2. n \in {-1} \cup Nat /\ n # 0
  BY InputAssumption
<1>3. /\ q \in RuleType /\ q.unit = p.unit /\ q.freq = p.freq /\ q.days = p.days
      /\ q.start = t /\ q.duration = n
  BY <1>1, <1>2 DEF Rule, RuleType, None
<1>4. [unit |-> q.unit, freq |-> q.freq, days |-> q.days] = p
  <2> HIDE DEF q
  <2> QED BY <1>1, <1>3
<1> HIDE DEF q
<1>5. RuleOf(q, P)
  BY <1>2, <1>3, <1>4 DEF RuleOf
<1> QED BY <1>3, <1>5 DEF q

\* What setStartDateTime() leaves.
LEMMA RestartedIs ==
  ASSUME Sane, NEW t \in Starts, Restarted(t)
  PROVE  /\ RuleOf(rule', Patterns)
         /\ \A r \in exrules' : RuleOf(r, ExPatterns) /\ r.duration = -1
         /\ CacheIsCurrent'
<1>1. /\ RuleOf(rule, Patterns)
      /\ \A r \in exrules : RuleOf(r, ExPatterns) /\ r.duration = -1
  BY DEF Sane, TypeOK
<1>2. /\ rule' = [rule EXCEPT !.start = t]
      /\ exrules' = {[r EXCEPT !.start = t] : r \in exrules}
      /\ cache' = NoCache
  BY DEF Restarted, Dirty
<1>3. RuleOf(rule', Patterns) /\ rule'.start = t
  <2>1. RuleOf(rule', Patterns)
    BY <1>1, <1>2, RuleChanged
  <2>2. rule \in RuleType
    BY <1>1 DEF RuleOf
  <2> QED BY <1>2, <2>1, <2>2 DEF RuleType
<1>4. ASSUME NEW r \in exrules
      PROVE  LET q == [r EXCEPT !.start = t]
             IN  RuleOf(q, ExPatterns) /\ q.duration = -1 /\ q.start = t
  <2> DEFINE q == [r EXCEPT !.start = t]
  <2>1. RuleOf(q, ExPatterns)
    BY <1>1, RuleChanged
  <2>2. r \in RuleType /\ r.duration = -1
    BY <1>1 DEF RuleOf
  <2>3. q.duration = -1 /\ q.start = t
    BY <2>2 DEF RuleType
  <2> QED BY <2>1, <2>3
<1>5. \A q \in exrules' : RuleOf(q, ExPatterns) /\ q.duration = -1 /\ q.start = t
  BY <1>2, <1>4
<1> QED BY <1>2, <1>3, <1>5 DEF CacheIsCurrent

SearchType == [active : BOOLEAN, next : {None} \cup Nat, rightNow : {None} \cup Nat]

\* The parts of TypeOK.
TypeOfRules == /\ RuleOf(rule, Patterns)
               /\ \A r \in exrules : RuleOf(r, ExPatterns) /\ r.duration = -1

TypeOfDates == /\ dates \in [rdates : SUBSET Nat, rdatetimes : SUBSET Nat,
                             exdates : SUBSET Nat, exdatetimes : SUBSET Nat]
               /\ IsFiniteSet(dates.rdates) /\ IsFiniteSet(dates.rdatetimes)

TypeOfTodo == /\ now \in Nat /\ changes \in Nat /\ due \in {None} \cup Nat
              /\ completed \in BOOLEAN /\ search \in SearchType

\* The type invariant by variables.
LEMMA TypeParts == TypeOK <=> TypeOfRules /\ TypeOfDates /\ TypeOfTodo
<1>1. ({now, changes} \subseteq Nat <=> now \in Nat /\ changes \in Nat)
      /\ ({due, search.next, search.rightNow} \subseteq {None} \cup Nat
            <=> /\ due \in {None} \cup Nat /\ search.next \in {None} \cup Nat
                /\ search.rightNow \in {None} \cup Nat)
      /\ ({completed, search.active} \subseteq BOOLEAN
            <=> completed \in BOOLEAN /\ search.active \in BOOLEAN)
  OBVIOUS
<1>2. search \in SearchType
        <=> /\ search = [active |-> search.active, next |-> search.next, rightNow |-> search.rightNow]
            /\ search.active \in BOOLEAN /\ search.next \in {None} \cup Nat
            /\ search.rightNow \in {None} \cup Nat
  BY DEF SearchType
<1> QED BY <1>1, <1>2 DEF TypeOK, TypeOfRules, TypeOfDates, TypeOfTodo

\* getNextDateTime() answers with a date/time or none.
LEMMA NextIsTyped ==
  ASSUME Sane, NEW t \in Int
  PROVE  GetNextDateTime(Here, t) \in {None} \cup Nat
BY HereOK, NextIsDate DEF Candidates

\* The to-do begins that way,
LEMMA SaneInit == Init => Sane
<1> SUFFICES ASSUME Init PROVE Sane
  OBVIOUS
<1>1. PICK p \in Patterns, t \in Starts, n \in Durations : rule = Rule(p, t, n)
  BY DEF Init
<1>2. RuleOf(rule, Patterns) /\ rule.start = t
  BY <1>1, RuleNew
<1>3. \A r \in exrules : RuleOf(r, ExPatterns) /\ r.duration = -1 /\ r.start = rule.start
  <2>1. ASSUME NEW q \in ExPatterns
        PROVE  /\ RuleOf(Rule(q, rule.start, -1), ExPatterns)
               /\ Rule(q, rule.start, -1).duration = -1 /\ Rule(q, rule.start, -1).start = rule.start
    BY <1>2, RuleNew
  <2> QED BY <2>1 DEF Init
<1>4. TypeOfRules /\ CacheIsCurrent
  BY <1>2, <1>3 DEF TypeOfRules, CacheIsCurrent, Init
<1>5. TypeOfDates
  BY FS_EmptySet DEF Init, TypeOfDates, NoDates
<1>6. TypeOfTodo
  BY DEF Init, TypeOfTodo, Idle, SearchType
<1> QED BY <1>4, <1>5, <1>6, TypeParts DEF Sane

\* and every operation keeps it so.
LEMMA SaneStep == Sane /\ [Next]_vars => Sane'
<1> SUFFICES ASSUME Sane, [Next]_vars PROVE Sane'
  OBVIOUS
<1>1. TypeOfRules /\ TypeOfDates /\ TypeOfTodo /\ CacheIsCurrent
  BY TypeParts DEF Sane
<1>2. SUFFICES TypeOfRules' /\ TypeOfDates' /\ TypeOfTodo' /\ CacheIsCurrent'
  BY TypeParts, PTL DEF Sane
<1>3. ASSUME UNCHANGED <<rule, exrules, cache>>
      PROVE  TypeOfRules' /\ CacheIsCurrent'
  BY <1>1, <1>3 DEF TypeOfRules, CacheIsCurrent
<1>4. ASSUME UNCHANGED dates
      PROVE  TypeOfDates'
  BY <1>1, <1>4 DEF TypeOfDates
<1>5. ASSUME UNCHANGED <<rule, exrules>>, cache' = Filled(rule, cache)
      PROVE  TypeOfRules' /\ CacheIsCurrent'
  BY <1>1, <1>5 DEF TypeOfRules, CacheIsCurrent, Filled
<1>6. ASSUME Change, UNCHANGED <<due, completed>>
      PROVE  TypeOfTodo'
  BY <1>1, <1>6 DEF TypeOfTodo, Change
<1>7. DtDue \in Nat
  <2>1. rule.start \in Nat
    BY HereOK DEF Timely
  <2> QED BY <1>1, <2>1 DEF DtDue, TypeOfTodo
<1>8. CASE SetDuration
  <2>1. PICK n \in Durations : /\ Change /\ rule' = [rule EXCEPT !.duration = n] /\ cache' = NoCache
                               /\ UNCHANGED <<exrules, dates, due, completed>>
    BY <1>8 DEF SetDuration, Dirty
  <2>2. RuleOf(rule', Patterns) /\ rule'.start = rule.start
    <3>1. RuleOf(rule', Patterns)
      BY <1>1, <2>1, RuleChanged DEF TypeOfRules
    <3>2. rule \in RuleType
      BY <1>1 DEF TypeOfRules, RuleOf
    <3> QED BY <2>1, <3>1, <3>2 DEF RuleType
  <2> QED BY <1>1, <1>4, <1>6, <2>1, <2>2 DEF TypeOfRules, CacheIsCurrent
<1>9. CASE SetEndDateTime
  <2>1. PICK t \in Untils : /\ Change /\ rule' = [rule EXCEPT !.duration = 0, !.end = t] /\ cache' = NoCache
                            /\ UNCHANGED <<exrules, dates, due, completed>>
    BY <1>9 DEF SetEndDateTime, Dirty
  <2>2. RuleOf(rule', Patterns) /\ rule'.start = rule.start
    <3>1. RuleOf(rule', Patterns)
      BY <1>1, <2>1, RuleChanged DEF TypeOfRules
    <3>2. rule \in RuleType
      BY <1>1 DEF TypeOfRules, RuleOf
    <3> QED BY <2>1, <3>1, <3>2 DEF RuleType
  <2> QED BY <1>1, <1>4, <1>6, <2>1, <2>2 DEF TypeOfRules, CacheIsCurrent
<1>10. CASE AddDate
  <2>1. PICK list \in DOMAIN NoDates, t \in Instants :
            LET x == IF list \in {"rdates", "exdates"} THEN Date(t) ELSE t
            IN  /\ Change /\ dates' = [dates EXCEPT ![list] = @ \cup {x}]
                /\ UNCHANGED <<rule, cache, exrules, due, completed>>
    BY <1>10 DEF AddDate
  <2> DEFINE x == IF list \in {"rdates", "exdates"} THEN Date(t) ELSE t
  <2>2. x \in Nat
    <3>1. t \in Nat
      BY InputAssumption
    <3>2. Date(t) \in Nat
      BY <3>1, Constants DEF Date
    <3> QED BY <3>1, <3>2
  <2>3. dates' = [dates EXCEPT ![list] = @ \cup {x}]
    BY <2>1
  <2> HIDE DEF x
  <2>4. TypeOfDates'
    <3>1. list \in {"rdates", "rdatetimes", "exdates", "exdatetimes"}
      BY DEF NoDates
    <3>2. dates' \in [rdates : SUBSET Nat, rdatetimes : SUBSET Nat,
                      exdates : SUBSET Nat, exdatetimes : SUBSET Nat]
      BY <1>1, <2>2, <2>3, <3>1 DEF TypeOfDates
    <3>3. /\ dates'.rdates = dates.rdates \/ dates'.rdates = dates.rdates \cup {x}
          /\ dates'.rdatetimes = dates.rdatetimes \/ dates'.rdatetimes = dates.rdatetimes \cup {x}
      BY <1>1, <2>3, <3>1 DEF TypeOfDates
    <3>4. IsFiniteSet(dates.rdates \cup {x}) /\ IsFiniteSet(dates.rdatetimes \cup {x})
      BY <1>1, FS_AddElement DEF TypeOfDates
    <3> QED BY <1>1, <3>2, <3>3, <3>4 DEF TypeOfDates
  <2> QED BY <1>3, <1>6, <2>1, <2>4
<1>11. CASE SetFirstDue
  <2>1. PICK t \in Starts : Change /\ Restarted(t) /\ UNCHANGED <<dates, due, completed>>
    BY <1>11 DEF SetFirstDue
  <2> QED BY <1>4, <1>6, <2>1, RestartedIs DEF TypeOfRules
<1>12. CASE Query
  <2>1. TypeOfTodo'
    BY <1>1, <1>12 DEF Query, TypeOfTodo
  <2> QED BY <1>4, <1>5, <1>12, <2>1 DEF Query
<1>13. CASE SetCompleted
  <2>1. cache' = Filled(rule, cache) /\ UNCHANGED <<rule, exrules, dates, due, now, changes>>
    BY <1>13, HereIs DEF SetCompleted
  <2>2. GetNextDateTime(Here, DtDue) \in {None} \cup Nat
    BY <1>7, NextIsTyped
  <2>3. \/ search' = [active |-> TRUE, next |-> GetNextDateTime(Here, DtDue), rightNow |-> now]
           /\ UNCHANGED completed
        \/ completed' = TRUE /\ UNCHANGED search
    BY <1>13 DEF SetCompleted
  <2>4. TypeOfTodo'
    <3>1. search' \in SearchType /\ completed' \in BOOLEAN
      <4> DEFINE n == GetNextDateTime(Here, DtDue)
      <4>1. now \in {None} \cup Nat /\ n \in {None} \cup Nat
        BY <1>1, <2>2 DEF TypeOfTodo
      <4> HIDE DEF n
      <4>2. [active |-> TRUE, next |-> n, rightNow |-> now] \in SearchType
        BY <4>1 DEF SearchType
      <4>3. search \in SearchType /\ completed \in BOOLEAN
        BY <1>1 DEF TypeOfTodo
      <4> QED BY <2>3, <4>2, <4>3 DEF n
    <3> QED BY <1>1, <2>1, <3>1 DEF TypeOfTodo
  <2> QED BY <1>4, <1>5, <2>1, <2>4
<1>14. CASE SearchNext
  <2>1. search' = [search EXCEPT !.next = GetNextDateTime(Here, search.next)]
        /\ UNCHANGED <<rule, cache, exrules, dates, due, completed, now, changes>>
    BY <1>14 DEF SearchNext
  <2>2. GetNextDateTime(Here, search.next) \in {None} \cup Nat
    <3>1. search.next \in Int
      BY <1>1 DEF TypeOfTodo, SearchType, None
    <3> QED BY <3>1, NextIsTyped
  <2>3. TypeOfTodo'
    BY <1>1, <2>1, <2>2 DEF TypeOfTodo, SearchType
  <2> QED BY <1>3, <1>4, <2>1, <2>3
<1>15. CASE SearchFails
  <2>1. TypeOfTodo'
    BY <1>1, <1>15 DEF SearchFails, TypeOfTodo, Idle, SearchType
  <2> QED BY <1>3, <1>4, <1>15, <2>1 DEF SearchFails
<1>16. CASE SearchFinds
  <2>1. TypeOfTodo'
    <3>1. search.next \in {None} \cup Nat
      BY <1>1 DEF TypeOfTodo, SearchType
    <3> QED BY <1>1, <1>16, <3>1 DEF SearchFinds, TypeOfTodo, Idle, SearchType
  <2>2. TypeOfRules' /\ CacheIsCurrent'
    <3>1. rule.start \in Starts
      BY <1>1 DEF TypeOfRules, RuleOf
    <3>2. CASE search.next < rule.start
      <4>1. Restarted(rule.start)
        BY <1>16, <3>2 DEF SearchFinds
      <4> QED BY <3>1, <4>1, RestartedIs DEF TypeOfRules
    <3>3. CASE ~ (search.next < rule.start)
      BY <1>3, <1>16, <3>3 DEF SearchFinds
    <3> QED BY <3>2, <3>3
  <2> QED BY <1>4, <1>16, <2>1, <2>2 DEF SearchFinds
<1>17. CASE Tick
  <2>1. PICK t \in Clock : now' = t /\ UNCHANGED <<rule, cache, exrules, dates, due, completed, search, changes>>
    BY <1>17 DEF Tick
  <2>2. t \in Nat
    BY InputAssumption
  <2>3. TypeOfTodo'
    BY <1>1, <2>1, <2>2 DEF TypeOfTodo
  <2> QED BY <1>3, <1>4, <2>1, <2>3
<1>18. CASE UNCHANGED vars
  <2>1. TypeOfTodo'
    BY <1>1, <1>18 DEF vars, TypeOfTodo
  <2> QED BY <1>3, <1>4, <1>18, <2>1 DEF vars
<1> QED
  BY <1>8, <1>9, <1>10, <1>11, <1>12, <1>13, <1>14, <1>15, <1>16, <1>17, <1>18 DEF Next, Search

\* Whatever is changed, asked and completed, the rules are of the patterns they
\* were made from and the cached occurrences are those of the rule as it is: the
\* setters and setStartDateTime() all end in setDirty().
THEOREM AlwaysSane == Spec => []Sane
BY SaneInit, SaneStep, PTL DEF Spec

\* Every variable of the to-do keeps its type; a rule with an UNTIL has one.
THEOREM TypeCorrect == Spec => []TypeOK
BY AlwaysSane, PTL DEF Sane

\* A rule never answers from the dates it had before a setter or a new start.
THEOREM CacheIsAlwaysCurrent == Spec => []CacheIsCurrent
BY AlwaysSane, PTL DEF Sane

\* getNextDateTime(), getPreviousDateTime() and timesInInterval() answer with the
\* occurrences that the rules and dates define, but for what the code is known
\* to miss.
THEOREM AlwaysAnswersAgree == Spec => []AnswersAgree
BY AlwaysSane, SaneAnswers, PTL

-----------------------------------------------------------------------------
(* The search of a completed to-do. *)

\* What the to-do that was completed at done may move on to: RDATE days are not
\* among it, for recursAt() does not know them.
Ahead(done) == {t \in Occurrences({}) : t > DtDue /\ t > done}

\* A step that changes neither rules nor dates, but may fill the cache.
LEMMA SameRecurrence ==
  ASSUME UNCHANGED <<rule, exrules, dates, due>>,
         cache' = cache \/ cache' = Filled(rule, cache)
  PROVE  /\ Here' = Here /\ (Quirk' <=> Quirk) /\ DtDue' = DtDue
         /\ Occurrences({})' = Occurrences({})
<1>1. Filled(rule, cache') = Filled(rule, cache)
  BY DEF Filled, BuildCache
<1>2. Here' = Here
  BY <1>1 DEF Here
<1>3. DtDue' = DtDue
  BY DEF DtDue
<1>4. Occurrences({})' = Occurrences({})
  BY <1>2 DEF Occurrences
<1>5. Skipped' = Skipped
  BY DEF Skipped
<1>6. (Contradictory' <=> Contradictory) /\ (GivesUp' <=> GivesUp) /\ (EndMissed' <=> EndMissed)
  BY <1>2 DEF Contradictory, GivesUp, EndMissed
<1>7. SingleDates(Here') = SingleDates(Here)
  BY <1>2
<1>8. Quirk' <=> Quirk
  BY <1>3, <1>5, <1>6, <1>7 DEF Quirk
<1> QED BY <1>2, <1>3, <1>4, <1>8

\* Where the to-do looks, nothing is missed.
LEMMA MissesIs ==
  ASSUME Sane, ~Quirk, NEW t \in Int, t = DtDue \/ t \in Candidates(Here)
  PROVE  ~Misses(t)
<1>1. ~GivesUp /\ ~EndMissed /\ ({DtDue} \cup SingleDates(Here)) \cap Skipped = {}
  BY DEF Quirk
<1>2. t \notin Skipped
  <2>1. CASE t \in {DtDue} \cup SingleDates(Here)
    BY <1>1, <2>1
  <2>2. CASE t \notin {DtDue} \cup SingleDates(Here)
    <3>1. Recurs(rule, Here.cache, t)
      BY <2>2, HereIs DEF Candidates
    <3> QED BY <3>1, SkippedIs
  <2> QED BY <2>1, <2>2
<1> QED BY <1>1, <1>2 DEF Misses

\* The end of the rule is known if it has one.
LEMMA EndKnown ==
  ASSUME Sane, ~Contradictory
  PROVE  LET last == EndDt(rule, Here.cache)
         IN  last \in Int /\ (last = None <=> rule.duration = -1) /\ (last # None <=> rule.duration >= 0)
<1>1. Cached(rule, Here.cache) /\ rule.duration \in {-1} \cup Nat
  BY FilledIs, HereIs, HereOK DEF RuleOK, RuleType
<1>2. rule.duration > 0 => Here.cache.end # None
  BY DEF Contradictory
<1>3. /\ EndDt(rule, Here.cache) \in Int
      /\ rule.duration < 0 => EndDt(rule, Here.cache) = None
      /\ rule.duration = 0 => EndDt(rule, Here.cache) # None
      /\ rule.duration > 0 => EndDt(rule, Here.cache) = Here.cache.end
  BY <1>1, EndIs
<1> QED BY <1>1, <1>2, <1>3

\* recursAt() knows the occurrences but for those of RDATE.
LEMMA RecursAtIs ==
  ASSUME Sane, ~Contradictory, NEW t \in Int, t <= Horizon, t # None
  PROVE  RecursAt(Here, t) <=> t \in Occurrences({})
<1>1. Timely(rule) /\ rule.duration \in Int
  BY HereOK, RuleIsTimely
<1>2. RuleRecursAt(rule, Here.cache, t)
        <=> Occurs(rule, t) /\ (rule.duration >= 0 => t <= EndDt(rule, Here.cache))
  BY <1>1, RecursAtRule
<1>3. RuleRecursAt(rule, Here.cache, t) <=> Recurs(rule, Here.cache, t)
  BY <1>2, EndKnown DEF Recurs
<1>4. RuleRecursAt(rule, Here.cache, t) <=> t \in RuleOccurrences(rule)
  BY <1>3, OccurrencesAre
<1>5. RecursAt(Here, t) <=> /\ ~Excluded(Here, t)
                            /\ \/ t = rule.start \/ t \in dates.rdatetimes
                               \/ RuleRecursAt(rule, Here.cache, t)
  BY HereIs DEF RecursAt
<1> QED BY <1>4, <1>5, OccurrencesAre

\* None but an RDATE's is after the end of the recurrence.
LEMMA EndOfAll ==
  ASSUME Sane, ~Contradictory, rule.duration # -1
  PROVE  /\ EndDateTime(Here) \in Int /\ EndDateTime(Here) # None
         /\ \A u \in Occurrences({}) : u <= EndDateTime(Here)
<1> DEFINE last == EndDt(rule, Here.cache)
           all  == {rule.start, last} \cup dates.rdatetimes
                      \cup IF dates.rdates = {} THEN {} ELSE {Max(dates.rdates) * DayLength}
<1>1. last \in Int /\ last # None
  BY EndKnown
<1>2. EndDateTime(Here) = Max(all)
  BY <1>1, HereIs DEF EndDateTime
<1>3. rule.start \in Nat /\ RuleOK(rule) /\ Cached(rule, Here.cache)
  BY FilledIs, HereIs, HereOK DEF Timely
<1>4. /\ dates.rdates \in SUBSET Nat /\ dates.rdatetimes \in SUBSET Nat
      /\ IsFiniteSet(dates.rdates) /\ IsFiniteSet(dates.rdatetimes)
  BY DEF Sane, TypeOK
<1>5. PICK b \in Nat : \A t \in dates.rdatetimes : t <= b
  BY <1>4, FiniteIsBounded
<1>6. dates.rdates # {} => Max(dates.rdates) \in Nat
  <2>1. PICK d \in Nat : \A t \in dates.rdates : t <= d
    BY <1>4, FiniteIsBounded
  <2>2. dates.rdates \in SUBSET Int /\ d \in Int
    BY <1>4
  <2> QED BY <1>4, <2>1, <2>2, MaxOf
<1> DEFINE y == IF dates.rdates = {} THEN 0 ELSE Max(dates.rdates) * DayLength
<1>7. y \in Nat
  <2>1. dates.rdates # {} => Max(dates.rdates) * DayLength \in Nat
    BY <1>6, Constants
  <2> QED BY <2>1
<1>8. \A t \in all : t = rule.start \/ t = last \/ t \in dates.rdatetimes \/ t = y
  OBVIOUS
<1>9. rule.start \in all /\ last \in all /\ \A t \in dates.rdatetimes : t \in all
  OBVIOUS
<1>10. last >= None
  BY <1>3, EndIs
<1> HIDE DEF y, all, last
<1>11. last \in Nat
  BY <1>1, <1>10 DEF None
<1> DEFINE m == rule.start + last + b + y
<1>12. m \in Int /\ \A t \in all : t \in Nat /\ t <= m
  <2>1. m \in Int /\ rule.start <= m /\ last <= m /\ b <= m /\ y <= m
    BY <1>3, <1>5, <1>7, <1>11
  <2>2. \A t \in dates.rdatetimes : t \in Nat /\ t <= b
    BY <1>4, <1>5
  <2> HIDE DEF m
  <2>3. \A t \in dates.rdatetimes : t <= m
    BY <1>5, <2>1, <2>2
  <2> QED BY <1>3, <1>7, <1>8, <1>11, <2>1, <2>2, <2>3
<1> HIDE DEF m
<1>13. Max(all) \in all /\ \A t \in all : t <= Max(all)
  <2>1. all \in SUBSET Int /\ \A t \in all : t <= m
    BY <1>12
  <2> QED BY <1>9, <1>12, <2>1, MaxOf
<1>14. ASSUME NEW u \in Occurrences({})
       PROVE  u <= Max(all)
  <2>1. u \in {rule.start} \cup dates.rdatetimes \cup RuleOccurrences(rule)
    BY OccurrencesAre
  <2>2. CASE u \in RuleOccurrences(rule)
    <3>1. u \in Nat /\ u <= last
      BY <1>1, <1>3, <2>2, RecursUpToHorizon, OccurrencesAre DEF last
    <3>2. last <= Max(all) /\ Max(all) \in Nat
      BY <1>9, <1>12, <1>13
    <3> QED BY <1>11, <3>1, <3>2
  <2>3. CASE u \in {rule.start} \cup dates.rdatetimes
    BY <1>9, <1>13, <2>3
  <2> QED BY <2>1, <2>2, <2>3
<1>15. Max(all) \in Nat
  BY <1>12, <1>13
<1> QED BY <1>2, <1>14, <1>15 DEF None, all, last

\* While the loop of recurTodo() runs it has passed over nothing that the to-do
\* could move on to.
SearchInv ==
    search.active /\ ~Quirk =>
        /\ \/ search.next = None
           \/ /\ search.next \in Candidates(Here) /\ ~Excluded(Here, search.next)
              /\ DtDue < search.next
        /\ \A u \in Ahead(search.rightNow) : search.next # None /\ search.next <= u

\* What the to-do may move on to is a candidate that is not excluded.
LEMMA AheadIs ==
  ASSUME Sane, NEW done \in Int
  PROVE  /\ DtDue \in Nat
         /\ \A u : u \in Ahead(done) <=> u \in Occurrences({}) /\ DtDue < u /\ done < u
         /\ \A u \in Occurrences({}) : /\ u \in Nat /\ u <= Horizon
                                       /\ u \in Candidates(Here) /\ ~Excluded(Here, u)
<1>1. DtDue \in Nat
  <2>1. rule.start \in Nat
    BY HereOK DEF Timely
  <2>2. due \in {None} \cup Nat
    BY TypeParts DEF Sane, TypeOfTodo
  <2> QED BY <2>1, <2>2 DEF DtDue
<1>2. ASSUME NEW u \in Occurrences({})
      PROVE  /\ u \in Nat /\ u <= Horizon
             /\ u \in Candidates(Here) /\ ~Excluded(Here, u)
  <2>1. /\ u \in {rule.start} \cup dates.rdatetimes \cup RuleOccurrences(rule)
        /\ u <= Horizon /\ ~Excluded(Here, u)
    BY OccurrencesAre
  <2>2. u \in SingleDates(Here) \cup RuleOccurrences(rule)
    BY <2>1, HereIs DEF SingleDates
  <2>3. u \in Candidates(Here)
    BY <2>1, <2>2, OccurrencesAre
  <2> QED BY <2>1, <2>3 DEF Candidates
<1>3. \A u \in Occurrences({}) : (u > DtDue /\ u > done) <=> (DtDue < u /\ done < u)
  BY <1>1, <1>2
<1>4. \A u : u \in Ahead(done) <=> u \in Occurrences({}) /\ DtDue < u /\ done < u
  BY <1>3 DEF Ahead
<1> QED BY <1>1, <1>2, <1>4

\* The search for the first of them.
LEMMA NextAhead ==
  ASSUME Sane, ~Quirk, NEW done \in Int
  PROVE  LET a == GetNextDateTime(Here, DtDue)
         IN  /\ a = None \/ (a \in Candidates(Here) /\ ~Excluded(Here, a) /\ DtDue < a)
             /\ \A u \in Ahead(done) : a # None /\ a <= u
<1>1. DtDue \in Int
  BY AheadIs
<1>2. ~Misses(DtDue)
  BY <1>1, MissesIs
<1>3. LET a == GetNextDateTime(Here, DtDue)
      IN  /\ a = None \/ (a \in Candidates(Here) /\ DtDue < a /\ ~Excluded(Here, a))
          /\ \A u \in Candidates(Here) : u <= Horizon /\ DtDue < u /\ ~Excluded(Here, u)
                    => a # None /\ a <= u
  BY <1>1, <1>2, NextHere
<1>4. \A u \in Ahead(done) : u \in Candidates(Here) /\ u <= Horizon /\ DtDue < u /\ ~Excluded(Here, u)
  BY AheadIs
<1> QED BY <1>3, <1>4

\* ... and for the one after it, if that is not where the loop ends.
LEMMA NextOneAhead ==
  ASSUME Sane, ~Quirk, search.active, SearchInv, ~Current, search.next # None
  PROVE  LET a == GetNextDateTime(Here, search.next)
         IN  /\ a = None \/ (a \in Candidates(Here) /\ ~Excluded(Here, a) /\ DtDue < a)
             /\ \A u \in Ahead(search.rightNow) : a # None /\ a <= u
<1> DEFINE x == search.next
           a == GetNextDateTime(Here, x)
<1>1. /\ x \in Candidates(Here) /\ ~Excluded(Here, x) /\ DtDue < x
      /\ \A u \in Ahead(search.rightNow) : x <= u
  BY DEF SearchInv
<1>2. x \in Int /\ search.rightNow \in Int /\ DtDue \in Int
  <2>1. x \in {None} \cup Nat /\ search.rightNow \in {None} \cup Nat
    BY TypeParts DEF Sane, TypeOfTodo, SearchType
  <2>2. DtDue \in Nat
    BY AheadIs, 0 \in Int
  <2> QED BY <2>1, <2>2 DEF None
<1>3. ~Misses(x)
  BY <1>1, <1>2, MissesIs
<1>4. /\ a = None \/ (a \in Candidates(Here) /\ x < a /\ ~Excluded(Here, a))
      /\ \A u \in Candidates(Here) : u <= Horizon /\ x < u /\ ~Excluded(Here, u)
                    => a # None /\ a <= u
  BY <1>2, <1>3, NextHere
<1>5. ~ (RecursAt(Here, x) /\ x > search.rightNow)
  BY DEF Current
<1>6. ~Contradictory
  BY DEF Quirk
<1> HIDE DEF x, a
<1>7. a \in Candidates(Here) => a \in Int
  BY DEF Candidates
<1>8. ASSUME NEW u \in Ahead(search.rightNow)
      PROVE  a # None /\ a <= u
  <2>1. /\ u \in Occurrences({}) /\ u \in Int /\ u <= Horizon /\ search.rightNow < u
        /\ u \in Candidates(Here) /\ ~Excluded(Here, u) /\ x <= u
    BY <1>1, <1>2, AheadIs
  <2>2. u # x
    <3> SUFFICES ASSUME u = x PROVE FALSE
      OBVIOUS
    <3>1. x # None
      BY DEF x
    <3>2. RecursAt(Here, x)
      BY <1>2, <1>6, <2>1, <3>1, RecursAtIs
    <3> QED BY <1>2, <1>5, <2>1, <3>2
  <2>3. x < u
    BY <1>2, <2>1, <2>2
  <2> QED BY <1>4, <2>1, <2>3
<1>9. a = None \/ (a \in Candidates(Here) /\ ~Excluded(Here, a) /\ DtDue < a)
  BY <1>1, <1>2, <1>4, <1>7
<1> QED BY <1>8, <1>9 DEF a, x

\* No search has begun.
LEMMA SearchInvInit == Init => SearchInv
BY DEF Init, Idle, SearchInv

\* Every operation keeps what is known of the search.
LEMMA SearchInvStep == Sane /\ SearchInv /\ [Next]_vars => SearchInv'
<1> SUFFICES ASSUME Sane, SearchInv, [Next]_vars PROVE SearchInv'
  OBVIOUS
<1>1. ASSUME ~search'.active
      PROVE  SearchInv'
  BY <1>1 DEF SearchInv
<1>2. ASSUME Change
      PROVE  SearchInv'
  BY <1>1, <1>2 DEF Change
<1>3. ASSUME UNCHANGED <<rule, exrules, dates, due, cache, search>>
      PROVE  SearchInv'
  <2>1. Here' = Here /\ (Quirk' <=> Quirk) /\ DtDue' = DtDue /\ Occurrences({})' = Occurrences({})
    BY <1>3, SameRecurrence
  <2> QED BY <1>3, <2>1 DEF SearchInv, Ahead
<1>4. CASE SetCompleted
  <2>1. cache' = Filled(rule, cache) /\ UNCHANGED <<rule, exrules, dates, due>> /\ ~search.active
    BY <1>4, HereIs DEF SetCompleted
  <2>2. Here' = Here /\ (Quirk' <=> Quirk) /\ DtDue' = DtDue /\ Occurrences({})' = Occurrences({})
    BY <2>1, SameRecurrence
  <2>3. \/ search' = [active |-> TRUE, next |-> GetNextDateTime(Here, DtDue), rightNow |-> now]
        \/ UNCHANGED search
    BY <1>4 DEF SetCompleted
  <2>4. CASE search' = [active |-> TRUE, next |-> GetNextDateTime(Here, DtDue), rightNow |-> now]
    <3> DEFINE a == GetNextDateTime(Here, DtDue)
    <3>1. now \in Int
      BY TypeParts DEF Sane, TypeOfTodo
    <3>2. ~Quirk => /\ a = None \/ (a \in Candidates(Here) /\ ~Excluded(Here, a) /\ DtDue < a)
                    /\ \A u \in Ahead(now) : a # None /\ a <= u
      BY <3>1, NextAhead
    <3>3. search'.next = a /\ search'.rightNow = now
      BY <2>4
    <3> HIDE DEF a
    <3> QED BY <2>2, <3>2, <3>3 DEF SearchInv, Ahead
  <2> QED BY <1>1, <2>1, <2>3, <2>4
<1>5. CASE SearchNext
  <2>1. /\ UNCHANGED <<rule, exrules, dates, due, cache>> /\ search.active /\ ~Current
        /\ search' = [search EXCEPT !.next = GetNextDateTime(Here, search.next)]
        /\ search.next # None
    BY <1>5 DEF SearchNext, Exhausted
  <2>2. Here' = Here /\ (Quirk' <=> Quirk) /\ DtDue' = DtDue /\ Occurrences({})' = Occurrences({})
    BY <2>1, SameRecurrence
  <2> DEFINE a == GetNextDateTime(Here, search.next)
  <2>3. ~Quirk => /\ a = None \/ (a \in Candidates(Here) /\ ~Excluded(Here, a) /\ DtDue < a)
                  /\ \A u \in Ahead(search.rightNow) : a # None /\ a <= u
    BY <2>1, NextOneAhead
  <2>4. search'.next = a /\ search'.rightNow = search.rightNow
    <3>1. search \in SearchType
      BY TypeParts DEF Sane, TypeOfTodo
    <3> QED BY <2>1, <3>1 DEF SearchType
  <2> HIDE DEF a
  <2> QED BY <2>2, <2>3, <2>4 DEF SearchInv, Ahead
<1>6. CASE SearchFails \/ SearchFinds
  <2>1. ~search'.active
    BY <1>6 DEF SearchFails, SearchFinds, Idle
  <2> QED BY <1>1, <2>1
<1>7. CASE Query
  <2>1. ~search'.active
    BY <1>7 DEF Query
  <2> QED BY <1>1, <2>1
<1>8. CASE SetDuration \/ SetEndDateTime \/ AddDate \/ SetFirstDue
  BY <1>2, <1>8 DEF SetDuration, SetEndDateTime, AddDate, SetFirstDue
<1>9. CASE Tick
  BY <1>3, <1>9 DEF Tick
<1>10. CASE UNCHANGED vars
  BY <1>3, <1>10 DEF vars
<1> QED
  BY <1>4, <1>5, <1>6, <1>7, <1>8, <1>9, <1>10 DEF Next, Search

\* What a step may do to the due date and the completion, if nothing is missed.
MovesAhead ==
    LET done  == IF search.active THEN search.rightNow ELSE now
    IN  /\ due' # due => due' = FirstOf[Ahead(done)] \/ (Ahead(done) = {} /\ due' > Horizon)
        /\ (completed' /\ ~completed) => Ahead(done) = {}

\* A step that makes the to-do move on moves it to the right occurrence.
LEMMA StepMovesOn ==
  Sane /\ SearchInv /\ ~Quirk /\ [Next]_vars => MovesAhead
<1> SUFFICES ASSUME Sane, SearchInv, ~Quirk, [Next]_vars PROVE MovesAhead
  OBVIOUS
<1>0. now \in Int /\ search.rightNow \in Int /\ search.next \in Int /\ ~Contradictory
      /\ rule.duration \in Int /\ Horizon \in Int
  <2>1. now \in Nat /\ search \in SearchType
    BY TypeParts DEF Sane, TypeOfTodo
  <2>2. ~Contradictory
    BY DEF Quirk
  <2>3. rule.duration \in Int
    BY HereOK, RuleIsTimely
  <2> QED BY <2>1, <2>2, <2>3, InputAssumption DEF SearchType, None
<1>1. ASSUME UNCHANGED <<due, completed>>
      PROVE  MovesAhead
  BY <1>1 DEF MovesAhead
\* The next one is after the end, or there is none.
<1>2. ASSUME NEW a \in Int, NEW done \in Int, \A u \in Ahead(done) : a # None /\ a <= u,
             a = None \/ (rule.duration # -1 /\ a > EndDateTime(Here))
      PROVE  Ahead(done) = {}
  <2> SUFFICES ASSUME NEW u \in Ahead(done) PROVE FALSE
    OBVIOUS
  <2>1. a # None /\ a <= u /\ u \in Occurrences({}) /\ u \in Int
    BY <1>2, AheadIs
  <2>2. EndDateTime(Here) \in Int /\ u <= EndDateTime(Here) /\ a > EndDateTime(Here)
    BY <1>0, <1>2, <2>1, EndOfAll
  <2> QED BY <2>1, <2>2
<1>3. CASE SetCompleted
  <2> DEFINE a == GetNextDateTime(Here, DtDue)
  <2>1. UNCHANGED due /\ ~search.active
    BY <1>3 DEF SetCompleted
  <2>2. \A u \in Ahead(now) : a # None /\ a <= u
    BY <1>0, NextAhead
  <2>3. a \in Int
    <3>1. DtDue \in Int
      BY <1>0, AheadIs
    <3> QED BY <3>1, NextIsTyped DEF None
  <2>4. completed' /\ ~completed => /\ rule.duration # -1
                                    /\ ~ (a # None /\ EndDateTime(Here) # None /\ a <= EndDateTime(Here))
    BY <1>3 DEF SetCompleted
  <2> HIDE DEF a
  <2>5. completed' /\ ~completed => a = None \/ (rule.duration # -1 /\ a > EndDateTime(Here))
    BY <1>0, <2>3, <2>4, EndOfAll
  <2>6. completed' /\ ~completed => Ahead(now) = {}
    BY <1>0, <1>2, <2>2, <2>3, <2>5
  <2> QED BY <2>1, <2>6 DEF MovesAhead
<1>4. CASE SearchFails
  <2>1. UNCHANGED due /\ search.active /\ Exhausted
    BY <1>4 DEF SearchFails
  <2>2. \A u \in Ahead(search.rightNow) : search.next # None /\ search.next <= u
    BY <2>1 DEF SearchInv
  <2>3. search.next = None \/ (rule.duration # -1 /\ search.next > EndDateTime(Here))
    BY <2>1 DEF Exhausted
  <2>4. Ahead(search.rightNow) = {}
    BY <1>0, <1>2, <2>2, <2>3
  <2> QED BY <2>1, <2>4 DEF MovesAhead
<1>5. CASE SearchFinds
  <2> DEFINE x == search.next
             S == Ahead(search.rightNow)
  <2>1. /\ search.active /\ RecursAt(Here, x) /\ x > search.rightNow
        /\ due' = x /\ completed' = FALSE
    BY <1>5 DEF SearchFinds, Current
  <2>2. x # None
    BY <2>1 DEF RecursAt
  <2>3. DtDue < x /\ \A u \in S : x <= u
    BY <2>1, <2>2 DEF SearchInv
  <2>4. x \in Int
    BY <1>0
  <2>5. \A u \in S : u \in Int /\ u <= Horizon
    BY <1>0, AheadIs
  <2>6. x <= Horizon => x \in S
    <3>1. x <= Horizon => x \in Occurrences({})
      BY <1>0, <2>1, <2>2, RecursAtIs
    <3>2. search.rightNow < x
      BY <1>0, <2>1
    <3> QED BY <1>0, <2>3, <3>1, <3>2, AheadIs
  <2> HIDE DEF x, S
  <2>7. CASE x <= Horizon
    <3>1. S \in SUBSET Int /\ (\A u \in S : x <= u) /\ S # {}
      BY <2>3, <2>5, <2>6, <2>7
    <3>2. FirstOf[S] \in S /\ \A u \in S : FirstOf[S] <= u
      BY <2>4, <3>1, LeastFirst
    <3>3. FirstOf[S] = x
      <4>1. x \in S
        BY <2>6, <2>7
      <4>2. FirstOf[S] \in Int
        BY <2>5, <3>2
      <4>3. FirstOf[S] <= x /\ x <= FirstOf[S]
        BY <2>3, <3>2, <4>1
      <4> QED BY <2>4, <4>2, <4>3
    <3> QED BY <2>1, <3>3 DEF MovesAhead, S
  <2>8. CASE x > Horizon
    <3>1. S = {}
      BY <1>0, <2>3, <2>4, <2>5, <2>8
    <3> QED BY <2>1, <2>8, <3>1 DEF MovesAhead, S
  <2> QED BY <1>0, <2>4, <2>7, <2>8
<1>6. CASE SetDuration \/ SetEndDateTime \/ AddDate \/ SetFirstDue \/ Query \/ SearchNext \/ Tick
  BY <1>1, <1>6 DEF SetDuration, SetEndDateTime, AddDate, SetFirstDue, Query, SearchNext, Tick
<1>7. CASE UNCHANGED vars
  BY <1>1, <1>7 DEF vars
<1> QED
  BY <1>3, <1>4, <1>5, <1>6, <1>7 DEF Next, Search

\* While the loop of recurTodo() runs it has passed by no occurrence that the
\* to-do could move on to.
THEOREM AlwaysSearching == Spec => []SearchInv
<1>1. Init => SearchInv
  BY SearchInvInit
<1>2. Sane /\ SearchInv /\ [Next]_vars => SearchInv'
  BY SearchInvStep
<1> QED BY <1>1, <1>2, AlwaysSane, PTL DEF Spec

\* setCompleted() of a recurring to-do moves it on to the first of the occurrences
\* recursAt() knows, all but those of RDATE days, after both the completion and what
\* was completed, and completes it for good only if there is none of these.
THEOREM AlwaysDueIsCurrent == Spec => DueIsCurrent
<1> DEFINE A == MovesAhead \/ Quirk
<1>1. Sane /\ SearchInv /\ [Next]_vars => [A]_vars
  BY StepMovesOn
<1>2. [A]_vars => [MovesOn(Occurrences({})) \/ Quirk]_vars
  BY DEF MovesAhead, MovesOn, Ahead
<1> HIDE DEF A
<1> QED BY <1>1, <1>2, AlwaysSane, AlwaysSearching, PTL DEF Spec, DueIsCurrent

\* What the loop of recurTodo() does to the date it looks at.
Advances ==
    (search.active /\ search'.active /\ search' # search) =>
        search'.next = None \/ search.next < search'.next

\* What SearchEnds rests on: each round of the loop of recurTodo() goes to a later
\* date or to none, whatever the rules, exceptions and caches are, and even where
\* getNextDateTime() gives up or misses an occurrence: no date comes twice.
THEOREM AlwaysAdvances == Spec => [][Advances]_vars
<1>1. ASSUME Sane, [Next]_vars PROVE Advances
  <2>1. search \in SearchType
    BY <1>1, TypeParts DEF Sane, TypeOfTodo
  <2>2. CASE SearchNext
    <3> DEFINE a == GetNextDateTime(Here, search.next)
    <3>1. search' = [search EXCEPT !.next = a]
      BY <2>2 DEF SearchNext
    <3>2. search.next \in Int
      BY <2>1 DEF SearchType, None
    <3>3. a = None \/ search.next < a
      BY <1>1, <3>2, HereOK, NextIsDate
    <3> HIDE DEF a
    <3>4. search'.next = a
      BY <2>1, <3>1 DEF SearchType
    <3> QED BY <3>3, <3>4 DEF Advances
  <2>3. CASE ~search.active \/ ~search'.active \/ search' = search
    BY <2>3 DEF Advances
  <2>4. CASE SetDuration \/ SetEndDateTime \/ AddDate \/ SetFirstDue
    <3>1. Change
      BY <2>4 DEF SetDuration, SetEndDateTime, AddDate, SetFirstDue
    <3> QED BY <2>3, <3>1 DEF Change
  <2>5. CASE Query \/ SetCompleted
    BY <2>3, <2>5 DEF Query, SetCompleted
  <2>6. CASE SearchFails \/ SearchFinds
    <3>1. search' = Idle
      BY <2>6 DEF SearchFails, SearchFinds
    <3> QED BY <2>3, <3>1 DEF Idle
  <2>7. CASE Tick \/ UNCHANGED vars
    BY <2>3, <2>7 DEF Tick, vars
  <2> QED BY <1>1, <2>2, <2>4, <2>5, <2>6, <2>7 DEF Next, Search
<1>2. Sane /\ [Next]_vars => [Advances]_vars
  BY <1>1
<1> HIDE DEF Advances
<1> QED BY <1>2, AlwaysSane, PTL DEF Spec
=============================================================================
