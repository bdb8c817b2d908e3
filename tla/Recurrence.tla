------------------------------- MODULE Recurrence -------------------------------
(***************************************************************************)
(* When something recurs (recurrence.cpp, recurrencerule.cpp), and the     *)
(* to-do that is completed and moves on to its next occurrence (todo.cpp). *)
(*                                                                         *)
(* A date/time is a number of seconds in a small calendar: minutes of      *)
(* Minute seconds, days of DayLength seconds, months of Long and of Short  *)
(* days in turn, so that day Long is missing from every second month.      *)
(* Less than every date/time is None, the invalid KDateTime.  The sorted   *)
(* lists without duplicates of sortablelist.h are sets.                    *)
(*                                                                         *)
(* Every occurrence has a time of day; date-only recurrences are not       *)
(* modelled.                                                               *)
(***************************************************************************)
EXTENDS Integers, FiniteSets, FiniteSetsExt

CONSTANTS
    Minute, DayLength, Long, Short,
    Starts,        \* the start date/times given to the to-do
    Patterns,      \* the rules' [unit, freq, days]
    ExPatterns,    \* the same of the exception rule, when there is one
    Durations,     \* the durations of a rule: -1 is for ever
    Instants,      \* the date/times of RDATE and EXDATE
    Untils,        \* the end date/times of a rule
    Clock,         \* the times at which the to-do is completed
    Asked,         \* the date/times the properties ask about
    Horizon,       \* no occurrence after it is looked at by the properties
    Limit,         \* LOOP_LIMIT of recurrencerule.cpp
    Loops,         \* the 1000 loops of recurrence.cpp
    LastDue,       \* bound on the occurrences completed
    MaxChanges     \* bound on the changes of a recurrence

None == -1

ASSUME CalendarAssumption ==
    /\ Minute \in Nat \ {0, 1}
    /\ {DayLength, Long, Short} \subseteq Nat \ {0}
    /\ DayLength % Minute = 0 /\ Short < Long

Units == {"minutely", "daily", "monthly"}

ASSUME InputAssumption ==
    /\ Starts \cup Instants \cup Untils \cup Clock \subseteq Nat
    /\ Patterns \cup ExPatterns
           \subseteq [unit : Units, freq : Nat \ {0}, days : SUBSET Nat]
    /\ Durations \subseteq {-1} \cup (Nat \ {0})
    /\ {Horizon, Limit, Loops} \subseteq Nat /\ Asked \subseteq 0 .. Horizon

VARIABLES
    rule,       \* the RRULE: [unit, freq, days, start, duration, end]
    cache,      \* mCached, mCachedDates, mCachedDateEnd, mCachedLastDate of it
    exrules,    \* mExRules
    dates,      \* mRDates, mRDateTimes, mExDates, mExDateTimes
    due,        \* mDtRecurrence of the to-do
    completed,  \* the to-do is completed for good
    now,        \* the clock
    search,     \* the loop of recurTodo(): its variables
    changes     \* how often the recurrence was changed

todo == <<due, completed, search>>
vars == <<rule, cache, exrules, dates, due, completed, now, search, changes>>

-----------------------------------------------------------------------------
(* The calendar. *)

Date(t) == t \div DayLength

TimeOfDay(t) == t % DayLength

FirstDay(month) == (month \div 2) * (Long + Short) + (month % 2) * Long

MonthOf(day) ==
    2 * (day \div (Long + Short)) + IF day % (Long + Short) < Long THEN 0 ELSE 1

DayOfMonth(day) == day - FirstDay(MonthOf(day)) + 1

-----------------------------------------------------------------------------
(* One rule.  Its interval number i is the i-th minute, day or month. *)

Rule(pattern, start, duration) ==
    [unit |-> pattern.unit, freq |-> pattern.freq, days |-> pattern.days,
     start |-> start, duration |-> duration, end |-> None]

IntervalOf(r, t) ==
    CASE r.unit = "minutely" -> t \div Minute
      [] r.unit = "daily"    -> Date(t)
      [] r.unit = "monthly"  -> MonthOf(Date(t))

\* The first instant of an interval.
IntervalDateTime(r, i) ==
    CASE r.unit = "minutely" -> i * Minute
      [] r.unit = "daily"    -> i * DayLength
      [] r.unit = "monthly"  -> FirstDay(i) * DayLength

\* The intervals that one search of a rule looks at reach the horizon.
ASSUME ReachAssumption ==
    \A p \in Patterns \cup ExPatterns, t \in Starts :
        LET r == Rule(p, t, -1)
        IN  IntervalDateTime(r, IntervalOf(r, t) + Limit * r.freq) > Horizon

\* The length of a simple sub-daily repetition, 0 for any other rule.
TimedRepetition(r) ==
    IF r.unit = "minutely" /\ r.days = {} THEN r.freq * Minute ELSE 0

\* BYMONTHDAY or, in a monthly rule without one, the day of the start; what
\* is less significant than the unit is the start's too.
Matches(r, t) ==
    LET grain == IF r.unit = "minutely" THEN Minute ELSE DayLength
        days  == IF r.days = {} /\ r.unit = "monthly"
                 THEN {DayOfMonth(Date(r.start))} ELSE r.days
    IN  /\ t % grain = r.start % grain
        /\ days = {} \/ DayOfMonth(Date(t)) \in days

DatesForInterval(r, i) ==
    {t \in IntervalDateTime(r, i) .. IntervalDateTime(r, i + 1) - 1 : Matches(r, t)}

\* The number of intervals since the start; minutes are counted from the start,
\* which need not be the first instant of its minute.
Periods(r, t) == IF r.unit = "minutely" THEN (t - r.start) \div Minute
                 ELSE IntervalOf(r, t) - IntervalOf(r, r.start)

\* ... rounded to the next multiple of the frequency, upwards or downwards.
NextValidInterval(r, t) ==
    IntervalOf(r, r.start) + ((Max({0, Periods(r, t)}) + r.freq - 1) \div r.freq) * r.freq

PreviousValidInterval(r, t) ==
    IntervalOf(r, r.start) + (Periods(r, t) \div r.freq) * r.freq

First(n, S) == {t \in S : Cardinality({u \in S : u < t}) < n}

NoCache == [valid |-> FALSE, dates |-> {}, end |-> None, last |-> None]

\* All the occurrences of a rule that has a number of them, if they are found
\* within LOOP_LIMIT intervals.
BuildCache(r) ==
    LET Interval(k) == NextValidInterval(r, r.start) + k * r.freq
        Found(k)    == {t \in UNION {DatesForInterval(r, Interval(j)) : j \in 0 .. k} :
                            t >= r.start}
        enough      == {k \in 0 .. Limit : Cardinality(Found(k)) >= r.duration}
        loops       == IF enough = {} THEN Limit ELSE Min(enough)
        found       == First(r.duration, Found(loops))
    IN  [valid |-> TRUE, dates |-> found,
         end   |-> IF Cardinality(found) = r.duration THEN Max(found) ELSE None,
         last  |-> IntervalDateTime(r, Interval(loops))]

\* What a query leaves in the cache.
Filled(r, c) == IF r.duration > 0 /\ ~c.valid THEN BuildCache(r) ELSE c

\* In all that follows c is the filled cache of r.
EndDt(r, c) ==
    CASE r.duration < 0 -> None
      [] r.duration = 0 -> r.end
      [] r.duration > 0 -> c.end

LastOf[S \in SUBSET Int] == IF S = {} THEN None ELSE Max(S)

FirstOf[S \in SUBSET Int] == IF S = {} THEN None ELSE Min(S)

\* The first date after from in its own interval or the next that counts, or
\* else that of the first of the intervals after it that has any.
SearchForward(r, end, from) ==
    LET interval == NextValidInterval(r, from)
        Then(k)  == interval + k * r.freq
        later    == {t \in DatesForInterval(r, interval) : t > from}
        tried    == {k \in 1 .. Limit :
                        \/ r.duration < 0
                        \/ /\ IntervalDateTime(r, Then(1)) <= end
                           /\ k = 1 \/ IntervalDateTime(r, Then(k)) < end}
        hits     == {k \in tried : DatesForInterval(r, Then(k)) # {}}
    IN  IF later # {} THEN FirstOf[later]
        ELSE IF hits # {} THEN FirstOf[DatesForInterval(r, Then(Min(hits)))]
        ELSE None

GetNextDate(r, c, preDate) ==
    LET end    == EndDt(r, c)
        from   == Max({preDate, r.start - 1})
        rep    == TimedRepetition(r)
        timed  == from + rep - ((from - r.start + 1) % rep) + 1
        cached == {t \in c.dates : t > from}
        next   == SearchForward(r, end, from)
    IN  IF r.duration >= 0 /\ end # None /\ preDate >= end THEN None
        ELSE IF rep > 0 THEN IF end # None /\ timed > end THEN None ELSE timed
        ELSE IF r.duration > 0 /\ cached # {} THEN FirstOf[cached]
        ELSE IF r.duration >= 0 /\ next > end THEN None
        ELSE next

\* The same the other way, down to the interval of the start.
SearchBackward(r, prev) ==
    LET interval == PreviousValidInterval(r, prev)
        Then(k)  == interval - k * r.freq
        earlier  == {t \in DatesForInterval(r, interval) : t < prev}
        hits     == {k \in 1 .. interval :
                        /\ IntervalDateTime(r, Then(k - 1)) > r.start
                        /\ DatesForInterval(r, Then(k)) # {}}
    IN  IF earlier # {} THEN LastOf[earlier]
        ELSE IF hits # {} THEN LastOf[DatesForInterval(r, Then(Min(hits)))]
        ELSE None

GetPreviousDate(r, c, afterDate) ==
    LET end   == EndDt(r, c)
        prev  == IF end # None /\ afterDate > end THEN end + 1 ELSE afterDate
        rep   == TimedRepetition(r)
        timed == prev - ((prev - r.start - 1) % rep) - 1
        found == SearchBackward(r, prev)
    IN  IF afterDate < r.start THEN None
        ELSE IF rep > 0 THEN IF prev <= r.start THEN None ELSE timed
        ELSE IF r.duration > 0 THEN LastOf[{t \in c.dates : t < afterDate}]
        ELSE IF found < r.start THEN None
        ELSE found

RuleRecursAt(r, c, t) ==
    /\ t >= r.start
    /\ r.duration >= 0 => t <= EndDt(r, c)
    /\ IF TimedRepetition(r) > 0
       THEN (t - r.start) % TimedRepetition(r) = 0
       ELSE Matches(r, t) /\ IntervalOf(r, t) = NextValidInterval(r, t)

\* The remainder of the C++ operator, which has the sign of n.
Rem(n, d) == IF n >= 0 THEN n % d ELSE -((-n) % d)

\* The dates from st to enddt in at most LOOP_LIMIT intervals up to end.
ListIntervals(r, st, end, enddt) ==
    LET interval == NextValidInterval(r, st)
        Then(k)  == interval + k * r.freq
        ends     == {k \in 0 .. Limit - 1 :
                        \/ IntervalDateTime(r, Then(k + 1)) >= end
                        \/ \E t \in DatesForInterval(r, Then(k)) : t > enddt}
        loops    == IF ends = {} THEN Limit - 1 ELSE Min(ends)
    IN  {t \in UNION {DatesForInterval(r, Then(k)) : k \in 0 .. loops} :
            t >= st /\ t <= enddt}

TimesInRuleInterval(r, c, start, end) ==
    LET last  == EndDt(r, c)
        enddt == IF last # None /\ end > last THEN last ELSE end
        rep   == TimedRepetition(r)
        dt    == start + rep - Rem(start - r.start - 1, rep)
        hit   == {t \in c.dates : t >= start /\ t <= enddt}
    IN  IF end < r.start \/ (last # None /\ start > last) THEN {}
        ELSE IF rep > 0
        THEN {dt + k * rep : k \in 0 .. Min({Limit, (enddt - dt - 1) \div rep + 1}) - 1}
        ELSE IF r.duration <= 0 THEN ListIntervals(r, start, end, enddt)
        ELSE IF last # None THEN hit
        ELSE IF hit # {} THEN hit \cup {None}
        ELSE ListIntervals(r, c.last + 1, end, enddt)

-----------------------------------------------------------------------------
(* The recurrence: the rule, the exception rules, and single dates.  It is  *)
(* a record s of [rule, cache, exrules, rdates, rdatetimes, exdates,        *)
(* exdatetimes], the cache filled.                                          *)

NoDates == [rdates |-> {}, rdatetimes |-> {}, exdates |-> {}, exdatetimes |-> {}]

Here == [rule |-> rule, cache |-> Filled(rule, cache), exrules |-> exrules,
         rdates |-> dates.rdates, rdatetimes |-> dates.rdatetimes,
         exdates |-> dates.exdates, exdatetimes |-> dates.exdatetimes]

\* An RDATE is a day; its occurrence has the time of day of the start.
OnDate(s, day) == day * DayLength + TimeOfDay(s.rule.start)

\* The dates the recurrence looks at besides those of its rule.
SingleDates(s) ==
    {s.rule.start} \cup s.rdatetimes \cup {OnDate(s, d) : d \in s.rdates}

\* Exception rules recur for ever: they have no cache.
Excluded(s, t) ==
    \/ Date(t) \in s.exdates
    \/ t \in s.exdatetimes
    \/ \E r \in s.exrules : RuleRecursAt(r, NoCache, t)

RecursAt(s, t) ==
    /\ t # None /\ ~Excluded(s, t)
    /\ \/ t = s.rule.start
       \/ t \in s.rdatetimes
       \/ RuleRecursAt(s.rule, s.cache, t)

EndDateTime(s) ==
    LET last == EndDt(s.rule, s.cache)
    IN  IF last = None THEN None
        ELSE Max({s.rule.start, last} \cup s.rdatetimes
                     \cup IF s.rdates = {} THEN {} ELSE {Max(s.rdates) * DayLength})

NextCandidate(s, t) ==
    LET later == {u \in SingleDates(s) : u > t}
    IN  FirstOf[(later \cup {GetNextDate(s.rule, s.cache, t)}) \ {None}]

PreviousCandidate(s, t) ==
    LET earlier == {u \in SingleDates(s) : u < t}
    IN  LastOf[(earlier \cup {GetPreviousDate(s.rule, s.cache, t)}) \ {None}]

\* What the loop answers that has the date next, in its loop-th round.
GetNextDateTime(s, t) ==
    LET after[loop \in 0 .. Loops] == [next \in Int |->
            IF loop = Loops \/ next = None THEN None
            ELSE IF Excluded(s, next) THEN after[loop + 1][NextCandidate(s, next)]
            ELSE next]
    IN  after[0][NextCandidate(s, t)]

GetPreviousDateTime(s, t) ==
    LET before[loop \in 0 .. Loops] == [prev \in Int |->
            IF loop = Loops \/ prev = None THEN None
            ELSE IF Excluded(s, prev) THEN before[loop + 1][PreviousCandidate(s, prev)]
            ELSE prev]
    IN  before[0][PreviousCandidate(s, t)]

TimesInInterval(s, start, end) ==
    LET Fits(S)  == {t \in S : t >= start /\ t <= end}
        times    == TimesInRuleInterval(s.rule, s.cache, start, end)
                        \cup Fits(s.rdatetimes \cup {OnDate(s, d) : d \in s.rdates})
        excluded == UNION {TimesInRuleInterval(r, NoCache, start, end) : r \in s.exrules}
    IN  {t \in times : Date(t) \notin s.exdates} \ (excluded \cup s.exdatetimes)

-----------------------------------------------------------------------------
(* The to-do and its recurrence. *)

Idle == [active |-> FALSE, next |-> None, rightNow |-> None]

Init ==
    /\ \E p \in Patterns, t \in Starts, n \in Durations : rule = Rule(p, t, n)
    /\ exrules \in {{}} \cup {{Rule(p, rule.start, -1)} : p \in ExPatterns}
    /\ cache = NoCache
    /\ dates = NoDates
    /\ due = None /\ completed = FALSE
    /\ now = 0
    /\ search = Idle
    /\ changes = 0

\* Everything runs in the thread of the program: while the loop of
\* recurTodo() runs only the clock moves on.
Change ==
    /\ ~search.active
    /\ changes < MaxChanges
    /\ changes' = changes + 1
    /\ UNCHANGED <<now, search>>

\* Every setter of a rule ends in setDirty().
Dirty == cache' = NoCache

SetDuration ==
    \E n \in Durations \ {rule.duration} :
        /\ Change
        /\ rule' = [rule EXCEPT !.duration = n]
        /\ Dirty
        /\ UNCHANGED <<exrules, dates, due, completed>>

\* setEndDateTime() that makes the rule end but forgets when
SetEndDateTimeUnset ==
    \E t \in Untils :
        /\ Change
        /\ rule' = [rule EXCEPT !.duration = 0]
        /\ Dirty
        /\ UNCHANGED <<exrules, dates, due, completed>>

SetEndDateTime ==
    \E t \in Untils :
        /\ Change
        /\ rule' = [rule EXCEPT !.duration = 0, !.end = t]
        /\ Dirty
        /\ UNCHANGED <<exrules, dates, due, completed>>

AddDate ==
    \E list \in DOMAIN NoDates, t \in Instants :
        LET x == IF list \in {"rdates", "exdates"} THEN Date(t) ELSE t
        IN  /\ Change
            /\ x \notin dates[list]
            /\ dates' = [dates EXCEPT ![list] = @ \cup {x}]
            /\ UNCHANGED <<rule, cache, exrules, due, completed>>

\* setStartDateTime() that leaves the rule its cache
RestartedClean(t) ==
    /\ rule' = [rule EXCEPT !.start = t]
    /\ exrules' = {[r EXCEPT !.start = t] : r \in exrules}
    /\ UNCHANGED cache

\* setStartDateTime() of the recurrence.
Restarted(t) ==
    /\ rule' = [rule EXCEPT !.start = t]
    /\ exrules' = {[r EXCEPT !.start = t] : r \in exrules}
    /\ Dirty

\* setDtDue() for the first occurrence.
SetFirstDue ==
    \E t \in Starts \ {rule.start} :
        /\ Change
        /\ Restarted(t)
        /\ UNCHANGED <<dates, due, completed>>

\* Any question asked about the recurrence.
Query ==
    /\ ~search.active
    /\ cache' = Filled(rule, cache)
    /\ UNCHANGED <<rule, exrules, dates, due, completed, now, search, changes>>

DtDue == IF due # None THEN due ELSE rule.start

\* setCompleted( now ), up to the loop of recurTodo().
SetCompleted ==
    LET s    == Here
        end  == EndDateTime(s)
        next == GetNextDateTime(s, DtDue)
    IN  /\ ~search.active
        /\ DtDue <= LastDue
        /\ cache' = s.cache
        /\ IF (rule.duration = -1) \/ (next # None /\ end # None /\ next <= end)
           THEN /\ search' = [active |-> TRUE, next |-> next, rightNow |-> now]
                /\ UNCHANGED completed
           ELSE /\ completed' = TRUE
                /\ UNCHANGED search
        /\ UNCHANGED <<rule, exrules, dates, due, now, changes>>

\* the loop's condition with < for <=
CurrentTooSoon == RecursAt(Here, search.next) /\ search.next >= search.rightNow

\* The condition of the loop, and that of the way out of it.
Current == RecursAt(Here, search.next) /\ search.next > search.rightNow

Exhausted ==
    \/ search.next = None
    \/ (search.next > EndDateTime(Here) /\ rule.duration # -1)

\* the loop that asks for the occurrence after the due date again
SearchNextStays ==
    /\ search.active /\ ~Current /\ ~Exhausted
    /\ search' = [search EXCEPT !.next = GetNextDateTime(Here, DtDue)]
    /\ UNCHANGED <<rule, cache, exrules, dates, due, completed, now, changes>>

SearchNext ==
    /\ search.active /\ ~Current /\ ~Exhausted
    /\ search' = [search EXCEPT !.next = GetNextDateTime(Here, @)]
    /\ UNCHANGED <<rule, cache, exrules, dates, due, completed, now, changes>>

SearchFails ==
    /\ search.active /\ ~Current /\ Exhausted
    /\ search' = Idle
    /\ completed' = TRUE
    /\ UNCHANGED <<rule, cache, exrules, dates, due, now, changes>>

\* setDtDue( next ); setCompleted( false ).
SearchFinds ==
    /\ search.active /\ Current
    /\ due' = search.next
    /\ completed' = FALSE
    /\ search' = Idle
    /\ IF search.next < rule.start THEN Restarted(rule.start)
       ELSE UNCHANGED <<rule, cache, exrules>>
    /\ UNCHANGED <<dates, now, changes>>

Tick ==
    \E t \in Clock :
        /\ t > now
        /\ now' = t
        /\ UNCHANGED <<rule, cache, exrules, dates, due, completed, search, changes>>

Search == SearchNext \/ SearchFails \/ SearchFinds

Next ==
    \/ SetDuration \/ SetEndDateTime \/ AddDate \/ SetFirstDue
    \/ Query \/ SetCompleted \/ Search \/ Tick

Spec == Init /\ [][Next]_vars /\ WF_vars(Search)

-----------------------------------------------------------------------------
(* What recurs, by definition. *)

\* The occurrences of a rule, up to Horizon.
RuleOccurrences(r) ==
    LET Fits(t) == IF TimedRepetition(r) > 0
                   THEN (t - r.start) % TimedRepetition(r) = 0
                   ELSE /\ Matches(r, t)
                        /\ (IntervalOf(r, t) - IntervalOf(r, r.start)) % r.freq = 0
        all     == {t \in r.start .. Horizon : Fits(t)}
    IN  CASE r.duration < 0 -> all
          [] r.duration = 0 -> {t \in all : t <= r.end}
          [] r.duration > 0 -> First(r.duration, all)

\* The occurrences, with those of the days in rdates: the lists of an interval and
\* the searches have those of dates.rdates, recursAt() knows of none.
Occurrences(rdates) ==
    LET excluded == dates.exdatetimes \cup UNION {RuleOccurrences(r) : r \in exrules}
        all      == {rule.start} \cup dates.rdatetimes
                       \cup {OnDate(Here, d) : d \in rdates} \cup RuleOccurrences(rule)
    IN  {t \in all \ excluded : Date(t) \notin dates.exdates /\ t <= Horizon}

(* What the code gets wrong about them. *)

\* One second before an occurrence of a simple sub-daily rule, getNextDate()
\* takes that occurrence for passed.
Skipped == IF TimedRepetition(rule) = 0 THEN {}
           ELSE {t - 1 : t \in RuleOccurrences(rule) \ {rule.start}}

\* An end of the rule that is the first instant of an interval and an
\* occurrence is not found by the search for the next one.
EndMissed ==
    /\ rule.duration = 0 /\ TimedRepetition(rule) = 0
    /\ rule.end \in RuleOccurrences(rule)
    /\ rule.end = IntervalDateTime(rule, IntervalOf(rule, rule.end))

\* So many occurrences are excluded that the 1000 loops may end among them.
GivesUp ==
    Cardinality({t \in SingleDates(Here) \cup RuleOccurrences(rule) :
                     t <= Horizon /\ Excluded(Here, t)}) >= Loops

\* A rule that has a number of occurrences it never reaches.
Contradictory == rule.duration > 0 /\ Here.cache.end = None

-----------------------------------------------------------------------------
(* Properties. *)

RuleType == [unit : Units, freq : Nat \ {0}, days : SUBSET Nat,
             start : Nat, duration : {-1} \cup Nat, end : {-1} \cup Nat]

RuleOf(r, patterns) ==
    /\ r \in RuleType
    /\ [unit |-> r.unit, freq |-> r.freq, days |-> r.days] \in patterns
    /\ r.start \in Starts
    /\ r.duration = 0 => r.end # None

\* Every rule has one of the patterns, and an end if it has no number of
\* occurrences and does not recur for ever.
TypeOK ==
    /\ RuleOf(rule, Patterns)
    /\ \A r \in exrules : RuleOf(r, ExPatterns) /\ r.duration = -1
    /\ dates \in [rdates : SUBSET Nat, rdatetimes : SUBSET Nat,
                  exdates : SUBSET Nat, exdatetimes : SUBSET Nat]
    /\ IsFiniteSet(dates.rdates) /\ IsFiniteSet(dates.rdatetimes)
    /\ {now, changes} \subseteq Nat /\ {due, search.next, search.rightNow} \subseteq {None} \cup Nat
    /\ search = [active |-> search.active, next |-> search.next, rightNow |-> search.rightNow]
    /\ {completed, search.active} \subseteq BOOLEAN

\* Whatever is changed between two questions: what the rule keeps of its
\* occurrences (mCachedDates) is that of the rule as it is now, and its exception
\* rules start when it does.
CacheIsCurrent ==
    /\ cache = NoCache \/ (rule.duration > 0 /\ cache = BuildCache(rule))
    /\ \A r \in exrules : r.start = rule.start

\* In these s is the recurrence and occs are its occurrences.
NextAgrees(s, occs, t) ==
    LET next  == GetNextDateTime(s, t)
        later == {u \in occs : u > t}
    IN  \/ later = {} /\ (next = None \/ next > Horizon)
        \/ later # {} /\ next = Min(later)

PreviousAgrees(s, occs, t) == GetPreviousDateTime(s, t) = LastOf[{u \in occs : u < t}]

\* The list of an interval is that of the rules and dates alone, without the
\* start.
Listed(s, occs) ==
    IF \/ s.rule.start \in RuleOccurrences(s.rule) \cup s.rdatetimes
       \/ \E d \in s.rdates : s.rule.start = OnDate(s, d)
    THEN occs ELSE occs \ {s.rule.start}

\* Where the code misses the next occurrence after t.
Misses(t) ==
    \/ GivesUp \/ EndMissed \/ t \in Skipped
    \/ \E u \in SingleDates(Here) \cap Skipped : u > t /\ Excluded(Here, u)

\* Whatever was changed, and in whichever order, and whatever the rule has
\* cached: the next and the previous occurrence of any date/time, and those of
\* any interval, are the ones the rules and dates define (getNextDateTime(),
\* getPreviousDateTime(), timesInInterval()).  The next occurrence is not asked
\* for where the code misses one: a second before an occurrence of a simple
\* sub-daily rule, be it asked for or an excluded date on the way, and in a rule
\* that ends as an interval begins.  The list is not asked of the simple
\* sub-daily rules, whose list is a second late, nor from before the start, when
\* it may begin too early, nor up to the very beginning of a day or month,
\* whose occurrence it misses.
AnswersAgree ==
    LET s      == Here
        occs   == Occurrences(dates.rdates)
        listed == Listed(s, occs)
    IN  ~search.active => \A t \in Asked :
            /\ NextAgrees(s, occs, t) \/ Misses(t)
            /\ PreviousAgrees(s, occs, t) \/ GivesUp
            /\ \/ \E r \in {rule} \cup exrules : TimedRepetition(r) > 0
               \/ t < rule.start \/ Contradictory
               \/ \A end \in {u \in Asked : u >= t /\ u % Minute # 0} :
                      TimesInInterval(s, t, end) = {u \in listed : u >= t /\ u <= end}

\* Where getNextDateTime() misses an occurrence the to-do misses it, too; and the
\* end of a rule that never reaches its number of occurrences is not known.
Quirk == \/ Contradictory \/ GivesUp \/ EndMissed
         \/ ({DtDue} \cup SingleDates(Here)) \cap Skipped # {}

\* A to-do that recurs at occs and is completed becomes due at the first of them
\* after both the time of completion and the occurrence that was completed; it is
\* completed for good only if there is none left.
MovesOn(occs) ==
    LET done  == IF search.active THEN search.rightNow ELSE now
        ahead == {t \in occs : t > DtDue /\ t > done}
    IN  /\ due' # due => due' = FirstOf[ahead] \/ (ahead = {} /\ due' > Horizon)
        /\ (completed' /\ ~completed) => ahead = {}

\* A recurring to-do that is completed moves on along the occurrences that
\* recursAt() knows: those of its rule, its start and its RDATEs with a time.  It
\* passes by a day given as an RDATE, whether another occurrence follows or none;
\* that it should not is RdatesFallDue.
DueIsCurrent == [][MovesOn(Occurrences({})) \/ Quirk]_vars

\* "Now we search for the occurrence that's _after_ the currentUtcDateTime"
\* (todo.cpp:467), where recursAt() "Returns true if the date/time specified is one
\* at which the event will recur" (recurrence.h:203): of all the occurrences that
\* getNextDateTime() and the lists of an interval have, the first one ahead.
RdatesFallDue == [][MovesOn(Occurrences(dates.rdates)) \/ Quirk]_vars

\* The search for the next occurrence of a completed to-do ends: the loop of
\* recurTodo() moves on, and what it looks for is found or known to be missing.
SearchEnds == search.active ~> ~search.active
=============================================================================
