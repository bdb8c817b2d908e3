--------------------------- MODULE MemoryCalendar ---------------------------
(***************************************************************************)
(* A KCalCore::MemoryCalendar and the incidences its clients hold.         *)
(*                                                                         *)
(* The calendar keeps every incidence in mIncidences, under the uid it had *)
(* when it was added, and the ones that happen on a single day a second    *)
(* time in mIncidencesForDate, under that day.  It learns of a change only *)
(* as the observer of the incidence: update() before the change takes the  *)
(* incidence out of the date index, updated() after it puts it back.  Both *)
(* calls name the incidence by (uid, recurrenceId), and the calendar looks *)
(* the incidence up anew each time.  startUpdates()/endUpdates() group     *)
(* several changes into one pair of calls.                                 *)
(*                                                                         *)
(* Incidence objects live outside the calendar (shared pointers), so an    *)
(* incidence can be changed before it is added and after it is deleted.    *)
(* The read-only early returns of the setters leave the state alone and    *)
(* are omitted.                                                            *)
(***************************************************************************)
EXTENDS Integers, FiniteSets

CONSTANTS
    Incidence,    \* the incidence objects
    Uid,          \* the uids they may carry
    RecurrenceId, \* the recurrence-ids an exception may carry
    NoRid,        \* the invalid recurrence-id of a non-exception
    Date,         \* the days
    NoDate,       \* an invalid date/time
    NoIncidence,  \* a null incidence pointer
    Types,        \* the incidence types in use
    MaxLevel,     \* bound: nesting of startUpdates()
    MaxCopies     \* bound: copies counted of one (day, incidence) entry

ASSUME ConstantsAssumption ==
    /\ Date \subseteq Int /\ IsFiniteSet(Uid)
    /\ NoDate \notin Int
    /\ NoRid \notin RecurrenceId
    /\ NoIncidence \notin Incidence
    /\ Types \subseteq {"event", "todo", "journal"}
    /\ MaxLevel \in Nat
    /\ MaxCopies \in Nat \ {0}

VARIABLES
    data,     \* the fields of each incidence
    level,    \* mUpdateGroupLevel of each incidence
    pending,  \* mUpdatedPending of each incidence
    observed, \* incidences that have the calendar among their mObservers
    held,     \* mIncidences: the pairs <<uid, incidence>>
    newer,    \* <<u, i, j>>: under u, i was inserted after j
    deleted,  \* mDeletedIncidences
    index,    \* mIncidencesForDate: copies of i under each day
    modified, \* mModified of the calendar
    onDisk,   \* incidences the storage holds since the last save
    unsaved,  \* incidences added or changed since the last save
    stray     \* history: incidences changed behind the calendar's back

vars == <<data, level, pending, observed, held, newer, deleted, index,
          modified, onDisk, unsaved, stray>>

calendarVars == <<observed, held, newer, deleted, onDisk>>

----------------------------------------------------------------------------
(* Incidences                                                              *)

OptDate == Date \cup {NoDate}

(***************************************************************************)
(* The fields that decide identity and day.  An event uses start, end (the *)
(* last day of dtEnd), hasEnd, dur (the duration: none, within the day, or *)
(* past midnight) and cache (mMultiDayValid with mMultiDay); a to-do uses  *)
(* due, hasDue and dtRec (mDtRecurrence); a journal uses start.            *)
(***************************************************************************)
Fields == [type: Types, uid: Uid, rid: RecurrenceId \cup {NoRid},
           start: OptDate, end: OptDate, hasEnd: BOOLEAN,
           dur: {"none", "short", "long"},
           cache: {"unset", "single", "multi"},
           due: OptDate, hasDue: BOOLEAN, dtRec: OptDate, recurs: BOOLEAN]

EndsLater(x) ==
    IF x.hasEnd THEN x.end # NoDate /\ x.start < x.end ELSE x.dur = "long"

\* it ends later than it starts, possibly across midnight in some zone
LastsAWhile(x) ==
    /\ x.start # NoDate
    /\ IF x.hasEnd THEN x.end # NoDate /\ x.start <= x.end ELSE x.dur # "none"

IsMultiDay(x) ==
    IF x.cache = "unset" THEN x.start # NoDate /\ EndsLater(x)
                         ELSE x.cache = "multi"

DtDue(x) ==
    IF ~x.hasDue THEN NoDate
    ELSE IF x.recurs /\ x.dtRec # NoDate THEN x.dtRec ELSE x.due

\* dateTime( RoleCalendarHashing )
Hash(x) ==
    CASE x.type = "event" -> IF x.recurs \/ IsMultiDay(x) THEN NoDate ELSE x.start
      [] x.type = "todo"  -> DtDue(x)
      [] OTHER            -> x.start

----------------------------------------------------------------------------
(* The calendar's maps                                                     *)

Live == {i \in Incidence : \E u \in Uid : <<u, i>> \in held}

TypeRank(t) == CASE t = "event" -> 1 [] t = "todo" -> 2 [] OTHER -> 3

(***************************************************************************)
(* Calendar::incidence( uid, recurrenceId ): events before to-dos before   *)
(* journals, within a type the most recently inserted.                     *)
(***************************************************************************)
IsFound(d, u, r, i) ==
    LET Candidates == {k \in Incidence : <<u, k>> \in held /\ d[k].rid = r}
        Before(k) == \/ TypeRank(d[i].type) < TypeRank(d[k].type)
                     \/ d[i].type = d[k].type /\ <<u, i, k>> \in newer
    IN  i \in Candidates /\ \A k \in Candidates \ {i} : Before(k)

Lookup(d, u, r) ==
    IF \E i \in Incidence : IsFound(d, u, r, i)
    THEN CHOOSE i \in Incidence : IsFound(d, u, r, i)
    ELSE NoIncidence

\* mutant: the calendar is handed the incidence instead of its identity
FindItself(d, i) == IF i \in Live THEN i ELSE NoIncidence

Find(d, i) == Lookup(d, d[i].uid, d[i].rid)

Empty == [d \in Date |-> 0]

\* QMultiHash::remove( day, i ) and ::insert( day, i )
Unfile(ix, i, d) ==
    IF i \in Incidence /\ d \in Date THEN [ix EXCEPT ![i][d] = 0] ELSE ix
File(ix, i, d) ==
    IF i \in Incidence /\ d \in Date /\ ix[i][d] < MaxCopies
    THEN [ix EXCEPT ![i][d] = @ + 1] ELSE ix

HashOf(d, j) == IF j \in Incidence THEN Hash(d[j]) ELSE NoDate

\* mutant: incidenceUpdate leaves the entry in
OnUpdateKeeps(ix, d, i) == ix

\* what MemoryCalendar::incidenceUpdate and ::incidenceUpdated do to the index
OnUpdate(ix, d, i) == LET j == Find(d, i) IN Unfile(ix, j, HashOf(d, j))
OnUpdated(ix, d, i) == LET j == Find(d, i) IN File(ix, j, HashOf(d, j))

----------------------------------------------------------------------------
NewIncidence ==
    {[type |-> t, uid |-> u, rid |-> r, start |-> NoDate, end |-> NoDate,
      hasEnd |-> FALSE, dur |-> "none", cache |-> "unset", due |-> NoDate,
      hasDue |-> FALSE, dtRec |-> NoDate, recurs |-> FALSE]
        : t \in Types, u \in Uid, r \in RecurrenceId \cup {NoRid}}

Init ==
    /\ data \in [Incidence -> NewIncidence]
    /\ level = [i \in Incidence |-> 0]
    /\ pending \in [Incidence -> BOOLEAN]  \* set by the setters run so far, unset in a copy
    /\ observed = {} /\ held = {} /\ newer = {} /\ deleted = {}
    /\ index = [i \in Incidence |-> Empty]
    /\ modified = FALSE
    /\ onDisk = {} /\ unsaved = {} /\ stray = {}

----------------------------------------------------------------------------
(* Changing an incidence                                                   *)

Notifies(i) == level[i] = 0 /\ i \in observed

With(i, x) == [data EXCEPT ![i] = x]

(***************************************************************************)
(* The calendar loses track of the changed incidence i unless both calls   *)
(* find i itself, update() sees the day i is filed under and updated() the *)
(* day it ends up with.                                                    *)
(***************************************************************************)
KeepsTrack(i, at, told, new) ==
    /\ Find(With(i, at), i) = i
    /\ Find(With(i, told), i) = i
    /\ Hash(data[i]) \in {NoDate, Hash(at)}
    /\ Hash(told) = Hash(new)

(***************************************************************************)
(* A change of i to new.  Outside a group it is announced to the calendar, *)
(* which leaves the index as ix; the first update() finds j, the last      *)
(* updated() k, and the calendar keeps track of i and of them or does not. *)
(***************************************************************************)
Announce(i, new, ix, j, k, kept) ==
    /\ data' = With(i, new)
    /\ pending' = [pending EXCEPT ![i] = TRUE]
    /\ unsaved' = unsaved \cup ({i} \cap Live)
    /\ IF Notifies(i)
       THEN /\ index' = ix
            /\ modified' = (modified \/ k \in Incidence)
            /\ stray' = IF kept THEN stray ELSE stray \cup ({i, j, k} \cap Live)
       ELSE UNCHANGED <<index, modified, stray>>
    /\ UNCHANGED <<level, calendarVars>>

(***************************************************************************)
(* A change that calls update() once the fields are as in at, then         *)
(* updated() once they are as in told, and returns with them as in new.    *)
(***************************************************************************)
Change(i, at, told, new) ==
    Announce(i, new,
             OnUpdated(OnUpdate(index, With(i, at), i), With(i, told), i),
             Find(With(i, at), i), Find(With(i, told), i),
             KeepsTrack(i, at, told, new))

\* mutant: a setter that forgets update() and updated()
SetterMute(i, new) ==
    /\ data' = With(i, new)
    /\ unsaved' = unsaved \cup ({i} \cap Live)
    /\ UNCHANGED <<level, pending, index, modified, stray, calendarVars>>

\* the setters proper: update(); assign; updated()
Setter(i, new) == Change(i, data[i], new, new)

\* Recurrence calls back after it changed: assign; update(); updated()
Late(i, new) == Change(i, new, new, new)

\* the setters that call neither
Silent(i, new) ==
    /\ data' = With(i, new)
    /\ unsaved' = unsaved \cup ({i} \cap Live)
    /\ stray' = IF level[i] = 0 THEN stray \cup ({i} \cap Live) ELSE stray
    /\ UNCHANGED <<level, pending, index, modified, calendarVars>>

IsEvent(i) == data[i].type = "event"
IsTodo(i) == data[i].type = "todo"
IsJournal(i) == data[i].type = "journal"

\* Any setter whose field plays no part in identity or day.
SetOther(i) == Setter(i, data[i])

SetUid(i, u) == Setter(i, [data[i] EXCEPT !.uid = u])

SetRecurrenceId(i, r) == Setter(i, [data[i] EXCEPT !.rid = r])

\* operator=: a group around an assignment of every field
Assign(i, j) ==
    /\ i # j /\ data[i].type = data[j].type
    /\ Setter(i, data[j])

(***************************************************************************)
(* Event::setDtStart drops the multi-day cache before update() is called.  *)
(* (A Recurrence it tells of the new start calls back first; the entry is  *)
(* taken out and put back once more, which changes nothing.)               *)
(***************************************************************************)
EventSetDtStart(i, d) ==
    /\ IsEvent(i)
    /\ LET at == [data[i] EXCEPT !.cache = "unset"]
           new == [at EXCEPT !.start = d]
       IN  Change(i, at, new, new)

EventSetDtEnd(i, d) ==
    /\ IsEvent(i)
    /\ Setter(i, [data[i] EXCEPT !.end = d, !.hasEnd = TRUE, !.dur = "none",
                                 !.cache = "unset"])

\* Event::setDuration clears hasEndDate before update() is called.
EventSetDuration(i, dur) ==
    /\ IsEvent(i)
    /\ LET at == [data[i] EXCEPT !.hasEnd = FALSE]
           new == [at EXCEPT !.dur = dur]
       IN  Change(i, at, new, new)

EventSetHasEndDate(i, b) ==
    /\ IsEvent(i)
    /\ Silent(i, [data[i] EXCEPT !.hasEnd = b])

(***************************************************************************)
(* Event::isMultiDay( spec ) caches what it found for the zone spec, and   *)
(* later calls without a zone return that.  It changes no field.           *)
(***************************************************************************)
EventIsMultiDayIn(i, answer) ==
    /\ IsEvent(i)
    /\ answer = "multi" => LastsAWhile(data[i])
    /\ data' = With(i, [data[i] EXCEPT !.cache = answer])
    /\ stray' = IF level[i] = 0 /\ Hash(data'[i]) # Hash(data[i])
                THEN stray \cup ({i} \cap Live) ELSE stray
    /\ UNCHANGED <<level, pending, index, modified, unsaved, calendarVars>>

\* The base class shifts dtStart inside its pair of calls, Event dtEnd after it.
EventShiftTimes(i, start, end) ==
    /\ IsEvent(i)
    /\ data[i].start # NoDate /\ data[i].end # NoDate
    /\ LET told == [data[i] EXCEPT !.start = start]
           new == IF data[i].hasEnd THEN [told EXCEPT !.end = end] ELSE told
       IN  Change(i, data[i], told, new)

JournalSetDtStart(i, d) ==
    /\ IsJournal(i)
    /\ Setter(i, [data[i] EXCEPT !.start = d])

\* Todo::setDtDue( d, first ), its own update group around it
TodoSetDtDue(i, d, first) ==
    /\ IsTodo(i)
    /\ Setter(i, IF data[i].recurs /\ ~first
                 THEN [data[i] EXCEPT !.hasDue = (d # NoDate), !.dtRec = d]
                 ELSE [data[i] EXCEPT !.hasDue = (d # NoDate), !.due = d])

TodoSetHasDueDate(i, b) ==
    /\ IsTodo(i)
    /\ Setter(i, [data[i] EXCEPT !.hasDue = b])

TodoSetDtRecurrence(i, d) ==
    /\ IsTodo(i)
    /\ Silent(i, [data[i] EXCEPT !.dtRec = d])

TodoShiftTimes(i, due, rec) ==
    /\ IsTodo(i)
    /\ data[i].due # NoDate /\ (data[i].dtRec = NoDate <=> rec = NoDate)
    /\ Change(i, data[i], data[i],
              [data[i] EXCEPT !.due = due,
                              !.dtRec = IF data[i].recurs THEN rec ELSE @])

(***************************************************************************)
(* Todo::setCompleted( dateTime ) of a to-do that recurs again on d: the   *)
(* setters recurTodo calls notify on their own inside the outer pair, so   *)
(* the to-do is filed by the last of them and again by the outer updated().*)
(***************************************************************************)
TodoComplete(i, d) ==
    /\ IsTodo(i) /\ data[i].recurs /\ data[i].hasDue
    /\ LET new == [data[i] EXCEPT !.dtRec = d]
           after == With(i, new)
           inner == OnUpdated(OnUpdate(OnUpdate(index, data, i), after, i), after, i)
       IN  Announce(i, new, OnUpdated(inner, after, i),
                    Find(data, i), Find(after, i), Find(data, i) = i /\ Find(after, i) = i)

\* Recurrence::unsetRecurs, clear, removeRRule, deleteRRule, ...
StopRecurring(i) == Late(i, [data[i] EXCEPT !.recurs = FALSE])

\* Recurrence::addRRule, addRDate, addRDateTime, setRDates, ...
AddRecurrence(i) == Late(i, [data[i] EXCEPT !.recurs = TRUE])

(***************************************************************************)
(* Recurrence::setDaily and its siblings: setNewRecurrenceType clears the  *)
(* rules and notifies, then adds the new rule and notifies again.          *)
(***************************************************************************)
SetNewRecurrence(i) ==
    LET cleared == With(i, [data[i] EXCEPT !.recurs = FALSE])
        new == With(i, [data[i] EXCEPT !.recurs = TRUE])
        Refile(ix, d) == OnUpdated(OnUpdate(ix, d, i), d, i)
        h == Hash(cleared[i])
    IN  Announce(i, new[i], Refile(Refile(index, cleared), new),
                 Find(cleared, i), Find(new, i),
                 /\ Find(cleared, i) = i /\ Find(new, i) = i
                 /\ Hash(data[i]) \in {NoDate, h, Hash(new[i])}
                 /\ h \in {NoDate, Hash(new[i])})

\* Incidence::clearRecurrence drops the Recurrence object and tells nobody.
ClearRecurrence(i) ==
    Silent(i, [data[i] EXCEPT !.recurs = FALSE])

\* mutant: opening a group neither announces nor sets mUpdatedPending
StartUpdatesQuiet(i) ==
    /\ level[i] < MaxLevel
    /\ level' = [level EXCEPT ![i] = @ + 1]
    /\ UNCHANGED <<data, pending, index, stray, modified, unsaved, calendarVars>>

StartUpdates(i) ==
    /\ level[i] < MaxLevel
    /\ level' = [level EXCEPT ![i] = @ + 1]
    /\ pending' = [pending EXCEPT ![i] = @ \/ level[i] = 0]
    /\ IF Notifies(i)
       THEN /\ index' = OnUpdate(index, data, i)
            /\ stray' = IF Find(data, i) = i THEN stray
                        ELSE stray \cup ({i, Find(data, i)} \cap Live)
       ELSE UNCHANGED <<index, stray>>
    /\ UNCHANGED <<data, modified, unsaved, calendarVars>>

\* mutant: closing a group that is not open
EndUpdatesUnguarded(i) ==
    /\ level' = [level EXCEPT ![i] = @ - 1]
    /\ UNCHANGED <<data, pending, index, stray, modified, unsaved, calendarVars>>

EndUpdates(i) ==
    /\ level[i] > 0
    /\ level' = [level EXCEPT ![i] = @ - 1]
    /\ IF level[i] = 1 /\ pending[i]
       THEN /\ pending' = [pending EXCEPT ![i] = FALSE]
            /\ IF i \in observed
               THEN /\ index' = OnUpdated(index, data, i)
                    /\ modified' = (modified \/ Find(data, i) \in Incidence)
                    /\ stray' = IF Find(data, i) = i THEN stray
                                ELSE stray \cup ({i, Find(data, i)} \cap Live)
               ELSE UNCHANGED <<index, modified, stray>>
       ELSE UNCHANGED <<pending, index, modified, stray>>
    /\ UNCHANGED <<data, unsaved, calendarVars>>

----------------------------------------------------------------------------
(* Operations of the calendar                                              *)

Key(i) == <<data[i].uid, i>>

\* mutant: insertIncidence without the test whether mIncidences contains i
InsertAgain(i) ==
    /\ held' = held \cup {Key(i)}
    /\ index' = File(index, i, Hash(data[i]))
    /\ unsaved' = unsaved \cup {i}
    /\ UNCHANGED <<newer, stray>>

(***************************************************************************)
(* An incidence inserted while its update group is open is filed under a   *)
(* day that may change before endUpdates() files it again.                 *)
(***************************************************************************)
InsertIncidence(i) ==
    IF Key(i) \in held
    THEN UNCHANGED <<held, newer, index, unsaved, stray>>
    ELSE /\ held' = held \cup {Key(i)}
         /\ newer' = newer \cup
              {<<data[i].uid, i, j>> : j \in {k \in Incidence :
                                              <<data[i].uid, k>> \in held}}
         /\ index' = File(index, i, Hash(data[i]))
         /\ unsaved' = unsaved \cup {i}
         /\ stray' = IF level[i] = 0 THEN stray ELSE stray \cup {i}

\* mutant: addIncidence without setModified
AddIncidenceUnflagged(i) ==
    /\ InsertIncidence(i)
    /\ observed' = observed \cup {i}
    /\ UNCHANGED <<data, level, pending, deleted, onDisk, modified>>

AddIncidence(i) ==
    /\ InsertIncidence(i)
    /\ observed' = observed \cup {i}
    /\ modified' = TRUE
    /\ UNCHANGED <<data, level, pending, deleted, onDisk>>

\* the exceptions deleteIncidenceInstances takes along: listed under the uid
\* of i, and found under their own
Instances(i) ==
    {e \in Incidence : /\ <<data[i].uid, e>> \in held /\ Key(e) \in held
                       /\ data[e].type = data[i].type
                       /\ data[e].rid # NoRid}

\* mutant: the exceptions stay
VictimsAlone(i) == {i}

Victims(i) == {i} \cup (IF data[i].rid = NoRid THEN Instances(i) ELSE {})

DeleteIncidence(i) ==
    /\ Key(i) \in held
    /\ held' = held \ {Key(v) : v \in Victims(i)}
    /\ newer' = {n \in newer : <<n[1], n[2]>> \in held' /\ <<n[1], n[3]>> \in held'}
    /\ index' = [j \in Incidence |->
                    IF j \in Victims(i)
                    THEN [d \in Date |-> IF d = Hash(data[j]) THEN 0 ELSE index[j][d]]
                    ELSE index[j]]
    /\ deleted' = deleted \cup Victims(i)
    /\ unsaved' = {j \in unsaved : \E u \in Uid : <<u, j>> \in held'}
    /\ modified' = TRUE
    /\ UNCHANGED <<data, level, pending, observed, onDisk, stray>>

(***************************************************************************)
(* deleteAllEvents, deleteAllTodos, deleteAllJournals.  A group is opened  *)
(* for each entry, twice for an incidence held under two uids, and never   *)
(* closed; opening the first one notifies the calendar, whose lookup may   *)
(* take an incidence of another type out of the index.                     *)
(***************************************************************************)
OfType(T) == {i \in Live : data[i].type \in T}
Entries(i) == Cardinality({u \in Uid : <<u, i>> \in held})
Misfiled(T) == {Find(data, i) : i \in {k \in OfType(T) : level[k] = 0}} \cap Incidence

Wipe(T) ==
    /\ \A i \in OfType(T) : level[i] + Entries(i) <= MaxLevel
    /\ level' = [i \in Incidence |-> IF i \in OfType(T) THEN level[i] + Entries(i)
                                      ELSE level[i]]
    /\ pending' = [i \in Incidence |-> pending[i] \/ (i \in OfType(T) /\ level[i] = 0)]
    /\ held' = {h \in held : data[h[2]].type \notin T}
    /\ newer' = {n \in newer : <<n[1], n[2]>> \in held' /\ <<n[1], n[3]>> \in held'}
    /\ index' = [i \in Incidence |->
                    IF data[i].type \in T THEN Empty
                    ELSE IF i \in Misfiled(T)
                    THEN [d \in Date |-> IF d = Hash(data[i]) THEN 0 ELSE index[i][d]]
                    ELSE index[i]]
    /\ unsaved' = {i \in unsaved : data[i].type \notin T}
    /\ stray' = {i \in stray \cup Misfiled(T) : data[i].type \notin T}
    /\ UNCHANGED <<data, observed>>

DeleteAll(t) == Wipe({t}) /\ UNCHANGED <<deleted, modified, onDisk>>

\* observers are disabled throughout and hear of none of it
Close ==
    /\ Wipe({"event", "todo", "journal"})
    /\ deleted' = {}
    /\ modified' = FALSE
    /\ onDisk' = {}

\* FileStorage::save, successful
Save ==
    /\ modified' = FALSE
    /\ onDisk' = Live
    /\ unsaved' = {}
    /\ UNCHANGED <<data, level, pending, observed, held, newer, deleted, index, stray>>

----------------------------------------------------------------------------
Identify(i) ==
    \/ \E u \in Uid : SetUid(i, u)
    \/ \E r \in RecurrenceId \cup {NoRid} : SetRecurrenceId(i, r)
    \/ \E j \in Incidence : Assign(i, j)

ChangeEvent(i) ==
    \/ \E d \in OptDate : EventSetDtStart(i, d)
    \/ \E d \in OptDate : EventSetDtEnd(i, d)
    \/ \E dur \in {"short", "long"} : EventSetDuration(i, dur)
    \/ \E b \in BOOLEAN : EventSetHasEndDate(i, b)
    \/ \E answer \in {"single", "multi"} : EventIsMultiDayIn(i, answer)
    \/ \E start, end \in Date : EventShiftTimes(i, start, end)

ChangeTodo(i) ==
    \/ \E d \in OptDate, first \in BOOLEAN : TodoSetDtDue(i, d, first)
    \/ \E b \in BOOLEAN : TodoSetHasDueDate(i, b)
    \/ \E d \in OptDate : TodoSetDtRecurrence(i, d)
    \/ \E due \in Date, rec \in OptDate : TodoShiftTimes(i, due, rec)
    \/ \E d \in Date : TodoComplete(i, d)

ChangeRecurrence(i) ==
    \/ StopRecurring(i)
    \/ AddRecurrence(i)
    \/ SetNewRecurrence(i)
    \/ ClearRecurrence(i)

IncidenceNext(i) ==
    \/ SetOther(i)
    \/ Identify(i)
    \/ ChangeEvent(i)
    \/ \E d \in OptDate : JournalSetDtStart(i, d)
    \/ ChangeTodo(i)
    \/ ChangeRecurrence(i)
    \/ StartUpdates(i)
    \/ EndUpdates(i)

Next ==
    \/ \E i \in Incidence : IncidenceNext(i) \/ AddIncidence(i) \/ DeleteIncidence(i)
    \/ \E t \in Types : DeleteAll(t)
    \/ Close
    \/ Save

Spec == Init /\ [][Next]_vars

----------------------------------------------------------------------------
(* Properties                                                              *)

TypeOK ==
    /\ data \in [Incidence -> Fields]
    /\ level \in [Incidence -> 0 .. MaxLevel]
    /\ pending \in [Incidence -> BOOLEAN]
    /\ observed \subseteq Incidence
    /\ held \subseteq Uid \X Incidence
    /\ newer \subseteq Uid \X Incidence \X Incidence
    /\ deleted \subseteq Incidence
    /\ index \in [Incidence -> [Date -> 0 .. MaxCopies]]
    /\ modified \in BOOLEAN
    /\ onDisk \subseteq Incidence
    /\ unsaved \subseteq Incidence
    /\ stray \subseteq Incidence

(***************************************************************************)
(* The date index agrees with the incidences: one that is in the calendar  *)
(* and not inside an update group is filed under its day and no other, and *)
(* one that is not in the calendar, or is being changed, is not filed.     *)
(* This holds of every incidence that was only changed between update()    *)
(* and updated(), whatever is done to the others.                          *)
(***************************************************************************)
IndexExact ==
    \A i \in Incidence \ stray : \A d \in Date :
        (index[i][d] > 0) <=> (i \in Live /\ level[i] = 0 /\ d = Hash(data[i]))

(***************************************************************************)
(* An event or a journal is filed at most once under a day, so a query for *)
(* the day lists it once.  (A recurring to-do that is completed is not.)   *)
(***************************************************************************)
ListedOnce ==
    \A i \in Incidence \ stray : \A d \in Date : ~IsTodo(i) => index[i][d] <= 1

(***************************************************************************)
(* A calendar that is not modified has nothing to save: each change of an  *)
(* incidence in it has been announced to it by the time the change, or the *)
(* group the change was part of, is complete.                              *)
(***************************************************************************)
ChangesFlagged ==
    \A i \in unsaved \ stray : level[i] = 0 => modified

(***************************************************************************)
(* An incidence the storage has never seen makes the calendar modified,    *)
(* through any order of additions, deletions, re-additions and saves.      *)
(***************************************************************************)
AdditionsFlagged ==
    ~(Live \subseteq onDisk) => modified

(***************************************************************************)
(* An open update group has a pending update, so that closing it always    *)
(* announces it: endUpdates() never finds mUpdatedPending unset.           *)
(***************************************************************************)
GroupPending ==
    \A i \in Incidence : level[i] > 0 => pending[i]

(***************************************************************************)
(* Deleting a recurring incidence takes along its exceptions: no step      *)
(* removes a parent and leaves behind an exception of its type and uid.    *)
(***************************************************************************)
ExceptionsFollowParent ==
    [][\A p \in Live \ Live', e \in Live \ stray :
          (/\ data[p].rid = NoRid /\ data[e].rid # NoRid
           /\ data[e].uid = data[p].uid /\ data[e].type = data[p].type
           /\ level[e] = 0)
          => e \notin Live']_vars

(***************************************************************************)
(* The comment on mIncidencesForDate: of the events, only those that do    *)
(* not recur and do not span days are in it.                               *)
(***************************************************************************)
OnlySingleDaysFiled ==
    \A i \in Live : IsEvent(i) /\ (data[i].recurs \/ IsMultiDay(data[i]))
                       => \A d \in Date : index[i][d] = 0

(***************************************************************************)
(* The assertion in insertIncidence, "if we already have an to-do with     *)
(* this UID, it must be the same incidence".  If an incidence is added     *)
(* again and nothing is broken, the others held under its uid carry that   *)
(* uid and another recurrence-id, as it and its exceptions do, then it is  *)
(* the one mIncidences returns for the uid.                                *)
(***************************************************************************)
ReAddedIsTheSame ==
    [][\A i \in Incidence :
          LET namesakes == {j \in Incidence \ {i} : /\ <<data[i].uid, j>> \in held
                                                   /\ data[j].type = data[i].type}
          IN  /\ AddIncidence(i) /\ Key(i) \in held
              /\ \A j \in namesakes : Key(j) \in held /\ data[j].rid # data[i].rid
              => \A j \in namesakes : <<data[i].uid, j, i>> \notin newer]_vars
=============================================================================
