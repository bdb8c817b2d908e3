# A verification project for KCalCore and the Akonadi client library

TLA+ models of the parts of this repository that keep state others depend on,
TLC runs that check them on small instances, and TLAPS proofs for every value of
the constants.

The repository is a fork of kdepimlibs. `src/kcalcore.pro` builds one library
from it, kcalcore (`src/kcalcore/`); beside it lies the Akonadi client library
(`src/akonadi/`), with the base classes every Akonadi resource is built from.
The project covers the calendar of the first and, of the second, what runs inside
an agent: recording changes, scheduling work, synchronising a collection. File
names below are unique in `src/`; the paths are in `PROJECT.json`.

## The system

### KCalCore

A sequential library. Clients own incidences (events, to-dos, journals)
through shared pointers, add them to a calendar and go on changing them. Nothing
runs concurrently; what is hard is that components talk through synchronous
callbacks in the middle of their own updates, name each other by values that the
update may be changing, and keep second copies (indexes, caches, flags) of what
somebody else owns.

| Component | State | Operations | Interacts with |
| --- | --- | --- | --- |
| MemoryCalendar | `mIncidences` (by type and uid), `mDeletedIncidences`, `mIncidencesForDate` (by type and day) | add, delete, delete all of a type, close, queries | observer of every incidence it was ever given |
| Change notification (IncidenceBase, Incidence) | uid, recurrence-id, `mUpdateGroupLevel`, `mUpdatedPending`, `mObservers` | setters, `operator=`, `startUpdates`, `endUpdates` | calls `incidenceUpdate` before and `incidenceUpdated` after a change |
| Event, Todo, Journal | start, end, duration, due date, recurrence date, multi-day cache | setters, `shiftTimes`, `setCompleted` | `dateTime( RoleCalendarHashing )` decides the day of the index |
| Recurrence | rules, dates, exceptions | `setDaily` ..., `addRRule`, `clear`, occurrence queries | calls back the incidence after it changed; asks its rules |
| RecurrenceRule | constraints, cached dates, how far the cache reaches | `getNextDate`, `getPreviousDate`, `timesInInterval`, setters | Recurrence |
| Calendar: notebooks | `mNotebooks`, `mUidToNotebook`, `mNotebookIncidences`, `mIncidenceVisibility`, `mDefaultNotebook` | add, update, delete a notebook; associate; `isVisible` | reads the incidences, tells the calendar's observers |
| Calendar: relations, observers, filter | `mIncidenceRelations`, `mOrphans`, `mObservers`, `mModified` | set up and remove relations, register, notify | called by add and delete |
| FileStorage | file name, save format | load, save | resets `mModified` |
| SortableList, Alarm, FreeBusy, formats, value classes | their own values | pure functions, getters and setters | - |

### Akonadi, inside an agent

One thread with an event loop. An agent is told of changes by the server, sends
jobs to it and is answered later; in between anything else may happen, and the
process may be killed. Callers in other processes wait for it in D-Bus calls.

| Component | State | Operations | Interacts with |
| --- | --- | --- | --- |
| ChangeRecorder, MonitorPrivate | `pendingNotifications`, `pipeline`, the changes file with its start offset, what is monitored | `slotNotify`, `replayNext`, `changeProcessed`, filters, loading and saving | EntityCache, the resource, the server |
| EntityCache | a FIFO of entities, fetch jobs under way | `request`, `ensureCached`, `update`, answers | ChangeRecorder |
| ResourceScheduler | five queues, the current task, online or not | schedule, `taskDone`, `deferTask`, `setOnline`, cancel | ResourceBase, D-Bus callers |
| ResourceBase | current collection, the two syncers | slots of every task, what the implementation calls | scheduler, recorder, syncers, the implementation |
| ItemSync | counters, local items, what was delivered | deliveries, results of jobs, `rollback` | TransactionSequence, ResourceBase, the server |
| TransactionSequence, Job | state of a transaction, queue of subjobs | add a job, commit, rollback, results | ItemSync, the server |
| CollectionSync, RecursiveMover, Session, models, plug-ins | - | - | not modelled |

What makes them correct, and where it is hard:

* the date index agrees with the incidences whatever the order of setters,
  groups, callbacks, additions and deletions (ordering, stale state);
* every change to what has been saved marks the calendar as modified;
* identity: a lookup by uid and recurrence-id finds the incidence being changed;
* a recurring incidence and its exceptions are deleted and moved together, and
  the lists, associations and caches of notebooks agree;
* a search for the next occurrence ends, and what a rule has cached is what it
  would compute;
* a change the recorder has written survives a crash, is replayed in order, once,
  and dequeued when the agent has dealt with it and not before;
* a cache filled by a job that was sent before a change is corrected;
* work asked for twice is done once, work put back is not lost, nobody who waits
  is forgotten or answered twice, and an idle resource with work wakes up;
* a sync ends, once, and its result says what is stored; a failed transaction
  leaves nothing behind.

`PROJECT.json` lists the hazards found, each at its line, with the properties that
cover it or the reason none does. Where a property leaves out the very states a hazard
leads to, it is not listed for that hazard, or the note says which part it covers. Two
oddities of the calendar are only named here: putting an incidence twice into one notebook
lists it twice (`calendar.cpp:556`), and the default notebook stays the default when it is
deleted (`calendar.cpp:475`).

## The models

| Module | Models | Built on |
| --- | --- | --- |
| `MemoryCalendar` | the calendar and the incidences around it | - |
| `Notebooks` | the notebook half of `Calendar` | - |
| `Recurrence` | one recurring to-do: rules, cache, queries, completion | - |
| `EntityCache` | the cache as operators on a record | - |
| `Sublists` | what compression does to a list, independent of order of search | - |
| `ChangeRecorder` | recorder and monitor, file, replay, crashes | EXTENDS `EntityCache`, `Sublists` |
| `ChangeQueue` | what a recorder promises: a durable queue | refined by `ChangeRecorder` |
| `Resource` | scheduler and ResourceBase | EXTENDS `Sublists` |
| `ItemSync` | ItemSync, its transactions and their queue of jobs | - |
| `MC...` | bounds, symmetry, views and scenes for TLC | one each |
| `...Proofs` | theorems | see below |

The parts of an agent are composed where they share state: the cache is part of the
recorder, the syncer's queue of jobs and transactions part of ItemSync. Across these
borders each module has the other's interface. `Resource` knows the recorder as a
number of changes, of which one is dequeued at the end of a replay, and it takes
for granted that a replay is answered; `ChangeRecorder` in turn knows the scheduler
as "a replay is queued" and "a replay runs", which is what `Resource` proves of it
(`ReplayIsScheduled`), and shows that a running replay is in hand (`OneInHand`). `Resource`
knows a syncer as something that has a result some time after everything was
delivered; `ItemSync` shows when that is so (`Ends`), and one finding that it is
not always.

### MemoryCalendar.tla

| Variable | Code |
| --- | --- |
| `data[i]` | the fields of the incidence that decide its identity and its day |
| `level[i]`, `pending[i]`, `observed` | `mUpdateGroupLevel`, `mUpdatedPending`, `mObservers` |
| `held`, `newer` | `mIncidences`: pairs of the uid used at insertion and the incidence; which of two under a uid came later (`QMultiHash::value` returns the latest) |
| `deleted`, `index`, `modified` | `mDeletedIncidences`, `mIncidencesForDate`, `mModified` |
| `onDisk` | what the last successful save wrote |
| `unsaved`, `stray` | history only, read by no action |

Days are integers and the time of day is gone, except that an event's duration
may stay within its day or not. `Hash` is `dateTime( RoleCalendarHashing )`.
A notification names the incidence by uid and recurrence-id, so `OnUpdate` and
`OnUpdated` go through `Find`, the calendar's own lookup (events before to-dos
before journals, the latest first), and may find another incidence or none.
This, and the place of `update()` and `updated()` among the assignments, is the
heart of the model; there are four shapes of a change:

* `Setter`: `update()`, assign, `updated()`;
* `Late`: the callback of `Recurrence`, which has already changed;
* `Silent`: setters that notify nobody (`setHasEndDate`, `setDtRecurrence`,
  `clearRecurrence`);
* `Change`: what is left, setters that assign something before `update()` or
  after `updated()` (`Event::setDtStart`, `setDuration`, `shiftTimes`).

Each action is one public operation with everything it calls, e.g.
`TodoComplete` is `setCompleted()` of a recurring to-do with the setters that
`recurTodo()` calls inside the outer pair of callbacks. Setters of fields
without influence on identity or day are one action, `SetOther`. The read-only
early returns change nothing and are left out, as are `setupRelations()` and
`removeRelations()`: the only branch that could make a relation is unreachable
(`calendar.cpp:1002`), so their tables stay empty.

`stray` collects the incidences the calendar lost track of: changed behind its
back, found under another's name, filed in the middle of a group. The
properties about single incidences are about the others. It would be useless if it
collected too much: it grows only on the conditions written in `KeepsTrack`,
`Silent`, `StartUpdates`, `EndUpdates`, `AddIncidence` and `Wipe`. In particular a
setter, `setDtEnd` and nested groups leave it alone when the calendar can follow, and
other incidences may do anything. No property is about `stray` itself: that an
incidence not in it is held under its uid is part of the invariant of the proofs
(`KeyCurrent`), true by the definition of `stray` and claimed for nothing else. The
code never gives an incidence another key in `mIncidences`. What happens to the
incidences left out is shown by the run `filed` or said under Findings.

### Notebooks.tla

Associations of uids (`notebookOf`) and of incidence objects (`listed`) with
notebooks, the default notebook, the visibility cache (`cached`), and what an
observer that asks for the notebook when it is told of an incidence has read last
(`seen`). Incidences are records of uid, recurrence-id and object, because the code
tells objects apart in `mNotebookIncidences` and in the cache, and lookups do not.
`left` is a history variable: objects listed when their uid moved elsewhere while
they were not in the calendar (or not an exception of it); the code leaves them
where they were.

The two calendar modules are separate: the notebooks only read which incidences the
calendar contains (`live`), and the calendar reads nothing of them when it adds,
changes or deletes. `AddIncidence` of Notebooks assumes that clients do not put two
objects with the same uid and recurrence-id into one calendar; MemoryCalendar
does not assume it.

### Recurrence.tla

A recurring to-do in a small calendar: minutes, days, and months of which every
second lacks a day, all in seconds. `rule` with its constraints and `cache`
(`mCached`, `mCachedDates`, `mCachedDateEnd`, `mCachedLastDate`), `exrules`, `dates`
(RDATE and EXDATE, by day and by time). The queries are operators that return the
answer and the cache they leave: `buildCache`, `getNextDate`, `getPreviousDate`,
`timesInInterval` of a rule with their bounded loops, and `getNextDateTime`,
`getPreviousDateTime`, `timesInInterval`, `recursAt`, `endDateTime` of a
Recurrence over them. A loop over intervals is the set of those it looks at, of which
the first with a date counts; the loops over candidates are recursive functions, the number
of the round first and the date second. Setters mark the cache dirty where the code does.
Completing
the to-do is `SetCompleted` and then one `Search` per iteration of the loop in
`Todo::Private::recurTodo`. In the library this loop runs in one call; it is given
steps so that "it ends" can be said.

The reference the answers are compared with is `Occurrences`, the set of date/times that
the rules and dates define, without cache, intervals or searches. Where the code differs
from it is written down as operators of their own (`Skipped`, `EndMissed`, `GivesUp`,
`Contradictory`), which say exactly which questions are exempted.

### EntityCache.tla, ChangeRecorder.tla, ChangeQueue.tla

| Variable | Code |
| --- | --- |
| `pending`, `pipeline` | `pendingNotifications`, `pipeline` |
| `file`, `startOffset`, `needFullSave`, `lastKnown` | the changes file (messages, offset, version), `m_startOffset`, `m_needFullSave`, `m_lastKnownNotificationsCount` |
| `configured` | `settings`: after `AgentBase::quit()` the recorder no longer saves |
| `saving`, `call`, `tally` | the slot under way, between opening the file and the rest of it, with its counters |
| `posted`, `cache` | queued calls of `replayNext()`; the item cache with the jobs under way |
| `collections`, `heard`, `rewired` | what is monitored, which signals are connected, bounded changes of both |
| `scheduled`, `replaying`, `given` | the resource's replay, and the change its agent works on |
| `at`, `notified`, `crashes` | where each item lies on the server, which sends only notifications that can follow each other; bounds |
| `disturbed` | history: the change under replay was compressed away or filtered out |

`NotifyOne` is `slotNotify` with the filter, the translation of moves and
`appendAndCompress`. A slot that writes the file is two steps, since opening
truncates it; `call` says how it continues. `Crash` kills the agent at any point: in
the middle of a write a prefix of the messages, or nothing, is left; the offset is
written in place and in one piece. `Quit` and `Exit` are an orderly end with slots
in between. A job answered after its item changed is assumed to bring the old data,
the worst the server can do; entries and jobs are marked `old`.

`ChangeQueue` is the abstract specification: a queue that grows at its end, loses its
front when the agent has answered, loses otherwise only what nobody wants or what
a removal overtakes, and survives restarts except in the middle of a write.

### Resource.tla

| Variable | Code |
| --- | --- |
| `sched` | `ResourceScheduler`: five queues, current task and the queue it is from, online, timers posted |
| `job`, `late` | what the current task waits for; jobs that go on although their task was put back |
| `changes` | the number of changes in the recorder |
| `opened`, `syncer`, `tree` | `currentCollection`, `mItemSyncer`, `mCollectionSyncer` |
| `status` | the D-Bus callers of `requestItemDelivery()` |
| `mishaps` | history: what tasks were lost by (aborted, ended by a stray answer, dropped with their collection), and items that came unasked |

An answer goes to the slot it is connected to, which works on whatever task is the
current one. The assertions that would notice are compiled out of a release
build, so a stray answer may end another task; this is in the model (`late`,
`mishaps`). What the implementation of the resource does is any call it may make.

### ItemSync.tla

`sync` is a record of the fields of ItemSync, with `queue`: its jobs and transactions
in the order in which the server gets them, each transaction with its state and
its jobs. The batch that has arrived is a set, and one of its items is processed
before another in an unspecified order. `store`, `saved`, `open` are the server (external;
`Effect` is what a job makes of the items): what is stored,
what would be after a rollback, whether a transaction is open. Actions are what the
resource calls (`Deliver`, `DeliveryDone`, `Cancel` for `rollback()`) and the
answers to the job at the head of the queue, each with all it leads to.

Assumed of the resource: it delivers an item once, and nothing more after the delivery
is complete, except that a chunk may still come after `rollback()`. Of the server: a
rollback does not fail, and a failed commit discards the transaction.
`addSubjob()` leaves a transaction `Running` whatever it was, so the states
`RollingBack` and `Committing` never last from one step to the next, and are left
out. `AllOrNothing` is about mode Single; what holds in mode Multiple too is
`SeenByCommit`: others see something new only when a transaction in which nothing has failed
is committed. A transaction may be deleted with changes still queued in it; `orphaned`
remembers that, and properties that it makes false exempt it. `rollback()` is
documented to roll back all transactions not yet committed (`itemsync.h`); those
already let go of (mode Multiple, or after the delivery is complete) still commit.
No run of its own shows that.

## The runs

| Run | Instance | States, time | Shows |
| --- | --- | --- | --- |
| calendar | two incidences in one of three scenes | 287 057, 100 s | `TypeOK`, `IndexExact`, `ListedOnce`, `ChangesFlagged`, `AdditionsFlagged`, `GroupPending`, `ExceptionsFollowParent` |
| notebooks | 1 uid, 1 exception, 2 objects of each, 2 notebooks | 844 588 | `TypeOK`, `OneNotebook`, `MovedTogether`, `ObserversKnow`, `HiddenByNotebook` |
| recurrence | 5 rules, 2 exception rules, 2 starts, 2 changes | 30 916, 67 s | `TypeOK`, `CacheIsCurrent`, `AnswersAgree`, `DueIsCurrent`, `SearchEnds` |
| change_recorder | 2 items, 2 collections, 3 notifications, 2 changes of the filter, 1 crash | 790 677, 40 s | `TypeOK`, `FileMatches`, `ContractKept`, `OneInHand`, `PendingIsScheduled`, `FetchOnTheWay`, `StaleIsRefetched`, `HeadIsGiven`, `Durable`, `Drains` |
| resource | 2 items, 2 collections, 2 callers, any 4 events | 993 540, 130 s | `TypeOK`, `TasksOnce`, `RequestsHeld`, `ReplayScheduled`, `SyncerFits`, `Drains` |
| item_sync | 3 items of which any are stored, chunks of at most 2, 2 failures, every mode and form | 55 369, 45 s | `TypeOK`, `Accounted`, `AllOrNothing`, `Complete`, `NothingLost`, `Ends`, `SeenByCommit` |
| filed, readd, visibility, recurrence_rdates, change_recorder_processed, item_sync_ends | the smallest instance of each | - | a disagreement between code and documentation, see Findings |

Deadlock is checked except in the runs of the agent, which stop when the bounds are
used up and everything was answered.

Why the bounds are enough to be interesting.

* *calendar.* How an incidence moves between days depends on it alone as long as
  lookups find it: the scene `Dates` is one incidence of any type with every setter,
  two days and groups nested twice, beside a to-do nothing happens to. A second
  incidence adds the lookup, which reads uid, recurrence-id, type and order of
  insertion: `Identity` is two journals with two uids, a recurrence-id and one day;
  `AcrossTypes` an event beside an event or a journal under one uid, the events
  without ends, which `Dates` covers. Two copies of an entry are all that
  `ListedOnce` needs. States in which every incidence is in `stray` are not explored
  further (`SomeKept`): they say nothing more.
* *notebooks.* An operation touches one uid, so one is enough; moving needs a parent,
  an exception and two notebooks, replacement a second object. `FewObjects` bounds how
  many objects take part (3 of 4), and known notebooks and cached answers to 1: these
  are checked when they are reached, but lead no further.
* *recurrence.* Two seconds a minute, two minutes a day, months of three and two days:
  a monthly rule on the 3rd skips months, a start in a short month never matches,
  intervals have gaps, COUNT and UNTIL cut a rule off; one UNTIL is a beginning of an
  interval, one is not. `Limit` 8 stands for
  `LOOP_LIMIT` 10000 and `Loops` 6 for the 1000 of `recurrence.cpp`: large enough that
  the searches reach `Horizon`, beyond which the properties do not look
  (`ReachAssumption`, which TLC checks). No more than `Loops` candidates are excluded in
  this instance; the theorems hold with any number of them.
* *change_recorder.* Three notifications are a modification under replay, another
  that is compressed into it, and a removal, for an item that is monitored by itself
  and one by its collection; capacity 1 makes the cache evict; one crash between any
  two steps. Only `Modify` can be disconnected.
* *resource.* Four events of any kind together (`MaxEvents`), at most 2 tasks asked for, 2
  changes, 1 offline period, 1 deferral, 1 abort. Callers and items are used in an
  order, and tasks that only wait for a job are of one collection (`Canonical`): they
  are interchangeable. Jobs of ResourceBase itself go on when their task is
  put back, an implementation may drop its own or not: `Late` is the set of those that
  go on. In the run it is `prepare` (ResourceBase's own) and `items` (an
  implementation's); the theorems hold for any.
* *item_sync.* Three items in chunks of up to two are at least two chunks, one of them
  changed; two failures are a job that fails twice over or a job and the commit of
  another transaction. After `rollback()` one chunk may wait for the list.

### Fairness

KCalCore's operations happen when a client calls them, and no client has to; the
calendar and notebooks state no fairness. `Recurrence` has `WF(Search)`: the iterations of one
loop in one call. In an agent:

* `ChangeRecorder`: `WF` of the continuation of a slot (it runs to its end), of
  queued calls and of starting a scheduled replay (the event loop delivers them), of fetch
  answers (the server answers every job), of `ChangeProcessed` (an agent has to call it
  for every change it is given), of `Exit` after `Quit`. None of notifications, filters
  or crashes.
* `Resource`: `WF` of `ExecuteNext` (timers are delivered) and of `Work` (each job is
  answered, in whichever way). `Drains` asks for nothing while the resource goes
  offline again and again.
* `ItemSync`: `WF` of `Answers`. The resource need not deliver anything: `Ends` is about
  syncs whose delivery is complete.

All of these are weak: what waits stays possible until it happens.

### Findings

* `filed` - the comment on `mIncidencesForDate` says that recurring and
  multi-day events are not in it. A `Recurrence` calls back after it changed,
  and `isMultiDay( spec )` changes what later calls return, so both may be.
* `readd` - a recurring incidence and its exception share the uid and differ in the
  recurrence-id. Adding the one that was inserted first again, while the calendar has
  both, fails the assertion in `insertIncidence()`. The property demands nothing when
  two incidences under the uid have the same recurrence-id, or one has changed its uid.
* `visibility` - `isVisible()` returns what it found the first time after the
  notebook was hidden or the incidence moved.
* `recurrence_rdates` - `recursAt()` is documented to return whether the event recurs
  then, and the search of `recurTodo()` to find the occurrence after now.
  `getNextDateTime()` and `timesInInterval()` know the days given as RDATEs,
  `recursAt()` does not: a to-do that is completed passes by them.
* `change_recorder_processed` - `changeProcessed()` is documented to remove the change
  emitted last. If a removal arrives while the modification of the same item
  waits for its data, the removal is dequeued and the agent never learns of it.
* `item_sync_ends` - ItemSync goes on after an error, "we might still be fed with stuff
  from a resource". A chunk delivered between the failure of a job and the answer to
  the rollback is counted and then deleted unanswered: the sync has no result, and the
  resource's task stays current.

Disagreements read off the code that have no run of their own:

* `isModified()` is "true if the calendar has been modified since open or last save"
  (`calendar.h:348`); `deleteAllEvents()`, `deleteAllTodos()` and `deleteAllJournals()`
  do not mark the calendar (`memorycalendar.cpp:195`).
* `mIncidences` is "indexed by" the uid of the incidence (`memorycalendar.cpp:64`);
  after `setUid()` it keeps the old one.
* `rollback()` of ItemSync is documented to roll back what is not yet committed
  (`itemsync.h:147`); transactions already let go of still commit.
* `ChangeReplayQueue` has the comment "one task at most" (`resourcescheduler_p.h:252`).
  `scheduleChangeReplay()` looks for a replay in that queue only, not at the current
  task: one may be queued while another runs, and going offline puts the running one
  back beside it. `TasksOnce` therefore has the replays apart: two to be done at most,
  the running one included. Of every other compressed task there is one.

What the properties exempt.

* `IndexExact` and `ListedOnce` leave out the incidences in `stray`: those changed before
  `update()` or after `updated()` or without either, those mistaken for another one of
  their uid and recurrence-id, and those whose uid changed under the calendar. `ListedOnce`
  leaves out to-dos, which are filed twice when completed.
* `DueIsCurrent` is about the occurrences `recursAt()` knows, and so not about the days
  given as RDATEs, which `AnswersAgree` counts; `RdatesFallDue` is about all.
* `AnswersAgree` leaves out what the recurrence code gets wrong at the edges: the next
  date of a simple sub-daily rule asked one second before an occurrence
  (`recurrencerule.cpp:1693`), be it by the caller or by the loop that passes by an excluded
  date there, its lists, which are a second late, lists from before the start
  (`recurrencerule.cpp:1777`), ends at the very beginning of an interval
  (`recurrencerule.cpp:1736`, `1834`), lists of COUNT rules that can never reach their
  number. `endDateTime()` puts days given as RDATEs at midnight, `setExDateTimes()` calls no
  `updated()`, and a search gives up after 1000 excluded candidates. None of these
  contradicts a documented claim closely enough for a run.
* `OneInHand` and `Drains` of the recorder leave out the replay whose change is cleaned away
  by `setCollectionMonitored()` (`disturbed`), which then waits for ever; `HeadIsGiven` also the
  change that compression overtook, which is `change_recorder_processed`.
* `ReplayScheduled`, `SyncerFits` and the last part of `RequestsHeld` leave out what
  `mishaps` records.
* `Accounted` (in part), `AllOrNothing`, `SeenByCommit` and `Ends` leave out syncs in which a
  transaction was deleted with changes in it (`orphaned`), which is `item_sync_ends`.

A new observer is not told of what the flag `mNewObserver` promises
(`calendar.cpp:1168`).

## The proofs

Every theorem is for any value of the constants, under the named assumption of the
module.

`MemoryCalendarProofs` proves, for any incidences, uids, days and group depth,
`TypeCorrect`, `IndexIsExact`, `ChangesAreFlagged` and `GroupsArePending`, under
`ConstantsAssumption` (days are integers, there are finitely many uids, the null values are
none of the proper ones, bounds are naturals). None of the last three is inductive.
`IndexExact` needs to know that the calendar hears of a change to something it holds
(`LiveObserved`), and that what it finds and removes under a uid is not held under a
second one (`OneKey`, `KeyCurrent`); `ChangesFlagged` needs that closing a group announces
it (`GroupPending`) and that incidences out of the calendar are not counted
(`UnsavedLive`). `IInv` is their conjunction. The lemmas follow the shapes of a change:
what filing and unfiling do to one entry and to others (`FileOwn`, `FileOthers`), what a
callback does through the lookup (`OnUpdateEffect`, `OnUpdatedEffect`), then `ChangeInv` and
`SilentInv` for the shapes, from which most actions follow, and a lemma for each action of
another shape. `NextInv` puts them together.

The rest of the module is about what the calendar contains. `DaysListOnce`: an entry put in was not
there, because an incidence the calendar keeps track of is filed under its day only
(`FiledUnderItsDay`, from `IndexExact`), `update()` has taken that entry out, and neither a
group being closed nor an incidence being added has any. `AdditionsAreFlagged`: no
operation of an incidence unmarks the calendar (`IncidenceKeeps`). `ExceptionsFollow`: of
the removals only `deleteIncidence()` chooses by uid, and exceptions are held under the uid
they carry (`KeyCurrent`).

`NotebooksProofs` proves `TypeCorrect`, `NotebooksAgree`, `ObserversAreTold`,
`ExceptionsMove` (an action property) and `HiddenHasNotebook`, from
`NotebooksAssumption`. The invariant is the conjunction of the type invariant
and the properties; the one lemma with content, `MoveEffect`, says which pairs a
move removes and adds.

`SublistProofs` has the lemmas about lists that the next three rest on: what a sublist, an
append and a tail contain, stated without induction.

`ChangeRecorderProofs` proves `RecordsTyped`, `FileIsCurrent`, `CountIsKept`,
`ReplayIsInHand`, `PendingIsNotForgotten` and `HeadIsAnswered`, with any number of items,
notifications and crashes. `FileMatches` is far from inductive: whether the file may be left as it is, its
offset moved, or all of it written depends on `needFullSave`, the offset, and
whether the list was touched, and after a restart on what the old file's offset is worth.
`HeadIsGiven` holds because what waits in the pipeline stands for the head already
(`WaitingStands`), and because a replay has one thing in hand at most, so nothing but the
flush of that change can give it.

Its second half proves that the recorder implements `ChangeQueue`
(`RecorderIsDurable`, the run's `Durable` for any value of the constants). One step of
the queue, `Record`, taken when the list ends and the write begins, stands for a whole `slotNotify()`, whose messages the recorder compresses one
by one. So the invariant carries what this compression has done since the last write:
`Follows` maps the recorded changes into the pending ones, in their order, with more parts
at most, or to a removal that overtook them (`NotifyFollows`). Each
action is then a lemma, `...Implements`: the end of the list is `Record` or nothing, the
write that ends is `Written`, `changeProcessed()` is `Answer`, `quit()` is `Rewrite`, cleaning
is `Forget` or `Rewire`, and a crash finds what the file holds, by `FileMatches`, or a prefix
of it if it was being written.

`EntityCacheProofs` proves `FetchIsOnTheWay`, `StaleIsFetchedAgain` and `RecorderTyped`. The
invariant `CacheOK` is one of the cache alone, for any capacity: no item has two entries,
which the code only asserts; a pending entry has a job; a filled entry that is out of date
has a job that is not, and so has, later in the queue, every outdated job that would fill an
entry. Each operation of the cache keeps it. `PipelineWaits` ties the pipeline to the cache:
its front is requested and not yet there, unless the flush is about to look at it.

`ResourceProofs` proves `TypeCorrect`, `TasksAreOnce`, `ReplayIsScheduled` and
`NothingSleeps`. `TasksAreOnce` has change replays apart (see Findings): that there are two at
most follows from `Few`: one at most waits behind a replay that runs, two when none does.
`NothingSleeps` says: whatever interleaving of tasks, deferrals, stray answers and offline
periods, a resource that is online and idle with work in a queue has a timer under way.
That is the safety half of `Drains`.

`RequestsAreHeld` says of the D-Bus callers of `requestItemDelivery()` that each one who
waits is known to exactly one fetch. Its invariant `CallersHeld` is about sets and not
counts: no two fetches share callers (`Apart`), those known are those who wait, and
all who wait are known unless a task was aborted or ended by a stray answer. What makes it
inductive is that only fetches have callers at all, which is part of the type of a task
(`Tasks`), so that every operation of the scheduler but four goes on with the same callers
(`SameCallers`). A sync dropped with its collection, or items that come while no task waits
for them, lose no caller (`Harmless`).

`SyncerIsFitting` says that a kept `mItemSyncer` is not fed the items of another
collection, as long as there was no mishap: no task aborted, dropped with
its collection or ended by a stray answer, and no items that came unasked. The property speaks of the moment at which items are delivered, the invariant of
all moments before: the syncer is that of the sync that runs, or of the first one in the
queue (`SyncerNext`), where `deferTask()` and `taskDone()` put and take it; and while items
are synchronized the open collection is that of the task (`SyncOpened`).

`ItemSyncProofs` proves every invariant of `ItemSync`, for any items, modes, chunk
sizes and number of failures: `TypeCorrect`, `CountersAccount`, `NothingIsLost`,
`ResultIsComplete`, `SingleIsAtomic` and `NeverForgotten`, from `ItemSyncAssumption` (finitely
many items).
The difficulty is the queue: `execute()` adds any number of jobs to transactions that are
running, waiting or to be rolled back, and a failure takes any number away. So the
changes in the queue are seen as a set of places (`Places`), and what each
operation does to it is one of three relations: it adds the changes of some jobs (`Adds`),
keeps part of them (`Moved`, a bijection), or all of them as they are (`Same`). Counting
is done once, by bijections and disjoint unions (`Count`, `AddsCount`); the steps of
`execute()` are followed once (`ExecuteSteps`). Five invariants are built on one another.

* `CountInv`: `pending` and `transactions` are the sizes of the queue. It needs the shape of
  an entry (`EntryOK`: a transaction has failed exactly when a rollback is in it; nothing is
  beside a commit) and that jobs can be added to the current one (`Usable`). `pending` is
  exact as long as no transaction was deleted with changes left in it (`orphaned`), an upper
  bound afterwards. `TypeOK` and `Accounted` follow.
* `LostInv`: a deletion that is queued concerns only what the resource has said is gone
  (`Deletes`), and what was stored is stored but for that, in the store and in what a
  rollback restores (`Keeps`). `NothingLost` follows.
* `DoneInv` follows an item from its delivery to the store: unless something has failed, an
  item that has arrived, is queued, or may still be delivered is as it was before, is queued
  once at most and for what it is to become, and any other item has reached it
  (`ItemProgress`). `Complete` follows when the queue is empty. In mode Single a
  cancelled sync counts as one in which nothing has failed, until its transaction
  has gone, and there is one transaction (`Shape`): this is for the next invariant.
* `AtomicInv`: in mode Single, while the transaction is open, what a rollback restores is
  what was stored before; while it is not, nothing has changed and the next
  job is the begin (`Starts`), or the sync is over and stored as a whole. `AllOrNothing`
  follows. It is false once changes were left in a transaction that was deleted,
  of which one may be sent without any (see Findings).
* `WaitInv` (on `CountInv` alone): a transaction that was let go of has a job, and is
  waiting to be committed, told to roll back, or down to its commit (`OnItsWay`); only the
  current transaction, which no step but those of mode Single leaves behind, may wait for
  more; and `checkDone()` was called since anything it looks at has changed
  (`Watched`). `NeverForgotten` follows: between the end of the delivery and the result the
  server has a job of the sync. With an answer to each job, this is why
  `Ends` holds where it does, and `orphaned` is the only way out.

`RecurrenceProofs` proves every property of `Recurrence` but that the search ends:
`TypeCorrect`, `CacheIsAlwaysCurrent`, `AlwaysAnswersAgree` and `AlwaysDueIsCurrent`, for any
lengths of minutes, days and months, any patterns, dates, durations and bounds. It assumes
`CalendarAssumption` (a minute has more than one second, a day whole minutes, and every other
month is shorter), `InputAssumption` (types; a rule recurs for ever or a positive number of
times until it is given an end) and `ReachAssumption`: LOOP_LIMIT intervals from a start lead
beyond `Horizon`, up to which the properties look. `Horizon` is thus as far
as the code looks, 10000 intervals; what is later it gives up on by design.

The invariant is small (`Sane`): besides the types, what is cached is what `buildCache()` would
compute now, because every setter and `setStartDateTime()` end in `setDirty()`. The work is in
what a question answers, and it is done without induction over date/times.

* Intervals. Division is monotone, months come in pairs, so that every date/time is in one
  interval (`InInterval`) and `datesForInterval()` gives exactly what matches in it.
  `getNextValidDateInterval()` rounds up and `getPreviousValidDateInterval()` down to an
  interval of the rule (`NextValid`, `PreviousValid`): an occurrence from t on is in an interval
  that a search from t looks at, and within the limit (`FromNext`, `WithinLimit`).
* The cache. The first n of a finite set are closed downwards and are n (`FirstOnes`,
  `FirstCount`), so the cached dates are the rule's occurrences as far as `Horizon`, whichever
  interval `buildCache()` stopped at (`CacheFacts`).
* The searches. What a loop over intervals finds is the least or greatest element of a
  set, by a well-founded order (`Least`): an occurrence it missed would be in an interval it
  looked at (`ForwardFinds`, `BackwardFinds`). `NextDate` and `PreviousDate` say what
  `getNextDate()` and `getPreviousDate()` of a rule answer, `RuleList` what
  `timesInInterval()` does.
* The loops over excluded candidates. The recursive function exists (`LoopIs`, from the last
  round down). Each round passes by one more excluded candidate, so that a loop that has not
  found the answer after all its rounds has passed by as many as there are rounds
  (`LoopFinds`); `GivesUp` is that case. Both directions are one lemma, about an order.
* `NextIsRight`, `PreviousIsRight` and `ListIsRight` put the rule, the single dates and the
  exceptions together.

`AlwaysDueIsCurrent` is about the occurrences that `recursAt()` knows, those without the days
given as RDATEs; that completing passes by these is the run `recurrence_rdates`. It needs an
invariant of the loop in `recurTodo()` as well (`SearchInv`): the
date it has reached is after the occurrence that was completed, and nothing the to-do may move
on to is before it. So the date that ends the loop is the first one the to-do may
move on to, and when the loop fails there is none. `AlwaysAdvances` says that each round
of the loop goes to a later date or to none, even where `getNextDateTime()` gives up or misses
an occurrence: the loop cannot go round in a circle, which is what `SearchEnds` rests on.

TLC checked each of these invariants on the runs' instances before it was proved.

Only model-checked: liveness (`Drains` of both modules, `Ends`, `SearchEnds`), which needs
ENABLED and is outside what the prover can do, and the action property `SeenByCommit` of
`ItemSync`. What liveness rests on is proved: that what
there is to do is scheduled, waits for an answer, or is in hand (`PendingIsNotForgotten` and
`ReplayIsInHand` of the recorder, `NothingSleeps` of the scheduler, `NeverForgotten` of the
sync), and that the search goes on (`AlwaysAdvances`). Every other property of the passing runs
is stated by a theorem.

## Not modelled

* KCalCore: formats, parsers and time zone data (conversions without state),
  attendees, attachments and the other value classes (records), date-only
  recurrences, weekly and yearly rules and BYSETPOS, kdedate, klibport, versit,
  memory allocation.
* Akonadi: the server; notifications about collections, links and tags; `CollectionSync`,
  `RecursiveMover`, `Session`; jobs (stubs of the server's commands); `EntityTreeModel` and
  the other models and views.
* The rest of kdepimlibs (kabc, kalarmcal, kcal, kcalutils, kholidays, kimap, kmime, ktnef,
  mailtransport, ...), four fifths of the repository: a second copy of the calendar,
  formatting, generated parsers, protocol jobs and widgets. This is why the lines mapped
  stay a small share of all lines: the project models what has state and interleaving, and
  maps no line it does not translate.

## Plan

Done: the date index and modified flag; notebooks; recurrence and the search of
`recurTodo`; the recorder, its cache and its abstract queue; scheduler and
resource; ItemSync and transactions; the proofs above. Next, in this order:

1. `CollectionSync`: a second syncer with the same pattern of counters and jobs, over a
   tree whose parents have to be created before their children.
2. `Session`: the pipeline of jobs over one connection, reconnecting, and what
   `ItemSync` and `EntityCache` assume of it (answers in order, one job of a parent at
   a time) as an abstract specification it implements.
3. `Relations` and `Observers` of `Calendar`: parents, children and orphans through
   additions and deletions; registration and `mNewObserver`.
4. `Storage`: load with its fallbacks from format to format, save, and the modified
   flag, with failure at each step.
5. `SortableList`: the binary searches and insertions against their documented meaning
   over all short lists; `Alarm` repetitions in the same way.
6. An abstract date index (a function of the incidences, without callbacks), and
   `MemoryCalendar` shown to implement it for the incidences it keeps track of.
7. Weekly and yearly rules, BYSETPOS and date-only recurrences in `Recurrence`. The
   searches speak of a rule by its intervals, so that their lemmas carry over to a unit for
   which the lemmas about intervals hold.
