------------------------------- MODULE Resource -------------------------------
(***************************************************************************)
(* An Akonadi resource: the ResourceScheduler, and the ResourceBase that   *)
(* feeds it and works off its tasks.                                       *)
(*                                                                         *)
(* The scheduler runs one task at a time, the first one of the first queue *)
(* that is not empty.  A task starts a job; when the job is answered, a    *)
(* slot of ResourceBase goes on with whatever task is the current one,     *)
(* which it does not check in a release build.  A resource that goes       *)
(* offline puts the current task back, while its job goes on: the answer   *)
(* that comes afterwards is a stray one.                                   *)
(*                                                                         *)
(* The implementation of the resource (retrieveItem(), itemChanged(), ...) *)
(* and the jobs it starts are external, as are the callers that request    *)
(* items, and the ChangeRecorder is known by the number of its changes.    *)
(* Recursive moves are left out.                                           *)
(***************************************************************************)
EXTENDS Sublists

CONSTANTS
    Item,        \* the items
    Collection,  \* the collections of the resource
    Hollow,      \* those that cannot contain items
    Request,     \* D-Bus calls of requestItemDelivery()
    None,        \* no item, no collection
    Late,        \* jobs that go on when their task is put back
    MaxAsked,    \* bound: tasks asked for, other than deliveries
    MaxChanged,  \* bound: changes recorded
    MaxOffline,  \* bound: times the resource goes offline
    MaxDeferred, \* bound: tasks deferred by the implementation
    MaxAborted   \* bound: cancelQueues() and clear()

\* the jobs a task may wait for; "tree" and "sync" are the two syncers, whose
\* results come whether their task is still there or not
Job == {"prepare", "retrieve", "store", "collections", "tree", "list", "items",
        "sync", "plain", "replay"}

Loose == Job \ {"tree", "sync"}

\* jobs of the implementation, which may also cancel or defer the task
Own == {"retrieve", "collections", "items", "plain", "replay"}

ASSUME ResourceAssumption ==
    /\ None \notin Item \cup Collection
    /\ IsFiniteSet(Collection)
    /\ Hollow \subseteq Collection
    /\ Late \subseteq Loose
    /\ {MaxAsked, MaxChanged, MaxOffline, MaxDeferred, MaxAborted} \subseteq Nat

TaskType == {"SyncAll", "SyncCollectionTree", "SyncCollection", "SyncCollectionAttributes",
             "FetchItem", "ChangeReplay", "DeleteResourceCollection",
             "InvalidateCacheForCollection", "SyncAllDone", "SyncCollectionTreeDone", "Custom"}

\* the queues, by priority
Prepend == 1
ChangeReplays == 2
AfterChangeReplay == 3
ItemFetches == 4
Generic == 5
Queue == 1 .. 5

VARIABLES
    sched,    \* the scheduler: queue, current, origin, online and posted timers
    job,      \* the job of the current task
    late,     \* the jobs that go on without their task
    changes,  \* the number of changes in the ChangeRecorder
    opened,   \* currentCollection
    syncer,   \* mItemSyncer: its collection, and whether all was delivered
    tree,     \* mCollectionSyncer: none, open or delivered
    status,   \* what became of each request
    mishaps,  \* history: what tasks were lost by, or a syncer made by
    used      \* how much of each bound is used up

vars == <<sched, job, late, changes, opened, syncer, tree, status, mishaps, used>>

workVars == <<changes, opened, syncer, tree>>

Task(type, arg) == [type |-> type, arg |-> arg, msgs |-> {}]

NoTask == Task("Invalid", None)

NoSyncer == [of |-> None, delivered |-> FALSE]

----------------------------------------------------------------------------
(* ResourceScheduler                                                       *)

\* tasks are compared without the callers that wait for them
Same(t, u) == t.type = u.type /\ t.arg = u.arg

Contains(list, t) == \E k \in DOMAIN list : Same(list[k], t)

Busy(s) == s.current.type # "Invalid"

IsEmpty(s) == \A q \in Queue : s.queue[q] = <<>>

QueueForTaskType(type) == CASE type = "ChangeReplay" -> ChangeReplays
                            [] type = "FetchItem"    -> ItemFetches
                            [] OTHER                 -> Generic

ScheduleNext(s) ==
    IF Busy(s) \/ IsEmpty(s) \/ ~s.online THEN s ELSE [s EXCEPT !.posted = @ + 1]

Queued(s, q, t) == ScheduleNext([s EXCEPT !.queue[q] = Append(@, t)])

\* schedule...() that only looks for the task in its queue
ScheduledAgain(s, t) ==
    IF Contains(s.queue[QueueForTaskType(t.type)], t) THEN s
    ELSE Queued(s, QueueForTaskType(t.type), t)

\* schedule...(): a task that waits, or is the current one, is not scheduled twice
Scheduled(s, t) ==
    IF Contains(s.queue[QueueForTaskType(t.type)], t) \/ Same(s.current, t) THEN s
    ELSE Queued(s, QueueForTaskType(t.type), t)

\* scheduleChangeReplay(): a change may have come too late for the current replay
ScheduledReplay(s) ==
    LET t == Task("ChangeReplay", None) IN
    IF Contains(s.queue[ChangeReplays], t) THEN s ELSE Queued(s, ChangeReplays, t)

\* scheduleItemFetch() that forgets the caller if the item is fetched already
ScheduledFetchDropped(s, i, r) ==
    IF Same(s.current, Task("FetchItem", i)) \/ Contains(s.queue[ItemFetches], Task("FetchItem", i))
    THEN s
    ELSE Queued(s, ItemFetches, [Task("FetchItem", i) EXCEPT !.msgs = {r}])

\* the first entry of a list that is like t gets another caller
Joined(list, t, r) ==
    [k \in DOMAIN list |->
        IF Same(list[k], t) /\ ~Contains(SubSeq(list, 1, k - 1), t)
        THEN [list[k] EXCEPT !.msgs = @ \cup {r}]
        ELSE list[k]]

\* scheduleItemFetch(): the caller joins those who wait for the same item
ScheduledFetch(s, i, r) ==
    LET t == Task("FetchItem", i) IN
    IF Same(s.current, t)
    THEN [s EXCEPT !.current.msgs = @ \cup {r}]
    ELSE IF Contains(s.queue[ItemFetches], t)
         THEN [s EXCEPT !.queue[ItemFetches] = Joined(@, t, r)]
         ELSE Queued(s, ItemFetches, [t EXCEPT !.msgs = {r}])

\* scheduleSync() of each collection in a list
ScheduledSyncs(s, list) ==
    LET Sync(c) == Task("SyncCollection", c)
        fresh   == {k \in DOMAIN list : ~Contains(s.queue[Generic], Sync(list[k]))
                                        /\ ~Same(s.current, Sync(list[k]))}
    IN  {[s EXCEPT !.queue[Generic] = @ \o [k \in DOMAIN new |-> Sync(new[k])],
                   !.posted = @ + IF Busy(s) \/ ~s.online THEN 0 ELSE Len(new)] :
             new \in Sublist(list, fresh)}

\* scheduleCustomTask() with the priority of queue q
ScheduledCustom(s, q) ==
    LET t == Task("Custom", None) IN
    IF Contains(s.queue[q], t) THEN s
    ELSE IF q = Prepend
         THEN ScheduleNext([s EXCEPT !.queue[q] = <<t>> \o @])
         ELSE Queued(s, q, t)

\* taskDone() that keeps mCurrentTasksQueue
TaskDoneOnly(s) == ScheduleNext([s EXCEPT !.current = NoTask])

TaskDone(s) == ScheduleNext([s EXCEPT !.current = NoTask, !.origin = 0])

Deferred(s) ==
    IF ~Busy(s) THEN s
    ELSE ScheduleNext([s EXCEPT !.queue[s.origin] = <<s.current>> \o @,
                                !.current = NoTask, !.origin = 0])

\* executeNext(): the first task of the first queue that is not empty
Taken(s) ==
    LET q == CHOOSE q \in Queue : s.queue[q] # <<>> /\ \A p \in 1 .. q - 1 : s.queue[p] = <<>>
    IN  [s EXCEPT !.current = Head(s.queue[q]), !.queue[q] = Tail(@), !.origin = q]

\* setOnline( false ) that puts the current task last
PutLast(s) ==
    IF ~Busy(s) THEN s
    ELSE [s EXCEPT !.queue[QueueForTaskType(s.current.type)] = Append(@, s.current),
                   !.current = NoTask, !.origin = 0]

\* the current task is put back as setOnline( false ) does: in the queue of its
\* type, which need not be the one it came from
PutBack(s) ==
    IF ~Busy(s) THEN s
    ELSE [s EXCEPT !.queue[QueueForTaskType(s.current.type)] = <<s.current>> \o @,
                   !.current = NoTask, !.origin = 0]

\* the callers that wait for one of the tasks in a list
Waiting(list) == UNION {list[k].msgs : k \in DOMAIN list}

----------------------------------------------------------------------------
(* Requests                                                                *)

Ask(kind, max) == used[kind] < max /\ used' = [used EXCEPT ![kind] = @ + 1]

Asked(s) ==
    /\ Ask("asked", MaxAsked)
    /\ sched' = s
    /\ UNCHANGED <<job, late, workVars, status, mishaps>>

Synchronize == Asked(Scheduled(sched, Task("SyncAll", None)))

SynchronizeCollectionTree == Asked(Scheduled(sched, Task("SyncCollectionTree", None)))

SynchronizeCollectionAttributes(c) ==
    Asked(Scheduled(sched, Task("SyncCollectionAttributes", c)))

ClearCache == Asked(Scheduled(sched, Task("DeleteResourceCollection", None)))

InvalidateCache(c) == Asked(Scheduled(sched, Task("InvalidateCacheForCollection", c)))

ScheduleCustomTask(q) == Asked(ScheduledCustom(sched, q))

\* the collections, in any order
Listings == {f \in [1 .. Cardinality(Collection) -> Collection] :
                \A i, j \in 1 .. Cardinality(Collection) : i # j => f[i] # f[j]}

\* slotCollectionListDone() of synchronizeCollection(), recursive or not
SynchronizeCollection ==
    \E list \in Listings \cup {<<c>> : c \in Collection} :
        \E s \in ScheduledSyncs(sched, list) : Asked(s)

\* a change is recorded: changesAdded()
ChangeAdded ==
    /\ Ask("changed", MaxChanged)
    /\ changes' = changes + 1
    /\ sched' = ScheduledReplay(sched)
    /\ UNCHANGED <<job, late, opened, syncer, tree, status, mishaps>>

\* requestItemDeliveryV2(), refused while offline
RequestItemDelivery(r, i) ==
    /\ status[r] = "new"
    /\ IF sched.online
       THEN /\ sched' = ScheduledFetch(sched, i, r)
            /\ status' = [status EXCEPT ![r] = "waiting"]
       ELSE UNCHANGED sched /\ status' = [status EXCEPT ![r] = "error"]
    /\ UNCHANGED <<job, late, workVars, mishaps, used>>

\* collectionRemoved() of the recorder: the collection is not to be synchronized
CollectionRemoved(c) ==
    /\ Ask("asked", MaxAsked)
    /\ LET keep == {k \in DOMAIN sched.queue[Generic] :
                       ~Same(sched.queue[Generic][k], Task("SyncCollection", c))}
       IN  /\ keep # DOMAIN sched.queue[Generic]
           /\ \E rest \in Sublist(sched.queue[Generic], keep) :
                  sched' = [sched EXCEPT !.queue[Generic] = rest]
    /\ mishaps' = mishaps \cup {"removed"}
    /\ UNCHANGED <<job, late, workVars, status>>

----------------------------------------------------------------------------
(* Tasks and jobs                                                          *)

More(jobs, k) == [x \in Loose |-> IF x = k THEN jobs[x] + 1 ELSE jobs[x]]

Orphaned == IF job \in Late THEN More(late, job) ELSE late

\* executeNext(); a task that has nothing to do is done at once
ExecuteNext ==
    /\ sched.posted > 0
    /\ LET s == [sched EXCEPT !.posted = @ - 1]
           t == Taken(s).current
           Starts(k) == sched' = Taken(s) /\ job' = k
           Ends == sched' = TaskDone(Taken(s)) /\ UNCHANGED job
       IN  IF Busy(s) \/ IsEmpty(s)
           THEN sched' = s /\ UNCHANGED <<job, opened>>
           ELSE /\ opened' = IF t.type = "SyncCollection" THEN t.arg ELSE opened
                /\ CASE t.type = "FetchItem" -> Starts("prepare")
                     [] t.type \in {"SyncAll", "SyncCollectionTree"} -> Starts("collections")
                     [] t.type = "SyncCollection" ->
                            IF t.arg \in Hollow THEN Ends ELSE Starts("items")
                     [] t.type = "ChangeReplay" -> IF changes = 0 THEN Ends ELSE Starts("replay")
                     [] t.type \in {"SyncAllDone", "SyncCollectionTreeDone"} -> Ends
                     [] OTHER -> Starts("plain")
    /\ UNCHANGED <<late, changes, syncer, tree, status, mishaps, used>>

\* a job k is answered: the one of the current task, or a stray one
Answers(k, stray) == IF stray THEN late[k] > 0 ELSE job = k

\* ... and the slot that is called goes on with another job, or with "none".
\* The job of a task that a stray answer has ended goes on, too.
GoesOn(k, stray, next) ==
    /\ UNCHANGED used
    /\ IF stray
       THEN LET rest  == [late EXCEPT ![k] = @ - 1]
                ended == Busy(sched) /\ ~Busy(sched')
            IN  /\ job' = IF ended THEN "none" ELSE job
                /\ late' = IF ended /\ job \in Late THEN More(More(rest, next), job)
                           ELSE More(rest, next)
                /\ mishaps' = IF Busy(sched) THEN mishaps \cup {"stray"} ELSE mishaps
       ELSE job' = next /\ UNCHANGED <<late, mishaps>>

\* sendDBusReplies()
Reply(answer) ==
    status' = [r \in Request |-> IF r \in sched.current.msgs THEN answer ELSE status[r]]

\* itemRetrieved() of an invalid item
FetchCancelled == Reply("error") /\ sched' = TaskDone(sched) /\ UNCHANGED changes

\* changeProcessed() that does not look for more changes
ChangeProcessedOnly ==
    /\ changes' = IF changes = 0 THEN 0 ELSE changes - 1
    /\ sched' = TaskDone(sched)

\* changeProcessed(): the next change is scheduled before this task is done
ChangeProcessed ==
    /\ changes' = IF changes = 0 THEN 0 ELSE changes - 1
    /\ sched' = TaskDone(IF changes' = 0 THEN sched ELSE ScheduledReplay(sched))

\* cancelTask(), whatever the current task is: a syncer is rolled back, and will
\* have a result
Cancelled ==
    LET type == sched.current.type IN
    CASE type = "FetchItem" -> FetchCancelled /\ UNCHANGED <<syncer, tree>>
      [] type = "ChangeReplay" -> ChangeProcessed /\ UNCHANGED <<status, syncer, tree>>
      [] type \in {"SyncAll", "SyncCollectionTree"} /\ tree # "none" ->
             tree' = "delivered" /\ UNCHANGED <<sched, status, changes, syncer>>
      [] type = "SyncCollection" /\ syncer # NoSyncer ->
             /\ syncer' = [syncer EXCEPT !.delivered = TRUE]
             /\ UNCHANGED <<sched, status, changes, tree>>
      [] OTHER -> sched' = TaskDone(sched) /\ UNCHANGED <<status, changes, syncer, tree>>

\* slotPrepareItemRetrievalResult(), and retrieveItem()
PrepareItemRetrievalResult(stray) ==
    /\ Answers("prepare", stray)
    /\ \/ Cancelled /\ GoesOn("prepare", stray, "none")
       \/ UNCHANGED <<sched, status, changes, syncer, tree>> /\ GoesOn("prepare", stray, "retrieve")
    /\ UNCHANGED opened

\* itemRetrieved()
ItemRetrieved(stray) ==
    /\ Answers("retrieve", stray)
    /\ \/ FetchCancelled /\ GoesOn("retrieve", stray, "none")
       \/ UNCHANGED <<sched, status, changes>> /\ GoesOn("retrieve", stray, "store")
    /\ UNCHANGED <<opened, syncer, tree>>

\* slotDeliveryDone()
DeliveryDone(stray) ==
    /\ Answers("store", stray)
    /\ \E answer \in {"ok", "error"} : Reply(answer)
    /\ sched' = TaskDone(sched)
    /\ GoesOn("store", stray, "none")
    /\ UNCHANGED workVars

\* collectionsRetrieved(), which creates a CollectionSync if there is none
CollectionsRetrieved ==
    /\ tree = "none" /\ \E stray \in BOOLEAN : Answers("collections", stray)
    /\ tree' = "open"
    /\ UNCHANGED <<sched, job, late, changes, opened, syncer, status, mishaps, used>>

\* collectionsRetrievalDone(), or all was retrieved in one call
CollectionsRetrievalDone(stray) ==
    /\ Answers("collections", stray)
    /\ IF tree = "none"
       THEN /\ sched' = TaskDone(sched) /\ UNCHANGED tree
            /\ GoesOn("collections", stray, "none")
       ELSE /\ tree' = "delivered" /\ UNCHANGED sched
            /\ GoesOn("collections", stray, "tree")
    /\ UNCHANGED <<changes, opened, syncer, status>>

\* slotCollectionSyncDone(); the result is a stray one unless it is waited for
CollectionSyncDone ==
    /\ tree = "delivered"
    /\ tree' = "none"
    /\ LET stray == job # "tree"
           Ends(s) == /\ sched' = TaskDone(s)
                      /\ job' = "none"
                      /\ late' = IF stray THEN Orphaned ELSE late
           Lists == /\ UNCHANGED sched
                    /\ job' = IF stray THEN job ELSE "list"
                    /\ late' = IF stray THEN More(late, "list") ELSE late
       IN  /\ \/ Ends(sched)
              \/ sched.current.type = "SyncAll" /\ Lists
              \/ /\ sched.current.type = "SyncCollectionTree"
                 /\ Ends(Queued(sched, Generic, Task("SyncCollectionTreeDone", None)))
           /\ mishaps' = IF stray /\ Busy(sched) THEN mishaps \cup {"stray"} ELSE mishaps
    /\ UNCHANGED <<changes, opened, syncer, status, used>>

\* slotLocalListDone(): a sync of every collection, and the end of the full sync
LocalListDone(stray) ==
    /\ Answers("list", stray)
    /\ \/ sched' = TaskDone(sched)
       \/ \E list \in Listings : \E s \in ScheduledSyncs(sched, list) :
              sched' = TaskDone(Queued(s, Generic, Task("SyncAllDone", None)))
    /\ GoesOn("list", stray, "none")
    /\ UNCHANGED <<workVars, status>>

\* itemsRetrieved(), which creates an ItemSync if there is none
ItemsRetrieved(stray) ==
    /\ syncer = NoSyncer /\ Answers("items", stray)
    /\ syncer' = [of |-> opened, delivered |-> FALSE]
    /\ mishaps' = IF stray THEN mishaps \cup {"unasked"} ELSE mishaps
    /\ UNCHANGED <<sched, job, late, changes, opened, tree, status, used>>

\* itemsRetrievalDone(), or all was retrieved in one call
ItemsRetrievalDone(stray) ==
    /\ Answers("items", stray)
    /\ IF syncer = NoSyncer
       THEN /\ sched' = TaskDone(sched) /\ UNCHANGED syncer
            /\ GoesOn("items", stray, "none")
       ELSE /\ syncer' = [syncer EXCEPT !.delivered = TRUE] /\ UNCHANGED sched
            /\ GoesOn("items", stray, "sync")
    /\ UNCHANGED <<changes, opened, tree, status>>

\* slotItemSyncDone(); the result is a stray one unless it is waited for
ItemSyncDone ==
    /\ syncer.delivered
    /\ syncer' = NoSyncer
    /\ sched' = TaskDone(sched)
    /\ job' = "none"
    /\ late' = IF job = "sync" THEN late ELSE Orphaned
    /\ mishaps' = IF job # "sync" /\ Busy(sched) THEN mishaps \cup {"stray"} ELSE mishaps
    /\ UNCHANGED <<changes, opened, tree, status, used>>

\* a job that ends in taskDone(), without anything else
PlainDone(stray) ==
    /\ Answers("plain", stray)
    /\ sched' = TaskDone(sched)
    /\ GoesOn("plain", stray, "none")
    /\ UNCHANGED <<workVars, status>>

\* the change has been dealt with
Replayed(stray) ==
    /\ Answers("replay", stray)
    /\ ChangeProcessed
    /\ GoesOn("replay", stray, "none")
    /\ UNCHANGED <<opened, syncer, tree, status>>

\* cancelTask() by the implementation
CancelTask ==
    /\ job \in Own
    /\ Cancelled
    /\ job' = IF ~Busy(sched') THEN "none" ELSE IF job = "items" THEN "sync" ELSE "tree"
    /\ UNCHANGED <<late, opened, mishaps, used>>

\* deferTask() by the implementation, which does not go on then
DeferTask ==
    /\ job \in Own
    /\ Ask("deferred", MaxDeferred)
    /\ sched' = Deferred(sched)
    /\ job' = "none"
    /\ UNCHANGED <<late, workVars, status, mishaps>>

----------------------------------------------------------------------------
(* The life of the resource                                                *)

\* doSetOnline( false ): the current task is put back, whoever waits for an
\* item is told so
GoOffline ==
    /\ sched.online
    /\ Ask("offline", MaxOffline)
    /\ LET s == PutBack(sched)
           fetches == {k \in DOMAIN s.queue[ItemFetches] :
                          s.queue[ItemFetches][k].type = "FetchItem"}
           callers == UNION {s.queue[ItemFetches][k].msgs : k \in fetches}
       IN  /\ \E rest \in Sublist(s.queue[ItemFetches], DOMAIN s.queue[ItemFetches] \ fetches) :
                  sched' = [s EXCEPT !.online = FALSE, !.queue[ItemFetches] = rest]
           /\ status' = [r \in Request |-> IF r \in callers THEN "error" ELSE status[r]]
    /\ job' = "none"
    /\ late' = Orphaned
    /\ UNCHANGED <<workVars, mishaps>>

\* doSetOnline( true ) that waits for the next task to be scheduled
GoOnlineQuietly ==
    /\ ~sched.online
    /\ sched' = [sched EXCEPT !.online = TRUE]
    /\ UNCHANGED <<job, late, workVars, status, mishaps, used>>

\* doSetOnline( true )
GoOnline ==
    /\ ~sched.online
    /\ sched' = ScheduleNext([sched EXCEPT !.online = TRUE])
    /\ UNCHANGED <<job, late, workVars, status, mishaps, used>>

\* cancelQueues(), for abortRequested(): what waits is dropped without a reply
CancelQueues ==
    /\ Ask("aborted", MaxAborted)
    /\ sched' = [sched EXCEPT !.queue = [q \in Queue |-> <<>>]]
    /\ mishaps' = mishaps \cup {"cancelled"}
    /\ UNCHANGED <<job, late, workVars, status>>

\* clear(): the current task, too
Clear ==
    /\ Ask("aborted", MaxAborted)
    /\ sched' = [sched EXCEPT !.queue = [q \in Queue |-> <<>>], !.current = NoTask, !.origin = 0]
    /\ job' = "none"
    /\ late' = Orphaned
    /\ mishaps' = mishaps \cup {"cancelled"}
    /\ UNCHANGED <<workVars, status>>

----------------------------------------------------------------------------
\* A resource is started with the changes its recorder has loaded.
Init ==
    /\ changes \in 0 .. MaxChanged
    /\ \E online \in BOOLEAN :
           LET idle == [queue |-> [q \in Queue |-> <<>>], current |-> NoTask,
                        origin |-> 0, online |-> online, posted |-> 0]
           IN  sched = IF changes = 0 THEN idle ELSE ScheduledReplay(idle)
    /\ job = "none" /\ late = [k \in Loose |-> 0]
    /\ opened = None /\ syncer = NoSyncer /\ tree = "none"
    /\ status = [r \in Request |-> "new"]
    /\ mishaps = {}
    /\ used = [k \in {"asked", "changed", "offline", "deferred", "aborted"} |->
                   IF k = "changed" THEN changes ELSE 0]

Requests ==
    \/ Synchronize \/ SynchronizeCollectionTree \/ SynchronizeCollection \/ ClearCache
    \/ \E c \in Collection : \/ SynchronizeCollectionAttributes(c) \/ InvalidateCache(c)
                             \/ CollectionRemoved(c)
    \/ \E q \in {Prepend, AfterChangeReplay, Generic} : ScheduleCustomTask(q)
    \/ ChangeAdded
    \/ \E r \in Request, i \in Item : RequestItemDelivery(r, i)

Work ==
    \/ \E stray \in BOOLEAN :
           \/ PrepareItemRetrievalResult(stray) \/ ItemRetrieved(stray) \/ DeliveryDone(stray)
           \/ CollectionsRetrievalDone(stray) \/ LocalListDone(stray)
           \/ ItemsRetrieved(stray) \/ ItemsRetrievalDone(stray)
           \/ PlainDone(stray) \/ Replayed(stray)
    \/ CollectionsRetrieved \/ CollectionSyncDone \/ ItemSyncDone
    \/ CancelTask \/ DeferTask

Next == Requests \/ ExecuteNext \/ Work \/ GoOffline \/ GoOnline \/ CancelQueues \/ Clear

\* The event loop delivers timers, and every job is answered some day.
Fairness == WF_vars(ExecuteNext) /\ WF_vars(Work)

Spec == Init /\ [][Next]_vars /\ Fairness
----------------------------------------------------------------------------
(* Properties                                                              *)

Tasks == {t \in [type : TaskType \cup {"Invalid"}, arg : Item \cup Collection \cup {None},
                 msgs : SUBSET Request] : /\ t.type = "SyncCollection" => t.arg \in Collection
                                          /\ t.type = "ChangeReplay" => t.arg = None
                                          /\ t.type # "FetchItem" => t.msgs = {}}

\* mishaps that lose no change and no caller: a sync that was dropped, items that
\* came while no task was waiting for them
Harmless == {"removed", "unasked"}

Schedulers == [queue : [Queue -> Seq(Tasks)], current : Tasks, origin : 0 .. 5,
               online : BOOLEAN, posted : Nat]

\* Every variable keeps its type; mCurrentTasksQueue is set, and a job is under
\* way, while there is a current task (the assertion of deferTask()).
TypeOK ==
    /\ sched \in Schedulers
    /\ job \in Job \cup {"none"} /\ late \in [Loose -> Nat]
    /\ changes \in Nat /\ opened \in Collection \cup {None}
    /\ syncer \in [of : Collection \cup {None}, delivered : BOOLEAN]
    /\ tree \in {"none", "open", "delivered"}
    /\ status \in [Request -> {"new", "waiting", "ok", "error"}]
    /\ mishaps \subseteq Harmless \cup {"stray", "cancelled"}
    /\ used \in [{"asked", "changed", "offline", "deferred", "aborted"} -> Nat]
    /\ (sched.origin = 0) = ~Busy(sched) /\ (job = "none") = ~Busy(sched)

\* the tasks that schedule...() also compares with the current one
Compressed == TaskType \ {"ChangeReplay", "SyncAllDone", "SyncCollectionTreeDone", "Custom"}

Once(s) ==
    \A q \in Queue : \A k \in DOMAIN s.queue[q] :
        LET t == s.queue[q][k] IN
        t.type \in Compressed =>
            /\ q = QueueForTaskType(t.type)
            /\ ~Same(s.current, t)
            /\ \A j \in 1 .. k - 1 : ~Same(s.queue[q][j], t)

\* the change replays to be done, the one that runs included
ReplayTasks(s) ==
    Len(s.queue[ChangeReplays]) + IF s.current.type = "ChangeReplay" THEN 1 ELSE 0

\* What was asked for twice is done once: a compressed task is never in its
\* queue twice, nor there while it is the current one, although defer and
\* offline put the current task back without looking.  A change replay may wait
\* behind the one that runs, which may then be put back: there are never more
\* than these two.
TasksOnce == Once(sched) /\ ReplayTasks(sched) <= 2

Holders(r) ==
    {at \in UNION {{q} \X DOMAIN sched.queue[q] : q \in Queue} :
        r \in sched.queue[at[1]][at[2]].msgs}

\* A caller that waits for an item, blocked in a D-Bus call, is known to exactly
\* one task, and nobody is answered twice.  Only an abort, or a stray answer
\* that ends a task in the place of another, forgets callers.
RequestsHeld ==
    \A r \in Request :
        LET holders == Cardinality(Holders(r)) + (IF r \in sched.current.msgs THEN 1 ELSE 0)
        IN  /\ holders <= 1
            /\ holders = 1 => status[r] = "waiting"
            /\ status[r] = "waiting" /\ mishaps \subseteq Harmless => holders = 1

Replays(s) ==
    \/ Contains(s.queue[ChangeReplays], Task("ChangeReplay", None))
    \/ s.current.type = "ChangeReplay"

\* Changes that were recorded are on their way: a replay is scheduled or runs,
\* although one replay is scheduled for many of them.  Only an abort or a stray
\* answer leaves them behind.
ReplayScheduled == changes > 0 /\ mishaps \subseteq Harmless => Replays(sched)

\* The items retrieved for a collection are put into that collection: the syncer
\* left behind by a sync that was put back is the one of the next sync, unless
\* the task was dropped meanwhile or a stray answer came.
SyncerFits ==
    syncer # NoSyncer /\ sched.current.type = "SyncCollection" /\ mishaps = {} =>
        syncer.of = sched.current.arg

Awake(s) == s.online /\ ~Busy(s) /\ ~IsEmpty(s) => s.posted > 0

\* A task that waits is not forgotten: if nothing runs, a timer will start it.
Wakes == Awake(sched)

\* A resource that stays online gets all of its work done: no task is left, no
\* change, and no caller without a reply, unless an abort or a stray answer
\* made them forgotten.
Drains ==
    <>[](sched.online) =>
        <>[](/\ IsEmpty(sched) /\ ~Busy(sched)
             /\ mishaps \subseteq Harmless =>
                    changes = 0 /\ \A r \in Request : status[r] # "waiting")
=============================================================================
