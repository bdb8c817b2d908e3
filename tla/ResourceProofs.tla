---------------------------- MODULE ResourceProofs ----------------------------
(***************************************************************************)
(* Proofs about Resource.  What the scheduler does is a function of its    *)
(* state: the lemmas say what each of these functions preserves, and the   *)
(* theorems put them together, action by action.                           *)
(***************************************************************************)
EXTENDS Resource, SublistProofs

USE DEF Harmless

\* A task that is not a custom one waits in the queue of its type, and came
\* from there.
Placed(s) ==
    /\ \A q \in Queue : \A k \in DOMAIN s.queue[q] :
           /\ s.queue[q][k].type \in TaskType
           /\ s.queue[q][k].type # "Custom" => q = QueueForTaskType(s.queue[q][k].type)
    /\ (s.origin = 0) = ~Busy(s)
    /\ Busy(s) /\ s.current.type # "Custom" => s.origin = QueueForTaskType(s.current.type)

\* The job under way is one of the current task.
JobFits ==
    /\ (job = "none") = ~Busy(sched)
    /\ job \in {"prepare", "retrieve", "store"} => sched.current.type = "FetchItem"
    /\ job \in {"collections", "tree", "list"} =>
           sched.current.type \in {"SyncAll", "SyncCollectionTree"}
    /\ job \in {"items", "sync"} => sched.current.type = "SyncCollection"
    /\ job = "replay" <=> sched.current.type = "ChangeReplay"
    /\ job = "plain" =>
           sched.current.type \notin {"SyncAll", "SyncCollectionTree", "SyncCollection", "FetchItem"}

\* Only replays wait in their queue: two at most, and one behind the one that runs.
Few(s) ==
    /\ Len(s.queue[ChangeReplays]) <= 2
    /\ \A k \in DOMAIN s.queue[ChangeReplays] : s.queue[ChangeReplays][k].type = "ChangeReplay"
    /\ s.origin = ChangeReplays =>
           s.current.type = "ChangeReplay" /\ Len(s.queue[ChangeReplays]) <= 1

Core(s) == s \in Schedulers /\ Placed(s) /\ Once(s) /\ Few(s)

Sound(s) == Core(s) /\ Awake(s)

\* The rest of TypeOK: what the jobs left behind, and the books.
WorkOK ==
    /\ changes \in Nat /\ opened \in Collection \cup {None}
    /\ syncer \in [of : Collection \cup {None}, delivered : BOOLEAN]
    /\ tree \in {"none", "open", "delivered"}
    /\ status \in [Request -> {"new", "waiting", "ok", "error"}]

BooksOK ==
    /\ job \in Job \cup {"none"} /\ late \in [Loose -> Nat]
    /\ mishaps \subseteq Harmless \cup {"stray", "cancelled"}
    /\ used \in [{"asked", "changed", "offline", "deferred", "aborted"} -> Nat]

IInv == Sound(sched) /\ JobFits /\ ReplayScheduled /\ WorkOK /\ BooksOK

----------------------------------------------------------------------------
(* The functions of the scheduler                                          *)

\* A constructed task is a task.
LEMMA TaskIsTask ==
    \A type \in TaskType \cup {"Invalid"}, arg \in Item \cup Collection \cup {None} :
        /\ /\ type = "SyncCollection" => arg \in Collection
           /\ type = "ChangeReplay" => arg = None
           => Task(type, arg) \in Tasks
        /\ Task(type, arg).type = type /\ Task(type, arg).arg = arg
        /\ Task(type, arg).msgs = {}
BY DEF Task, Tasks

LEMMA NoTaskIsTask == NoTask \in Tasks /\ NoTask.type = "Invalid" /\ NoTask.msgs = {}
BY DEF NoTask, Task, Tasks

\* The numbers of the queues.
LEMMA QueuePlaces ==
    /\ \A type \in TaskType : QueueForTaskType(type) \in Queue
    /\ ChangeReplays \in Queue /\ ItemFetches \in Queue /\ Generic \in Queue /\ Prepend \in Queue
    /\ ChangeReplays \notin {0, ItemFetches, Generic, Prepend, AfterChangeReplay}
    /\ \A type \in TaskType : QueueForTaskType(type) = ChangeReplays <=> type = "ChangeReplay"
BY DEF QueueForTaskType, Queue, ChangeReplays, ItemFetches, Generic, Prepend, AfterChangeReplay, TaskType

\* The queue of replays is one of its own.
LEMMA ReplayPlace ==
    /\ ChangeReplays \in Queue
    /\ ChangeReplays \notin {0, ItemFetches, Generic, Prepend, AfterChangeReplay}
BY QueuePlaces

\* scheduleNext() posts a timer if one is needed, and does nothing else.
LEMMA ScheduleNextSound ==
    ASSUME NEW s, Core(s)
    PROVE  /\ Sound(ScheduleNext(s))
           /\ ScheduleNext(s).queue = s.queue /\ ScheduleNext(s).current = s.current
           /\ ScheduleNext(s).origin = s.origin /\ ScheduleNext(s).online = s.online
<1>1. CASE Busy(s) \/ IsEmpty(s) \/ ~s.online
  BY <1>1 DEF ScheduleNext, Sound, Awake
<1>2. CASE ~(Busy(s) \/ IsEmpty(s) \/ ~s.online)
  <2> DEFINE n == [s EXCEPT !.posted = @ + 1]
  <2>1. ScheduleNext(s) = n
    BY <1>2 DEF ScheduleNext
  <2>2. /\ n \in Schedulers /\ n.queue = s.queue /\ n.current = s.current
        /\ n.origin = s.origin /\ n.online = s.online /\ n.posted > 0
    BY DEF Core, Schedulers
  <2>3. Placed(n) /\ Once(n) /\ Few(n) /\ Awake(n)
    BY <2>2 DEF Core, Placed, Once, Few, Awake, Busy
  <2> QED BY <2>1, <2>2, <2>3 DEF Sound, Core
<1> QED BY <1>1, <1>2

\* A task that is put at the end of its queue.
LEMMA QueuedSound ==
    ASSUME NEW s, Core(s), NEW q \in Queue, NEW t \in Tasks, t.type \in TaskType,
           t.type # "Custom" => q = QueueForTaskType(t.type),
           t.type \in Compressed => ~Contains(s.queue[q], t) /\ ~Same(s.current, t),
           q = ChangeReplays => t.type = "ChangeReplay" /\ s.queue[q] = <<>>
    PROVE  /\ Sound(Queued(s, q, t))
           /\ Queued(s, q, t).current = s.current
           /\ Queued(s, q, t).online = s.online /\ Queued(s, q, t).origin = s.origin
           /\ Queued(s, q, t).queue = [s.queue EXCEPT ![q] = Append(@, t)]
<1> DEFINE n == [s EXCEPT !.queue[q] = Append(@, t)]
<1>1. s.queue \in [Queue -> Seq(Tasks)]
  BY DEF Core, Schedulers
<1>2. Append(s.queue[q], t) \in Seq(Tasks)
  BY <1>1
<1>3. /\ n \in Schedulers /\ n.current = s.current /\ n.origin = s.origin
      /\ n.online = s.online /\ n.queue = [s.queue EXCEPT ![q] = Append(@, t)]
  BY <1>2 DEF Core, Schedulers
<1>4. \A p \in Queue : p # q => n.queue[p] = s.queue[p]
  BY <1>1, <1>3
<1>5. /\ n.queue[q] \in Seq(Tasks) /\ Len(n.queue[q]) = Len(s.queue[q]) + 1
      /\ \A k \in 1 .. Len(s.queue[q]) : n.queue[q][k] = s.queue[q][k]
      /\ n.queue[q][Len(s.queue[q]) + 1] = t
  BY <1>1, <1>3
<1> HIDE DEF n
<1>6. Placed(n)
  BY <1>1, <1>3, <1>4, <1>5 DEF Core, Placed, Busy
<1>7. Once(n)
  <2> SUFFICES ASSUME NEW p \in Queue, NEW k \in DOMAIN n.queue[p],
                      n.queue[p][k].type \in Compressed
               PROVE  /\ p = QueueForTaskType(n.queue[p][k].type)
                      /\ ~Same(n.current, n.queue[p][k])
                      /\ \A j \in 1 .. k - 1 : ~Same(n.queue[p][j], n.queue[p][k])
    BY DEF Once
  <2>1. CASE p # q
    BY <2>1, <1>3, <1>4 DEF Core, Once
  <2>2. CASE p = q /\ k <= Len(s.queue[q])
    BY <2>2, <1>1, <1>3, <1>5 DEF Core, Once
  <2>3. CASE p = q /\ k > Len(s.queue[q])
    <3>1. k = Len(s.queue[q]) + 1 /\ n.queue[p][k] = t
      BY <2>3, <1>1, <1>5
    <3>2. \A j \in 1 .. Len(s.queue[q]) : ~Same(s.queue[q][j], t)
      BY <3>1, <1>1 DEF Contains
    <3> QED BY <2>3, <3>1, <3>2, <1>1, <1>3, <1>5 DEF Compressed
  <2> QED BY <2>1, <2>2, <2>3, <1>1, <1>5
<1>9. Few(n)
  <2>1. CASE q # ChangeReplays
    BY <2>1, <1>3, <1>4, QueuePlaces DEF Core, Few
  <2>2. CASE q = ChangeReplays
    <3>1. Len(n.queue[q]) = 1 /\ n.queue[q][1] = t /\ DOMAIN n.queue[q] = 1 .. 1
      BY <2>2, <1>1, <1>5
    <3>2. n.origin = ChangeReplays => n.current.type = "ChangeReplay"
      BY <1>3 DEF Core, Few
    <3> QED BY <2>2, <3>1, <3>2 DEF Few
  <2> QED BY <2>1, <2>2
<1>8. Core(n) /\ Queued(s, q, t) = ScheduleNext(n)
  BY <1>3, <1>6, <1>7, <1>9 DEF Core, Queued, n
<1> QED BY <1>3, <1>8, ScheduleNextSound

\* A task that is put at the front of its queue, while another one is the
\* current task, or none.
LEMMA FrontSound ==
    ASSUME NEW s, Core(s), NEW n \in Schedulers, NEW q \in Queue, NEW t \in Tasks,
           t.type \in TaskType,
           t.type # "Custom" => q = QueueForTaskType(t.type),
           n.queue = [s.queue EXCEPT ![q] = <<t>> \o @],
           \/ n.current = s.current /\ n.origin = s.origin
           \/ n.current = NoTask /\ n.origin = 0,
           t.type \in Compressed => ~Contains(s.queue[q], t) /\ ~Same(n.current, t),
           q = ChangeReplays => /\ t.type = "ChangeReplay" /\ Len(s.queue[q]) <= 1
                                /\ n.origin = 0
    PROVE  Core(n)
<1>1. s.queue \in [Queue -> Seq(Tasks)]
  BY DEF Core, Schedulers
<1>2. \A p \in Queue : p # q => n.queue[p] = s.queue[p]
  BY <1>1
<1>3. /\ n.queue[q] \in Seq(Tasks) /\ Len(n.queue[q]) = Len(s.queue[q]) + 1
      /\ \A k \in 1 .. Len(n.queue[q]) :
             n.queue[q][k] = IF k = 1 THEN t ELSE s.queue[q][k - 1]
  BY <1>1
<1>4. Placed(n)
  <2>1. \A p \in Queue : \A k \in DOMAIN n.queue[p] :
           /\ n.queue[p][k].type \in TaskType
           /\ n.queue[p][k].type # "Custom" => p = QueueForTaskType(n.queue[p][k].type)
    <3> SUFFICES ASSUME NEW p \in Queue, NEW k \in DOMAIN n.queue[p]
                 PROVE  /\ n.queue[p][k].type \in TaskType
                        /\ n.queue[p][k].type # "Custom" => p = QueueForTaskType(n.queue[p][k].type)
      OBVIOUS
    <3>1. CASE p # q
      BY <3>1, <1>2 DEF Core, Placed
    <3>2. CASE p = q /\ k = 1
      BY <3>2, <1>3
    <3>3. CASE p = q /\ k # 1
      <4>1. k - 1 \in DOMAIN s.queue[q] /\ n.queue[p][k] = s.queue[q][k - 1]
        BY <3>3, <1>1, <1>3
      <4> QED BY <4>1, <3>3 DEF Core, Placed
    <3> QED BY <3>1, <3>2, <3>3
  <2>2. /\ (n.origin = 0) = ~Busy(n)
        /\ Busy(n) /\ n.current.type # "Custom" => n.origin = QueueForTaskType(n.current.type)
    BY NoTaskIsTask DEF Core, Placed, Busy
  <2> QED BY <2>1, <2>2 DEF Placed
<1>5. \A u \in Tasks : u.type \in Compressed /\ Same(n.current, u) => Same(s.current, u)
  BY NoTaskIsTask DEF Same, Compressed, TaskType
<1>6. Once(n)
  <2> SUFFICES ASSUME NEW p \in Queue, NEW k \in DOMAIN n.queue[p],
                      n.queue[p][k].type \in Compressed
               PROVE  /\ p = QueueForTaskType(n.queue[p][k].type)
                      /\ ~Same(n.current, n.queue[p][k])
                      /\ \A j \in 1 .. k - 1 : ~Same(n.queue[p][j], n.queue[p][k])
    BY DEF Once
  <2>0. n.queue[p][k] \in Tasks
    BY <1>1, <1>2, <1>3
  <2>1. CASE p # q
    BY <2>0, <2>1, <1>2, <1>5 DEF Core, Once
  <2>2. CASE p = q /\ k = 1
    BY <2>2, <1>3 DEF Compressed
  <2>3. CASE p = q /\ k # 1
    <3> DEFINE u == s.queue[q][k - 1]
    <3>1. k - 1 \in DOMAIN s.queue[q] /\ n.queue[p][k] = u
      BY <2>3, <1>1, <1>3
    <3>2. /\ q = QueueForTaskType(u.type) /\ ~Same(s.current, u)
          /\ \A j \in 1 .. k - 2 : ~Same(s.queue[q][j], u)
      BY <3>1, <1>1 DEF Core, Once
    <3>3. ~Same(t, u)
      BY <3>1 DEF Contains, Same
    <3>4. \A j \in 1 .. k - 1 : ~Same(n.queue[p][j], u)
      <4> SUFFICES ASSUME NEW j \in 1 .. k - 1 PROVE ~Same(n.queue[p][j], u)
        OBVIOUS
      <4>1. n.queue[p][j] = IF j = 1 THEN t ELSE s.queue[q][j - 1]
        BY <2>3, <1>3
      <4>2. CASE j = 1
        BY <4>1, <4>2, <3>3
      <4>3. CASE j # 1
        <5>1. j - 1 \in 1 .. k - 2
          BY <4>3, <2>3, <1>3
        <5> QED BY <4>1, <4>3, <5>1, <3>2
      <4> QED BY <4>2, <4>3
    <3> QED BY <2>0, <2>3, <3>1, <3>2, <3>4, <1>5
  <2> QED BY <2>1, <2>2, <2>3
<1>7. Few(n)
  <2>1. CASE q # ChangeReplays
    <3>1. n.queue[ChangeReplays] = s.queue[ChangeReplays]
      BY <2>1, <1>2, QueuePlaces
    <3> QED BY <3>1, QueuePlaces DEF Core, Few
  <2>2. CASE q = ChangeReplays
    <3>1. \A k \in DOMAIN n.queue[q] : k = 1 \/ k - 1 \in DOMAIN s.queue[q]
      BY <1>1, <1>3
    <3>2. \A k \in DOMAIN n.queue[q] : n.queue[q][k].type = "ChangeReplay"
      BY <2>2, <3>1, <1>3 DEF Core, Few
    <3> QED BY <2>2, <3>2, <1>1, <1>3, QueuePlaces DEF Few
  <2> QED BY <2>1, <2>2
<1> QED BY <1>4, <1>6, <1>7 DEF Core

\* A scheduler whose current task is gone.
LEMMA IdleCore ==
    ASSUME NEW s, Core(s), NEW n \in Schedulers, n.queue = s.queue,
           n.current = NoTask, n.origin = 0
    PROVE  Core(n)
<1>1. Placed(n)
  BY NoTaskIsTask DEF Core, Placed, Busy
<1>2. Once(n) /\ Few(n)
  BY NoTaskIsTask, QueuePlaces DEF Core, Once, Few, Same, Compressed, TaskType
<1> QED BY <1>1, <1>2 DEF Core

\* The fields of a scheduler without its current task.
LEMMA IdleFields ==
    ASSUME NEW s \in Schedulers, NEW n, n = [s EXCEPT !.current = NoTask, !.origin = 0]
    PROVE  /\ n \in Schedulers /\ n.queue = s.queue /\ n.current = NoTask /\ n.origin = 0
           /\ n.online = s.online /\ n.posted = s.posted
<1> DEFINE a == [s EXCEPT !.current = NoTask]
<1>1. /\ a \in Schedulers /\ a.queue = s.queue /\ a.current = NoTask
      /\ a.online = s.online /\ a.posted = s.posted
  BY NoTaskIsTask DEF Schedulers
<1>2. n = [a EXCEPT !.origin = 0]
  OBVIOUS
<1> HIDE DEF a
<1> QED BY <1>1, <1>2 DEF Schedulers

\* taskDone()
LEMMA TaskDoneSound ==
    ASSUME NEW s, Core(s)
    PROVE  /\ Sound(TaskDone(s)) /\ ~Busy(TaskDone(s))
           /\ TaskDone(s).queue = s.queue
           /\ TaskDone(s).current = NoTask
<1> DEFINE n == [s EXCEPT !.current = NoTask, !.origin = 0]
<1>1. /\ n \in Schedulers /\ n.queue = s.queue /\ n.current = NoTask /\ n.origin = 0
  BY IdleFields DEF Core
<1> HIDE DEF n
<1>2. Core(n)
  BY <1>1, IdleCore
<1>3. TaskDone(s) = ScheduleNext(n)
  BY DEF TaskDone, n
<1> QED BY <1>1, <1>2, <1>3, ScheduleNextSound, NoTaskIsTask DEF Busy

PutFront(s, q) ==
    [s EXCEPT !.queue[q] = <<s.current>> \o @, !.current = NoTask, !.origin = 0]

\* deferTask(), and the current task put back by going offline.
LEMMA PutFrontCore ==
    ASSUME NEW s, Core(s), Busy(s), NEW q \in Queue,
           s.current.type # "Custom" => q = QueueForTaskType(s.current.type),
           q = ChangeReplays => s.origin = q
    PROVE  /\ Core(PutFront(s, q)) /\ PutFront(s, q).current = NoTask
           /\ PutFront(s, q).online = s.online
           /\ PutFront(s, q).queue = [s.queue EXCEPT ![q] = <<s.current>> \o @]
<1> DEFINE n == PutFront(s, q)
<1>1. s.queue \in [Queue -> Seq(Tasks)] /\ s.current \in Tasks /\ s.current.type \in TaskType
  BY DEF Core, Schedulers, Tasks, Busy
<1>2. <<s.current>> \o s.queue[q] \in Seq(Tasks)
  BY <1>1
<1>3. /\ n \in Schedulers /\ n.current = NoTask /\ n.origin = 0 /\ n.online = s.online
      /\ n.queue = [s.queue EXCEPT ![q] = <<s.current>> \o @]
  <2> DEFINE a == [s EXCEPT !.queue[q] = <<s.current>> \o @]
  <2>1. /\ a \in Schedulers /\ a.online = s.online
        /\ a.queue = [s.queue EXCEPT ![q] = <<s.current>> \o @]
    BY <1>2 DEF Core, Schedulers
  <2>2. n = [a EXCEPT !.current = NoTask, !.origin = 0]
    BY DEF PutFront
  <2> HIDE DEF a, n
  <2> QED BY <2>1, <2>2, IdleFields
<1> HIDE DEF n
<1>4. s.current.type \in Compressed =>
         ~Contains(s.queue[q], s.current) /\ ~Same(n.current, s.current)
  <2>1. ASSUME s.current.type \in Compressed, NEW k \in DOMAIN s.queue[q],
               Same(s.queue[q][k], s.current)
        PROVE  FALSE
    <3>1. s.queue[q][k].type \in Compressed /\ Same(s.current, s.queue[q][k])
      BY <2>1 DEF Same
    <3> QED BY <2>1, <3>1 DEF Core, Once
  <2>2. s.current.type \in Compressed => ~Same(n.current, s.current)
    BY <1>3, NoTaskIsTask DEF Same, Compressed, TaskType
  <2> QED BY <2>1, <2>2 DEF Contains
<1>6. q = ChangeReplays => s.current.type = "ChangeReplay" /\ Len(s.queue[q]) <= 1
  BY DEF Core, Few
<1>5. Core(n)
  BY <1>1, <1>3, <1>4, <1>6, FrontSound
<1> QED BY <1>3, <1>5 DEF n

LEMMA DeferredSound ==
    ASSUME NEW s, Sound(s)
    PROVE  /\ Sound(Deferred(s)) /\ ~Busy(Deferred(s))
           /\ Busy(s) => s.origin \in Queue
                         /\ Deferred(s).queue = [s.queue EXCEPT ![s.origin] = <<s.current>> \o @]
<1>1. CASE ~Busy(s)
  BY <1>1 DEF Deferred
<1>2. CASE Busy(s)
  <2> DEFINE n == PutFront(s, s.origin)
  <2>1. s.origin \in Queue
    BY <1>2 DEF Sound, Core, Placed, Schedulers, Queue
  <2>2. s.current.type # "Custom" => s.origin = QueueForTaskType(s.current.type)
    BY <1>2 DEF Sound, Core, Placed
  <2>3. Deferred(s) = ScheduleNext(n)
    BY <1>2 DEF Deferred, PutFront
  <2>4. Core(n) /\ n.current = NoTask
        /\ n.queue = [s.queue EXCEPT ![s.origin] = <<s.current>> \o @]
    BY <1>2, <2>1, <2>2, PutFrontCore DEF Sound
  <2> HIDE DEF n
  <2> QED BY <2>1, <2>3, <2>4, ScheduleNextSound, NoTaskIsTask DEF Busy
<1> QED BY <1>1, <1>2

\* A replay that is put back comes from where it is put.
LEMMA PlacedBack ==
    ASSUME NEW s, Core(s), Busy(s), QueueForTaskType(s.current.type) = ChangeReplays
    PROVE  s.origin = ChangeReplays
<1>1. s.current.type # "Custom"
  BY DEF QueueForTaskType, ChangeReplays, Generic
<1> QED BY <1>1 DEF Core, Placed

LEMMA PutBackSound ==
    ASSUME NEW s, Core(s)
    PROVE  /\ Core(PutBack(s)) /\ ~Busy(PutBack(s))
           /\ Busy(s) => /\ QueueForTaskType(s.current.type) \in Queue
                         /\ PutBack(s).queue =
                                [s.queue EXCEPT ![QueueForTaskType(s.current.type)] = <<s.current>> \o @]
<1>1. CASE ~Busy(s)
  BY <1>1 DEF PutBack
<1>2. CASE Busy(s)
  <2> DEFINE q == QueueForTaskType(s.current.type)
             n == PutFront(s, q)
  <2>1. q \in Queue
    BY DEF QueueForTaskType, Queue, ChangeReplays, ItemFetches, Generic
  <2>2. PutBack(s) = n
    BY <1>2 DEF PutBack, PutFront
  <2>4. q = ChangeReplays => s.origin = q
    BY <1>2, PlacedBack
  <2> HIDE DEF q
  <2>3. Core(n) /\ n.current = NoTask /\ n.queue = [s.queue EXCEPT ![q] = <<s.current>> \o @]
    BY <1>2, <2>1, <2>4, PutFrontCore DEF q
  <2> QED BY <2>1, <2>2, <2>3, NoTaskIsTask DEF Busy, q
<1> QED BY <1>1, <1>2

\* executeNext() takes a task that cannot be in a queue any more.
LEMMA TakenSound ==
    ASSUME NEW s, Core(s), ~Busy(s), ~IsEmpty(s)
    PROVE  /\ Sound(Taken(s)) /\ Taken(s).current.type \in TaskType
           /\ Replays(s) => Replays(Taken(s))
           /\ \E q \in Queue : /\ s.queue[q] # <<>> /\ Taken(s).current = Head(s.queue[q])
                              /\ Taken(s).queue = [s.queue EXCEPT ![q] = Tail(@)]
                              /\ Taken(s).origin = q
<1> DEFINE First(q) == s.queue[q] # <<>> /\ \A p \in 1 .. q - 1 : s.queue[p] = <<>>
           q == CHOOSE q \in Queue : First(q)
           n == Taken(s)
           t == Head(s.queue[q])
<1>1. s.queue \in [Queue -> Seq(Tasks)]
  BY DEF Core, Schedulers
<1>2. q \in Queue /\ s.queue[q] # <<>>
  <2>1. \E k \in 1 .. 5 : s.queue[k] # <<>>
    BY DEF IsEmpty, Queue
  <2>2. \E k \in Queue : First(k)
    <3>1. CASE s.queue[1] # <<>>
      BY <3>1 DEF Queue
    <3>2. CASE s.queue[1] = <<>> /\ s.queue[2] # <<>>
      BY <3>2 DEF Queue
    <3>3. CASE s.queue[1] = <<>> /\ s.queue[2] = <<>> /\ s.queue[3] # <<>>
      BY <3>3 DEF Queue
    <3>4. CASE s.queue[1] = <<>> /\ s.queue[2] = <<>> /\ s.queue[3] = <<>> /\ s.queue[4] # <<>>
      BY <3>4 DEF Queue
    <3>5. CASE s.queue[1] = <<>> /\ s.queue[2] = <<>> /\ s.queue[3] = <<>> /\ s.queue[4] = <<>>
      BY <3>5, <2>1 DEF Queue
    <3> QED BY <3>1, <3>2, <3>3, <3>4, <3>5
  <2> HIDE DEF First
  <2>3. First(q)
    BY <2>2
  <2>4. q \in Queue
    BY <2>2
  <2> QED BY <2>3, <2>4 DEF First
<1>3. n = [s EXCEPT !.current = t, !.queue[q] = Tail(@), !.origin = q]
  BY DEF Taken
<1> HIDE DEF q, n
<1>4. /\ t \in Tasks /\ Tail(s.queue[q]) \in Seq(Tasks)
      /\ Len(Tail(s.queue[q])) = Len(s.queue[q]) - 1 /\ t = s.queue[q][1]
      /\ 1 \in DOMAIN s.queue[q]
      /\ \A k \in DOMAIN Tail(s.queue[q]) :
             k + 1 \in DOMAIN s.queue[q] /\ Tail(s.queue[q])[k] = s.queue[q][k + 1]
  BY <1>1, <1>2
<1>5. /\ n \in Schedulers /\ n.current = t /\ n.origin = q
      /\ n.queue = [s.queue EXCEPT ![q] = Tail(@)]
  <2> DEFINE a == [s EXCEPT !.current = t]
             b == [a EXCEPT !.queue[q] = Tail(@)]
  <2> HIDE DEF t
  <2>1. a \in Schedulers /\ a.current = t /\ a.queue = s.queue
    BY <1>4 DEF Core, Schedulers
  <2>2. n = [b EXCEPT !.origin = q]
    BY <1>3 DEF b
  <2> HIDE DEF a
  <2>3. b \in Schedulers /\ b.current = t /\ b.queue = [s.queue EXCEPT ![q] = Tail(@)]
    BY <1>4, <2>1 DEF Schedulers
  <2> HIDE DEF b
  <2>4. q \in 0 .. 5
    BY <1>2 DEF Queue
  <2> QED BY <2>2, <2>3, <2>4 DEF Schedulers
<1>6. /\ \A p \in Queue : p # q => n.queue[p] = s.queue[p]
      /\ n.queue[q] = Tail(s.queue[q])
  BY <1>1, <1>2, <1>5
<1>7. t.type \in TaskType /\ (t.type # "Custom" => q = QueueForTaskType(t.type))
  BY <1>2, <1>4 DEF Core, Placed
<1> HIDE DEF t
<1>8. Busy(n) /\ n.origin # 0
  BY <1>2, <1>5, <1>7 DEF Busy, TaskType, Queue
<1>9. Placed(n)
  <2>1. \A p \in Queue : \A k \in DOMAIN n.queue[p] :
           /\ n.queue[p][k].type \in TaskType
           /\ n.queue[p][k].type # "Custom" => p = QueueForTaskType(n.queue[p][k].type)
    <3> SUFFICES ASSUME NEW p \in Queue, NEW k \in DOMAIN n.queue[p]
                 PROVE  \E j \in DOMAIN s.queue[p] : n.queue[p][k] = s.queue[p][j]
      BY DEF Core, Placed
    <3>1. CASE p # q
      BY <3>1, <1>6
    <3>2. CASE p = q
      BY <3>2, <1>4, <1>6
    <3> QED BY <3>1, <3>2
  <2> QED BY <2>1, <1>5, <1>7, <1>8 DEF Placed
<1>10. Once(n)
  <2> SUFFICES ASSUME NEW p \in Queue, NEW k \in DOMAIN n.queue[p],
                      n.queue[p][k].type \in Compressed
               PROVE  /\ p = QueueForTaskType(n.queue[p][k].type)
                      /\ ~Same(t, n.queue[p][k])
                      /\ \A j \in 1 .. k - 1 : ~Same(n.queue[p][j], n.queue[p][k])
    BY <1>5 DEF Once
  <2>1. CASE p # q
    <3>1. /\ p = QueueForTaskType(n.queue[p][k].type)
          /\ \A j \in 1 .. k - 1 : ~Same(n.queue[p][j], n.queue[p][k])
      BY <2>1, <1>6 DEF Core, Once
    <3>2. n.queue[p][k].type # "Custom"
      BY DEF Compressed
    <3> QED BY <2>1, <3>1, <3>2, <1>7 DEF Same
  <2>2. CASE p = q
    <3> DEFINE u == s.queue[q][k + 1]
    <3>1. k + 1 \in DOMAIN s.queue[q] /\ n.queue[p][k] = u /\ k \in Nat \ {0}
      BY <2>2, <1>1, <1>4, <1>6
    <3>2. /\ q = QueueForTaskType(u.type)
          /\ \A j \in 1 .. k : ~Same(s.queue[q][j], u)
      BY <3>1, <1>2 DEF Core, Once
    <3>3. \A j \in 1 .. k - 1 : n.queue[q][j] = s.queue[q][j + 1] /\ j + 1 \in 1 .. k
      <4> SUFFICES ASSUME NEW j \in 1 .. k - 1
                   PROVE  n.queue[q][j] = s.queue[q][j + 1] /\ j + 1 \in 1 .. k
        OBVIOUS
      <4>1. j \in DOMAIN n.queue[q]
        BY <2>2, <3>1, <1>4, <1>6
      <4> QED BY <3>1, <4>1, <1>4, <1>6
    <3> HIDE DEF u
    <3>4. 1 \in 1 .. k /\ ~Same(t, u)
      BY <3>1, <3>2, <1>4
    <3>5. \A j \in 1 .. k - 1 : ~Same(n.queue[q][j], u)
      BY <3>2, <3>3
    <3> QED BY <2>2, <3>1, <3>2, <3>4, <3>5
  <2> QED BY <2>1, <2>2
<1>13. Few(n)
  <2>1. CASE q # ChangeReplays
    BY <2>1, <1>5, <1>6, QueuePlaces DEF Core, Few
  <2>2. CASE q = ChangeReplays
    <3>1. Len(n.queue[q]) <= 1 /\ t.type = "ChangeReplay"
      BY <2>2, <1>1, <1>2, <1>4, <1>6 DEF Core, Few
    <3>2. \A k \in DOMAIN n.queue[q] : n.queue[q][k].type = "ChangeReplay"
      BY <2>2, <1>4, <1>6 DEF Core, Few
    <3> QED BY <2>2, <3>1, <3>2, <1>1, <1>2, <1>5, <1>6 DEF Few
  <2> QED BY <2>1, <2>2
<1>11. ASSUME Replays(s) PROVE Replays(n)
  <2>1. PICK k \in DOMAIN s.queue[ChangeReplays] :
             Same(s.queue[ChangeReplays][k], Task("ChangeReplay", None))
    <3>1. s.current.type # "ChangeReplay"
      BY DEF Busy
    <3> QED BY <1>11, <3>1 DEF Replays, Contains
  <2>2. ChangeReplays \in Queue
    BY DEF ChangeReplays, Queue
  <2>3. CASE q # ChangeReplays
    BY <2>1, <2>2, <2>3, <1>6 DEF Replays, Contains
  <2>4. CASE q = ChangeReplays /\ k = 1
    BY <2>1, <2>4, <1>4, <1>5, TaskIsTask DEF Replays, Same, TaskType
  <2>5. CASE q = ChangeReplays /\ k # 1
    <3>1. k - 1 \in DOMAIN Tail(s.queue[q]) /\ Tail(s.queue[q])[k - 1] = s.queue[q][k]
      BY <2>5, <1>1, <1>4, <2>1
    <3> QED BY <2>1, <2>5, <3>1, <1>6 DEF Replays, Contains
  <2> QED BY <2>3, <2>4, <2>5
<1>12. \E p \in Queue : /\ s.queue[p] # <<>> /\ n.current = Head(s.queue[p])
                        /\ n.queue = [s.queue EXCEPT ![p] = Tail(@)] /\ n.origin = p
  BY <1>2, <1>5 DEF t
<1> QED BY <1>5, <1>7, <1>8, <1>9, <1>10, <1>11, <1>12, <1>13 DEF Sound, Core, Awake, n

\* Entries that are only relabelled (with other callers) or kept do not end a
\* replay that waits.
LEMMA ReplaysKept ==
    ASSUME NEW s, NEW n, Replays(s), n.current.type = s.current.type,
           \A k \in DOMAIN s.queue[ChangeReplays] : \E j \in DOMAIN n.queue[ChangeReplays] :
               Same(n.queue[ChangeReplays][j], s.queue[ChangeReplays][k])
    PROVE  Replays(n)
BY DEF Replays, Contains, Same

\* What a schedule...() does to a scheduler in order: it stays in order, the
\* current task and the connection stay, and no replay is lost.
Grown(s, n) ==
    /\ Sound(n) /\ Same(n.current, s.current) /\ n.online = s.online
    /\ Replays(s) => Replays(n)

LEMMA QueuedGrown ==
    ASSUME NEW s, Core(s), NEW q \in Queue, NEW t \in Tasks, t.type \in TaskType,
           t.type # "Custom" => q = QueueForTaskType(t.type),
           t.type \in Compressed => ~Contains(s.queue[q], t) /\ ~Same(s.current, t),
           q = ChangeReplays => t.type = "ChangeReplay" /\ s.queue[q] = <<>>
    PROVE  Grown(s, Queued(s, q, t)) /\ Queued(s, q, t).current = s.current
<1> DEFINE n == Queued(s, q, t)
<1>1. /\ Sound(n) /\ n.current = s.current /\ n.online = s.online
      /\ n.queue = [s.queue EXCEPT ![q] = Append(@, t)]
  BY QueuedSound
<1> HIDE DEF n
<1>2. s.queue \in [Queue -> Seq(Tasks)] /\ ChangeReplays \in Queue
  BY DEF Core, Schedulers, ChangeReplays, Queue
<1>3. \A k \in DOMAIN s.queue[ChangeReplays] :
          /\ k \in DOMAIN n.queue[ChangeReplays]
          /\ n.queue[ChangeReplays][k] = s.queue[ChangeReplays][k]
  BY <1>1, <1>2
<1>4. Replays(s) => Replays(n)
  BY <1>1, <1>3, ReplaysKept DEF Same
<1> QED BY <1>1, <1>4 DEF Grown, Same, n

\* scheduleFullSync() and the others that compress
LEMMA ScheduledSound ==
    ASSUME NEW s, Sound(s), NEW t \in Tasks, t.type \in TaskType \ {"Custom", "ChangeReplay"}
    PROVE  Grown(s, Scheduled(s, t))
<1>1. CASE Contains(s.queue[QueueForTaskType(t.type)], t) \/ Same(s.current, t)
  BY <1>1 DEF Scheduled, Grown, Same
<1>2. CASE ~(Contains(s.queue[QueueForTaskType(t.type)], t) \/ Same(s.current, t))
  BY <1>2, QueuedGrown, QueuePlaces DEF Scheduled, Sound
<1> QED BY <1>1, <1>2

\* The queue of replays in which there is none.
LEMMA NoReplayWaits ==
    ASSUME NEW s, Core(s), ~Contains(s.queue[ChangeReplays], Task("ChangeReplay", None))
    PROVE  s.queue[ChangeReplays] = <<>>
<1> DEFINE list == s.queue[ChangeReplays]
<1>1. list \in Seq(Tasks)
  BY QueuePlaces DEF Core, Schedulers
<1>2. SUFFICES ASSUME list # <<>> PROVE FALSE
  OBVIOUS
<1>3. 1 \in DOMAIN list /\ list[1] \in Tasks
  BY <1>1, <1>2
<1>4. list[1].type = "ChangeReplay"
  BY <1>3 DEF Core, Few
<1>5. list[1].arg = None
  BY <1>3, <1>4 DEF Tasks
<1> QED BY <1>3, <1>4, <1>5, TaskIsTask DEF Contains, Same, TaskType

\* scheduleChangeReplay()
LEMMA ScheduledReplaySound ==
    ASSUME NEW s, Core(s), Contains(s.queue[ChangeReplays], Task("ChangeReplay", None)) => Sound(s)
    PROVE  /\ Grown(s, ScheduledReplay(s)) /\ ScheduledReplay(s).current = s.current
           /\ Contains(ScheduledReplay(s).queue[ChangeReplays], Task("ChangeReplay", None))
<1> DEFINE t == Task("ChangeReplay", None)
<1>1. CASE Contains(s.queue[ChangeReplays], t)
  BY <1>1 DEF ScheduledReplay, Grown, Same
<1>2. CASE ~Contains(s.queue[ChangeReplays], t)
  <2> DEFINE n == Queued(s, ChangeReplays, t)
  <2>1. /\ t \in Tasks /\ t.type = "ChangeReplay" /\ ChangeReplays = QueueForTaskType(t.type)
        /\ t.type \notin Compressed
    BY TaskIsTask DEF TaskType, QueueForTaskType, Compressed
  <2>2. ScheduledReplay(s) = n
    BY <1>2 DEF ScheduledReplay
  <2>3. s.queue \in [Queue -> Seq(Tasks)]
    BY DEF Core, Schedulers
  <2>7. s.queue[ChangeReplays] = <<>>
    BY <1>2, NoReplayWaits
  <2> HIDE DEF t
  <2>4. /\ Grown(s, n) /\ n.current = s.current
        /\ n.queue = [s.queue EXCEPT ![ChangeReplays] = Append(@, t)]
    <3>1. t.type \in TaskType /\ t.type # "Custom" /\ ChangeReplays \in Queue
      BY <2>1, ReplayPlace DEF TaskType
    <3>2. Grown(s, n) /\ n.current = s.current
      BY <2>1, <2>7, <3>1, QueuedGrown
    <3>3. n.queue = [s.queue EXCEPT ![ChangeReplays] = Append(@, t)]
      <4>1. \A q \in Queue : /\ q = QueueForTaskType(t.type)
                             /\ q = ChangeReplays => t.type = "ChangeReplay" /\ s.queue[q] = <<>>
                             => Queued(s, q, t).queue = [s.queue EXCEPT ![q] = Append(@, t)]
        BY <2>1, <3>1, QueuedSound
      <4> QED BY <2>1, <2>7, <3>1, <4>1
    <3> QED BY <3>2, <3>3
  <2> HIDE DEF n
  <2>5. /\ n.queue[ChangeReplays][Len(s.queue[ChangeReplays]) + 1] = t
        /\ Len(s.queue[ChangeReplays]) + 1 \in DOMAIN n.queue[ChangeReplays]
    BY <2>3, <2>4, QueuePlaces
  <2>6. Contains(n.queue[ChangeReplays], t)
    BY <2>5 DEF Contains, Same
  <2> QED BY <2>2, <2>4, <2>6 DEF t
<1> QED BY <1>1, <1>2

\* A scheduler whose tasks have other callers.
LEMMA RelabelledSound ==
    ASSUME NEW s, Sound(s), NEW n \in Schedulers, Same(n.current, s.current),
           n.origin = s.origin, n.online = s.online, n.posted = s.posted,
           \A q \in Queue : /\ DOMAIN n.queue[q] = DOMAIN s.queue[q]
                            /\ \A k \in DOMAIN s.queue[q] : Same(n.queue[q][k], s.queue[q][k])
    PROVE  Grown(s, n)
<1>1. Placed(n)
  BY DEF Sound, Core, Placed, Same, Busy
<1>2. \A q \in Queue : s.queue[q] \in Seq(Tasks) /\ n.queue[q] \in Seq(Tasks)
  BY DEF Sound, Core, Schedulers
<1>3. Once(n)
  <2> SUFFICES ASSUME NEW q \in Queue, NEW k \in DOMAIN n.queue[q],
                      n.queue[q][k].type \in Compressed
               PROVE  /\ q = QueueForTaskType(n.queue[q][k].type)
                      /\ ~Same(n.current, n.queue[q][k])
                      /\ \A j \in 1 .. k - 1 : ~Same(n.queue[q][j], n.queue[q][k])
    BY DEF Once
  <2>1. /\ k \in DOMAIN s.queue[q] /\ Same(n.queue[q][k], s.queue[q][k])
        /\ s.queue[q][k].type \in Compressed
    BY DEF Same
  <2>2. /\ q = QueueForTaskType(s.queue[q][k].type)
        /\ ~Same(s.current, s.queue[q][k])
        /\ \A j \in 1 .. k - 1 : ~Same(s.queue[q][j], s.queue[q][k])
    BY <2>1 DEF Sound, Core, Once
  <2>3. \A j \in 1 .. k - 1 : j \in DOMAIN s.queue[q]
    BY <1>2, <2>1
  <2> QED BY <2>1, <2>2, <2>3 DEF Same
<1>4. IsEmpty(n) => IsEmpty(s)
  <2> SUFFICES ASSUME NEW q \in Queue, n.queue[q] = <<>> PROVE s.queue[q] = <<>>
    BY DEF IsEmpty
  <2> QED BY <1>2
<1>5. IsEmpty(s) => IsEmpty(n)
  <2> SUFFICES ASSUME NEW q \in Queue, s.queue[q] = <<>> PROVE n.queue[q] = <<>>
    BY DEF IsEmpty
  <2> QED BY <1>2
<1>6. Awake(n)
  BY <1>4, <1>5 DEF Sound, Awake, Busy, Same
<1>7. Replays(s) => Replays(n)
  BY ReplaysKept, QueuePlaces DEF Same
<1>8. Few(n)
  <2>1. Len(n.queue[ChangeReplays]) = Len(s.queue[ChangeReplays])
    BY <1>2, QueuePlaces
  <2> QED BY <2>1, QueuePlaces DEF Sound, Core, Few, Same
<1> QED BY <1>1, <1>3, <1>6, <1>7, <1>8 DEF Grown, Sound, Core

\* A caller that is added to a fetch.
LEMMA CallerAdded ==
    ASSUME NEW u \in Tasks, u.type = "FetchItem", NEW r \in Request
    PROVE  /\ [u EXCEPT !.msgs = @ \cup {r}] \in Tasks
           /\ Same([u EXCEPT !.msgs = @ \cup {r}], u)
           /\ [u EXCEPT !.msgs = @ \cup {r}].msgs = u.msgs \cup {r}
BY DEF Tasks, Same

\* A list in which a caller joins others is one of the same tasks.
LEMMA JoinedType ==
    ASSUME NEW list \in Seq(Tasks), NEW t, t.type = "FetchItem", NEW r \in Request
    PROVE  /\ Joined(list, t, r) \in Seq(Tasks)
           /\ DOMAIN Joined(list, t, r) = DOMAIN list
           /\ \A k \in DOMAIN list : Same(Joined(list, t, r)[k], list[k])
<1> DEFINE new == Joined(list, t, r)
<1>1. ASSUME NEW k \in DOMAIN list
      PROVE  new[k] \in Tasks /\ Same(new[k], list[k])
  <2>1. list[k] \in Tasks
    OBVIOUS
  <2>2. CASE Same(list[k], t) /\ ~Contains(SubSeq(list, 1, k - 1), t)
    <3>1. new[k] = [list[k] EXCEPT !.msgs = @ \cup {r}]
      BY <2>2 DEF Joined
    <3>2. list[k].type = "FetchItem"
      BY <2>2 DEF Same
    <3> QED BY <2>1, <3>1, <3>2, CallerAdded
  <2>3. CASE ~(Same(list[k], t) /\ ~Contains(SubSeq(list, 1, k - 1), t))
    <3>1. new[k] = list[k]
      BY <2>3 DEF Joined
    <3> QED BY <2>1, <3>1 DEF Same
  <2> QED BY <2>2, <2>3
<1>2. DOMAIN new = 1 .. Len(list) /\ new = [k \in 1 .. Len(list) |-> new[k]]
  BY DEF Joined
<1> HIDE DEF new
<1>3. new \in [1 .. Len(list) -> Tasks] /\ Len(list) \in Nat /\ DOMAIN list = 1 .. Len(list)
  <2>1. DOMAIN list = 1 .. Len(list) /\ Len(list) \in Nat
    OBVIOUS
  <2>2. \A k \in 1 .. Len(list) : new[k] \in Tasks
    BY <1>1, <2>1
  <2> QED BY <1>2, <2>1, <2>2
<1>4. new \in Seq(Tasks) /\ DOMAIN new = DOMAIN list
  BY <1>3
<1>5. \A k \in DOMAIN list : Same(new[k], list[k])
  BY <1>1
<1> QED BY <1>4, <1>5 DEF new

\* scheduleItemFetch()
LEMMA ScheduledFetchSound ==
    ASSUME NEW s, Sound(s), NEW i \in Item, NEW r \in Request
    PROVE  Grown(s, ScheduledFetch(s, i, r))
<1> DEFINE t == Task("FetchItem", i)
<1>1. /\ t \in Tasks /\ t.type = "FetchItem" /\ ItemFetches = QueueForTaskType("FetchItem")
      /\ [t EXCEPT !.msgs = {r}] \in Tasks
  BY TaskIsTask DEF TaskType, QueueForTaskType, Tasks
<1>2. s \in Schedulers /\ s.queue \in [Queue -> Seq(Tasks)] /\ s.current \in Tasks
  BY DEF Sound, Core, Schedulers
<1>3. CASE Same(s.current, t)
  <2> DEFINE u == [s.current EXCEPT !.msgs = @ \cup {r}]
             n == [s EXCEPT !.current = u]
  <2>1. u \in Tasks /\ Same(u, s.current)
    <3>1. s.current.type = "FetchItem"
      BY <1>1, <1>3 DEF Same
    <3> HIDE DEF t
    <3> QED BY <1>2, <3>1 DEF Tasks, Same
  <2>2. ScheduledFetch(s, i, r) = n
    BY <1>3 DEF ScheduledFetch
  <2> HIDE DEF u
  <2>3. /\ n \in Schedulers /\ n.current = u /\ n.origin = s.origin /\ n.online = s.online
        /\ n.posted = s.posted /\ n.queue = s.queue
    BY <1>2, <2>1 DEF Schedulers
  <2> HIDE DEF n
  <2>4. Grown(s, n)
    BY <2>1, <2>3, RelabelledSound DEF Same
  <2> QED BY <2>2, <2>4
<1>4. CASE ~Same(s.current, t) /\ Contains(s.queue[ItemFetches], t)
  <2> DEFINE old == s.queue[ItemFetches]
             list == Joined(old, t, r)
             n == [s EXCEPT !.queue[ItemFetches] = list]
  <2>1. ScheduledFetch(s, i, r) = n
    BY <1>4 DEF ScheduledFetch
  <2>2. old \in Seq(Tasks)
    BY <1>2, QueuePlaces
  <2> HIDE DEF t, old
  <2>3. DOMAIN list = DOMAIN old
    BY DEF Joined
  <2>4. list \in Seq(Tasks) /\ \A k \in DOMAIN old : Same(list[k], old[k])
    BY <1>1, <2>2, JoinedType
  <2> HIDE DEF list
  <2>5. /\ n \in Schedulers /\ n.current = s.current /\ n.origin = s.origin
        /\ n.online = s.online /\ n.posted = s.posted
        /\ n.queue = [s.queue EXCEPT ![ItemFetches] = list]
    BY <1>2, <2>4 DEF Schedulers, old
  <2> HIDE DEF n
  <2>6. \A q \in Queue : /\ DOMAIN n.queue[q] = DOMAIN s.queue[q]
                         /\ \A k \in DOMAIN s.queue[q] : Same(n.queue[q][k], s.queue[q][k])
    <3> SUFFICES ASSUME NEW q \in Queue
                 PROVE  /\ DOMAIN n.queue[q] = DOMAIN s.queue[q]
                        /\ \A k \in DOMAIN s.queue[q] : Same(n.queue[q][k], s.queue[q][k])
      OBVIOUS
    <3>1. CASE q = ItemFetches
      BY <3>1, <1>2, <2>3, <2>4, <2>5 DEF old
    <3>2. CASE q # ItemFetches
      BY <3>2, <1>2, <2>5 DEF Same
    <3> QED BY <3>1, <3>2
  <2>7. Grown(s, n)
    BY <2>5, <2>6, RelabelledSound DEF Same
  <2> QED BY <2>1, <2>7
<1>5. CASE ~Same(s.current, t) /\ ~Contains(s.queue[ItemFetches], t)
  <2> DEFINE u == [t EXCEPT !.msgs = {r}]
  <2>1. u.type = t.type /\ u.arg = t.arg
    BY <1>1 DEF Tasks
  <2>2. ~Contains(s.queue[ItemFetches], u) /\ ~Same(s.current, u)
    BY <1>5, <2>1 DEF Contains, Same
  <2>3. ScheduledFetch(s, i, r) = Queued(s, ItemFetches, u)
    BY <1>5 DEF ScheduledFetch
  <2> HIDE DEF u
  <2>4. u \in Tasks
    BY <1>1 DEF u
  <2> HIDE DEF t
  <2> QED BY <1>1, <2>1, <2>2, <2>3, <2>4, QueuedGrown, QueuePlaces DEF TaskType, Sound
<1> QED BY <1>3, <1>4, <1>5

\* scheduleCustomTask()
LEMMA ScheduledCustomSound ==
    ASSUME NEW s, Sound(s), NEW q \in {Prepend, AfterChangeReplay, Generic}
    PROVE  Grown(s, ScheduledCustom(s, q))
<1> DEFINE t == Task("Custom", None)
<1>1. t \in Tasks /\ t.type = "Custom" /\ t.type \in TaskType /\ t.type \notin Compressed
  BY TaskIsTask DEF TaskType, Compressed
<1>2. s \in Schedulers /\ s.queue \in [Queue -> Seq(Tasks)] /\ q \in Queue
  BY DEF Sound, Core, Schedulers, Prepend, AfterChangeReplay, Generic, Queue
<1> HIDE DEF t
<1>3. CASE Contains(s.queue[q], t)
  BY <1>3 DEF ScheduledCustom, Grown, Same, t
<1>4. CASE ~Contains(s.queue[q], t) /\ q = Prepend
  <2> DEFINE n == [s EXCEPT !.queue[q] = <<t>> \o @]
  <2>1. ScheduledCustom(s, q) = ScheduleNext(n)
    BY <1>4 DEF ScheduledCustom, t
  <2>2. <<t>> \o s.queue[q] \in Seq(Tasks)
    BY <1>1, <1>2
  <2>3. /\ n \in Schedulers /\ n.current = s.current /\ n.origin = s.origin
        /\ n.online = s.online /\ n.queue = [s.queue EXCEPT ![q] = <<t>> \o @]
    BY <1>2, <2>2 DEF Schedulers
  <2> HIDE DEF n
  <2>4. Core(n)
    BY <1>1, <1>2, <1>4, <2>3, FrontSound, ReplayPlace DEF Sound
  <2>5. n.queue[ChangeReplays] = s.queue[ChangeReplays]
    BY <1>4, <1>2, <2>3, QueuePlaces DEF ChangeReplays, Prepend
  <2>6. Replays(s) => Replays(ScheduleNext(n))
    BY <2>3, <2>4, <2>5, ScheduleNextSound DEF Replays
  <2> QED BY <2>1, <2>3, <2>4, <2>6, ScheduleNextSound DEF Grown, Same
<1>5. CASE ~Contains(s.queue[q], t) /\ q # Prepend
  BY <1>1, <1>2, <1>5, QueuedGrown, ReplayPlace DEF ScheduledCustom, Sound, t
<1> QED BY <1>3, <1>4, <1>5

\* Entries of a queue that are erased.
LEMMA ErasedCore ==
    ASSUME NEW s, Core(s), NEW q \in Queue, NEW K \in SUBSET DOMAIN s.queue[q],
           NEW rest \in Sublist(s.queue[q], K), NEW n \in Schedulers,
           n.queue = [s.queue EXCEPT ![q] = rest],
           n.current = s.current, n.origin = s.origin
    PROVE  Core(n) /\ (IsEmpty(s) => IsEmpty(n))
<1>1. s.queue \in [Queue -> Seq(Tasks)]
  BY DEF Core, Schedulers
<1>2. s.queue[q] \in Seq(Tasks)
  BY <1>1
<1>3. /\ rest \in Seq(Tasks) /\ Len(rest) <= Len(s.queue[q])
      /\ \E f \in [DOMAIN rest -> K] :
              /\ \A i \in DOMAIN rest : rest[i] = s.queue[q][f[i]]
              /\ \A i, j \in DOMAIN rest : i < j => f[i] < f[j]
  BY <1>2, SublistType
<1>4. PICK f \in [DOMAIN rest -> K] :
              /\ \A i \in DOMAIN rest : rest[i] = s.queue[q][f[i]]
              /\ \A i, j \in DOMAIN rest : i < j => f[i] < f[j]
  BY <1>3
<1>5. n.queue[q] = rest /\ \A p \in Queue : p # q => n.queue[p] = s.queue[p]
  BY <1>1
<1>6. Placed(n)
  <2>1. \A p \in Queue : \A k \in DOMAIN n.queue[p] :
           \E j \in DOMAIN s.queue[p] : n.queue[p][k] = s.queue[p][j]
    <3> SUFFICES ASSUME NEW p \in Queue, NEW k \in DOMAIN n.queue[p]
                 PROVE  \E j \in DOMAIN s.queue[p] : n.queue[p][k] = s.queue[p][j]
      OBVIOUS
    <3>1. CASE p # q
      BY <3>1, <1>5
    <3>2. CASE p = q
      BY <3>2, <1>4, <1>5
    <3> QED BY <3>1, <3>2
  <2> QED BY <2>1 DEF Core, Placed, Busy
<1>7. Once(n)
  <2> SUFFICES ASSUME NEW p \in Queue, NEW k \in DOMAIN n.queue[p],
                      n.queue[p][k].type \in Compressed
               PROVE  /\ p = QueueForTaskType(n.queue[p][k].type)
                      /\ ~Same(n.current, n.queue[p][k])
                      /\ \A j \in 1 .. k - 1 : ~Same(n.queue[p][j], n.queue[p][k])
    BY DEF Once
  <2>1. CASE p # q
    BY <2>1, <1>5 DEF Core, Once
  <2>2. CASE p = q
    <3>1. k \in DOMAIN rest /\ f[k] \in DOMAIN s.queue[q] /\ rest[k] = s.queue[q][f[k]]
      BY <2>2, <1>4, <1>5
    <3>2. /\ q = QueueForTaskType(rest[k].type)
          /\ ~Same(s.current, rest[k])
          /\ \A j \in 1 .. f[k] - 1 : ~Same(s.queue[q][j], rest[k])
      BY <3>1, <2>2, <1>5 DEF Core, Once
    <3>3. \A j \in 1 .. k - 1 : f[j] \in 1 .. f[k] - 1 /\ rest[j] = s.queue[q][f[j]]
      <4> SUFFICES ASSUME NEW j \in 1 .. k - 1
                   PROVE  f[j] \in 1 .. f[k] - 1 /\ rest[j] = s.queue[q][f[j]]
        OBVIOUS
      <4>1. j \in DOMAIN rest /\ j < k
        BY <3>1, <1>3
      <4>2. f[j] < f[k] /\ rest[j] = s.queue[q][f[j]] /\ f[j] \in DOMAIN s.queue[q]
        BY <4>1, <3>1, <1>4
      <4> QED BY <4>2, <3>1, <1>2
    <3>4. n.queue[p] = rest /\ p = q /\ n.current = s.current
      BY <2>2, <1>5
    <3>5. \A j \in 1 .. k - 1 : ~Same(rest[j], rest[k])
      BY <3>2, <3>3
    <3> QED BY <3>2, <3>4, <3>5
  <2> QED BY <2>1, <2>2
<1>9. Few(n)
  <2>1. CASE q # ChangeReplays
    BY <2>1, <1>5, QueuePlaces DEF Core, Few
  <2>2. CASE q = ChangeReplays
    <3>1. \A k \in DOMAIN rest : f[k] \in DOMAIN s.queue[q] /\ rest[k].type = s.queue[q][f[k]].type
      BY <1>4
    <3>2. \A k \in DOMAIN rest : rest[k].type = "ChangeReplay"
      BY <2>2, <3>1 DEF Core, Few
    <3>3. Len(rest) \in Nat /\ Len(s.queue[q]) \in Nat
      BY <1>2, <1>3
    <3>4. n.queue[ChangeReplays] = rest /\ Len(rest) <= Len(s.queue[ChangeReplays])
      BY <2>2, <1>3, <1>5
    <3>5. /\ Len(s.queue[ChangeReplays]) <= 2
          /\ s.origin = ChangeReplays =>
                 s.current.type = "ChangeReplay" /\ Len(s.queue[ChangeReplays]) <= 1
      BY DEF Core, Few
    <3>6. /\ Len(rest) <= 2
          /\ s.origin = ChangeReplays => s.current.type = "ChangeReplay" /\ Len(rest) <= 1
      BY <2>2, <3>3, <3>4, <3>5
    <3> QED BY <3>2, <3>4, <3>6 DEF Few
  <2> QED BY <2>1, <2>2
<1>8. ASSUME IsEmpty(s) PROVE IsEmpty(n)
  <2>1. rest = <<>>
    BY <1>2, <1>3, <1>8 DEF IsEmpty
  <2> QED BY <2>1, <1>5, <1>8 DEF IsEmpty
<1> QED BY <1>6, <1>7, <1>8, <1>9 DEF Core

\* scheduleSync() of a list of collections, none of them twice
LEMMA ScheduledSyncsSound ==
    ASSUME NEW s, Sound(s), NEW list \in Seq(Collection),
           \A i, j \in DOMAIN list : i # j => list[i] # list[j],
           NEW n \in ScheduledSyncs(s, list)
    PROVE  Grown(s, n) /\ n.current = s.current
<1> DEFINE old == s.queue[Generic]
           Sync(c) == Task("SyncCollection", c)
           fresh == {k \in DOMAIN list : ~Contains(old, Sync(list[k])) /\ ~Same(s.current, Sync(list[k]))}
           timers(new) == IF Busy(s) \/ ~s.online THEN 0 ELSE Len(new)
           syncs(new) == [k \in DOMAIN new |-> Sync(new[k])]
<1>1. PICK new \in Sublist(list, fresh) :
           n = [s EXCEPT !.queue[Generic] = @ \o syncs(new), !.posted = @ + timers(new)]
  BY DEF ScheduledSyncs
<1>2. \A c \in Collection : /\ Sync(c) \in Tasks /\ Sync(c).type = "SyncCollection"
                            /\ Sync(c).arg = c
  BY TaskIsTask DEF TaskType
<1>3. s.queue \in [Queue -> Seq(Tasks)] /\ old \in Seq(Tasks) /\ Generic \in Queue
  BY QueuePlaces DEF Sound, Core, Schedulers
<1>4. /\ new \in Seq(Collection)
      /\ \E f \in [DOMAIN new -> fresh] :
             /\ \A i \in DOMAIN new : new[i] = list[f[i]]
             /\ \A i, j \in DOMAIN new : i < j => f[i] < f[j]
  <2> HIDE DEF Sync, old
  <2> QED BY <1>1, SublistType
<1>5. PICK f \in [DOMAIN new -> fresh] :
             /\ \A i \in DOMAIN new : new[i] = list[f[i]]
             /\ \A i, j \in DOMAIN new : i < j => f[i] < f[j]
  BY <1>4
<1>6. \A k \in DOMAIN new : /\ new[k] \in Collection
                            /\ ~Contains(old, Sync(new[k])) /\ ~Same(s.current, Sync(new[k]))
  <2> HIDE DEF Sync, old
  <2> QED BY <1>4, <1>5
<1>7. \A i, j \in DOMAIN new : i < j => new[i] # new[j]
  <2> SUFFICES ASSUME NEW i \in DOMAIN new, NEW j \in DOMAIN new, i < j PROVE new[i] # new[j]
    OBVIOUS
  <2>1. f[i] \in DOMAIN list /\ f[j] \in DOMAIN list /\ f[i] < f[j]
    BY <1>5
  <2> QED BY <2>1, <1>5
<1> HIDE DEF fresh
<1> DEFINE added == syncs(new)
<1>8. /\ added \in Seq(Tasks) /\ Len(added) = Len(new) /\ DOMAIN added = DOMAIN new
      /\ \A k \in DOMAIN new : added[k] = Sync(new[k])
  <2> HIDE DEF Sync
  <2> QED BY <1>2, <1>4, <1>6
<1>9. timers(new) \in Nat /\ Len(new) \in Nat
  BY <1>4
<1>10. /\ n \in Schedulers /\ n.current = s.current /\ n.origin = s.origin
       /\ n.online = s.online /\ n.queue = [s.queue EXCEPT ![Generic] = old \o added]
       /\ n.posted = s.posted + timers(new) /\ s.posted \in Nat
  <2> DEFINE a == [s EXCEPT !.queue[Generic] = @ \o added]
  <2>1. n = [a EXCEPT !.posted = @ + timers(new)]
    BY <1>1
  <2> HIDE DEF added
  <2>2. old \o added \in Seq(Tasks)
    BY <1>3, <1>8
  <2>3. /\ a \in Schedulers /\ a.current = s.current /\ a.origin = s.origin /\ a.online = s.online
        /\ a.queue = [s.queue EXCEPT ![Generic] = old \o added] /\ a.posted = s.posted
    BY <2>2 DEF Sound, Core, Schedulers
  <2>4. \A x \in Schedulers, e \in Nat :
           /\ [x EXCEPT !.posted = @ + e] \in Schedulers
           /\ [x EXCEPT !.posted = @ + e].current = x.current
           /\ [x EXCEPT !.posted = @ + e].origin = x.origin
           /\ [x EXCEPT !.posted = @ + e].online = x.online
           /\ [x EXCEPT !.posted = @ + e].queue = x.queue
           /\ [x EXCEPT !.posted = @ + e].posted = x.posted + e /\ x.posted \in Nat
    <3> SUFFICES ASSUME NEW x \in Schedulers, NEW e \in Nat, NEW y, y = [x EXCEPT !.posted = @ + e]
                 PROVE  /\ y \in Schedulers /\ y.current = x.current /\ y.origin = x.origin
                        /\ y.online = x.online /\ y.queue = x.queue
                        /\ y.posted = x.posted + e /\ x.posted \in Nat
      OBVIOUS
    <3>1. x.posted \in Nat /\ x.posted + e \in Nat
      BY DEF Schedulers
    <3>2. y = [x EXCEPT !.posted = x.posted + e]
      OBVIOUS
    <3> DEFINE v == x.posted + e
    <3> HIDE DEF v
    <3>3. y = [x EXCEPT !.posted = v] /\ v \in Nat
      BY <3>1, <3>2 DEF v
    <3>4. y \in Schedulers /\ y.posted = v
      BY <3>3 DEF Schedulers
    <3>5. y.current = x.current /\ y.origin = x.origin /\ y.online = x.online /\ y.queue = x.queue
      BY <3>3 DEF Schedulers
    <3> QED BY <3>1, <3>4, <3>5 DEF v
  <2> HIDE DEF a, old, timers
  <2> QED BY <1>9, <2>1, <2>3, <2>4
<1> HIDE DEF added, Sync
<1>11. /\ n.queue[Generic] = old \o added
       /\ \A p \in Queue : p # Generic => n.queue[p] = s.queue[p]
  BY <1>3, <1>10
<1> DEFINE L == Len(old)
<1>12. /\ \A k \in DOMAIN (old \o added) :
             /\ k \in 1 .. L => (old \o added)[k] = old[k]
             /\ k \notin 1 .. L => /\ k - L \in DOMAIN new
                                   /\ (old \o added)[k] = Sync(new[k - L])
       /\ L \in Nat /\ DOMAIN (old \o added) = 1 .. L + Len(new) /\ DOMAIN old = 1 .. L
  <2>1. \A a, b \in Seq(Tasks) :
           /\ Len(a) \in Nat /\ DOMAIN a = 1 .. Len(a) /\ DOMAIN b = 1 .. Len(b)
           /\ DOMAIN (a \o b) = 1 .. Len(a) + Len(b)
           /\ \A k \in DOMAIN (a \o b) :
                 /\ k \in 1 .. Len(a) => (a \o b)[k] = a[k]
                 /\ k \notin 1 .. Len(a) => /\ k - Len(a) \in DOMAIN b
                                            /\ (a \o b)[k] = b[k - Len(a)]
    OBVIOUS
  <2> HIDE DEF old
  <2>2. /\ Len(old) \in Nat /\ DOMAIN old = 1 .. Len(old)
        /\ DOMAIN (old \o added) = 1 .. Len(old) + Len(added)
        /\ \A k \in DOMAIN (old \o added) :
              /\ k \in 1 .. Len(old) => (old \o added)[k] = old[k]
              /\ k \notin 1 .. Len(old) => /\ k - Len(old) \in DOMAIN added
                                           /\ (old \o added)[k] = added[k - Len(old)]
    <3>1. old \in Seq(Tasks) /\ added \in Seq(Tasks)
      BY <1>3, <1>8
    <3> QED BY <2>1, <3>1
  <2>3. Len(added) = Len(new) /\ \A k \in DOMAIN added : k \in DOMAIN new /\ added[k] = Sync(new[k])
    BY <1>8
  <2> QED BY <2>2, <2>3
<1> HIDE DEF old, L, timers
<1>13. Generic = QueueForTaskType("SyncCollection") /\ "SyncCollection" \in Compressed
  BY DEF QueueForTaskType, Compressed, TaskType
<1>14. Placed(n)
  <2>1. \A p \in Queue : \A k \in DOMAIN n.queue[p] :
           /\ n.queue[p][k].type \in TaskType
           /\ n.queue[p][k].type # "Custom" => p = QueueForTaskType(n.queue[p][k].type)
    <3> SUFFICES ASSUME NEW p \in Queue, NEW k \in DOMAIN n.queue[p]
                 PROVE  /\ n.queue[p][k].type \in TaskType
                        /\ n.queue[p][k].type # "Custom" => p = QueueForTaskType(n.queue[p][k].type)
      OBVIOUS
    <3>1. CASE p # Generic
      BY <3>1, <1>11 DEF Sound, Core, Placed
    <3>2. CASE p = Generic /\ k \in 1 .. L
      <4>1. k \in DOMAIN s.queue[p] /\ n.queue[p][k] = s.queue[p][k]
        BY <3>2, <1>11, <1>12 DEF old
      <4> QED BY <4>1 DEF Sound, Core, Placed
    <3>3. CASE p = Generic /\ k \notin 1 .. L
      <4>1. n.queue[p][k] = Sync(new[k - L]) /\ k - L \in DOMAIN new
        BY <3>3, <1>11, <1>12
      <4> QED BY <4>1, <3>3, <1>2, <1>6, <1>13 DEF TaskType
    <3> QED BY <3>1, <3>2, <3>3
  <2> QED BY <2>1, <1>10 DEF Sound, Core, Placed, Busy
<1>15. Once(n)
  <2> SUFFICES ASSUME NEW p \in Queue, NEW k \in DOMAIN n.queue[p],
                      n.queue[p][k].type \in Compressed
               PROVE  /\ p = QueueForTaskType(n.queue[p][k].type)
                      /\ ~Same(n.current, n.queue[p][k])
                      /\ \A j \in 1 .. k - 1 : ~Same(n.queue[p][j], n.queue[p][k])
    BY DEF Once
  <2>1. CASE p # Generic
    BY <2>1, <1>10, <1>11 DEF Sound, Core, Once
  <2>2. CASE p = Generic /\ k \in 1 .. L
    <3>1. k \in DOMAIN s.queue[p] /\ n.queue[p][k] = s.queue[p][k]
      BY <2>2, <1>11, <1>12 DEF old
    <3>2. \A j \in 1 .. k - 1 : n.queue[p][j] = s.queue[p][j]
      <4> SUFFICES ASSUME NEW j \in 1 .. k - 1 PROVE n.queue[p][j] = s.queue[p][j]
        OBVIOUS
      <4>1. j \in 1 .. L /\ j \in DOMAIN (old \o added)
        BY <2>2, <1>12, <1>9
      <4> QED BY <4>1, <2>2, <1>11, <1>12 DEF old
    <3> QED BY <3>1, <3>2, <1>10 DEF Sound, Core, Once
  <2>3. CASE p = Generic /\ k \notin 1 .. L
    <3> DEFINE m == k - L
               t == Sync(new[m])
    <3>1. /\ n.queue[p][k] = t /\ m \in DOMAIN new /\ k \in DOMAIN (old \o added)
          /\ t.type = "SyncCollection" /\ t.arg = new[m] /\ new[m] \in Collection
      BY <2>3, <1>11, <1>12, <1>2, <1>6
    <3>2. ~Same(s.current, t) /\ ~Contains(old, t)
      BY <3>1, <1>6
    <3> HIDE DEF t
    <3>3. \A j \in 1 .. k - 1 : ~Same(n.queue[p][j], t)
      <4> SUFFICES ASSUME NEW j \in 1 .. k - 1, Same(n.queue[p][j], t) PROVE FALSE
        OBVIOUS
      <4>1. j \in DOMAIN (old \o added) /\ n.queue[p][j] = (old \o added)[j]
        BY <2>3, <3>1, <1>9, <1>11, <1>12
      <4>2. CASE j \in 1 .. L
        BY <4>1, <4>2, <3>2, <1>12 DEF Contains
      <4>3. CASE j \notin 1 .. L
        <5>1. j - L \in DOMAIN new /\ n.queue[p][j] = Sync(new[j - L])
          BY <4>1, <4>3, <1>12
        <5>2. j - L < m
          BY <3>1, <1>12
        <5>3. new[j - L] # new[m]
          BY <5>1, <5>2, <3>1, <1>7
        <5>4. Sync(new[j - L]).arg = new[j - L]
          BY <5>1, <1>2, <1>6
        <5> QED BY <5>1, <5>3, <5>4, <3>1 DEF Same
      <4> QED BY <4>2, <4>3
    <3> QED BY <2>3, <3>1, <3>2, <3>3, <1>10, <1>13
  <2> QED BY <2>1, <2>2, <2>3
<1>18. Few(n)
  <2>1. n.queue[ChangeReplays] = s.queue[ChangeReplays]
    BY <1>11, QueuePlaces
  <2> QED BY <2>1, <1>10 DEF Sound, Core, Few
<1>16. Awake(n)
  <2> SUFFICES ASSUME n.online, ~Busy(n), ~IsEmpty(n) PROVE n.posted > 0
    BY DEF Awake
  <2>1. s.online /\ ~Busy(s)
    BY <1>10 DEF Busy
  <2>2. CASE ~IsEmpty(s)
    BY <2>1, <2>2, <1>9, <1>10 DEF Sound, Awake
  <2>3. CASE IsEmpty(s)
    <3>1. n.queue[Generic] # <<>>
      BY <2>3, <1>11 DEF IsEmpty
    <3>2. old = <<>>
      BY <2>3, <1>3 DEF IsEmpty, old
    <3>3. Len(new) # 0
      <4> SUFFICES ASSUME Len(new) = 0 PROVE FALSE
        OBVIOUS
      <4>1. old \o added = <<>>
        BY <3>2, <1>8
      <4> QED BY <3>1, <4>1, <1>11
    <3>4. timers(new) = Len(new)
      BY <2>1 DEF timers
    <3> QED BY <3>3, <3>4, <1>9, <1>10
  <2> QED BY <2>2, <2>3
<1>17. Replays(s) => Replays(n)
  <2>1. n.queue[ChangeReplays] = s.queue[ChangeReplays]
    BY <1>11, QueuePlaces DEF ChangeReplays, Generic
  <2> QED BY <2>1, <1>10 DEF Replays
<1> QED BY <1>10, <1>14, <1>15, <1>16, <1>17, <1>18 DEF Grown, Sound, Core, Same

\* every collection once, or one of them
LEMMA ListingsAreLists ==
    \A list \in Listings \cup {<<c>> : c \in Collection} :
        /\ list \in Seq(Collection)
        /\ \A i, j \in DOMAIN list : i # j => list[i] # list[j]
<1>1. Cardinality(Collection) \in Nat
  BY ResourceAssumption, FS_CardinalityType
<1>2. \A list \in Listings : list \in Seq(Collection) /\ DOMAIN list = 1 .. Cardinality(Collection)
  BY <1>1 DEF Listings
<1>3. \A list \in Listings : \A i, j \in DOMAIN list : i # j => list[i] # list[j]
  BY <1>2 DEF Listings
<1>4. \A c \in Collection : /\ <<c>> \in Seq(Collection)
                            /\ \A i, j \in DOMAIN <<c>> : i # j => <<c>>[i] # <<c>>[j]
  OBVIOUS
<1> QED BY <1>2, <1>3, <1>4

----------------------------------------------------------------------------
(* What an action makes of the invariant                                   *)

Replay == Task("ChangeReplay", None)

\* A current task is one of the eleven.
LEMMA BusyTypes ==
    ASSUME IInv
    PROVE  /\ sched \in Schedulers /\ Core(sched)
           /\ Busy(sched) => sched.current.type \in TaskType
           /\ sched.current.type \in TaskType \cup {"Invalid"}
           /\ Replays(sched) /\ sched.current.type # "ChangeReplay"
                  => Contains(sched.queue[ChangeReplays], Replay)
BY DEF IInv, Sound, Core, Schedulers, Tasks, Busy, Replays, Replay

\* One more job that goes on without its task.
LEMMA MoreType ==
    ASSUME NEW jobs \in [Loose -> Nat], NEW k
    PROVE  More(jobs, k) \in [Loose -> Nat]
BY DEF More

LEMMA OrphanedType == ASSUME IInv PROVE Orphaned \in [Loose -> Nat]
BY MoreType DEF IInv, BooksOK, Orphaned

\* A bound that is used up a little more.
LEMMA AskType ==
    ASSUME BooksOK, NEW kind \in {"asked", "changed", "offline", "deferred", "aborted"},
           NEW max, Ask(kind, max)
    PROVE  used' \in [{"asked", "changed", "offline", "deferred", "aborted"} -> Nat]
BY DEF BooksOK, Ask

\* A task is scheduled.
LEMMA GrownKeeps ==
    ASSUME IInv, Grown(sched, sched'), job' = job, WorkOK', BooksOK',
           changes' > 0 /\ mishaps' \subseteq Harmless =>
               Replays(sched') \/ (changes > 0 /\ mishaps \subseteq Harmless)
    PROVE  IInv'
<1>1. JobFits'
  BY DEF IInv, JobFits, Grown, Same, Busy
<1>2. ReplayScheduled'
  BY DEF IInv, ReplayScheduled, Grown
<1> QED BY <1>1, <1>2 DEF IInv, Grown

\* The current task ends.
LEMMA DoneKeeps ==
    ASSUME NEW s, Core(s), sched' = TaskDone(s), job' = "none", WorkOK', BooksOK',
           changes' > 0 /\ mishaps' \subseteq Harmless => Contains(s.queue[ChangeReplays], Replay)
    PROVE  IInv'
<1>1. /\ Sound(sched') /\ ~Busy(sched') /\ sched'.queue = s.queue
      /\ sched'.current.type = "Invalid"
  BY TaskDoneSound, NoTaskIsTask
<1>2. JobFits'
  BY <1>1 DEF JobFits, Busy
<1>3. ReplayScheduled'
  BY <1>1 DEF ReplayScheduled, Replays, Replay
<1> QED BY <1>1, <1>2, <1>3 DEF IInv

\* What an answer does to the books.
LEMMA GoesOnBooks ==
    ASSUME IInv, NEW k \in Loose, NEW stray \in BOOLEAN, NEW next \in Job \cup {"none"},
           Answers(k, stray), GoesOn(k, stray, next)
    PROVE  /\ BooksOK'
           /\ ~stray => job = k /\ job' = next /\ mishaps' = mishaps
           /\ stray => job' = IF Busy(sched) /\ ~Busy(sched') THEN "none" ELSE job
           /\ stray /\ Busy(sched) => "stray" \in mishaps'
           /\ mishaps \subseteq mishaps'
<1>1. BooksOK
  BY DEF IInv
<1>2. CASE stray
  <2> DEFINE rest == [late EXCEPT ![k] = @ - 1]
             ended == Busy(sched) /\ ~Busy(sched')
  <2>1. rest \in [Loose -> Nat]
    BY <1>1, <1>2 DEF BooksOK, Answers
  <2>2. /\ job' = IF ended THEN "none" ELSE job
        /\ late' = IF ended /\ job \in Late THEN More(More(rest, next), job) ELSE More(rest, next)
        /\ mishaps' = IF Busy(sched) THEN mishaps \cup {"stray"} ELSE mishaps
        /\ used' = used
    BY <1>2 DEF GoesOn
  <2> HIDE DEF rest
  <2>3. late' \in [Loose -> Nat]
    BY <2>1, <2>2, MoreType
  <2> QED BY <1>1, <1>2, <2>2, <2>3 DEF BooksOK
<1>3. CASE ~stray
  BY <1>1, <1>3 DEF GoesOn, Answers, BooksOK
<1> QED BY <1>2, <1>3

\* An answer that ends the task, in whose place no change is left behind.
LEMMA AnswerEnds ==
    ASSUME IInv, NEW k \in Loose, NEW stray \in BOOLEAN,
           Answers(k, stray), GoesOn(k, stray, "none"), WorkOK',
           NEW s, Core(s), sched' = TaskDone(s),
           changes' > 0 /\ mishaps' \subseteq Harmless => Contains(s.queue[ChangeReplays], Replay)
    PROVE  IInv'
<1>1. BooksOK' /\ job' = "none"
  BY GoesOnBooks, TaskDoneSound DEF IInv, JobFits
<1> QED BY <1>1, DoneKeeps

\* ... of a task other than a change replay
LEMMA AnswerEndsPlain ==
    ASSUME IInv, NEW k \in Loose \ {"replay"}, NEW stray \in BOOLEAN,
           Answers(k, stray), GoesOn(k, stray, "none"), WorkOK',
           sched' = TaskDone(sched), changes' = changes
    PROVE  IInv'
<1>1. Core(sched)
  BY BusyTypes
<1>2. ASSUME changes' > 0, mishaps' \subseteq Harmless
      PROVE  Contains(sched.queue[ChangeReplays], Replay)
  <2>1. mishaps \subseteq mishaps' /\ (~stray => job = k) /\ (stray => ~Busy(sched))
    BY <1>2, GoesOnBooks
  <2>2. sched.current.type # "ChangeReplay"
    BY <2>1 DEF IInv, JobFits, Busy
  <2>3. Replays(sched)
    BY <1>2, <2>1 DEF IInv, ReplayScheduled
  <2> QED BY <2>2, <2>3, BusyTypes
<1> QED BY <1>1, <1>2, AnswerEnds

\* changeProcessed()
LEMMA ChangeProcessedDone ==
    ASSUME IInv, ChangeProcessed
    PROVE  /\ changes' \in Nat
           /\ \E s : /\ Core(s) /\ sched' = TaskDone(s)
                     /\ changes' > 0 => Contains(s.queue[ChangeReplays], Replay)
<1>1. changes' \in Nat
  BY DEF ChangeProcessed, IInv, WorkOK
<1>2. Sound(sched) /\ Core(sched)
  BY DEF IInv, Sound
<1>3. CASE changes' = 0
  BY <1>1, <1>2, <1>3 DEF ChangeProcessed
<1>4. CASE changes' # 0
  <2>1. sched' = TaskDone(ScheduledReplay(sched))
    BY <1>4 DEF ChangeProcessed
  <2>2. /\ Core(ScheduledReplay(sched))
        /\ Contains(ScheduledReplay(sched).queue[ChangeReplays], Replay)
    BY <1>2, ScheduledReplaySound DEF Grown, Sound, Replay
  <2> QED BY <1>1, <2>1, <2>2
<1> QED BY <1>3, <1>4

\* sendDBusReplies()
LEMMA ReplyType ==
    ASSUME WorkOK, NEW answer \in {"ok", "error"}, Reply(answer)
    PROVE  status' \in [Request -> {"new", "waiting", "ok", "error"}]
BY DEF WorkOK, Reply

\* The three ways cancelTask() goes.
LEMMA CancelledWays ==
    ASSUME IInv, Cancelled
    PROVE  /\ changes' \in Nat
           /\ syncer' \in [of : Collection \cup {None}, delivered : BOOLEAN]
           /\ tree' \in {"none", "open", "delivered"}
           /\ status' \in [Request -> {"new", "waiting", "ok", "error"}]
           /\ \/ sched' = sched /\ changes' = changes
                 /\ sched.current.type \in {"SyncAll", "SyncCollectionTree", "SyncCollection"}
              \/ sched' = TaskDone(sched) /\ changes' = changes
                 /\ sched.current.type # "ChangeReplay"
              \/ ChangeProcessed /\ sched.current.type = "ChangeReplay"
<1> DEFINE type == sched.current.type
<1>0. WorkOK
  BY DEF IInv
<1>1. CASE type = "FetchItem"
  <2>1. Reply("error") /\ sched' = TaskDone(sched) /\ UNCHANGED changes /\ UNCHANGED <<syncer, tree>>
    BY <1>1 DEF Cancelled, FetchCancelled
  <2> QED BY <1>0, <1>1, <2>1, ReplyType DEF WorkOK
<1>2. CASE type = "ChangeReplay"
  <2>1. ChangeProcessed /\ UNCHANGED <<status, syncer, tree>>
    BY <1>2 DEF Cancelled
  <2> QED BY <1>0, <1>2, <2>1, ChangeProcessedDone DEF WorkOK
<1>3. CASE type \in {"SyncAll", "SyncCollectionTree"} /\ tree # "none"
  <2>1. tree' = "delivered" /\ UNCHANGED <<sched, status, changes, syncer>>
    BY <1>3 DEF Cancelled
  <2> QED BY <1>0, <1>3, <2>1 DEF WorkOK
<1>4. CASE type = "SyncCollection" /\ syncer # NoSyncer
  <2>1. syncer' = [syncer EXCEPT !.delivered = TRUE] /\ UNCHANGED <<sched, status, changes, tree>>
    BY <1>4 DEF Cancelled
  <2> QED BY <1>0, <1>4, <2>1 DEF WorkOK
<1>5. CASE /\ type \notin {"FetchItem", "ChangeReplay"}
           /\ ~(type \in {"SyncAll", "SyncCollectionTree"} /\ tree # "none")
           /\ ~(type = "SyncCollection" /\ syncer # NoSyncer)
  <2>1. sched' = TaskDone(sched) /\ UNCHANGED <<status, changes, syncer, tree>>
    BY <1>5 DEF Cancelled
  <2> QED BY <1>0, <1>5, <2>1 DEF WorkOK
<1> QED BY <1>1, <1>2, <1>3, <1>4, <1>5

\* A task is asked for.
LEMMA AskedKeeps ==
    ASSUME IInv, NEW s, Asked(s), Grown(sched, s)
    PROVE  IInv'
<1>1. sched' = s /\ UNCHANGED <<job, late, workVars, status, mishaps>>
  BY DEF Asked
<1>2. WorkOK' /\ BooksOK'
  <2>1. used' \in [{"asked", "changed", "offline", "deferred", "aborted"} -> Nat]
    BY AskType DEF Asked, IInv
  <2> QED BY <1>1, <2>1 DEF IInv, WorkOK, BooksOK, workVars
<1> QED BY <1>1, <1>2, GrownKeeps DEF workVars

\* The requests.
LEMMA RequestsKeep ==
    ASSUME IInv, Requests
    PROVE  IInv'
<1>1. Sound(sched) /\ Core(sched) /\ sched \in Schedulers /\ WorkOK /\ BooksOK
  BY BusyTypes DEF IInv
<1>2. \A type \in TaskType \ {"Custom", "SyncCollection", "ChangeReplay"},
         arg \in Item \cup Collection \cup {None} :
          Grown(sched, Scheduled(sched, Task(type, arg)))
  BY <1>1, TaskIsTask, ScheduledSound
<1>3. CASE Synchronize
  BY <1>2, <1>3, AskedKeeps DEF Synchronize, TaskType
<1>4. CASE SynchronizeCollectionTree
  BY <1>2, <1>4, AskedKeeps DEF SynchronizeCollectionTree, TaskType
<1>5. CASE SynchronizeCollection
  <2>1. PICK list \in Listings \cup {<<c>> : c \in Collection} :
            \E s \in ScheduledSyncs(sched, list) : Asked(s)
    BY <1>5 DEF SynchronizeCollection
  <2>2. PICK s \in ScheduledSyncs(sched, list) : Asked(s)
    BY <2>1
  <2>3. Grown(sched, s)
    BY <1>1, <2>1, ListingsAreLists, ScheduledSyncsSound
  <2> QED BY <2>2, <2>3, AskedKeeps
<1>6. CASE ClearCache
  BY <1>2, <1>6, AskedKeeps DEF ClearCache, TaskType
<1>7. ASSUME NEW c \in Collection, SynchronizeCollectionAttributes(c) PROVE IInv'
  BY <1>2, <1>7, AskedKeeps DEF SynchronizeCollectionAttributes, TaskType
<1>8. ASSUME NEW c \in Collection, InvalidateCache(c) PROVE IInv'
  BY <1>2, <1>8, AskedKeeps DEF InvalidateCache, TaskType
<1>9. ASSUME NEW c \in Collection, CollectionRemoved(c) PROVE IInv'
  <2> DEFINE keep == {k \in DOMAIN sched.queue[Generic] :
                          ~Same(sched.queue[Generic][k], Task("SyncCollection", c))}
  <2>1. PICK rest \in Sublist(sched.queue[Generic], keep) :
            sched' = [sched EXCEPT !.queue[Generic] = rest]
    BY <1>9 DEF CollectionRemoved
  <2>2. keep \in SUBSET DOMAIN sched.queue[Generic]
    OBVIOUS
  <2> HIDE DEF keep
  <2>3. sched.queue \in [Queue -> Seq(Tasks)] /\ sched.queue[Generic] \in Seq(Tasks)
    BY <1>1, QueuePlaces DEF Schedulers
  <2>4. rest \in Seq(Tasks)
    BY <2>1, <2>2, <2>3, SublistType
  <2>5. /\ sched' \in Schedulers /\ sched'.queue = [sched.queue EXCEPT ![Generic] = rest]
        /\ sched'.current = sched.current /\ sched'.origin = sched.origin
        /\ sched'.online = sched.online /\ sched'.posted = sched.posted
    BY <1>1, <2>1, <2>4 DEF Schedulers
  <2>6. Core(sched') /\ (IsEmpty(sched) => IsEmpty(sched'))
    <3>1. Generic \in Queue
      BY QueuePlaces
    <3>2. \A n \in Schedulers :
             /\ n.queue = [sched.queue EXCEPT ![Generic] = rest]
             /\ n.current = sched.current /\ n.origin = sched.origin
             => Core(n) /\ (IsEmpty(sched) => IsEmpty(n))
      BY <1>1, <2>1, <2>2, <3>1, ErasedCore
    <3> QED BY <2>5, <3>2
  <2>7. Awake(sched')
    BY <1>1, <2>5, <2>6 DEF Sound, Awake, Busy
  <2>8. Replays(sched) => Replays(sched')
    <3>1. sched'.queue[ChangeReplays] = sched.queue[ChangeReplays]
      BY <2>3, <2>5, QueuePlaces DEF ChangeReplays, Generic
    <3> QED BY <3>1, <2>5 DEF Replays
  <2>9. Grown(sched, sched')
    BY <2>5, <2>6, <2>7, <2>8 DEF Grown, Sound, Same
  <2>10. /\ UNCHANGED <<job, late, workVars, status>> /\ mishaps' = mishaps \cup {"removed"}
         /\ used' \in [{"asked", "changed", "offline", "deferred", "aborted"} -> Nat]
    BY <1>1, <1>9, AskType DEF CollectionRemoved
  <2>11. WorkOK' /\ BooksOK'
    BY <1>1, <2>10 DEF WorkOK, BooksOK, workVars
  <2> QED BY <2>9, <2>10, <2>11, GrownKeeps DEF workVars
<1>10. ASSUME NEW q \in {Prepend, AfterChangeReplay, Generic}, ScheduleCustomTask(q) PROVE IInv'
  BY <1>1, <1>10, ScheduledCustomSound, AskedKeeps DEF ScheduleCustomTask
<1>11. CASE ChangeAdded
  <2>1. /\ changes' = changes + 1 /\ sched' = ScheduledReplay(sched)
        /\ UNCHANGED <<job, late, opened, syncer, tree, status, mishaps>>
        /\ used' \in [{"asked", "changed", "offline", "deferred", "aborted"} -> Nat]
    BY <1>1, <1>11, AskType DEF ChangeAdded
  <2>2. Grown(sched, sched') /\ Replays(sched')
    BY <1>1, <2>1, ScheduledReplaySound DEF Replays
  <2>3. WorkOK' /\ BooksOK'
    BY <1>1, <2>1 DEF WorkOK, BooksOK
  <2> QED BY <2>1, <2>2, <2>3, GrownKeeps
<1>12. ASSUME NEW r \in Request, NEW i \in Item, RequestItemDelivery(r, i) PROVE IInv'
  <2>1. UNCHANGED <<job, late, workVars, mishaps, used>>
    BY <1>12 DEF RequestItemDelivery
  <2>2. status' \in [Request -> {"new", "waiting", "ok", "error"}]
    BY <1>1, <1>12 DEF RequestItemDelivery, WorkOK
  <2>3. sched' = sched \/ sched' = ScheduledFetch(sched, i, r)
    BY <1>12 DEF RequestItemDelivery
  <2>4. Grown(sched, sched')
    BY <1>1, <2>3, ScheduledFetchSound DEF Grown, Same
  <2>5. WorkOK' /\ BooksOK'
    BY <1>1, <2>1, <2>2 DEF WorkOK, BooksOK, workVars
  <2> QED BY <2>1, <2>4, <2>5, GrownKeeps DEF workVars
<1> QED BY <1>3, <1>4, <1>5, <1>6, <1>7, <1>8, <1>9, <1>10, <1>11, <1>12 DEF Requests

\* executeNext()
LEMMA ExecuteNextKeeps ==
    ASSUME IInv, ExecuteNext
    PROVE  IInv'
<1> DEFINE s == [sched EXCEPT !.posted = @ - 1]
           t == Taken(s).current
<1>1. Sound(sched) /\ Core(sched) /\ sched \in Schedulers /\ WorkOK /\ BooksOK
  BY BusyTypes DEF IInv
<1>2. sched.posted > 0 /\ UNCHANGED <<late, changes, syncer, tree, status, mishaps, used>>
  BY DEF ExecuteNext
<1>3. /\ s \in Schedulers /\ s.queue = sched.queue /\ s.current = sched.current
      /\ s.origin = sched.origin /\ s.online = sched.online
  BY <1>1, <1>2 DEF Schedulers
<1>4. IF Busy(s) \/ IsEmpty(s)
      THEN sched' = s /\ UNCHANGED <<job, opened>>
      ELSE /\ opened' = IF t.type = "SyncCollection" THEN t.arg ELSE opened
           /\ CASE t.type = "FetchItem" -> sched' = Taken(s) /\ job' = "prepare"
                [] t.type \in {"SyncAll", "SyncCollectionTree"} -> sched' = Taken(s) /\ job' = "collections"
                [] t.type = "SyncCollection" ->
                       IF t.arg \in Hollow THEN sched' = TaskDone(Taken(s)) /\ UNCHANGED job
                       ELSE sched' = Taken(s) /\ job' = "items"
                [] t.type = "ChangeReplay" ->
                       IF changes = 0 THEN sched' = TaskDone(Taken(s)) /\ UNCHANGED job
                       ELSE sched' = Taken(s) /\ job' = "replay"
                [] t.type \in {"SyncAllDone", "SyncCollectionTreeDone"} ->
                       sched' = TaskDone(Taken(s)) /\ UNCHANGED job
                [] OTHER -> sched' = Taken(s) /\ job' = "plain"
  BY DEF ExecuteNext
<1> HIDE DEF s
<1>5. Core(s) /\ Busy(s) = Busy(sched) /\ IsEmpty(s) = IsEmpty(sched)
  BY <1>1, <1>3 DEF Core, Placed, Once, Few, Busy, IsEmpty
<1>6. CASE Busy(s) \/ IsEmpty(s)
  <2>1. sched' = s /\ job' = job /\ opened' = opened
    BY <1>4, <1>6
  <2>2. Awake(s)
    BY <1>6 DEF Awake
  <2>3. Grown(sched, sched')
    BY <1>3, <1>5, <2>1, <2>2 DEF Grown, Sound, Same, Replays
  <2>4. WorkOK' /\ BooksOK'
    BY <1>1, <1>2, <2>1 DEF WorkOK, BooksOK
  <2> QED BY <1>2, <2>1, <2>3, <2>4, GrownKeeps
<1>7. CASE ~Busy(s) /\ ~IsEmpty(s)
  <2> DEFINE n == Taken(s)
  <2>1. /\ Sound(n) /\ Core(n) /\ t.type \in TaskType /\ (Replays(s) => Replays(n))
        /\ t \in Tasks
    BY <1>5, <1>7, TakenSound DEF Sound, Core, Schedulers
  <2>2. job = "none"
    BY <1>5, <1>7 DEF IInv, JobFits
  <2>3. changes' > 0 /\ mishaps' \subseteq Harmless => Replays(n)
    BY <1>2, <1>3, <2>1 DEF IInv, ReplayScheduled, Replays
  <2> HIDE DEF n
  <2>4. CASE sched' = TaskDone(n) /\ job' = job /\ (t.type = "ChangeReplay" => changes = 0)
    <3>1. changes' > 0 /\ mishaps' \subseteq Harmless => Contains(n.queue[ChangeReplays], Replay)
      BY <1>2, <2>3, <2>4 DEF Replays, Replay, n
    <3>2. opened' \in Collection \cup {None}
      <4>1. t.type = "SyncCollection" => t.arg \in Hollow
        BY <1>4, <1>7, <2>2, <2>4
      <4> QED BY <4>1, <1>1, <1>4, <1>7, ResourceAssumption DEF WorkOK
    <3>3. WorkOK' /\ BooksOK'
      BY <1>1, <1>2, <2>2, <2>4, <3>2 DEF WorkOK, BooksOK
    <3> QED BY <2>1, <2>2, <2>4, <3>1, <3>3, DoneKeeps
  <2>5. CASE /\ sched' = n /\ job' \in Job
             /\ job' = "replay" <=> t.type = "ChangeReplay"
             /\ job' \in {"prepare", "retrieve", "store"} => t.type = "FetchItem"
             /\ job' \in {"collections", "tree", "list"} => t.type \in {"SyncAll", "SyncCollectionTree"}
             /\ job' \in {"items", "sync"} => t.type = "SyncCollection"
             /\ job' = "plain" =>
                    t.type \notin {"SyncAll", "SyncCollectionTree", "SyncCollection", "FetchItem"}
    <3>1. Busy(sched')
      BY <2>1, <2>5 DEF Busy, n, TaskType
    <3>2. JobFits'
      BY <2>5, <3>1 DEF JobFits, n, Job
    <3>3. opened' \in Collection \cup {None}
      <4>1. t.type = "SyncCollection" => t.arg \in Collection \cup {None}
        BY <2>1 DEF Tasks
      <4> QED BY <4>1, <1>1, <1>4, <1>7 DEF WorkOK
    <3>4. WorkOK' /\ BooksOK'
      BY <1>1, <1>2, <2>5, <3>3 DEF WorkOK, BooksOK
    <3>5. ReplayScheduled'
      BY <2>3, <2>5 DEF ReplayScheduled
    <3> QED BY <2>1, <2>5, <3>2, <3>4, <3>5 DEF IInv
  <2>6. t.type \in {"SyncAll", "SyncCollectionTree", "SyncCollection", "SyncCollectionAttributes",
             "FetchItem", "ChangeReplay", "DeleteResourceCollection",
             "InvalidateCacheForCollection", "SyncAllDone", "SyncCollectionTreeDone", "Custom"}
    BY <2>1 DEF TaskType
  <2> HIDE DEF t
  <2>7. \/ sched' = TaskDone(n) /\ job' = job /\ (t.type = "ChangeReplay" => changes = 0)
        \/ /\ sched' = n /\ job' \in Job
           /\ job' = "replay" <=> t.type = "ChangeReplay"
           /\ job' \in {"prepare", "retrieve", "store"} => t.type = "FetchItem"
           /\ job' \in {"collections", "tree", "list"} => t.type \in {"SyncAll", "SyncCollectionTree"}
           /\ job' \in {"items", "sync"} => t.type = "SyncCollection"
           /\ job' = "plain" =>
                  t.type \notin {"SyncAll", "SyncCollectionTree", "SyncCollection", "FetchItem"}
    BY <1>4, <1>7, <2>6 DEF n, Job
  <2> QED BY <2>4, <2>5, <2>7
<1> QED BY <1>6, <1>7

\* A job that is answered and goes on with another one of the same task.
LEMMA AnswerGoesOn ==
    ASSUME IInv, NEW k \in Loose, NEW stray \in BOOLEAN, NEW next \in Job \cup {"none"},
           Answers(k, stray), GoesOn(k, stray, next), WorkOK',
           sched' = sched, changes' = changes,
           ~stray => \/ k = "prepare" /\ next = "retrieve"
                     \/ k = "retrieve" /\ next = "store"
                     \/ k = "collections" /\ next = "tree"
                     \/ k = "items" /\ next = "sync"
    PROVE  IInv'
<1>1. /\ BooksOK' /\ mishaps \subseteq mishaps'
      /\ ~stray => job = k /\ job' = next
      /\ stray => job' = job
  BY GoesOnBooks DEF Busy
<1>2. JobFits'
  BY <1>1 DEF IInv, JobFits, Busy
<1>3. ReplayScheduled'
  BY <1>1 DEF IInv, ReplayScheduled, Replays
<1> QED BY <1>1, <1>2, <1>3 DEF IInv

\* A change replay that is put back, or waits in another place, is not lost.
LEMMA PutFrontReplays ==
    ASSUME NEW s, Core(s), Busy(s), NEW q \in Queue, NEW n,
           n.queue = [s.queue EXCEPT ![q] = <<s.current>> \o @],
           s.current.type = "ChangeReplay" => q = ChangeReplays,
           Replays(s)
    PROVE  Replays(n)
<1>1. s.queue \in [Queue -> Seq(Tasks)] /\ s.current \in Tasks /\ ChangeReplays \in Queue
  BY QueuePlaces DEF Core, Schedulers
<1>2. CASE s.current.type = "ChangeReplay"
  <2>1. 1 \in DOMAIN n.queue[ChangeReplays] /\ n.queue[ChangeReplays][1] = s.current
    BY <1>1, <1>2
  <2>2. Same(s.current, Task("ChangeReplay", None))
    BY <1>1, <1>2, TaskIsTask DEF Same, Tasks, TaskType
  <2> QED BY <2>1, <2>2 DEF Replays, Contains
<1>3. CASE s.current.type # "ChangeReplay"
  <2>1. PICK k \in DOMAIN s.queue[ChangeReplays] : Same(s.queue[ChangeReplays][k], Task("ChangeReplay", None))
    BY <1>3 DEF Replays, Contains
  <2>2. CASE q = ChangeReplays
    <3>1. /\ k + 1 \in DOMAIN n.queue[ChangeReplays]
          /\ n.queue[ChangeReplays][k + 1] = s.queue[ChangeReplays][k]
      BY <1>1, <2>1, <2>2
    <3> QED BY <2>1, <3>1 DEF Replays, Contains
  <2>3. CASE q # ChangeReplays
    BY <1>1, <2>1, <2>3 DEF Replays, Contains
  <2> QED BY <2>2, <2>3
<1> QED BY <1>2, <1>3

\* Jobs are answered.
LEMMA WorkKeeps ==
    ASSUME IInv, Work
    PROVE  IInv'
<1>1. /\ Sound(sched) /\ Core(sched) /\ sched \in Schedulers /\ WorkOK /\ BooksOK
      /\ JobFits /\ ReplayScheduled
  BY BusyTypes DEF IInv
<1>2. Loose = {"prepare", "retrieve", "store", "collections", "list", "items", "plain", "replay"}
  BY DEF Loose, Job
<1>3. ASSUME NEW stray \in BOOLEAN, PrepareItemRetrievalResult(stray) PROVE IInv'
  <2>1. Answers("prepare", stray) /\ opened' = opened
    BY <1>3 DEF PrepareItemRetrievalResult
  <2>2. CASE Cancelled /\ GoesOn("prepare", stray, "none")
    <3>1. WorkOK'
      BY <1>1, <2>1, <2>2, CancelledWays DEF WorkOK
    <3>2. CASE sched' = TaskDone(sched) /\ changes' = changes
      BY <1>2, <2>1, <2>2, <3>1, <3>2, AnswerEndsPlain
    <3>3. CASE ChangeProcessed
      BY <1>2, <2>1, <2>2, <3>1, <3>3, ChangeProcessedDone, AnswerEnds
    <3>4. CASE /\ sched' = sched /\ changes' = changes
               /\ sched.current.type \in {"SyncAll", "SyncCollectionTree", "SyncCollection"}
      <4>1. stray
        BY <1>1, <2>1, <3>4 DEF Answers, JobFits
      <4> QED BY <1>2, <2>1, <2>2, <3>1, <3>4, <4>1, AnswerGoesOn
    <3> QED BY <2>2, <3>2, <3>3, <3>4, CancelledWays
  <2>3. CASE UNCHANGED <<sched, status, changes, syncer, tree>> /\ GoesOn("prepare", stray, "retrieve")
    <3>1. WorkOK'
      BY <1>1, <2>1, <2>3 DEF WorkOK
    <3> QED BY <1>2, <2>1, <2>3, <3>1, AnswerGoesOn DEF Job
  <2> QED BY <1>3, <2>2, <2>3 DEF PrepareItemRetrievalResult
<1>4. ASSUME NEW stray \in BOOLEAN, ItemRetrieved(stray) PROVE IInv'
  <2>1. Answers("retrieve", stray) /\ UNCHANGED <<opened, syncer, tree>>
    BY <1>4 DEF ItemRetrieved
  <2>2. CASE FetchCancelled /\ GoesOn("retrieve", stray, "none")
    <3>1. Reply("error") /\ sched' = TaskDone(sched) /\ UNCHANGED changes
      BY <2>2 DEF FetchCancelled
    <3>2. WorkOK'
      BY <1>1, <2>1, <3>1, ReplyType DEF WorkOK
    <3> QED BY <1>2, <2>1, <2>2, <3>1, <3>2, AnswerEndsPlain
  <2>3. CASE UNCHANGED <<sched, status, changes>> /\ GoesOn("retrieve", stray, "store")
    <3>1. WorkOK'
      BY <1>1, <2>1, <2>3 DEF WorkOK
    <3> QED BY <1>2, <2>1, <2>3, <3>1, AnswerGoesOn DEF Job
  <2> QED BY <1>4, <2>2, <2>3 DEF ItemRetrieved
<1>5. ASSUME NEW stray \in BOOLEAN, DeliveryDone(stray) PROVE IInv'
  <2>1. /\ Answers("store", stray) /\ GoesOn("store", stray, "none")
        /\ sched' = TaskDone(sched) /\ UNCHANGED workVars
        /\ \E answer \in {"ok", "error"} : Reply(answer)
    BY <1>5 DEF DeliveryDone
  <2>2. WorkOK'
    BY <1>1, <2>1, ReplyType DEF WorkOK, workVars
  <2> QED BY <1>2, <2>1, <2>2, AnswerEndsPlain DEF workVars
<1>6. ASSUME NEW stray \in BOOLEAN, CollectionsRetrievalDone(stray) PROVE IInv'
  <2>1. Answers("collections", stray) /\ UNCHANGED <<changes, opened, syncer, status>>
    BY <1>6 DEF CollectionsRetrievalDone
  <2>2. CASE tree = "none"
    <3>1. sched' = TaskDone(sched) /\ UNCHANGED tree /\ GoesOn("collections", stray, "none")
      BY <1>6, <2>2 DEF CollectionsRetrievalDone
    <3>2. WorkOK'
      BY <1>1, <2>1, <3>1 DEF WorkOK
    <3> QED BY <1>2, <2>1, <3>1, <3>2, AnswerEndsPlain
  <2>3. CASE tree # "none"
    <3>1. tree' = "delivered" /\ UNCHANGED sched /\ GoesOn("collections", stray, "tree")
      BY <1>6, <2>3 DEF CollectionsRetrievalDone
    <3>2. WorkOK'
      BY <1>1, <2>1, <3>1 DEF WorkOK
    <3> QED BY <1>2, <2>1, <3>1, <3>2, AnswerGoesOn DEF Job
  <2> QED BY <2>2, <2>3
<1>7. ASSUME NEW stray \in BOOLEAN, LocalListDone(stray) PROVE IInv'
  <2>1. /\ Answers("list", stray) /\ GoesOn("list", stray, "none")
        /\ UNCHANGED workVars /\ UNCHANGED status
    BY <1>7 DEF LocalListDone
  <2>2. WorkOK' /\ changes' = changes
    BY <1>1, <2>1 DEF WorkOK, workVars
  <2>3. CASE sched' = TaskDone(sched)
    BY <1>2, <2>1, <2>2, <2>3, AnswerEndsPlain
  <2>4. CASE \E list \in Listings : \E s \in ScheduledSyncs(sched, list) :
                 sched' = TaskDone(Queued(s, Generic, Task("SyncAllDone", None)))
    <3>1. PICK list \in Listings : \E s \in ScheduledSyncs(sched, list) :
              sched' = TaskDone(Queued(s, Generic, Task("SyncAllDone", None)))
      BY <2>4
    <3>2. PICK s \in ScheduledSyncs(sched, list) :
              sched' = TaskDone(Queued(s, Generic, Task("SyncAllDone", None)))
      BY <3>1
    <3>3. Grown(sched, s)
      BY <1>1, <3>1, ListingsAreLists, ScheduledSyncsSound
    <3> DEFINE t == Task("SyncAllDone", None)
               n == Queued(s, Generic, t)
    <3>4. /\ t \in Tasks /\ t.type = "SyncAllDone" /\ t.type \in TaskType
          /\ t.type \notin Compressed /\ Generic = QueueForTaskType(t.type) /\ Generic \in Queue
      BY TaskIsTask, QueuePlaces DEF TaskType, Compressed, QueueForTaskType
    <3> HIDE DEF t
    <3>5. Grown(s, n) /\ Core(n)
      BY <3>3, <3>4, QueuedGrown, ReplayPlace DEF Grown, Sound
    <3> HIDE DEF n
    <3>6. ASSUME changes' > 0, mishaps' \subseteq Harmless
          PROVE  Contains(n.queue[ChangeReplays], Replay)
      <4>1. mishaps \subseteq mishaps' /\ (~stray => job = "list") /\ (stray => ~Busy(sched))
        BY <1>2, <3>6, <2>1, GoesOnBooks
      <4>2. sched.current.type # "ChangeReplay"
        BY <1>1, <4>1 DEF JobFits, Busy
      <4>3. Replays(n) /\ n.current.type = sched.current.type
        BY <1>1, <2>2, <3>3, <3>5, <3>6, <4>1 DEF ReplayScheduled, Grown, Same
      <4> QED BY <4>2, <4>3 DEF Replays, Replay
    <3>7. sched' = TaskDone(n)
      BY <3>2 DEF n, t
    <3> QED BY <1>2, <2>1, <2>2, <3>5, <3>6, <3>7, AnswerEnds
  <2> QED BY <1>7, <2>3, <2>4 DEF LocalListDone
<1>8. ASSUME NEW stray \in BOOLEAN, ItemsRetrievalDone(stray) PROVE IInv'
  <2>1. Answers("items", stray) /\ UNCHANGED <<changes, opened, tree, status>>
    BY <1>8 DEF ItemsRetrievalDone
  <2>2. CASE syncer = NoSyncer
    <3>1. sched' = TaskDone(sched) /\ UNCHANGED syncer /\ GoesOn("items", stray, "none")
      BY <1>8, <2>2 DEF ItemsRetrievalDone
    <3>2. WorkOK'
      BY <1>1, <2>1, <3>1 DEF WorkOK
    <3> QED BY <1>2, <2>1, <3>1, <3>2, AnswerEndsPlain
  <2>3. CASE syncer # NoSyncer
    <3>1. /\ syncer' = [syncer EXCEPT !.delivered = TRUE] /\ UNCHANGED sched
          /\ GoesOn("items", stray, "sync")
      BY <1>8, <2>3 DEF ItemsRetrievalDone
    <3>2. WorkOK'
      BY <1>1, <2>1, <3>1 DEF WorkOK
    <3> QED BY <1>2, <2>1, <3>1, <3>2, AnswerGoesOn DEF Job
  <2> QED BY <2>2, <2>3
<1>9. ASSUME NEW stray \in BOOLEAN, PlainDone(stray) PROVE IInv'
  <2>1. /\ Answers("plain", stray) /\ GoesOn("plain", stray, "none")
        /\ sched' = TaskDone(sched) /\ UNCHANGED workVars /\ UNCHANGED status
    BY <1>9 DEF PlainDone
  <2>2. WorkOK' /\ changes' = changes
    BY <1>1, <2>1 DEF WorkOK, workVars
  <2> QED BY <1>2, <2>1, <2>2, AnswerEndsPlain
<1>10. ASSUME NEW stray \in BOOLEAN, Replayed(stray) PROVE IInv'
  <2>1. /\ Answers("replay", stray) /\ GoesOn("replay", stray, "none")
        /\ ChangeProcessed /\ UNCHANGED <<opened, syncer, tree, status>>
    BY <1>10 DEF Replayed
  <2>2. WorkOK'
    BY <1>1, <2>1, ChangeProcessedDone DEF WorkOK
  <2> QED BY <1>2, <2>1, <2>2, ChangeProcessedDone, AnswerEnds
<1>11. CASE CollectionsRetrieved
  <2>1. /\ tree' = "open"
        /\ UNCHANGED <<sched, job, late, changes, opened, syncer, status, mishaps, used>>
    BY <1>11 DEF CollectionsRetrieved
  <2>2. WorkOK' /\ BooksOK'
    BY <1>1, <2>1 DEF WorkOK, BooksOK
  <2> QED BY <1>1, <2>1, <2>2, GrownKeeps DEF Grown, Same
<1>12. ASSUME NEW stray \in BOOLEAN, ItemsRetrieved(stray) PROVE IInv'
  <2>1. /\ syncer' = [of |-> opened, delivered |-> FALSE]
        /\ mishaps' = IF stray THEN mishaps \cup {"unasked"} ELSE mishaps
        /\ UNCHANGED <<sched, job, late, changes, opened, tree, status, used>>
    BY <1>12 DEF ItemsRetrieved
  <2>2. WorkOK' /\ BooksOK'
    BY <1>1, <2>1 DEF WorkOK, BooksOK
  <2> QED BY <1>1, <2>1, <2>2, GrownKeeps DEF Grown, Same
<1>13. CASE CollectionSyncDone
  <2> DEFINE stray == job # "tree"
             end(s) == sched' = TaskDone(s) /\ job' = "none" /\ late' = IF stray THEN Orphaned ELSE late
             more == Queued(sched, Generic, Task("SyncCollectionTreeDone", None))
  <2>1. /\ tree' = "none" /\ UNCHANGED <<changes, opened, syncer, status, used>>
        /\ mishaps' = IF stray /\ Busy(sched) THEN mishaps \cup {"stray"} ELSE mishaps
        /\ \/ end(sched)
           \/ /\ sched.current.type = "SyncAll" /\ UNCHANGED sched
              /\ job' = IF stray THEN job ELSE "list"
              /\ late' = IF stray THEN More(late, "list") ELSE late
           \/ sched.current.type = "SyncCollectionTree" /\ end(more)
    BY <1>13 DEF CollectionSyncDone
  <2>2. WorkOK'
    BY <1>1, <2>1 DEF WorkOK
  <2>3. BooksOK'
    <3>1. More(late, "list") \in [Loose -> Nat] /\ Orphaned \in [Loose -> Nat]
      BY <1>1, MoreType, OrphanedType DEF BooksOK
    <3>2. late' \in [Loose -> Nat] /\ job' \in Job \cup {"none"}
      BY <1>1, <2>1, <3>1 DEF BooksOK, Job
    <3> QED BY <1>1, <2>1, <3>2 DEF BooksOK
  <2>4. /\ mishaps \subseteq mishaps'
        /\ mishaps' \subseteq Harmless => sched.current.type # "ChangeReplay"
    BY <1>1, <2>1 DEF JobFits, Busy
  <2>5. ASSUME changes' > 0, mishaps' \subseteq Harmless
        PROVE  Replays(sched) /\ Contains(sched.queue[ChangeReplays], Replay)
    <3>1. Replays(sched)
      BY <1>1, <2>1, <2>4, <2>5 DEF ReplayScheduled
    <3> QED BY <2>4, <2>5, <3>1, BusyTypes
  <2>6. CASE end(sched)
    BY <1>1, <2>2, <2>3, <2>5, <2>6, DoneKeeps
  <2>7. CASE /\ sched.current.type = "SyncAll" /\ UNCHANGED sched
             /\ job' = IF stray THEN job ELSE "list"
    <3>1. JobFits'
      BY <1>1, <2>7 DEF JobFits, Busy
    <3>2. ReplayScheduled'
      BY <2>5, <2>7 DEF ReplayScheduled, Replays
    <3> QED BY <1>1, <2>2, <2>3, <2>7, <3>1, <3>2 DEF IInv
  <2>8. CASE end(more)
    <3> DEFINE t == Task("SyncCollectionTreeDone", None)
    <3>1. /\ t \in Tasks /\ t.type = "SyncCollectionTreeDone" /\ t.type \in TaskType
          /\ t.type \notin Compressed /\ Generic = QueueForTaskType(t.type) /\ Generic \in Queue
      BY TaskIsTask, QueuePlaces DEF TaskType, Compressed, QueueForTaskType
    <3> HIDE DEF t
    <3>2. Grown(sched, Queued(sched, Generic, t))
      BY <1>1, <3>1, QueuedGrown, ReplayPlace
    <3> DEFINE n == Queued(sched, Generic, t)
    <3> HIDE DEF n
    <3>3. Core(n) /\ Grown(sched, n)
      BY <3>2 DEF n, Grown, Sound
    <3>4. changes' > 0 /\ mishaps' \subseteq Harmless => Contains(n.queue[ChangeReplays], Replay)
      BY <2>4, <2>5, <3>3 DEF Grown, Same, Replays, Replay
    <3>5. sched' = TaskDone(n) /\ job' = "none"
      BY <2>8 DEF n, t
    <3> QED BY <2>2, <2>3, <3>3, <3>4, <3>5, DoneKeeps
  <2> QED BY <2>1, <2>6, <2>7, <2>8
<1>14. CASE ItemSyncDone
  <2>1. /\ syncer' = NoSyncer /\ sched' = TaskDone(sched) /\ job' = "none"
        /\ late' = IF job = "sync" THEN late ELSE Orphaned
        /\ mishaps' = IF job # "sync" /\ Busy(sched) THEN mishaps \cup {"stray"} ELSE mishaps
        /\ UNCHANGED <<changes, opened, tree, status, used>>
    BY <1>14 DEF ItemSyncDone
  <2>2. WorkOK'
    BY <1>1, <2>1 DEF WorkOK, NoSyncer
  <2>3. BooksOK'
    BY <1>1, <2>1, OrphanedType DEF BooksOK
  <2>4. changes' > 0 /\ mishaps' \subseteq Harmless => Contains(sched.queue[ChangeReplays], Replay)
    <3> SUFFICES ASSUME changes' > 0, mishaps' \subseteq Harmless
                 PROVE  Contains(sched.queue[ChangeReplays], Replay)
      OBVIOUS
    <3>1. mishaps \subseteq Harmless /\ sched.current.type # "ChangeReplay"
      BY <1>1, <2>1 DEF JobFits, Busy
    <3> QED BY <1>1, <2>1, <3>1, BusyTypes DEF ReplayScheduled
  <2> QED BY <1>1, <2>1, <2>2, <2>3, <2>4, DoneKeeps
<1>15. CASE CancelTask
  <2>1. /\ job \in Own /\ Cancelled /\ UNCHANGED <<late, opened, mishaps, used>>
        /\ job' = IF ~Busy(sched') THEN "none" ELSE IF job = "items" THEN "sync" ELSE "tree"
    BY <1>15 DEF CancelTask
  <2>2. WorkOK'
    BY <1>1, <2>1, CancelledWays DEF WorkOK
  <2>3. job' \in {"none", "sync", "tree"}
    BY <2>1
  <2>4. BooksOK'
    BY <1>1, <2>1, <2>3 DEF BooksOK, Job
  <2>5. CASE sched' = TaskDone(sched) /\ changes' = changes /\ sched.current.type # "ChangeReplay"
    <3>1. changes' > 0 /\ mishaps' \subseteq Harmless => Contains(sched.queue[ChangeReplays], Replay)
      BY <1>1, <2>1, <2>5, BusyTypes DEF ReplayScheduled
    <3>2. job' = "none"
      BY <1>1, <2>1, <2>5, TaskDoneSound
    <3> QED BY <1>1, <2>2, <2>4, <2>5, <3>1, <3>2, DoneKeeps
  <2>6. CASE ChangeProcessed
    <3>1. PICK s : /\ Core(s) /\ sched' = TaskDone(s)
                   /\ changes' > 0 => Contains(s.queue[ChangeReplays], Replay)
      BY <2>6, ChangeProcessedDone
    <3>2. job' = "none"
      BY <2>1, <3>1, TaskDoneSound
    <3> QED BY <2>2, <2>4, <3>1, <3>2, DoneKeeps
  <2>7. CASE /\ sched' = sched /\ changes' = changes
             /\ sched.current.type \in {"SyncAll", "SyncCollectionTree", "SyncCollection"}
    <3>1. Busy(sched')
      BY <2>7 DEF Busy
    <3>2. JobFits'
      BY <1>1, <2>1, <2>7, <3>1 DEF JobFits, Own
    <3>3. ReplayScheduled'
      BY <1>1, <2>1, <2>7 DEF ReplayScheduled, Replays
    <3> QED BY <1>1, <2>2, <2>4, <2>7, <3>2, <3>3 DEF IInv
  <2> QED BY <2>1, <2>5, <2>6, <2>7, CancelledWays
<1>16. CASE DeferTask
  <2>1. /\ job \in Own /\ sched' = Deferred(sched) /\ job' = "none"
        /\ UNCHANGED <<late, workVars, status, mishaps>>
        /\ used' \in [{"asked", "changed", "offline", "deferred", "aborted"} -> Nat]
    BY <1>1, <1>16, AskType DEF DeferTask
  <2>2. WorkOK' /\ BooksOK'
    BY <1>1, <2>1 DEF WorkOK, BooksOK, workVars
  <2>3. Busy(sched)
    BY <1>1, <2>1 DEF JobFits, Own
  <2>4. /\ Sound(sched') /\ ~Busy(sched') /\ sched.origin \in Queue
        /\ sched'.queue = [sched.queue EXCEPT ![sched.origin] = <<sched.current>> \o @]
    BY <1>1, <2>1, <2>3, DeferredSound
  <2>5. JobFits'
    BY <2>1, <2>4 DEF JobFits, Busy
  <2>6. Replays(sched) => Replays(sched')
    <3>1. sched.current.type = "ChangeReplay" => sched.origin = ChangeReplays
      BY <1>1, <2>3 DEF Core, Placed, QueueForTaskType
    <3> QED BY <1>1, <2>3, <2>4, <3>1, PutFrontReplays
  <2>7. ReplayScheduled'
    BY <1>1, <2>1, <2>6 DEF ReplayScheduled, workVars
  <2> QED BY <2>2, <2>4, <2>5, <2>7 DEF IInv
<1> QED BY <1>3, <1>4, <1>5, <1>6, <1>7, <1>8, <1>9, <1>10, <1>11, <1>12, <1>13, <1>14, <1>15, <1>16
        DEF Work

\* A scheduler all of whose queues are emptied.
LEMMA EmptiedSound ==
    ASSUME NEW s, Core(s), NEW n \in Schedulers, n.queue = [q \in Queue |-> <<>>],
           \/ n.current = s.current /\ n.origin = s.origin
           \/ n.current = NoTask /\ n.origin = 0
    PROVE  Sound(n)
<1>1. \A q \in Queue : n.queue[q] = <<>> /\ DOMAIN n.queue[q] = {}
  OBVIOUS
<1>2. Placed(n)
  BY <1>1, NoTaskIsTask DEF Core, Placed, Busy
<1>3. Once(n) /\ Few(n) /\ IsEmpty(n)
  <2>1. Len(n.queue[ChangeReplays]) = 0 /\ DOMAIN n.queue[ChangeReplays] = {}
    BY <1>1, QueuePlaces
  <2> QED BY <1>1, <2>1, QueuePlaces DEF Core, Once, Few, IsEmpty
<1> QED BY <1>2, <1>3 DEF Sound, Core, Awake

\* doSetOnline( false )
LEMMA GoOfflineKeeps ==
    ASSUME IInv, GoOffline
    PROVE  IInv'
<1> DEFINE s == PutBack(sched)
           fetches == {k \in DOMAIN s.queue[ItemFetches] :
                          s.queue[ItemFetches][k].type = "FetchItem"}
           callers == UNION {s.queue[ItemFetches][k].msgs : k \in fetches}
           keep == DOMAIN s.queue[ItemFetches] \ fetches
<1>1. Core(sched) /\ WorkOK /\ BooksOK /\ ReplayScheduled
  BY BusyTypes DEF IInv
<1>2. PICK rest \in Sublist(s.queue[ItemFetches], keep) :
          sched' = [s EXCEPT !.online = FALSE, !.queue[ItemFetches] = rest]
  BY DEF GoOffline
<1>3. /\ status' = [r \in Request |-> IF r \in callers THEN "error" ELSE status[r]]
      /\ job' = "none" /\ late' = Orphaned /\ UNCHANGED workVars /\ UNCHANGED mishaps
      /\ used' \in [{"asked", "changed", "offline", "deferred", "aborted"} -> Nat]
  BY <1>1, AskType DEF GoOffline
<1>4. keep \in SUBSET DOMAIN s.queue[ItemFetches]
  OBVIOUS
<1> HIDE DEF keep, callers, fetches
<1>5. /\ Core(s) /\ ~Busy(s) /\ s \in Schedulers
      /\ Busy(sched) => /\ QueueForTaskType(sched.current.type) \in Queue
                        /\ s.queue = [sched.queue EXCEPT ![QueueForTaskType(sched.current.type)] =
                                          <<sched.current>> \o @]
  BY <1>1, PutBackSound DEF Core
<1>6. ~Busy(sched) => s = sched
  BY DEF PutBack
<1> HIDE DEF s
<1>7. Replays(sched) => Replays(s)
  <2>1. CASE Busy(sched)
    <3>1. sched.current.type = "ChangeReplay" => QueueForTaskType(sched.current.type) = ChangeReplays
      BY DEF QueueForTaskType
    <3> QED BY <1>1, <1>5, <2>1, <3>1, PutFrontReplays
  <2>2. CASE ~Busy(sched)
    BY <1>6, <2>2
  <2> QED BY <2>1, <2>2
<1>8. s.queue \in [Queue -> Seq(Tasks)] /\ s.queue[ItemFetches] \in Seq(Tasks) /\ ItemFetches \in Queue
  BY <1>5, QueuePlaces DEF Schedulers
<1>9. rest \in Seq(Tasks)
  BY <1>2, <1>4, <1>8, SublistType
<1>10. /\ sched' \in Schedulers /\ sched'.queue = [s.queue EXCEPT ![ItemFetches] = rest]
       /\ sched'.current = s.current /\ sched'.origin = s.origin /\ ~sched'.online
  <2> DEFINE a == [s EXCEPT !.online = FALSE]
  <2>1. /\ a \in Schedulers /\ a.queue = s.queue /\ a.current = s.current
        /\ a.origin = s.origin /\ ~a.online
    BY <1>5 DEF Schedulers
  <2>2. sched' = [a EXCEPT !.queue[ItemFetches] = rest]
    BY <1>2
  <2> HIDE DEF a
  <2> QED BY <1>9, <2>1, <2>2 DEF Schedulers
<1>11. Core(sched')
  <2>1. \A n \in Schedulers :
           /\ n.queue = [s.queue EXCEPT ![ItemFetches] = rest]
           /\ n.current = s.current /\ n.origin = s.origin
           => Core(n)
    <3> SUFFICES ASSUME NEW n \in Schedulers, n.queue = [s.queue EXCEPT ![ItemFetches] = rest],
                        n.current = s.current, n.origin = s.origin
                 PROVE  Core(n)
      OBVIOUS
    <3>1. keep \in SUBSET DOMAIN s.queue[ItemFetches] /\ ItemFetches \in Queue /\ Core(s)
      BY <1>4, <1>5, <1>8
    <3>2. rest \in Sublist(s.queue[ItemFetches], keep)
      BY <1>2
    <3> QED BY <3>1, <3>2, ErasedCore
  <2> QED BY <1>10, <2>1
<1>12. Sound(sched') /\ ~Busy(sched')
  BY <1>5, <1>10, <1>11 DEF Sound, Awake, Busy
<1>13. JobFits'
  BY <1>3, <1>12 DEF JobFits, Busy
<1>14. ReplayScheduled'
  <2>1. sched'.queue[ChangeReplays] = s.queue[ChangeReplays]
    BY <1>8, <1>10, QueuePlaces DEF ChangeReplays, ItemFetches
  <2>2. Replays(s) => Replays(sched')
    BY <1>10, <2>1 DEF Replays
  <2> QED BY <1>1, <1>3, <1>7, <2>2 DEF ReplayScheduled, workVars
<1>15. WorkOK' /\ BooksOK'
  BY <1>1, <1>3, OrphanedType DEF WorkOK, BooksOK, workVars
<1> QED BY <1>12, <1>13, <1>14, <1>15 DEF IInv

\* A resource that has just been started.
LEMMA InitKeeps ==
    ASSUME Init
    PROVE  IInv
<1>1. PICK online \in BOOLEAN :
          LET idle == [queue |-> [q \in Queue |-> <<>>], current |-> NoTask,
                       origin |-> 0, online |-> online, posted |-> 0]
          IN  sched = IF changes = 0 THEN idle ELSE ScheduledReplay(idle)
  BY DEF Init
<1> DEFINE idle == [queue |-> [q \in Queue |-> <<>>], current |-> NoTask,
                    origin |-> 0, online |-> online, posted |-> 0]
<1>2. sched = IF changes = 0 THEN idle ELSE ScheduledReplay(idle)
  BY <1>1
<1>3. /\ idle \in Schedulers /\ idle.queue = [q \in Queue |-> <<>>]
      /\ idle.current = NoTask /\ idle.origin = 0
  BY NoTaskIsTask DEF Schedulers
<1> HIDE DEF idle
<1>4. \A q \in Queue : idle.queue[q] = <<>> /\ DOMAIN idle.queue[q] = {}
  BY <1>3
<1>5. Sound(idle)
  <2>1. Placed(idle)
    BY <1>3, <1>4, NoTaskIsTask DEF Placed, Busy
  <2>2. Once(idle) /\ Few(idle) /\ IsEmpty(idle)
    <3>1. Len(idle.queue[ChangeReplays]) = 0 /\ DOMAIN idle.queue[ChangeReplays] = {}
      BY <1>4, QueuePlaces
    <3> QED BY <1>3, <1>4, <3>1, QueuePlaces DEF Once, Few, IsEmpty
  <2> QED BY <1>3, <2>1, <2>2 DEF Sound, Core, Awake
<1>6. /\ Sound(sched) /\ sched.current.type = "Invalid"
      /\ changes # 0 => Replays(sched)
  BY <1>2, <1>3, <1>5, ScheduledReplaySound, NoTaskIsTask DEF Grown, Sound, Same, Replays
<1>7. /\ changes \in Nat /\ job = "none" /\ late = [k \in Loose |-> 0]
      /\ opened = None /\ syncer = NoSyncer /\ tree = "none"
      /\ status = [r \in Request |-> "new"] /\ mishaps = {}
      /\ used = [k \in {"asked", "changed", "offline", "deferred", "aborted"} |->
                     IF k = "changed" THEN changes ELSE 0]
  BY ResourceAssumption DEF Init
<1>8. WorkOK /\ BooksOK
  BY <1>7 DEF WorkOK, BooksOK, NoSyncer
<1>9. JobFits
  BY <1>6, <1>7 DEF JobFits, Busy
<1> QED BY <1>6, <1>8, <1>9 DEF IInv, ReplayScheduled

\* One step.
LEMMA NextKeeps ==
    ASSUME IInv, [Next]_vars
    PROVE  IInv'
<1>1. Sound(sched) /\ Core(sched) /\ sched \in Schedulers /\ WorkOK /\ BooksOK
  BY BusyTypes DEF IInv
<1>0. [q \in Queue |-> <<>>] \in [Queue -> Seq(Tasks)]
  OBVIOUS
<1>2. CASE GoOnline
  <2> DEFINE a == [sched EXCEPT !.online = TRUE]
  <2>1. /\ sched' = ScheduleNext(a)
        /\ UNCHANGED <<job, late, workVars, status, mishaps, used>>
    BY <1>2 DEF GoOnline
  <2>2. /\ a \in Schedulers /\ a.queue = sched.queue /\ a.current = sched.current
        /\ a.origin = sched.origin
    BY <1>1 DEF Schedulers
  <2> HIDE DEF a
  <2>3. Core(a)
    BY <1>1, <2>2 DEF Core, Placed, Once, Few, Busy
  <2>4. /\ Sound(sched') /\ sched'.current = sched.current
        /\ Replays(sched) => Replays(sched')
    BY <2>1, <2>2, <2>3, ScheduleNextSound DEF Replays
  <2>5. WorkOK' /\ BooksOK' /\ JobFits' /\ ReplayScheduled'
    BY <1>1, <2>1, <2>4 DEF WorkOK, BooksOK, workVars, IInv, JobFits, ReplayScheduled, Busy
  <2> QED BY <2>4, <2>5 DEF IInv
<1>3. CASE CancelQueues
  <2>1. /\ sched' = [sched EXCEPT !.queue = [q \in Queue |-> <<>>]]
        /\ mishaps' = mishaps \cup {"cancelled"}
        /\ UNCHANGED <<job, late, workVars, status>>
        /\ used' \in [{"asked", "changed", "offline", "deferred", "aborted"} -> Nat]
    BY <1>1, <1>3, AskType DEF CancelQueues
  <2>2. /\ sched' \in Schedulers /\ sched'.queue = [q \in Queue |-> <<>>]
        /\ sched'.current = sched.current /\ sched'.origin = sched.origin
    BY <1>1, <2>1, <1>0 DEF Schedulers
  <2>3. Sound(sched')
    BY <1>1, <2>2, EmptiedSound
  <2>4. WorkOK' /\ BooksOK' /\ JobFits' /\ ReplayScheduled'
    BY <1>1, <2>1, <2>2 DEF WorkOK, BooksOK, workVars, IInv, JobFits, ReplayScheduled, Busy
  <2> QED BY <2>3, <2>4 DEF IInv
<1>4. CASE Clear
  <2> DEFINE a == [sched EXCEPT !.queue = [q \in Queue |-> <<>>]]
  <2>1. /\ sched' = [a EXCEPT !.current = NoTask, !.origin = 0]
        /\ job' = "none" /\ late' = Orphaned
        /\ mishaps' = mishaps \cup {"cancelled"}
        /\ UNCHANGED <<workVars, status>>
        /\ used' \in [{"asked", "changed", "offline", "deferred", "aborted"} -> Nat]
    BY <1>1, <1>4, AskType DEF Clear
  <2>2. a \in Schedulers /\ a.queue = [q \in Queue |-> <<>>]
    BY <1>0, <1>1 DEF Schedulers
  <2> HIDE DEF a
  <2>3. /\ sched' \in Schedulers /\ sched'.queue = [q \in Queue |-> <<>>]
        /\ sched'.current = NoTask /\ sched'.origin = 0
    BY <2>1, <2>2, IdleFields
  <2>4. Sound(sched')
    BY <1>1, <2>3, EmptiedSound
  <2>5. sched'.current.type = "Invalid"
    BY <2>3, NoTaskIsTask
  <2>6. JobFits' /\ ReplayScheduled'
    BY <2>1, <2>5 DEF JobFits, ReplayScheduled, Busy
  <2>7. WorkOK' /\ BooksOK'
    BY <1>1, <2>1, OrphanedType DEF WorkOK, BooksOK, workVars
  <2> QED BY <2>4, <2>6, <2>7 DEF IInv
<1>5. CASE UNCHANGED vars
  BY <1>5 DEF vars, workVars, IInv, Sound, Core, Placed, Once, Few, Awake, Busy, IsEmpty, JobFits,
              ReplayScheduled, Replays, WorkOK, BooksOK
<1> QED BY <1>2, <1>3, <1>4, <1>5, RequestsKeep, ExecuteNextKeeps, WorkKeeps, GoOfflineKeeps DEF Next

----------------------------------------------------------------------------
(* The callers                                                             *)

\* No caller waits for two tasks of a list.
Disjoint(list) == \A j, k \in DOMAIN list : j # k => list[j].msgs \cap list[k].msgs = {}

\* The callers a scheduler knows: only fetches have any, and these wait in
\* their queue or are the current task.
Callers(s) == Waiting(s.queue[ItemFetches]) \cup s.current.msgs

Apart(s) ==
    /\ Disjoint(s.queue[ItemFetches])
    /\ Waiting(s.queue[ItemFetches]) \cap s.current.msgs = {}

\* The callers known to the scheduler are those who wait, each known once.
CallersHeld ==
    /\ Apart(sched)
    /\ \A r \in Callers(sched) : status[r] = "waiting"
    /\ mishaps \subseteq Harmless =>
           \A r \in Request : status[r] = "waiting" => r \in Callers(sched)

\* A scheduler that goes on with the same callers.
SameCallers(s, n) == Callers(n) = Callers(s) /\ (Apart(s) => Apart(n))

\* ... because neither the fetches nor the callers of the current task change
Aside(s, n) == n.queue[ItemFetches] = s.queue[ItemFetches] /\ n.current.msgs = s.current.msgs

LEMMA AsideSame ==
    ASSUME NEW s, NEW n, Aside(s, n)
    PROVE  SameCallers(s, n)
BY DEF Aside, SameCallers, Callers, Apart

\* A task at the front of a list.
LEMMA WaitingFront ==
    ASSUME NEW list \in Seq(Tasks), NEW t \in Tasks
    PROVE  /\ Waiting(<<t>> \o list) = t.msgs \cup Waiting(list)
           /\ Disjoint(<<t>> \o list) <=> Disjoint(list) /\ t.msgs \cap Waiting(list) = {}
<1> DEFINE new == <<t>> \o list
<1>1. /\ DOMAIN list = 1 .. Len(list) /\ DOMAIN new = 1 .. Len(list) + 1 /\ Len(list) \in Nat
      /\ new[1] = t /\ 1 \in DOMAIN new
      /\ \A k \in DOMAIN list : k + 1 \in DOMAIN new /\ new[k + 1] = list[k]
  OBVIOUS
<1> HIDE DEF new
<1>2. \A k \in DOMAIN new : k # 1 => k - 1 \in DOMAIN list /\ new[k] = list[k - 1] /\ k = (k - 1) + 1
  BY <1>1
<1>3. Waiting(new) = t.msgs \cup Waiting(list)
  <2>1. ASSUME NEW r \in Waiting(new)
        PROVE  r \in t.msgs \cup Waiting(list)
    <3>1. PICK k \in DOMAIN new : r \in new[k].msgs
      BY DEF Waiting
    <3>2. CASE k = 1
      BY <3>1, <3>2, <1>1
    <3>3. CASE k # 1
      BY <3>1, <3>3, <1>2 DEF Waiting
    <3> QED BY <3>2, <3>3
  <2>2. ASSUME NEW r \in t.msgs
        PROVE  r \in Waiting(new)
    BY <1>1 DEF Waiting
  <2>3. ASSUME NEW r \in Waiting(list)
        PROVE  r \in Waiting(new)
    <3>1. PICK k \in DOMAIN list : r \in list[k].msgs
      BY DEF Waiting
    <3> QED BY <3>1, <1>1 DEF Waiting
  <2> QED BY <2>1, <2>2, <2>3
<1>4. ASSUME Disjoint(new)
      PROVE  Disjoint(list) /\ t.msgs \cap Waiting(list) = {}
  <2>1. ASSUME NEW j \in DOMAIN list, NEW k \in DOMAIN list, j # k
        PROVE  list[j].msgs \cap list[k].msgs = {}
    <3>1. j + 1 # k + 1
      BY <1>1, <2>1
    <3> QED BY <3>1, <1>1, <1>4 DEF Disjoint
  <2>2. ASSUME NEW k \in DOMAIN list
        PROVE  t.msgs \cap list[k].msgs = {}
    <3>1. k + 1 # 1
      BY <1>1
    <3> QED BY <3>1, <1>1, <1>4 DEF Disjoint
  <2> QED BY <2>1, <2>2 DEF Disjoint, Waiting
<1>5. ASSUME Disjoint(list), t.msgs \cap Waiting(list) = {}
      PROVE  Disjoint(new)
  <2> SUFFICES ASSUME NEW j \in DOMAIN new, NEW k \in DOMAIN new, j # k
               PROVE  new[j].msgs \cap new[k].msgs = {}
    BY DEF Disjoint
  <2>1. \A i \in DOMAIN list : t.msgs \cap list[i].msgs = {}
    BY <1>5 DEF Waiting
  <2>2. CASE j = 1
    BY <1>1, <1>2, <2>1, <2>2
  <2>3. CASE k = 1
    BY <1>1, <1>2, <2>1, <2>3
  <2>4. CASE j # 1 /\ k # 1
    <3>1. j - 1 # k - 1
      BY <1>1, <2>4
    <3> QED BY <1>2, <1>5, <2>4, <3>1 DEF Disjoint
  <2> QED BY <2>2, <2>3, <2>4
<1> QED BY <1>3, <1>4, <1>5 DEF new

\* A task at the end of a list.
LEMMA WaitingAppend ==
    ASSUME NEW list \in Seq(Tasks), NEW t \in Tasks
    PROVE  /\ Waiting(Append(list, t)) = Waiting(list) \cup t.msgs
           /\ Disjoint(list) /\ t.msgs \cap Waiting(list) = {} => Disjoint(Append(list, t))
<1> DEFINE new == Append(list, t)
           m == Len(list) + 1
<1>1. /\ DOMAIN list = 1 .. Len(list) /\ DOMAIN new = DOMAIN list \cup {m} /\ m \notin DOMAIN list
      /\ new[m] = t
      /\ \A k \in DOMAIN list : new[k] = list[k]
  OBVIOUS
<1> HIDE DEF new, m
<1>2. Waiting(new) = Waiting(list) \cup t.msgs
  <2>1. ASSUME NEW r \in Waiting(new)
        PROVE  r \in Waiting(list) \cup t.msgs
    <3>1. PICK k \in DOMAIN new : r \in new[k].msgs
      BY DEF Waiting
    <3> QED BY <3>1, <1>1 DEF Waiting
  <2>2. ASSUME NEW r \in Waiting(list)
        PROVE  r \in Waiting(new)
    <3>1. PICK k \in DOMAIN list : r \in list[k].msgs
      BY DEF Waiting
    <3> QED BY <3>1, <1>1 DEF Waiting
  <2>3. ASSUME NEW r \in t.msgs
        PROVE  r \in Waiting(new)
    BY <1>1 DEF Waiting
  <2> QED BY <2>1, <2>2, <2>3
<1>3. ASSUME Disjoint(list), t.msgs \cap Waiting(list) = {}
      PROVE  Disjoint(new)
  <2>1. \A k \in DOMAIN list : t.msgs \cap list[k].msgs = {}
    BY <1>3 DEF Waiting
  <2> QED BY <1>1, <1>3, <2>1 DEF Disjoint
<1> QED BY <1>2, <1>3 DEF new

\* The first task of a list is taken.
LEMMA WaitingTail ==
    ASSUME NEW list \in Seq(Tasks), list # <<>>
    PROVE  /\ Head(list) \in Tasks /\ Tail(list) \in Seq(Tasks)
           /\ Waiting(list) = Head(list).msgs \cup Waiting(Tail(list))
           /\ Disjoint(list) => /\ Disjoint(Tail(list))
                                /\ Head(list).msgs \cap Waiting(Tail(list)) = {}
<1>1. Head(list) \in Tasks /\ Tail(list) \in Seq(Tasks) /\ list = <<Head(list)>> \o Tail(list)
  OBVIOUS
<1> QED BY <1>1, WaitingFront

\* Only fetches have callers.
LEMMA NoCallers ==
    /\ \A t \in Tasks : t.type # "FetchItem" => t.msgs = {}
    /\ \A s : Core(s) => /\ s.queue \in [Queue -> Seq(Tasks)] /\ s.current \in Tasks
                         /\ s.queue[ItemFetches] \in Seq(Tasks) /\ s \in Schedulers
                         /\ ~Busy(s) => s.current.msgs = {}
    /\ ItemFetches \in Queue
<1>1. \A t \in Tasks : t.type # "FetchItem" => t.msgs = {}
  BY DEF Tasks
<1>2. ItemFetches \in Queue
  BY QueuePlaces
<1>3. ASSUME NEW s, Core(s)
      PROVE  /\ s.queue \in [Queue -> Seq(Tasks)] /\ s.current \in Tasks
             /\ s.queue[ItemFetches] \in Seq(Tasks) /\ s \in Schedulers
             /\ ~Busy(s) => s.current.msgs = {}
  <2>1. s.queue \in [Queue -> Seq(Tasks)] /\ s.current \in Tasks /\ s \in Schedulers
    BY <1>3 DEF Core, Schedulers
  <2>2. ~Busy(s) => s.current.type # "FetchItem"
    BY DEF Busy
  <2> QED BY <1>1, <1>2, <2>1, <2>2
<1> QED BY <1>1, <1>2, <1>3

\* A task that is put in another queue.
LEMMA QueuedAside ==
    ASSUME NEW s, Core(s), NEW q \in Queue \ {ItemFetches}, NEW t \in Tasks, t.type \in TaskType,
           t.type # "Custom" => q = QueueForTaskType(t.type),
           t.type \in Compressed => ~Contains(s.queue[q], t) /\ ~Same(s.current, t),
           q = ChangeReplays => t.type = "ChangeReplay" /\ s.queue[q] = <<>>
    PROVE  Aside(s, Queued(s, q, t))
<1>1. /\ Queued(s, q, t).current = s.current
      /\ Queued(s, q, t).queue = [s.queue EXCEPT ![q] = Append(@, t)]
  BY QueuedSound
<1>2. Queued(s, q, t).queue[ItemFetches] = s.queue[ItemFetches]
  BY <1>1, NoCallers
<1> QED BY <1>1, <1>2 DEF Aside

\* scheduleFullSync() and the others that compress
LEMMA ScheduledAside ==
    ASSUME NEW s, Sound(s), NEW t \in Tasks, t.type \in TaskType \ {"Custom", "FetchItem", "ChangeReplay"}
    PROVE  Aside(s, Scheduled(s, t))
<1>1. CASE Contains(s.queue[QueueForTaskType(t.type)], t) \/ Same(s.current, t)
  BY <1>1 DEF Scheduled, Aside
<1>2. CASE ~(Contains(s.queue[QueueForTaskType(t.type)], t) \/ Same(s.current, t))
  <2>1. QueueForTaskType(t.type) \in Queue \ {ItemFetches}
    BY DEF QueueForTaskType, Queue, ChangeReplays, ItemFetches, Generic
  <2> QED BY <1>2, <2>1, QueuedAside, QueuePlaces DEF Scheduled, Sound
<1> QED BY <1>1, <1>2

\* scheduleChangeReplay()
LEMMA ScheduledReplayAside ==
    ASSUME NEW s, Core(s)
    PROVE  Aside(s, ScheduledReplay(s))
<1> DEFINE t == Task("ChangeReplay", None)
<1>1. CASE Contains(s.queue[ChangeReplays], t)
  BY <1>1 DEF ScheduledReplay, Aside
<1>2. CASE ~Contains(s.queue[ChangeReplays], t)
  <2>1. /\ t \in Tasks /\ t.type = "ChangeReplay" /\ ChangeReplays = QueueForTaskType(t.type)
        /\ t.type \notin Compressed /\ t.type \in TaskType
    BY TaskIsTask DEF TaskType, QueueForTaskType, Compressed
  <2>2. ChangeReplays \in Queue \ {ItemFetches}
    BY DEF Queue, ChangeReplays, ItemFetches
  <2>3. ScheduledReplay(s) = Queued(s, ChangeReplays, t)
    BY <1>2 DEF ScheduledReplay
  <2>4. s.queue[ChangeReplays] = <<>>
    BY <1>2, NoReplayWaits
  <2> HIDE DEF t
  <2> QED BY <2>1, <2>2, <2>3, <2>4, QueuedAside
<1> QED BY <1>1, <1>2

\* scheduleCustomTask()
LEMMA ScheduledCustomAside ==
    ASSUME NEW s, Sound(s), NEW q \in {Prepend, AfterChangeReplay, Generic}
    PROVE  Aside(s, ScheduledCustom(s, q))
<1> DEFINE t == Task("Custom", None)
<1>1. t \in Tasks /\ t.type = "Custom" /\ t.type \in TaskType /\ t.type \notin Compressed
  BY TaskIsTask DEF TaskType, Compressed
<1>2. Core(s) /\ q \in Queue \ {ItemFetches} /\ s \in Schedulers
      /\ s.queue \in [Queue -> Seq(Tasks)] /\ ItemFetches \in Queue
  BY DEF Sound, Core, Schedulers, Prepend, AfterChangeReplay, Generic, Queue, ItemFetches
<1> HIDE DEF t
<1>3. CASE Contains(s.queue[q], t)
  BY <1>3 DEF ScheduledCustom, Aside, t
<1>4. CASE ~Contains(s.queue[q], t) /\ q = Prepend
  <2> DEFINE n == [s EXCEPT !.queue[q] = <<t>> \o @]
  <2>1. ScheduledCustom(s, q) = ScheduleNext(n)
    BY <1>4 DEF ScheduledCustom, t
  <2>2. n.current = s.current /\ n.queue = [s.queue EXCEPT ![q] = <<t>> \o @]
    BY <1>2 DEF Schedulers
  <2>3. ScheduleNext(n).queue = n.queue /\ ScheduleNext(n).current = n.current
    BY <1>1, <1>2, <1>4 DEF ScheduleNext, Schedulers
  <2> HIDE DEF n
  <2> QED BY <1>2, <2>1, <2>2, <2>3 DEF Aside
<1>5. CASE ~Contains(s.queue[q], t) /\ q # Prepend
  BY <1>1, <1>2, <1>5, QueuedAside, ReplayPlace DEF ScheduledCustom, t
<1> QED BY <1>3, <1>4, <1>5

\* scheduleSync() of each collection in a list
LEMMA ScheduledSyncsAside ==
    ASSUME NEW s, Sound(s), NEW list, NEW n \in ScheduledSyncs(s, list)
    PROVE  Aside(s, n)
<1> DEFINE Sync(c) == Task("SyncCollection", c)
           fresh == {k \in DOMAIN list : ~Contains(s.queue[Generic], Sync(list[k]))
                                         /\ ~Same(s.current, Sync(list[k]))}
<1>1. PICK new \in Sublist(list, fresh) :
          n = [s EXCEPT !.queue[Generic] = @ \o [k \in DOMAIN new |-> Sync(new[k])],
                        !.posted = @ + IF Busy(s) \/ ~s.online THEN 0 ELSE Len(new)]
  BY DEF ScheduledSyncs
<1> DEFINE rest == [k \in DOMAIN new |-> Sync(new[k])]
           m == IF Busy(s) \/ ~s.online THEN 0 ELSE Len(new)
<1>2. n = [s EXCEPT !.queue[Generic] = @ \o rest, !.posted = @ + m]
  BY <1>1
<1> HIDE DEF rest, m
<1>3. s \in Schedulers /\ s.queue \in [Queue -> Seq(Tasks)]
  BY DEF Sound, Core, Schedulers
<1>4. n.current = s.current /\ n.queue = [s.queue EXCEPT ![Generic] = @ \o rest]
  BY <1>2, <1>3 DEF Schedulers
<1> QED BY <1>3, <1>4 DEF Aside, Queue, Generic, ItemFetches

\* executeNext() takes the callers of a fetch along.
LEMMA TakenSame ==
    ASSUME NEW s, Core(s), ~Busy(s), ~IsEmpty(s)
    PROVE  /\ SameCallers(s, Taken(s))
           /\ Taken(s).current \in Tasks
<1> DEFINE n == Taken(s)
           list == s.queue[ItemFetches]
<1>1. PICK q \in Queue : /\ s.queue[q] # <<>> /\ n.current = Head(s.queue[q])
                         /\ n.queue = [s.queue EXCEPT ![q] = Tail(@)]
  BY TakenSound
<1>2. /\ s.queue \in [Queue -> Seq(Tasks)] /\ list \in Seq(Tasks) /\ s.current.msgs = {}
      /\ ItemFetches \in Queue
  BY NoCallers
<1>3. Head(s.queue[q]) \in Tasks /\ Head(s.queue[q]) = s.queue[q][1] /\ 1 \in DOMAIN s.queue[q]
  BY <1>1, <1>2
<1> HIDE DEF n, list
<1>4. CASE q = ItemFetches
  <2>1. n.queue[ItemFetches] = Tail(list) /\ n.current = Head(list) /\ list # <<>>
    BY <1>1, <1>2, <1>4 DEF list
  <2>2. Callers(s) = Waiting(list) /\ (Apart(s) => Disjoint(list))
    BY <1>2 DEF Callers, Apart, list
  <2> QED BY <1>2, <1>3, <1>4, <2>1, <2>2, WaitingTail DEF SameCallers, Callers, Apart, n, list
<1>5. CASE q # ItemFetches
  <2>1. n.queue[ItemFetches] = s.queue[ItemFetches]
    BY <1>1, <1>2, <1>5
  <2>2. n.current.type # "FetchItem"
    BY <1>1, <1>3, <1>5 DEF Core, Placed, QueueForTaskType
  <2>3. n.current.msgs = {}
    BY <1>1, <1>3, <2>2, NoCallers
  <2> QED BY <1>1, <1>2, <1>3, <2>1, <2>3, AsideSame DEF Aside, n
<1> QED BY <1>4, <1>5

\* A task that is put back takes its callers back to its queue.
LEMMA PutFrontSame ==
    ASSUME NEW s, Core(s), NEW q \in Queue, NEW n,
           s.current.type = "FetchItem" => q = ItemFetches,
           n.queue = [s.queue EXCEPT ![q] = <<s.current>> \o @], n.current = NoTask
    PROVE  SameCallers(s, n)
<1> DEFINE list == s.queue[ItemFetches]
<1>1. /\ s.queue \in [Queue -> Seq(Tasks)] /\ list \in Seq(Tasks) /\ s.current \in Tasks
      /\ ItemFetches \in Queue /\ n.current.msgs = {}
  BY NoCallers, NoTaskIsTask
<1> HIDE DEF list
<1>2. CASE q = ItemFetches
  <2>1. n.queue[ItemFetches] = <<s.current>> \o list
    BY <1>1, <1>2 DEF list
  <2> QED BY <1>1, <2>1, WaitingFront DEF SameCallers, Callers, Apart, list
<1>3. CASE q # ItemFetches
  <2>1. n.queue[ItemFetches] = s.queue[ItemFetches]
    BY <1>1, <1>3
  <2>2. s.current.msgs = {}
    BY <1>1, <1>3, NoCallers
  <2> QED BY <1>1, <2>1, <2>2, AsideSame DEF Aside
<1> QED BY <1>2, <1>3

\* A caller joins the only task of a list that is like t.
LEMMA JoinedWaiting ==
    ASSUME NEW list \in Seq(Tasks), NEW t, t.type = "FetchItem", NEW r \in Request,
           NEW k \in DOMAIN list, Same(list[k], t),
           \A j \in DOMAIN list : Same(list[j], t) => j = k,
           r \notin Waiting(list), Disjoint(list)
    PROVE  /\ Waiting(Joined(list, t, r)) = Waiting(list) \cup {r}
           /\ Disjoint(Joined(list, t, r))
<1> DEFINE new == Joined(list, t, r)
<1>1. DOMAIN new = DOMAIN list /\ DOMAIN list = 1 .. Len(list) /\ Len(list) \in Nat
  BY DEF Joined
<1>2. ~Contains(SubSeq(list, 1, k - 1), t)
  <2> SUFFICES ASSUME NEW j \in DOMAIN SubSeq(list, 1, k - 1), Same(SubSeq(list, 1, k - 1)[j], t)
               PROVE  FALSE
    BY DEF Contains
  <2>1. j \in 1 .. k - 1 /\ SubSeq(list, 1, k - 1)[j] = list[j]
    BY <1>1
  <2>2. j \in DOMAIN list /\ j # k
    BY <1>1, <2>1
  <2> QED BY <2>1, <2>2
<1>3. new[k].msgs = list[k].msgs \cup {r}
  <2>1. new[k] = [list[k] EXCEPT !.msgs = @ \cup {r}]
    BY <1>2 DEF Joined
  <2>2. list[k] \in Tasks /\ list[k].type = "FetchItem"
    BY DEF Same
  <2> QED BY <2>1, <2>2, CallerAdded
<1>4. \A j \in DOMAIN list : j # k => new[j].msgs = list[j].msgs
  BY DEF Joined
<1> HIDE DEF new
<1>5. Waiting(new) = Waiting(list) \cup {r}
  <2>1. ASSUME NEW x \in Waiting(new)
        PROVE  x \in Waiting(list) \cup {r}
    <3>1. PICK j \in DOMAIN list : x \in new[j].msgs
      BY <1>1 DEF Waiting
    <3>2. CASE j = k
      BY <1>3, <3>1, <3>2 DEF Waiting
    <3>3. CASE j # k
      BY <1>4, <3>1, <3>3 DEF Waiting
    <3> QED BY <3>2, <3>3
  <2>2. ASSUME NEW x \in Waiting(list)
        PROVE  x \in Waiting(new)
    <3>1. PICK j \in DOMAIN list : x \in list[j].msgs
      BY DEF Waiting
    <3>2. x \in new[j].msgs
      BY <1>3, <1>4, <3>1
    <3> QED BY <1>1, <3>1, <3>2 DEF Waiting
  <2>3. r \in Waiting(new)
    BY <1>1, <1>3 DEF Waiting
  <2> QED BY <2>1, <2>2, <2>3
<1>6. Disjoint(new)
  <2> SUFFICES ASSUME NEW i \in DOMAIN list, NEW j \in DOMAIN list, i # j
               PROVE  new[i].msgs \cap new[j].msgs = {}
    BY <1>1 DEF Disjoint
  <2>1. r \notin list[i].msgs /\ r \notin list[j].msgs
    BY DEF Waiting
  <2>2. list[i].msgs \cap list[j].msgs = {}
    BY DEF Disjoint
  <2>3. CASE i = k
    BY <1>3, <1>4, <2>1, <2>2, <2>3
  <2>4. CASE j = k
    BY <1>3, <1>4, <2>1, <2>2, <2>4
  <2>5. CASE i # k /\ j # k
    BY <1>4, <2>2, <2>5
  <2> QED BY <2>3, <2>4, <2>5
<1> QED BY <1>5, <1>6 DEF new

\* scheduleItemFetch() remembers the caller, in one place.
LEMMA ScheduledFetchCallers ==
    ASSUME NEW s, Sound(s), NEW i \in Item, NEW r \in Request, r \notin Callers(s), Apart(s)
    PROVE  /\ Callers(ScheduledFetch(s, i, r)) = Callers(s) \cup {r}
           /\ Apart(ScheduledFetch(s, i, r))
<1> DEFINE t == Task("FetchItem", i)
           list == s.queue[ItemFetches]
<1>1. /\ t \in Tasks /\ t.type = "FetchItem" /\ t.msgs = {} /\ ItemFetches = QueueForTaskType("FetchItem")
      /\ [t EXCEPT !.msgs = {r}] \in Tasks
      /\ [t EXCEPT !.msgs = {r}].msgs = {r}
      /\ Same([t EXCEPT !.msgs = {r}], t)
  BY TaskIsTask DEF TaskType, QueueForTaskType, Tasks, Same
<1>2. /\ s \in Schedulers /\ s.queue \in [Queue -> Seq(Tasks)] /\ s.current \in Tasks
      /\ list \in Seq(Tasks) /\ ItemFetches \in Queue /\ Core(s)
  BY NoCallers DEF Sound
<1>3. r \notin Waiting(list) /\ r \notin s.current.msgs /\ Disjoint(list)
      /\ Waiting(list) \cap s.current.msgs = {}
  BY DEF Callers, Apart
<1>4. CASE Same(s.current, t)
  <2> DEFINE u == [s.current EXCEPT !.msgs = @ \cup {r}]
             n == [s EXCEPT !.current = u]
  <2>1. ScheduledFetch(s, i, r) = n
    BY <1>4 DEF ScheduledFetch
  <2>2. u.msgs = s.current.msgs \cup {r}
    BY <1>2 DEF Tasks
  <2> HIDE DEF u
  <2>3. n.current = u /\ n.queue = s.queue
    BY <1>2 DEF Schedulers
  <2> HIDE DEF n
  <2> QED BY <1>3, <2>1, <2>2, <2>3 DEF Callers, Apart
<1>5. CASE ~Same(s.current, t) /\ Contains(list, t)
  <2> DEFINE new == Joined(list, t, r)
             n == [s EXCEPT !.queue[ItemFetches] = new]
  <2>1. ScheduledFetch(s, i, r) = n
    BY <1>5 DEF ScheduledFetch
  <2>2. PICK k \in DOMAIN list : Same(list[k], t)
    BY <1>5 DEF Contains
  <2>3. ASSUME NEW j \in DOMAIN list, Same(list[j], t)
        PROVE  j = k
    <3>1. DOMAIN list = 1 .. Len(list) /\ Len(list) \in Nat
      BY <1>2
    <3>2. list[j].type \in Compressed /\ list[k].type \in Compressed
          /\ Same(list[j], list[k]) /\ Same(list[k], list[j])
      BY <1>1, <2>2, <2>3 DEF Same, Compressed, TaskType
    <3>3. /\ \A x \in 1 .. k - 1 : ~Same(list[x], list[k])
          /\ \A x \in 1 .. j - 1 : ~Same(list[x], list[j])
      BY <1>2, <3>2 DEF Core, Once
    <3>4. ~(j < k) /\ ~(k < j)
      BY <3>1, <3>2, <3>3
    <3> QED BY <3>1, <3>4
  <2> HIDE DEF t
  <2>4. Waiting(new) = Waiting(list) \cup {r} /\ Disjoint(new)
    BY <1>1, <1>2, <1>3, <2>2, <2>3, JoinedWaiting
  <2> HIDE DEF new
  <2>5. n.current = s.current /\ n.queue = [s.queue EXCEPT ![ItemFetches] = new]
    BY <1>2 DEF Schedulers
  <2>6. n.queue[ItemFetches] = new
    BY <1>2, <2>5
  <2> HIDE DEF n
  <2> QED BY <1>3, <2>1, <2>4, <2>5, <2>6 DEF Callers, Apart
<1>6. CASE ~Same(s.current, t) /\ ~Contains(list, t)
  <2> DEFINE u == [t EXCEPT !.msgs = {r}]
             n == Queued(s, ItemFetches, u)
  <2>1. ScheduledFetch(s, i, r) = n
    BY <1>6 DEF ScheduledFetch
  <2>2. ~Contains(list, u) /\ ~Same(s.current, u) /\ u \in Tasks /\ u.msgs = {r} /\ u.type = "FetchItem"
    BY <1>1, <1>6 DEF Contains, Same
  <2> HIDE DEF u
  <2>3. n.current = s.current /\ n.queue = [s.queue EXCEPT ![ItemFetches] = Append(@, u)]
    <3>1. u.type \in TaskType /\ ItemFetches = QueueForTaskType(u.type)
      BY <1>1, <2>2 DEF TaskType
    <3>2. ~Contains(s.queue[ItemFetches], u)
      BY <2>2
    <3>3. ItemFetches # ChangeReplays /\ ItemFetches \in Queue /\ Core(s)
      BY <1>2, ReplayPlace
    <3> HIDE DEF list
    <3> QED BY <2>2, <3>1, <3>2, <3>3, QueuedSound DEF n
  <2>4. n.queue[ItemFetches] = Append(list, u)
    BY <1>2, <2>3
  <2> HIDE DEF n, list
  <2>5. Waiting(Append(list, u)) = Waiting(list) \cup {r} /\ Disjoint(Append(list, u))
    BY <1>2, <1>3, <2>2, WaitingAppend
  <2> QED BY <1>3, <2>1, <2>3, <2>4, <2>5 DEF Callers, Apart, list
<1> QED BY <1>4, <1>5, <1>6

\* A step after which the same callers are known and nobody is answered.
LEMMA SameHeld ==
    ASSUME CallersHeld, SameCallers(sched, sched'), status' = status, mishaps \subseteq mishaps'
    PROVE  CallersHeld'
BY DEF CallersHeld, SameCallers, Callers, Apart, Disjoint, Waiting

\* The current task ends, and its callers are answered, or it has none, or they
\* are forgotten by a mishap.
LEMMA DoneHeld ==
    ASSUME CallersHeld, NEW n, SameCallers(sched, n),
           sched'.queue[ItemFetches] = n.queue[ItemFetches], sched'.current = NoTask,
           mishaps \subseteq mishaps',
           \A r \in Request : r \notin n.current.msgs => status'[r] = status[r],
           \/ ~(mishaps' \subseteq Harmless)
           \/ \A r \in n.current.msgs : status'[r] # "waiting",
           Waiting(n.queue[ItemFetches]) \subseteq Request
    PROVE  CallersHeld'
<1>1. /\ Waiting(sched'.queue[ItemFetches]) = Waiting(n.queue[ItemFetches])
      /\ Disjoint(sched'.queue[ItemFetches]) <=> Disjoint(n.queue[ItemFetches])
      /\ sched'.current.msgs = {}
  BY NoTaskIsTask
<1>2. Apart(n) /\ Callers(n) = Callers(sched)
  BY DEF CallersHeld, SameCallers
<1>3. Apart(sched')
  BY <1>1, <1>2 DEF Apart
<1>4. ASSUME NEW r \in Callers(sched')
      PROVE  status'[r] = "waiting"
  <2>1. r \in Request /\ r \in Callers(sched) /\ r \notin n.current.msgs
    BY <1>1, <1>2, <1>4 DEF Callers, Apart
  <2> QED BY <2>1 DEF CallersHeld
<1>5. ASSUME mishaps' \subseteq Harmless, NEW r \in Request, status'[r] = "waiting"
      PROVE  r \in Callers(sched')
  <2>1. r \notin n.current.msgs
    BY <1>5
  <2>2. status[r] = "waiting" /\ mishaps \subseteq Harmless
    BY <1>5, <2>1
  <2>3. r \in Callers(n)
    BY <1>2, <2>2 DEF CallersHeld
  <2> QED BY <1>1, <2>1, <2>3 DEF Callers
<1>6. /\ Apart(sched)' <=> Apart(sched')
      /\ Callers(sched)' = Callers(sched')
  BY DEF Apart, Callers, Disjoint, Waiting
<1> QED BY <1>3, <1>4, <1>5, <1>6 DEF CallersHeld

\* The callers of a list, and of the current task, are requests.
LEMMA CallersAreRequests ==
    ASSUME NEW s, Core(s)
    PROVE  Waiting(s.queue[ItemFetches]) \subseteq Request /\ s.current.msgs \subseteq Request
<1>1. s.queue[ItemFetches] \in Seq(Tasks) /\ s.current \in Tasks
  BY NoCallers
<1>2. \A t \in Tasks : t.msgs \subseteq Request
  BY DEF Tasks
<1>3. \A k \in DOMAIN s.queue[ItemFetches] : s.queue[ItemFetches][k] \in Tasks
  BY <1>1
<1> QED BY <1>1, <1>2, <1>3 DEF Waiting

\* ... as taskDone() makes it end
LEMMA EndsHeld ==
    ASSUME CallersHeld, NEW n, Core(n), Aside(sched, n), sched' = TaskDone(n),
           mishaps \subseteq mishaps', status \in [Request -> {"new", "waiting", "ok", "error"}],
           \/ \E answer \in {"ok", "error"} : Reply(answer)
           \/ status' = status /\ (sched.current.msgs = {} \/ ~(mishaps' \subseteq Harmless))
    PROVE  CallersHeld'
<1>1. sched'.queue[ItemFetches] = n.queue[ItemFetches] /\ sched'.current = NoTask
  BY TaskDoneSound
<1>2. SameCallers(sched, n) /\ n.current.msgs = sched.current.msgs
  BY AsideSame DEF Aside
<1>3. Waiting(n.queue[ItemFetches]) \subseteq Request /\ n.current.msgs \subseteq Request
  BY CallersAreRequests
<1>4. CASE \E answer \in {"ok", "error"} : Reply(answer)
  <2>1. \A r \in Request : r \notin n.current.msgs => status'[r] = status[r]
    BY <1>2, <1>4 DEF Reply
  <2>2. \A r \in n.current.msgs : status'[r] # "waiting"
    BY <1>2, <1>3, <1>4 DEF Reply
  <2> QED BY <1>1, <1>2, <1>3, <2>1, <2>2, DoneHeld
<1>5. CASE status' = status /\ (sched.current.msgs = {} \/ ~(mishaps' \subseteq Harmless))
  <2>1. \/ ~(mishaps' \subseteq Harmless)
        \/ \A r \in n.current.msgs : status'[r] # "waiting"
    BY <1>2, <1>5
  <2>2. \A r \in Request : r \notin n.current.msgs => status'[r] = status[r]
    BY <1>5
  <2> QED BY <1>1, <1>2, <1>3, <2>1, <2>2, DoneHeld
<1> QED BY <1>4, <1>5

\* Of the current task of each kind of job, only that of a fetch has callers.
LEMMA JobCallers ==
    ASSUME IInv
    PROVE  /\ job \notin {"prepare", "retrieve", "store"} => sched.current.msgs = {}
           /\ sched.current.type # "FetchItem" => sched.current.msgs = {}
<1>1. sched.current \in Tasks /\ (~Busy(sched) => sched.current.msgs = {})
  BY BusyTypes, NoCallers
<1>2. sched.current.type # "FetchItem" => sched.current.msgs = {}
  BY <1>1, NoCallers
<1>3. ASSUME job \notin {"prepare", "retrieve", "store"}
      PROVE  ~Busy(sched) \/ sched.current.type # "FetchItem"
  <2>1. job \in {"none", "collections", "tree", "list", "items", "sync", "plain", "replay"}
    BY <1>3 DEF IInv, BooksOK, Job
  <2> QED BY <2>1 DEF IInv, JobFits
<1> QED BY <1>1, <1>2, <1>3

\* An answer after which the current task ends, with a reply or without.
LEMMA AnswerHeld ==
    ASSUME IInv, CallersHeld, NEW k \in Loose, NEW stray \in BOOLEAN,
           Answers(k, stray), GoesOn(k, stray, "none"),
           NEW n, Core(n), Aside(sched, n), sched' = TaskDone(n),
           \/ \E answer \in {"ok", "error"} : Reply(answer)
           \/ /\ status' = status
              /\ \/ k \notin {"prepare", "retrieve", "store"}
                 \/ sched.current.type # "FetchItem"
    PROVE  CallersHeld'
<1>1. /\ mishaps \subseteq mishaps' /\ (~stray => job = k)
      /\ stray /\ Busy(sched) => "stray" \in mishaps'
  BY GoesOnBooks
<1>2. ~Busy(sched) => sched.current.msgs = {}
  BY BusyTypes, NoCallers
<1>3. status \in [Request -> {"new", "waiting", "ok", "error"}]
  BY DEF IInv, WorkOK
<1>4. k \notin {"prepare", "retrieve", "store"} \/ sched.current.type # "FetchItem" =>
          sched.current.msgs = {} \/ ~(mishaps' \subseteq Harmless)
  <2>1. CASE sched.current.type # "FetchItem"
    BY <2>1, JobCallers
  <2>2. CASE ~stray /\ k \notin {"prepare", "retrieve", "store"}
    BY <1>1, <2>2, JobCallers
  <2>3. CASE stray
    BY <1>1, <1>2, <2>3
  <2> QED BY <2>1, <2>2, <2>3
<1> QED BY <1>1, <1>3, <1>4, EndsHeld

\* changeProcessed(): a change replay has no callers.
LEMMA ChangeProcessedAside ==
    ASSUME IInv, ChangeProcessed
    PROVE  \E n : Core(n) /\ Aside(sched, n) /\ sched' = TaskDone(n)
<1>1. Sound(sched) /\ Core(sched)
  BY DEF IInv, Sound
<1>2. CASE changes' = 0
  BY <1>1, <1>2 DEF ChangeProcessed, Aside
<1>3. CASE changes' # 0
  <2>1. sched' = TaskDone(ScheduledReplay(sched))
    BY <1>3 DEF ChangeProcessed
  <2>2. Core(ScheduledReplay(sched)) /\ Aside(sched, ScheduledReplay(sched))
    BY <1>1, ScheduledReplaySound, ScheduledReplayAside DEF Grown, Sound
  <2> QED BY <2>1, <2>2
<1> QED BY <1>2, <1>3

\* cancelTask() answers the callers of a fetch.
LEMMA CancelledAside ==
    ASSUME IInv, Cancelled
    PROVE  \/ sched' = sched /\ status' = status
           \/ /\ \E n : Core(n) /\ Aside(sched, n) /\ sched' = TaskDone(n)
              /\ \/ Reply("error")
                 \/ status' = status /\ sched.current.type # "FetchItem"
<1> DEFINE type == sched.current.type
<1>1. Core(sched) /\ Aside(sched, sched)
  BY BusyTypes DEF Aside
<1>2. CASE type = "FetchItem"
  <2>1. Reply("error") /\ sched' = TaskDone(sched)
    BY <1>2 DEF Cancelled, FetchCancelled
  <2> QED BY <1>1, <2>1
<1>3. CASE type = "ChangeReplay"
  <2>1. ChangeProcessed /\ status' = status
    BY <1>3 DEF Cancelled
  <2> QED BY <1>3, <2>1, ChangeProcessedAside
<1>4. CASE \/ type \in {"SyncAll", "SyncCollectionTree"} /\ tree # "none"
           \/ type = "SyncCollection" /\ syncer # NoSyncer
  BY <1>4 DEF Cancelled
<1>5. CASE /\ type \notin {"FetchItem", "ChangeReplay"}
           /\ ~(type \in {"SyncAll", "SyncCollectionTree"} /\ tree # "none")
           /\ ~(type = "SyncCollection" /\ syncer # NoSyncer)
  <2>1. sched' = TaskDone(sched) /\ status' = status
    BY <1>5 DEF Cancelled
  <2> QED BY <1>1, <1>5, <2>1
<1> QED BY <1>2, <1>3, <1>4, <1>5

\* The requests.
LEMMA RequestsHold ==
    ASSUME IInv, CallersHeld, Requests
    PROVE  CallersHeld'
<1>1. Sound(sched) /\ Core(sched) /\ sched \in Schedulers /\ WorkOK
  BY BusyTypes DEF IInv
<1>2. ASSUME NEW s, Asked(s), Aside(sched, s)
      PROVE  CallersHeld'
  BY <1>2, AsideSame, SameHeld DEF Asked
<1>3. \A type \in TaskType \ {"SyncCollection", "ChangeReplay", "Custom", "FetchItem"},
         arg \in Collection \cup {None} :
          Aside(sched, Scheduled(sched, Task(type, arg)))
  BY <1>1, TaskIsTask, ScheduledAside
<1>4. CASE Synchronize \/ SynchronizeCollectionTree \/ ClearCache
  BY <1>2, <1>3, <1>4 DEF Synchronize, SynchronizeCollectionTree, ClearCache, TaskType
<1>5. ASSUME NEW c \in Collection, SynchronizeCollectionAttributes(c) \/ InvalidateCache(c)
      PROVE  CallersHeld'
  BY <1>2, <1>3, <1>5 DEF SynchronizeCollectionAttributes, InvalidateCache, TaskType
<1>6. CASE SynchronizeCollection
  <2>1. PICK list : \E s \in ScheduledSyncs(sched, list) : Asked(s)
    BY <1>6 DEF SynchronizeCollection
  <2> QED BY <1>1, <1>2, <2>1, ScheduledSyncsAside
<1>7. ASSUME NEW c \in Collection, CollectionRemoved(c)
      PROVE  CallersHeld'
  <2>1. PICK rest : sched' = [sched EXCEPT !.queue[Generic] = rest]
    BY <1>7 DEF CollectionRemoved
  <2>2. sched'.current = sched.current /\ sched'.queue[ItemFetches] = sched.queue[ItemFetches]
    BY <1>1, <2>1, NoCallers DEF Schedulers, Generic, ItemFetches
  <2>3. status' = status /\ mishaps \subseteq mishaps'
    BY <1>7 DEF CollectionRemoved
  <2> QED BY <2>2, <2>3, AsideSame, SameHeld DEF Aside
<1>8. ASSUME NEW q \in {Prepend, AfterChangeReplay, Generic}, ScheduleCustomTask(q)
      PROVE  CallersHeld'
  BY <1>1, <1>2, <1>8, ScheduledCustomAside DEF ScheduleCustomTask
<1>9. CASE ChangeAdded
  <2>1. sched' = ScheduledReplay(sched) /\ status' = status /\ mishaps' = mishaps
    BY <1>9 DEF ChangeAdded
  <2> QED BY <1>1, <2>1, ScheduledReplayAside, AsideSame, SameHeld
<1>10. ASSUME NEW r \in Request, NEW i \in Item, RequestItemDelivery(r, i)
       PROVE  CallersHeld'
  <2>1. status[r] = "new" /\ mishaps' = mishaps
    BY <1>10 DEF RequestItemDelivery
  <2>2. r \notin Callers(sched) /\ Apart(sched)
    BY <2>1 DEF CallersHeld
  <2>3. status \in [Request -> {"new", "waiting", "ok", "error"}]
    BY <1>1 DEF WorkOK
  <2>4. CASE sched.online
    <3>1. sched' = ScheduledFetch(sched, i, r) /\ status' = [status EXCEPT ![r] = "waiting"]
      BY <1>10, <2>4 DEF RequestItemDelivery
    <3>2. Callers(sched') = Callers(sched) \cup {r} /\ Apart(sched')
      BY <1>1, <2>2, <3>1, ScheduledFetchCallers
    <3>3. Callers(sched) \subseteq Request
      BY <1>1, CallersAreRequests DEF Callers
    <3>4. \A x \in Callers(sched') : status'[x] = "waiting"
      BY <2>3, <3>1, <3>2, <3>3 DEF CallersHeld
    <3>5. mishaps' \subseteq Harmless =>
              \A x \in Request : status'[x] = "waiting" => x \in Callers(sched')
      BY <2>1, <2>3, <3>1, <3>2 DEF CallersHeld
    <3>6. Callers(sched)' = Callers(sched') /\ (Apart(sched)' <=> Apart(sched'))
      BY DEF Callers, Apart, Disjoint, Waiting
    <3> QED BY <3>2, <3>4, <3>5, <3>6 DEF CallersHeld
  <2>5. CASE ~sched.online
    <3>1. sched' = sched /\ status' = [status EXCEPT ![r] = "error"]
      BY <1>10, <2>5 DEF RequestItemDelivery
    <3>2. \A x \in Request : status'[x] = "waiting" <=> status[x] = "waiting"
      BY <2>1, <2>3, <3>1
    <3>3. Callers(sched) \subseteq Request
      BY <1>1, CallersAreRequests DEF Callers
    <3>4. Callers(sched)' = Callers(sched) /\ (Apart(sched)' <=> Apart(sched))
      BY <3>1 DEF Callers, Apart, Disjoint, Waiting
    <3> QED BY <2>1, <3>2, <3>3, <3>4 DEF CallersHeld
  <2> QED BY <2>4, <2>5
<1> QED BY <1>4, <1>5, <1>6, <1>7, <1>8, <1>9, <1>10 DEF Requests

\* executeNext()
LEMMA ExecuteNextHolds ==
    ASSUME IInv, CallersHeld, ExecuteNext
    PROVE  CallersHeld'
<1> DEFINE s == [sched EXCEPT !.posted = @ - 1]
           t == Taken(s).current
<1>1. Core(sched) /\ sched \in Schedulers
  BY BusyTypes
<1>2. sched.posted > 0 /\ status' = status /\ mishaps' = mishaps
  BY DEF ExecuteNext
<1>3. IF Busy(s) \/ IsEmpty(s) THEN sched' = s
      ELSE \/ sched' = Taken(s)
           \/ sched' = TaskDone(Taken(s)) /\ t.type # "FetchItem"
  BY DEF ExecuteNext
<1>4. /\ s \in Schedulers /\ s.queue = sched.queue /\ s.current = sched.current
      /\ s.origin = sched.origin
  BY <1>1, <1>2 DEF Schedulers
<1> HIDE DEF s
<1>5. Core(s) /\ SameCallers(sched, s)
  BY <1>1, <1>4, AsideSame DEF Core, Placed, Once, Few, Busy, Aside
<1>6. CASE Busy(s) \/ IsEmpty(s)
  BY <1>2, <1>3, <1>5, <1>6, SameHeld
<1>7. CASE ~(Busy(s) \/ IsEmpty(s))
  <2> DEFINE n == Taken(s)
  <2>1. SameCallers(s, n) /\ t \in Tasks /\ Core(n)
    BY <1>5, <1>7, TakenSame, TakenSound DEF Sound
  <2>2. SameCallers(sched, n)
    BY <1>5, <2>1 DEF SameCallers
  <2> HIDE DEF n
  <2>3. CASE sched' = n
    BY <1>2, <2>2, <2>3, SameHeld
  <2>4. CASE sched' = TaskDone(n) /\ t.type # "FetchItem"
    <3>1. n.current.msgs = {}
      BY <2>1, <2>4, NoCallers DEF n
    <3>2. sched'.queue[ItemFetches] = n.queue[ItemFetches] /\ sched'.current = NoTask
      BY <2>1, <2>4, TaskDoneSound
    <3>3. Waiting(n.queue[ItemFetches]) \subseteq Request
      BY <2>1, CallersAreRequests
    <3> QED BY <1>2, <2>2, <3>1, <3>2, <3>3, DoneHeld
  <2> QED BY <1>3, <1>7, <2>3, <2>4 DEF n
<1> QED BY <1>6, <1>7

\* Jobs are answered.
LEMMA WorkHolds ==
    ASSUME IInv, CallersHeld, Work
    PROVE  CallersHeld'
<1>1. /\ Sound(sched) /\ Core(sched) /\ sched \in Schedulers /\ WorkOK /\ JobFits
      /\ Aside(sched, sched)
      /\ status \in [Request -> {"new", "waiting", "ok", "error"}]
  BY BusyTypes DEF IInv, Aside, WorkOK
<1>2. Loose = {"prepare", "retrieve", "store", "collections", "list", "items", "plain", "replay"}
  BY DEF Loose, Job
\* an answer that leaves the scheduler alone
<1>3. ASSUME NEW k \in Loose, NEW stray \in BOOLEAN, NEW next \in Job \cup {"none"},
             Answers(k, stray), GoesOn(k, stray, next), sched' = sched, status' = status
      PROVE  CallersHeld'
  BY <1>1, <1>3, GoesOnBooks, AsideSame, SameHeld
<1>4. ASSUME NEW stray \in BOOLEAN, PrepareItemRetrievalResult(stray) PROVE CallersHeld'
  <2>1. Answers("prepare", stray)
    BY <1>4 DEF PrepareItemRetrievalResult
  <2>2. CASE Cancelled /\ GoesOn("prepare", stray, "none")
    <3>1. CASE sched' = sched /\ status' = status
      BY <1>2, <1>3, <2>1, <2>2, <3>1
    <3>2. CASE /\ \E n : Core(n) /\ Aside(sched, n) /\ sched' = TaskDone(n)
               /\ Reply("error") \/ (status' = status /\ sched.current.type # "FetchItem")
      <4>1. PICK n : Core(n) /\ Aside(sched, n) /\ sched' = TaskDone(n)
        BY <3>2
      <4> QED BY <1>2, <2>1, <2>2, <3>2, <4>1, AnswerHeld
    <3> QED BY <2>2, <3>1, <3>2, CancelledAside
  <2>3. CASE UNCHANGED <<sched, status, changes, syncer, tree>> /\ GoesOn("prepare", stray, "retrieve")
    BY <1>2, <1>3, <2>1, <2>3 DEF Job
  <2> QED BY <1>4, <2>2, <2>3 DEF PrepareItemRetrievalResult
<1>5. ASSUME NEW stray \in BOOLEAN, ItemRetrieved(stray) PROVE CallersHeld'
  <2>1. Answers("retrieve", stray)
    BY <1>5 DEF ItemRetrieved
  <2>2. CASE FetchCancelled /\ GoesOn("retrieve", stray, "none")
    BY <1>1, <1>2, <2>1, <2>2, AnswerHeld DEF FetchCancelled
  <2>3. CASE UNCHANGED <<sched, status, changes>> /\ GoesOn("retrieve", stray, "store")
    BY <1>2, <1>3, <2>1, <2>3 DEF Job
  <2> QED BY <1>5, <2>2, <2>3 DEF ItemRetrieved
<1>6. ASSUME NEW stray \in BOOLEAN, DeliveryDone(stray) PROVE CallersHeld'
  <2>1. /\ Answers("store", stray) /\ GoesOn("store", stray, "none")
        /\ sched' = TaskDone(sched) /\ \E answer \in {"ok", "error"} : Reply(answer)
    BY <1>6 DEF DeliveryDone
  <2> QED BY <1>1, <1>2, <2>1, AnswerHeld
\* an answer that ends a task that has no callers, unless it is a stray one
<1>7. ASSUME NEW k \in Loose \ {"prepare", "retrieve", "store"}, NEW stray \in BOOLEAN,
             Answers(k, stray), GoesOn(k, stray, "none"), status' = status,
             NEW n, Core(n), Aside(sched, n), sched' = TaskDone(n)
      PROVE  CallersHeld'
  BY <1>7, AnswerHeld
<1>8. ASSUME NEW stray \in BOOLEAN, CollectionsRetrievalDone(stray) PROVE CallersHeld'
  <2>1. Answers("collections", stray) /\ status' = status
    BY <1>8 DEF CollectionsRetrievalDone
  <2>2. \/ sched' = TaskDone(sched) /\ GoesOn("collections", stray, "none")
        \/ sched' = sched /\ GoesOn("collections", stray, "tree")
    BY <1>8 DEF CollectionsRetrievalDone
  <2> QED BY <1>1, <1>2, <1>3, <1>7, <2>1, <2>2 DEF Job
<1>9. ASSUME NEW stray \in BOOLEAN, LocalListDone(stray) PROVE CallersHeld'
  <2>1. Answers("list", stray) /\ GoesOn("list", stray, "none") /\ status' = status
    BY <1>9 DEF LocalListDone
  <2>2. CASE sched' = TaskDone(sched)
    BY <1>1, <1>2, <1>7, <2>1, <2>2
  <2>3. CASE \E list \in Listings : \E s \in ScheduledSyncs(sched, list) :
                 sched' = TaskDone(Queued(s, Generic, Task("SyncAllDone", None)))
    <3> DEFINE t == Task("SyncAllDone", None)
    <3>1. PICK list \in Listings : \E s \in ScheduledSyncs(sched, list) :
              sched' = TaskDone(Queued(s, Generic, t))
      BY <2>3
    <3>2. PICK s \in ScheduledSyncs(sched, list) : sched' = TaskDone(Queued(s, Generic, t))
      BY <3>1
    <3>3. Core(s) /\ Aside(sched, s)
      BY <1>1, <3>1, ListingsAreLists, ScheduledSyncsSound, ScheduledSyncsAside DEF Grown, Sound
    <3>4. /\ t \in Tasks /\ t.type = "SyncAllDone" /\ t.type \in TaskType
          /\ t.type \notin Compressed /\ Generic = QueueForTaskType(t.type)
          /\ Generic \in Queue \ {ItemFetches}
      BY TaskIsTask, QueuePlaces DEF TaskType, Compressed, QueueForTaskType, Generic, ItemFetches
    <3> DEFINE n == Queued(s, Generic, t)
    <3> HIDE DEF t
    <3>5. Core(n) /\ Aside(s, n)
      BY <3>3, <3>4, QueuedSound, QueuedAside, ReplayPlace DEF Sound
    <3>6. sched' = TaskDone(n)
      BY <3>2
    <3> HIDE DEF n
    <3>7. Aside(sched, n)
      BY <3>3, <3>5 DEF Aside
    <3> QED BY <1>2, <1>7, <2>1, <3>5, <3>6, <3>7
  <2> QED BY <1>9, <2>2, <2>3 DEF LocalListDone
<1>10. ASSUME NEW stray \in BOOLEAN, ItemsRetrievalDone(stray) PROVE CallersHeld'
  <2>1. Answers("items", stray) /\ status' = status
    BY <1>10 DEF ItemsRetrievalDone
  <2>2. \/ sched' = TaskDone(sched) /\ GoesOn("items", stray, "none")
        \/ sched' = sched /\ GoesOn("items", stray, "sync")
    BY <1>10 DEF ItemsRetrievalDone
  <2> QED BY <1>1, <1>2, <1>3, <1>7, <2>1, <2>2 DEF Job
<1>11. ASSUME NEW stray \in BOOLEAN, PlainDone(stray) PROVE CallersHeld'
  BY <1>1, <1>2, <1>7, <1>11 DEF PlainDone
<1>12. ASSUME NEW stray \in BOOLEAN, Replayed(stray) PROVE CallersHeld'
  <2>1. Answers("replay", stray) /\ GoesOn("replay", stray, "none") /\ status' = status
        /\ ChangeProcessed
    BY <1>12 DEF Replayed
  <2>2. PICK n : Core(n) /\ Aside(sched, n) /\ sched' = TaskDone(n)
    BY <2>1, ChangeProcessedAside
  <2> QED BY <1>2, <1>7, <2>1, <2>2
<1>13. CASE CollectionsRetrieved \/ \E stray \in BOOLEAN : ItemsRetrieved(stray)
  <2>1. sched' = sched /\ status' = status /\ mishaps \subseteq mishaps'
    BY <1>13 DEF CollectionsRetrieved, ItemsRetrieved
  <2> QED BY <1>1, <2>1, AsideSame, SameHeld
\* the result of a syncer, waited for or not
<1>14. ASSUME NEW k \in {"tree", "sync"}, status' = status,
              mishaps' = IF job # k /\ Busy(sched) THEN mishaps \cup {"stray"} ELSE mishaps,
              NEW n, Core(n), Aside(sched, n), sched' = TaskDone(n)
       PROVE  CallersHeld'
  <2>1. sched.current.msgs = {} \/ ~(mishaps' \subseteq Harmless)
    <3>1. CASE job # k /\ Busy(sched)
      BY <1>14, <3>1
    <3>2. CASE job = k
      BY <3>2, JobCallers
    <3>3. CASE ~Busy(sched)
      BY <1>1, <3>3, NoCallers
    <3> QED BY <3>1, <3>2, <3>3
  <2> QED BY <1>1, <1>14, <2>1, EndsHeld
<1>15. CASE CollectionSyncDone
  <2>1. /\ status' = status
        /\ mishaps' = IF job # "tree" /\ Busy(sched) THEN mishaps \cup {"stray"} ELSE mishaps
        /\ \/ sched' = TaskDone(sched)
           \/ sched' = sched
           \/ sched' = TaskDone(Queued(sched, Generic, Task("SyncCollectionTreeDone", None)))
    BY <1>15 DEF CollectionSyncDone
  <2>2. CASE sched' = TaskDone(sched)
    BY <1>1, <1>14, <2>1, <2>2
  <2>3. CASE sched' = sched
    BY <1>1, <2>1, <2>3, AsideSame, SameHeld
  <2>4. CASE sched' = TaskDone(Queued(sched, Generic, Task("SyncCollectionTreeDone", None)))
    <3> DEFINE t == Task("SyncCollectionTreeDone", None)
               n == Queued(sched, Generic, t)
    <3>1. /\ t \in Tasks /\ t.type = "SyncCollectionTreeDone" /\ t.type \in TaskType
          /\ t.type \notin Compressed /\ Generic = QueueForTaskType(t.type)
          /\ Generic \in Queue \ {ItemFetches}
      BY TaskIsTask, QueuePlaces DEF TaskType, Compressed, QueueForTaskType, Generic, ItemFetches
    <3>2. sched' = TaskDone(n)
      BY <2>4
    <3> HIDE DEF t
    <3>3. Core(n) /\ Aside(sched, n)
      BY <1>1, <3>1, QueuedSound, QueuedAside, ReplayPlace DEF Sound
    <3> HIDE DEF n
    <3> QED BY <1>14, <2>1, <3>2, <3>3
  <2> QED BY <2>1, <2>2, <2>3, <2>4
<1>16. CASE ItemSyncDone
  BY <1>1, <1>14, <1>16 DEF ItemSyncDone
<1>17. CASE CancelTask
  <2>1. Cancelled /\ mishaps' = mishaps
    BY <1>17 DEF CancelTask
  <2>2. CASE sched' = sched /\ status' = status
    BY <1>1, <2>1, <2>2, AsideSame, SameHeld
  <2>3. CASE /\ \E n : Core(n) /\ Aside(sched, n) /\ sched' = TaskDone(n)
             /\ Reply("error") \/ (status' = status /\ sched.current.type # "FetchItem")
    BY <1>1, <2>1, <2>3, EndsHeld, JobCallers
  <2> QED BY <2>1, <2>2, <2>3, CancelledAside
<1>18. CASE DeferTask
  <2>1. job \in Own /\ sched' = Deferred(sched) /\ status' = status /\ mishaps' = mishaps
    BY <1>18 DEF DeferTask
  <2>2. Busy(sched)
    BY <1>1, <2>1 DEF JobFits, Own
  <2>3. /\ sched'.queue = [sched.queue EXCEPT ![sched.origin] = <<sched.current>> \o @]
        /\ ~Busy(sched') /\ sched.origin \in Queue /\ Core(sched')
    BY <1>1, <2>1, <2>2, DeferredSound DEF Sound
  <2>4. sched'.current = NoTask
    <3>1. sched.current.type # "Custom" => sched.origin = QueueForTaskType(sched.current.type)
      BY <1>1, <2>2 DEF Core, Placed
    <3>2. /\ Core(PutFront(sched, sched.origin))
          /\ PutFront(sched, sched.origin).current = NoTask
      BY <1>1, <2>2, <2>3, <3>1, PutFrontCore
    <3>3. sched' = ScheduleNext(PutFront(sched, sched.origin))
      BY <2>1, <2>2 DEF Deferred, PutFront
    <3> QED BY <3>2, <3>3, ScheduleNextSound
  <2>5. sched.current.type = "FetchItem" => sched.origin = ItemFetches
    BY <1>1, <2>2 DEF Core, Placed, QueueForTaskType
  <2>6. SameCallers(sched, sched')
    BY <1>1, <2>3, <2>4, <2>5, PutFrontSame
  <2> QED BY <2>1, <2>6, SameHeld
<1> QED BY <1>4, <1>5, <1>6, <1>8, <1>9, <1>10, <1>11, <1>12, <1>13, <1>15, <1>16, <1>17, <1>18
        DEF Work

\* doSetOnline( false ) answers every caller there is.
LEMMA GoOfflineHolds ==
    ASSUME IInv, CallersHeld, GoOffline
    PROVE  CallersHeld'
<1> DEFINE s == PutBack(sched)
           list == s.queue[ItemFetches]
           fetches == {k \in DOMAIN list : list[k].type = "FetchItem"}
           callers == UNION {list[k].msgs : k \in fetches}
           keep == DOMAIN list \ fetches
<1>1. Core(sched) /\ sched \in Schedulers /\ status \in [Request -> {"new", "waiting", "ok", "error"}]
  BY BusyTypes DEF IInv, WorkOK
<1>2. PICK rest \in Sublist(list, keep) :
          sched' = [s EXCEPT !.online = FALSE, !.queue[ItemFetches] = rest]
  BY DEF GoOffline
<1>3. /\ status' = [r \in Request |-> IF r \in callers THEN "error" ELSE status[r]]
      /\ mishaps' = mishaps
  BY DEF GoOffline
<1>4. Core(s) /\ ~Busy(s)
  BY <1>1, PutBackSound
<1>5. SameCallers(sched, s)
  <2>1. CASE Busy(sched)
    <3> DEFINE q == QueueForTaskType(sched.current.type)
    <3>1. s = PutFront(sched, q)
      BY <2>1 DEF PutBack, PutFront
    <3>2. q \in Queue /\ (sched.current.type = "FetchItem" => q = ItemFetches)
      BY DEF QueueForTaskType, Queue, ChangeReplays, ItemFetches, Generic
    <3> HIDE DEF q, s
    <3>3. s.current = NoTask /\ s.queue = [sched.queue EXCEPT ![q] = <<sched.current>> \o @]
      <4>1. sched.current.type # "Custom" => q = QueueForTaskType(sched.current.type)
        BY DEF q
      <4>2. q = ChangeReplays => sched.origin = q
        BY <1>1, <2>1, PlacedBack DEF q
      <4> QED BY <1>1, <2>1, <3>1, <3>2, <4>1, <4>2, PutFrontCore
    <3> QED BY <1>1, <3>2, <3>3, PutFrontSame
  <2>2. CASE ~Busy(sched)
    BY <2>2, AsideSame DEF PutBack, Aside
  <2> QED BY <2>1, <2>2
<1> HIDE DEF s
<1>6. list \in Seq(Tasks) /\ s.current.msgs = {} /\ s \in Schedulers
      /\ s.queue \in [Queue -> Seq(Tasks)] /\ ItemFetches \in Queue
  BY <1>4, NoCallers
<1> HIDE DEF list
<1>7. Callers(sched) = callers
  <2>1. Callers(s) = Waiting(list)
    BY <1>6 DEF Callers, list
  <2>2. \A k \in DOMAIN list : list[k] \in Tasks
    BY <1>6
  <2>3. \A k \in DOMAIN list : k \notin fetches => list[k].msgs = {}
    BY <2>2, NoCallers
  <2>4. Waiting(list) = callers
    BY <2>3 DEF Waiting
  <2> QED BY <1>5, <2>1, <2>4 DEF SameCallers
<1>8. Waiting(rest) = {} /\ Disjoint(rest)
  <2>1. keep \in SUBSET DOMAIN list
    OBVIOUS
  <2>2. \A k \in keep : list[k].msgs = {}
    <3>1. \A k \in keep : list[k] \in Tasks /\ list[k].type # "FetchItem"
      BY <1>6
    <3> QED BY <3>1, NoCallers
  <2> HIDE DEF keep
  <2>3. \E f \in [DOMAIN rest -> keep] :
            /\ \A i \in DOMAIN rest : rest[i] = list[f[i]]
            /\ \A i, j \in DOMAIN rest : i < j => f[i] < f[j]
    <3>1. rest \in Sublist(list, keep)
      BY <1>2
    <3>2. list \in Seq(Tasks)
      BY <1>6
    <3> QED BY <2>1, <3>1, <3>2, SublistType
  <2>4. \A k \in DOMAIN rest : rest[k].msgs = {}
    BY <2>2, <2>3
  <2> QED BY <2>4 DEF Waiting, Disjoint
<1>9. sched'.queue[ItemFetches] = rest /\ sched'.current = s.current
  <2> DEFINE a == [s EXCEPT !.online = FALSE]
  <2>1. a \in Schedulers /\ a.queue = s.queue /\ a.current = s.current
    BY <1>6 DEF Schedulers
  <2>2. sched' = [a EXCEPT !.queue[ItemFetches] = rest]
    BY <1>2
  <2> HIDE DEF a
  <2>3. sched'.queue = [a.queue EXCEPT ![ItemFetches] = rest] /\ sched'.current = a.current
    BY <2>1, <2>2 DEF Schedulers
  <2> QED BY <1>6, <2>1, <2>3
<1> HIDE DEF callers, fetches, keep
<1>10. Callers(sched') = {} /\ Apart(sched')
  BY <1>6, <1>8, <1>9 DEF Callers, Apart
<1>11. \A r \in Request : status'[r] = "waiting" => status[r] = "waiting" /\ r \notin Callers(sched)
  BY <1>3, <1>7
<1>12. mishaps' \subseteq Harmless => \A r \in Request : status'[r] # "waiting"
  BY <1>3, <1>11 DEF CallersHeld
<1>13. Callers(sched)' = Callers(sched') /\ (Apart(sched)' <=> Apart(sched'))
  BY DEF Callers, Apart, Disjoint, Waiting
<1> QED BY <1>10, <1>12, <1>13 DEF CallersHeld

\* One step.
LEMMA NextHolds ==
    ASSUME IInv, CallersHeld, [Next]_vars
    PROVE  CallersHeld'
<1>1. Core(sched) /\ sched \in Schedulers
  BY BusyTypes
<1>2. CASE GoOnline
  <2> DEFINE a == [sched EXCEPT !.online = TRUE]
  <2>1. sched' = ScheduleNext(a) /\ status' = status /\ mishaps' = mishaps
    BY <1>2 DEF GoOnline
  <2>2. a \in Schedulers /\ a.queue = sched.queue /\ a.current = sched.current /\ a.origin = sched.origin
    BY <1>1 DEF Schedulers
  <2> HIDE DEF a
  <2>3. Core(a)
    BY <1>1, <2>2 DEF Core, Placed, Once, Few, Busy
  <2>4. Aside(sched, sched')
    BY <2>1, <2>2, <2>3, ScheduleNextSound DEF Aside
  <2> QED BY <2>1, <2>4, AsideSame, SameHeld
\* what waits is forgotten
<1>3. ASSUME sched'.queue = [q \in Queue |-> <<>>], status' = status,
             sched'.current = sched.current \/ sched'.current = NoTask,
             mishaps' = mishaps \cup {"cancelled"}
      PROVE  CallersHeld'
  <2>1. sched'.queue[ItemFetches] = <<>>
    BY <1>3, NoCallers
  <2>2. Waiting(sched'.queue[ItemFetches]) = {} /\ Disjoint(sched'.queue[ItemFetches])
    BY <2>1 DEF Waiting, Disjoint
  <2>3. sched'.current.msgs \subseteq sched.current.msgs
    BY <1>3, NoTaskIsTask
  <2>4. Callers(sched') \subseteq Callers(sched) /\ Apart(sched')
    BY <2>2, <2>3 DEF Callers, Apart
  <2>5. Callers(sched)' = Callers(sched') /\ (Apart(sched)' <=> Apart(sched'))
    BY DEF Callers, Apart, Disjoint, Waiting
  <2> QED BY <1>3, <2>4, <2>5 DEF CallersHeld
<1>4. CASE CancelQueues
  <2>1. sched' = [sched EXCEPT !.queue = [q \in Queue |-> <<>>]]
    BY <1>4 DEF CancelQueues
  <2>2. sched'.queue = [q \in Queue |-> <<>>] /\ sched'.current = sched.current
    BY <1>1, <2>1 DEF Schedulers
  <2> QED BY <1>3, <1>4, <2>2 DEF CancelQueues
<1>5. CASE Clear
  <2> DEFINE a == [sched EXCEPT !.queue = [q \in Queue |-> <<>>]]
  <2>1. sched' = [a EXCEPT !.current = NoTask, !.origin = 0]
    BY <1>5 DEF Clear
  <2>2. a \in Schedulers /\ a.queue = [q \in Queue |-> <<>>]
    <3>1. [q \in Queue |-> <<>>] \in [Queue -> Seq(Tasks)]
      OBVIOUS
    <3> QED BY <1>1, <3>1 DEF Schedulers
  <2> HIDE DEF a
  <2>3. sched'.queue = [q \in Queue |-> <<>>] /\ sched'.current = NoTask
    BY <2>1, <2>2, IdleFields
  <2> QED BY <1>3, <1>5, <2>3 DEF Clear
<1>6. CASE UNCHANGED vars
  <2>1. sched' = sched /\ status' = status /\ mishaps' = mishaps
    BY <1>6 DEF vars
  <2> QED BY <2>1, AsideSame, SameHeld DEF Aside
<1> QED BY <1>2, <1>4, <1>5, <1>6, RequestsHold, ExecuteNextHolds, WorkHolds, GoOfflineHolds DEF Next

\* A resource that has just been started knows no callers.
LEMMA InitHolds ==
    ASSUME Init
    PROVE  CallersHeld
<1>1. PICK online \in BOOLEAN :
          LET idle == [queue |-> [q \in Queue |-> <<>>], current |-> NoTask,
                       origin |-> 0, online |-> online, posted |-> 0]
          IN  sched = IF changes = 0 THEN idle ELSE ScheduledReplay(idle)
  BY DEF Init
<1> DEFINE idle == [queue |-> [q \in Queue |-> <<>>], current |-> NoTask,
                    origin |-> 0, online |-> online, posted |-> 0]
<1>2. sched = IF changes = 0 THEN idle ELSE ScheduledReplay(idle)
  BY <1>1
<1>3. /\ idle \in Schedulers /\ idle.queue = [q \in Queue |-> <<>>]
      /\ idle.current = NoTask /\ idle.origin = 0
  BY NoTaskIsTask DEF Schedulers
<1> HIDE DEF idle
<1>4. \A q \in Queue : idle.queue[q] = <<>> /\ DOMAIN idle.queue[q] = {}
  BY <1>3
<1>5. Core(idle)
  <2>1. Placed(idle)
    BY <1>3, <1>4, NoTaskIsTask DEF Placed, Busy
  <2>2. Once(idle) /\ Few(idle)
    <3>1. Len(idle.queue[ChangeReplays]) = 0 /\ DOMAIN idle.queue[ChangeReplays] = {}
      BY <1>4, QueuePlaces
    <3> QED BY <1>3, <1>4, <3>1, QueuePlaces DEF Once, Few
  <2> QED BY <1>3, <2>1, <2>2 DEF Core
<1>6. Aside(idle, sched)
  BY <1>2, <1>5, ScheduledReplayAside DEF Aside
<1>7. sched.queue[ItemFetches] = <<>> /\ sched.current.msgs = {}
  BY <1>3, <1>4, <1>6, NoTaskIsTask, NoCallers DEF Aside
<1>8. Callers(sched) = {} /\ Apart(sched)
  BY <1>7 DEF Callers, Apart, Waiting, Disjoint
<1>9. \A r \in Request : status[r] = "new"
  BY DEF Init
<1> QED BY <1>8, <1>9 DEF CallersHeld

\* A caller is known in at most one place.
LEMMA HoldersOnce ==
    ASSUME IInv, CallersHeld, NEW r \in Request
    PROVE  LET holders == Cardinality(Holders(r)) + (IF r \in sched.current.msgs THEN 1 ELSE 0)
           IN  /\ holders \in {0, 1}
               /\ holders = 1 <=> r \in Callers(sched)
<1> DEFINE list == sched.queue[ItemFetches]
           c == Cardinality(Holders(r))
<1>1. /\ Core(sched) /\ list \in Seq(Tasks) /\ ItemFetches \in Queue
      /\ sched.queue \in [Queue -> Seq(Tasks)] /\ sched.current.msgs \subseteq Request
  BY BusyTypes, NoCallers, CallersAreRequests
<1>2. ASSUME NEW at \in Holders(r)
      PROVE  /\ at = <<ItemFetches, at[2]>> /\ at[2] \in DOMAIN list
             /\ r \in list[at[2]].msgs
  <2>1. PICK q \in Queue : at \in {q} \X DOMAIN sched.queue[q]
    BY DEF Holders
  <2>2. at = <<q, at[2]>> /\ at[1] = q /\ at[2] \in DOMAIN sched.queue[q]
    BY <2>1
  <2>3. r \in sched.queue[q][at[2]].msgs
    BY <2>2 DEF Holders
  <2>4. sched.queue[q] \in Seq(Tasks)
    BY <1>1
  <2>5. sched.queue[q][at[2]] \in Tasks
    BY <2>2, <2>4
  <2>6. sched.queue[q][at[2]].type = "FetchItem"
    BY <2>3, <2>5, NoCallers
  <2>7. q = ItemFetches
    BY <1>1, <2>2, <2>6 DEF Core, Placed, QueueForTaskType
  <2> QED BY <2>2, <2>3, <2>7
<1>3. ASSUME NEW k \in DOMAIN list, r \in list[k].msgs
      PROVE  <<ItemFetches, k>> \in Holders(r)
  <2>1. <<ItemFetches, k>> \in {ItemFetches} \X DOMAIN sched.queue[ItemFetches]
    OBVIOUS
  <2> QED BY <1>1, <1>3, <2>1 DEF Holders
<1>4. CASE r \in Waiting(list)
  <2>1. PICK k \in DOMAIN list : r \in list[k].msgs
    BY <1>4 DEF Waiting
  <2>2. Holders(r) = {<<ItemFetches, k>>}
    <3>1. ASSUME NEW at \in Holders(r)
          PROVE  at = <<ItemFetches, k>>
      <4>1. r \in list[at[2]].msgs \cap list[k].msgs /\ at[2] \in DOMAIN list
        BY <1>2, <2>1, <3>1
      <4>2. at[2] = k
        BY <2>1, <4>1 DEF CallersHeld, Apart, Disjoint
      <4> QED BY <1>2, <3>1, <4>2
    <3> QED BY <1>3, <2>1, <3>1
  <2>3. c = 1
    BY <2>2, FS_Singleton
  <2>4. r \notin sched.current.msgs /\ r \in Callers(sched)
    BY <1>4 DEF CallersHeld, Apart, Callers
  <2> QED BY <2>3, <2>4
<1>5. CASE r \notin Waiting(list)
  <2>1. Holders(r) = {}
    BY <1>2, <1>5 DEF Waiting
  <2>2. c = 0
    BY <2>1, FS_EmptySet
  <2>3. r \in Callers(sched) <=> r \in sched.current.msgs
    BY <1>5 DEF Callers
  <2> QED BY <2>2, <2>3
<1> QED BY <1>4, <1>5

----------------------------------------------------------------------------
(* The syncer left behind                                                  *)

\* The first sync that waits in a list is that of a collection.
FirstSync(list, c) ==
    \E k \in DOMAIN list :
        /\ list[k].type = "SyncCollection" /\ list[k].arg = c
        /\ \A j \in 1 .. k - 1 : list[j].type # "SyncCollection"

\* The sync that runs, or else the next one that will, is that of a collection.
SyncIs(s, c) ==
    IF s.current.type = "SyncCollection" THEN s.current.arg = c
    ELSE FirstSync(s.queue[Generic], c)

\* While items are synchronized, their collection is the one that is open.
SyncOpened ==
    job \in {"items", "sync"} => sched.current.arg = opened /\ opened \notin Hollow

\* A syncer is that of the sync that runs, or of the next one.
SyncerNext ==
    syncer # NoSyncer /\ mishaps = {} => syncer.of \notin Hollow /\ SyncIs(sched, syncer.of)

SyncInv == SyncOpened /\ SyncerNext

\* A scheduler with the same current task, and more to synchronize after what it
\* had.
Extends(s, n) ==
    /\ Same(s.current, n.current)
    /\ \A k \in DOMAIN s.queue[Generic] :
           k \in DOMAIN n.queue[Generic] /\ n.queue[Generic][k] = s.queue[Generic][k]

LEMMA ExtendsSync ==
    ASSUME NEW s, Core(s), NEW n, Extends(s, n), NEW c, SyncIs(s, c)
    PROVE  SyncIs(n, c)
<1>1. s.queue[Generic] \in Seq(Tasks)
  BY QueuePlaces DEF Core, Schedulers
<1>2. CASE s.current.type = "SyncCollection"
  BY <1>2 DEF SyncIs, Extends, Same
<1>3. CASE s.current.type # "SyncCollection"
  <2>1. PICK k \in DOMAIN s.queue[Generic] :
            /\ s.queue[Generic][k].type = "SyncCollection" /\ s.queue[Generic][k].arg = c
            /\ \A j \in 1 .. k - 1 : s.queue[Generic][j].type # "SyncCollection"
    BY <1>3 DEF SyncIs, FirstSync
  <2>2. \A j \in 1 .. k - 1 : j \in DOMAIN s.queue[Generic]
    BY <1>1
  <2>3. FirstSync(n.queue[Generic], c)
    BY <2>1, <2>2 DEF FirstSync, Extends
  <2> QED BY <1>3, <2>3 DEF SyncIs, Extends, Same
<1> QED BY <1>2, <1>3

LEMMA ExtendsTrans ==
    ASSUME NEW s, NEW m, NEW n, Extends(s, m), Extends(m, n)
    PROVE  Extends(s, n)
BY DEF Extends, Same

\* schedule...() leaves alone what waits, and the current task.
LEMMA SameGenericExtends ==
    ASSUME NEW s, NEW n, Same(s.current, n.current), n.queue[Generic] = s.queue[Generic]
    PROVE  Extends(s, n)
BY DEF Extends

LEMMA QueuedExtends ==
    ASSUME NEW s, Core(s), NEW q \in Queue, NEW t \in Tasks, t.type \in TaskType,
           t.type # "Custom" => q = QueueForTaskType(t.type),
           t.type \in Compressed => ~Contains(s.queue[q], t) /\ ~Same(s.current, t),
           q = ChangeReplays => t.type = "ChangeReplay" /\ s.queue[q] = <<>>
    PROVE  Extends(s, Queued(s, q, t))
<1> DEFINE n == Queued(s, q, t)
<1>1. n.current = s.current /\ n.queue = [s.queue EXCEPT ![q] = Append(@, t)]
  BY QueuedSound
<1>2. s.queue \in [Queue -> Seq(Tasks)] /\ Generic \in Queue
  BY QueuePlaces DEF Core, Schedulers
<1> HIDE DEF n
<1>3. CASE q = Generic
  <2>1. n.queue[Generic] = Append(s.queue[Generic], t) /\ s.queue[Generic] \in Seq(Tasks)
    BY <1>1, <1>2, <1>3
  <2>2. \A k \in DOMAIN s.queue[Generic] :
            k \in DOMAIN n.queue[Generic] /\ n.queue[Generic][k] = s.queue[Generic][k]
    BY <2>1
  <2> QED BY <1>1, <2>2 DEF Extends, Same, n
<1>4. CASE q # Generic
  <2>1. n.queue[Generic] = s.queue[Generic]
    BY <1>1, <1>2, <1>4
  <2> QED BY <1>1, <2>1 DEF Extends, Same, n
<1> QED BY <1>3, <1>4

LEMMA ScheduledExtends ==
    ASSUME NEW s, Sound(s), NEW t \in Tasks, t.type \in TaskType \ {"Custom", "ChangeReplay"}
    PROVE  Extends(s, Scheduled(s, t))
<1>1. CASE Contains(s.queue[QueueForTaskType(t.type)], t) \/ Same(s.current, t)
  BY <1>1 DEF Scheduled, Extends, Same
<1>2. CASE ~(Contains(s.queue[QueueForTaskType(t.type)], t) \/ Same(s.current, t))
  BY <1>2, QueuePlaces, QueuedExtends DEF Scheduled, Sound, QueueForTaskType
<1> QED BY <1>1, <1>2

LEMMA ScheduledReplayExtends ==
    ASSUME NEW s, Core(s)
    PROVE  Extends(s, ScheduledReplay(s))
<1> DEFINE t == Task("ChangeReplay", None)
<1>1. CASE Contains(s.queue[ChangeReplays], t)
  BY <1>1 DEF ScheduledReplay, Extends, Same
<1>2. CASE ~Contains(s.queue[ChangeReplays], t)
  <2>1. /\ t \in Tasks /\ t.type = "ChangeReplay" /\ ChangeReplays = QueueForTaskType(t.type)
        /\ t.type \notin Compressed /\ t.type \in TaskType /\ ChangeReplays \in Queue
    BY TaskIsTask, QueuePlaces DEF TaskType, QueueForTaskType, Compressed
  <2>2. ScheduledReplay(s) = Queued(s, ChangeReplays, t)
    BY <1>2 DEF ScheduledReplay
  <2>3. s.queue[ChangeReplays] = <<>>
    BY <1>2, NoReplayWaits
  <2> HIDE DEF t
  <2> QED BY <2>1, <2>2, <2>3, QueuedExtends
<1> QED BY <1>1, <1>2

LEMMA ScheduledCustomExtends ==
    ASSUME NEW s, Sound(s), NEW q \in {Prepend, AfterChangeReplay, Generic}
    PROVE  Extends(s, ScheduledCustom(s, q))
<1> DEFINE t == Task("Custom", None)
<1>1. t \in Tasks /\ t.type = "Custom" /\ t.type \in TaskType /\ t.type \notin Compressed
  BY TaskIsTask DEF TaskType, Compressed
<1>2. Core(s) /\ q \in Queue /\ s \in Schedulers /\ s.queue \in [Queue -> Seq(Tasks)]
      /\ Generic \in Queue /\ Generic # Prepend
  BY DEF Sound, Core, Schedulers, Prepend, AfterChangeReplay, Generic, Queue
<1> HIDE DEF t
<1>3. CASE Contains(s.queue[q], t)
  BY <1>3 DEF ScheduledCustom, Extends, Same, t
<1>4. CASE ~Contains(s.queue[q], t) /\ q = Prepend
  <2> DEFINE n == [s EXCEPT !.queue[q] = <<t>> \o @]
  <2>1. ScheduledCustom(s, q) = ScheduleNext(n)
    BY <1>4 DEF ScheduledCustom, t
  <2>2. n.current = s.current /\ n.queue = [s.queue EXCEPT ![q] = <<t>> \o @]
    BY <1>2 DEF Schedulers
  <2>3. ScheduleNext(n).queue = n.queue /\ ScheduleNext(n).current = n.current
    BY <1>1, <1>2, <1>4 DEF ScheduleNext, Schedulers
  <2> HIDE DEF n
  <2>4. ScheduleNext(n).queue[Generic] = s.queue[Generic]
    BY <1>2, <1>4, <2>2, <2>3
  <2> QED BY <2>1, <2>2, <2>3, <2>4, SameGenericExtends DEF Same
<1>5. CASE ~Contains(s.queue[q], t) /\ q # Prepend
  BY <1>1, <1>2, <1>5, QueuedExtends, ReplayPlace DEF ScheduledCustom, t
<1> QED BY <1>3, <1>4, <1>5

LEMMA ScheduledSyncsExtends ==
    ASSUME NEW s, Sound(s), NEW list \in Seq(Collection),
           \A i, j \in DOMAIN list : i # j => list[i] # list[j],
           NEW n \in ScheduledSyncs(s, list)
    PROVE  Extends(s, n)
<1> DEFINE Sync(c) == Task("SyncCollection", c)
           fresh == {k \in DOMAIN list : ~Contains(s.queue[Generic], Sync(list[k]))
                                         /\ ~Same(s.current, Sync(list[k]))}
<1>1. PICK new \in Sublist(list, fresh) :
          n = [s EXCEPT !.queue[Generic] = @ \o [k \in DOMAIN new |-> Sync(new[k])],
                        !.posted = @ + IF Busy(s) \/ ~s.online THEN 0 ELSE Len(new)]
  BY DEF ScheduledSyncs
<1>2. fresh \in SUBSET DOMAIN list
  OBVIOUS
<1> HIDE DEF fresh
<1>3. new \in Seq(Collection)
  BY <1>1, <1>2, SublistType
<1> DEFINE rest == [k \in DOMAIN new |-> Sync(new[k])]
           m == IF Busy(s) \/ ~s.online THEN 0 ELSE Len(new)
<1>4. n = [s EXCEPT !.queue[Generic] = @ \o rest, !.posted = @ + m]
  BY <1>1
<1>5. rest \in Seq(Tasks)
  <2>1. rest \in [1 .. Len(new) -> Tasks] /\ Len(new) \in Nat
    BY <1>3, TaskIsTask DEF TaskType
  <2> QED BY <2>1
<1> HIDE DEF rest, m
<1>6. s \in Schedulers /\ s.queue \in [Queue -> Seq(Tasks)] /\ Generic \in Queue
  BY QueuePlaces DEF Sound, Core, Schedulers
<1>7. n.current = s.current /\ n.queue = [s.queue EXCEPT ![Generic] = @ \o rest]
  BY <1>4, <1>6 DEF Schedulers
<1>8. n.queue[Generic] = s.queue[Generic] \o rest /\ s.queue[Generic] \in Seq(Tasks)
  BY <1>6, <1>7
<1>9. \A k \in DOMAIN s.queue[Generic] :
          k \in DOMAIN n.queue[Generic] /\ n.queue[Generic][k] = s.queue[Generic][k]
  BY <1>5, <1>8
<1> QED BY <1>7, <1>9 DEF Extends, Same

LEMMA ScheduledFetchExtends ==
    ASSUME NEW s, Sound(s), NEW i \in Item, NEW r \in Request
    PROVE  Extends(s, ScheduledFetch(s, i, r))
<1> DEFINE t == Task("FetchItem", i)
<1>1. /\ s \in Schedulers /\ s.queue \in [Queue -> Seq(Tasks)] /\ s.current \in Tasks /\ Core(s)
      /\ Generic \in Queue /\ ItemFetches \in Queue /\ Generic # ItemFetches
  BY QueuePlaces DEF Sound, Core, Schedulers, Generic, ItemFetches
<1>2. CASE Same(s.current, t)
  <2>1. ScheduledFetch(s, i, r) = [s EXCEPT !.current.msgs = @ \cup {r}]
    BY <1>2 DEF ScheduledFetch
  <2> DEFINE u == [s.current EXCEPT !.msgs = @ \cup {r}]
             n == [s EXCEPT !.current = u]
  <2>2. u.type = s.current.type /\ u.arg = s.current.arg
    BY <1>1 DEF Tasks
  <2>3. ScheduledFetch(s, i, r) = n
    BY <2>1
  <2> HIDE DEF u
  <2>4. n.current = u /\ n.queue = s.queue
    BY <1>1 DEF Schedulers
  <2> HIDE DEF n
  <2> QED BY <2>2, <2>3, <2>4, SameGenericExtends DEF Same
<1>3. CASE ~Same(s.current, t) /\ Contains(s.queue[ItemFetches], t)
  <2> DEFINE list == Joined(s.queue[ItemFetches], t, r)
             n == [s EXCEPT !.queue[ItemFetches] = list]
  <2>1. ScheduledFetch(s, i, r) = n
    BY <1>3 DEF ScheduledFetch
  <2> HIDE DEF list
  <2>2. n.current = s.current /\ n.queue = [s.queue EXCEPT ![ItemFetches] = list]
    BY <1>1 DEF Schedulers
  <2> HIDE DEF n
  <2>3. n.queue[Generic] = s.queue[Generic]
    BY <1>1, <2>2
  <2> QED BY <2>1, <2>2, <2>3, SameGenericExtends DEF Same
<1>4. CASE ~Same(s.current, t) /\ ~Contains(s.queue[ItemFetches], t)
  <2> DEFINE u == [t EXCEPT !.msgs = {r}]
  <2>1. /\ u \in Tasks /\ u.type = "FetchItem" /\ ItemFetches = QueueForTaskType("FetchItem")
        /\ Same(u, t) /\ u.type \in TaskType
    BY TaskIsTask DEF TaskType, QueueForTaskType, Tasks, Same
  <2>2. ScheduledFetch(s, i, r) = Queued(s, ItemFetches, u)
    BY <1>4 DEF ScheduledFetch
  <2> HIDE DEF u, t
  <2>3. ~Contains(s.queue[ItemFetches], u) /\ ~Same(s.current, u)
    BY <1>4, <2>1 DEF Contains, Same
  <2> QED BY <1>1, <2>1, <2>2, <2>3, QueuedExtends, ReplayPlace
<1> QED BY <1>2, <1>3, <1>4

\* The current task is put back: a sync is the next one again.
LEMMA PutFrontSync ==
    ASSUME NEW s, Core(s), NEW q \in Queue, NEW n, NEW c, SyncIs(s, c),
           s.current.type = "SyncCollection" => q = Generic,
           n.queue = [s.queue EXCEPT ![q] = <<s.current>> \o @], n.current = NoTask
    PROVE  SyncIs(n, c)
<1> DEFINE list == s.queue[Generic]
           more == n.queue[Generic]
<1>1. s.queue \in [Queue -> Seq(Tasks)] /\ s.current \in Tasks /\ list \in Seq(Tasks) /\ Generic \in Queue
  BY QueuePlaces DEF Core, Schedulers
<1>2. n.current.type # "SyncCollection"
  BY NoTaskIsTask
<1>3. CASE q # Generic
  <2>1. more = list
    BY <1>1, <1>3
  <2> QED BY <1>2, <1>3, <2>1 DEF SyncIs
<1>4. CASE q = Generic
  <2>1. more = <<s.current>> \o list
    BY <1>1, <1>4
  <2> HIDE DEF more, list
  <2>2. /\ 1 \in DOMAIN more /\ more[1] = s.current
        /\ \A k \in DOMAIN list : k + 1 \in DOMAIN more /\ more[k + 1] = list[k]
        /\ \A k \in DOMAIN more : k > 1 => k - 1 \in DOMAIN list /\ more[k] = list[k - 1]
    BY <1>1, <2>1
  <2>3. CASE s.current.type = "SyncCollection"
    <3>1. s.current.arg = c
      BY <2>3 DEF SyncIs
    <3>2. FirstSync(more, c)
      BY <2>2, <2>3, <3>1 DEF FirstSync
    <3> QED BY <1>2, <3>2 DEF SyncIs, more
  <2>4. CASE s.current.type # "SyncCollection"
    <3>1. PICK k \in DOMAIN list : /\ list[k].type = "SyncCollection" /\ list[k].arg = c
                                   /\ \A j \in 1 .. k - 1 : list[j].type # "SyncCollection"
      BY <2>4 DEF SyncIs, FirstSync, list
    <3>2. k \in Nat /\ k > 0 /\ DOMAIN list = 1 .. Len(list) /\ Len(list) \in Nat
      BY <1>1
    <3>3. ASSUME NEW j \in 1 .. (k + 1) - 1
          PROVE  more[j].type # "SyncCollection"
      <4>1. CASE j = 1
        BY <2>2, <2>4, <4>1
      <4>2. CASE j > 1
        <5>1. j - 1 \in 1 .. k - 1 /\ j - 1 \in DOMAIN list /\ (j - 1) + 1 = j
          BY <3>2, <4>2
        <5> QED BY <2>2, <3>1, <5>1
      <4> QED BY <4>1, <4>2
    <3>4. FirstSync(more, c)
      BY <2>2, <3>1, <3>3 DEF FirstSync
    <3> QED BY <1>2, <3>4 DEF SyncIs, more
  <2> QED BY <2>3, <2>4
<1> QED BY <1>3, <1>4

\* executeNext() takes the next sync, or another task.
LEMMA TakenSync ==
    ASSUME NEW s, Core(s), ~Busy(s), ~IsEmpty(s), NEW c, SyncIs(s, c)
    PROVE  SyncIs(Taken(s), c)
<1> DEFINE n == Taken(s)
           list == s.queue[Generic]
<1>1. PICK q \in Queue : /\ s.queue[q] # <<>> /\ n.current = Head(s.queue[q])
                         /\ n.queue = [s.queue EXCEPT ![q] = Tail(@)]
  BY TakenSound
<1>2. s.queue \in [Queue -> Seq(Tasks)] /\ list \in Seq(Tasks) /\ Generic \in Queue
  BY QueuePlaces DEF Core, Schedulers
<1>3. Head(s.queue[q]) = s.queue[q][1] /\ 1 \in DOMAIN s.queue[q]
  BY <1>1, <1>2
<1>4. PICK k \in DOMAIN list : /\ list[k].type = "SyncCollection" /\ list[k].arg = c
                               /\ \A j \in 1 .. k - 1 : list[j].type # "SyncCollection"
  BY DEF SyncIs, FirstSync, Busy
<1>5. k \in Nat /\ k > 0 /\ DOMAIN list = 1 .. Len(list) /\ Len(list) \in Nat
  BY <1>2
<1> HIDE DEF n
<1>6. CASE q = Generic /\ k = 1
  BY <1>1, <1>3, <1>4, <1>6 DEF SyncIs, n
<1>7. CASE q = Generic /\ k # 1
  <2>1. n.queue[Generic] = Tail(list) /\ n.current = list[1]
    BY <1>1, <1>2, <1>3, <1>7
  <2>2. n.current.type # "SyncCollection"
    BY <1>4, <1>5, <1>7, <2>1
  <2> HIDE DEF list
  <2>3. list # <<>> /\ \A j \in 1 .. k - 1 : Tail(list)[j] = list[j + 1] /\ j \in DOMAIN Tail(list)
    BY <1>2, <1>5
  <2>4. k - 1 \in DOMAIN Tail(list) /\ Tail(list)[k - 1] = list[k]
    BY <1>5, <1>7, <2>3
  <2>5. \A j \in 1 .. (k - 1) - 1 : Tail(list)[j].type # "SyncCollection"
    <3> TAKE j \in 1 .. (k - 1) - 1
    <3>1. j \in 1 .. k - 1 /\ j + 1 \in 1 .. k - 1
      BY <1>5
    <3> QED BY <1>4, <2>3, <3>1
  <2>6. FirstSync(Tail(list), c)
    BY <1>4, <2>4, <2>5 DEF FirstSync
  <2> QED BY <2>1, <2>2, <2>6 DEF SyncIs, n
<1>8. CASE q # Generic
  <2>1. n.queue[Generic] = list
    BY <1>1, <1>2, <1>8
  <2>2. n.current.type # "SyncCollection"
    BY <1>1, <1>3, <1>8 DEF Core, Placed, QueueForTaskType
  <2> QED BY <2>1, <2>2 DEF SyncIs, Busy, n
<1> QED BY <1>6, <1>7, <1>8

\* A step after which the same task is the current one, or it is put in front.
LEMMA SameFits ==
    ASSUME IInv, SyncInv, Same(sched.current, sched'.current) \/ job' \notin {"items", "sync"},
           \A c : SyncIs(sched, c) => SyncIs(sched', c),
           \/ job' = job \/ job' \notin {"items", "sync"} \/ job = "items",
           opened' = opened, mishaps \subseteq mishaps',
           \/ syncer' = syncer
           \/ syncer # NoSyncer /\ syncer' = [syncer EXCEPT !.delivered = TRUE]
    PROVE  SyncInv'
<1>1. SyncOpened'
  BY DEF SyncInv, SyncOpened, Same
<1>2. (syncer' # NoSyncer => syncer # NoSyncer) /\ syncer'.of = syncer.of
  BY DEF IInv, WorkOK
<1>3. \A c : SyncIs(sched', c) <=> SyncIs(sched, c)'
  BY DEF SyncIs, FirstSync
<1>4. ASSUME syncer' # NoSyncer, mishaps' = {}
      PROVE  syncer'.of \notin Hollow /\ SyncIs(sched', syncer'.of)
  BY <1>2, <1>4 DEF SyncInv, SyncerNext
<1>5. SyncerNext'
  BY <1>4 DEF SyncerNext, SyncIs, FirstSync
<1> QED BY <1>1, <1>5 DEF SyncInv

\* The current task, which is no sync with a syncer, ends.
LEMMA EndFits ==
    ASSUME SyncInv, NEW n, Core(n), sched' = TaskDone(n),
           syncer # NoSyncer /\ mishaps' = {} =>
               SyncIs(n, syncer.of) /\ n.current.type # "SyncCollection",
           job' \notin {"items", "sync"}, mishaps \subseteq mishaps',
           syncer' = syncer
    PROVE  SyncInv'
<1>1. sched'.queue = n.queue /\ sched'.current.type = "Invalid"
  BY TaskDoneSound, NoTaskIsTask
<1>2. SyncOpened'
  BY DEF SyncOpened
<1>3. ASSUME syncer' # NoSyncer, mishaps' = {}
      PROVE  syncer'.of \notin Hollow /\ SyncIs(sched', syncer'.of)
  <2>1. syncer.of \notin Hollow
    BY <1>3 DEF SyncInv, SyncerNext
  <2>2. SyncIs(n, syncer.of) /\ n.current.type # "SyncCollection"
    BY <1>3
  <2> QED BY <1>1, <2>1, <2>2 DEF SyncIs
<1>4. SyncerNext'
  BY <1>3 DEF SyncerNext, SyncIs, FirstSync
<1> QED BY <1>2, <1>4 DEF SyncInv

\* ... by an answer, when it may be the task of another job
LEMMA AnswerFits ==
    ASSUME IInv, SyncInv, NEW k \in Loose, NEW stray \in BOOLEAN,
           Answers(k, stray), GoesOn(k, stray, "none"), k # "items" \/ syncer = NoSyncer,
           NEW n, Core(n), Extends(sched, n), sched' = TaskDone(n), syncer' = syncer
    PROVE  SyncInv'
<1>1. /\ mishaps \subseteq mishaps' /\ (~stray => job = k /\ job' = "none")
      /\ stray => job' = IF Busy(sched) /\ ~Busy(sched') THEN "none" ELSE job
      /\ stray /\ Busy(sched) => "stray" \in mishaps'
  BY GoesOnBooks
<1>2. ~Busy(sched') /\ JobFits /\ (~Busy(sched) => job = "none") /\ Core(sched)
  BY TaskDoneSound, BusyTypes DEF IInv, JobFits
<1>3. job' = "none"
  BY <1>1, <1>2
<1>4. ASSUME syncer # NoSyncer, mishaps' = {}
      PROVE  SyncIs(n, syncer.of) /\ n.current.type # "SyncCollection"
  <2>1. SyncIs(sched, syncer.of)
    BY <1>1, <1>4 DEF SyncInv, SyncerNext
  <2>2. sched.current.type # "SyncCollection"
    <3>1. CASE stray
      BY <1>1, <1>4, <3>1 DEF Busy
    <3>2. CASE ~stray
      BY <1>1, <1>2, <1>4, <3>2 DEF JobFits, Loose, Job
    <3> QED BY <3>1, <3>2
  <2> QED BY <1>2, <2>1, <2>2, ExtendsSync DEF Extends, Same
<1> QED BY <1>1, <1>3, <1>4, EndFits

LEMMA ChangeProcessedExtends ==
    ASSUME IInv, ChangeProcessed
    PROVE  \E n : Core(n) /\ Extends(sched, n) /\ sched' = TaskDone(n)
<1>1. Sound(sched) /\ Core(sched) /\ Extends(sched, sched)
  BY DEF IInv, Sound, Extends, Same
<1>2. CASE changes' = 0
  BY <1>1, <1>2 DEF ChangeProcessed
<1>3. CASE changes' # 0
  <2>1. sched' = TaskDone(ScheduledReplay(sched))
    BY <1>3 DEF ChangeProcessed
  <2>2. Core(ScheduledReplay(sched)) /\ Extends(sched, ScheduledReplay(sched))
    BY <1>1, ScheduledReplaySound, ScheduledReplayExtends DEF Grown, Sound
  <2> QED BY <2>1, <2>2
<1> QED BY <1>2, <1>3

\* cancelTask() leaves a sync to its syncer, if there is one.
LEMMA CancelledSyncs ==
    ASSUME IInv, Cancelled
    PROVE  \/ /\ sched' = sched
              /\ \/ syncer' = syncer
                 \/ syncer # NoSyncer /\ syncer' = [syncer EXCEPT !.delivered = TRUE]
           \/ /\ syncer' = syncer
              /\ syncer = NoSyncer \/ sched.current.type # "SyncCollection"
              /\ \E n : Core(n) /\ Extends(sched, n) /\ sched' = TaskDone(n)
<1> DEFINE type == sched.current.type
<1>1. Core(sched) /\ Extends(sched, sched)
  BY BusyTypes DEF Extends, Same
<1>2. CASE type = "FetchItem"
  <2>1. syncer' = syncer /\ sched' = TaskDone(sched)
    BY <1>2 DEF Cancelled, FetchCancelled
  <2> QED BY <1>1, <1>2, <2>1
<1>3. CASE type = "ChangeReplay"
  <2>1. ChangeProcessed /\ syncer' = syncer
    BY <1>3 DEF Cancelled
  <2> QED BY <1>3, <2>1, ChangeProcessedExtends
<1>4. CASE \/ type \in {"SyncAll", "SyncCollectionTree"} /\ tree # "none"
           \/ type = "SyncCollection" /\ syncer # NoSyncer
  BY <1>4 DEF Cancelled
<1>5. CASE /\ type \notin {"FetchItem", "ChangeReplay"}
           /\ ~(type \in {"SyncAll", "SyncCollectionTree"} /\ tree # "none")
           /\ ~(type = "SyncCollection" /\ syncer # NoSyncer)
  <2>1. sched' = TaskDone(sched) /\ syncer' = syncer
    BY <1>5 DEF Cancelled
  <2> QED BY <1>1, <1>5, <2>1
<1> QED BY <1>2, <1>3, <1>4, <1>5

\* The requests.
LEMMA RequestsFit ==
    ASSUME IInv, SyncInv, Requests
    PROVE  SyncInv'
<1>1. Sound(sched) /\ Core(sched) /\ sched \in Schedulers
  BY BusyTypes DEF IInv
<1>2. ASSUME Extends(sched, sched'), job' = job, opened' = opened, syncer' = syncer,
             mishaps \subseteq mishaps'
      PROVE  SyncInv'
  <2>1. \A c : SyncIs(sched, c) => SyncIs(sched', c)
    BY <1>1, <1>2, ExtendsSync
  <2> QED BY <1>2, <2>1, SameFits DEF Extends
<1>3. ASSUME NEW s, Asked(s), Extends(sched, s)
      PROVE  SyncInv'
  BY <1>2, <1>3 DEF Asked, workVars
<1>4. \A type \in TaskType \ {"SyncCollection", "ChangeReplay", "Custom"},
         arg \in Collection \cup {None} :
          Extends(sched, Scheduled(sched, Task(type, arg)))
  BY <1>1, TaskIsTask, ScheduledExtends
<1>5. CASE Synchronize \/ SynchronizeCollectionTree \/ ClearCache
  BY <1>3, <1>4, <1>5 DEF Synchronize, SynchronizeCollectionTree, ClearCache, TaskType
<1>6. ASSUME NEW c \in Collection, SynchronizeCollectionAttributes(c) \/ InvalidateCache(c)
      PROVE  SyncInv'
  BY <1>3, <1>4, <1>6 DEF SynchronizeCollectionAttributes, InvalidateCache, TaskType
<1>7. CASE SynchronizeCollection
  <2>1. PICK list \in Listings \cup {<<c>> : c \in Collection} :
            \E s \in ScheduledSyncs(sched, list) : Asked(s)
    BY <1>7 DEF SynchronizeCollection
  <2>2. list \in Seq(Collection) /\ \A i, j \in DOMAIN list : i # j => list[i] # list[j]
    BY <2>1, ListingsAreLists
  <2> QED BY <1>1, <1>3, <2>1, <2>2, ScheduledSyncsExtends
<1>8. ASSUME NEW c \in Collection, CollectionRemoved(c)
      PROVE  SyncInv'
  <2>1. PICK rest : sched' = [sched EXCEPT !.queue[Generic] = rest]
    BY <1>8 DEF CollectionRemoved
  <2>2. sched'.current = sched.current
    BY <1>1, <2>1 DEF Schedulers
  <2>3. job' = job /\ opened' = opened /\ mishaps' # {}
    BY <1>8 DEF CollectionRemoved, workVars
  <2> QED BY <2>2, <2>3 DEF SyncInv, SyncOpened, SyncerNext
<1>9. ASSUME NEW q \in {Prepend, AfterChangeReplay, Generic}, ScheduleCustomTask(q)
      PROVE  SyncInv'
  BY <1>1, <1>3, <1>9, ScheduledCustomExtends DEF ScheduleCustomTask
<1>10. CASE ChangeAdded
  <2>1. /\ sched' = ScheduledReplay(sched)
        /\ job' = job /\ opened' = opened /\ syncer' = syncer /\ mishaps' = mishaps
    BY <1>10 DEF ChangeAdded
  <2> QED BY <1>1, <1>2, <2>1, ScheduledReplayExtends
<1>11. ASSUME NEW r \in Request, NEW i \in Item, RequestItemDelivery(r, i)
       PROVE  SyncInv'
  <2>1. /\ sched' = ScheduledFetch(sched, i, r) \/ sched' = sched
        /\ job' = job /\ opened' = opened /\ syncer' = syncer /\ mishaps' = mishaps
    BY <1>11 DEF RequestItemDelivery, workVars
  <2>2. Extends(sched, sched) /\ Extends(sched, ScheduledFetch(sched, i, r))
    BY <1>1, ScheduledFetchExtends DEF Extends, Same
  <2> QED BY <1>2, <2>1, <2>2
<1> QED BY <1>5, <1>6, <1>7, <1>8, <1>9, <1>10, <1>11 DEF Requests

\* executeNext(): a sync that runs is that of the syncer left behind.
LEMMA ExecuteNextFits ==
    ASSUME IInv, SyncInv, ExecuteNext
    PROVE  SyncInv'
<1> DEFINE s == [sched EXCEPT !.posted = @ - 1]
           t == Taken(s).current
<1>1. Core(sched) /\ sched \in Schedulers
  BY BusyTypes
<1>2. sched.posted > 0 /\ syncer' = syncer /\ mishaps' = mishaps
  BY DEF ExecuteNext
<1>3. /\ s \in Schedulers /\ s.queue = sched.queue /\ s.current = sched.current
      /\ s.origin = sched.origin
  BY <1>1, <1>2 DEF Schedulers
<1>4. IF Busy(s) \/ IsEmpty(s) THEN sched' = s /\ job' = job /\ opened' = opened
      ELSE /\ opened' = IF t.type = "SyncCollection" THEN t.arg ELSE opened
           /\ \/ /\ sched' = Taken(s)
                 /\ job' \in {"items", "sync"} =>
                        t.type = "SyncCollection" /\ t.arg \notin Hollow
              \/ /\ sched' = TaskDone(Taken(s)) /\ job' = job
                 /\ t.type = "SyncCollection" => t.arg \in Hollow
  BY DEF ExecuteNext
<1> HIDE DEF s
<1>5. Core(s) /\ \A c : SyncIs(sched, c) => SyncIs(s, c)
  BY <1>1, <1>3 DEF Core, Placed, Once, Few, Busy, SyncIs
<1>6. CASE Busy(s) \/ IsEmpty(s)
  BY <1>2, <1>3, <1>4, <1>5, <1>6, SameFits DEF Same
<1>7. CASE ~(Busy(s) \/ IsEmpty(s))
  <2> DEFINE n == Taken(s)
  <2>1. Core(n) /\ \A c : SyncIs(s, c) => SyncIs(n, c)
    BY <1>5, <1>7, TakenSound, TakenSync DEF Sound
  <2>2. job = "none"
    BY <1>3, <1>7 DEF IInv, JobFits, Busy
  <2>3. ASSUME syncer # NoSyncer, mishaps = {}
        PROVE  syncer.of \notin Hollow /\ SyncIs(n, syncer.of)
    BY <1>5, <2>1, <2>3 DEF SyncInv, SyncerNext
  <2> HIDE DEF n
  <2>4. CASE /\ sched' = n
             /\ job' \in {"items", "sync"} => t.type = "SyncCollection" /\ t.arg \notin Hollow
    <3>1. SyncOpened'
      BY <1>4, <1>7, <2>4 DEF SyncOpened, n
    <3>2. SyncerNext'
      BY <1>2, <2>3, <2>4 DEF SyncerNext, SyncIs, FirstSync
    <3> QED BY <3>1, <3>2 DEF SyncInv
  <2>5. CASE /\ sched' = TaskDone(n) /\ job' = job
             /\ t.type = "SyncCollection" => t.arg \in Hollow
    <3>1. syncer # NoSyncer /\ mishaps' = {} =>
              SyncIs(n, syncer.of) /\ n.current.type # "SyncCollection"
      BY <1>2, <2>3, <2>5 DEF SyncIs, n
    <3> QED BY <1>2, <2>1, <2>2, <2>5, <3>1, EndFits
  <2> QED BY <1>4, <1>7, <2>4, <2>5 DEF n
<1> QED BY <1>6, <1>7

\* Jobs are answered.
LEMMA WorkFits ==
    ASSUME IInv, SyncInv, Work
    PROVE  SyncInv'
<1>1. /\ Sound(sched) /\ Core(sched) /\ sched \in Schedulers /\ WorkOK /\ JobFits
      /\ Extends(sched, sched)
  BY BusyTypes DEF IInv, Extends, Same
<1>2. Loose = {"prepare", "retrieve", "store", "collections", "list", "items", "plain", "replay"}
  BY DEF Loose, Job
\* a step that leaves the scheduler alone
<1>3. ASSUME sched' = sched, opened' = opened, mishaps \subseteq mishaps',
             \/ job' = job \/ job' \notin {"items", "sync"} \/ job = "items",
             \/ syncer' = syncer
             \/ syncer # NoSyncer /\ syncer' = [syncer EXCEPT !.delivered = TRUE]
      PROVE  SyncInv'
  BY <1>3, SameFits DEF Same
\* an answer that leaves it alone
<1>4. ASSUME NEW k \in Loose, NEW stray \in BOOLEAN, NEW next \in Job \cup {"none"},
             Answers(k, stray), GoesOn(k, stray, next), sched' = sched, opened' = opened,
             next \notin {"items", "sync"} \/ k = "items",
             \/ syncer' = syncer
             \/ syncer # NoSyncer /\ syncer' = [syncer EXCEPT !.delivered = TRUE]
      PROVE  SyncInv'
  <2>1. /\ mishaps \subseteq mishaps' /\ (~stray => job = k /\ job' = next)
        /\ stray => job' = IF Busy(sched) /\ ~Busy(sched') THEN "none" ELSE job
    BY <1>4, GoesOnBooks
  <2>2. job' = job \/ job' \notin {"items", "sync"} \/ job = "items"
    BY <1>4, <2>1
  <2> QED BY <1>3, <1>4, <2>1, <2>2
\* one that ends the task
<1>5. ASSUME NEW k \in Loose \ {"items"}, NEW stray \in BOOLEAN, Answers(k, stray),
             GoesOn(k, stray, "none"), sched' = TaskDone(sched), syncer' = syncer
      PROVE  SyncInv'
  BY <1>1, <1>5, AnswerFits
<1>6. ASSUME NEW stray \in BOOLEAN, PrepareItemRetrievalResult(stray) PROVE SyncInv'
  <2>1. Answers("prepare", stray) /\ opened' = opened
    BY <1>6 DEF PrepareItemRetrievalResult
  <2>2. CASE Cancelled /\ GoesOn("prepare", stray, "none")
    <3>1. CASE /\ sched' = sched
               /\ \/ syncer' = syncer
                  \/ syncer # NoSyncer /\ syncer' = [syncer EXCEPT !.delivered = TRUE]
      BY <1>2, <1>4, <2>1, <2>2, <3>1
    <3>2. CASE /\ syncer' = syncer
               /\ \E n : Core(n) /\ Extends(sched, n) /\ sched' = TaskDone(n)
      <4>1. PICK n : Core(n) /\ Extends(sched, n) /\ sched' = TaskDone(n)
        BY <3>2
      <4> QED BY <1>2, <2>1, <2>2, <3>2, <4>1, AnswerFits
    <3> QED BY <2>2, <3>1, <3>2, CancelledSyncs
  <2>3. CASE UNCHANGED <<sched, status, changes, syncer, tree>> /\ GoesOn("prepare", stray, "retrieve")
    BY <1>2, <1>4, <2>1, <2>3 DEF Job
  <2> QED BY <1>6, <2>2, <2>3 DEF PrepareItemRetrievalResult
<1>7. ASSUME NEW stray \in BOOLEAN, ItemRetrieved(stray) PROVE SyncInv'
  <2>1. Answers("retrieve", stray) /\ opened' = opened /\ syncer' = syncer
    BY <1>7 DEF ItemRetrieved
  <2>2. \/ sched' = TaskDone(sched) /\ GoesOn("retrieve", stray, "none")
        \/ sched' = sched /\ GoesOn("retrieve", stray, "store")
    BY <1>7 DEF ItemRetrieved, FetchCancelled
  <2> QED BY <1>2, <1>4, <1>5, <2>1, <2>2 DEF Job
<1>8. ASSUME NEW stray \in BOOLEAN, DeliveryDone(stray) PROVE SyncInv'
  <2>1. /\ Answers("store", stray) /\ GoesOn("store", stray, "none")
        /\ sched' = TaskDone(sched) /\ syncer' = syncer
    BY <1>8 DEF DeliveryDone, workVars
  <2> QED BY <1>2, <1>5, <2>1
<1>9. ASSUME NEW stray \in BOOLEAN, CollectionsRetrievalDone(stray) PROVE SyncInv'
  <2>1. Answers("collections", stray) /\ opened' = opened /\ syncer' = syncer
    BY <1>9 DEF CollectionsRetrievalDone
  <2>2. \/ sched' = TaskDone(sched) /\ GoesOn("collections", stray, "none")
        \/ sched' = sched /\ GoesOn("collections", stray, "tree")
    BY <1>9 DEF CollectionsRetrievalDone
  <2> QED BY <1>2, <1>4, <1>5, <2>1, <2>2 DEF Job
<1>10. ASSUME NEW stray \in BOOLEAN, LocalListDone(stray) PROVE SyncInv'
  <2>1. Answers("list", stray) /\ GoesOn("list", stray, "none") /\ syncer' = syncer
    BY <1>10 DEF LocalListDone, workVars
  <2>2. CASE sched' = TaskDone(sched)
    BY <1>2, <1>5, <2>1, <2>2
  <2>3. CASE \E list \in Listings : \E s \in ScheduledSyncs(sched, list) :
                 sched' = TaskDone(Queued(s, Generic, Task("SyncAllDone", None)))
    <3> DEFINE t == Task("SyncAllDone", None)
    <3>1. PICK list \in Listings : \E s \in ScheduledSyncs(sched, list) :
              sched' = TaskDone(Queued(s, Generic, t))
      BY <2>3
    <3>2. PICK s \in ScheduledSyncs(sched, list) : sched' = TaskDone(Queued(s, Generic, t))
      BY <3>1
    <3>3. Core(s) /\ Extends(sched, s)
      BY <1>1, <3>1, ListingsAreLists, ScheduledSyncsSound, ScheduledSyncsExtends DEF Grown, Sound
    <3>4. /\ t \in Tasks /\ t.type = "SyncAllDone" /\ t.type \in TaskType
          /\ t.type \notin Compressed /\ Generic = QueueForTaskType(t.type) /\ Generic \in Queue
      BY TaskIsTask, QueuePlaces DEF TaskType, Compressed, QueueForTaskType
    <3> DEFINE n == Queued(s, Generic, t)
    <3> HIDE DEF t
    <3>5. Core(n) /\ Extends(s, n)
      BY <3>3, <3>4, QueuedSound, QueuedExtends, ReplayPlace DEF Sound
    <3>6. sched' = TaskDone(n)
      BY <3>2
    <3> HIDE DEF n
    <3>7. Extends(sched, n)
      BY <3>3, <3>5, ExtendsTrans
    <3> QED BY <1>2, <2>1, <3>5, <3>6, <3>7, AnswerFits
  <2> QED BY <1>10, <2>2, <2>3 DEF LocalListDone
<1>11. ASSUME NEW stray \in BOOLEAN, ItemsRetrieved(stray) PROVE SyncInv'
  <2>1. /\ Answers("items", stray) /\ sched' = sched /\ job' = job /\ opened' = opened
        /\ syncer' = [of |-> opened, delivered |-> FALSE]
        /\ mishaps' = IF stray THEN mishaps \cup {"unasked"} ELSE mishaps
    BY <1>11 DEF ItemsRetrieved
  <2>2. SyncOpened'
    BY <2>1 DEF SyncInv, SyncOpened
  <2>3. ASSUME mishaps' = {}
        PROVE  opened \notin Hollow /\ SyncIs(sched, opened)
    <3>1. job = "items"
      BY <2>1, <2>3 DEF Answers
    <3> QED BY <1>1, <3>1 DEF JobFits, SyncInv, SyncOpened, SyncIs
  <2>4. SyncerNext'
    BY <2>1, <2>3 DEF SyncerNext, SyncIs, FirstSync
  <2> QED BY <2>2, <2>4 DEF SyncInv
<1>12. ASSUME NEW stray \in BOOLEAN, ItemsRetrievalDone(stray) PROVE SyncInv'
  <2>1. Answers("items", stray) /\ opened' = opened
    BY <1>12 DEF ItemsRetrievalDone
  <2>2. CASE syncer = NoSyncer
    BY <1>1, <1>2, <1>12, <2>1, <2>2, AnswerFits DEF ItemsRetrievalDone
  <2>3. CASE syncer # NoSyncer
    BY <1>2, <1>4, <1>12, <2>1, <2>3 DEF ItemsRetrievalDone, Job
  <2> QED BY <2>2, <2>3
<1>13. ASSUME NEW stray \in BOOLEAN, PlainDone(stray) PROVE SyncInv'
  <2>1. /\ Answers("plain", stray) /\ GoesOn("plain", stray, "none")
        /\ sched' = TaskDone(sched) /\ syncer' = syncer
    BY <1>13 DEF PlainDone, workVars
  <2> QED BY <1>2, <1>5, <2>1
<1>14. ASSUME NEW stray \in BOOLEAN, Replayed(stray) PROVE SyncInv'
  <2>1. /\ Answers("replay", stray) /\ GoesOn("replay", stray, "none")
        /\ ChangeProcessed /\ syncer' = syncer
    BY <1>14 DEF Replayed
  <2>2. PICK n : Core(n) /\ Extends(sched, n) /\ sched' = TaskDone(n)
    BY <2>1, ChangeProcessedExtends
  <2> QED BY <1>2, <2>1, <2>2, AnswerFits
<1>15. CASE CollectionsRetrieved
  BY <1>3, <1>15 DEF CollectionsRetrieved
<1>16. CASE CollectionSyncDone
  <2>1. /\ opened' = opened /\ syncer' = syncer
        /\ mishaps' = IF job # "tree" /\ Busy(sched) THEN mishaps \cup {"stray"} ELSE mishaps
        /\ \/ sched' = TaskDone(sched) /\ job' = "none"
           \/ sched' = sched /\ job' \in {job, "list"}
           \/ /\ sched' = TaskDone(Queued(sched, Generic, Task("SyncCollectionTreeDone", None)))
              /\ job' = "none"
    BY <1>16 DEF CollectionSyncDone
  <2>2. CASE sched' = sched /\ job' \in {job, "list"}
    BY <1>3, <2>1, <2>2
  <2>3. ASSUME NEW n, Core(n), Extends(sched, n), sched' = TaskDone(n), job' = "none"
        PROVE  SyncInv'
    <3>1. ASSUME syncer # NoSyncer, mishaps' = {}
          PROVE  SyncIs(n, syncer.of) /\ n.current.type # "SyncCollection"
      <4>1. mishaps = {} /\ (job = "tree" \/ ~Busy(sched))
        BY <2>1, <3>1
      <4>2. sched.current.type # "SyncCollection"
        BY <1>1, <4>1 DEF JobFits, Busy
      <4>3. SyncIs(sched, syncer.of)
        BY <3>1, <4>1 DEF SyncInv, SyncerNext
      <4> QED BY <1>1, <2>3, <4>2, <4>3, ExtendsSync DEF Extends, Same
    <3> QED BY <2>1, <2>3, <3>1, EndFits
  <2>4. CASE sched' = TaskDone(sched) /\ job' = "none"
    BY <1>1, <2>3, <2>4
  <2>5. CASE /\ sched' = TaskDone(Queued(sched, Generic, Task("SyncCollectionTreeDone", None)))
             /\ job' = "none"
    <3> DEFINE t == Task("SyncCollectionTreeDone", None)
               n == Queued(sched, Generic, t)
    <3>1. /\ t \in Tasks /\ t.type = "SyncCollectionTreeDone" /\ t.type \in TaskType
          /\ t.type \notin Compressed /\ Generic = QueueForTaskType(t.type) /\ Generic \in Queue
      BY TaskIsTask, QueuePlaces DEF TaskType, Compressed, QueueForTaskType
    <3>2. sched' = TaskDone(n)
      BY <2>5
    <3> HIDE DEF t
    <3>3. Core(n) /\ Extends(sched, n)
      BY <1>1, <3>1, QueuedSound, QueuedExtends, ReplayPlace DEF Sound
    <3> HIDE DEF n
    <3> QED BY <2>3, <2>5, <3>2, <3>3
  <2> QED BY <2>1, <2>2, <2>4, <2>5
<1>17. CASE ItemSyncDone
  BY <1>17 DEF ItemSyncDone, SyncInv, SyncOpened, SyncerNext
<1>18. CASE CancelTask
  <2>1. /\ Cancelled /\ opened' = opened /\ mishaps' = mishaps /\ job \in Own
        /\ job' = IF ~Busy(sched') THEN "none" ELSE IF job = "items" THEN "sync" ELSE "tree"
    BY <1>18 DEF CancelTask
  <2>2. CASE /\ sched' = sched
             /\ \/ syncer' = syncer
                \/ syncer # NoSyncer /\ syncer' = [syncer EXCEPT !.delivered = TRUE]
    BY <1>3, <2>1, <2>2
  <2>3. CASE /\ syncer' = syncer
             /\ syncer = NoSyncer \/ sched.current.type # "SyncCollection"
             /\ \E n : Core(n) /\ Extends(sched, n) /\ sched' = TaskDone(n)
    <3>1. PICK n : Core(n) /\ Extends(sched, n) /\ sched' = TaskDone(n)
      BY <2>3
    <3>2. job' = "none"
      BY <2>1, <3>1, TaskDoneSound
    <3>3. syncer # NoSyncer /\ mishaps' = {} =>
              SyncIs(n, syncer.of) /\ n.current.type # "SyncCollection"
      BY <1>1, <2>1, <2>3, <3>1, ExtendsSync DEF SyncInv, SyncerNext, Extends, Same
    <3> QED BY <2>1, <2>3, <3>1, <3>2, <3>3, EndFits
  <2> QED BY <2>1, <2>2, <2>3, CancelledSyncs
<1>19. CASE DeferTask
  <2>1. /\ job \in Own /\ sched' = Deferred(sched) /\ job' = "none"
        /\ opened' = opened /\ syncer' = syncer /\ mishaps' = mishaps
    BY <1>19 DEF DeferTask, workVars
  <2>2. Busy(sched)
    BY <1>1, <2>1 DEF JobFits, Own
  <2>3. /\ sched'.queue = [sched.queue EXCEPT ![sched.origin] = <<sched.current>> \o @]
        /\ sched.origin \in Queue
    BY <1>1, <2>1, <2>2, DeferredSound
  <2>4. sched'.current = NoTask
    <3>1. sched.current.type # "Custom" => sched.origin = QueueForTaskType(sched.current.type)
      BY <1>1, <2>2 DEF Core, Placed
    <3>2. /\ Core(PutFront(sched, sched.origin))
          /\ PutFront(sched, sched.origin).current = NoTask
      BY <1>1, <2>2, <2>3, <3>1, PutFrontCore
    <3>3. sched' = ScheduleNext(PutFront(sched, sched.origin))
      BY <2>1, <2>2 DEF Deferred, PutFront
    <3> QED BY <3>2, <3>3, ScheduleNextSound
  <2>5. sched.current.type = "SyncCollection" => sched.origin = Generic
    BY <1>1, <2>2 DEF Core, Placed, QueueForTaskType
  <2>6. \A c : SyncIs(sched, c) => SyncIs(sched', c)
    BY <1>1, <2>3, <2>4, <2>5, PutFrontSync
  <2> QED BY <2>1, <2>6, SameFits
<1> QED BY <1>6, <1>7, <1>8, <1>9, <1>10, <1>11, <1>12, <1>13, <1>14, <1>15, <1>16, <1>17, <1>18, <1>19
        DEF Work

\* doSetOnline( false ): the sync that is put back is the next one.
LEMMA GoOfflineFits ==
    ASSUME IInv, SyncInv, GoOffline
    PROVE  SyncInv'
<1> DEFINE s == PutBack(sched)
           list == s.queue[ItemFetches]
           keep == DOMAIN list \ {k \in DOMAIN list : list[k].type = "FetchItem"}
<1>1. Core(sched) /\ sched \in Schedulers /\ Generic \in Queue /\ ItemFetches # Generic
  BY BusyTypes, QueuePlaces DEF ItemFetches, Generic
<1>2. PICK rest \in Sublist(list, keep) :
          sched' = [s EXCEPT !.online = FALSE, !.queue[ItemFetches] = rest]
  BY DEF GoOffline
<1>3. job' = "none" /\ opened' = opened /\ syncer' = syncer /\ mishaps' = mishaps
  BY DEF GoOffline, workVars
<1>4. Core(s) /\ s \in Schedulers
  BY <1>1, PutBackSound DEF Core
<1>5. \A c : SyncIs(sched, c) => SyncIs(s, c)
  <2>1. CASE Busy(sched)
    <3> DEFINE q == QueueForTaskType(sched.current.type)
    <3>1. s = PutFront(sched, q)
      BY <2>1 DEF PutBack, PutFront
    <3>2. q \in Queue /\ (sched.current.type = "SyncCollection" => q = Generic)
      BY DEF QueueForTaskType, Queue, ChangeReplays, ItemFetches, Generic
    <3> HIDE DEF q, s
    <3>3. s.current = NoTask /\ s.queue = [sched.queue EXCEPT ![q] = <<sched.current>> \o @]
      <4>1. sched.current.type # "Custom" => q = QueueForTaskType(sched.current.type)
        BY DEF q
      <4>2. q = ChangeReplays => sched.origin = q
        BY <1>1, <2>1, PlacedBack DEF q
      <4> QED BY <1>1, <2>1, <3>1, <3>2, <4>1, <4>2, PutFrontCore
    <3> QED BY <1>1, <3>2, <3>3, PutFrontSync
  <2>2. CASE ~Busy(sched)
    BY <2>2 DEF PutBack
  <2> QED BY <2>1, <2>2
<1> HIDE DEF s
<1>6. sched'.queue[Generic] = s.queue[Generic] /\ sched'.current = s.current
  <2> DEFINE a == [s EXCEPT !.online = FALSE]
  <2>1. a \in Schedulers /\ a.queue = s.queue /\ a.current = s.current
    BY <1>4 DEF Schedulers
  <2>2. sched' = [a EXCEPT !.queue[ItemFetches] = rest]
    BY <1>2
  <2> HIDE DEF a
  <2>3. sched'.queue = [a.queue EXCEPT ![ItemFetches] = rest] /\ sched'.current = a.current
    BY <2>1, <2>2 DEF Schedulers
  <2>4. a.queue \in [Queue -> Seq(Tasks)]
    BY <2>1 DEF Schedulers
  <2> QED BY <1>1, <2>1, <2>3, <2>4
<1>7. \A c : SyncIs(sched, c) => SyncIs(sched', c)
  BY <1>5, <1>6 DEF SyncIs
<1> QED BY <1>3, <1>7, SameFits

\* One step.
LEMMA NextFits ==
    ASSUME IInv, SyncInv, [Next]_vars
    PROVE  SyncInv'
<1>1. Core(sched) /\ sched \in Schedulers
  BY BusyTypes
<1>2. CASE GoOnline
  <2> DEFINE a == [sched EXCEPT !.online = TRUE]
  <2>1. /\ sched' = ScheduleNext(a) /\ job' = job
        /\ opened' = opened /\ syncer' = syncer /\ mishaps' = mishaps
    BY <1>2 DEF GoOnline, workVars
  <2>2. a \in Schedulers /\ a.queue = sched.queue /\ a.current = sched.current /\ a.origin = sched.origin
    BY <1>1 DEF Schedulers
  <2> HIDE DEF a
  <2>3. Core(a)
    BY <1>1, <2>2 DEF Core, Placed, Once, Few, Busy
  <2>4. sched'.queue = sched.queue /\ sched'.current = sched.current
    BY <2>1, <2>2, <2>3, ScheduleNextSound
  <2>5. \A c : SyncIs(sched, c) => SyncIs(sched', c)
    BY <2>4 DEF SyncIs
  <2> QED BY <2>1, <2>4, <2>5, SameFits DEF Same
<1>3. CASE CancelQueues
  <2>1. sched' = [sched EXCEPT !.queue = [q \in Queue |-> <<>>]]
    BY <1>3 DEF CancelQueues
  <2>2. sched'.current = sched.current
    BY <1>1, <2>1 DEF Schedulers
  <2>3. job' = job /\ opened' = opened /\ mishaps' # {}
    BY <1>3 DEF CancelQueues, workVars
  <2> QED BY <2>2, <2>3 DEF SyncInv, SyncOpened, SyncerNext
<1>4. CASE Clear
  BY <1>4 DEF Clear, SyncInv, SyncOpened, SyncerNext
<1>5. CASE UNCHANGED vars
  BY <1>5 DEF vars, workVars, SyncInv, SyncOpened, SyncerNext, SyncIs, FirstSync
<1> QED BY <1>2, <1>3, <1>4, <1>5, RequestsFit, ExecuteNextFits, WorkFits, GoOfflineFits DEF Next

----------------------------------------------------------------------------
(* Theorems                                                                *)

\* The invariant holds in every reachable state.
THEOREM Invariance == Spec => []IInv
<1>1. Init => IInv
  BY InitKeeps
<1>2. IInv /\ [Next]_vars => IInv'
  BY NextKeeps
<1> QED BY <1>1, <1>2, PTL DEF Spec

\* Every variable keeps its type, mCurrentTasksQueue is set and a job is under
\* way exactly while there is a current task.
THEOREM TypeCorrect == Spec => []TypeOK
<1>1. IInv => TypeOK
  BY DEF IInv, Sound, Core, Placed, JobFits, WorkOK, BooksOK, TypeOK
<1> QED BY <1>1, Invariance, PTL

\* However tasks are asked for, deferred and put back, a compressed one is never
\* twice among those to be done, and there are never more than two replays.
THEOREM TasksAreOnce == Spec => []TasksOnce
<1>1. IInv => TasksOnce
  <2> SUFFICES ASSUME IInv PROVE TasksOnce
    OBVIOUS
  <2>1. Core(sched) /\ Len(sched.queue[ChangeReplays]) \in Nat
    BY QueuePlaces DEF IInv, Sound, Core, Schedulers
  <2>2. CASE sched.current.type = "ChangeReplay"
    <3>1. sched.origin = ChangeReplays
      BY <2>1, <2>2 DEF Core, Placed, Busy, QueueForTaskType
    <3> QED BY <2>1, <2>2, <3>1 DEF Core, Few, TasksOnce, ReplayTasks
  <2>3. CASE sched.current.type # "ChangeReplay"
    BY <2>1, <2>3 DEF Core, Few, TasksOnce, ReplayTasks
  <2> QED BY <2>2, <2>3
<1> QED BY <1>1, Invariance, PTL

\* Recorded changes have a replay that is scheduled or runs, unless tasks were
\* aborted or ended by the answer to another one.
THEOREM ReplayIsScheduled == Spec => []ReplayScheduled
<1>1. IInv => ReplayScheduled
  BY DEF IInv
<1> QED BY <1>1, Invariance, PTL

\* A scheduler that is online, idle and has tasks has also a timer for them.
THEOREM NothingSleeps == Spec => []Wakes
<1>1. IInv => Wakes
  BY DEF IInv, Sound, Wakes
<1> QED BY <1>1, Invariance, PTL

\* A caller that waits is known to exactly one task, unless an abort or a stray
\* answer has made it forgotten, and nobody else is known to any task.
THEOREM RequestsAreHeld == Spec => []RequestsHeld
<1>1. IInv /\ CallersHeld => RequestsHeld
  <2> SUFFICES ASSUME IInv, CallersHeld, NEW r \in Request
               PROVE  LET holders == Cardinality(Holders(r)) + (IF r \in sched.current.msgs THEN 1 ELSE 0)
                      IN  /\ holders <= 1
                          /\ holders = 1 => status[r] = "waiting"
                          /\ status[r] = "waiting" /\ mishaps \subseteq Harmless => holders = 1
    BY DEF RequestsHeld
  <2> DEFINE holders == Cardinality(Holders(r)) + (IF r \in sched.current.msgs THEN 1 ELSE 0)
  <2>1. holders \in {0, 1} /\ (holders = 1 <=> r \in Callers(sched))
    BY HoldersOnce
  <2> HIDE DEF holders
  <2>2. /\ holders <= 1
        /\ holders = 1 => status[r] = "waiting"
        /\ status[r] = "waiting" /\ mishaps \subseteq Harmless => holders = 1
    BY <2>1 DEF CallersHeld
  <2> QED BY <2>2 DEF holders
<1>2. Init => CallersHeld
  BY InitHolds
<1>3. IInv /\ CallersHeld /\ [Next]_vars => CallersHeld'
  BY NextHolds
<1> QED BY <1>1, <1>2, <1>3, Invariance, PTL DEF Spec

\* Items are put into the collection they were retrieved for: the syncer is that
\* of the sync that runs.
THEOREM SyncerIsFitting == Spec => []SyncerFits
<1>1. Init => IInv /\ SyncInv
  BY InitKeeps DEF Init, SyncInv, SyncOpened, SyncerNext
<1>2. IInv /\ SyncInv /\ [Next]_vars => (IInv /\ SyncInv)'
  BY NextKeeps, NextFits
<1>3. IInv /\ SyncInv => SyncerFits
  BY DEF SyncInv, SyncerNext, SyncIs, SyncerFits
<1> QED BY <1>1, <1>2, <1>3, PTL DEF Spec
=============================================================================
