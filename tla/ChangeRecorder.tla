---------------------------- MODULE ChangeRecorder ----------------------------
(***************************************************************************)
(* Akonadi's ChangeRecorder: the change notifications an agent has not     *)
(* dealt with yet, in memory and in a file, and their replay to the agent. *)
(*                                                                         *)
(* The server tells of a change in a list of notifications (slotNotify).   *)
(* The ones the agent is interested in are compressed into                 *)
(* pendingNotifications, and the file is written.  replayNext() emits the  *)
(* oldest change, or puts a copy into the pipeline until the item has been *)
(* fetched into the cache.  The agent answers with changeProcessed(),      *)
(* which dequeues the oldest change, in memory by removing it and in the   *)
(* file by moving a start offset, if nothing forces it to be rewritten.    *)
(*                                                                         *)
(* Everything runs in one thread.  A slot that writes the file takes more  *)
(* than one step, since the agent may die between opening the file, which  *)
(* truncates it, and closing it; "call" says how it goes on afterwards.    *)
(* The agent is a resource with change recording enabled, which starts a   *)
(* replay when its scheduler has one and none is under way.  Notifications *)
(* are about items; collections are only what items are filtered by.       *)
(***************************************************************************)
EXTENDS EntityCache, Sublists

CONSTANTS
    Item,         \* the items
    Collection,   \* the collections they lie in
    NoCollection, \* the collection -1
    Part,         \* the parts of an item a modification names
    Explicit,     \* items: the ones monitored by themselves
    Fickle,       \* operations whose signal may be disconnected
    NoChange,     \* nothing has been given to the agent
    MaxNotified,  \* bound: notifications sent by the server
    MaxRewired,   \* bound: collections and signals given up
    MaxCrashes    \* bound: restarts of the agent

ASSUME RecorderAssumption ==
    /\ NoCollection \notin Collection
    /\ Explicit \subseteq Item
    /\ Fickle \subseteq {"Add", "Modify", "Move", "Remove"}
    /\ MaxNotified \in Nat
    /\ MaxRewired \in Nat
    /\ MaxCrashes \in Nat

Operation == {"Add", "Modify", "Move", "Remove"}

Message == [uid : Item, op : Operation, parts : SUBSET Part,
            from : Collection, to : Collection \cup {NoCollection}]

ASSUME NoChangeAssumption == NoChange \notin Message

VARIABLES
    pending,      \* pendingNotifications
    pipeline,     \* pipeline: changes that wait for their item
    file,         \* the changes file: messages, start offset and version
    startOffset,  \* m_startOffset
    needFullSave, \* m_needFullSave
    lastKnown,    \* m_lastKnownNotificationsCount
    configured,   \* settings is set: changes go to the file
    saving,       \* the file is truncated and not written yet
    call,         \* the slot under way: none, notify, replay, flush or quit
    tally,        \* the counters of slotNotify
    posted,       \* queued calls of replayNext()
    cache,        \* itemCache
    collections,  \* the monitored collections
    heard,        \* operations whose signal is connected
    rewired,      \* number of collections and signals given up so far
    scheduled,    \* the scheduler of the resource has a replay in its queue
    replaying,    \* and one as its current task
    given,        \* the change the agent works on
    disturbed,    \* history: what happened to the change under replay
    at,           \* where each item lies on the server
    notified,     \* number of notifications so far
    crashes       \* number of restarts so far

vars == <<pending, pipeline, file, startOffset, needFullSave, lastKnown, configured,
          saving, call, tally, posted, cache, collections, heard, rewired, scheduled,
          replaying, given, disturbed, at, notified, crashes>>

fileVars   == <<file, startOffset, needFullSave>>
clientVars == <<scheduled, replaying, given>>
serverVars == <<at, notified, crashes>>
filterVars == <<collections, heard, rewired>>

Idle == call = "none" /\ ~saving

NoTally == [old |-> 0, appended |-> 0, modified |-> 0, erased |-> 0]

----------------------------------------------------------------------------
(* What the agent wants to know                                            *)

\* acceptNotification() with a filter by items and the collections watched,
\* where signals are the ones somebody is connected to
AcceptedBy(signals, watched, m) ==
    /\ m.op \in signals
    /\ m.uid \in Explicit \/ m.from \in watched \/ m.to \in watched

Accepted(m) == AcceptedBy(heard, collections, m)

\* a move translateAndCompress() makes nothing of
IgnoredBy(watched, m) ==
    m.op = "Move" /\ m.from \notin watched /\ m.to \notin watched

IsIgnored(m) == IgnoredBy(collections, m)

\* Translated() with the destination cleared before it becomes the parent
TranslatedBare(m) ==
    IF m.op # "Move" \/ (m.from \in collections /\ m.to \in collections) THEN m
    ELSE IF m.from \in collections THEN [m EXCEPT !.op = "Remove", !.to = NoCollection]
    ELSE [m EXCEPT !.op = "Add", !.from = NoCollection, !.to = NoCollection]

\* a move becomes a removal or an insertion if one of its ends is not watched
Translated(m) ==
    IF m.op # "Move" \/ (m.from \in collections /\ m.to \in collections) THEN m
    ELSE IF m.from \in collections THEN [m EXCEPT !.op = "Remove", !.to = NoCollection]
    ELSE [m EXCEPT !.op = "Add", !.from = m.to, !.to = NoCollection]

\* appendAndCompress(): what the queue becomes, and whether it was appended to.
\* The same change of the same item is merged into the earlier one; a removal
\* erases the modifications it makes pointless.
Compressed(queue, m) ==
    LET Same(k) == [queue[k] EXCEPT !.parts = m.parts] = m
        moot    == {k \in DOMAIN queue :
                       /\ m.op = "Remove" /\ queue[k].op = "Modify"
                       /\ queue[k].uid = m.uid /\ queue[k].from = m.from}
    IN  IF \E k \in DOMAIN queue : Same(k)
        THEN {[queue    |-> [k \in DOMAIN queue |->
                                IF Same(k) /\ \A j \in 1 .. k - 1 : ~Same(j)
                                THEN [queue[k] EXCEPT !.parts = @ \cup m.parts]
                                ELSE queue[k]],
               appended |-> FALSE]}
        ELSE {[queue |-> Append(kept, m), appended |-> TRUE] :
                  kept \in Sublist(queue, DOMAIN queue \ moot)}

TranslateAndCompress(queue, m) ==
    IF IsIgnored(m) THEN {[queue |-> queue, appended |-> FALSE]}
    ELSE Compressed(queue, Translated(m))

----------------------------------------------------------------------------
(* The file                                                                *)

\* loadFrom() that does not skip the changes before the start offset
ContentsAll(f) == f.msgs

\* what a restart finds in the changes file f (loadFrom)
Contents(f) == SubSeq(f.msgs, f.start + 1, Len(f.msgs))

\* the start of saveNotifications(), which does nothing without settings
Save == saving' = configured

\* the rest of it: saveTo(), and the flags
FinishSave ==
    /\ saving
    /\ file' = [msgs |-> pending, start |-> 0, version |-> 1]
    /\ startOffset' = 0
    /\ needFullSave' = FALSE
    /\ saving' = FALSE
    /\ configured' = (call # "quit")
    /\ call' = IF call = "quit" THEN "none" ELSE call
    /\ UNCHANGED <<pending, pipeline, lastKnown, tally, posted, cache, filterVars,
                   clientVars, disturbed, serverVars>>

\* dequeueNotification() that trusts any file on disk
DequeueShort ==
    /\ pending' = Tail(pending)
    /\ lastKnown' = lastKnown - 1
    /\ IF Tail(pending) = <<>>
       THEN Save /\ UNCHANGED fileVars
       ELSE /\ startOffset' = startOffset + 1
            /\ file' = IF configured THEN [file EXCEPT !.start = startOffset + 1] ELSE file
            /\ UNCHANGED <<needFullSave, saving>>

\* dequeueNotification() and writeStartOffset()
Dequeue ==
    /\ pending' = Tail(pending)
    /\ lastKnown' = lastKnown - 1
    /\ IF needFullSave \/ Tail(pending) = <<>>
       THEN Save /\ UNCHANGED fileVars
       ELSE /\ startOffset' = startOffset + 1
            /\ file' = IF configured THEN [file EXCEPT !.start = startOffset + 1] ELSE file
            /\ UNCHANGED <<needFullSave, saving>>

\* notificationsErased(), after pending' has been determined
Erased ==
    /\ lastKnown' = Len(pending')
    /\ needFullSave' = TRUE
    /\ Save
    /\ UNCHANGED <<file, startOffset>>

\* notificationsEnqueued()
Enqueued(count) ==
    /\ lastKnown' = lastKnown + count
    /\ Save
    /\ UNCHANGED fileVars

\* cleanOldNotifications() with the pipeline pl and the collections watched
CleanOld(pl, watched) ==
    \E rest \in Sublist(pending, {k \in DOMAIN pending : AcceptedBy(heard, watched, pending[k])}),
       left \in Sublist(pl, {k \in DOMAIN pl : AcceptedBy(heard, watched, pl[k])}) :
        /\ pending' = rest
        /\ pipeline' = left
        /\ IF rest = pending /\ left = pl
           THEN UNCHANGED <<lastKnown, fileVars, saving>>
           ELSE Erased

----------------------------------------------------------------------------
(* Notifications                                                           *)

\* the lists the server sends: an item is added once, and removed for good
ServerChange(m) ==
    \/ m.op = "Add" /\ at[m.uid] = "new" /\ m.to = NoCollection /\ m.parts = {}
    \/ /\ m.op = "Modify" /\ at[m.uid] = m.from /\ m.to = NoCollection
       /\ \E p \in Part : m.parts = {p}
    \/ /\ m.op = "Move" /\ at[m.uid] = m.from /\ m.to \in Collection \ {m.from}
       /\ m.parts = {}
    \/ m.op = "Remove" /\ at[m.uid] = m.from /\ m.to = NoCollection /\ m.parts = {}

Place(m) == CASE m.op = "Remove" -> "gone"
              [] m.op = "Move"   -> m.to
              [] OTHER           -> m.from

\* invalidateCaches()
Invalidated(m) == IF m.op \in {"Modify", "Move"} THEN Update(cache, m.uid) ELSE cache

\* the counters without the detection of erased modifications
CountAppended(t, old, result) ==
    IF result.appended THEN [t EXCEPT !.appended = @ + 1] ELSE [t EXCEPT !.modified = @ + 1]

\* the counters after message m, where the queue grew from old to new
Count(t, old, result) ==
    IF result.appended
    THEN [t EXCEPT !.appended = @ + 1,
                   !.erased = IF Len(result.queue) # Len(old) + 1 THEN @ + 1 ELSE @]
    ELSE [t EXCEPT !.modified = @ + 1]

\* one message of a list in slotNotify(); the first one starts the slot
NotifyOne(m) ==
    /\ ~saving /\ call \in {"none", "notify"}
    /\ notified < MaxNotified
    /\ ServerChange(m)
    /\ notified' = notified + 1
    /\ at' = [at EXCEPT ![m.uid] = Place(m)]
    /\ cache' = Invalidated(m)
    /\ LET t == IF call = "none" THEN [NoTally EXCEPT !.old = Len(pending)] ELSE tally
       IN  IF Accepted(m)
           THEN \E result \in TranslateAndCompress(pending, m) :
                    /\ pending' = result.queue
                    /\ tally' = Count(t, pending, result)
                    /\ disturbed' = IF replaying /\ pending # <<>>
                                       /\ (result.queue = <<>> \/ Head(result.queue) # Head(pending))
                                    THEN disturbed \cup {"compressed"} ELSE disturbed
           ELSE tally' = t /\ UNCHANGED <<pending, disturbed>>
    /\ call' = "notify"
    /\ UNCHANGED <<pipeline, fileVars, lastKnown, configured, saving, posted, filterVars,
                   clientVars, crashes>>

\* the end of the list: both slotNotify(), with changesAdded() to the scheduler
NotifyEnd ==
    /\ call = "notify" /\ ~saving
    /\ call' = "none"
    /\ tally' = NoTally
    /\ IF tally.appended = 0 /\ tally.modified = 0
       THEN UNCHANGED <<lastKnown, fileVars, saving>>
       ELSE IF tally.erased > 0
            THEN /\ lastKnown' = Len(pending)
                 /\ needFullSave' = TRUE
                 /\ Save
                 /\ UNCHANGED <<file, startOffset>>
            ELSE Enqueued(tally.appended)
    /\ scheduled' = (scheduled \/ Len(pending) # tally.old)
    /\ UNCHANGED <<pending, pipeline, configured, posted, cache, filterVars, replaying,
                   given, disturbed, serverVars>>

----------------------------------------------------------------------------
(* Replay                                                                  *)

\* emitNotification() that does not go on after a change nobody listened to
EmitSilently(m, pl) ==
    IF m.op \in heard
    THEN /\ given' = m
         /\ pipeline' = pl
         /\ UNCHANGED <<pending, lastKnown, fileVars, saving, posted>>
    ELSE CleanOld(pl, collections) /\ UNCHANGED <<given, posted>>

\* emitNotification() of m, with the pipeline pl: without a receiver the old
\* notifications are cleaned and replayNext() is queued
Emit(m, pl) ==
    IF m.op \in heard
    THEN /\ given' = m
         /\ pipeline' = pl
         /\ UNCHANGED <<pending, lastKnown, fileVars, saving, posted>>
    ELSE /\ CleanOld(pl, collections)
         /\ posted' = posted + 1
         /\ UNCHANGED given

HasData(m) == m.op = "Remove" \/ IsCached(cache, m.uid)

\* the scheduler starts the replay task it has queued
StartReplay ==
    /\ Idle /\ scheduled /\ ~replaying
    /\ scheduled' = FALSE
    /\ replaying' = TRUE
    /\ disturbed' = {}
    /\ call' = "replay"
    /\ UNCHANGED <<pending, pipeline, fileVars, lastKnown, configured, saving, tally,
                   posted, cache, filterVars, given, serverVars>>

\* replayNext() queued by a change nobody listened to
PostedReplay ==
    /\ Idle /\ posted > 0
    /\ posted' = posted - 1
    /\ call' = "replay"
    /\ UNCHANGED <<pending, pipeline, fileVars, lastKnown, configured, saving, tally,
                   cache, filterVars, clientVars, disturbed, serverVars>>

\* replayNext() with nothing left, without nothingToReplay()
NothingToReplayQuiet ==
    /\ call = "replay" /\ ~saving
    /\ pending = <<>>
    /\ call' = "none"
    /\ UNCHANGED <<pending, pipeline, fileVars, lastKnown, configured, saving, tally, posted,
                   cache, filterVars, clientVars, disturbed, serverVars>>

\* replayNext() with nothing left: the replay task is done
NothingToReplay ==
    /\ call = "replay" /\ ~saving
    /\ pending = <<>>
    /\ replaying' = FALSE
    /\ call' = "none"
    /\ UNCHANGED <<pending, pipeline, fileVars, lastKnown, configured, saving, tally, posted,
                   cache, filterVars, scheduled, given, disturbed, serverVars>>

\* replayNext() of a change whose item is in the cache
ReplayCached ==
    /\ call = "replay" /\ ~saving
    /\ pending # <<>> /\ HasData(Head(pending))
    /\ Emit(Head(pending), pipeline)
    /\ call' = "none"
    /\ UNCHANGED <<configured, tally, cache, filterVars, scheduled, replaying,
                   disturbed, serverVars>>

\* as without recording: what goes into the pipeline is dequeued
ReplayLaterDequeues ==
    /\ call = "replay" /\ ~saving
    /\ pending # <<>> /\ ~HasData(Head(pending))
    /\ cache' = Ensured(cache, Head(pending).uid)
    /\ \E result \in TranslateAndCompress(pipeline, Head(pending)) :
           /\ pipeline' = result.queue
           /\ Dequeue
           /\ call' = IF result.appended THEN "none" ELSE call
    /\ UNCHANGED <<configured, tally, posted, filterVars, clientVars, disturbed, serverVars>>

\* replayNext() of a change whose item has to be fetched: it waits in the
\* pipeline, or is dequeued if nothing is to be replayed for it
ReplayLater ==
    /\ call = "replay" /\ ~saving
    /\ pending # <<>> /\ ~HasData(Head(pending))
    /\ cache' = Ensured(cache, Head(pending).uid)
    /\ \E result \in TranslateAndCompress(pipeline, Head(pending)) :
           IF result.appended
           THEN /\ pipeline' = result.queue
                /\ call' = "none"
                /\ UNCHANGED <<pending, lastKnown, fileVars, saving>>
           ELSE /\ pipeline' = result.queue
                /\ Dequeue
                /\ UNCHANGED call
    /\ UNCHANGED <<configured, tally, posted, filterVars, clientVars, disturbed, serverVars>>

\* a fetch job is answered: processResult() and dataAvailable()
FetchDone ==
    /\ Idle /\ cache.jobs # <<>>
    /\ cache' = Answered(cache)
    /\ call' = IF IsRequested(cache, Head(cache.jobs).id) THEN "flush" ELSE "none"
    /\ UNCHANGED <<pending, pipeline, fileVars, lastKnown, configured, saving, tally, posted,
                   filterVars, clientVars, disturbed, serverVars>>

\* one round of flushPipeline()
FlushOne ==
    /\ call = "flush" /\ ~saving
    /\ pipeline # <<>> /\ HasData(Head(pipeline))
    /\ Emit(Head(pipeline), Tail(pipeline))
    /\ UNCHANGED <<configured, call, tally, cache, filterVars, scheduled, replaying,
                   disturbed, serverVars>>

\* flushPipeline() stops, at a change whose item it has to ask for
FlushEnd ==
    /\ call = "flush" /\ ~saving
    /\ pipeline # <<>> => ~HasData(Head(pipeline))
    /\ cache' = IF pipeline = <<>> THEN cache ELSE Ensured(cache, Head(pipeline).uid)
    /\ call' = "none"
    /\ UNCHANGED <<pending, pipeline, fileVars, lastKnown, configured, saving, tally, posted,
                   filterVars, clientVars, disturbed, serverVars>>

\* changeProcessed() of a resource that waits for new changes to go on
ChangeProcessedAlone ==
    /\ call \in {"none", "flush"} /\ ~saving
    /\ given # NoChange
    /\ given' = NoChange
    /\ replaying' = FALSE
    /\ disturbed' = {}
    /\ IF pending # <<>> THEN Dequeue ELSE UNCHANGED <<pending, lastKnown, fileVars, saving>>
    /\ UNCHANGED <<pipeline, configured, call, tally, posted, cache, filterVars, scheduled,
                   serverVars>>

\* the agent has dealt with the change, perhaps inside the signal that gave it:
\* the change is dequeued, the replay task is done, and the next one scheduled
ChangeProcessed ==
    /\ call \in {"none", "flush"} /\ ~saving
    /\ given # NoChange
    /\ given' = NoChange
    /\ replaying' = FALSE
    /\ disturbed' = {}
    /\ IF pending # <<>> THEN Dequeue ELSE UNCHANGED <<pending, lastKnown, fileVars, saving>>
    /\ scheduled' = (scheduled \/ pending' # <<>>)
    /\ UNCHANGED <<pipeline, configured, call, tally, posted, cache, filterVars, serverVars>>

----------------------------------------------------------------------------
(* Filters, and the life of the agent                                      *)

\* setCollectionMonitored( c, false )
Unwatch(c) ==
    /\ Idle /\ c \in collections /\ rewired < MaxRewired
    /\ rewired' = rewired + 1
    /\ collections' = collections \ {c}
    /\ UNCHANGED heard
    /\ CleanOld(pipeline, collections')
    /\ disturbed' = IF replaying
                       /\ \/ pipeline' # pipeline
                          \/ pending # <<>> /\ (pending' = <<>> \/ Head(pending') # Head(pending))
                    THEN disturbed \cup {"cleaned"} ELSE disturbed
    /\ UNCHANGED <<configured, call, tally, posted, cache, clientVars, serverVars>>

\* the last receiver of a signal is disconnected
Disconnect(op) ==
    /\ Idle /\ op \in heard /\ rewired < MaxRewired
    /\ rewired' = rewired + 1
    /\ heard' = heard \ {op}
    /\ UNCHANGED <<pending, pipeline, fileVars, lastKnown, configured, saving, call, tally,
                   posted, cache, collections, clientVars, disturbed, serverVars>>

\* AgentBase::quit(): setConfig( 0 ); the agent goes on until its jobs are done
Quit ==
    /\ Idle /\ configured /\ crashes < MaxCrashes
    /\ Save
    /\ call' = "quit"
    /\ UNCHANGED <<pending, pipeline, fileVars, lastKnown, configured, tally, posted, cache,
                   filterVars, clientVars, disturbed, serverVars>>

\* what is in the file if the agent dies now: the start of a file being written
OnDisk ==
    IF ~saving THEN {file}
    ELSE {[msgs |-> <<>>, start |-> 0, version |-> 0]} \cup
         {[msgs |-> SubSeq(pending, 1, k), start |-> 0, version |-> 1] :
              k \in 0 .. Len(pending)}

\* the agent dies, or ends after quit(), and is started again: setConfig()
Restart(f) ==
    /\ file' = f
    /\ pending' = Contents(f)
    /\ lastKnown' = Len(pending')
    /\ startOffset' = 0
    /\ needFullSave' = (f.start > 0 \/ f.version = 0)
    /\ pipeline' = <<>>
    /\ cache' = EmptyCache
    /\ scheduled' = (pending' # <<>>)
    /\ replaying' = FALSE
    /\ given' = NoChange
    /\ configured' = TRUE
    /\ saving' = FALSE
    /\ call' = "none"
    /\ tally' = NoTally
    /\ posted' = 0
    /\ disturbed' = {}
    /\ crashes' = crashes + 1
    /\ UNCHANGED <<filterVars, at, notified>>

Crash == crashes < MaxCrashes /\ \E f \in OnDisk : Restart(f)

Exit == ~configured /\ ~saving /\ Restart(file)

----------------------------------------------------------------------------
Init ==
    /\ pending = <<>> /\ pipeline = <<>>
    /\ file = [msgs |-> <<>>, start |-> 0, version |-> 1]
    /\ startOffset = 0 /\ needFullSave = FALSE /\ lastKnown = 0
    /\ configured = TRUE /\ saving = FALSE /\ call = "none" /\ tally = NoTally
    /\ posted = 0 /\ cache = EmptyCache
    /\ collections = Collection /\ heard = Operation /\ rewired = 0
    /\ scheduled = FALSE /\ replaying = FALSE /\ given = NoChange /\ disturbed = {}
    /\ at \in [Item -> Collection \cup {"new"}]
    /\ notified = 0 /\ crashes = 0

Slots == FinishSave \/ NotifyEnd \/ NothingToReplay \/ ReplayCached \/ ReplayLater
            \/ FlushOne \/ FlushEnd

Next ==
    \/ \E m \in Message : NotifyOne(m)
    \/ Slots
    \/ StartReplay \/ PostedReplay \/ FetchDone \/ ChangeProcessed
    \/ \E c \in Collection : Unwatch(c)
    \/ \E op \in Fickle : Disconnect(op)
    \/ Quit \/ Crash \/ Exit

\* A slot runs to its end, the event loop delivers what was queued, the server
\* answers fetch jobs, the agent answers what it is given, and exits after quit.
Fairness ==
    /\ WF_vars(Slots) /\ WF_vars(StartReplay) /\ WF_vars(PostedReplay)
    /\ WF_vars(FetchDone) /\ WF_vars(ChangeProcessed) /\ WF_vars(Exit)

Spec == Init /\ [][Next]_vars /\ Fairness
----------------------------------------------------------------------------
(* Properties                                                              *)

\* Every variable keeps its type.
RecordsTypeOK ==
    /\ pending \in Seq(Message)
    /\ pipeline \in Seq(Message)
    /\ file \in [msgs : Seq(Message), start : Nat, version : {0, 1}]
    /\ startOffset \in Nat /\ lastKnown \in Int
    /\ needFullSave \in BOOLEAN /\ configured \in BOOLEAN /\ saving \in BOOLEAN
    /\ call \in {"none", "notify", "replay", "flush", "quit"}
    /\ tally \in [old : Nat, appended : Nat, modified : Nat, erased : Nat]
    /\ posted \in Nat
    /\ scheduled \in BOOLEAN /\ replaying \in BOOLEAN
    /\ given \in Message \cup {NoChange}

TypeOK ==
    /\ RecordsTypeOK
    /\ cache.nodes \in Seq([id : Item, pending : BOOLEAN, old : BOOLEAN])
    /\ cache.jobs \in Seq([id : Item, old : BOOLEAN])
    /\ collections \subseteq Collection /\ heard \subseteq Operation /\ rewired \in Nat
    /\ disturbed \subseteq {"compressed", "cleaned"}
    /\ at \in [Item -> Collection \cup {"new", "gone"}]
    /\ notified \in 0 .. MaxNotified /\ crashes \in 0 .. MaxCrashes + 1

\* Whenever no write is under way, the file read back gives the changes that
\* are pending: full saves, start offsets, the offset of a file loaded with
\* one, and the decision which of them to use agree.
FileMatches ==
    configured /\ ~saving /\ call # "notify" => Contents(file) = pending

\* The assertion of notificationsEnqueued() and dequeueNotification(): the
\* ChangeRecorder knows how many changes there are, whatever compression did.
ContractKept == call # "notify" => lastKnown = Len(pending)

\* A replay task that runs is moved on by exactly one thing: the call of
\* replayNext() under way, one that is queued, a change that waits for its
\* item, or the agent's answer.  Only setCollectionMonitored() can take the
\* last of them away.
Tokens ==
    (IF call = "replay" THEN 1 ELSE 0) + posted + Len(pipeline)
        + (IF given = NoChange THEN 0 ELSE 1)

OneInHand ==
    /\ Tokens = 1 \/ Tokens = 0
    /\ replaying /\ "cleaned" \notin disturbed => Tokens = 1
    /\ ~replaying => Tokens = 0

\* While changes are pending, a replay runs or is scheduled, although
\* changesAdded() is emitted only if the number of changes has changed.
PendingIsScheduled ==
    pending # <<>> /\ call # "notify" => scheduled \/ replaying

\* A change that waits for its item is not forgotten: the item is still
\* awaited, and a job for it is under way, although update() replaces entries
\* and drops answers.
FetchOnTheWay ==
    pipeline # <<>> /\ call # "flush" =>
        /\ IsRequested(cache, Head(pipeline).uid)
        /\ ~IsCached(cache, Head(pipeline).uid)
        /\ \E k \in DOMAIN cache.jobs : cache.jobs[k].id = Head(pipeline).uid

\* An entry filled by a job that was sent before the item changed is corrected:
\* another job for it, sent afterwards, is under way.
StaleIsRefetched ==
    \A k \in DOMAIN cache.nodes :
        ~cache.nodes[k].pending /\ cache.nodes[k].old =>
            \E j \in DOMAIN cache.jobs :
                cache.jobs[j].id = cache.nodes[k].id /\ ~cache.jobs[j].old

\* m is what is emitted for the pending change n: a move may be translated
\* once more on its way through the pipeline
Stands(n, m) == n = m \/ (n.op = "Move" /\ n.uid = m.uid)

\* The change the agent works on is the one its answer will dequeue, unless a
\* later notification or a change of the filter came in between.
HeadIsGiven ==
    given # NoChange /\ disturbed = {} =>
        pending # <<>> /\ Stands(Head(pending), given)

WantedUnder(f, m) == AcceptedBy(f.signals, f.watched, m) /\ ~IgnoredBy(f.watched, m)

\* The ChangeRecorder is a durable queue (ChangeQueue): whatever is compressed,
\* dequeued or rewritten in the file, a restart finds every change that was
\* recorded and not answered; only a restart in the middle of a write loses some.
Queue == INSTANCE ChangeQueue WITH
    changes <- IF saving THEN pending ELSE Contents(file),
    given   <- given,
    writing <- saving,
    durable <- configured,
    filter  <- [signals |-> heard, watched |-> collections],
    Wants   <- WantedUnder

Durable == Queue!Spec

\* Once the server has nothing more to tell, every change is replayed and the
\* recorder becomes empty, unless the filter was changed during a replay.
Drains ==
    \/ <>[](pending = <<>> /\ given = NoChange /\ ~replaying /\ Contents(file) = <<>>)
    \/ <>[]("cleaned" \in disturbed)

\* "Removes the previously emitted change from the records"
\* (changerecorder.h:73): what changeProcessed() dequeues has been emitted.
ProcessedWasEmitted ==
    [][given # NoChange /\ given' = NoChange /\ crashes' = crashes /\ pending # <<>>
          => Stands(Head(pending), given)]_vars
=============================================================================
