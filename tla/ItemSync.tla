-------------------------------- MODULE ItemSync --------------------------------
(***************************************************************************)
(* Akonadi's ItemSync: the items of a collection are made to be those the  *)
(* resource delivers (itemsync.cpp), in one transaction, several or none   *)
(* (transactionsequence.cpp), through a queue of jobs (job.cpp) that the   *)
(* server answers one by one.                                              *)
(*                                                                         *)
(* The resource delivers in chunks, while the local items are still being  *)
(* listed and while earlier chunks are being stored.  ItemSync counts the  *)
(* jobs and the transactions it waits for, and has a result when there are *)
(* none left and everything was delivered.  A transaction in which a job   *)
(* fails kills the others and is rolled back; it has a result when the     *)
(* rollback is answered, and is deleted then, with what is left in it.     *)
(*                                                                         *)
(* Everything runs in one thread; an action is an answer of the server or  *)
(* a call of the resource, with everything they lead to.  Items are known  *)
(* by their remote id, their content is a version.  The server is external.*)
(***************************************************************************)
EXTENDS Integers, FiniteSets, SequencesExt

CONSTANTS
    Item,        \* the items, by remote id
    Changed,     \* those whose content is another one than the stored one
    Modes,       \* transaction modes
    Forms,       \* full and incremental syncs
    MaxChunk,    \* bound: items in a chunk
    MaxFailures  \* bound: jobs that fail

ASSUME ItemSyncAssumption ==
    /\ IsFiniteSet(Item) /\ Changed \subseteq Item
    /\ Modes \subseteq {"Single", "Multiple", "None"}
    /\ Forms \subseteq {"full", "incremental"}
    /\ {MaxChunk, MaxFailures} \subseteq Nat

VARIABLES
    mode,      \* mTransactionMode
    form,      \* setFullSyncItems() or setIncrementalSyncItems()
    sync,      \* the fields of ItemSync, and its jobs and transactions
    store,     \* the server: what is stored of each item, 0 for nothing
    saved,     \* what is stored without the transaction that is open
    open,      \* a transaction is open
    before,    \* history: what was stored at first
    told,      \* history: items delivered, new or changed
    gone,      \* history: items reported as removed
    cancelled, \* history: rollback() was called
    orphaned,  \* history: a transaction was deleted with changes left in it
    undeleted, \* history: a deletion failed
    failures   \* number of jobs that failed

vars == <<mode, form, sync, store, saved, open, before, told, gone, cancelled, orphaned,
          undeleted, failures>>

serverVars == <<store, saved, open>>
callVars   == <<mode, form, before, told, gone, cancelled>>

Version(i) == IF i \in Changed THEN 2 ELSE 1

----------------------------------------------------------------------------
(* Jobs and transactions                                                   *)

Job(kind, items) == [kind |-> kind, items |-> items]

Begin    == Job("begin", {})
Commit   == Job("commit", {})
Rollback == Job("rollback", {})

IsChange(job) == job.kind \in {"create", "modify", "delete"}

Changes(jobs) == {k \in DOMAIN jobs : IsChange(jobs[k])}

\* a job of ItemSync itself
Plain(job) == [tx |-> FALSE, state |-> "none", failed |-> FALSE, jobs |-> <<job>>]

NewTransaction == [tx |-> TRUE, state |-> "Idle", failed |-> FALSE, jobs |-> <<>>]

\* addSubjob() that does not begin the transaction
AddedBare(t, jobs) ==
    IF jobs = <<>> THEN t ELSE [t EXCEPT !.state = "Running", !.jobs = @ \o jobs]

\* TransactionSequence::addSubjob() of one or several jobs: the first one is
\* preceded by a begin, and whatever the state was, it is Running afterwards
Added(t, jobs) ==
    IF jobs = <<>> THEN t
    ELSE [t EXCEPT !.state = "Running",
                   !.jobs = (IF t.state = "Idle" THEN Append(@, Begin) ELSE @) \o jobs]

----------------------------------------------------------------------------
(* ItemSync                                                                *)

\* checkDone() that may emit the result again
CheckDoneAgain(s) ==
    IF s.pending > 0 \/ ~s.delivered \/ s.transactions > 0 THEN s
    ELSE [s EXCEPT !.results = @ + 1]

\* checkDone() that does not wait for the transactions
CheckDoneEarly(s) ==
    IF s.pending > 0 \/ ~s.delivered \/ s.results > 0 THEN s
    ELSE [s EXCEPT !.results = @ + 1]

CheckDone(s) ==
    IF s.pending > 0 \/ ~s.delivered \/ s.transactions > 0 \/ s.results > 0 THEN s
    ELSE [s EXCEPT !.results = @ + 1]

\* the result of the k-th transaction: slotResult() and slotTransactionResult().
\* The current transaction is always the last one.
TransactionResult(s, k) ==
    CheckDone([s EXCEPT !.queue = RemoveAt(@, k),
                        !.error = @ \/ s.queue[k].failed,
                        !.transactions = @ - 1,
                        !.current = @ /\ k # Len(s.queue)])

\* commit() that forgets a transaction which never got a job
CommittedUsed(s) ==
    LET n == Len(s.queue)
        t == s.queue[n]
    IN  IF ~s.current THEN s
        ELSE IF t.state = "Idle" THEN [s EXCEPT !.current = FALSE]
        ELSE [s EXCEPT !.current = FALSE,
                       !.queue[n] = IF t.jobs # <<>> THEN [t EXCEPT !.state = "Waiting"]
                                    ELSE Added(t, <<IF t.failed THEN Rollback ELSE Commit>>)]

\* TransactionSequence::commit() of the current transaction, which is let go of
Committed(s) ==
    LET n == Len(s.queue)
        t == s.queue[n]
    IN  IF ~s.current THEN s
        ELSE IF t.state = "Idle" THEN TransactionResult(s, n)
        ELSE [s EXCEPT !.current = FALSE,
                       !.queue[n] = IF t.jobs # <<>> THEN [t EXCEPT !.state = "Waiting"]
                                    ELSE Added(t, <<IF t.failed THEN Rollback ELSE Commit>>)]

\* jobs are created with subjobParent(): the current transaction, or ItemSync
JobsAdded(s, jobs) ==
    LET n == Len(s.queue)
    IN  [s EXCEPT !.pending = @ + Len(jobs),
                  !.queue = IF s.current THEN [@ EXCEPT ![n] = Added(s.queue[n], jobs)]
                            ELSE @ \o [k \in DOMAIN jobs |-> Plain(jobs[k])]]

\* updateItem(): an incremental sync knows that the item has changed
UpdateItem(i) == form = "incremental" \/ i \in Changed

\* processItems(): what is not stored is created, what has changed is modified
Processed(s) ==
    LET needed == IF s.error THEN {} ELSE {i \in s.arrived : i \notin s.local \/ UpdateItem(i)}
        items  == SetToSeq(needed)
        jobs   == [k \in DOMAIN items |->
                      Job(IF items[k] \in s.local THEN "modify" ELSE "create", {items[k]})]
    IN  [JobsAdded(s, jobs) EXCEPT !.arrived = {}, !.unprocessed = @ \ s.arrived]

\* deleteItems(): in a full sync, whatever was not delivered
Deleted(s) ==
    LET items == s.local \cap (IF form = "full" THEN s.unprocessed ELSE s.removed)
    IN  [IF s.error \/ items = {} THEN s ELSE JobsAdded(s, <<Job("delete", items)>>)
         EXCEPT !.local = {}, !.removed = {}, !.unprocessed = IF form = "full" THEN {} ELSE @]

\* a transaction is created: one for all, or one for each chunk
Opened(s) ==
    IF mode = "None" \/ (mode = "Single" /\ s.current) THEN s
    ELSE [s EXCEPT !.transactions = @ + 1, !.current = TRUE,
                   !.queue = Append(@, NewTransaction)]

\* execute() that commits whatever the mode is
ExecuteChunkwise(s) ==
    IF ~s.listed \/ (~s.delivered /\ s.arrived = {}) THEN s
    ELSE LET done == Processed(Opened(s))
         IN  IF s.delivered THEN CheckDone(Committed(Deleted(done))) ELSE Committed(done)

\* execute() that deletes what was not delivered yet
ExecuteHastily(s) ==
    IF ~s.listed \/ (~s.delivered /\ s.arrived = {}) THEN s
    ELSE LET done == Processed(Opened(s))
         IN  IF s.delivered THEN CheckDone(Committed(Deleted(done)))
             ELSE IF mode = "Multiple" THEN Committed(Deleted(done)) ELSE done

Execute(s) ==
    IF ~s.listed \/ (~s.delivered /\ s.arrived = {}) THEN s
    ELSE LET done == Processed(Opened(s))
         IN  IF s.delivered THEN CheckDone(Committed(Deleted(done)))
             ELSE IF mode = "Multiple" THEN Committed(done) ELSE done

----------------------------------------------------------------------------
(* The resource: it delivers an item once, and after a rollback() only what *)
(* it was about to, which is bounded by one chunk that waits for the list.  *)

Chunk == {items \in SUBSET Item : Cardinality(items) <= MaxChunk}

\* setFullSyncItems(), or setIncrementalSyncItems() with a list of removals;
\* last: the sync is not streaming, or the total number is reached.
Deliver(chunk, removed, last) ==
    /\ sync.results = 0
    /\ sync.delivered => cancelled /\ sync.arrived = {}
    /\ (chunk \cup removed) \cap (told \cup gone) = {}
    /\ chunk \cap removed = {}
    /\ form = "full" => removed = {}
    /\ sync' = Execute([sync EXCEPT !.arrived = @ \cup chunk, !.removed = @ \cup removed,
                                    !.delivered = @ \/ last])
    /\ told' = IF cancelled THEN told ELSE told \cup chunk
    /\ gone' = IF cancelled THEN gone ELSE gone \cup removed
    /\ UNCHANGED <<mode, form, serverVars, before, cancelled, orphaned, undeleted, failures>>

\* deliveryDone()
DeliveryDone ==
    /\ sync.results = 0 /\ ~sync.delivered
    /\ sync' = Execute([sync EXCEPT !.delivered = TRUE])
    /\ UNCHANGED <<callVars, serverVars, orphaned, undeleted, failures>>

\* TransactionSequence::rollback() of the current transaction
RolledBack(s) ==
    LET n == Len(s.queue) IN
    IF ~s.current THEN s
    ELSE IF s.queue[n].state = "Idle"
         THEN TransactionResult([s EXCEPT !.queue[n].failed = TRUE], n)
         ELSE [s EXCEPT !.queue[n] = [Added(@, <<Rollback>>) EXCEPT !.failed = TRUE]]

\* rollback(): the sync ends in an ordered way, with an error
Cancel ==
    /\ sync.results = 0 /\ ~cancelled
    /\ sync' = Execute([RolledBack([sync EXCEPT !.error = TRUE]) EXCEPT !.delivered = TRUE])
    /\ cancelled' = TRUE
    /\ UNCHANGED <<mode, form, before, told, gone, serverVars, orphaned, undeleted, failures>>

----------------------------------------------------------------------------
(* The server                                                              *)

\* what a job makes of the items
Effect(job, items) ==
    [i \in Item |-> IF i \notin job.items THEN items[i]
                    ELSE IF job.kind = "delete" THEN 0 ELSE Version(i)]

\* a job is carried out, or fails; a transaction that cannot be committed is gone
Serve(job, ok) ==
    CASE job.kind = "begin" /\ ok ->
             open' = TRUE /\ saved' = (IF open THEN saved ELSE store) /\ UNCHANGED store
      [] job.kind = "commit" /\ ok -> open' = FALSE /\ UNCHANGED <<store, saved>>
      [] job.kind = "rollback" \/ (job.kind = "commit" /\ ~ok) ->
             open' = FALSE /\ store' = (IF open THEN saved ELSE store) /\ UNCHANGED saved
      [] IsChange(job) /\ ok -> store' = Effect(job, store) /\ UNCHANGED <<saved, open>>
      [] OTHER -> UNCHANGED serverVars

\* the job the server works on: the first one of the first entry of the queue
Waits == sync.queue # <<>> /\ Head(sync.queue).jobs # <<>>
Entry == Head(sync.queue)
Current == Head(Entry.jobs)

\* the answer, which may be that the job failed; rollbacks do not fail
Answer(ok) ==
    /\ Waits
    /\ ok \/ (failures < MaxFailures /\ Current.kind # "rollback")
    /\ failures' = failures + IF ok THEN 0 ELSE 1
    /\ undeleted' = (undeleted \/ (Current.kind = "delete" /\ ~ok))
    /\ UNCHANGED callVars

\* slotLocalListDone(), after slotResult() has set the error
LocalListDone(ok) ==
    /\ Answer(ok)
    /\ Current.kind = "list"
    /\ LET items == IF ok THEN {i \in Item : store[i] # 0} ELSE {}
       IN  sync' = Execute([sync EXCEPT !.queue = Tail(@), !.error = @ \/ ~ok, !.listed = TRUE,
                                        !.local = items, !.unprocessed = items])
    /\ UNCHANGED <<serverVars, orphaned>>

\* slotLocalChangeDone() or slotLocalDeleteDone() of a job without transaction
ChangeDone(ok) ==
    /\ Answer(ok)
    /\ ~Entry.tx /\ Current.kind # "list"
    /\ Serve(Current, ok)
    /\ sync' = CheckDone([sync EXCEPT !.queue = Tail(@), !.error = @ \/ ~ok, !.pending = @ - 1])
    /\ UNCHANGED orphaned

\* TransactionSequence::slotResult() that goes on as if the job had succeeded;
\* a deletion may fail.  A transaction that waited for it is committed.
TransactionGoesOn(ok) ==
    /\ Answer(ok)
    /\ Entry.tx /\ Current.kind \notin {"commit", "rollback"}
    /\ ok \/ Current.kind = "delete"
    /\ Serve(Current, ok)
    /\ LET t == [Entry EXCEPT !.jobs = Tail(@)]
       IN  sync' = CheckDone(
               [sync EXCEPT !.queue[1] = IF t.jobs = <<>> /\ t.state = "Waiting"
                                         THEN Added(t, <<Commit>>) ELSE t,
                            !.pending = @ - IF IsChange(Current) THEN 1 ELSE 0])
    /\ UNCHANGED orphaned

\* The transaction has a result, and is deleted with the jobs left in it.
\* Whether the first of them is still sent depends on the event loop.
TransactionEnds(t, left, done) ==
    /\ sync' = TransactionResult([done EXCEPT !.queue[1] = t], 1)
    /\ orphaned' = (orphaned \/ Changes(left) # {})

\* commitResult() or rollbackResult() of a job that succeeded
TransactionDone ==
    /\ Answer(TRUE)
    /\ Entry.tx /\ Current.kind \in {"commit", "rollback"}
    /\ LET left == Tail(Entry.jobs)
       IN  /\ TransactionEnds(Entry, left, sync)
           /\ IF left # <<>> /\ IsChange(Head(left))
              THEN \/ Serve(Current, TRUE)
                   \/ /\ store' = Effect(Head(left), IF open THEN saved ELSE store)
                      /\ open' = FALSE /\ UNCHANGED saved
              ELSE Serve(Current, TRUE)

\* jobs that are killed without telling anybody
KilledQuietly(t) == IF IsChange(Head(t.jobs)) THEN 1 ELSE 0

\* a job that failed and those that are killed with it: ItemSync hears of them all
Killed(t) == Cardinality(Changes(t.jobs))

\* TransactionSequence::slotResult() of a job that failed: the others are killed
\* and a rollback follows.  If one was queued already, or the commit has failed,
\* the transaction has its result at once.
TransactionFails ==
    /\ Answer(FALSE)
    /\ Entry.tx /\ Current.kind # "delete"
    /\ LET t    == [Entry EXCEPT !.failed = TRUE, !.state = "Running", !.jobs = <<Rollback>>]
           done == [sync EXCEPT !.pending = @ - Killed(Entry)]
       IN  IF Current.kind = "commit" \/ Rollback \in ToSet(Tail(Entry.jobs))
           THEN /\ TransactionEnds(t, <<Rollback>>, done)
                /\ Serve(Current, FALSE) \/ Serve(Rollback, TRUE)
           ELSE /\ sync' = CheckDone([done EXCEPT !.queue[1] = t])
                /\ Serve(Current, FALSE)
                /\ UNCHANGED orphaned

----------------------------------------------------------------------------
Init ==
    /\ mode \in Modes /\ form \in Forms
    /\ sync = [listed |-> FALSE, local |-> {}, unprocessed |-> {}, arrived |-> {},
               removed |-> {}, pending |-> 0, transactions |-> 0, current |-> FALSE,
               delivered |-> FALSE, error |-> FALSE, results |-> 0,
               queue |-> <<Plain(Job("list", {}))>>]
    /\ \E items \in SUBSET Item : store = [i \in Item |-> IF i \in items THEN 1 ELSE 0]
    /\ saved = store /\ open = FALSE /\ before = store
    /\ told = {} /\ gone = {} /\ cancelled = FALSE /\ orphaned = FALSE /\ undeleted = FALSE
    /\ failures = 0

Answers ==
    \/ \E ok \in BOOLEAN : LocalListDone(ok) \/ ChangeDone(ok) \/ TransactionGoesOn(ok)
    \/ TransactionDone \/ TransactionFails

Next ==
    \/ \E chunk \in Chunk, removed \in SUBSET Item, last \in BOOLEAN :
           Deliver(chunk, removed, last)
    \/ DeliveryDone \/ Cancel
    \/ Answers

\* The server answers every job.
Spec == Init /\ [][Next]_vars /\ WF_vars(Answers)
----------------------------------------------------------------------------
(* Properties                                                              *)

JobType == [kind : {"list", "begin", "create", "modify", "delete", "commit", "rollback"},
            items : SUBSET Item]

EntryType == [tx : BOOLEAN, state : {"none", "Idle", "Running", "Waiting"}, failed : BOOLEAN,
              jobs : Seq(JobType)]

SyncType == [listed : BOOLEAN, local : SUBSET Item, unprocessed : SUBSET Item,
             arrived : SUBSET Item, removed : SUBSET Item, pending : Nat, transactions : Nat,
             current : BOOLEAN, delivered : BOOLEAN, error : BOOLEAN, results : {0, 1},
             queue : Seq(EntryType)]

\* Every variable keeps its type; the counters do not fall below zero, and the
\* result is emitted once, although checkDone() is called from all over the place.
TypeOK ==
    /\ mode \in Modes /\ form \in Forms
    /\ sync \in SyncType
    /\ {store, saved, before} \subseteq [Item -> 0 .. 2] /\ open \in BOOLEAN
    /\ told \subseteq Item /\ gone \subseteq Item
    /\ {cancelled, orphaned, undeleted} \subseteq BOOLEAN
    /\ failures \in 0 .. MaxFailures

\* the places in a queue of the changes, and of the transactions
Places(queue) == UNION {{k} \X Changes(queue[k].jobs) : k \in DOMAIN queue}

Transactions(queue) == {k \in DOMAIN queue : queue[k].tx}

\* What ItemSync counts is what it waits for: each change is in the queue until
\* its answer, or its death, was counted, and each transaction until its result;
\* the transaction it adds to is the last one, and still open.
Accounted ==
    /\ ~orphaned => sync.pending = Cardinality(Places(sync.queue))
    /\ sync.transactions = Cardinality(Transactions(sync.queue))
    /\ sync.current => /\ sync.queue # <<>>
                       /\ Last(sync.queue).tx /\ Last(sync.queue).state # "Waiting"
    /\ sync.results > 0 => sync.queue = <<>>

\* what others see: the server without the transaction that is open
Stored == IF open THEN saved ELSE store

Target(i) == IF i \in told THEN IF form = "full" /\ before[i] # 0 /\ i \notin Changed
                                THEN before[i] ELSE Version(i)
             ELSE IF form = "full" \/ i \in gone THEN 0 ELSE before[i]

\* everything was delivered and is stored, except that a deletion in a
\* transaction may have failed
AllStored ==
    /\ sync.delivered
    /\ \A i \in Item :
           \/ Stored[i] = Target(i)
           \/ undeleted /\ Target(i) = 0 /\ Stored[i] = before[i]

\* "all or nothing" (itemsync.h:159): with a single transaction, whatever
\* arrives late, fails or is cancelled, nobody ever sees a part of the sync.
AllOrNothing == (mode = "Single" /\ ~orphaned) => (Stored = before \/ AllStored)

\* Where there are transactions, one for all or one for each chunk (itemsync.h:160),
\* what others see changes only when one is committed in which nothing has failed:
\* a chunk that is being stored is never seen in part, whichever chunks arrive,
\* fail or are cancelled meanwhile.
SeenByCommit ==
    [][mode # "None" /\ ~orphaned' /\ Stored' # Stored =>
           Entry.tx /\ ~Entry.failed /\ Current.kind = "commit"]_vars

\* A result without an error means that the collection has exactly the items
\* that were delivered, in any mode, and that no transaction is left open.
Complete == (sync.results > 0 /\ ~sync.error) => (AllStored /\ ~open)

\* An item that was stored is missing only because the resource said so: it was
\* reported as removed, or left out of a full listing that was complete.
NothingLost ==
    \A i \in Item : before[i] # 0 /\ store[i] = 0 =>
        \/ i \in gone
        \/ form = "full" /\ sync.delivered /\ i \notin told

\* A sync whose delivery is over, or which is cancelled, has a result some day -
\* unless a transaction was deleted with changes left in it.
Ends == sync.delivered ~> (sync.results > 0 \/ orphaned)

\* "propagate the first error we got but continue, we might still be fed with
\* stuff from a resource" (itemsync.cpp:451): a sync in which something failed
\* ends, too.
EndsAfterErrors == sync.delivered ~> (sync.results > 0)
=============================================================================
