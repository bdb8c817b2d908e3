------------------------------ MODULE MCResource ------------------------------
(***************************************************************************)
(* Resource for TLC.  What comes from outside is bounded as a whole, so    *)
(* that every kind of event can meet every other one.  Requests and items  *)
(* are interchangeable, so it is enough to use them in an order; tasks     *)
(* that only wait for a job are scheduled for one collection.              *)
(***************************************************************************)
EXTENDS Resource

CONSTANT MaxEvents  \* bound: requests, changes and disturbances together

Events == Cardinality({r \in Request : status[r] # "new"})
    + used["asked"] + used["changed"] + used["offline"] + used["deferred"] + used["aborted"]

Requesters == CHOOSE f \in [1 .. Cardinality(Request) -> Request] :
                  \A r \in Request : \E k \in DOMAIN f : f[k] = r

FirstItem  == CHOOSE i \in Item : TRUE
Home       == CHOOSE c \in Collection : TRUE

Chosen(t) ==
    /\ t.type \in {"SyncCollectionAttributes", "InvalidateCacheForCollection"} => t.arg = Home
    /\ Requesters[1] \in t.msgs => t.arg = FirstItem

Canonical ==
    /\ \A k \in 2 .. Cardinality(Request) :
           status[Requesters[k]] # "new" => status[Requesters[k - 1]] # "new"
    /\ \A q \in Queue : \A k \in DOMAIN sched.queue[q] : Chosen(sched.queue[q][k])
    /\ Chosen(sched.current)

MCSpec == Init /\ [][Next /\ Events' <= MaxEvents /\ Canonical']_vars /\ Fairness
=============================================================================
