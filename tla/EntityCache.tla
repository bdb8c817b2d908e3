----------------------------- MODULE EntityCache -----------------------------
(***************************************************************************)
(* Akonadi's EntityCache: a FIFO of at most Capacity entities, fetched on  *)
(* demand.  Its value is a record                                          *)
(*                                                                         *)
(*   nodes: mCache, the oldest first                                       *)
(*   jobs:  the fetch jobs under way; one session answers them in order    *)
(*                                                                         *)
(* An entity is known by its id alone.  "old" says that the entity was     *)
(* changed after the fetch its data comes from had been sent: an old job   *)
(* may answer with data that no longer holds, and is assumed to.           *)
(* invalidate() only hides the payload of a deleted entity and is left out.*)
(***************************************************************************)
EXTENDS Integers, Sequences

CONSTANT Capacity  \* mCapacity

ASSUME CapacityAssumption == Capacity \in Nat \ {0}

EmptyCache == [nodes |-> <<>>, jobs |-> <<>>]

IsRequested(c, id) == \E k \in DOMAIN c.nodes : c.nodes[k].id = id

IsCached(c, id) ==
    \E k \in DOMAIN c.nodes : c.nodes[k].id = id /\ ~c.nodes[k].pending

\* shrinkCache() drops entries from the front until one more fits, but
\* stops at one that is still awaited
Shrunk(nodes) ==
    LET Fits(k) == Len(nodes) - k < Capacity \/ nodes[k + 1].pending
        dropped == CHOOSE k \in 0 .. Len(nodes) :
                       Fits(k) /\ \A j \in 0 .. k - 1 : ~Fits(j)
    IN  SubSeq(nodes, dropped + 1, Len(nodes))

Request(c, id) ==
    [nodes |-> Append(Shrunk(c.nodes), [id |-> id, pending |-> TRUE, old |-> FALSE]),
     jobs  |-> Append(c.jobs, [id |-> id, old |-> FALSE])]

\* the entity has changed: what was asked about it so far is out of date
Aged(c, id) ==
    [c EXCEPT !.jobs = [k \in DOMAIN @ |-> IF @[k].id = id
                                           THEN [@[k] EXCEPT !.old = TRUE]
                                           ELSE @[k]]]

\* the entry of id is taken out, the first one cacheNodeForId() finds
Without(c, id) ==
    IF ~IsRequested(c, id) THEN c
    ELSE LET k == CHOOSE k \in DOMAIN c.nodes :
                      c.nodes[k].id = id /\ \A j \in 1 .. k - 1 : c.nodes[j].id # id
         IN  [c EXCEPT !.nodes = [i \in 1 .. Len(@) - 1 |-> @[IF i < k THEN i ELSE i + 1]]]

\* update() that leaves an entry alone while it is awaited
UpdateLeaves(c, id) ==
    IF IsRequested(c, id) /\ ~IsCached(c, id)
    THEN Aged(c, id)
    ELSE Without(Aged(c, id), id)

\* update() that does not ask again for an awaited entry
UpdateForgets(c, id) == Without(Aged(c, id), id)

\* update(): the entry goes, and is requested again if it was awaited
Update(c, id) ==
    LET aged == Aged(c, id) IN
    IF IsRequested(c, id) /\ ~IsCached(c, id)
    THEN Request(Without(aged, id), id)
    ELSE Without(aged, id)

\* ensureCached(): the cache afterwards; IsCached(c, id) is its result
Ensured(c, id) == IF IsRequested(c, id) THEN c ELSE Request(c, id)

\* processResult() of the oldest job; an entry that is gone stays gone
Answered(c) ==
    LET job == Head(c.jobs)
        Filled(n) == IF n.id = job.id
                     THEN [n EXCEPT !.pending = FALSE, !.old = job.old]
                     ELSE n
    IN  [nodes |-> [k \in DOMAIN c.nodes |-> Filled(c.nodes[k])],
         jobs  |-> Tail(c.jobs)]
=============================================================================
