----------------------------- MODULE ChangeQueue -----------------------------
(***************************************************************************)
(* What a ChangeRecorder promises: a durable queue of changes.             *)
(*                                                                         *)
(* The changes survive a restart of the agent.  They leave the queue one   *)
(* by one, from its front, each after a change was given to the agent and  *)
(* answered; the only others to leave are changes nobody wants any more    *)
(* and modifications of an item that is removed afterwards.  The queue is  *)
(* written as a whole, and a restart in the middle of that keeps only a    *)
(* prefix of it.                                                           *)
(***************************************************************************)
EXTENDS Sublists

CONSTANTS
    NoChange,    \* nothing is given to the agent
    Wants(_, _)  \* whether a change is wanted under a filter

VARIABLES
    changes, \* what a restart would find
    given,   \* the change the agent works on
    writing, \* the queue is being written
    durable, \* changes are still written: the agent has not quit
    filter   \* what the agent listens to

vars == <<changes, given, writing, durable, filter>>

Init ==
    /\ changes = <<>>
    /\ given = NoChange
    /\ writing = FALSE
    /\ durable = TRUE

Overtaken(m, later) ==
    m.op = "Modify" /\ \E k \in DOMAIN later : later[k].op = "Remove" /\ later[k].uid = m.uid

\* the same change, perhaps with more parts
Grown(m, n) == m.parts \subseteq n.parts /\ n = [m EXCEPT !.parts = n.parts]

Extends(old, new) ==
    \E K \in SUBSET DOMAIN old :
        \E kept \in Sublist(old, K) :
            /\ Len(kept) <= Len(new)
            /\ \A k \in DOMAIN kept : Grown(kept[k], new[k])
            /\ \A k \in DOMAIN old \ K :
                   Overtaken(old[k], SubSeq(new, Len(kept) + 1, Len(new)))

\* changes arrive
Record ==
    /\ durable /\ ~writing
    /\ writing'
    /\ UNCHANGED <<given, durable, filter>>
    /\ Extends(changes, changes')

Give ==
    /\ given = NoChange
    /\ given' # NoChange
    /\ UNCHANGED <<changes, writing, durable, filter>>

\* the agent has dealt with a change
Answer ==
    /\ given # NoChange
    /\ given' = NoChange
    /\ changes' = IF durable /\ changes # <<>> THEN Tail(changes) ELSE changes
    /\ UNCHANGED <<durable, filter>>

\* what nobody wants under filter f may be dropped
Drop(f) ==
    \E K \in SUBSET DOMAIN changes :
        /\ \A k \in DOMAIN changes \ K : ~Wants(f, changes[k])
        /\ changes' \in Sublist(changes, K)

Forget ==
    /\ durable /\ ~writing
    /\ UNCHANGED <<given, durable, filter>>
    /\ Drop(filter)

\* the agent listens to something else from now on
Rewire ==
    /\ ~writing
    /\ filter' # filter
    /\ UNCHANGED <<given, durable>>
    /\ Drop(filter')

Rewrite ==
    /\ durable /\ ~writing /\ writing'
    /\ UNCHANGED <<changes, given, durable, filter>>

Written ==
    /\ writing /\ ~writing'
    /\ durable' \in {durable, FALSE}
    /\ UNCHANGED <<changes, given, filter>>

Restart ==
    /\ given' = NoChange
    /\ \E n \in 0 .. Len(changes) :
           /\ ~writing => n = Len(changes)
           /\ changes' = SubSeq(changes, 1, n)
    /\ ~writing' /\ durable'
    /\ UNCHANGED filter

Next == Record \/ Give \/ Answer \/ Forget \/ Rewire \/ Rewrite \/ Written \/ Restart

Spec == Init /\ [][Next]_vars
=============================================================================
