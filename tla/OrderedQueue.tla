---------------------------- MODULE OrderedQueue ----------------------------
(****************************************************************************)
(* What the users of the red-black tree rely on: the scheduler's run queue,  *)
(* the timers, the users of the authenticator and the names of the mapped    *)
(* DNS. The nodes are kept in the order of their keys, a node behind those    *)
(* of the same key that were there before it.                                *)
(****************************************************************************)
EXTENDS Integers, Sequences, FiniteSets, SequencesExt

CONSTANTS
    Nodes,
    key,    \* sched_key, the time a timer is due, a name
    NULL

VARIABLES
    queue,  \* the nodes in the order of a walk from the first one
    first   \* the node the users take without a walk

FirstOf(q) == IF q = <<>> THEN NULL ELSE Head(q)

Before(n) == Cardinality({i \in DOMAIN queue : key[queue[i]] <= key[n]})

Insert(n) ==
    /\ n \notin ToSet(queue)
    /\ queue' = InsertAt(queue, Before(n) + 1, n)
    /\ first' = FirstOf(queue')

Erase(n) ==
    /\ n \in ToSet(queue)
    /\ queue' = Remove(queue, n)
    /\ first' = FirstOf(queue')

Init == queue = <<>> /\ first = NULL
Next == \E n \in Nodes : Insert(n) \/ Erase(n)
Spec == Init /\ [][Next]_<<queue, first>>

=============================================================================
