------------------------------ MODULE QueueSpec ------------------------------
(***************************************************************************)
(* What a priority queue promises: a set of entries, no two for the same   *)
(* item, from which the entries are taken in the order of priority, then   *)
(* timestamp, then arrival. The module PriorityQueue has the heap that     *)
(* implements it.                                                          *)
(***************************************************************************)
EXTENDS Naturals

CONSTANTS Items, Priorities, Timestamps

Entry == [item : Items, priority : Priorities, timestamp : Timestamps, index : Nat]

(* QueueEntry.__lt__: the index makes the order strict.                    *)
Before(a, b) ==
    \/ a.priority < b.priority
    \/ /\ a.priority = b.priority
       /\ \/ a.timestamp < b.timestamp
          \/ a.timestamp = b.timestamp /\ a.index < b.index

VARIABLES entries, arrivals

InQueue(item) == \E e \in entries : e.item = item

Add(item, priority, timestamp) ==
    /\ ~InQueue(item)
    /\ entries' = entries \cup {[item |-> item, priority |-> priority,
                                 timestamp |-> timestamp, index |-> arrivals]}
    /\ arrivals' = arrivals + 1

(* One or more entries leave, and none that stays comes before them.       *)
Take(S) ==
    /\ S # {}
    /\ \A e \in S, f \in entries \ S : Before(e, f)
    /\ entries' = entries \ S
    /\ UNCHANGED arrivals

Discard(e) ==
    /\ e \in entries
    /\ entries' = entries \ {e}
    /\ UNCHANGED arrivals

Reprioritize(e, priority) ==
    /\ e \in entries
    /\ entries' = (entries \ {e}) \cup {[e EXCEPT !.priority = priority]}
    /\ UNCHANGED arrivals

QueueInit == entries = {} /\ arrivals = 0

QueueNext ==
    \/ \E i \in Items, p \in Priorities, t \in Timestamps : Add(i, p, t)
    \/ \E S \in SUBSET entries : Take(S)
    \/ \E e \in entries : Discard(e)
    \/ \E e \in entries, p \in Priorities : Reprioritize(e, p)

QueueBehaviour == QueueInit /\ [][QueueNext]_<<entries, arrivals>>

=============================================================================
