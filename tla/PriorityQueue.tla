---------------------------- MODULE PriorityQueue ----------------------------
(***************************************************************************)
(* The priority queue of the services (cms/io/priorityqueue.py): a binary  *)
(* min-heap of entries with a reverse lookup from items to positions, and  *)
(* an event that tells a waiting greenlet that there is something to pop.  *)
(* No method yields to another greenlet before it is done, except pop and  *)
(* top with wait, which yield before they start; so a method is a step.    *)
(*                                                                         *)
(* Positions count from 1 here, and from 0 in the code: the parent of i is *)
(* i \div 2, its children are 2i and 2i + 1.                               *)
(***************************************************************************)
EXTENDS Naturals, Sequences, Functions

CONSTANTS Items, Priorities, Timestamps

ASSUME QueueAssumption == Priorities \subseteq Nat /\ Timestamps \subseteq Nat

VARIABLES
    heap,           \* _queue
    reverse,        \* _reverse: position of each item
    event,          \* _event
    next_index      \* _next_index

queueVars == <<heap, reverse, event, next_index>>

PQInit == heap = <<>> /\ reverse = <<>> /\ event = FALSE /\ next_index = 0

Less(a, b) ==
    \/ a.priority < b.priority
    \/ /\ a.priority = b.priority
       /\ \/ a.timestamp < b.timestamp
          \/ a.timestamp = b.timestamp /\ a.index < b.index

-----------------------------------------------------------------------------
(* The heap and its lookup together: q is the list, r the dictionary.      *)
Heap(q, r) == [q |-> q, r |-> r]

Swap(h, i, j) ==
    LET q == [h.q EXCEPT ![i] = h.q[j], ![j] = h.q[i]]
    IN  Heap(q, [h.r EXCEPT ![q[i].item] = i, ![q[j].item] = j])

(* A turn of the loop of _up_heap: s is the heap and where the element is. *)
UpTurn(s) ==
    LET h == s[1]
        i == s[2]
    IN  IF i > 1 /\ Less(h.q[i], h.q[i \div 2])
        THEN <<Swap(h, i \div 2, i), i \div 2>>
        ELSE s

(* UpHeap and DownHeap return the heap and where the element ended. Each   *)
(* turn moves it, so as many turns as there are places are enough.         *)
UpHeap(h, i) ==
    LET turn[k \in 0 .. i] == IF k = 0 THEN <<h, i>> ELSE UpTurn(turn[k - 1])
    IN  turn[i]

SmallerChild(q, i) ==
    IF 2 * i + 1 <= Len(q) /\ Less(q[2 * i + 1], q[2 * i]) THEN 2 * i + 1 ELSE 2 * i

DownTurn(s) ==
    LET h == s[1]
        i == s[2]
        c == SmallerChild(h.q, i)
    IN  IF 2 * i <= Len(h.q) /\ Less(h.q[c], h.q[i]) THEN <<Swap(h, c, i), c>> ELSE s

DownHeap(h, i) ==
    LET turn[k \in 0 .. Len(h.q)] == IF k = 0 THEN <<h, i>> ELSE DownTurn(turn[k - 1])
    IN  turn[Len(h.q)]

(* Mutation: an element put in the middle of the heap only sinks.          *)
UpDownHeapDown(h, i) == DownHeap(h, i)[1]

UpDownHeap(h, i) == LET up == UpHeap(h, i) IN DownHeap(up[1], up[2])[1]

(* The last element takes the place i of the one that leaves.              *)
Cut(h, i) ==
    LET s == Swap(h, i, Len(h.q))
    IN  Heap(SubSeq(s.q, 1, Len(s.q) - 1),
             Restrict(s.r, DOMAIN s.r \ {h.q[i].item}))

Popped(h) == LET c == Cut(h, 1) IN IF c.q = <<>> THEN c ELSE DownHeap(c, 1)[1]

Removed(h, i) ==
    LET c == Cut(h, i) IN IF i = Len(h.q) THEN c ELSE UpDownHeap(c, i)

(* The queue after its first n entries were popped.                        *)
PoppedN(h, n) ==
    LET left[k \in 0 .. Len(h.q)] == IF k = 0 THEN h ELSE Popped(left[k - 1])
    IN  left[n]

FirstN(h, n) == [k \in 1 .. n |-> PoppedN(h, k - 1).q[1]]

-----------------------------------------------------------------------------
BecomesHeap(h) == heap' = h.q /\ reverse' = h.r

Contains(item) == item \in DOMAIN reverse

(* push: an item that is there is not pushed again.                        *)
Push(item, priority, timestamp) ==
    /\ ~Contains(item)
    /\ LET e == [item |-> item, priority |-> priority,
                 timestamp |-> timestamp, index |-> next_index]
           n == Len(heap) + 1
           r == [k \in DOMAIN reverse \cup {item} |-> IF k = item THEN n ELSE reverse[k]]
       IN  BecomesHeap(UpHeap(Heap(Append(heap, e), r), n)[1])
    /\ event' = TRUE
    /\ next_index' = next_index + 1

(* n times pop, without waiting after the first.                           *)
Pop(n) ==
    /\ n \in 1 .. Len(heap)
    /\ BecomesHeap(PoppedN(Heap(heap, reverse), n))
    /\ event' = (event /\ n < Len(heap))
    /\ UNCHANGED next_index

Remove(item) ==
    /\ Contains(item)
    /\ BecomesHeap(Removed(Heap(heap, reverse), reverse[item]))
    /\ event' = (event /\ Len(heap) > 1)
    /\ UNCHANGED next_index

SetPriority(item, priority) ==
    /\ Contains(item)
    /\ LET q == [heap EXCEPT ![reverse[item]].priority = priority]
       IN  BecomesHeap(UpDownHeap(Heap(q, reverse), reverse[item]))
    /\ UNCHANGED <<event, next_index>>

-----------------------------------------------------------------------------
(* _verify, which the tests call: the lookup is exact and the event is set *)
(* if and only if there is something in the queue.                         *)
Verified ==
    /\ DOMAIN reverse = {heap[i].item : i \in DOMAIN heap}
    /\ \A i \in DOMAIN heap : reverse[heap[i].item] = i
    /\ event = (heap # <<>>)

(* No entry is smaller than its parent, in spite of removals and changes   *)
(* of priority in the middle of the heap.                                  *)
HeapOrder == \A i \in 2 .. Len(heap) : Less(heap[i \div 2], heap[i])

(* The heap implements a queue in order of priority (QueueSpec).           *)
Abstract == INSTANCE QueueSpec WITH
    entries <- {heap[i] : i \in DOMAIN heap}, arrivals <- next_index

InOrder == Abstract!QueueBehaviour

=============================================================================
