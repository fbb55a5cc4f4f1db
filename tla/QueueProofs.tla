---------------------------- MODULE QueueProofs -----------------------------
(***************************************************************************)
(* Proofs about the priority queue of the services and the executor that   *)
(* takes from it, for every set of items, priorities and timestamps, and   *)
(* every length of the queue.                                              *)
(***************************************************************************)
EXTENDS TriggeredService, TLAPS, WellFoundedInduction

LEMMA SetInduction ==
    ASSUME NEW S, 0 \in S, \A n \in Nat : n \in S => n + 1 \in S
    PROVE  Nat \subseteq S
  <1> DEFINE T == Nat \ S
             Below == {ss \in Nat \X Nat : ss[1] < ss[2]}
  <1> SUFFICES ASSUME T # {} PROVE FALSE
    OBVIOUS
  <1>1. T \subseteq Nat
    OBVIOUS
  <1>2. IsWellFoundedOn(Below, Nat)
    BY NatLessThanWellFounded DEF OpToRel
  <1> HIDE DEF T, Below
  <1>3. PICK n \in T : \A m \in T : <<m, n>> \notin Below
    BY <1>1, <1>2, WFMin
  <1>4. n # 0 /\ n - 1 \in Nat
    BY <1>1, <1>3 DEF T
  <1>5. <<n - 1, n>> \in Below
    BY <1>1, <1>4 DEF Below
  <1> QED  BY <1>3, <1>4, <1>5 DEF T

-----------------------------------------------------------------------------
(* The loops. Each of the three recursive functions has the value its      *)
(* definition gives, whatever it is applied to.                            *)

LEMMA UpLoop ==
    ASSUME NEW h, NEW i \in Nat
    PROVE  \E f : /\ f[0] = <<h, i>>
                  /\ \A k \in 0 .. (i - 1) : f[k + 1] = UpTurn(f[k])
                  /\ UpHeap(h, i) = f[i]
  <1> DEFINE Body(f, m) == [k \in 0 .. m |-> IF k = 0 THEN <<h, i>> ELSE UpTurn(f[k - 1])]
             T == {m \in Nat : \E f : f = Body(f, m)}
  <1>1. 0 \in T
    <2> DEFINE f == [k \in 0 .. 0 |-> <<h, i>>]
    <2>1. f = Body(f, 0)
      OBVIOUS
    <2> HIDE DEF f, Body
    <2> QED  BY <2>1
  <1>2. ASSUME NEW m \in Nat, m \in T PROVE m + 1 \in T
    <2>1. PICK g : g = Body(g, m)
      BY <1>2
    <2> DEFINE f == Body(g, m + 1)
    <2>2. \A k \in 0 .. m : f[k] = g[k]
      <3>1. \A k \in 0 .. m : g[k] = IF k = 0 THEN <<h, i>> ELSE UpTurn(g[k - 1])
        BY <2>1
      <3> QED  BY <3>1
    <2>3. f = Body(f, m + 1)
      <3>1. \A k \in 0 .. (m + 1) : k # 0 => k - 1 \in 0 .. m
        OBVIOUS
      <3>2. \A k \in 0 .. (m + 1) : k # 0 => UpTurn(g[k - 1]) = UpTurn(f[k - 1])
        <4> HIDE DEF f
        <4> QED  BY <2>2, <3>1
      <3> QED  BY <3>2, Zenon
    <2> HIDE DEF f, Body
    <2> QED  BY <2>3
  <1>3. i \in T
    <2> HIDE DEF T
    <2>1. Nat \subseteq T
      BY <1>1, <1>2, SetInduction
    <2> QED  BY <2>1
  <1> DEFINE turn == CHOOSE f : f = Body(f, i)
  <1>4. turn = Body(turn, i)
    <2> HIDE DEF Body
    <2> QED  BY <1>3, Zenon
  <1>5. UpHeap(h, i) = turn[i]
    BY DEF UpHeap
  <1>6. turn[0] = <<h, i>> /\ \A k \in 0 .. (i - 1) : turn[k + 1] = UpTurn(turn[k])
    <2>1. \A k \in 0 .. i : turn[k] = IF k = 0 THEN <<h, i>> ELSE UpTurn(turn[k - 1])
      <3> HIDE DEF turn
      <3> QED  BY <1>4
    <2>2. \A k \in 0 .. (i - 1) : k + 1 \in 0 .. i /\ k + 1 # 0 /\ (k + 1) - 1 = k
      OBVIOUS
    <2> HIDE DEF turn
    <2> QED  BY <2>1, <2>2
  <1> HIDE DEF turn
  <1> QED  BY <1>5, <1>6

LEMMA DownLoop ==
    ASSUME NEW h, NEW i, Len(h.q) \in Nat
    PROVE  \E f : /\ f[0] = <<h, i>>
                  /\ \A k \in 0 .. (Len(h.q) - 1) : f[k + 1] = DownTurn(f[k])
                  /\ DownHeap(h, i) = f[Len(h.q)]
  <1> DEFINE Body(f, m) == [k \in 0 .. m |-> IF k = 0 THEN <<h, i>> ELSE DownTurn(f[k - 1])]
             T == {m \in Nat : \E f : f = Body(f, m)}
  <1>1. 0 \in T
    <2> DEFINE f == [k \in 0 .. 0 |-> <<h, i>>]
    <2>1. f = Body(f, 0)
      OBVIOUS
    <2> HIDE DEF f, Body
    <2> QED  BY <2>1
  <1>2. ASSUME NEW m \in Nat, m \in T PROVE m + 1 \in T
    <2>1. PICK g : g = Body(g, m)
      BY <1>2
    <2> DEFINE f == Body(g, m + 1)
    <2>2. \A k \in 0 .. m : f[k] = g[k]
      <3>1. \A k \in 0 .. m : g[k] = IF k = 0 THEN <<h, i>> ELSE DownTurn(g[k - 1])
        BY <2>1
      <3> QED  BY <3>1
    <2>3. f = Body(f, m + 1)
      <3>1. \A k \in 0 .. (m + 1) : k # 0 => k - 1 \in 0 .. m
        OBVIOUS
      <3>2. \A k \in 0 .. (m + 1) : k # 0 => DownTurn(g[k - 1]) = DownTurn(f[k - 1])
        <4> HIDE DEF f
        <4> QED  BY <2>2, <3>1
      <3> QED  BY <3>2, Zenon
    <2> HIDE DEF f, Body
    <2> QED  BY <2>3
  <1>3. Len(h.q) \in T
    <2> HIDE DEF T
    <2>1. Nat \subseteq T
      BY <1>1, <1>2, SetInduction
    <2> QED  BY <2>1
  <1> DEFINE turn == CHOOSE f : f = Body(f, Len(h.q))
  <1>4. turn = Body(turn, Len(h.q))
    <2> HIDE DEF Body
    <2> QED  BY <1>3, Zenon
  <1>5. DownHeap(h, i) = turn[Len(h.q)]
    BY DEF DownHeap
  <1>6. turn[0] = <<h, i>> /\ \A k \in 0 .. (Len(h.q) - 1) : turn[k + 1] = DownTurn(turn[k])
    <2>1. \A k \in 0 .. Len(h.q) : turn[k] = IF k = 0 THEN <<h, i>> ELSE DownTurn(turn[k - 1])
      <3> HIDE DEF turn
      <3> QED  BY <1>4
    <2>2. \A k \in 0 .. (Len(h.q) - 1) : k + 1 \in 0 .. Len(h.q) /\ k + 1 # 0 /\ (k + 1) - 1 = k
      OBVIOUS
    <2> HIDE DEF turn
    <2> QED  BY <2>1, <2>2
  <1> HIDE DEF turn
  <1> QED  BY <1>5, <1>6

LEMMA PopLoop ==
    ASSUME NEW h, Len(h.q) \in Nat
    PROVE  \E f : /\ f[0] = h
                  /\ \A k \in 0 .. (Len(h.q) - 1) : f[k + 1] = Popped(f[k])
                  /\ \A n : PoppedN(h, n) = f[n]
  <1> DEFINE Body(f, m) == [k \in 0 .. m |-> IF k = 0 THEN h ELSE Popped(f[k - 1])]
             T == {m \in Nat : \E f : f = Body(f, m)}
  <1>1. 0 \in T
    <2> DEFINE f == [k \in 0 .. 0 |-> h]
    <2>1. f = Body(f, 0)
      OBVIOUS
    <2> HIDE DEF f, Body
    <2> QED  BY <2>1
  <1>2. ASSUME NEW m \in Nat, m \in T PROVE m + 1 \in T
    <2>1. PICK g : g = Body(g, m)
      BY <1>2
    <2> DEFINE f == Body(g, m + 1)
    <2>2. \A k \in 0 .. m : f[k] = g[k]
      <3>1. \A k \in 0 .. m : g[k] = IF k = 0 THEN h ELSE Popped(g[k - 1])
        BY <2>1
      <3> QED  BY <3>1
    <2>3. f = Body(f, m + 1)
      <3>1. \A k \in 0 .. (m + 1) : k # 0 => k - 1 \in 0 .. m
        OBVIOUS
      <3>2. \A k \in 0 .. (m + 1) : k # 0 => Popped(g[k - 1]) = Popped(f[k - 1])
        <4> HIDE DEF f
        <4> QED  BY <2>2, <3>1
      <3> QED  BY <3>2, Zenon
    <2> HIDE DEF f, Body
    <2> QED  BY <2>3
  <1>3. Len(h.q) \in T
    <2> HIDE DEF T
    <2>1. Nat \subseteq T
      BY <1>1, <1>2, SetInduction
    <2> QED  BY <2>1
  <1> DEFINE turn == CHOOSE f : f = Body(f, Len(h.q))
  <1>4. turn = Body(turn, Len(h.q))
    <2> HIDE DEF Body
    <2> QED  BY <1>3, Zenon
  <1>5. \A n : PoppedN(h, n) = turn[n]
    BY DEF PoppedN
  <1>6. turn[0] = h /\ \A k \in 0 .. (Len(h.q) - 1) : turn[k + 1] = Popped(turn[k])
    <2>1. \A k \in 0 .. Len(h.q) : turn[k] = IF k = 0 THEN h ELSE Popped(turn[k - 1])
      <3> HIDE DEF turn
      <3> QED  BY <1>4
    <2>2. \A k \in 0 .. (Len(h.q) - 1) : k + 1 \in 0 .. Len(h.q) /\ k + 1 # 0 /\ (k + 1) - 1 = k
      OBVIOUS
    <2> HIDE DEF turn
    <2> QED  BY <2>1, <2>2
  <1> HIDE DEF turn
  <1> QED  BY <1>5, <1>6

-----------------------------------------------------------------------------
(* The order of the entries.                                               *)

Entry == [item : Items, priority : Priorities, timestamp : Timestamps, index : Nat]

LEMMA EntryFields ==
    ASSUME NEW a \in Entry
    PROVE  a.priority \in Nat /\ a.timestamp \in Nat /\ a.index \in Nat
  BY QueueAssumption DEF Entry

LEMMA LessTransitive ==
    ASSUME NEW a \in Entry, NEW b \in Entry, NEW c \in Entry, Less(a, b), Less(b, c)
    PROVE  Less(a, c)
  BY EntryFields DEF Less

LEMMA LessAsymmetric ==
    ASSUME NEW a \in Entry, NEW b \in Entry, Less(a, b)
    PROVE  ~Less(b, a)
  BY EntryFields DEF Less

LEMMA LessTotal ==
    ASSUME NEW a \in Entry, NEW b \in Entry, a.index # b.index
    PROVE  Less(a, b) \/ Less(b, a)
  BY EntryFields DEF Less

-----------------------------------------------------------------------------
(* The shape of the heap: E is what it holds, in n places.                 *)

Contents(q) == {q[k] : k \in 1 .. Len(q)}

Unique(E) == \A a, b \in E : a.index = b.index => a = b

Fits(h, E, n) ==
    /\ h.q \in Seq(Entry) /\ Len(h.q) = n
    /\ DOMAIN h.r = {h.q[k].item : k \in 1 .. n}
    /\ \A k \in 1 .. n : h.r[h.q[k].item] = k
    /\ Contents(h.q) = E

Swapped(q, q2, n, i, j) ==
    \A k \in 1 .. n : q2[k] = IF k = i THEN q[j] ELSE IF k = j THEN q[i] ELSE q[k]

LEMMA SwapFits ==
    ASSUME NEW E, NEW n \in Nat, NEW h, Fits(h, E, n), NEW i \in 1 .. n, NEW j \in 1 .. n
    PROVE  Fits(Swap(h, i, j), E, n) /\ Swapped(h.q, Swap(h, i, j).q, n, i, j)
  <1> DEFINE q == h.q
             q2 == [q EXCEPT ![i] = q[j], ![j] = q[i]]
             r2 == [h.r EXCEPT ![q2[i].item] = i, ![q2[j].item] = j]
  <1>1. Swap(h, i, j).q = q2 /\ Swap(h, i, j).r = r2
    BY DEF Swap, Heap
  <1>2. q \in Seq(Entry) /\ Len(q) = n
    BY DEF Fits
  <1>3. q2 \in Seq(Entry) /\ Len(q2) = n
    BY <1>2
  <1>4. Swapped(q, q2, n, i, j)
    BY <1>2, <1>3 DEF Swapped
  <1>5. \A k \in 1 .. n : h.r[q[k].item] = k /\ q[k].item \in DOMAIN h.r
    BY DEF Fits
  <1>6. q2[i] = q[j] /\ q2[j] = q[i]
    BY <1>4 DEF Swapped
  <1>7. \A k \in 1 .. n : r2[q2[k].item] = k
    <2> HIDE DEF q2, q
    <2> SUFFICES ASSUME NEW k \in 1 .. n PROVE r2[q2[k].item] = k
      OBVIOUS
    <2>1. CASE k = j
      BY <2>1, <1>5, <1>6
    <2>2. CASE k # j /\ k = i
      BY <2>2, <1>5, <1>6
    <2>3. CASE k # j /\ k # i
      <3>1. q2[k] = q[k]
        BY <2>3, <1>4 DEF Swapped
      <3> QED  BY <2>3, <3>1, <1>5, <1>6
    <2> QED  BY <2>1, <2>2, <2>3
  <1>8. DOMAIN r2 = {q2[k].item : k \in 1 .. n}
    <2>1. DOMAIN r2 = {q[k].item : k \in 1 .. n}
      BY DEF Fits
    <2> HIDE DEF q2, q, r2
    <2> QED  BY <2>1, <1>4 DEF Swapped
  <1>9. Contents(q2) = Contents(q)
    <2> HIDE DEF q2, q
    <2> QED  BY <1>2, <1>3, <1>4 DEF Swapped, Contents
  <1> QED
    <2>1. Contents(q) = E
      BY DEF Fits
    <2> HIDE DEF q2, r2
    <2> QED  BY <2>1, <1>1, <1>3, <1>4, <1>7, <1>8, <1>9 DEF Fits

-----------------------------------------------------------------------------
(* The order in the heap, when only the entry at i may be out of place.    *)

Loose(q, n, i) ==
    /\ \A j \in 2 .. n : j # i /\ j \div 2 # i => Less(q[j \div 2], q[j])
    /\ \A j \in 2 .. n : i > 1 /\ j \div 2 = i => Less(q[i \div 2], q[j])

ParentIn(q, n, i) == i > 1 => Less(q[i \div 2], q[i])

ChildrenIn(q, n, i) == \A j \in 2 .. n : j \div 2 = i => Less(q[i], q[j])

Ordered(q, n) == \A j \in 2 .. n : Less(q[j \div 2], q[j])

Holds(q, E, n) ==
    /\ \A k \in 1 .. n : q[k] \in E
    /\ \A k, l \in 1 .. n : k # l => q[k].index # q[l].index

LEMMA FitsHolds ==
    ASSUME NEW E, NEW n \in Nat, NEW h, Fits(h, E, n), Unique(E)
    PROVE  E \subseteq Entry /\ Holds(h.q, E, n)
  <1>1. \A k \in 1 .. n : h.q[k] \in Entry /\ h.q[k] \in E
    BY DEF Fits, Contents
  <1>2. E \subseteq Entry
    BY DEF Fits, Contents
  <1>3. ASSUME NEW k \in 1 .. n, NEW l \in 1 .. n, h.q[k].index = h.q[l].index PROVE k = l
    <2>1. h.q[k] = h.q[l]
      BY <1>1, <1>3 DEF Unique
    <2> QED  BY <2>1 DEF Fits
  <1> QED  BY <1>1, <1>2, <1>3 DEF Holds

LEMMA Settled ==
    ASSUME NEW n \in Nat, NEW q, NEW i \in 1 .. n, Loose(q, n, i), ParentIn(q, n, i), ChildrenIn(q, n, i)
    PROVE  Ordered(q, n)
  BY DEF Loose, ParentIn, ChildrenIn, Ordered

LEMMA SwapUp ==
    ASSUME NEW E \in SUBSET Entry, NEW n \in Nat, NEW q, NEW q2, NEW i \in 2 .. n,
           Holds(q, E, n), Loose(q, n, i), Less(q[i], q[i \div 2]), Swapped(q, q2, n, i \div 2, i)
    PROVE  Loose(q2, n, i \div 2) /\ ChildrenIn(q2, n, i \div 2)
  <1> DEFINE p == i \div 2
  <1>1. p \in 1 .. n /\ p < i
    OBVIOUS
  <1>2. \A k \in 1 .. n : q[k] \in Entry
    BY DEF Holds
  <1>3. q2[p] = q[i] /\ q2[i] = q[p] /\ \A k \in 1 .. n : k # i /\ k # p => q2[k] = q[k]
    BY <1>1 DEF Swapped
  <1>4. ASSUME NEW j \in 2 .. n, j \div 2 = p
        PROVE  j = i \/ (Less(q2[p], q2[j]) /\ Less(q[p], q2[j]))
    <2>1. CASE j # i
      <3>1. j # p /\ j \div 2 # i
        BY <1>1, <1>4
      <3>2. Less(q[p], q[j]) /\ q2[j] = q[j]
        BY <3>1, <2>1, <1>3, <1>4 DEF Loose
      <3> QED  BY <3>2, <1>1, <1>2, <1>3, LessTransitive
    <2> QED  BY <2>1
  <1>5. ChildrenIn(q2, n, p)
    BY <1>3, <1>4 DEF ChildrenIn
  <1>6. ASSUME NEW j \in 2 .. n, j # p, j \div 2 # p PROVE Less(q2[j \div 2], q2[j])
    <2>1. j # i /\ j \div 2 \in 1 .. n
      BY <1>6
    <2>2. CASE j \div 2 = i
      BY <2>1, <2>2, <1>3, <1>6 DEF Loose
    <2>3. CASE j \div 2 # i
      BY <2>1, <2>3, <1>3, <1>6 DEF Loose
    <2> QED  BY <2>2, <2>3
  <1>7. ASSUME NEW j \in 2 .. n, p > 1, j \div 2 = p PROVE Less(q2[p \div 2], q2[j])
    <2>1. p \in 2 .. n /\ p # i /\ p \div 2 # i /\ p \div 2 # p /\ p \div 2 \in 1 .. n
      BY <1>1, <1>7
    <2>2. Less(q[p \div 2], q[p]) /\ q2[p \div 2] = q[p \div 2]
      BY <2>1, <1>3 DEF Loose
    <2>3. CASE j = i
      BY <2>2, <2>3, <1>3
    <2>4. CASE j # i
      <3>1. j # p
        BY <1>7
      <3>2. q2[j] = q[j] /\ q2[j] \in Entry
        BY <3>1, <2>4, <1>2, <1>3
      <3>3. Less(q[p], q2[j])
        BY <2>4, <1>4, <1>7
      <3> QED  BY <3>2, <3>3, <2>1, <2>2, <1>1, <1>2, LessTransitive
    <2> QED  BY <2>3, <2>4
  <1> HIDE DEF p
  <1>8. Loose(q2, n, p)
    BY <1>6, <1>7 DEF Loose
  <1> QED  BY <1>5, <1>8 DEF p

LEMMA SwapDown ==
    ASSUME NEW E \in SUBSET Entry, NEW n \in Nat, NEW q, NEW q2, NEW i \in 1 .. n, NEW c \in 2 .. n,
           c \div 2 = i, \A j \in 2 .. n : j \div 2 = i /\ j # c => Less(q[c], q[j]),
           Holds(q, E, n), Loose(q, n, i), ParentIn(q, n, i), Less(q[c], q[i]), Swapped(q, q2, n, c, i)
    PROVE  Loose(q2, n, c) /\ ParentIn(q2, n, c)
  <1>1. i < c
    OBVIOUS
  <1>2. q2[c] = q[i] /\ q2[i] = q[c] /\ \A k \in 1 .. n : k # i /\ k # c => q2[k] = q[k]
    BY <1>1 DEF Swapped
  <1>3. ParentIn(q2, n, c)
    BY <1>2 DEF ParentIn
  <1>4. ASSUME NEW j \in 2 .. n, j # c, j \div 2 # c PROVE Less(q2[j \div 2], q2[j])
    <2>1. j \div 2 \in 1 .. n
      OBVIOUS
    <2>2. CASE j \div 2 = i
      <3>1. j # i
        BY <2>2
      <3> QED  BY <3>1, <2>2, <1>2, <1>4
    <2>3. CASE j \div 2 # i /\ j = i
      <3>1. j \div 2 # i /\ i > 1
        BY <2>3
      <3>2. Less(q[i \div 2], q[c])
        BY <3>1 DEF Loose
      <3> QED  BY <3>1, <3>2, <2>1, <2>3, <1>2, <1>4
    <2>4. CASE j \div 2 # i /\ j # i
      <3>1. Less(q[j \div 2], q[j])
        BY <2>4 DEF Loose
      <3> QED  BY <3>1, <2>1, <2>4, <1>2, <1>4
    <2> QED  BY <2>2, <2>3, <2>4
  <1>5. ASSUME NEW j \in 2 .. n, j \div 2 = c PROVE Less(q2[c \div 2], q2[j])
    <2>1. j # i /\ j # c /\ j \div 2 # i
      BY <1>1, <1>5
    <2>2. Less(q[c], q[j])
      BY <2>1, <1>5 DEF Loose
    <2> QED  BY <2>1, <2>2, <1>2
  <1> QED  BY <1>3, <1>4, <1>5 DEF Loose

-----------------------------------------------------------------------------
(* A turn of each loop moves the entry, or finds it in its place.          *)

LEMMA UpTurnSound ==
    ASSUME NEW E, NEW n \in Nat, NEW s, Unique(E),
           Fits(s[1], E, n), s[2] \in 1 .. n, Loose(s[1].q, n, s[2])
    PROVE  LET t == UpTurn(s) IN
           /\ Fits(t[1], E, n) /\ t[2] \in 1 .. n /\ Loose(t[1].q, n, t[2])
           /\ ChildrenIn(s[1].q, n, s[2]) => ChildrenIn(t[1].q, n, t[2])
           /\ \/ t = s /\ ParentIn(s[1].q, n, s[2])
              \/ t[2] < s[2] /\ ~ParentIn(s[1].q, n, s[2])
  <1> DEFINE h == s[1]
             i == s[2]
             p == i \div 2
             t == UpTurn(s)
  <1>1. E \subseteq Entry /\ Holds(h.q, E, n)
    BY FitsHolds
  <1>2. CASE i > 1 /\ Less(h.q[i], h.q[p])
    <2>1. t[1] = Swap(h, p, i) /\ t[2] = p
      BY <1>2 DEF UpTurn
    <2>2. i \in 2 .. n /\ p \in 1 .. n /\ p < i
      BY <1>2
    <2>3. Fits(t[1], E, n) /\ Swapped(h.q, t[1].q, n, p, i)
      BY <2>1, <2>2, SwapFits
    <2>4. Loose(t[1].q, n, p) /\ ChildrenIn(t[1].q, n, p)
      <3> HIDE DEF t, h, i
      <3> QED  BY <1>1, <1>2, <2>2, <2>3, SwapUp DEF h, i
    <2>5. ~ParentIn(h.q, n, i)
      <3>1. h.q[i] \in Entry /\ h.q[p] \in Entry
        BY <1>1, <2>2 DEF Holds
      <3> QED  BY <3>1, <1>2, LessAsymmetric DEF ParentIn
    <2> HIDE DEF t, h, i, p
    <2>6. /\ Fits(t[1], E, n) /\ t[2] \in 1 .. n /\ Loose(t[1].q, n, t[2])
          /\ ChildrenIn(t[1].q, n, t[2])
          /\ t[2] < i /\ ~ParentIn(h.q, n, i)
      BY <2>1, <2>2, <2>3, <2>4, <2>5
    <2> QED  BY <2>6 DEF t, h, i
  <1>3. CASE ~(i > 1 /\ Less(h.q[i], h.q[p]))
    <2>1. t = s
      BY <1>3 DEF UpTurn
    <2>2. ParentIn(h.q, n, i)
      <3> SUFFICES ASSUME i > 1 PROVE Less(h.q[p], h.q[i])
        BY DEF ParentIn
      <3>1. p \in 1 .. n /\ p # i
        OBVIOUS
      <3>2. h.q[i] \in Entry /\ h.q[p] \in Entry /\ h.q[i].index # h.q[p].index
        BY <3>1, <1>1 DEF Holds
      <3> QED  BY <3>2, <1>3, LessTotal
    <2> QED  BY <2>1, <2>2
  <1> QED  BY <1>2, <1>3

LEMMA DownTurnSound ==
    ASSUME NEW E, NEW n \in Nat, NEW s, Unique(E),
           Fits(s[1], E, n), s[2] \in 1 .. n, Loose(s[1].q, n, s[2]), ParentIn(s[1].q, n, s[2])
    PROVE  LET t == DownTurn(s) IN
           /\ Fits(t[1], E, n) /\ t[2] \in 1 .. n /\ Loose(t[1].q, n, t[2])
           /\ ParentIn(t[1].q, n, t[2])
           /\ \/ t = s /\ ChildrenIn(s[1].q, n, s[2])
              \/ t[2] > s[2] /\ ~ChildrenIn(s[1].q, n, s[2])
  <1> DEFINE h == s[1]
             i == s[2]
             c == SmallerChild(h.q, i)
             t == DownTurn(s)
  <1>1. E \subseteq Entry /\ Holds(h.q, E, n)
    BY FitsHolds
  <1>2. Len(h.q) = n
    BY DEF Fits
  <1>3. 2 * i <= n => /\ c \in 2 .. n /\ c \div 2 = i /\ c > i
                      /\ \A j \in 2 .. n : j \div 2 = i /\ j # c => Less(h.q[c], h.q[j])
    <2> SUFFICES ASSUME 2 * i <= n
                 PROVE  /\ c \in 2 .. n /\ c \div 2 = i /\ c > i
                        /\ \A j \in 2 .. n : j \div 2 = i /\ j # c => Less(h.q[c], h.q[j])
      OBVIOUS
    <2>1. c \in {2 * i, 2 * i + 1} /\ c \in 2 .. n
      BY <1>2 DEF SmallerChild
    <2>2. c \div 2 = i /\ c > i
      <3> HIDE DEF c
      <3> QED  BY <2>1
    <2>3. ASSUME NEW j \in 2 .. n, j \div 2 = i, j # c PROVE Less(h.q[c], h.q[j])
      <3>1. j \in {2 * i, 2 * i + 1}
        BY <2>3
      <3>2. h.q[c] \in Entry /\ h.q[j] \in Entry /\ h.q[c].index # h.q[j].index
        <4> HIDE DEF c
        <4> QED  BY <2>1, <2>3, <1>1 DEF Holds
      <3>3. ~Less(h.q[j], h.q[c])
        <4>1. CASE c = 2 * i + 1
          <5>1. j = 2 * i
            BY <4>1, <3>1, <2>3
          <5>2. Less(h.q[2 * i + 1], h.q[2 * i])
            BY <4>1, <1>2 DEF SmallerChild
          <5> HIDE DEF c
          <5> QED  BY <5>1, <5>2, <4>1, <3>2, LessAsymmetric
        <4>2. CASE c = 2 * i
          <5>1. j = 2 * i + 1 /\ 2 * i + 1 <= n
            BY <4>2, <3>1, <2>3
          <5>2. ~Less(h.q[2 * i + 1], h.q[2 * i])
            BY <5>1, <4>2, <1>2 DEF SmallerChild
          <5> HIDE DEF c
          <5> QED  BY <5>1, <5>2, <4>2
        <4> QED  BY <2>1, <4>1, <4>2
      <3> HIDE DEF c
      <3> QED  BY <3>2, <3>3, LessTotal
    <2> QED  BY <2>1, <2>2, <2>3
  <1>4. CASE 2 * i <= n /\ Less(h.q[c], h.q[i])
    <2>1. t[1] = Swap(h, c, i) /\ t[2] = c
      BY <1>2, <1>4 DEF DownTurn
    <2> HIDE DEF c
    <2>2. Fits(t[1], E, n) /\ Swapped(h.q, t[1].q, n, c, i)
      <3>1. c \in 1 .. n /\ i \in 1 .. n /\ Fits(h, E, n)
        BY <1>3, <1>4
      <3> HIDE DEF t, h, i
      <3> QED  BY <2>1, <3>1, SwapFits
    <2>3. Loose(t[1].q, n, c) /\ ParentIn(t[1].q, n, c)
      <3> HIDE DEF t, h, i
      <3> QED  BY <1>1, <1>3, <1>4, <2>2, SwapDown DEF h, i
    <2>4. ~ChildrenIn(h.q, n, i)
      <3>1. h.q[i] \in Entry /\ h.q[c] \in Entry
        BY <1>1, <1>3, <1>4 DEF Holds
      <3> QED  BY <3>1, <1>3, <1>4, LessAsymmetric DEF ChildrenIn
    <2> HIDE DEF t, h, i
    <2>5. /\ Fits(t[1], E, n) /\ t[2] \in 1 .. n /\ Loose(t[1].q, n, t[2])
          /\ ParentIn(t[1].q, n, t[2])
          /\ t[2] > i /\ ~ChildrenIn(h.q, n, i)
      BY <1>3, <1>4, <2>1, <2>2, <2>3, <2>4
    <2> QED  BY <2>5 DEF t, h, i
  <1>5. CASE ~(2 * i <= n /\ Less(h.q[c], h.q[i]))
    <2>1. t = s
      BY <1>2, <1>5 DEF DownTurn
    <2> HIDE DEF c
    <2>2. ChildrenIn(h.q, n, i)
      <3> SUFFICES ASSUME NEW j \in 2 .. n, j \div 2 = i PROVE Less(h.q[i], h.q[j])
        BY DEF ChildrenIn
      <3>1. 2 * i <= n
        OBVIOUS
      <3>2. h.q[i] \in Entry /\ h.q[c] \in Entry /\ h.q[j] \in Entry /\ h.q[i].index # h.q[c].index
        BY <3>1, <1>1, <1>3 DEF Holds
      <3>3. Less(h.q[i], h.q[c])
        BY <3>1, <3>2, <1>5, LessTotal
      <3>4. j = c \/ Less(h.q[c], h.q[j])
        BY <3>1, <1>3
      <3> QED  BY <3>2, <3>3, <3>4, LessTransitive
    <2> QED  BY <2>1, <2>2
  <1> QED  BY <1>4, <1>5

-----------------------------------------------------------------------------
(* The loops bring the entry to its place.                                 *)

LEMMA UpHeapSound ==
    ASSUME NEW E, NEW n \in Nat, NEW h, Unique(E), Fits(h, E, n),
           NEW i \in 1 .. n, Loose(h.q, n, i)
    PROVE  LET u == UpHeap(h, i) IN
           /\ Fits(u[1], E, n) /\ u[2] \in 1 .. n /\ Loose(u[1].q, n, u[2])
           /\ ParentIn(u[1].q, n, u[2])
           /\ ChildrenIn(h.q, n, i) => Ordered(u[1].q, n)
  <1>1. PICK f : /\ f[0] = <<h, i>>
                 /\ \A k \in 0 .. (i - 1) : f[k + 1] = UpTurn(f[k])
                 /\ UpHeap(h, i) = f[i]
    <2>1. i \in Nat
      OBVIOUS
    <2> QED  BY <2>1, UpLoop
  <1> DEFINE P(s) == /\ Fits(s[1], E, n) /\ s[2] \in 1 .. n /\ Loose(s[1].q, n, s[2])
                     /\ ChildrenIn(h.q, n, i) => ChildrenIn(s[1].q, n, s[2])
             Done(s) == ParentIn(s[1].q, n, s[2])
             T == {k \in Nat : k <= i => P(f[k]) /\ (f[k][2] <= i - k \/ Done(f[k]))}
  <1>2. 0 \in T
    BY <1>1
  <1>3. ASSUME NEW k \in Nat, k \in T PROVE k + 1 \in T
    <2> SUFFICES ASSUME k + 1 <= i
                 PROVE  P(f[k + 1]) /\ (f[k + 1][2] <= i - (k + 1) \/ Done(f[k + 1]))
      OBVIOUS
    <2> DEFINE s == f[k]
               t == f[k + 1]
    <2>1. t = UpTurn(s)
      BY <1>1
    <2>2. P(s) /\ (s[2] <= i - k \/ Done(s))
      BY <1>3
    <2> HIDE DEF s, t
    <2>3. /\ Fits(t[1], E, n) /\ t[2] \in 1 .. n /\ Loose(t[1].q, n, t[2])
          /\ ChildrenIn(s[1].q, n, s[2]) => ChildrenIn(t[1].q, n, t[2])
          /\ \/ t = s /\ Done(s)
             \/ t[2] < s[2] /\ ~Done(s)
      BY <2>1, <2>2, UpTurnSound
    <2>4. P(t)
      BY <2>2, <2>3
    <2>5. t[2] <= i - (k + 1) \/ Done(t)
      <3>1. s[2] \in Nat /\ t[2] \in Nat
        BY <2>2, <2>3
      <3> HIDE DEF Done
      <3> QED  BY <3>1, <2>2, <2>3
    <2> QED  BY <2>4, <2>5 DEF t
  <1>4. P(f[i]) /\ Done(f[i])
    <2>1. Nat \subseteq T
      <3> HIDE DEF T
      <3> QED  BY <1>2, <1>3, SetInduction
    <2>2. i \in Nat /\ i \in T
      <3> HIDE DEF T
      <3> QED  BY <2>1
    <2>3. P(f[i]) /\ (f[i][2] <= i - i \/ Done(f[i]))
      BY <2>2
    <2> HIDE DEF Done
    <2> QED  BY <2>3
  <1>5. ChildrenIn(h.q, n, i) => Ordered(f[i][1].q, n)
    BY <1>4, Settled
  <1> QED  BY <1>1, <1>4, <1>5

LEMMA DownHeapSound ==
    ASSUME NEW E, NEW n \in Nat, NEW h, Unique(E), Fits(h, E, n),
           NEW i \in 1 .. n, Loose(h.q, n, i), ParentIn(h.q, n, i)
    PROVE  LET d == DownHeap(h, i) IN Fits(d[1], E, n) /\ Ordered(d[1].q, n)
  <1>0. Len(h.q) = n
    BY DEF Fits
  <1>1. PICK f : /\ f[0] = <<h, i>>
                 /\ \A k \in 0 .. (n - 1) : f[k + 1] = DownTurn(f[k])
                 /\ DownHeap(h, i) = f[n]
    BY <1>0, DownLoop
  <1> DEFINE P(s) == /\ Fits(s[1], E, n) /\ s[2] \in 1 .. n /\ Loose(s[1].q, n, s[2])
                     /\ ParentIn(s[1].q, n, s[2])
             Done(s) == ChildrenIn(s[1].q, n, s[2])
             T == {k \in Nat : k <= n => P(f[k]) /\ (f[k][2] > k \/ Done(f[k]))}
  <1>2. 0 \in T
    BY <1>1
  <1>3. ASSUME NEW k \in Nat, k \in T PROVE k + 1 \in T
    <2> SUFFICES ASSUME k + 1 <= n
                 PROVE  P(f[k + 1]) /\ (f[k + 1][2] > k + 1 \/ Done(f[k + 1]))
      OBVIOUS
    <2> DEFINE s == f[k]
               t == f[k + 1]
    <2>1. t = DownTurn(s)
      BY <1>1
    <2>2. P(s) /\ (s[2] > k \/ Done(s))
      BY <1>3
    <2> HIDE DEF s, t
    <2>3. /\ P(t)
          /\ \/ t = s /\ Done(s)
             \/ t[2] > s[2] /\ ~Done(s)
      BY <2>1, <2>2, DownTurnSound
    <2>5. t[2] > k + 1 \/ Done(t)
      <3>1. s[2] \in Nat /\ t[2] \in Nat
        BY <2>2, <2>3
      <3> HIDE DEF Done, P
      <3> QED  BY <3>1, <2>2, <2>3
    <2> QED  BY <2>3, <2>5 DEF t
  <1>4. P(f[n]) /\ Done(f[n])
    <2>1. Nat \subseteq T
      <3> HIDE DEF T
      <3> QED  BY <1>2, <1>3, SetInduction
    <2>2. n \in T
      <3> HIDE DEF T
      <3> QED  BY <2>1
    <2>3. P(f[n]) /\ (f[n][2] > n \/ Done(f[n]))
      BY <2>2
    <2> HIDE DEF Done
    <2> QED  BY <2>3
  <1>5. Ordered(f[n][1].q, n)
    BY <1>4, Settled
  <1> QED  BY <1>1, <1>4, <1>5

LEMMA UpDownHeapSound ==
    ASSUME NEW E, NEW n \in Nat, NEW h, Unique(E), Fits(h, E, n),
           NEW i \in 1 .. n, Loose(h.q, n, i)
    PROVE  Fits(UpDownHeap(h, i), E, n) /\ Ordered(UpDownHeap(h, i).q, n)
  <1> DEFINE u == UpHeap(h, i)
  <1>1. /\ Fits(u[1], E, n) /\ u[2] \in 1 .. n /\ Loose(u[1].q, n, u[2])
        /\ ParentIn(u[1].q, n, u[2])
    BY UpHeapSound
  <1>2. UpDownHeap(h, i) = DownHeap(u[1], u[2])[1]
    BY DEF UpDownHeap
  <1> HIDE DEF u
  <1> QED  BY <1>1, <1>2, DownHeapSound

-----------------------------------------------------------------------------
(* An entry leaves the heap.                                               *)

LEMMA CutFits ==
    ASSUME NEW E, NEW n \in Nat, NEW h, Fits(h, E, n), NEW i \in 1 .. n
    PROVE  /\ Fits(Cut(h, i), E \ {h.q[i]}, n - 1)
           /\ \A k \in 1 .. (n - 1) : Cut(h, i).q[k] = IF k = i THEN h.q[n] ELSE h.q[k]
  <1> DEFINE s == Swap(h, i, n)
             q == SubSeq(s.q, 1, n - 1)
             r == [x \in DOMAIN s.r \ {h.q[i].item} |-> s.r[x]]
  <1>1. Len(h.q) = n /\ n \in 1 .. n
    BY DEF Fits
  <1>2. Fits(s, E, n) /\ Swapped(h.q, s.q, n, i, n)
    BY <1>1, SwapFits
  <1>3. s.q \in Seq(Entry) /\ Len(s.q) = n
    BY <1>2 DEF Fits
  <1>4. Cut(h, i).q = q /\ Cut(h, i).r = r
    <2>1. Cut(h, i) = Heap(SubSeq(s.q, 1, Len(s.q) - 1), r)
      BY <1>1 DEF Cut, Restrict
    <2> HIDE DEF s, r
    <2> QED  BY <2>1, <1>3 DEF Heap
  <1>5. s.q[n] = h.q[i]
    BY <1>2 DEF Swapped
  <1> HIDE DEF s
  <1>6. q \in Seq(Entry) /\ Len(q) = n - 1 /\ \A k \in 1 .. (n - 1) : q[k] = s.q[k]
    BY <1>3
  <1>7. \A k, l \in 1 .. n : k # l => s.q[k].item # s.q[l].item
    BY <1>2 DEF Fits
  <1> HIDE DEF q
  <1>8. \A k \in 1 .. (n - 1) : q[k] = IF k = i THEN h.q[n] ELSE h.q[k]
    <2>1. \A k \in 1 .. (n - 1) : k \in 1 .. n /\ k # n
      OBVIOUS
    <2> QED  BY <2>1, <1>2, <1>6 DEF Swapped
  <1>9. DOMAIN r = {q[k].item : k \in 1 .. (n - 1)}
    <2>1. DOMAIN s.r = {s.q[k].item : k \in 1 .. n}
      BY <1>2 DEF Fits
    <2>2. ASSUME NEW x, x \in DOMAIN r PROVE x \in {q[k].item : k \in 1 .. (n - 1)}
      <3>1. PICK k \in 1 .. n : x = s.q[k].item
        BY <2>1, <2>2
      <3>2. k # n
        BY <3>1, <2>2, <1>5
      <3>3. k \in 1 .. (n - 1)
        BY <3>2
      <3> QED  BY <3>1, <3>3, <1>6
    <2>3. ASSUME NEW k \in 1 .. (n - 1) PROVE q[k].item \in DOMAIN r
      <3>1. k \in 1 .. n /\ k # n /\ n \in 1 .. n
        OBVIOUS
      <3> QED  BY <3>1, <2>1, <1>5, <1>6, <1>7
    <2> HIDE DEF r
    <2> QED  BY <2>2, <2>3
  <1>10. \A k \in 1 .. (n - 1) : r[q[k].item] = k
    <2>1. \A k \in 1 .. (n - 1) : s.r[s.q[k].item] = k
      BY <1>2 DEF Fits
    <2>2. \A k \in 1 .. (n - 1) : q[k].item \in DOMAIN r
      <3> HIDE DEF r
      <3> QED  BY <1>9
    <2> QED  BY <2>1, <2>2, <1>6
  <1>11. Contents(q) = E \ {h.q[i]}
    <2>1. E = {s.q[k] : k \in 1 .. n}
      BY <1>2, <1>3 DEF Fits, Contents
    <2>2. ASSUME NEW x \in E, x # h.q[i] PROVE x \in Contents(q)
      <3>1. PICK k \in 1 .. n : x = s.q[k]
        BY <2>1
      <3>2. k \in 1 .. (n - 1)
        BY <3>1, <2>2, <1>5
      <3> QED  BY <3>1, <3>2, <1>6 DEF Contents
    <2>3. ASSUME NEW k \in 1 .. (n - 1) PROVE q[k] \in E /\ q[k] # h.q[i]
      <3>1. k \in 1 .. n /\ k # n /\ n \in 1 .. n
        OBVIOUS
      <3> QED  BY <3>1, <2>1, <1>5, <1>6, <1>7
    <2> QED  BY <2>2, <2>3, <1>6 DEF Contents
  <1> HIDE DEF r
  <1>12. Fits(Cut(h, i), E \ {h.q[i]}, n - 1)
    BY <1>4, <1>6, <1>9, <1>10, <1>11 DEF Fits
  <1> QED  BY <1>4, <1>8, <1>12

LEMMA CutLoose ==
    ASSUME NEW E \in SUBSET Entry, NEW n \in Nat, NEW q, NEW q2, Holds(q, E, n), Ordered(q, n),
           NEW i \in 1 .. (n - 1),
           \A k \in 1 .. (n - 1) : q2[k] = IF k = i THEN q[n] ELSE q[k]
    PROVE  Loose(q2, n - 1, i)
  <1>1. ASSUME NEW j \in 2 .. (n - 1), j # i, j \div 2 # i PROVE Less(q2[j \div 2], q2[j])
    <2>1. j \div 2 \in 1 .. (n - 1) /\ j \in 1 .. (n - 1) /\ j \in 2 .. n
      OBVIOUS
    <2> QED  BY <2>1, <1>1 DEF Ordered
  <1>2. ASSUME NEW j \in 2 .. (n - 1), i > 1, j \div 2 = i PROVE Less(q2[i \div 2], q2[j])
    <2>1. j # i /\ j \in 1 .. (n - 1) /\ j \in 2 .. n /\ i \in 2 .. n
      BY <1>2
    <2>2. i \div 2 \in 1 .. (n - 1) /\ i \div 2 # i /\ i \in 1 .. n /\ i \div 2 \in 1 .. n /\ j \in 1 .. n
      BY <1>2
    <2>3. Less(q[i \div 2], q[i]) /\ Less(q[i], q[j])
      BY <2>1, <1>2 DEF Ordered
    <2>4. q[i \div 2] \in Entry /\ q[i] \in Entry /\ q[j] \in Entry
      BY <2>2 DEF Holds
    <2>5. Less(q[i \div 2], q[j])
      BY <2>3, <2>4, LessTransitive
    <2>6. q2[i \div 2] = q[i \div 2] /\ q2[j] = q[j]
      BY <2>1, <2>2
    <2> QED  BY <2>5, <2>6
  <1> QED  BY <1>1, <1>2 DEF Loose

LEMMA RemovedSound ==
    ASSUME NEW E, NEW n \in Nat, NEW h, Unique(E), Fits(h, E, n), Ordered(h.q, n), NEW i \in 1 .. n
    PROVE  Fits(Removed(h, i), E \ {h.q[i]}, n - 1) /\ Ordered(Removed(h, i).q, n - 1)
  <1> DEFINE c == Cut(h, i)
  <1>1. /\ Fits(c, E \ {h.q[i]}, n - 1)
        /\ \A k \in 1 .. (n - 1) : c.q[k] = IF k = i THEN h.q[n] ELSE h.q[k]
    BY CutFits
  <1>2. E \subseteq Entry /\ Holds(h.q, E, n) /\ Len(h.q) = n
    BY FitsHolds DEF Fits
  <1>3. Unique(E \ {h.q[i]})
    BY DEF Unique
  <1>4. Removed(h, i) = IF i = n THEN c ELSE UpDownHeap(c, i)
    BY <1>2 DEF Removed
  <1> HIDE DEF c
  <1>5. CASE i = n
    <2>1. \A j \in 2 .. (n - 1) : /\ j \div 2 \in 1 .. (n - 1) /\ j \in 1 .. (n - 1) /\ j \in 2 .. n
                                  /\ j # n /\ j \div 2 # n
      OBVIOUS
    <2>2. Ordered(c.q, n - 1)
      BY <2>1, <1>1, <1>5 DEF Ordered
    <2> QED  BY <2>2, <1>1, <1>4, <1>5
  <1>6. CASE i # n
    <2>1. i \in 1 .. (n - 1) /\ n - 1 \in Nat
      BY <1>6
    <2>2. Loose(c.q, n - 1, i)
      BY <2>1, <1>1, <1>2, CutLoose
    <2> QED  BY <2>1, <2>2, <1>1, <1>3, <1>4, <1>6, UpDownHeapSound
  <1> QED  BY <1>5, <1>6

LEMMA PoppedSound ==
    ASSUME NEW E, NEW n \in Nat, NEW h, Unique(E), Fits(h, E, n), Ordered(h.q, n), n > 0
    PROVE  Fits(Popped(h), E \ {h.q[1]}, n - 1) /\ Ordered(Popped(h).q, n - 1)
  <1> DEFINE c == Cut(h, 1)
  <1>1. /\ Fits(c, E \ {h.q[1]}, n - 1)
        /\ \A k \in 1 .. (n - 1) : c.q[k] = IF k = 1 THEN h.q[n] ELSE h.q[k]
    <2>1. 1 \in 1 .. n
      OBVIOUS
    <2> QED  BY <2>1, CutFits
  <1>2. E \subseteq Entry /\ Holds(h.q, E, n) /\ Len(h.q) = n
    BY FitsHolds DEF Fits
  <1>3. Unique(E \ {h.q[1]})
    BY DEF Unique
  <1>4. Popped(h) = IF c.q = <<>> THEN c ELSE DownHeap(c, 1)[1]
    BY DEF Popped
  <1> HIDE DEF c
  <1>5. c.q \in Seq(Entry) /\ Len(c.q) = n - 1
    BY <1>1 DEF Fits
  <1>6. CASE n = 1
    <2>1. c.q = <<>>
      BY <1>5, <1>6
    <2>2. Ordered(c.q, n - 1)
      BY <1>6 DEF Ordered
    <2> QED  BY <2>1, <2>2, <1>1, <1>4
  <1>7. CASE n # 1
    <2>1. 1 \in 1 .. (n - 1) /\ n - 1 \in Nat /\ c.q # <<>>
      BY <1>5, <1>7
    <2>2. Loose(c.q, n - 1, 1)
      BY <2>1, <1>1, <1>2, CutLoose
    <2>3. ParentIn(c.q, n - 1, 1)
      BY DEF ParentIn
    <2> QED  BY <2>1, <2>2, <2>3, <1>1, <1>3, <1>4, DownHeapSound
  <1> QED  BY <1>6, <1>7

LEMMA RootFirst ==
    ASSUME NEW E, NEW n \in Nat, NEW h, Unique(E), Fits(h, E, n), Ordered(h.q, n), n > 0
    PROVE  h.q[1] \in E /\ \A e \in E \ {h.q[1]} : Less(h.q[1], e)
  <1> DEFINE q == h.q
             T == {m \in Nat : \A j \in 2 .. m : j <= n => Less(q[1], q[j])}
  <1>1. E \subseteq Entry /\ \A k \in 1 .. n : q[k] \in E /\ q[k] \in Entry
    BY FitsHolds DEF Holds
  <1>2. 0 \in T
    OBVIOUS
  <1>3. ASSUME NEW m \in Nat, m \in T PROVE m + 1 \in T
    <2> SUFFICES ASSUME NEW j \in 2 .. (m + 1), j <= n PROVE Less(q[1], q[j])
      OBVIOUS
    <2> DEFINE p == j \div 2
    <2>1. j \in 2 .. n /\ p \in 1 .. n /\ p <= m
      OBVIOUS
    <2>2. Less(q[p], q[j])
      BY <2>1 DEF Ordered
    <2>3. CASE p = 1
      BY <2>2, <2>3
    <2>4. CASE p # 1
      <3>1. Less(q[1], q[p])
        <4> HIDE DEF p
        <4> QED  BY <1>3, <2>1, <2>4
      <3> HIDE DEF q, p
      <3>2. q[1] \in Entry /\ q[p] \in Entry /\ q[j] \in Entry
        BY <1>1, <2>1
      <3> QED  BY <3>1, <3>2, <2>2, LessTransitive
    <2> QED  BY <2>3, <2>4
  <1>4. n \in T
    <2> HIDE DEF T
    <2>1. Nat \subseteq T
      BY <1>2, <1>3, SetInduction
    <2> QED  BY <2>1
  <1>5. ASSUME NEW e \in E, e # q[1] PROVE Less(q[1], e)
    <2>1. PICK k \in 1 .. n : e = q[k]
      BY DEF Fits, Contents
    <2>2. k \in 2 .. n
      BY <2>1, <1>5
    <2> QED  BY <2>1, <2>2, <1>4
  <1> QED  BY <1>1, <1>5

(* The first entries that are popped come in order, and before the rest.   *)
LEMMA PoppedNSound ==
    ASSUME NEW E, NEW n \in Nat, NEW h, Unique(E), Fits(h, E, n), Ordered(h.q, n), NEW m \in 1 .. n
    PROVE  LET F == FirstN(h, m) IN
           /\ Fits(PoppedN(h, m), E \ Contents(F), n - m) /\ Ordered(PoppedN(h, m).q, n - m)
           /\ F \in Seq(Entry) /\ Len(F) = m /\ Contents(F) \subseteq E
           /\ \A k, l \in 1 .. m : k < l => Less(F[k], F[l])
           /\ \A a \in Contents(F), b \in E \ Contents(F) : Less(a, b)
  <1>0. Len(h.q) = n /\ E \subseteq Entry
    BY FitsHolds DEF Fits
  <1>1. PICK f : /\ f[0] = h
                 /\ \A k \in 0 .. (n - 1) : f[k + 1] = Popped(f[k])
                 /\ \A k : PoppedN(h, k) = f[k]
    <2>1. Len(h.q) \in Nat
      BY <1>0
    <2>2. PICK f : /\ f[0] = h
                   /\ \A k \in 0 .. (Len(h.q) - 1) : f[k + 1] = Popped(f[k])
                   /\ \A k : PoppedN(h, k) = f[k]
      BY <2>1, PopLoop
    <2>3. \A k \in 0 .. (n - 1) : f[k + 1] = Popped(f[k])
      BY <2>2, <1>0
    <2> QED  BY <2>2, <2>3
  <1> DEFINE top(k) == f[k].q[1]
             Rest(k) == E \ {top(l) : l \in 0 .. (k - 1)}
             P(k) == /\ Fits(f[k], Rest(k), n - k) /\ Ordered(f[k].q, n - k)
                     /\ \A l \in 0 .. (k - 1) : top(l) \in E /\ \A e \in Rest(k) : Less(top(l), e)
                     /\ \A l, l2 \in 0 .. (k - 1) : l < l2 => Less(top(l), top(l2))
             T == {k \in Nat : k <= n => P(k)}
  <1>2. 0 \in T
    <2>1. Rest(0) = E
      OBVIOUS
    <2>2. Fits(f[0], Rest(0), n - 0) /\ Ordered(f[0].q, n - 0)
      <3> HIDE DEF Rest
      <3> QED  BY <2>1, <1>1
    <2>3. \A l : l \notin 0 .. (0 - 1)
      OBVIOUS
    <2>4. P(0)
      BY <2>2, <2>3
    <2> HIDE DEF P
    <2> QED  BY <2>4
  <1>3. ASSUME NEW k \in Nat, k \in T PROVE k + 1 \in T
    <2> SUFFICES ASSUME k + 1 <= n PROVE P(k + 1)
      OBVIOUS
    <2>1. P(k)
      BY <1>3
    <2>2. f[k + 1] = Popped(f[k])
      BY <1>1
    <2>3. Unique(Rest(k))
      BY DEF Unique
    <2>4. Rest(k + 1) = Rest(k) \ {top(k)}
      <3>1. \A l : l \in 0 .. ((k + 1) - 1) <=> l \in 0 .. (k - 1) \/ l = k
        OBVIOUS
      <3> HIDE DEF top
      <3> QED  BY <3>1
    <2>5. n - k \in Nat /\ n - k > 0 /\ (n - k) - 1 = n - (k + 1)
      OBVIOUS
    <2> HIDE DEF Rest
    <2>6. Fits(f[k + 1], Rest(k + 1), n - (k + 1)) /\ Ordered(f[k + 1].q, n - (k + 1))
      BY <2>1, <2>2, <2>3, <2>4, <2>5, PoppedSound
    <2>7. top(k) \in Rest(k) /\ \A e \in Rest(k) \ {top(k)} : Less(top(k), e)
      BY <2>1, <2>3, <2>5, RootFirst
    <2>8. Rest(k) \subseteq E
      BY DEF Rest
    <2> HIDE DEF top
    <2>9. \A l \in 0 .. ((k + 1) - 1) : top(l) \in E /\ \A e \in Rest(k + 1) : Less(top(l), e)
      <3> SUFFICES ASSUME NEW l \in 0 .. ((k + 1) - 1)
                   PROVE  top(l) \in E /\ \A e \in Rest(k + 1) : Less(top(l), e)
        OBVIOUS
      <3>1. CASE l = k
        BY <3>1, <2>4, <2>7, <2>8
      <3>2. CASE l # k
        <4>1. l \in 0 .. (k - 1)
          BY <3>2
        <4> QED  BY <4>1, <2>1, <2>4
      <3> QED  BY <3>1, <3>2
    <2>10. \A l, l2 \in 0 .. ((k + 1) - 1) : l < l2 => Less(top(l), top(l2))
      <3> SUFFICES ASSUME NEW l \in 0 .. ((k + 1) - 1), NEW l2 \in 0 .. ((k + 1) - 1), l < l2
                   PROVE  Less(top(l), top(l2))
        OBVIOUS
      <3>1. l \in 0 .. (k - 1)
        OBVIOUS
      <3>2. CASE l2 = k
        BY <3>1, <3>2, <2>1, <2>7
      <3>3. CASE l2 # k
        <4>1. l2 \in 0 .. (k - 1)
          BY <3>3
        <4> QED  BY <4>1, <3>1, <2>1
      <3> QED  BY <3>2, <3>3
    <2> QED  BY <2>6, <2>9, <2>10
  <1>4. P(m)
    <2>1. Nat \subseteq T
      <3> HIDE DEF T
      <3> QED  BY <1>2, <1>3, SetInduction
    <2>2. m \in T /\ m <= n
      <3> HIDE DEF T
      <3> QED  BY <2>1
    <2> HIDE DEF P
    <2> QED  BY <2>2
  <1> DEFINE F == FirstN(h, m)
  <1>5. F = [k \in 1 .. m |-> top(k - 1)]
    BY <1>1 DEF FirstN
  <1> HIDE DEF F, top
  <1>6. \A l \in 0 .. (m - 1) : top(l) \in E
    BY <1>4
  <1>7. F \in Seq(Entry) /\ Len(F) = m
    <2>1. F \in [1 .. m -> Entry] /\ m \in Nat
      <3>1. \A k \in 1 .. m : k - 1 \in 0 .. (m - 1)
        OBVIOUS
      <3> QED  BY <3>1, <1>0, <1>5, <1>6
    <2> QED  BY <2>1
  <1>8. Contents(F) = {top(l) : l \in 0 .. (m - 1)}
    <2>1. \A l \in 0 .. (m - 1) : l + 1 \in 1 .. m /\ (l + 1) - 1 = l
      OBVIOUS
    <2>2. \A k \in 1 .. m : k - 1 \in 0 .. (m - 1)
      OBVIOUS
    <2>3. \A l \in 0 .. (m - 1) : F[l + 1] = top(l)
      BY <2>1, <1>5
    <2>4. \A k \in 1 .. m : F[k] = top(k - 1)
      BY <1>5
    <2> QED  BY <1>7, <2>1, <2>2, <2>3, <2>4 DEF Contents
  <1>9. Rest(m) = E \ Contents(F)
    BY <1>8
  <1>10. Contents(F) \subseteq E /\ \A a \in Contents(F), b \in E \ Contents(F) : Less(a, b)
    BY <1>4, <1>8, <1>9
  <1>11. \A k, l \in 1 .. m : k < l => Less(F[k], F[l])
    <2> SUFFICES ASSUME NEW k \in 1 .. m, NEW l \in 1 .. m, k < l PROVE Less(F[k], F[l])
      OBVIOUS
    <2>1. k - 1 \in 0 .. (m - 1) /\ l - 1 \in 0 .. (m - 1) /\ k - 1 < l - 1
      OBVIOUS
    <2>2. Less(top(k - 1), top(l - 1))
      BY <2>1, <1>4
    <2> QED  BY <2>2, <1>5
  <1>12. Fits(PoppedN(h, m), E \ Contents(F), n - m) /\ Ordered(PoppedN(h, m).q, n - m)
    <2>1. PoppedN(h, m) = f[m]
      BY <1>1
    <2>2. Fits(f[m], Rest(m), n - m) /\ Ordered(f[m].q, n - m)
      BY <1>4
    <2> HIDE DEF Rest
    <2> QED  BY <2>1, <2>2, <1>9
  <1> QED  BY <1>7, <1>10, <1>11, <1>12 DEF F

-----------------------------------------------------------------------------
(* An entry arrives, or changes where it is.                               *)

LEMMA AppendFits ==
    ASSUME NEW E, NEW n \in Nat, NEW h, Unique(E), Fits(h, E, n), Ordered(h.q, n),
           NEW e \in Entry, e.item \notin DOMAIN h.r, \A x \in E : x.index # e.index,
           NEW r, r = [k \in DOMAIN h.r \cup {e.item} |-> IF k = e.item THEN n + 1 ELSE h.r[k]]
    PROVE  LET g == Heap(Append(h.q, e), r) IN
           /\ Fits(g, E \cup {e}, n + 1) /\ Unique(E \cup {e})
           /\ Loose(g.q, n + 1, n + 1) /\ ChildrenIn(g.q, n + 1, n + 1)
  <1> DEFINE q == Append(h.q, e)
  <1>1. h.q \in Seq(Entry) /\ Len(h.q) = n /\ E = {h.q[k] : k \in 1 .. n}
    BY DEF Fits, Contents
  <1>2. q \in Seq(Entry) /\ Len(q) = n + 1 /\ q[n + 1] = e /\ \A k \in 1 .. n : q[k] = h.q[k]
    BY <1>1
  <1> HIDE DEF q
  <1>3. \A k \in 1 .. (n + 1) : k \in 1 .. n \/ k = n + 1
    OBVIOUS
  <1>4. \A k \in 1 .. n : k \in 1 .. (n + 1) /\ n + 1 \in 1 .. (n + 1)
    OBVIOUS
  <1>5. n + 1 \in 1 .. (n + 1)
    OBVIOUS
  <1>6. DOMAIN h.r = {h.q[k].item : k \in 1 .. n} /\ \A k \in 1 .. n : h.r[h.q[k].item] = k
    BY DEF Fits
  <1>7. DOMAIN r = {q[k].item : k \in 1 .. (n + 1)}
    <2>1. DOMAIN r = DOMAIN h.r \cup {e.item}
      OBVIOUS
    <2> QED  BY <2>1, <1>2, <1>3, <1>4, <1>5, <1>6
  <1>8. \A k \in 1 .. (n + 1) : r[q[k].item] = k
    <2> SUFFICES ASSUME NEW k \in 1 .. (n + 1) PROVE r[q[k].item] = k
      OBVIOUS
    <2>1. CASE k = n + 1
      BY <2>1, <1>2
    <2>2. CASE k \in 1 .. n
      BY <2>2, <1>2, <1>6
    <2> QED  BY <2>1, <2>2, <1>3
  <1>9. Contents(q) = E \cup {e}
    BY <1>1, <1>2, <1>3, <1>4, <1>5 DEF Contents
  <1>10. Unique(E \cup {e})
    BY DEF Unique
  <1>11. Loose(q, n + 1, n + 1) /\ ChildrenIn(q, n + 1, n + 1)
    <2>1. \A j \in 2 .. (n + 1) : j \div 2 # n + 1
      OBVIOUS
    <2>2. \A j \in 2 .. (n + 1) : j # n + 1 => j \in 2 .. n /\ j \in 1 .. n /\ j \div 2 \in 1 .. n
      OBVIOUS
    <2> QED  BY <2>1, <2>2, <1>2 DEF Loose, ChildrenIn, Ordered
  <1>12. Heap(q, r).q = q /\ Heap(q, r).r = r
    BY DEF Heap
  <1>13. Fits(Heap(q, r), E \cup {e}, n + 1)
    <2> DEFINE g == Heap(q, r)
    <2>1. g.q \in Seq(Entry) /\ Len(g.q) = n + 1 /\ Contents(g.q) = E \cup {e}
      BY <1>2, <1>9, <1>12
    <2>2. DOMAIN g.r = {g.q[k].item : k \in 1 .. (n + 1)}
      <3>1. g.q = q /\ g.r = r
        BY <1>12
      <3> HIDE DEF g
      <3> QED  BY <3>1, <1>7
    <2>3. \A k \in 1 .. (n + 1) : g.r[g.q[k].item] = k
      BY <1>8, <1>12, Zenon
    <2> HIDE DEF g
    <2>4. Fits(g, E \cup {e}, n + 1)
      BY <2>1, <2>2, <2>3 DEF Fits
    <2> QED  BY <2>4 DEF g
  <1> QED  BY <1>10, <1>11, <1>12, <1>13 DEF q

LEMMA ChangeFits ==
    ASSUME NEW E, NEW n \in Nat, NEW h, Unique(E), Fits(h, E, n), Ordered(h.q, n),
           NEW i \in 1 .. n, NEW p \in Priorities
    PROVE  LET g == Heap([h.q EXCEPT ![i].priority = p], h.r)
               F == (E \ {h.q[i]}) \cup {[h.q[i] EXCEPT !.priority = p]}
           IN  Fits(g, F, n) /\ Unique(F) /\ Loose(g.q, n, i)
  <1> DEFINE e == [h.q[i] EXCEPT !.priority = p]
             q == [h.q EXCEPT ![i].priority = p]
             F == (E \ {h.q[i]}) \cup {e}
  <1>1. h.q \in Seq(Entry) /\ Len(h.q) = n /\ E = {h.q[k] : k \in 1 .. n}
    BY DEF Fits, Contents
  <1>2. h.q[i] \in Entry /\ h.q[i] \in E
    BY <1>1
  <1>3. e \in Entry /\ e.item = h.q[i].item /\ e.index = h.q[i].index
    BY <1>2 DEF Entry
  <1>4. q \in Seq(Entry) /\ Len(q) = n /\ q[i] = e /\ \A k \in 1 .. n : k # i => q[k] = h.q[k]
    <2>1. q = [h.q EXCEPT ![i] = e]
      OBVIOUS
    <2> HIDE DEF q, e
    <2> QED  BY <2>1, <1>1, <1>3
  <1> HIDE DEF q, e
  <1>5. \A k \in 1 .. n : q[k].item = h.q[k].item
    BY <1>3, <1>4
  <1>6. DOMAIN h.r = {h.q[k].item : k \in 1 .. n} /\ \A k \in 1 .. n : h.r[h.q[k].item] = k
    BY DEF Fits
  <1>7. Contents(q) = F
    <2>1. \A k \in 1 .. n : k # i => h.q[k] # h.q[i]
      BY <1>6
    <2> QED  BY <2>1, <1>1, <1>4 DEF Contents
  <1>8. Unique(F)
    BY <1>2, <1>3 DEF Unique
  <1>9. Heap(q, h.r).q = q /\ Heap(q, h.r).r = h.r
    BY DEF Heap
  <1>10. Fits(Heap(q, h.r), F, n)
    <2>1. DOMAIN h.r = {q[k].item : k \in 1 .. n} /\ \A k \in 1 .. n : h.r[q[k].item] = k
      BY <1>5, <1>6
    <2> QED  BY <2>1, <1>4, <1>7, <1>9 DEF Fits
  <1>11. Loose(q, n, i)
    <2>1. \A k \in 1 .. n : h.q[k] \in Entry
      BY <1>1
    <2>2. ASSUME NEW j \in 2 .. n, j # i, j \div 2 # i PROVE Less(q[j \div 2], q[j])
      <3>1. j \div 2 \in 1 .. n /\ j \in 1 .. n
        OBVIOUS
      <3> QED  BY <3>1, <2>2, <1>4 DEF Ordered
    <2>3. ASSUME NEW j \in 2 .. n, i > 1, j \div 2 = i PROVE Less(q[i \div 2], q[j])
      <3>1. i \div 2 \in 1 .. n /\ j \in 1 .. n /\ j # i /\ i \div 2 # i /\ i \in 2 .. n
        BY <2>3
      <3>2. Less(h.q[i \div 2], h.q[i]) /\ Less(h.q[i], h.q[j])
        BY <3>1, <2>3 DEF Ordered
      <3>3. Less(h.q[i \div 2], h.q[j])
        BY <3>1, <3>2, <2>1, LessTransitive
      <3> QED  BY <3>1, <3>3, <1>4
    <2> QED  BY <2>2, <2>3 DEF Loose
  <1> QED  BY <1>8, <1>9, <1>10, <1>11 DEF e, q

-----------------------------------------------------------------------------
(* The inductive invariant. HeapOrder is strict, so no two entries may     *)
(* have the same index; and the index of an entry that is in the queue is  *)
(* one that was given before.                                              *)

QueueInv ==
    /\ Fits(Heap(heap, reverse), Contents(heap), Len(heap))
    /\ Unique(Contents(heap))
    /\ Ordered(heap, Len(heap))
    /\ event = (heap # <<>>)
    /\ next_index \in Nat
    /\ \A e \in Contents(heap) : e.index < next_index

LEMMA QueueInvFacts ==
    ASSUME QueueInv
    PROVE  /\ Len(heap) \in Nat /\ heap \in Seq(Entry) /\ Contents(heap) \subseteq Entry
           /\ Heap(heap, reverse).q = heap /\ Heap(heap, reverse).r = reverse
           /\ DOMAIN reverse = {heap[k].item : k \in 1 .. Len(heap)}
           /\ \A k \in 1 .. Len(heap) : reverse[heap[k].item] = k /\ heap[k] \in Contents(heap)
           /\ \A i \in DOMAIN reverse : reverse[i] \in 1 .. Len(heap) /\ heap[reverse[i]].item = i
  <1>1. Heap(heap, reverse).q = heap /\ Heap(heap, reverse).r = reverse
    BY DEF Heap
  <1>2. /\ heap \in Seq(Entry)
        /\ DOMAIN reverse = {heap[k].item : k \in 1 .. Len(heap)}
        /\ \A k \in 1 .. Len(heap) : reverse[heap[k].item] = k
    BY <1>1 DEF QueueInv, Fits
  <1>3. Contents(heap) \subseteq Entry /\ \A k \in 1 .. Len(heap) : heap[k] \in Contents(heap)
    BY <1>2 DEF Contents
  <1>4. \A i \in DOMAIN reverse : reverse[i] \in 1 .. Len(heap) /\ heap[reverse[i]].item = i
    BY <1>2
  <1> QED  BY <1>1, <1>2, <1>3, <1>4

(* What an operation leaves, in terms of what it holds.                    *)
LEMMA HeapBecomes ==
    ASSUME NEW E, NEW n \in Nat, NEW h, BecomesHeap(h), Fits(h, E, n), Unique(E), Ordered(h.q, n)
    PROVE  /\ Contents(heap') = E /\ Len(heap') = n
           /\ Fits(Heap(heap', reverse'), Contents(heap'), Len(heap'))
           /\ Unique(Contents(heap')) /\ Ordered(heap', Len(heap'))
           /\ heap' # <<>> <=> n # 0
  <1>1. heap' = h.q /\ reverse' = h.r
    BY DEF BecomesHeap
  <1>2. Contents(heap') = E /\ Len(heap') = n /\ heap' \in Seq(Entry)
    BY <1>1 DEF Fits
  <1>3. Heap(heap', reverse').q = heap' /\ Heap(heap', reverse').r = reverse'
    BY DEF Heap
  <1>4. Fits(Heap(heap', reverse'), E, n)
    BY <1>1, <1>3 DEF Fits
  <1>5. heap' # <<>> <=> n # 0
    BY <1>2
  <1> QED  BY <1>1, <1>2, <1>4, <1>5

LEMMA PushSound ==
    ASSUME QueueInv, NEW i \in Items, NEW p \in Priorities, NEW t \in Timestamps, Push(i, p, t)
    PROVE  LET e == [item |-> i, priority |-> p, timestamp |-> t, index |-> next_index] IN
           /\ QueueInv'
           /\ \A x \in Contents(heap) : x.item # i
           /\ Contents(heap') = Contents(heap) \cup {e}
  <1> DEFINE h == Heap(heap, reverse)
             n == Len(heap)
             E == Contents(heap)
             e == [item |-> i, priority |-> p, timestamp |-> t, index |-> next_index]
             r == [k \in DOMAIN reverse \cup {i} |-> IF k = i THEN n + 1 ELSE reverse[k]]
             g == Heap(Append(heap, e), r)
             u == UpHeap(g, n + 1)
  <1>1. n \in Nat /\ h.q = heap /\ h.r = reverse /\ E \subseteq Entry /\ next_index \in Nat
    BY QueueInvFacts DEF QueueInv
  <1>2. e \in Entry /\ e.item = i /\ e.index = next_index
    BY <1>1 DEF Entry
  <1>3. i \notin DOMAIN reverse
    BY DEF Push, Contains
  <1>4. \A x \in E : x.index # next_index /\ x.index < next_index
    <2>1. \A x \in E : x.index \in Nat /\ x.index < next_index
      BY <1>1 DEF QueueInv, Entry
    <2> HIDE DEF E
    <2> QED  BY <2>1, <1>1
  <1>5. Fits(h, E, n) /\ Unique(E) /\ Ordered(h.q, n)
    BY <1>1 DEF QueueInv
  <1>6. BecomesHeap(u[1]) /\ event' = TRUE /\ next_index' = next_index + 1
    BY DEF Push
  <1>7. \A x \in E : x.item # i
    BY <1>3, QueueInvFacts DEF Contents
  <1> HIDE DEF h, n, E, e
  <1>8. /\ Fits(g, E \cup {e}, n + 1) /\ Unique(E \cup {e})
        /\ Loose(g.q, n + 1, n + 1) /\ ChildrenIn(g.q, n + 1, n + 1)
    <2>1. /\ e.item \notin DOMAIN h.r /\ \A x \in E : x.index # e.index
          /\ r = [k \in DOMAIN h.r \cup {e.item} |-> IF k = e.item THEN n + 1 ELSE h.r[k]]
      BY <1>1, <1>2, <1>3, <1>4
    <2> HIDE DEF r
    <2> QED  BY <2>1, <1>1, <1>2, <1>5, AppendFits
  <1> HIDE DEF g
  <1>9. Fits(u[1], E \cup {e}, n + 1) /\ Ordered(u[1].q, n + 1)
    <2>1. n + 1 \in 1 .. (n + 1) /\ n + 1 \in Nat
      BY <1>1
    <2> QED  BY <2>1, <1>8, UpHeapSound
  <1> HIDE DEF u
  <1>10. /\ Contents(heap') = E \cup {e} /\ Len(heap') = n + 1
         /\ Fits(Heap(heap', reverse'), Contents(heap'), Len(heap'))
         /\ Unique(Contents(heap')) /\ Ordered(heap', Len(heap'))
         /\ heap' # <<>>
    <2>1. n + 1 \in Nat /\ n + 1 # 0
      BY <1>1
    <2> QED  BY <2>1, <1>6, <1>8, <1>9, HeapBecomes
  <1>11. \A x \in Contents(heap') : x.index < next_index'
    <2>1. next_index < next_index + 1
      BY <1>1
    <2>2. \A x \in E : x.index < next_index + 1
      <3>1. \A x \in E : x.index \in Nat
        BY <1>1 DEF Entry
      <3> QED  BY <3>1, <1>1, <1>4
    <2> QED  BY <2>1, <2>2, <1>2, <1>6, <1>10
  <1>12. QueueInv'
    <2>1. next_index' \in Nat
      BY <1>1, <1>6
    <2> QED  BY <2>1, <1>6, <1>10, <1>11 DEF QueueInv
  <1> QED  BY <1>7, <1>10, <1>12 DEF e, E

LEMMA RemoveSound ==
    ASSUME QueueInv, NEW i, Remove(i)
    PROVE  /\ QueueInv' /\ next_index' = next_index
           /\ \E e \in Contents(heap) : Contents(heap') = Contents(heap) \ {e}
  <1> DEFINE h == Heap(heap, reverse)
             n == Len(heap)
             E == Contents(heap)
             k == reverse[i]
             e == h.q[k]
             g == Removed(h, k)
  <1>1. n \in Nat /\ h.q = heap /\ E \subseteq Entry /\ next_index \in Nat
    BY QueueInvFacts DEF QueueInv
  <1>2. k \in 1 .. n /\ e \in E
    BY <1>1, QueueInvFacts DEF Remove, Contains
  <1>3. Fits(h, E, n) /\ Unique(E) /\ Ordered(h.q, n)
    BY <1>1 DEF QueueInv
  <1>4. BecomesHeap(g) /\ event' = (event /\ n > 1) /\ next_index' = next_index
    BY DEF Remove
  <1>5. \A x \in E : x.index < next_index
    BY DEF QueueInv
  <1>6. event = (n # 0)
    BY QueueInvFacts DEF QueueInv
  <1> HIDE DEF h, n, E, k
  <1>7. Fits(g, E \ {e}, n - 1) /\ Ordered(g.q, n - 1)
    BY <1>1, <1>2, <1>3, RemovedSound
  <1> HIDE DEF g, e
  <1>8. /\ Contents(heap') = E \ {e} /\ Len(heap') = n - 1
        /\ Fits(Heap(heap', reverse'), Contents(heap'), Len(heap'))
        /\ Unique(Contents(heap')) /\ Ordered(heap', Len(heap'))
        /\ heap' # <<>> <=> n - 1 # 0
    <2>1. n - 1 \in Nat
      BY <1>1, <1>2
    <2>2. Unique(E \ {e})
      BY <1>3 DEF Unique
    <2> QED  BY <2>1, <2>2, <1>4, <1>7, HeapBecomes
  <1>9. event' = (heap' # <<>>)
    <2>1. n > 1 <=> n - 1 # 0
      BY <1>1, <1>2
    <2>2. n # 0
      BY <1>1, <1>2
    <2>3. event
      BY <2>2, <1>6
    <2>4. heap' # <<>> <=> n > 1
      BY <2>1, <1>8
    <2> QED  BY <2>3, <2>4, <1>4
  <1>10. \A x \in Contents(heap') : x.index < next_index'
    BY <1>4, <1>5, <1>8
  <1>11. QueueInv'
    BY <1>1, <1>4, <1>8, <1>9, <1>10 DEF QueueInv
  <1> QED  BY <1>2, <1>4, <1>8, <1>11 DEF E

LEMMA SetPrioritySound ==
    ASSUME QueueInv, NEW i, NEW p \in Priorities, SetPriority(i, p)
    PROVE  /\ QueueInv' /\ next_index' = next_index
           /\ \E e \in Contents(heap) :
                 Contents(heap') = (Contents(heap) \ {e}) \cup {[e EXCEPT !.priority = p]}
  <1> DEFINE h == Heap(heap, reverse)
             n == Len(heap)
             E == Contents(heap)
             k == reverse[i]
             e == h.q[k]
             F == (E \ {e}) \cup {[e EXCEPT !.priority = p]}
             c == Heap([h.q EXCEPT ![k].priority = p], h.r)
             g == UpDownHeap(c, k)
  <1>1. n \in Nat /\ h.q = heap /\ h.r = reverse /\ E \subseteq Entry /\ next_index \in Nat
    BY QueueInvFacts DEF QueueInv
  <1>2. k \in 1 .. n /\ e \in E
    BY <1>1, QueueInvFacts DEF SetPriority, Contains
  <1>3. Fits(h, E, n) /\ Unique(E) /\ Ordered(h.q, n)
    BY <1>1 DEF QueueInv
  <1>4. BecomesHeap(g) /\ event' = event /\ next_index' = next_index
    <2>1. BecomesHeap(UpDownHeap(Heap([heap EXCEPT ![k].priority = p], reverse), k))
      BY DEF SetPriority
    <2>2. c = Heap([heap EXCEPT ![k].priority = p], reverse)
      <3> HIDE DEF h, k
      <3> QED  BY <1>1
    <2> QED  BY <2>1, <2>2 DEF SetPriority
  <1>5. \A x \in E : x.index < next_index
    BY DEF QueueInv
  <1>6. event = (n # 0)
    BY QueueInvFacts DEF QueueInv
  <1> HIDE DEF h, n, E, k
  <1>7. Fits(c, F, n) /\ Unique(F) /\ Loose(c.q, n, k)
    BY <1>1, <1>2, <1>3, ChangeFits
  <1> HIDE DEF c
  <1>8. Fits(g, F, n) /\ Ordered(g.q, n)
    BY <1>1, <1>2, <1>7, UpDownHeapSound
  <1> HIDE DEF g
  <1>9. /\ Contents(heap') = F /\ Len(heap') = n
        /\ Fits(Heap(heap', reverse'), Contents(heap'), Len(heap'))
        /\ Unique(Contents(heap')) /\ Ordered(heap', Len(heap'))
        /\ heap' # <<>> <=> n # 0
    <2> HIDE DEF F
    <2> QED  BY <1>1, <1>4, <1>7, <1>8, HeapBecomes
  <1>10. \A x \in Contents(heap') : x.index < next_index'
    <2>1. e \in Entry
      BY <1>1, <1>2
    <2>2. [e EXCEPT !.priority = p].index = e.index
      BY <2>1 DEF Entry
    <2> QED  BY <2>2, <1>2, <1>4, <1>5, <1>9
  <1> HIDE DEF F
  <1>11. QueueInv'
    BY <1>1, <1>4, <1>6, <1>9, <1>10 DEF QueueInv
  <1> QED  BY <1>2, <1>4, <1>9, <1>11 DEF E, F

LEMMA PopSound ==
    ASSUME QueueInv, NEW m, Pop(m)
    PROVE  LET F == FirstN(Heap(heap, reverse), m) IN
           /\ QueueInv' /\ next_index' = next_index /\ m \in Nat
           /\ F \in Seq(Entry) /\ Len(F) = m
           /\ \A k, l \in 1 .. m : k < l => Less(F[k], F[l])
           /\ Contents(F) # {} /\ Contents(F) \subseteq Contents(heap)
           /\ Contents(heap') = Contents(heap) \ Contents(F)
           /\ \A a \in Contents(F), b \in Contents(heap) \ Contents(F) : Less(a, b)
  <1> DEFINE h == Heap(heap, reverse)
             n == Len(heap)
             E == Contents(heap)
             F == FirstN(h, m)
             g == PoppedN(h, m)
  <1>1. n \in Nat /\ h.q = heap /\ E \subseteq Entry /\ next_index \in Nat
    BY QueueInvFacts DEF QueueInv
  <1>2. m \in 1 .. n /\ BecomesHeap(g) /\ event' = (event /\ m < n) /\ next_index' = next_index
    BY DEF Pop
  <1>3. Fits(h, E, n) /\ Unique(E) /\ Ordered(h.q, n)
    BY <1>1 DEF QueueInv
  <1>5. \A x \in E : x.index < next_index
    BY DEF QueueInv
  <1>6. event = (n # 0)
    BY QueueInvFacts DEF QueueInv
  <1> HIDE DEF h, n, E
  <1>7. /\ Fits(g, E \ Contents(F), n - m) /\ Ordered(g.q, n - m)
        /\ F \in Seq(Entry) /\ Len(F) = m /\ Contents(F) \subseteq E
        /\ \A k, l \in 1 .. m : k < l => Less(F[k], F[l])
        /\ \A a \in Contents(F), b \in E \ Contents(F) : Less(a, b)
    BY <1>1, <1>2, <1>3, PoppedNSound
  <1> HIDE DEF g, F
  <1>8. /\ Contents(heap') = E \ Contents(F) /\ Len(heap') = n - m
        /\ Fits(Heap(heap', reverse'), Contents(heap'), Len(heap'))
        /\ Unique(Contents(heap')) /\ Ordered(heap', Len(heap'))
        /\ heap' # <<>> <=> n - m # 0
    <2>1. n - m \in Nat
      BY <1>1, <1>2
    <2>2. Unique(E \ Contents(F))
      BY <1>3 DEF Unique
    <2> QED  BY <2>1, <2>2, <1>2, <1>7, HeapBecomes
  <1>9. event' = (heap' # <<>>)
    <2>1. n - m # 0 <=> m < n
      BY <1>1, <1>2
    <2>2. n # 0
      BY <1>1, <1>2
    <2>3. event
      BY <2>2, <1>6
    <2>4. heap' # <<>> <=> m < n
      BY <2>1, <1>8
    <2> QED  BY <2>3, <2>4, <1>2
  <1>10. \A x \in Contents(heap') : x.index < next_index'
    BY <1>2, <1>5, <1>8
  <1>11. QueueInv'
    BY <1>1, <1>2, <1>8, <1>9, <1>10 DEF QueueInv
  <1>12. Contents(F) # {} /\ m \in Nat
    <2>1. 1 \in 1 .. Len(F)
      BY <1>2, <1>7
    <2> QED  BY <2>1, <1>2 DEF Contents
  <1> QED  BY <1>2, <1>7, <1>8, <1>11, <1>12 DEF E, F, h

-----------------------------------------------------------------------------
(* The service.                                                            *)

TriggeredInv == QueueInv /\ BatchSorted /\ RequestNotLost

LEMMA QueueInvSound ==
    ASSUME QueueInv
    PROVE  Verified /\ HeapOrder
  <1>1. DOMAIN heap = 1 .. Len(heap)
    BY QueueInvFacts
  <1>2. HeapOrder
    BY DEF HeapOrder, QueueInv, Ordered
  <1> QED  BY <1>1, <1>2, QueueInvFacts DEF Verified, QueueInv

LEMMA TriggeredInitially ==
    TriggeredInit => TriggeredInv
  <1> SUFFICES ASSUME TriggeredInit PROVE TriggeredInv
    OBVIOUS
  <1>1. heap = <<>> /\ reverse = <<>> /\ event = FALSE /\ next_index = 0 /\ executing = <<>> /\ requested = FALSE
    BY DEF TriggeredInit, PQInit
  <1>2. Len(heap) = 0 /\ Contents(heap) = {} /\ heap \in Seq(Entry)
    BY <1>1 DEF Contents
  <1>3. DOMAIN reverse = {}
    BY <1>1
  <1>4. Fits(Heap(heap, reverse), Contents(heap), Len(heap))
    BY <1>2, <1>3 DEF Fits, Heap
  <1>5. Unique(Contents(heap)) /\ Ordered(heap, Len(heap))
    BY <1>2 DEF Unique, Ordered
  <1>6. QueueInv
    BY <1>1, <1>2, <1>4, <1>5 DEF QueueInv
  <1>7. BatchSorted
    BY <1>1, TriggeredAssumption DEF BatchSorted
  <1> QED  BY <1>1, <1>6, <1>7 DEF TriggeredInv, RequestNotLost

(* The queue stays as it is.                                               *)
LEMMA QueueKept ==
    ASSUME QueueInv, UNCHANGED queueVars
    PROVE  QueueInv'
  BY DEF QueueInv, queueVars, Contents, Fits, Ordered, Heap, Unique

(* What a step does to the queue, as QueueSpec sees it.                    *)
QueueStep ==
    \/ \E i \in Items, p \in Priorities, t \in Timestamps :
          /\ \A x \in Contents(heap) : x.item # i
          /\ Contents(heap') = Contents(heap) \cup
                {[item |-> i, priority |-> p, timestamp |-> t, index |-> next_index]}
          /\ next_index' = next_index + 1
    \/ \E S \in SUBSET Contents(heap) :
          /\ S # {}
          /\ \A a \in S, b \in Contents(heap) \ S : Less(a, b)
          /\ Contents(heap') = Contents(heap) \ S
          /\ next_index' = next_index
    \/ \E e \in Contents(heap) :
          Contents(heap') = Contents(heap) \ {e} /\ next_index' = next_index
    \/ \E e \in Contents(heap), p \in Priorities :
          /\ Contents(heap') = (Contents(heap) \ {e}) \cup {[e EXCEPT !.priority = p]}
          /\ next_index' = next_index
    \/ Contents(heap') = Contents(heap) /\ next_index' = next_index

LEMMA BatchKept ==
    ASSUME BatchSorted, executing' = executing
    PROVE  BatchSorted'
  BY DEF BatchSorted

LEMMA RequestKept ==
    ASSUME RequestNotLost, UNCHANGED sweeperVars
    PROVE  RequestNotLost'
  BY DEF RequestNotLost, sweeperVars

LEMMA TriggeredStep ==
    ASSUME TriggeredInv, [TriggeredNext]_triggeredVars
    PROVE  TriggeredInv' /\ QueueStep
  <1>1. QueueInv /\ BatchSorted /\ RequestNotLost
    BY DEF TriggeredInv
  <1>2. ASSUME NEW i \in Items, NEW p \in Priorities, NEW t \in Timestamps, Push(i, p, t),
               executing' = executing, UNCHANGED sweeperVars
        PROVE  TriggeredInv' /\ QueueStep
    <2>1. /\ QueueInv'
          /\ \A x \in Contents(heap) : x.item # i
          /\ Contents(heap') = Contents(heap) \cup
                {[item |-> i, priority |-> p, timestamp |-> t, index |-> next_index]}
      BY <1>1, <1>2, PushSound
    <2>2. next_index' = next_index + 1
      BY <1>2 DEF Push
    <2>3. QueueStep
      BY <2>1, <2>2 DEF QueueStep
    <2> QED  BY <2>1, <2>3, <1>1, <1>2, BatchKept, RequestKept DEF TriggeredInv
  <1>3. ASSUME NEW i \in Items, Dequeue(i) PROVE TriggeredInv' /\ QueueStep
    <2>1. Remove(i) /\ executing' = executing /\ UNCHANGED sweeperVars
      BY <1>3 DEF Dequeue
    <2>2. /\ QueueInv' /\ next_index' = next_index
          /\ \E e \in Contents(heap) : Contents(heap') = Contents(heap) \ {e}
      BY <2>1, <1>1, RemoveSound
    <2>3. QueueStep
      BY <2>2 DEF QueueStep
    <2> QED  BY <2>1, <2>2, <2>3, <1>1, BatchKept, RequestKept DEF TriggeredInv
  <1>4. ASSUME NEW i \in Items, NEW p \in Priorities, ChangePriority(i, p)
        PROVE  TriggeredInv' /\ QueueStep
    <2>1. SetPriority(i, p) /\ executing' = executing /\ UNCHANGED sweeperVars
      BY <1>4 DEF ChangePriority
    <2>2. /\ QueueInv' /\ next_index' = next_index
          /\ \E e \in Contents(heap) :
                Contents(heap') = (Contents(heap) \ {e}) \cup {[e EXCEPT !.priority = p]}
      BY <2>1, <1>1, SetPrioritySound
    <2>3. QueueStep
      BY <2>2 DEF QueueStep
    <2> QED  BY <2>1, <2>2, <2>3, <1>1, BatchKept, RequestKept DEF TriggeredInv
  <1>5. CASE Run
    <2> DEFINE m == BatchLength
               F == FirstN(Heap(heap, reverse), m)
    <2>1. Pop(m) /\ executing' = F /\ UNCHANGED sweeperVars
      BY <1>5 DEF Run
    <2>2. BatchSize # 0 => m <= BatchSize
      <3>1. Len(heap) \in Nat
        BY <1>1, QueueInvFacts
      <3> QED  BY <3>1, TriggeredAssumption DEF BatchLength, Smaller
    <2> HIDE DEF m, F
    <2>3. /\ QueueInv' /\ next_index' = next_index /\ m \in Nat
          /\ F \in Seq(Entry) /\ Len(F) = m
          /\ \A k, l \in 1 .. m : k < l => Less(F[k], F[l])
          /\ Contents(F) # {} /\ Contents(F) \subseteq Contents(heap)
          /\ Contents(heap') = Contents(heap) \ Contents(F)
          /\ \A a \in Contents(F), b \in Contents(heap) \ Contents(F) : Less(a, b)
      BY <2>1, <1>1, PopSound DEF F
    <2>4. BatchSorted'
      <3>1. DOMAIN F = 1 .. m
        BY <2>3
      <3> QED  BY <3>1, <2>1, <2>2, <2>3 DEF BatchSorted
    <2>5. QueueStep
      BY <2>3 DEF QueueStep
    <2> QED  BY <2>1, <2>3, <2>4, <2>5, <1>1, RequestKept DEF TriggeredInv
  <1>6. CASE Executed \/ ExecutionRaises
    <2>1. executing' = <<>> /\ UNCHANGED queueVars /\ UNCHANGED sweeperVars
      BY <1>6 DEF Executed, ExecutionRaises
    <2>2. BatchSorted'
      BY <2>1, TriggeredAssumption DEF BatchSorted
    <2>3. QueueStep
      BY <2>1 DEF QueueStep, queueVars, Contents
    <2> QED  BY <2>1, <2>2, <2>3, <1>1, QueueKept, RequestKept DEF TriggeredInv
  <1>7. CASE SweepStarts \/ SweepEnds \/ SearchOperationsNotDone \/ UNCHANGED triggeredVars
    <2>1. executing' = executing /\ UNCHANGED queueVars
      BY <1>7 DEF SweepStarts, SweepEnds, SearchOperationsNotDone, triggeredVars
    <2>2. RequestNotLost'
      BY <1>1, <1>7 DEF RequestNotLost, SweepStarts, SweepEnds, SearchOperationsNotDone,
                        triggeredVars, sweeperVars
    <2>3. QueueStep
      BY <2>1 DEF QueueStep, queueVars, Contents
    <2> QED  BY <2>1, <2>2, <2>3, <1>1, QueueKept, BatchKept DEF TriggeredInv
  <1>8. ASSUME NEW i \in Items, NEW p \in Priorities, NEW t \in Timestamps,
               Enqueue(i, p, t) \/ SweepOne(i, p, t)
        PROVE  TriggeredInv' /\ QueueStep
    <2>1. Push(i, p, t) /\ executing' = executing /\ UNCHANGED sweeperVars
      BY <1>8 DEF Enqueue, SweepOne
    <2> QED  BY <2>1, <1>2
  <1> QED  BY <1>3, <1>4, <1>5, <1>6, <1>7, <1>8, Zenon DEF TriggeredNext

(* The lookup of the queue is exact, its heap in order and its event set   *)
(* if and only if there is something to pop, for a heap of any size; a     *)
(* batch is in order and within its limit, and a search that is asked for  *)
(* during a sweep is not forgotten.                                        *)
THEOREM QueueStaysSound == TriggeredSpec => []TriggeredSound
  <1>1. TriggeredInv => TriggeredSound
    BY QueueInvSound DEF TriggeredInv, TriggeredSound
  <1>2. TriggeredInv /\ [TriggeredNext]_triggeredVars => TriggeredInv'
    BY TriggeredStep
  <1> QED  BY <1>1, <1>2, TriggeredInitially, PTL DEF TriggeredSpec

(* The heap implements the queue in order of priority: whatever push, pop, *)
(* remove and set_priority do to the list and its lookup is one step of    *)
(* QueueSpec on the set of entries, in particular what is popped comes     *)
(* before all that stays.                                                  *)
THEOREM HeapImplementsQueue == TriggeredSpec => InOrder
  <1> DEFINE entries == {heap[i] : i \in DOMAIN heap}
  <1>1. TriggeredInit => Abstract!QueueInit
    BY DEF TriggeredInit, PQInit, Abstract!QueueInit
  <1>2. TriggeredInv /\ [TriggeredNext]_triggeredVars
           => [Abstract!QueueNext]_<<entries, next_index>>
    <2> SUFFICES ASSUME TriggeredInv, [TriggeredNext]_triggeredVars
                 PROVE  [Abstract!QueueNext]_<<entries, next_index>>
      OBVIOUS
    <2>1. TriggeredInv' /\ QueueStep
      BY TriggeredStep
    <2>2. entries = Contents(heap)
      BY QueueInvFacts DEF TriggeredInv, Contents
    <2>3. entries' = Contents(heap')
      <3>1. heap' \in Seq(Entry)
        BY <2>1 DEF TriggeredInv, QueueInv, Fits, Heap
      <3> QED  BY <3>1 DEF Contents
    <2> QED  BY <2>1, <2>2, <2>3 DEF QueueStep, Abstract!QueueNext, Abstract!Add, Abstract!InQueue,
                Abstract!Take, Abstract!Discard, Abstract!Reprioritize, Abstract!Before, Less
  <1>3. TriggeredInv /\ [TriggeredNext]_triggeredVars => TriggeredInv'
    BY TriggeredStep
  <1> QED  BY <1>1, <1>2, <1>3, TriggeredInitially, PTL
           DEF TriggeredSpec, InOrder, Abstract!QueueBehaviour
=============================================================================
