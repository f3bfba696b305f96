----------------------------- MODULE Containers -----------------------------
(***************************************************************************)
(* util/collections/deque (a ring buffer that grows and shrinks),          *)
(* util/collections/priorityqueue (a binary heap) and util/collections/    *)
(* lrucache (a map and a doubly linked list between two sentinels).        *)
(*                                                                         *)
(* Each structure is a record or a sequence and each method an operator    *)
(* that returns the structure after the call.  The methods of the LRU      *)
(* cache hold its mutex from their first line to their last, so a method   *)
(* is one step of it.                                                      *)
(***************************************************************************)
EXTENDS Integers, FiniteSets, Sequences

CONSTANTS
  MinCapacity,  \* minCapacity of the deque, a power of two
  Zero          \* the zero value of an element

-----------------------------------------------------------------------------
(* Deque: buf is indexed from 0, tail is the slot after the last element. *)

RECURSIVE CapacityFor(_, _)
CapacityFor(c, wanted) == IF c >= wanted THEN c ELSE CapacityFor(2 * c, wanted)

NewWithCapacity(capacity) ==
  [buf |-> [i \in 0 .. CapacityFor(MinCapacity, capacity) - 1 |-> Zero],
   head |-> 0, tail |-> 0, count |-> 0]

Len0(d) == Cardinality(DOMAIN d.buf)

\* i & (len(buf) - 1), the length being a power of two.
Wrap(d, i) == i % Len0(d)

At(d, index) == d.buf[Wrap(d, d.head + index)]

ToSlice(d) == [i \in 1 .. d.count |-> At(d, i - 1)]

\* Mutant of resize: the part of a wrapped buffer before tail is not copied.
resizeHead(d, newSize) ==
  LET n == Len0(d) - d.head
  IN  [d EXCEPT !.buf = [i \in 0 .. newSize - 1 |->
                           IF i < d.count /\ i < n THEN d.buf[d.head + i]
                           ELSE Zero],
                !.head = 0, !.tail = d.count]

\* The slots from head on, and from 0 to tail when they wrap, to the front
\* of a new buffer.
resize(d, newSize) ==
  LET n == IF d.head < d.tail THEN d.tail - d.head ELSE Len0(d) - d.head
      Copied(i) == IF i < n THEN d.buf[d.head + i]
                   ELSE IF d.head >= d.tail /\ i - n < d.tail THEN d.buf[i - n]
                   ELSE Zero
  IN  [d EXCEPT !.buf = [i \in 0 .. newSize - 1 |->
                           IF d.head >= d.tail /\ d.count = 0 THEN Zero
                           ELSE Copied(i)],
                !.head = 0, !.tail = d.count]

growIfNeeded(d) == IF d.count = Len0(d) THEN resize(d, 2 * Len0(d)) ELSE d

shrinkIfNeeded(d) ==
  IF Len0(d) > MinCapacity /\ d.count <= Len0(d) \div 4
  THEN resize(d, Len0(d) \div 2) ELSE d

PushFront(d, x) ==
  LET g == growIfNeeded(d)
      h == Wrap(g, g.head - 1)
  IN  [g EXCEPT !.head = h, !.buf[h] = x, !.count = @ + 1]

PushBack(d, x) ==
  LET g == growIfNeeded(d)
  IN  [g EXCEPT !.buf[g.tail] = x, !.tail = Wrap(g, @ + 1), !.count = @ + 1]

PopFront(d) ==
  IF d.count = 0 THEN d
  ELSE shrinkIfNeeded([d EXCEPT !.buf[d.head] = Zero,
                                !.head = Wrap(d, @ + 1), !.count = @ - 1])

PopBack(d) ==
  LET t == Wrap(d, d.tail - 1)
  IN  IF d.count = 0 THEN d
      ELSE shrinkIfNeeded([d EXCEPT !.buf[t] = Zero, !.tail = t,
                                    !.count = @ - 1])

PeekFront(d) == IF d.count = 0 THEN Zero ELSE d.buf[d.head]
PeekBack(d) == IF d.count = 0 THEN Zero ELSE d.buf[Wrap(d, d.tail - 1)]

SetAt(d, index, x) ==
  IF index < 0 \/ index >= d.count THEN d
  ELSE [d EXCEPT !.buf[Wrap(d, d.head + index)] = x]

\* Clear keeps the buffer it has grown to.
ClearDeque(d) ==
  [d EXCEPT !.buf = [i \in DOMAIN @ |-> Zero],
            !.head = 0, !.tail = 0, !.count = 0]

\* n steps of PopFront and PushBack, n taken modulo the count.
RECURSIVE Turn(_, _)
Turn(d, n) == IF n = 0 THEN d ELSE Turn(PushBack(PopFront(d), PeekFront(d)), n - 1)

Rotate(d, n) == IF d.count <= 1 THEN d ELSE Turn(d, n % d.count)

ReverseDeque(d) ==
  [d EXCEPT !.buf = [i \in DOMAIN @ |->
     LET k == Wrap(d, i - d.head)
     IN  IF k < d.count THEN At(d, d.count - 1 - k) ELSE @[i]]]

-----------------------------------------------------------------------------
(* Priority queue: data[1] is the top; a < b means that a comes first. *)

SwapAt(q, i, j) == [q EXCEPT ![i] = q[j], ![j] = q[i]]

RECURSIVE up(_, _)
up(q, i) ==
  IF i = 1 \/ ~(q[i] < q[i \div 2]) THEN q ELSE up(SwapAt(q, i, i \div 2), i \div 2)

\* Mutant of down: the item sinks below the left child, never the right one.
RECURSIVE downLeft(_, _)
downLeft(q, i) ==
  IF 2 * i > Len(q) \/ q[i] < q[2 * i] THEN q
  ELSE downLeft(SwapAt(q, i, 2 * i), 2 * i)

RECURSIVE down(_, _)
down(q, i) ==
  LET left == 2 * i
      smallest == IF left + 1 <= Len(q) /\ q[left + 1] < q[left]
                  THEN left + 1 ELSE left
  IN  IF left > Len(q) \/ q[i] < q[smallest] THEN q
      ELSE down(SwapAt(q, i, smallest), smallest)

Push(q, x) == up(Append(q, x), Len(q) + 1)

Pop(q) ==
  IF q = << >> THEN q
  ELSE LET r == SubSeq([q EXCEPT ![1] = q[Len(q)]], 1, Len(q) - 1)
       IN  IF r = << >> THEN r ELSE down(r, 1)

\* ToSlice empties the queue into a slice.
RECURSIVE Drain(_)
Drain(q) == IF q = << >> THEN << >> ELSE <<q[1]>> \o Drain(Pop(q))

-----------------------------------------------------------------------------
(* LRU cache: next and prev link the cached keys between two sentinels,    *)
(* head and tail; value is the map of the cache, over the keys it holds.   *)

First == -1
Last == -2

NewLRU(capacity) ==
  [capacity |-> IF capacity <= 0 THEN 1 ELSE capacity,
   value |-> [k \in {} |-> Zero],
   next |-> [n \in {First} |-> Last], prev |-> [n \in {Last} |-> First]]

Holds(c, k) == k \in DOMAIN c.value

Without(f, k) == [x \in DOMAIN f \ {k} |-> f[x]]
With(f, k, v) == [x \in DOMAIN f \cup {k} |-> IF x = k THEN v ELSE f[x]]

addToFront(c, k) ==
  [c EXCEPT !.prev = With(With(@, k, First), c.next[First], k),
            !.next = With(With(@, k, c.next[First]), First, k)]

removeEntry(c, k) ==
  [c EXCEPT !.next = Without([@ EXCEPT ![c.prev[k]] = c.next[k]], k),
            !.prev = Without([@ EXCEPT ![c.next[k]] = c.prev[k]], k)]

moveToFront(c, k) == addToFront(removeEntry(c, k), k)

removeLast(c) ==
  LET k == c.prev[Last]
  IN  IF k = First THEN c
      ELSE [removeEntry(c, k) EXCEPT !.value = Without(@, k)]

GetLRU(c, k) == IF Holds(c, k) THEN moveToFront(c, k) ELSE c

\* A new key after the eviction a full cache needs.
Insert(c, k, v) ==
  LET d == IF Cardinality(DOMAIN c.value) >= c.capacity THEN removeLast(c) ELSE c
  IN  addToFront([d EXCEPT !.value = With(@, k, v)], k)

\* Mutant of PutLRU: a key that is already there keeps its place in the list.
PutLRUInPlace(c, k, v) ==
  IF Holds(c, k) THEN [c EXCEPT !.value[k] = v] ELSE Insert(c, k, v)

PutLRU(c, k, v) ==
  IF Holds(c, k) THEN moveToFront([c EXCEPT !.value[k] = v], k)
  ELSE Insert(c, k, v)

GetOrPut(c, k, v) == IF Holds(c, k) THEN moveToFront(c, k) ELSE Insert(c, k, v)

RemoveLRU(c, k) ==
  IF Holds(c, k) THEN [removeEntry(c, k) EXCEPT !.value = Without(@, k)] ELSE c

ClearLRU(c) == NewLRU(c.capacity)

RECURSIVE Evict(_)
Evict(c) ==
  IF Cardinality(DOMAIN c.value) > c.capacity THEN Evict(removeLast(c)) ELSE c

Resize(c, capacity) ==
  Evict([c EXCEPT !.capacity = IF capacity <= 0 THEN 1 ELSE capacity])

RECURSIVE Walk(_, _)
Walk(next, n) ==
  IF next[n] = Last THEN << >> ELSE <<next[n]>> \o Walk(next, next[n])

KeysLRU(c) == Walk(c.next, First)

=============================================================================
