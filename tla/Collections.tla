---------------------------- MODULE Collections ----------------------------
(***************************************************************************)
(* The data structures of util/collections under every sequence of calls.  *)
(*                                                                         *)
(* One structure, of a kind chosen at the start, lives in `it`; `model` is *)
(* the value its documentation says it holds: a set of keys, a sequence, a *)
(* bag, or a list of pairs in the order of their last use.  Every call     *)
(* changes both, and the invariants relate them.  The functions without    *)
(* state (slices, maps, pagination, sorting) are applied to every slice or *)
(* map that the calls build up.                                            *)
(***************************************************************************)
EXTENDS Integers, FiniteSets, Sequences

CONSTANTS
  Keys,         \* keys of the tree, a finite set of positive numbers
  Items,        \* elements of the other structures, numbers with Zero
  MinCapacity,  \* smallest buffer of the deque
  MaxLen,       \* bound on the number of elements
  Others        \* sets of keys the set operations meet

Zero == 0

ASSUME CollectionsAssumption ==
  /\ IsFiniteSet(Keys) /\ Keys \subseteq Nat \ {Zero}
  /\ MinCapacity \in {1, 2, 4, 8, 16}
  /\ Zero \in Items /\ Items \subseteq Nat
  /\ MaxLen \in Nat
  /\ \A o \in Others : o \subseteq Keys

T == INSTANCE TreeMap
C == INSTANCE Containers
S == INSTANCE Slices

VARIABLES kind, it, model

vars == <<kind, it, model>>

Start ==
  [ordered |-> T!New("ordered"), reverse |-> T!New("reverse"),
   deque |-> C!NewWithCapacity(0), queue |-> << >>, lru |-> C!NewLRU(2),
   slice |-> << >>, map |-> [k \in {} |-> Zero]]

Trees == T!Orders

Init ==
  /\ kind \in DOMAIN Start
  /\ it = Start[kind]
  /\ model = CASE kind \in Trees -> {}
               [] kind = "queue" -> [x \in Items |-> 0]
               [] OTHER -> << >>

-----------------------------------------------------------------------------
(* Calls: the structure after the call, and what it should hold *)

Call(k, new, holds) ==
  kind = k /\ it' = new /\ model' = holds /\ UNCHANGED kind

Room == Len(model) < MaxLen

TreePut(k) == kind \in Trees /\ Call(kind, T!Put(it, k), model \cup {k})
TreeRemove(k) == kind \in Trees /\ Call(kind, T!Remove(it, k), model \ {k})
TreeClone == kind \in Trees /\ Call(kind, T!Clone(it), model)
TreeClear == kind \in Trees /\ Call(kind, T!Clear(it), {})

DequePushFront(x) == Call("deque", C!PushFront(it, x), <<x>> \o model) /\ Room
DequePushBack(x) == Call("deque", C!PushBack(it, x), Append(model, x)) /\ Room
DequePopFront == Call("deque", C!PopFront(it), S!Skip(model, 1))
DequePopBack == Call("deque", C!PopBack(it), S!Take(model, Len(model) - 1))
DequeSet(i, x) ==
  Call("deque", C!SetAt(it, i, x),
       IF i + 1 \in DOMAIN model THEN [model EXCEPT ![i + 1] = x] ELSE model)
DequeRotate(n) ==
  LET r == IF model = << >> THEN 0 ELSE n % Len(model)
  IN  Call("deque", C!Rotate(it, n), S!Skip(model, r) \o S!Take(model, r))
DequeReverse ==
  Call("deque", C!ReverseDeque(it),
       [i \in DOMAIN model |-> model[Len(model) + 1 - i]])
DequeClear == Call("deque", C!ClearDeque(it), << >>)

Least(bag) == CHOOSE x \in Items : bag[x] > 0 /\ \A y \in 0 .. x - 1 : bag[y] = 0
QueuePush(x) ==
  kind = "queue" /\ Len(it) < MaxLen
    /\ Call("queue", C!Push(it, x), [model EXCEPT ![x] = @ + 1])
QueuePop ==
  kind = "queue" /\ it # << >>
    /\ Call("queue", C!Pop(it), [model EXCEPT ![Least(model)] = @ - 1])

\* model: the pairs of the cache, the last used first.
Other(k) == SelectSeq(model, LAMBDA p : p[1] # k)
ValueIn(k, v) == S!GetOrDefault(S!ToMap(model), k, v)
Cached(k) == k \in {model[i][1] : i \in DOMAIN model}
Used(k, v) == S!Take(<<<<k, v>>>> \o Other(k), it.capacity)

LruGet(k) ==
  kind = "lru"
    /\ Call("lru", C!GetLRU(it, k),
            IF Cached(k) THEN Used(k, ValueIn(k, 0)) ELSE model)
LruPut(k, v) == kind = "lru" /\ Call("lru", C!PutLRU(it, k, v), Used(k, v))
LruGetOrPut(k, v) ==
  kind = "lru" /\ Call("lru", C!GetOrPut(it, k, v), Used(k, ValueIn(k, v)))
LruRemove(k) == kind = "lru" /\ Call("lru", C!RemoveLRU(it, k), Other(k))
LruResize(n) ==
  kind = "lru" /\ Call("lru", C!Resize(it, n), S!Take(model, IF n <= 0 THEN 1 ELSE n))
LruClear == Call("lru", C!ClearLRU(it), << >>)

SliceAppend(x) ==
  kind = "slice" /\ Room /\ Call("slice", Append(it, x), Append(model, x))
MapPut(k, v) ==
  kind = "map" /\ Call("map", S!Merge(<<it, [x \in {k} |-> v]>>), model)

Next ==
  \/ \E k \in Keys : TreePut(k) \/ TreeRemove(k)
  \/ TreeClone \/ TreeClear
  \/ \E x \in Items : DequePushFront(x) \/ DequePushBack(x) \/ QueuePush(x)
  \/ \E i \in -1 .. MaxLen, x \in Items : DequeSet(i, x)
  \/ \E n \in -2 .. MaxLen : DequeRotate(n)
  \/ DequePopFront \/ DequePopBack \/ DequeReverse \/ DequeClear \/ QueuePop
  \/ \E k \in Items : LruGet(k) \/ LruRemove(k)
  \/ \E k, v \in Items : LruPut(k, v) \/ LruGetOrPut(k, v) \/ MapPut(k, v)
  \/ \E n \in 0 .. 3 : LruResize(n)
  \/ LruClear
  \/ \E x \in Items : SliceAppend(x)

Spec == Init /\ [][Next]_vars

-----------------------------------------------------------------------------
(* Properties *)

\* The elements of a set of keys in the order of the comparator.
Sorted(ks) ==
  LET Rank(k) == Cardinality({j \in ks : T!Less(kind, j, k)}) + 1
  IN  [i \in 1 .. Cardinality(ks) |-> CHOOSE k \in ks : Rank(k) = i]

RECURSIVE BlackHeight(_)
BlackHeight(n) ==
  IF n = T!Nil THEN {0}
  ELSE {h + (IF n \in it.red THEN 0 ELSE 1) :
          h \in UNION {BlackHeight(it.kid[s][n]) : s \in T!Sides}}

\* "红黑树": after every Put and Remove the tree holds exactly the keys that
\* were put and not removed, in the order of its comparator, its parent links
\* answer its child links, no red node has a red child and every path has the
\* same number of black nodes, so that an operation is O(log n)
\* (tree_map.go 32-37, insertFixup, deleteFixup).
TreeBalanced ==
  kind \in Trees =>
    /\ T!KeysOf(it) = Sorted(model) /\ it.size = Cardinality(model)
    /\ \A k \in Keys : T!ContainsKey(it, k) <=> k \in model
    /\ <<T!FirstKey(it), T!LastKey(it)>>
         = <<S!FirstOf(Sorted(model)), S!LastOf(Sorted(model))>>
    /\ it.root \notin it.red
    /\ \A n \in model : \A s \in T!Sides :
         LET c == it.kid[s][n]
         IN  /\ c # T!Nil => it.up[c] = n
             /\ n \in it.red => c \notin it.red
    /\ Cardinality(BlackHeight(it.root)) = 1
    /\ \A o \in Others :
         LET other == T!FromSlice(Sorted(o))
         IN  /\ T!KeysOf(T!Union(it, other)) = Sorted(model \cup o)
             /\ T!KeysOf(T!Intersection(it, other)) = Sorted(model \cap o)
             /\ T!KeysOf(T!Difference(it, other)) = Sorted(model \ o)
             /\ T!IsSuperset(it, other) <=> o \subseteq model
             /\ T!Equal(it, other) <=> o = model

\* The ring buffer gives back the sequence that was pushed, through every wrap,
\* growth and shrinking, and clears the slots it no longer uses ("帮助 GC",
\* deque.go resize, PopFront, PopBack).
DequeIsSequence ==
  kind = "deque" =>
    /\ C!ToSlice(it) = model
    /\ C!PeekFront(it) = S!FirstOf(model) /\ C!PeekBack(it) = S!LastOf(model)
    /\ it.tail = C!Wrap(it, it.head + it.count)
    /\ C!Len0(it) >= it.count
    /\ \A i \in 0 .. C!Len0(it) - 1 :
         C!Wrap(it, i - it.head) >= it.count => it.buf[i] = Zero

\* The queue holds the bag that was pushed and gives it out in order
\* (priority_queue.go up, down).
QueueOrdered ==
  kind = "queue" =>
    LET out == C!Drain(it)
    IN  /\ \A x \in Items : S!Count(out, [y \in Items |-> y = x]) = model[x]
        /\ \A i \in 1 .. Len(out) - 1 : out[i] <= out[i + 1]

\* "自动淘汰最近最少使用的元素": the cache holds the last used keys, in the order
\* of their last use, with the values last put, and its list and its map are
\* of the same keys in both directions (lru_cache.go).
LruKeepsRecent ==
  kind = "lru" =>
    /\ [i \in DOMAIN model |-> model[i][1]] = C!KeysLRU(it)
    /\ it.value = S!ToMap(model)
    /\ \A n \in DOMAIN it.next : it.prev[it.next[n]] = n

KeyOf == [x \in Items |-> x % 2]

\* The chunks of a slice are the slice again, none is empty and all but the last
\* are full.  The item UniqueBy keeps of a key is the first of its group, the one
\* KeyBy keeps the last (slices.go 77-135, 317-323).
SliceLaws(s) ==
  /\ \A n \in 1 .. Len(s) + 1 :
       LET chunks == S!Chunk(s, n)
       IN  /\ S!Flatten(chunks) = s
           /\ \A i \in DOMAIN chunks :
                IF i < Len(chunks) THEN Len(chunks[i]) = n
                ELSE Len(chunks[i]) \in 1 .. n
  /\ LET g == S!GroupBy(s, KeyOf)
         u == S!UniqueBy(s, KeyOf)
         k == S!KeyBy(s, KeyOf)
     IN  /\ Len(u) = Cardinality(DOMAIN g) /\ DOMAIN k = DOMAIN g
         /\ \A i \in DOMAIN u : u[i] = S!FirstOf(g[KeyOf[u[i]]])
         /\ \A x \in DOMAIN g : k[x] = S!LastOf(g[x])

\* What Diff names is what separates two maps: without the removed keys, and with
\* the added and changed ones, the first is the second.  Whatever the order of
\* the range, a map is its entries and a map inverted twice is a part of it that
\* has all of its values (maps.go 77-88, 186-193, 366-388).
MapLaws(m) ==
  /\ {S!ToMap(e) : e \in S!Entries(m)} = {m}
  /\ \A o \in Others :
       LET n == S!FilterKeys(S!Merge(<<m, [k \in o |-> k]>>), o)
           d == S!Diff(m, n)
       IN  S!Merge(<<S!OmitKeys(m, d.removed),
                     S!FilterKeys(n, d.added \cup d.changed)>>) = n
  /\ \A r \in S!Invert(m) : \A b \in S!Invert(r) :
       /\ b = S!FilterKeys(m, DOMAIN b)
       /\ {b[k] : k \in DOMAIN b} = {m[k] : k \in DOMAIN m}

\* Pages of total rows: the rows are covered once, and no page that exists
\* leaves the range of the int32 product of Offset (pagination.go 42-44); sizes
\* are scaled down to a 5-bit integer.
PageLaws ==
  \A total \in 0 .. 15, size \in -1 .. 6 :
    LET P(i) == S!NewPage(i, size, 2, 4)
        pages == S!TotalPages(total, P(1))
    IN  /\ \A i \in 1 .. pages :
             /\ S!Offset(5, P(i)) \in 0 .. total - 1
             /\ S!HasPrev(P(i)) <=> S!Offset(5, P(i)) > 0
        /\ pages > 0 => S!Offset(5, P(pages)) + P(pages).PageSize >= total
        /\ \A i \in -1 .. pages : S!HasNext(total, P(i)) <=> P(i).Page < pages

\* The texts a sort can be asked for with: no field, a field and its order, no
\* text, a field without an order.
Texts == <<<<"", "up">>, <<"f", "asc">>, <<"">>, <<"f", "g", "up">>>>

\* A sort written out as field:order is read back as itself, whatever its field
\* is made of; only empty texts give none; and behind an allow list a part that
\* names no field (":up", which is read as a field) does not reach the query
\* (sorting.go 57-92, 125-143).
SortLaws(s) ==
  LET parts == [i \in DOMAIN s |-> Texts[1 + ((s[i] + i) % Len(Texts))]]
      sorts == S!ParseSort(parts)
      text == [i \in DOMAIN sorts |-> Append(sorts[i][1], sorts[i][2])]
      allowed == S!FilterSort(sorts, {<<"f">>, <<"f", "g">>})
  IN  /\ S!ParseSort(text) = sorts
      /\ Len(sorts) = Len(s) - S!Count(parts, [p \in {Texts[i] : i \in DOMAIN Texts} |-> p = <<"">>])
      /\ \A i \in DOMAIN allowed : allowed[i][2] = "asc" => allowed[i][1] = <<"f">>
      /\ S!WithDefault(allowed, <<<<"f">>>>) # << >>

\* The functions beside the containers, on every slice and map of the bound.
FunctionsAgree ==
  /\ kind = "slice" => /\ SliceLaws(it) /\ SortLaws(it)
                       /\ it = << >> => PageLaws
  /\ kind = "map" => MapLaws(it)

\* The other structures of util/collections hold what their calls put there, and
\* the functions beside them agree with each other.
ContainersRight ==
  DequeIsSequence /\ QueueOrdered /\ LruKeepsRecent /\ FunctionsAgree

=============================================================================
