------------------------------- MODULE Slices -------------------------------
(***************************************************************************)
(* util/collections/slices, util/collections/maps, util/pagination and     *)
(* util/sorting: functions without state, as far as a loop, a boundary or  *)
(* an order of a map can make them wrong.                                  *)
(*                                                                         *)
(* A slice is a sequence and a Go map a function over the keys it holds.   *)
(* A loop is a fold over what it ranges; a function that is passed in is a *)
(* function here too.  A Go map is ranged over in a random order: where    *)
(* the answer depends on it, the operator returns the set of the answers.  *)
(***************************************************************************)
EXTENDS Integers, FiniteSets, Sequences

CONSTANT Zero  \* the zero value of an element

SX == INSTANCE SequencesExt

-----------------------------------------------------------------------------
(* slices *)

\* The map after m[k] = v.
Store(m, k, v) ==
  [x \in DOMAIN m \cup {k} |-> IF x = k THEN v ELSE m[x]]
NoKeys == [x \in {} |-> Zero]

\* Kept while the key has not been seen.
UniqueBy(s, key) ==
  LET Visit(acc, x) ==
        IF key[x] \in acc.seen THEN acc
        ELSE [seen |-> acc.seen \cup {key[x]}, result |-> Append(acc.result, x)]
  IN  SX!FoldLeft(Visit, [seen |-> {}, result |-> << >>], s).result

GroupBy(s, key) ==
  LET Visit(m, x) ==
        Store(m, key[x],
              Append(IF key[x] \in DOMAIN m THEN m[key[x]] ELSE << >>, x))
  IN  SX!FoldLeft(Visit, NoKeys, s)

\* KeyBy, and ToMap over pairs: a later item overwrites an earlier one.
KeyBy(s, key) == SX!FoldLeft(LAMBDA m, x : Store(m, key[x], x), NoKeys, s)
ToMap(pairs) == SX!FoldLeft(LAMBDA m, p : Store(m, p[1], p[2]), NoKeys, pairs)

Count(s, fn) == SX!FoldLeft(LAMBDA n, x : IF fn[x] THEN n + 1 ELSE n, 0, s)

Take(s, n) == IF n <= 0 THEN << >> ELSE SubSeq(s, 1, IF n > Len(s) THEN Len(s) ELSE n)
Skip(s, n) ==
  IF n <= 0 THEN s ELSE IF n >= Len(s) THEN << >> ELSE SubSeq(s, n + 1, Len(s))

\* i from 0 in steps of size, the end of a chunk no further than the slice's.
Chunk(s, size) ==
  LET RECURSIVE From(_)
      From(i) ==
        IF i >= Len(s) THEN << >>
        ELSE <<SubSeq(s, i + 1, IF i + size > Len(s) THEN Len(s) ELSE i + size)>>
               \o From(i + size)
  IN  IF size <= 0 THEN << >> ELSE From(0)

Flatten(ss) == SX!FlattenSeq(ss)

FirstOf(s) == IF Len(s) = 0 THEN Zero ELSE s[1]
LastOf(s) == IF Len(s) = 0 THEN Zero ELSE s[Len(s)]

-----------------------------------------------------------------------------
(* maps *)

\* Entries, in every order a Go map can be ranged over.
Entries(m) ==
  {e \in [1 .. Cardinality(DOMAIN m) -> {<<k, m[k]>> : k \in DOMAIN m}] :
     \A i, j \in DOMAIN e : i # j => e[i] # e[j]}

Merge(ms) ==
  LET Visit(acc, m) == SX!FoldLeft(LAMBDA r, k : Store(r, k, m[k]), acc,
                                   SX!SetToSeq(DOMAIN m))
  IN  SX!FoldLeft(Visit, NoKeys, ms)

FilterKeys(m, keys) == [k \in DOMAIN m \cap keys |-> m[k]]
OmitKeys(m, keys) == [k \in DOMAIN m \ keys |-> m[k]]

\* The maps that Invert can return: of the keys with one value, the one that is
\* ranged last stays.
Invert(m) == {ToMap([i \in DOMAIN e |-> <<e[i][2], e[i][1]>>]) : e \in Entries(m)}

GetOrDefault(m, k, d) == IF k \in DOMAIN m THEN m[k] ELSE d

\* The keys of the three answers, each a slice in some order.
Diff(m1, m2) ==
  [changed |-> {k \in DOMAIN m1 : k \in DOMAIN m2 /\ m1[k] # m2[k]},
   removed |-> {k \in DOMAIN m1 : k \notin DOMAIN m2},
   added |-> {k \in DOMAIN m2 : k \notin DOMAIN m1}]

-----------------------------------------------------------------------------
(* pagination: int32 numbers, of width W here *)

DefaultPage == 1

\* The value of an int32 product or sum that left the range of the type.
Int32(w, n) ==
  LET r == n % 2 ^ w IN IF r >= 2 ^ (w - 1) THEN r - 2 ^ w ELSE r

NewPage(page, size, default, max) ==
  [Page |-> IF page <= 0 THEN DefaultPage ELSE page,
   PageSize |-> LET z == IF size <= 0 THEN default ELSE size
                IN  IF z > max THEN max ELSE z]

Offset(w, p) == Int32(w, (p.Page - 1) * p.PageSize)

TotalPages(total, p) ==
  IF total = 0 \/ p.PageSize = 0 THEN 0
  ELSE total \div p.PageSize + (IF total % p.PageSize > 0 THEN 1 ELSE 0)
HasNext(total, p) == p.Page < TotalPages(total, p)
HasPrev(p) == p.Page > 1

-----------------------------------------------------------------------------
(* sorting: a text is the sequence of the pieces between its colons, so    *)
(* "f:asc" is <<"f", "asc">>, ":up" is <<"", "up">> and the empty text     *)
(* <<"">>.  The spaces round a piece and the case of an order are not told *)
(* apart.                                                                  *)

DefaultOrder == "desc"

\* strings.LastIndex(part, ":") > 0: there is a colon and text before the last.
Splits(part) == Len(part) > 1 /\ SX!Front(part) # <<"">>

parseField(part) ==
  IF Splits(part)
  THEN <<SX!Front(part),
         IF SX!Last(part) \in {"asc", "desc"} THEN SX!Last(part) ELSE DefaultOrder>>
  ELSE <<part, DefaultOrder>>

\* New and parse: the sorts of the parts between the commas.
ParseSort(parts) ==
  LET Visit(sorts, part) ==
        IF part = <<"">> \/ parseField(part)[1] = <<"">> THEN sorts
        ELSE Append(sorts, parseField(part))
  IN  SX!FoldLeft(Visit, << >>, parts)

FilterSort(sorts, allowed) ==
  IF allowed = {} THEN sorts ELSE SelectSeq(sorts, LAMBDA x : x[1] \in allowed)
WithDefault(sorts, default) == IF sorts = << >> THEN ParseSort(default) ELSE sorts

=============================================================================
