------------------------------ MODULE TreeMap ------------------------------
(***************************************************************************)
(* util/collections/treemap, the red-black tree, and util/collections/     *)
(* treeset, a TreeMap without values.                                      *)
(*                                                                         *)
(* A node is named by its key and a tree is a record of its links: two     *)
(* child functions, the parent function and the set of red nodes.  Where   *)
(* deleteNode copies the successor's key and value into the node it        *)
(* deletes, the two nodes trade their places here (TradePlaces), so that a *)
(* node keeps its name.  The left and right branches of the code are one   *)
(* operator each, with the side as a parameter.  Values travel with their  *)
(* keys and are left out.                                                  *)
(***************************************************************************)
EXTENDS Integers, FiniteSets, Sequences

CONSTANT Keys  \* a finite set of positive numbers

Nil == 0

Sides == {"left", "right"}
Opposite(s) == IF s = "left" THEN "right" ELSE "left"

\* OrderedCompare, or ReverseCompare / Reverse around it.
Orders == {"ordered", "reverse"}
Less(cmp, a, b) == IF cmp = "ordered" THEN a < b ELSE b < a

New(cmp) ==
  [root |-> Nil, size |-> 0, cmp |-> cmp, red |-> {},
   kid |-> [s \in Sides |-> [n \in Keys |-> Nil]], up |-> [n \in Keys |-> Nil]]

-----------------------------------------------------------------------------
(* Reading *)

\* The node where the search for k ends: k itself or its would-be parent.
RECURSIVE Descend(_, _, _)
Descend(t, n, k) ==
  LET c == t.kid[IF Less(t.cmp, k, n) THEN "left" ELSE "right"][n]
  IN  IF k = n \/ c = Nil THEN n ELSE Descend(t, c, k)

findNode(t, k) == IF t.root # Nil /\ Descend(t, t.root, k) = k THEN k ELSE Nil

ContainsKey(t, k) == findNode(t, k) # Nil

\* minimum (s = "left") and maximum (s = "right") of the subtree of n.
RECURSIVE Extreme(_, _, _)
Extreme(t, n, s) ==
  IF t.kid[s][n] = Nil THEN n ELSE Extreme(t, t.kid[s][n], s)

FirstKey(t) == IF t.root = Nil THEN Nil ELSE Extreme(t, t.root, "left")
LastKey(t) == IF t.root = Nil THEN Nil ELSE Extreme(t, t.root, "right")

RECURSIVE inorderTraversal(_, _)
inorderTraversal(t, n) ==
  IF n = Nil THEN << >>
  ELSE inorderTraversal(t, t.kid["left"][n]) \o <<n>>
         \o inorderTraversal(t, t.kid["right"][n])

KeysOf(t) == inorderTraversal(t, t.root)

-----------------------------------------------------------------------------
(* Links *)

\* if x != nil { x.parent = p }
Link(up, x, p) == IF x = Nil THEN up ELSE [up EXCEPT ![x] = p]

SideOf(t, n) == IF t.kid["left"][t.up[n]] = n THEN "left" ELSE "right"

\* c takes the place of n under n's parent, or at the root.
Swing(t, n, c) ==
  IF t.up[n] = Nil THEN [t EXCEPT !.root = c]
  ELSE [t EXCEPT !.kid[SideOf(t, n)][t.up[n]] = c]

\* Mutant of Rotate: the grandchild that changes sides keeps its parent.
RotateStale(t, n, s) ==
  LET o == Opposite(s)
      r == t.kid[o][n]
  IN  [Swing(t, n, r) EXCEPT
         !.kid[o][n] = t.kid[s][r], !.kid[s][r] = n,
         !.up = [@ EXCEPT ![r] = t.up[n], ![n] = r]]

\* rotateLeft (s = "left") and rotateRight (s = "right").
Rotate(t, n, s) ==
  LET o == Opposite(s)
      r == t.kid[o][n]
      c == t.kid[s][r]
  IN  [Swing(t, n, r) EXCEPT
         !.kid[o][n] = c, !.kid[s][r] = n,
         !.up = Link([@ EXCEPT ![r] = t.up[n], ![n] = r], c, n)]

-----------------------------------------------------------------------------
(* Put *)

RECURSIVE insertFixup(_, _)
insertFixup(t, n) ==
  LET p == t.up[n]
      g == t.up[p]
      s == SideOf(t, p)
      uncle == t.kid[Opposite(s)][g]
      inner == n = t.kid[Opposite(s)][p]
      q == IF inner THEN n ELSE p
      u == IF inner THEN Rotate(t, p, s) ELSE t
  IN  IF p = Nil \/ p \notin t.red THEN [t EXCEPT !.red = @ \ {t.root}]
      ELSE IF uncle \in t.red
      THEN insertFixup([t EXCEPT !.red = (@ \ {p, uncle}) \cup {g}], g)
      ELSE insertFixup(Rotate([u EXCEPT !.red = (@ \ {q}) \cup {g}],
                              g, Opposite(s)),
                       IF inner THEN p ELSE n)

Put(t, k) ==
  LET p == Descend(t, t.root, k)
      side == IF Less(t.cmp, k, p) THEN "left" ELSE "right"
  IN  IF t.root = Nil THEN [t EXCEPT !.root = k, !.size = 1]
      ELSE IF p = k THEN t
      ELSE insertFixup([t EXCEPT !.kid[side][p] = k, !.up[k] = p,
                                 !.red = @ \cup {k}, !.size = @ + 1], k)

-----------------------------------------------------------------------------
(* Remove *)

\* n.key, n.value = successor.key, successor.value; n = successor
TradePlaces(t, a, b) ==
  LET R(x) == IF x = a THEN b ELSE IF x = b THEN a ELSE x
  IN  [t EXCEPT !.root = R(@), !.red = {R(x) : x \in @},
                !.kid = [s \in Sides |-> [x \in Keys |-> R(t.kid[s][R(x)])]],
                !.up = [x \in Keys |-> R(t.up[R(x)])]]

RECURSIVE deleteFixup(_, _, _)
deleteFixup(t, n, parent) ==
  LET s == IF n = t.kid["left"][parent] THEN "left" ELSE "right"
      o == Opposite(s)
      x == t.kid[o][parent]
      t1 == IF x \notin t.red THEN t
            ELSE Rotate([t EXCEPT !.red = (@ \ {x}) \cup {parent}], parent, s)
      y == t1.kid[o][parent]
      t2 == IF t1.kid[o][y] \in t1.red THEN t1
            ELSE Rotate([t1 EXCEPT !.red = (@ \ {t1.kid[s][y]}) \cup {y}],
                        y, o)
      z == t2.kid[o][parent]
      t3 == [t2 EXCEPT !.red =
               (IF parent \in @ THEN @ \cup {z} ELSE @ \ {z})
                 \ {parent, t2.kid[o][z]}]
      t4 == Rotate(t3, parent, s)
  IN  IF n = t.root \/ n \in t.red THEN [t EXCEPT !.red = @ \ {n}]
      ELSE IF y = Nil \/ {t1.kid[i][y] : i \in Sides} \cap t1.red = {}
      THEN deleteFixup([t1 EXCEPT !.red = @ \cup ({y} \ {Nil})],
                       parent, t1.up[parent])
      ELSE [t4 EXCEPT !.red = @ \ {t4.root}]

deleteNode(t, n) ==
  LET both == \A s \in Sides : t.kid[s][n] # Nil
      u == IF both
           THEN TradePlaces(t, n, Extreme(t, t.kid["right"][n], "left"))
           ELSE t
      child == u.kid[IF u.kid["left"][n] # Nil THEN "left" ELSE "right"][n]
      parent == u.up[n]
      v == Swing([u EXCEPT !.up = Link(@, child, parent)], n, child)
      w == IF n \in u.red THEN v ELSE deleteFixup(v, child, parent)
  IN  [w EXCEPT !.red = @ \ {n}, !.up[n] = Nil,
                !.kid = [s \in Sides |-> [@[s] EXCEPT ![n] = Nil]]]

Remove(t, k) ==
  IF ContainsKey(t, k) THEN [deleteNode(t, k) EXCEPT !.size = @ - 1] ELSE t

Clear(t) == New(t.cmp)

-----------------------------------------------------------------------------
(* TreeSet: Add puts its items one after the other, the set operations     *)
(* put or remove what Range hands them in order.                           *)

RECURSIVE Add(_, _)
Add(t, items) ==
  IF items = << >> THEN t ELSE Add(Put(t, Head(items)), Tail(items))

RECURSIVE RemoveItems(_, _)
RemoveItems(t, items) ==
  IF items = << >> THEN t ELSE RemoveItems(Remove(t, Head(items)), Tail(items))

Clone(t) == Add(New(t.cmp), KeysOf(t))

FromSlice(items) == Add(New("ordered"), items)

Union(t, other) == Add(Clone(t), KeysOf(other))

Intersection(t, other) ==
  LET smaller == IF t.size > other.size THEN other ELSE t
      larger == IF t.size > other.size THEN t ELSE other
  IN  Add(New(t.cmp),
          SelectSeq(KeysOf(smaller), LAMBDA k : ContainsKey(larger, k)))

Difference(t, other) == RemoveItems(Clone(t), KeysOf(other))

IsSubset(t, other) ==
  /\ t.size <= other.size
  /\ \A i \in DOMAIN KeysOf(t) : ContainsKey(other, KeysOf(t)[i])

IsSuperset(t, other) == IsSubset(other, t)

Equal(t, other) == t.size = other.size /\ IsSubset(t, other)

=============================================================================
