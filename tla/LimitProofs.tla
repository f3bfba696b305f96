----------------------------- MODULE LimitProofs -----------------------------
(***************************************************************************)
(* Theorems about RateLimit and the Cache under it, for every set of       *)
(* callers and keys and for all limits.                                    *)
(*                                                                         *)
(* A caller of TryLock that is within its time has its own value under the *)
(* key for at least as long, until a live lock is robbed.  A reader whose  *)
(* item is still in the map points to what the key has, so that an Expire  *)
(* of the item under its eyes is an Expire of the key, which the call saw. *)
(* What each limiter keeps (tokens, timestamps, a count) bounds what       *)
(* passed in the last ticks, for every number of them.                     *)
(***************************************************************************)
EXTENDS RateLimit, SequenceTheorems, TLAPS

-----------------------------------------------------------------------------
(* The invariant *)

Cell == Item \cup {None}
Pointer == [key : Key, item : Cell, current : BOOLEAN]

\* Who may take the lock for its own has it, for as long.
LockBacked ==
  \A c \in Caller :
    holds[c] > 0 /\ ~ robbed =>
      data[LockKey].value = c /\ data[LockKey].left >= holds[c]

\* A pointer that is current points to what the map has.
Pointing ==
  \A c \in Caller :
    at[c].current => /\ type = "memory" /\ data[at[c].key] # None
                     /\ at[c].item = data[at[c].key]

\* A value about to be returned was the key's, live, during the call.
Judged ==
  \A c \in Caller : pc[c] = "checking" /\ ~ isExpired(at[c].item) => seen[c]

CacheInv == TypeOK /\ LockBacked /\ Pointing /\ Judged

-----------------------------------------------------------------------------
(* Items *)

LEMMA Numbers ==
  /\ MaxValue \in Nat /\ MaxTTL \in Nat /\ MaxTTL > 0 /\ LockKey \in Key
  /\ Absent \notin Value
  /\ AskTTL \subseteq 1 .. MaxTTL
BY CacheAssumption DEF Value

LEMMA Cells ==
  /\ None \in Cell /\ isExpired(None) /\ None.value = Absent
  /\ \A i \in Cell : /\ i.left \in (0 .. MaxTTL) \cup {Forever}
                     /\ ~ isExpired(i) => i \in Item
                     /\ i # None => i \in Item
  /\ \A i \in Item : i.value \in Value /\ i.value # Absent /\ i # None
  /\ \A v \in Value, t \in (0 .. MaxTTL) \cup {Forever} :
       /\ New(v, t) \in Item /\ New(v, t) # None
       /\ New(v, t).value = v /\ New(v, t).left = t
  /\ \A i \in Item, t \in (0 .. MaxTTL) \cup {Forever} :
       /\ [i EXCEPT !.left = t] \in Item
       /\ [i EXCEPT !.left = t].value = i.value
       /\ [i EXCEPT !.left = t].left = t
<1>1. None \in Cell /\ None.left = 0 /\ None.value = Absent
  BY DEF None, Cell
<1>2. \A i \in Item : i.value \in Value /\ i.value # Absent
                      /\ i.left \in (0 .. MaxTTL) \cup {Forever} /\ i # None
  BY Numbers DEF Item, None
<1>3. \A i \in Cell : /\ i.left \in (0 .. MaxTTL) \cup {Forever}
                      /\ ~ isExpired(i) => i \in Item
                      /\ i # None => i \in Item
  BY <1>1, <1>2, Numbers DEF Cell, isExpired
<1>4. ASSUME NEW v \in Value, NEW t \in (0 .. MaxTTL) \cup {Forever}
      PROVE  /\ New(v, t) \in Item /\ New(v, t).value = v /\ New(v, t).left = t
             /\ New(v, t) # None
  BY Numbers DEF New, Item, None
<1>5. ASSUME NEW i \in Item, NEW t \in (0 .. MaxTTL) \cup {Forever}
      PROVE  /\ [i EXCEPT !.left = t] \in Item
             /\ [i EXCEPT !.left = t].value = i.value
             /\ [i EXCEPT !.left = t].left = t
  BY DEF Item
<1> QED
  BY <1>1, <1>2, <1>3, <1>4, <1>5 DEF isExpired

\* A tick makes an item older and nothing else.
LEMMA Aging ==
  ASSUME NEW i \in Cell
  PROVE  /\ Older(i) \in Cell /\ Older(i).value = i.value
         /\ Older(i).left = IF i.left > 0 THEN i.left - 1 ELSE i.left
         /\ isExpired(i) => isExpired(Older(i))
         /\ i # None => Older(i) # None
<1>1. i.left \in (0 .. MaxTTL) \cup {Forever} /\ MaxTTL \in Nat
  BY Cells, Numbers
<1>2. CASE i.left > 0
  <2>1. i \in Item /\ i.left - 1 \in (0 .. MaxTTL) \cup {Forever}
    BY <1>1, <1>2, Cells DEF isExpired, Forever
  <2>2. Older(i) = [i EXCEPT !.left = i.left - 1]
    BY <1>2, <2>1 DEF Older, Item
  <2>3. /\ Older(i) \in Item /\ Older(i).value = i.value
        /\ Older(i).left = i.left - 1
    BY <2>1, <2>2, Cells
  <2> QED
    BY <1>2, <2>3, Cells DEF Cell, isExpired
<1>3. CASE ~ (i.left > 0)
  BY <1>3 DEF Older
<1> QED
  BY <1>2, <1>3

-----------------------------------------------------------------------------
(* What a step does to the readers *)

LEMMA ReaderTypes ==
  ASSUME TypeOK, NEW c \in Caller
  PROVE  /\ at[c] \in Pointer /\ at[c].key \in Key /\ at[c].item \in Cell
         /\ at[c].current \in BOOLEAN /\ data[at[c].key] \in Cell
BY DEF TypeOK, Pointer, Cell

\* A step that gives the keys ks new items leaves every reader's item alone.
LEMMA BecomesReads ==
  ASSUME CacheInv, NEW d \in [Key -> Cell], NEW ks \in SUBSET Key,
         \A j \in Key \ ks : d[j] = data[j], Becomes(d, ks)
  PROVE  /\ type' \in Types /\ data' \in [Key -> Cell]
         /\ pc' \in [Caller -> {"idle", "checking", "deleting"}]
         /\ at' \in [Caller -> Pointer] /\ seen' \in [Caller -> BOOLEAN]
         /\ Pointing' /\ Judged'
<1> USE DEF CacheInv
<1>1. /\ data' = d /\ type' = type /\ pc' = pc
      /\ at' = [c \in Caller |->
                  [at[c] EXCEPT !.current = @ /\ at[c].key \notin ks]]
      /\ seen' = [c \in Caller |->
                    \/ seen[c]
                    \/ pc[c] # "idle" /\ Held(d[at[c].key]) = at[c].item.value]
  BY DEF Becomes, Witness
<1>2. ASSUME NEW c \in Caller
      PROVE  /\ at'[c] \in Pointer
             /\ at'[c].key = at[c].key /\ at'[c].item = at[c].item
             /\ at'[c].current => at[c].current /\ at[c].key \notin ks
  <2>1. at'[c] = [at[c] EXCEPT !.current = at[c].current
                                           /\ at[c].key \notin ks]
    BY <1>1
  <2>2. PICK b \in BOOLEAN : b = (at[c].current /\ at[c].key \notin ks)
    OBVIOUS
  <2>3. at'[c] = [at[c] EXCEPT !.current = b]
    BY <2>1, <2>2
  <2>4. at'[c] \in Pointer /\ at'[c].key = at[c].key
        /\ at'[c].item = at[c].item /\ at'[c].current = b
    BY <2>3, ReaderTypes DEF Pointer
  <2> QED
    BY <2>2, <2>4
<1>3. at' \in [Caller -> Pointer]
  BY <1>1, <1>2
<1>4. seen' \in [Caller -> BOOLEAN] /\ \A c \in Caller : seen[c] => seen'[c]
  BY <1>1 DEF TypeOK
<1>5. Pointing'
  BY <1>1, <1>2, ReaderTypes DEF Pointing
<1>6. Judged'
  BY <1>1, <1>2, <1>4 DEF Judged
<1> QED
  BY <1>1, <1>3, <1>4, <1>5, <1>6 DEF TypeOK

\* The state after such a step, when the lock is as it was.
LEMMA BecomesKeeps ==
  ASSUME CacheInv, NEW d \in [Key -> Cell], NEW ks \in SUBSET Key,
         \A j \in Key \ ks : d[j] = data[j], Becomes(d, ks),
         UNCHANGED Lock, closed' \in BOOLEAN,
         \/ d[LockKey] = data[LockKey]
         \/ ~ Live(LockKey)
  PROVE  CacheInv'
<1> USE DEF CacheInv
<1>1. /\ type' \in Types /\ data' \in [Key -> Cell]
      /\ pc' \in [Caller -> {"idle", "checking", "deleting"}]
      /\ at' \in [Caller -> Pointer] /\ seen' \in [Caller -> BOOLEAN]
      /\ Pointing' /\ Judged'
  BY BecomesReads
<1>2. data' = d /\ holds' = holds /\ robbed' = robbed
  BY DEF Becomes, Lock
<1>3. TypeOK'
  BY <1>1, <1>2 DEF TypeOK, Cell, Pointer
<1>4. LockBacked'
  <2>1. CASE d[LockKey] = data[LockKey]
    BY <1>2, <2>1 DEF LockBacked
  <2>2. CASE ~ Live(LockKey)
    <3>1. data[LockKey].left = 0
      BY <2>2 DEF Live, isExpired
    <3>2. \A c \in Caller : holds[c] \in Nat
      BY Numbers DEF TypeOK
    <3> QED
      BY <1>2, <3>1, <3>2 DEF LockBacked
  <2> QED
    BY <2>1, <2>2
<1> QED
  BY <1>1, <1>3, <1>4

LEMMA PutKeeps ==
  ASSUME CacheInv, NEW k \in Key, NEW i \in Cell, Put(k, i),
         UNCHANGED Lock, closed' \in BOOLEAN, k # LockKey
  PROVE  CacheInv'
<1> DEFINE d == [data EXCEPT ![k] = i]
<1>1. d \in [Key -> Cell] /\ \A j \in Key \ {k} : d[j] = data[j]
  BY DEF CacheInv, TypeOK, Cell
<1>2. Becomes(d, {k})
  BY DEF Put
<1>3. d[LockKey] = data[LockKey]
  BY <1>1, Numbers
<1> HIDE DEF d
<1> QED
  BY <1>1, <1>2, <1>3, BecomesKeeps

-----------------------------------------------------------------------------
(* The steps of the cache *)

LEMMA InitCache ==
  ASSUME CacheInit
  PROVE  CacheInv
<1>1. /\ type \in Types /\ closed \in BOOLEAN /\ robbed \in BOOLEAN
      /\ pc = [c \in Caller |-> "idle"] /\ at = [c \in Caller |-> NoRead]
      /\ seen = [c \in Caller |-> FALSE] /\ holds = [c \in Caller |-> 0]
      /\ data = [k \in Key |-> None]
  BY DEF CacheInit, NewMemoryCache
<1>2. NoRead \in Pointer /\ NoRead.current = FALSE
  BY Numbers, Cells DEF NoRead, Pointer
<1>3. TypeOK
  BY <1>1, <1>2, Numbers, Cells DEF TypeOK, Pointer, Cell
<1>4. LockBacked /\ Pointing /\ Judged
  BY <1>1, <1>2 DEF LockBacked, Pointing, Judged
<1> QED
  BY <1>3, <1>4 DEF CacheInv

LEMMA GetStep ==
  ASSUME CacheInv, NEW c \in Caller, NEW k \in Key, Get(c, k)
  PROVE  CacheInv'
<1> USE DEF CacheInv
<1> DEFINE p == [key |-> k, item |-> data[k], current |-> TRUE]
<1>1. /\ type = "memory" /\ data[k] # None
      /\ pc' = [pc EXCEPT ![c] = "checking"] /\ at' = [at EXCEPT ![c] = p]
      /\ UNCHANGED <<type, data, closed, holds, robbed>>
  BY DEF Get, Lock
<1>2. /\ seen' \in [Caller -> BOOLEAN] /\ (seen'[c] <=> Live(k))
      /\ \A d \in Caller \ {c} : seen'[d] = seen[d]
  <2>1. seen' = [seen EXCEPT ![c] = Live(k)]
    BY DEF Get
  <2>2. PICK b \in BOOLEAN : b = Live(k)
    BY DEF Live, isExpired
  <2>3. seen' = [seen EXCEPT ![c] = b]
    BY <2>1, <2>2, Zenon
  <2>4. /\ seen' \in [Caller -> BOOLEAN] /\ seen'[c] = b
        /\ \A d \in Caller \ {c} : seen'[d] = seen[d]
    BY <2>3 DEF TypeOK
  <2> QED
    BY <2>2, <2>4, Zenon
<1>3. p \in Pointer /\ p.key = k /\ p.item = data[k] /\ p.current = TRUE
  BY DEF Pointer, TypeOK, Cell
<1> HIDE DEF p
<1>4. TypeOK'
  BY <1>1, <1>2, <1>3 DEF TypeOK, Pointer, Cell
<1>5. LockBacked'
  BY <1>1 DEF LockBacked
<1>6. Pointing'
  BY <1>1, <1>3 DEF Pointing, TypeOK
<1>7. Judged'
  <2>1. ~ isExpired(data[k]) => seen'[c]
    BY <1>2 DEF Live
  <2> QED
    BY <1>1, <1>2, <1>3, <2>1 DEF Judged, TypeOK
<1> QED
  BY <1>4, <1>5, <1>6, <1>7

LEMMA CheckStep ==
  ASSUME CacheInv, NEW c \in Caller, Check(c)
  PROVE  CacheInv'
<1> USE DEF CacheInv
<1>1. /\ pc[c] = "checking"
      /\ UNCHANGED <<type, data, closed, holds, robbed>>
  BY DEF Check, Lock
<1>2. NoRead \in Pointer /\ NoRead.current = FALSE
  BY Numbers, Cells DEF NoRead, Pointer
<1>3. \/ pc' = [pc EXCEPT ![c] = "deleting"] /\ at' = at /\ seen' = seen
      \/ /\ pc' = [pc EXCEPT ![c] = "idle"]
         /\ at' = [at EXCEPT ![c] = NoRead]
         /\ seen' = [seen EXCEPT ![c] = FALSE]
  BY DEF Check, Done
<1>4. TypeOK'
  <2>1. at \in [Caller -> Pointer]
    BY DEF TypeOK, Pointer, Cell
  <2>2. at' \in [Caller -> Pointer]
    BY <1>2, <1>3, <2>1
  <2>3. /\ pc' \in [Caller -> {"idle", "checking", "deleting"}]
        /\ seen' \in [Caller -> BOOLEAN]
    BY <1>3 DEF TypeOK
  <2> QED
    BY <1>1, <2>2, <2>3 DEF TypeOK, Pointer, Cell
<1>5. LockBacked'
  BY <1>1 DEF LockBacked
<1>6. Pointing'
  BY <1>1, <1>2, <1>3 DEF Pointing, TypeOK
<1>7. Judged'
  BY <1>1, <1>3 DEF Judged, TypeOK
<1> QED
  BY <1>4, <1>5, <1>6, <1>7

\* The key is deleted, whatever it has by now: a live lock is robbed.
LEMMA DeleteStep ==
  ASSUME CacheInv, NEW c \in Caller, DeleteExpired(c)
  PROVE  CacheInv'
<1> USE DEF CacheInv
<1> DEFINE key == at[c].key
<1>1. key \in Key
  BY ReaderTypes
<1>2. /\ data' = [data EXCEPT ![key] = None]
      /\ pc' = [pc EXCEPT ![c] = "idle"] /\ seen' = [seen EXCEPT ![c] = FALSE]
      /\ at' = [d \in Caller |->
                  IF d = c THEN NoRead
                  ELSE [at[d] EXCEPT !.current = @ /\ at[d].key # key]]
      /\ UNCHANGED <<type, closed, holds>>
  BY DEF DeleteExpired
<1>3. /\ robbed' \in BOOLEAN
      /\ robbed => robbed'
      /\ key = LockKey /\ Live(LockKey) => robbed'
  BY DEF DeleteExpired, TypeOK
<1>4. NoRead \in Pointer /\ NoRead.current = FALSE
  BY Numbers, Cells DEF NoRead, Pointer
<1> HIDE DEF key
<1>5. ASSUME NEW d \in Caller, d # c
      PROVE  /\ at'[d] \in Pointer
             /\ at'[d].key = at[d].key /\ at'[d].item = at[d].item
             /\ at'[d].current => at[d].current /\ at[d].key # key
  <2>1. PICK b \in BOOLEAN : b = (at[d].current /\ at[d].key # key)
    OBVIOUS
  <2>2. at'[d] = [at[d] EXCEPT !.current = b]
    BY <1>2, <1>5, <2>1
  <2>3. at'[d] \in Pointer /\ at'[d].key = at[d].key
        /\ at'[d].item = at[d].item /\ at'[d].current = b
    BY <2>2, ReaderTypes DEF Pointer
  <2> QED
    BY <2>1, <2>3
<1>6. at'[c] = NoRead
  BY <1>2
<1>7. data' \in [Key -> Cell] /\ \A j \in Key \ {key} : data'[j] = data[j]
  BY <1>1, <1>2, Cells DEF TypeOK, Cell
<1>8. TypeOK'
  <2>1. at' \in [Caller -> Pointer]
    BY <1>2, <1>4, <1>5, <1>6
  <2> QED
    BY <1>2, <1>3, <1>7, <2>1 DEF TypeOK, Pointer, Cell
<1>9. LockBacked'
  <2>1. CASE key # LockKey \/ robbed'
    BY <1>2, <1>3, <1>7, <2>1, Numbers DEF LockBacked
  <2>2. CASE ~ Live(LockKey)
    <3>1. data[LockKey].left = 0
      BY <2>2 DEF Live, isExpired
    <3>2. \A d \in Caller : holds[d] \in Nat
      BY Numbers DEF TypeOK
    <3> QED
      BY <1>2, <1>3, <3>1, <3>2 DEF LockBacked
  <2> QED
    BY <1>3, <2>1, <2>2
<1>10. Pointing'
  <2>1. ASSUME NEW d \in Caller, at'[d].current
        PROVE  /\ type' = "memory" /\ data'[at'[d].key] # None
               /\ at'[d].item = data'[at'[d].key]
    <3>1. d # c
      BY <1>4, <1>6, <2>1
    <3>2. at'[d].key = at[d].key /\ at'[d].item = at[d].item
          /\ at[d].current /\ at[d].key # key
      BY <1>5, <2>1, <3>1
    <3>3. data'[at[d].key] = data[at[d].key]
      BY <1>7, <3>2, ReaderTypes
    <3> QED
      BY <1>2, <3>2, <3>3 DEF Pointing
  <2> QED
    BY <2>1 DEF Pointing
<1>11. Judged'
  <2>1. pc'[c] = "idle" /\ \A d \in Caller \ {c} : pc'[d] = pc[d]
                                                /\ seen'[d] = seen[d]
    BY <1>2 DEF TypeOK
  <2> QED
    BY <1>5, <2>1 DEF Judged
<1> QED
  BY <1>8, <1>9, <1>10, <1>11

\* A full map loses an item: the lock too, when nothing in it has expired.
LEMMA SetStep ==
  ASSUME CacheInv, NEW k \in Writable, NEW v \in Value, NEW ttl \in TTLs,
         Set(k, v, ttl)
  PROVE  CacheInv'
<1> USE DEF CacheInv
<1>1. /\ k \in Key /\ k # LockKey
      /\ ttl \in (0 .. MaxTTL) \cup {Forever}
      /\ closed' = closed /\ holds' = holds
  BY Numbers DEF Writable, TTLs, Set
<1>2. New(v, ttl) \in Cell
  BY <1>1, Cells DEF Cell
<1>3. CASE RedisSet(k, v, ttl)
  <2>1. Put(k, New(v, ttl)) /\ UNCHANGED Lock
    BY <1>1, <1>3 DEF RedisSet, Lock
  <2>2. closed' \in BOOLEAN
    BY <1>1 DEF TypeOK
  <2> QED
    BY <1>1, <1>2, <2>1, <2>2, PutKeeps
<1>4. CASE MemorySet(k, v, ttl)
  <2>1. PICK d \in IF Cardinality(Stored) >= MaxSize THEN evictOne ELSE {data} :
          /\ Becomes([d EXCEPT ![k] = New(v, ttl)],
                     {k} \cup {j \in Key : d[j] # data[j]})
          /\ robbed' = (robbed \/ (Live(LockKey) /\ d[LockKey] = None))
    BY <1>4 DEF MemorySet
  <2>2. d \in [Key -> Cell] /\ \A j \in Key : d[j] \in {data[j], None}
    <3>1. data \in [Key -> Cell]
      BY DEF TypeOK, Cell
    <3>2. CASE d = data
      BY <3>1, <3>2
    <3>3. CASE d \in evictOne
      <4>1. PICK j \in Key : d = [data EXCEPT ![j] = None]
        BY <3>3 DEF evictOne, Stored
      <4> QED
        BY <3>1, <4>1, Cells
    <3> QED
      BY <2>1, <3>2, <3>3
  <2> DEFINE e == [d EXCEPT ![k] = New(v, ttl)]
             ks == {k} \cup {j \in Key : d[j] # data[j]}
  <2>3. /\ e \in [Key -> Cell] /\ e[LockKey] = d[LockKey]
        /\ \A j \in Key \ ks : e[j] = data[j]
    BY <1>1, <1>2, <2>2, Numbers
  <2>4. ks \in SUBSET Key /\ Becomes(e, ks)
    BY <1>1, <2>1
  <2> HIDE DEF e, ks
  <2>5. /\ type' \in Types /\ data' \in [Key -> Cell]
        /\ pc' \in [Caller -> {"idle", "checking", "deleting"}]
        /\ at' \in [Caller -> Pointer] /\ seen' \in [Caller -> BOOLEAN]
        /\ Pointing' /\ Judged'
    BY <2>3, <2>4, BecomesReads
  <2>6. robbed' \in BOOLEAN
    BY <2>1 DEF TypeOK
  <2>7. TypeOK'
    BY <1>1, <2>5, <2>6 DEF TypeOK, Pointer, Cell
  <2>8. data'[LockKey] = d[LockKey]
    BY <2>3, <2>4 DEF Becomes
  <2>9. LockBacked'
    <3>1. CASE d[LockKey] = data[LockKey]
      BY <1>1, <2>1, <2>8, <3>1 DEF LockBacked
    <3>2. CASE d[LockKey] = None /\ Live(LockKey)
      BY <2>1, <3>2 DEF LockBacked
    <3>3. CASE ~ Live(LockKey)
      <4>1. data[LockKey].left = 0
        BY <3>3 DEF Live, isExpired
      <4>2. \A c \in Caller : holds[c] \in Nat
        BY Numbers DEF TypeOK
      <4>3. robbed => robbed'
        BY <2>1
      <4>4. \A c \in Caller : ~ (holds[c] > 0 /\ ~ robbed)
        BY <4>1, <4>2 DEF LockBacked
      <4> QED
        BY <1>1, <4>3, <4>4 DEF LockBacked
    <3> QED
      BY <2>2, <3>1, <3>2, <3>3, Numbers
  <2> QED
    BY <2>5, <2>7, <2>9
<1> QED
  BY <1>3, <1>4 DEF Set

LEMMA MSetStep ==
  ASSUME CacheInv, NEW v \in Value, NEW ttl \in TTLs, MSet(v, ttl)
  PROVE  CacheInv'
<1>1. PICK stored \in SUBSET Writable :
        Becomes([k \in Key |-> IF k \in stored THEN New(v, ttl) ELSE data[k]],
                stored)
  BY DEF MSet
<1> DEFINE d == [k \in Key |-> IF k \in stored THEN New(v, ttl) ELSE data[k]]
<1>2. ttl \in (0 .. MaxTTL) \cup {Forever}
  BY Numbers DEF TTLs
<1>3. New(v, ttl) \in Cell
  BY <1>2, Cells DEF Cell
<1>4. /\ d \in [Key -> Cell] /\ \A j \in Key \ stored : d[j] = data[j]
      /\ d[LockKey] = data[LockKey]
  BY <1>3, Numbers DEF CacheInv, TypeOK, Cell, Writable
<1>5. stored \in SUBSET Key /\ UNCHANGED Lock /\ closed' \in BOOLEAN
  BY DEF MSet, Writable, CacheInv, TypeOK
<1> HIDE DEF d
<1>6. Becomes(d, stored)
  BY <1>1 DEF d
<1> QED
  BY <1>4, <1>5, <1>6, BecomesKeeps

LEMMA DelStep ==
  ASSUME CacheInv, NEW k \in Writable, Del(k)
  PROVE  CacheInv'
<1>1. k \in Key /\ k # LockKey /\ None \in Cell
  BY Cells DEF Writable
<1>2. Put(k, None) /\ UNCHANGED Lock /\ closed' \in BOOLEAN
  BY DEF Del, CacheInv, TypeOK
<1> QED
  BY <1>1, <1>2, PutKeeps

\* A counter's value is a number, whatever was there.
LEMMA Sums ==
  ASSUME TypeOK, NEW k \in Key, NEW n \in Int, IsCounter(k)
  PROVE  NewCount(k, n) \in 0 .. MaxValue /\ NewCount(k, n) \in Value
<1>1. data[k] \in Cell
  BY DEF TypeOK, Cell
<1>2. Live(k) => data[k].value \in 0 .. MaxValue
  <2>1. Live(k) => Held(data[k]) = data[k].value /\ data[k].value # Absent
    BY <1>1, Cells DEF Live, Held
  <2> QED
    BY <2>1 DEF IsCounter
<1>3. PICK b \in Int : b = IF Live(k) THEN data[k].value ELSE 0
  BY <1>2, Numbers
<1>4. NewCount(k, n) \in 0 .. MaxValue
  BY <1>3, Numbers DEF NewCount
<1> QED
  BY <1>4 DEF Value

LEMMA IncrementStep ==
  ASSUME CacheInv, NEW k \in Writable, NEW n \in Int, IncrementBy(k, n)
  PROVE  CacheInv'
<1>1. k \in Key /\ k # LockKey
  BY DEF Writable
<1>2. UNCHANGED Lock /\ closed' \in BOOLEAN
  BY DEF IncrementBy, CacheInv, TypeOK
<1>3. PICK i \in Cell : Put(k, i)
  <2>1. CASE MemoryIncrementBy(k, n)
    <3>1. New(NewCount(k, n), Forever) \in Cell
      BY <1>1, <2>1, Sums, Cells DEF MemoryIncrementBy, CacheInv, Cell
    <3> QED
      BY <2>1, <3>1 DEF MemoryIncrementBy
  <2>2. CASE RedisIncrementBy(k, n)
    <3>1. PICK times \in {1, 2} :
            Put(k, New(NewCount(k, n * times),
                       IF Live(k) THEN data[k].left ELSE Forever))
      BY <2>2 DEF RedisIncrementBy
    <3>2. n * times \in Int
      OBVIOUS
    <3>3. NewCount(k, n * times) \in Value
      BY <1>1, <2>2, <3>2, Sums DEF RedisIncrementBy, CacheInv
    <3>4. data[k].left \in (0 .. MaxTTL) \cup {Forever}
      BY <1>1, Cells DEF CacheInv, TypeOK, Cell
    <3>5. New(NewCount(k, n * times), IF Live(k) THEN data[k].left ELSE Forever)
            \in Cell
      BY <3>3, <3>4, Cells DEF Cell
    <3> QED
      BY <3>1, <3>5
  <2> QED
    BY <2>1, <2>2 DEF IncrementBy
<1> QED
  BY <1>1, <1>2, <1>3, PutKeeps

\* In place: whoever points to the item sees its new expiry, and has seen the
\* key have it.
LEMMA ExpireStep ==
  ASSUME CacheInv, NEW k \in Writable, NEW ttl \in TTLs \cup (1 .. MaxTTL),
         Expire(k, ttl)
  PROVE  CacheInv'
<1> USE DEF CacheInv
<1>1. /\ k \in Key /\ k # LockKey
      /\ ttl \in (0 .. MaxTTL) \cup {Forever} /\ ttl # 0
      /\ UNCHANGED <<holds, robbed>> /\ closed' = closed
  BY Numbers DEF Writable, TTLs, Forever, Expire, Lock
<1>2. CASE RedisExpire(k, ttl)
  <2>1. data[k] \in Item
    BY <1>1, <1>2, Cells DEF RedisExpire, Live, TypeOK, Cell
  <2>2. New(data[k].value, ttl) \in Cell
    BY <1>1, <2>1, Cells DEF Cell
  <2>3. UNCHANGED Lock /\ closed' \in BOOLEAN
    BY <1>1 DEF Lock, TypeOK
  <2>4. PICK i \in {None, New(data[k].value, ttl)} : Put(k, i)
    BY <1>2 DEF RedisExpire
  <2>5. i \in Cell
    BY <2>2, Cells
  <2> QED
    BY <1>1, <2>3, <2>4, <2>5, PutKeeps
<1>3. CASE MemoryExpire(k, ttl)
  <2>1. /\ type = "memory" /\ type' = type /\ pc' = pc /\ data[k] # None
        /\ data' = [data EXCEPT ![k].left = ttl]
        /\ at' = [c \in Caller |-> IF at[c].current /\ at[c].key = k
                                   THEN [at[c] EXCEPT !.item.left = ttl]
                                   ELSE at[c]]
        /\ Witness(data')
    BY <1>3 DEF MemoryExpire
  <2>2. data[k] \in Item
    BY <1>1, <2>1, Cells DEF TypeOK, Cell
  <2> DEFINE new == [data[k] EXCEPT !.left = ttl]
  <2>3. new \in Item /\ new.value = data[k].value /\ new.left = ttl
        /\ new # None /\ ~ isExpired(new)
    BY <1>1, <2>2, Cells DEF isExpired
  <2>4. data' = [data EXCEPT ![k] = new]
    BY <2>1 DEF TypeOK
  <2> HIDE DEF new
  <2>5. /\ data' \in [Key -> Cell] /\ data'[k] = new
        /\ \A j \in Key \ {k} : data'[j] = data[j]
    BY <1>1, <2>3, <2>4 DEF TypeOK, Cell
  <2>6. ASSUME NEW c \in Caller, at[c].current /\ at[c].key = k
        PROVE  /\ at'[c] \in Pointer /\ at'[c].key = k
               /\ at'[c].item = new /\ at'[c].current
               /\ pc[c] = "checking" => seen'[c]
    <3>1. at[c].item = data[k]
      BY <2>6 DEF Pointing
    <3>2. at'[c] = [at[c] EXCEPT !.item = [at[c].item EXCEPT !.left = ttl]]
      BY <2>1, <2>6
    <3>3. at'[c] = [at[c] EXCEPT !.item = new]
      BY <3>1, <3>2 DEF new
    <3>4. /\ at'[c] \in Pointer /\ at'[c].key = k
          /\ at'[c].item = new /\ at'[c].current
      BY <2>3, <2>6, <3>3, ReaderTypes DEF Pointer, Cell
    <3>5. Held(data'[k]) = at'[c].item.value /\ at'[c].item.value = new.value
      BY <2>3, <2>5, <3>4 DEF Held
    <3>6. at[c].item.value = new.value
      BY <2>3, <3>1
    <3>7. pc[c] = "checking" => seen'[c]
      BY <2>1, <2>6, <3>5, <3>6 DEF Witness
    <3> QED
      BY <3>4, <3>7
  <2>7. ASSUME NEW c \in Caller, ~ (at[c].current /\ at[c].key = k)
        PROVE  at'[c] = at[c]
    BY <2>1, <2>7
  <2>8. /\ seen' \in [Caller -> BOOLEAN]
        /\ \A c \in Caller : seen[c] => seen'[c]
    BY <2>1 DEF Witness, TypeOK
  <2>9. at' \in [Caller -> Pointer]
    <3>1. \A c \in Caller : at'[c] \in Pointer
      BY <2>6, <2>7, ReaderTypes
    <3> QED
      BY <2>1, <3>1
  <2>10. TypeOK'
    BY <1>1, <2>1, <2>5, <2>8, <2>9 DEF TypeOK, Pointer, Cell
  <2>11. LockBacked'
    BY <1>1, <2>5, Numbers DEF LockBacked
  <2>12. Pointing'
    <3>1. ASSUME NEW c \in Caller, at'[c].current
          PROVE  /\ data'[at'[c].key] # None
                 /\ at'[c].item = data'[at'[c].key]
      <4>1. CASE at[c].current /\ at[c].key = k
        BY <2>3, <2>5, <2>6, <4>1
      <4>2. CASE ~ (at[c].current /\ at[c].key = k)
        <5>1. at'[c] = at[c] /\ at[c].current /\ at[c].key \in Key \ {k}
          BY <2>7, <3>1, <4>2, ReaderTypes
        <5> QED
          BY <2>5, <5>1 DEF Pointing
      <4> QED
        BY <4>1, <4>2
    <3> QED
      BY <2>1, <3>1 DEF Pointing
  <2>13. Judged'
    <3>1. ASSUME NEW c \in Caller, pc[c] = "checking",
                 ~ isExpired(at'[c].item)
          PROVE  seen'[c]
      <4>1. CASE at[c].current /\ at[c].key = k
        BY <2>6, <3>1, <4>1
      <4>2. CASE ~ (at[c].current /\ at[c].key = k)
        BY <2>7, <2>8, <3>1, <4>2 DEF Judged
      <4> QED
        BY <4>1, <4>2
    <3> QED
      BY <2>1, <3>1 DEF Judged
  <2> QED
    BY <2>10, <2>11, <2>12, <2>13
<1> QED
  BY <1>2, <1>3 DEF Expire

\* The lock is taken when nobody has it live.
LEMMA TryLockStep ==
  ASSUME CacheInv, NEW c \in Caller, NEW ttl \in AskTTL, TryLock(c, ttl)
  PROVE  CacheInv'
<1> USE DEF CacheInv
<1> DEFINE d == [data EXCEPT ![LockKey] = New(c, ttl)]
<1>1. /\ ~ Live(LockKey) /\ Becomes(d, {LockKey})
      /\ closed' = closed /\ robbed' = robbed /\ holds[c] = 0
      /\ holds' = [holds EXCEPT ![c] = ttl] \/ holds' = holds
  BY DEF TryLock, SetNX, Put
<1>2. ttl \in 1 .. MaxTTL /\ ttl \in (0 .. MaxTTL) \cup {Forever}
      /\ c \in Value /\ MaxTTL \in Nat
  BY Numbers DEF Value
<1>3. New(c, ttl) \in Cell /\ New(c, ttl).value = c /\ New(c, ttl).left = ttl
  BY <1>2, Cells DEF Cell
<1>4. /\ d \in [Key -> Cell] /\ d[LockKey] = New(c, ttl)
      /\ \A j \in Key \ {LockKey} : d[j] = data[j]
  BY <1>3, Numbers DEF TypeOK, Cell
<1> HIDE DEF d
<1>5. /\ type' \in Types /\ data' \in [Key -> Cell]
      /\ pc' \in [Caller -> {"idle", "checking", "deleting"}]
      /\ at' \in [Caller -> Pointer] /\ seen' \in [Caller -> BOOLEAN]
      /\ Pointing' /\ Judged'
  <2>1. {LockKey} \in SUBSET Key
    BY Numbers
  <2> QED
    BY <1>1, <1>4, <2>1, BecomesReads
<1>6. holds' \in [Caller -> 0 .. MaxTTL]
  BY <1>1, <1>2 DEF TypeOK
<1>7. TypeOK'
  BY <1>1, <1>5, <1>6 DEF TypeOK, Pointer, Cell
<1>8. LockBacked'
  <2>1. data[LockKey].left = 0
    BY <1>1 DEF Live, isExpired
  <2>2. \A e \in Caller : holds[e] \in Nat
    BY Numbers DEF TypeOK
  <2>3. \A e \in Caller : ~ (holds[e] > 0 /\ ~ robbed)
    BY <2>1, <2>2 DEF LockBacked
  <2>4. data'[LockKey] = New(c, ttl)
    BY <1>1, <1>4 DEF Becomes
  <2>5. \A e \in Caller : e # c => holds'[e] = holds[e]
    BY <1>1 DEF TypeOK
  <2>6. holds'[c] > 0 => holds'[c] = ttl
    BY <1>1 DEF TypeOK
  <2> QED
    BY <1>1, <1>2, <1>3, <2>3, <2>4, <2>5, <2>6 DEF LockBacked
<1> QED
  BY <1>5, <1>7, <1>8

LEMMA UnlockStep ==
  ASSUME CacheInv, NEW c \in Caller, Unlock(c)
  PROVE  CacheInv'
<1> USE DEF CacheInv
<1> DEFINE d == [data EXCEPT ![LockKey] = None]
<1>1. /\ data[LockKey].value = c /\ Becomes(d, {LockKey})
      /\ closed' = closed /\ robbed' = robbed
      /\ holds' = [holds EXCEPT ![c] = 0]
  BY DEF Unlock, Put
<1>2. /\ d \in [Key -> Cell]
      /\ \A j \in Key \ {LockKey} : d[j] = data[j]
  BY Cells DEF TypeOK, Cell
<1> HIDE DEF d
<1>3. /\ type' \in Types /\ data' \in [Key -> Cell]
      /\ pc' \in [Caller -> {"idle", "checking", "deleting"}]
      /\ at' \in [Caller -> Pointer] /\ seen' \in [Caller -> BOOLEAN]
      /\ Pointing' /\ Judged'
  <2>1. {LockKey} \in SUBSET Key
    BY Numbers
  <2> QED
    BY <1>1, <1>2, <2>1, BecomesReads
<1>4. /\ holds' \in [Caller -> 0 .. MaxTTL] /\ holds'[c] = 0
      /\ \A e \in Caller \ {c} : holds'[e] = holds[e]
  BY <1>1, Numbers DEF TypeOK
<1>5. TypeOK'
  BY <1>1, <1>3, <1>4 DEF TypeOK, Pointer, Cell
<1>6. LockBacked'
  BY <1>1, <1>4 DEF LockBacked
<1> QED
  BY <1>3, <1>5, <1>6

LEMMA CleanupStep ==
  ASSUME CacheInv, cleanup
  PROVE  CacheInv'
<1> DEFINE d == [k \in Key |-> IF Live(k) THEN data[k] ELSE None]
           ks == {k \in Key : ~ Live(k)}
<1>1. Becomes(d, ks) /\ UNCHANGED Lock /\ closed' \in BOOLEAN
  BY DEF cleanup, CacheInv, TypeOK
<1>2. /\ d \in [Key -> Cell] /\ \A j \in Key \ ks : d[j] = data[j]
      /\ ks \in SUBSET Key
      /\ d[LockKey] = data[LockKey] \/ ~ Live(LockKey)
  BY Cells, Numbers DEF CacheInv, TypeOK, Cell
<1> HIDE DEF d, ks
<1> QED
  BY <1>1, <1>2, BecomesKeeps

LEMMA StillStep ==
  ASSUME CacheInv,
         UNCHANGED <<type, data, pc, at, seen, holds, robbed>>,
         closed' \in BOOLEAN
  PROVE  CacheInv'
<1>1. TypeOK'
  BY DEF CacheInv, TypeOK
<1>2. LockBacked' /\ Pointing' /\ Judged'
  BY DEF CacheInv, LockBacked, Pointing, Judged
<1> QED
  BY <1>1, <1>2 DEF CacheInv

\* A tick makes the items, the pointers to them and the holders older.
LEMMA ElapseStep ==
  ASSUME CacheInv, Elapse
  PROVE  CacheInv'
<1> USE DEF CacheInv
<1>1. /\ type' = type /\ closed' = closed /\ pc' = pc /\ robbed' = robbed
      /\ data' = [k \in Key |->
                    IF type = "redis" /\ isExpired(Older(data[k])) THEN None
                    ELSE Older(data[k])]
      /\ at' = [c \in Caller |-> [at[c] EXCEPT !.item = Older(@)]]
      /\ holds' = [c \in Caller |-> IF holds[c] > 0 THEN holds[c] - 1 ELSE 0]
      /\ Witness(data')
  BY DEF Elapse
<1>2. ASSUME NEW k \in Key
      PROVE  /\ data[k] \in Cell /\ data'[k] \in Cell
             /\ data'[k] = Older(data[k])
                \/ (type = "redis" /\ data'[k] = None
                    /\ isExpired(Older(data[k])))
             /\ type = "memory" => data'[k] = Older(data[k])
  <2>1. data[k] \in Cell
    BY DEF TypeOK, Cell
  <2>2. Older(data[k]) \in Cell /\ None \in Cell
    BY <2>1, Aging, Cells
  <2> QED
    BY <1>1, <2>1, <2>2
<1>3. ASSUME NEW c \in Caller
      PROVE  /\ at'[c] \in Pointer /\ at'[c].key = at[c].key
             /\ at'[c].item = Older(at[c].item)
             /\ at'[c].current = at[c].current
  <2>1. at'[c] = [at[c] EXCEPT !.item = Older(at[c].item)]
    BY <1>1
  <2>2. at[c] \in Pointer /\ Older(at[c].item) \in Cell
    BY ReaderTypes, Aging
  <2> QED
    BY <2>1, <2>2 DEF Pointer
<1>4. /\ seen' \in [Caller -> BOOLEAN]
      /\ \A c \in Caller : seen[c] => seen'[c]
  BY <1>1 DEF Witness, TypeOK
<1>5. ASSUME NEW c \in Caller
      PROVE  /\ holds'[c] \in 0 .. MaxTTL
             /\ holds'[c] = IF holds[c] > 0 THEN holds[c] - 1 ELSE 0
  BY <1>1, Numbers DEF TypeOK
<1>6. TypeOK'
  <2>1. data' \in [Key -> Cell] /\ at' \in [Caller -> Pointer]
        /\ holds' \in [Caller -> 0 .. MaxTTL]
    BY <1>1, <1>2, <1>3, <1>5
  <2> QED
    BY <1>1, <1>4, <2>1 DEF TypeOK, Pointer, Cell
<1>7. LockBacked'
  <2> SUFFICES ASSUME NEW c \in Caller, holds'[c] > 0, ~ robbed
               PROVE  /\ data'[LockKey].value = c
                      /\ data'[LockKey].left >= holds'[c]
    BY <1>1 DEF LockBacked
  <2>1. /\ holds[c] \in Nat /\ holds[c] > 1 /\ holds'[c] = holds[c] - 1
    BY <1>5, Numbers DEF TypeOK
  <2>2. /\ data[LockKey].value = c /\ data[LockKey].left >= holds[c]
        /\ data[LockKey] \in Cell
        /\ data[LockKey].left \in (0 .. MaxTTL) \cup {Forever}
    BY <2>1, <1>2, Numbers, Cells DEF LockBacked
  <2>3. /\ Older(data[LockKey]).value = c
        /\ Older(data[LockKey]).left = data[LockKey].left - 1
        /\ data[LockKey].left - 1 >= holds'[c]
    BY <2>1, <2>2, Aging, Numbers DEF Forever
  <2>4. data'[LockKey] = Older(data[LockKey])
    BY <1>2, <2>1, <2>2, <2>3, Numbers DEF isExpired, Forever
  <2> QED
    BY <2>3, <2>4
<1>8. Pointing'
  <2> SUFFICES ASSUME NEW c \in Caller, at'[c].current
               PROVE  /\ type' = "memory" /\ data'[at'[c].key] # None
                      /\ at'[c].item = data'[at'[c].key]
    BY DEF Pointing
  <2>1. /\ type = "memory" /\ data[at[c].key] # None /\ at[c].key \in Key
        /\ at[c].item = data[at[c].key]
    BY <1>3, ReaderTypes DEF Pointing
  <2>2. data'[at[c].key] = Older(data[at[c].key])
    BY <1>2, <2>1
  <2>3. Older(data[at[c].key]) # None
    BY <1>2, <2>1, Aging
  <2> QED
    BY <1>1, <1>3, <2>1, <2>2, <2>3
<1>9. Judged'
  <2> SUFFICES ASSUME NEW c \in Caller, pc[c] = "checking",
                      ~ isExpired(at'[c].item)
               PROVE  seen'[c]
    BY <1>1 DEF Judged
  <2>1. ~ isExpired(at[c].item)
    BY <1>3, ReaderTypes, Aging
  <2> QED
    BY <1>4, <2>1 DEF Judged
<1> QED
  BY <1>6, <1>7, <1>8, <1>9

\* Whatever callers do with a cache of their own.
LEMMA CacheStep ==
  ASSUME CacheInv, CacheNext
  PROVE  CacheInv'
<1>1. ASSUME NEW c \in Caller, NEW k \in Key, Get(c, k)
      PROVE  CacheInv'
  BY <1>1, GetStep
<1>2. ASSUME NEW c \in Caller, NEW ttl \in AskTTL,
             Check(c) \/ DeleteExpired(c) \/ Unlock(c) \/ TryLock(c, ttl)
      PROVE  CacheInv'
  BY <1>2, CheckStep, DeleteStep, UnlockStep, TryLockStep
<1>3. ASSUME NEW c \in Caller, Check(c) \/ DeleteExpired(c) \/ Unlock(c)
      PROVE  CacheInv'
  BY <1>3, CheckStep, DeleteStep, UnlockStep
<1>4. ASSUME NEW k \in Writable, NEW ttl \in TTLs,
             Set(k, Text, ttl) \/ Expire(k, ttl)
      PROVE  CacheInv'
  <2>1. Text \in Value
    BY DEF Value
  <2> QED
    BY <1>4, <2>1, SetStep, ExpireStep
<1>5. ASSUME NEW k \in Writable, Del(k) \/ Increment(k) \/ Decrement(k)
      PROVE  CacheInv'
  BY <1>5, DelStep, IncrementStep DEF Increment, Decrement
<1>6. ASSUME NEW ttl \in TTLs, MSet(0, ttl)
      PROVE  CacheInv'
  <2>1. 0 \in Value
    BY Numbers DEF Value
  <2> QED
    BY <1>6, <2>1, MSetStep
<1>7. CASE Close
  <2>1. UNCHANGED <<type, data, pc, at, seen, holds, robbed>>
        /\ closed' \in BOOLEAN
    BY <1>7 DEF Close, reading, Lock
  <2> QED
    BY <2>1, StillStep
<1> QED
  BY <1>1, <1>2, <1>3, <1>4, <1>5, <1>6, <1>7, CleanupStep, ElapseStep
     DEF CacheNext

-----------------------------------------------------------------------------
(* The steps of the limiters *)

Steps == {"idle", "trying", "dating", "denied", "sleeping", "dead"}

Asking == want \in [Caller -> 1 .. 2] /\ step \in [Caller -> Steps]

LimitInv == CacheInv /\ Asking /\ OrphanCause

LEMMA CounterFacts ==
  /\ Counter \in Key /\ Counter # LockKey /\ Counter \in Writable
  /\ Window \in 1 .. MaxTTL /\ Forever = -1
BY RateLimitAssumption DEF Writable, Forever

\* A step that leaves the counter and who sets its expiry alone.
LEMMA OrphanKept ==
  ASSUME LimitInv, kind' = kind, type' = type,
         data'[Counter].left = Forever => data[Counter].left = Forever,
         undated => undated',
         \A c \in Caller : step[c] = "dating" => step'[c] = "dating"
  PROVE  OrphanCause'
BY DEF LimitInv, OrphanCause, Orphan

\* A step of a request that is no call to the cache.
LEMMA RequestStep ==
  ASSUME LimitInv, NEW c \in Caller, step[c] # "dating",
         UNCHANGED <<cacheVars, kind, undated>>,
         \E s \in Steps : step' = [step EXCEPT ![c] = s],
         want' \in [Caller -> 1 .. 2]
  PROVE  LimitInv'
<1>1. CacheInv'
  <2>1. UNCHANGED <<type, data, pc, at, seen, holds, robbed>>
        /\ closed' \in BOOLEAN
    BY DEF cacheVars, reading, Lock, LimitInv, CacheInv, TypeOK
  <2> QED
    BY <2>1, StillStep DEF LimitInv
<1>2. PICK s \in Steps : step' = [step EXCEPT ![c] = s]
  OBVIOUS
<1>3. Asking' /\ \A e \in Caller : e # c => step'[e] = step[e]
  BY <1>2 DEF LimitInv, Asking
<1>4. OrphanCause'
  <2>1. \A e \in Caller : step[e] = "dating" => step'[e] = "dating"
    BY <1>3
  <2>2. data' = data /\ type' = type
    BY DEF cacheVars
  <2> QED
    BY <2>1, <2>2, OrphanKept
<1> QED
  BY <1>1, <1>3, <1>4 DEF LimitInv

\* What a limiter answers moves the request on.
LEMMA AnsweredStep ==
  ASSUME NEW c \in Caller, NEW ok, Answered(c, ok)
  PROVE  \E s \in {"denied", "idle"} : step' = [step EXCEPT ![c] = s]
<1>1. PICK s \in {"denied", "idle"} :
        s = IF ~ ok /\ waits[c] THEN "denied" ELSE "idle"
  OBVIOUS
<1>2. step' = [step EXCEPT ![c] = s]
  BY <1>1 DEF Answered
<1> QED
  BY <1>2

LEMMA LocalStep ==
  ASSUME LimitInv, NEW c \in Caller,
         TokenAllowN(c) \/ SlidingAllowN(c) \/ FixedAllowN(c)
  PROVE  LimitInv'
<1>1. step[c] = "trying" /\ UNCHANGED <<cacheVars, kind, want, undated>>
  BY DEF TokenAllowN, SlidingAllowN, FixedAllowN, Local
<1>2. PICK ok : Answered(c, ok)
  BY DEF TokenAllowN, SlidingAllowN, FixedAllowN
<1>3. \E s \in Steps : step' = [step EXCEPT ![c] = s]
  BY <1>2, AnsweredStep DEF Steps
<1>4. want' \in [Caller -> 1 .. 2]
  BY <1>1 DEF LimitInv, Asking
<1> QED
  BY <1>1, <1>3, <1>4, RequestStep

\* INCRBY of a counter that is there keeps its expiry.
LEMMA CountsOn ==
  ASSUME CacheInv, NEW n \in Int, RedisIncrementBy(Counter, n), Live(Counter)
  PROVE  data'[Counter].left = data[Counter].left
<1>1. PICK times \in {1, 2} :
        Put(Counter, New(NewCount(Counter, n * times), data[Counter].left))
  BY DEF RedisIncrementBy
<1>2. NewCount(Counter, n * times) \in Value
  <2>1. n * times \in Int
    OBVIOUS
  <2> QED
    BY <2>1, Sums, CounterFacts DEF RedisIncrementBy, CacheInv
<1>3. data[Counter].left \in (0 .. MaxTTL) \cup {Forever}
  BY CounterFacts, Cells DEF CacheInv, TypeOK, Cell
<1> DEFINE i == New(NewCount(Counter, n * times), data[Counter].left)
<1>4. i \in Item /\ i.left = data[Counter].left
  BY <1>2, <1>3, Cells
<1>5. data' = [data EXCEPT ![Counter] = i]
  BY <1>1 DEF Put, Becomes
<1> HIDE DEF i
<1> QED
  BY <1>4, <1>5, CounterFacts DEF CacheInv, TypeOK

\* IncrementBy: the first of a window goes on to set the expiry, and who is
\* not the first finds an expiry, or somebody who sets it, or a count sent
\* twice.
LEMMA AllowStep ==
  ASSUME LimitInv, NEW c \in Caller, AllowNWithKey(c)
  PROVE  LimitInv'
<1>1. /\ step[c] = "trying" /\ IncrementBy(Counter, want[c])
      /\ kind' = kind /\ want' = want /\ want[c] \in Int
  BY DEF AllowNWithKey, LimitInv, Asking
<1>2. CacheInv'
  BY <1>1, CounterFacts, IncrementStep DEF LimitInv
<1>3. \/ First(c) /\ step' = [step EXCEPT ![c] = "dating"] /\ undated' = undated
      \/ /\ ~ First(c)
         /\ \E s \in {"denied", "idle"} : step' = [step EXCEPT ![c] = s]
         /\ undated' = (undated \/ (~ Live(Counter)
                                    /\ data'[Counter].value # want[c]))
  <2>1. CASE First(c)
    BY <2>1 DEF AllowNWithKey
  <2>2. CASE ~ First(c)
    <3>1. PICK ok : Answered(c, ok)
      BY <2>2 DEF AllowNWithKey
    <3>2. \E s \in {"denied", "idle"} : step' = [step EXCEPT ![c] = s]
      BY <3>1, AnsweredStep
    <3> QED
      BY <2>2, <3>2 DEF AllowNWithKey
  <2> QED
    BY <2>1, <2>2
<1>4. PICK s \in {"dating", "denied", "idle"} :
        /\ step' = [step EXCEPT ![c] = s]
        /\ First(c) => s = "dating"
  BY <1>3
<1>5. Asking' /\ step'[c] = s /\ \A e \in Caller : e # c => step'[e] = step[e]
  BY <1>1, <1>4 DEF LimitInv, Asking, Steps
<1>6. OrphanCause'
  <2> SUFFICES ASSUME Orphan', type' = "redis"
               PROVE  undated'
    BY DEF OrphanCause
  <2>1. ~ First(c)
    BY <1>4, <1>5 DEF Orphan
  <2>2. data'[Counter].value # want[c]
    BY <2>1 DEF First
  <2>3. type = "redis" /\ RedisIncrementBy(Counter, want[c])
    BY <1>1 DEF IncrementBy, MemoryIncrementBy, RedisIncrementBy, Put, Becomes
  <2>4. CASE ~ Live(Counter)
    BY <1>3, <2>1, <2>2, <2>4
  <2>5. CASE Live(Counter)
    <3>2. data[Counter].left = Forever
      BY <1>1, <2>3, <2>5, CountsOn DEF Orphan, LimitInv
    <3>3. \A e \in Caller : step[e] # "dating"
      BY <1>1, <1>5 DEF Orphan
    <3>4. undated
      BY <1>1, <2>3, <3>2, <3>3 DEF LimitInv, OrphanCause, Orphan
    <3> QED
      BY <1>3, <2>1, <3>4
  <2> QED
    BY <2>4, <2>5
<1> QED
  BY <1>2, <1>5, <1>6 DEF LimitInv

\* IncrementBy with an error: whoever made the counter does not set its expiry.
LEMMA FailStep ==
  ASSUME LimitInv, NEW c \in Caller, FailOpen(c)
  PROVE  LimitInv'
<1>1. /\ step[c] = "trying" /\ step' = [step EXCEPT ![c] = "idle"]
      /\ kind' = kind /\ want' = want /\ want[c] \in Int /\ type = "redis"
  BY DEF FailOpen, LimitInv, Asking
<1>2. Asking' /\ \A e \in Caller : step'[e] = "dating" <=> step[e] = "dating"
  BY <1>1 DEF LimitInv, Asking, Steps
<1>3. CASE UNCHANGED <<cacheVars, undated>>
  <2>1. /\ want' \in [Caller -> 1 .. 2]
        /\ \E s \in Steps : step' = [step EXCEPT ![c] = s]
    BY <1>1 DEF LimitInv, Asking, Steps
  <2> QED
    BY <1>1, <1>3, <2>1, RequestStep
<1>4. CASE /\ IncrementBy(Counter, want[c])
           /\ undated' = (undated \/ ~ Live(Counter))
  <2>1. CacheInv'
    BY <1>1, <1>4, CounterFacts, IncrementStep DEF LimitInv
  <2>2. OrphanCause'
    <3> SUFFICES ASSUME Orphan', Live(Counter)
                 PROVE  undated
      BY <1>4 DEF OrphanCause
    <3>1. RedisIncrementBy(Counter, want[c])
      BY <1>1, <1>4 DEF IncrementBy, MemoryIncrementBy
    <3>2. data[Counter].left = Forever
      BY <1>1, <3>1, CountsOn DEF Orphan, LimitInv
    <3> QED
      BY <1>1, <1>2, <3>2 DEF LimitInv, OrphanCause, Orphan
  <2> QED
    BY <1>2, <2>1, <2>2 DEF LimitInv
<1> QED
  BY <1>3, <1>4 DEF FailOpen

\* Expire, which comes about or not.
LEMMA DateStep ==
  ASSUME LimitInv, NEW c \in Caller, Date(c)
  PROVE  LimitInv'
<1>1. /\ step[c] = "dating" /\ kind' = kind /\ want' = want
      /\ \/ Expire(Counter, Window) /\ undated' = undated
         \/ undated' = TRUE /\ UNCHANGED cacheVars
  BY DEF Date
<1>2. CacheInv'
  <2>1. CASE Expire(Counter, Window)
    BY <2>1, CounterFacts, ExpireStep DEF LimitInv
  <2>2. CASE UNCHANGED cacheVars
    <3>1. UNCHANGED <<type, data, pc, at, seen, holds, robbed>>
          /\ closed' \in BOOLEAN
      BY <2>2 DEF cacheVars, reading, Lock, LimitInv, CacheInv, TypeOK
    <3> QED
      BY <3>1, StillStep DEF LimitInv
  <2> QED
    BY <1>1, <2>1, <2>2
<1>3. PICK s \in {"denied", "idle"} : step' = [step EXCEPT ![c] = s]
  <2>1. Answered(c, granted[c])
    BY DEF Date
  <2> QED
    BY <2>1, AnsweredStep
<1>4. Asking'
  BY <1>1, <1>3 DEF LimitInv, Asking, Steps
<1>5. OrphanCause'
  <2> SUFFICES ASSUME Orphan', type' = "redis", ~ undated'
               PROVE  FALSE
    BY DEF OrphanCause
  <2>1. Expire(Counter, Window)
    BY <1>1
  <2>2. RedisExpire(Counter, Window)
    BY <2>1 DEF Expire, MemoryExpire, RedisExpire
  <2>3. PICK i \in Item : /\ data' = [data EXCEPT ![Counter] = i]
                          /\ i.left = Window
    <3>1. data[Counter] \in Item
      BY <2>2, Cells, CounterFacts
         DEF RedisExpire, Live, LimitInv, CacheInv, TypeOK, Cell
    <3>2. Window \in (0 .. MaxTTL) \cup {Forever}
      BY CounterFacts, Numbers
    <3> DEFINE i == New(data[Counter].value, Window)
    <3>3. i \in Item /\ i.left = Window
      BY <3>1, <3>2, Cells
    <3>4. data' = [data EXCEPT ![Counter] = i]
      <4>1. Window # Forever
        BY CounterFacts, Numbers
      <4> QED
        BY <2>2, <4>1 DEF RedisExpire, Put, Becomes
    <3> HIDE DEF i
    <3> QED
      BY <3>3, <3>4
  <2>4. data'[Counter].left = Window
    BY <2>3, CounterFacts DEF LimitInv, CacheInv, TypeOK
  <2>5. Window # Forever
    BY CounterFacts, Numbers
  <2>6. data'[Counter].left = Forever
    BY DEF Orphan
  <2> QED
    BY <2>4, <2>5, <2>6
<1> QED
  BY <1>2, <1>4, <1>5 DEF LimitInv

LEMMA CrashStep ==
  ASSUME LimitInv, NEW c \in Caller, Crash(c)
  PROVE  LimitInv'
<1>1. /\ step' = [step EXCEPT ![c] = "dead"] /\ undated' = TRUE
      /\ UNCHANGED <<cacheVars, kind, want>>
  BY DEF Crash
<1>2. CacheInv'
  <2>1. UNCHANGED <<type, data, pc, at, seen, holds, robbed>>
        /\ closed' \in BOOLEAN
    BY <1>1 DEF cacheVars, reading, Lock, LimitInv, CacheInv, TypeOK
  <2> QED
    BY <2>1, StillStep DEF LimitInv
<1>3. Asking'
  BY <1>1 DEF LimitInv, Asking, Steps
<1>4. OrphanCause'
  BY <1>1 DEF OrphanCause
<1> QED
  BY <1>2, <1>3, <1>4 DEF LimitInv

LEMMA TickStep ==
  ASSUME LimitInv, Tick
  PROVE  LimitInv'
<1>1. Elapse /\ UNCHANGED <<kind, want, step, undated>>
  BY DEF Tick
<1>2. CacheInv'
  BY <1>1, ElapseStep DEF LimitInv
<1>3. data'[Counter].left = Forever => data[Counter].left = Forever
  <2>1. data[Counter] \in Cell
        /\ data[Counter].left \in (0 .. MaxTTL) \cup {Forever}
    BY CounterFacts, Cells DEF LimitInv, CacheInv, TypeOK, Cell
  <2>2. data'[Counter] \in {None, Older(data[Counter])}
    BY <1>1, CounterFacts DEF Elapse
  <2>3. None.left = 0 /\ 0 # Forever
    BY CounterFacts DEF None
  <2>4. Older(data[Counter]).left = Forever => data[Counter].left = Forever
    BY <2>1, Aging, Numbers, CounterFacts
  <2> QED
    BY <2>2, <2>3, <2>4
<1>4. OrphanCause'
  <2>1. type' = type
    BY <1>1 DEF Elapse
  <2> QED
    BY <1>1, <1>3, <2>1, OrphanKept
<1> QED
  BY <1>1, <1>2, <1>4 DEF LimitInv, Asking

-----------------------------------------------------------------------------
(* What holds of the cache *)

LEMMA InitLimit == Init => LimitInv
<1> SUFFICES ASSUME Init PROVE LimitInv
  OBVIOUS
<1>1. CacheInv
  BY InitCache DEF Init
<1>2. Asking
  BY DEF Init, Asking, Steps
<1>3. OrphanCause
  <2>1. data[Counter] = None /\ None.left = 0
    BY CounterFacts DEF Init, CacheInit, NewMemoryCache, None
  <2> QED
    BY <2>1, CounterFacts DEF OrphanCause, Orphan
<1> QED
  BY <1>1, <1>2, <1>3 DEF LimitInv

LEMMA NextLimit == LimitInv /\ [Next]_vars => LimitInv'
<1> SUFFICES ASSUME LimitInv, [Next]_vars PROVE LimitInv'
  OBVIOUS
<1>1. CASE kind = "none" /\ CacheNext /\ UNCHANGED limitVars
  <2>1. CacheInv'
    BY <1>1, CacheStep DEF LimitInv
  <2>2. Asking' /\ kind' = "none"
    BY <1>1 DEF limitVars, requests, LimitInv, Asking
  <2> QED
    BY <2>1, <2>2 DEF LimitInv, OrphanCause, Orphan
<1>2. ASSUME NEW c \in Caller, NEW n \in 1 .. 2, NEW w \in BOOLEAN,
             Request(c, n, w)
      PROVE  LimitInv'
  <2>1. step[c] = "idle" /\ UNCHANGED <<cacheVars, kind, undated>>
        /\ step' = [step EXCEPT ![c] = "trying"]
        /\ want' = [want EXCEPT ![c] = n]
    BY <1>2 DEF Request
  <2>2. want' \in [Caller -> 1 .. 2]
    BY <2>1 DEF LimitInv, Asking
  <2>3. \E s \in Steps : step' = [step EXCEPT ![c] = s]
    BY <2>1 DEF Steps
  <2> QED
    BY <2>1, <2>2, <2>3, RequestStep
<1>3. ASSUME NEW c \in Caller, Try(c)
      PROVE  LimitInv'
  BY <1>3, LocalStep, AllowStep DEF Try
<1>4. ASSUME NEW c \in Caller, Date(c) \/ Crash(c)
      PROVE  LimitInv'
  BY <1>4, DateStep, CrashStep
<1>5f. ASSUME NEW c \in Caller, FailOpen(c)
       PROVE  LimitInv'
  BY <1>5f, FailStep
<1>5. ASSUME NEW c \in Caller, Sleep(c) \/ Wake(c) \/ Cancel(c)
      PROVE  LimitInv'
  <2>1. step[c] # "dating" /\ UNCHANGED <<cacheVars, kind, undated, want>>
    BY <1>5 DEF Sleep, Wake, Cancel
  <2>2. \E s \in Steps : step' = [step EXCEPT ![c] = s]
    BY <1>5 DEF Sleep, Wake, Cancel, Steps
  <2>3. want' \in [Caller -> 1 .. 2]
    BY <2>1 DEF LimitInv, Asking
  <2> QED
    BY <2>1, <2>2, <2>3, RequestStep
<1>6. CASE cleanup /\ UNCHANGED limitVars
  <2>1. CacheInv'
    BY <1>6, CleanupStep DEF LimitInv
  <2>2. Asking' /\ type' = "memory"
    BY <1>6 DEF cleanup, Becomes, limitVars, requests, LimitInv, Asking
  <2> QED
    BY <2>1, <2>2 DEF LimitInv, OrphanCause
<1>7. CASE UNCHANGED vars
  <2>1. UNCHANGED <<type, data, pc, at, seen, holds, robbed>>
        /\ closed' \in BOOLEAN
    BY <1>7 DEF vars, cacheVars, reading, Lock, LimitInv, CacheInv, TypeOK
  <2>2. CacheInv'
    BY <2>1, StillStep DEF LimitInv
  <2>3. UNCHANGED <<kind, step, want, undated>>
    BY <1>7 DEF vars, limitVars, requests
  <2>4. OrphanCause'
    BY <2>1, <2>3, OrphanKept
  <2> QED
    BY <2>2, <2>3, <2>4 DEF LimitInv, Asking
<1> QED
  BY <1>1, <1>2, <1>3, <1>4, <1>5f, <1>5, <1>6, <1>7, TickStep DEF Next

\* In every state the cache's variables have their types, a lock that its
\* owner may still use is in the cache for as long, a pointer that is current
\* is what the map has, and no counter has lost its expiry without a cause.
THEOREM LimitAlways == Spec => []LimitInv
BY InitLimit, NextLimit, PTL DEF Spec

\* TryLock of memory.go and redis.go: two callers are never both within the
\* time they asked for, unless a live lock was deleted by one that did not own
\* it, a reader of an earlier expired item or an eviction.
THEOREM LockIsExclusive == Spec => []LockExclusive
<1>1. LimitInv => LockExclusive
  BY DEF LimitInv, CacheInv, LockBacked, LockExclusive
<1> QED
  BY <1>1, LimitAlways, PTL

\* A step of a writer leaves alone where the readers are.
LEMMA WritersLeaveReaders ==
  ASSUME NEW d, NEW ks, Becomes(d, ks)
  PROVE  pc' = pc
BY DEF Becomes

\* Only its own step ends a call, and not one on an expired item.
LEMMA OnlyCheckAnswers ==
  ASSUME LimitInv, [Next]_vars, NEW c \in Caller,
         pc[c] = "checking", pc'[c] = "idle"
  PROVE  Check(c) /\ ~ isExpired(at[c].item)
<1>1. pc' # pc /\ pc \in [Caller -> {"idle", "checking", "deleting"}]
  BY DEF LimitInv, CacheInv, TypeOK
<1>2. \A k \in Key : \A i : ~ Put(k, i)
  BY <1>1, WritersLeaveReaders DEF Put
<1>3. \A k \in Key : \A v, t :
        ~ Set(k, v, t) /\ ~ SetNX(k, v, t) /\ ~ Expire(k, t)
  BY <1>1, <1>2, WritersLeaveReaders
     DEF Set, MemorySet, RedisSet, SetNX, Expire, MemoryExpire, RedisExpire
<1>4. \A k \in Key : \A n : ~ IncrementBy(k, n) /\ ~ Del(k)
  BY <1>2 DEF IncrementBy, MemoryIncrementBy, RedisIncrementBy, Del
<1>5. \A v, t : ~ MSet(v, t)
  BY <1>1, WritersLeaveReaders DEF MSet
<1>6. ~ cleanup /\ ~ Close /\ ~ Elapse /\ ~ UNCHANGED cacheVars
  BY <1>1, WritersLeaveReaders DEF cleanup, Close, Elapse, cacheVars, reading
<1>7. LockKey \in Key /\ Counter \in Key
  BY Numbers, CounterFacts
<1>8. CacheNext
  <2>1. \A e \in Caller : ~ Try(e) /\ ~ Date(e) /\ ~ FailOpen(e) /\ ~ Crash(e)
    BY <1>3, <1>4, <1>6, <1>7
       DEF Try, TokenAllowN, SlidingAllowN, FixedAllowN, Local, AllowNWithKey,
           Date, FailOpen, Crash
  <2>2. \A e \in Caller : ~ Sleep(e) /\ ~ Wake(e) /\ ~ Cancel(e)
    BY <1>6 DEF Sleep, Wake, Cancel
  <2>3. \A e \in Caller : \A n, w : ~ Request(e, n, w)
    BY <1>6 DEF Request
  <2>4. ~ Tick /\ ~ UNCHANGED vars
    BY <1>6 DEF Tick, vars
  <2> QED
    BY <1>6, <2>1, <2>2, <2>3, <2>4 DEF Next
<1>9. PICK e \in Caller :
        \/ \E k \in Key : Get(e, k)
        \/ Check(e)
        \/ DeleteExpired(e)
  <2>1. \A e \in Caller : \A t : ~ Unlock(e) /\ ~ TryLock(e, t)
    BY <1>2, <1>3, <1>7 DEF Unlock, TryLock
  <2>2. \A k \in Writable : k \in Key
    BY DEF Writable
  <2> QED
    BY <1>3, <1>4, <1>5, <1>6, <1>8, <2>1, <2>2
       DEF CacheNext, Increment, Decrement
<1>10. e = c
  BY <1>1, <1>9 DEF Get, Check, Done, DeleteExpired
<1>11. Check(c)
  BY <1>1, <1>9, <1>10 DEF Get, DeleteExpired
<1>12. ~ isExpired(at[c].item)
  BY <1>1, <1>11 DEF Check
<1> QED
  BY <1>11, <1>12

\* Get of memory.go reads an item in one step and judges it in another: the
\* value it returns was the key's, and live, at some moment of the call.
THEOREM AnswersAreTrue == Spec => AnswerIsTrue
<1>1. LimitInv /\ [Next]_vars =>
        [\A c \in Caller :
           pc[c] = "checking" /\ pc'[c] = "idle" => seen[c]]_cacheVars
  <2> SUFFICES ASSUME LimitInv, [Next]_vars, NEW c \in Caller,
                      pc[c] = "checking", pc'[c] = "idle"
               PROVE  seen[c]
    OBVIOUS
  <2>1. ~ isExpired(at[c].item)
    BY OnlyCheckAnswers
  <2> QED
    BY <2>1 DEF LimitInv, CacheInv, Judged
<1> QED
  BY <1>1, LimitAlways, PTL DEF Spec, AnswerIsTrue

-----------------------------------------------------------------------------
(* What passes in a window *)

\* What the bucket holds by now and what passed fit in a full one and what it
\* got meanwhile.
TokenBound ==
  kind = "token_bucket" =>
    \A n \in Age : passed[n] + refill <= Capacity + n * Rate

\* The last timestamps are those of what passed last.
SlidingBound ==
  kind = "sliding_window" =>
    \A n \in Age :
      /\ passed[n] <= Len(stamps)
      /\ \A i \in 1 .. Len(stamps) :
           i > Len(stamps) - passed[n] => stamps[i] <= n

\* The window that runs counts what passed in it; before it, one other did;
\* when it is over, nothing passes until the next begins.
FixedBound ==
  kind = "fixed_window" =>
    \A n \in Age :
      /\ n < Window => passed[n] <= count + Limit
      /\ n <= since => passed[n] <= count
      /\ n <= since - Window => passed[n] = 0

\* What the counter says that passed of its window.
Used == IF ~ Live(Counter) THEN 0 ELSE Least(data[Counter].value, Limit)

Counts == Live(Counter) => data[Counter].value \in 1 .. MaxValue

Twice == \A n \in Age : n < Window => passed[n] <= Limit + Used

\* A counter with an expiry is as old as the part of it that is over.
Once ==
  data[Counter].left > 0 =>
    \A n \in Age : n < Window - data[Counter].left => passed[n] <= Used

\* One request at most has made the counter and not set its expiry yet; its
\* own permits are counted.
Dating ==
  \A c \in Caller :
    step[c] = "dating" =>
      /\ data[Counter].left = Forever
      /\ \A e \in Caller : step[e] = "dating" => e = c
      /\ granted[c] =>
           \A n \in Age : n < Window => passed[n] + want[c] <= Limit + Used

CounterBound == kind = "distributed" => Counts /\ Twice /\ Once /\ Dating

OnlyCounters == \A c \in Caller : step[c] = "dating" => kind = "distributed"

Bounds ==
  TokenBound /\ SlidingBound /\ FixedBound /\ CounterBound /\ OnlyCounters

WindowInv == LimitTypeOK /\ Bounds

LEMMA Rates ==
  /\ Rate \in Nat /\ Rate > 0 /\ Capacity \in Nat /\ Capacity > 0
  /\ Limit \in Nat /\ Limit > 0 /\ Window \in Nat /\ Window > 0
  /\ MaxCalls \in Nat /\ MaxValue \in Nat /\ MaxValue > Limit + 1
  /\ Poll \in Nat /\ MaxTTL \in Nat /\ Window <= MaxTTL
BY RateLimitAssumption, Numbers

LEMMA Products ==
  /\ \A a \in Nat : a * Rate \in Nat
  /\ \A a \in Nat : (a + 1) * Rate = a * Rate + Rate
  /\ 0 * Rate = 0
BY Rates

\* What an answer counts.
LEMMA AnsweredCounts ==
  ASSUME LimitTypeOK, NEW c \in Caller, NEW ok \in BOOLEAN, Answered(c, ok)
  PROVE  \E n \in 0 .. 2 :
           /\ n <= want[c] /\ (~ ok => n = 0)
           /\ passed' \in [Age -> Nat]
           /\ \A a \in Age : passed'[a] = passed[a] + n
<1>1. want[c] \in 1 .. 2 /\ passed \in [Age -> Nat]
  BY DEF LimitTypeOK
<1>2. PICK n \in 0 .. 2 :
        n = IF Reply(c, ok) = "next" /\ ok THEN want[c] ELSE 0
  BY <1>1
<1>3. passed' = [a \in Age |-> passed[a] + n]
  BY <1>2 DEF Answered
<1>4. passed' \in [Age -> Nat] /\ \A a \in Age : passed'[a] = passed[a] + n
  BY <1>1, <1>3
<1> QED
  BY <1>1, <1>2, <1>4

\* A step that no limiter and no counter is part of.
LEMMA StillBounds ==
  ASSUME WindowInv, UNCHANGED <<kind, limiter, passed, data>>,
         \A e \in Caller :
           step'[e] = "dating" =>
             /\ step[e] = "dating" /\ want'[e] = want[e]
             /\ granted'[e] => granted[e]
  PROVE  Bounds'
<1>1. UNCHANGED <<tokens, since, count, stamps, kind, passed, data>>
  BY DEF limiter
<1>2. TokenBound' /\ SlidingBound' /\ FixedBound'
  BY <1>1 DEF WindowInv, Bounds, TokenBound, SlidingBound, FixedBound, refill
<1>3. Used' = Used
  BY <1>1 DEF Used, Live
<1>4. kind = "distributed" => Counts' /\ Twice' /\ Once'
  BY <1>1, <1>3
     DEF WindowInv, Bounds, CounterBound, Counts, Twice, Once, Live
<1>5. kind = "distributed" => Dating'
  BY <1>1, <1>3 DEF WindowInv, Bounds, CounterBound, Dating
<1>6. OnlyCounters'
  BY <1>1 DEF WindowInv, Bounds, OnlyCounters
<1> QED
  BY <1>1, <1>2, <1>4, <1>5, <1>6 DEF Bounds, CounterBound

\* An answer makes nobody set an expiry.
LEMMA AnsweredDates ==
  ASSUME WindowInv, NEW c \in Caller, NEW ok, Answered(c, ok)
  PROVE  /\ \A e \in Caller : step'[e] = "dating" => e # c /\ step[e] = "dating"
         /\ kind' = kind => OnlyCounters'
<1>1. \E s \in {"denied", "idle"} : step' = [step EXCEPT ![c] = s]
  BY AnsweredStep
<1>2. \A e \in Caller : step'[e] = "dating" => e # c /\ step[e] = "dating"
  BY <1>1 DEF WindowInv, LimitTypeOK
<1> QED
  BY <1>2 DEF WindowInv, Bounds, OnlyCounters

LEMMA Refilled ==
  ASSUME LimitTypeOK
  PROVE  /\ refill \in Nat /\ refill <= Capacity
         /\ refill <= tokens + since * Rate
         /\ since * Rate \in Nat /\ tokens \in Nat /\ since \in Nat
<1>1. tokens \in Nat /\ since \in Nat
  BY Rates DEF LimitTypeOK
<1>2. since * Rate \in Nat
  BY <1>1, Products
<1> QED
  BY <1>1, <1>2, Rates DEF refill, Least

LEMMA TokenKeeps ==
  ASSUME WindowInv, NEW c \in Caller, TokenAllowN(c)
  PROVE  Bounds' /\ tokens' \in 0 .. Capacity /\ passed' \in [Age -> Nat]
<1> DEFINE ok == refill >= want[c]
           take == IF ok THEN want[c] ELSE 0
<1>1. /\ kind = "token_bucket" /\ kind' = kind /\ since' = 0
      /\ tokens' = refill - take
  BY DEF TokenAllowN, Local
<1>2. PICK n \in 0 .. 2 :
        /\ n <= want[c] /\ (~ ok => n = 0)
        /\ passed' \in [Age -> Nat]
        /\ \A a \in Age : passed'[a] = passed[a] + n
  <2>1. Answered(c, ok) /\ ok \in BOOLEAN
    BY DEF TokenAllowN
  <2> QED
    BY <2>1, AnsweredCounts DEF WindowInv
<1>3. want[c] \in 1 .. 2 /\ passed \in [Age -> Nat]
  BY DEF WindowInv, LimitTypeOK
<1>4. take \in 0 .. 2 /\ n <= take
  BY <1>2, <1>3
<1> HIDE DEF take, ok
<1>5. tokens' \in Int /\ refill \in Nat
  BY <1>1, <1>4, Refilled DEF WindowInv
<1>6. refill' \in Int /\ refill' <= refill - take
  <2>1. refill' = Least(tokens' + since' * Rate, Capacity)
    BY DEF refill
  <2>2. refill' = Least(tokens' + 0, Capacity)
    BY <1>1, <2>1, Products
  <2> QED
    BY <1>1, <1>5, <2>2, Rates DEF Least
<1>7. TokenBound'
  <2> SUFFICES ASSUME NEW a \in Age
               PROVE  passed'[a] + refill' <= Capacity + a * Rate
    BY DEF TokenBound
  <2>1. passed[a] + refill <= Capacity + a * Rate
    BY <1>1 DEF WindowInv, Bounds, TokenBound
  <2>2. a * Rate \in Nat
    BY Products, Rates DEF Age
  <2>3. passed[a] \in Nat /\ passed'[a] = passed[a] + n
    BY <1>2, <1>3
  <2> QED
    BY <1>4, <1>5, <1>6, <2>1, <2>2, <2>3, Rates
<1>8. OnlyCounters'
  BY <1>1, AnsweredDates DEF TokenAllowN
<1>9. tokens' \in 0 .. Capacity
  BY <1>1, <1>3, Refilled, Rates DEF WindowInv, take, ok
<1> QED
  BY <1>1, <1>2, <1>7, <1>8, <1>9
     DEF Bounds, SlidingBound, FixedBound, CounterBound

LEMMA FixedKeeps ==
  ASSUME WindowInv, NEW c \in Caller, FixedAllowN(c)
  PROVE  /\ Bounds' /\ passed' \in [Age -> Nat]
         /\ since' \in 0 .. Window + Capacity /\ count' \in 0 .. Limit
<1> DEFINE over == since >= Window
           base == IF over THEN 0 ELSE count
           ok == base + want[c] <= Limit
           take == IF ok THEN want[c] ELSE 0
<1>1. /\ kind = "fixed_window" /\ kind' = kind
      /\ since' = IF over THEN 0 ELSE since
      /\ count' = base + take
  BY DEF FixedAllowN, Local
<1>2. PICK n \in 0 .. 2 :
        /\ n <= want[c] /\ (~ ok => n = 0)
        /\ passed' \in [Age -> Nat]
        /\ \A a \in Age : passed'[a] = passed[a] + n
  <2>1. Answered(c, ok) /\ ok \in BOOLEAN
    BY DEF FixedAllowN
  <2> QED
    BY <2>1, AnsweredCounts DEF WindowInv
<1>3. /\ want[c] \in 1 .. 2 /\ passed \in [Age -> Nat]
      /\ since \in Nat /\ count \in Nat /\ count <= Limit
  BY Rates DEF WindowInv, LimitTypeOK
<1>4. take \in 0 .. 2 /\ n <= take
  BY <1>2, <1>3
<1> HIDE DEF take, ok
<1>5. FixedBound'
  <2> SUFFICES ASSUME NEW a \in Age
               PROVE  /\ a < Window => passed'[a] <= count' + Limit
                      /\ a <= since' => passed'[a] <= count'
                      /\ a <= since' - Window => passed'[a] = 0
    BY DEF FixedBound
  <2>1. /\ a < Window => passed[a] <= count + Limit
        /\ a <= since => passed[a] <= count
        /\ a <= since - Window => passed[a] = 0
    BY <1>1 DEF WindowInv, Bounds, FixedBound
  <2>2. a \in Nat /\ passed[a] \in Nat /\ passed'[a] = passed[a] + n
    BY <1>2, <1>3, Rates DEF Age
  <2>3. CASE over
    <3>1. since' = 0 /\ count' = take
      BY <1>1, <1>4, <2>3
    <3>2. a < Window => passed[a] <= Limit
      BY <1>3, <2>1, <2>2, <2>3, Rates
    <3>3. a = 0 => passed[a] = 0
      BY <1>3, <2>1, <2>3, Rates
    <3> QED
      BY <1>4, <2>2, <3>1, <3>2, <3>3, Rates
  <2>4. CASE ~ over
    <3>1. since' = since /\ count' = count + take /\ since < Window
      BY <1>1, <1>3, <2>4, Rates
    <3> QED
      BY <1>3, <1>4, <2>1, <2>2, <3>1, Rates
  <2> QED
    BY <2>3, <2>4
<1>6. OnlyCounters'
  BY <1>1, AnsweredDates DEF FixedAllowN
<1>7. since' \in 0 .. Window + Capacity /\ count' \in 0 .. Limit
  BY <1>1, <1>3, Rates DEF WindowInv, LimitTypeOK, take, ok
<1> QED
  BY <1>1, <1>2, <1>5, <1>6, <1>7
     DEF Bounds, SlidingBound, TokenBound, CounterBound

LEMMA SlidingKeeps ==
  ASSUME WindowInv, NEW c \in Caller, SlidingAllowN(c)
  PROVE  /\ Bounds' /\ passed' \in [Age -> Nat]
         /\ stamps' \in Seq(0 .. Window + 1) /\ Len(stamps') <= Limit
<1>1. kind = "sliding_window" /\ kind' = kind
  BY DEF SlidingAllowN, Local
<1>2. PICK i \in 0 .. Len(stamps) :
        LET kept == SubSeq(stamps, i + 1, Len(stamps))
            ok == Len(kept) + want[c] <= Limit
        IN  /\ slidingCleanup(i)
            /\ stamps' =
                 kept \o IF ok THEN [j \in 1 .. want[c] |-> 0] ELSE <<>>
            /\ Answered(c, ok)
  BY DEF SlidingAllowN
<1> DEFINE kept == SubSeq(stamps, i + 1, Len(stamps))
           ok == Len(kept) + want[c] <= Limit
           new == IF ok THEN [j \in 1 .. want[c] |-> 0] ELSE <<>>
<1>3. PICK n \in 0 .. 2 :
        /\ n <= want[c] /\ (~ ok => n = 0)
        /\ passed' \in [Age -> Nat]
        /\ \A a \in Age : passed'[a] = passed[a] + n
  <2>1. Answered(c, ok) /\ ok \in BOOLEAN
    BY <1>2
  <2> QED
    BY <2>1, AnsweredCounts DEF WindowInv
<1>4. /\ want[c] \in 1 .. 2 /\ passed \in [Age -> Nat]
      /\ stamps \in Seq(0 .. Window + 1)
  BY DEF WindowInv, LimitTypeOK
<1>5. /\ kept \in Seq(0 .. Window + 1) /\ Len(kept) = Len(stamps) - i
      /\ \A j \in 1 .. Len(kept) : kept[j] = stamps[j + i]
  <2>1. /\ i \in Nat /\ i + 1 \in Int /\ Len(stamps) \in Nat
        /\ i <= Len(stamps)
        /\ \A j \in i + 1 .. Len(stamps) : stamps[j] \in 0 .. Window + 1
    BY <1>4, Rates
  <2>2. /\ kept \in Seq(0 .. Window + 1)
        /\ Len(kept) = IF i + 1 <= Len(stamps)
                         THEN Len(stamps) - (i + 1) + 1 ELSE 0
        /\ \A j \in 1 .. Len(stamps) - (i + 1) + 1 :
             kept[j] = stamps[i + 1 + j - 1]
    BY <2>1, SubSeqProperties
  <2>3. Len(kept) = Len(stamps) - i
    BY <2>1, <2>2
  <2>4. \A j \in 1 .. Len(kept) : i + 1 + j - 1 = j + i
    BY <2>1
  <2> HIDE DEF kept
  <2> QED
    BY <2>1, <2>2, <2>3, <2>4
<1>6. /\ new \in Seq(0 .. Window + 1) /\ n <= Len(new) /\ Len(new) \in 0 .. 2
      /\ \A j \in 1 .. Len(new) : new[j] = 0
  <2>1. CASE ok
    <3>1. new = [j \in 1 .. want[c] |-> 0]
      BY <2>1
    <3>2. new \in Seq(0 .. Window + 1) /\ Len(new) = want[c]
      BY <1>4, <3>1, Rates
    <3> QED
      BY <1>3, <1>4, <3>1, <3>2
  <2>2. CASE ~ ok
    BY <1>3, <2>2
  <2> QED
    BY <2>1, <2>2
<1>7. stamps' = kept \o new
  BY <1>2
<1>8. i \in Nat /\ Len(stamps) \in Nat /\ i <= Len(stamps)
      /\ \A j \in 1 .. i : stamps[j] > Window
  BY <1>2, <1>4 DEF slidingCleanup
<1> HIDE DEF kept, ok, new
<1>9. /\ Len(stamps') = Len(stamps) - i + Len(new)
      /\ \A j \in 1 .. Len(stamps') :
           stamps'[j] = IF j <= Len(kept) THEN stamps[j + i] ELSE 0
  <2>1. /\ Len(stamps') = Len(kept) + Len(new)
        /\ \A j \in 1 .. Len(kept) + Len(new) :
             stamps'[j] = IF j <= Len(kept) THEN kept[j]
                          ELSE new[j - Len(kept)]
    BY <1>5, <1>6, <1>7, ConcatProperties
  <2>2. Len(kept) \in Nat /\ Len(new) \in Nat
    BY <1>5, <1>6, <1>8
  <2>3. \A j \in 1 .. Len(kept) + Len(new) :
          IF j <= Len(kept) THEN j \in 1 .. Len(kept)
          ELSE j - Len(kept) \in 1 .. Len(new)
    BY <2>2
  <2> QED
    BY <1>5, <1>6, <2>1, <2>3
<1>10. SlidingBound'
  <2> SUFFICES ASSUME NEW a \in Age
               PROVE  /\ passed'[a] <= Len(stamps')
                      /\ \A j \in 1 .. Len(stamps') :
                           j > Len(stamps') - passed'[a] => stamps'[j] <= a
    BY DEF SlidingBound
  <2>1. /\ passed[a] <= Len(stamps)
        /\ \A j \in 1 .. Len(stamps) :
             j > Len(stamps) - passed[a] => stamps[j] <= a
    BY <1>1 DEF WindowInv, Bounds, SlidingBound
  <2>2. a \in Nat /\ a <= Window /\ passed[a] \in Nat
        /\ passed'[a] = passed[a] + n
    BY <1>3, <1>4, Rates DEF Age
  <2>3. passed[a] <= Len(stamps) - i
    <3> SUFFICES ASSUME passed[a] > Len(stamps) - i
                 PROVE  FALSE
      BY <1>8, <2>2
    <3>1. i \in 1 .. Len(stamps) /\ i > Len(stamps) - passed[a]
      BY <1>8, <2>1, <2>2
    <3>2. stamps[i] <= a /\ stamps[i] > Window /\ stamps[i] \in Int
      BY <1>4, <1>8, <2>1, <3>1, Rates
    <3> QED
      BY <2>2, <3>2, Rates
  <2>4. passed'[a] <= Len(stamps')
    BY <1>6, <1>8, <1>9, <2>2, <2>3
  <2>5. ASSUME NEW j \in 1 .. Len(stamps'), j > Len(stamps') - passed'[a]
        PROVE  stamps'[j] <= a
    <3>1. CASE j <= Len(kept)
      <4>1. j + i \in 1 .. Len(stamps) /\ j + i > Len(stamps) - passed[a]
        BY <1>5, <1>6, <1>8, <1>9, <2>2, <2>5, <3>1
      <4> QED
        BY <1>9, <2>1, <3>1, <4>1
    <3>2. CASE ~ (j <= Len(kept))
      BY <1>9, <2>2, <3>2
    <3> QED
      BY <3>1, <3>2
  <2> QED
    BY <2>4, <2>5
<1>11. OnlyCounters'
  BY <1>1, AnsweredDates DEF SlidingAllowN
<1>12. stamps' \in Seq(0 .. Window + 1)
  BY <1>5, <1>6, <1>7, ConcatProperties
<1>13. Len(stamps') <= Limit
  <2>1. Len(stamps) <= Limit
    BY DEF WindowInv, LimitTypeOK
  <2>2. Len(new) = 0 \/ (ok /\ Len(new) = want[c])
    BY <1>4 DEF new
  <2>3. ok => Len(kept) + want[c] <= Limit
    BY DEF ok
  <2> QED
    BY <1>4, <1>5, <1>8, <1>9, <2>1, <2>2, <2>3, Rates
<1> QED
  BY <1>1, <1>3, <1>10, <1>11, <1>12, <1>13
     DEF Bounds, FixedBound, TokenBound, CounterBound

\* Used, from what the counter is.
LEMMA UsedIs ==
  ASSUME WindowInv, kind = "distributed"
  PROVE  /\ Used \in Nat /\ Used <= Limit
         /\ ~ Live(Counter) => Used = 0
         /\ Live(Counter) =>
              Used = Least(data[Counter].value, Limit)
              /\ data[Counter].value \in Nat /\ data[Counter].value >= 1
BY Rates DEF WindowInv, Bounds, CounterBound, Counts, Used, Least

\* IncrementBy counts the permits, or the counter is over the limit; one that
\* makes the counter is the first, and nobody else is.
LEMMA Counted ==
  ASSUME LimitInv, WindowInv, kind = "distributed", NEW w \in 1 .. 2,
         IncrementBy(Counter, w)
  PROVE  /\ data'[Counter].value \in 1 .. MaxValue /\ Live(Counter)'
         /\ \/ data'[Counter].left = Forever
            \/ Live(Counter) /\ data'[Counter].left = data[Counter].left
         /\ Used' \in Nat /\ Used' >= Used
         /\ data'[Counter].value <= Limit => Used' >= Used + w
         /\ data'[Counter].value = w => ~ Live(Counter)
<1>1. PICK times \in {1, 2}, t \in {Forever, data[Counter].left} :
        /\ data' = [data EXCEPT ![Counter] =
                       New(NewCount(Counter, w * times), t)]
        /\ t = Forever \/ (Live(Counter) /\ t = data[Counter].left)
  <2>1. CASE MemoryIncrementBy(Counter, w)
    <3>1. w = w * 1
      OBVIOUS
    <3>2. data' = [data EXCEPT ![Counter] =
                     New(NewCount(Counter, w * 1), Forever)]
      BY <2>1, <3>1 DEF MemoryIncrementBy, Put, Becomes
    <3> QED
      BY <3>2
  <2>2. CASE RedisIncrementBy(Counter, w)
    <3>1. PICK times \in {1, 2} :
            Put(Counter, New(NewCount(Counter, w * times),
                             IF Live(Counter) THEN data[Counter].left
                             ELSE Forever))
      BY <2>2 DEF RedisIncrementBy
    <3>2. data' = [data EXCEPT ![Counter] =
                     New(NewCount(Counter, w * times),
                         IF Live(Counter) THEN data[Counter].left
                         ELSE Forever)]
      BY <3>1 DEF Put, Becomes
    <3> QED
      BY <3>2
  <2> QED
    BY <2>1, <2>2 DEF IncrementBy
<1>2. w * times \in 1 .. 4 /\ w * times >= w
  BY <1>1
<1> DEFINE s == w * times
           v == NewCount(Counter, s)
<1>3. data'[Counter] = New(v, t)
  BY <1>1, CounterFacts DEF LimitInv, CacheInv, TypeOK
<1>4. data'[Counter].value = v /\ data'[Counter].left = t
  BY <1>3 DEF New
<1>5. s \in Nat /\ s >= 1 /\ s >= w
  BY <1>2
<1> HIDE DEF s
<1>6. CASE Live(Counter)
  <2>1. v = IF data[Counter].value + s > MaxValue THEN MaxValue
            ELSE data[Counter].value + s
    BY <1>5, <1>6, UsedIs, Rates DEF NewCount
  <2>2. /\ v \in 1 .. MaxValue /\ v >= data[Counter].value /\ v # w
        /\ v <= Limit => v >= data[Counter].value + w
    BY <1>5, <1>6, <2>1, UsedIs, Rates
       DEF WindowInv, Bounds, CounterBound, Counts
  <2>3. t # 0
    BY <1>1, <1>6, CounterFacts DEF Live, isExpired
  <2>4. Live(Counter)'
    BY <1>4, <2>3 DEF Live, isExpired
  <2>5. Used' = Least(v, Limit)
    BY <1>4, <2>4 DEF Used
  <2> HIDE DEF v
  <2> QED
    BY <1>1, <1>4, <1>6, <2>2, <2>4, <2>5, UsedIs, Rates DEF Least
<1>7. CASE ~ Live(Counter)
  <2>1. v = IF s > MaxValue THEN MaxValue ELSE s
    BY <1>5, <1>7, Rates DEF NewCount
  <2>2. v \in 1 .. MaxValue /\ v >= w
    BY <1>5, <2>1, Rates
  <2>3. t = Forever /\ Forever # 0
    BY <1>1, <1>7, CounterFacts
  <2>4. Live(Counter)'
    BY <1>4, <2>3 DEF Live, isExpired
  <2>5. Used' = Least(v, Limit)
    BY <1>4, <2>4 DEF Used
  <2> HIDE DEF v
  <2> QED
    BY <1>4, <1>7, <2>2, <2>3, <2>4, <2>5, UsedIs, Rates DEF Least
<1> QED
  BY <1>6, <1>7

LEMMA AllowKeeps ==
  ASSUME LimitInv, WindowInv, NEW c \in Caller, AllowNWithKey(c)
  PROVE  Bounds'
<1> DEFINE w == want[c]
           v == data'[Counter].value
<1>1. /\ kind = "distributed" /\ kind' = kind /\ step[c] = "trying"
      /\ IncrementBy(Counter, w) /\ want' = want
  BY DEF AllowNWithKey
<1>2. w \in 1 .. 2 /\ passed \in [Age -> Nat] /\ granted \in [Caller -> BOOLEAN]
      /\ step \in [Caller -> Steps]
  BY DEF WindowInv, LimitTypeOK, LimitInv, Asking
<1>3. /\ v \in 1 .. MaxValue /\ Live(Counter)'
      /\ \/ data'[Counter].left = Forever
         \/ Live(Counter) /\ data'[Counter].left = data[Counter].left
      /\ Used' \in Nat /\ Used' >= Used
      /\ v <= Limit => Used' >= Used + w
      /\ v = w => ~ Live(Counter)
  BY <1>1, <1>2, Counted
<1>4. /\ Twice /\ Once /\ Dating
      /\ Used \in Nat /\ (~ Live(Counter) => Used = 0)
  BY <1>1, UsedIs DEF WindowInv, Bounds, CounterBound
<1>5. \A a \in Age : a \in Nat /\ passed[a] \in Nat
  BY <1>2, Rates DEF Age
<1>6. CASE First(c)
  <2>1. /\ passed' = passed /\ step' = [step EXCEPT ![c] = "dating"]
        /\ granted' = [granted EXCEPT ![c] = v <= Limit]
    BY <1>6 DEF AllowNWithKey
  <2>2. v = w /\ ~ Live(Counter)
    BY <1>3, <1>6 DEF First
  <2>3. data[Counter].left = 0 /\ data'[Counter].left = Forever /\ 0 # Forever
    BY <1>3, <2>2, CounterFacts DEF Live, isExpired
  <2>4. Twice'
    BY <1>3, <1>4, <1>5, <2>1, Rates DEF Twice
  <2>5. Once'
    BY <2>3, CounterFacts DEF Once
  <2>6. \A e \in Caller : step'[e] = "dating" => e = c
    BY <1>2, <1>4, <2>1, <2>3 DEF Dating
  <2>7. granted'[c] => v <= Limit
    BY <1>2, <2>1
  <2>8. granted'[c] =>
          \A a \in Age : a < Window => passed'[a] + want'[c] <= Limit + Used'
    BY <1>1, <1>2, <1>3, <1>4, <1>5, <2>1, <2>2, <2>7, Rates DEF Twice
  <2>9. Dating'
    BY <2>3, <2>6, <2>8 DEF Dating
  <2> QED
    BY <1>1, <1>3, <2>4, <2>5, <2>9
       DEF Bounds, CounterBound, Counts, TokenBound, SlidingBound, FixedBound,
           OnlyCounters
<1>7. CASE ~ First(c)
  <2>1. Answered(c, v <= Limit) /\ granted' = granted
    BY <1>7 DEF AllowNWithKey
  <2>2. PICK n \in 0 .. 2 :
          /\ n <= w /\ (~ (v <= Limit) => n = 0)
          /\ passed' \in [Age -> Nat]
          /\ \A a \in Age : passed'[a] = passed[a] + n
    <3>1. (v <= Limit) \in BOOLEAN
      OBVIOUS
    <3> QED
      BY <2>1, <3>1, AnsweredCounts DEF WindowInv
  <2>3. Used' >= Used + n
    BY <1>2, <1>3, <1>4, <2>2
  <2>4. \A e \in Caller :
          step'[e] = "dating" => e # c /\ step[e] = "dating"
    <3>1. \E s \in {"denied", "idle"} : step' = [step EXCEPT ![c] = s]
      BY <2>1, AnsweredStep
    <3> QED
      BY <1>2, <3>1
  <2>5. Twice'
    BY <1>3, <1>4, <1>5, <2>2, <2>3, Rates DEF Twice
  <2>6. Once'
    <3> SUFFICES ASSUME data'[Counter].left > 0, NEW a \in Age,
                        a < Window - data'[Counter].left
                 PROVE  passed'[a] <= Used'
      BY DEF Once
    <3>1. data'[Counter].left = data[Counter].left
      BY <1>3, CounterFacts
    <3>2. passed[a] <= Used
      BY <1>4, <3>1 DEF Once
    <3> QED
      BY <1>3, <1>4, <1>5, <2>2, <2>3, <3>2
  <2>7. Dating'
    <3> SUFFICES ASSUME NEW e \in Caller, step'[e] = "dating"
                 PROVE  /\ data'[Counter].left = Forever
                        /\ \A f \in Caller : step'[f] = "dating" => f = e
                        /\ granted'[e] =>
                             \A a \in Age :
                               a < Window =>
                                 passed'[a] + want'[e] <= Limit + Used'
      BY DEF Dating
    <3>1. /\ data[Counter].left = Forever
          /\ \A f \in Caller : step[f] = "dating" => f = e
          /\ granted[e] =>
               \A a \in Age : a < Window => passed[a] + want[e] <= Limit + Used
      BY <1>4, <2>4 DEF Dating
    <3>2. want[e] \in 1 .. 2
      BY DEF WindowInv, LimitTypeOK
    <3> QED
      BY <1>1, <1>3, <1>4, <1>5, <2>1, <2>2, <2>3, <2>4, <3>1, <3>2, Rates
  <2> QED
    BY <1>1, <1>3, <2>5, <2>6, <2>7
       DEF Bounds, CounterBound, Counts, TokenBound, SlidingBound, FixedBound,
           OnlyCounters
<1> QED
  BY <1>6, <1>7

\* An increment that answered an error counts, and grants nothing.
LEMMA FailKeeps ==
  ASSUME LimitInv, WindowInv, NEW c \in Caller, FailOpen(c),
         IncrementBy(Counter, want[c])
  PROVE  Bounds'
<1>1. /\ kind = "distributed" /\ kind' = kind /\ step[c] = "trying"
      /\ step' = [step EXCEPT ![c] = "idle"]
      /\ want' = want /\ passed' = passed /\ granted' = granted
  BY DEF FailOpen
<1>2. /\ want[c] \in 1 .. 2 /\ passed \in [Age -> Nat]
      /\ step \in [Caller -> Steps]
  BY DEF WindowInv, LimitTypeOK, LimitInv, Asking
<1>3. /\ data'[Counter].value \in 1 .. MaxValue /\ Live(Counter)'
      /\ \/ data'[Counter].left = Forever
         \/ Live(Counter) /\ data'[Counter].left = data[Counter].left
      /\ Used' \in Nat /\ Used' >= Used
  BY <1>1, <1>2, Counted
<1>4. /\ Twice /\ Once /\ Dating /\ Used \in Nat
  BY <1>1, UsedIs DEF WindowInv, Bounds, CounterBound
<1>5. \A a \in Age : a \in Nat /\ passed[a] \in Nat
  BY <1>2, Rates DEF Age
<1>6. \A e \in Caller : step'[e] = "dating" => e # c /\ step[e] = "dating"
  BY <1>1, <1>2
<1>7. Twice'
  BY <1>1, <1>3, <1>4, <1>5, Rates DEF Twice
<1>8. Once'
  <2> SUFFICES ASSUME data'[Counter].left > 0, NEW a \in Age,
                      a < Window - data'[Counter].left
               PROVE  passed[a] <= Used'
    BY <1>1 DEF Once
  <2>1. data'[Counter].left = data[Counter].left
    BY <1>3, CounterFacts
  <2>2. passed[a] <= Used
    BY <1>4, <2>1 DEF Once
  <2> QED
    BY <1>3, <1>4, <1>5, <2>2
<1>9. Dating'
  <2> SUFFICES ASSUME NEW e \in Caller, step'[e] = "dating"
               PROVE  /\ data'[Counter].left = Forever
                      /\ \A f \in Caller : step'[f] = "dating" => f = e
                      /\ granted'[e] =>
                           \A a \in Age :
                             a < Window =>
                               passed'[a] + want'[e] <= Limit + Used'
    BY DEF Dating
  <2>1. /\ data[Counter].left = Forever
        /\ \A f \in Caller : step[f] = "dating" => f = e
        /\ granted[e] =>
             \A a \in Age : a < Window => passed[a] + want[e] <= Limit + Used
    BY <1>4, <1>6 DEF Dating
  <2>2. want[e] \in 1 .. 2
    BY DEF WindowInv, LimitTypeOK
  <2> QED
    BY <1>1, <1>3, <1>4, <1>5, <1>6, <2>1, <2>2, Rates
<1> QED
  BY <1>1, <1>3, <1>7, <1>8, <1>9
     DEF Bounds, CounterBound, Counts, TokenBound, SlidingBound, FixedBound,
         OnlyCounters

\* A step after which the counter says the same, and has the same time left or
\* is gone, while nothing passes.
LEMMA CounterKept ==
  ASSUME WindowInv, kind = "distributed",
         \/ data'[Counter] = data[Counter]
         \/ ~ Live(Counter) /\ ~ Live(Counter)'
  PROVE  /\ Used' = Used
         /\ Counts'
         /\ data'[Counter].left > 0 => data[Counter].left = data'[Counter].left
<1>1. CASE data'[Counter] = data[Counter]
  BY <1>1 DEF Used, Live, Counts, WindowInv, Bounds, CounterBound
<1>2. CASE ~ Live(Counter) /\ ~ Live(Counter)'
  BY <1>2 DEF Used, Live, Counts, isExpired
<1> QED
  BY <1>1, <1>2

\* The expiry is set, or not, and the first request is let pass.
LEMMA DateKeeps ==
  ASSUME LimitInv, WindowInv, NEW c \in Caller, Date(c)
  PROVE  Bounds'
<1>1. /\ step[c] = "dating" /\ kind' = kind /\ want' = want
      /\ Answered(c, granted[c])
      /\ granted' = [granted EXCEPT ![c] = FALSE]
      /\ Expire(Counter, Window) \/ data' = data
  BY DEF Date, cacheVars
<1>2. kind = "distributed"
  BY <1>1 DEF WindowInv, Bounds, OnlyCounters
<1>3. Bounds'
  <2>1. Counts /\ Twice /\ Once /\ Dating
    BY <1>2 DEF WindowInv, Bounds, CounterBound
  <2>2. /\ data[Counter].left = Forever /\ Live(Counter)
        /\ \A e \in Caller : step[e] = "dating" => e = c
        /\ granted[c] =>
             \A a \in Age : a < Window => passed[a] + want[c] <= Limit + Used
    BY <1>1, <2>1, CounterFacts DEF Dating, Live, isExpired
  <2>3. /\ passed \in [Age -> Nat] /\ want[c] \in 1 .. 2
        /\ granted[c] \in BOOLEAN /\ step \in [Caller -> Steps]
        /\ \A a \in Age : a \in Nat /\ passed[a] \in Nat
    BY Rates DEF WindowInv, LimitTypeOK, LimitInv, Asking, Age
  <2>4. PICK n \in 0 .. 2 :
          /\ n <= want[c] /\ (~ granted[c] => n = 0)
          /\ \A a \in Age : passed'[a] = passed[a] + n
    BY <1>1, <2>3, AnsweredCounts DEF WindowInv
  <2>5. /\ data'[Counter].value = data[Counter].value
        /\ data'[Counter].left \in {Window, Forever}
    <3>1. CASE MemoryExpire(Counter, Window)
      <4>1. data' = [data EXCEPT ![Counter].left = Window]
        BY <3>1 DEF MemoryExpire
      <4>2. data[Counter] \in Item
        BY <2>2, Cells, CounterFacts
           DEF Live, LimitInv, CacheInv, TypeOK, Cell
      <4>3. data'[Counter] = [data[Counter] EXCEPT !.left = Window]
        BY <4>1, CounterFacts DEF LimitInv, CacheInv, TypeOK
      <4> QED
        BY <4>2, <4>3 DEF Item
    <3>2. CASE RedisExpire(Counter, Window)
      <4>1. data' = [data EXCEPT ![Counter] =
                       New(data[Counter].value, Window)]
        <5>1. Window # Forever
          BY Rates, CounterFacts
        <5> QED
          BY <3>2, <5>1 DEF RedisExpire, Put, Becomes
      <4>2. data'[Counter] = New(data[Counter].value, Window)
        BY <4>1, CounterFacts DEF LimitInv, CacheInv, TypeOK
      <4> QED
        BY <4>2 DEF New
    <3> QED
      BY <1>1, <2>2, <3>1, <3>2 DEF Expire
  <2>6. Live(Counter)' /\ Used' = Used
    <3>1. Window # 0 /\ Forever # 0
      BY Rates, CounterFacts
    <3>2. Live(Counter)'
      BY <2>5, <3>1 DEF Live, isExpired
    <3> QED
      BY <2>2, <2>5, <3>2 DEF Used
  <2>7. Used \in Nat /\ Used <= Limit
    BY <1>2, UsedIs
  <2>8. Twice'
    BY <2>1, <2>2, <2>3, <2>4, <2>6, <2>7, Rates DEF Twice
  <2>9. Once'
    <3> SUFFICES ASSUME data'[Counter].left > 0, NEW a \in Age,
                        a < Window - data'[Counter].left
                 PROVE  FALSE
      BY DEF Once
    <3>1. data'[Counter].left = Window
      BY <2>5, CounterFacts
    <3> QED
      BY <2>3, <3>1, Rates
  <2>10. \A e \in Caller : step'[e] # "dating"
    <3>1. \E s \in {"denied", "idle"} : step' = [step EXCEPT ![c] = s]
      BY <1>1, AnsweredStep
    <3> QED
      BY <2>2, <2>3, <3>1
  <2>11. Counts'
    BY <2>1, <2>2, <2>5 DEF Counts
  <2> QED
    BY <1>1, <1>2, <2>8, <2>9, <2>10, <2>11
       DEF Bounds, CounterBound, Dating, TokenBound, SlidingBound, FixedBound,
           OnlyCounters
<1> QED
  BY <1>3

LEMMA CleanupKeeps ==
  ASSUME LimitInv, WindowInv, cleanup, UNCHANGED limitVars
  PROVE  Bounds'
<1>1. UNCHANGED <<kind, tokens, since, count, stamps, step, want, granted,
                  passed>>
  BY DEF limitVars, limiter, requests
<1>2. CASE kind # "distributed"
  BY <1>1, <1>2
     DEF WindowInv, Bounds, TokenBound, SlidingBound, FixedBound, CounterBound,
         refill, OnlyCounters
<1>3. CASE kind = "distributed"
  <2>1. data' = [k \in Key |-> IF Live(k) THEN data[k] ELSE None]
    BY DEF cleanup, Becomes
  <2>2. \/ data'[Counter] = data[Counter]
        \/ ~ Live(Counter) /\ ~ Live(Counter)'
    BY <2>1, CounterFacts, Cells DEF Live
  <2>3. /\ Used' = Used /\ Counts'
        /\ data'[Counter].left > 0 =>
             data[Counter].left = data'[Counter].left
    BY <1>3, <2>2, CounterKept
  <2>4. Twice /\ Once /\ Dating
    BY <1>3 DEF WindowInv, Bounds, CounterBound
  <2>5. Twice' /\ Once'
    BY <1>1, <2>3, <2>4 DEF Twice, Once
  <2>6. ASSUME NEW e \in Caller, step[e] = "dating"
        PROVE  data'[Counter] = data[Counter]
    BY <2>1, <2>4, <2>6, CounterFacts DEF Dating, Live, isExpired
  <2>7. Dating'
    BY <1>1, <2>3, <2>4, <2>6 DEF Dating
  <2> QED
    BY <1>1, <1>3, <2>3, <2>5, <2>7
       DEF Bounds, CounterBound, TokenBound, SlidingBound, FixedBound,
           OnlyCounters
<1> QED
  BY <1>2, <1>3

\* A tick makes the timestamps older, and forgets how much past the window.
LEMMA StampsAge ==
  ASSUME LimitTypeOK,
         stamps' = [i \in DOMAIN stamps |-> Least(stamps[i] + 1, Window + 1)]
  PROVE  /\ Len(stamps) \in Nat /\ Len(stamps') = Len(stamps)
         /\ stamps' \in Seq(0 .. Window + 1)
         /\ \A i \in 1 .. Len(stamps) : stamps[i] \in 0 .. Window + 1
         /\ \A i \in 1 .. Len(stamps) :
              stamps'[i] = Least(stamps[i] + 1, Window + 1)
<1>1. /\ Len(stamps) \in Nat /\ DOMAIN stamps = 1 .. Len(stamps)
      /\ \A i \in 1 .. Len(stamps) : stamps[i] \in 0 .. Window + 1
  <2>1. stamps \in Seq(0 .. Window + 1)
    BY DEF LimitTypeOK
  <2>2. Len(stamps) \in Nat /\ DOMAIN stamps = 1 .. Len(stamps)
    BY ONLY <2>1, LenProperties
  <2>3. \A i \in 1 .. Len(stamps) : stamps[i] \in 0 .. Window + 1
    BY ONLY <2>1, ElementOfSeq
  <2> QED
    BY <2>2, <2>3
<1>2. stamps' = [i \in 1 .. Len(stamps) |->
                   Least(stamps[i] + 1, Window + 1)]
  BY <1>1
<1>3. \A i \in 1 .. Len(stamps) : Least(stamps[i] + 1, Window + 1)
                                   \in 0 .. Window + 1
  BY <1>1, Rates DEF Least
<1>4. stamps' \in [1 .. Len(stamps) -> 0 .. Window + 1]
  BY <1>2, <1>3
<1>5. stamps' \in Seq(0 .. Window + 1)
  BY ONLY <1>1, <1>4, SeqDef
<1>6. DOMAIN stamps' = 1 .. Len(stamps) /\ Len(stamps) \in Nat
  BY <1>1, <1>2
<1>7. Len(stamps') \in Nat /\ DOMAIN stamps' = 1 .. Len(stamps')
  BY ONLY <1>5, LenProperties
<1>8. Len(stamps') = Len(stamps)
  BY <1>6, <1>7
<1> QED
  BY <1>1, <1>2, <1>5, <1>8

\* A tick: what passed n ticks ago passed n + 1 ticks ago.
LEMMA TickKeeps ==
  ASSUME LimitInv, WindowInv, Tick
  PROVE  Bounds'
<1>1. /\ Elapse /\ UNCHANGED <<kind, tokens, count, step, want, granted>>
      /\ since' = Least(since + 1, Window + Capacity)
      /\ stamps' = [i \in DOMAIN stamps |-> Least(stamps[i] + 1, Window + 1)]
      /\ passed' = [a \in Age |-> IF a = 0 THEN 0 ELSE passed[a - 1]]
  BY DEF Tick
<1>2. /\ passed \in [Age -> Nat] /\ stamps \in Seq(0 .. Window + 1)
      /\ since \in 0 .. Window + Capacity /\ count \in 0 .. Limit
      /\ tokens \in 0 .. Capacity
  BY DEF WindowInv, LimitTypeOK
<1>3. ASSUME NEW a \in Age
      PROVE  /\ a \in Nat /\ a <= Window
             /\ a = 0 => passed'[a] = 0
             /\ a # 0 => /\ a - 1 \in Age /\ passed'[a] = passed[a - 1]
                         /\ passed[a - 1] \in Nat
  BY <1>1, <1>2, Rates DEF Age
<1>4. since' \in Nat /\ since' <= since + 1
  BY <1>1, <1>2, Rates DEF Least
<1>5. OnlyCounters'
  BY <1>1 DEF WindowInv, Bounds, OnlyCounters
<1>6. CASE kind = "token_bucket"
  <2>1. refill' \in Nat /\ refill' <= refill + Rate /\ refill' <= Capacity
    <3>1. since \in Nat /\ tokens \in Nat
      BY <1>2, Rates
    <3>2. (since + 1) * Rate = since * Rate + Rate /\ since * Rate \in Nat
      BY <3>1, Products
    <3>3. since' * Rate \in Nat /\ since' * Rate <= since * Rate + Rate
      <4>1. since' = since + 1 \/ since' <= since
        BY <1>1, <3>1, Rates DEF Least
      <4>2. \A x, y \in Nat : x <= y => x * Rate <= y * Rate
        BY Rates
      <4>3. CASE since' = since + 1
        BY <3>1, <3>2, <4>3, Rates
      <4>4. CASE since' <= since
        <5>1. since' * Rate <= since * Rate /\ since' * Rate \in Nat
          BY <1>4, <3>1, <4>2, <4>4, Products
        <5> DEFINE p == since * Rate
                   q == since' * Rate
        <5>2. p \in Nat /\ q \in Nat /\ q <= p
          BY <3>2, <5>1
        <5> HIDE DEF p, q
        <5>3. q \in Nat /\ q <= p + Rate
          BY <5>2, Rates
        <5> QED
          BY <5>3 DEF p, q
      <4> QED
        BY <4>1, <4>3, <4>4
    <3>4. refill' = Least(tokens + since' * Rate, Capacity)
      BY <1>1 DEF refill
    <3> DEFINE p == since * Rate
               q == since' * Rate
    <3>5. /\ p \in Nat /\ q \in Nat /\ q <= p + Rate
          /\ refill = Least(tokens + p, Capacity)
          /\ refill' = Least(tokens + q, Capacity)
      BY <3>2, <3>3, <3>4 DEF refill
    <3> HIDE DEF p, q
    <3> QED
      BY <3>1, <3>5, Rates DEF Least
  <2>2. refill \in Nat
    BY Refilled DEF WindowInv
  <2>3. TokenBound'
    <3> SUFFICES ASSUME NEW a \in Age
                 PROVE  passed'[a] + refill' <= Capacity + a * Rate
      BY DEF TokenBound
    <3>1. CASE a = 0
      BY <1>3, <2>1, <3>1, Products, Rates
    <3>2. CASE a # 0
      <4>1. passed[a - 1] + refill <= Capacity + (a - 1) * Rate
        BY <1>3, <1>6, <3>2 DEF WindowInv, Bounds, TokenBound
      <4>2. a * Rate = (a - 1) * Rate + Rate /\ (a - 1) * Rate \in Nat
        <5>1. a - 1 \in Nat /\ a - 1 + 1 = a
          BY <1>3, <3>2
        <5> QED
          BY <5>1, Products
      <4>3. a * Rate \in Nat
        BY <1>3, Products
      <4> QED
        BY <1>3, <2>1, <2>2, <3>2, <4>1, <4>2, <4>3, Rates
    <3> QED
      BY <3>1, <3>2
  <2> QED
    BY <1>1, <1>6, <1>5, <2>3 DEF Bounds, SlidingBound, FixedBound, CounterBound
<1>7. CASE kind = "sliding_window"
  <2>1. /\ Len(stamps) \in Nat /\ Len(stamps') = Len(stamps)
        /\ \A i \in 1 .. Len(stamps) : stamps[i] \in 0 .. Window + 1
        /\ \A i \in 1 .. Len(stamps) :
             stamps'[i] = Least(stamps[i] + 1, Window + 1)
    BY <1>1, StampsAge DEF WindowInv
  <2>2. SlidingBound'
    <3> SUFFICES ASSUME NEW a \in Age
                 PROVE  /\ passed'[a] <= Len(stamps')
                        /\ \A i \in 1 .. Len(stamps') :
                             i > Len(stamps') - passed'[a] => stamps'[i] <= a
      BY DEF SlidingBound
    <3>1. CASE a = 0
      BY <1>3, <2>1, <3>1
    <3>2. CASE a # 0
      <4>1. /\ passed[a - 1] <= Len(stamps)
            /\ \A i \in 1 .. Len(stamps) :
                 i > Len(stamps) - passed[a - 1] => stamps[i] <= a - 1
        BY <1>3, <1>7, <3>2 DEF WindowInv, Bounds, SlidingBound
      <4>2. ASSUME NEW i \in 1 .. Len(stamps), stamps[i] <= a - 1
            PROVE  stamps'[i] <= a
        BY <1>3, <2>1, <4>2, Rates DEF Least
      <4> QED
        BY <1>3, <2>1, <3>2, <4>1, <4>2
    <3> QED
      BY <3>1, <3>2
  <2> QED
    BY <1>1, <1>7, <1>5, <2>2 DEF Bounds, TokenBound, FixedBound, CounterBound
<1>8. CASE kind = "fixed_window"
  <2>1. FixedBound'
    <3> SUFFICES ASSUME NEW a \in Age
                 PROVE  /\ a < Window => passed'[a] <= count + Limit
                        /\ a <= since' => passed'[a] <= count
                        /\ a <= since' - Window => passed'[a] = 0
      BY <1>1 DEF FixedBound
    <3>1. CASE a = 0
      BY <1>2, <1>3, <3>1, Rates
    <3>2. CASE a # 0
      <4>1. /\ a - 1 < Window => passed[a - 1] <= count + Limit
            /\ a - 1 <= since => passed[a - 1] <= count
            /\ a - 1 <= since - Window => passed[a - 1] = 0
        BY <1>3, <1>8, <3>2 DEF WindowInv, Bounds, FixedBound
      <4> QED
        BY <1>2, <1>3, <1>4, <3>2, <4>1, Rates
    <3> QED
      BY <3>1, <3>2
  <2> QED
    BY <1>1, <1>8, <1>5, <2>1 DEF Bounds, TokenBound, SlidingBound, CounterBound
<1>9. CASE kind = "distributed"
  <2> DEFINE i == data[Counter]
             j == data'[Counter]
  <2>1. Counts /\ Twice /\ Once /\ Dating
    BY <1>9 DEF WindowInv, Bounds, CounterBound
  <2>2. i \in Cell /\ i.left \in (0 .. MaxTTL) \cup {Forever}
    BY CounterFacts, Cells DEF LimitInv, CacheInv, TypeOK, Cell
  <2>3. j = Older(i) \/ (j = None /\ Older(i).left = 0)
    BY <1>1, CounterFacts DEF Elapse, isExpired
  <2>4. /\ j.left = IF i.left > 0 THEN i.left - 1 ELSE i.left
        /\ j.left # 0 => j.value = i.value
    <3>1. None.left = 0
      BY DEF None
    <3> QED
      BY <2>2, <2>3, <3>1, Aging
  <2>5. Used \in Nat /\ Used <= Limit /\ (~ Live(Counter) => Used = 0)
    BY <1>9, UsedIs
  <2>6. j.left # 0 => i.left # 0 /\ Used' = Used
    BY <2>2, <2>4, Rates, CounterFacts DEF Used, Live, isExpired
  <2>7. j.left = 0 => Used' = 0
    BY DEF Used, Live, isExpired
  <2>8. Counts'
    BY <2>1, <2>4, <2>6 DEF Counts, Live, isExpired
  <2>9. Twice'
    <3> SUFFICES ASSUME NEW a \in Age, a < Window
                 PROVE  passed'[a] <= Limit + Used'
      BY DEF Twice
    <3>1. Used' \in Nat
      BY <2>5, <2>6, <2>7
    <3>2. CASE a = 0
      BY <1>3, <3>1, <3>2, Rates
    <3>3. CASE a # 0
      <4>1. passed[a - 1] <= Limit + Used
        BY <1>3, <2>1, <3>3, Rates DEF Twice
      <4>2. CASE j.left # 0
        BY <1>3, <2>6, <3>3, <4>1, <4>2
      <4>3. CASE j.left = 0 /\ i.left = 0
        <5>1. Used = 0
          BY <2>5, <4>3 DEF Live, isExpired
        <5> QED
          BY <1>3, <2>7, <3>3, <4>1, <4>3, <5>1
      <4>4. CASE j.left = 0 /\ i.left # 0
        <5>1. i.left = 1
          BY <2>2, <2>4, <4>4, CounterFacts, Rates
        <5>2. a - 1 < Window - i.left
          BY <1>3, <5>1, Rates
        <5>3. passed[a - 1] <= Used
          BY <1>3, <2>1, <3>3, <5>1, <5>2 DEF Once
        <5> QED
          BY <1>3, <2>5, <2>7, <3>3, <4>4, <5>3, Rates
      <4> QED
        BY <4>2, <4>3, <4>4
    <3> QED
      BY <3>2, <3>3
  <2>10. Once'
    <3> SUFFICES ASSUME j.left > 0, NEW a \in Age, a < Window - j.left
                 PROVE  passed'[a] <= Used'
      BY DEF Once
    <3>1. i.left > 0 /\ j.left = i.left - 1 /\ i.left \in Nat
      BY <2>2, <2>4, CounterFacts, Rates
    <3>2. Used' = Used
      BY <2>6, <3>1
    <3>3. CASE a = 0
      BY <1>3, <2>5, <3>2, <3>3
    <3>4. CASE a # 0
      <4>1. a - 1 < Window - i.left
        BY <1>3, <3>1, Rates
      <4>2. passed[a - 1] <= Used
        BY <1>3, <2>1, <3>1, <3>4, <4>1 DEF Once
      <4> QED
        BY <1>3, <3>2, <3>4, <4>2
    <3> QED
      BY <3>3, <3>4
  <2>11. Dating'
    <3> SUFFICES ASSUME NEW e \in Caller, step[e] = "dating"
                 PROVE  /\ j.left = Forever
                        /\ \A f \in Caller : step[f] = "dating" => f = e
                        /\ granted[e] =>
                             \A a \in Age :
                               a < Window =>
                                 passed'[a] + want[e] <= Limit + Used'
      BY <1>1 DEF Dating
    <3>1. /\ i.left = Forever
          /\ \A f \in Caller : step[f] = "dating" => f = e
          /\ granted[e] =>
               \A a \in Age : a < Window => passed[a] + want[e] <= Limit + Used
      BY <2>1 DEF Dating
    <3>2. j.left = Forever /\ Used' = Used
      BY <2>4, <2>6, <3>1, CounterFacts
    <3>3. want[e] \in 1 .. 2
      BY DEF WindowInv, LimitTypeOK
    <3>4. ASSUME granted[e], NEW a \in Age, a < Window
          PROVE  passed'[a] + want[e] <= Limit + Used'
      <4>1. 0 \in Age /\ 0 < Window /\ passed[0] \in Nat
        BY <1>2, Rates DEF Age
      <4>2. passed[0] + want[e] <= Limit + Used
        BY <3>1, <3>4, <4>1
      <4>3. CASE a = 0
        BY <1>3, <2>5, <3>2, <3>3, <4>1, <4>2, <4>3, Rates
      <4>4. CASE a # 0
        BY <1>3, <2>5, <3>1, <3>2, <3>3, <3>4, <4>4, Rates
      <4> QED
        BY <4>3, <4>4
    <3> QED
      BY <3>1, <3>2, <3>4
  <2> QED
    BY <1>1, <1>5, <1>9, <2>8, <2>9, <2>10, <2>11
       DEF Bounds, CounterBound, TokenBound, SlidingBound, FixedBound
<1>10. CASE kind = "none"
  BY <1>1, <1>10, <1>5
     DEF Bounds, CounterBound, TokenBound, SlidingBound, FixedBound
<1> QED
  BY <1>6, <1>7, <1>8, <1>9, <1>10 DEF WindowInv, LimitTypeOK, Kinds

\* The next state's types, when each action has said what it changes.
LEMMA TypesKept ==
  ASSUME LimitInv', LimitTypeOK, kind' = kind,
         tokens' \in 0 .. Capacity, since' \in 0 .. Window + Capacity,
         count' \in 0 .. Limit,
         stamps' \in Seq(0 .. Window + 1), Len(stamps') <= Limit,
         waits' \in [Caller -> BOOLEAN], timer' \in [Caller -> Nat],
         granted' \in [Caller -> BOOLEAN], calls' \in 0 .. MaxCalls,
         passed' \in [Age -> Nat], undated' \in BOOLEAN
  PROVE  LimitTypeOK'
<1>1. TypeOK' /\ want' \in [Caller -> 1 .. 2] /\ step' \in [Caller -> Steps]
  BY DEF LimitInv, CacheInv, Asking
<1> QED
  BY <1>1 DEF LimitTypeOK, Steps

\* What WaitN computes is a number of ticks.
LEMMA SleepTypes ==
  ASSUME LimitInv, LimitTypeOK, NEW c \in Caller, Sleep(c)
  PROVE  timer' \in [Caller -> Nat]
<1>1. want[c] \in Int /\ tokens \in Int /\ since \in Int
  BY Rates DEF LimitTypeOK
<1>2. TokenWait(c) \in Int
  BY <1>1, Rates DEF TokenWait
<1>3. SlidingWait \in Int
  <2>1. stamps \in Seq(0 .. Window + 1)
    BY DEF LimitTypeOK
  <2>2. stamps # <<>> => Head(stamps) \in 0 .. Window + 1
    BY ONLY <2>1, HeadTailProperties
  <2> QED
    BY <2>2, Rates DEF SlidingWait
<1>4. FixedWait \in Int
  BY <1>1, Rates DEF FixedWait
<1>5. DistributedWait \in Int
  <2>1. data[Counter].left \in Int
    BY CounterFacts, Cells, Rates DEF LimitInv, CacheInv, TypeOK, Cell
  <2> QED
    BY <2>1, Rates DEF DistributedWait, TTL
<1>6. PICK sleep : /\ sleep \in Int
                   /\ timer' = [timer EXCEPT ![c] =
                                  IF sleep < 1 THEN 1 ELSE sleep]
  <2>1. CASE kind = "token_bucket"
    BY <1>2, <2>1 DEF Sleep
  <2>2. CASE kind = "sliding_window"
    BY <1>3, <2>2 DEF Sleep
  <2>3. CASE kind = "fixed_window"
    BY <1>4, <2>3 DEF Sleep
  <2>4. CASE kind \notin {"token_bucket", "sliding_window", "fixed_window"}
    BY <1>5, <2>4 DEF Sleep
  <2> QED
    BY <2>1, <2>2, <2>3, <2>4
<1>7. (IF sleep < 1 THEN 1 ELSE sleep) \in Nat
  BY <1>6
<1> QED
  BY <1>6, <1>7 DEF LimitTypeOK

LEMMA WindowTypes ==
  ASSUME LimitInv, LimitInv', WindowInv, [Next]_vars
  PROVE  LimitTypeOK'
<1>1. LimitTypeOK /\ kind \in Kinds \cup {"none"}
  BY DEF WindowInv, LimitTypeOK
<1>2. CASE UNCHANGED limitVars
  BY <1>1, <1>2, TypesKept
     DEF limitVars, limiter, requests, LimitTypeOK
<1>3. ASSUME NEW c \in Caller, NEW n \in 1 .. 2, NEW w \in BOOLEAN,
             Request(c, n, w)
      PROVE  LimitTypeOK'
  <2>1. calls' \in 0 .. MaxCalls /\ waits' \in [Caller -> BOOLEAN]
    BY <1>1, <1>3, Rates DEF Request, LimitTypeOK
  <2> QED
    BY <1>1, <1>3, <2>1, TypesKept DEF Request, limiter, LimitTypeOK
<1>4. ASSUME NEW c \in Caller, NEW ok \in BOOLEAN, Answered(c, ok)
      PROVE  passed' \in [Age -> Nat]
  BY <1>1, <1>4, AnsweredCounts
<1>5. ASSUME NEW c \in Caller, TokenAllowN(c)
      PROVE  LimitTypeOK'
  <2>1. /\ tokens' \in 0 .. Capacity /\ since' \in 0 .. Window + Capacity
        /\ passed' \in [Age -> Nat]
    BY <1>5, TokenKeeps, Rates DEF TokenAllowN
  <2> QED
    BY <1>1, <1>5, <2>1, TypesKept DEF TokenAllowN, Local, LimitTypeOK
<1>6. ASSUME NEW c \in Caller, SlidingAllowN(c)
      PROVE  LimitTypeOK'
  <2>1. /\ stamps' \in Seq(0 .. Window + 1) /\ Len(stamps') <= Limit
        /\ passed' \in [Age -> Nat]
    BY <1>6, SlidingKeeps
  <2> QED
    BY <1>1, <1>6, <2>1, TypesKept DEF SlidingAllowN, Local, LimitTypeOK
<1>7. ASSUME NEW c \in Caller, FixedAllowN(c)
      PROVE  LimitTypeOK'
  <2>1. /\ since' \in 0 .. Window + Capacity /\ count' \in 0 .. Limit
        /\ passed' \in [Age -> Nat]
    BY <1>7, FixedKeeps
  <2> QED
    BY <1>1, <1>7, <2>1, TypesKept DEF FixedAllowN, Local, LimitTypeOK
<1>8. ASSUME NEW c \in Caller, AllowNWithKey(c)
      PROVE  LimitTypeOK'
  <2> DEFINE ok == data'[Counter].value <= Limit
  <2>1. CASE First(c)
    <3>1. /\ granted' = [granted EXCEPT ![c] = ok]
          /\ passed' = passed /\ undated' = undated
      BY <1>8, <2>1 DEF AllowNWithKey
    <3>2. granted' \in [Caller -> BOOLEAN]
      BY <1>1, <3>1 DEF LimitTypeOK
    <3> QED
      BY <1>1, <1>8, <3>1, <3>2, TypesKept
         DEF AllowNWithKey, limiter, LimitTypeOK
  <2>2. CASE ~ First(c)
    <3>1. Answered(c, ok) /\ granted' = granted /\ undated' \in BOOLEAN
      BY <1>8, <2>2 DEF AllowNWithKey
    <3>2. ok \in BOOLEAN
      OBVIOUS
    <3> HIDE DEF ok
    <3>3. passed' \in [Age -> Nat]
      BY <1>4, <3>1, <3>2
    <3> QED
      BY <1>1, <1>8, <3>1, <3>3, TypesKept
         DEF AllowNWithKey, limiter, LimitTypeOK
  <2> QED
    BY <2>1, <2>2
<1>9. ASSUME NEW c \in Caller, Date(c)
      PROVE  LimitTypeOK'
  <2>1. /\ Answered(c, granted[c]) /\ granted' = [granted EXCEPT ![c] = FALSE]
        /\ undated' \in BOOLEAN
    BY <1>1, <1>9 DEF Date, LimitTypeOK
  <2>2. passed' \in [Age -> Nat] /\ granted' \in [Caller -> BOOLEAN]
    BY <1>1, <1>4, <2>1 DEF LimitTypeOK
  <2> QED
    BY <1>1, <1>9, <2>1, <2>2, TypesKept DEF Date, limiter, LimitTypeOK
<1>10f. ASSUME NEW c \in Caller, FailOpen(c)
        PROVE  LimitTypeOK'
  <2>1. undated' \in BOOLEAN
    BY <1>1, <1>10f, Zenon DEF FailOpen, LimitTypeOK
  <2> QED
    BY <1>1, <1>10f, <2>1, TypesKept DEF FailOpen, limiter, LimitTypeOK
<1>10. ASSUME NEW c \in Caller, Wake(c)
       PROVE  LimitTypeOK'
  BY <1>1, <1>10, TypesKept DEF Wake, limiter, LimitTypeOK
<1>11. ASSUME NEW c \in Caller, Crash(c)
       PROVE  LimitTypeOK'
  <2>1. granted' \in [Caller -> BOOLEAN] /\ undated' \in BOOLEAN
    BY <1>1, <1>11 DEF Crash, LimitTypeOK
  <2> QED
    BY <1>1, <1>11, <2>1, TypesKept DEF Crash, limiter, LimitTypeOK
<1>12. ASSUME NEW c \in Caller, Sleep(c)
       PROVE  LimitTypeOK'
  <2>1. timer' \in [Caller -> Nat]
    BY <1>1, <1>12, SleepTypes
  <2> QED
    BY <1>1, <1>12, <2>1, TypesKept DEF Sleep, limiter, LimitTypeOK
<1>13. ASSUME NEW c \in Caller, Cancel(c)
       PROVE  LimitTypeOK'
  <2>1. timer' \in [Caller -> Nat]
    BY <1>1, <1>13 DEF Cancel, LimitTypeOK
  <2> QED
    BY <1>1, <1>13, <2>1, TypesKept DEF Cancel, limiter, LimitTypeOK
<1>14. CASE Tick
  <2>1. since' \in 0 .. Window + Capacity
    BY <1>1, <1>14, Rates DEF Tick, Least, LimitTypeOK
  <2>2. stamps' \in Seq(0 .. Window + 1) /\ Len(stamps') <= Limit
    BY <1>1, <1>14, StampsAge DEF Tick, LimitTypeOK
  <2>3. timer' \in [Caller -> Nat]
    BY <1>1, <1>14 DEF Tick, LimitTypeOK
  <2>4. passed' \in [Age -> Nat]
    <3>1. \A a \in Age : a # 0 => a - 1 \in Age
      BY Rates DEF Age
    <3> QED
      BY <1>1, <1>14, <3>1 DEF Tick, LimitTypeOK
  <2> QED
    BY <1>1, <1>14, <2>1, <2>2, <2>3, <2>4, TypesKept DEF Tick, LimitTypeOK
<1> QED
  BY <1>2, <1>3, <1>5, <1>6, <1>7, <1>8, <1>9, <1>10f, <1>10, <1>11, <1>12,
     <1>13, <1>14 DEF Next, Try, vars

LEMMA InitWindow == Init => WindowInv
<1> SUFFICES ASSUME Init PROVE WindowInv
  OBVIOUS
<1>1. LimitInv
  BY InitLimit
<1>2. /\ tokens = Capacity /\ since = 0 /\ count = 0 /\ stamps = <<>>
      /\ passed = [a \in Age |-> 0] /\ calls = 0 /\ undated = FALSE
      /\ step = [c \in Caller |-> "idle"]
      /\ waits = [c \in Caller |-> FALSE] /\ timer = [c \in Caller |-> 0]
      /\ granted = [c \in Caller |-> FALSE]
      /\ kind \in Kinds \cup {"none"}
  BY DEF Init, NewTokenBucket, NewSlidingWindow, NewFixedWindow
<1>3. stamps \in Seq(0 .. Window + 1) /\ Len(stamps) = 0
  BY <1>2
<1>4. LimitTypeOK
  <2>1. TypeOK /\ want \in [Caller -> 1 .. 2] /\ step \in [Caller -> Steps]
    BY <1>1 DEF LimitInv, CacheInv, Asking
  <2>2. /\ waits \in [Caller -> BOOLEAN] /\ timer \in [Caller -> Nat]
        /\ granted \in [Caller -> BOOLEAN] /\ passed \in [Age -> Nat]
        /\ undated \in BOOLEAN
    BY <1>2
  <2>3. /\ tokens \in 0 .. Capacity /\ since \in 0 .. Window + Capacity
        /\ count \in 0 .. Limit /\ calls \in 0 .. MaxCalls
        /\ Len(stamps) <= Limit
    BY <1>2, <1>3, Rates
  <2> QED
    BY <1>2, <1>3, <2>1, <2>2, <2>3 DEF LimitTypeOK, Steps
<1>5. TokenBound
  <2>1. refill = Capacity
    BY <1>2, Products, Rates DEF refill, Least
  <2> QED
    BY <1>2, <2>1, Products, Rates DEF TokenBound, Age
<1>6. SlidingBound /\ FixedBound
  BY <1>2, <1>3, Rates DEF SlidingBound, FixedBound, Age
<1>7. CounterBound
  <2>1. data[Counter].left = 0
    BY CounterFacts DEF Init, CacheInit, NewMemoryCache, None
  <2>2. ~ Live(Counter) /\ Used = 0
    BY <2>1 DEF Live, isExpired, Used
  <2> QED
    BY <1>2, <2>1, <2>2, Rates
       DEF CounterBound, Counts, Twice, Once, Dating
<1> QED
  BY <1>2, <1>4, <1>5, <1>6, <1>7 DEF WindowInv, Bounds, OnlyCounters

LEMMA NextWindow ==
  LimitInv /\ LimitInv' /\ WindowInv /\ [Next]_vars => WindowInv'
<1> SUFFICES ASSUME LimitInv, LimitInv', WindowInv, [Next]_vars
             PROVE  WindowInv'
  OBVIOUS
<1>1. LimitTypeOK'
  BY WindowTypes
<1>2. /\ step \in [Caller -> Steps] /\ want \in [Caller -> 1 .. 2]
      /\ granted \in [Caller -> BOOLEAN]
  BY DEF WindowInv, LimitTypeOK, Steps
<1>3. CASE kind = "none" /\ CacheNext /\ UNCHANGED limitVars
  <2>1. kind' = "none" /\ step' = step
    BY <1>3 DEF limitVars, requests
  <2>2. OnlyCounters'
    BY <1>3, <2>1 DEF OnlyCounters, WindowInv, Bounds
  <2>3. TokenBound' /\ SlidingBound' /\ FixedBound'
    BY <2>1 DEF TokenBound, SlidingBound, FixedBound
  <2>4. CounterBound'
    BY <2>1 DEF CounterBound
  <2> QED
    BY <1>1, <2>2, <2>3, <2>4 DEF Bounds, WindowInv
<1>4. ASSUME NEW c \in Caller, NEW n \in 1 .. 2, NEW w \in BOOLEAN,
             Request(c, n, w)
      PROVE  Bounds'
  <2>1. /\ step[c] = "idle" /\ step' = [step EXCEPT ![c] = "trying"]
        /\ want' = [want EXCEPT ![c] = n]
        /\ UNCHANGED <<cacheVars, kind, limiter, granted, passed>>
    BY <1>4 DEF Request
  <2>2. \A e \in Caller : step'[e] = "dating" =>
          step[e] = "dating" /\ want'[e] = want[e] /\ granted'[e] = granted[e]
    BY <1>2, <2>1
  <2> QED
    BY <2>1, <2>2, StillBounds DEF cacheVars
<1>5. ASSUME NEW c \in Caller, Try(c) \/ Date(c)
      PROVE  Bounds'
  BY <1>5, TokenKeeps, SlidingKeeps, FixedKeeps, AllowKeeps, DateKeeps DEF Try
<1>6f. ASSUME NEW c \in Caller, FailOpen(c), IncrementBy(Counter, want[c])
       PROVE  Bounds'
  BY <1>6f, FailKeeps
<1>6g. ASSUME NEW c \in Caller, FailOpen(c)
       PROVE  IncrementBy(Counter, want[c]) \/ UNCHANGED cacheVars
  BY <1>6g DEF FailOpen
<1>6. ASSUME NEW c \in Caller,
             \/ FailOpen(c) /\ UNCHANGED cacheVars
             \/ Crash(c) \/ Sleep(c) \/ Wake(c) \/ Cancel(c)
      PROVE  Bounds'
  <2>1. /\ \E s \in {"idle", "dead", "sleeping", "trying"} :
             step' = [step EXCEPT ![c] = s]
        /\ granted' = granted \/ granted' = [granted EXCEPT ![c] = FALSE]
        /\ UNCHANGED <<cacheVars, kind, limiter, want, passed>>
    BY <1>6 DEF FailOpen, Crash, Sleep, Wake, Cancel
  <2>2. \A e \in Caller : step'[e] = "dating" =>
          step[e] = "dating" /\ want'[e] = want[e] /\ granted'[e] = granted[e]
    BY <1>2, <2>1
  <2> QED
    BY <2>1, <2>2, StillBounds DEF cacheVars
<1>7. CASE UNCHANGED vars
  <2>1. UNCHANGED <<data, kind, limiter, passed, step, want, granted>>
    BY <1>7 DEF vars, cacheVars, limitVars, requests
  <2> QED
    BY <1>1, <2>1, StillBounds DEF WindowInv
<1> QED
  BY <1>1, <1>3, <1>4, <1>5, <1>6f, <1>6g, <1>6, <1>7, CleanupKeeps, TickKeeps
     DEF Next, WindowInv

\* In every state the limiters' variables have their types, and what they keep
\* accounts for what passed in their windows.
THEOREM WindowAlways == Spec => []WindowInv
BY InitWindow, NextWindow, LimitAlways, PTL DEF Spec

\* The variables of the limiters and of the cache have their types.
THEOREM TypeCorrect == Spec => []LimitTypeOK
<1>1. WindowInv => LimitTypeOK
  BY DEF WindowInv
<1> QED
  BY <1>1, WindowAlways, PTL

\* The limiters of ratelimit.go and distributed.go, whatever the requests and
\* for all limits: a bucket lets through no more than it holds and gets, a
\* sliding window its limit in every window, a fixed one and the counter of the
\* distributed limiter no more than two limits in a window's time, and a
\* Redis counter does not stay without a cause.
THEOREM CountersAreSound == Spec => []CounterSound
<1>1. WindowInv /\ LimitInv => CounterSound
  <2> SUFFICES ASSUME WindowInv, LimitInv PROVE WindowBound /\ OrphanCause
    BY DEF CounterSound
  <2>1. /\ Window \in Age /\ Window - 1 \in Age /\ Window - 1 < Window
        /\ \A a \in Age : a \in Nat
        /\ passed \in [Age -> Nat]
    BY Rates DEF Age, WindowInv, LimitTypeOK
  <2>2. CASE kind = "token_bucket"
    <3> SUFFICES ASSUME NEW n \in Age
                 PROVE  passed[n] <= Capacity + n * Rate
      BY <2>2 DEF LimitInv, WindowBound
    <3>1. passed[n] + refill <= Capacity + n * Rate
      BY <2>2 DEF WindowInv, Bounds, TokenBound
    <3>2. n * Rate \in Nat /\ refill \in Nat
      BY <2>1, Products, Refilled DEF WindowInv
    <3> QED
      BY <2>1, <3>1, <3>2, Rates
  <2>3. CASE kind = "sliding_window"
    <3>1. passed[Window] <= Len(stamps) /\ Len(stamps) <= Limit
          /\ stamps \in Seq(0 .. Window + 1)
      BY <2>1, <2>3 DEF WindowInv, Bounds, SlidingBound, LimitTypeOK
    <3>2. Len(stamps) \in Nat
      BY <3>1
    <3> QED
      BY <2>1, <2>3, <3>1, <3>2, Rates DEF WindowBound, LimitInv
  <2>4. CASE kind = "fixed_window"
    <3>1. passed[Window - 1] <= count + Limit /\ count \in 0 .. Limit
      BY <2>1, <2>4 DEF WindowInv, Bounds, FixedBound, LimitTypeOK
    <3> QED
      BY <2>1, <2>4, <3>1, Rates DEF WindowBound, LimitInv
  <2>5. CASE kind = "distributed"
    <3>1. passed[Window - 1] <= Limit + Used /\ Used \in Nat /\ Used <= Limit
      BY <2>1, <2>5, UsedIs DEF WindowInv, Bounds, CounterBound, Twice
    <3> QED
      BY <2>1, <2>5, <3>1, Rates DEF WindowBound, LimitInv
  <2>6. CASE kind = "none"
    BY <2>6 DEF WindowBound, LimitInv
  <2> QED
    BY <2>2, <2>3, <2>4, <2>5, <2>6 DEF WindowInv, LimitTypeOK, Kinds
<1> QED
  BY <1>1, WindowAlways, LimitAlways, PTL
=============================================================================
