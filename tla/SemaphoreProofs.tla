--------------------------- MODULE SemaphoreProofs ---------------------------
(* Theorems about Semaphore, for any requests, permits, times and faults. *)
EXTENDS Semaphore, FiniteSetTheorems, TLAPS

-----------------------------------------------------------------------------
(* The inductive invariant.                                                *)

\* The requests that were given a permit.
Permitted == {c \in Client : pc[c] \in Holding \cup {"dating", "renewing"}}

\* The counter is what it has to count, and what was never given back, less
\* what it missed; as it decides who gets a permit, that is all it is off by.
Exact ==
  /\ count = Cardinality(Counting) + leaked
  /\ 0 <= leaked + short
  /\ Cardinality(Permitted) <= Size + short

\* The key of a permit is going to expire, and what it has left and the time the
\* request has had its permit make up the whole ttl, at least.
Renewed ==
  \A c \in Client : pc[c] \in Holding => left > 0 /\ left + spent[c] >= TTL

\* As long as nothing was lost, the counter misses nothing.
Kept == leaked >= 0 /\ short = 0 /\ (count # 0 => present) /\ Renewed

SemInv == TypeOK /\ Exact /\ (~ lost => Kept)

-----------------------------------------------------------------------------
(* How many there are.                                                     *)

\* Requests come to a set, stay in it or leave it one at a time.
LEMMA CardJoin ==
  ASSUME NEW S \in SUBSET Client, NEW T \in SUBSET Client,
         NEW c \in Client, c \notin S, T = S \cup {c}
  PROVE  Cardinality(T) = Cardinality(S) + 1
<1>1. IsFiniteSet(S) BY SemaphoreAssumption, FS_Subset
<1> QED BY <1>1, FS_AddElement

LEMMA CardLeave ==
  ASSUME NEW S \in SUBSET Client, NEW T \in SUBSET Client,
         NEW c \in Client, c \in S, T = S \ {c}
  PROVE  Cardinality(T) = Cardinality(S) - 1
<1>1. IsFiniteSet(S) BY SemaphoreAssumption, FS_Subset
<1> QED BY <1>1, FS_RemoveElement

LEMMA CardUpTo ==
  ASSUME NEW S \in SUBSET Client, NEW T \in SUBSET S
  PROVE  /\ Cardinality(S) \in Nat /\ Cardinality(T) \in Nat
         /\ Cardinality(T) <= Cardinality(S)
<1>1. IsFiniteSet(S) /\ IsFiniteSet(T) /\ T \in SUBSET Client
  BY SemaphoreAssumption, FS_Subset
<1>2. Cardinality(S) \in Nat /\ Cardinality(T) \in Nat
  BY <1>1, FS_CardinalityType
<1> QED BY <1>1, <1>2, FS_Subset

-----------------------------------------------------------------------------
(* Typing.                                                                 *)

LEMMA InitTyped == Init => TypeOK
<1> SUFFICES ASSUME Init PROVE TypeOK
  OBVIOUS
<1>1. 0 \in - MaxCount .. MaxCount /\ 0 \in 0 .. TTL /\ 0 \in 0 .. HoldMax
  BY SemaphoreAssumption
<1>2. spent \in [Client -> 0 .. HoldMax] BY <1>1 DEF Init
<1>3. leaked \in Int /\ leaked <= MaxCount /\ short \in Nat
  BY SemaphoreAssumption DEF Init
<1>4. pc \in [Client -> {"idle"}] BY DEF Init
<1> QED BY <1>1, <1>2, <1>3, <1>4 DEF Init, TypeOK

\* What a command does to the counter and its key, and to what is known of them.
KeyTyped == /\ present \in BOOLEAN /\ count \in - MaxCount .. MaxCount
            /\ left \in 0 .. TTL /\ leaked \in Int /\ leaked <= MaxCount
            /\ short \in Nat /\ lost \in BOOLEAN

LEMMA LeakTyped ==
  TypeOK /\ Leak => leaked' \in Int /\ leaked' <= MaxCount /\ short' \in Nat
BY SemaphoreAssumption DEF TypeOK, Leak

LEMMA OffTyped ==
  ASSUME TypeOK, NEW n \in Int, n <= MaxCount, Off(n)
  PROVE  leaked' \in Int /\ leaked' <= MaxCount /\ short' \in Nat
BY DEF TypeOK, Off

LEMMA AddTyped ==
  ASSUME TypeOK, NEW n \in Int, Add(n)
  PROVE  /\ present' \in BOOLEAN /\ count' \in - MaxCount .. MaxCount
         /\ left' \in 0 .. TTL
BY DEF TypeOK, Add

LEMMA DecrementTyped == TypeOK /\ Decrement => KeyTyped'
<1> SUFFICES ASSUME TypeOK, Decrement PROVE KeyTyped'
  OBVIOUS
<1>1. CASE Add(-1) /\ UNCHANGED <<leaked, short, lost>>
  BY <1>1, AddTyped DEF TypeOK, KeyTyped
<1>2. CASE Leak /\ UNCHANGED <<key, lost>>
  BY <1>2, LeakTyped DEF TypeOK, KeyTyped, key
<1>3. CASE Add(-2) /\ Off(leaked - 1) /\ lost' = (lost \/ leaked' < 0)
  <2>1. leaked' \in Int /\ leaked' <= MaxCount /\ short' \in Nat
    <3>1. leaked - 1 \in Int /\ leaked - 1 <= MaxCount
      BY SemaphoreAssumption DEF TypeOK
    <3> QED BY <1>3, <3>1, OffTyped
  <2>2. lost' \in BOOLEAN BY <1>3, Zenon DEF TypeOK
  <2> QED BY <1>3, <2>1, <2>2, AddTyped DEF KeyTyped
<1> QED BY <1>1, <1>2, <1>3 DEF Decrement

LEMMA ExpireTyped ==
  TypeOK /\ UNCHANGED <<leaked, short>> /\ (Expire \/ LoseExpire) => KeyTyped'
<1> SUFFICES ASSUME TypeOK, UNCHANGED <<leaked, short>>, Expire \/ LoseExpire
             PROVE  KeyTyped'
  OBVIOUS
<1>1. CASE Expire
  <2>1. left' \in {TTL, 0} BY <1>1 DEF Expire
  <2>2. left' \in 0 .. TTL BY <2>1, SemaphoreAssumption
  <2> QED BY <1>1, <2>2 DEF TypeOK, KeyTyped, Expire
<1>2. CASE LoseExpire
  BY <1>2 DEF TypeOK, KeyTyped, LoseExpire, key
<1> QED BY <1>1, <1>2

LEMMA NextTyped == TypeOK /\ [Next]_vars => TypeOK'
<1> SUFFICES ASSUME TypeOK, [Next]_vars PROVE TypeOK'
  OBVIOUS
<1>t. ASSUME KeyTyped', spent' \in [Client -> 0 .. HoldMax],
             NEW c \in Client, NEW s \in {"idle", "asking", "waiting", "dead",
               "dating", "undoing", "renewing", "holding", "releasing"},
             Goto(c, s)
      PROVE  TypeOK'
  BY <1>t DEF TypeOK, KeyTyped, Goto, Counted, Calling, Holding
<1>k. ASSUME UNCHANGED <<key, leaked, short, lost>> PROVE KeyTyped'
  BY <1>k DEF TypeOK, KeyTyped, key
<1>s. ASSUME UNCHANGED spent PROVE spent' \in [Client -> 0 .. HoldMax]
  BY <1>s DEF TypeOK
<1>1. CASE UNCHANGED vars BY <1>1 DEF vars, key, TypeOK
<1>2. CASE Tick
  <2>1. left' \in 0 .. TTL BY <1>2, SemaphoreAssumption DEF Tick, TypeOK
  <2>2. spent' \in [Client -> 0 .. HoldMax]
    BY <1>2, SemaphoreAssumption DEF Tick, TypeOK
  <2>3. /\ count' \in - MaxCount .. MaxCount /\ present' \in BOOLEAN
        /\ leaked' \in Int /\ leaked' <= MaxCount /\ short' \in Nat
        /\ lost' \in BOOLEAN
    <3>1. CASE left = 1
      <4>1. Counting \in SUBSET Client BY DEF Counting
      <4>2. Cardinality(Counting) \in Nat BY <4>1, CardUpTo
      <4>3. /\ 0 - Cardinality(Counting) \in Int
            /\ 0 - Cardinality(Counting) <= MaxCount
        BY <4>2, SemaphoreAssumption
      <4>4. lost' \in BOOLEAN BY <1>2, <3>1, Zenon DEF Tick
      <4>5. Off(0 - Cardinality(Counting)) /\ present' = FALSE /\ count' = 0
        BY <1>2, <3>1, Zenon DEF Tick
      <4>6. leaked' \in Int /\ leaked' <= MaxCount /\ short' \in Nat
        BY <4>3, <4>5, OffTyped
      <4>7. 0 \in - MaxCount .. MaxCount BY SemaphoreAssumption
      <4> QED BY <4>4, <4>5, <4>6, <4>7
    <3>2. CASE left # 1 BY <1>2, <3>2 DEF Tick, TypeOK
    <3> QED BY <3>1, <3>2
  <2> QED BY <1>2, <2>1, <2>2, <2>3 DEF Tick, TypeOK
<1>3. ASSUME NEW c \in Client, Begin(c) PROVE TypeOK'
  <2>1. spent' \in [Client -> 0 .. HoldMax]
    BY <1>3, SemaphoreAssumption DEF Begin, TypeOK
  <2> QED BY <1>3, <1>k, <1>t, <2>1 DEF Begin
<1>4. ASSUME NEW c \in Client, Crash(c) PROVE TypeOK'
  <2>1. KeyTyped' BY <1>4, LeakTyped DEF Crash, KeyTyped, TypeOK, key
  <2> QED BY <1>4, <1>s, <1>t, <2>1 DEF Crash
<1>5. ASSUME NEW c \in Client, Serve(c) PROVE TypeOK'
  <2>1. CASE Increment(c)
    <3>1. KeyTyped'
      BY <2>1, LeakTyped, AddTyped DEF Increment, KeyTyped, TypeOK, key
    <3> QED BY <2>1, <1>s, <1>t, <3>1 DEF Increment, NoPermit
  <2>2. CASE SetExpiry(c)
    BY <2>2, <1>s, <1>t, ExpireTyped DEF SetExpiry
  <2>3. CASE Undo(c)
    BY <2>3, <1>s, <1>t, DecrementTyped DEF Undo, NoPermit
  <2>4. CASE Refresh(c)
    BY <2>4, <1>s, <1>t, ExpireTyped DEF Refresh
  <2>5. CASE EndRequest(c) BY <2>5, <1>k, <1>s, <1>t DEF EndRequest
  <2>6. CASE Release(c) BY <2>6, <1>s, <1>t, DecrementTyped DEF Release
  <2>7. CASE Retry(c) BY <2>7, <1>k, <1>s, <1>t DEF Retry
  <2>8. CASE Cancel(c) BY <2>8, <1>k, <1>s, <1>t DEF Cancel
  <2> QED BY <1>5, <2>1, <2>2, <2>3, <2>4, <2>5, <2>6, <2>7, <2>8 DEF Serve
<1> QED BY <1>1, <1>2, <1>3, <1>4, <1>5 DEF Next

-----------------------------------------------------------------------------
(* The invariant.                                                          *)

\* What there is to count with.
Numbers == /\ count \in Int /\ leaked \in Int /\ short \in Nat
           /\ left \in Nat /\ Size \in Nat \ {0}
           /\ Cardinality(Counting) \in Nat /\ Cardinality(Permitted) \in Nat

LEMMA TypedNumbers == TypeOK => Numbers
<1> SUFFICES ASSUME TypeOK PROVE Numbers
  OBVIOUS
<1>1. Counting \in SUBSET Client /\ Permitted \in SUBSET Client
  BY DEF Counting, Permitted
<1> QED BY <1>1, CardUpTo, SemaphoreAssumption DEF TypeOK, Numbers

\* A request that is counted makes a counter that misses none positive, and its
\* key is there.
LEMMA CountedPresent ==
  ASSUME TypeOK, Exact, Kept, NEW c \in Client, pc[c] \in Counted
  PROVE  count > 0 /\ present
<1>1. c \in Counting /\ Counting \in SUBSET Client BY DEF Counting
<1>2. Counting \ {c} \in SUBSET Counting OBVIOUS
<1>3. /\ Cardinality(Counting) \in Nat
      /\ Cardinality(Counting \ {c}) \in Nat
      /\ Cardinality(Counting \ {c}) = Cardinality(Counting) - 1
  BY <1>1, <1>2, CardUpTo, CardLeave
<1> QED BY <1>3, TypedNumbers DEF Exact, Kept, Numbers

\* Between requests of a permit nothing is counted that does not hold one.
LEMMA NobodyCounted ==
  ASSUME \A c \in Client : pc[c] \notin Counted
  PROVE  Cardinality(Counting) = 0
<1>1. Counting = {} BY DEF Counting
<1> QED BY <1>1, FS_EmptySet

\* A request moves, and the others stay where they are.
Moves(c, S, T) ==
  /\ pc[c] \in S /\ pc'[c] \in T
  /\ \A d \in Client \ {c} : pc'[d] = pc[d]

\* Nothing else than a loss makes a count lost, and it stays so.
LEMMA LostStays == TypeOK /\ [Next]_vars /\ lost => lost'
<1> SUFFICES ASSUME TypeOK, [Next]_vars, lost PROVE lost'
  OBVIOUS
<1>1. CASE UNCHANGED lost BY <1>1
<1>2. ASSUME NEW c \in Client, Serve(c) PROVE lost'
  BY <1>2 DEF Serve, Increment, SetExpiry, Undo, Refresh, EndRequest, Release,
              Retry, Cancel, Decrement, Expire, LoseExpire, key
<1> QED BY <1>1, <1>2 DEF Next, vars, Tick, Begin, Crash

\* A request that is not counted before and after, or both.
LEMMA CountingSame ==
  ASSUME NEW c \in Client, NEW S, NEW T, Moves(c, S, T),
         \/ S \cap Counted = {} /\ T \cap Counted = {}
         \/ S \subseteq Counted /\ T \subseteq Counted
  PROVE  Counting' = Counting
BY DEF Moves, Counting

LEMMA CountingJoin ==
  ASSUME NEW c \in Client, NEW S, NEW T, Moves(c, S, T),
         S \cap Counted = {}, T \subseteq Counted
  PROVE  Cardinality(Counting)' = Cardinality(Counting) + 1
<1>1. c \notin Counting /\ Counting' = Counting \cup {c}
  BY DEF Moves, Counting
<1>2. Counting \in SUBSET Client /\ Counting' \in SUBSET Client
  BY DEF Counting
<1> QED BY <1>1, <1>2, CardJoin

LEMMA CountingLeave ==
  ASSUME NEW c \in Client, NEW S, NEW T, Moves(c, S, T),
         S \subseteq Counted, T \cap Counted = {}
  PROVE  Cardinality(Counting)' = Cardinality(Counting) - 1
<1>1. c \in Counting /\ Counting' = Counting \ {c}
  BY DEF Moves, Counting
<1>2. Counting \in SUBSET Client /\ Counting' \in SUBSET Client
  BY DEF Counting
<1> QED BY <1>1, <1>2, CardLeave

\* No permit is given where none is newly held.
LEMMA PermittedLess ==
  ASSUME TypeOK, TypeOK', Exact, short' >= short,
         \A c \in Client : pc'[c] \in Holding \cup {"dating", "renewing"} =>
                             pc[c] \in Holding \cup {"dating", "renewing"}
  PROVE  Cardinality(Permitted)' <= Size + short'
<1>1. Permitted' \in SUBSET Permitted /\ Permitted \in SUBSET Client
  BY DEF Permitted
<1>2. Cardinality(Permitted') <= Cardinality(Permitted)
      /\ Cardinality(Permitted') \in Nat
  BY <1>1, CardUpTo
<1> QED BY <1>2, TypedNumbers DEF Exact, Numbers, TypeOK

Sound == Exact /\ (~ lost => Kept)

LEMMA UpTo ==
  ASSUME NEW n \in Int, NEW l \in Int, NEW s \in Int, NEW m \in Int,
         n + l <= m, 0 <= l + s
  PROVE  n <= m + s
OBVIOUS

\* INCR: the reply that grants a permit counts everybody who has one, but for
\* those the counter missed.
LEMMA IncrementSound ==
  ASSUME TypeOK, TypeOK', Sound, NEW c \in Client, Increment(c)
  PROVE  Sound'
<1>0. Numbers /\ Numbers' /\ UNCHANGED lost
  <2>1. Numbers /\ (TypeOK => Numbers)' BY TypedNumbers, PTL
  <2> QED BY <2>1 DEF Increment
<1>1. UNCHANGED short /\ UNCHANGED left
  BY DEF Increment, Leak, Add, key
<1>2. Renewed => Renewed'
  BY <1>1 DEF Renewed, Increment, NoPermit, Goto, Holding, TypeOK
<1>3. pc[c] = "asking" /\ \A d \in Client \ {c} : pc'[d] = pc[d]
  BY DEF Increment, NoPermit, Goto, TypeOK
<1>4. CASE /\ \/ Add(1) /\ UNCHANGED <<leaked, short>>
              \/ Add(2) /\ Leak
           /\ Goto(c, IF count' = 1 THEN "dating"
                      ELSE IF count' > Size THEN "undoing" ELSE "renewing")
  <2>1. pc'[c] = IF count' = 1 THEN "dating"
                 ELSE IF count' > Size THEN "undoing" ELSE "renewing"
    BY <1>4 DEF Goto, TypeOK
  <2>2. /\ pc'[c] \in {"dating", "undoing", "renewing"}
        /\ pc'[c] # "undoing" => count' <= Size
    BY <1>0, <2>1 DEF Numbers
  <2>3. Moves(c, {"asking"}, {"dating", "undoing", "renewing"})
    BY <1>3, <2>2 DEF Moves
  <2>4. Cardinality(Counting)' = Cardinality(Counting) + 1
    BY <2>3, CountingJoin DEF Counted, Calling, Holding
  <2>5p. present' BY <1>4 DEF Add
  <2>5. /\ count' = Cardinality(Counting)' + leaked'
        /\ 0 <= leaked' + short' /\ leaked' >= leaked
    <3>0. Exact BY DEF Sound
    <3>1. CASE Add(1) /\ UNCHANGED <<leaked, short>>
      BY <1>0, <2>4, <3>0, <3>1 DEF Exact, Add, Numbers
    <3>2. CASE Add(2) /\ Leak
      BY <1>0, <2>4, <3>0, <3>2 DEF Exact, Add, Leak, Numbers
    <3> QED BY <1>4, <3>1, <3>2
  <2>6. Cardinality(Permitted)' <= Size + short'
    <3>1. CASE pc'[c] = "undoing"
      <4>1. \A d \in Client :
              pc'[d] \in Holding \cup {"dating", "renewing"} =>
                pc[d] \in Holding \cup {"dating", "renewing"}
        BY <2>3, <3>1 DEF Moves, Holding
      <4> QED BY <1>0, <1>1, <4>1, PermittedLess DEF Sound, Numbers
    <3>2. CASE pc'[c] # "undoing"
      <4>1. /\ Permitted' \in SUBSET Counting' /\ Counting' \in SUBSET Client
        BY DEF Permitted, Counting, Counted, Calling
      <4>2. Cardinality(Permitted') <= Cardinality(Counting')
        BY <4>1, CardUpTo
      <4>3. count' <= Size BY <2>2, <3>2
      <4>4. Cardinality(Counting)' <= Size + short'
        <5>1. /\ leaked' \in Int /\ short' \in Int /\ Size \in Int
              /\ Cardinality(Counting)' \in Int
          BY <1>0 DEF Numbers
        <5>2. Cardinality(Counting)' + leaked' <= Size BY <2>5, <4>3
        <5>3. 0 <= leaked' + short' BY <2>5
        <5> QED BY <5>1, <5>2, <5>3, UpTo
      <4>5. /\ Cardinality(Permitted') \in Nat
            /\ Cardinality(Counting') \in Nat
        BY <4>1, CardUpTo
      <4> QED BY <1>0, <4>2, <4>4, <4>5 DEF Numbers
    <3> QED BY <3>1, <3>2
  <2>7. Exact' BY <2>5, <2>6 DEF Exact
  <2>8. ~ lost => Kept'
    BY <1>0, <1>1, <1>2, <2>5, <2>5p DEF Sound, Kept, Numbers
  <2> QED BY <1>0, <2>7, <2>8 DEF Sound
<1>5. CASE /\ NoPermit(c)
           /\ \/ Add(1) /\ Leak
              \/ UNCHANGED <<key, leaked, short>>
  <2>1. pc'[c] \in {"idle", "waiting"} BY <1>5 DEF NoPermit, Goto, TypeOK
  <2>2. Moves(c, {"asking"}, {"idle", "waiting"}) BY <1>3, <2>1 DEF Moves
  <2>3. Counting' = Counting
    BY <2>2, CountingSame DEF Counted, Calling, Holding
  <2>4. \A d \in Client :
          pc'[d] \in Holding \cup {"dating", "renewing"} =>
            pc[d] \in Holding \cup {"dating", "renewing"}
    BY <2>2 DEF Moves, Holding
  <2>5. Cardinality(Permitted)' <= Size + short'
    BY <1>0, <1>1, <2>4, PermittedLess DEF Sound, Numbers
  <2>6. /\ count' = Cardinality(Counting)' + leaked' /\ leaked' >= leaked
        /\ 0 <= leaked' + short'
    <3>0. Exact BY DEF Sound
    <3>1. CASE Add(1) /\ Leak
      BY <1>0, <2>3, <3>0, <3>1 DEF Exact, Add, Leak, Numbers
    <3>2. CASE UNCHANGED <<key, leaked, short>>
      BY <1>0, <2>3, <3>0, <3>2 DEF Exact, key, Numbers
    <3> QED BY <1>5, <3>1, <3>2
  <2>7. (count # 0 => present) => (count' # 0 => present')
    BY <1>5 DEF Add, key
  <2>8. Exact' BY <2>5, <2>6 DEF Exact
  <2>9. ~ lost => Kept'
    BY <1>0, <1>1, <1>2, <2>6, <2>7 DEF Sound, Kept, Numbers
  <2> QED BY <1>0, <2>8, <2>9 DEF Sound
<1> QED BY <1>4, <1>5 DEF Increment

\* DECR: one permit less is counted, or one more was never given back, or one
\* that is held is missed from now on.
LEMMA DecrementSound ==
  ASSUME TypeOK, TypeOK', Sound, Decrement, NEW c \in Client, UNCHANGED spent,
         Moves(c, {"undoing", "releasing"}, {"idle", "waiting"})
  PROVE  Sound'
<1>0. Numbers /\ Numbers'
  <2>1. Numbers /\ (TypeOK => Numbers)' BY TypedNumbers, PTL
  <2> QED BY <2>1
<1>1. Cardinality(Counting)' = Cardinality(Counting) - 1
  BY CountingLeave DEF Counted, Calling, Holding
<1>2. /\ count' = Cardinality(Counting)' + leaked'
      /\ 0 <= leaked' + short' /\ short' >= short /\ UNCHANGED left
  <2>1. CASE Add(-1) /\ UNCHANGED <<leaked, short, lost>>
    BY <1>0, <1>1, <2>1 DEF Sound, Exact, Add, Numbers
  <2>2. CASE Leak /\ UNCHANGED <<key, lost>>
    BY <1>0, <1>1, <2>2 DEF Sound, Exact, Leak, key, Numbers
  <2>3. CASE Add(-2) /\ Off(leaked - 1) /\ lost' = (lost \/ leaked' < 0)
    BY <1>0, <1>1, <2>3 DEF Sound, Exact, Add, Off, Numbers
  <2> QED BY <2>1, <2>2, <2>3 DEF Decrement
<1>3. Cardinality(Permitted)' <= Size + short'
  BY <1>2, PermittedLess DEF Sound, Moves, Holding
<1>4. ASSUME ~ lost' PROVE Kept'
  <2>0. ~ lost /\ leaked' >= 0
    <3>1. CASE UNCHANGED <<leaked, short, lost>>
      BY <1>0, <1>4, <3>1 DEF Sound, Kept
    <3>2. CASE Leak /\ UNCHANGED lost
      BY <1>0, <1>4, <3>2 DEF Sound, Kept, Leak, Numbers
    <3>3. CASE lost' = (lost \/ leaked' < 0)
      <4>1. ~ lost /\ ~ (leaked' < 0) BY <1>4, <3>3, Zenon
      <4> QED BY <1>0, <4>1 DEF Numbers
    <3> QED BY <3>1, <3>2, <3>3 DEF Decrement
  <2>1. Kept BY <2>0 DEF Sound
  <2>2. count > 0 /\ present
    BY <2>1, CountedPresent DEF Sound, Moves, Counted, Calling, Holding
  <2>3. Renewed' BY <1>2, <2>1 DEF Kept, Renewed, Moves, Holding
  <2>4. present' BY <2>2 DEF Decrement, Add, key
  <2>5. short' = 0
    <3>1. CASE UNCHANGED short BY <2>1, <3>1 DEF Kept
    <3>2. CASE Off(leaked - 1)
      BY <1>0, <2>0, <2>1, <3>2 DEF Off, Kept, Numbers
    <3> QED BY <3>1, <3>2 DEF Decrement, Leak
  <2> QED BY <2>0, <2>3, <2>4, <2>5 DEF Kept
<1> QED BY <1>2, <1>3, <1>4 DEF Sound, Exact

\* EXPIRE, or its loss: the key of a counted request is there as long as
\* nothing was lost, and gets the whole ttl.
LEMMA ExpireSound ==
  ASSUME TypeOK, TypeOK', Sound, Expire \/ LoseExpire,
         UNCHANGED <<leaked, short, spent>>, NEW c \in Client,
         Moves(c, {"dating", "renewing"}, {"renewing", "holding"})
  PROVE  Sound'
<1>1. UNCHANGED <<present, count>> BY DEF Expire, LoseExpire, key
<1>2. Counting' = Counting
  BY CountingSame DEF Counted, Calling, Holding
<1>3. short' >= short BY TypedNumbers DEF Numbers
<1>4. Cardinality(Permitted)' <= Size + short'
  BY <1>3, PermittedLess DEF Sound, Moves, Holding
<1>5. ASSUME ~ lost' PROVE Kept'
  <2>1. ~ lost /\ Kept /\ Expire BY <1>5 DEF Sound, Expire, LoseExpire
  <2>2. present
    BY <2>1, CountedPresent DEF Sound, Moves, Counted, Calling, Holding
  <2>3. left' = TTL BY <2>1, <2>2 DEF Expire
  <2>4. \A d \in Client : spent'[d] \in Nat
    BY SemaphoreAssumption DEF TypeOK
  <2>5. Renewed' BY <2>3, <2>4, SemaphoreAssumption DEF Renewed
  <2> QED BY <1>1, <2>1, <2>5 DEF Kept
<1> QED BY <1>1, <1>2, <1>4, <1>5 DEF Sound, Exact

\* Nothing of the counter, and nobody counted comes or goes.
LEMMA ElsewhereSound ==
  ASSUME TypeOK, TypeOK', Sound, UNCHANGED <<key, leaked, short, lost>>,
         NEW c \in Client, NEW S, NEW T, Moves(c, S, T),
         \/ S \cap Counted = {} /\ T \cap Counted = {}
         \/ S \subseteq Holding /\ T \subseteq Holding,
         \A d \in Client : pc'[d] \in Holding => spent'[d] = spent[d]
  PROVE  Sound'
<1>1. Counting' = Counting BY CountingSame DEF Counted
<1>2. short' >= short BY TypedNumbers DEF Numbers
<1>3. Cardinality(Permitted)' <= Size + short'
  BY <1>2, PermittedLess DEF Sound, Moves, Counted, Calling
<1>4. \A d \in Client : pc'[d] \in Holding => pc[d] \in Holding
  BY DEF Moves, Counted
<1>5. Renewed => Renewed' BY <1>4 DEF Renewed, key
<1> QED BY <1>1, <1>3, <1>5 DEF Sound, Exact, Kept, key

\* A request that dies with a permit leaves it counted.
LEMMA CrashSound ==
  ASSUME TypeOK, TypeOK', Sound, NEW c \in Client, Crash(c)
  PROVE  Sound'
<1>1. Moves(c, {pc[c]}, {"dead"}) /\ UNCHANGED <<key, spent, lost>>
  BY DEF Crash, Goto, Moves, TypeOK
<1>2. CASE pc[c] \notin Counted
  BY <1>1, <1>2, ElsewhereSound DEF Crash, Counted, Calling, Holding
<1>3. CASE pc[c] \in Counted
  <2>0. Numbers /\ Numbers'
    <3>1. Numbers /\ (TypeOK => Numbers)' BY TypedNumbers, PTL
    <3> QED BY <3>1
  <2>1. Cardinality(Counting)' = Cardinality(Counting) - 1
    <3>1. {pc[c]} \subseteq Counted /\ {"dead"} \cap Counted = {}
      BY <1>3 DEF Counted, Calling, Holding
    <3> QED BY <1>1, <3>1, CountingLeave
  <2>2. leaked' = leaked + 1 /\ short' = short
    BY <1>3 DEF Crash, Leak
  <2>3. Cardinality(Permitted)' <= Size + short'
    BY <1>1, <2>0, <2>2, PermittedLess DEF Sound, Moves, Holding, Numbers
  <2>4. Exact'
    BY <1>1, <2>0, <2>1, <2>2, <2>3 DEF Sound, Exact, key, Numbers
  <2>5. Renewed => Renewed' BY <1>1 DEF Renewed, Moves, Holding, key
  <2> QED BY <1>1, <2>0, <2>2, <2>4, <2>5 DEF Sound, Kept, key, Numbers
<1> QED BY <1>2, <1>3

\* The clock: the key outlives every request that is over in time, so that it
\* goes with nobody to count, or under those that are exposed; then the counter
\* misses all there are.
LEMMA TickSound ==
  ASSUME TypeOK, TypeOK', Sound, Tick
  PROVE  Sound'
<1>0. /\ Numbers /\ Numbers' /\ HoldMax \in Nat /\ TTL \in Nat
      /\ \A c \in Client : spent[c] \in Nat
  <2>1. Numbers /\ (TypeOK => Numbers)' BY TypedNumbers, PTL
  <2> QED BY <2>1, SemaphoreAssumption DEF TypeOK
<1>1. UNCHANGED pc BY DEF Tick
<1>2. Counting' = Counting /\ Permitted' = Permitted
  BY <1>1 DEF Counting, Permitted
<1>3. Exact'
  <2>1. CASE left = 1
    <3>1. /\ count' = 0 /\ leaked' = 0 - Cardinality(Counting)
          /\ short' >= short /\ 0 <= leaked' + short'
      BY <1>0, <2>1 DEF Tick, Off, Numbers
    <3>2. count' = Cardinality(Counting)' + leaked'
      BY <1>0, <1>2, <3>1 DEF Numbers
    <3> QED BY <1>0, <1>2, <3>1, <3>2 DEF Sound, Exact, Numbers
  <2>2. CASE left # 1 BY <1>2, <2>2 DEF Tick, Sound, Exact
  <2> QED BY <2>1, <2>2
<1>4. ASSUME ~ lost' PROVE Kept'
  <2>1. ~ lost /\ Kept BY <1>4 DEF Tick, Sound
  <2>2. \A c \in Client :
          pc[c] \in Holding =>
            left > 0 /\ left + spent[c] >= TTL /\ spent'[c] = spent[c] + 1
    BY <2>1 DEF Kept, Renewed, Tick
  <2>3. CASE left = 1
    <3>1. Exposed = {} BY <1>4, <2>3 DEF Tick
    <3>2. \A c \in Client : pc[c] \notin Counted
      BY <1>0, <2>2, <2>3, <3>1 DEF Exposed, Counted
    <3>3. Renewed' BY <1>1, <3>2 DEF Renewed, Counted
    <3>4. Cardinality(Counting) = 0 BY <3>2, NobodyCounted
    <3>5. count' = 0 /\ Off(0 - Cardinality(Counting)) BY <2>3 DEF Tick
    <3>6. ASSUME NEW n \in Int, n = 0, Off(0 - n)
          PROVE  leaked' = 0 /\ short' = 0
      BY <2>1, <3>6 DEF Off, Kept
    <3>8. leaked' = 0 /\ short' = 0 BY <1>0, <3>4, <3>5, <3>6 DEF Numbers
    <3> QED BY <3>3, <3>5, <3>8 DEF Kept
  <2>4. CASE left # 1
    <3>1. left > 0 => left' > 0 /\ left' = left - 1
      BY <1>0, <2>4 DEF Tick, Numbers
    <3>2. Renewed' BY <1>0, <1>1, <2>2, <3>1 DEF Renewed, Numbers
    <3> QED BY <2>1, <2>4, <3>2 DEF Tick, Kept
  <2> QED BY <2>3, <2>4
<1> QED BY <1>3, <1>4 DEF Sound

LEMMA NextSound ==
  ASSUME SemInv, [Next]_vars
  PROVE  SemInv'
<1>0. TypeOK /\ TypeOK' BY NextTyped DEF SemInv
<1> SUFFICES Sound'
  BY <1>0 DEF SemInv, Sound
<1>1. Sound BY DEF SemInv, Sound
<1>2. CASE UNCHANGED vars
  BY <1>1, <1>2
  DEF vars, key, Sound, Exact, Kept, Renewed, Counting, Permitted
<1>3. CASE Tick BY <1>0, <1>1, <1>3, TickSound
<1>4. ASSUME NEW c \in Client, Begin(c) PROVE Sound'
  <2>1. Moves(c, {"idle"}, {"asking"}) /\ UNCHANGED <<key, leaked, short, lost>>
        /\ \A d \in Client : pc'[d] \in Holding => spent'[d] = spent[d]
    BY <1>0, <1>4 DEF Begin, Goto, Moves, TypeOK, Holding
  <2> QED BY <1>0, <1>1, <2>1, ElsewhereSound DEF Counted, Calling, Holding
<1>5. ASSUME NEW c \in Client, Crash(c) PROVE Sound'
  BY <1>0, <1>1, <1>5, CrashSound
<1>6. ASSUME NEW c \in Client, Serve(c) PROVE Sound'
  <2>1. CASE Increment(c) BY <1>0, <1>1, <2>1, IncrementSound
  <2>2. CASE SetExpiry(c)
    <3>1. Moves(c, {"dating"}, {"renewing"})
          /\ UNCHANGED <<leaked, short, spent>>
      BY <1>0, <2>2 DEF SetExpiry, Goto, Moves, TypeOK
    <3> QED BY <1>0, <1>1, <2>2, <3>1, ExpireSound DEF Moves, SetExpiry
  <2>3. CASE Undo(c)
    <3>1. Moves(c, {"undoing"}, {"idle", "waiting"}) /\ UNCHANGED spent
      BY <1>0, <2>3 DEF Undo, NoPermit, Goto, Moves, TypeOK
    <3> QED BY <1>0, <1>1, <2>3, <3>1, DecrementSound DEF Undo, Moves
  <2>4. CASE Refresh(c)
    <3>1. Moves(c, {"renewing"}, {"holding"})
          /\ UNCHANGED <<leaked, short, spent>>
      BY <1>0, <2>4 DEF Refresh, Goto, Moves, TypeOK
    <3> QED BY <1>0, <1>1, <2>4, <3>1, ExpireSound DEF Moves, Refresh
  <2>5. CASE EndRequest(c)
    <3>1. Moves(c, {"holding"}, {"releasing"})
          /\ UNCHANGED <<key, leaked, short, spent, lost>>
      BY <1>0, <2>5 DEF EndRequest, Goto, Moves, TypeOK
    <3> QED BY <1>0, <1>1, <3>1, ElsewhereSound DEF Holding
  <2>6. CASE Release(c)
    <3>1. Moves(c, {"releasing"}, {"idle"}) /\ UNCHANGED spent
      BY <1>0, <2>6 DEF Release, Goto, Moves, TypeOK
    <3> QED BY <1>0, <1>1, <2>6, <3>1, DecrementSound DEF Release, Moves
  <2>7. CASE Retry(c) \/ Cancel(c)
    <3>1. Moves(c, {"waiting"}, {"asking", "idle"})
          /\ UNCHANGED <<key, leaked, short, spent, lost>>
      BY <1>0, <2>7 DEF Retry, Cancel, Goto, Moves, TypeOK
    <3> QED BY <1>0, <1>1, <3>1, ElsewhereSound DEF Counted, Calling, Holding
  <2> QED BY <1>6, <2>1, <2>2, <2>3, <2>4, <2>5, <2>6, <2>7 DEF Serve
<1> QED BY <1>2, <1>3, <1>4, <1>5, <1>6 DEF Next

-----------------------------------------------------------------------------
(* The theorems.                                                           *)

\* Every variable of every command, call and tick keeps to its values.
THEOREM TypeCorrect == Spec => []TypeOK
BY InitTyped, NextTyped, PTL DEF Spec

LEMMA InitSound == Init => SemInv
<1> SUFFICES ASSUME Init PROVE SemInv
  OBVIOUS
<1>1. \A c \in Client : pc[c] = "idle" BY DEF Init
<1>2. Cardinality(Counting) = 0
  BY <1>1, NobodyCounted DEF Counted, Calling, Holding
<1>3. Permitted = {} BY <1>1 DEF Permitted, Holding
<1>4. Cardinality(Permitted) <= Size + short
  BY <1>3, FS_EmptySet, SemaphoreAssumption DEF Init
<1>5. Exact BY <1>2, <1>4 DEF Init, Exact
<1>6. Kept BY <1>1 DEF Init, Kept, Renewed, Holding
<1> QED BY <1>5, <1>6, InitTyped DEF SemInv

\* TryAcquire, Release and the key between them: what the counter says, what it
\* misses, and that it misses nothing before something is lost.
THEOREM SemAlways == Spec => []SemInv
BY InitSound, NextSound, PTL DEF Spec

\* Acquire and Release: no more requests run than there are permits and than
\* the counter ever missed, wherever the key expires; and it misses none before
\* something is lost.
THEOREM AtMostSizeHolds == Spec => []AtMostSize
<1>1. SemInv => AtMostSize
  <2> SUFFICES ASSUME SemInv PROVE Cardinality(Admitted) <= Size + short
    BY DEF AtMostSize, SemInv, Kept
  <2>1. Admitted \in SUBSET Permitted /\ Permitted \in SUBSET Client
    BY DEF Admitted, Permitted
  <2>2. /\ Cardinality(Admitted) \in Nat /\ Cardinality(Permitted) \in Nat
        /\ Cardinality(Admitted) <= Cardinality(Permitted)
    BY <2>1, CardUpTo
  <2> QED BY <2>2, TypedNumbers DEF SemInv, Exact, Numbers
<1> QED BY <1>1, SemAlways, PTL

\* Every round trip: the counter counts the permits that are held and those
\* that were never given back, and a counter without expiry counts one of these.
THEOREM CountIsSound == Spec => []CountSound
<1>1. SemInv => CountSound
  <2> SUFFICES ASSUME SemInv PROVE CountExact /\ EternalIsLeaked
    BY DEF CountSound, SemInv
  <2>1. CountExact BY DEF CountExact, SemInv, Exact, Kept
  <2>2. ASSUME ~ lost, count # 0, left = 0,
               \A c \in Client : pc[c] \notin Calling
        PROVE  leaked > 0
    <3>1. Exact /\ Kept /\ TypeOK BY <2>2 DEF SemInv
    <3>2. \A c \in Client : pc[c] \notin Holding
      <4> SUFFICES ASSUME NEW c \in Client, pc[c] \in Holding PROVE FALSE
        OBVIOUS
      <4>1. left > 0 BY <3>1 DEF Kept, Renewed
      <4> QED BY <2>2, <4>1
    <3>3. Cardinality(Counting) = 0 BY <2>2, <3>2, NobodyCounted DEF Counted
    <3> QED BY <2>2, <3>1, <3>3, TypedNumbers DEF Exact, Kept, Numbers
  <2> QED BY <2>1, <2>2 DEF EternalIsLeaked
<1> QED BY <1>1, SemAlways, PTL
=============================================================================
