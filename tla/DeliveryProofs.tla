--------------------------- MODULE DeliveryProofs ----------------------------
(***************************************************************************)
(* Theorems about what carries messages, events and lines to those who are *)
(* to get them: the queues of Messaging, and the hub, the event bus, the   *)
(* activity of users and the log files, which Fanout puts side by side.    *)
(* Messaging and Fanout have no state in common.                           *)
(*                                                                         *)
(* Kafka: no member ever stands behind, has marked or has been told to     *)
(* commit an offset that has a message without a verdict before it, a      *)
(* verdict of loss has its reason, and what was skipped lies before the    *)
(* first session that committed (Reasons).  RabbitMQ, where confirms are   *)
(* on: what the broker has acknowledged is what senders took and what still*)
(* lies in a confirm channel; and as long as the first link holds there is *)
(* a confirmation, made or due, for every sender that waits for one.       *)
(*                                                                         *)
(* Hub: broadcasts wait in the order they were made, each newer than what  *)
(* any client got (HubInv).  Bus: what a Publish walks is the list as it is*)
(* now, or the beginning of it, until a handler of the name is added       *)
(* (BusInv).  Activity: what an actor has yet to write stands for all it   *)
(* took, and what is known stays known (ActivityInv).  Log files: a file   *)
(* chosen for the clean-up has no line that must still be kept (LogInv).   *)
(***************************************************************************)
EXTENDS Messaging, Fanout, SequenceTheorems, FiniteSetTheorems,
        WellFoundedInduction, TLAPS

\* The greater of two numbers is what Max makes of them.
LEMMA MaxOfTwo ==
  ASSUME NEW a \in Int, NEW b \in Int
  PROVE  /\ Max({a, b}) \in {a, b}
         /\ Max({a, b}) >= a /\ Max({a, b}) >= b
<1> DEFINE hi == IF a >= b THEN a ELSE b
<1>1. hi \in {a, b} /\ \A y \in {a, b} : hi >= y OBVIOUS
<1> QED BY <1>1 DEF Max

-----------------------------------------------------------------------------
(* Kafka                                                                   *)

Verdicts == {"none", "skipped", "lost", "ended", "refused", "dlq", "ok"}

OffsetMark == Nat \cup {NoOffset}

Claiming == {"claim", "handle", "backoff", "check", "send", "cleanup"}

Member ==
  [pc : Claiming \cup {"out", "closed", "dead"}, pos : Nat, att : Nat,
   live : BOOLEAN, marked : OffsetMark, done : OffsetMark,
   producer : {"open", "closed"}, shut : BOOLEAN]

KafkaTyped ==
  /\ end \in Nat /\ began \in Nat /\ committed \in OffsetMark
  /\ verdict \in [Offsets -> Verdicts]
  /\ mem \in [Members -> Member]

\* Every message before offset n has a verdict.
Settled(n) == \A o \in Offsets : o < n => verdict[o] # "none"

\* What a message that was not handled and is in no dead-letter topic can have
\* come to.
Reasons ==
  \A o \in Offsets :
    /\ verdict[o] \in {"ended", "refused"} => kcfg.dlq
    /\ verdict[o] = "lost" => ~kcfg.dlq
    /\ verdict[o] = "skipped" => o < began

\* What holds of the record of a member.
MemberSound(r) ==
  /\ Settled(r.pos) /\ Settled(r.marked) /\ Settled(r.done)
  /\ r.pc \in {"check", "send"} => kcfg.dlq

KafkaInv ==
  /\ KafkaTyped /\ began <= end
  /\ Settled(committed) /\ Reasons
  /\ \A m \in Members : MemberSound(mem[m])

LEMMA InitKafka ==
  ASSUME KafkaAssumption, NEW used \in BOOLEAN, KafkaInit(used)
  PROVE  KafkaInv
<1>1. Fresh \in Member /\ Absent \in Member
  BY DEF Fresh, Absent, Member, OffsetMark, NoOffset, Claiming
<1>2. KafkaTyped
  BY <1>1 DEF KafkaInit, KafkaTyped, Verdicts, OffsetMark
<1>3. Settled(NoOffset) /\ Settled(0)
  BY DEF Settled, Offsets, NoOffset
<1>4. MemberSound(Fresh)
  BY <1>3 DEF MemberSound, Fresh
<1>5. MemberSound(Absent)
  BY <1>3 DEF MemberSound, Absent, Fresh
<1>6. Reasons BY DEF KafkaInit, Reasons
<1>7. began <= end /\ Settled(committed) BY <1>3 DEF KafkaInit
<1>8. \A m \in Members : MemberSound(mem[m])
  BY <1>4, <1>5 DEF KafkaInit
<1> QED BY <1>2, <1>6, <1>7, <1>8 DEF KafkaInv

\* Verdicts are not taken back, and there is a reason for each.
Progress ==
  /\ verdict' \in [Offsets -> Verdicts]
  /\ \A o \in Offsets : verdict[o] # "none" => verdict'[o] # "none"
  /\ kcfg' = kcfg
  /\ Reasons'

\* A step of one member keeps the invariant when what it makes of the member
\* is sound: the others do not see it.
LEMMA MemberStep ==
  ASSUME KafkaInv, Progress, NEW m \in Members, NEW r \in Member,
         mem' = [mem EXCEPT ![m] = r],
         end' \in Nat, began' \in Nat, began' <= end',
         committed' \in OffsetMark, Settled(committed)', MemberSound(r)'
  PROVE  KafkaInv'
<1>1. KafkaTyped' BY DEF KafkaInv, KafkaTyped, Progress
<1>3. \A k \in Int : Settled(k) => Settled(k)'
  BY DEF Settled, Progress
<1>4. ASSUME NEW n \in Members PROVE MemberSound(mem[n])'
  <2>1. CASE n = m BY <2>1 DEF KafkaInv, KafkaTyped, MemberSound
  <2>2. CASE n # m
    <3>1. mem'[n] = mem[n] /\ mem[n] \in Member
      BY <2>2 DEF KafkaInv, KafkaTyped
    <3>2. MemberSound(mem[n]) BY DEF KafkaInv
    <3> QED BY <1>3, <3>1, <3>2
          DEF MemberSound, Member, OffsetMark, NoOffset, Progress
  <2> QED BY <2>1, <2>2
<1> QED BY <1>1, <1>4 DEF KafkaInv, Progress

\* Where no verdict changes there is progress.
LEMMA NoVerdict ==
  ASSUME KafkaInv, verdict' = verdict, kcfg' = kcfg, began' = began
  PROVE  Progress
BY DEF KafkaInv, KafkaTyped, Progress, Reasons

\* Settle gives a message a verdict and takes none from another.
LEMMA SettleOne ==
  ASSUME KafkaInv, NEW k \in Nat, NEW v \in Verdicts \ {"none"},
         Settle(k, v), kcfg' = kcfg, began' = began, v # "skipped",
         v \in {"ended", "refused"} => kcfg.dlq, v = "lost" => ~kcfg.dlq
  PROVE  Progress /\ (Settled(k) => Settled(k + 1)')
<1>1. verdict \in [Offsets -> Verdicts] BY DEF KafkaInv, KafkaTyped
<1>2. \A o \in Offsets : verdict'[o] = verdict[o] \/ verdict'[o] = v
  BY <1>1 DEF Settle
<1>3. k \in Offsets => verdict'[k] # "none"
  BY <1>1 DEF Settle, Rank, Verdicts
<1>4. verdict' \in [Offsets -> Verdicts] BY <1>1 DEF Settle
<1>5. Progress BY <1>1, <1>2, <1>4 DEF Progress, Reasons, KafkaInv
<1>6. Settled(k) => Settled(k + 1)'
  BY <1>3, <1>5 DEF Settled, Progress, Offsets
<1> QED BY <1>5, <1>6

LEMMA SettledStays ==
  ASSUME Progress, NEW k \in Int, Settled(k)
  PROVE  Settled(k)'
BY DEF Settled, Progress

\* Publishing and a change of owner concern nobody's offsets.
LEMMA KafkaAside ==
  ASSUME KafkaInv, UNCHANGED <<kcfg, began, committed, verdict, mem>>,
         end' \in Nat, end' >= end
  PROVE  KafkaInv'
<1>1. \A m \in Members : MemberSound(mem[m])'
  BY DEF KafkaInv, MemberSound, Settled
<1> QED BY <1>1 DEF KafkaInv, KafkaTyped, Settled, Reasons

\* A step that only moves a member on.
LEMMA MoveStep ==
  ASSUME KafkaInv, NEW m \in Members, NEW r \in Member,
         mem' = [mem EXCEPT ![m] = r],
         UNCHANGED <<kcfg, end, began, committed, verdict>>,
         r.pos \in {mem[m].pos, 0}, r.marked \in {mem[m].marked, NoOffset},
         r.done \in {mem[m].done, NoOffset},
         r.pc \in {"check", "send"} => kcfg.dlq
  PROVE  KafkaInv'
<1>1. Progress BY NoVerdict
<1>2. Settled(NoOffset) /\ Settled(0)
  BY DEF Settled, Offsets, NoOffset
<1>3. Settled(r.pos) /\ Settled(r.marked) /\ Settled(r.done)
  BY <1>2 DEF KafkaInv, MemberSound
<1>4. MemberSound(r)'
  BY <1>1, <1>3, SettledStays DEF MemberSound, Member, OffsetMark, NoOffset
<1>5. Settled(committed)' BY DEF KafkaInv, Settled
<1> QED BY <1>1, <1>4, <1>5, MemberStep DEF KafkaInv, KafkaTyped

\* The end of processMessage.
LEMMA ProcessedStep ==
  ASSUME KafkaInv, NEW m \in Members, NEW r \in Member,
         mem' = [mem EXCEPT ![m] = r],
         NEW k \in Nat, k = mem[m].pos, NEW v \in Verdicts \ {"none"},
         Settle(k, v), v # "skipped",
         v \in {"ended", "refused"} => kcfg.dlq, v = "lost" => ~kcfg.dlq,
         r.pos = k + 1, r.marked = k + 1, r.pc = "claim",
         r.done \in {mem[m].done, k + 1, NoOffset},
         UNCHANGED <<kcfg, end, began, committed>>
  PROVE  KafkaInv'
<1>1. Progress /\ Settled(k + 1)'
  BY SettleOne DEF KafkaInv, MemberSound
<1>2. mem[m] \in Member /\ MemberSound(mem[m])
  BY DEF KafkaInv, KafkaTyped
<1>3. Settled(NoOffset)' BY DEF Settled, Offsets, NoOffset
<1>4. Settled(mem[m].done) BY <1>2 DEF MemberSound
<1>5. Settled(r.done)'
  <2>1. CASE r.done = mem[m].done
    BY <1>1, <1>2, <1>4, <2>1, SettledStays DEF Member, OffsetMark, NoOffset
  <2> QED BY <1>1, <1>3, <2>1
<1>7. MemberSound(r)' BY <1>1, <1>5 DEF MemberSound
<1>8. Settled(committed)'
  BY <1>1, SettledStays DEF KafkaInv, KafkaTyped, OffsetMark, NoOffset
<1> QED BY <1>1, <1>7, <1>8, MemberStep DEF KafkaInv, KafkaTyped

LEMMA SetupInv ==
  ASSUME KafkaInv, NEW m \in Members, Setup(m) PROVE KafkaInv'
<1>0. mem[m] \in Member /\ MemberSound(mem[m]) /\ end \in Nat
      /\ committed \in OffsetMark /\ verdict \in [Offsets -> Verdicts]
  BY DEF KafkaInv, KafkaTyped
<1>1. PICK start \in Nat :
        start = IF committed = NoOffset THEN end ELSE committed
  BY <1>0 DEF OffsetMark
<1>2. PICK r \in Member :
        r = [mem[m] EXCEPT !.pc = "claim", !.pos = start, !.live = TRUE,
                           !.marked = NoOffset]
  BY <1>0 DEF Member, OffsetMark, Claiming
<1>3. /\ mem' = [mem EXCEPT ![m] = r]
      /\ verdict' = [o \in Offsets |->
                       IF o < start /\ verdict[o] = "none"
                       THEN "skipped" ELSE verdict[o]]
      /\ began' = (IF committed = NoOffset THEN end ELSE began)
      /\ UNCHANGED <<kcfg, end, committed>>
  BY <1>1, <1>2 DEF Setup
<1>3a. began \in Nat /\ began <= end /\ Reasons /\ Settled(committed)
  BY DEF KafkaInv, KafkaTyped
<1>3b. began' \in Nat /\ began' <= end /\ began' >= began
  BY <1>0, <1>3, <1>3a
<1>3c. Reasons'
  <2> SUFFICES ASSUME NEW o \in Offsets
               PROVE  /\ verdict'[o] \in {"ended", "refused"} => kcfg.dlq
                      /\ verdict'[o] = "lost" => ~kcfg.dlq
                      /\ verdict'[o] = "skipped" => o < began'
    BY <1>3 DEF Reasons
  <2>1. CASE verdict'[o] = verdict[o]
    BY <1>3a, <1>3b, <2>1 DEF Reasons, Offsets
  <2>2. CASE verdict'[o] # verdict[o]
    <3>1. verdict'[o] = "skipped" /\ o < start /\ verdict[o] = "none"
      BY <1>3, <2>2
    <3>2. committed = NoOffset
      BY <1>1, <1>3a, <3>1 DEF Settled
    <3> QED BY <1>1, <1>3, <3>1, <3>2
  <2> QED BY <2>1, <2>2
<1>4. Progress /\ Settled(start)'
  BY <1>0, <1>3, <1>3c DEF Progress, Settled, Verdicts
<1>5. Settled(NoOffset)' BY DEF Settled, Offsets, NoOffset
<1>6. Settled(mem[m].done)
  BY <1>0 DEF MemberSound
<1>7. Settled(r.done)'
  BY <1>0, <1>2, <1>4, <1>6, SettledStays DEF Member, OffsetMark, NoOffset
<1>9. r.pos = start /\ r.marked = NoOffset /\ r.pc = "claim"
  BY <1>0, <1>2 DEF Member
<1>10. MemberSound(r)'
  BY <1>0, <1>4, <1>5, <1>7, <1>9 DEF MemberSound
<1>11. Settled(committed)'
  BY <1>0, <1>3, <1>4, SettledStays DEF KafkaInv, OffsetMark, NoOffset
<1>12. end' \in Nat /\ committed' \in OffsetMark /\ began' <= end'
  BY <1>0, <1>3, <1>3b
<1> QED BY <1>3, <1>3b, <1>4, <1>10, <1>11, <1>12, MemberStep

LEMMA MoveInv ==
  ASSUME KafkaInv, NEW m \in Members,
         \/ Rebalance(m) \/ Take(m) \/ LeaveClaim(m) \/ Retry(m)
         \/ ClientShutdown(m) \/ ProducerClose(m) \/ ConsumerClose(m)
         \/ ShutdownTimesOut(m) \/ Crash(m) \/ Restart(m)
  PROVE  KafkaInv'
<1>0. mem[m] \in Member /\ MemberSound(mem[m]) /\ mem \in [Members -> Member]
  BY DEF KafkaInv, KafkaTyped
<1> DEFINE Moved(r) ==
      /\ r \in Member /\ mem' = [mem EXCEPT ![m] = r]
      /\ r.pos \in {mem[m].pos, 0} /\ r.marked \in {mem[m].marked, NoOffset}
      /\ r.done \in {mem[m].done, NoOffset}
      /\ r.pc \in {"check", "send"} => kcfg.dlq
<1>1. UNCHANGED <<kcfg, end, began, committed, verdict>>
  BY DEF Rebalance, Take, LeaveClaim, Retry, ClientShutdown, ProducerClose,
       ConsumerClose, ShutdownTimesOut, Crash, Restart
<1>2. SUFFICES \E r : Moved(r)
  BY <1>1, MoveStep
<1>3. CASE \/ Rebalance(m) \/ Take(m) \/ LeaveClaim(m) \/ Retry(m)
           \/ ClientShutdown(m) \/ ProducerClose(m) \/ ConsumerClose(m)
  <2>1. PICK r : r = mem'[m] OBVIOUS
  <2>2. /\ mem' = [mem EXCEPT ![m] = r] /\ r \in Member
        /\ r.pos = mem[m].pos /\ r.marked = mem[m].marked
        /\ r.done = mem[m].done
        /\ r.pc = mem[m].pc \/ r.pc \in {"handle", "cleanup", "closed"}
    <3>1. CASE Take(m) \/ LeaveClaim(m) \/ Retry(m)
      BY <1>0, <2>1, <3>1 DEF Take, LeaveClaim, Retry, Member, Claiming
    <3>2. CASE Rebalance(m)
      <4>1. PICK q \in Member : q = [mem[m] EXCEPT !.live = FALSE]
        BY <1>0 DEF Member
      <4>2. mem' = [mem EXCEPT ![m] = q]
        BY <1>0, <3>2, <4>1 DEF Rebalance
      <4> QED BY <1>0, <2>1, <4>1, <4>2 DEF Member
    <3>4. CASE ClientShutdown(m)
      <4>1. PICK q \in Member :
              q = [mem[m] EXCEPT !.shut = TRUE, !.live = FALSE]
        BY <1>0 DEF Member
      <4>2. mem' = [mem EXCEPT ![m] = q]
        BY <1>0, <3>4, <4>1 DEF ClientShutdown
      <4> QED BY <1>0, <2>1, <4>1, <4>2 DEF Member
    <3>3. CASE ProducerClose(m) \/ ConsumerClose(m)
      BY <1>0, <2>1, <3>3 DEF ProducerClose, ConsumerClose, Member
    <3> QED BY <1>3, <3>1, <3>2, <3>3, <3>4
  <2>3. Moved(r) BY <1>0, <2>2 DEF MemberSound
  <2> QED BY <2>3
<1>4. CASE ShutdownTimesOut(m) \/ Crash(m)
  <2>1. PICK r \in Member : r = Dead(mem[m])
    BY <1>0 DEF Member, Dead, Fresh, OffsetMark
  <2>2. mem' = [mem EXCEPT ![m] = r]
    BY <1>0, <1>4, <2>1 DEF ShutdownTimesOut, Crash
  <2>3. r.pc = "dead" /\ r.pos = 0 /\ r.marked = NoOffset
        /\ r.done = NoOffset
    BY <2>1 DEF Dead, Fresh
  <2>4. Moved(r) BY <2>1, <2>2, <2>3
  <2> QED BY <2>4
<1>5. CASE Restart(m)
  <2>1. PICK r \in Member : r = Fresh BY DEF Member, Fresh, OffsetMark
  <2>2. Moved(r) BY <1>5, <2>1 DEF Restart, Fresh
  <2> QED BY <2>2
<1> QED BY <1>3, <1>4, <1>5

LEMMA ClaimInv ==
  ASSUME KafkaInv, NEW m \in Members,
         \/ HandlerReturns(m) \/ HandlerFails(m) \/ CheckDeadLetter(m)
         \/ SendDeadLetter(m)
  PROVE  KafkaInv'
<1>0. mem[m] \in Member /\ MemberSound(mem[m]) /\ mem \in [Members -> Member]
  BY DEF KafkaInv, KafkaTyped
<1>1. PICK k \in Nat : k = mem[m].pos BY <1>0 DEF Member
<1>2. PICK r \in Member : r = Processed(mem[m])
  <2>1. PICK n \in Nat : n = k + 1 OBVIOUS
  <2>2. Processed(mem[m]) = [mem[m] EXCEPT !.pc = "claim", !.pos = n,
                                           !.att = 0, !.marked = n]
    BY <1>1, <2>1 DEF Processed
  <2>3. [mem[m] EXCEPT !.pc = "claim", !.pos = n, !.att = 0, !.marked = n]
          \in Member
    BY <1>0 DEF Member, OffsetMark, Claiming
  <2> QED BY <2>2, <2>3
<1>3. /\ r.pos = k + 1 /\ r.marked = k + 1 /\ r.done = mem[m].done
      /\ r.pc = "claim"
  BY <1>0, <1>1, <1>2 DEF Processed, Member
<1>4. UNCHANGED <<kcfg, end, began, committed>>
  BY DEF HandlerReturns, HandlerFails, CheckDeadLetter, SendDeadLetter
<1>5. ASSUME NEW v \in Verdicts \ {"none", "skipped"}, Settle(k, v),
             mem' = [mem EXCEPT ![m] = r],
             v \in {"ended", "refused"} => kcfg.dlq, v = "lost" => ~kcfg.dlq
      PROVE  KafkaInv'
  BY <1>1, <1>3, <1>4, <1>5, ProcessedStep
<1>6. ASSUME NEW pc \in Claiming, mem' = [mem EXCEPT ![m].pc = pc],
             verdict' = verdict, pc \in {"check", "send"} => kcfg.dlq
      PROVE  KafkaInv'
  <2>1. PICK q \in Member : q = [mem[m] EXCEPT !.pc = pc]
    BY <1>0 DEF Member
  <2>2. /\ mem' = [mem EXCEPT ![m] = q] /\ q.pos = mem[m].pos
        /\ q.marked = mem[m].marked /\ q.done = mem[m].done /\ q.pc = pc
    BY <1>0, <1>6, <2>1 DEF Member
  <2> QED BY <1>4, <1>6, <2>2, MoveStep
<1>7. mem[m].pc \in {"check", "send"} => kcfg.dlq BY <1>0 DEF MemberSound
<1>8. CASE HandlerReturns(m)
  <2>1. PICK q \in Member :
          q = [r EXCEPT !.done = IF kcfg.commits THEN k + 1 ELSE NoOffset]
    <3>1. (IF kcfg.commits THEN k + 1 ELSE NoOffset) \in OffsetMark
      BY DEF OffsetMark
    <3> QED BY <3>1 DEF Member
  <2>2. /\ mem' = [mem EXCEPT ![m] = q] /\ Settle(k, "ok")
    BY <1>1, <1>2, <1>8, <2>1 DEF HandlerReturns
  <2>3. /\ q.pos = k + 1 /\ q.marked = k + 1
        /\ q.done \in {mem[m].done, k + 1, NoOffset} /\ q.pc = "claim"
    BY <1>3, <2>1 DEF Member
  <2>4. "ok" \in Verdicts \ {"none", "skipped"} BY DEF Verdicts
  <2> QED BY <1>1, <1>4, <2>2, <2>3, <2>4, ProcessedStep
<1>9. CASE HandlerFails(m)
  <2>1. CASE mem' = [mem EXCEPT ![m] = r] /\ Settle(k, "lost") /\ ~ kcfg.dlq
    BY <1>5, <2>1 DEF Verdicts
  <2>2. CASE mem' = [mem EXCEPT ![m].pc = "backoff"] /\ verdict' = verdict
    BY <1>6, <2>2 DEF Claiming
  <2>3. CASE mem' = [mem EXCEPT ![m].pc = "check"] /\ verdict' = verdict
             /\ kcfg.dlq
    BY <1>6, <2>3 DEF Claiming
  <2> QED BY <1>1, <1>2, <1>9, <2>1, <2>2, <2>3 DEF HandlerFails
<1>10. CASE CheckDeadLetter(m)
  <2>1. CASE mem[m].live /\ mem[m].producer = "open"
    BY <1>6, <1>7, <1>10, <2>1 DEF CheckDeadLetter, Claiming
  <2>2. CASE ~ (mem[m].live /\ mem[m].producer = "open")
    <3>1. mem' = [mem EXCEPT ![m] = r] /\ Settle(k, "ended")
      BY <1>1, <1>2, <1>10, <2>2 DEF CheckDeadLetter
    <3>2. kcfg.dlq BY <1>7, <1>10 DEF CheckDeadLetter
    <3> QED BY <1>5, <3>1, <3>2 DEF Verdicts
  <2> QED BY <2>1, <2>2
<1>11. CASE SendDeadLetter(m)
  <2>1. CASE mem' = [mem EXCEPT ![m] = r] /\ Settle(k, "dlq")
    BY <1>5, <2>1 DEF Verdicts
  <2>2. CASE mem' = [mem EXCEPT ![m] = r] /\ Settle(k, "refused")
    BY <1>5, <1>7, <1>11, <2>2 DEF Verdicts, SendDeadLetter
  <2>3. CASE mem' = [mem EXCEPT ![m] = r] /\ Settle(k, "ended")
    BY <1>5, <1>7, <1>11, <2>3 DEF Verdicts, SendDeadLetter
  <2>4. CASE mem' = [mem EXCEPT ![m] = Dead(mem[m])] /\ verdict' = verdict
    <3>1. PICK q \in Member : q = Dead(mem[m])
      BY <1>0 DEF Member, Dead, Fresh, OffsetMark
    <3>2. q.pc = "dead" /\ q.pos = 0 /\ q.marked = NoOffset
          /\ q.done = NoOffset
      BY <3>1 DEF Dead, Fresh
    <3> QED BY <1>4, <2>4, <3>1, <3>2, MoveStep
  <2> QED BY <1>1, <1>2, <1>11, <2>1, <2>2, <2>3, <2>4 DEF SendDeadLetter
<1> QED BY <1>8, <1>9, <1>10, <1>11

\* Commit never goes back, and where it goes everything is settled.
LEMMA CommitSettled ==
  ASSUME KafkaInv, Progress, NEW m \in Members, NEW k \in OffsetMark,
         Settled(k)', Commit(m, k)
  PROVE  committed' \in OffsetMark /\ Settled(committed)'
<1>1. committed \in OffsetMark /\ Settled(committed) BY DEF KafkaInv, KafkaTyped
<1>2. Settled(committed)' \/ committed' # committed
  BY <1>1, SettledStays DEF OffsetMark, NoOffset, Settled, Progress
<1>3. committed' \in {k, committed}
  BY <1>1, MaxOfTwo DEF Commit, OffsetMark, NoOffset
<1> QED BY <1>1, <1>2, <1>3 DEF Settled

LEMMA CleanupInv ==
  ASSUME KafkaInv, NEW m \in Members, Cleanup(m) PROVE KafkaInv'
<1>0. mem[m] \in Member /\ MemberSound(mem[m])
      /\ end \in Nat /\ began \in Nat /\ began <= end
  BY DEF KafkaInv, KafkaTyped
<1>1. Progress BY NoVerdict DEF Cleanup
<1>2. PICK r \in Member :
        r = [mem[m] EXCEPT !.pc = "out", !.pos = 0, !.marked = NoOffset]
  BY <1>0 DEF Member, OffsetMark
<1>3. mem' = [mem EXCEPT ![m] = r] BY <1>2 DEF Cleanup
<1>4. PICK k \in OffsetMark : k = mem[m].marked BY <1>0 DEF Member
<1>5. Settled(k) /\ Settled(k)'
  BY <1>0, <1>1, <1>4, SettledStays DEF MemberSound, OffsetMark, NoOffset
<1>6. committed' \in OffsetMark /\ Settled(committed)'
  BY <1>1, <1>4, <1>5, CommitSettled DEF Cleanup
<1>7. /\ r.pc = "out" /\ r.pos = 0 /\ r.marked = NoOffset
      /\ r.done = mem[m].done
  BY <1>0, <1>2 DEF Member
<1>8. Settled(mem[m].done) BY <1>0 DEF MemberSound
<1>9. Settled(r.done)'
  BY <1>0, <1>1, <1>7, <1>8, SettledStays DEF Member, OffsetMark, NoOffset
<1>10. MemberSound(r)'
  BY <1>0, <1>7, <1>9
  DEF MemberSound, Settled, Offsets, NoOffset
<1>11. end' \in Nat /\ began' \in Nat /\ began' <= end'
  BY <1>0 DEF Cleanup
<1> QED BY <1>1, <1>3, <1>6, <1>7, <1>10, <1>11, MemberStep

LEMMA CommitMessageInv ==
  ASSUME KafkaInv, NEW m \in Members, CommitMessage(m) PROVE KafkaInv'
<1>0. mem[m] \in Member /\ MemberSound(mem[m]) /\ mem \in [Members -> Member]
      /\ end \in Nat /\ began \in Nat /\ began <= end
  BY DEF KafkaInv, KafkaTyped
<1>1. PICK k \in Nat : k = mem[m].pos BY <1>0 DEF Member
<1>2. PICK mark \in OffsetMark \ {NoOffset} :
        mark = IF mem[m].pc = "handle" THEN k + 1 ELSE mem[m].done
  BY <1>0, <1>1 DEF CommitMessage, Member, OffsetMark, NoOffset
<1>3. Progress /\ Settled(mark)'
  <2>1. CASE mem[m].pc = "handle"
    <3>1. Settle(k, "ok") /\ kcfg' = kcfg /\ began' = began
      BY <1>1, <2>1 DEF CommitMessage
    <3>2. Settled(k) BY <1>0, <1>1 DEF MemberSound
    <3> QED BY <1>2, <2>1, <3>1, <3>2, SettleOne DEF Verdicts
  <2>2. CASE mem[m].pc # "handle"
    <3>1. Progress BY <2>2, NoVerdict DEF CommitMessage
    <3>2. Settled(mark) BY <1>0, <1>2, <2>2 DEF MemberSound
    <3> QED BY <3>1, <3>2, SettledStays DEF OffsetMark, NoOffset
  <2> QED BY <2>1, <2>2
<1>4. PICK b \in OffsetMark, c \in OffsetMark :
        b = mem[m].marked /\ c = mem[m].done
  BY <1>0 DEF Member
<1>5. Settled(b) /\ Settled(c) /\ Settled(k)
  BY <1>0, <1>1, <1>4 DEF MemberSound
<1>6. \A a \in OffsetMark : Settled(a) => Settled(a)'
  BY <1>3, SettledStays DEF OffsetMark, NoOffset
<1>7. Max({mark, b}) \in {mark, b} /\ Max({mark, c}) \in {mark, c}
  BY MaxOfTwo DEF OffsetMark, NoOffset
<1>8. PICK marked \in {mark, b}, done \in {mark, c} :
        marked = Max({mark, mem[m].marked}) /\ done = Max({mark, mem[m].done})
  BY <1>4, <1>7
<1>8a. Settled(marked)' /\ Settled(done)' BY <1>3, <1>5, <1>6
<1>9. PICK r \in Member :
        r = [mem[m] EXCEPT !.marked = marked, !.done = done]
  BY <1>0 DEF Member
<1>10. /\ mem' = [mem EXCEPT ![m].marked = marked,
                             ![m].done = Max({mark, @})]
       /\ Commit(m, marked) /\ UNCHANGED <<kcfg, end, began>>
  BY <1>1, <1>2, <1>8 DEF CommitMessage
<1>11. mem' = [mem EXCEPT ![m] = r]
  BY <1>0, <1>8, <1>9, <1>10
<1>12. /\ r.pc = mem[m].pc /\ r.pos = k /\ r.marked = marked
       /\ r.done = done
  BY <1>0, <1>1, <1>9 DEF Member
<1>14. MemberSound(r)'
  BY <1>0, <1>5, <1>6, <1>10, <1>12, <1>8a
  DEF MemberSound, OffsetMark
<1>15. committed' \in OffsetMark /\ Settled(committed)'
  BY <1>3, <1>10, <1>8a, CommitSettled
<1>16. end' \in Nat /\ began' \in Nat /\ began' <= end'
  BY <1>0, <1>10
<1> QED BY <1>3, <1>11, <1>12, <1>14, <1>15, <1>16, MemberStep

LEMMA NextKafka ==
  ASSUME KafkaAssumption, KafkaInv, [KafkaNext]_kafkaVars
  PROVE  KafkaInv'
<1>1. CASE UNCHANGED kafkaVars
  BY <1>1, KafkaAside DEF kafkaVars, KafkaInv, KafkaTyped
<1>2. ASSUME NEW m \in Members, SendMessage(m) \/ SendBatch(m) \/ Evict(m)
      PROVE  KafkaInv'
  <2>1. end' \in Nat /\ end' >= end
    BY <1>2 DEF SendMessage, SendBatch, Evict, KafkaInv, KafkaTyped
  <2> QED BY <1>2, <2>1, KafkaAside DEF SendMessage, SendBatch, Evict
<1>3. ASSUME NEW m \in Members, Claim(m) PROVE KafkaInv'
  BY <1>3, MoveInv, ClaimInv, CleanupInv DEF Claim
<1> QED
  BY <1>1, <1>2, <1>3, SetupInv, MoveInv, CommitMessageInv DEF KafkaNext

-----------------------------------------------------------------------------
(* RabbitMQ                                                                *)

Sender == [pc : {"idle", "sent", "await", "ok", "err", "gaveup"},
           on : Links \cup {0}]

Confirms == [due : Nat, box : Seq(BOOLEAN), open : BOOLEAN]

RabbitTyped ==
  /\ link \in Links /\ chan \in Links /\ drops \in 0..MaxDrops
  /\ rcfg \in RabbitConfigs /\ up \in BOOLEAN
  /\ sender \in [Senders -> Sender]
  /\ \A s \in Senders : sender[s].pc = "await" => sender[s].on \in Links
  /\ confirms \in [Links -> Confirms] /\ acked \in Nat
  /\ at \in [Messages -> {"queue", "inbox", "hand", "unread", "done"}]

\* A new link is dialled for every link lost, and for no other reason.
LinkInv ==
  /\ link <= drops + 1
  /\ notice = "error" \/ watch \in {"redial", "asleep"} => link <= drops
  /\ notice = "error" => ~up
  /\ watch \in {"redial", "asleep"} => ~up /\ notice # "error"

\* Until a link is lost nobody leaves the first channel.
FirstLink ==
  drops = 0 =>
    /\ chan = 1
    /\ watch \notin {"dialled", "notify"} /\ helper \notin {"reset", "setup"}
    /\ \A l \in Links : l # 1 => confirms[l].box = <<>>
    /\ \A s \in Senders : sender[s].pc = "await" => sender[s].on = 1
    /\ Producer /\ ~closed => confirms[1].open

\* A client is a producer or a consumer, and does nothing of the other; and
\* where confirms are off nobody waits for one and none is due.
RoleInv ==
  /\ Consumer => /\ \A s \in Senders : sender[s].pc \in {"idle", "err"}
                 /\ \A l \in Links : confirms[l].due = 0
                                     /\ confirms[l].box = <<>>
  /\ ~Consumer => /\ loop.msg = NoMessage /\ handled = {}
                  /\ \A m \in Messages : at[m] = "queue"
  /\ ~rcfg.confirm => /\ \A s \in Senders : sender[s].pc # "await"
                      /\ \A l \in Links : confirms[l].due = 0
                                          /\ confirms[l].box = <<>>

\* The senders that succeeded, those that have published and wait, and the
\* acknowledgements that lie in the confirm channels.
Won == {s \in Senders : sender[s].pc = "ok"}
Waiting == {s \in Senders : sender[s].pc \in {"sent", "await"}}
Unread(l) == {i \in 1..Len(confirms[l].box) : confirms[l].box[i]}
AcksUnread == {p \in Links \X (Nat \ {0}) : p[2] \in Unread(p[1])}

\* What the broker acknowledged is what was taken and what is left.
AckCount ==
  /\ IsFiniteSet(AcksUnread)
  /\ rcfg.confirm => acked = Cardinality(Won) + Cardinality(AcksUnread)

\* Who waits has a confirmation, made or due.
Promise ==
  /\ rcfg.confirm /\ drops = 0 /\ ~closed
  /\ \A s \in Senders : sender[s].pc # "gaveup"
  => Cardinality(Waiting) = confirms[1].due + Len(confirms[1].box)

RabbitInv ==
  /\ RabbitTyped /\ LinkInv /\ FirstLink /\ RoleInv /\ ForgottenIsHandled
  /\ AckCount /\ Promise

LEMMA InitRabbit ==
  ASSUME RabbitAssumption, NEW used \in BOOLEAN, RabbitInit(used)
  PROVE  RabbitInv
<1>1. 1 \in Links /\ 0 <= MaxDrops BY DEF RabbitAssumption, Links
<1>2. \A l \in Links : /\ confirms[l].due = 0 /\ confirms[l].box = <<>>
                       /\ confirms[l].open = (l = 1)
  BY DEF RabbitInit
<1>3. RabbitTyped
  <2>1. sender \in [Senders -> Sender] /\ up \in BOOLEAN
    BY DEF RabbitInit, Sender
  <2>2. confirms \in [Links -> Confirms] BY DEF RabbitInit, Confirms
  <2>3. \A s \in Senders : sender[s].pc # "await"
    BY DEF RabbitInit
  <2> QED BY <1>1, <2>1, <2>2, <2>3
        DEF RabbitInit, RabbitTyped, RabbitAssumption
<1>4. LinkInv BY DEF RabbitInit, LinkInv
<1>5. FirstLink
  <2>1. \A s \in Senders : sender[s].pc # "await"
    BY DEF RabbitInit
  <2> QED BY <1>1, <1>2, <2>1 DEF RabbitInit, FirstLink
<1>6. RoleInv BY <1>2 DEF RabbitInit, RoleInv
<1>7. ForgottenIsHandled BY DEF RabbitInit, ForgottenIsHandled
<1>8. Won = {} /\ Waiting = {} BY DEF RabbitInit, Won, Waiting
<1>9. AcksUnread = {} BY <1>2 DEF AcksUnread, Unread
<1>10. Cardinality({}) = 0 /\ IsFiniteSet({}) BY FS_EmptySet
<1>11. AckCount
  BY <1>8, <1>9, <1>10 DEF RabbitInit, AckCount
<1>12. Promise
  BY <1>1, <1>2, <1>8, <1>10 DEF Promise
<1> QED BY <1>3, <1>4, <1>5, <1>6, <1>7, <1>11, <1>12 DEF RabbitInv

\* What the end of a channel leaves alone, and where it puts the messages.
LEMMA EndsEffect ==
  ASSUME RabbitTyped, ChannelEnds \/ UNCHANGED <<confirms, at>>
  PROVE  /\ confirms' \in [Links -> Confirms]
         /\ at' \in [Messages ->
                       {"queue", "inbox", "hand", "unread", "done"}]
         /\ \A l \in Links : /\ confirms'[l].box = confirms[l].box
                             /\ confirms'[l].due \in {confirms[l].due, 0}
         /\ \A m \in Messages :
              /\ at'[m] = "done" => at[m] = "done" \/ rcfg.autoAck
              /\ at[m] = "queue" => at'[m] = "queue"
<1>1. CASE UNCHANGED <<confirms, at>> BY <1>1 DEF RabbitTyped
<1>2. CASE ConfirmsEnd(chan) /\ Requeue
  <2>1. \A l \in Links : confirms[l] \in Confirms BY DEF RabbitTyped
  <2>2. \A l \in Links :
          confirms'[l] = IF l = chan
                         THEN [confirms[l] EXCEPT !.due = 0, !.open = FALSE]
                         ELSE confirms[l]
    BY <1>2 DEF ConfirmsEnd, RabbitTyped
  <2>3. confirms' = [l \in Links |-> confirms'[l]]
    BY <1>2 DEF ConfirmsEnd, RabbitTyped
  <2>4. \A l \in Links :
          /\ confirms'[l] \in Confirms /\ confirms'[l].box = confirms[l].box
          /\ confirms'[l].due \in {confirms[l].due, 0}
    <3>1. \A c \in Confirms : LET d == [c EXCEPT !.due = 0, !.open = FALSE]
                              IN d \in Confirms /\ d.box = c.box /\ d.due = 0
      BY DEF Confirms
    <3> SUFFICES ASSUME NEW l \in Links
                 PROVE  /\ confirms'[l] \in Confirms
                        /\ confirms'[l].box = confirms[l].box
                        /\ confirms'[l].due \in {confirms[l].due, 0}
      OBVIOUS
    <3>2. CASE l = chan BY <2>1, <2>2, <3>1, <3>2
    <3>3. CASE l # chan BY <2>1, <2>2, <3>3
    <3> QED BY <3>2, <3>3
  <2> QED BY <1>2, <2>3, <2>4 DEF Requeue, RabbitTyped
<1> QED BY <1>1, <1>2 DEF ChannelEnds

\* The acknowledgements that are left depend on the confirm channels only.
LEMMA SameAcks ==
  ASSUME \A l \in Links : confirms'[l].box = confirms[l].box
  PROVE  AcksUnread' = AcksUnread
BY DEF AcksUnread, Unread

LEMMA CountKept ==
  ASSUME AckCount, Won' = Won, acked' = acked, rcfg' = rcfg,
         \A l \in Links : confirms'[l].box = confirms[l].box
  PROVE  AckCount'
BY SameAcks DEF AckCount

LEMMA PromiseKept ==
  ASSUME RabbitTyped, Promise, sender' = sender, rcfg' = rcfg,
         drops' = 0 /\ ~closed' =>
           /\ drops = 0 /\ ~closed
           /\ confirms'[1].due = confirms[1].due
           /\ confirms'[1].box = confirms[1].box
  PROVE  Promise'
BY DEF Promise, Waiting

\* The connection's goroutine and the helper that stops.
LEMMA ConnectionStep ==
  ASSUME RabbitAssumption, RabbitInv,
         \/ Notice \/ Redial \/ DialFails \/ Connect \/ Register \/ Notify
         \/ StopHelper \/ UNCHANGED rabbitVars
  PROVE  RabbitInv'
<1>0. /\ RabbitTyped /\ LinkInv /\ FirstLink /\ RoleInv
      /\ ForgottenIsHandled /\ AckCount /\ Promise
  BY DEF RabbitInv
<1>1. UNCHANGED <<rcfg, chan, chanUp, sender, confirms, acked, at, handled,
                  loop, fails, closed, drops>>
  BY DEF Notice, Redial, DialFails, Connect, Register, Notify, StopHelper,
       chanVars, sendVars, takeVars, rabbitVars, connVars
<1>2. link' \in Links /\ up' \in BOOLEAN /\ LinkInv'
  <2>1. CASE Connect
    <3>1. link \in Nat /\ link > 0 /\ link <= drops /\ drops <= MaxDrops
          /\ drops \in Nat /\ MaxDrops \in Nat /\ notice # "error"
      BY <1>0, <2>1
      DEF RabbitAssumption, RabbitTyped, LinkInv, Links, Connect
    <3>2. link' = link + 1 /\ watch' = "dialled" /\ up' = TRUE
          /\ notice' = notice
      BY <2>1 DEF Connect
    <3> QED BY <1>1, <3>1, <3>2 DEF LinkInv, Links
  <2>2. CASE \/ Notice \/ Redial \/ DialFails \/ Register \/ Notify
             \/ StopHelper \/ UNCHANGED rabbitVars
    <3>1. /\ link' = link /\ up' = up
          /\ notice' \in {notice, "nothing", "closed"}
          /\ watch' \in {"redial", "asleep"} =>
               \/ watch \in {"redial", "asleep"} /\ notice' = notice
               \/ notice = "error" /\ notice' = "nothing"
      BY <2>2 DEF Notice, Redial, DialFails, Register, Notify, StopHelper,
           rabbitVars, connVars
    <3> QED BY <1>0, <1>1, <3>1 DEF RabbitTyped, LinkInv
  <2> QED BY <2>1, <2>2
<1>3. RabbitTyped' BY <1>0, <1>1, <1>2 DEF RabbitTyped
<1>4. FirstLink'
  <2> SUFFICES ASSUME drops = 0
               PROVE  /\ watch' \notin {"dialled", "notify"}
                      /\ helper' \notin {"reset", "setup"}
    BY <1>0, <1>1 DEF FirstLink, Producer
  <2>1. /\ watch \notin {"dialled", "notify", "asleep"}
        /\ helper \notin {"reset", "setup"}
    BY <1>0 DEF FirstLink, LinkInv, RabbitTyped, Links
  <2> QED BY <2>1 DEF Notice, Redial, DialFails, Connect, Register, Notify,
            StopHelper, rabbitVars, connVars
<1>5. RoleInv' BY <1>0, <1>1 DEF RoleInv, Consumer
<1>6. ForgottenIsHandled' BY <1>0, <1>1 DEF ForgottenIsHandled
<1>7. AckCount' BY <1>0, <1>1, CountKept DEF Won
<1>8. Promise' BY <1>0, <1>1, PromiseKept
<1> QED BY <1>2, <1>3, <1>4, <1>5, <1>6, <1>7, <1>8 DEF RabbitInv

\* A channel ends with its link, with the client, or for a new one.
LEMMA ChannelStep ==
  ASSUME RabbitAssumption, RabbitInv,
         Drop \/ Close \/ ResetChannel
  PROVE  RabbitInv'
<1>0. /\ RabbitTyped /\ LinkInv /\ FirstLink /\ RoleInv
      /\ ForgottenIsHandled /\ AckCount /\ Promise
  BY DEF RabbitInv
<1>1. /\ UNCHANGED <<rcfg, link, chan, sender, acked, handled, loop, fails>>
      /\ up' \in BOOLEAN
      /\ ChannelEnds \/ UNCHANGED <<confirms, at>>
  BY <1>0 DEF Drop, Close, ResetChannel, Known, RabbitTyped
<1>2. /\ confirms' \in [Links -> Confirms]
      /\ at' \in [Messages -> {"queue", "inbox", "hand", "unread", "done"}]
      /\ \A l \in Links : /\ confirms'[l].box = confirms[l].box
                          /\ confirms'[l].due \in {confirms[l].due, 0}
      /\ \A m \in Messages :
           /\ at'[m] = "done" => at[m] = "done" \/ rcfg.autoAck
           /\ at[m] = "queue" => at'[m] = "queue"
  BY <1>0, <1>1, EndsEffect
<1>3. drops' \in 0..MaxDrops /\ drops' >= drops
  BY <1>0 DEF RabbitTyped, RabbitAssumption, Drop, Close, ResetChannel
<1>4. RabbitTyped' BY <1>0, <1>1, <1>2, <1>3 DEF RabbitTyped
<1>5. LinkInv'
  <2>1. CASE Drop
    <3>1. /\ drops' = drops + 1 /\ up' = FALSE /\ watch' = watch
          /\ notice' = (IF watch = "dialled" THEN notice ELSE "error")
          /\ link' = link /\ up /\ drops \in Int /\ link \in Int
      BY <1>0, <2>1 DEF Drop, RabbitTyped, RabbitAssumption, Links
    <3> QED BY <1>0, <3>1 DEF LinkInv
  <2>2. CASE Close \/ ResetChannel
    <3>1. /\ drops' = drops /\ (up' => up) /\ watch' = watch
          /\ notice' \in {notice, "closed"} /\ link' = link
      <4>1. CASE Close BY <4>1 DEF Close
      <4>2. CASE ResetChannel BY <4>2 DEF ResetChannel
      <4> QED BY <2>2, <4>1, <4>2
    <3>2. drops \in Int /\ link \in Int /\ up \in BOOLEAN
          /\ up' \in BOOLEAN
      BY <1>0, <1>1 DEF RabbitTyped, RabbitAssumption, Links
    <3> QED BY <1>0, <3>1, <3>2 DEF LinkInv
  <2> QED BY <2>1, <2>2
<1>6. drops' = 0 /\ ~closed' => FALSE
  BY <1>0, <1>3 DEF RabbitTyped, FirstLink, Drop, Close, ResetChannel
<1>7. FirstLink'
  <2> SUFFICES ASSUME drops' = 0 PROVE closed' /\ drops = 0
        /\ UNCHANGED <<watch, helper>>
    BY <1>0, <1>1, <1>2 DEF FirstLink
  <2> QED BY <1>0, <1>3, <1>6 DEF RabbitTyped, FirstLink, Drop, Close,
            ResetChannel
<1>8. RoleInv' BY <1>0, <1>1, <1>2 DEF RoleInv, Consumer
<1>9. ForgottenIsHandled' BY <1>0, <1>1, <1>2 DEF ForgottenIsHandled
<1>10. AckCount' BY <1>0, <1>1, <1>2, CountKept DEF Won
<1>11. Promise' BY <1>6 DEF Promise
<1> QED BY <1>4, <1>5, <1>7, <1>8, <1>9, <1>10, <1>11 DEF RabbitInv

\* A new channel, and never on the first link.
LEMMA SetupStep ==
  ASSUME RabbitAssumption, RabbitInv, SetupChannel
  PROVE  RabbitInv'
<1>0. /\ RabbitTyped /\ LinkInv /\ FirstLink /\ RoleInv
      /\ ForgottenIsHandled /\ AckCount /\ Promise
  BY DEF RabbitInv
<1>1. /\ UNCHANGED <<rcfg, link, up, watch, notice, missed, closed, drops,
                     sender, acked, at, handled, loop, fails>>
      /\ helper = "setup" /\ chan' \in {chan, link}
      /\ \/ confirms' = confirms
         \/ confirms' = [confirms EXCEPT ![link].open = TRUE]
  BY DEF SetupChannel, ChannelOpens, ChannelRefused, takeVars
<1>2. drops # 0 BY <1>0, <1>1 DEF FirstLink
<1>3. /\ confirms' \in [Links -> Confirms]
      /\ \A l \in Links : /\ confirms'[l].box = confirms[l].box
                          /\ confirms'[l].due = confirms[l].due
  <2>1. CASE confirms' = confirms BY <1>0, <2>1 DEF RabbitTyped
  <2>2. CASE confirms' = [confirms EXCEPT ![link].open = TRUE]
    <3>1. confirms[link] \in Confirms /\ link \in Links
          /\ confirms \in [Links -> Confirms]
      BY <1>0 DEF RabbitTyped
    <3>2. PICK c : c = [confirms[link] EXCEPT !.open = TRUE] OBVIOUS
    <3>3. c \in Confirms /\ c.box = confirms[link].box
          /\ c.due = confirms[link].due
      BY <3>1, <3>2 DEF Confirms
    <3>4. confirms' = [confirms EXCEPT ![link] = c] BY <2>2, <3>2
    <3> QED BY <3>1, <3>3, <3>4
  <2> QED BY <1>1, <2>1, <2>2
<1>4. RabbitTyped' BY <1>0, <1>1, <1>3 DEF RabbitTyped
<1>5. LinkInv' BY <1>0, <1>1 DEF LinkInv
<1>6. FirstLink' /\ Promise' BY <1>1, <1>2 DEF FirstLink, Promise
<1>7. RoleInv' BY <1>0, <1>1, <1>3 DEF RoleInv, Consumer
<1>8. ForgottenIsHandled' BY <1>0, <1>1 DEF ForgottenIsHandled
<1>9. AckCount' BY <1>0, <1>1, <1>3, CountKept DEF Won
<1> QED BY <1>4, <1>5, <1>6, <1>7, <1>8, <1>9 DEF RabbitInv

Places == {"queue", "inbox", "hand", "unread", "done"}

\* A delivery is answered, or its channel ends instead.
LEMMA AnswerEffect ==
  ASSUME RabbitTyped, NEW n, NEW to \in Places,
         \/ ChannelEnds \/ UNCHANGED <<confirms, at>>
         \/ at' = [at EXCEPT ![n] = to] /\ confirms' = confirms
  PROVE  /\ confirms' \in [Links -> Confirms] /\ at' \in [Messages -> Places]
         /\ \A l \in Links : /\ confirms'[l].box = confirms[l].box
                             /\ confirms'[l].due \in {confirms[l].due, 0}
         /\ \A m \in Messages :
              at'[m] = "done" => \/ at[m] = "done" \/ rcfg.autoAck
                                 \/ m = n /\ to = "done"
<1>1. CASE ChannelEnds \/ UNCHANGED <<confirms, at>>
  BY <1>1, EndsEffect DEF Places
<1>2. CASE at' = [at EXCEPT ![n] = to] /\ confirms' = confirms
  BY <1>2 DEF RabbitTyped, Places
<1> QED BY <1>1, <1>2

LEMMA ConsumerStep ==
  ASSUME RabbitAssumption, RabbitInv,
         \/ \E m \in Messages :
              \/ Deliver(m) \/ TakeDelivery(m)
              \/ HandlerAcks(m) \/ HandlerNacks(m)
         \/ AckLatest
  PROVE  RabbitInv'
<1>0. /\ RabbitTyped /\ LinkInv /\ FirstLink /\ RoleInv
      /\ ForgottenIsHandled /\ AckCount /\ Promise
  BY DEF RabbitInv
<1>1. UNCHANGED <<rcfg, link, up, watch, notice, helper, missed, closed,
                  drops, chan, sender, acked>>
  BY DEF Deliver, TakeDelivery, HandlerAcks, HandlerNacks, AckLatest,
       CommitDelivery, connVars, chanVars, sendVars
<1>2. Consumer
  BY <1>0 DEF RabbitAssumption, RoleInv, Deliver, TakeDelivery, HandlerAcks,
       HandlerNacks, AckLatest
<1> DEFINE Taken ==
      /\ confirms' \in [Links -> Confirms] /\ at' \in [Messages -> Places]
      /\ \A l \in Links : /\ confirms'[l].box = confirms[l].box
                          /\ confirms'[l].due \in {confirms[l].due, 0}
      /\ ForgottenIsHandled'
<1>3. Taken
  <2>1. ASSUME NEW m \in Messages, Deliver(m) \/ TakeDelivery(m)
        PROVE  Taken
    <3>1. PICK to \in Places : at' = [at EXCEPT ![m] = to]
                               /\ (to = "done" => rcfg.autoAck)
      BY <2>1 DEF Deliver, TakeDelivery, Places
    <3>2. confirms' = confirms /\ handled' = handled
      BY <2>1 DEF Deliver, TakeDelivery, sendVars
    <3> QED BY <1>0, <1>1, <3>1, <3>2, AnswerEffect DEF ForgottenIsHandled
  <2>2. ASSUME NEW m \in Messages, HandlerAcks(m) \/ HandlerNacks(m)
        PROVE  Taken
    <3>1. PICK to \in {"done", "queue"} :
            /\ Answered(m, to)
            /\ handled' = IF to = "done" THEN handled \cup {m} ELSE handled
      BY <2>2 DEF HandlerAcks, HandlerNacks
    <3>2. \/ ChannelEnds \/ UNCHANGED <<confirms, at>>
          \/ at' = [at EXCEPT ![m] = to] /\ confirms' = confirms
      BY <3>1 DEF Answered
    <3> QED BY <1>0, <1>1, <3>1, <3>2, AnswerEffect
          DEF ForgottenIsHandled, Places
  <2>3. ASSUME AckLatest
        PROVE  Taken
    <3>1. PICK n : n = loop.msg OBVIOUS
    <3>2. \/ ChannelEnds
          \/ at' = [at EXCEPT ![n] = "done"] /\ confirms' = confirms
      BY <2>3, <3>1 DEF AckLatest, CommitDelivery
    <3>3. handled' = handled \cup {n}
          \/ (rcfg.commits = "later" /\ handled' = handled)
      BY <2>3, <3>1 DEF AckLatest
    <3> QED BY <1>0, <1>1, <3>2, <3>3, AnswerEffect
          DEF ForgottenIsHandled, Places
  <2> QED BY <2>1, <2>2, <2>3
<1>4. RabbitTyped' BY <1>0, <1>1, <1>3 DEF RabbitTyped, Places
<1>5. LinkInv' BY <1>0, <1>1 DEF LinkInv
<1>6. ~ Producer BY <1>2 DEF Consumer, Producer
<1>7. FirstLink' BY <1>0, <1>1, <1>3, <1>6 DEF FirstLink, Producer
<1>8. RoleInv' BY <1>0, <1>1, <1>2, <1>3 DEF RoleInv, Consumer
<1>9. AckCount' BY <1>0, <1>1, <1>3, CountKept DEF Won
<1>10. Promise'
  <2>1. 1 \in Links BY <1>0 DEF RabbitTyped, Links
  <2>2. confirms'[1].due = confirms[1].due
    BY <1>0, <1>2, <1>3, <2>1 DEF RoleInv
  <2> QED BY <1>0, <1>1, <1>3, <2>1, <2>2, PromiseKept
<1> QED BY <1>3, <1>4, <1>5, <1>7, <1>8, <1>9, <1>10 DEF RabbitInv

\* Sets of senders are finite, and change by one sender at a time.
LEMMA SendersCount ==
  ASSUME RabbitAssumption
  PROVE  /\ IsFiniteSet(Won) /\ Cardinality(Won) \in Nat
         /\ IsFiniteSet(Waiting) /\ Cardinality(Waiting) \in Nat
<1>1. Won \in SUBSET Senders /\ Waiting \in SUBSET Senders
  BY DEF Won, Waiting
<1> QED BY <1>1, FS_Subset, FS_CardinalityType DEF RabbitAssumption

\* Of the acknowledgements left, in terms of the confirm channels.
LEMMA AcksUnreadAre ==
  ASSUME NEW l \in Links, NEW i
  PROVE  <<l, i>> \in AcksUnread <=>
           /\ i \in Nat \ {0} /\ i \in 1..Len(confirms[l].box)
           /\ confirms[l].box[i]
BY DEF AcksUnread, Unread

LEMMA QueueTypes ==
  ASSUME NEW S, NEW b \in Seq(S)
  PROVE  /\ \A e \in S : Append(b, e) \in Seq(S)
         /\ b # <<>> => Tail(b) \in Seq(S)
OBVIOUS

\* A confirmation comes in at the end.
LEMMA AppendAck ==
  ASSUME RabbitTyped, IsFiniteSet(AcksUnread), NEW l \in Links,
         NEW ack \in BOOLEAN, confirms' \in [Links -> Confirms],
         \A k \in Links : confirms'[k].box =
           IF k = l THEN Append(confirms[l].box, ack) ELSE confirms[k].box
  PROVE  /\ IsFiniteSet(AcksUnread')
         /\ Cardinality(AcksUnread') =
              Cardinality(AcksUnread) + (IF ack THEN 1 ELSE 0)
<1> DEFINE x == <<l, Len(confirms[l].box) + 1>>
<1>1. confirms[l].box \in Seq(BOOLEAN) /\ confirms'[l].box \in Seq(BOOLEAN)
  BY DEF RabbitTyped, Confirms
<1>2. x \notin AcksUnread BY <1>1 DEF AcksUnread, Unread
<1>3. \A i : i \in Unread(l)' <=>
               i \in Unread(l) \/ (i = Len(confirms[l].box) + 1 /\ ack)
  <2>1. PICK b \in Seq(BOOLEAN) : b = confirms[l].box BY <1>1
  <2>2. PICK c : c = Append(b, ack) OBVIOUS
  <2>3. /\ Len(c) = Len(b) + 1 /\ Len(b) \in Nat /\ c[Len(b) + 1] = ack
        /\ \A i \in 1..Len(b) : c[i] = b[i]
    BY <2>2
  <2>4. /\ Unread(l) = {i \in 1..Len(b) : b[i]}
        /\ Unread(l)' = {i \in 1..Len(c) : c[i]}
    BY <2>1, <2>2 DEF Unread
  <2> QED BY <2>1, <2>3, <2>4
<1>4. \A k \in Links : k # l => Unread(k)' = Unread(k) BY DEF Unread
<1>5. AcksUnread' = IF ack THEN AcksUnread \cup {x} ELSE AcksUnread
  <2>1. \A p \in Links \X (Nat \ {0}) :
          p[2] \in Unread(p[1])' <=> p[2] \in Unread(p[1]) \/ (ack /\ p = x)
    BY <1>3, <1>4
  <2>2. x \in Links \X (Nat \ {0}) BY <1>1
  <2>3. AcksUnread' = {p \in Links \X (Nat \ {0}) : p[2] \in Unread(p[1])'}
    BY DEF AcksUnread
  <2> QED BY <2>1, <2>2, <2>3 DEF AcksUnread
<1> QED BY <1>2, <1>5, FS_AddElement, FS_CardinalityType

\* A confirmation is taken from the front: the others move up by one.
LEMMA TailAck ==
  ASSUME RabbitTyped, IsFiniteSet(AcksUnread), NEW l \in Links,
         NEW b \in Seq(BOOLEAN), b = confirms[l].box, b # <<>>,
         \A k \in Links : confirms'[k].box =
           IF k = l THEN Tail(b) ELSE confirms[k].box
  PROVE  /\ IsFiniteSet(AcksUnread')
         /\ Cardinality(AcksUnread) =
              Cardinality(AcksUnread') + (IF Head(b) THEN 1 ELSE 0)
<1> DEFINE x == <<l, 1>>
           S == AcksUnread \ {x}
           f == [p \in S |-> IF p[1] = l THEN <<l, p[2] - 1>> ELSE p]
<1>1. PICK c : c = Tail(b) OBVIOUS
<1>2. /\ Len(b) \in Nat \ {0} /\ Len(c) = Len(b) - 1 /\ Head(b) = b[1]
      /\ \A i \in 1..Len(c) : c[i] = b[i + 1]
  BY <1>1
<1>3. /\ Unread(l) = {i \in 1..Len(b) : b[i]}
      /\ Unread(l)' = {i \in 1..Len(c) : c[i]}
      /\ \A k \in Links : k # l => Unread(k)' = Unread(k)
  BY <1>1 DEF Unread
<1>4. \A i \in Nat \ {0} : i \in Unread(l)' <=> i + 1 \in Unread(l)
  BY <1>2, <1>3
<1>5. \A i \in Unread(l) : i # 1 => i - 1 \in Unread(l)'
  BY <1>2, <1>3
<1>6. /\ AcksUnread = {p \in Links \X (Nat \ {0}) : p[2] \in Unread(p[1])}
      /\ AcksUnread' = {p \in Links \X (Nat \ {0}) : p[2] \in Unread(p[1])'}
  BY DEF AcksUnread
<1>7. x \in AcksUnread <=> Head(b)
  <2>1. 1 \in 1..Len(b) BY <1>2
  <2>2. 1 \in Unread(l) <=> b[1] BY <1>3, <2>1
  <2>3. x \in Links \X (Nat \ {0}) /\ x[1] = l /\ x[2] = 1 OBVIOUS
  <2>4. x \in AcksUnread <=> x[2] \in Unread(x[1]) BY <1>6, <2>3
  <2>5. b[1] = Head(b) BY <1>2
  <2> HIDE DEF x
  <2> QED BY <2>2, <2>3, <2>4, <2>5
<1>8. f \in [S -> AcksUnread']
  <2> SUFFICES ASSUME NEW p \in S PROVE f[p] \in AcksUnread'
    OBVIOUS
  <2>1. p \in Links \X (Nat \ {0}) /\ p[2] \in Unread(p[1]) /\ p # x
    BY <1>6
  <2>2. CASE p[1] = l
    <3>1. p[2] # 1 /\ p[2] \in Nat \ {0} BY <2>1, <2>2
    <3>2. p[2] - 1 \in Nat \ {0} /\ p[2] - 1 \in Unread(l)'
      BY <1>5, <2>1, <2>2, <3>1
    <3> QED BY <1>6, <2>2, <3>2
  <2>3. CASE p[1] # l BY <1>3, <1>6, <2>1, <2>3
  <2> QED BY <2>2, <2>3
<1>9. \A p, q \in S : f[p] = f[q] => p = q
  <2> SUFFICES ASSUME NEW p \in S, NEW q \in S, f[p] = f[q] PROVE p = q
    OBVIOUS
  <2>1. p \in Links \X (Nat \ {0}) /\ q \in Links \X (Nat \ {0})
    BY <1>6
  <2>2. CASE p[1] = l /\ q[1] = l BY <2>1, <2>2
  <2>3. CASE p[1] # l \/ q[1] # l BY <2>1, <2>3
  <2> QED BY <2>2, <2>3
<1>10. \A q \in AcksUnread' : \E p \in S : f[p] = q
  <2> SUFFICES ASSUME NEW q \in AcksUnread' PROVE \E p \in S : f[p] = q
    OBVIOUS
  <2>1. q \in Links \X (Nat \ {0}) /\ q[2] \in Unread(q[1])' BY <1>6
  <2>2. CASE q[1] = l
    <3>1. PICK p : p = <<l, q[2] + 1>> OBVIOUS
    <3>2. PICK j \in Nat \ {0} : j = q[2] /\ q = <<l, j>>
      BY <2>1, <2>2
    <3>3. j + 1 \in Nat \ {0} /\ j + 1 \in Unread(l) /\ j + 1 # 1
      <4>1. j \in Unread(l)' BY <2>1, <2>2, <3>2 DEF Unread
      <4>2. j + 1 \in Unread(l) BY <1>4, <4>1
      <4> QED BY <4>2
    <3>4. p[1] = l /\ p[2] = j + 1 /\ p # x BY <3>1, <3>2, <3>3
    <3>5. p \in Links \X (Nat \ {0}) BY <3>1, <3>2, <3>3
    <3>6. p \in S BY <1>6, <3>3, <3>4, <3>5
    <3>7. f[p] = <<l, p[2] - 1>> BY <3>4, <3>6
    <3>8. p[2] - 1 = j BY <3>2, <3>4
    <3> QED BY <3>2, <3>6, <3>7, <3>8
  <2>3. CASE q[1] # l
    <3>1. q \in S BY <1>3, <1>6, <2>1, <2>3
    <3> QED BY <2>3, <3>1
  <2> QED BY <2>2, <2>3
<1>11. ExistsBijection(S, AcksUnread')
  <2> HIDE DEF f, S
  <2>1. DOMAIN f = S BY <1>8
  <2> QED BY <1>8, <1>9, <1>10, <2>1
        DEF ExistsBijection, Bijection, Injection, Surjection, IsInjective
<1>12. IsFiniteSet(S) /\ Cardinality(S) =
         IF x \in AcksUnread THEN Cardinality(AcksUnread) - 1
         ELSE Cardinality(AcksUnread)
  BY FS_RemoveElement
<1>13. IsFiniteSet(AcksUnread') /\ Cardinality(AcksUnread') = Cardinality(S)
  <2> HIDE DEF S
  <2> QED BY <1>11, <1>12, FS_Bijection
<1>14. Cardinality(AcksUnread) \in Nat BY FS_CardinalityType
<1> HIDE DEF S, x
<1>15. CASE Head(b)
  <2>1. Cardinality(S) = Cardinality(AcksUnread) - 1 BY <1>7, <1>12, <1>15
  <2>2. Cardinality(AcksUnread) = Cardinality(AcksUnread') + 1
    BY <1>13, <1>14, <2>1
  <2> QED BY <1>13, <1>15, <2>2
<1>16. CASE ~ Head(b)
  <2>1. Cardinality(S) = Cardinality(AcksUnread) BY <1>7, <1>12, <1>16
  <2>2. Cardinality(AcksUnread) = Cardinality(AcksUnread') + 0
    BY <1>13, <1>14, <2>1
  <2> QED BY <1>13, <1>16, <2>2
<1> QED BY <1>15, <1>16

LEMMA PublishStep ==
  ASSUME RabbitAssumption, RabbitInv, NEW s \in Senders, Publish(s)
  PROVE  RabbitInv'
<1>0. /\ RabbitTyped /\ LinkInv /\ FirstLink /\ RoleInv
      /\ ForgottenIsHandled /\ AckCount /\ Promise
  BY DEF RabbitInv
<1>1. /\ UNCHANGED <<rcfg, link, up, watch, notice, helper, missed, closed,
                     drops, chan, chanUp, acked, at, handled, loop, fails>>
      /\ Producer /\ sender[s].pc = "idle"
  BY DEF Publish, connVars, chanVars, takeVars
<1>2. PICK pc \in {"sent", "err"} :
        /\ sender' = [sender EXCEPT ![s].pc = pc]
        /\ confirms' = IF pc = "sent" /\ rcfg.confirm
                       THEN [confirms EXCEPT ![chan].due = @ + 1]
                       ELSE confirms
  BY DEF Publish
<1>3. /\ sender' \in [Senders -> Sender] /\ sender'[s].pc = pc
      /\ \A r \in Senders : r # s => sender'[r] = sender[r]
  BY <1>0, <1>2 DEF RabbitTyped, Sender
<1>4. /\ confirms' \in [Links -> Confirms]
      /\ \A l \in Links : /\ confirms'[l].box = confirms[l].box
                          /\ confirms'[l].open = confirms[l].open
      /\ rcfg.confirm =>
           confirms'[chan].due =
             confirms[chan].due + (IF pc = "sent" THEN 1 ELSE 0)
      /\ ~rcfg.confirm => confirms' = confirms
  <2>1. PICK c : c = [confirms[chan] EXCEPT !.due = @ + 1] OBVIOUS
  <2>2. confirms[chan] \in Confirms /\ chan \in Links
    BY <1>0 DEF RabbitTyped
  <2>3. c \in Confirms /\ c.box = confirms[chan].box
        /\ c.open = confirms[chan].open /\ c.due = confirms[chan].due + 1
        /\ confirms[chan].due \in Nat
    BY <2>1, <2>2 DEF Confirms
  <2>4. CASE pc = "sent" /\ rcfg.confirm
    <3>1. confirms' = [confirms EXCEPT ![chan] = c] BY <1>2, <2>1, <2>4
    <3> QED BY <1>0, <2>2, <2>3, <2>4, <3>1 DEF RabbitTyped
  <2>5. CASE pc = "err" \/ ~rcfg.confirm
    <3>1. confirms' = confirms BY <1>2, <2>5
    <3> QED BY <1>0, <2>3, <2>5, <3>1 DEF RabbitTyped
  <2> QED BY <2>4, <2>5
<1>5. RabbitTyped' BY <1>0, <1>1, <1>3, <1>4 DEF RabbitTyped
<1>6. LinkInv' /\ ForgottenIsHandled'
  BY <1>0, <1>1 DEF LinkInv, ForgottenIsHandled
<1>7. FirstLink'
  BY <1>0, <1>1, <1>3, <1>4
  DEF FirstLink, Producer, RabbitTyped, Links, RabbitAssumption
<1>8. RoleInv' BY <1>0, <1>1, <1>3, <1>4 DEF RoleInv, Producer, Consumer
<1>9. Won' = Won BY <1>1, <1>3 DEF Won
<1>10. AckCount' BY <1>0, <1>1, <1>4, <1>9, CountKept
<1>11. Waiting' = IF pc = "sent" THEN Waiting \cup {s} ELSE Waiting
  BY <1>1, <1>3 DEF Waiting
<1>12. s \notin Waiting BY <1>1 DEF Waiting
<1>13. Cardinality(Waiting') =
         Cardinality(Waiting) + (IF pc = "sent" THEN 1 ELSE 0)
  <2>1. IsFiniteSet(Waiting) /\ Cardinality(Waiting) \in Nat
    BY SendersCount
  <2>2. Cardinality(Waiting \cup {s}) = Cardinality(Waiting) + 1
    BY <1>12, <2>1, FS_AddElement
  <2>3. CASE pc = "sent" BY <1>11, <2>1, <2>2, <2>3
  <2>4. CASE pc # "sent" BY <1>11, <2>1, <2>4
  <2> QED BY <2>3, <2>4
<1>14. Promise'
  <2> SUFFICES ASSUME rcfg'.confirm, drops' = 0, ~closed',
                      \A r \in Senders : sender'[r].pc # "gaveup"
               PROVE  Cardinality(Waiting') =
                        confirms'[1].due + Len(confirms'[1].box)
    BY DEF Promise
  <2>1. \A r \in Senders : sender[r].pc # "gaveup" BY <1>1, <1>3
  <2>2. Cardinality(Waiting) = confirms[1].due + Len(confirms[1].box)
    BY <1>0, <1>1, <2>1 DEF Promise
  <2>3. chan = 1 /\ 1 \in Links
    BY <1>0, <1>1 DEF FirstLink, RabbitTyped
  <2>4. confirms[1].due \in Nat /\ Len(confirms[1].box) \in Nat
    BY <1>0, <2>3 DEF RabbitTyped, Confirms
  <2>5. /\ confirms'[1].box = confirms[1].box
        /\ confirms'[1].due =
             confirms[1].due + (IF pc = "sent" THEN 1 ELSE 0)
    BY <1>1, <1>4, <2>3
  <2>6. CASE pc = "sent" BY <1>13, <2>2, <2>4, <2>5, <2>6
  <2>7. CASE pc # "sent" BY <1>13, <2>2, <2>4, <2>5, <2>7
  <2> QED BY <2>6, <2>7
<1> QED BY <1>5, <1>6, <1>7, <1>8, <1>10, <1>14 DEF RabbitInv

LEMMA AwaitStep ==
  ASSUME RabbitAssumption, RabbitInv, NEW s \in Senders,
         Await(s) \/ GiveUp(s)
  PROVE  RabbitInv'
<1>0. /\ RabbitTyped /\ LinkInv /\ FirstLink /\ RoleInv
      /\ ForgottenIsHandled /\ AckCount /\ Promise
  BY DEF RabbitInv
<1>1. UNCHANGED <<rcfg, link, up, watch, notice, helper, missed, closed,
                  drops, chan, chanUp, confirms, acked, at, handled, loop,
                  fails>>
  BY DEF Await, GiveUp, connVars, chanVars, takeVars
<1>2. /\ sender' \in [Senders -> Sender]
      /\ \A r \in Senders : r # s => sender'[r] = sender[r]
      /\ \/ sender[s].pc = "sent" /\ sender'[s].pc = "await"
            /\ sender'[s].on = chan /\ rcfg.confirm
         \/ sender[s].pc = "sent" /\ sender'[s].pc = "ok" /\ ~rcfg.confirm
         \/ sender[s].pc = "await" /\ sender'[s].pc = "gaveup"
  <2>1. CASE Await(s) /\ rcfg.confirm
    BY <1>0, <2>1 DEF Await, RabbitTyped, Sender
  <2>2. CASE Await(s) /\ ~rcfg.confirm
    BY <1>0, <2>2 DEF Await, RabbitTyped, Sender
  <2>3. CASE GiveUp(s)
    BY <1>0, <2>3 DEF GiveUp, RabbitTyped, Sender
  <2> QED BY <2>1, <2>2, <2>3
<1>3. RabbitTyped' BY <1>0, <1>1, <1>2 DEF RabbitTyped
<1>4. LinkInv' /\ ForgottenIsHandled'
  BY <1>0, <1>1 DEF LinkInv, ForgottenIsHandled
<1>5. FirstLink' BY <1>0, <1>1, <1>2 DEF FirstLink, Producer
<1>6. RoleInv' BY <1>0, <1>1, <1>2 DEF RoleInv, Consumer
<1>8. AckCount'
  <2>1. CASE rcfg.confirm
    <3>1. Won' = Won BY <1>2, <2>1 DEF Won
    <3> QED BY <1>0, <1>1, <3>1, CountKept
  <2>2. CASE ~rcfg.confirm
    <3>1. AcksUnread' = AcksUnread BY <1>1, SameAcks
    <3> QED BY <1>0, <1>1, <2>2, <3>1 DEF AckCount
  <2> QED BY <2>1, <2>2
<1>9. Promise'
  <2> SUFFICES ASSUME rcfg'.confirm, drops' = 0, ~closed',
                      \A r \in Senders : sender'[r].pc # "gaveup"
               PROVE  Cardinality(Waiting') =
                        confirms'[1].due + Len(confirms'[1].box)
    BY DEF Promise
  <2>1. \A r \in Senders : sender[r].pc # "gaveup" BY <1>2
  <2>2. Waiting' = Waiting BY <1>1, <1>2 DEF Waiting
  <2> QED BY <1>0, <1>1, <2>1, <2>2 DEF Promise
<1> QED BY <1>3, <1>4, <1>5, <1>6, <1>8, <1>9 DEF RabbitInv

LEMMA ConfirmStep ==
  ASSUME RabbitAssumption, RabbitInv, BrokerConfirms
  PROVE  RabbitInv'
<1>0. /\ RabbitTyped /\ LinkInv /\ FirstLink /\ RoleInv
      /\ ForgottenIsHandled /\ AckCount /\ Promise
  BY DEF RabbitInv
<1>1. /\ UNCHANGED <<rcfg, link, up, watch, notice, helper, missed, closed,
                     drops, chan, chanUp, sender, at, handled, loop, fails>>
      /\ confirms[chan].due > 0
  BY DEF BrokerConfirms, connVars, chanVars, takeVars
<1>2. PICK ack \in BOOLEAN :
        /\ confirms' = [confirms EXCEPT ![chan].due = @ - 1,
                                        ![chan].box = Append(@, ack)]
        /\ acked' = IF ack THEN acked + 1 ELSE acked
  BY DEF BrokerConfirms
<1>3. chan \in Links /\ confirms[chan] \in Confirms
      /\ confirms \in [Links -> Confirms]
  BY <1>0 DEF RabbitTyped
<1>3a. rcfg.confirm BY <1>0, <1>1, <1>3 DEF RoleInv
<1>4. PICK c : c = [confirms[chan] EXCEPT !.due = @ - 1,
                                          !.box = Append(@, ack)]
  OBVIOUS
<1>5. PICK b \in Seq(BOOLEAN), d \in Nat :
        b = confirms[chan].box /\ d = confirms[chan].due
  BY <1>3 DEF Confirms
<1>6. /\ c \in Confirms /\ c.due = d - 1 /\ c.box = Append(b, ack)
      /\ c.open = confirms[chan].open
  <2>1. PICK e \in Nat : e = d - 1 BY <1>1, <1>5
  <2>2. PICK x \in Seq(BOOLEAN) : x = Append(b, ack) BY QueueTypes
  <2>3. c = [confirms[chan] EXCEPT !.due = e, !.box = x]
    BY <1>4, <1>5, <2>1, <2>2
  <2>4. /\ c \in Confirms /\ c.due = e /\ c.box = x
        /\ c.open = confirms[chan].open
    BY <1>3, <2>3 DEF Confirms
  <2> QED BY <2>1, <2>2, <2>4
<1>7. confirms' = [confirms EXCEPT ![chan] = c] BY <1>2, <1>3, <1>4
<1>8. /\ confirms' \in [Links -> Confirms] /\ confirms'[chan] = c
      /\ \A l \in Links : l # chan => confirms'[l] = confirms[l]
  BY <1>3, <1>6, <1>7
<1>9. RabbitTyped'
  <2>1. acked' \in Nat BY <1>0, <1>2 DEF RabbitTyped
  <2> QED BY <1>0, <1>1, <1>8, <2>1 DEF RabbitTyped
<1>10. LinkInv' /\ ForgottenIsHandled'
  BY <1>0, <1>1 DEF LinkInv, ForgottenIsHandled
<1>11. FirstLink'
  BY <1>0, <1>1, <1>6, <1>8
  DEF FirstLink, Producer, RabbitTyped
<1>12. RoleInv' BY <1>0, <1>1, <1>3, <1>3a DEF RoleInv, Consumer
<1>13. AckCount'
  <2>1. \A k \in Links : confirms'[k].box =
          IF k = chan THEN Append(confirms[chan].box, ack)
          ELSE confirms[k].box
    BY <1>5, <1>6, <1>8
  <2>2. /\ IsFiniteSet(AcksUnread')
        /\ Cardinality(AcksUnread') =
             Cardinality(AcksUnread) + (IF ack THEN 1 ELSE 0)
    BY <1>0, <1>3, <1>8, <2>1, AppendAck DEF AckCount
  <2>3. Won' = Won BY <1>1 DEF Won
  <2>4. Cardinality(AcksUnread) \in Nat /\ Cardinality(Won) \in Nat
        /\ acked = Cardinality(Won) + Cardinality(AcksUnread)
    BY <1>0, <1>3a, SendersCount, FS_CardinalityType DEF AckCount
  <2>5. acked' = Cardinality(Won) + Cardinality(AcksUnread')
    <3>1. CASE ack BY <1>2, <2>2, <2>4, <3>1
    <3>2. CASE ~ ack BY <1>2, <2>2, <2>4, <3>2
    <3> QED BY <3>1, <3>2
  <2> QED BY <2>2, <2>3, <2>5 DEF AckCount
<1>14. Promise'
  <2> SUFFICES ASSUME rcfg'.confirm, drops' = 0, ~closed',
                      \A r \in Senders : sender'[r].pc # "gaveup"
               PROVE  Cardinality(Waiting') =
                        confirms'[1].due + Len(confirms'[1].box)
    BY DEF Promise
  <2>1. chan = 1 /\ Waiting' = Waiting
    BY <1>0, <1>1 DEF FirstLink, Waiting
  <2>2. Cardinality(Waiting) = d + Len(b)
    BY <1>0, <1>1, <1>5, <2>1 DEF Promise
  <2>3. Len(Append(b, ack)) = Len(b) + 1 /\ Len(b) \in Nat OBVIOUS
  <2>4. confirms'[1].due = d - 1 /\ Len(confirms'[1].box) = Len(b) + 1
    BY <1>6, <1>8, <2>1, <2>3
  <2> QED BY <2>1, <2>2, <2>3, <2>4
<1> QED BY <1>9, <1>10, <1>11, <1>12, <1>13, <1>14 DEF RabbitInv

LEMMA ReceiveStep ==
  ASSUME RabbitAssumption, RabbitInv, NEW s \in Senders, Receive(s)
  PROVE  RabbitInv'
<1>0. /\ RabbitTyped /\ LinkInv /\ FirstLink /\ RoleInv
      /\ ForgottenIsHandled /\ AckCount /\ Promise
  BY DEF RabbitInv
<1>1. /\ UNCHANGED <<rcfg, link, up, watch, notice, helper, missed, closed,
                     drops, chan, chanUp, acked, at, handled, loop, fails>>
      /\ sender[s].pc = "await"
  BY DEF Receive, connVars, chanVars, takeVars
<1>2. PICK l \in Links : l = sender[s].on
  BY <1>0, <1>1 DEF RabbitTyped
<1>3. confirms[l] \in Confirms /\ confirms \in [Links -> Confirms]
  BY <1>0 DEF RabbitTyped
<1>4. PICK b \in Seq(BOOLEAN) : b = confirms[l].box BY <1>3 DEF Confirms
<1>5. PICK pc \in {"ok", "err"} :
        /\ sender' = [sender EXCEPT ![s].pc = pc]
        /\ \/ /\ b # <<>> /\ pc = Answer(b)
              /\ confirms' = [confirms EXCEPT ![l].box = Tail(@)]
           \/ /\ b = <<>> /\ ~ confirms[l].open /\ pc = "err"
              /\ UNCHANGED confirms
  BY <1>2, <1>4 DEF Receive, Answer
<1>6. /\ sender' \in [Senders -> Sender] /\ sender'[s].pc = pc
      /\ \A r \in Senders : r # s => sender'[r] = sender[r]
  BY <1>0, <1>5 DEF RabbitTyped, Sender
<1>7. ~ Consumer /\ rcfg.confirm BY <1>0, <1>1 DEF RoleInv
<1>8. LinkInv' /\ ForgottenIsHandled'
  BY <1>0, <1>1 DEF LinkInv, ForgottenIsHandled
<1>9. RoleInv' BY <1>0, <1>1, <1>7 DEF RoleInv, Consumer
<1>10. /\ IsFiniteSet(Won) /\ Cardinality(Won) \in Nat
       /\ IsFiniteSet(Waiting) /\ Cardinality(Waiting) \in Nat
       /\ IsFiniteSet(AcksUnread) /\ Cardinality(AcksUnread) \in Nat
       /\ acked = Cardinality(Won) + Cardinality(AcksUnread)
  BY <1>0, <1>7, SendersCount, FS_CardinalityType DEF AckCount
<1>11. s \notin Won /\ s \in Waiting BY <1>1 DEF Won, Waiting
<1>12. /\ Won' = IF pc = "ok" THEN Won \cup {s} ELSE Won
       /\ Waiting' = Waiting \ {s}
  BY <1>1, <1>6 DEF Won, Waiting
<1>13. /\ Cardinality(Won \cup {s}) = Cardinality(Won) + 1
       /\ Cardinality(Waiting') = Cardinality(Waiting) - 1
  BY <1>10, <1>11, <1>12, FS_AddElement, FS_RemoveElement
<1>14. CASE b # <<>>
  <2>1. PICK c : c = [confirms[l] EXCEPT !.box = Tail(@)] OBVIOUS
  <2>2. /\ c \in Confirms /\ c.box = Tail(b) /\ c.open = confirms[l].open
        /\ c.due = confirms[l].due
    <3>1. PICK x \in Seq(BOOLEAN) : x = Tail(b) BY <1>14, QueueTypes
    <3>2. c = [confirms[l] EXCEPT !.box = x] BY <1>4, <2>1, <3>1
    <3>3. /\ c \in Confirms /\ c.box = x /\ c.open = confirms[l].open
          /\ c.due = confirms[l].due
      BY <1>3, <3>2 DEF Confirms
    <3> QED BY <3>1, <3>3
  <2>3. confirms' = [confirms EXCEPT ![l] = c]
    BY <1>3, <1>5, <1>14, <2>1
  <2>4. /\ confirms' \in [Links -> Confirms] /\ confirms'[l] = c
        /\ \A k \in Links : k # l => confirms'[k] = confirms[k]
    BY <1>3, <2>2, <2>3
  <2>5. RabbitTyped' BY <1>0, <1>1, <1>5, <1>6, <2>4 DEF RabbitTyped
  <2>6. drops = 0 => l = 1 BY <1>0, <1>1, <1>2 DEF FirstLink
  <2>7. FirstLink'
    BY <1>0, <1>1, <1>5, <1>6, <2>2, <2>4, <2>6 DEF FirstLink, Producer
  <2>8. AckCount'
    <3>1. \A k \in Links : confirms'[k].box =
            IF k = l THEN Tail(b) ELSE confirms[k].box
      BY <2>2, <2>4
    <3>2. /\ IsFiniteSet(AcksUnread')
          /\ Cardinality(AcksUnread) =
               Cardinality(AcksUnread') + (IF Head(b) THEN 1 ELSE 0)
      BY <1>0, <1>4, <1>10, <1>14, <3>1, TailAck
    <3>3. Cardinality(AcksUnread') \in Nat BY <3>2, FS_CardinalityType
    <3>4. acked = Cardinality(Won') + Cardinality(AcksUnread')
      <4>1. CASE Head(b)
        <5>1. pc = "ok" BY <1>5, <1>14, <4>1 DEF Answer
        <5>2. Cardinality(Won') = Cardinality(Won) + 1
          BY <1>12, <1>13, <5>1
        <5>3. Cardinality(AcksUnread) = Cardinality(AcksUnread') + 1
          BY <3>2, <4>1
        <5> QED BY <1>10, <3>3, <5>2, <5>3
      <4>2. CASE ~ Head(b)
        <5>1. pc = "err" BY <1>5, <1>14, <4>2 DEF Answer
        <5>2. Won' = Won BY <1>12, <5>1
        <5>3. Cardinality(AcksUnread) = Cardinality(AcksUnread') + 0
          BY <3>2, <4>2
        <5> QED BY <1>10, <3>3, <5>2, <5>3
      <4> QED BY <4>1, <4>2
    <3> QED BY <1>1, <3>2, <3>4 DEF AckCount
  <2>9. Promise'
    <3> SUFFICES ASSUME rcfg'.confirm, drops' = 0, ~closed',
                        \A r \in Senders : sender'[r].pc # "gaveup"
                 PROVE  Cardinality(Waiting') =
                          confirms'[1].due + Len(confirms'[1].box)
      BY DEF Promise
    <3>1. \A r \in Senders : sender[r].pc # "gaveup" BY <1>1, <1>6
    <3>2. Cardinality(Waiting) = confirms[l].due + Len(b)
      BY <1>0, <1>1, <1>4, <2>6, <3>1 DEF Promise
    <3>3. Len(Tail(b)) = Len(b) - 1 /\ Len(b) \in Nat BY <1>14
    <3>4. confirms[l].due \in Nat BY <1>3 DEF Confirms
    <3>5. l = 1 BY <1>1, <2>6
    <3>6. /\ confirms'[1].due = confirms[l].due
          /\ Len(confirms'[1].box) = Len(b) - 1
      BY <2>2, <2>4, <3>3, <3>5
    <3>7. Cardinality(Waiting') = confirms[l].due + (Len(b) - 1)
      BY <1>13, <3>2, <3>3, <3>4
    <3> QED BY <3>6, <3>7
  <2> QED BY <1>8, <1>9, <2>5, <2>7, <2>8, <2>9 DEF RabbitInv
<1>15. CASE b = <<>>
  <2>1. confirms' = confirms /\ pc = "err" /\ ~ confirms[l].open
    BY <1>5, <1>15
  <2>2. RabbitTyped' BY <1>0, <1>1, <1>5, <1>6, <2>1 DEF RabbitTyped
  <2>3. FirstLink' BY <1>0, <1>1, <1>5, <1>6, <2>1 DEF FirstLink, Producer
  <2>4. AckCount' BY <1>0, <1>1, <1>12, <2>1, CountKept
  <2>5. drops = 0 => closed
    <3>1. Producer
      BY <1>0, <1>7 DEF RabbitTyped, RabbitAssumption, Producer, Consumer
    <3>2. drops = 0 => l = 1 BY <1>0, <1>1, <1>2 DEF FirstLink
    <3>3. drops = 0 /\ ~closed => confirms[1].open
      BY <1>0, <3>1 DEF FirstLink
    <3> QED BY <2>1, <3>2, <3>3
  <2>6. Promise' BY <1>1, <2>5 DEF Promise
  <2> QED BY <1>8, <1>9, <2>2, <2>3, <2>4, <2>6 DEF RabbitInv
<1> QED BY <1>14, <1>15

LEMMA NextRabbit ==
  ASSUME RabbitAssumption, RabbitInv, [RabbitNext]_rabbitVars
  PROVE  RabbitInv'
BY ConnectionStep, ChannelStep, SetupStep, ConsumerStep, PublishStep,
   AwaitStep, ConfirmStep, ReceiveStep DEF RabbitNext, Connection

-----------------------------------------------------------------------------

LEMMA AlwaysKafka == Spec => []KafkaInv
<1>1. Init => KafkaInv BY InitKafka, KafkaAssumption DEF Init
<1>2. KafkaInv /\ [Next]_vars => KafkaInv'
  BY NextKafka, KafkaAssumption DEF Next, vars, kafkaVars
<1> QED BY <1>1, <1>2, PTL DEF Spec

LEMMA AlwaysRabbit == Spec => []RabbitInv
<1>1. Init => RabbitInv BY InitRabbit, RabbitAssumption DEF Init
<1>2. RabbitInv /\ [Next]_vars => RabbitInv'
  BY NextRabbit, RabbitAssumption DEF Next, vars, rabbitVars
<1> QED BY <1>1, <1>2, PTL DEF Spec

\* Where nobody waits, nothing is due and nothing is left on the first link,
\* and on no other: every acknowledgement was taken.
LEMMA AcksTaken ==
  ASSUME RabbitAssumption, RabbitInv PROVE AsManyAcks
<1> SUFFICES ASSUME rcfg.confirm
             PROVE  /\ Successes <= acked
                    /\ (\A s \in Senders : sender[s].pc \in {"ok", "err"})
                         /\ drops = 0 /\ ~closed => Successes = acked
  BY DEF AsManyAcks
<1>0. RabbitTyped /\ FirstLink /\ AckCount /\ Promise BY DEF RabbitInv
<1>1. /\ Cardinality(Won) \in Nat /\ Cardinality(AcksUnread) \in Nat
      /\ acked = Cardinality(Won) + Cardinality(AcksUnread)
  BY <1>0, SendersCount, FS_CardinalityType DEF AckCount
<1>2. Successes = Cardinality(Won) BY DEF Successes, Won
<1>3. ASSUME \A s \in Senders : sender[s].pc \in {"ok", "err"},
             drops = 0, ~closed
      PROVE  Successes = acked
  <2>1. Waiting = {} BY <1>3 DEF Waiting
  <2>2. Cardinality(Waiting) = 0 BY <2>1, FS_EmptySet
  <2>3. 0 = confirms[1].due + Len(confirms[1].box)
    BY <1>0, <1>3, <2>2 DEF Promise
  <2>4. confirms[1] \in Confirms /\ chan = 1
    BY <1>0, <1>3 DEF RabbitTyped, FirstLink
  <2>5. confirms[1].due \in Nat /\ Len(confirms[1].box) \in Nat
    BY <2>4 DEF Confirms
  <2>6. Len(confirms[1].box) = 0 BY <2>3, <2>5
  <2>7. \A l \in Links : Len(confirms[l].box) = 0
    BY <1>0, <1>3, <2>6 DEF FirstLink
  <2>8. AcksUnread = {} BY <2>7 DEF AcksUnread, Unread
  <2> QED BY <1>1, <1>2, <2>8, FS_EmptySet
<1> QED BY <1>1, <1>2, <1>3

\* A Kafka message before the committed offset was handled or dead-lettered, or
\* given up on: without a dead-letter topic after its retries, with one because
\* its own session or producer ended or Kafka refused the letter; or it was
\* published before the first session that committed, which starts at the newest
\* offset.  A RabbitMQ message the broker forgot was handled, autoAck and late
\* CommitMessage excepted.  Where a producer waits for confirms no more senders
\* succeed than the broker acknowledged, and no fewer as long as nobody gives up
\* and the link holds (messaging/kafka_consumer.go:423,
\* rabbitmq_consumer.go:307, rabbitmq_producer.go:197).
THEOREM AcksAreTrue == Spec => []AcksTrue
<1>1. KafkaInv => OffsetsSettled
  <2> SUFFICES ASSUME KafkaInv, NEW o \in Offsets, o < committed
               PROVE  \/ verdict[o] \in {"ok", "dlq"}
                      \/ verdict[o] \in IF kcfg.dlq
                                        THEN {"ended", "refused"}
                                        ELSE {"lost"}
                      \/ verdict[o] = "skipped" /\ o < began
    BY DEF OffsetsSettled
  <2>1. verdict[o] \in Verdicts /\ verdict[o] # "none"
    BY DEF KafkaInv, KafkaTyped, Settled
  <2> QED BY <2>1 DEF KafkaInv, Reasons, Verdicts
<1>2. RabbitInv => ForgottenIsHandled /\ AsManyAcks
  BY AcksTaken, RabbitAssumption DEF RabbitInv
<1>3. KafkaInv /\ RabbitInv => AcksTrue
  BY <1>1, <1>2 DEF AcksTrue, TakenIsSettled
<1> QED BY <1>3, AlwaysKafka, AlwaysRabbit, PTL

-----------------------------------------------------------------------------
(* The hub.                                                                *)

Conn == [pc : {"new", "joining", "on", "leaving", "gone"}, peer : BOOLEAN,
         closed : BOOLEAN, kicked : BOOLEAN, writing : BOOLEAN,
         queued : Int, last : Nat, known : BOOLEAN]
Errand == [msg : Nat, todo : SUBSET Clients, to : Clients \cup {NoClient},
           locked : BOOLEAN]

HubTyped ==
  /\ conn \in [Clients -> Conn]
  /\ sending \in [{"run", "app"} -> Errand]
  /\ clients \subseteq Clients /\ topic \subseteq Clients
  /\ register \in Seq(Clients) /\ unregister \in Seq(Clients)
  /\ broadcast \in Seq(Nat) /\ sent \in Nat /\ overflow \in BOOLEAN

\* Broadcasts wait in their order, each newer than what Run is sending and
\* than what any client got last; the application sends none itself.
Ordered ==
  /\ sending["app"].msg = 0
  /\ sending["run"].msg <= sent
  /\ \A c \in Clients :
       /\ conn[c].last <= sent
       /\ sending["run"].msg # 0 => conn[c].last <= sending["run"].msg
  /\ \A i \in 1 .. Len(broadcast) :
       /\ broadcast[i] <= sent /\ sending["run"].msg < broadcast[i]
       /\ \A c \in Clients : conn[c].last < broadcast[i]
  /\ \A i, j \in 1 .. Len(broadcast) : i < j => broadcast[i] < broadcast[j]

HubInv == HubTyped /\ (~ overflow => Ordered)

\* A step that only changes where clients are.
LastsStay ==
  /\ conn' \in [Clients -> Conn]
  /\ \A c \in Clients : conn'[c].last = conn[c].last
Elsewhere ==
  /\ LastsStay
  /\ clients' \subseteq Clients /\ topic' \subseteq Clients
  /\ register' \in Seq(Clients) /\ unregister' \in Seq(Clients)
  /\ UNCHANGED <<broadcast, sending, sent, overflow>>

LEMMA NextElsewhere == HubInv /\ Elsewhere => HubInv'
BY DEF HubInv, HubTyped, Elsewhere, LastsStay, Ordered

LEMMA Appended ==
  ASSUME NEW S, NEW s \in Seq(S), NEW x \in S
  PROVE  Append(s, x) \in Seq(S)
OBVIOUS

LEMMA PutsLast ==
  ASSUME NEW r \in Conn, NEW l \in Nat
  PROVE  /\ [r EXCEPT !.queued = @ + 1, !.last = l] \in Conn
         /\ [r EXCEPT !.queued = @ + 1, !.last = l].last = l
<1> DEFINE q == [r EXCEPT !.queued = @ + 1]
<1>1. q \in Conn BY DEF Conn
<1>2. [q EXCEPT !.last = l] \in Conn /\ [q EXCEPT !.last = l].last = l
  <2> HIDE DEF q
  <2> QED BY <1>1 DEF Conn
<1> QED BY <1>2

LEMMA ConnStays ==
  ASSUME HubTyped, NEW c \in Clients, NEW r \in Conn, r.last = conn[c].last,
         conn' = [conn EXCEPT ![c] = r]
  PROVE  LastsStay
BY DEF HubTyped, LastsStay

LEMMA Gones ==
  ASSUME NEW r \in Conn
  PROVE  /\ Gone(r) \in Conn /\ Gone(r).last = r.last
         /\ Closed(r) \in Conn /\ Closed(r).last = r.last
         /\ [Closed(r) EXCEPT !.kicked = TRUE] \in Conn
         /\ [Closed(r) EXCEPT !.kicked = TRUE].last = r.last
         /\ [r EXCEPT !.pc = "gone"] \in Conn
         /\ [r EXCEPT !.pc = "gone"].last = r.last
BY DEF Conn, Gone, Closed

LEMMA Forgets ==
  ASSUME HubTyped, NEW c \in Clients, NEW r \in Conn,
         r.last = conn[c].last, Forget(c, r)
  PROVE  LastsStay /\ clients' \subseteq Clients
<1>1. /\ Closed(r) \in Conn /\ Closed(r).last = r.last
  BY Gones
<1>2. PICK q \in Conn : q.last = conn[c].last
        /\ conn' = [conn EXCEPT ![c] = q]
  BY <1>1 DEF Forget
<1> QED BY <1>2, ConnStays DEF Forget, HubTyped

LEMMA LifeElsewhere ==
  ASSUME HubTyped, NEW c \in Clients, Life(c)
  PROVE  Elsewhere
<1>0. conn[c] \in Conn BY DEF HubTyped
<1>1. CASE Join(c)
  <2>1. conn' = [conn EXCEPT ![c] =
                   [conn[c] EXCEPT !.pc = "on", !.writing = TRUE]]
    BY <1>0, <1>1 DEF Join, HubTyped, Conn
  <2>2. LastsStay BY <1>0, <2>1, ConnStays DEF Conn
  <2> QED BY <1>1, <2>2 DEF HubTyped, Elsewhere, Join
<1>2. CASE Write(c)
  <2>1. CASE conn' = [conn EXCEPT ![c].queued = @ - 1]
    <3>1. conn' = [conn EXCEPT ![c] = [conn[c] EXCEPT !.queued = @ - 1]]
      BY <1>0, <2>1 DEF Conn
    <3>2. [conn[c] EXCEPT !.queued = @ - 1] \in Conn
          /\ [conn[c] EXCEPT !.queued = @ - 1].last = conn[c].last
      BY <1>0 DEF Conn
    <3>3. LastsStay BY <3>1, <3>2, ConnStays
    <3> QED BY <1>2, <3>3 DEF HubTyped, Elsewhere, Write, channels
  <2>2. CASE conn' = [conn EXCEPT ![c].writing = FALSE, ![c].peer = FALSE]
    <3>1. conn' = [conn EXCEPT ![c] =
                     [conn[c] EXCEPT !.writing = FALSE, !.peer = FALSE]]
      BY <1>0, <2>2 DEF HubTyped
    <3>2. [conn[c] EXCEPT !.writing = FALSE, !.peer = FALSE] \in Conn
          /\ [conn[c] EXCEPT !.writing = FALSE, !.peer = FALSE].last
               = conn[c].last
      BY <1>0 DEF Conn
    <3>3. LastsStay BY <3>1, <3>2, ConnStays
    <3> QED BY <1>2, <3>3 DEF HubTyped, Elsewhere, Write, channels
  <2>3. CASE conn' = [conn EXCEPT ![c] = Gone(conn[c])]
    <3>1. LastsStay BY <1>0, <2>3, Gones, ConnStays
    <3> QED BY <1>2, <3>1 DEF HubTyped, Elsewhere, Write, channels
  <2> QED BY <1>2, <2>1, <2>2, <2>3 DEF Write
<1>3. CASE ReadEnds(c)
  <2> DEFINE r == [conn[c] EXCEPT !.pc = "gone"]
  <2>1. r \in Conn /\ r.last = conn[c].last BY <1>0, Gones
  <2>2. LastsStay /\ clients' \subseteq Clients
    <3>1. CASE Forget(c, r) BY <2>1, <3>1, Forgets
    <3>2. CASE conn' = [conn EXCEPT ![c] = r] /\ UNCHANGED clients
      BY <2>1, <3>2, ConnStays DEF HubTyped
    <3> QED BY <1>3, <3>1, <3>2 DEF ReadEnds
  <2>3. unregister' \in Seq(Clients)
    <3>1. unregister' = unregister \/ unregister' = Append(unregister, c)
      BY <1>3 DEF ReadEnds
    <3>2. unregister \in Seq(Clients) BY DEF HubTyped
    <3> QED BY <3>1, <3>2, Appended
  <2>4. UNCHANGED <<topic, register, broadcast, sending, sent, overflow>>
    BY <1>3 DEF ReadEnds
  <2> QED BY <2>2, <2>3, <2>4 DEF Elsewhere, HubTyped
<1>4. CASE RequestEnds(c)
  BY <1>4 DEF HubTyped, Elsewhere, LastsStay, RequestEnds, Conn, channels
<1>5. CASE Leave(c)
  <2>1. LastsStay BY <1>0, <1>5, Gones, ConnStays DEF Leave
  <2> QED BY <1>5, <2>1 DEF Leave, HubTyped, Elsewhere
<1> QED BY <1>1, <1>2, <1>3, <1>4, <1>5 DEF Life

LEMMA ClientElsewhere ==
  ASSUME HubTyped, NEW c \in Clients,
         \/ Upgrade(c) \/ ServeHTTP(c) \/ PeerLeaves(c) \/ HandleMessage(c)
         \/ ReadFails(c) \/ Kick(c)
         \/ SubscribeTopic(c) \/ UnsubscribeTopic(c)
  PROVE  Elsewhere
<1>0. conn[c] \in Conn BY DEF HubTyped
<1>1. CASE Upgrade(c)
  <2>1. conn' = [conn EXCEPT ![c] =
                   [conn[c] EXCEPT !.pc = "on", !.writing = TRUE]]
    BY <1>0, <1>1 DEF Upgrade, HubTyped, Conn
  <2>2. LastsStay BY <1>0, <2>1, ConnStays DEF Conn
  <2>3. register' \in Seq(Clients) /\ clients' \subseteq Clients
    <3>1. register' = register \/ register' = Append(register, c)
      BY <1>1 DEF Upgrade
    <3>2. clients' = clients \/ clients' = clients \cup {c}
      BY <1>1 DEF Upgrade
    <3>3. register \in Seq(Clients) /\ clients \subseteq Clients
      BY DEF HubTyped
    <3>4. register' \in Seq(Clients) BY <3>1, <3>3, Appended
    <3> QED BY <3>2, <3>3, <3>4
  <2>4. UNCHANGED <<topic, unregister, broadcast, sending, sent, overflow>>
    BY <1>1 DEF Upgrade
  <2> QED BY <2>2, <2>3, <2>4 DEF HubTyped, Elsewhere
<1>2. CASE ServeHTTP(c)
  BY <1>2 DEF HubTyped, Elsewhere, LastsStay, ServeHTTP, Conn, channels
<1>3. CASE PeerLeaves(c)
  BY <1>3 DEF HubTyped, Elsewhere, LastsStay, PeerLeaves, Conn, channels
<1>4. CASE HandleMessage(c)
  <2>1. CASE conn' = [conn EXCEPT ![c].known = TRUE]
    BY <1>4, <2>1
       DEF HubTyped, Elsewhere, LastsStay, HandleMessage, Conn, channels
  <2>2. CASE conn' = [conn EXCEPT ![c] = Closed(@)]
    <3>1. LastsStay BY <1>0, <2>2, Gones, ConnStays
    <3> QED BY <1>4, <3>1 DEF HandleMessage, HubTyped, Elsewhere, channels
  <2> QED BY <1>4, <2>1, <2>2 DEF HandleMessage
<1>5. CASE SubscribeTopic(c) \/ UnsubscribeTopic(c)
  BY <1>5 DEF HubTyped, Elsewhere, LastsStay, SubscribeTopic,
              UnsubscribeTopic, channels
<1>6. CASE ReadFails(c)
  BY <1>6 DEF HubTyped, Elsewhere, LastsStay, ReadFails, Conn, channels
<1>7. CASE Kick(c)
  <2>1. LastsStay BY <1>0, <1>7, Gones, ConnStays DEF Kick
  <2> QED BY <1>7, <2>1 DEF Kick, HubTyped, Elsewhere, channels
<1> QED BY <1>1, <1>2, <1>3, <1>4, <1>5, <1>6, <1>7

LEMMA RunElsewhere ==
  ASSUME HubTyped,
         RunRegister \/ RunUnregister \/ RunStops \/ CloseHub
  PROVE  Elsewhere
<1>1. CASE RunRegister
  <2>1. Head(register) \in Clients /\ Tail(register) \in Seq(Clients)
    BY <1>1 DEF RunRegister, HubTyped
  <2> QED BY <1>1, <2>1 DEF RunRegister, HubTyped, Elsewhere, LastsStay
<1>2. CASE RunUnregister
  <2> DEFINE c == Head(unregister)
  <2>1. c \in Clients /\ Tail(unregister) \in Seq(Clients)
    BY <1>2 DEF RunUnregister, HubTyped
  <2>2. LastsStay /\ clients' \subseteq Clients
    BY <1>2, <2>1, Forgets DEF RunUnregister, HubTyped
  <2> QED BY <1>2, <2>1, <2>2 DEF RunUnregister, HubTyped, Elsewhere
<1>3. CASE RunStops
  BY <1>3 DEF RunStops, HubTyped, Elsewhere, LastsStay, channels
<1>4. CASE CloseHub
  <2>1. LastsStay
    BY <1>4, Gones DEF CloseHub, CloseAll, HubTyped, LastsStay
  <2> QED BY <1>4, <2>1 DEF CloseHub, HubTyped, Elsewhere, channels
<1> QED BY <1>1, <1>2, <1>3, <1>4

LEMMA NextRunBroadcast == HubInv /\ RunBroadcast => HubInv'
<1> SUFFICES ASSUME HubInv, RunBroadcast PROVE HubInv'
  OBVIOUS
<1> USE DEF HubInv
<1>1. /\ broadcast \in Seq(Nat) /\ broadcast # <<>>
      /\ broadcast' = Tail(broadcast) /\ Head(broadcast) \in Nat
      /\ Tail(broadcast) \in Seq(Nat) /\ Head(broadcast) = broadcast[1]
      /\ Len(broadcast') = Len(broadcast) - 1 /\ Len(broadcast) \in Nat \ {0}
      /\ \A i \in 1 .. Len(broadcast') : broadcast'[i] = broadcast[i + 1]
  BY DEF RunBroadcast, HubTyped
<1>2. /\ sending'["run"] =
           [msg |-> Head(broadcast), todo |-> clients, to |-> NoClient,
            locked |-> TRUE]
      /\ sending'["app"] = sending["app"]
      /\ sending' \in [{"run", "app"} -> Errand]
  BY <1>1 DEF RunBroadcast, HubTyped, Errand
<1>3. UNCHANGED <<conn, sent, overflow, clients, topic, register, unregister>>
  BY DEF RunBroadcast
<1>4. HubTyped' BY <1>1, <1>2, <1>3 DEF HubTyped
<1>5. ASSUME ~ overflow PROVE Ordered'
  <2>1. /\ Ordered /\ sending'["run"].msg = broadcast[1]
        /\ sending'["app"].msg = 0 /\ 1 \in 1 .. Len(broadcast)
    BY <1>1, <1>2, <1>5 DEF Ordered
  <2>2. \A i \in 1 .. Len(broadcast') :
          /\ i + 1 \in 1 .. Len(broadcast) /\ 1 < i + 1
          /\ broadcast'[i] = broadcast[i + 1]
    BY <1>1
  <2>3. \A i \in 1 .. Len(broadcast') :
          broadcast'[i] <= sent /\ broadcast[1] < broadcast'[i]
          /\ \A c \in Clients : conn[c].last < broadcast'[i]
    BY <2>1, <2>2 DEF Ordered
  <2>4. \A i, j \in 1 .. Len(broadcast') :
          i < j => broadcast'[i] < broadcast'[j]
    BY <2>1, <2>2 DEF Ordered
  <2>5. \A c \in Clients : conn[c].last \in Nat BY DEF HubTyped, Conn
  <2>6. broadcast[1] <= sent
        /\ \A c \in Clients : conn[c].last <= sent
                              /\ conn[c].last <= broadcast[1]
    BY <1>1, <2>1, <2>5 DEF Ordered
  <2> QED BY <1>3, <2>1, <2>3, <2>4, <2>6 DEF Ordered
<1> QED BY <1>3, <1>4, <1>5

LEMMA NextBroadcast == HubInv /\ Broadcast => HubInv'
<1> SUFFICES ASSUME HubInv, Broadcast PROVE HubInv'
  OBVIOUS
<1> USE DEF HubInv
<1>1. /\ sent \in Nat /\ sent' = sent + 1 /\ overflow' \in BOOLEAN
      /\ UNCHANGED <<conn, clients, topic, register, unregister>>
      /\ broadcast \in Seq(Nat) /\ overflow \in BOOLEAN
      /\ ~ overflow' => ~ overflow
  BY DEF Broadcast, CanSend, HubTyped
<1>2. CASE Direct(sent + 1, clients, TRUE) /\ UNCHANGED broadcast
           /\ Len(broadcast) = Capacity
  <2>1. overflow' BY <1>2 DEF Broadcast
  <2>2. sending' \in [{"run", "app"} -> Errand]
    BY <1>1, <1>2 DEF Direct, HubTyped, Errand
  <2> QED BY <1>1, <1>2, <2>1, <2>2 DEF HubTyped
<1>3. CASE broadcast' = Append(broadcast, sent + 1) /\ UNCHANGED sending
  <2>1. /\ broadcast' \in Seq(Nat) /\ Len(broadcast') = Len(broadcast) + 1
        /\ Len(broadcast) \in Nat
        /\ \A i \in 1 .. Len(broadcast) :
             broadcast'[i] = broadcast[i] /\ broadcast[i] \in Nat
        /\ broadcast'[Len(broadcast) + 1] = sent + 1
    BY <1>1, <1>3
  <2>2. HubTyped' BY <1>1, <1>3, <2>1 DEF HubTyped
  <2>3. ASSUME ~ overflow' PROVE Ordered'
    <3>1. Ordered /\ sending["run"].msg \in Nat
          /\ \A c \in Clients : conn[c].last \in Nat
      BY <1>1, <2>3 DEF HubTyped, Errand, Conn
    <3>2. ASSUME NEW i \in 1 .. Len(broadcast')
          PROVE  /\ broadcast'[i] <= sent' /\ sending["run"].msg < broadcast'[i]
                 /\ \A c \in Clients : conn[c].last < broadcast'[i]
      <4>1. CASE i = Len(broadcast) + 1
        BY <1>1, <2>1, <3>1, <4>1 DEF Ordered
      <4>2. CASE i \in 1 .. Len(broadcast)
        <5>1. /\ broadcast[i] <= sent /\ sending["run"].msg < broadcast[i]
              /\ \A c \in Clients : conn[c].last < broadcast[i]
          BY <3>1, <4>2 DEF Ordered
        <5> QED BY <1>1, <2>1, <4>2, <5>1
      <4> QED BY <2>1, <4>1, <4>2
    <3>3. ASSUME NEW i \in 1 .. Len(broadcast'),
                 NEW j \in 1 .. Len(broadcast'), i < j
          PROVE  broadcast'[i] < broadcast'[j]
      <4>1. i \in 1 .. Len(broadcast) /\ broadcast'[i] = broadcast[i]
        BY <2>1, <3>3
      <4>2. CASE j = Len(broadcast) + 1
        BY <1>1, <2>1, <3>1, <4>1, <4>2 DEF Ordered
      <4>3. CASE j \in 1 .. Len(broadcast)
        BY <2>1, <3>1, <3>3, <4>1, <4>3 DEF Ordered
      <4> QED BY <2>1, <4>2, <4>3
    <3>4. sending["run"].msg <= sent' /\ sending["app"].msg = 0
          /\ \A c \in Clients :
               /\ conn[c].last <= sent'
               /\ sending["run"].msg # 0 => conn[c].last <= sending["run"].msg
      BY <1>1, <3>1 DEF Ordered
    <3> QED BY <1>1, <1>3, <3>2, <3>3, <3>4 DEF Ordered
  <2> QED BY <2>2, <2>3
<1> QED BY <1>2, <1>3 DEF Broadcast

\* What the application sends to chosen clients has no number.
LEMMA NextDirect ==
  ASSUME HubInv, BroadcastTo \/ Send \/ PublishTopic
  PROVE  HubInv'
<1> USE DEF HubInv
<1>1. PICK to \in SUBSET Clients : \E b \in BOOLEAN : Direct(0, to, b)
  BY DEF BroadcastTo, Send, PublishTopic, HubTyped
<1>2. /\ sent \in Nat /\ sent' = sent + 1
      /\ UNCHANGED <<conn, clients, topic, register, unregister, broadcast,
                     overflow>>
  BY DEF BroadcastTo, Send, PublishTopic, CanSend, HubTyped, channels
<1>3. /\ sending' \in [{"run", "app"} -> Errand]
      /\ sending'["app"].msg = 0 /\ sending'["run"] = sending["run"]
  BY <1>1 DEF Direct, HubTyped, Errand
<1>4. HubTyped' BY <1>2, <1>3 DEF HubTyped
<1>5. ~ overflow => Ordered'
  <2> SUFFICES ASSUME ~ overflow PROVE Ordered'
    OBVIOUS
  <2>1. /\ sending["run"].msg \in Nat
        /\ \A c \in Clients : conn[c].last \in Nat
        /\ \A i \in 1 .. Len(broadcast) : broadcast[i] \in Nat
    BY DEF HubTyped, Errand, Conn
  <2> QED BY <1>2, <1>3, <2>1 DEF Ordered
<1> QED BY <1>2, <1>4, <1>5

LEMMA NextLook ==
  ASSUME HubInv, NEW a \in {"run", "app"}, Look(a)
  PROVE  HubInv'
<1> USE DEF HubInv
<1>1. UNCHANGED <<conn, clients, topic, register, unregister, broadcast,
                  overflow, sent>>
  BY DEF Look, channels
<1>2. /\ sending' \in [{"run", "app"} -> Errand]
      /\ \A b \in {"run", "app"} :
           sending'[b].msg = sending[b].msg \/ sending'[b].msg = 0
  <2>1. CASE sending' = [sending EXCEPT ![a] = Idle]
    BY <2>1 DEF HubTyped, Errand, Idle
  <2>2. ASSUME NEW c \in sending[a].todo, NEW to \in {NoClient, c},
               sending' = [sending EXCEPT ![a].todo = @ \ {c}, ![a].to = to]
        PROVE  /\ sending' \in [{"run", "app"} -> Errand]
               /\ \A b \in {"run", "app"} :
                    sending'[b].msg = sending[b].msg
    <3>1. sending[a] \in Errand /\ c \in Clients
          /\ to \in Clients \cup {NoClient}
      BY <2>2 DEF HubTyped, Errand
    <3>2. sending' = [sending EXCEPT ![a] =
            [sending[a] EXCEPT !.todo = @ \ {c}, !.to = to]]
      BY <2>2, <3>1 DEF HubTyped, Errand
    <3> QED BY <3>1, <3>2 DEF HubTyped, Errand
  <2> QED BY <2>1, <2>2 DEF Look
<1>3. HubTyped' BY <1>1, <1>2 DEF HubTyped
<1>4. ~ overflow => Ordered'
  <2> SUFFICES ASSUME ~ overflow PROVE Ordered'
    OBVIOUS
  <2>1. /\ sending["run"].msg \in Nat /\ sent \in Nat
        /\ \A c \in Clients : conn[c].last \in Nat
        /\ \A i \in 1 .. Len(broadcast) : broadcast[i] \in Nat
    BY DEF HubTyped, Errand, Conn
  <2> QED BY <1>1, <1>2, <2>1 DEF Ordered
<1> QED BY <1>1, <1>3, <1>4

LEMMA PutFacts ==
  ASSUME HubTyped, NEW a \in {"run", "app"}, Put(a)
  PROVE  /\ HubTyped' /\ UNCHANGED <<broadcast, overflow, sent>>
         /\ \A b \in {"run", "app"} : sending'[b].msg = sending[b].msg
         /\ \A c \in Clients :
              \/ conn'[c].last = conn[c].last
              \/ sending[a].msg # 0 /\ conn'[c].last = sending[a].msg
<1> DEFINE c == sending[a].to
<1>1. /\ UNCHANGED <<clients, topic, register, unregister, broadcast,
                     overflow, sent>>
      /\ sending' \in [{"run", "app"} -> Errand]
      /\ \A b \in {"run", "app"} : sending'[b].msg = sending[b].msg
      /\ sending[a].msg \in Nat
  BY DEF Put, channels, HubTyped, Errand
<1>2. /\ conn' \in [Clients -> Conn]
      /\ \A d \in Clients :
           \/ conn'[d].last = conn[d].last
           \/ sending[a].msg # 0 /\ conn'[d].last = sending[a].msg
  <2>1. CASE conn' = conn BY <2>1 DEF HubTyped
  <2>2. CASE conn' = [conn EXCEPT ![c].queued = @ + 1,
                        ![c].last = IF sending[a].msg = 0 THEN @
                                    ELSE sending[a].msg]
    <3>1. c \in Clients BY DEF Put, HubTyped, Errand
    <3>2. conn[c] \in Conn BY <3>1 DEF HubTyped
    <3> DEFINE l == IF sending[a].msg = 0 THEN conn[c].last
                    ELSE sending[a].msg
    <3>3. conn' = [conn EXCEPT ![c] =
            [conn[c] EXCEPT !.queued = @ + 1, !.last = l]]
      BY <2>2, <3>1, <3>2 DEF HubTyped, Conn
    <3>4. l \in Nat BY <1>1, <3>2 DEF Conn
    <3>6. \/ l = conn[c].last
          \/ sending[a].msg # 0 /\ l = sending[a].msg
      OBVIOUS
    <3> HIDE DEF l
    <3>5. [conn[c] EXCEPT !.queued = @ + 1, !.last = l] \in Conn
          /\ [conn[c] EXCEPT !.queued = @ + 1, !.last = l].last = l
      BY <3>2, <3>4, PutsLast
    <3> HIDE DEF c
    <3> QED BY <3>1, <3>3, <3>6, <3>5 DEF HubTyped
  <2> QED BY <2>1, <2>2 DEF Put
<1> QED BY <1>1, <1>2 DEF HubTyped

LEMMA NextPut ==
  ASSUME HubInv, NEW a \in {"run", "app"}, Put(a)
  PROVE  HubInv'
<1> USE DEF HubInv
<1>1. ~ overflow => Ordered'
  <2> SUFFICES ASSUME ~ overflow PROVE Ordered'
    OBVIOUS
  <2>1. /\ sending["run"].msg \in Nat /\ sent \in Nat
        /\ \A c \in Clients : conn[c].last \in Nat
        /\ \A i \in 1 .. Len(broadcast) : broadcast[i] \in Nat
    BY DEF HubTyped, Errand, Conn
  <2>2. \A c \in Clients : \/ conn'[c].last = conn[c].last
                           \/ sending["run"].msg # 0
                              /\ conn'[c].last = sending["run"].msg
    BY PutFacts DEF Ordered
  <2> QED BY <2>1, <2>2, PutFacts DEF Ordered
<1> QED BY <1>1, PutFacts

LEMMA HubStutters == HubInv /\ UNCHANGED hubVars => HubInv'
BY DEF HubInv, HubTyped, Ordered, hubVars, channels

LEMMA HubNextKeeps == HubInv /\ [FanoutNext]_fanoutVars => HubInv'
<1> SUFFICES ASSUME HubInv, [FanoutNext]_fanoutVars PROVE HubInv'
  OBVIOUS
<1>1. CASE HubNext
  BY <1>1, NextElsewhere, LifeElsewhere, ClientElsewhere, RunElsewhere,
     NextRunBroadcast, NextBroadcast, NextDirect, NextLook, NextPut
  DEF HubNext, Loop, Sending, HubInv
<1>2. CASE UNCHANGED hubVars BY <1>2, HubStutters
<1> QED BY <1>1, <1>2 DEF FanoutNext, fanoutVars

LEMMA HubStarts == FanoutInit => HubInv
<1> SUFFICES ASSUME FanoutInit PROVE HubInv
  OBVIOUS
<1>1. conn \in [Clients -> Conn] /\ \A c \in Clients : conn[c].last = 0
  BY DEF FanoutInit, HubInit, Conn, NewConn
<1>2. sending \in [{"run", "app"} -> Errand]
      /\ \A a \in {"run", "app"} : sending[a].msg = 0
  BY DEF FanoutInit, HubInit, Errand, Idle
<1>3. /\ clients = {} /\ topic = {} /\ sent = 0 /\ overflow = FALSE
      /\ register = <<>> /\ unregister = <<>> /\ broadcast = <<>>
  BY DEF FanoutInit, HubInit
<1>4. HubTyped
  <2>1. <<>> \in Seq(Clients) /\ <<>> \in Seq(Nat)
    OBVIOUS
  <2> QED BY <1>1, <1>2, <1>3, <2>1 DEF HubTyped
<1>5. Len(broadcast) = 0 BY <1>3
<1> QED BY <1>1, <1>2, <1>3, <1>4, <1>5 DEF HubInv, Ordered

\* No step of the system gives a client a broadcast older than its last.
LEMMA StepInOrder ==
  ASSUME HubInv, [FanoutNext]_fanoutVars, NEW c \in Clients
  PROVE  overflow' \/ conn'[c].last >= conn[c].last
<1> USE DEF HubInv
<1>0. conn[c].last \in Nat BY DEF HubTyped, Conn
<1>1. CASE HubNext
  <2>1. CASE LastsStay BY <1>0, <2>1 DEF LastsStay
  <2>2. CASE conn' = conn BY <1>0, <2>2
  <2>3. ASSUME NEW a \in {"run", "app"}, Put(a)
        PROVE  overflow' \/ conn'[c].last >= conn[c].last
    <3>1. CASE conn'[c].last = conn[c].last BY <1>0, <3>1
    <3>2. CASE overflow BY <2>3, <3>2, PutFacts
    <3>3. CASE ~ overflow /\ sending[a].msg # 0
               /\ conn'[c].last = sending[a].msg
      <4>1. a = "run" BY <3>3 DEF Ordered
      <4> QED BY <1>0, <3>3, <4>1 DEF Ordered, HubTyped, Errand
    <3> QED BY <2>3, <3>1, <3>2, <3>3, PutFacts DEF HubTyped
  <2>4. LastsStay \/ conn' = conn \/ \E a \in {"run", "app"} : Put(a)
    BY <1>1, LifeElsewhere, ClientElsewhere, RunElsewhere
    DEF HubNext, Loop, Sending, Elsewhere, RunBroadcast, Broadcast,
        BroadcastTo, Send, PublishTopic, Look
  <2> QED BY <2>1, <2>2, <2>3, <2>4
<1>2. CASE UNCHANGED hubVars BY <1>0, <1>2 DEF hubVars
<1> QED BY <1>1, <1>2 DEF FanoutNext, fanoutVars

\* No client gets a broadcast older than one it got, whatever the clients do,
\* as long as no broadcast found the channel full (websocket.go: Broadcast).
THEOREM BroadcastsInOrder == FanoutSpec => InOrder
<1>1. HubInv /\ [FanoutNext]_fanoutVars =>
        [\A c \in Clients :
           overflow' \/ conn'[c].last >= conn[c].last]_fanoutVars
  BY StepInOrder
<1> QED BY <1>1, HubStarts, HubNextKeeps, PTL DEF FanoutSpec, InOrder

-----------------------------------------------------------------------------
(* The event bus.                                                          *)

Handlers ==
  UNION {Range(c.named) \cup Range(c.all) \cup c.later : c \in BusConfigs}

\* A running or finished Publish.
Publication ==
  [pc : {"off", "idle", "calling", "returned", "failed"},
   cap : Capacities, own : Seq(Handlers), len : Nat,
   called : Seq(Handlers), due : SUBSET Handlers, crossed : BOOLEAN]

\* The list a Publish walks is there for as long as it walks.
Walks(p) ==
  Publishing(p) => pub[p].cap <= cap /\ pub[p].len <= Len(List(pub[p]))

BusTyped ==
  /\ bcfg \in BusConfigs
  /\ array \in [Capacities -> Seq(Handlers)] /\ cap \in Capacities
  /\ named \in Nat /\ named <= Len(array[cap]) /\ all \in Seq(Handlers)
  /\ pub \in [Publishers -> Publication]
  /\ \A p \in Publishers : Walks(p)
  /\ raised \in Nat /\ events \in Seq(Nat) /\ batch \in Seq(Nat)

\* The handlers of the name, then those of all, each there once.
Slots == named + Len(all)
Entry(i) == IF i <= named THEN array[cap][i] ELSE all[i - named]
Distinct == \A i, j \in 1 .. Slots : Entry(i) = Entry(j) => i = j

\* Until a handler of the name is added, what a Publish walks is the list as
\* it is now, or the beginning of it.
OnItsWay(p) ==
  Publishing(p) /\ ~ pub[p].crossed =>
    LET r == pub[p] IN
    /\ r.cap \in {0, cap} /\ named <= r.len /\ r.len <= Slots
    /\ \A i \in 1 .. r.len : List(r)[i] = Entry(i)
    /\ r.due = {Entry(i) : i \in 1 .. r.len}
    /\ Len(r.called) <= r.len
    /\ \A i \in 1 .. Len(r.called) : r.called[i] = Entry(i)

\* What a Dispatch would clear it has heard, has yet to publish, or was
\* raised while it ran.
Dispatched ==
  /\ batch = <<>> <=> pub["dispatch"].pc \in {"off", "idle"}
  /\ NoneForgotten
  /\ batch # <<>> => Range(events) \subseteq Range(batch) \cup heard \cup late

BusInv ==
  /\ BusTyped /\ Distinct /\ \A p \in Publishers : OnItsWay(p)
  /\ AllCalled /\ Dispatched

LEMMA RangeAppend ==
  ASSUME NEW S, NEW s \in Seq(S), NEW x \in S
  PROVE  Range(Append(s, x)) = Range(s) \cup {x}
<1>1. /\ Append(s, x) \in Seq(S) /\ DOMAIN Append(s, x) = 1 .. Len(s) + 1
      /\ DOMAIN s = 1 .. Len(s) /\ Len(s) \in Nat
  OBVIOUS
<1>2. \A i \in 1 .. Len(s) : Append(s, x)[i] = s[i]
  OBVIOUS
<1>3. Append(s, x)[Len(s) + 1] = x
  OBVIOUS
<1>4. 1 .. Len(s) + 1 = (1 .. Len(s)) \cup {Len(s) + 1}
  BY <1>1
<1> QED BY <1>1, <1>2, <1>3, <1>4 DEF Range

LEMMA RangeOfTail ==
  ASSUME NEW S, NEW s \in Seq(S), s # <<>>
  PROVE  Range(s) \subseteq {Head(s)} \cup Range(Tail(s))
<1> DEFINE t == Tail(s)
<1>1. /\ DOMAIN s = 1 .. Len(s) /\ Head(s) = s[1] /\ Len(s) \in Nat \ {0}
      /\ DOMAIN t = 1 .. Len(s) - 1
      /\ \A i \in 1 .. Len(s) - 1 : t[i] = s[i + 1]
  OBVIOUS
<1> HIDE DEF t
<1>2. ASSUME NEW i \in 1 .. Len(s), i # 1 PROVE s[i] \in Range(t)
  <2>1. i - 1 \in 1 .. Len(s) - 1 /\ (i - 1) + 1 = i BY <1>1, <1>2
  <2>2. t[i - 1] = s[i] BY <1>1, <2>1
  <2> QED BY <1>1, <2>1, <2>2 DEF Range
<1>3. ASSUME NEW x \in Range(s) PROVE x \in {s[1]} \cup Range(t)
  <2>1. PICK i \in 1 .. Len(s) : x = s[i] BY <1>1 DEF Range
  <2> QED BY <1>2, <2>1
<1> QED BY <1>1, <1>3 DEF t

LEMMA Overwrites ==
  ASSUME NEW S, NEW slots \in Seq(S), NEW n \in Nat, n <= Len(slots),
         NEW new \in Seq(S)
  PROVE  LET o == Overwrite(slots, n, new) IN
         /\ o \in Seq(S) /\ Len(o) >= n + Len(new) /\ Len(o) >= Len(slots)
         /\ \A i \in 1 .. n : o[i] = slots[i]
         /\ \A i \in n + 1 .. n + Len(new) : o[i] = new[i - n]
<1> DEFINE m == IF n + Len(new) > Len(slots) THEN n + Len(new) ELSE Len(slots)
           v(i) == IF i > n /\ i <= n + Len(new) THEN new[i - n] ELSE slots[i]
           o == [i \in 1 .. m |-> v(i)]
<1>1. m \in Nat /\ Len(new) \in Nat /\ Len(slots) \in Nat
      /\ m >= n + Len(new) /\ m >= Len(slots)
  OBVIOUS
<1>2. \A i \in 1 .. m : v(i) \in S
  OBVIOUS
<1>3. \A i \in 1 .. n : i \in 1 .. m /\ v(i) = slots[i]
  OBVIOUS
<1>4. \A i \in n + 1 .. n + Len(new) : i \in 1 .. m /\ v(i) = new[i - n]
  OBVIOUS
<1> HIDE DEF m, v
<1>5. o \in Seq(S) /\ Len(o) = m BY <1>1, <1>2
<1>6. \A i \in 1 .. n : o[i] = slots[i] BY <1>3
<1>7. \A i \in n + 1 .. n + Len(new) : o[i] = new[i - n] BY <1>4
<1>8. Overwrite(slots, n, new) = o BY DEF Overwrite, m, v
<1> QED BY <1>1, <1>5, <1>6, <1>7, <1>8

LEMMA NamedIs ==
  ASSUME BusTyped
  PROVE  /\ Named \in Seq(Handlers) /\ Len(Named) = named
         /\ \A i \in 1 .. named : Named[i] = array[cap][i]
         /\ named \in Nat /\ Len(all) \in Nat /\ Slots \in Nat
         /\ DOMAIN Named = 1 .. named /\ DOMAIN all = 1 .. Len(all)
         /\ \A i \in 1 .. Slots : Entry(i) \in Handlers
<1>1. /\ array[cap] \in Seq(Handlers) /\ named \in Nat
      /\ named <= Len(array[cap]) /\ all \in Seq(Handlers)
  BY DEF BusTyped
<1>2. \A i \in 1 .. Slots :
        \/ i \in 1 .. named /\ Entry(i) = array[cap][i]
        \/ i - named \in 1 .. Len(all) /\ Entry(i) = all[i - named]
  BY <1>1 DEF Slots, Entry
<1> QED BY <1>1, <1>2 DEF Named, Slots

LEMMA SubscribedAre ==
  ASSUME BusTyped
  PROVE  Subscribed = {Entry(i) : i \in 1 .. Slots}
<1>1. ASSUME NEW h \in Subscribed
      PROVE  \E i \in 1 .. Slots : h = Entry(i)
  <2>1. CASE h \in Range(Named)
    <3>1. PICK i \in 1 .. named : h = array[cap][i]
      BY <2>1, NamedIs DEF Range
    <3>2. i \in 1 .. Slots /\ Entry(i) = array[cap][i]
      BY <3>1, NamedIs DEF Slots, Entry
    <3> QED BY <3>1, <3>2
  <2>2. CASE h \in Range(all)
    <3>1. PICK i \in 1 .. Len(all) : h = all[i]
      BY <2>2, NamedIs DEF Range
    <3>2. named + i \in 1 .. Slots /\ ~ (named + i <= named)
          /\ (named + i) - named = i
      BY <3>1, NamedIs DEF Slots
    <3> QED BY <3>1, <3>2 DEF Entry
  <2> QED BY <1>1, <2>1, <2>2 DEF Subscribed
<1>2. ASSUME NEW i \in 1 .. Slots PROVE Entry(i) \in Subscribed
  <2>1. CASE i <= named
    <3>1. i \in DOMAIN Named /\ Entry(i) = Named[i]
      BY <2>1, NamedIs DEF Entry
    <3> QED BY <3>1 DEF Range, Subscribed
  <2>2. CASE ~ (i <= named)
    <3>1. i - named \in DOMAIN all /\ Entry(i) = all[i - named]
      BY <2>2, NamedIs DEF Entry, Slots
    <3> QED BY <3>1 DEF Range, Subscribed
  <2> QED BY <2>1, <2>2
<1> QED BY <1>1, <1>2

\* What Begin does, whoever publishes.
LEMMA Begins ==
  ASSUME BusInv, NEW p \in Publishers, Begin(p),
         UNCHANGED <<bcfg, cap, named, all>>
  PROVE  /\ array' \in [Capacities -> Seq(Handlers)]
         /\ named <= Len(array'[cap])
         /\ pub' \in [Publishers -> Publication] /\ pub'[p].pc = "calling"
         /\ \A q \in Publishers \ {p} : pub'[q] = pub[q]
         /\ \A q \in Publishers : Walks(q)' /\ OnItsWay(q)'
         /\ Distinct' /\ AllCalled'
<1> DEFINE fits == named + Len(all) <= cap
           slots == Overwrite(array[cap], named, all)
<1> USE DEF BusInv
<1>1. /\ array \in [Capacities -> Seq(Handlers)] /\ cap \in Capacities
      /\ array[cap] \in Seq(Handlers) /\ named \in Nat
      /\ named <= Len(array[cap]) /\ all \in Seq(Handlers)
      /\ Len(all) \in Nat /\ pub \in [Publishers -> Publication]
      /\ Capacities \subseteq Nat /\ 0 \in Capacities
  BY DEF BusTyped, Capacities
<1>2. /\ slots \in Seq(Handlers) /\ Len(slots) >= named + Len(all)
      /\ Len(slots) >= Len(array[cap])
      /\ \A i \in 1 .. named : slots[i] = array[cap][i]
      /\ \A i \in named + 1 .. named + Len(all) : slots[i] = all[i - named]
  BY <1>1, Overwrites
<1> HIDE DEF slots
<1>3. /\ array' = IF fits THEN [array EXCEPT ![cap] = slots] ELSE array
      /\ pub' = [pub EXCEPT ![p] =
           [pc |-> "calling", cap |-> IF fits THEN cap ELSE 0,
            own |-> IF fits THEN <<>> ELSE Named \o all,
            len |-> named + Len(all), called |-> <<>>, due |-> Subscribed,
            crossed |-> FALSE]]
  BY DEF Begin, slots
<1>4. /\ array' \in [Capacities -> Seq(Handlers)]
      /\ named <= Len(array'[cap])
      /\ \A k \in Capacities : Len(array'[k]) >= Len(array[k])
      /\ \A k \in Capacities \ {cap} : array'[k] = array[k]
      /\ \A i \in 1 .. named : array'[cap][i] = array[cap][i]
      /\ fits => /\ Len(array'[cap]) >= named + Len(all)
                 /\ \A i \in named + 1 .. named + Len(all) :
                      array'[cap][i] = all[i - named]
      /\ ~ fits => array' = array
  BY <1>1, <1>2, <1>3
<1>5. Subscribed \subseteq Handlers
  BY NamedIs, SubscribedAre
<1>6. /\ Named \in Seq(Handlers) /\ Named \o all \in Seq(Handlers)
      /\ Len(Named \o all) = named + Len(all) /\ Len(Named) = named
      /\ \A i \in 1 .. named : (Named \o all)[i] = array[cap][i]
      /\ \A i \in named + 1 .. named + Len(all) :
           (Named \o all)[i] = all[i - named]
  <2>1. /\ Named \in Seq(Handlers) /\ Len(Named) = named
        /\ \A i \in 1 .. named : Named[i] = array[cap][i]
    BY NamedIs
  <2> HIDE DEF fits
  <2>2. Named \o all \in Seq(Handlers)
        /\ Len(Named \o all) = named + Len(all)
    <3> HIDE DEF Named
    <3>1. \A s, t \in Seq(Handlers) :
            s \o t \in Seq(Handlers) /\ Len(s \o t) = Len(s) + Len(t)
      OBVIOUS
    <3> QED BY <1>1, <2>1, <3>1
  <2>3. \A i \in 1 .. named : (Named \o all)[i] = array[cap][i]
    BY <1>1, <2>1
  <2>4. ASSUME NEW i \in named + 1 .. named + Len(all)
        PROVE  (Named \o all)[i] = all[i - named]
    BY <1>1, <2>1
  <2> QED BY <2>1, <2>2, <2>3, <2>4
<1>7. /\ pub'[p] \in Publication /\ pub'[p].pc = "calling"
      /\ pub'[p].cap = (IF fits THEN cap ELSE 0)
      /\ pub'[p].own = (IF fits THEN <<>> ELSE Named \o all)
      /\ pub'[p].len = named + Len(all) /\ pub'[p].called = <<>>
      /\ pub'[p].due = Subscribed /\ pub'[p].crossed = FALSE
      /\ \A q \in Publishers \ {p} : pub'[q] = pub[q]
      /\ pub' \in [Publishers -> Publication]
  <2> DEFINE r == [pc |-> "calling", cap |-> IF fits THEN cap ELSE 0,
            own |-> IF fits THEN <<>> ELSE Named \o all,
            len |-> named + Len(all), called |-> <<>>, due |-> Subscribed,
            crossed |-> FALSE]
  <2>1. <<>> \in Seq(Handlers) OBVIOUS
  <2>2. r \in Publication BY <1>1, <1>5, <1>6, <2>1 DEF Publication
  <2>3. pub'[p] = r BY <1>1, <1>3
  <2> HIDE DEF r
  <2>4. /\ pub'[p] \in Publication
        /\ \A q \in Publishers \ {p} : pub'[q] = pub[q]
        /\ pub' \in [Publishers -> Publication]
    BY <1>1, <1>3, <2>2 DEF r
  <2> QED BY <2>3, <2>4 DEF r
<1>8. Slots' = Slots /\ \A i \in 1 .. Slots : Entry(i)' = Entry(i)
  BY <1>1, <1>4 DEF Slots, Entry
<1>9. Distinct' BY <1>8 DEF Distinct
<1>10. /\ Len(List(pub[p])') >= named + Len(all)
       /\ \A i \in 1 .. named + Len(all) : List(pub[p])'[i] = Entry(i)
  <2>1. CASE fits /\ cap # 0
    <3>1. List(pub[p])' = array'[cap] BY <1>7, <2>1 DEF List
    <3> QED BY <1>1, <1>4, <2>1, <3>1 DEF Entry
  <2>2. CASE fits /\ cap = 0
    <3>1. List(pub[p])' = <<>> BY <1>7, <2>2 DEF List
    <3>2. named + Len(all) = 0 BY <1>1, <2>2
    <3> QED BY <1>1, <3>1, <3>2
  <2>3. CASE ~ fits
    <3>1. List(pub[p])' = Named \o all BY <1>7, <2>3 DEF List
    <3> QED BY <1>1, <1>6, <3>1 DEF Entry
  <2> QED BY <2>1, <2>2, <2>3
<1>11. Walks(p)' BY <1>1, <1>7, <1>10 DEF Walks
<1>12. OnItsWay(p)'
  <2>1. pub'[p].due = {Entry(i)' : i \in 1 .. Slots}
    BY <1>7, <1>8, SubscribedAre
  <2>2. Len(pub'[p].called) = 0 BY <1>7
  <2> QED BY <1>1, <1>7, <1>8, <1>10, <2>1, <2>2 DEF OnItsWay, Slots
<1>13. ASSUME NEW q \in Publishers \ {p} PROVE Walks(q)' /\ OnItsWay(q)'
  <2>1. pub'[q] = pub[q] /\ Publishing(q)' = Publishing(q)
        /\ pub[q] \in Publication
    BY <1>1, <1>7 DEF Publishing
  <2>2. Len(List(pub[q])') >= Len(List(pub[q]))
        /\ Len(List(pub[q])) \in Nat /\ Len(List(pub[q])') \in Nat
    <3>1. /\ pub[q].own \in Seq(Handlers) /\ pub[q].cap \in Capacities
          /\ pub'[q].cap = pub[q].cap /\ pub'[q].own = pub[q].own
      BY <2>1 DEF Publication
    <3>2. array[pub[q].cap] \in Seq(Handlers)
          /\ array'[pub[q].cap] \in Seq(Handlers)
          /\ Len(array'[pub[q].cap]) >= Len(array[pub[q].cap])
      BY <1>1, <1>4, <3>1
    <3> QED BY <3>1, <3>2 DEF List
  <2>3. Walks(q)'
    <3>1. Walks(q) /\ pub[q].len \in Nat
      BY <2>1 DEF BusTyped, Publication
    <3> QED BY <2>1, <2>2, <3>1 DEF Walks
  <2>4. ASSUME Publishing(q), ~ pub[q].crossed
        PROVE  \A i \in 1 .. pub[q].len : List(pub[q])'[i] = Entry(i)
    <3>1. /\ pub[q].cap \in {0, cap} /\ pub[q].len <= Slots
          /\ \A i \in 1 .. pub[q].len : List(pub[q])[i] = Entry(i)
      BY <2>4 DEF OnItsWay
    <3>2. CASE pub[q].cap = 0 BY <2>1, <3>1, <3>2 DEF List
    <3>3. CASE pub[q].cap # 0
      <4>1. List(pub[q])' = array'[cap] /\ List(pub[q]) = array[cap]
        BY <2>1, <3>1, <3>3 DEF List
      <4>2. pub[q].len \in Nat BY <2>1 DEF Publication
      <4>3. ASSUME NEW i \in 1 .. pub[q].len
            PROVE  array'[cap][i] = Entry(i)
        <5>1. CASE ~ fits BY <1>4, <3>1, <4>1, <5>1
        <5>2. CASE fits /\ i <= named BY <1>1, <1>4, <4>2, <5>2 DEF Entry
        <5>3. CASE fits /\ i > named
          <6>1. i \in named + 1 .. named + Len(all)
            BY <1>1, <3>1, <4>2, <5>3 DEF Slots
          <6> QED BY <1>1, <1>4, <5>3, <6>1 DEF Entry
        <5> QED BY <1>1, <5>1, <5>2, <5>3
      <4> QED BY <4>1, <4>3
    <3> QED BY <3>2, <3>3
  <2>5. OnItsWay(q)'
    <3> SUFFICES ASSUME Publishing(q), ~ pub[q].crossed PROVE OnItsWay(q)'
      BY <2>1 DEF OnItsWay
    <3>1. /\ pub[q].len <= Slots /\ pub[q].len \in Nat /\ Slots \in Nat
          /\ Len(pub[q].called) <= pub[q].len /\ Len(pub[q].called) \in Nat
          /\ pub[q].due = {Entry(i) : i \in 1 .. pub[q].len}
          /\ \A i \in 1 .. Len(pub[q].called) : pub[q].called[i] = Entry(i)
          /\ pub[q].cap \in {0, cap} /\ named <= pub[q].len
      BY <2>1, NamedIs DEF OnItsWay, Publication
    <3>2. \A i \in 1 .. pub[q].len : Entry(i)' = Entry(i)
      BY <1>8, <3>1
    <3>3. {Entry(i) : i \in 1 .. pub[q].len}
            = {Entry(i)' : i \in 1 .. pub[q].len}
      BY <3>2
    <3>4. \A i \in 1 .. Len(pub[q].called) : pub[q].called[i] = Entry(i)'
      BY <3>1, <3>2
    <3>5. \A i \in 1 .. pub[q].len : List(pub[q])'[i] = Entry(i)'
      BY <2>4, <3>2
    <3> QED BY <1>8, <2>1, <3>1, <3>3, <3>4, <3>5 DEF OnItsWay
  <2> QED BY <2>3, <2>5
<1>14. AllCalled'
  <2>1. \A q \in Publishers \ {p} : pub'[q] = pub[q] BY <1>7
  <2> QED BY <1>7, <2>1 DEF AllCalled
<1> QED BY <1>4, <1>7, <1>9, <1>11, <1>12, <1>13, <1>14

\* A Publish that called the whole list called every handler that was due,
\* each once.
LEMMA CalledAll ==
  ASSUME BusInv, NEW p \in Publishers, Publishing(p), ~ pub[p].crossed,
         Len(pub[p].called) = pub[p].len
  PROVE  /\ Range(pub[p].called) = pub[p].due
         /\ Len(pub[p].called) = Cardinality(pub[p].due)
<1> DEFINE s == pub[p].called
           n == pub[p].len
<1>1. /\ s \in Seq(Handlers) /\ n \in Nat /\ n <= Slots /\ Slots \in Nat
      /\ DOMAIN s = 1 .. n /\ Len(s) = n
      /\ \A i \in 1 .. n : s[i] = Entry(i)
      /\ pub[p].due = {Entry(i) : i \in 1 .. n}
  BY NamedIs DEF BusInv, OnItsWay, BusTyped, Publication
<1> HIDE DEF s, n
<1>2. Range(s) = pub[p].due BY <1>1 DEF Range
<1>3. \A i, j \in 1 .. n : s[i] = s[j] => i = j
  BY <1>1 DEF BusInv, Distinct
<1>4. s \in Surjection(1 .. n, Range(s)) /\ s \in Injection(1 .. n, Range(s))
  <2>1. s \in [1 .. n -> Range(s)] BY <1>1 DEF Range
  <2>2. \A x \in Range(s) : \E i \in 1 .. n : s[i] = x
    BY <1>1 DEF Range
  <2> QED BY <1>1, <1>3, <2>1, <2>2 DEF Surjection, Injection, IsInjective
<1>5. IsFiniteSet(1 .. n) /\ Cardinality(1 .. n) = n
  BY <1>1, FS_Interval
<1>6. Cardinality(Range(s)) = n BY <1>4, <1>5, FS_Surjection
<1> QED BY <1>1, <1>2, <1>6 DEF s, n

LEMMA NextSubscribe ==
  ASSUME BusInv, NEW h, Subscribe(h)
  PROVE  BusInv'
<1> DEFINE room == named < cap
           next == IF room THEN cap ELSE IF cap = 0 THEN 1 ELSE 2 * cap
           base == IF room THEN array[cap] ELSE Named
           slots == Overwrite(base, named, <<h>>)
<1> USE DEF BusInv
<1>1. /\ array \in [Capacities -> Seq(Handlers)] /\ cap \in Capacities
      /\ array[cap] \in Seq(Handlers) /\ named \in Nat
      /\ named <= Len(array[cap]) /\ all \in Seq(Handlers)
      /\ Len(all) \in Nat /\ pub \in [Publishers -> Publication]
      /\ Capacities \subseteq Nat /\ 0 \in Capacities
      /\ h \in Handlers /\ h \notin Subscribed /\ bcfg \in BusConfigs
  BY DEF BusTyped, Capacities, Subscribe, Handlers
<1>2. /\ Named \in Seq(Handlers) /\ Len(Named) = named
      /\ \A i \in 1 .. named : Named[i] = array[cap][i]
  BY NamedIs
<1>3. /\ base \in Seq(Handlers) /\ named <= Len(base)
      /\ \A i \in 1 .. named : base[i] = array[cap][i]
      /\ room => base = array[cap]
  BY <1>1, <1>2
<1>4. /\ <<h>> \in Seq(Handlers) /\ Len(<<h>>) = 1 /\ <<h>>[1] = h
  BY <1>1
<1> HIDE DEF base
<1>5. /\ slots \in Seq(Handlers) /\ Len(slots) >= named + 1
      /\ Len(slots) >= Len(base)
      /\ \A i \in 1 .. named : slots[i] = array[cap][i]
      /\ slots[named + 1] = h
  <2>1. /\ slots \in Seq(Handlers) /\ Len(slots) >= named + Len(<<h>>)
        /\ Len(slots) >= Len(base)
        /\ \A i \in 1 .. named : slots[i] = base[i]
        /\ \A i \in named + 1 .. named + Len(<<h>>) :
             slots[i] = <<h>>[i - named]
    <3>1. \A new \in Seq(Handlers) :
            LET o == Overwrite(base, named, new) IN
            /\ o \in Seq(Handlers) /\ Len(o) >= named + Len(new)
            /\ Len(o) >= Len(base)
            /\ \A i \in 1 .. named : o[i] = base[i]
            /\ \A i \in named + 1 .. named + Len(new) : o[i] = new[i - named]
      BY <1>1, <1>3, Overwrites
    <3> QED BY <1>4, <3>1
  <2> HIDE DEF slots
  <2>2. named + 1 \in named + 1 .. named + Len(<<h>>)
        /\ (named + 1) - named = 1
    BY <1>1, <1>4
  <2> QED BY <1>3, <1>4, <2>1, <2>2
<1> HIDE DEF slots
<1>6. /\ next \in Capacities /\ cap' = next /\ named' = named + 1
      /\ array' = [array EXCEPT ![next] = slots]
      /\ pub' = [p \in Publishers |->
                   [pub[p] EXCEPT !.crossed = @ \/ Publishing(p)]]
      /\ UNCHANGED <<bcfg, all, raised, events, batch, heard, late>>
  BY DEF Subscribe, slots, base
<1>7. IF room THEN next = cap ELSE next > cap
  BY <1>1 DEF Capacities
<1> HIDE DEF room, next
<1>8. /\ array' \in [Capacities -> Seq(Handlers)] /\ array'[next] = slots
      /\ \A k \in Capacities \ {next} : array'[k] = array[k]
      /\ \A k \in Capacities : k <= cap => Len(array'[k]) >= Len(array[k])
  <2>1. /\ array' \in [Capacities -> Seq(Handlers)] /\ array'[next] = slots
        /\ \A k \in Capacities \ {next} : array'[k] = array[k]
    BY <1>1, <1>5, <1>6
  <2>2. ASSUME NEW k \in Capacities, k <= cap
        PROVE  Len(array'[k]) >= Len(array[k])
    <3>1. CASE k = next
      <4>1. room /\ next = cap BY <1>1, <1>6, <1>7, <2>2, <3>1
      <4>2. base = array[cap] BY <1>3, <4>1
      <4> QED BY <1>5, <2>1, <3>1, <4>1, <4>2
    <3>2. CASE k # next BY <1>1, <2>1, <3>2
    <3> QED BY <3>1, <3>2
  <2> QED BY <2>1, <2>2
<1>9. /\ pub' \in [Publishers -> Publication]
      /\ \A p \in Publishers :
           /\ pub'[p].pc = pub[p].pc /\ pub'[p].cap = pub[p].cap
           /\ pub'[p].own = pub[p].own /\ pub'[p].len = pub[p].len
           /\ pub'[p].called = pub[p].called /\ pub'[p].due = pub[p].due
           /\ pub'[p].crossed = (pub[p].crossed \/ Publishing(p))
  BY <1>1, <1>6 DEF Publication
<1>10. \A p \in Publishers : Walks(p)'
  <2> TAKE p \in Publishers
  <2> SUFFICES ASSUME Publishing(p)' PROVE Walks(p)'
    BY DEF Walks
  <2>1. Publishing(p) /\ pub[p] \in Publication /\ Walks(p)
    BY <1>1, <1>9 DEF Publishing, BusTyped
  <2>2. /\ pub[p].cap \in Capacities /\ pub[p].cap <= cap /\ pub[p].len \in Nat
        /\ pub[p].len <= Len(List(pub[p])) /\ pub[p].own \in Seq(Handlers)
    BY <2>1 DEF Walks, Publication
  <2>3. Len(List(pub[p])') >= Len(List(pub[p]))
        /\ Len(List(pub[p])) \in Nat /\ Len(List(pub[p])') \in Nat
    <3>1. /\ array[pub[p].cap] \in Seq(Handlers)
          /\ array'[pub[p].cap] \in Seq(Handlers)
          /\ Len(array'[pub[p].cap]) >= Len(array[pub[p].cap])
      BY <1>1, <1>8, <2>2
    <3> QED BY <1>9, <2>2, <3>1 DEF List
  <2>4. cap <= cap' /\ cap \in Nat /\ cap' \in Nat BY <1>1, <1>6, <1>7
  <2>5. pub[p].cap <= cap'
    <3>1. pub[p].cap \in Nat BY <1>1, <2>2
    <3> QED BY <2>2, <2>4, <3>1
  <2>6. pub[p].len <= Len(List(pub[p])') BY <2>2, <2>3
  <2> QED BY <1>9, <2>5, <2>6 DEF Walks
<1>11. BusTyped'
  <2>1. named' \in Nat /\ named' <= Len(array'[cap'])
    BY <1>1, <1>5, <1>6, <1>8
  <2> QED BY <1>1, <1>6, <1>8, <1>9, <1>10, <2>1 DEF BusTyped
<1>12. \A p \in Publishers : OnItsWay(p)'
  BY <1>9 DEF OnItsWay, Publishing
<1>13. AllCalled' BY <1>9 DEF AllCalled
<1>14. Dispatched'
  BY <1>6, <1>9 DEF Dispatched, NoneForgotten, Publishers
<1>15. Distinct'
  <2>1. Slots' = Slots + 1 /\ Slots \in Nat /\ Slots = named + Len(all)
    BY <1>1, <1>6 DEF Slots
  <2>2. \A i \in 1 .. Slots' :
          Entry(i)' = IF i <= named THEN Entry(i)
                      ELSE IF i = named + 1 THEN h ELSE Entry(i - 1)
    <3> TAKE i \in 1 .. Slots'
    <3>1. CASE i <= named BY <1>1, <1>5, <1>6, <1>8, <2>1, <3>1 DEF Entry
    <3>2. CASE i = named + 1 BY <1>1, <1>5, <1>6, <1>8, <2>1, <3>2 DEF Entry
    <3>3. CASE i > named + 1
      <4>1. ~ (i <= named + 1) /\ ~ (i - 1 <= named)
            /\ i - (named + 1) = (i - 1) - named
        BY <1>1, <2>1, <3>3
      <4>2. named \in Nat /\ i \in Nat BY <1>1, <2>1
      <4> QED BY <1>6, <3>3, <4>1, <4>2 DEF Entry
    <3> QED BY <1>1, <2>1, <3>1, <3>2, <3>3
  <2>3. \A i \in 1 .. Slots : Entry(i) # h
    BY <1>1, SubscribedAre
  <2> HIDE DEF Slots
  <2>4. ASSUME NEW i \in 1 .. Slots', NEW j \in 1 .. Slots', i < j
        PROVE  Entry(i)' # Entry(j)'
    <3> DEFINE u == IF i <= named THEN i ELSE i - 1
               v == IF j <= named THEN j ELSE j - 1
    <3>1. CASE i = named + 1
      <4>1. j - 1 \in 1 .. Slots /\ ~ (j <= named) /\ j # named + 1
            /\ ~ (i <= named)
        BY <1>1, <2>1, <2>4, <3>1
      <4> QED BY <2>2, <2>3, <3>1, <4>1
    <3>2. CASE j = named + 1
      <4>1. i <= named /\ i \in 1 .. Slots /\ ~ (j <= named)
        BY <1>1, <2>1, <2>4, <3>2
      <4> QED BY <2>2, <2>3, <3>2, <4>1
    <3>3. CASE i # named + 1 /\ j # named + 1
      <4>1. u \in 1 .. Slots /\ v \in 1 .. Slots /\ u # v
        BY <1>1, <2>1, <2>4, <3>3
      <4>2. Entry(i)' = Entry(u) /\ Entry(j)' = Entry(v)
        BY <2>2, <3>3
      <4> QED BY <4>1, <4>2 DEF Distinct
    <3> QED BY <3>1, <3>2, <3>3
  <2>5. \A i, j \in 1 .. Slots' : i < j \/ j < i \/ i = j
    BY <2>1
  <2> QED BY <2>4, <2>5 DEF Distinct
<1> QED BY <1>11, <1>12, <1>13, <1>14, <1>15

LEMMA NextSubscribeAll ==
  ASSUME BusInv, NEW h, SubscribeAll(h)
  PROVE  BusInv'
<1> USE DEF BusInv
<1>1. /\ all \in Seq(Handlers) /\ Len(all) \in Nat /\ named \in Nat
      /\ h \in Handlers /\ h \notin Subscribed /\ all' = Append(all, h)
      /\ UNCHANGED <<bcfg, array, cap, named, pub, raised, events, batch,
                     heard, late>>
  BY DEF BusTyped, SubscribeAll, Handlers
<1>2. /\ all' \in Seq(Handlers) /\ Len(all') = Len(all) + 1
      /\ \A i \in 1 .. Len(all) : all'[i] = all[i]
      /\ all'[Len(all) + 1] = h
  BY <1>1
<1>3. PICK m \in Nat : m = Slots
  BY <1>1 DEF Slots
<1>4. /\ Slots' = m + 1
      /\ \A i \in 1 .. m : Entry(i)' = Entry(i)
      /\ Entry(m + 1)' = h
  <2>1. Slots' = m + 1 BY <1>1, <1>2, <1>3 DEF Slots
  <2>2. ASSUME NEW i \in 1 .. m PROVE Entry(i)' = Entry(i)
    <3>1. CASE i <= named BY <1>1, <3>1 DEF Entry
    <3>2. CASE ~ (i <= named)
      <4>1. i - named \in 1 .. Len(all) BY <1>1, <1>3, <3>2 DEF Slots
      <4> QED BY <1>1, <1>2, <3>2, <4>1 DEF Entry
    <3> QED BY <3>1, <3>2
  <2>3. ~ (m + 1 <= named) /\ (m + 1) - named = Len(all) + 1
    BY <1>1, <1>3 DEF Slots
  <2>4. Entry(m + 1)' = h BY <1>1, <1>2, <2>3 DEF Entry
  <2> QED BY <2>1, <2>2, <2>4
<1>5. Distinct'
  <2>1. \A i \in 1 .. m : Entry(i) # h BY <1>1, <1>3, SubscribedAre
  <2>2. \A i, j \in 1 .. m : Entry(i) = Entry(j) => i = j
    BY <1>3 DEF Distinct
  <2>3. ASSUME NEW i \in 1 .. m + 1, NEW j \in 1 .. m + 1,
               Entry(i)' = Entry(j)'
        PROVE  i = j
    <3>1. \A k \in 1 .. m + 1 : k = m + 1 \/ k \in 1 .. m BY <1>3
    <3> QED BY <1>4, <2>1, <2>2, <2>3, <3>1
  <2> QED BY <1>4, <2>3 DEF Distinct
<1>6. \A p \in Publishers : Walks(p)' /\ List(pub[p])' = List(pub[p])
  BY <1>1 DEF Walks, Publishing, List, BusTyped
<1>7. BusTyped' BY <1>1, <1>2, <1>6 DEF BusTyped
<1>8. ASSUME NEW p \in Publishers PROVE OnItsWay(p)'
  <2> SUFFICES ASSUME Publishing(p), ~ pub[p].crossed PROVE OnItsWay(p)'
    BY <1>1 DEF OnItsWay, Publishing
  <2>1. /\ pub[p].len <= Slots /\ pub[p].len \in Nat
        /\ Len(pub[p].called) <= pub[p].len /\ Len(pub[p].called) \in Nat
        /\ pub[p].due = {Entry(i) : i \in 1 .. pub[p].len}
        /\ \A i \in 1 .. Len(pub[p].called) : pub[p].called[i] = Entry(i)
        /\ \A i \in 1 .. pub[p].len : List(pub[p])[i] = Entry(i)
        /\ pub[p].cap \in {0, cap} /\ named <= pub[p].len
    BY DEF OnItsWay, Publication, BusTyped
  <2>2. \A i \in 1 .. pub[p].len : Entry(i)' = Entry(i)
    BY <1>3, <1>4, <2>1
  <2>3. {Entry(i) : i \in 1 .. pub[p].len}
          = {Entry(i)' : i \in 1 .. pub[p].len}
    BY <2>2
  <2>4. \A i \in 1 .. Len(pub[p].called) : pub[p].called[i] = Entry(i)'
    BY <2>1, <2>2
  <2>5. \A i \in 1 .. pub[p].len : List(pub[p])'[i] = Entry(i)'
    BY <1>6, <2>1, <2>2
  <2>6. pub[p].len <= Slots' BY <1>3, <1>4, <2>1
  <2> QED BY <1>1, <2>1, <2>3, <2>4, <2>5, <2>6 DEF OnItsWay
<1>9. AllCalled' /\ Dispatched'
  BY <1>1 DEF AllCalled, Dispatched, NoneForgotten
<1> QED BY <1>5, <1>7, <1>8, <1>9

LEMMA NextCall ==
  ASSUME BusInv, NEW p \in Publishers, Call(p)
  PROVE  BusInv'
<1> USE DEF BusInv
<1> DEFINE r == pub[p]
           n == Len(r.called) + 1
           x == List(r)[n]
<1>1. /\ UNCHANGED <<bcfg, array, cap, named, all, raised, events, batch,
                     heard, late>>
      /\ Publishing(p) /\ r.pc = "calling" /\ r \in Publication
      /\ Len(r.called) < r.len /\ r.called \in Seq(Handlers)
      /\ Len(r.called) \in Nat /\ r.len \in Nat
      /\ pub \in [Publishers -> Publication]
  BY DEF Call, BusTyped, Publication, Publishing
<1>2. x \in Handlers
  <2>1. List(r) \in Seq(Handlers) /\ r.len <= Len(List(r))
    BY <1>1 DEF List, Publication, BusTyped, Walks
  <2> QED BY <1>1, <2>1
<1>3. PICK pc \in {"calling", "failed"} :
        pub' = [pub EXCEPT ![p].called = Append(@, x), ![p].pc = pc]
  BY DEF Call
<1> HIDE DEF x
<1>4. /\ pub'[p] = [r EXCEPT !.called = Append(r.called, x), !.pc = pc]
      /\ \A q \in Publishers \ {p} : pub'[q] = pub[q]
      /\ pub' = [pub EXCEPT ![p] =
                   [r EXCEPT !.called = Append(r.called, x), !.pc = pc]]
  BY <1>1, <1>3 DEF Publication
<1>5. /\ Append(r.called, x) \in Seq(Handlers)
      /\ Len(Append(r.called, x)) = n
      /\ \A i \in 1 .. Len(r.called) : Append(r.called, x)[i] = r.called[i]
      /\ Append(r.called, x)[n] = x
  BY <1>1, <1>2
<1>6. /\ pub'[p] \in Publication /\ pub'[p].called = Append(r.called, x)
      /\ pub'[p].pc = pc /\ pub'[p].cap = r.cap /\ pub'[p].own = r.own
      /\ pub'[p].len = r.len /\ pub'[p].due = r.due
      /\ pub'[p].crossed = r.crossed
  BY <1>1, <1>4, <1>5 DEF Publication
<1>7. pub' \in [Publishers -> Publication]
  BY <1>1, <1>4, <1>6
<1>8. \A q \in Publishers : List(pub[q])' = List(pub[q])
  BY <1>1, <1>4, <1>6 DEF List
<1>9. \A q \in Publishers : Walks(q)'
  BY <1>1, <1>4, <1>6, <1>8 DEF Walks, Publishing, BusTyped
<1>10. BusTyped' BY <1>1, <1>7, <1>9 DEF BusTyped
<1>11. Slots' = Slots /\ \A i : Entry(i)' = Entry(i)
  BY <1>1 DEF Slots, Entry
<1>12. Distinct' BY <1>11 DEF Distinct
<1>13. ASSUME NEW q \in Publishers \ {p} PROVE OnItsWay(q)'
  BY <1>1, <1>4, <1>8, <1>11 DEF OnItsWay, Publishing
<1>14. OnItsWay(p)'
  <2> SUFFICES ASSUME Publishing(p)', ~ r.crossed PROVE OnItsWay(p)'
    BY <1>6 DEF OnItsWay
  <2>1. /\ r.len <= Slots /\ named <= r.len /\ r.cap \in {0, cap}
        /\ \A i \in 1 .. r.len : List(r)[i] = Entry(i)
        /\ r.due = {Entry(i) : i \in 1 .. r.len}
        /\ \A i \in 1 .. Len(r.called) : r.called[i] = Entry(i)
    BY <1>1 DEF OnItsWay
  <2>2. n \in 1 .. r.len /\ n <= r.len BY <1>1
  <2>3. x = Entry(n) BY <2>1, <2>2 DEF x
  <2>4. \A i \in 1 .. n : Append(r.called, x)[i] = Entry(i)
    <3> TAKE i \in 1 .. n
    <3>1. CASE i = n BY <1>5, <2>3, <3>1
    <3>2. CASE i # n
      <4>1. i \in 1 .. Len(r.called) BY <1>1, <3>2
      <4> QED BY <1>5, <2>1, <4>1
    <3> QED BY <3>1, <3>2
  <2> HIDE DEF n, r
  <2> QED BY <1>1, <1>5, <1>6, <1>8, <1>11, <2>1, <2>2, <2>4
          DEF OnItsWay, r
<1>15. AllCalled' BY <1>4, <1>6 DEF AllCalled
<1>16. Dispatched'
  <2>1. pub'["dispatch"].pc \in {"off", "idle"}
          <=> pub["dispatch"].pc \in {"off", "idle"}
    BY <1>1, <1>4, <1>6 DEF Publishers
  <2> QED BY <1>1, <2>1 DEF Dispatched, NoneForgotten
<1> QED BY <1>10, <1>12, <1>13, <1>14, <1>15, <1>16

LEMMA NextReturn ==
  ASSUME BusInv, NEW p \in Publishers, Return(p)
  PROVE  BusInv'
<1> USE DEF BusInv
<1>1. /\ UNCHANGED <<bcfg, array, cap, named, all, raised, events, batch,
                     heard, late>>
      /\ Publishing(p) /\ pub[p].pc = "calling" /\ pub[p] \in Publication
      /\ pub' = [pub EXCEPT ![p].pc = "returned"]
      /\ pub \in [Publishers -> Publication]
  BY DEF Return, BusTyped, Publication, Publishing
<1>2. /\ pub' \in [Publishers -> Publication]
      /\ \A q \in Publishers \ {p} : pub'[q] = pub[q]
      /\ pub'[p].pc = "returned" /\ pub'[p].crossed = pub[p].crossed
      /\ pub'[p].called = pub[p].called /\ pub'[p].due = pub[p].due
  BY <1>1 DEF Publication
<1>3. \A q \in Publishers : Walks(q)'
  BY <1>1, <1>2 DEF Walks, Publishing, BusTyped, List
<1>4. BusTyped' BY <1>1, <1>2, <1>3 DEF BusTyped
<1>5. Slots' = Slots /\ \A i : Entry(i)' = Entry(i)
  BY <1>1 DEF Slots, Entry
<1>6. Distinct' BY <1>5 DEF Distinct
<1>7. ASSUME NEW q \in Publishers PROVE OnItsWay(q)'
  BY <1>1, <1>2, <1>5 DEF OnItsWay, Publishing, List
<1>8. AllCalled'
  BY <1>2, CalledAll DEF AllCalled, Return
<1>9. Dispatched'
  <2>1. pub'["dispatch"].pc \in {"off", "idle"}
          <=> pub["dispatch"].pc \in {"off", "idle"}
    BY <1>1, <1>2 DEF Publishers
  <2> QED BY <1>1, <2>1 DEF Dispatched, NoneForgotten
<1> QED BY <1>4, <1>6, <1>7, <1>8, <1>9

LEMMA NextPublish == BusInv /\ BusPublish => BusInv'
<1> SUFFICES ASSUME BusInv, BusPublish PROVE BusInv'
  OBVIOUS
<1>1. /\ UNCHANGED <<bcfg, cap, named, all, raised, events, batch, heard,
                     late>>
      /\ Begin("publish") /\ "publish" \in Publishers
      /\ "dispatch" \in Publishers \ {"publish"}
  BY DEF BusPublish, Publishers
<1>2. /\ array' \in [Capacities -> Seq(Handlers)]
      /\ named <= Len(array'[cap])
      /\ pub' \in [Publishers -> Publication]
      /\ pub'["dispatch"] = pub["dispatch"]
      /\ \A q \in Publishers : Walks(q)' /\ OnItsWay(q)'
      /\ Distinct' /\ AllCalled'
  BY <1>1, Begins
<1>3. BusTyped' BY <1>1, <1>2 DEF BusTyped, BusInv
<1>4. Dispatched' BY <1>1, <1>2 DEF Dispatched, NoneForgotten, BusInv
<1> QED BY <1>2, <1>3, <1>4 DEF BusInv

LEMMA NextRaise == BusInv /\ RaiseEvent => BusInv'
<1> SUFFICES ASSUME BusInv, RaiseEvent PROVE BusInv'
  OBVIOUS
<1> USE DEF BusInv
<1>1. /\ UNCHANGED <<bcfg, array, cap, named, all, pub, batch, heard>>
      /\ raised' = raised + 1 /\ events' = Append(events, raised + 1)
      /\ late' = IF batch # <<>> THEN late \cup {raised + 1} ELSE late
      /\ raised \in Nat /\ events \in Seq(Nat)
  BY DEF RaiseEvent, Dispatching, BusTyped
<1>2. Range(events') = Range(events) \cup {raised + 1}
  BY <1>1, RangeAppend
<1>3. BusTyped' BY <1>1 DEF BusTyped, Walks, Publishing, List
<1>4. Distinct' BY <1>1 DEF Distinct, Slots, Entry
<1>5. \A p \in Publishers : OnItsWay(p)'
  BY <1>1 DEF OnItsWay, Publishing, List, Slots, Entry
<1>6. AllCalled' BY <1>1 DEF AllCalled
<1>7. 1 .. raised' \subseteq Range(events') \cup heard' \cup late'
  <2>1. \A i \in 1 .. raised' : i \in 1 .. raised \/ i = raised + 1
    BY <1>1
  <2>2. late \subseteq late' BY <1>1
  <2> QED BY <1>1, <1>2, <2>1, <2>2 DEF Dispatched, NoneForgotten
<1>8. Dispatched'
  BY <1>1, <1>2, <1>7 DEF Dispatched, NoneForgotten
<1> QED BY <1>3, <1>4, <1>5, <1>6, <1>8

LEMMA NextDispatch == BusInv /\ Dispatch => BusInv'
<1> SUFFICES ASSUME BusInv, Dispatch PROVE BusInv'
  OBVIOUS
<1>1. /\ UNCHANGED <<bcfg, cap, named, all, raised, events, heard, late>>
      /\ Begin("dispatch") /\ "dispatch" \in Publishers
      /\ batch' = events /\ events # <<>>
  BY DEF Dispatch, Publishers
<1>2. /\ array' \in [Capacities -> Seq(Handlers)]
      /\ named <= Len(array'[cap])
      /\ pub' \in [Publishers -> Publication]
      /\ pub'["dispatch"].pc = "calling"
      /\ \A q \in Publishers : Walks(q)' /\ OnItsWay(q)'
      /\ Distinct' /\ AllCalled'
  BY <1>1, Begins
<1>3. BusTyped' BY <1>1, <1>2 DEF BusTyped, BusInv
<1>4. Dispatched' BY <1>1, <1>2 DEF Dispatched, NoneForgotten, BusInv
<1> QED BY <1>2, <1>3, <1>4 DEF BusInv

LEMMA NextContinue == BusInv /\ Continue => BusInv'
<1> SUFFICES ASSUME BusInv, Continue PROVE BusInv'
  OBVIOUS
<1> DEFINE ok == pub["dispatch"].pc = "returned"
<1>1. /\ batch \in Seq(Nat) /\ batch # <<>> /\ "dispatch" \in Publishers
      /\ Head(batch) \in Nat /\ Tail(batch) \in Seq(Nat)
      /\ Len(batch) \in Nat \ {0}
      /\ pub["dispatch"].pc \in {"returned", "failed"}
      /\ UNCHANGED <<bcfg, cap, named, all, raised, late>>
      /\ heard' = IF ok THEN heard \cup {Head(batch)} ELSE heard
  BY DEF Continue, Publishers, BusInv, BusTyped, Dispatched
<1>2. CASE ok /\ Len(batch) > 1
  <2>1. /\ batch' = Tail(batch) /\ Begin("dispatch") /\ UNCHANGED events
        /\ batch' # <<>> /\ heard' = heard \cup {Head(batch)}
    BY <1>1, <1>2 DEF Continue
  <2>2. /\ array' \in [Capacities -> Seq(Handlers)]
        /\ named <= Len(array'[cap])
        /\ pub' \in [Publishers -> Publication]
        /\ pub'["dispatch"].pc = "calling"
        /\ \A q \in Publishers : Walks(q)' /\ OnItsWay(q)'
        /\ Distinct' /\ AllCalled'
    BY <1>1, <2>1, Begins
  <2>3. BusTyped' BY <1>1, <2>1, <2>2 DEF BusTyped, BusInv
  <2>4. Range(batch) \subseteq {Head(batch)} \cup Range(batch')
    BY <1>1, <2>1, RangeOfTail
  <2>5. Dispatched'
    BY <1>1, <2>1, <2>2, <2>4 DEF Dispatched, NoneForgotten, BusInv
  <2> QED BY <2>2, <2>3, <2>5 DEF BusInv
<1>3. CASE ~ (ok /\ Len(batch) > 1)
  <2> USE DEF BusInv
  <2>1. /\ batch' = <<>> /\ events' = IF ok THEN <<>> ELSE events
        /\ pub' = [pub EXCEPT !["dispatch"] = NotPublishing]
        /\ UNCHANGED array
    BY <1>3 DEF Continue
  <2>2. /\ pub \in [Publishers -> Publication] /\ NotPublishing \in Publication
        /\ NotPublishing.pc = "idle"
    BY DEF BusTyped, Publication, NotPublishing, Capacities
  <2>3. /\ pub' \in [Publishers -> Publication]
        /\ pub'["dispatch"].pc = "idle"
        /\ \A q \in Publishers \ {"dispatch"} : pub'[q] = pub[q]
    BY <1>1, <2>1, <2>2
  <2>4. \A q \in Publishers : Walks(q)'
    BY <1>1, <2>1, <2>3 DEF Walks, Publishing, BusTyped, List
  <2>5. BusTyped' BY <1>1, <2>1, <2>3, <2>4 DEF BusTyped
  <2>6. Distinct' BY <1>1, <2>1 DEF Distinct, Slots, Entry
  <2>7. \A q \in Publishers : OnItsWay(q)'
    BY <1>1, <2>1, <2>3 DEF OnItsWay, Publishing, List, Slots, Entry
  <2>8. AllCalled' BY <2>3 DEF AllCalled
  <2>9. Dispatched'
    <3>1. CASE ~ ok
      BY <1>1, <2>1, <2>3, <3>1 DEF Dispatched, NoneForgotten
    <3>2. CASE ok
      <4>1. Tail(batch) = <<>> BY <1>1, <1>3, <3>2
      <4>2. Range(batch) \subseteq {Head(batch)}
        <5>1. Range(Tail(batch)) = {} BY <4>1 DEF Range
        <5> QED BY <1>1, <5>1, RangeOfTail
      <4> QED BY <1>1, <2>1, <2>3, <3>2, <4>2 DEF Dispatched, NoneForgotten
    <3> QED BY <3>1, <3>2
  <2> QED BY <2>5, <2>6, <2>7, <2>8, <2>9
<1> QED BY <1>2, <1>3

LEMMA BusStutters == BusInv /\ UNCHANGED busVars => BusInv'
BY DEF BusInv, busVars, BusTyped, Walks, Distinct, OnItsWay, AllCalled,
   Dispatched, NoneForgotten, Publishing, List, Slots, Entry

LEMMA BusNextKeeps == BusInv /\ [FanoutNext]_fanoutVars => BusInv'
<1> SUFFICES ASSUME BusInv, [FanoutNext]_fanoutVars PROVE BusInv'
  OBVIOUS
<1>1. CASE BusNext
  BY <1>1, NextSubscribe, NextSubscribeAll, NextCall, NextReturn, NextPublish,
     NextRaise, NextDispatch, NextContinue DEF BusNext
<1>2. CASE UNCHANGED busVars BY <1>2, BusStutters
<1> QED BY <1>1, <1>2 DEF FanoutNext, fanoutVars

LEMMA BusStarts == FanoutInit => BusInv
<1> SUFFICES ASSUME FanoutInit PROVE BusInv
  OBVIOUS
<1>1. /\ bcfg \in BusConfigs /\ named = Len(bcfg.named) /\ all = bcfg.all
      /\ cap = CapFor(named)
      /\ array = [k \in Capacities |-> IF k = cap THEN bcfg.named ELSE <<>>]
      /\ raised = 0 /\ events = <<>> /\ batch = <<>>
      /\ \E pc \in {"idle", "off"} :
           pub = [p \in Publishers |-> [NotPublishing EXCEPT !.pc = pc]]
  BY DEF FanoutInit, BusInit
<1>2. /\ bcfg.named \in Seq(Handlers) /\ bcfg.all \in Seq(Handlers)
      /\ named \in 0 .. 4 /\ IsInjective(bcfg.named \o bcfg.all)
  <2>1. /\ bcfg.named \in Seq(Range(bcfg.named)) /\ Len(bcfg.named) <= 4
        /\ bcfg.all \in Seq(Range(bcfg.all))
        /\ IsInjective(bcfg.named \o bcfg.all)
    BY <1>1, BusAssumption
  <2>2. Range(bcfg.named) \subseteq Handlers
        /\ Range(bcfg.all) \subseteq Handlers
    BY <1>1 DEF Handlers
  <2>3. \A S : \A s \in Seq(S) : S \subseteq Handlers => s \in Seq(Handlers)
    OBVIOUS
  <2>4. Len(bcfg.named) \in Nat BY <2>1
  <2>5. bcfg.named \in Seq(Handlers) BY <2>1, <2>2, <2>3
  <2>6. bcfg.all \in Seq(Handlers) BY <2>1, <2>2, <2>3
  <2>7. named \in 0 .. 4
    <3>1. named = Len(bcfg.named) BY <1>1
    <3>2. Len(bcfg.named) <= 4 BY <2>1
    <3>3. \A n \in Nat : n <= 4 => n \in 0 .. 4 OBVIOUS
    <3> QED BY <2>4, <3>1, <3>2, <3>3, Zenon
  <2> QED BY <2>1, <2>5, <2>6, <2>7
<1>3. cap \in Capacities
  <2>1. \E k \in Capacities : named <= k /\ (k = 0 \/ 2 * named > k)
    <3>1. named \in {0, 1, 2, 3, 4} BY <1>2
    <3> QED BY <3>1 DEF Capacities
  <2> QED BY <1>1, <2>1 DEF CapFor
<1>4. /\ array \in [Capacities -> Seq(Handlers)] /\ array[cap] = bcfg.named
  <2>1. <<>> \in Seq(Handlers) OBVIOUS
  <2> QED BY <1>1, <1>2, <1>3, <2>1
<1>5. /\ pub \in [Publishers -> Publication]
      /\ \A p \in Publishers : pub[p].pc \in {"off", "idle"}
  <2>1. <<>> \in Seq(Handlers) OBVIOUS
  <2>2. PICK pc \in {"idle", "off"} :
          pub = [p \in Publishers |-> [NotPublishing EXCEPT !.pc = pc]]
    BY <1>1
  <2>3. NotPublishing \in Publication
    BY <2>1 DEF NotPublishing, Publication, Capacities
  <2>4. /\ [NotPublishing EXCEPT !.pc = pc] \in Publication
        /\ [NotPublishing EXCEPT !.pc = pc].pc = pc
    BY <2>3 DEF Publication
  <2> QED BY <2>2, <2>3, <2>4
<1>6. BusTyped
  <2>1. \A p \in Publishers : Walks(p) BY <1>5 DEF Walks, Publishing
  <2>2. named \in Nat /\ named <= Len(array[cap]) BY <1>1, <1>2, <1>4
  <2>3. <<>> \in Seq(Nat) OBVIOUS
  <2> QED BY <1>1, <1>2, <1>3, <1>4, <1>5, <2>1, <2>2, <2>3 DEF BusTyped
<1>7. Distinct
  <2> DEFINE s == bcfg.named \o bcfg.all
  <2>1. /\ DOMAIN s = 1 .. Slots
        /\ \A i \in 1 .. Slots : s[i] = Entry(i)
    <3>1. \A u, v \in Seq(Handlers) :
            /\ DOMAIN (u \o v) = 1 .. Len(u) + Len(v)
            /\ \A i \in 1 .. Len(u) + Len(v) :
                 (u \o v)[i] = IF i <= Len(u) THEN u[i] ELSE v[i - Len(u)]
      OBVIOUS
    <3>2. /\ DOMAIN s = 1 .. Slots
          /\ \A i \in 1 .. Slots :
               s[i] = IF i <= named THEN bcfg.named[i] ELSE bcfg.all[i - named]
      BY <1>1, <1>2, <3>1 DEF Slots
    <3> QED BY <1>1, <1>4, <3>2 DEF Entry
  <2>2. \A i, j \in DOMAIN s : s[i] = s[j] => i = j
    BY <1>2 DEF IsInjective
  <2> HIDE DEF s
  <2> QED BY <2>1, <2>2 DEF Distinct
<1>8. \A p \in Publishers : OnItsWay(p)
  BY <1>5 DEF OnItsWay, Publishing
<1>9. AllCalled BY <1>5 DEF AllCalled
<1>10. Dispatched
  <2>1. 1 .. raised = {} BY <1>1
  <2> QED BY <1>1, <1>5, <2>1 DEF Dispatched, NoneForgotten, Publishers
<1> QED BY <1>6, <1>7, <1>8, <1>9, <1>10 DEF BusInv

\* A Publish that returns nil has called every handler there was when it
\* began, each once, and the aggregate forgets no event, but for what
\* EventsHeard names (eventbus.go: Publish, Subscribe, Dispatch).
THEOREM EventsAreHeard == FanoutSpec => []EventsHeard
<1>1. BusInv => EventsHeard
  BY DEF BusInv, EventsHeard, Dispatched
<1> QED BY <1>1, BusStarts, BusNextKeeps, PTL DEF FanoutSpec

-----------------------------------------------------------------------------
(* Users' activity.                                                        *)

Reports == {e \in [by : Visits, user : Users, ts : Nat \cup {Never}] :
              e.user = e.by.user}
Pcs == {"off", "new", "done", "tracking", "sending", "idle", "storing",
        "marking", "adding", "expiring"}
Times == {Never} \cup Nat
SetsOnline == {"marking", "adding", "expiring"}

ActivityTyped ==
  /\ acfg \in ActivityConfigs /\ clock \in Nat
  /\ where \in [Actors -> [pc : Pcs, ev : Reports]]
  /\ queue \in Seq(Reports) /\ inHand \in 0 .. Len(queue)
  /\ todo \subseteq Reports
  /\ last \in [Users -> Times] /\ newest \in [Users -> Times]
  /\ online \in [Users -> Nat] /\ members \subseteq Users
  /\ setLeft \in Nat \cup {Forever} /\ cut \in BOOLEAN

\* Who is online is in the set, or about to be; and the set lives as long, or
\* is about to get its time.
Expires == \E a \in Actors : where[a].pc = "expiring"
Counted ==
  ~ cut =>
    /\ \A u \in Users :
         /\ online[u] <= OnlineTTL
         /\ online[u] > 0 =>
              \/ Adds(u)
              \/ u \in members /\ (Expires \/ setLeft >= online[u])
    /\ members # {} /\ setLeft = Forever => Expires

\* The store said so, or a failure took it.
Accounted(e) == e.by \in mislaid \/ newest[e.user] >= e.ts

\* A request writes its own event, of a time that has been, and one that is
\* done is known, or still in the topic, or a duplicate.
OwnOf(v) ==
  /\ where[v].pc \notin {"off", "new", "done"} =>
       where[v].ev.by = v /\ where[v].ev.ts # Never
  /\ where[v].ev.ts <= clock
  /\ where[v].pc \in SetsOnline => Accounted(where[v].ev)
  /\ where[v].pc = "done" /\ where[v].ev.by = v /\ where[v].ev.ts # Never =>
       \/ \E i \in 1 .. Len(queue) : queue[i] = where[v].ev
       \/ Accounted(where[v].ev)
       \/ newest[v.user] # Never
          /\ newest[v.user] > where[v].ev.ts - acfg.window

Own ==
  /\ \A u \in Users : newest[u] >= last[u]
  /\ \A v \in Visits : OwnOf(v)
  /\ \A i \in 1 .. Len(queue) : queue[i].ts \in 0 .. clock

\* The consumer's event stands for every message in its hand of that user,
\* and what it has yet to write for all the rest.
Writes == where[Reader].pc \in SetsOnline \cup {"storing"}
Held == IF Writes THEN {where[Reader].ev} ELSE {}
InHand(u) == {i \in 1 .. inHand : queue[i].user = u}

Consumed ==
  /\ where[Reader].pc \in {"off", "idle", "storing"} \cup SetsOnline
  /\ IF acfg.batch THEN Held \subseteq todo ELSE todo = {}
  /\ \A e \in todo \cup Held :
       e.ts # Never /\ \A i \in InHand(e.user) : queue[i].ts <= e.ts
  /\ where[Reader].pc \in SetsOnline =>
       \A i \in InHand(where[Reader].ev.user) : Accounted(queue[i])
  /\ \A i \in 1 .. inHand :
       Accounted(queue[i]) \/ \E e \in todo \cup Held : e.user = queue[i].user

ActivityInv == ActivityTyped /\ Counted /\ Own /\ Consumed

LEMMA Least ==
  ASSUME NEW T \in SUBSET Nat, T # {}
  PROVE  \E x \in T : \A y \in T : x <= y
<1> DEFINE R == OpToRel(<, Nat)
<1>1. \A x, y \in Nat : x < y <=> <<x, y>> \in R
  BY DEF OpToRel
<1> HIDE DEF R
<1>2. IsWellFoundedOn(R, Nat) BY NatLessThanWellFounded DEF R
<1>3. PICK x \in T : \A y \in T : ~ (<<y, x>> \in R)
  BY <1>2, WFMin
<1>4. \A y \in T : ~ (y < x) BY <1>1, <1>3
<1>5. \A y \in T : x <= y
  <2> TAKE y \in T
  <2>1. x \in Nat /\ y \in Nat OBVIOUS
  <2> QED BY <1>4, <2>1
<1> QED BY <1>5

\* The newest event of every user of a batch is there.
LEMMA LatestIs ==
  ASSUME NEW S, NEW evs \in Seq(S), NEW B \in Nat,
         \A i \in 1 .. Len(evs) : evs[i].ts \in 0 .. B,
         NEW i \in 1 .. Len(evs)
  PROVE  \E e \in Latest(evs) : e.user = evs[i].user
<1> DEFINE J == {j \in 1 .. Len(evs) : evs[j].user = evs[i].user}
           T == {B - evs[j].ts : j \in J}
<1>1. Len(evs) \in Nat /\ DOMAIN evs = 1 .. Len(evs) /\ i \in J
  OBVIOUS
<1>2. T \in SUBSET Nat /\ T # {}
  BY <1>1
<1>3. PICK x \in T : \A y \in T : x <= y BY <1>2, Least
<1>4. PICK m \in J : x = B - evs[m].ts OBVIOUS
<1>5. \A j \in J : evs[j].ts <= evs[m].ts
  <2> TAKE j \in J
  <2>1. B - evs[j].ts \in T /\ evs[j].ts \in 0 .. B /\ evs[m].ts \in 0 .. B
    OBVIOUS
  <2>2. x <= B - evs[j].ts BY <1>3, <2>1
  <2> QED BY <1>4, <2>1, <2>2
<1> DEFINE K == {j \in J : evs[j].ts = evs[m].ts}
<1>6. K \in SUBSET Nat /\ K # {} OBVIOUS
<1>7. PICK k \in K : \A j \in K : k <= j BY <1>6, Least
<1>8. k \in J /\ evs[k].ts = evs[m].ts /\ k \in DOMAIN evs BY <1>1
<1>9. \A l \in DOMAIN evs : evs[l].user = evs[k].user =>
        \/ evs[l].ts < evs[k].ts
        \/ evs[l].ts = evs[k].ts /\ l >= k
  <2> SUFFICES ASSUME NEW l \in DOMAIN evs, evs[l].user = evs[k].user
               PROVE  \/ evs[l].ts < evs[k].ts
                      \/ evs[l].ts = evs[k].ts /\ l >= k
    OBVIOUS
  <2>1. l \in J BY <1>1, <1>8
  <2>2. evs[l].ts <= evs[k].ts /\ evs[l].ts \in Nat /\ evs[k].ts \in Nat
    BY <1>5, <1>8, <2>1
  <2>3. CASE evs[l].ts = evs[k].ts
    <3>1. l \in K BY <1>8, <2>1, <2>3
    <3>2. k <= l BY <1>7, <3>1
    <3> QED BY <2>3, <3>2, <1>1, <1>8
  <2> QED BY <2>2, <2>3
<1>10. evs[k] \in Latest(evs) BY <1>8, <1>9 DEF Latest
<1> QED BY <1>8, <1>10

LEMMA LatestAre ==
  ASSUME NEW evs, NEW e \in Latest(evs)
  PROVE  /\ \E j \in DOMAIN evs : e = evs[j]
         /\ \A k \in DOMAIN evs : evs[k].user = e.user =>
              evs[k].ts < e.ts \/ evs[k].ts = e.ts
BY DEF Latest

-----------------------------------------------------------------------------
\* Time goes on, and what is known stays known.
Advances ==
  /\ acfg' = acfg /\ clock' \in Nat /\ clock <= clock'
  /\ mislaid \subseteq mislaid'
  /\ newest' \in [Users -> Times]
  /\ \A u \in Users : newest[u] <= newest'[u]

LEMMA SameNewest ==
  ASSUME ActivityTyped, UNCHANGED <<acfg, clock, newest, mislaid>>
  PROVE  Advances
<1>1. \A u \in Users : newest[u] \in Int
  BY DEF ActivityTyped, Times, Never
<1> QED BY <1>1 DEF Advances, ActivityTyped

LEMMA KnownStays ==
  ASSUME ActivityTyped, Advances, NEW e \in Reports, Accounted(e)
  PROVE  Accounted(e)'
<1>1. e.user \in Users /\ e.ts \in Times BY DEF Reports, Times
<1>2. newest[e.user] \in Int /\ newest'[e.user] \in Int /\ e.ts \in Int
  BY <1>1 DEF ActivityTyped, Advances, Times, Never
<1> QED BY <1>1, <1>2 DEF Accounted, Advances

LEMMA GoesTo ==
  ASSUME ActivityTyped, NEW a \in Actors, NEW pc \in Pcs, Goes(a, pc)
  PROVE  /\ where' \in [Actors -> [pc : Pcs, ev : Reports]]
         /\ where'[a].pc = pc /\ where'[a].ev = where[a].ev
         /\ \A b \in Actors \ {a} : where'[b] = where[b]
BY DEF ActivityTyped, Goes

LEMMA Rests ==
  ASSUME NEW pc \in Pcs
  PROVE  /\ Resting(pc) \in [pc : Pcs, ev : Reports]
         /\ Resting(pc).pc = pc /\ Resting(pc).ev.ts = Never
<1>1. (CHOOSE v \in Visits : TRUE) \in Visits BY ActivityAssumption
<1> QED BY <1>1 DEF Resting, Event, Reports, Users

LEMMA CountedStays ==
  ASSUME ActivityTyped, Counted, UNCHANGED <<online, members, setLeft>>,
         ~ cut' => ~ cut,
         \A a \in Actors : where[a].pc = "adding" =>
           where'[a].pc = "adding" /\ where'[a].ev = where[a].ev,
         \A a \in Actors : where[a].pc = "expiring" => where'[a].pc = "expiring"
  PROVE  Counted'
<1>1. \A u \in Users : Adds(u) => Adds(u)'
  BY DEF Adds
<1>2. Expires => Expires' BY DEF Expires
<1> QED BY <1>1, <1>2 DEF Counted

LEMMA OwnStays ==
  ASSUME ActivityTyped, Own, Advances,
         \A u \in Users : newest'[u] >= last'[u],
         \A v \in Visits : where'[v] = where[v] \/ OwnOf(v)',
         queue' \in Seq(Reports),
         \A e \in Reports :
           (\E i \in 1 .. Len(queue) : queue[i] = e) =>
          Accounted(e)' \/ \E j \in 1 .. Len(queue') : queue'[j] = e,
         \A j \in 1 .. Len(queue') : queue'[j].ts \in 0 .. clock'
  PROVE  Own'
<1>1. ASSUME NEW v \in Visits, where'[v] = where[v] PROVE OwnOf(v)'
  <2>1. PICK e \in Reports : e = where[v].ev
    BY DEF ActivityTyped, Actors
  <2>2. /\ OwnOf(v) /\ v.user \in Users /\ e.ts \in Int
        /\ newest[v.user] \in Times /\ newest'[v.user] \in Times
        /\ acfg.window \in Nat /\ clock \in Nat
    BY <2>1, ActivityAssumption
       DEF Own, Users, ActivityTyped, Advances, Reports, Never
  <2>3. Accounted(e) => Accounted(e)' BY KnownStays
  <2>4. /\ newest[v.user] # Never /\ newest[v.user] > e.ts - acfg.window =>
             newest'[v.user] # Never /\ newest'[v.user] > e.ts - acfg'.window
        /\ e.ts <= clock => e.ts <= clock'
    BY <2>2 DEF Advances, Times, Never
  <2>5. where'[v].ev = e /\ where'[v].pc = where[v].pc BY <1>1, <2>1
  <2> QED BY <2>1, <2>2, <2>3, <2>4, <2>5 DEF OwnOf, Accounted
<1> QED BY <1>1 DEF Own

\* Nothing the consumer has in its hand is touched.
LEMMA ConsumedStays ==
  ASSUME ActivityTyped, Consumed, Advances, where'[Reader] = where[Reader],
         UNCHANGED <<todo, inHand>>,
         \A i \in 1 .. inHand : queue'[i] = queue[i]
  PROVE  Consumed'
<1>1. /\ Writes' = Writes /\ Held' = Held /\ where'[Reader] = where[Reader]
      /\ acfg' = acfg
  BY DEF Writes, Held, Advances
<1>2. \A i \in 1 .. inHand : queue[i] \in Reports
  BY DEF ActivityTyped
<1>3. \A i \in 1 .. inHand : Accounted(queue[i]) => Accounted(queue[i])'
  <2> TAKE i \in 1 .. inHand
  <2>1. PICK e \in Reports : e = queue[i] BY <1>2
  <2>2. Accounted(e) => Accounted(e)' BY KnownStays
  <2> QED BY <2>1, <2>2 DEF Accounted
<1>4. \A u : InHand(u)' = InHand(u) BY DEF InHand
<1>5. \A u : \A i \in InHand(u) : i \in 1 .. inHand /\ queue'[i] = queue[i]
  BY DEF InHand
<1>6. \A e \in (todo \cup Held)' :
        e.ts # Never /\ \A i \in InHand(e.user)' : queue'[i].ts <= e.ts
  BY <1>1, <1>4, <1>5 DEF Consumed
<1>7. where'[Reader].pc \in SetsOnline =>
        \A i \in InHand(where[Reader].ev.user)' : Accounted(queue[i])'
  <2> SUFFICES ASSUME where[Reader].pc \in SetsOnline,
                      NEW i \in InHand(where[Reader].ev.user)'
               PROVE  Accounted(queue[i])'
    BY <1>1
  <2>1. i \in InHand(where[Reader].ev.user) BY <1>1, <1>4 DEF InHand
  <2> QED BY <1>3, <1>5, <2>1 DEF Consumed
<1>8. \A i \in 1 .. inHand' :
        \/ Accounted(queue[i])'
        \/ \E e \in (todo \cup Held)' : e.user = queue'[i].user
  BY <1>1, <1>3 DEF Consumed
<1>9. /\ where'[Reader].pc \in {"off", "idle", "storing"} \cup SetsOnline
      /\ IF acfg'.batch THEN Held' \subseteq todo' ELSE todo' = {}
  BY <1>1 DEF Consumed
<1> QED BY <1>6, <1>7, <1>8, <1>9 DEF Consumed

\* A request moves on, and leaves the store and the consumer alone.
Moves(v) ==
  /\ where' \in [Actors -> [pc : Pcs, ev : Reports]]
  /\ \A b \in Actors \ {v} : where'[b] = where[b]
  /\ UNCHANGED <<acfg, clock, inHand, todo, redis, cut>>
  /\ mislaid \subseteq mislaid'

LEMMA MovesOn ==
  ASSUME ActivityInv, NEW v \in Visits, Moves(v), OwnOf(v)',
         where[v].pc \notin {"adding", "expiring"},
         \/ queue' = queue
         \/ \E e \in Reports : queue' = Append(queue, e) /\ e.ts \in 0 .. clock
  PROVE  ActivityInv'
<1> USE DEF ActivityInv
<1>1. Reader \in Actors \ {v} /\ v \in Actors
  BY ActivityAssumption DEF Reader, Actors
<1>2. Advances
  BY DEF Advances, Moves, ActivityTyped, redis, Times, Never
<1>3. /\ queue' \in Seq(Reports) /\ Len(queue) <= Len(queue')
      /\ Len(queue) \in Nat /\ Len(queue') \in Nat /\ inHand \in Nat
      /\ inHand <= Len(queue)
      /\ \A i \in 1 .. Len(queue) : queue'[i] = queue[i]
      /\ \A i \in 1 .. Len(queue') : queue'[i].ts \in 0 .. clock
  <2>1. CASE queue' = queue BY <2>1 DEF ActivityTyped, Own
  <2>2. ASSUME NEW e \in Reports, queue' = Append(queue, e), e.ts \in 0 .. clock
        PROVE  <1>3
    <3>1. /\ queue' \in Seq(Reports) /\ Len(queue') = Len(queue) + 1
          /\ \A i \in 1 .. Len(queue) : queue'[i] = queue[i]
          /\ queue'[Len(queue) + 1] = e /\ Len(queue) \in Nat
      BY <2>2 DEF ActivityTyped
    <3>2. \A i \in 1 .. Len(queue') :
            i \in 1 .. Len(queue) \/ i = Len(queue) + 1
      BY <3>1
    <3>3. \A i \in 1 .. Len(queue') : queue'[i].ts \in 0 .. clock
      BY <2>2, <3>1, <3>2 DEF Own
    <3> QED BY <3>1, <3>3 DEF ActivityTyped
  <2> QED BY <2>1, <2>2
<1>4. ActivityTyped'
  BY <1>3 DEF ActivityTyped, Moves, redis
<1>5. Counted'
  <2>1. UNCHANGED <<online, members, setLeft, cut>> BY DEF Moves, redis
  <2>2. \A a \in Actors : where[a].pc \in {"adding", "expiring"} =>
          where'[a] = where[a]
    BY DEF Moves
  <2> QED BY <2>1, <2>2, CountedStays
<1>6. Own'
  <2>1. \A u \in Users : newest'[u] >= last'[u] BY DEF Own, Moves, redis
  <2>2. \A w \in Visits : where'[w] = where[w] \/ OwnOf(w)'
    BY DEF Moves, Actors
  <2>3. \A e \in Reports : (\E i \in 1 .. Len(queue) : queue[i] = e) =>
           \E j \in 1 .. Len(queue') : queue'[j] = e
    BY <1>3
  <2>4. \A j \in 1 .. Len(queue') : queue'[j].ts \in 0 .. clock'
    BY <1>3 DEF Moves
  <2> QED BY <1>2, <1>3, <2>1, <2>2, <2>3, <2>4, OwnStays
<1>7. Consumed'
  <2>1. \A i \in 1 .. inHand : queue'[i] = queue[i] BY <1>3
  <2>2. where'[Reader] = where[Reader] /\ UNCHANGED <<todo, inHand>>
    BY <1>1 DEF Moves
  <2> QED BY <1>2, <2>1, <2>2, ConsumedStays
<1> QED BY <1>4, <1>5, <1>6, <1>7

LEMMA NextVisit ==
  ASSUME ActivityInv, NEW v \in Visits, Visit(v)
  PROVE  ActivityInv'
<1>1. /\ UNCHANGED <<acfg, clock, queue, inHand, todo, redis, mislaid, cut>>
      /\ where[v].pc = "new" /\ v \in Actors /\ clock \in Nat
      /\ where \in [Actors -> [pc : Pcs, ev : Reports]]
  BY DEF Visit, ActivityInv, ActivityTyped, Actors
<1>2. /\ Event(v, clock) \in Reports /\ Event(v, clock).by = v
      /\ Event(v, clock).ts = clock
  BY <1>1 DEF Event, Reports, Users
<1>3. CASE where' = [where EXCEPT ![v] = [pc |-> "tracking",
                                            ev |-> Event(v, clock)]]
  <2>1. Moves(v) BY <1>1, <1>2, <1>3 DEF Moves, Pcs
  <2>2. OwnOf(v)'
    BY <1>1, <1>2, <1>3 DEF OwnOf, SetsOnline, Never
  <2> QED BY <1>1, <2>1, <2>2, MovesOn
<1>4. CASE where' = [where EXCEPT ![v] = Resting("done")]
  <2>1. /\ Resting("done") \in [pc : Pcs, ev : Reports]
        /\ Resting("done").pc = "done" /\ Resting("done").ev.ts = Never
    BY Rests DEF Pcs
  <2>2. Moves(v) BY <1>1, <1>4, <2>1 DEF Moves
  <2>3. OwnOf(v)'
    BY <1>1, <1>4, <2>1 DEF OwnOf, SetsOnline, Never
  <2> QED BY <1>1, <2>2, <2>3, MovesOn
<1> QED BY <1>3, <1>4 DEF Visit

LEMMA NextTrack ==
  ASSUME ActivityInv, NEW v \in Visits, Track(v)
  PROVE  ActivityInv'
<1> USE DEF ActivityInv
<1>1. /\ UNCHANGED <<acfg, clock, queue, inHand, todo, redis, mislaid, cut>>
      /\ where[v].pc = "tracking" /\ v \in Actors /\ clock \in Nat
      /\ where[v].ev \in Reports /\ where[v].ev.by = v /\ where[v].ev.ts # Never
      /\ where[v].ev.ts <= clock
      /\ where \in [Actors -> [pc : Pcs, ev : Reports]]
  BY DEF Track, ActivityTyped, Actors, Own, OwnOf
<1>2. PICK pc \in {"done", "sending", "storing"} :
        Goes(v, pc) /\ (pc = "done" => IsDuplicate(v.user))
  BY DEF Track
<1>3. /\ where' \in [Actors -> [pc : Pcs, ev : Reports]]
      /\ where'[v].pc = pc /\ where'[v].ev = where[v].ev
      /\ \A b \in Actors \ {v} : where'[b] = where[b]
  BY <1>1, <1>2, GoesTo DEF Pcs
<1>4. Moves(v) BY <1>1, <1>3 DEF Moves
<1>5. pc = "done" => newest[v.user] # Never
                     /\ newest[v.user] > where[v].ev.ts - acfg.window
  <2> SUFFICES ASSUME IsDuplicate(v.user)
               PROVE  newest[v.user] # Never
                      /\ newest[v.user] > where[v].ev.ts - acfg.window
    BY <1>2
  <2>1. /\ v.user \in Users /\ last[v.user] \in Nat /\ acfg.window \in Nat
        /\ newest[v.user] \in Nat \cup {Never} /\ where[v].ev.ts \in Nat
        /\ clock - last[v.user] < acfg.window
        /\ newest[v.user] >= last[v.user]
    BY <1>1, ActivityAssumption DEF Users, ActivityTyped, IsDuplicate, Times,
       Own, Reports
  <2> QED BY <1>1, <2>1 DEF Never
<1>6. OwnOf(v)'
  BY <1>1, <1>2, <1>3, <1>5 DEF OwnOf, SetsOnline, redis
<1> QED BY <1>1, <1>4, <1>6, MovesOn

LEMMA NextSend ==
  ASSUME ActivityInv, NEW v \in Visits, SendEvent(v)
  PROVE  ActivityInv'
<1> USE DEF ActivityInv
<1>1. /\ UNCHANGED <<acfg, clock, inHand, todo, redis, cut>>
      /\ where[v].pc = "sending" /\ v \in Actors /\ clock \in Nat
      /\ where[v].ev \in Reports /\ where[v].ev.by = v /\ where[v].ev.ts # Never
      /\ where[v].ev.ts <= clock /\ Goes(v, "done")
      /\ mislaid \subseteq mislaid' /\ queue \in Seq(Reports)
      /\ \/ queue' = Append(queue, where[v].ev)
         \/ queue' = queue /\ v \in mislaid'
  BY DEF SendEvent, ActivityTyped, Actors, Own, OwnOf
<1>2. PICK e \in Reports : e = where[v].ev BY <1>1
<1>3. /\ where' \in [Actors -> [pc : Pcs, ev : Reports]]
      /\ where'[v].pc = "done" /\ where'[v].ev = e
      /\ \A b \in Actors \ {v} : where'[b] = where[b]
  BY <1>1, <1>2, GoesTo DEF Pcs
<1>4. Moves(v) BY <1>1, <1>3 DEF Moves
<1>5. e.ts \in 0 .. clock BY <1>1, <1>2 DEF Reports, Never
<1>6. CASE queue' = Append(queue, e)
  <2>1. Len(queue') \in 1 .. Len(queue') /\ queue'[Len(queue')] = e
    BY <1>1, <1>6
  <2>2. OwnOf(v)' BY <1>1, <1>2, <1>3, <1>5, <2>1 DEF OwnOf, SetsOnline
  <2> QED BY <1>1, <1>4, <1>5, <1>6, <2>2, MovesOn
<1>7. CASE queue' = queue /\ v \in mislaid'
  <2>1. OwnOf(v)'
    BY <1>1, <1>2, <1>3, <1>5, <1>7 DEF OwnOf, SetsOnline, Accounted
  <2> QED BY <1>1, <1>4, <1>7, <2>1, MovesOn
<1> QED BY <1>1, <1>2, <1>6, <1>7

-----------------------------------------------------------------------------
\* The consumer.
LEMMA Takes ==
  ASSUME ActivityInv, ActivityTyped', Consumed',
         UNCHANGED <<acfg, clock, queue, redis, mislaid, cut>>,
         \A v \in Visits : where'[v] = where[v],
         where[Reader].pc \notin {"adding", "expiring"}
  PROVE  ActivityInv'
<1> USE DEF ActivityInv
<1>1. Counted'
  <2>1. \A a \in Actors : where[a].pc \in {"adding", "expiring"} =>
          where'[a] = where[a]
    BY DEF Actors
  <2>2. UNCHANGED <<online, members, setLeft, cut>> BY DEF redis
  <2> QED BY <2>1, <2>2, CountedStays
<1>2. Own'
  <2> newest' = newest /\ last' = last BY DEF redis
  <2>1. Advances BY DEF Advances, ActivityTyped, Times, Never
  <2>2. \A u \in Users : newest'[u] >= last'[u] BY DEF Own
  <2>3. queue' \in Seq(Reports) BY DEF ActivityTyped
  <2>4. \A j \in 1 .. Len(queue') : queue'[j].ts \in 0 .. clock' BY DEF Own
  <2> QED BY <2>1, <2>2, <2>3, <2>4, OwnStays
<1> QED BY <1>1, <1>2

LEMMA NextOne ==
  ASSUME ActivityInv, HandleOne
  PROVE  ActivityInv'
<1> USE DEF ActivityInv
<1>1. /\ ~ acfg.batch /\ where[Reader].pc = "idle" /\ inHand' = 1
      /\ queue \in Seq(Reports) /\ queue # <<>>
      /\ where' = [where EXCEPT ![Reader] = [pc |-> "storing",
                                          ev |-> Head(queue)]]
      /\ UNCHANGED <<acfg, clock, queue, todo, redis, mislaid, cut>>
      /\ Reader \in Actors /\ \A v \in Visits : v \in Actors /\ v # Reader
      /\ where \in [Actors -> [pc : Pcs, ev : Reports]]
  BY ActivityAssumption
     DEF HandleOne, ConsumerIdle, ActivityTyped, Actors, Reader
<1>2. /\ Head(queue) = queue[1] /\ Len(queue) >= 1 /\ 1 \in 1 .. Len(queue)
      /\ queue[1] \in Reports /\ queue[1].ts \in 0 .. clock
  BY <1>1 DEF Own
<1>3. /\ where'[Reader] = [pc |-> "storing", ev |-> queue[1]]
      /\ \A v \in Visits : where'[v] = where[v]
      /\ where' \in [Actors -> [pc : Pcs, ev : Reports]]
  BY <1>1, <1>2 DEF Pcs
<1>4. ActivityTyped' BY <1>1, <1>2, <1>3 DEF ActivityTyped, redis
<1>5. Consumed'
  <2>1. todo' = {} /\ Held' = {queue[1]}
    BY <1>1, <1>3 DEF Consumed, Held, Writes
  <2>2. \A i \in 1 .. inHand' : i = 1 BY <1>1
  <2>3. \A u : \A i \in InHand(u)' : i = 1 BY <2>2 DEF InHand
  <2>4. queue[1].ts # Never /\ queue[1].ts <= queue[1].ts
    BY <1>2 DEF Never
  <2> QED BY <1>1, <1>3, <2>1, <2>2, <2>3, <2>4 DEF Consumed, SetsOnline
<1> QED BY <1>1, <1>3, <1>4, <1>5, Takes

LEMMA NextBatch ==
  ASSUME ActivityInv, HandleBatch
  PROVE  ActivityInv'
<1> USE DEF ActivityInv
<1>1. /\ acfg.batch /\ where[Reader].pc = "idle"
      /\ queue \in Seq(Reports) /\ clock \in Nat
      /\ UNCHANGED <<acfg, clock, where, queue, redis, mislaid, cut>>
  BY DEF HandleBatch, ConsumerIdle, ActivityTyped
<1>2. PICK n \in 1 .. BatchSize :
        n <= Len(queue) /\ inHand' = n /\ todo' = Latest(SubSeq(queue, 1, n))
  BY DEF HandleBatch
<1> DEFINE evs == SubSeq(queue, 1, n)
<1>3. /\ n \in Nat /\ n \in 1 .. Len(queue) /\ evs \in Seq(Reports)
      /\ Len(evs) = n /\ DOMAIN evs = 1 .. n
      /\ \A i \in 1 .. n : evs[i] = queue[i] /\ i \in 1 .. Len(queue)
  BY <1>1, <1>2, ActivityAssumption
<1>4. \A i \in 1 .. n : evs[i] \in Reports /\ evs[i].ts \in 0 .. clock
  BY <1>1, <1>3 DEF Own
<1> HIDE DEF evs
<1>5. ASSUME NEW e \in todo'
      PROVE  /\ e \in Reports /\ e.ts # Never
             /\ \A i \in 1 .. n : queue[i].user = e.user => queue[i].ts <= e.ts
  <2>1. e \in Latest(evs) BY <1>2, <1>5 DEF evs
  <2>2. PICK j \in DOMAIN evs : e = evs[j] BY <2>1, LatestAre
  <2>3. e \in Reports /\ e.ts \in 0 .. clock BY <1>3, <1>4, <2>2
  <2>4. \A k \in DOMAIN evs :
          evs[k].user = e.user => evs[k].ts < e.ts \/ evs[k].ts = e.ts
    BY <2>1, LatestAre
  <2>5. \A k \in 1 .. n : queue[k].user = e.user => queue[k].ts <= e.ts
    <3> TAKE k \in 1 .. n
    <3>1. evs[k] = queue[k] /\ evs[k].ts \in 0 .. clock BY <1>3, <1>4
    <3> QED BY <1>3, <2>3, <2>4, <3>1
  <2> QED BY <2>3, <2>5 DEF Never
<1>6. \A i \in 1 .. n : \E e \in todo' : e.user = queue[i].user
  <2> TAKE i \in 1 .. n
  <2>1. \A j \in 1 .. Len(evs) : evs[j].ts \in 0 .. clock BY <1>3, <1>4
  <2>2. i \in 1 .. Len(evs) BY <1>3
  <2>3. \E e \in Latest(evs) : e.user = evs[i].user
    BY <1>1, <1>3, <2>1, <2>2, LatestIs
  <2> QED BY <1>2, <1>3, <2>3 DEF evs
<1>7. ActivityTyped' BY <1>1, <1>2, <1>3, <1>5 DEF ActivityTyped, redis
<1>8. Consumed'
  <2>1. Held' = {} BY <1>1 DEF Held, Writes, SetsOnline
  <2>2. \A u : \A i \in InHand(u)' : i \in 1 .. n /\ queue[i].user = u
    BY <1>1, <1>2 DEF InHand
  <2> QED BY <1>1, <1>2, <1>5, <1>6, <2>1, <2>2 DEF Consumed, SetsOnline
<1> QED BY <1>1, <1>7, <1>8, Takes

LEMMA NextOfBatch ==
  ASSUME ActivityInv, NextUser
  PROVE  ActivityInv'
<1> USE DEF ActivityInv
<1>1. /\ where[Reader].pc = "idle" /\ todo # {} /\ todo \subseteq Reports
      /\ UNCHANGED <<acfg, clock, queue, inHand, todo, redis, mislaid, cut>>
      /\ Reader \in Actors /\ \A v \in Visits : v \in Actors /\ v # Reader
      /\ where \in [Actors -> [pc : Pcs, ev : Reports]]
  BY ActivityAssumption
     DEF NextUser, ConsumerIdle, ActivityTyped, Actors, Reader
<1>2. PICK e \in todo :
        where' = [where EXCEPT ![Reader] = [pc |-> "storing", ev |-> e]]
  BY DEF NextUser
<1>3. /\ where'[Reader] = [pc |-> "storing", ev |-> e]
      /\ \A v \in Visits : where'[v] = where[v]
      /\ where' \in [Actors -> [pc : Pcs, ev : Reports]]
  BY <1>1, <1>2 DEF Pcs
<1>4. ActivityTyped' BY <1>1, <1>3 DEF ActivityTyped, redis
<1>5. Consumed'
  <2>1. Held = {} /\ Held' = {e} /\ todo \cup Held = todo
        /\ todo' \cup Held' = todo /\ acfg.batch
    BY <1>1, <1>3 DEF Consumed, Held, Writes, SetsOnline
  <2>2. \A u : InHand(u)' = InHand(u) BY <1>1 DEF InHand
  <2>3. \A i \in 1 .. inHand : Accounted(queue[i])' <=> Accounted(queue[i])
    BY <1>1 DEF Accounted, redis
  <2> QED BY <1>1, <1>3, <2>1, <2>2, <2>3 DEF Consumed, SetsOnline
<1> QED BY <1>1, <1>3, <1>4, <1>5, Takes

\* The consumer is through with an event, of which all it has in its hand is
\* known: what leaves the topic is known.
LEMMA ConsumerFinishes ==
  ASSUME ActivityInv, Writes, Finish(Reader), Advances,
         \A e \in Reports :
           (\E i \in InHand(where[Reader].ev.user) : queue[i] = e) =>
              Accounted(e)'
  PROVE  /\ where' \in [Actors -> [pc : Pcs, ev : Reports]]
         /\ \A v \in Visits : where'[v] = where[v]
         /\ queue' \in Seq(Reports) /\ inHand' \in 0 .. Len(queue')
         /\ todo' \subseteq Reports
         /\ \A e \in Reports : (\E i \in 1 .. Len(queue) : queue[i] = e) =>
           Accounted(e)' \/ \E j \in 1 .. Len(queue') : queue'[j] = e
         /\ \A j \in 1 .. Len(queue') :
              \E i \in 1 .. Len(queue) : queue'[j] = queue[i]
         /\ Consumed'
<1> USE DEF ActivityInv
<1> DEFINE ev == where[Reader].ev
<1>1. /\ Reader \in Actors /\ \A v \in Visits : v \in Actors /\ v # Reader
      /\ ev \in Reports /\ queue \in Seq(Reports) /\ inHand \in 0 .. Len(queue)
      /\ Len(queue) \in Nat /\ Goes(Reader, "idle") /\ todo' = todo \ {ev}
      /\ Held = {ev}
  BY ActivityAssumption
     DEF Finish, ActivityTyped, Actors, Reader, Held
<1>2. /\ where' \in [Actors -> [pc : Pcs, ev : Reports]]
      /\ where'[Reader].pc = "idle" /\ \A v \in Visits : where'[v] = where[v]
  BY <1>1, GoesTo DEF Pcs
<1>3. Held' = {} BY <1>2 DEF Held, Writes, SetsOnline
<1>4. ASSUME NEW i \in 1 .. inHand, NEW e \in Reports, e = queue[i]
      PROVE  Accounted(e)' \/ \E f \in todo' : f.user = e.user
  <2>1. CASE Accounted(e) BY <2>1, KnownStays
  <2>2. CASE \E f \in todo \cup Held : f.user = e.user
    <3>1. PICK f \in todo \cup Held : f.user = e.user BY <2>2
    <3>2. CASE f = ev
      <4>1. i \in InHand(ev.user) BY <1>4, <3>1, <3>2 DEF InHand
      <4> QED BY <1>4, <4>1
    <3> QED BY <1>1, <3>1, <3>2
  <2> QED BY <1>4, <2>1, <2>2 DEF Consumed, Accounted
<1>5. CASE todo' = {}
  <2>1. inHand' = 0 /\ queue' = SubSeq(queue, inHand + 1, Len(queue))
    BY <1>1, <1>5 DEF Finish
  <2>2. /\ queue' \in Seq(Reports) /\ Len(queue') = Len(queue) - inHand
        /\ \A j \in 1 .. Len(queue') :
             queue'[j] = queue[inHand + j] /\ inHand + j \in 1 .. Len(queue)
    BY <1>1, <2>1
  <2>3. ASSUME NEW e \in Reports, NEW i \in 1 .. Len(queue), queue[i] = e
        PROVE  Accounted(e)' \/ \E j \in 1 .. Len(queue') : queue'[j] = e
    <3>1. CASE i <= inHand
      <4>1. i \in 1 .. inHand BY <1>1, <3>1
      <4> QED BY <1>4, <1>5, <2>3, <4>1
    <3>2. CASE i > inHand
      <4>1. i - inHand \in 1 .. Len(queue') /\ inHand + (i - inHand) = i
        BY <1>1, <2>2, <3>2
      <4> QED BY <2>2, <2>3, <4>1
    <3> QED BY <1>1, <3>1, <3>2
  <2>4. Consumed'
    <3>1. \A u : InHand(u)' = {} BY <2>1 DEF InHand
    <3> QED BY <1>2, <1>3, <1>5, <2>1, <3>1 DEF Consumed, SetsOnline
  <2>5. inHand' \in 0 .. Len(queue') BY <2>1, <2>2
  <2> QED BY <1>2, <1>5, <2>2, <2>3, <2>4, <2>5
<1>6. CASE todo' # {}
  <2>1. inHand' = inHand /\ queue' = queue
    BY <1>1, <1>6 DEF Finish
  <2>2. acfg.batch /\ acfg'.batch /\ acfg' = acfg
    BY <1>1, <1>6 DEF Consumed, Advances
  <2>3. \A u : InHand(u)' = InHand(u) BY <2>1 DEF InHand
  <2>4. \A e \in todo' : e \in todo \cup Held BY <1>1
  <2>5. \A i \in 1 .. inHand :
          Accounted(queue[i])' \/ \E e \in todo' : e.user = queue[i].user
    <3> TAKE i \in 1 .. inHand
    <3>1. PICK e \in Reports : e = queue[i] BY <1>1
    <3>2. Accounted(e)' \/ \E f \in todo' : f.user = e.user BY <1>4, <3>1
    <3> QED BY <2>1, <3>1, <3>2 DEF Accounted
  <2>6. Consumed'
    BY <1>2, <1>3, <2>1, <2>2, <2>3, <2>4, <2>5 DEF Consumed, SetsOnline
  <2>7. todo' \subseteq Reports BY <1>1 DEF ActivityTyped
  <2> QED BY <1>1, <1>2, <2>1, <2>6, <2>7
<1> QED BY <1>5, <1>6

-----------------------------------------------------------------------------
\* A step of the store: the event of the actor is known after it, and for the
\* consumer all that it stands for.
Stays(a, pc) == Goes(a, pc) /\ UNCHANGED <<queue, inHand, todo>>
StoreTyped ==
  /\ last \in [Users -> Times] /\ newest \in [Users -> Times]
  /\ online \in [Users -> Nat] /\ members \subseteq Users
  /\ setLeft \in Nat \cup {Forever} /\ cut \in BOOLEAN
  /\ \A u \in Users : newest[u] >= last[u]

LEMMA RequestStores ==
  ASSUME ActivityInv, NEW v \in Visits,
         where[v].pc \in SetsOnline \cup {"storing"},
         Advances, clock' = clock, StoreTyped', Counted',
         Finish(v) \/ \E pc \in SetsOnline : Stays(v, pc),
         \A e \in Reports : e = where[v].ev => Accounted(e)'
  PROVE  ActivityInv'
<1> USE DEF ActivityInv
<1>1. /\ v \in Actors /\ Reader \in Actors /\ v # Reader
      /\ where \in [Actors -> [pc : Pcs, ev : Reports]]
      /\ where[v].ev \in Reports
      /\ where[v].ev.by = v /\ where[v].ev.ts # Never /\ where[v].ev.ts <= clock
  BY ActivityAssumption
     DEF ActivityTyped, Actors, Reader, Own, OwnOf, SetsOnline
<1>2. PICK e \in Reports : e = where[v].ev BY <1>1
<1>3. PICK pc \in SetsOnline \cup {"done"} : Stays(v, pc)
  BY <1>1 DEF Finish, Stays
<1>4. /\ UNCHANGED <<queue, inHand, todo>> /\ acfg' = acfg
      /\ where' \in [Actors -> [pc : Pcs, ev : Reports]]
      /\ where'[v].pc = pc /\ where'[v].ev = e
      /\ \A b \in Actors \ {v} : where'[b] = where[b]
  BY <1>1, <1>2, <1>3, GoesTo DEF Stays, SetsOnline, Pcs, Advances
<1>5. OwnOf(v)'
  BY <1>1, <1>2, <1>3, <1>4 DEF OwnOf, SetsOnline, Accounted
<1>6. ActivityTyped'
  BY <1>4 DEF ActivityTyped, StoreTyped, Advances
<1>7. Own'
  <2>1. \A w \in Visits : where'[w] = where[w] \/ OwnOf(w)'
    BY <1>4, <1>5 DEF Actors
  <2>2. \A u \in Users : newest'[u] >= last'[u] BY DEF StoreTyped
  <2>3. queue' \in Seq(Reports) BY <1>4 DEF ActivityTyped
  <2>4. \A j \in 1 .. Len(queue') : queue'[j].ts \in 0 .. clock'
    BY <1>4 DEF Own
  <2> QED BY <1>4, <2>1, <2>2, <2>3, <2>4, OwnStays
<1>8. Consumed'
  <2>1. where'[Reader] = where[Reader] BY <1>1, <1>4
  <2> QED BY <1>4, <2>1, ConsumedStays
<1> QED BY <1>6, <1>7, <1>8

LEMMA ConsumerStores ==
  ASSUME ActivityInv, where[Reader].pc \in SetsOnline \cup {"storing"},
         Advances, clock' = clock, StoreTyped', Counted',
         Finish(Reader)
           \/ \E pc \in SetsOnline \cup {"storing"} : Stays(Reader, pc),
         \A e \in Reports :
           (\E i \in InHand(where[Reader].ev.user) : queue[i] = e) =>
              Accounted(e)'
  PROVE  ActivityInv'
<1> USE DEF ActivityInv
<1>1. Writes BY DEF Writes
<1>2. CASE Finish(Reader)
  <2>1. /\ where' \in [Actors -> [pc : Pcs, ev : Reports]]
        /\ \A v \in Visits : where'[v] = where[v]
        /\ queue' \in Seq(Reports) /\ inHand' \in 0 .. Len(queue')
        /\ todo' \subseteq Reports
        /\ \A e \in Reports : (\E i \in 1 .. Len(queue) : queue[i] = e) =>
          Accounted(e)' \/ \E j \in 1 .. Len(queue') : queue'[j] = e
        /\ \A j \in 1 .. Len(queue') :
             \E i \in 1 .. Len(queue) : queue'[j] = queue[i]
        /\ Consumed'
    BY <1>1, <1>2, ConsumerFinishes
  <2>2. ActivityTyped'
    BY <2>1 DEF ActivityTyped, StoreTyped, Advances
  <2>3. \A j \in 1 .. Len(queue') : queue'[j].ts \in 0 .. clock'
    BY <2>1 DEF Own
  <2>4. \A u \in Users : newest'[u] >= last'[u] BY DEF StoreTyped
  <2>5. Own' BY <2>1, <2>3, <2>4, OwnStays
  <2> QED BY <2>1, <2>2, <2>5
<1>3. CASE \E pc \in SetsOnline \cup {"storing"} : Stays(Reader, pc)
  <2>1. PICK pc \in SetsOnline \cup {"storing"} : Stays(Reader, pc)
    BY <1>3
  <2>2. Reader \in Actors /\ \A v \in Visits : v \in Actors \ {Reader}
    BY ActivityAssumption DEF Actors, Reader
  <2>3. /\ UNCHANGED <<queue, inHand, todo>> /\ acfg' = acfg
        /\ where' \in [Actors -> [pc : Pcs, ev : Reports]]
        /\ where'[Reader].pc = pc /\ where'[Reader].ev = where[Reader].ev
        /\ \A v \in Visits : where'[v] = where[v]
    BY <2>1, <2>2, GoesTo DEF Stays, SetsOnline, Pcs, Advances
  <2>4. ActivityTyped'
    BY <2>3 DEF ActivityTyped, StoreTyped, Advances
  <2>5. Own'
    <3>1. \A u \in Users : newest'[u] >= last'[u] BY DEF StoreTyped
    <3>2. queue' \in Seq(Reports) BY <2>3 DEF ActivityTyped
    <3>3. \A j \in 1 .. Len(queue') : queue'[j].ts \in 0 .. clock'
      BY <2>3 DEF Own
    <3> QED BY <2>3, <3>1, <3>2, <3>3, OwnStays
  <2>6. Consumed'
    <3>1. Writes' /\ Held' = Held BY <1>1, <2>1, <2>3 DEF Writes, Held
    <3>2. \A u : InHand(u)' = InHand(u) BY <2>3 DEF InHand
    <3>3. \A i \in InHand(where[Reader].ev.user) : Accounted(queue[i])'
      <4> TAKE i \in InHand(where[Reader].ev.user)
      <4>1. PICK e \in Reports : e = queue[i]
        BY DEF InHand, ActivityTyped
      <4>2. Accounted(e)' BY <4>1
      <4> QED BY <2>3, <4>1, <4>2 DEF Accounted
    <3>4. \A i \in 1 .. inHand : Accounted(queue[i]) => Accounted(queue[i])'
      <4> TAKE i \in 1 .. inHand
      <4>1. PICK e \in Reports : e = queue[i] BY DEF ActivityTyped
      <4>2. Accounted(e) => Accounted(e)' BY KnownStays
      <4> QED BY <2>3, <4>1, <4>2 DEF Accounted
    <3>5. where'[Reader].pc \in {"storing"} \cup SetsOnline BY <2>1, <2>3
    <3> QED BY <2>3, <3>1, <3>2, <3>3, <3>4, <3>5 DEF Consumed
  <2> QED BY <2>4, <2>5, <2>6
<1> QED BY <1>2, <1>3

LEMMA SetOnlineStores ==
  ASSUME ActivityInv, NEW a \in Actors, where[a].pc \in SetsOnline,
         Advances, clock' = clock, StoreTyped', Counted',
         \/ Finish(a)
         \/ \E pc \in SetsOnline : Stays(a, pc)
         \/ a = Reader /\ Stays(a, "storing")
  PROVE  ActivityInv'
<1> USE DEF ActivityInv
<1>1. CASE a = Reader
  <2>1. \A e \in Reports :
          (\E i \in InHand(where[Reader].ev.user) : queue[i] = e) =>
             Accounted(e)'
    <3> SUFFICES ASSUME NEW e \in Reports,
                        NEW i \in InHand(where[Reader].ev.user), queue[i] = e
                 PROVE  Accounted(e)'
      OBVIOUS
    <3>1. Accounted(e) BY <1>1 DEF Consumed, Accounted
    <3> QED BY <3>1, KnownStays
  <2> QED BY <1>1, <2>1, ConsumerStores
<1>2. CASE a \in Visits /\ a # Reader
  <2>1. \A e \in Reports : e = where[a].ev => Accounted(e)'
    <3> SUFFICES ASSUME NEW e \in Reports, e = where[a].ev PROVE Accounted(e)'
      OBVIOUS
    <3>1. Accounted(e) BY <1>2 DEF Own, OwnOf, Accounted
    <3> QED BY <3>1, KnownStays
  <2> QED BY <1>2, <2>1, RequestStores
<1> QED BY <1>1, <1>2 DEF Actors

\* Where the actor is after a step of the store.
LEMMA ActorGoes ==
  ASSUME ActivityInv, NEW a \in Actors,
         Finish(a) \/ \E pc \in Pcs : Goes(a, pc)
  PROVE  /\ \A b \in Actors \ {a} : where'[b] = where[b]
         /\ Finish(a) => where'[a].pc \in {"idle", "done"}
         /\ \A pc \in Pcs : Goes(a, pc) =>
              where'[a].pc = pc /\ where'[a].ev = where[a].ev
BY GoesTo DEF ActivityInv, Finish, Pcs

LEMMA HSets ==
  ASSUME ActivityInv, NEW e \in Reports, e.ts # Never, HSet(e)
  PROVE  /\ last' \in [Users -> Times] /\ newest' \in [Users -> Times]
         /\ \A u \in Users : newest'[u] >= last'[u] /\ newest[u] <= newest'[u]
         /\ newest'[e.user] >= e.ts
<1>1. /\ e.user \in Users /\ e.ts \in Nat
      /\ last \in [Users -> Times] /\ newest \in [Users -> Times]
      /\ \A u \in Users : newest[u] >= last[u]
  BY DEF ActivityInv, ActivityTyped, Own, Reports
<1>2. \A u \in Users : newest[u] \in Int /\ last[u] \in Int
  BY <1>1 DEF Times, Never
<1>3. /\ last' = [last EXCEPT ![e.user] = e.ts]
      /\ newest' = [newest EXCEPT ![e.user] =
                      IF e.ts > newest[e.user] THEN e.ts ELSE newest[e.user]]
  BY DEF HSet
<1>4. last' \in [Users -> Times] /\ newest' \in [Users -> Times]
  BY <1>1, <1>3 DEF Times
<1>5. \A u \in Users : newest'[u] >= last'[u] /\ newest[u] <= newest'[u]
  <2> TAKE u \in Users
  <2>1. CASE u = e.user BY <1>1, <1>2, <1>3, <2>1
  <2>2. CASE u # e.user BY <1>1, <1>2, <1>3, <2>2
  <2> QED BY <2>1, <2>2
<1>6. newest'[e.user] >= e.ts
  BY <1>1, <1>2, <1>3
<1> QED BY <1>4, <1>5, <1>6

LEMMA NextSetLastActive ==
  ASSUME ActivityInv, NEW a \in Actors,
         SetLastActive(a) \/ SetLastActiveFails(a)
  PROVE  ActivityInv'
<1> USE DEF ActivityInv
<1>1. /\ where[a].pc = "storing" /\ where[a].ev \in Reports
      /\ UNCHANGED <<acfg, clock, online, members, setLeft, cut>>
      /\ mislaid \subseteq mislaid'
      /\ Finish(a) \/ Stays(a, "marking")
      /\ HSet(where[a].ev) \/ UNCHANGED <<last, newest>>
      /\ HSet(where[a].ev) \/ mislaid' = mislaid \cup Stands(a)
  BY DEF SetLastActive, SetLastActiveFails, ActivityTyped, Stays
<1>2. where[a].ev.ts # Never
  <2>1. CASE a = Reader BY <1>1, <2>1 DEF Consumed, Held, Writes
  <2>2. CASE a \in Visits BY <1>1, <2>2 DEF Own, OwnOf
  <2> QED BY <2>1, <2>2 DEF Actors
<1>3. PICK f \in Reports : f = where[a].ev /\ f.ts # Never BY <1>1, <1>2
<1>4. /\ last' \in [Users -> Times] /\ newest' \in [Users -> Times]
      /\ \A u \in Users : newest'[u] >= last'[u] /\ newest[u] <= newest'[u]
      /\ HSet(f) => newest'[f.user] >= f.ts
  <2>1. CASE HSet(f) BY <1>3, <2>1, HSets
  <2>2. CASE UNCHANGED <<last, newest>> /\ ~ HSet(f)
    BY <2>2 DEF ActivityTyped, Own, Times, Never
  <2> QED BY <1>1, <1>3, <2>1, <2>2
<1>5. Advances /\ StoreTyped'
  BY <1>1, <1>4 DEF Advances, StoreTyped, ActivityTyped
<1>6. Counted'
  <2>1. /\ \A b \in Actors \ {a} : where'[b] = where[b]
    BY <1>1, ActorGoes DEF Stays, Pcs
  <2>2. \A b \in Actors : where[b].pc \in {"adding", "expiring"} =>
          where'[b] = where[b]
    BY <1>1, <2>1
  <2> QED BY <1>1, <2>2, CountedStays
<1>7. CASE a = Reader
  <2>1. \A e \in Reports :
          (\E i \in InHand(where[Reader].ev.user) : queue[i] = e) =>
             Accounted(e)'
    <3> SUFFICES ASSUME NEW e \in Reports,
                        NEW i \in InHand(f.user), queue[i] = e
                 PROVE  Accounted(e)'
      BY <1>3, <1>7
    <3>1. e.user = f.user /\ e.by \in Stands(a)
      BY <1>3, <1>7 DEF Stands, InHand
    <3>2. e.ts <= f.ts
      BY <1>1, <1>3, <1>7 DEF Consumed, Held, Writes
    <3>3. e.ts \in Int /\ f.ts \in Int /\ newest'[f.user] \in Int
      BY <1>4 DEF Reports, Times, Never
    <3> QED BY <1>1, <1>3, <1>4, <3>1, <3>2, <3>3 DEF Accounted
  <2>2. Finish(a) \/ \E pc \in SetsOnline \cup {"storing"} : Stays(a, pc)
    BY <1>1 DEF SetsOnline
  <2> QED BY <1>1, <1>5, <1>6, <1>7, <2>1, <2>2, ConsumerStores
<1>8. CASE a \in Visits /\ a # Reader
  <2>1. \A e \in Reports : e = where[a].ev => Accounted(e)'
    BY <1>1, <1>3, <1>4, <1>8 DEF Accounted, Stands, Own, OwnOf
  <2>2. Finish(a) \/ \E pc \in SetsOnline : Stays(a, pc)
    BY <1>1 DEF SetsOnline
  <2> QED BY <1>1, <1>5, <1>6, <1>8, <2>1, <2>2, RequestStores
<1> QED BY <1>7, <1>8 DEF Actors

LEMMA NextMark ==
  ASSUME ActivityInv, NEW a \in Actors, Mark(a)
  PROVE  ActivityInv'
<1> USE DEF ActivityInv
<1>1. /\ where[a].pc = "marking" /\ where[a].ev.user \in Users
      /\ UNCHANGED <<acfg, clock, last, newest, members, setLeft, mislaid, cut>>
      /\ Goes(a, "adding") /\ Stays(a, "adding")
      /\ online' = [online EXCEPT ![where[a].ev.user] = OnlineTTL]
      /\ online \in [Users -> Nat]
  BY DEF Mark, Stays, ActivityTyped, Reports
<1>2. Advances /\ StoreTyped'
  BY <1>1, SameNewest, ActivityAssumption
     DEF StoreTyped, ActivityTyped, Own
<1>3. /\ \A b \in Actors \ {a} : where'[b] = where[b]
      /\ where'[a].pc = "adding" /\ where'[a].ev = where[a].ev
  BY <1>1, ActorGoes DEF Pcs
<1>4. Counted'
  <2>1. \A u \in Users : Adds(u) => Adds(u)' BY <1>1, <1>3 DEF Adds
  <2>2. Expires => Expires' BY <1>1, <1>3 DEF Expires
  <2>3. \A u \in Users : u = where[a].ev.user => Adds(u)' BY <1>3 DEF Adds
  <2>4. \A u \in Users :
          online'[u] = (IF u = where[a].ev.user THEN OnlineTTL ELSE online[u])
    BY <1>1
  <2>5. \A u \in Users : u = where[a].ev.user => online'[u] <= OnlineTTL
    BY <2>4, ActivityAssumption
  <2>6. \A u \in Users : u # where[a].ev.user => online'[u] = online[u]
    BY <2>4
  <2> QED BY <1>1, <2>1, <2>2, <2>3, <2>5, <2>6 DEF Counted
<1> QED BY <1>1, <1>2, <1>4, SetOnlineStores DEF SetsOnline

LEMMA NextAdd ==
  ASSUME ActivityInv, NEW a \in Actors, Add(a)
  PROVE  ActivityInv'
<1> USE DEF ActivityInv
<1>1. /\ where[a].pc = "adding" /\ where[a].ev.user \in Users
      /\ UNCHANGED <<acfg, clock, last, newest, online, mislaid, cut>>
      /\ Goes(a, "expiring") /\ Stays(a, "expiring")
      /\ members' = members \cup {where[a].ev.user}
      /\ setLeft' \in {Forever, setLeft}
  BY DEF Add, Stays, ActivityTyped, Reports
<1>2. Advances /\ StoreTyped'
  BY <1>1, SameNewest DEF StoreTyped, ActivityTyped, Own
<1>3. /\ \A b \in Actors \ {a} : where'[b] = where[b]
      /\ where'[a].pc = "expiring" /\ where'[a].ev = where[a].ev
  BY <1>1, ActorGoes DEF Pcs
<1>4. Counted'
  <2>1. \A u \in Users : Adds(u) => Adds(u)' \/ u \in members'
    BY <1>1, <1>3 DEF Adds
  <2>2. Expires' BY <1>3 DEF Expires
  <2> QED BY <1>1, <2>1, <2>2 DEF Counted
<1> QED BY <1>1, <1>2, <1>4, SetOnlineStores DEF SetsOnline

LEMMA NextExpireSet ==
  ASSUME ActivityInv, NEW a \in Actors, ExpireSet(a)
  PROVE  ActivityInv'
<1> USE DEF ActivityInv
<1>1. /\ where[a].pc = "expiring" /\ Finish(a)
      /\ UNCHANGED <<acfg, clock, last, newest, online, members, mislaid, cut>>
      /\ setLeft' = IF members = {} THEN setLeft ELSE OnlineTTL
  BY DEF ExpireSet
<1>2. Advances /\ StoreTyped'
  BY <1>1, SameNewest, ActivityAssumption
     DEF StoreTyped, ActivityTyped, Own
<1>3. /\ \A b \in Actors \ {a} : where'[b] = where[b]
      /\ where'[a].pc \in {"idle", "done"}
  BY <1>1, ActorGoes
<1>4. Counted'
  <2>1. \A u \in Users : Adds(u) => Adds(u)' BY <1>1, <1>3 DEF Adds
  <2>2. \A u \in Users : u \in members => setLeft' = OnlineTTL BY <1>1
  <2>3. members # {} => setLeft' # Forever
    BY <1>1, ActivityAssumption DEF Forever
  <2>4. \A u \in Users : online[u] \in Nat BY DEF ActivityTyped
  <2> QED BY <1>1, <2>1, <2>2, <2>3, <2>4, ActivityAssumption DEF Counted
<1> QED BY <1>1, <1>2, <1>4, SetOnlineStores DEF SetsOnline

LEMMA NextBreak ==
  ASSUME ActivityInv, NEW a \in Actors, Break(a)
  PROVE  ActivityInv'
<1> USE DEF ActivityInv
<1>1. /\ where[a].pc \in SetsOnline /\ cut' = TRUE
      /\ UNCHANGED <<acfg, clock, last, newest, online, members, setLeft,
           mislaid>>
      /\ \/ Finish(a)
         \/ Stays(a, "marking")
         \/ a = Reader /\ Stays(a, "storing")
  BY DEF Break, Stays, SetsOnline, redis
<1>2. Advances /\ StoreTyped'
  BY <1>1, SameNewest DEF StoreTyped, ActivityTyped, Own
<1>3. Counted' BY <1>1 DEF Counted
<1> QED BY <1>1, <1>2, <1>3, SetOnlineStores DEF SetsOnline

-----------------------------------------------------------------------------
LEMMA NextDie ==
  ASSUME ActivityInv, Die
  PROVE  ActivityInv'
<1> USE DEF ActivityInv
<1>1. /\ UNCHANGED <<acfg, clock, queue, last, newest, online, members,
                     setLeft, mislaid>>
      /\ where' = [where EXCEPT ![Reader] = Resting("idle")]
      /\ inHand' = 0 /\ todo' = {}
      /\ cut' = (cut \/ where[Reader].pc \in {"adding", "expiring"})
      /\ where \in [Actors -> [pc : Pcs, ev : Reports]]
      /\ Reader \in Actors /\ \A v \in Visits : v \in Actors \ {Reader}
  BY ActivityAssumption DEF Die, redis, ActivityTyped, Actors, Reader
<1>2. /\ where' \in [Actors -> [pc : Pcs, ev : Reports]]
      /\ where'[Reader].pc = "idle"
      /\ \A b \in Actors \ {Reader} : where'[b] = where[b]
  BY <1>1, Rests DEF Pcs
<1>3. ActivityTyped'
  BY <1>1, <1>2 DEF ActivityTyped
<1>4. Counted'
  <2>1. CASE ~ cut'
    <3>1. \A b \in Actors : where[b].pc \in {"adding", "expiring"} =>
            where'[b] = where[b]
      BY <1>1, <1>2, <2>1
    <3>2. ~ cut' => ~ cut BY <1>1
    <3> QED BY <1>1, <3>1, <3>2, CountedStays
  <2>2. CASE cut' BY <2>2 DEF Counted
  <2> QED BY <2>1, <2>2
<1>5. Own'
  <2>1. Advances BY <1>1, SameNewest
  <2>2. \A u \in Users : newest'[u] >= last'[u] BY <1>1 DEF Own
  <2>3. queue' \in Seq(Reports) BY <1>1 DEF ActivityTyped
  <2>4. \A j \in 1 .. Len(queue') : queue'[j].ts \in 0 .. clock'
    BY <1>1 DEF Own
  <2> QED BY <1>1, <1>2, <2>1, <2>2, <2>3, <2>4, OwnStays
<1>6. Consumed'
  <2>1. Held' = {} BY <1>2 DEF Held, Writes, SetsOnline
  <2>2. \A u : InHand(u)' = {} BY <1>1 DEF InHand
  <2> QED BY <1>1, <1>2, <2>1, <2>2 DEF Consumed, SetsOnline
<1> QED BY <1>3, <1>4, <1>5, <1>6

LEMMA NextPasses ==
  ASSUME ActivityInv, Passes
  PROVE  ActivityInv'
<1> USE DEF ActivityInv
<1>1. /\ UNCHANGED <<acfg, where, queue, inHand, todo, last, newest, mislaid>>
      /\ clock' = clock + 1 /\ clock \in Nat
      /\ online' = [u \in Users |-> Less1(online[u])]
      /\ setLeft' = Less1(setLeft)
      /\ members' = IF setLeft = 1 THEN {} ELSE members
      /\ cut' = (cut \/ \E a \in Actors :
           where[a].pc \in {"adding", "expiring"})
      /\ online \in [Users -> Nat] /\ setLeft \in Nat \cup {Forever}
      /\ members \subseteq Users
  BY DEF Passes, ActivityTyped
<1>2. /\ online' \in [Users -> Nat] /\ setLeft' \in Nat \cup {Forever}
      /\ \A u \in Users : online'[u] <= online[u]
      /\ \A u \in Users : online'[u] > 0 => online'[u] = online[u] - 1
      /\ \A u \in Users : online'[u] \in Nat /\ online[u] \in Nat
      /\ setLeft > 0 => setLeft' = setLeft - 1
      /\ setLeft' = Forever => setLeft = Forever
  BY <1>1 DEF Less1, Forever
<1>3. Advances
  BY <1>1 DEF Advances, ActivityTyped, Times, Never
<1>4. ActivityTyped'
  BY <1>1, <1>2 DEF ActivityTyped
<1>5. Counted'
  <2> SUFFICES ASSUME ~ cut' PROVE Counted' BY DEF Counted
  <2>1. /\ ~ cut /\ ~ Expires /\ \A u \in Users : ~ Adds(u)
    BY <1>1 DEF Expires, Adds
  <2>2. /\ \A u \in Users : online[u] <= OnlineTTL
        /\ \A u \in Users : online[u] > 0 =>
             u \in members /\ setLeft >= online[u]
        /\ members = {} \/ setLeft # Forever
    BY <2>1 DEF Counted
  <2>3. \A u \in Users : online'[u] <= OnlineTTL
    BY <1>2, <2>2, ActivityAssumption
  <2>4. ASSUME NEW u \in Users, online'[u] > 0
        PROVE  u \in members' /\ setLeft' >= online'[u]
    <3>1. online[u] >= 2 /\ online'[u] = online[u] - 1 BY <1>2, <2>4
    <3>2. u \in members /\ setLeft >= online[u] /\ setLeft \in Int
      BY <1>1, <2>2, <3>1 DEF Forever
    <3>3. setLeft > 1 /\ setLeft' = setLeft - 1 BY <1>2, <3>1, <3>2
    <3> QED BY <1>1, <1>2, <3>1, <3>2, <3>3
  <2>5. members' # {} => setLeft' # Forever
    BY <1>1, <1>2, <2>2
  <2> QED BY <2>3, <2>4, <2>5 DEF Counted
<1>6. Own'
  <2>1. \A u \in Users : newest'[u] >= last'[u] BY <1>1 DEF Own
  <2>2. queue' \in Seq(Reports) BY <1>1 DEF ActivityTyped
  <2>3. \A j \in 1 .. Len(queue') : queue'[j].ts \in 0 .. clock'
    BY <1>1 DEF Own
  <2> QED BY <1>1, <1>3, <2>1, <2>2, <2>3, OwnStays
<1>7. Consumed'
  BY <1>1, <1>3, ConsumedStays
<1> QED BY <1>4, <1>5, <1>6, <1>7

LEMMA ActivityStutters ==
  ASSUME ActivityInv, UNCHANGED activityVars
  PROVE  ActivityInv'
BY DEF activityVars, ActivityInv, ActivityTyped, Counted, Adds, Expires, Own,
   OwnOf, Accounted, Consumed, Held, Writes, InHand

\* Every step of Next keeps the invariant.
LEMMA ActivityNextKeeps ==
  ASSUME ActivityInv, FanoutNext
  PROVE  ActivityInv'
<1>1. ASSUME ActivityNext PROVE ActivityInv'
  <2>1. ASSUME NEW v \in Visits, Visit(v) \/ Track(v) \/ SendEvent(v)
        PROVE  ActivityInv'
    BY <2>1, NextVisit, NextTrack, NextSend
  <2>2. ASSUME NEW a \in Actors, Store(a) PROVE ActivityInv'
    BY <2>2, NextSetLastActive, NextMark, NextAdd, NextExpireSet, NextBreak
       DEF Store, SetOnline
  <2>3. ASSUME Consume PROVE ActivityInv'
    BY <2>3, NextOne, NextBatch, NextOfBatch DEF Consume
  <2> QED BY <1>1, <2>1, <2>2, <2>3, NextDie, NextPasses DEF ActivityNext
<1>2. CASE UNCHANGED activityVars BY <1>2, ActivityStutters
<1> QED BY <1>1, <1>2 DEF FanoutNext

LEMMA ActivityStarts == FanoutInit => ActivityInv
<1> SUFFICES ASSUME FanoutInit PROVE ActivityInv OBVIOUS
<1>1. PICK used \in BOOLEAN : ActivityInit(used) BY DEF FanoutInit
<1>2. acfg \in ActivityConfigs
  BY <1>1 DEF ActivityInit
<1>3. /\ where \in [Actors -> [pc : Pcs, ev : Reports]]
      /\ \A a \in Actors : where[a].ev.ts = Never
      /\ \A a \in Actors : where[a].pc \in {"off", "idle", "new", "done"}
      /\ where[Reader].pc \in {"off", "idle"}
      /\ \A v \in Visits : where[v].pc \in {"off", "new", "done"}
  <2>1. where = [a \in Actors |-> Resting(IF ~used THEN "off"
                                       ELSE IF a = Reader THEN "idle"
                                       ELSE IF a \in acfg.visits THEN "new"
                                       ELSE "done")]
    BY <1>1 DEF ActivityInit
  <2>2. Reader \in Actors /\ \A v \in Visits : v \in Actors /\ v # Reader
    BY ActivityAssumption DEF Actors, Reader
  <2> QED BY <2>1, <2>2, Rests DEF Pcs
<1>4. /\ clock = 0 /\ queue = <<>> /\ inHand = 0 /\ todo = {}
      /\ last = [u \in Users |-> Never] /\ online = [u \in Users |-> 0]
      /\ members = {} /\ setLeft = 0
      /\ newest = last /\ cut = FALSE
  BY <1>1 DEF ActivityInit
<1>5. ActivityTyped
  <2>1. last \in [Users -> Times] /\ newest \in [Users -> Times]
    BY <1>4 DEF Times
  <2>2. queue \in Seq(Reports) /\ inHand \in 0 .. Len(queue) BY <1>4
  <2>3. todo \subseteq Reports /\ members \subseteq Users BY <1>4
  <2>4. setLeft \in Nat \cup {Forever} /\ cut \in BOOLEAN /\ clock \in Nat
    BY <1>4
  <2>5. online \in [Users -> Nat] BY <1>4
  <2> QED BY <1>2, <1>3, <2>1, <2>2, <2>3, <2>4, <2>5 DEF ActivityTyped
<1>6. Counted
  <2>1. \A u \in Users : online[u] = 0 BY <1>4
  <2> QED BY <1>4, <2>1, ActivityAssumption DEF Counted
<1>7. Own
  <2>1. \A u \in Users : newest[u] >= last[u] BY <1>4 DEF Never
  <2>2. ASSUME NEW v \in Visits PROVE OwnOf(v)
    BY <1>3, <1>4 DEF OwnOf, Actors, SetsOnline, Never
  <2> QED BY <1>4, <2>1, <2>2 DEF Own
<1>8. Consumed
  <2>1. Held = {} BY <1>3 DEF Held, Writes, SetsOnline
  <2> QED BY <1>3, <1>4, <2>1 DEF Consumed, SetsOnline
<1> QED BY <1>5, <1>6, <1>7, <1>8 DEF ActivityInv

LEMMA ActivityInvKeeps == FanoutSpec => []ActivityInv
<1>1. ActivityInv /\ [FanoutNext]_fanoutVars => ActivityInv'
  <2> SUFFICES ASSUME ActivityInv, [FanoutNext]_fanoutVars
               PROVE  ActivityInv'
    OBVIOUS
  <2>1. CASE FanoutNext BY <2>1, ActivityNextKeeps
  <2>2. CASE UNCHANGED fanoutVars BY <2>2, ActivityStutters DEF fanoutVars
  <2> QED BY <2>1, <2>2
<1> QED BY <1>1, ActivityStarts, PTL DEF FanoutSpec

\* Whoever's online key lives is in the set that is counted, or about to be
\* added to it, and the set has a time to live, as long as no write of the
\* store is cut short; and a visit that was dealt with is known to the store
\* or waits in the topic, unless a failure took it (activity/activity.go:
\* Track, consumer.go: HandleBatch, store_redis.go: SetOnline).
THEOREM ActivityIsKnown == FanoutSpec => []ActivityKnown
<1>1. ActivityInv => ActivityKnown
  <2> SUFFICES ASSUME ActivityInv PROVE ActivityKnown OBVIOUS
  <2> USE DEF ActivityInv
  <2>1. OnlineCounted
    BY DEF Counted, Expires, OnlineCounted
  <2>2. ASSUME NEW v \in Visits, DealtWith(v)
        PROVE  \/ v \in mislaid
               \/ newest[v.user] # Never
                  /\ \/ newest[v.user] >= where[v].ev.ts
                     \/ newest[v.user] > where[v].ev.ts - acfg.window
    <3>1. /\ where[v].pc = "done" /\ where[v].ev.by = v
          /\ where[v].ev.ts # Never
          /\ \A i \in 1 .. Len(queue) : queue[i].by # v
          /\ where[v].ev \in Reports /\ OwnOf(v) /\ v.user \in Users
      BY <2>2 DEF DealtWith, ActivityTyped, Actors, Own, Users
    <3>2. where[v].ev.user = v.user /\ where[v].ev.ts \in Nat
      BY <3>1 DEF Reports
    <3>3. newest[v.user] \in Times BY <3>1 DEF ActivityTyped
    <3>4. CASE Accounted(where[v].ev)
      BY <3>1, <3>2, <3>3, <3>4 DEF Accounted, Times, Never
    <3> QED BY <3>1, <3>4 DEF OwnOf
  <2> QED BY <2>1, <2>2 DEF ActivityKnown, Recorded
<1> QED BY <1>1, ActivityInvKeeps, PTL

-----------------------------------------------------------------------------
(* Log files.                                                              *)

\* The names of log files, and what is in a directory.
Name == [day : Nat, gz : BOOLEAN, hour : Nat \cup {Whole}]
File == [lines : SUBSET Nat, mtime : Nat]

LogTyped ==
  /\ lcfg \in LogConfigs
  /\ hour \in Nat /\ day \in Nat
  /\ DOMAIN files \subseteq Name /\ files \in [DOMAIN files -> File]
  /\ file \subseteq DOMAIN files /\ old \subseteq DOMAIN files
  /\ step \in {"off", "idle", "rotate", "clean", "open", "write"}
  /\ written \in Seq(Nat) /\ slid \subseteq Nat

Span == lcfg.keep * DayHours

\* A line of hour h belongs in file n.
Placed(n, h) ==
  IF n.hour = Whole
  THEN \/ h \div DayHours = n.day
       \/ Follows((n.day + 1) * DayHours - 1, DayBegins(h))
  ELSE LET k == n.day * DayHours + n.hour
       IN  \E start \in {k} \cup ({k + DayHours} \cap slid) :
             start <= h /\ Follows(start, h)

\* The day noted is the day of the last rotation, or an hour of a later one
\* began within the Write.
DayNoted ==
  /\ day <= Today
  /\ step \in {"clean", "open", "write"} =>
       Follows((day + 1) * DayHours - 1, hour)

\* What a file has to do with its name and its time of change.
Kept(n) ==
  /\ n.day <= day /\ (n.gz => n.day < day)
  /\ n.day * DayHours <= files[n].mtime /\ files[n].mtime <= hour
  /\ (n.hour = Whole <=> ~ lcfg.hourly)
  /\ ~ n.gz => Placed(n, files[n].mtime)
  /\ \A i \in files[n].lines :
       /\ i \in 1 .. Len(written) /\ Placed(n, written[i])
       /\ IF n.gz THEN written[i] + Span < files[n].mtime
          ELSE written[i] <= files[n].mtime
  /\ ~ n.gz /\ Zipped(n) \in DOMAIN files =>
       files[Zipped(n)].lines = {}

\* What is chosen for the clean-up.
Chosen(n) ==
  /\ lcfg.keep > 0 /\ n.day < day
  /\ files[n].mtime + Span < hour
  /\ n.gz /\ lcfg.compress => files[n].mtime + Span + DayHours < hour

LineKept(i) ==
    hour - written[i] <= KeptFor \/ lcfg.keep = 0 =>
      i \in lost \/ \E n \in DOMAIN files : i \in files[n].lines

\* A file is open only while no other is looked for, and has the day noted.
Open ==
  /\ \A n \in file : n.day = day /\ ~ n.gz /\ file = {n}
  /\ step \in {"clean", "open"} => file = {}
  /\ step = "write" => \E n \in file : file = {n} /\ Placed(n, hour)

Cleaning ==
  /\ old # {} => step = "clean"
  /\ \A n \in old : Chosen(n)

Directory ==
  /\ \A n \in DOMAIN files : Kept(n)
  /\ \A n \in DOMAIN files : n.gz => lcfg.compress /\ lcfg.keep > 0
  /\ \A i \in 1 .. Len(written) : written[i] <= hour /\ LineKept(i)

LogInv == LogTyped /\ DayNoted /\ Open /\ Cleaning /\ Directory

LEMMA DivMod ==
  ASSUME NEW h \in Nat
  PROVE  /\ h \div DayHours \in Nat /\ h % DayHours \in 0 .. DayHours - 1
         /\ h = (h \div DayHours) * DayHours + (h % DayHours)
  BY LogAssumption
LEMMA Grows ==
  ASSUME NEW a \in Nat, NEW b \in Nat, NEW d \in Nat, a <= b
  PROVE  a * d \in Nat /\ b * d \in Nat /\ a * d <= b * d
  OBVIOUS
LEMMA Succ ==
  ASSUME NEW a \in Nat, NEW d \in Nat
  PROVE  (a + 1) * d = a * d + d
  OBVIOUS
LEMMA DayOf ==
  ASSUME NEW a \in Nat, NEW h \in Nat
  PROVE  a <= h \div DayHours <=> a * DayHours <= h
<1> DEFINE q == h \div DayHours
           r == h % DayHours
<1>1. q \in Nat /\ r \in 0 .. DayHours - 1 /\ h = q * DayHours + r
      /\ DayHours \in Nat \ {0}
  BY DivMod, LogAssumption
<1> HIDE DEF q, r
<1>2. CASE a <= q
  <2>1. a * DayHours <= q * DayHours /\ a * DayHours \in Nat
        /\ q * DayHours \in Nat
    BY <1>1, <1>2, Grows
  <2> QED BY <1>1, <1>2, <2>1 DEF q
<1>3. CASE q + 1 <= a
  <2>1. /\ (q + 1) * DayHours <= a * DayHours
        /\ (q + 1) * DayHours = q * DayHours + DayHours
        /\ q * DayHours \in Nat /\ a * DayHours \in Nat
    BY <1>1, <1>3, Grows, Succ
  <2> QED BY <1>1, <1>3, <2>1 DEF q
<1> QED BY <1>1, <1>2, <1>3

\* Nothing that was in its place loses it when an hour begins.
LEMMA PlacedStays ==
  ASSUME LogTyped, slid \subseteq slid', NEW n \in Name, NEW h \in Nat,
         Placed(n, h)
  PROVE  Placed(n, h)'
BY DEF Placed, Follows, DayBegins

\* Where a file that BuildFilename names is opened, lines of this hour belong.
LEMMA OpensInPlace ==
  ASSUME LogTyped, DayNoted, step = "open"
  PROVE  /\ BuildFilename \in Name /\ BuildFilename.day = day
         /\ ~ BuildFilename.gz /\ (BuildFilename.hour = Whole <=> ~ lcfg.hourly)
         /\ Placed(BuildFilename, hour)
<1> DEFINE n == BuildFilename
           q == hour \div DayHours
           r == hour % DayHours
<1>1. /\ q \in Nat /\ r \in Nat /\ hour = q * DayHours + r /\ r < DayHours
      /\ hour \in Nat /\ day \in Nat /\ DayHours \in Nat \ {0}
      /\ lcfg.hourly \in BOOLEAN
  BY DivMod, LogAssumption DEF LogTyped
<1>2. /\ n \in Name /\ n.day = day /\ ~ n.gz
      /\ (n.hour = Whole <=> ~ lcfg.hourly)
      /\ n.hour = IF lcfg.hourly THEN r ELSE Whole
  BY <1>1 DEF BuildFilename, Name, Whole
<1>3. day <= q /\ Follows((day + 1) * DayHours - 1, hour)
  BY DEF DayNoted, Today
<1>4. (day + 1) * DayHours = day * DayHours + DayHours /\ day * DayHours \in Nat
  BY <1>1, Succ
<1> HIDE DEF n, q, r
<1>5. CASE n.hour = Whole
  <2>1. DayBegins(hour) <= hour /\ DayBegins(hour) \in Nat
    BY <1>1 DEF DayBegins, q
  <2>2. Follows((day + 1) * DayHours - 1, DayBegins(hour))
    BY <1>1, <1>3, <1>4, <2>1 DEF Follows
  <2> QED BY <1>2, <1>5, <2>2 DEF Placed, n
<1>6. CASE n.hour # Whole
  <2>1. n.hour = r BY <1>2, <1>6
  <2> DEFINE k == day * DayHours + r
  <2>2. CASE day = q
    <3>1. k = hour BY <1>1, <2>2
    <3>2. Follows(k, hour) BY <1>1, <3>1 DEF Follows
    <3>3. \E start \in {k} \cup ({k + DayHours} \cap slid) :
            start <= hour /\ Follows(start, hour)
      BY <1>1, <3>1, <3>2
    <3> QED BY <1>2, <1>6, <2>1, <3>3 DEF Placed, n
  <2>3. CASE day + 1 <= q
    <3>1. (day + 1) * DayHours <= q * DayHours /\ q * DayHours \in Nat
      BY <1>1, <2>3, Grows
    <3>2. k \in Nat /\ k + DayHours <= hour
          /\ k + DayHours > (day + 1) * DayHours - 1
      BY <1>1, <1>4, <3>1
    <3>3. k + DayHours \in slid /\ Follows(k + DayHours, hour)
      BY <1>1, <1>3, <1>4, <3>2 DEF Follows
    <3>4. \E start \in {k} \cup ({k + DayHours} \cap slid) :
            start <= hour /\ Follows(start, hour)
      BY <3>2, <3>3
    <3> QED BY <1>2, <1>6, <2>1, <3>4 DEF Placed, n
  <2> QED BY <1>1, <1>3, <2>2, <2>3
<1> QED BY <1>2, <1>5, <1>6 DEF n

\* The clock goes on, the directory may get lines and lose none.
Onwards ==
  /\ lcfg' = lcfg /\ hour' \in Nat /\ hour <= hour' /\ day' \in Nat
  /\ day <= day'
  /\ slid \subseteq slid' /\ lost \subseteq lost'
  /\ written' \in Seq(Nat) /\ Len(written) <= Len(written')
  /\ \A i \in 1 .. Len(written) : written'[i] = written[i]

LEMMA KeptStays ==
  ASSUME LogTyped, Onwards, NEW n \in DOMAIN files, Kept(n),
         n \in DOMAIN files', files'[n] = files[n],
         ~ n.gz /\ Zipped(n) \in DOMAIN files' =>
           files'[Zipped(n)].lines = {}
  PROVE  Kept(n)'
<1>1. /\ n \in Name /\ files[n] \in File /\ hour \in Nat /\ day \in Nat
      /\ written \in Seq(Nat) /\ Len(written) \in Nat /\ Len(written') \in Nat
      /\ n.day \in Nat /\ files[n].mtime \in Nat
  BY DEF LogTyped, Name, File, Onwards
<1>2. /\ n.day <= day' /\ (n.gz => n.day < day')
      /\ n.day * DayHours <= files'[n].mtime /\ files'[n].mtime <= hour'
      /\ (n.hour = Whole <=> ~ lcfg'.hourly)
  BY <1>1 DEF Kept, Onwards
<1>3. ~ n.gz => Placed(n, files[n].mtime)'
  BY <1>1, PlacedStays DEF Kept, Onwards
<1>4. ASSUME NEW i \in files'[n].lines
      PROVE  /\ i \in 1 .. Len(written') /\ Placed(n, written[i])'
             /\ IF n.gz THEN written'[i] + Span' < files'[n].mtime
                ELSE written'[i] <= files'[n].mtime
  <2>1. /\ i \in 1 .. Len(written) /\ Placed(n, written[i])
        /\ IF n.gz THEN written[i] + Span < files[n].mtime
           ELSE written[i] <= files[n].mtime
    BY DEF Kept
  <2>2. written[i] \in Nat /\ written'[i] = written[i] /\ Span' = Span
    BY <1>1, <2>1 DEF Onwards, Span
  <2>3. Placed(n, written[i])' BY <1>1, <2>1, <2>2, PlacedStays DEF Onwards
  <2> QED BY <1>1, <2>1, <2>2, <2>3 DEF Onwards
<1> QED BY <1>2, <1>3, <1>4 DEF Kept

LEMMA LineStays ==
  ASSUME LogTyped, Onwards, NEW i \in 1 .. Len(written), written[i] <= hour,
         LineKept(i),
         \A n \in DOMAIN files : i \in files[n].lines =>
           \/ i \in lost'
           \/ \E m \in DOMAIN files' : i \in files'[m].lines
           \/ hour - written[i] > KeptFor /\ lcfg.keep # 0
  PROVE  written'[i] <= hour' /\ LineKept(i)'
<1>1. /\ written[i] \in Nat /\ written'[i] = written[i] /\ hour \in Nat
      /\ KeptFor' = KeptFor /\ lcfg' = lcfg
  BY DEF LogTyped, Onwards, KeptFor
<1>2. KeptFor \in Int
  BY LogAssumption DEF LogTyped, KeptFor
<1> QED BY <1>1, <1>2 DEF LineKept, Onwards

LEMMA DirectoryStays ==
  ASSUME LogTyped, Onwards, Directory, files' = files, written' = written
  PROVE  Directory'
<1>1. \A n \in DOMAIN files : Kept(n)'
  BY KeptStays DEF Directory, Kept
<1>2. \A i \in 1 .. Len(written) : written'[i] <= hour' /\ LineKept(i)'
  BY LineStays DEF Directory
<1> QED BY <1>1, <1>2 DEF Directory, Onwards


\* What a day's beginning says of the hours of the day.
LEMMA FreshDay ==
  ASSUME LogTyped
  PROVE  Today \in Nat /\ Follows((Today + 1) * DayHours - 1, hour)
<1>1. hour \in Nat /\ Today \in Nat /\ Today + 1 \in Nat
      /\ DayHours \in Nat
  BY DivMod, LogAssumption DEF LogTyped, Today
<1>2. ~ (Today + 1 <= hour \div DayHours) BY <1>1 DEF Today
<1>3. ~ ((Today + 1) * DayHours <= hour) BY <1>1, <1>2, DayOf
<1>4. (Today + 1) * DayHours \in Nat BY <1>1, Grows
<1>5. (Today + 1) * DayHours - 1 + 1 > hour BY <1>1, <1>3, <1>4
<1> QED BY <1>1, <1>4, <1>5 DEF Follows

LEMMA NextBegin == LogInv /\ BeginWrite => LogInv'
<1> SUFFICES ASSUME LogInv, BeginWrite PROVE LogInv'
  OBVIOUS
<1> USE DEF LogInv
<1>1. LogTyped' BY DEF LogTyped, BeginWrite
<1>2. DayNoted'
  <2>1. CASE ShouldRotate BY <2>1 DEF DayNoted, BeginWrite, Today
  <2>2. CASE ~ ShouldRotate
    <3>1. day = Today BY <2>2 DEF ShouldRotate
    <3> QED BY <3>1, FreshDay DEF DayNoted, BeginWrite, Today, Follows
  <2> QED BY <2>1, <2>2
<1>3. Open'
  <2>0. file' = file /\ day' = day
        /\ \A n \in file : n.day = day /\ ~ n.gz /\ file = {n}
    BY DEF Open, BeginWrite
  <2>1. CASE ShouldRotate
    <3>1. step' = "rotate" BY <2>1 DEF BeginWrite
    <3> QED BY <2>0, <3>1 DEF Open
  <2>2. CASE file = {} /\ ~ ShouldRotate
    <3>1. step' = "open" BY <2>2 DEF BeginWrite
    <3> QED BY <2>0, <2>2, <3>1 DEF Open
  <2>3. CASE ~ ShouldRotate /\ file # {}
    <3>1. PICK f \in file : TRUE BY <2>3
    <3>2. /\ file = {f} /\ f.day = day /\ ~ f.gz /\ Kept(f)
          /\ f \in DOMAIN files /\ lcfg.hourly \in BOOLEAN
      BY <3>1, LogAssumption DEF Open, LogTyped, Directory
    <3>3. ASSUME f.hour = Whole PROVE Placed(f, hour)
      <4>1. day = hour \div DayHours BY <2>3 DEF ShouldRotate, Today
      <4> QED BY <3>2, <3>3, <4>1 DEF Placed
    <3>4. ASSUME f.hour # Whole PROVE Placed(f, hour)
      <4>1. lcfg.hourly BY <3>2, <3>4 DEF Kept
      <4>2. files[f].mtime = hour BY <2>3, <3>1, <4>1 DEF ShouldRotate
      <4> QED BY <3>2, <4>2 DEF Kept
    <3>5. Placed(f, hour) BY <3>3, <3>4
    <3>6. Placed(f, hour)'
      BY <3>5 DEF BeginWrite, Placed, Follows, DayBegins
    <3> QED BY <2>3, <3>2, <3>6 DEF Open, BeginWrite
  <2> QED BY <2>1, <2>2, <2>3
<1>4. Cleaning'
  <2>1. old = {} /\ old' = {} BY DEF Cleaning, BeginWrite
  <2> QED BY <2>1 DEF Cleaning
<1>5. Directory' BY DirectoryStays DEF LogTyped, BeginWrite, Onwards
<1> QED BY <1>1, <1>2, <1>3, <1>4, <1>5

LEMMA NextRotate == LogInv /\ Rotate => LogInv'
<1> SUFFICES ASSUME LogInv, Rotate PROVE LogInv'
  OBVIOUS
<1> USE DEF LogInv
<1>1. Today \in Nat /\ Today' = Today /\ day <= Today /\ day' = Today
  BY FreshDay DEF Rotate, Today, DayNoted
<1>2. LogTyped' BY <1>1 DEF LogTyped, Rotate, TooOld
<1>3. DayNoted'
  BY <1>1, FreshDay DEF DayNoted, Rotate, Follows
<1>4. Open' BY DEF Open, Rotate
<1>5. ASSUME NEW n \in old' PROVE Chosen(n)'
  <2>1. /\ n \in DOMAIN files /\ n.day \in Nat /\ files[n].mtime \in Nat
        /\ hour \in Nat /\ DayHours \in Nat \ {0} /\ lcfg.keep \in Nat
        /\ n.day * DayHours <= files[n].mtime
    BY LogAssumption
       DEF Rotate, TooOld, LogTyped, Name, File, Directory, Kept
  <2>2. /\ lcfg.keep > 0 /\ files[n].mtime < hour - lcfg.keep * DayHours
        /\ n.gz /\ lcfg.compress =>
             files[n].mtime < (hour - lcfg.keep * DayHours) - DayHours
    BY DEF Rotate, TooOld
  <2>3. 1 * DayHours <= lcfg.keep * DayHours /\ lcfg.keep * DayHours \in Nat
    BY <2>1, <2>2, Grows
  <2>4. (n.day + 1) * DayHours = n.day * DayHours + DayHours
        /\ n.day * DayHours \in Nat
    BY <2>1, Succ, Grows
  <2>5. (n.day + 1) * DayHours <= hour BY <2>1, <2>2, <2>3, <2>4
  <2>6. n.day + 1 <= Today BY <2>1, <2>5, DayOf DEF Today
  <2>7. n.day < day' BY <1>1, <2>1, <2>6
  <2>8. files[n].mtime + Span < hour
        /\ (n.gz /\ lcfg.compress =>
              files[n].mtime + Span + DayHours < hour)
    BY <2>1, <2>2, <2>3 DEF Span
  <2> QED BY <2>2, <2>7, <2>8 DEF Chosen, Rotate, Span
<1>6. Cleaning' BY <1>5 DEF Cleaning, Rotate
<1>7. Directory' BY <1>1, DirectoryStays DEF LogTyped, Rotate, Onwards
<1> QED BY <1>2, <1>3, <1>4, <1>6, <1>7

\* A file that is chosen has no line that must still be kept, once a copy of
\* it is in the place of the lines that are not compressed yet.
LEMMA TooOldToKeep ==
  ASSUME LogInv, NEW n \in old, ~ (lcfg.compress /\ ~ n.gz),
         NEW i \in files[n].lines
  PROVE  hour - written[i] > KeptFor /\ lcfg.keep # 0
<1>1. /\ n \in DOMAIN files /\ Kept(n) /\ Chosen(n)
      /\ n.gz => lcfg.compress
  BY DEF LogInv, LogTyped, Directory, Cleaning
<1>2. /\ files[n].mtime \in Nat /\ hour \in Nat /\ lcfg.keep \in Nat
      /\ DayHours \in Nat /\ written[i] \in Nat /\ n.gz \in BOOLEAN
  BY <1>1, LogAssumption DEF LogInv, LogTyped, Name, File, Kept
<1>3. (lcfg.keep + 1) * DayHours = lcfg.keep * DayHours + DayHours
      /\ lcfg.keep * DayHours \in Nat
  BY <1>2, Succ, Grows
<1>4. CASE n.gz
  <2>1. /\ files[n].mtime + Span + DayHours < hour
        /\ written[i] + Span < files[n].mtime
        /\ KeptFor = Span + (lcfg.keep + 1) * DayHours
    BY <1>1, <1>4 DEF Kept, Chosen, KeptFor, Span
  <2> QED BY <1>1, <1>2, <1>3, <2>1 DEF Span, Chosen
<1>5. CASE ~ n.gz
  <2>1. /\ files[n].mtime + Span < hour /\ written[i] <= files[n].mtime
        /\ KeptFor = Span + 0
    BY <1>1, <1>5 DEF Kept, Chosen, KeptFor, Span
  <2> QED BY <1>1, <1>2, <1>3, <2>1 DEF Span, Chosen
<1> QED BY <1>4, <1>5

LEMMA NextRemove ==
  ASSUME LogInv, NEW n \in DOMAIN files, RemoveFile(n)
  PROVE  LogInv'
<1> USE DEF LogInv
<1>1. /\ DOMAIN files' = DOMAIN files \ {n}
      /\ \A m \in DOMAIN files \ {n} : files'[m] = files[m]
      /\ files' = [m \in DOMAIN files \ {n} |-> files[m]]
  BY DEF RemoveFile, Without, Restrict
<1>2. LogTyped'
  <2>1. files' \in [DOMAIN files' -> File] BY <1>1 DEF LogTyped
  <2> QED BY <1>1, <2>1 DEF LogTyped, RemoveFile, Open
<1>3. DayNoted' BY DEF DayNoted, RemoveFile, Today, Follows
<1>4. Open' BY DEF Open, RemoveFile
<1>5. Cleaning'
  BY <1>1 DEF Cleaning, RemoveFile, Chosen, Span, LogTyped
<1>6. Onwards BY DEF Onwards, RemoveFile, LogTyped
<1>7. \A m \in DOMAIN files' : Kept(m)'
  <2> TAKE m \in DOMAIN files'
  <2>1. /\ m \in DOMAIN files /\ Kept(m) /\ files'[m] = files[m]
        /\ Zipped(m) \in DOMAIN files' =>
             Zipped(m) \in DOMAIN files
             /\ files'[Zipped(m)] = files[Zipped(m)]
    BY <1>1 DEF Directory
  <2>2. ~ m.gz /\ Zipped(m) \in DOMAIN files' =>
          files'[Zipped(m)].lines = {}
    BY <2>1 DEF Kept
  <2> QED BY <1>6, <2>1, <2>2, KeptStays
<1>8. \A i \in 1 .. Len(written) : written'[i] <= hour' /\ LineKept(i)'
  <2> TAKE i \in 1 .. Len(written)
  <2>1. ASSUME NEW m \in DOMAIN files, i \in files[m].lines
        PROVE  \/ \E k \in DOMAIN files' : i \in files'[k].lines
               \/ hour - written[i] > KeptFor /\ lcfg.keep # 0
    <3>1. CASE m = n
      BY <2>1, <3>1, TooOldToKeep DEF RemoveFile
    <3>2. CASE m # n BY <1>1, <2>1, <3>2
    <3> QED BY <3>1, <3>2
  <2> QED BY <1>6, <2>1, LineStays DEF Directory
<1>9. Directory' BY <1>1, <1>7, <1>8 DEF Directory, RemoveFile
<1> QED BY <1>2, <1>3, <1>4, <1>5, <1>9

LEMMA ZippedName ==
  ASSUME NEW n \in Name
  PROVE  /\ Zipped(n) \in Name /\ Zipped(n).gz /\ Zipped(n).day = n.day
         /\ Zipped(n).hour = n.hour
         /\ \A m \in Name : ~ m.gz /\ ~ n.gz /\ Zipped(m) = Zipped(n) => m = n
         /\ ~ n.gz => Zipped(n) # n
<1>1. Zipped(n) \in Name /\ Zipped(n).gz /\ Zipped(n).day = n.day
      /\ Zipped(n).hour = n.hour
  BY DEF Zipped, Name
<1>2. \A m \in Name : ~ m.gz /\ ~ n.gz /\ Zipped(m) = Zipped(n) => m = n
  <2> SUFFICES ASSUME NEW m \in Name, ~ m.gz, ~ n.gz,
                      Zipped(m) = Zipped(n)
               PROVE  m = n
    OBVIOUS
  <2>1. m.day = Zipped(m).day /\ m.hour = Zipped(m).hour
    BY DEF Zipped, Name
  <2>2. m.gz = FALSE /\ n.gz = FALSE BY DEF Name
  <2>3. m.day = n.day /\ m.hour = n.hour BY <1>1, <2>1
  <2> QED BY <2>2, <2>3 DEF Name
<1> QED BY <1>1, <1>2

LEMMA NextCompress ==
  ASSUME LogInv, NEW n \in DOMAIN files, CompressFile(n)
  PROVE  LogInv'
<1> DEFINE z == Zipped(n)
           keepAll == files' = Without(n, Holding(z, files[n].lines))
                      /\ UNCHANGED lost
           cut3 == files' = Without(n, Holding(z, {}))
                   /\ lost' = lost \cup files[n].lines
           fail == files' = Without(z, files) /\ UNCHANGED lost
<1> USE DEF LogInv
<1>1. /\ n \in old /\ ~ n.gz /\ n \in Name /\ Kept(n) /\ Chosen(n)
      /\ old \subseteq DOMAIN files /\ DOMAIN files \subseteq Name
      /\ files[n] \in File
      /\ step = "clean" /\ step' = "clean" /\ lcfg.compress
      /\ lcfg.keep > 0 /\ file = {} /\ file' = {}
      /\ old' = old \ {n, z} /\ UNCHANGED <<lcfg, hour, day, written, slid>>
  BY DEF CompressFile, LogTyped, Directory, Cleaning, Chosen, Open
<1>2. /\ z \in Name /\ z.gz /\ z.day = n.day /\ z.hour = n.hour /\ z # n
      /\ \A m \in Name : ~ m.gz /\ Zipped(m) = z => m = n
  BY <1>1, ZippedName
<1>3. /\ hour \in Nat /\ day \in Nat /\ written \in Seq(Nat)
      /\ n.day \in Nat /\ files[n].mtime \in Nat /\ files[n].lines \subseteq Nat
      /\ DayHours \in Nat /\ lcfg.keep \in Nat /\ Span \in Nat
  BY <1>1, LogAssumption DEF LogTyped, Name, File, Span
<1>4. keepAll \/ cut3 \/ fail
  BY DEF CompressFile
<1>5. z \in DOMAIN files => files[z].lines = {}
  BY <1>1, <1>2 DEF Kept
<1> HIDE DEF z
<1>6. keepAll \/ cut3 =>
        /\ DOMAIN files' = (DOMAIN files \cup {z}) \ {n}
        /\ \A m \in DOMAIN files \ {n, z} : files'[m] = files[m]
        /\ files'[z] = [lines |-> IF keepAll THEN files[n].lines ELSE {},
                        mtime |-> hour]
  BY <1>1, <1>2 DEF Without, Restrict, Holding
<1>7. fail => /\ DOMAIN files' = DOMAIN files \ {z}
              /\ \A m \in DOMAIN files \ {z} : files'[m] = files[m]
  BY DEF Without, Restrict
<1>8. \A m \in DOMAIN files' :
        IF m = z THEN keepAll \/ cut3
        ELSE m \in DOMAIN files /\ files'[m] = files[m]
  BY <1>4, <1>6, <1>7
<1>9. files' = [m \in DOMAIN files' |-> files'[m]]
  BY <1>4 DEF Without, Restrict
<1> HIDE DEF keepAll, cut3, fail
<1>10. /\ n \in DOMAIN files' => fail
       /\ DOMAIN files \ {n, z} \subseteq DOMAIN files'
       /\ DOMAIN files' \subseteq DOMAIN files \cup {z}
       /\ lost \subseteq lost'
  BY <1>2, <1>4, <1>6, <1>7 DEF keepAll, cut3, fail
<1>11. files' \in [DOMAIN files' -> File]
  <2>1. \A m \in DOMAIN files' : files'[m] \in File
    <3> TAKE m \in DOMAIN files'
    <3>1. CASE m = z BY <1>3, <1>6, <1>8, <3>1 DEF File
    <3>2. CASE m # z BY <1>8, <3>2 DEF LogTyped
    <3> QED BY <3>1, <3>2
  <2> QED BY <1>9, <2>1
<1>12. LogTyped'
  BY <1>1, <1>2, <1>10, <1>11 DEF LogTyped
<1>13. DayNoted' BY <1>1 DEF DayNoted, Today, Follows
<1>14. Open' BY <1>1 DEF Open
<1>15. Cleaning'
  <2>1. \A m \in old' : Chosen(m) /\ files'[m] = files[m]
    BY <1>1, <1>8, <1>10 DEF Cleaning
  <2> QED BY <1>1, <2>1 DEF Cleaning, Chosen, Span
<1>16. Onwards BY <1>1, <1>3, <1>10 DEF Onwards, LogTyped
<1>17. z \in DOMAIN files' => Kept(z)'
  <2> SUFFICES ASSUME z \in DOMAIN files' PROVE Kept(z)'
    OBVIOUS
  <2>1. keepAll \/ cut3 BY <1>8
  <2>2. /\ files'[z].mtime = hour
        /\ files'[z].lines \subseteq files[n].lines
    BY <1>6, <2>1
  <2>3. z.day <= day' /\ z.day < day' /\ z.day * DayHours <= hour
        /\ (z.hour = Whole <=> ~ lcfg'.hourly)
    <3>1. n.day * DayHours <= files[n].mtime
          /\ files[n].mtime <= hour /\ n.day * DayHours \in Nat
      BY <1>1, <1>3, Grows DEF Kept
    <3> QED BY <1>1, <1>2, <1>3, <3>1 DEF Kept, Chosen
  <2>4. ASSUME NEW i \in files'[z].lines
        PROVE  /\ i \in 1 .. Len(written') /\ Placed(z, written[i])'
               /\ written'[i] + Span' < files'[z].mtime
    <3>1. /\ i \in 1 .. Len(written) /\ Placed(n, written[i])
          /\ written[i] <= files[n].mtime
      BY <1>1, <2>2 DEF Kept
    <3>2. Placed(n, written[i])'
      BY <1>1 , <3>1 DEF Placed, Follows, DayBegins
    <3>3. Placed(z, written[i])' BY <1>2, <3>2 DEF Placed
    <3>4. written[i] \in Nat BY <1>3, <3>1
    <3>5. files[n].mtime + Span < hour BY <1>1 DEF Chosen
    <3>6. written[i] + Span < hour BY <1>3, <3>1, <3>4, <3>5
    <3>7. Span' = Span /\ written' = written BY <1>1 DEF Span
    <3> QED BY <2>2, <3>1, <3>3, <3>6, <3>7
  <2> QED BY <1>1, <1>2, <1>3, <2>2, <2>3, <2>4 DEF Kept
<1>18. ASSUME NEW m \in DOMAIN files', m # z
       PROVE  Kept(m)'
  <2>1. m \in DOMAIN files /\ Kept(m) /\ files'[m] = files[m]
    BY <1>8, <1>18 DEF Directory
  <2>2. ASSUME ~ m.gz, Zipped(m) \in DOMAIN files'
        PROVE  files'[Zipped(m)].lines = {}
    <3>1. CASE Zipped(m) = z
      <4>1. m = n BY <1>1, <1>2, <2>1, <2>2, <3>1
      <4>2. fail BY <1>10, <4>1
      <4> QED BY <1>7, <2>2, <3>1, <4>2
    <3>2. CASE Zipped(m) # z
      <4>1. Zipped(m) \in DOMAIN files
            /\ files'[Zipped(m)] = files[Zipped(m)]
        BY <1>8, <2>2, <3>2
      <4> QED BY <2>1, <2>2, <4>1 DEF Kept
    <3> QED BY <3>1, <3>2
  <2> QED BY <1>16, <2>1, <2>2, KeptStays
<1>19. \A i \in 1 .. Len(written) : written'[i] <= hour' /\ LineKept(i)'
  <2> TAKE i \in 1 .. Len(written)
  <2>1. ASSUME NEW m \in DOMAIN files, i \in files[m].lines
        PROVE  \/ i \in lost'
               \/ \E k \in DOMAIN files' : i \in files'[k].lines
    <3>1. m # z BY <1>5, <2>1
    <3>2. CASE m # n
      <4>1. m \in DOMAIN files' /\ files'[m] = files[m]
        BY <1>8, <1>10, <3>1, <3>2
      <4> QED BY <2>1, <4>1
    <3>3. CASE m = n
      <4>1. CASE keepAll BY <1>6, <2>1, <3>3, <1>2, <4>1
      <4>2. CASE cut3 BY <2>1, <3>3, <4>2 DEF cut3
      <4>3. CASE fail BY <1>2, <1>7, <2>1, <3>3, <4>3
      <4> QED BY <1>4, <4>1, <4>2, <4>3
    <3> QED BY <3>2, <3>3
  <2> QED BY <1>16, <2>1, LineStays DEF Directory
<1>20. \A m \in DOMAIN files' : m.gz => lcfg'.compress /\ lcfg'.keep > 0
  BY <1>1
<1>21. Directory' BY <1>1, <1>17, <1>18, <1>19, <1>20 DEF Directory
<1> QED BY <1>12, <1>13, <1>14, <1>15, <1>21

LEMMA NextCleaned == LogInv /\ Cleaned => LogInv'
<1> SUFFICES ASSUME LogInv, Cleaned PROVE LogInv'
  OBVIOUS
<1> USE DEF LogInv
<1>1. LogTyped' BY DEF LogTyped, Cleaned
<1>2. DayNoted' BY DEF DayNoted, Cleaned, Today, Follows
<1>3. Open' BY DEF Open, Cleaned
<1>4. Cleaning' BY DEF Cleaning, Cleaned
<1>5. Directory' BY DirectoryStays DEF LogTyped, Cleaned, Onwards
<1> QED BY <1>1, <1>2, <1>3, <1>4, <1>5

LEMMA NextOpen == LogInv /\ OpenFile => LogInv'
<1> SUFFICES ASSUME LogInv, OpenFile PROVE LogInv'
  OBVIOUS
<1> USE DEF LogInv
<1>1. PICK b \in Name :
        /\ b = BuildFilename /\ b.day = day /\ ~ b.gz
        /\ (b.hour = Whole <=> ~ lcfg.hourly) /\ Placed(b, hour)
  BY OpensInPlace DEF OpenFile
<1>2. /\ step = "open" /\ file = {} /\ old = {} /\ old' = {}
      /\ UNCHANGED <<lcfg, hour, day, written, slid, lost>>
      /\ hour \in Nat /\ day \in Nat /\ written \in Seq(Nat)
  BY DEF OpenFile, Open, Cleaning, LogTyped
<1>3. CASE UNCHANGED <<file, files>> /\ step' = "idle"
  <2>1. LogTyped' BY <1>2, <1>3 DEF LogTyped
  <2>2. DayNoted' BY <1>2, <1>3 DEF DayNoted, Today
  <2>3. Open' BY <1>2, <1>3 DEF Open
  <2>4. Cleaning' BY <1>2 DEF Cleaning
  <2>5. Directory' BY <1>2, <1>3, DirectoryStays DEF LogTyped, Onwards
  <2> QED BY <2>1, <2>2, <2>3, <2>4, <2>5
<1>4. CASE /\ step' = "write" /\ file' = {b}
           /\ files' = IF b \in DOMAIN files THEN files ELSE Holding(b, {})
  <2>1. DayNoted' BY <1>2, <1>4 DEF DayNoted, Today, Follows
  <2>2. Cleaning' BY <1>2 DEF Cleaning
  <2>3. Placed(b, hour)'
    BY <1>1, <1>2 DEF Placed, Follows, DayBegins
  <2>4. Open' BY <1>1, <1>2, <1>4, <2>3 DEF Open
  <2>5. CASE b \in DOMAIN files
    <3>1. files' = files BY <1>4, <2>5
    <3>2. LogTyped' BY <1>2, <1>4, <2>5, <3>1 DEF LogTyped
    <3>3. Directory' BY <1>2, <3>1, DirectoryStays DEF LogTyped, Onwards
    <3> QED BY <2>1, <2>2, <2>4, <3>2, <3>3
  <2>6. CASE b \notin DOMAIN files
    <3>1. /\ DOMAIN files' = DOMAIN files \cup {b}
          /\ \A m \in DOMAIN files : files'[m] = files[m]
          /\ files'[b] = [lines |-> {}, mtime |-> hour]
          /\ files' = [m \in DOMAIN files' |-> files'[m]]
      BY <1>4, <2>6 DEF Holding
    <3>2. files' \in [DOMAIN files' -> File]
      BY <1>2, <3>1 DEF LogTyped, File
    <3>3. LogTyped' BY <1>1, <1>2, <1>4, <3>1, <3>2 DEF LogTyped
    <3>4. Onwards BY <1>2 DEF Onwards, LogTyped
    <3>5. Kept(b)'
      <4>1. Zipped(b) \notin DOMAIN files'
        <5>1. Zipped(b).gz /\ Zipped(b).day = day /\ Zipped(b) # b
          BY <1>1, ZippedName
        <5>2. \A m \in DOMAIN files : m.gz => m.day < day
          BY DEF Directory, Kept
        <5> QED BY <1>2, <3>1, <5>1, <5>2
      <4>2. day * DayHours <= hour
        BY <1>2, DayOf DEF DayNoted, Today
      <4> QED BY <1>1, <1>2, <2>3, <3>1, <4>1, <4>2 DEF Kept
    <3>6. ASSUME NEW m \in DOMAIN files, m # b PROVE Kept(m)'
      <4>1. ASSUME ~ m.gz, Zipped(m) \in DOMAIN files'
            PROVE  files'[Zipped(m)].lines = {}
        BY <3>1, <4>1 DEF Directory, Kept
      <4> QED BY <3>1, <3>4, <4>1, KeptStays DEF Directory
    <3>7. \A i \in 1 .. Len(written) : written'[i] <= hour' /\ LineKept(i)'
      BY <3>1, <3>4, LineStays DEF Directory
    <3>8. Directory'
      BY <1>1, <1>2, <3>1, <3>5, <3>6, <3>7 DEF Directory
    <3> QED BY <2>1, <2>2, <2>4, <3>3, <3>8
  <2> QED BY <2>5, <2>6
<1> QED BY <1>1, <1>3, <1>4 DEF OpenFile

LEMMA NextWrite == LogInv /\ WriteLine => LogInv'
<1> SUFFICES ASSUME LogInv, WriteLine PROVE LogInv'
  OBVIOUS
<1> USE DEF LogInv
<1>1. PICK f \in file :
        files' = Holding(f, files[f].lines \cup {Len(written) + 1})
  BY DEF WriteLine
<1> DEFINE k == Len(written) + 1
<1>2. /\ file = {f} /\ f \in DOMAIN files /\ f \in Name /\ Kept(f)
      /\ files[f] \in File /\ Placed(f, hour) /\ f.day = day /\ ~ f.gz
      /\ step' = "idle" /\ old = {} /\ old' = {}
      /\ written' = Append(written, hour)
      /\ UNCHANGED <<lcfg, hour, day, file, slid, lost>>
      /\ hour \in Nat /\ day \in Nat /\ written \in Seq(Nat)
  BY <1>1 DEF WriteLine, Open, Cleaning, LogTyped, Directory
<1>3. /\ k \in Nat /\ Len(written') = k /\ written'[k] = hour
      /\ \A i \in 1 .. Len(written) : written'[i] = written[i]
      /\ written' \in Seq(Nat) /\ Len(written) \in Nat
  BY <1>2
<1> HIDE DEF k
<1>4. /\ DOMAIN files' = DOMAIN files
      /\ \A m \in DOMAIN files \ {f} : files'[m] = files[m]
      /\ files'[f] = [lines |-> files[f].lines \cup {k}, mtime |-> hour]
      /\ files' = [m \in DOMAIN files' |-> files'[m]]
  BY <1>1, <1>2 DEF Holding, k
<1>5. files' \in [DOMAIN files' -> File]
  <2>1. files'[f] \in File BY <1>2, <1>3, <1>4 DEF File
  <2> QED BY <1>4, <2>1 DEF LogTyped
<1>6. LogTyped' BY <1>2, <1>3, <1>4, <1>5 DEF LogTyped
<1>7. DayNoted' BY <1>2 DEF DayNoted, Today
<1>8. Open' BY <1>2 DEF Open
<1>9. Cleaning' BY <1>2 DEF Cleaning
<1>10. Onwards
  <2>1. Len(written) <= Len(written') BY <1>3 DEF k
  <2> QED BY <1>2, <1>3, <2>1 DEF Onwards, LogTyped
<1>11. Kept(f)'
  <2>1. Placed(f, hour)' BY <1>2 DEF Placed, Follows, DayBegins
  <2>2. Zipped(f) \notin DOMAIN files'
    <3>1. Zipped(f).gz /\ Zipped(f).day = day
      BY <1>2, ZippedName
    <3>2. \A m \in DOMAIN files : m.gz => m.day < day
      BY DEF Directory, Kept
    <3> QED BY <1>2, <1>4, <3>1, <3>2
  <2>3. day * DayHours <= hour
    BY <1>2, DayOf DEF DayNoted, Today
  <2>4. ASSUME NEW i \in files'[f].lines
        PROVE  /\ i \in 1 .. Len(written') /\ Placed(f, written[i])'
               /\ written'[i] <= hour
    <3>1. CASE i = k
      <4>1. i \in 1 .. Len(written') BY <1>3, <3>1 DEF k
      <4>2. written'[i] = hour BY <1>3, <3>1
      <4>3. Placed(f, written[i])'
        BY <1>2, <2>1, <4>2 DEF Placed, Follows, DayBegins
      <4> QED BY <1>2, <4>1, <4>2, <4>3
    <3>2. CASE i # k
      <4>1. i \in files[f].lines BY <1>4, <3>2
      <4>2. i \in 1 .. Len(written) /\ Placed(f, written[i])
            /\ written[i] <= files[f].mtime /\ files[f].mtime <= hour
        BY <1>2, <4>1 DEF Kept
      <4>3. written[i] \in Nat /\ written'[i] = written[i]
            /\ files[f].mtime \in Nat
        BY <1>2, <1>3, <4>2 DEF File
      <4>4. Placed(f, written[i])'
        BY <1>2, <4>2, <4>3 DEF Placed, Follows, DayBegins
      <4>5. i \in 1 .. Len(written') BY <1>3, <4>2 DEF k
      <4> QED BY <1>2, <4>2, <4>3, <4>4, <4>5
    <3> QED BY <3>1, <3>2
  <2>5. f.day <= day' /\ (f.hour = Whole <=> ~ lcfg'.hourly)
    BY <1>2 DEF Kept
  <2>6. ~ f.gz => Placed(f, files[f].mtime)'
    BY <1>2, <1>4, <2>1 DEF Placed, Follows, DayBegins
  <2> QED BY <1>2, <1>4, <2>2, <2>3, <2>4, <2>5, <2>6 DEF Kept
<1>12. ASSUME NEW m \in DOMAIN files, m # f PROVE Kept(m)'
  <2>1. ASSUME ~ m.gz, Zipped(m) \in DOMAIN files'
        PROVE  files'[Zipped(m)].lines = {}
    <3>1. Zipped(m) # f
      BY <1>2, ZippedName DEF LogTyped
    <3> QED BY <1>4, <2>1, <3>1 DEF Directory, Kept
  <2> QED BY <1>4, <1>10, <1>12, <2>1, KeptStays DEF Directory
<1>13. ASSUME NEW i \in 1 .. Len(written') 
       PROVE  written'[i] <= hour' /\ LineKept(i)'
  <2>1. CASE i = k
    <3>1. i \in files'[f].lines BY <1>4, <2>1
    <3> QED BY <1>2, <1>3, <1>4, <2>1, <3>1 DEF LineKept
  <2>2. CASE i # k
    <3>1. i \in 1 .. Len(written) BY <1>3, <2>2 DEF k
    <3>2. \A m \in DOMAIN files : files[m].lines \subseteq files'[m].lines
      BY <1>4
    <3>3. written[i] <= hour /\ LineKept(i) BY <3>1 DEF Directory
    <3>4. \A m \in DOMAIN files : i \in files[m].lines =>
            \E l \in DOMAIN files' : i \in files'[l].lines
      BY <1>4, <3>2
    <3> QED BY <1>10, <3>1, <3>3, <3>4, LineStays
  <2> QED BY <2>1, <2>2
<1>14. Directory'
  BY <1>2, <1>4, <1>11, <1>12, <1>13 DEF Directory
<1> QED BY <1>6, <1>7, <1>8, <1>9, <1>14

LEMMA NextClose == LogInv /\ CloseFile => LogInv'
<1> SUFFICES ASSUME LogInv, CloseFile PROVE LogInv'
  OBVIOUS
<1> USE DEF LogInv
<1>1. LogTyped' BY DEF LogTyped, CloseFile
<1>2. DayNoted' BY DEF DayNoted, CloseFile, Today
<1>3. Open' BY DEF Open, CloseFile
<1>4. Cleaning' BY DEF Cleaning, CloseFile
<1>5. Directory' BY DirectoryStays DEF LogTyped, CloseFile, Onwards
<1> QED BY <1>1, <1>2, <1>3, <1>4, <1>5

LEMMA NextRestart == LogInv /\ Restarts => LogInv'
<1> SUFFICES ASSUME LogInv, Restarts PROVE LogInv'
  OBVIOUS
<1> USE DEF LogInv
<1>1. /\ file' = {} /\ old' = {} /\ day' = Today /\ step' = "idle"
      /\ UNCHANGED <<lcfg, hour, written, slid, lost>>
      /\ hour \in Nat /\ day \in Nat /\ Today \in Nat /\ day <= Today
      /\ Today' = Today
  BY FreshDay DEF Restarts, LogTyped, DayNoted, Today
<1>2. Onwards BY <1>1 DEF Onwards, LogTyped
<1>3. DayNoted' BY <1>1 DEF DayNoted
<1>4. Open' BY <1>1 DEF Open
<1>5. Cleaning' BY <1>1 DEF Cleaning
<1>6. CASE UNCHANGED files
  <2>1. LogTyped' BY <1>1, <1>6 DEF LogTyped
  <2>2. Directory' BY <1>1, <1>2, <1>6, DirectoryStays
  <2> QED BY <1>3, <1>4, <1>5, <2>1, <2>2
<1>7. ASSUME NEW n \in old, lcfg.compress, ~ n.gz,
             files' = Holding(Zipped(n), {})
      PROVE  LogInv'
  <2> DEFINE z == Zipped(n)
  <2>1. n \in DOMAIN files /\ n \in Name /\ Kept(n) /\ Chosen(n)
        /\ DOMAIN files \subseteq Name /\ files[n] \in File
    BY DEF Cleaning, LogTyped, Directory
  <2>2. /\ z \in Name /\ z.gz /\ z.day = n.day /\ z.hour = n.hour
        /\ n.day \in Nat
    BY <2>1, ZippedName DEF Name
  <2>3. z \in DOMAIN files => files[z].lines = {}
    BY <1>7, <2>1 DEF Kept
  <2> HIDE DEF z
  <2>4. /\ DOMAIN files' = DOMAIN files \cup {z}
        /\ \A m \in DOMAIN files \ {z} : files'[m] = files[m]
        /\ files'[z] = [lines |-> {}, mtime |-> hour]
        /\ files' = [m \in DOMAIN files' |-> files'[m]]
    BY <1>7 DEF Holding, z
  <2>5. files' \in [DOMAIN files' -> File]
    <3>1. files'[z] \in File BY <1>1, <2>4 DEF File
    <3> QED BY <2>4, <3>1 DEF LogTyped
  <2>6. LogTyped' BY <1>1, <2>2, <2>4, <2>5 DEF LogTyped
  <2>7. Kept(z)'
    <3>1. z.day < day' BY <1>1, <2>1, <2>2 DEF Chosen
    <3>2. z.day * DayHours <= hour
      <4>1. z.day <= hour \div DayHours BY <1>1, <2>2, <3>1 DEF Today
      <4> QED BY <1>1, <2>2, <4>1, DayOf
    <3>3. z.hour = Whole <=> ~ lcfg'.hourly BY <1>1, <2>1, <2>2 DEF Kept
    <3> QED BY <1>1, <2>2, <2>4, <3>1, <3>2, <3>3 DEF Kept
  <2>8. ASSUME NEW m \in DOMAIN files, m # z PROVE Kept(m)'
    <3>1. ASSUME ~ m.gz, Zipped(m) \in DOMAIN files'
          PROVE  files'[Zipped(m)].lines = {}
      BY <2>4, <3>1 DEF Directory, Kept
    <3> QED BY <1>2, <2>4, <2>8, <3>1, KeptStays DEF Directory
  <2>9. \A i \in 1 .. Len(written) : written'[i] <= hour' /\ LineKept(i)'
    <3> TAKE i \in 1 .. Len(written)
    <3>1. \A m \in DOMAIN files : i \in files[m].lines =>
            \E l \in DOMAIN files' : i \in files'[l].lines
      BY <2>3, <2>4
    <3> QED BY <1>2, <3>1, LineStays DEF Directory
  <2>10. z.gz => lcfg'.compress /\ lcfg'.keep > 0
    BY <1>1, <1>7, <2>1 DEF Chosen
  <2>11. Directory'
    BY <1>1, <2>4, <2>7, <2>8, <2>9, <2>10 DEF Directory
  <2> QED BY <1>3, <1>4, <1>5, <2>6, <2>11
<1> QED BY <1>6, <1>7 DEF Restarts

LEMMA NextHour == LogInv /\ HourEnds => LogInv'
<1> SUFFICES ASSUME LogInv, HourEnds PROVE LogInv'
  OBVIOUS
<1> USE DEF LogInv
<1>1. /\ hour' = hour + 1 /\ hour \in Nat /\ day \in Nat
      /\ UNCHANGED <<lcfg, files, day, file, step, old, written, lost>>
      /\ IF step = "idle" THEN slid' = slid ELSE slid' = slid \cup {hour'}
      /\ slid \subseteq slid'
  BY DEF HourEnds, LogTyped
<1>2. LogTyped' BY <1>1 DEF LogTyped
<1>3. Onwards BY <1>1 DEF Onwards, LogTyped
<1>4. day <= Today'
  <2>1. day <= hour \div DayHours BY DEF DayNoted, Today
  <2>2. day * DayHours <= hour BY <1>1, <2>1, DayOf
  <2>3. day * DayHours \in Nat BY <1>1, LogAssumption
  <2>4. day * DayHours <= hour' BY <1>1, <2>2, <2>3
  <2>5. day <= hour' \div DayHours BY <1>1, <2>4, DayOf
  <2> QED BY <2>5 DEF Today
<1>5. ASSUME step # "idle", NEW s \in Int, Follows(s, hour)
      PROVE  Follows(s, hour)'
  BY <1>1, <1>5 DEF Follows
<1>6. DayNoted'
  <2>1. (day + 1) * DayHours - 1 \in Int BY <1>1, LogAssumption
  <2>2. step' \in {"clean", "open", "write"} =>
          Follows((day + 1) * DayHours - 1, hour)'
    BY <1>1, <1>5, <2>1 DEF DayNoted
  <2> QED BY <1>1, <1>4, <2>2 DEF DayNoted
<1>7. Open'
  <2> SUFFICES ASSUME step = "write" PROVE Open'
    BY <1>1 DEF Open
  <2>1. PICK n \in file : file = {n} /\ Placed(n, hour)
    BY DEF Open
  <2>2. n \in Name /\ n.day = day /\ ~ n.gz
    BY DEF Open, LogTyped
  <2>3. Placed(n, hour)'
    <3>1. CASE n.hour = Whole
      <4>1. Follows((day + 1) * DayHours - 1, hour)'
        BY <1>1, <1>6 DEF DayNoted, Follows
      <4>2. DayBegins(hour') <= hour' /\ DayBegins(hour') \in Nat
        BY <1>1, DivMod, LogAssumption DEF DayBegins
      <4>3. (day + 1) * DayHours - 1 \in Int BY <1>1, LogAssumption
      <4>4. Follows((day + 1) * DayHours - 1, DayBegins(hour))'
        BY <1>1, <4>1, <4>2, <4>3 DEF Follows, DayBegins
      <4> QED BY <1>1, <2>2, <3>1, <4>4 DEF Placed
    <3>2. CASE n.hour # Whole
      <4> DEFINE h == n.day * DayHours + n.hour
      <4>1. h \in Nat /\ h + DayHours \in Nat
        BY <2>2, <3>2, LogAssumption DEF Name
      <4>2. PICK start \in {h} \cup ({h + DayHours} \cap slid) :
              start <= hour /\ Follows(start, hour)
        BY <2>1, <3>2 DEF Placed
      <4>3. start \in Nat BY <4>1, <4>2
      <4>4. Follows(start, hour)' BY <1>5, <4>2, <4>3
      <4>5. start \in {h} \cup ({h + DayHours} \cap slid') /\ start <= hour'
        BY <1>1, <4>2, <4>3
      <4> QED BY <3>2, <4>4, <4>5 DEF Placed, Follows
    <3> QED BY <3>1, <3>2
  <2> QED BY <1>1, <2>1, <2>2, <2>3 DEF Open
<1>8. Cleaning'
  <2>1. \A n \in old : files[n].mtime \in Nat
    BY DEF LogTyped, File
  <2>2. Span' = Span /\ Span \in Nat /\ DayHours \in Nat
    BY <1>1, LogAssumption DEF Span, LogTyped
  <2> QED BY <1>1, <2>1, <2>2 DEF Cleaning, Chosen
<1>9. Directory' BY <1>1, <1>3, DirectoryStays
<1> QED BY <1>2, <1>6, <1>7, <1>8, <1>9

LEMMA LogStutters == LogInv /\ UNCHANGED logVars => LogInv'
BY DEF LogInv, logVars, LogTyped, DayNoted, Open, Cleaning, Directory, Kept,
   Chosen, LineKept, Placed, Follows, DayBegins, Today, Span, KeptFor

LEMMA LogNextKeeps == LogInv /\ [FanoutNext]_fanoutVars => LogInv'
<1> SUFFICES ASSUME LogInv, [FanoutNext]_fanoutVars PROVE LogInv'
  OBVIOUS
<1>1. CASE LogNext
  BY <1>1, NextBegin, NextRotate, NextCleaned, NextOpen, NextWrite, NextClose,
     NextRemove, NextCompress, NextRestart, NextHour DEF LogNext
<1>2. CASE UNCHANGED logVars BY <1>2, LogStutters
<1> QED BY <1>1, <1>2 DEF FanoutNext, fanoutVars

LEMMA LogStarts == FanoutInit => LogInv
<1> SUFFICES ASSUME FanoutInit PROVE LogInv
  OBVIOUS
<1>1. /\ lcfg \in LogConfigs /\ hour = 0 /\ DOMAIN files = {} /\ day = 0
      /\ file = {} /\ step \in {"idle", "off"} /\ old = {}
      /\ written = <<>> /\ slid = {} /\ files = [n \in {} |-> {}]
  BY DEF FanoutInit, LogInit
<1>2. LogTyped BY <1>1 DEF LogTyped
<1>3. DayNoted BY <1>1, FreshDay, <1>2 DEF DayNoted
<1> QED BY <1>1, <1>2, <1>3 DEF LogInv, Open, Cleaning, Directory

LEMMA LogInvKeeps == LogInv => LogKept
<1> SUFFICES ASSUME LogInv PROVE LogKept
  OBVIOUS
<1>1. DOMAIN written = 1 .. Len(written)
  BY DEF LogInv, LogTyped
<1>2. LinesKept BY <1>1 DEF LinesKept, LogInv, Directory, LineKept
<1>3. \A n \in DOMAIN files : \A i \in files[n].lines : InPlace(n, i)
  BY DEF LogInv, Directory, Kept, Placed, InPlace
<1> QED BY <1>2, <1>3 DEF LogKept

\* A line is in a file for as long as files are kept, and in the file of its
\* hour or day, whatever hour begins within a Write and wherever the process
\* dies, but for what LogKept names (writer.go: Write, rotate,
\* cleanupOldLogs, compressFile).
THEOREM LogIsKept == FanoutSpec => []LogKept
BY LogStarts, LogNextKeeps, LogInvKeeps, PTL DEF FanoutSpec
=============================================================================
