--------------------------- MODULE CyphalTxProofs ---------------------------
(***************************************************************************)
(* Theorems about the sending side of a node, for queues of any capacity,  *)
(* any interval and lifetime and any main loop that is fast enough.        *)
(***************************************************************************)
EXTENDS CyphalTx, SequenceTheorems, FiniteSetTheorems, TLAPS

USE SizesAssumption, TimesAssumption

-----------------------------------------------------------------------------
(* The frame handler runs: what was flushed had time left, and what is not   *)
(* the first was overtaken.                                                  *)
Polled ==
  pc \in {"status", "reset", "transmit"} =>
    /\ since_task = 0
    /\ \A i \in DOMAIN queue : queue[i].left > 0 /\ (i > 1 => queue[i].overtaken)

(* The offered frame was the whole of a heartbeat, if it was one.            *)
Offered ==
  pc = "heartbeat" =>
    /\ since_task = 0
    /\ \A i \in DOMAIN queue :
         queue[i].left > 0 /\ (queue[i].beat => queue[i].overtaken)

(* A heartbeat that no call of the task has passed over is younger than the   *)
(* last call, so the next call comes before it expires.                      *)
Waiting ==
  pc = "idle" =>
    \A i \in DOMAIN queue :
      queue[i].beat /\ ~queue[i].overtaken => queue[i].left + since_task > Lifetime

(* A heartbeat expires before the next one is due.                           *)
BeatsTimed ==
  \A i \in DOMAIN queue : queue[i].beat =>
    /\ queue[i].frames = 1
    /\ queue[i].left > 0 => queue[i].left + Interval = beat_in + Lifetime

IInv ==
  /\ TypeOK /\ Polled /\ Offered /\ Waiting /\ BeatsTimed /\ OneHeartbeatQueued

-----------------------------------------------------------------------------
(* The queue with one transfer more.                                        *)
Inserted(q, t, p, r) ==
  /\ r \in Seq(Transfers) /\ Len(r) = Len(q) + 1
  /\ \A i \in 1 .. Len(q) + 1 :
       r[i] = IF i < p THEN q[i] ELSE IF i = p THEN t ELSE q[i - 1]

LEMMA IntervalFinite ==
  ASSUME NEW n \in Nat
  PROVE  IsFiniteSet(1 .. n) /\ Cardinality(1 .. n) = n
<1>1. 1 \in Int /\ n \in Int
  OBVIOUS
<1>2. IsFiniteSet(1 .. n) /\ Cardinality(1 .. n) = IF 1 > n THEN 0 ELSE n - 1 + 1
  BY <1>1, FS_Interval, Zenon
<1> QED
  BY <1>2

LEMMA PlaceInQueue ==
  ASSUME NEW q \in Seq(Transfers), NEW t \in Transfers
  PROVE  Place(q, t) \in 1 .. Len(q) + 1
<1> DEFINE S == {i \in DOMAIN q : q[i].rank <= t.rank}
<1>1. Len(q) \in Nat /\ DOMAIN q = 1 .. Len(q)
  BY LenProperties
<1>2. IsFiniteSet(1 .. Len(q)) /\ Cardinality(1 .. Len(q)) = Len(q)
  BY <1>1, IntervalFinite
<1>3. S \subseteq 1 .. Len(q)
  BY <1>1
<1>4. IsFiniteSet(S) /\ Cardinality(S) <= Len(q)
  BY <1>2, <1>3, FS_Subset
<1>5. Cardinality(S) \in Nat
  BY <1>4, FS_CardinalityType
<1> QED
  BY <1>1, <1>4, <1>5 DEF Place

LEMMA EnqueuedInserts ==
  ASSUME NEW q \in Seq(Transfers), NEW t \in Transfers
  PROVE  \E p \in 1 .. Len(q) + 1 : Inserted(q, t, p, Enqueued(q, t))
<1> DEFINE p == Place(q, t)
           before == SubSeq(q, 1, p - 1)
           after == SubSeq(q, p, Len(q))
<1>1. p \in 1 .. Len(q) + 1
  BY PlaceInQueue
<1>2. Len(q) \in Nat
  BY LenProperties
<1>3. /\ before \in Seq(Transfers) /\ Len(before) = p - 1
      /\ \A i \in 1 .. p - 1 : before[i] = q[i]
  <2>1. \A i \in 1 .. p - 1 : q[i] \in Transfers
    BY <1>1, <1>2, ElementOfSeq
  <2> HIDE DEF p
  <2> QED
    BY <1>1, <1>2, <2>1, SubSeqProperties
<1>4. /\ after \in Seq(Transfers) /\ Len(after) = Len(q) + 1 - p
      /\ \A i \in 1 .. Len(q) + 1 - p : after[i] = q[p + i - 1]
  <2>1. \A i \in p .. Len(q) : q[i] \in Transfers
    BY <1>1, <1>2, ElementOfSeq
  <2> HIDE DEF p
  <2> QED
    BY <1>1, <1>2, <2>1, SubSeqProperties
<1>5. /\ <<t>> \in Seq(Transfers) /\ Len(<<t>>) = 1 /\ <<t>>[1] = t
  OBVIOUS
<1>6. /\ before \o <<t>> \in Seq(Transfers) /\ Len(before \o <<t>>) = p
      /\ \A i \in 1 .. p : (before \o <<t>>)[i] = IF i < p THEN q[i] ELSE t
  <2> HIDE DEF p, before
  <2>1. /\ before \o <<t>> \in Seq(Transfers)
        /\ Len(before \o <<t>>) = Len(before) + Len(<<t>>)
        /\ \A i \in 1 .. Len(before) + Len(<<t>>) : (before \o <<t>>)[i] =
              IF i <= Len(before) THEN before[i] ELSE <<t>>[i - Len(before)]
    BY <1>3, <1>5, ConcatProperties
  <2> QED
    BY <1>1, <1>2, <1>3, <1>5, <2>1
<1>7. Inserted(q, t, p, (before \o <<t>>) \o after)
  <2> HIDE DEF p, before, after
  <2>1. /\ (before \o <<t>>) \o after \in Seq(Transfers)
        /\ Len((before \o <<t>>) \o after) = p + (Len(q) + 1 - p)
        /\ \A i \in 1 .. p + (Len(q) + 1 - p) : ((before \o <<t>>) \o after)[i] =
              IF i <= p THEN (before \o <<t>>)[i] ELSE after[i - p]
    BY <1>4, <1>6, ConcatProperties
  <2>2. p + (Len(q) + 1 - p) = Len(q) + 1
    BY <1>1, <1>2
  <2>3. ASSUME NEW i \in 1 .. Len(q) + 1
        PROVE  ((before \o <<t>>) \o after)[i] =
                 IF i < p THEN q[i] ELSE IF i = p THEN t ELSE q[i - 1]
    <3>1. CASE i <= p
      BY <1>1, <1>2, <1>6, <2>1, <2>2, <3>1
    <3>2. CASE i > p
      <4>1. i - p \in 1 .. Len(q) + 1 - p /\ p + (i - p) - 1 = i - 1
        BY <1>1, <1>2, <3>2
      <4>2. after[i - p] = q[i - 1]
        BY <1>4, <4>1
      <4> QED
        BY <1>1, <1>2, <2>1, <2>2, <3>2, <4>2
    <3>3. i <= p \/ i > p
      BY <1>1, <1>2
    <3> QED
      BY <3>1, <3>2, <3>3
  <2> QED
    BY <2>1, <2>2, <2>3 DEF Inserted
<1> QED
  BY <1>1, <1>7 DEF Enqueued, InsertAt

-----------------------------------------------------------------------------
(* One lemma per action.                                                     *)
LEMMA InitInv == Init => IInv
  BY EmptySeq DEF Init, IInv, TypeOK, Steps, Polled, Offered, Waiting, BeatsTimed,
                  OneHeartbeatQueued

LEMMA QueueTyped ==
  ASSUME TypeOK
  PROVE  /\ Len(queue) \in Nat /\ DOMAIN queue = 1 .. Len(queue)
         /\ \A i \in DOMAIN queue :
              /\ queue[i] \in Transfers /\ queue[i].beat \in BOOLEAN
              /\ queue[i].frames \in 1 .. MaxFrames
              /\ queue[i].left \in 0 .. Lifetime + 1
              /\ queue[i].overtaken \in BOOLEAN
<1>1. queue \in Seq(Transfers)
  BY DEF TypeOK
<1>2. Len(queue) \in Nat /\ DOMAIN queue = 1 .. Len(queue)
  BY <1>1, LenProperties
<1>3. \A i \in DOMAIN queue : queue[i] \in Transfers
  BY <1>1, <1>2, ElementOfSeq
<1> QED
  BY <1>2, <1>3 DEF Transfers

(* Where the elements of a queue with one more come from.                   *)
Sources(t, p) ==
  /\ queue' \in Seq(Transfers) /\ p \in DOMAIN queue' /\ queue'[p] = t
  /\ \A i \in DOMAIN queue' : i # p =>
       \/ i < p /\ i \in DOMAIN queue /\ queue'[i] = queue[i]
       \/ i > p /\ i - 1 \in DOMAIN queue /\ queue'[i] = queue[i - 1]

LEMMA InsertedSources ==
  ASSUME TypeOK, NEW t, NEW p \in 1 .. Len(queue) + 1, Inserted(queue, t, p, queue')
  PROVE  Sources(t, p)
<1>1. Len(queue) \in Nat /\ DOMAIN queue = 1 .. Len(queue)
  BY QueueTyped
<1>2. queue' \in Seq(Transfers) /\ DOMAIN queue' = 1 .. Len(queue) + 1
  BY LenProperties DEF Inserted
<1>3. queue'[p] = t
  BY <1>1 DEF Inserted
<1>4. ASSUME NEW i \in 1 .. Len(queue) + 1, i < p
      PROVE  i \in DOMAIN queue /\ queue'[i] = queue[i]
  BY <1>1, <1>4 DEF Inserted
<1>5. ASSUME NEW i \in 1 .. Len(queue) + 1, i > p
      PROVE  i - 1 \in DOMAIN queue /\ queue'[i] = queue[i - 1]
  <2>1. ~(i < p) /\ i # p
    BY <1>1, <1>5
  <2>2. i - 1 \in DOMAIN queue
    BY <1>1, <1>5
  <2> QED
    BY <2>1, <2>2 DEF Inserted
<1>6. \A i \in 1 .. Len(queue) + 1 : i < p \/ i = p \/ i > p
  BY <1>1
<1> QED
  BY <1>1, <1>2, <1>3, <1>4, <1>5, <1>6 DEF Sources

LEMMA PushSources ==
  ASSUME TypeOK, NEW beat \in BOOLEAN, NEW rank \in 0 .. 2, NEW n \in 1 .. MaxFrames,
         Push(beat, rank, n)
  PROVE  queue' = queue \/ \E p \in Nat : Sources(NewTransfer(beat, rank, n), p)
<1> DEFINE t == NewTransfer(beat, rank, n)
<1>1. t \in Transfers
  BY DEF NewTransfer, Transfers
<1>2. queue \in Seq(Transfers) /\ Len(queue) \in Nat
  BY QueueTyped DEF TypeOK
<1>3. CASE queue' = Enqueued(queue, t)
  <2> HIDE DEF t
  <2>1. PICK p \in 1 .. Len(queue) + 1 : Inserted(queue, t, p, queue')
    BY <1>1, <1>2, <1>3, EnqueuedInserts
  <2>2. Sources(t, p)
    BY <2>1, InsertedSources
  <2> QED
    BY <1>2, <2>2 DEF t
<1> QED
  BY <1>3 DEF Push

LEMMA AppPushKeeps == IInv /\ AppPush => IInv'
<1> SUFFICES ASSUME IInv, AppPush PROVE IInv'
  OBVIOUS
<1>1. /\ pc = "idle" /\ UNCHANGED <<pc, txq, beat_in, since_task>> /\ TypeOK
  BY DEF AppPush, IInv
<1>2. PICK rank \in 0 .. 2, n \in 1 .. MaxFrames : Push(FALSE, rank, n)
  BY DEF AppPush
<1>3. CASE queue' = queue
  BY <1>1, <1>3 DEF IInv, TypeOK, Polled, Offered, Waiting, BeatsTimed, OneHeartbeatQueued
<1>4. ASSUME NEW p \in Nat, Sources(NewTransfer(FALSE, rank, n), p)
      PROVE  IInv'
  <2>1. TypeOK'
    BY <1>1, <1>4 DEF TypeOK, Sources
  <2>2. ~queue'[p].beat
    BY <1>4 DEF Sources, NewTransfer
  <2>3. ASSUME NEW i \in DOMAIN queue', queue'[i].beat
        PROVE  \/ i < p /\ i \in DOMAIN queue /\ queue'[i] = queue[i]
               \/ i > p /\ i - 1 \in DOMAIN queue /\ queue'[i] = queue[i - 1]
    BY <1>4, <2>2, <2>3 DEF Sources
  <2>4. Polled' /\ Offered'
    BY <1>1 DEF Polled, Offered
  <2>5. Waiting' /\ BeatsTimed'
    BY <1>1, <2>3 DEF IInv, Waiting, BeatsTimed
  <2>6. OneHeartbeatQueued'
    <3> SUFFICES ASSUME NEW i \in DOMAIN queue', NEW j \in DOMAIN queue',
                        queue'[i].beat, queue'[j].beat
                 PROVE  i = j
      BY DEF OneHeartbeatQueued
    <3>1. i \in Nat /\ j \in Nat
      BY <1>4, LenProperties DEF Sources
    <3> QED
      BY <2>3, <3>1 DEF IInv, OneHeartbeatQueued
  <2> QED
    BY <2>1, <2>4, <2>5, <2>6 DEF IInv
<1> QED
  BY <1>1, <1>2, <1>3, <1>4, PushSources

LEMMA HeartbeatKeeps == IInv /\ Heartbeat => IInv'
<1> SUFFICES ASSUME IInv, Heartbeat PROVE IInv'
  OBVIOUS
<1>1. /\ pc = "heartbeat" /\ pc' = "idle" /\ UNCHANGED <<txq, since_task>> /\ TypeOK
      /\ since_task = 0
  BY DEF Heartbeat, IInv, Offered
<1>2. CASE beat_in # 0 /\ UNCHANGED <<queue, beat_in>>
  BY <1>1, <1>2 DEF IInv, TypeOK, Steps, Polled, Offered, Waiting, BeatsTimed,
                    OneHeartbeatQueued
<1>3. CASE beat_in = 0 /\ Push(TRUE, 1, 1) /\ beat_in' = Interval + 1
  <2>1. \A i \in DOMAIN queue : ~queue[i].beat
    BY <1>1, <1>3, QueueTyped DEF IInv, Offered, BeatsTimed
  <2>2. CASE queue' = queue
    BY <1>1, <1>3, <2>1, <2>2 DEF IInv, TypeOK, Steps, Polled, Offered, Waiting,
                                  BeatsTimed, OneHeartbeatQueued
  <2>3. ASSUME NEW p \in Nat, Sources(NewTransfer(TRUE, 1, 1), p)
        PROVE  IInv'
    <3>1. TypeOK'
      BY <1>1, <1>3, <2>3 DEF TypeOK, Steps, Sources
    <3>2. \A i \in DOMAIN queue' : queue'[i].beat => i = p
      BY <2>1, <2>3 DEF Sources
    <3>3. /\ queue'[p].frames = 1 /\ queue'[p].left = Lifetime + 1
      BY <2>3 DEF Sources, NewTransfer
    <3>4. Polled' /\ Offered'
      BY <1>1 DEF Polled, Offered
    <3>5. Waiting' /\ BeatsTimed'
      BY <1>1, <1>3, <3>2, <3>3 DEF Waiting, BeatsTimed
    <3>6. OneHeartbeatQueued'
      BY <3>2 DEF OneHeartbeatQueued
    <3> QED
      BY <3>1, <3>4, <3>5, <3>6 DEF IInv
  <2>4. TRUE \in BOOLEAN /\ 1 \in 0 .. 2 /\ 1 \in 1 .. MaxFrames
    OBVIOUS
  <2>5. queue' = queue \/ \E p \in Nat : Sources(NewTransfer(TRUE, 1, 1), p)
    BY <1>1, <1>3, <2>4, PushSources
  <2> QED
    BY <2>2, <2>3, <2>5
<1> QED
  BY <1>1, <1>2, <1>3 DEF Heartbeat

(* What changing one field of a transfer keeps.                              *)
LEMMA TransferUpdates ==
  ASSUME NEW t \in Transfers
  PROVE  /\ \A b \in BOOLEAN :
              /\ [t EXCEPT !.overtaken = b] \in Transfers
              /\ [t EXCEPT !.overtaken = b].beat = t.beat
              /\ [t EXCEPT !.overtaken = b].frames = t.frames
              /\ [t EXCEPT !.overtaken = b].left = t.left
              /\ [t EXCEPT !.overtaken = b].overtaken = b
         /\ \A l \in 0 .. Lifetime + 1 :
              /\ [t EXCEPT !.left = l] \in Transfers
              /\ [t EXCEPT !.left = l].beat = t.beat
              /\ [t EXCEPT !.left = l].frames = t.frames
              /\ [t EXCEPT !.left = l].left = l
              /\ [t EXCEPT !.left = l].overtaken = t.overtaken
         /\ \A f \in 1 .. MaxFrames :
              /\ [t EXCEPT !.frames = f] \in Transfers
              /\ [t EXCEPT !.frames = f].beat = t.beat
              /\ [t EXCEPT !.frames = f].left = t.left
              /\ [t EXCEPT !.frames = f].overtaken = t.overtaken
  BY DEF Transfers

LEMMA TaskCallKeeps == IInv /\ TaskCall => IInv'
<1> SUFFICES ASSUME IInv, TaskCall PROVE IInv'
  OBVIOUS
<1> DEFINE live == {i \in DOMAIN queue : queue[i].left > 0}
           n == Cardinality(live)
<1>1. /\ pc = "idle" /\ since_task' = 0 /\ UNCHANGED <<txq, beat_in>> /\ TypeOK
      /\ pc' \in {"status", "heartbeat"}
  BY DEF TaskCall, IInv
<1>2. PICK at \in [1 .. n -> live] :
        /\ \A k, m \in DOMAIN at : k < m => at[k] < at[m]
        /\ queue' = [i \in DOMAIN at |-> [queue[at[i]] EXCEPT !.overtaken = @ \/ i > 1]]
        /\ pc' = IF at = <<>> THEN "heartbeat" ELSE "status"
  BY DEF TaskCall, Unexpired
<1>3. Len(queue) \in Nat /\ DOMAIN queue = 1 .. Len(queue)
  BY <1>1, QueueTyped
<1>4. n \in Nat
  <2>1. IsFiniteSet(1 .. Len(queue)) /\ live \subseteq 1 .. Len(queue)
    BY <1>3, IntervalFinite
  <2>2. IsFiniteSet(live)
    BY <2>1, FS_Subset
  <2> QED
    BY <2>2, FS_CardinalityType
<1>5. \A i \in 1 .. n : at[i] \in DOMAIN queue /\ queue[at[i]].left > 0
  BY <1>2
<1> HIDE DEF n, live
<1>6. /\ DOMAIN queue' = 1 .. n
      /\ \A i \in 1 .. n :
           queue'[i] = [queue[at[i]] EXCEPT !.overtaken = @ \/ i > 1]
  BY <1>2
<1>7. \A i \in 1 .. n :
        /\ queue'[i] \in Transfers
        /\ queue'[i].beat = queue[at[i]].beat
        /\ queue'[i].frames = queue[at[i]].frames
        /\ queue'[i].left = queue[at[i]].left
        /\ i > 1 => queue'[i].overtaken
  <2> SUFFICES ASSUME NEW i \in 1 .. n
               PROVE  /\ queue'[i] \in Transfers
                      /\ queue'[i].beat = queue[at[i]].beat
                      /\ queue'[i].frames = queue[at[i]].frames
                      /\ queue'[i].left = queue[at[i]].left
                      /\ i > 1 => queue'[i].overtaken
    OBVIOUS
  <2> DEFINE t == queue[at[i]]
             b == t.overtaken \/ i > 1
  <2>1. t \in Transfers /\ t.overtaken \in BOOLEAN
    BY <1>1, <1>5, QueueTyped
  <2>2. b \in BOOLEAN /\ (i > 1 => b)
    OBVIOUS
  <2>3. queue'[i] = [t EXCEPT !.overtaken = b]
    BY <1>6
  <2> HIDE DEF t, b
  <2>4. /\ queue'[i] \in Transfers /\ queue'[i].beat = t.beat
        /\ queue'[i].frames = t.frames /\ queue'[i].left = t.left
        /\ queue'[i].overtaken = b
    BY <2>1, <2>2, <2>3, TransferUpdates
  <2> QED
    BY <2>2, <2>4 DEF t
<1>8. queue' \in Seq(Transfers)
  <2>1. queue' \in [1 .. n -> Transfers]
    BY <1>2, <1>6, <1>7
  <2> QED
    BY <1>4, <2>1, SeqDef
<1>9. TypeOK'
  <2>1. pc' = "status" => queue' # <<>>
    <3> SUFFICES ASSUME at # <<>> PROVE queue' # <<>>
      BY <1>2
    <3>1. at \in Seq(live) /\ Len(at) = n
      BY <1>2, <1>4, SeqDef
    <3>2. n # 0
      BY <3>1, EmptySeq
    <3>3. 1 \in DOMAIN queue'
      BY <1>4, <1>6, <3>2
    <3> QED
      BY <3>3
  <2> QED
    BY <1>1, <1>8, <2>1 DEF TypeOK, Steps
<1>10. Polled'
  BY <1>1, <1>5, <1>6, <1>7 DEF Polled
<1>11. Offered'
  <2> SUFFICES ASSUME pc' = "heartbeat" PROVE DOMAIN queue' = {}
    BY <1>1 DEF Offered
  <2>1. DOMAIN at = {}
    BY <1>2
  <2> QED
    BY <1>2, <2>1
<1>12. Waiting'
  BY <1>1 DEF Waiting
<1>13. BeatsTimed'
  BY <1>1, <1>5, <1>6, <1>7 DEF IInv, BeatsTimed
<1>14. OneHeartbeatQueued'
  <2> SUFFICES ASSUME NEW i \in 1 .. n, NEW k \in 1 .. n,
                      queue'[i].beat, queue'[k].beat
               PROVE  i = k
    BY <1>6 DEF OneHeartbeatQueued
  <2>1. at[i] = at[k]
    BY <1>5, <1>7 DEF IInv, OneHeartbeatQueued
  <2>2. i < k => at[i] < at[k]
    BY <1>2
  <2>3. k < i => at[k] < at[i]
    BY <1>2
  <2>4. at[i] \in Nat
    BY <1>3, <1>5
  <2> QED
    BY <1>4, <2>1, <2>2, <2>3, <2>4
<1> QED
  BY <1>9, <1>10, <1>11, <1>12, <1>13, <1>14 DEF IInv

(* The transfer that was offered leaves the queue.                           *)
LEMMA HeadLeaves ==
  ASSUME IInv, pc \in {"status", "reset", "transmit"}, pc' = "heartbeat",
         queue' = Tail(queue), UNCHANGED <<beat_in, since_task>>, txq' \in 0 .. TxqSize
  PROVE  IInv'
<1>1. /\ TypeOK /\ queue # <<>> /\ queue \in Seq(Transfers)
  BY DEF IInv, TypeOK
<1>2. Len(queue) \in Nat /\ DOMAIN queue = 1 .. Len(queue)
  BY <1>1, QueueTyped
<1>3. /\ queue' \in Seq(Transfers)
      /\ \A i \in DOMAIN queue' : i + 1 \in DOMAIN queue /\ queue'[i] = queue[i + 1]
                                 /\ i \in Nat /\ i + 1 > 1
  <2>1. /\ Tail(queue) \in Seq(Transfers) /\ Len(Tail(queue)) = Len(queue) - 1
        /\ \A i \in 1 .. Len(Tail(queue)) : Tail(queue)[i] = queue[i + 1]
    BY <1>1, HeadTailProperties
  <2>2. DOMAIN Tail(queue) = 1 .. Len(queue) - 1
    BY <2>1, LenProperties
  <2> QED
    BY <1>2, <2>1, <2>2
<1>4. TypeOK'
  BY <1>1, <1>3 DEF TypeOK, Steps
<1>5. Polled' /\ Waiting'
  BY DEF Polled, Waiting
<1>6. Offered'
  BY <1>3 DEF IInv, Polled, Offered
<1>7. BeatsTimed'
  BY <1>3 DEF IInv, BeatsTimed
<1>8. OneHeartbeatQueued'
  <2> SUFFICES ASSUME NEW i \in DOMAIN queue', NEW j \in DOMAIN queue',
                      queue'[i].beat, queue'[j].beat
               PROVE  i = j
    BY DEF OneHeartbeatQueued
  <2>1. i + 1 = j + 1
    BY <1>3 DEF IInv, OneHeartbeatQueued
  <2> QED
    BY <1>3, <2>1
<1> QED
  BY <1>4, <1>5, <1>6, <1>7, <1>8 DEF IInv

LEMMA TransmitKeeps == IInv /\ Transmit => IInv'
<1> SUFFICES ASSUME IInv, Transmit PROVE IInv'
  OBVIOUS
<1>1. /\ pc = "transmit" /\ pc' = "heartbeat" /\ UNCHANGED <<beat_in, since_task>>
      /\ TypeOK /\ queue' \in {Tail(queue), HeadSent} /\ txq' \in 0 .. TxqSize
  BY DEF Transmit, TransferDropped, IInv, TypeOK
<1>2. CASE queue' = Tail(queue)
  BY <1>1, <1>2, HeadLeaves
<1>3. CASE Head(queue).frames # 1 /\ queue' = [queue EXCEPT ![1].frames = @ - 1]
  <2>1. Len(queue) \in Nat /\ DOMAIN queue = 1 .. Len(queue) /\ queue # <<>>
    BY <1>1, QueueTyped DEF TypeOK
  <2>2. 1 \in DOMAIN queue /\ Head(queue) = queue[1]
    BY <1>1, <2>1, EmptySeq DEF TypeOK
  <2>3. /\ queue[1] \in Transfers /\ queue[1].frames \in 1 .. MaxFrames
        /\ queue[1].frames # 1
    BY <1>1, <1>3, <2>2, QueueTyped
  <2>4. queue[1].frames - 1 \in 1 .. MaxFrames /\ ~queue[1].beat
    BY <2>2, <2>3 DEF IInv, BeatsTimed
  <2> DEFINE u == [queue[1] EXCEPT !.frames = queue[1].frames - 1]
  <2>5. /\ u \in Transfers /\ ~u.beat /\ u.left = queue[1].left
        /\ u.overtaken = queue[1].overtaken
    BY <2>3, <2>4, TransferUpdates
  <2>6. /\ queue' \in Seq(Transfers) /\ DOMAIN queue' = DOMAIN queue
        /\ \A i \in DOMAIN queue : queue'[i] = IF i = 1 THEN u ELSE queue[i]
    <3>1. queue' = [queue EXCEPT ![1] = u]
      BY <1>3
    <3> HIDE DEF u
    <3>2. queue \in Seq(Transfers) /\ 1 \in 1 .. Len(queue)
      BY <1>1, <2>1, <2>2 DEF TypeOK
    <3>3. /\ queue' \in Seq(Transfers) /\ Len(queue') = Len(queue)
          /\ \A i \in 1 .. Len(queue) : queue'[i] = IF i = 1 THEN u ELSE queue[i]
      BY <2>5, <3>1, <3>2, ExceptSeq
    <3> QED
      BY <2>1, <3>3, LenProperties
  <2> HIDE DEF u
  <2>7. TypeOK'
    BY <1>1, <2>6 DEF TypeOK, Steps
  <2>8. Polled' /\ Waiting'
    BY <1>1 DEF Polled, Waiting
  <2>9. Offered'
    <3>1. since_task = 0 /\ \A i \in DOMAIN queue : queue[i].left > 0
      BY <1>1 DEF IInv, Polled
    <3>2. \A i \in DOMAIN queue : i = 1 \/ queue[i].overtaken
      BY <1>1, <2>1 DEF IInv, Polled
    <3> QED
      BY <1>1, <2>2, <2>5, <2>6, <3>1, <3>2 DEF Offered
  <2>10. BeatsTimed' /\ OneHeartbeatQueued'
    BY <1>1, <2>5, <2>6 DEF IInv, BeatsTimed, OneHeartbeatQueued
  <2> QED
    BY <2>7, <2>8, <2>9, <2>10 DEF IInv
<1> QED
  BY <1>1, <1>2, <1>3 DEF HeadSent

LEMMA TickKeeps == IInv /\ Tick => IInv'
<1> SUFFICES ASSUME IInv, Tick PROVE IInv'
  OBVIOUS
<1>1. /\ pc = "idle" /\ pc' = "idle" /\ since_task < Period /\ TypeOK
      /\ since_task' = since_task + 1 /\ beat_in' = Less(beat_in) /\ txq' = txq
  BY DEF Tick, IInv
<1>2. Len(queue) \in Nat /\ DOMAIN queue = 1 .. Len(queue)
  BY <1>1, QueueTyped
<1>3. /\ DOMAIN queue' = DOMAIN queue
      /\ \A i \in DOMAIN queue : queue'[i] = [queue[i] EXCEPT !.left = Less(@)]
  BY DEF Tick
<1>4. \A i \in DOMAIN queue :
        /\ queue'[i] \in Transfers
        /\ queue'[i].beat = queue[i].beat /\ queue'[i].frames = queue[i].frames
        /\ queue'[i].left = Less(queue[i].left)
        /\ queue'[i].overtaken = queue[i].overtaken
  <2> SUFFICES ASSUME NEW i \in DOMAIN queue
               PROVE  /\ queue'[i] \in Transfers
                      /\ queue'[i].beat = queue[i].beat
                      /\ queue'[i].frames = queue[i].frames
                      /\ queue'[i].left = Less(queue[i].left)
                      /\ queue'[i].overtaken = queue[i].overtaken
    OBVIOUS
  <2>1. queue[i] \in Transfers /\ queue[i].left \in 0 .. Lifetime + 1
    BY <1>1, QueueTyped
  <2>2. Less(queue[i].left) \in 0 .. Lifetime + 1
    BY <2>1 DEF Less
  <2>3. queue'[i] = [queue[i] EXCEPT !.left = Less(queue[i].left)]
    BY <1>3
  <2> QED
    BY <2>1, <2>2, <2>3, TransferUpdates
<1>5. queue' \in Seq(Transfers)
  <2>1. queue' \in [1 .. Len(queue) -> Transfers]
    BY <1>2, <1>3, <1>4 DEF Tick
  <2> QED
    BY <1>2, <2>1, SeqDef
<1>6. TypeOK'
  BY <1>1, <1>5 DEF TypeOK, Less
<1>7. Polled' /\ Offered'
  BY <1>1 DEF Polled, Offered
<1>8. Waiting'
  <2> SUFFICES ASSUME NEW i \in DOMAIN queue, queue[i].beat, ~queue[i].overtaken
               PROVE  queue'[i].left + since_task' > Lifetime
    BY <1>3, <1>4 DEF Waiting
  <2>1. queue[i].left + since_task > Lifetime
    BY <1>1 DEF IInv, Waiting
  <2>2. queue[i].left \in Nat /\ since_task \in Nat
    BY <1>1, QueueTyped DEF TypeOK
  <2> QED
    BY <1>1, <1>4, <2>1, <2>2 DEF Less
<1>9. BeatsTimed'
  <2> SUFFICES ASSUME NEW i \in DOMAIN queue, queue[i].beat, Less(queue[i].left) > 0
               PROVE  Less(queue[i].left) + Interval = Less(beat_in) + Lifetime
    BY <1>1, <1>3, <1>4 DEF IInv, BeatsTimed
  <2>1. queue[i].left \in Nat /\ beat_in \in Nat
    BY <1>1, QueueTyped DEF TypeOK
  <2>2. queue[i].left > 0
    BY <2>1 DEF Less
  <2>3. queue[i].left + Interval = beat_in + Lifetime
    BY <2>2 DEF IInv, BeatsTimed
  <2> QED
    BY <2>1, <2>2, <2>3 DEF Less
<1>10. OneHeartbeatQueued'
  BY <1>3, <1>4 DEF IInv, OneHeartbeatQueued
<1> QED
  BY <1>6, <1>7, <1>8, <1>9, <1>10 DEF IInv

(* The steps that leave the queue alone, or empty it.                        *)
LEMMA OthersKeep ==
  IInv /\ (TxStatus \/ TxReset \/ ServiceResets \/ ChipSends \/ Reinit) => IInv'
<1> SUFFICES ASSUME IInv, TxStatus \/ TxReset \/ ServiceResets \/ ChipSends \/ Reinit
             PROVE  IInv'
  OBVIOUS
<1>1. /\ txq \in 0 .. TxqSize /\ TypeOK /\ since_task' = since_task
      /\ txq' \in 0 .. TxqSize
  BY DEF IInv, TypeOK, TxStatus, TxReset, ServiceResets, ChipSends, Reinit
<1>2. CASE Reinit
  BY <1>1, <1>2, EmptySeq DEF Reinit, IInv, TypeOK, Polled, Offered, Waiting,
     BeatsTimed, OneHeartbeatQueued
<1>3. CASE TxStatus \/ TxReset \/ ServiceResets \/ ChipSends
  <2>1. /\ UNCHANGED <<queue, beat_in, since_task>>
        /\ \/ pc' = pc
           \/ pc \in {"status", "reset"} /\ pc' \in {"reset", "transmit"}
    BY <1>3 DEF TxStatus, TxReset, ServiceResets, ChipSends
  <2>2. TypeOK'
    BY <1>1, <2>1 DEF TypeOK, Steps
  <2> QED
    BY <2>1, <2>2 DEF IInv, Polled, Offered, Waiting, BeatsTimed, OneHeartbeatQueued
<1> QED
  BY <1>2, <1>3

LEMMA IInvStep == IInv /\ [Next]_vars => IInv'
<1> SUFFICES ASSUME IInv, [Next]_vars PROVE IInv'
  OBVIOUS
<1>1. CASE UNCHANGED vars
  BY <1>1 DEF vars, IInv, TypeOK, Polled, Offered, Waiting, BeatsTimed,
              OneHeartbeatQueued
<1>2. CASE AccessFails
  BY <1>2, HeadLeaves DEF AccessFails, TransferDropped, IInv, TypeOK
<1>3. CASE Next /\ ~AccessFails
  BY <1>3, AppPushKeeps, HeartbeatKeeps, TaskCallKeeps, TransmitKeeps, TickKeeps,
     OthersKeep DEF Next, Task
<1> QED
  BY <1>1, <1>2, <1>3

LEMMA IInvHolds == Spec => []IInv
  BY InitInv, IInvStep, PTL DEF Spec

-----------------------------------------------------------------------------
(* Every variable keeps its type, and a frame is offered only from a queue   *)
(* that has one.                                                             *)
THEOREM TypeCorrect == Spec => []TypeOK
  BY IInvHolds, PTL DEF IInv

(* Whatever the application queues, the heartbeats of two intervals are       *)
(* never queued together.                                                    *)
THEOREM HeartbeatsDoNotPileUp == Spec => []OneHeartbeatQueued
  BY IInvHolds, PTL DEF IInv

(* A heartbeat expires before it was offered only behind other transfers.     *)
THEOREM HeartbeatIsOffered == Spec => []HeartbeatExpiresOnlyOvertaken
<1>1. IInv => HeartbeatExpiresOnlyOvertaken
  <2> SUFFICES ASSUME IInv, NEW i \in DOMAIN queue,
                      queue[i].beat, queue[i].left = 0, ~queue[i].overtaken
               PROVE  FALSE
    BY DEF HeartbeatExpiresOnlyOvertaken
  <2>1. CASE pc = "idle"
    <3>1. 0 + since_task > Lifetime
      BY <2>1 DEF IInv, Waiting
    <3> QED
      BY <3>1 DEF IInv, TypeOK
  <2>2. CASE pc = "heartbeat"
    BY <2>2 DEF IInv, Offered
  <2>3. CASE pc \in {"status", "reset", "transmit"}
    BY <2>3 DEF IInv, Polled
  <2> QED
    BY <2>1, <2>2, <2>3 DEF IInv, TypeOK, Steps
<1> QED
  BY <1>1, IInvHolds, PTL
=============================================================================
