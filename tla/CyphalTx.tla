------------------------------ MODULE CyphalTx ------------------------------
(***************************************************************************)
(* Sending side of a Cyphal node: leos_cyphal_push and leos_cyphal_task    *)
(* (src/leos_cyphal/node/cyphal.c), the queue libcanard keeps for them, the *)
(* frame handler of the MCP251XFD transport                                *)
(* (src/leos_cyphal/transport/mcp251xfd/driver.c) and the transmit queue   *)
(* of the chip.                                                            *)
(*                                                                         *)
(* Each call of the task offers one frame, that of the lowest CAN          *)
(* identifier, to the transport; leos_cyphal_init may be called again, and  *)
(* leos_mcp251xfd_task serves the chip in between. Time is counted in       *)
(* ticks; calls take none.                                                  *)
(***************************************************************************)
EXTENDS Naturals, Sequences, SequencesExt

CONSTANTS
  Capacity,       \* frames the queue of the node holds (canardTxInit)
  TxqSize,        \* frames the transmit queue of the chip holds
  MaxFrames,      \* bound: frames of a transfer of the application
  Interval,       \* HEARTBEAT_INTERVAL_MS
  Lifetime,       \* deadline of a pushed transfer
  Period,         \* the main loop calls the task at least this often
  AccessFaults    \* may an access to the chip fail?

ASSUME SizesAssumption ==
  /\ Capacity \in Nat \ {0} /\ TxqSize \in Nat \ {0} /\ MaxFrames \in Nat \ {0}
  /\ AccessFaults \in BOOLEAN
ASSUME TimesAssumption ==
  /\ Interval \in Nat /\ Lifetime \in Nat /\ Period \in Nat \ {0}
  /\ Lifetime < Interval
  /\ Period <= Lifetime

VARIABLES
  pc,             \* "idle", or what the running task does next
  queue,          \* node->txq: transfers in the order they will be sent
  txq,            \* frames in the transmit queue of the chip
  beat_in,        \* ticks until the time is later than next_heartbeat
  since_task      \* ticks since the last call of the task

vars == <<pc, queue, txq, beat_in, since_task>>

(* A transfer in the queue: is it the periodic heartbeat; how its identifier *)
(* compares with the heartbeat's (1: equal); its frames still to be sent;    *)
(* ticks until the time is later than its deadline; and, as history, has     *)
(* the task been called while another transfer was before it?                *)
Transfers ==
  [beat : BOOLEAN, rank : 0 .. 2, frames : 1 .. MaxFrames,
   left : 0 .. Lifetime + 1, overtaken : BOOLEAN]

Steps == {"idle", "status", "reset", "transmit", "heartbeat"}

-----------------------------------------------------------------------------
(* libcanard: the queue.                                                    *)

(* One item for every transfer of the queue and frame of it still to be sent. *)
Frames(q) == UNION {{<<i, n>> : n \in 1 .. q[i].frames} : i \in DOMAIN q}
FramesIn(q) == Cardinality(Frames(q))

(* A transfer goes behind those that are sent before it or have its identifier. *)
Place(q, t) == Cardinality({i \in DOMAIN q : q[i].rank <= t.rank}) + 1
Enqueued(q, t) == InsertAt(q, Place(q, t), t)

(* The positions that a flush of the expired transfers keeps, in order. *)
Unexpired_All(q) == {[i \in DOMAIN q |-> i]}

Unexpired(q) ==
  LET live == {i \in DOMAIN q : q[i].left > 0} IN
  {at \in [1 .. Cardinality(live) -> live] :
     \A m, n \in DOMAIN at : m < n => at[m] < at[n]}

HeadSent ==
  IF Head(queue).frames = 1
  THEN Tail(queue)
  ELSE [queue EXCEPT ![1].frames = @ - 1]

-----------------------------------------------------------------------------
(* leos_cyphal_push: the deadline is set from the current time; a transfer   *)
(* that does not fit is refused as a whole. libcanard is told that it is      *)
(* time 0, so a push flushes nothing.                                        *)

NewTransfer_DeadlineNow(beat, rank, n) ==
  [beat |-> beat, rank |-> rank, frames |-> n, left |-> 1, overtaken |-> FALSE]

NewTransfer(beat, rank, n) ==
  [beat |-> beat, rank |-> rank, frames |-> n, left |-> Lifetime + 1,
   overtaken |-> FALSE]

Push(beat, rank, n) ==
  queue' = IF FramesIn(queue) + n <= Capacity
           THEN Enqueued(queue, NewTransfer(beat, rank, n))
           ELSE queue

(* The application pushes a transfer of its own, or a heartbeat (rank 1).   *)
AppPush ==
  /\ pc = "idle"
  /\ \E rank \in 0 .. 2, n \in 1 .. MaxFrames : Push(FALSE, rank, n)
  /\ UNCHANGED <<pc, txq, beat_in, since_task>>

-----------------------------------------------------------------------------
(* leos_cyphal_task, first half: canardTxPoll flushes the transfers past     *)
(* their deadline and offers the first frame to canard_mcp_tx_frame.         *)

TaskCall_AskFirst ==
  /\ pc = "idle"
  /\ \E at \in Unexpired(queue) :
       /\ queue' = [i \in DOMAIN at |->
                      [queue[at[i]] EXCEPT !.overtaken = @ \/ i > 1]]
       /\ pc' = IF queue = <<>> THEN "heartbeat" ELSE "status"
  /\ since_task' = 0
  /\ UNCHANGED <<txq, beat_in>>

TaskCall ==
  /\ pc = "idle"
  /\ \E at \in Unexpired(queue) :
       /\ queue' = [i \in DOMAIN at |->
                      [queue[at[i]] EXCEPT !.overtaken = @ \/ i > 1]]
       /\ pc' = IF at = <<>> THEN "heartbeat" ELSE "status"
  /\ since_task' = 0
  /\ UNCHANGED <<txq, beat_in>>

(* A negative result makes libcanard drop the transfer.                     *)
TransferDropped ==
  /\ pc' = "heartbeat"
  /\ queue' = Tail(queue)

AccessFails ==
  /\ AccessFaults
  /\ pc \in {"status", "transmit"}
  /\ TransferDropped
  /\ UNCHANGED <<txq, beat_in, since_task>>


TxStatus ==
  /\ pc = "status"
  /\ pc' = IF txq < TxqSize THEN "transmit" ELSE "reset"
  /\ UNCHANGED <<queue, txq, beat_in, since_task>>

(* MCP251XFD_ResetTXQ empties the queue of the chip; its result is ignored.  *)
TxReset ==
  /\ pc = "reset"
  /\ pc' = "transmit"
  /\ \/ txq' = 0
     \/ AccessFaults /\ UNCHANGED txq
  /\ UNCHANGED <<queue, beat_in, since_task>>

Transmit ==
  /\ pc = "transmit"
  /\ \/ /\ txq < TxqSize
        /\ txq' = txq + 1
        /\ queue' = HeadSent
        /\ pc' = "heartbeat"
     \/ /\ txq = TxqSize                 \* the reset has failed
        /\ TransferDropped
        /\ UNCHANGED txq
  /\ UNCHANGED <<beat_in, since_task>>

(* Second half: the periodic heartbeat. next_heartbeat moves on whether or   *)
(* not the push was refused.                                                 *)
Heartbeat ==
  /\ pc = "heartbeat"
  /\ pc' = "idle"
  /\ IF beat_in = 0
     THEN Push(TRUE, 1, 1) /\ beat_in' = Interval + 1
     ELSE UNCHANGED <<queue, beat_in>>
  /\ UNCHANGED <<txq, since_task>>

-----------------------------------------------------------------------------
(* leos_cyphal_init again: the node and the heap of its queue start afresh.  *)
Reinit ==
  /\ pc = "idle"
  /\ queue' = <<>> /\ beat_in' = 0
  /\ UNCHANGED <<pc, txq, since_task>>

(* leos_mcp251xfd_task finds the attempts to send exhausted.                  *)
ServiceResets ==
  /\ pc = "idle"
  /\ txq' = 0
  /\ UNCHANGED <<pc, queue, beat_in, since_task>>

-----------------------------------------------------------------------------
(* The chip sends a frame; time passes between calls.                        *)

ChipSends ==
  /\ txq > 0
  /\ txq' = txq - 1
  /\ UNCHANGED <<pc, queue, beat_in, since_task>>

Less(n) == IF n = 0 THEN 0 ELSE n - 1

Tick ==
  /\ pc = "idle" /\ since_task < Period
  /\ since_task' = since_task + 1
  /\ beat_in' = Less(beat_in)
  /\ queue' = [i \in DOMAIN queue |-> [queue[i] EXCEPT !.left = Less(@)]]
  /\ UNCHANGED <<pc, txq>>

Init ==
  /\ pc = "idle" /\ queue = <<>> /\ txq = 0
  /\ beat_in = 0 /\ since_task = 0

Task == TaskCall \/ TxStatus \/ TxReset \/ Transmit \/ Heartbeat

Next == AppPush \/ Task \/ AccessFails \/ Reinit \/ ServiceResets \/ ChipSends \/ Tick

Spec == Init /\ [][Next]_vars

(* Time passes and the main loop calls the task; whether the chip ever sends *)
(* (is there another node to acknowledge?) is left open.                     *)
FairSpec == Spec /\ WF_vars(Task) /\ SF_vars(Tick)

-----------------------------------------------------------------------------
(* Every variable keeps its type, and a frame is offered only from a queue    *)
(* that has one.                                                             *)
TypeOK ==
  /\ pc \in Steps
  /\ queue \in Seq(Transfers)
  /\ txq \in 0 .. TxqSize
  /\ beat_in \in 0 .. Interval + 1 /\ since_task \in 0 .. Period
  /\ pc \in {"status", "reset", "transmit"} => queue # <<>>

(* A heartbeat that is queued never expires before the transport was offered *)
(* it, unless transfers before it in the queue kept the one frame per task.  *)
HeartbeatExpiresOnlyOvertaken ==
  \A i \in DOMAIN queue :
    queue[i].beat /\ queue[i].left = 0 => queue[i].overtaken

(* Whatever the backlog, the heartbeats of two intervals are never queued     *)
(* together: the task polls, and so flushes the old one, before it publishes. *)
OneHeartbeatQueued ==
  \A i, j \in DOMAIN queue : queue[i].beat /\ queue[j].beat => i = j

(* What may keep a heartbeat from the chip: it is dropped because an access   *)
(* or the reset fails, the node starts afresh, or the application pushes a    *)
(* transfer that is sent no later.                                           *)
Disturbs ==
  \/ AccessFails /\ Head(queue).beat
  \/ Reinit
  \/ pc = "idle" /\ \E rank \in 0 .. 1, n \in 1 .. MaxFrames : Push(FALSE, rank, n)

(* A heartbeat is handed to the chip.                                        *)
BeatSent == Transmit /\ Head(queue).beat /\ txq' = txq + 1

=============================================================================
