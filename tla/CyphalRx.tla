------------------------------ MODULE CyphalRx ------------------------------
(***************************************************************************)
(* Receiving side of a Cyphal node: leos_cyphal_rx_process                  *)
(* (src/leos_cyphal/node/cyphal.c), canard_mcp_rx_process                   *)
(* (src/leos_cyphal/transport/mcp251xfd/driver.c) and the dispatch to a     *)
(* subscription (src/leos_cyphal/transport/transport.c), composed with the  *)
(* subscriptions of the node. All share one heap, and a callback may        *)
(* subscribe and unsubscribe while the receive loop is waiting for it.      *)
(***************************************************************************)
EXTENDS CyphalSubscriptions

CONSTANTS
  FifoDepth,      \* frames FIFO1 of the chip holds
  AccessFaults    \* may an access to the chip fail?

ASSUME RxAssumption == FifoDepth \in Nat /\ AccessFaults \in BOOLEAN

VARIABLES
  rx_pc,          \* "idle", or what the running receive loop does next
  fifo,           \* number of frames in FIFO1
  sess,           \* libcanard: payload block of the transfer each key is receiving
  payload,        \* transfer.payload.data while it is being delivered
  buffers         \* blocks of the heap that libcanard has allocated for payloads

rxVars == <<rx_pc, fifo, sess, payload, buffers>>
allVars == <<vars, rxVars>>

RxSteps == {"idle", "receive", "callback", "more"}

RxInit ==
  /\ Init
  /\ rx_pc = "idle" /\ fifo = 0
  /\ sess = [k \in Keys |-> None]
  /\ payload = None /\ buffers = {}

-----------------------------------------------------------------------------
(* The application, from its main loop or from within a callback.           *)

AppRuns == rx_pc \in {"idle", "callback"}

(* libcanard releases what the key was receiving when its object is unlinked.*)
CloseSession(k) ==
  /\ sess' = [sess EXCEPT ![k] = None]
  /\ buffers' = buffers \ {sess[k]}

AppSubscribe(k) ==
  /\ AppRuns
  /\ Subscribe(k) /\ allocated' \cap buffers = {}
  /\ CloseSession(k)
  /\ UNCHANGED <<rx_pc, fifo, payload>>

AppSubscribeRejected ==
  /\ AppRuns
  /\ SubscribeRejected /\ allocated' \cap buffers = {}
  /\ UNCHANGED rxVars

AppUnsubscribe(k) ==
  /\ AppRuns
  /\ Unsubscribe(k)
  /\ CloseSession(k)
  /\ UNCHANGED <<rx_pc, fifo, payload>>

AppReinit ==
  /\ rx_pc = "idle"
  /\ Reinit
  /\ sess' = [k \in Keys |-> None]
  /\ buffers' = {}
  /\ UNCHANGED <<rx_pc, fifo, payload>>

-----------------------------------------------------------------------------
(* The receive loop.                                                        *)

ChipFrame ==
  /\ fifo < FifoDepth
  /\ fifo' = fifo + 1
  /\ UNCHANGED <<vars, rx_pc, sess, payload, buffers>>

(* The status of the FIFO is read before the first frame and after each one. *)
CheckFifo_IgnoreEmpty(from) ==
  /\ rx_pc = from
  /\ \/ rx_pc' = "receive"
     \/ AccessFaults /\ rx_pc' = "idle"
  /\ UNCHANGED <<vars, fifo, sess, payload, buffers>>

CheckFifo(from) ==
  /\ rx_pc = from
  /\ \/ rx_pc' = IF fifo > 0 THEN "receive" ELSE "idle"
     \/ AccessFaults /\ rx_pc' = "idle"
  /\ UNCHANGED <<vars, fifo, sess, payload, buffers>>

ReceiveFails ==
  /\ AccessFaults
  /\ rx_pc = "receive" /\ rx_pc' = "idle"
  /\ UNCHANGED <<vars, fifo, sess, payload, buffers>>

(* Outcomes of canardRxAccept (external) for a frame of key k: what it        *)
(* returns, the block the key goes on receiving into and the block of the     *)
(* completed transfer. The first frame of a transfer abandons the one before  *)
(* and takes a block, which the heap may refuse; a repeated frame or one out  *)
(* of sequence is ignored; the last one may show a wrong checksum.            *)
Outcome(r, s, p) == [result |-> r, sess |-> s, payload |-> p]

Written(b, last) ==
  IF last THEN {Outcome("transfer", None, b), Outcome("nothing", None, None)}
          ELSE {Outcome("nothing", b, None)}

Accepts(k, first, last) ==
  LET Usable == Blocks \ (allocated \cup (buffers \ {sess[k]}))
  IN {Outcome("nothing", sess[k], None)} \cup
       IF reg[k] = None THEN {}
       ELSE IF first
            THEN {Outcome("error", None, None)} \cup
                   UNION {Written(b, last) : b \in Usable}
            ELSE IF sess[k] = None THEN {} ELSE Written(sess[k], last)

(* A negative result breaks the loop, but only if the enumeration it is       *)
(* stored in is signed.                                                      *)
GoesOn(result) ==
  CASE result = "transfer" -> {"callback"}
    [] result = "nothing"  -> {"more"}
    [] result = "error"    -> {"idle", "more"}

(* One frame. A completed transfer goes to the callback of the object that is *)
(* linked for its key.                                                       *)
Receive_FreeBeforeCallback ==
  /\ rx_pc = "receive"
  /\ fifo' = fifo - 1
  /\ \E k \in Keys, first, last \in BOOLEAN :
       \E a \in Accepts(k, first, last) :
         /\ sess' = [sess EXCEPT ![k] = a.sess]
         /\ payload' = a.payload
         /\ buffers' = (buffers \ {sess[k]}) \cup ({a.sess} \ {None})
         /\ rx_pc' \in GoesOn(a.result)
  /\ UNCHANGED vars

Receive ==
  /\ rx_pc = "receive"
  /\ fifo' = fifo - 1
  /\ \E k \in Keys, first, last \in BOOLEAN :
       \E a \in Accepts(k, first, last) :
         /\ sess' = [sess EXCEPT ![k] = a.sess]
         /\ payload' = a.payload
         /\ buffers' = (buffers \ {sess[k]}) \cup ({a.sess, a.payload} \ {None})
         /\ rx_pc' \in GoesOn(a.result)
  /\ UNCHANGED vars

CallbackReturns_Keep ==
  /\ rx_pc = "callback" /\ rx_pc' = "more"
  /\ payload' = None
  /\ UNCHANGED <<vars, fifo, sess, buffers>>

(* The payload is freed after the callback.                                 *)
CallbackReturns ==
  /\ rx_pc = "callback" /\ rx_pc' = "more"
  /\ payload' = None
  /\ buffers' = buffers \ {payload}
  /\ UNCHANGED <<vars, fifo, sess>>

RxNext ==
  /\ RegisteredIsLive
  /\ \/ AppReinit
     \/ AppSubscribeRejected
     \/ \E k \in Keys : AppSubscribe(k) \/ AppUnsubscribe(k)
     \/ ChipFrame
     \/ CheckFifo("idle")
     \/ CheckFifo("more")
     \/ ReceiveFails
     \/ Receive
     \/ CallbackReturns

RxSpec == RxInit /\ [][RxNext]_allVars

-----------------------------------------------------------------------------
Held == {sess[k] : k \in {l \in Keys : sess[l] # None}}

(* The variables of the receiving side keep their types.                    *)
RxTypeOK ==
  /\ rx_pc \in RxSteps /\ fifo \in 0 .. FifoDepth
  /\ sess \in [Keys -> Blocks \cup {None}]
  /\ payload \in Blocks \cup {None} /\ buffers \subseteq Blocks
  /\ rx_pc = "receive" => fifo > 0

(* While a callback runs, the data it was given stays allocated and is not   *)
(* handed to anyone else, whatever the callback itself subscribes to or       *)
(* unsubscribes from, its own subscription included.                         *)
PayloadIsPrivate ==
  rx_pc = "callback" =>
    /\ payload \in buffers
    /\ payload \notin allocated
    /\ \A k \in Keys : sess[k] # payload

(* Every payload block on the heap belongs to a transfer being received or   *)
(* being delivered, in every order of frames, errors and calls: nothing leaks *)
(* and no block is owned twice.                                              *)
HeapAccounted ==
  /\ buffers = Held \cup ({payload} \ {None})
  /\ buffers \cap allocated = {}
  /\ \A k, l \in Keys : sess[k] = sess[l] /\ sess[k] # None => k = l
=============================================================================
