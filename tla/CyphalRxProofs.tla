--------------------------- MODULE CyphalRxProofs ---------------------------
(***************************************************************************)
(* Theorems about the receiving side of a node, for every set of keys,     *)
(* every heap and every depth of the FIFO.                                 *)
(***************************************************************************)
EXTENDS CyphalRx, CyphalSubscriptionsProofs

USE RxAssumption, KeysAssumption, SubsAssumption

(* A step of the whole node is a step of the subscriptions or leaves them.   *)
LEMMA StepOfSubscriptions == [RxNext]_allVars => [Next]_vars
<1> SUFFICES ASSUME [RxNext]_allVars PROVE [Next]_vars
  OBVIOUS
<1>1. CASE UNCHANGED allVars
  BY <1>1 DEF allVars
<1>2. CASE RxNext
  BY <1>2 DEF RxNext, Next, AppReinit, AppSubscribeRejected, AppSubscribe,
         AppUnsubscribe, ChipFrame, CheckFifo, ReceiveFails, Receive,
         CallbackReturns
<1> QED
  BY <1>1, <1>2

LEMMA NodeBehavesAsSpec == RxSpec => Spec
<1>1. RxInit => Init
  BY DEF RxInit
<1> QED
  BY <1>1, StepOfSubscriptions, PTL DEF RxSpec, Spec

(* With distinct ports the object whose callback the receive loop calls is   *)
(* allocated, although callbacks themselves unsubscribe and subscribe anew.  *)
THEOREM CallbacksStayLive == DistinctPorts => (RxSpec => []RegisteredIsLive)
<1> SUFFICES ASSUME DistinctPorts PROVE RxSpec => []RegisteredIsLive
  OBVIOUS
<1> QED
  BY NodeBehavesAsSpec, DistinctPortsAreSafe, PTL

(* So does what is proved of the subscriptions alone: their table and the heap *)
(* agree while payloads come and go on the same heap.                        *)
THEOREM NodeFreesNothingTwice == RxSpec => [](TypeOK /\ SlotsOwned)
  BY NodeBehavesAsSpec, NothingFreedTwice, PTL

(* And with distinct ports the table follows libcanard's tree.               *)
THEOREM NodeKeepsTable == DistinctPorts => (RxSpec => []TableMatchesRegistry)
<1> SUFFICES ASSUME DistinctPorts PROVE RxSpec => []TableMatchesRegistry
  OBVIOUS
<1> QED
  BY NodeBehavesAsSpec, TableFollowsRegistry, PTL

(* With distinct ports the receiving node, seen by its subscribers, is one    *)
(* map of keys to objects.                                                   *)
THEOREM NodeIsSubscriptionMap == DistinctPorts => (RxSpec => IsSubscriptionMap)
<1> SUFFICES ASSUME DistinctPorts PROVE RxSpec => IsSubscriptionMap
  OBVIOUS
<1> QED
  BY NodeBehavesAsSpec, RefinesSubscriptionMap, PTL

-----------------------------------------------------------------------------
(* The inductive invariant: what HeapAccounted says with the two conditions   *)
(* it needs to survive a step, that a payload is being delivered exactly      *)
(* during a callback and that no key is still receiving into it.              *)
Delivering ==
  /\ rx_pc = "callback" <=> payload # None
  /\ payload # None => \A k \in Keys : sess[k] # payload

RxInv == TypeOK /\ RxTypeOK /\ HeapAccounted /\ Delivering

LEMMA RxInitInv == RxInit => RxInv
<1> SUFFICES ASSUME RxInit PROVE RxInv
  OBVIOUS
<1>1. TypeOK
  BY InitOwned DEF RxInit, Owned
<1> QED
  BY <1>1 DEF RxInit, Init, RxInv, RxTypeOK, RxSteps, HeapAccounted, Held, Delivering

(* Unlinking an object and releasing what its key was receiving.             *)
LEMMA CloseKeeps ==
  ASSUME RxInv, TypeOK', NEW k \in Keys, CloseSession(k), AppRuns,
         UNCHANGED <<rx_pc, fifo, payload>>, allocated' \cap buffers' = {}
  PROVE  RxInv'
<1> USE DEF RxInv, TypeOK, RxTypeOK, HeapAccounted, Delivering, CloseSession, Held
<1>1. \A l \in Keys : sess'[l] = IF l = k THEN None ELSE sess[l]
  OBVIOUS
<1>2. RxTypeOK' /\ Delivering'
  BY <1>1
<1>3. buffers' = Held' \cup ({payload'} \ {None})
  <2>1. sess[k] = None \/ Held' = Held \ {sess[k]}
    BY <1>1
  <2>2. sess[k] = None => Held' = Held
    BY <1>1
  <2> QED
    BY <2>1, <2>2
<1>4. HeapAccounted'
  BY <1>1, <1>3
<1> QED
  BY <1>2, <1>4

(* The three things a frame may do to the block of its key.                  *)
LEMMA AcceptsCases ==
  ASSUME RxInv, NEW k \in Keys, NEW first \in BOOLEAN, NEW last \in BOOLEAN,
         NEW a \in Accepts(k, first, last)
  PROVE  /\ a.result \in {"transfer", "nothing", "error"}
         /\ a.sess \in Blocks \cup {None} /\ a.payload \in Blocks \cup {None}
         /\ a.result = "transfer" <=> a.payload # None
         /\ a.sess = None \/ a.payload = None
         /\ \A b \in {a.sess, a.payload} \ {None} :
              b \in Blocks /\ b \notin allocated /\ b \notin buffers \ {sess[k]}
  BY DEF Accepts, Written, Outcome, RxInv, TypeOK, RxTypeOK, HeapAccounted, Held

LEMMA ReceiveKeeps == RxInv /\ Receive => RxInv'
<1> SUFFICES ASSUME RxInv, Receive PROVE RxInv'
  OBVIOUS
<1>1. PICK k \in Keys, first \in BOOLEAN, last \in BOOLEAN :
        \E a \in Accepts(k, first, last) :
          /\ sess' = [sess EXCEPT ![k] = a.sess]
          /\ payload' = a.payload
          /\ buffers' = (buffers \ {sess[k]}) \cup ({a.sess, a.payload} \ {None})
          /\ rx_pc' \in GoesOn(a.result)
  BY DEF Receive
<1>2. PICK a \in Accepts(k, first, last) :
          /\ sess' = [sess EXCEPT ![k] = a.sess]
          /\ payload' = a.payload
          /\ buffers' = (buffers \ {sess[k]}) \cup ({a.sess, a.payload} \ {None})
          /\ rx_pc' \in GoesOn(a.result)
  BY <1>1
<1>3. /\ a.result \in {"transfer", "nothing", "error"}
      /\ a.sess \in Blocks \cup {None} /\ a.payload \in Blocks \cup {None}
      /\ a.result = "transfer" <=> a.payload # None
      /\ a.sess = None \/ a.payload = None
      /\ \A b \in {a.sess, a.payload} \ {None} :
           b \in Blocks /\ b \notin allocated /\ b \notin buffers \ {sess[k]}
  BY AcceptsCases
<1>4. rx_pc = "receive" /\ fifo' = fifo - 1 /\ UNCHANGED vars
  BY DEF Receive
<1>5. payload = None
  BY <1>4 DEF RxInv, Delivering
<1>6. TypeOK'
  BY <1>4 DEF RxInv, TypeOK, vars
<1>7. /\ rx_pc' \in {"idle", "callback", "more"}
      /\ rx_pc' = "callback" <=> a.result = "transfer"
  BY <1>2, <1>3 DEF GoesOn
<1>8. \A l \in Keys : sess'[l] = IF l = k THEN a.sess ELSE sess[l]
  BY <1>2 DEF RxInv, RxTypeOK
<1>9. fifo' \in 0 .. FifoDepth
  BY <1>4 DEF RxInv, RxTypeOK
<1>10. sess' \in [Keys -> Blocks \cup {None}]
  BY <1>2, <1>3 DEF RxInv, RxTypeOK
<1>11. RxTypeOK'
  BY <1>2, <1>3, <1>7, <1>9, <1>10 DEF RxInv, RxTypeOK, RxSteps
<1>12. \A l \in Keys \ {k} : sess[l] # None => sess[l] \in buffers \ {sess[k]}
  BY DEF RxInv, HeapAccounted, Held
<1>13. Delivering'
  BY <1>2, <1>3, <1>7, <1>8, <1>12 DEF Delivering
<1>14. buffers' = Held' \cup ({payload'} \ {None})
  <2>1. buffers = Held
    BY <1>5 DEF RxInv, HeapAccounted
  <2>2. Held' = (Held \ {sess[k]}) \cup ({a.sess} \ {None})
    BY <1>8 DEF RxInv, HeapAccounted, Held
  <2> QED
    BY <1>2, <2>1, <2>2
<1>15. buffers' \cap allocated' = {}
  BY <1>2, <1>3, <1>4 DEF RxInv, HeapAccounted, vars
<1>16. \A l, m \in Keys : sess'[l] = sess'[m] /\ sess'[l] # None => l = m
  BY <1>3, <1>8, <1>12 DEF RxInv, HeapAccounted
<1> QED
  BY <1>6, <1>11, <1>13, <1>14, <1>15, <1>16 DEF RxInv, HeapAccounted

LEMMA CallbackReturnsKeeps == RxInv /\ CallbackReturns => RxInv'
<1> SUFFICES ASSUME RxInv, CallbackReturns PROVE RxInv'
  OBVIOUS
<1> USE DEF RxInv, CallbackReturns, HeapAccounted, Delivering, Held
<1>1. TypeOK'
  BY DEF TypeOK, vars
<1>2. RxTypeOK'
  BY DEF RxTypeOK, RxSteps
<1>3. buffers' = Held' \cup ({payload'} \ {None})
  OBVIOUS
<1>4. Delivering' /\ buffers' \cap allocated' = {}
  BY DEF vars
<1> QED
  BY <1>1, <1>2, <1>3, <1>4

LEMMA RxInvStep == RxInv /\ TypeOK' /\ [RxNext]_allVars => RxInv'
<1> SUFFICES ASSUME RxInv, TypeOK', [RxNext]_allVars PROVE RxInv'
  OBVIOUS
<1> USE DEF RxInv
<1>1. CASE AppReinit
  BY <1>1 DEF AppReinit, Reinit, RxTypeOK, RxSteps, HeapAccounted, Held, Delivering
<1>2. CASE AppSubscribeRejected
  BY <1>2 DEF AppSubscribeRejected, rxVars, RxTypeOK, HeapAccounted, Held, Delivering
<1>3. ASSUME NEW k \in Keys, AppSubscribe(k) PROVE RxInv'
  <2>1. allocated' \cap buffers' = {}
    BY <1>3 DEF AppSubscribe, CloseSession
  <2> QED
    BY <1>3, <2>1, CloseKeeps DEF AppSubscribe
<1>4. ASSUME NEW k \in Keys, AppUnsubscribe(k) PROVE RxInv'
  <2>1. allocated' \cap buffers' = {}
    BY <1>4 DEF AppUnsubscribe, Unsubscribe, CloseSession, HeapAccounted
  <2> QED
    BY <1>4, <2>1, CloseKeeps DEF AppUnsubscribe
<1>5. CASE ChipFrame
  BY <1>5 DEF ChipFrame, vars, RxTypeOK, RxSteps, HeapAccounted, Held, Delivering
<1>6. CASE CheckFifo("idle") \/ CheckFifo("more") \/ ReceiveFails
  BY <1>6 DEF CheckFifo, ReceiveFails, vars, RxTypeOK, RxSteps, HeapAccounted,
              Held, Delivering
<1>7. CASE Receive
  BY <1>7, ReceiveKeeps
<1>8. CASE CallbackReturns
  BY <1>8, CallbackReturnsKeeps
<1>9. CASE UNCHANGED allVars
  BY <1>9 DEF allVars, rxVars, vars, RxTypeOK, HeapAccounted, Held, Delivering
<1> QED
  BY <1>1, <1>2, <1>3, <1>4, <1>5, <1>6, <1>7, <1>8, <1>9 DEF RxNext

LEMMA RxInvHolds == RxSpec => []RxInv
<1>1. RxSpec => []TypeOK
  BY NodeBehavesAsSpec, TypeCorrect, PTL
<1> QED
  BY <1>1, RxInitInv, RxInvStep, PTL DEF RxSpec

(* The variables of the receiving side keep their types.                     *)
THEOREM RxTypeCorrect == RxSpec => []RxTypeOK
  BY RxInvHolds, PTL DEF RxInv

(* Every payload block belongs to one transfer that is being received or     *)
(* delivered, for any order of frames, failures, subscriptions and callbacks.*)
THEOREM NoPayloadLeaks == RxSpec => []HeapAccounted
  BY RxInvHolds, PTL DEF RxInv

(* A callback's data is not freed or handed out before it returns.           *)
THEOREM CallbackDataIsPrivate == RxSpec => []PayloadIsPrivate
<1>1. RxInv => PayloadIsPrivate
  BY DEF RxInv, HeapAccounted, Delivering, PayloadIsPrivate, RxTypeOK
<1> QED
  BY <1>1, RxInvHolds, PTL
=============================================================================
