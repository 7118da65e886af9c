------------------------ MODULE CyphalSubscriptions ------------------------
(***************************************************************************)
(* Subscriptions of a Cyphal node (src/leos_cyphal/node/cyphal.c, 87-166). *)
(* A subscription is an object on the node's heap. libcanard links it into *)
(* the tree of its transfer kind (reg), the node keeps a pointer to it in  *)
(* a table of fixed size (slots) to be able to free it.                    *)
(*                                                                         *)
(* Once the tree links a freed object, C says nothing about what follows:  *)
(* a behaviour of this module ends there.                                  *)
(***************************************************************************)
EXTENDS Naturals

CONSTANTS
  Keys,           \* the (kind, port) pairs the application subscribes to
  Blocks,         \* heap blocks that fit a subscription
  MaxSubs,        \* CYPHAL_MAX_SUBSCRIPTIONS
  None            \* NULL

Blank == [kind |-> None, port |-> None]   \* content of a block never used

ASSUME KeysAssumption ==
  /\ \A k \in Keys : k = [kind |-> k.kind, port |-> k.port]
  /\ Blank \notin Keys
ASSUME SubsAssumption == MaxSubs \in Nat /\ None \notin Blocks

VARIABLES
  allocated,      \* blocks of the heap in use
  keyOf,          \* the key written into each block when it was last set up
  reg,            \* libcanard: the object linked for each key, or None
  slots           \* node->subscriptions

vars == <<allocated, keyOf, reg, slots>>

Slots == 1 .. MaxSubs

(* With distinct ports, libcanard never delivers to a freed object.          *)
RegisteredIsLive == \A k \in Keys : reg[k] # None => reg[k] \in allocated

-----------------------------------------------------------------------------
Init ==
  /\ allocated = {}
  /\ keyOf = [o \in Blocks |-> Blank]
  /\ reg = [k \in Keys |-> None]
  /\ slots = [i \in Slots |-> None]

(* leos_cyphal_init again: the heap, the instance and the table start over. *)
Reinit ==
  /\ allocated' = {}
  /\ reg' = [k \in Keys |-> None]
  /\ slots' = [i \in Slots |-> None]
  /\ UNCHANGED keyOf

IsFirst(i, S) == i \in S /\ \A j \in S : i <= j

(* The search compares port_id only; the kind is not in the object.         *)
Matches_None(port) == {}

Matches_AnyPort(port) == {i \in Slots : slots[i] # None}

Matches(port) == {i \in Slots : slots[i] # None /\ keyOf[slots[i]].port = port}

Unreleased == [slots |-> slots, freed |-> {}]

(* Outcomes of the loop that frees the first object with this port.         *)
Releases_KeepPointer(port) ==
  {[slots |-> slots, freed |-> {slots[i]}] :
     i \in {j \in Slots : IsFirst(j, Matches(port))}}
  \cup {r \in {Unreleased} : Matches(port) = {}}

Releases(port) ==
  {[slots |-> [slots EXCEPT ![i] = None], freed |-> {slots[i]}] :
     i \in {j \in Slots : IsFirst(j, Matches(port))}}
  \cup {r \in {Unreleased} : Matches(port) = {}}

SetUp_Unwritten(o, k) == UNCHANGED keyOf

SetUp(o, k) == keyOf' = [keyOf EXCEPT ![o] = k]

Vacant_SkipLast(table) == {i \in Slots : i < MaxSubs /\ table[i] = None}

Vacant(table) == {i \in Slots : table[i] = None}

Subscribe(k) ==
  \E o \in Blocks \ allocated,
     r \in IF reg[k] = None THEN {Unreleased} ELSE Releases(k.port) :
    /\ SetUp(o, k)
    /\ reg' = [reg EXCEPT ![k] = o]
    /\ allocated' = (allocated \ r.freed) \cup {o}
    /\ \/ \E i \in Slots : /\ IsFirst(i, Vacant(r.slots))
                           /\ slots' = [r.slots EXCEPT ![i] = o]
       \/ /\ Vacant(r.slots) = {}          \* TOO_MANY_SUBSCRIPTIONS
          /\ slots' = r.slots

(* canardRxSubscribe refuses the kind: the error is passed on.              *)
SubscribeRejected ==
  /\ \E o \in Blocks \ allocated : allocated' = allocated \cup {o}
  /\ UNCHANGED <<keyOf, reg, slots>>

Unsubscribe(k) ==
  /\ reg[k] # None
  /\ reg' = [reg EXCEPT ![k] = None]
  /\ \E r \in Releases(k.port) :
       /\ slots' = r.slots
       /\ allocated' = allocated \ r.freed
  /\ UNCHANGED keyOf

Next ==
  /\ RegisteredIsLive
  /\ \/ Reinit
     \/ SubscribeRejected
     \/ \E k \in Keys : Subscribe(k) \/ Unsubscribe(k)

Spec == Init /\ [][Next]_vars

-----------------------------------------------------------------------------
(* No two keys share a port: the assumption under which the search by port   *)
(* finds the object of the key.                                              *)
DistinctPorts == \A k, l \in Keys : k.port = l.port => k = l

(* Every pointer the table holds is to an object set up for some key.        *)
TypeOK ==
  /\ allocated \subseteq Blocks
  /\ keyOf \in [Blocks -> Keys \cup {Blank}]
  /\ reg \in [Keys -> Blocks \cup {None}]
  /\ slots \in [Slots -> Blocks \cup {None}]
  /\ \A i \in Slots : slots[i] # None => keyOf[slots[i]] \in Keys

(* The table holds each object once and only while it is allocated, however  *)
(* ports are shared and tables overflow: nothing is freed twice.             *)
SlotsOwned ==
  /\ \A i \in Slots : slots[i] # None => slots[i] \in allocated
  /\ \A i, j \in Slots : slots[i] = slots[j] /\ slots[i] # None => i = j

(* With distinct ports the two structures agree: what the table can free for *)
(* a key is what libcanard links for it, also after the table overflowed.    *)
TableMatchesRegistry ==
  \A i \in Slots : slots[i] # None => reg[keyOf[slots[i]]] = slots[i]

(* The blocks in use that the table does not know.                           *)
Orphans == {o \in allocated : \A i \in Slots : slots[i] # o}

Map == INSTANCE SubscriptionMap WITH
  Objects <- Blocks, Capacity <- MaxSubs, subs <- reg, orphans <- Orphans

(* The heap, libcanard's tree and the table together are one map of keys to   *)
(* objects: with distinct ports no sequence of calls, full tables and failed  *)
(* subscribes included, frees, shares or reuses the object of another key,    *)
(* and none is lost but those the table had no place for when they were       *)
(* subscribed and those of refused kinds.                                    *)
IsSubscriptionMap == Map!Spec

-----------------------------------------------------------------------------
(* What the comments say and the code does not do.                           *)

(* unsubscribe releases the subscription of this kind and port, and no other *)
(* that libcanard still links.                                               *)
FreedIsUnlinked ==
  [][\A o \in allocated \ allocated' : \A k \in Keys : reg'[k] # o]_vars
=============================================================================
