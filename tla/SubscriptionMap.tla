-------------------------- MODULE SubscriptionMap --------------------------
(***************************************************************************)
(* What the node promises about its subscriptions: a map from keys to      *)
(* objects. Subscribing gives a key an object nobody else has,             *)
(* unsubscribing or subscribing again releases the object of that key and  *)
(* no other. The node keeps track of Capacity objects; one beyond these    *)
(* serves its key like any other, but it is an orphan: neither it nor one  *)
(* left by a refused call is ever released, and none is touched again.     *)
(***************************************************************************)
EXTENDS Naturals, FiniteSets

CONSTANTS Keys, Objects, Capacity, None

VARIABLES
  subs,             \* the object of each key, or None
  orphans           \* objects that are in use, or lost, and never released

Used == ({subs[k] : k \in Keys} \ {None}) \cup orphans

(* The keys whose objects the node keeps track of.                          *)
Kept == {k \in Keys : subs[k] # None /\ subs[k] \notin orphans}

Init ==
  /\ subs = [k \in Keys |-> None]
  /\ orphans = {}

Subscribe(k) ==
  \E o \in Objects \ Used :
    /\ subs' = [subs EXCEPT ![k] = o]
    /\ orphans' = IF Cardinality(Kept \ {k}) < Capacity THEN orphans
                                                      ELSE orphans \cup {o}

Reject ==
  /\ \E o \in Objects \ Used : orphans' = orphans \cup {o}
  /\ UNCHANGED subs

Unsubscribe(k) ==
  /\ subs[k] # None
  /\ subs' = [subs EXCEPT ![k] = None]
  /\ UNCHANGED orphans

(* The node is initialised again.                                           *)
Clear ==
  /\ subs' = [k \in Keys |-> None]
  /\ orphans' = {}

Next == Clear \/ Reject \/ \E k \in Keys : Subscribe(k) \/ Unsubscribe(k)

Spec == Init /\ [][Next]_<<subs, orphans>>
=============================================================================
