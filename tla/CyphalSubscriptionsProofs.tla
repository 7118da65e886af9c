--------------------- MODULE CyphalSubscriptionsProofs ---------------------
(***************************************************************************)
(* Theorems about subscriptions, for every set of keys, every heap and     *)
(* every size of the table.                                                *)
(***************************************************************************)
EXTENDS CyphalSubscriptions, FiniteSetTheorems, TLAPS

USE KeysAssumption, SubsAssumption

(* The loop either finds no object with the port, or frees one that has it. *)
LEMMA ReleaseOutcome ==
  ASSUME NEW port, NEW r \in Releases(port)
  PROVE  \/ r = Unreleased /\ Matches(port) = {}
         \/ \E i \in Matches(port) :
              r = [slots |-> [slots EXCEPT ![i] = None], freed |-> {slots[i]}]
<1>1. CASE r \in {q \in {Unreleased} : Matches(port) = {}}
  BY <1>1
<1>2. CASE \E i \in {j \in Slots : IsFirst(j, Matches(port))} :
             r = [slots |-> [slots EXCEPT ![i] = None], freed |-> {slots[i]}]
  BY <1>2 DEF IsFirst
<1> QED
  BY <1>1, <1>2 DEF Releases

Owned == TypeOK /\ SlotsOwned

(* Freeing keeps the table and the heap in agreement.                        *)
LEMMA ReleaseOwned ==
  ASSUME Owned, NEW port, NEW r \in Releases(port) \cup {Unreleased}
  PROVE  /\ r.slots \in [Slots -> Blocks \cup {None}]
         /\ r.freed \subseteq allocated
         /\ \A i \in Slots : r.slots[i] # None =>
              r.slots[i] = slots[i] /\ r.slots[i] \in allocated \ r.freed
<1> USE DEF Owned, TypeOK, SlotsOwned
<1>1. CASE r = Unreleased
  BY <1>1 DEF Unreleased
<1>2. CASE r # Unreleased
  <2>1. PICK i \in Matches(port) :
          r = [slots |-> [slots EXCEPT ![i] = None], freed |-> {slots[i]}]
    BY <1>2, ReleaseOutcome
  <2>2. i \in Slots /\ slots[i] # None
    BY DEF Matches
  <2> QED
    BY <2>1, <2>2
<1> QED
  BY <1>1, <1>2

LEMMA InitOwned == Init => Owned
  BY DEF Init, Owned, TypeOK, SlotsOwned

(* What Subscribe does, with the branches on the table named.                *)
LEMMA SubscribeCases ==
  ASSUME NEW k \in Keys, Subscribe(k)
  PROVE  \E o \in Blocks \ allocated,
            r \in Releases(k.port) \cup {Unreleased} :
           /\ reg[k] = None \/ r \in Releases(k.port)
           /\ reg[k] # None \/ r = Unreleased
           /\ keyOf' = [keyOf EXCEPT ![o] = k]
           /\ reg' = [reg EXCEPT ![k] = o]
           /\ allocated' = (allocated \ r.freed) \cup {o}
           /\ \/ \E i \in Slots : /\ r.slots[i] = None
                                  /\ slots' = [r.slots EXCEPT ![i] = o]
              \/ slots' = r.slots /\ \A i \in Slots : slots'[i] # None
  BY DEF Subscribe, SetUp, IsFirst, Vacant

LEMMA SubscribeOwned ==
  ASSUME Owned, NEW k \in Keys, Subscribe(k)
  PROVE  Owned'
<1>1. PICK o \in Blocks \ allocated,
           r \in Releases(k.port) \cup {Unreleased} :
           /\ keyOf' = [keyOf EXCEPT ![o] = k]
           /\ reg' = [reg EXCEPT ![k] = o]
           /\ allocated' = (allocated \ r.freed) \cup {o}
           /\ \/ \E i \in Slots : /\ r.slots[i] = None
                                  /\ slots' = [r.slots EXCEPT ![i] = o]
              \/ slots' = r.slots /\ \A i \in Slots : slots'[i] # None
  BY SubscribeCases
<1>2. /\ r.slots \in [Slots -> Blocks \cup {None}]
      /\ r.freed \subseteq allocated
      /\ \A i \in Slots : r.slots[i] # None =>
           r.slots[i] = slots[i] /\ r.slots[i] \in allocated \ r.freed
  BY ReleaseOwned
<1>3. CASE slots' = r.slots
  BY <1>1, <1>2, <1>3 DEF Owned, TypeOK, SlotsOwned
<1>4. CASE \E i \in Slots : /\ r.slots[i] = None
                            /\ slots' = [r.slots EXCEPT ![i] = o]
  <2>1. PICK i \in Slots : r.slots[i] = None /\ slots' = [r.slots EXCEPT ![i] = o]
    BY <1>4
  <2>2. \A j \in Slots : slots'[j] = IF j = i THEN o ELSE r.slots[j]
    BY <1>2, <2>1
  <2>3. TypeOK'
    BY <1>1, <1>2, <2>1, <2>2 DEF Owned, TypeOK, SlotsOwned
  <2>4. SlotsOwned'
    BY <1>1, <1>2, <2>2 DEF Owned, TypeOK, SlotsOwned
  <2> QED
    BY <2>3, <2>4 DEF Owned
<1> QED
  BY <1>1, <1>3, <1>4

LEMMA UnsubscribeOwned ==
  ASSUME Owned, NEW k \in Keys, Unsubscribe(k)
  PROVE  Owned'
<1>1. PICK r \in Releases(k.port) :
        slots' = r.slots /\ allocated' = allocated \ r.freed
  BY DEF Unsubscribe
<1>2. /\ r.slots \in [Slots -> Blocks \cup {None}]
      /\ \A i \in Slots : r.slots[i] # None =>
           r.slots[i] = slots[i] /\ r.slots[i] \in allocated \ r.freed
  BY ReleaseOwned
<1> QED
  BY <1>1, <1>2 DEF Unsubscribe, Owned, TypeOK, SlotsOwned

LEMMA OwnedStep == Owned /\ [Next]_vars => Owned'
<1> SUFFICES ASSUME Owned, [Next]_vars PROVE Owned'
  OBVIOUS
<1>1. CASE Reinit
  BY <1>1 DEF Reinit, Owned, TypeOK, SlotsOwned
<1>2. CASE SubscribeRejected
  BY <1>2 DEF SubscribeRejected, Owned, TypeOK, SlotsOwned
<1>3. ASSUME NEW k \in Keys, Subscribe(k) PROVE Owned'
  BY <1>3, SubscribeOwned
<1>4. ASSUME NEW k \in Keys, Unsubscribe(k) PROVE Owned'
  BY <1>4, UnsubscribeOwned
<1>5. CASE UNCHANGED vars
  BY <1>5 DEF vars, Owned, TypeOK, SlotsOwned
<1> QED
  BY <1>1, <1>2, <1>3, <1>4, <1>5 DEF Next

(* The table holds each object once and only while it is allocated, however  *)
(* ports are shared and tables overflow: nothing is freed twice.             *)
THEOREM NothingFreedTwice == Spec => [](TypeOK /\ SlotsOwned)
  BY InitOwned, OwnedStep, PTL DEF Spec, Owned

(* In particular every pointer of the table is to an object that subscribe   *)
(* has set up for some key.                                                  *)
THEOREM TypeCorrect == Spec => []TypeOK
  BY NothingFreedTwice, PTL

-----------------------------------------------------------------------------
(* With distinct ports.                                                      *)

(* The object linked for a key carries that key.                             *)
LinkedUnderOwnKey == \A k \in Keys : reg[k] # None => keyOf[reg[k]] = k

Agree == Owned /\ RegisteredIsLive /\ TableMatchesRegistry /\ LinkedUnderOwnKey

LEMMA InitAgree == Init => Agree
<1> SUFFICES ASSUME Init PROVE Agree
  OBVIOUS
<1>1. Owned
  BY InitOwned
<1> QED
  BY <1>1 DEF Init, Agree, RegisteredIsLive, TableMatchesRegistry,
              LinkedUnderOwnKey

(* What the loop frees is the object linked for the key, if the table has it.*)
LEMMA ReleaseIsOfKey ==
  ASSUME DistinctPorts, Agree, NEW k \in Keys, NEW r \in Releases(k.port)
  PROVE  \/ /\ r = Unreleased
            /\ \A i \in Slots : slots[i] # None => keyOf[slots[i]] # k
         \/ \E i \in Slots :
              /\ slots[i] # None /\ keyOf[slots[i]] = k /\ reg[k] = slots[i]
              /\ r = [slots |-> [slots EXCEPT ![i] = None], freed |-> {slots[i]}]
<1>1. CASE r = Unreleased /\ Matches(k.port) = {}
  BY <1>1 DEF Matches
<1>2. CASE \E i \in Matches(k.port) :
             r = [slots |-> [slots EXCEPT ![i] = None], freed |-> {slots[i]}]
  <2>1. PICK i \in Matches(k.port) :
          r = [slots |-> [slots EXCEPT ![i] = None], freed |-> {slots[i]}]
    BY <1>2
  <2>2. i \in Slots /\ slots[i] # None /\ keyOf[slots[i]].port = k.port
    BY DEF Matches
  <2>3. keyOf[slots[i]] = k
    BY <2>2 DEF DistinctPorts, Agree, Owned, TypeOK
  <2> QED
    BY <2>1, <2>2, <2>3 DEF Agree, TableMatchesRegistry
<1> QED
  BY <1>1, <1>2, ReleaseOutcome

(* After unlinking a key and freeing, whatever the table still holds belongs *)
(* to another key, and whatever is linked for another key is untouched.      *)
LEMMA ReleaseAgree ==
  ASSUME DistinctPorts, Agree, NEW k \in Keys,
         NEW r \in Releases(k.port) \cup {Unreleased},
         reg[k] = None \/ r \in Releases(k.port)
  PROVE  /\ \A i \in Slots : r.slots[i] # None =>
              r.slots[i] = slots[i] /\ keyOf[slots[i]] # k
         /\ \A l \in Keys \ {k} : reg[l] # None => reg[l] \in allocated \ r.freed
         /\ \A i \in Slots : slots[i] # None /\ keyOf[slots[i]] # k =>
              r.slots[i] = slots[i]
<1> USE DEF Agree, Owned, TypeOK, SlotsOwned, RegisteredIsLive,
            TableMatchesRegistry, LinkedUnderOwnKey
<1>1. CASE /\ r = Unreleased
           /\ \A i \in Slots : slots[i] # None => keyOf[slots[i]] # k
  BY <1>1 DEF Unreleased
<1>2. CASE \E i \in Slots :
             /\ slots[i] # None /\ keyOf[slots[i]] = k /\ reg[k] = slots[i]
             /\ r = [slots |-> [slots EXCEPT ![i] = None], freed |-> {slots[i]}]
  <2>1. PICK i \in Slots :
          /\ slots[i] # None /\ keyOf[slots[i]] = k /\ reg[k] = slots[i]
          /\ r = [slots |-> [slots EXCEPT ![i] = None], freed |-> {slots[i]}]
    BY <1>2
  <2>2. \A j \in Slots : r.slots[j] = IF j = i THEN None ELSE slots[j]
    BY <2>1
  <2>3. \A j \in Slots : r.slots[j] # None =>
          r.slots[j] = slots[j] /\ keyOf[slots[j]] # k
    BY <2>1, <2>2
  <2>4. \A l \in Keys \ {k} : reg[l] # None => reg[l] \in allocated \ r.freed
    BY <2>1
  <2>5. \A j \in Slots : slots[j] # None /\ keyOf[slots[j]] # k =>
          r.slots[j] = slots[j]
    BY <2>1, <2>2
  <2> QED
    BY <2>3, <2>4, <2>5
<1>3. CASE reg[k] = None /\ r = Unreleased
  BY <1>3 DEF Unreleased
<1> QED
  BY <1>1, <1>2, <1>3, ReleaseIsOfKey

LEMMA SubscribeAgree ==
  ASSUME DistinctPorts, Agree, NEW k \in Keys, Subscribe(k)
  PROVE  Agree'
<1>1. PICK o \in Blocks \ allocated,
           r \in Releases(k.port) \cup {Unreleased} :
           /\ reg[k] = None \/ r \in Releases(k.port)
           /\ keyOf' = [keyOf EXCEPT ![o] = k]
           /\ reg' = [reg EXCEPT ![k] = o]
           /\ allocated' = (allocated \ r.freed) \cup {o}
           /\ \/ \E i \in Slots : /\ r.slots[i] = None
                                  /\ slots' = [r.slots EXCEPT ![i] = o]
              \/ slots' = r.slots /\ \A i \in Slots : slots'[i] # None
  BY SubscribeCases
<1>2. /\ \A i \in Slots : r.slots[i] # None =>
           r.slots[i] = slots[i] /\ keyOf[slots[i]] # k
      /\ \A l \in Keys \ {k} : reg[l] # None => reg[l] \in allocated \ r.freed
  BY <1>1, ReleaseAgree
<1>3. /\ r.slots \in [Slots -> Blocks \cup {None}]
      /\ \A i \in Slots : r.slots[i] # None => r.slots[i] \in allocated \ r.freed
  BY ReleaseOwned DEF Agree
<1>4. Owned'
  BY SubscribeOwned DEF Agree
<1>5. /\ \A l \in Keys : reg'[l] = IF l = k THEN o ELSE reg[l]
      /\ \A b \in Blocks : keyOf'[b] = IF b = o THEN k ELSE keyOf[b]
  BY <1>1 DEF Agree, Owned, TypeOK
<1>6. RegisteredIsLive'
  BY <1>1, <1>2, <1>5 DEF RegisteredIsLive
<1>7. LinkedUnderOwnKey'
  BY <1>1, <1>2, <1>5 DEF LinkedUnderOwnKey, Agree, Owned, TypeOK
<1>8. CASE slots' = r.slots
  <2>1. TableMatchesRegistry'
    BY <1>1, <1>2, <1>3, <1>5, <1>8
       DEF TableMatchesRegistry, Agree, Owned, TypeOK
  <2> QED
    BY <1>4, <1>6, <1>7, <2>1 DEF Agree
<1>9. CASE \E i \in Slots : /\ r.slots[i] = None
                            /\ slots' = [r.slots EXCEPT ![i] = o]
  <2>1. PICK i \in Slots : r.slots[i] = None /\ slots' = [r.slots EXCEPT ![i] = o]
    BY <1>9
  <2>2. \A j \in Slots : slots'[j] = IF j = i THEN o ELSE r.slots[j]
    BY <1>3, <2>1
  <2>3. TableMatchesRegistry'
    BY <1>1, <1>2, <1>3, <1>5, <2>2
       DEF TableMatchesRegistry, Agree, Owned, TypeOK
  <2> QED
    BY <1>4, <1>6, <1>7, <2>3 DEF Agree
<1> QED
  BY <1>1, <1>8, <1>9

LEMMA UnsubscribeAgree ==
  ASSUME DistinctPorts, Agree, NEW k \in Keys, Unsubscribe(k)
  PROVE  Agree'
<1>1. PICK r \in Releases(k.port) :
        slots' = r.slots /\ allocated' = allocated \ r.freed
  BY DEF Unsubscribe
<1>2. /\ \A i \in Slots : r.slots[i] # None =>
           r.slots[i] = slots[i] /\ keyOf[slots[i]] # k
      /\ \A l \in Keys \ {k} : reg[l] # None => reg[l] \in allocated \ r.freed
  BY <1>1, ReleaseAgree
<1>3. Owned'
  BY UnsubscribeOwned DEF Agree
<1>4. \A l \in Keys : reg'[l] = IF l = k THEN None ELSE reg[l]
  BY DEF Unsubscribe, Agree, Owned, TypeOK
<1>5. keyOf' = keyOf
  BY DEF Unsubscribe
<1>6. RegisteredIsLive' /\ LinkedUnderOwnKey'
  BY <1>1, <1>2, <1>4, <1>5 DEF RegisteredIsLive, LinkedUnderOwnKey, Agree
<1>7. TableMatchesRegistry'
  BY <1>1, <1>2, <1>4, <1>5 DEF TableMatchesRegistry, Agree, Owned, TypeOK
<1> QED
  BY <1>3, <1>6, <1>7 DEF Agree

LEMMA AgreeStep == DistinctPorts /\ Agree /\ [Next]_vars => Agree'
<1> SUFFICES ASSUME DistinctPorts, Agree, [Next]_vars PROVE Agree'
  OBVIOUS
<1>1. Owned'
  BY OwnedStep DEF Agree
<1> USE DEF Agree, RegisteredIsLive, TableMatchesRegistry, LinkedUnderOwnKey
<1>2. CASE Reinit
  BY <1>1, <1>2 DEF Reinit
<1>3. CASE SubscribeRejected
  BY <1>1, <1>3 DEF SubscribeRejected
<1>4. ASSUME NEW k \in Keys, Subscribe(k) PROVE Agree'
  BY <1>4, SubscribeAgree
<1>5. ASSUME NEW k \in Keys, Unsubscribe(k) PROVE Agree'
  BY <1>5, UnsubscribeAgree
<1>6. CASE UNCHANGED vars
  BY <1>1, <1>6 DEF vars
<1> QED
  BY <1>2, <1>3, <1>4, <1>5, <1>6 DEF Next

(* With distinct ports libcanard links live objects only, and the table      *)
(* frees for a key what is linked for it.                                    *)
THEOREM DistinctPortsAreSafe ==
  DistinctPorts => (Spec => [](RegisteredIsLive /\ TableMatchesRegistry))
<1> SUFFICES ASSUME DistinctPorts
             PROVE  Spec => [](RegisteredIsLive /\ TableMatchesRegistry)
  OBVIOUS
<1>1. Agree /\ [Next]_vars => Agree'
  BY AgreeStep
<1>2. Agree => RegisteredIsLive /\ TableMatchesRegistry
  BY DEF Agree
<1> QED
  BY <1>1, <1>2, InitAgree, PTL DEF Spec

(* With distinct ports what the table frees for a key is what libcanard       *)
(* links for it.                                                             *)
THEOREM TableFollowsRegistry == DistinctPorts => (Spec => []TableMatchesRegistry)
<1> SUFFICES ASSUME DistinctPorts PROVE Spec => []TableMatchesRegistry
  OBVIOUS
<1> QED
  BY DistinctPortsAreSafe, PTL

-----------------------------------------------------------------------------
(* With distinct ports: the refinement of SubscriptionMap.                   *)

LEMMA AgreeHolds == DistinctPorts => (Spec => []Agree)
<1> SUFFICES ASSUME DistinctPorts PROVE Spec => []Agree
  OBVIOUS
<1>1. Agree /\ [Next]_vars => Agree'
  BY AgreeStep
<1> QED
  BY <1>1, InitAgree, PTL DEF Spec

(* What is in use is linked for a key or an orphan.                          *)
LEMMA UsedIsAllocated == Agree => Map!Used = allocated
  BY DEF Agree, Owned, TypeOK, SlotsOwned, RegisteredIsLive,
         TableMatchesRegistry, Map!Used, Orphans

(* Whatever the loop frees, the orphans are those it cannot find.            *)
LEMMA ReleaseOrphans ==
  ASSUME Owned, NEW port, NEW r \in Releases(port) \cup {Unreleased}
  PROVE  Orphans = {b \in allocated \ r.freed : \A i \in Slots : r.slots[i] # b}
<1> USE DEF Owned, TypeOK, SlotsOwned, Orphans
<1>1. CASE r = Unreleased
  BY <1>1 DEF Unreleased
<1>2. CASE r # Unreleased
  <2>1. PICK i \in Matches(port) :
          r = [slots |-> [slots EXCEPT ![i] = None], freed |-> {slots[i]}]
    BY <1>2, ReleaseOutcome
  <2>2. i \in Slots /\ slots[i] # None
    BY DEF Matches
  <2>3. \A j \in Slots : r.slots[j] = IF j = i THEN None ELSE slots[j]
    BY <2>1, <2>2
  <2> QED
    BY <2>1, <2>2, <2>3
<1> QED
  BY <1>1, <1>2

(* What the table holds for the other keys are the objects of those the node  *)
(* keeps track of, one place for each.                                       *)
LEMMA TableCountsKept ==
  ASSUME DistinctPorts, Agree, NEW k \in Keys,
         NEW r \in Releases(k.port) \cup {Unreleased},
         reg[k] = None \/ r \in Releases(k.port)
  PROVE  LET taken == {i \in Slots : r.slots[i] # None} IN
         /\ IsFiniteSet(taken)
         /\ Cardinality(Map!Kept \ {k}) = Cardinality(taken)
<1> DEFINE taken == {i \in Slots : r.slots[i] # None}
           keyAt == [i \in taken |-> keyOf[slots[i]]]
<1>1. /\ \A i \in Slots : r.slots[i] # None =>
           r.slots[i] = slots[i] /\ keyOf[slots[i]] # k
      /\ \A i \in Slots : slots[i] # None /\ keyOf[slots[i]] # k =>
           r.slots[i] = slots[i]
  BY ReleaseAgree
<1>2. IsFiniteSet(taken)
  <2>1. IsFiniteSet(Slots)
    BY FS_Interval DEF Slots
  <2> QED
    BY <2>1, FS_Subset
<1>3. \A i \in taken :
        /\ keyOf[slots[i]] \in Keys \ {k} /\ reg[keyOf[slots[i]]] = slots[i]
        /\ slots[i] \notin Orphans
  BY <1>1 DEF Agree, Owned, TypeOK, TableMatchesRegistry, Orphans
<1>4. keyAt \in [taken -> Map!Kept \ {k}]
  BY <1>1, <1>3 DEF Map!Kept
<1>5. ASSUME NEW l \in Map!Kept \ {k}
      PROVE  \E i \in taken : keyAt[i] = l
  <2>1. l \in Keys /\ l # k /\ reg[l] # None /\ reg[l] \notin Orphans
    BY DEF Map!Kept
  <2>2. reg[l] \in allocated /\ keyOf[reg[l]] = l
    BY <2>1 DEF Agree, RegisteredIsLive, LinkedUnderOwnKey
  <2>3. PICK i \in Slots : slots[i] = reg[l]
    BY <2>1, <2>2 DEF Orphans
  <2>4. i \in taken
    BY <1>1, <2>1, <2>2, <2>3
  <2> QED
    BY <2>2, <2>3, <2>4
<1>6. \A i, j \in taken : keyAt[i] = keyAt[j] => i = j
  BY <1>1, <1>3 DEF Agree, Owned, SlotsOwned
<1>7. keyAt \in Surjection(taken, Map!Kept \ {k})
  BY <1>4, <1>5 DEF Surjection
<1>8. keyAt \in Injection(taken, Map!Kept \ {k})
  BY <1>4, <1>6 DEF Injection, IsInjective
<1>9. Cardinality(Map!Kept \ {k}) = Cardinality(taken)
  BY <1>2, <1>7, <1>8, FS_Surjection
<1> HIDE DEF keyAt
<1> QED
  BY <1>2, <1>9

LEMMA SameCardinality ==
  ASSUME NEW S PROVE Map!Cardinality(S) = Cardinality(S)
  BY DEF Map!Cardinality, Cardinality, Map!IsFiniteSet, IsFiniteSet

LEMMA MapSubscribe ==
  ASSUME DistinctPorts, Agree, NEW k \in Keys, Subscribe(k)
  PROVE  Map!Subscribe(k)
<1>1. PICK o \in Blocks \ allocated, r \in Releases(k.port) \cup {Unreleased} :
        /\ reg[k] = None \/ r \in Releases(k.port)
        /\ reg' = [reg EXCEPT ![k] = o]
        /\ allocated' = (allocated \ r.freed) \cup {o}
        /\ \/ \E i \in Slots : /\ r.slots[i] = None
                               /\ slots' = [r.slots EXCEPT ![i] = o]
           \/ slots' = r.slots /\ \A i \in Slots : slots'[i] # None
  BY SubscribeCases
<1> DEFINE taken == {i \in Slots : r.slots[i] # None}
<1>2. /\ IsFiniteSet(taken)
      /\ Cardinality(Map!Kept \ {k}) = Cardinality(taken)
  BY <1>1, TableCountsKept
<1>3. IsFiniteSet(Slots) /\ Cardinality(Slots) = MaxSubs
  <2>1. /\ IsFiniteSet(1 .. MaxSubs)
        /\ Cardinality(1 .. MaxSubs) = IF 1 > MaxSubs THEN 0 ELSE MaxSubs - 1 + 1
    BY FS_Interval
  <2> QED
    BY <2>1 DEF Slots
<1>4. /\ Cardinality(taken) \in Nat /\ Cardinality(taken) <= MaxSubs
      /\ Cardinality(taken) = MaxSubs => taken = Slots
  BY <1>2, <1>3, FS_Subset, FS_CardinalityType
<1>5. /\ r.slots \in [Slots -> Blocks \cup {None}]
      /\ \A i \in Slots : r.slots[i] # None => r.slots[i] \in allocated
  BY ReleaseOwned DEF Agree
<1>6. Orphans = {b \in allocated \ r.freed : \A i \in Slots : r.slots[i] # b}
  BY ReleaseOrphans DEF Agree
<1>7. o \in Blocks \ Map!Used
  BY UsedIsAllocated
<1>8. CASE \E i \in Slots : /\ r.slots[i] = None
                            /\ slots' = [r.slots EXCEPT ![i] = o]
  <2>1. PICK i \in Slots : r.slots[i] = None /\ slots' = [r.slots EXCEPT ![i] = o]
    BY <1>8
  <2>2. \A j \in Slots : slots'[j] = IF j = i THEN o ELSE r.slots[j]
    BY <1>5, <2>1
  <2>3. None \notin allocated
    BY DEF Agree, Owned, TypeOK
  <2>4. Orphans' = Orphans
    BY <1>1, <1>6, <2>1, <2>2, <2>3 DEF Orphans
  <2>5. Cardinality(taken) < MaxSubs
    <3>1. taken # Slots
      BY <2>1
    <3> QED
      BY <1>4, <3>1
  <2>6. Map!Cardinality(Map!Kept \ {k}) < MaxSubs
    BY <1>2, <2>5, SameCardinality
  <2> QED
    BY <1>1, <1>7, <2>4, <2>6 DEF Map!Subscribe
<1>9. CASE slots' = r.slots /\ \A i \in Slots : slots'[i] # None
  <2>1. Orphans' = Orphans \cup {o}
    BY <1>1, <1>5, <1>6, <1>9 DEF Orphans
  <2>2. taken = Slots
    BY <1>9
  <2>3. ~(Map!Cardinality(Map!Kept \ {k}) < MaxSubs)
    <3>1. Cardinality(taken) = MaxSubs
      BY <1>3, <2>2
    <3>2. Map!Cardinality(Map!Kept \ {k}) = MaxSubs
      BY <1>2, <3>1, SameCardinality
    <3> QED
      BY <3>2
  <2> QED
    BY <1>1, <1>7, <2>1, <2>3 DEF Map!Subscribe
<1> QED
  BY <1>1, <1>8, <1>9

LEMMA MapStep == DistinctPorts /\ Agree /\ [Next]_vars => [Map!Next]_<<reg, Orphans>>
<1> SUFFICES ASSUME DistinctPorts, Agree, [Next]_vars
             PROVE  Map!Next \/ UNCHANGED <<reg, Orphans>>
  OBVIOUS
<1>1. CASE Reinit
  <2>1. Orphans' = {}
    BY <1>1 DEF Reinit, Orphans
  <2> QED
    BY <1>1, <2>1 DEF Reinit, Map!Next, Map!Clear
<1>2. CASE SubscribeRejected
  <2>1. PICK o \in Blocks \ allocated : allocated' = allocated \cup {o}
    BY <1>2 DEF SubscribeRejected
  <2>2. \A i \in Slots : slots[i] # o
    BY <2>1 DEF Agree, Owned, SlotsOwned
  <2>3. Orphans' = Orphans \cup {o}
    BY <1>2, <2>1, <2>2 DEF SubscribeRejected, Orphans
  <2>4. o \in Blocks \ Map!Used
    BY <2>1, UsedIsAllocated
  <2>5. Map!Reject
    BY <1>2, <2>3, <2>4 DEF SubscribeRejected, Map!Reject
  <2> QED
    BY <2>5 DEF Map!Next
<1>3. ASSUME NEW k \in Keys, Subscribe(k) PROVE Map!Next
  BY <1>3, MapSubscribe DEF Map!Next
<1>4. ASSUME NEW k \in Keys, Unsubscribe(k) PROVE Map!Next
  <2>1. reg[k] # None /\ reg' = [reg EXCEPT ![k] = None]
    BY <1>4 DEF Unsubscribe
  <2>2. PICK r \in Releases(k.port) :
          slots' = r.slots /\ allocated' = allocated \ r.freed
    BY <1>4 DEF Unsubscribe
  <2>3. Orphans' = Orphans
    BY <2>2, ReleaseOrphans DEF Agree, Orphans
  <2>4. Map!Unsubscribe(k)
    BY <2>1, <2>3 DEF Map!Unsubscribe
  <2> QED
    BY <2>4 DEF Map!Next
<1>5. CASE UNCHANGED vars
  BY <1>5 DEF vars, Orphans
<1> QED
  BY <1>1, <1>2, <1>3, <1>4, <1>5 DEF Next

(* With distinct ports the heap, the tree and the table together are one map  *)
(* of keys to objects, for every sequence of calls.                          *)
THEOREM RefinesSubscriptionMap == DistinctPorts => (Spec => IsSubscriptionMap)
<1> SUFFICES ASSUME DistinctPorts PROVE Spec => IsSubscriptionMap
  OBVIOUS
<1>1. Init => Map!Init
  BY DEF Init, Orphans, Map!Init
<1>2. Agree /\ [Next]_vars => [Map!Next]_<<reg, Orphans>>
  BY MapStep
<1>3. Spec => []Agree
  BY AgreeHolds
<1> QED
  BY <1>1, <1>2, <1>3, PTL DEF Spec, IsSubscriptionMap, Map!Spec

(* What the comments of unsubscribe say holds where no two keys share a port: *)
(* what is freed is linked for nobody.                                       *)
THEOREM DistinctPortsFreeUnlinked == DistinctPorts => (Spec => FreedIsUnlinked)
<1> SUFFICES ASSUME DistinctPorts PROVE Spec => FreedIsUnlinked
  OBVIOUS
<1>1. ASSUME Agree, [Next]_vars, NEW o \in allocated \ allocated', NEW k \in Keys
      PROVE  reg'[k] # o
  <2>1. RegisteredIsLive' /\ o # None
    BY <1>1, AgreeStep DEF Agree, Owned, TypeOK
  <2> QED
    BY <1>1, <2>1 DEF RegisteredIsLive
<1>2. Agree /\ [Next]_vars =>
        [\A o \in allocated \ allocated' : \A k \in Keys : reg'[k] # o]_vars
  BY <1>1
<1>3. Spec => []Agree
  BY AgreeHolds
<1> QED
  BY <1>2, <1>3, PTL DEF Spec, FreedIsUnlinked
=============================================================================
