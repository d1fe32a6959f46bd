--------------------- MODULE ProducerConsumerQueueProofs ---------------------
(***************************************************************************)
(* For any sets of producers and consumers and any positive maxSize_, the  *)
(* queue keeps its bound, loses no wake-up and delivers no unit twice or   *)
(* out of order.  The inductive invariant for the first two is the         *)
(* conjunction of the type invariant, the bound, and the two statements    *)
(* about blocked threads: NoLostWakeup alone is not inductive, because a   *)
(* consumer that get sends home with false stops being ready, which is     *)
(* harmless only because finishAdding left nobody blocked.                 *)
(***************************************************************************)
EXTENDS ProducerConsumerQueue, TLAPS

Inv == TypeOK /\ Bounded /\ NoLostWakeup /\ NoConsumerBlockedAfterFinish

\* What notify_one may wake: one waiting thread, or nobody if none waits.
LEMMA NotifyOneWakes ==
  ASSUME NEW W, NEW w \in NotifyOne(W)
  PROVE  /\ w \subseteq W
         /\ W # {} => w # {}
BY Zenon DEF NotifyOne

\* The initial queue satisfies the invariant.
LEMMA InitInv == Init => Inv
<1> SUFFICES ASSUME Init PROVE Inv
  BY Zenon
<1> USE QueueAssumption DEF Init
<1>1. TypeOK
  <2>1. <<>> \in Seq(Units)
    OBVIOUS
  <2>2. received \in [Consumers -> Seq(Units)] /\ queue \in Seq(Units)
    BY <2>1, Zenon
  <2>3. isAddingFinished \in BOOLEAN
    BY Zenon
  <2>4. sent \in [Producers -> 0..MaxUnits] /\ resets \in 0..MaxResets
    OBVIOUS
  <2> QED
    BY <2>2, <2>3, <2>4, Zenon DEF TypeOK
<1>2. Bounded
  BY DEF Bounded
<1>3. NoLostWakeup /\ NoConsumerBlockedAfterFinish
  BY Zenon DEF NoLostWakeup, NoConsumerBlockedAfterFinish
<1> QED
  BY <1>1, <1>2, <1>3, Zenon DEF Inv

\* Every step of add, get, finishAdding and clear keeps the types.
LEMMA TypeStep == TypeOK /\ [Next]_vars => TypeOK'
<1> SUFFICES ASSUME TypeOK, [Next]_vars PROVE TypeOK'
  BY Zenon
<1> USE QueueAssumption DEF TypeOK
<1>1. ASSUME NEW p \in Producers, AddBlocks(p) PROVE TypeOK'
  BY <1>1, Zenon DEF AddBlocks, MayAdd
<1>2. ASSUME NEW p \in Producers, AddIgnored(p) PROVE TypeOK'
  BY <1>2 DEF AddIgnored, MayAdd
<1>3. ASSUME NEW p \in Producers, AddPushes(p) PROVE TypeOK'
  <2>1. PICK w \in AddWakesProducer(queue') :
          /\ producerWait' = producerWait \ w
          /\ producerReady' = (producerReady \ {p}) \cup w
    BY <1>3, Zenon DEF AddPushes
  <2>2. w \subseteq producerWait
    BY <2>1, NotifyOneWakes, Zenon DEF AddWakesProducer
  <2>3. PICK v \in NotifyOne(consumerWait) :
          /\ consumerWait' = consumerWait \ v
          /\ consumerReady' = consumerReady \cup v
    BY <1>3, Zenon DEF AddPushes
  <2>4. v \subseteq consumerWait
    BY <2>3, NotifyOneWakes, Zenon
  <2>5. queue' \in Seq(Units) /\ sent' \in [Producers -> 0..MaxUnits]
    BY <1>3 DEF AddPushes, MayAdd, Units
  <2>6. /\ isAddingFinished' = isAddingFinished
        /\ received' = received
        /\ resets' = resets
    BY <1>3, Zenon DEF AddPushes
  <2> QED
    BY <2>1, <2>2, <2>3, <2>4, <2>5, <2>6, Zenon
<1>4. ASSUME NEW c \in Consumers, GetBlocks(c) PROVE TypeOK'
  BY <1>4, Zenon DEF GetBlocks
<1>5. ASSUME NEW c \in Consumers, GetReturnsFalse(c) PROVE TypeOK'
  BY <1>5, Zenon DEF GetReturnsFalse
<1>6. ASSUME NEW c \in Consumers, GetReturnsUnit(c) PROVE TypeOK'
  <2>1. PICK w \in GetWakesConsumer(queue') :
          /\ consumerWait' = consumerWait \ w
          /\ consumerReady' = (consumerReady \ {c}) \cup w
    BY <1>6, Zenon DEF GetReturnsUnit
  <2>2. w \subseteq consumerWait
    BY <2>1, NotifyOneWakes, Zenon DEF GetWakesConsumer
  <2>3. PICK v \in GetWakesProducer :
          /\ producerWait' = producerWait \ v
          /\ producerReady' = producerReady \cup v
    BY <1>6, Zenon DEF GetReturnsUnit
  <2>4. v \subseteq producerWait
    BY <2>3, NotifyOneWakes, Zenon DEF GetWakesProducer
  <2>5. queue # <<>>
    BY <1>6 DEF GetReturnsUnit, isEmpty
  <2>6. Head(queue) \in Units /\ Tail(queue) \in Seq(Units)
    BY <2>5
  <2>7. queue' \in Seq(Units) /\ received' \in [Consumers -> Seq(Units)]
    BY <1>6, <2>6 DEF GetReturnsUnit
  <2>8. /\ isAddingFinished' = isAddingFinished
        /\ sent' = sent
        /\ resets' = resets
    BY <1>6, Zenon DEF GetReturnsUnit
  <2> QED
    BY <2>1, <2>2, <2>3, <2>4, <2>7, <2>8, Zenon
<1>7. CASE finishAdding
  BY <1>7, Zenon DEF finishAdding
<1>8. CASE clear
  <2>1. queue' \in Seq(Units) /\ resets' \in 0..MaxResets
    BY <1>8 DEF clear
  <2>2. isAddingFinished' \in BOOLEAN
    BY <1>8, Zenon DEF clear
  <2> QED
    BY <1>8, <2>1, <2>2, Zenon DEF clear
<1>9. CASE SpuriousWakeup
  BY <1>9, Zenon DEF SpuriousWakeup
<1>10. CASE UNCHANGED vars
  BY <1>10, Zenon DEF vars
<1> QED
  BY <1>1, <1>2, <1>3, <1>4, <1>5, <1>6, <1>7, <1>8, <1>9, <1>10, Zenon
  DEF Next, add, get

\* The bound and the two facts about blocked threads survive every step.
LEMMA WakeupStep == Inv /\ [Next]_vars => Bounded' /\ NoLostWakeup' /\ NoConsumerBlockedAfterFinish'
<1> DEFINE Goal == Bounded' /\ NoLostWakeup' /\ NoConsumerBlockedAfterFinish'
<1> SUFFICES ASSUME Inv, [Next]_vars PROVE Goal
  BY Zenon
<1> USE QueueAssumption
    DEF Inv, TypeOK, Bounded, NoLostWakeup, NoConsumerBlockedAfterFinish,
        isFull, isEmpty
<1>1. ASSUME NEW p \in Producers, AddBlocks(p) PROVE Goal
  BY <1>1, Zenon DEF AddBlocks
<1>2. ASSUME NEW p \in Producers, AddIgnored(p) PROVE Goal
  BY <1>2, Zenon DEF AddIgnored
<1>3. ASSUME NEW p \in Producers, AddPushes(p) PROVE Goal
  <2>1. PICK w \in AddWakesProducer(queue') :
          /\ producerWait' = producerWait \ w
          /\ producerReady' = (producerReady \ {p}) \cup w
    BY <1>3, Zenon DEF AddPushes
  <2>2. Len(queue') < maxSize /\ producerWait # {} => w # {}
    <3> HIDE DEF Inv, TypeOK, Bounded, NoLostWakeup, NoConsumerBlockedAfterFinish
    <3>1. Len(queue') \in Nat
      BY <1>3 DEF AddPushes, Inv, TypeOK
    <3>2. Len(queue') < maxSize => w \in NotifyOne(producerWait)
      BY <2>1, <3>1 DEF AddWakesProducer
    <3> QED
      BY <3>2, NotifyOneWakes, Zenon
  <2>3. PICK v \in NotifyOne(consumerWait) :
          /\ consumerWait' = consumerWait \ v
          /\ consumerReady' = consumerReady \cup v
    BY <1>3, Zenon DEF AddPushes
  <2>4. consumerWait # {} => v # {}
    BY <2>3, NotifyOneWakes, Zenon
  <2>5. Len(queue') = Len(queue) + 1 /\ Len(queue) \in Nat
    BY <1>3 DEF AddPushes
  <2>6. Len(queue) < maxSize /\ ~isAddingFinished /\ ~isAddingFinished'
    BY <1>3 DEF AddPushes
  <2> QED
    BY <2>1, <2>2, <2>3, <2>4, <2>5, <2>6
<1>4. ASSUME NEW c \in Consumers, GetBlocks(c) PROVE Goal
  BY <1>4, Zenon DEF GetBlocks
<1>5. ASSUME NEW c \in Consumers, GetReturnsFalse(c) PROVE Goal
  BY <1>5, Zenon DEF GetReturnsFalse
<1>6. ASSUME NEW c \in Consumers, GetReturnsUnit(c) PROVE Goal
  <2>1. PICK w \in GetWakesConsumer(queue') :
          /\ consumerWait' = consumerWait \ w
          /\ consumerReady' = (consumerReady \ {c}) \cup w
    BY <1>6, Zenon DEF GetReturnsUnit
  <2>2. Len(queue') # 0 /\ consumerWait # {} => w # {}
    BY <2>1, NotifyOneWakes, Zenon DEF GetWakesConsumer
  <2>3. PICK v \in GetWakesProducer :
          /\ producerWait' = producerWait \ v
          /\ producerReady' = producerReady \cup v
    BY <1>6, Zenon DEF GetReturnsUnit
  <2>4. producerWait # {} => v # {}
    BY <2>3, NotifyOneWakes, Zenon DEF GetWakesProducer
  <2>5. queue # <<>> /\ queue' = Tail(queue)
    BY <1>6 DEF GetReturnsUnit
  <2>6. Len(queue') = Len(queue) - 1 /\ Len(queue) \in Nat
    BY <2>5
  <2>7. isAddingFinished' = isAddingFinished
    BY <1>6, Zenon DEF GetReturnsUnit
  <2> QED
    BY <2>1, <2>2, <2>3, <2>4, <2>6, <2>7
<1>7. CASE finishAdding
  BY <1>7, Zenon DEF finishAdding
<1>8. CASE clear
  BY <1>8 DEF clear
<1>9. CASE SpuriousWakeup
  BY <1>9, Zenon DEF SpuriousWakeup
<1>10. CASE UNCHANGED vars
  BY <1>10, Zenon DEF vars
<1> QED
  BY <1>1, <1>2, <1>3, <1>4, <1>5, <1>6, <1>7, <1>8, <1>9, <1>10, Zenon
  DEF Next, add, get

\* Inv holds of every reachable state.
LEMMA Invariance == Spec => []Inv
<1>1. Inv /\ [Next]_vars => Inv'
  BY TypeStep, WakeupStep, Zenon DEF Inv
<1> QED
  BY InitInv, <1>1, PTL DEF Spec

\* The queue is well typed in every reachable state.
THEOREM TypeCorrect == Spec => []TypeOK
BY Invariance, PTL DEF Inv

\* The queue never exceeds maxSize_, for any number of producers and consumers.
THEOREM QueueBounded == Spec => []Bounded
BY Invariance, PTL DEF Inv

\* Waking a single thread per side and per call never strands a blocked thread.
THEOREM WakeupsNotLost == Spec => []NoLostWakeup
BY Invariance, PTL DEF Inv

\* finishAdding leaves no consumer blocked, and get blocks none afterwards.
THEOREM FinishReleasesConsumers == Spec => []NoConsumerBlockedAfterFinish
BY Invariance, PTL DEF Inv
------------------------------------------------------------------------------
(* Delivery.  DeliveredOnceInOrder is about units that are queued or         *)
(* delivered; that add cannot queue one of them again follows only from the  *)
(* number of adds each producer has behind it.                               *)

\* Every unit in the queue or with a consumer was passed to add before.
UnitsWereSent ==
  /\ \A i \in DOMAIN queue : queue[i][2] <= sent[queue[i][1]]
  /\ \A c \in Consumers : \A j \in DOMAIN received[c] :
       received[c][j][2] <= sent[received[c][j][1]]

DeliveryInv == TypeOK /\ UnitsWereSent /\ DeliveredOnceInOrder

\* queue_.push and the growth of what a consumer got, position by position.
LEMMA Appended ==
  ASSUME NEW S, NEW s \in Seq(S), NEW e \in S
  PROVE  /\ DOMAIN Append(s, e) = DOMAIN s \cup {Len(s) + 1}
         /\ Append(s, e)[Len(s) + 1] = e
         /\ \A i \in DOMAIN s : Append(s, e)[i] = s[i] /\ i < Len(s) + 1
         /\ DOMAIN s \subseteq Nat /\ Len(s) \in Nat
OBVIOUS

\* queue_.pop moves every remaining unit one position ahead.
LEMMA Popped ==
  ASSUME NEW S, NEW s \in Seq(S), s # <<>>
  PROVE  /\ 1 \in DOMAIN s /\ Head(s) = s[1] /\ Head(s) \in S
         /\ DOMAIN s \subseteq Nat
         /\ \A i \in DOMAIN Tail(s) :
              i \in Nat \ {0} /\ i + 1 \in DOMAIN s /\ Tail(s)[i] = s[i + 1]
OBVIOUS

\* The new unit is newer than every queued or delivered one of its producer.
LEMMA PushDelivery ==
  ASSUME DeliveryInv, NEW p \in Producers, AddPushes(p)
  PROVE  UnitsWereSent' /\ DeliveredOnceInOrder'
<1> DEFINE n == sent[p] + 1
           u == <<p, n>>
           last == Len(queue) + 1
<1>1. /\ queue \in Seq(Units) /\ received \in [Consumers -> Seq(Units)]
      /\ sent \in [Producers -> 0..MaxUnits]
  BY Zenon DEF DeliveryInv, TypeOK
<1>2. /\ queue' = Append(queue, u) /\ sent' = [sent EXCEPT ![p] = n]
      /\ received' = received /\ sent[p] < MaxUnits
  BY Zenon DEF AddPushes, MayAdd
<1>3. /\ n \in 1..MaxUnits /\ sent' \in [Producers -> Nat]
      /\ sent'[p] = n /\ \A q \in Producers : sent[q] <= sent'[q]
      /\ \A q \in Producers : sent[q] \in Nat
  BY <1>1, <1>2, QueueAssumption
<1>4. u \in Units /\ u[1] = p /\ u[2] = n
  BY <1>3, Zenon DEF Units
<1>5. /\ DOMAIN queue' = DOMAIN queue \cup {last} /\ queue'[last] = u
      /\ \A i \in DOMAIN queue : queue'[i] = queue[i] /\ i < last
      /\ DOMAIN queue \subseteq Nat /\ last \in Nat
  BY <1>1, <1>2, <1>4, Appended
<1>6. \A i \in DOMAIN queue :
        queue[i][1] \in Producers /\ queue[i][2] \in Nat
  BY <1>1 DEF Units
<1>7. \A c \in Consumers : \A j \in DOMAIN received[c] :
        received[c][j][1] \in Producers /\ received[c][j][2] \in Nat
  BY <1>1 DEF Units
<1> HIDE DEF u, last
<1>8. UnitsWereSent'
  BY <1>2, <1>3, <1>4, <1>5, <1>6, <1>7 DEF DeliveryInv, UnitsWereSent
<1>9. \A i \in DOMAIN queue : queue[i][1] = p => queue[i][2] < n
  BY <1>3, <1>6 DEF DeliveryInv, UnitsWereSent
<1>10. \A c \in Consumers : \A j \in DOMAIN received[c] :
         received[c][j][1] = p => received[c][j][2] < n
  BY <1>3, <1>7 DEF DeliveryInv, UnitsWereSent
<1> HIDE DEF n
<1>11. \A i, j \in DOMAIN queue' :
         i < j /\ queue'[i][1] = queue'[j][1] => queue'[i][2] < queue'[j][2]
  BY <1>4, <1>5, <1>9 DEF DeliveryInv, DeliveredOnceInOrder
<1>12. \A i \in DOMAIN queue' :
         \A c \in Consumers : \A j \in DOMAIN received[c] :
           queue'[i][1] = received[c][j][1] => received[c][j][2] < queue'[i][2]
  BY <1>4, <1>5, <1>10 DEF DeliveryInv, DeliveredOnceInOrder
<1>13. DeliveredOnceInOrder'
  BY <1>2, <1>11, <1>12 DEF DeliveryInv, DeliveredOnceInOrder
<1> QED
  BY <1>8, <1>13, Zenon

\* The front unit is newer than everything delivered and older than the rest of
\* the queue.
LEMMA PopDelivery ==
  ASSUME DeliveryInv, NEW c \in Consumers, GetReturnsUnit(c)
  PROVE  UnitsWereSent' /\ DeliveredOnceInOrder'
<1> DEFINE u == Head(queue)
           last == Len(received[c]) + 1
<1>1. /\ queue \in Seq(Units) /\ received \in [Consumers -> Seq(Units)]
      /\ queue # <<>>
  BY DEF DeliveryInv, TypeOK, GetReturnsUnit, isEmpty
<1>2. /\ queue' = Tail(queue) /\ sent' = sent
      /\ received' = [received EXCEPT ![c] = Append(received[c], u)]
  BY Zenon DEF GetReturnsUnit
<1>3. /\ 1 \in DOMAIN queue /\ u = queue[1] /\ u \in Units
      /\ \A i \in DOMAIN queue' :
           i \in Nat \ {0} /\ i + 1 \in DOMAIN queue /\ queue'[i] = queue[i + 1]
  BY <1>1, <1>2, Popped
<1> HIDE DEF u
<1>4. /\ received'[c] = Append(received[c], u)
      /\ \A d \in Consumers \ {c} : received'[d] = received[d]
  BY <1>1, <1>2, Zenon
<1>5. /\ DOMAIN received'[c] = DOMAIN received[c] \cup {last}
      /\ received'[c][last] = u
      /\ \A j \in DOMAIN received[c] :
           received'[c][j] = received[c][j] /\ j < last
      /\ DOMAIN received[c] \subseteq Nat /\ last \in Nat
  BY <1>1, <1>3, <1>4, Appended
<1> HIDE DEF last
<1>6. \A d \in Consumers : \A j \in DOMAIN received'[d] :
        \/ d = c /\ j = last /\ received'[d][j] = u
        \/ /\ j \in DOMAIN received[d] /\ received'[d][j] = received[d][j]
           /\ d = c => j < last
  BY <1>4, <1>5
<1>7. \A d \in Consumers : \A j \in DOMAIN received[d] :
        /\ received[d][j][1] = u[1] => received[d][j][2] < u[2]
        /\ received[d][j] \in Units
  BY <1>1, <1>3 DEF DeliveryInv, DeliveredOnceInOrder
<1>8. u[2] \in Nat /\ last \in Nat
  BY <1>3, <1>5 DEF Units
<1>9. \A i \in DOMAIN queue' : queue'[i][1] = u[1] => u[2] < queue'[i][2]
  BY <1>3 DEF DeliveryInv, DeliveredOnceInOrder
<1>10. UnitsWereSent'
  BY <1>2, <1>3, <1>6 DEF DeliveryInv, UnitsWereSent
<1>11. \A d \in Consumers : \A j \in DOMAIN received[d] : received[d][j] # u
  BY <1>7, <1>8
<1>12. \A d, e \in Consumers :
         \A i \in DOMAIN received'[d], j \in DOMAIN received'[e] :
           <<d, i>> # <<e, j>> => received'[d][i] # received'[e][j]
  BY <1>6, <1>11 DEF DeliveryInv, DeliveredOnceInOrder
<1>13. \A d \in Consumers : \A i, j \in DOMAIN received'[d] :
         i < j /\ received'[d][i][1] = received'[d][j][1]
            => received'[d][i][2] < received'[d][j][2]
  BY <1>5, <1>6, <1>7 DEF DeliveryInv, DeliveredOnceInOrder
<1>14. \A i, j \in DOMAIN queue' :
         i < j /\ queue'[i][1] = queue'[j][1] => queue'[i][2] < queue'[j][2]
  BY <1>3 DEF DeliveryInv, DeliveredOnceInOrder
<1>15. \A i \in DOMAIN queue' :
         \A d \in Consumers : \A j \in DOMAIN received'[d] :
           queue'[i][1] = received'[d][j][1]
              => received'[d][j][2] < queue'[i][2]
  BY <1>3, <1>6, <1>9 DEF DeliveryInv, DeliveredOnceInOrder
<1>16. DeliveredOnceInOrder'
  BY <1>12, <1>13, <1>14, <1>15, Zenon DEF DeliveredOnceInOrder
<1> QED
  BY <1>10, <1>16

\* Only add and get touch units; a unit add ignores is never seen again.
LEMMA DeliveryStep == DeliveryInv /\ [Next]_vars => DeliveryInv'
<1> SUFFICES ASSUME DeliveryInv, [Next]_vars
             PROVE  UnitsWereSent' /\ DeliveredOnceInOrder'
  BY TypeStep, Zenon DEF DeliveryInv
<1> DEFINE Goal == UnitsWereSent' /\ DeliveredOnceInOrder'
<1>1. CASE UNCHANGED <<queue, sent, received>>
  BY <1>1 DEF DeliveryInv, UnitsWereSent, DeliveredOnceInOrder
<1>2. ASSUME NEW p \in Producers, AddIgnored(p) PROVE Goal
  <2>1. queue' = queue /\ received' = received
    BY <1>2, Zenon DEF AddIgnored
  <2>2. /\ queue \in Seq(Units) /\ received \in [Consumers -> Seq(Units)]
        /\ sent \in [Producers -> 0..MaxUnits]
        /\ sent' = [sent EXCEPT ![p] = sent[p] + 1]
    BY <1>2, Zenon DEF DeliveryInv, TypeOK, AddIgnored
  <2>3. \A q \in Producers :
          sent[q] \in Nat /\ sent'[q] \in Nat /\ sent[q] <= sent'[q]
    BY <2>2, QueueAssumption
  <2>4. /\ \A i \in DOMAIN queue : queue[i] \in Units
        /\ \A c \in Consumers : \A j \in DOMAIN received[c] :
             received[c][j] \in Units
    BY <2>2
  <2>5. \A u \in Units : u[1] \in Producers /\ u[2] \in Nat
    BY DEF Units
  <2>6. UnitsWereSent'
    BY <2>1, <2>3, <2>4, <2>5 DEF DeliveryInv, UnitsWereSent
  <2> QED
    BY <2>1, <2>6 DEF DeliveryInv, DeliveredOnceInOrder
<1>3. CASE clear
  <2>1. DOMAIN queue' = {} /\ received' = received /\ sent' = sent
    BY <1>3 DEF clear
  <2> QED
    BY <2>1 DEF DeliveryInv, UnitsWereSent, DeliveredOnceInOrder
<1>4. ASSUME NEW p \in Producers, add(p) PROVE Goal
  BY <1>1, <1>2, <1>4, PushDelivery, Zenon DEF add, AddBlocks
<1>5. ASSUME NEW c \in Consumers, get(c) PROVE Goal
  BY <1>1, <1>5, PopDelivery, Zenon DEF get, GetBlocks, GetReturnsFalse
<1>6. CASE finishAdding \/ SpuriousWakeup \/ UNCHANGED vars
  BY <1>1, <1>6, Zenon DEF finishAdding, SpuriousWakeup, vars
<1> QED
  BY <1>3, <1>4, <1>5, <1>6, Zenon DEF Next

\* No unit is delivered twice or overtakes another of its producer, however many
\* threads call add and get and however often clear() empties the queue.
THEOREM DeliveryInOrder == Spec => []DeliveredOnceInOrder
<1>1. Init => DeliveryInv
  BY InitInv DEF Init, Inv, DeliveryInv, UnitsWereSent, DeliveredOnceInOrder
<1> QED
  BY <1>1, DeliveryStep, PTL DEF Spec, DeliveryInv
==============================================================================
