------------------------ MODULE ProducerConsumerQueue ------------------------
(***************************************************************************)
(* The bounded blocking queue of lib/common/ProducerConsumerQueue.h.       *)
(*                                                                         *)
(* Every method holds mutex_ for its whole body and gives it up only       *)
(* inside condition_variable::wait, so one evaluation of a method, from    *)
(* taking the mutex to returning or to blocking, is one step.  A thread    *)
(* that is notified leaves the condition's wait set but has to take the    *)
(* mutex again and re-evaluate the predicate: in between any other thread  *)
(* may run.  That is the state "ready".                                    *)
(***************************************************************************)
EXTENDS Naturals, Sequences, FiniteSets

CONSTANTS Producers,        \* threads that call add
          Consumers,        \* threads that call get
          maxSize,          \* maxSize_, the bound of the queue
          MaxUnits,         \* bound: calls of add per producer
          MaxResets         \* bound: calls of clear()

ASSUME QueueAssumption ==
  /\ maxSize \in Nat \ {0}
  /\ MaxUnits \in Nat
  /\ MaxResets \in Nat
  /\ Producers \cap Consumers = {}

VARIABLES queue,              \* queue_
          isAddingFinished,   \* isAddingFinished_
          producerWait,       \* threads blocked on producerCondition_
          producerReady,      \* producers notified, not yet running again
          consumerWait,       \* threads blocked on consumerCondition_
          consumerReady,      \* consumers notified, not yet running again
          sent,               \* per producer, the number of adds that returned
          received,           \* per consumer, the units its gets returned
          resets              \* number of calls of clear() so far

vars == <<queue, isAddingFinished, producerWait, producerReady, consumerWait,
          consumerReady, sent, received, resets>>

\* The n-th unit producer p passes to add; units are told apart by origin.
Units == Producers \X (1..MaxUnits)

isFull == Len(queue) >= maxSize

isEmpty == Len(queue) = 0

\* condition_variable::notify_one: the sets of threads it may wake.
NotifyOne(waiting) ==
  IF waiting = {} THEN {{}} ELSE {{t} : t \in waiting}

------------------------------------------------------------------------------
Init ==
  /\ queue = <<>>
  /\ isAddingFinished = FALSE
  /\ producerWait = {} /\ producerReady = {}
  /\ consumerWait = {} /\ consumerReady = {}
  /\ sent = [p \in Producers |-> 0]
  /\ received = [c \in Consumers |-> <<>>]
  /\ resets = 0

\* A producer is about to evaluate add: a first call, or it was notified.
MayAdd(p) == p \notin producerWait /\ sent[p] < MaxUnits

\* The predicate of producerCondition_.wait is false: block.
AddBlocks(p) ==
  /\ MayAdd(p)
  /\ isFull /\ ~isAddingFinished
  /\ producerWait' = producerWait \cup {p}
  /\ producerReady' = producerReady \ {p}
  /\ UNCHANGED <<queue, isAddingFinished, consumerWait, consumerReady, sent,
                 received, resets>>

\* Adding is finished: the unit is ignored.
AddIgnored(p) ==
  /\ MayAdd(p)
  /\ isAddingFinished
  /\ producerReady' = producerReady \ {p}
  /\ sent' = [sent EXCEPT ![p] = @ + 1]
  /\ UNCHANGED <<queue, isAddingFinished, producerWait, consumerWait,
                 consumerReady, received, resets>>

\* Whom the end of add wakes among the producers: one, if there is room left.
AddWakesProducer(q) ==
  IF Len(q) >= maxSize THEN {{}} ELSE NotifyOne(producerWait)

AddPushes(p) ==
  /\ MayAdd(p)
  /\ ~isFull /\ ~isAddingFinished
  /\ queue' = Append(queue, <<p, sent[p] + 1>>)
  /\ \E w \in AddWakesProducer(queue') :
        /\ producerWait' = producerWait \ w
        /\ producerReady' = (producerReady \ {p}) \cup w
  /\ \E w \in NotifyOne(consumerWait) :
        /\ consumerWait' = consumerWait \ w
        /\ consumerReady' = consumerReady \cup w
  /\ sent' = [sent EXCEPT ![p] = @ + 1]
  /\ UNCHANGED <<isAddingFinished, received, resets>>

add(p) == AddBlocks(p) \/ AddIgnored(p) \/ AddPushes(p)

GetBlocks(c) ==
  /\ c \notin consumerWait
  /\ isEmpty /\ ~isAddingFinished
  /\ consumerWait' = consumerWait \cup {c}
  /\ consumerReady' = consumerReady \ {c}
  /\ UNCHANGED <<queue, isAddingFinished, producerWait, producerReady, sent,
                 received, resets>>

\* get returns false: nothing is left and nothing will come.
GetReturnsFalse(c) ==
  /\ c \notin consumerWait
  /\ isEmpty /\ isAddingFinished
  /\ consumerReady' = consumerReady \ {c}
  /\ UNCHANGED <<queue, isAddingFinished, producerWait, producerReady,
                 consumerWait, sent, received, resets>>

\* Whom the end of get wakes among the consumers: one, if units are left.

GetWakesConsumer(q) == IF Len(q) = 0 THEN {{}} ELSE NotifyOne(consumerWait)

\* Mutant of GetWakesProducer: the freed slot is not announced.
GetWakesNobody == {{}}

GetWakesProducer == NotifyOne(producerWait)

\* Mutant of GetReturnsUnit: the unit is read but not popped.
GetWithoutPop(c) ==
  /\ c \notin consumerWait
  /\ ~isEmpty
  /\ received' = [received EXCEPT ![c] = Append(@, Head(queue))]
  /\ UNCHANGED <<queue, isAddingFinished, producerWait, producerReady,
                 consumerWait, consumerReady, sent, resets>>

GetReturnsUnit(c) ==
  /\ c \notin consumerWait
  /\ ~isEmpty
  /\ received' = [received EXCEPT ![c] = Append(@, Head(queue))]
  /\ queue' = Tail(queue)
  /\ \E w \in GetWakesConsumer(queue') :
        /\ consumerWait' = consumerWait \ w
        /\ consumerReady' = (consumerReady \ {c}) \cup w
  /\ \E w \in GetWakesProducer :
        /\ producerWait' = producerWait \ w
        /\ producerReady' = producerReady \cup w
  /\ UNCHANGED <<isAddingFinished, sent, resets>>

get(c) == GetBlocks(c) \/ GetReturnsFalse(c) \/ GetReturnsUnit(c)

\* Mutant of finishAdding: notify_one in place of notify_all.
finishAddingNotifyOne ==
  /\ isAddingFinished' = TRUE
  /\ \E w \in NotifyOne(consumerWait) :
        /\ consumerWait' = consumerWait \ w
        /\ consumerReady' = consumerReady \cup w
  /\ UNCHANGED <<queue, producerWait, producerReady, sent, received, resets>>

finishAdding ==
  /\ isAddingFinished' = TRUE
  /\ consumerWait' = {}
  /\ consumerReady' = consumerReady \cup consumerWait
  /\ UNCHANGED <<queue, producerWait, producerReady, sent, received, resets>>

clear ==
  /\ resets < MaxResets
  /\ resets' = resets + 1
  /\ queue' = <<>>
  /\ isAddingFinished' = FALSE
  /\ producerWait' = {} /\ producerReady' = producerReady \cup producerWait
  /\ consumerWait' = {} /\ consumerReady' = consumerReady \cup consumerWait
  /\ UNCHANGED <<sent, received>>

\* condition_variable::wait may return without a notification.
SpuriousWakeup ==
  /\ \/ \E p \in producerWait :
          /\ producerWait' = producerWait \ {p}
          /\ producerReady' = producerReady \cup {p}
          /\ UNCHANGED <<consumerWait, consumerReady>>
     \/ \E c \in consumerWait :
          /\ consumerWait' = consumerWait \ {c}
          /\ consumerReady' = consumerReady \cup {c}
          /\ UNCHANGED <<producerWait, producerReady>>
  /\ UNCHANGED <<queue, isAddingFinished, sent, received, resets>>

Next ==
  \/ \E p \in Producers : add(p)
  \/ \E c \in Consumers : get(c)
  \/ finishAdding
  \/ clear
  \/ SpuriousWakeup

Spec == Init /\ [][Next]_vars

------------------------------------------------------------------------------
(* Properties *)

\* Type invariant; a thread is never both blocked and ready.
TypeOK ==
  /\ queue \in Seq(Units)
  /\ isAddingFinished \in BOOLEAN
  /\ producerWait \subseteq Producers /\ producerReady \subseteq Producers
  /\ consumerWait \subseteq Consumers /\ consumerReady \subseteq Consumers
  /\ producerWait \cap producerReady = {}
  /\ consumerWait \cap consumerReady = {}
  /\ sent \in [Producers -> 0..MaxUnits]
  /\ received \in [Consumers -> Seq(Units)]
  /\ resets \in 0..MaxResets

\* The queue never holds more than maxSize_ units, however many producers were
\* woken for the same free slot: add re-evaluates isFull under mutex_.
Bounded == Len(queue) <= maxSize

\* No wake-up is lost although each method wakes at most one thread per side
\* ("waking up as fewer threads as possible", ProducerConsumerQueue.h:23):
\* a consumer is blocked while a unit is available, or a producer while there
\* is room, only if another of its kind has been notified and will pass the
\* notification on.
NoLostWakeup ==
  /\ consumerWait # {} /\ (~isEmpty \/ isAddingFinished) => consumerReady # {}
  /\ producerWait # {} /\ ~isFull /\ ~isAddingFinished => producerReady # {}

\* After finishAdding no consumer is left blocked in get.
NoConsumerBlockedAfterFinish == isAddingFinished => consumerWait = {}

\* add and get are atomic: no unit is delivered twice or both delivered and
\* queued, each consumer sees the units of one producer in the order of its
\* adds, and a queued unit is newer than any delivered one of its producer.
DeliveredOnceInOrder ==
  /\ \A c, d \in Consumers :
       \A i \in DOMAIN received[c], j \in DOMAIN received[d] :
          <<c, i>> # <<d, j>> => received[c][i] # received[d][j]
  /\ \A c \in Consumers : \A i, j \in DOMAIN received[c] :
       i < j /\ received[c][i][1] = received[c][j][1]
          => received[c][i][2] < received[c][j][2]
  /\ \A i \in DOMAIN queue :
       /\ \A j \in DOMAIN queue :
            i < j /\ queue[i][1] = queue[j][1] => queue[i][2] < queue[j][2]
       /\ \A c \in Consumers : \A j \in DOMAIN received[c] :
            queue[i][1] = received[c][j][1] => received[c][j][2] < queue[i][2]
==============================================================================
