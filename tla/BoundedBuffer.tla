--------------------------- MODULE BoundedBuffer ---------------------------
(***************************************************************************)
(* Producers and consumers:                                                *)
(*   "infinite"    semaphores/producer-consumer-infinite.py                *)
(*   "semaphores"  semaphores/producer-consumer.py                         *)
(*   "conditions"  monitors/producer-consumer.py                           *)
(*   "java"        monitors/ProducerConsumer.java                          *)
(*   "channel"     channels/producer_consumer.go                           *)
(* The i-th datum of producer p is <<p, i>>.                               *)
(***************************************************************************)
EXTENDS Naturals, Sequences, FiniteSets

CONSTANTS
  Producers, Consumers,
  Size,          \* BUFFER_SIZE
  ToProduce      \* what each producer appends and each consumer takes

VARIABLES
  shop,          \* the program that runs
  pc, iter,      \* of every thread
  buffer,
  notFull, notEmpty,   \* the values of the semaphores
  sleeping       \* the threads in wait()

Workers == Producers \cup Consumers
vars == <<shop, pc, iter, buffer, notFull, notEmpty, sleeping>>

ShopInit == /\ shop \in {"infinite", "semaphores", "conditions", "java", "channel"}
            /\ pc = [t \in Workers |-> "begin"]
            /\ iter = [t \in Workers |-> 0]
            /\ buffer = <<>>
            /\ notFull = Size /\ notEmpty = 0
            /\ sleeping = {}

At(kinds, t, label) == shop \in kinds /\ pc[t] = label
Goto(t, label) == pc' = [pc EXCEPT ![t] = label] /\ UNCHANGED iter
EndIteration(t) ==
  /\ iter' = [iter EXCEPT ![t] = @ + 1]
  /\ pc' = [pc EXCEPT ![t] = IF iter[t] + 1 = ToProduce THEN "done" ELSE "begin"]

\* append() of a deque with a maximal length drops the first element when it is
\* full; the list of producer-consumer-infinite.py grows.
Put(t) ==
  buffer' = Append(IF Len(buffer) = Size /\ shop \in {"semaphores", "conditions"}
                     THEN Tail(buffer) ELSE buffer, <<t, iter[t]>>)

-----------------------------------------------------------------------------
\* The programs with semaphores

\* notFull.acquire(), which the infinite buffer does not have.
AcquireNotFull(t) ==
  /\ At({"infinite", "semaphores"}, t, "begin")
  /\ IF shop = "infinite" THEN UNCHANGED notFull
                          ELSE notFull > 0 /\ notFull' = notFull - 1
  /\ Goto(t, "put")
  /\ UNCHANGED <<shop, buffer, notEmpty, sleeping>>

PutMutex(t) == /\ At({"infinite", "semaphores"}, t, "put")
               /\ Put(t)
               /\ Goto(t, "posted")
               /\ UNCHANGED <<shop, notFull, notEmpty, sleeping>>

ReleaseNotEmpty(t) == /\ At({"infinite", "semaphores"}, t, "posted")
                      /\ notEmpty' = notEmpty + 1
                      /\ EndIteration(t)
                      /\ UNCHANGED <<shop, buffer, notFull, sleeping>>

AcquireNotEmpty(t) == /\ At({"infinite", "semaphores"}, t, "begin") /\ notEmpty > 0
                      /\ notEmpty' = notEmpty - 1
                      /\ Goto(t, "take")
                      /\ UNCHANGED <<shop, buffer, notFull, sleeping>>

\* popleft() and pop(0): there is an element, or the thread gets no further.
TakeMutex(t) == /\ At({"infinite", "semaphores"}, t, "take") /\ buffer # <<>>
                /\ buffer' = Tail(buffer)
                /\ IF shop = "infinite" THEN EndIteration(t) ELSE Goto(t, "taken")
                /\ UNCHANGED <<shop, notFull, notEmpty, sleeping>>

ReleaseNotFull(t) == /\ At({"semaphores"}, t, "taken")
                     /\ notFull' = notFull + 1
                     /\ EndIteration(t)
                     /\ UNCHANGED <<shop, buffer, notEmpty, sleeping>>

-----------------------------------------------------------------------------
\* The monitors: append() and take() are one step after each wait().

\* The sets of threads that may be woken: one of those that wait for the
\* condition, or all with notifyAll().
Notified(waiters) ==
  IF shop = "java" THEN {sleeping}
  ELSE IF sleeping \cap waiters = {} THEN {{}} ELSE {{u} : u \in sleeping \cap waiters}

\* while the buffer is full (empty), wait().
MonitorWait(t, must) ==
  /\ At({"conditions", "java"}, t, "begin") /\ t \notin sleeping
  /\ must
  /\ sleeping' = sleeping \cup {t}
  /\ UNCHANGED <<shop, pc, iter, buffer, notFull, notEmpty>>

MonitorAppend(t) ==
  /\ At({"conditions", "java"}, t, "begin") /\ t \notin sleeping
  /\ Len(buffer) # Size
  /\ Put(t)
  /\ \E woken \in Notified(Consumers) : sleeping' = sleeping \ woken
  /\ EndIteration(t)
  /\ UNCHANGED <<shop, notFull, notEmpty>>

MonitorTake(t) ==
  /\ At({"conditions", "java"}, t, "begin") /\ t \notin sleeping
  /\ buffer # <<>>
  /\ buffer' = Tail(buffer)
  /\ \E woken \in Notified(Producers) : sleeping' = sleeping \ woken
  /\ EndIteration(t)
  /\ UNCHANGED <<shop, notFull, notEmpty>>

\* Object.wait() may return without a notify; wait() of Python does not.
SpuriousWake(t) == /\ shop = "java" /\ t \in sleeping
                   /\ sleeping' = sleeping \ {t}
                   /\ UNCHANGED <<shop, pc, iter, buffer, notFull, notEmpty>>

-----------------------------------------------------------------------------
\* The buffer of producer_consumer.go is a channel.

Send(t) == /\ At({"channel"}, t, "begin") /\ Len(buffer) < Size
           /\ Put(t)
           /\ EndIteration(t)
           /\ UNCHANGED <<shop, notFull, notEmpty, sleeping>>

Receive(t) == /\ At({"channel"}, t, "begin") /\ buffer # <<>>
              /\ buffer' = Tail(buffer)
              /\ EndIteration(t)
              /\ UNCHANGED <<shop, notFull, notEmpty, sleeping>>

-----------------------------------------------------------------------------

ProducerStep(t) == \/ AcquireNotFull(t) \/ PutMutex(t) \/ ReleaseNotEmpty(t)
                   \/ MonitorWait(t, Len(buffer) = Size) \/ MonitorAppend(t) \/ Send(t)

ConsumerStep(t) == \/ AcquireNotEmpty(t) \/ TakeMutex(t) \/ ReleaseNotFull(t)
                   \/ MonitorWait(t, buffer = <<>>) \/ MonitorTake(t) \/ Receive(t)

ShopStep(t) == \/ t \in Producers /\ ProducerStep(t)
               \/ t \in Consumers /\ ConsumerStep(t)

\* A queue: a step appends the next datum of one producer at the end, takes the
\* first one, or does neither; nothing is dropped, and the bounded buffers stay
\* within their size.
QueueStep ==
  /\ \/ buffer' = buffer
     \/ \E t \in Producers : buffer' = Append(buffer, <<t, iter[t]>>)
     \/ buffer # <<>> /\ buffer' = Tail(buffer)
  /\ shop # "infinite" => Len(buffer') <= Size
=============================================================================
