---------------------------- MODULE Philosophers ----------------------------
(***************************************************************************)
(* The dining philosophers:                                                *)
(*   "forks"     semaphores/philosophers_1.py, channels/philosophers.go    *)
(*               and philosophers_sync.go: one lock for each fork          *)
(*   "status"    semaphores/philosophers_2.py: one semaphore for each      *)
(*               philosopher                                               *)
(*   "provider"  channels/philosophers_provider.go: a goroutine decides    *)
(*   "counts"    monitors/philosophers.py and PhilosopherConditions.java:  *)
(*               one condition for each philosopher                        *)
(*   "table"     monitors/Philosopher.java: one condition for all          *)
(* A fork that is a channel can be taken when its message is there, or     *)
(* when its goroutine offers it.  What is done under a mutex, in a         *)
(* synchronized method or by the provider alone is one step.               *)
(***************************************************************************)
EXTENDS Integers, Sequences, FiniteSets

CONSTANTS
  N,           \* PHILOSOPHERS
  EatCount

Seats == 0 .. N - 1
Right(i) == (i + 1) % N
Left(i) == (i - 1) % N
Neighbours(i) == {Left(i), Right(i)}

VARIABLES
  table,       \* the program that runs
  pc,          \* pc[i]: where philosopher i is
  iter,        \* iter[i]: how often it has eaten
  forks,       \* "forks", "table": forks[i] is on the table; "counts": the forks
               \* that philosopher i could take
  status,      \* status[i], of "status" and "provider"
  sync,        \* sync[i]: the value of its semaphore
  todo,        \* "provider": the philosophers it still has to look at
  sleeping     \* the philosophers in wait()

vars == <<table, pc, iter, forks, status, sync, todo, sleeping>>

PhilInit == /\ table \in {"forks", "status", "provider", "counts", "table"}
            /\ pc = [i \in Seats |-> "think"]
            /\ iter = [i \in Seats |-> 0]
            /\ forks = [i \in Seats |-> IF table = "counts" THEN 2 ELSE 1]
            /\ status = [i \in Seats |-> "THINKING"]
            /\ sync = [i \in Seats |-> 0]
            /\ todo = <<>> /\ sleeping = {}

At(kind, i, label) == table = kind /\ pc[i] = label
Goto(i, label) == pc' = [pc EXCEPT ![i] = label] /\ UNCHANGED iter

\* The end of an iteration of run().
EndMeal(i) == /\ iter' = [iter EXCEPT ![i] = @ + 1]
              /\ pc' = [pc EXCEPT ![i] = IF iter[i] + 1 = EatCount THEN "done" ELSE "think"]

-----------------------------------------------------------------------------
\* pick() and release() with a lock for each fork, the smaller number first

FirstFork(i) == IF i < Right(i) THEN i ELSE Right(i)
SecondFork(i) == IF FirstFork(i) = i THEN Right(i) ELSE i

Take(i, fork, from, to) == /\ At("forks", i, from) /\ forks[fork] = 1
                           /\ forks' = [forks EXCEPT ![fork] = 0]
                           /\ Goto(i, to)
                           /\ UNCHANGED <<table, status, sync, todo, sleeping>>

PickFirst(i) == Take(i, FirstFork(i), "think", "second")
PickSecond(i) == Take(i, SecondFork(i), "second", "eat")

PutBack(i) == /\ At("forks", i, "eat")
              /\ forks' = [forks EXCEPT ![i] = 1]
              /\ Goto(i, "right")
              /\ UNCHANGED <<table, status, sync, todo, sleeping>>

PutBackRight(i) == /\ At("forks", i, "right")
                   /\ forks' = [forks EXCEPT ![Right(i)] = 1]
                   /\ EndMeal(i)
                   /\ UNCHANGED <<table, status, sync, todo, sleeping>>

-----------------------------------------------------------------------------
\* philosophers_2.py and philosophers_provider.go: who may eat is told so

\* Mutant: only the neighbour on the left is looked at.
CanEatLeft(s, i) == s[i] = "HUNGRY" /\ s[Left(i)] # "EATING"

CanEat(s, i) == s[i] = "HUNGRY" /\ \A j \in Neighbours(i) : s[j] # "EATING"

\* canEat(i) in state s.
Seated(s, i) == IF CanEat(s, i) THEN [s EXCEPT ![i] = "EATING"] ELSE s

\* The semaphores of those who begin to eat between the states s and u.
Released(s, u) ==
  [i \in Seats |-> IF s[i] # "EATING" /\ u[i] = "EATING" THEN sync[i] + 1 ELSE sync[i]]

PickHungry(i) ==
  LET s == [status EXCEPT ![i] = "HUNGRY"]
  IN  /\ At("status", i, "think")
      /\ status' = Seated(s, i)
      /\ sync' = Released(s, status')
      /\ Goto(i, "sync")
      /\ UNCHANGED <<table, forks, todo, sleeping>>

\* sync[self.id].acquire()
AcquireSync(i) == /\ At("status", i, "sync") /\ sync[i] > 0
                  /\ sync' = [sync EXCEPT ![i] = @ - 1]
                  /\ Goto(i, "eat")
                  /\ UNCHANGED <<table, forks, status, todo, sleeping>>

\* left(i) of philosophers_2.py is i + 1.
ReleaseBoth(i) ==
  LET s == [status EXCEPT ![i] = "THINKING"]
  IN  /\ At("status", i, "eat")
      /\ status' = Seated(Seated(s, Right(i)), Left(i))
      /\ sync' = Released(s, status')
      /\ EndMeal(i)
      /\ UNCHANGED <<table, forks, todo, sleeping>>

\* provider <- Request{...}, received by the provider when it has nothing to do.
AskProvider(i) ==
  /\ At("provider", i, "think") /\ todo = <<>>
  /\ status' = [status EXCEPT ![i] = "HUNGRY"]
  /\ todo' = <<i>>
  /\ Goto(i, "await")
  /\ UNCHANGED <<table, forks, sync, sleeping>>

TellProvider(i) ==
  /\ At("provider", i, "eat") /\ todo = <<>>
  /\ status' = [status EXCEPT ![i] = "THINKING"]
  /\ todo' = <<Left(i), Right(i)>>
  /\ EndMeal(i)
  /\ UNCHANGED <<table, forks, sync, sleeping>>

\* canEat() in the provider: the send meets the receive of the philosopher.
Provide ==
  /\ table = "provider" /\ todo # <<>>
  /\ status' = Seated(status, Head(todo))
  /\ todo' = Tail(todo)
  /\ IF CanEat(status, Head(todo))
       THEN pc[Head(todo)] = "await" /\ Goto(Head(todo), "eat")
       ELSE UNCHANGED <<pc, iter>>
  /\ UNCHANGED <<table, forks, sync, sleeping>>

-----------------------------------------------------------------------------
\* The monitors

\* Philosopher i may eat, and the forks that it then leaves.
Available(i) == IF table = "counts" THEN forks[i] = 2
                                    ELSE forks[i] = 1 /\ forks[Right(i)] = 1
MonitorTaken(i) == IF table = "counts" THEN Neighbours(i) ELSE {i, Right(i)}

\* pick(): while the forks are not there, wait().
MonitorPick(i) ==
  /\ table \in {"counts", "table"} /\ pc[i] = "think" /\ i \notin sleeping
  /\ IF Available(i)
       THEN /\ forks' = [j \in Seats |-> IF j \in MonitorTaken(i) THEN forks[j] - 1 ELSE forks[j]]
            /\ Goto(i, "eat") /\ UNCHANGED sleeping
       ELSE sleeping' = sleeping \cup {i} /\ UNCHANGED <<forks, pc, iter>>
  /\ UNCHANGED <<table, status, sync, todo>>

\* release(): the neighbours that have two forks now are notified, or everybody.
MonitorRelease(i) ==
  /\ table \in {"counts", "table"} /\ pc[i] = "eat"
  /\ forks' = [j \in Seats |-> IF j \in MonitorTaken(i) THEN forks[j] + 1 ELSE forks[j]]
  /\ sleeping' = IF table = "counts" THEN sleeping \ {j \in Neighbours(i) : forks'[j] = 2}
                                     ELSE {}
  /\ EndMeal(i)
  /\ UNCHANGED <<table, status, sync, todo>>

\* The waits of Java may return without a signal.
SpuriousWake(i) == /\ i \in sleeping
                   /\ sleeping' = sleeping \ {i}
                   /\ UNCHANGED <<table, pc, iter, forks, status, sync, todo>>

-----------------------------------------------------------------------------

PhilStep(i) == \/ PickFirst(i) \/ PickSecond(i) \/ PutBack(i) \/ PutBackRight(i)
               \/ PickHungry(i) \/ AcquireSync(i) \/ ReleaseBoth(i)
               \/ AskProvider(i) \/ TellProvider(i) \/ MonitorPick(i) \/ MonitorRelease(i)

\* Neighbours share a fork and do not eat together; philosopher i has both forks
\* from "eat" on, and the right one until it is back.
NeighboursEatApart ==
  \A i \in Seats : pc[i] = "eat" => pc[Left(i)] \notin {"eat", "right"} /\ pc[Right(i)] # "eat"

\* Nobody who could eat waits for good: a hungry philosopher that has not been
\* told to eat has a neighbour that eats, or the provider is about to look at
\* it; one that sleeps has forks missing.
NobodyStarvesUnnoticed ==
  /\ \A i \in Seats : CanEat(status, i) => \E k \in DOMAIN todo : todo[k] = i
  /\ \A i \in sleeping : ~ Available(i)
  /\ \A i \in Seats : table = "status" =>
       (status[i] = "EATING" <=> pc[i] = "eat" \/ sync[i] = 1) /\ sync[i] \in {0, 1}
=============================================================================
