---------------------------- MODULE MCSpinlocks ----------------------------
(***************************************************************************)
(* The spinlocks of spinlocks/ and hardware/ and the elided locks of       *)
(* transactional/ for TLC, with store buffers: the initial state chooses   *)
(* the family and the program.  Wrap, the width of the tickets, is so      *)
(* small that they wrap in every run.                                      *)
(***************************************************************************)
EXTENDS TSOCountLoop

CONSTANTS Wrap, Padding, Period, Retries

\* A ticket has 16 bits or more, and there are no more threads than tickets.
ASSUME WrapAssumption == Wrap \in Nat /\ Wrap > 1 /\ Cardinality(Threads) <= Wrap

VARIABLES
  family,                 \* which module runs
  prog,                   \* which of its programs
  ticket, node, pred, turn,   \* the locals of the modules
  htm,                    \* the hardware transactions of Elision
  arrived   \* history: the threads that wait, in the order of the atomic
            \* instruction that gives a thread its place in the queue

locals == <<ticket, node, pred, turn, htm>>
mcvars == <<loopvars, memvars, family, prog, locals, arrived>>

Spin == INSTANCE SpinLock
Slots == INSTANCE SlotLocks
Nodes == INSTANCE NodeLocks
Rw == INSTANCE SpinRWLocks
Htm == INSTANCE Elision WITH BufferSize <- 1

\* The node that the CLH lock starts with, and NULL, are nobody's node.
ASSUME NodesAssumption == Nodes!LockNode \notin Threads /\ Nodes!Null \notin Threads

\* NUM_THREADS, 4 in the sources, divides 2^16, and SIZE fits in an index.
ASSUME SlotAssumption == /\ Padding \in Nat \ {0}
                         /\ Cardinality(Threads) * Padding <= Wrap
                         /\ Threads # {} => Wrap % Cardinality(Threads) = 0

Unused == <<>>

NoRw == turn = Unused /\ htm = Unused
NoQueue == node = Unused /\ pred = Unused

MCInit ==
  /\ arrived = <<>>
  /\ \/ family = "spin" /\ Spin!Init /\ ticket = Unused /\ NoQueue /\ NoRw
     \/ family = "slots" /\ Slots!Init /\ NoQueue /\ NoRw
     \/ family = "nodes" /\ Nodes!Init /\ ticket = Unused /\ NoRw
     \/ family = "rw" /\ Rw!Init /\ NoQueue /\ htm = Unused
     \/ family = "elision" /\ Htm!Init /\ ticket = Unused /\ NoQueue /\ turn = Unused

\* The instruction that queues a thread, and the one that lets it in.
Arrives(t) == /\ pc[t] = IF family = "nodes" THEN "swap" ELSE "begin"
              /\ pc'[t] # pc[t]
Enters(t) == pc[t] # "load" /\ pc'[t] = "load"

\* Whoever enters takes the first thread off the queue, which QueueLocksAreFifo
\* then wants to be that thread.
Record ==
  arrived' =
    IF family \in {"spin", "rw", "elision"} THEN arrived
    ELSE IF \E t \in Threads : Arrives(t)
      THEN Append(arrived, CHOOSE t \in Threads : Arrives(t))
    ELSE IF \E t \in Threads : Enters(t) /\ arrived # <<>>
      THEN Tail(arrived)
    ELSE arrived

\* An instruction of thread t.
MCStep(t) ==
  /\ \/ family = "spin" /\ Spin!Step(t) /\ UNCHANGED locals
     \/ family = "slots" /\ Slots!Step(t) /\ UNCHANGED <<node, pred, turn, htm>>
     \/ family = "nodes" /\ Nodes!Step(t) /\ UNCHANGED <<ticket, turn, htm>>
     \/ family = "rw" /\ Rw!Step(t) /\ UNCHANGED <<node, pred, htm>>
     \/ family = "elision" /\ Htm!Step(t) /\ UNCHANGED <<ticket, node, pred, turn>>
  /\ Record
  /\ UNCHANGED family

MCDrain(t) ==
  /\ IF family = "elision"
       THEN Htm!DrainStep(t) /\ UNCHANGED <<ticket, node, pred, turn>>
       ELSE Drain(t) /\ UNCHANGED <<prog, locals>>
  /\ UNCHANGED <<family, arrived>>

MCSpontaneous(t) ==
  /\ family = "elision" /\ Htm!Spontaneous(t)
  /\ UNCHANGED <<ticket, node, pred, turn, family, arrived>>

MCJoin == Joined /\ UNCHANGED <<family, prog, locals, arrived>>

MCNext == \/ \E t \in Threads : MCStep(t) \/ MCDrain(t) \/ MCSpontaneous(t)
          \/ MCJoin

\* Processors execute instructions and drain store buffers.
MCSpec == /\ MCInit /\ [][MCNext]_mcvars
          /\ \A t \in Threads : WF_mcvars(MCStep(t)) /\ WF_mcvars(MCDrain(t))

-----------------------------------------------------------------------------

\* The threads between lock() and the end of unlock().
Inside == {t \in Threads :
  pc[t] \in {"load", "store", "unlock", "cas", "linked", "handoff"}}

Fifo == INSTANCE FifoLock WITH queue <- arrived, inside <- Inside

\* The ticket, array, CLH and MCS locks implement a first-come-first-served
\* lock, also when the tickets wrap and with stores still in the buffers.
QueueLocksAreFifo ==
  [][(family \in {"slots", "nodes"}) => Fifo!Next]_<<arrived, Inside>>

\* The nodes of the CLH and MCS queues are never used for two rounds at once,
\* although a node goes from thread to thread, or back into the queue, as soon
\* as unlock() has ended.
QueueNodesAreSafe ==
  family = "nodes" => /\ prog.lock = "clh" => Nodes!NodesAreOwned
                      /\ prog.lock = "mcs" => Nodes!NoStrayStore

\* The reader-writer locks: no reader is inside while a writer is.
ReadersExcludeWriter == family = "rw" => Rw!ReadersExcludeWriter

\* The elided locks: no hardware transaction lives on beside the fallback.
ElisionIsExclusive == family = "elision" => Htm!FallbackExcludesTransactions

\* Every thread finishes and main prints the expected count: one for every
\* iteration, or for every iteration that writes.
Expected == Cardinality(Threads) *
  (IF family = "rw" \/ (family = "elision" /\ prog.reads)
     THEN Cardinality({i \in 0 .. Iterations - 1 : i % Period = 0}) ELSE Iterations)
Counted == IF family = "elision" THEN mem[Htm!Cell(0)] + mem[Htm!Cell(1)] ELSE mem[Counter]
EverySpinlockEnds == <>(AllDone /\ Counted = Expected)
=============================================================================
