----------------------------- MODULE NodeLocks -----------------------------
(***************************************************************************)
(* The queue locks that are linked lists of nodes, over module TSO.        *)
(* A thread of the CLH lock (spinlocks/clh_spinlock.c and                  *)
(* clh_spinlock_yield.c) spins on the node of its predecessor and takes    *)
(* that node over when it leaves.  A thread of the MCS lock                *)
(* (spinlocks/mcs_spinlock.c and mcs_spinlock_yield.c) spins on its own    *)
(* node, which lives on its stack and is used again in every iteration.    *)
(* The fields of the nodes are read and written with plain instructions.   *)
(***************************************************************************)
EXTENDS TSOCountLoop

VARIABLES
  prog,     \* the program that runs; it never changes
  node,     \* node[t]: the variable of count(); t first has the node named t
  pred      \* pred[t]: the field prev of node[t], which only t accesses, or
            \* the local `predecessor` of lock()

vars == <<loopvars, memvars, prog, node, pred>>

TailWord == <<"tail", 0>>
Locked(n) == <<"locked", n>>
NextOf(n) == <<"next", n>>

Program(lock, pause) == [lock |-> lock, pause |-> pause]
CLH == Program("clh", FALSE)
CLHYield == Program("clh", TRUE)
MCS == Program("mcs", FALSE)
MCSYield == Program("mcs", TRUE)

\* sched_yield()
Yield(t) == /\ pc[t] = "pause"
            /\ Goto(t, "wait")
            /\ UNCHANGED <<reg, iter, memvars, prog, node, pred>>

\* `counter += 1` in count().
Count(t) == (Load(t) \/ Store(t)) /\ UNCHANGED <<prog, node, pred>>

-----------------------------------------------------------------------------
(* The CLH lock *)

LockNode == "lock_node"
ClhInit == /\ prog \in {CLH, CLHYield}
           /\ MemInit([a \in {TailWord, Counter, Locked(LockNode)}
                               \cup {Locked(t) : t \in Threads} |->
                         IF a = TailWord THEN LockNode ELSE 0])
           /\ pred = [t \in Threads |-> LockNode]

\* node->locked = 1
ClhSetLocked(t) == /\ pc[t] = "begin"
                   /\ Write(t, Locked(node[t]), 1)
                   /\ Goto(t, "swap")
                   /\ UNCHANGED <<reg, iter, prog, node, pred>>

\* predecessor = node->prev = exchange(&tail, node)
ClhExchange(t) == /\ pc[t] = "swap"
                  /\ Update(t, TailWord, node[t])
                  /\ pred' = [pred EXCEPT ![t] = mem[TailWord]]
                  /\ Goto(t, "wait")
                  /\ UNCHANGED <<reg, iter, prog, node>>

\* while (predecessor->locked)
AwaitPredecessor(t) ==
  /\ pc[t] = "wait"
  /\ Goto(t, IF Read(t, Locked(pred[t])) = 0 THEN "load"
             ELSE IF prog.pause THEN "pause" ELSE "wait")
  /\ UNCHANGED <<reg, iter, memvars, prog, node, pred>>

\* Mutant: the thread keeps its own node for its next lock().
ClhUnlockKeepsNode(t) == /\ pc[t] = "unlock"
                         /\ Write(t, Locked(node[t]), 0)
                         /\ EndIteration(t)
                         /\ UNCHANGED <<prog, node, pred>>

\* The thread takes its predecessor's node and releases its own.
ClhUnlock(t) == /\ pc[t] = "unlock"
                /\ node' = [node EXCEPT ![t] = pred[t]]
                /\ Write(t, Locked(node[t]), 0)
                /\ EndIteration(t)
                /\ UNCHANGED <<prog, pred>>

ClhStep(t) == ClhSetLocked(t) \/ ClhExchange(t) \/ AwaitPredecessor(t) \/ ClhUnlock(t)

-----------------------------------------------------------------------------
(* The MCS lock *)

Null == "NULL"

\* The nodes are written before they are read; they start as 0 here.
McsInit == /\ prog \in {MCS, MCSYield}
           /\ MemInit([a \in {TailWord, Counter} \cup {NextOf(t) : t \in Threads}
                               \cup {Locked(t) : t \in Threads} |->
                         IF a[1] \in {"tail", "next"} THEN Null ELSE 0])
           /\ pred = [t \in Threads |-> Null]

\* node->next = NULL
ClearNext(t) == /\ pc[t] = "begin"
                /\ Write(t, NextOf(t), Null)
                /\ Goto(t, "set")
                /\ UNCHANGED <<reg, iter, prog, node, pred>>

\* node->locked = 1
SetLocked(t) == /\ pc[t] = "set"
                /\ Write(t, Locked(t), 1)
                /\ Goto(t, "swap")
                /\ UNCHANGED <<reg, iter, prog, node, pred>>

\* predecessor = exchange(&tail, node)
Exchange(t) == /\ pc[t] = "swap"
               /\ Update(t, TailWord, t)
               /\ pred' = [pred EXCEPT ![t] = mem[TailWord]]
               /\ Goto(t, IF mem[TailWord] = Null THEN "own" ELSE "link")
               /\ UNCHANGED <<reg, iter, prog, node>>

\* predecessor->next = node
Link(t) == /\ pc[t] = "link"
           /\ Write(t, NextOf(pred[t]), t)
           /\ Goto(t, "wait")
           /\ UNCHANGED <<reg, iter, prog, node, pred>>

\* while (node->locked)
AwaitLocked(t) ==
  /\ pc[t] = "wait"
  /\ Goto(t, IF Read(t, Locked(t)) = 0 THEN "own"
             ELSE IF prog.pause THEN "pause" ELSE "wait")
  /\ UNCHANGED <<reg, iter, memvars, prog, node, pred>>

\* node->locked = 0
Own(t) == /\ pc[t] = "own"
          /\ Write(t, Locked(t), 0)
          /\ Goto(t, "load")
          /\ UNCHANGED <<reg, iter, prog, node, pred>>

\* if (! node->next)
TestNext(t) == /\ pc[t] = "unlock"
               /\ Goto(t, IF Read(t, NextOf(t)) = Null THEN "cas" ELSE "handoff")
               /\ UNCHANGED <<reg, iter, memvars, prog, node, pred>>

\* compare_exchange(&tail, &last, NULL): unlock() ends, or somebody is queued
\* behind who has not linked itself yet.
ClearTail(t) ==
  /\ pc[t] = "cas"
  /\ \/ /\ mem[TailWord] = t
        /\ Update(t, TailWord, Null)
        /\ EndIteration(t)
     \/ /\ mem[TailWord] # t /\ Drained(t)
        /\ Goto(t, "linked")
        /\ UNCHANGED <<reg, iter, memvars>>
  /\ UNCHANGED <<prog, node, pred>>

\* while (! node->next)
AwaitNext(t) ==
  /\ pc[t] = "linked"
  /\ Goto(t, IF Read(t, NextOf(t)) = Null THEN "linked" ELSE "handoff")
  /\ UNCHANGED <<reg, iter, memvars, prog, node, pred>>

\* node->next->locked = 0
Handoff(t) == /\ pc[t] = "handoff"
              /\ Write(t, Locked(Read(t, NextOf(t))), 0)
              /\ EndIteration(t)
              /\ UNCHANGED <<prog, node, pred>>

McsStep(t) == \/ ClearNext(t) \/ SetLocked(t) \/ Exchange(t) \/ Link(t)
              \/ AwaitLocked(t) \/ Own(t) \/ TestNext(t) \/ ClearTail(t)
              \/ AwaitNext(t) \/ Handoff(t)

-----------------------------------------------------------------------------

Init == /\ ClhInit \/ McsInit
        /\ LoopInit
        /\ node = [t \in Threads |-> t]

Step(t) == \/ prog.lock = "clh" /\ ClhStep(t)
           \/ prog.lock = "mcs" /\ McsStep(t)
           \/ Yield(t) \/ Count(t)

DrainStep(t) == Drain(t) /\ UNCHANGED <<prog, node, pred>>

Join == Joined /\ UNCHANGED <<prog, node, pred>>

Next == (\E t \in Threads : Step(t) \/ DrainStep(t)) \/ Join

Spec == Init /\ [][Next]_vars

-----------------------------------------------------------------------------
Queued(t) == pc[t] \in {"wait", "pause", "load", "store", "unlock"}

\* CLH: the recycling of nodes is sound.  No two threads have the same node, two
\* queued threads never spin on the same one, and a thread about to queue its
\* node is the only one that can reach it (nobody spins on it, it is not the
\* tail), so that locked = 1 cannot be taken for another thread's lock.
NodesAreOwned ==
  /\ \A s, t \in Threads : s # t => node[s] # node[t]
  /\ \A s, t \in Threads : s # t /\ Queued(s) /\ Queued(t) => pred[s] # pred[t]
  /\ \A s, t \in Threads : ~ Queued(t) =>
       node[t] # mem[TailWord] /\ (Queued(s) => pred[s] # node[t])

InLock(t) == pc[t] \in {"link", "wait", "pause", "own"}
InUnlock(t) == pc[t] \in {"unlock", "cas", "linked", "handoff"}

\* The stores of t that memory has not seen.
Buffered(t) == {buf[t][k] : k \in 1 .. Len(buf[t])}

\* MCS: a thread's node is used again in its next iteration, so a store into it
\* by another thread must not outlive the round it belongs to.  While the
\* successor's link is in its store buffer the owner is still in lock(), in the
\* critical section or in unlock(), and while the hand-over is in a store
\* buffer its receiver is still in lock().
NoStrayStore ==
  \A s, t \in Threads : s # t =>
    \A w \in Buffered(t) :
      /\ NextOf(s) \in DOMAIN w =>
           InLock(s) \/ pc[s] \in {"load", "store"} \/ InUnlock(s)
      /\ Locked(s) \in DOMAIN w => pc[s] \in {"link", "wait", "pause"}
=============================================================================
