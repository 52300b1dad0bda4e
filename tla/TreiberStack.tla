---------------------------- MODULE TreiberStack ----------------------------
(***************************************************************************)
(* The lock-free stacks of hardware/: stack_cas_tagged.c, which compares   *)
(* the head together with a counter, hardware/arm/stack_llsc_freelist.c    *)
(* with stack_llsc.s, which uses load linked and store conditional, and    *)
(* stack_cas_freelist.c, which compares the bare pointer and calls itself  *)
(* "FAULTY".  A thread takes a node from the free list, or allocates one,  *)
(* pushes it on the stack, pops a node and puts that on the free list.     *)
(***************************************************************************)
EXTENDS Naturals, Sequences, FiniteSets

CONSTANTS
  Threads,
  Nodes,         \* as many as malloc() may be asked for
  NULL,
  Operations,    \* iterations of each thread (OPERATIONS/NUM_THREADS)
  Variants       \* of {"tagged", "llsc", "freelist"}

VARIABLES
  variant,       \* the program that runs; it never changes
  head,          \* head[l]: the node on top of list l and a count; the count is
                 \* node_head.aba, and for LL/SC the stores that break a link
  next,          \* next[n]: the field of node n
  e,             \* e[t]: the node that t owns, or NULL
  old,           \* old[t]: what t has read of the head
  after,         \* after[t]: what t has read of the next field of that node
  call, pc,      \* the call that t executes and its next step in it
  iter

vars == <<variant, head, next, e, old, after, call, pc, iter>>

Lists == {"stack", "free"}
NoHead == [node |-> NULL, aba |-> 0]

Init == /\ variant \in Variants
        /\ head = [l \in Lists |-> NoHead]
        /\ next = [n \in Nodes |-> NULL]
        /\ e = [t \in Threads |-> NULL]
        /\ old = [t \in Threads |-> NoHead]
        /\ after = [t \in Threads |-> NULL]
        /\ call = [t \in Threads |-> "get"]
        /\ pc = [t \in Threads |-> "read"]
        /\ iter = [t \in Threads |-> 0]

\* add_elements(): "get" is pop(&free_nodes), "put" push(&head), "take"
\* pop(&head) and "back" push(&free_nodes).
Pops(t) == call[t] \in {"get", "take"}
List(t) == IF call[t] \in {"get", "back"} THEN "free" ELSE "stack"

Goto(t, l) == pc' = [pc EXCEPT ![t] = l]

\* The thread goes on to another call.
Begin(t, c, l) == /\ call' = [call EXCEPT ![t] = c]
                  /\ Goto(t, l)
                  /\ old' = [old EXCEPT ![t] = NoHead]
                  /\ after' = [after EXCEPT ![t] = NULL]

\* i++ and the test of the loop.
EndIteration(t) ==
  /\ iter' = [iter EXCEPT ![t] = @ + 1]
  /\ Begin(t, "get", IF iter[t] + 1 = Operations THEN "done" ELSE "read")

-----------------------------------------------------------------------------

\* The load of the head: atomic, of two words, linked, or plain.
ReadHead(t) ==
  /\ pc[t] = "read"
  /\ old' = [old EXCEPT ![t] = head[List(t)]]
  /\ Goto(t, "link")
  /\ UNCHANGED <<variant, head, next, e, after, call, iter>>

\* pop() finds the list empty: add_elements() allocates a node, or complains
\* "it shouldn't be empty".
Empty(t) ==
  /\ pc[t] = "link" /\ Pops(t) /\ old[t].node = NULL
  /\ IF call[t] = "get"
       THEN /\ \E n \in Nodes \ {e[u] : u \in Threads} :
                 /\ \A m \in Nodes : next[m] # n
                 /\ \A l \in Lists : head[l].node # n
                 /\ e' = [e EXCEPT ![t] = n]
            /\ Begin(t, "put", "read")
            /\ UNCHANGED iter
       ELSE EndIteration(t) /\ UNCHANGED e
  /\ UNCHANGED <<variant, head, next>>

\* pop() reads the next field of the top node.
ReadNext(t) ==
  /\ pc[t] = "link" /\ Pops(t) /\ old[t].node # NULL
  /\ after' = [after EXCEPT ![t] = next[old[t].node]]
  /\ Goto(t, "swap")
  /\ UNCHANGED <<variant, head, next, e, old, call, iter>>

\* push() writes the next field of its node.
WriteNext(t) ==
  /\ pc[t] = "link" /\ ~ Pops(t)
  /\ next' = [next EXCEPT ![e[t]] = old[t].node]
  /\ Goto(t, IF variant = "llsc" THEN "linked" ELSE "swap")
  /\ UNCHANGED <<variant, head, e, old, after, call, iter>>

\* push() of stack_llsc.s: ldrex, and a comparison with what was read before.
LoadLinked(t) ==
  /\ pc[t] = "linked"
  /\ IF head[List(t)].node = next[e[t]]
       THEN old' = [old EXCEPT ![t] = head[List(t)]] /\ Goto(t, "swap")
       ELSE Goto(t, "read") /\ UNCHANGED old
  /\ UNCHANGED <<variant, head, next, e, after, call, iter>>

\* Mutant: the pointers alone are compared.
MatchesPointer(cur, was) == cur.node = was.node

\* The comparison of the compare and swap, or of the store conditional.
Matches(cur, was) == IF variant = "freelist" THEN cur.node = was.node ELSE cur = was

\* The head is replaced, and the call returns.
Swap(t) ==
  LET l == List(t)
      top == IF Pops(t) THEN after[t] ELSE e[t]
  IN  /\ pc[t] = "swap" /\ Matches(head[l], old[t])
      /\ head' = [head EXCEPT ![l] =
                    [node |-> top, aba |-> IF variant = "freelist" THEN 0 ELSE @.aba + 1]]
      /\ e' = [e EXCEPT ![t] = IF Pops(t) THEN old[t].node ELSE NULL]
      /\ \/ call[t] = "get" /\ Begin(t, "put", "read") /\ UNCHANGED iter
         \/ call[t] = "put" /\ Begin(t, "take", "read") /\ UNCHANGED iter
         \/ /\ call[t] = "take" /\ UNCHANGED iter
            /\ Begin(t, "back", IF variant = "tagged" THEN "read" ELSE "clear")
         \/ call[t] = "back" /\ EndIteration(t)
      /\ UNCHANGED <<variant, next>>

\* It is not, and is read again.
SwapFails(t) ==
  /\ pc[t] = "swap" /\ ~ Matches(head[List(t)], old[t])
  /\ IF variant = "llsc"
       THEN Goto(t, "read") /\ UNCHANGED old
       ELSE Goto(t, "link") /\ old' = [old EXCEPT ![t] = head[List(t)]]
  /\ UNCHANGED <<variant, head, next, e, after, call, iter>>

\* e->next = NULL, before the node goes back to the free list.
ClearNext(t) == /\ pc[t] = "clear"
                /\ next' = [next EXCEPT ![e[t]] = NULL]
                /\ Goto(t, "read")
                /\ UNCHANGED <<variant, head, e, old, after, call, iter>>

Step(t) == \/ ReadHead(t) \/ Empty(t) \/ ReadNext(t) \/ WriteNext(t)
           \/ LoadLinked(t) \/ Swap(t) \/ SwapFails(t) \/ ClearNext(t)

AllDone == \A t \in Threads : pc[t] = "done"

Next == (\E t \in Threads : Step(t)) \/ (AllDone /\ UNCHANGED vars)

\* A thread that can execute its next instruction eventually does.
FairSpec == Init /\ [][Next]_vars /\ \A t \in Threads : WF_vars(Step(t))

-----------------------------------------------------------------------------

\* The node that comes after the first i of those that are linked from n on.
Link(s, n, i) == IF i = 0 THEN n ELSE next[s[i]]

\* The nodes from n on, as far as there are nodes.
Chain(n) ==
  CHOOSE s \in UNION {[1 .. k -> Nodes] : k \in 0 .. Cardinality(Nodes)} :
    /\ \A i \in 1 .. Len(s) : s[i] = Link(s, n, i - 1)
    /\ Len(s) < Cardinality(Nodes) => Link(s, n, Len(s)) = NULL

Contents == [l \in Lists |-> Chain(head[l].node)]

Stack == INSTANCE LifoStack WITH list <- Contents, owner <- e

\* The stack and the free list are linearizable: every step is a push or a pop
\* of the abstract stack, or changes nothing.
StackIsLinearizable == [][Stack!Next]_<<Contents, e>>

\* "it shouldn't be empty": a thread that has pushed a node finds one to pop.
NeverEmpty == \A t \in Threads :
                ~ (call[t] = "take" /\ pc[t] = "link" /\ old[t].node = NULL)

Termination == <>AllDone
=============================================================================
