--------------------------- MODULE NeilsenMizuno ---------------------------
(***************************************************************************)
(* channels/distributed/mutex_token_passing_neilsen_mizuno.go: the token   *)
(* moves along a tree of parent pointers.  A node is a locking goroutine   *)
(* (pc) and a receiver of requests (rpc); both hold the node's mutex while *)
(* they block on the unbuffered channels, so the mutex is state.           *)
(***************************************************************************)
EXTENDS CountLoop, Integers

Nodes == Cardinality(Threads)   \* Threads is 0..Nodes-1

None == -1

VARIABLES
  rpc,       \* rpc[n]: where the receiver of n is
  msg,       \* msg[n]: the request the receiver of n is handling
  mutex,     \* mutex[n]: the mutex of n is held
  parent, holding, deferred    \* the variables of node(), by node

nodevars == <<rpc, msg, mutex, parent, holding, deferred>>
vars == <<loopvars, nodevars>>

\* Between two iterations of receiver() its variable m is out of scope.
NoMessage == [source |-> None, originator |-> None]

Init == /\ LoopInit
        /\ rpc = [n \in Threads |-> "receive"]
        /\ msg = [n \in Threads |-> NoMessage]
        /\ mutex = [n \in Threads |-> FALSE]
        /\ parent = [n \in Threads |-> IF n = 0 THEN None ELSE 0]
        /\ holding = [n \in Threads |-> n = 0]
        /\ deferred = [n \in Threads |-> None]

-----------------------------------------------------------------------------
(* lock() *)

\* mutex.Lock(), then: with the token, holding = false and mutex.Unlock();
\* without it, on to the request with the mutex held.
Lock(n) ==
  /\ pc[n] = "begin"
  /\ ~ mutex[n]
  /\ \/ /\ holding[n]
        /\ holding' = [holding EXCEPT ![n] = FALSE]
        /\ Goto(n, "load")
        /\ UNCHANGED mutex
     \/ /\ ~ holding[n]
        /\ mutex' = [mutex EXCEPT ![n] = TRUE]
        /\ Goto(n, "request")
        /\ UNCHANGED holding
  /\ UNCHANGED <<counter, reg, iter, rpc, msg, parent, deferred>>

\* Mutant: the requester does not become the root.
SendRequestKeepsParent(n) ==
  /\ pc[n] = "request"
  /\ rpc[parent[n]] = "receive"
  /\ msg' = [msg EXCEPT ![parent[n]] = [source |-> n, originator |-> n]]
  /\ rpc' = [rpc EXCEPT ![parent[n]] = "handle"]
  /\ Goto(n, "await")
  /\ UNCHANGED <<counter, reg, iter, mutex, parent, holding, deferred>>

\* requests[parent] <- Message{id, id}; parent = None
SendRequest(n) ==
  /\ pc[n] = "request"
  /\ rpc[parent[n]] = "receive"
  /\ msg' = [msg EXCEPT ![parent[n]] = [source |-> n, originator |-> n]]
  /\ rpc' = [rpc EXCEPT ![parent[n]] = "handle"]
  /\ parent' = [parent EXCEPT ![n] = None]
  /\ Goto(n, "await")
  /\ UNCHANGED <<counter, reg, iter, mutex, holding, deferred>>

\* <-replies[s], holding = false and mutex.Unlock() of the receiving node.
Token(s) == pc[s] = "await"

-----------------------------------------------------------------------------
(* receiver() *)

\* mutex.Lock() and the choice: at the root, send the token or defer; else
\* forward.  The two sends block with the mutex held.
Handle(n) ==
  LET m == msg[n] IN
  /\ rpc[n] = "handle"
  /\ ~ mutex[n]
  /\ \/ /\ parent[n] # None
        /\ mutex' = [mutex EXCEPT ![n] = TRUE]
        /\ rpc' = [rpc EXCEPT ![n] = "forward"]
        /\ UNCHANGED <<deferred, parent, msg>>
     \/ /\ parent[n] = None /\ holding[n]
        /\ mutex' = [mutex EXCEPT ![n] = TRUE]
        /\ rpc' = [rpc EXCEPT ![n] = "reply"]
        /\ UNCHANGED <<deferred, parent, msg>>
     \/ /\ parent[n] = None /\ ~ holding[n]
        /\ deferred' = [deferred EXCEPT ![n] = m.originator]
        /\ parent' = [parent EXCEPT ![n] = m.source]
        /\ rpc' = [rpc EXCEPT ![n] = "receive"]
        /\ msg' = [msg EXCEPT ![n] = NoMessage]
        /\ UNCHANGED mutex
  /\ UNCHANGED <<loopvars, holding>>

\* requests[parent] <- Message{id, m.originator}; parent = m.source; Unlock
Forward(n) ==
  /\ rpc[n] = "forward"
  /\ rpc[parent[n]] = "receive"
  /\ msg' = [msg EXCEPT ![parent[n]] = [source |-> n,
                                        originator |-> msg[n].originator],
                        ![n] = NoMessage]
  /\ rpc' = [rpc EXCEPT ![parent[n]] = "handle", ![n] = "receive"]
  /\ parent' = [parent EXCEPT ![n] = msg[n].source]
  /\ mutex' = [mutex EXCEPT ![n] = FALSE]
  /\ UNCHANGED <<loopvars, holding, deferred>>

\* replies[m.originator] <- Empty{}; holding = false; parent = m.source; Unlock
Reply(n) ==
  LET s == msg[n].originator IN
  /\ rpc[n] = "reply"
  /\ Token(s)
  /\ Goto(s, "load")
  /\ holding' = [holding EXCEPT ![n] = FALSE, ![s] = FALSE]
  /\ mutex' = [mutex EXCEPT ![n] = FALSE, ![s] = FALSE]
  /\ parent' = [parent EXCEPT ![n] = msg[n].source]
  /\ rpc' = [rpc EXCEPT ![n] = "receive"]
  /\ msg' = [msg EXCEPT ![n] = NoMessage]
  /\ UNCHANGED <<counter, reg, iter, deferred>>

-----------------------------------------------------------------------------
(* node()'s loop and unlock() *)

\* counter++ in node().
Count(n) == (Load(n) \/ Store(n)) /\ UNCHANGED nodevars

\* unlock(): mutex.Lock(), then holding = true, or the token to whom it was
\* deferred for, sent with the mutex held.
Unlock(n) ==
  /\ pc[n] = "unlock"
  /\ ~ mutex[n]
  /\ \/ /\ deferred[n] = None
        /\ holding' = [holding EXCEPT ![n] = TRUE]
        /\ EndIteration(n)
        /\ UNCHANGED mutex
     \/ /\ deferred[n] # None
        /\ mutex' = [mutex EXCEPT ![n] = TRUE]
        /\ Goto(n, "send")
        /\ UNCHANGED <<counter, reg, iter, holding>>
  /\ UNCHANGED <<rpc, msg, parent, deferred>>

\* replies[deferred] <- Empty{}; deferred = None; mutex.Unlock()
SendDeferred(n) ==
  LET s == deferred[n] IN
  /\ pc[n] = "send"
  /\ Token(s)
  /\ pc' = [pc EXCEPT ![s] = "load", ![n] = After(n)]
  /\ iter' = [iter EXCEPT ![n] = @ + 1]
  /\ holding' = [holding EXCEPT ![s] = FALSE]
  /\ mutex' = [mutex EXCEPT ![n] = FALSE, ![s] = FALSE]
  /\ deferred' = [deferred EXCEPT ![n] = None]
  /\ UNCHANGED <<counter, reg, rpc, msg, parent>>

Step(n) == \/ Lock(n) \/ SendRequest(n) \/ Count(n) \/ Unlock(n) \/ SendDeferred(n)

Receiver(n) == Handle(n) \/ Forward(n) \/ Reply(n)

\* main has received every node's done message and the program ends.
Join == Joined /\ UNCHANGED nodevars

Next == (\E n \in Threads : Step(n) \/ Receiver(n)) \/ Join

Spec == Init /\ [][Next]_vars

\* The Go scheduler runs every goroutine that can run.
FairSpec == Spec /\ \A n \in Threads : WF_vars(Step(n)) /\ WF_vars(Receiver(n))

-----------------------------------------------------------------------------

Inside(n) == pc[n] \in {"load", "store", "unlock", "send"}

\* At most one node is between lock() and the end of unlock().
MutualExclusion == \A m, n \in Threads : Inside(m) /\ Inside(n) => m = n

\* The token is neither lost nor duplicated: one node holds it or is using it.
OneToken == \E n \in Threads :
  {m \in Threads : holding[m]} \cup {m \in Threads : Inside(m)} = {n}

\* The parent pointers never form a cycle, not even while requests are under
\* way: a node that blocks on a channel with its mutex held waits for a node
\* nearer to a root, so the blocked nodes cannot wait for each other.
ParentsAcyclic ==
  \A S \in (SUBSET Threads) \ {{}} : \E n \in S : parent[n] \notin S

\* The token is sent to a node that waits for it or is about to.
TokenIsExpected ==
  \A n \in Threads :
    /\ deferred[n] # None => pc[deferred[n]] = "await"
    /\ rpc[n] = "reply" => pc[msg[n].originator] = "await"

\* Every node finishes and main prints the expected count.
Termination == <>(AllDone /\ counter = Cardinality(Threads) * Max)
=============================================================================
