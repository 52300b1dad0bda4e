--------------------------- MODULE RicartAgrawala ---------------------------
(***************************************************************************)
(* channels/distributed/mutex_ricart_agrawala.go.  A node is two           *)
(* goroutines: the one that locks, counts and unlocks (pc, of CountLoop)   *)
(* and the receiver of requests (rpc).  The channels are unbuffered: a     *)
(* send and its receive are one joint step.  The code between mutex.Lock() *)
(* and mutex.Unlock() never blocks (see DeferredFits), so it is one step.  *)
(***************************************************************************)
EXTENDS CountLoop, Sequences

Nodes == Cardinality(Threads)   \* Threads is 0..Nodes-1

VARIABLES
  rpc,         \* rpc[n]: where the receiver of n is
  msg,         \* msg[n]: the request the receiver of n is handling
  myNumber, highestNum, requestCS,   \* the variables of node(), by node
  deferred,    \* deferred[n]: the buffered channel of postponed replies
  i            \* i[n]: the index of the loop of lock() or unlock() under way

nodevars == <<rpc, msg, myNumber, highestNum, requestCS, deferred, i>>
vars == <<loopvars, nodevars>>

\* Between two iterations of receiver() its variable m is out of scope.
NoMessage == [source |-> 0, number |-> 0]

Init == /\ LoopInit
        /\ rpc = [n \in Threads |-> "receive"]
        /\ msg = [n \in Threads |-> NoMessage]
        /\ myNumber = [n \in Threads |-> 0]
        /\ highestNum = [n \in Threads |-> 0]
        /\ requestCS = [n \in Threads |-> FALSE]
        /\ deferred = [n \in Threads |-> <<>>]
        /\ i = [n \in Threads |-> 0]

\* The first node from k on that is not n.
Skip(n, k) == IF k = n THEN k + 1 ELSE k

-----------------------------------------------------------------------------
(* lock() *)

\* Mutant: the number does not exceed the highest one seen.
ChooseLow(n) ==
  /\ pc[n] = "begin"
  /\ requestCS' = [requestCS EXCEPT ![n] = TRUE]
  /\ myNumber' = [myNumber EXCEPT ![n] = @ + 1]
  /\ i' = [i EXCEPT ![n] = Skip(n, 0)]
  /\ Goto(n, "request")
  /\ UNCHANGED <<counter, reg, iter, rpc, msg, highestNum, deferred>>

\* The locked part: requestCS = true, myNumber = highestNum + 1.
ChooseNumber(n) ==
  /\ pc[n] = "begin"
  /\ requestCS' = [requestCS EXCEPT ![n] = TRUE]
  /\ myNumber' = [myNumber EXCEPT ![n] = highestNum[n] + 1]
  /\ i' = [i EXCEPT ![n] = Skip(n, 0)]
  /\ Goto(n, "request")
  /\ UNCHANGED <<counter, reg, iter, rpc, msg, highestNum, deferred>>

\* requests[i] <- Message{id, myNumber}, received by the receiver of i; the
\* nodes are asked in ascending order.
SendRequest(n) ==
  /\ pc[n] = "request"
  /\ rpc[i[n]] = "receive"
  /\ msg' = [msg EXCEPT ![i[n]] = [source |-> n, number |-> myNumber[n]]]
  /\ rpc' = [rpc EXCEPT ![i[n]] = "handle"]
  /\ LET k == Skip(n, i[n] + 1) IN
       IF k < Nodes THEN i' = [i EXCEPT ![n] = k] /\ UNCHANGED pc
                    ELSE i' = [i EXCEPT ![n] = 0] /\ Goto(n, "replies")
  /\ UNCHANGED <<counter, reg, iter, myNumber, highestNum, requestCS, deferred>>

\* One of the Nodes - 1 receives of replies[n]; the last one enters.
GetReply(n) ==
  /\ pc[n] = "replies"
  /\ i' = [i EXCEPT ![n] = (@ + 1) % (Nodes - 1)]

AfterReply(n) == IF i[n] + 1 = Nodes - 1 THEN "load" ELSE "replies"

-----------------------------------------------------------------------------
(* receiver() *)

\* Mutant: ties are answered at once on both sides.
GrantsTies(n, m) == \/ ~ requestCS[n]
                    \/ m.number <= myNumber[n]

\* The condition for answering a request at once.
Grants(n, m) == \/ ~ requestCS[n]
                \/ m.number < myNumber[n]
                \/ m.number = myNumber[n] /\ m.source < n

\* The locked part: highestNum is raised, and the request granted or deferred.
Handle(n) ==
  LET m == msg[n] IN
  /\ rpc[n] = "handle"
  /\ highestNum' = [highestNum EXCEPT ![n] = IF m.number > @ THEN m.number ELSE @]
  /\ \/ /\ Grants(n, m)
        /\ rpc' = [rpc EXCEPT ![n] = "reply"]
        /\ UNCHANGED <<deferred, msg>>
     \/ /\ ~ Grants(n, m)
        /\ deferred' = [deferred EXCEPT ![n] = Append(@, m.source)]
        /\ rpc' = [rpc EXCEPT ![n] = "receive"]
        /\ msg' = [msg EXCEPT ![n] = NoMessage]
  /\ UNCHANGED <<loopvars, myNumber, requestCS, i>>

\* replies[m.source] <- Message{source: id}
ReceiverReplies(n) ==
  LET s == msg[n].source IN
  /\ rpc[n] = "reply"
  /\ GetReply(s)
  /\ Goto(s, AfterReply(s))
  /\ rpc' = [rpc EXCEPT ![n] = "receive"]
  /\ msg' = [msg EXCEPT ![n] = NoMessage]
  /\ UNCHANGED <<counter, reg, iter, myNumber, highestNum, requestCS, deferred>>

-----------------------------------------------------------------------------
(* node()'s loop and unlock() *)

\* counter++ in node().
Count(n) == (Load(n) \/ Store(n)) /\ UNCHANGED nodevars

\* requestCS = false, outside the mutex.
ClearRequest(n) ==
  /\ pc[n] = "unlock"
  /\ requestCS' = [requestCS EXCEPT ![n] = FALSE]
  /\ Goto(n, "len")
  /\ UNCHANGED <<counter, reg, iter, rpc, msg, myNumber, highestNum, deferred, i>>

\* Mutant: one reply too few.
CountDeferredShort(n) ==
  /\ pc[n] = "len"
  /\ \/ Len(deferred[n]) <= 1 /\ EndIteration(n) /\ UNCHANGED i
     \/ Len(deferred[n]) > 1 /\ i' = [i EXCEPT ![n] = Len(deferred[n]) - 1]
                             /\ Goto(n, "grant") /\ UNCHANGED <<counter, reg, iter>>
  /\ UNCHANGED <<rpc, msg, myNumber, highestNum, requestCS, deferred>>

\* n := len(deferred), under the mutex; i counts the replies that are left.
CountDeferred(n) ==
  /\ pc[n] = "len"
  /\ \/ Len(deferred[n]) = 0 /\ EndIteration(n) /\ UNCHANGED i
     \/ Len(deferred[n]) > 0 /\ i' = [i EXCEPT ![n] = Len(deferred[n])]
                             /\ Goto(n, "grant") /\ UNCHANGED <<counter, reg, iter>>
  /\ UNCHANGED <<rpc, msg, myNumber, highestNum, requestCS, deferred>>

\* src := <-deferred; replies[src] <- Message{source: id}
GrantDeferred(n) ==
  LET s == Head(deferred[n]) IN
  /\ pc[n] = "grant"
  /\ pc[s] = "replies"
  /\ deferred' = [deferred EXCEPT ![n] = Tail(@)]
  /\ i' = [i EXCEPT ![n] = @ - 1, ![s] = (@ + 1) % (Nodes - 1)]
  /\ pc' = [pc EXCEPT ![s] = AfterReply(s),
                      ![n] = IF i[n] > 1 THEN "grant" ELSE After(n)]
  /\ iter' = [iter EXCEPT ![n] = IF i[n] > 1 THEN @ ELSE @ + 1]
  /\ UNCHANGED <<counter, reg, rpc, msg, myNumber, highestNum, requestCS>>

Step(n) == \/ ChooseNumber(n) \/ SendRequest(n)
           \/ Count(n) \/ ClearRequest(n) \/ CountDeferred(n) \/ GrantDeferred(n)

Receiver(n) == Handle(n) \/ ReceiverReplies(n)

\* main has received every node's done message and the program ends.
Join == Joined /\ UNCHANGED nodevars

Next == (\E n \in Threads : Step(n) \/ Receiver(n)) \/ Join

Spec == Init /\ [][Next]_vars

\* The Go scheduler runs every goroutine that can run.
FairSpec == Spec /\ \A n \in Threads : WF_vars(Step(n)) /\ WF_vars(Receiver(n))

-----------------------------------------------------------------------------

Inside(n) == pc[n] \in {"load", "store", "unlock"}

\* At most one node is between lock() and unlock().
MutualExclusion == \A m, n \in Threads : Inside(m) /\ Inside(n) => m = n

\* The node inside has the smallest (number, id) of all that are requesting:
\* every other one either granted it first or chose its number afterwards.
SmallestFirst ==
  \A m, n \in Threads :
    Inside(n) /\ requestCS[m] /\ m # n =>
      \/ myNumber[n] < myNumber[m]
      \/ myNumber[n] = myNumber[m] /\ n < m

\* The channel of deferred replies, of capacity Nodes, never fills up: a full
\* one would block the receiver with the mutex held.
DeferredFits == \A n \in Threads : Len(deferred[n]) < Nodes

\* A postponed reply is owed to a node that still waits for it.
DeferredStillWait ==
  \A n \in Threads : \A k \in 1..Len(deferred[n]) :
    pc[deferred[n][k]] \in {"request", "replies"}

\* Every node finishes and main prints the expected count: the blocking sends
\* never form a cycle.
Termination == <>(AllDone /\ counter = Cardinality(Threads) * Max)
=============================================================================
