---------------------------- MODULE TokenPassing ----------------------------
(***************************************************************************)
(* channels/distributed/mutex_token_passing.go: Ricart and Agrawala's      *)
(* token algorithm.  A node is a locking goroutine (pc) and a receiver of  *)
(* requests (rpc); a send on an unbuffered channel and its receive are one *)
(* joint step.  sendToken() blocks with the node's mutex held: that is     *)
(* state, target[n] # n.  The other locked parts are one step.             *)
(***************************************************************************)
EXTENDS CountLoop

Nodes == Cardinality(Threads)   \* Threads is 0..Nodes-1

VARIABLES
  rpc,        \* rpc[n]: where the receiver of n is
  msg,        \* msg[n]: the request the receiver of n is handling
  requested,  \* requested[n][k]: the last request of k that n has seen
  granted,    \* granted[n][k]: the last request of k granted, as n knows it
  myNumber, haveToken, inCS,   \* the other variables of node(), by node
  target,     \* target[n]: whom n is sending the token to, n if nobody
  i           \* i[n]: the index of the loop of lock()

nodevars == <<rpc, msg, requested, granted, myNumber, haveToken, inCS, target, i>>
vars == <<loopvars, nodevars>>

\* Once it is recorded, a request is not looked at again.
NoMessage == [source |-> 0, number |-> 0]

Init == /\ LoopInit
        /\ rpc = [n \in Threads |-> "receive"]
        /\ msg = [n \in Threads |-> NoMessage]
        /\ requested = [n \in Threads |-> [k \in Threads |-> 0]]
        /\ granted = [n \in Threads |-> [k \in Threads |-> 0]]
        /\ myNumber = [n \in Threads |-> 0]
        /\ haveToken = [n \in Threads |-> n = 0]
        /\ inCS = [n \in Threads |-> FALSE]
        /\ target = [n \in Threads |-> n]
        /\ i = [n \in Threads |-> 0]

MutexFree(n) == target[n] = n

\* The first node from k on that is not n.
Skip(n, k) == IF k = n THEN k + 1 ELSE k

\* Mutant: a request that has been granted already counts as pending.
PendingStale(n, grants) ==
  {k \in Threads : requested[n][k] > 0 /\ requested[n][k] >= grants[k] /\ k # n}

\* The nodes with a request that the token has not granted yet, as n sees it.
Pending(n, grants) == {k \in Threads : requested[n][k] > grants[k]}

\* Whom the loop of sendToken() finds first; n if there is nobody.
SendTo(n, grants) ==
  IF Pending(n, grants) = {} THEN n
  ELSE CHOOSE k \in Pending(n, grants) : \A l \in Pending(n, grants) : k <= l

-----------------------------------------------------------------------------
(* lock() *)

\* With the token: inCS = true and on.
EnterAtOnce(n) ==
  /\ pc[n] = "begin"
  /\ MutexFree(n)
  /\ haveToken[n]
  /\ inCS' = [inCS EXCEPT ![n] = TRUE]
  /\ Goto(n, "load")
  /\ UNCHANGED <<counter, reg, iter, rpc, msg, requested, granted, myNumber,
                 haveToken, target, i>>

\* Without it: myNumber++ and the requests.
StartRequest(n) ==
  /\ pc[n] = "begin"
  /\ MutexFree(n)
  /\ ~ haveToken[n]
  /\ myNumber' = [myNumber EXCEPT ![n] = @ + 1]
  /\ i' = [i EXCEPT ![n] = Skip(n, 0)]
  /\ Goto(n, "request")
  /\ UNCHANGED <<counter, reg, iter, rpc, msg, requested, granted, haveToken,
                 inCS, target>>

\* requests[i] <- Message{id, myNumber}, received by the receiver of i.
SendRequest(n) ==
  /\ pc[n] = "request"
  /\ rpc[i[n]] = "receive"
  /\ msg' = [msg EXCEPT ![i[n]] = [source |-> n, number |-> myNumber[n]]]
  /\ rpc' = [rpc EXCEPT ![i[n]] = "record"]
  /\ LET k == Skip(n, i[n] + 1) IN
       IF k < Nodes THEN i' = [i EXCEPT ![n] = k] /\ UNCHANGED pc
                    ELSE i' = [i EXCEPT ![n] = 0] /\ Goto(n, "await")
  /\ UNCHANGED <<counter, reg, iter, requested, granted, myNumber, haveToken,
                 inCS, target>>

\* After granted = <-replies[id]: haveToken = true and inCS = true.
EnterWithToken(n) ==
  /\ pc[n] = "token"
  /\ MutexFree(n)
  /\ haveToken' = [haveToken EXCEPT ![n] = TRUE]
  /\ inCS' = [inCS EXCEPT ![n] = TRUE]
  /\ Goto(n, "load")
  /\ UNCHANGED <<counter, reg, iter, rpc, msg, requested, granted, myNumber,
                 target, i>>

-----------------------------------------------------------------------------
(* receiver() *)

\* requested[m.source] is raised, outside the mutex.
Record(n) ==
  LET m == msg[n] IN
  /\ rpc[n] = "record"
  /\ requested' = [requested EXCEPT ![n][m.source] =
                     IF m.number > @ THEN m.number ELSE @]
  /\ msg' = [msg EXCEPT ![n] = NoMessage]
  /\ rpc' = [rpc EXCEPT ![n] = "check"]
  /\ UNCHANGED <<loopvars, granted, myNumber, haveToken, inCS, target, i>>

\* if haveToken && !inCS { sendToken() }, up to the blocking send in it.
Check(n) ==
  /\ rpc[n] = "check"
  /\ MutexFree(n)
  /\ target' = [target EXCEPT ![n] = IF haveToken[n] /\ ~ inCS[n]
                                       THEN SendTo(n, granted[n]) ELSE n]
  /\ rpc' = [rpc EXCEPT ![n] = IF target'[n] = n THEN "receive" ELSE "send"]
  /\ UNCHANGED <<loopvars, msg, requested, granted, myNumber, haveToken, inCS, i>>

\* The token goes from n, with its table, to a node that waits for it; n says
\* haveToken = false.
PassToken(n) ==
  /\ pc[target[n]] = "await"
  /\ granted' = [granted EXCEPT ![target[n]] = granted[n]]
  /\ haveToken' = [haveToken EXCEPT ![n] = FALSE]
  /\ target' = [target EXCEPT ![n] = n]
  /\ UNCHANGED <<counter, reg, msg, requested, myNumber, inCS, i>>

\* sendToken() of the receiver, from its blocking send on.
ReceiverSends(n) ==
  /\ rpc[n] = "send"
  /\ PassToken(n)
  /\ Goto(target[n], "token")
  /\ rpc' = [rpc EXCEPT ![n] = "receive"]
  /\ UNCHANGED iter

-----------------------------------------------------------------------------
(* node()'s loop and unlock() *)

\* counter++ in node().
Count(n) == (Load(n) \/ Store(n)) /\ UNCHANGED nodevars

\* unlock() up to the blocking send in sendToken(), or to its end.
Leave(n) ==
  /\ pc[n] = "unlock"
  /\ MutexFree(n)
  /\ granted' = [granted EXCEPT ![n][n] = myNumber[n]]
  /\ inCS' = [inCS EXCEPT ![n] = FALSE]
  /\ target' = [target EXCEPT ![n] = SendTo(n, granted'[n])]
  /\ IF target'[n] = n THEN EndIteration(n)
                       ELSE Goto(n, "send") /\ UNCHANGED <<counter, reg, iter>>
  /\ UNCHANGED <<rpc, msg, requested, myNumber, haveToken, i>>

\* sendToken() of unlock(), from its blocking send on.
UnlockSends(n) ==
  /\ pc[n] = "send"
  /\ PassToken(n)
  /\ pc' = [pc EXCEPT ![target[n]] = "token", ![n] = After(n)]
  /\ iter' = [iter EXCEPT ![n] = @ + 1]
  /\ UNCHANGED rpc

Step(n) == \/ EnterAtOnce(n) \/ StartRequest(n) \/ SendRequest(n)
           \/ EnterWithToken(n) \/ Count(n) \/ Leave(n) \/ UnlockSends(n)

Receiver(n) == Record(n) \/ Check(n) \/ ReceiverSends(n)

\* main has received every node's done message and the program ends.
Join == Joined /\ UNCHANGED nodevars

Next == (\E n \in Threads : Step(n) \/ Receiver(n)) \/ Join

Spec == Init /\ [][Next]_vars

\* The Go scheduler runs every goroutine that can run.
FairSpec == Spec /\ \A n \in Threads : WF_vars(Step(n)) /\ WF_vars(Receiver(n))

-----------------------------------------------------------------------------

Inside(n) == pc[n] \in {"load", "store", "unlock"}

\* At most one node is between lock() and unlock().
MutualExclusion == \A m, n \in Threads : Inside(m) /\ Inside(n) => m = n

\* The token is neither lost nor duplicated: one node has it, or one node has
\* received it and not yet said so.
OneToken ==
  \E n \in Threads :
    {m \in Threads : haveToken[m]} \cup {m \in Threads : pc[m] = "token"} = {n}

\* A node that blocks in sendToken() with its mutex held does so for a node
\* that is on its way to receive the token, so that it cannot block for ever.
\* A stale request, one granted since, would break this.
TokenIsExpected ==
  \A n \in Threads : target[n] # n =>
    pc[target[n]] \in {"request", "await"}

\* The table that travels with the token is the newest one: no node's own
\* request number is behind what the holder has granted it, and nobody knows
\* of a later grant.
TableIsNewest ==
  \A n, m, k \in Threads : haveToken[n] =>
    granted[m][k] <= granted[n][k] /\ granted[n][k] <= myNumber[k]

\* Every node finishes and main prints the expected count.
Termination == <>(AllDone /\ counter = Cardinality(Threads) * Max)
=============================================================================
