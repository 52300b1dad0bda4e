------------------------- MODULE DistributedProofs -------------------------
(***************************************************************************)
(* Theorems about the three distributed mutexes of channels/distributed/,  *)
(* for any number of nodes and of iterations.                              *)
(***************************************************************************)
EXTENDS MCDistributed, Sequences, FiniteSetTheorems, SequenceTheorems,
        WellFoundedInduction, TLAPS

-----------------------------------------------------------------------------
(* Token passing *)

TPLabels == {"begin", "request", "await", "token", "load", "store", "unlock",
             "send", "done"}

TPType ==
  /\ pc \in [Threads -> TPLabels]
  /\ rpc \in [Threads -> {"receive", "record", "check", "send"}]
  /\ msg \in [Threads -> [source : Threads, number : Nat]]
  /\ requested \in [Threads -> [Threads -> Nat]]
  /\ granted \in [Threads -> [Threads -> Nat]]
  /\ myNumber \in [Threads -> Nat]
  /\ haveToken \in [Threads -> BOOLEAN]
  /\ inCS \in [Threads -> BOOLEAN]
  /\ target \in [Threads -> Threads]
  /\ i \in [Threads -> Nat]

\* The node that has the token, or has received it and not yet said so.
Holder(n) == haveToken[n] \/ pc[n] = "token"

\* The flags of node() say where its goroutines are, and one node has the token.
TPFlags ==
  /\ \E n \in Threads : Holder(n)
  /\ \A m, n \in Threads : Holder(m) /\ Holder(n) => m = n
  /\ \A n \in Threads :
       /\ inCS[n] <=> TP!Inside(n)
       /\ inCS[n] => haveToken[n]
       /\ haveToken[n] => pc[n] \notin {"request", "await", "token"}
       /\ target[n] # n <=> rpc[n] = "send" \/ pc[n] = "send"
       /\ ~ (rpc[n] = "send" /\ pc[n] = "send")
       /\ target[n] # n => haveToken[n] /\ ~ inCS[n]

\* What a node knows of the requests of the others was said by them.
TPRequests ==
  \A n \in Threads :
    /\ pc[n] = "request" => i[n] \in Threads /\ i[n] # n
    /\ rpc[n] = "record" =>
         msg[n].source # n /\ msg[n].number <= myNumber[msg[n].source]
    /\ requested[n][n] = 0
    /\ \A k \in Threads : requested[n][k] <= myNumber[k]

\* The holder's table is the newest, and says of every node that is not on its
\* way to the token that its last request has been granted.
TPTable ==
  /\ \A n, m, k \in Threads : Holder(n) =>
       granted[m][k] <= granted[n][k] /\ granted[n][k] <= myNumber[k]
  /\ \A n, k \in Threads :
       Holder(n) /\ n # k /\ pc[k] \notin {"request", "await"} =>
         granted[n][k] = myNumber[k]
  /\ \A n \in Threads :
       haveToken[n] /\ ~ inCS[n] => granted[n][n] = myNumber[n]

TPInv == TPType /\ TPFlags /\ TPRequests /\ TPTable /\ TP!TokenIsExpected

\* A nonempty set of naturals has a least element.
LEMMA LeastNatural ==
  ASSUME NEW S, S \subseteq Nat, S # {}
  PROVE  \E x \in S : \A y \in S : x <= y
<1>1. PICK x \in S : \A y \in S : ~ (<<y, x>> \in OpToRel(<, Nat))
  BY NatLessThanWellFounded, WFMin
<1>2. ASSUME NEW y \in S, y < x
      PROVE  <<y, x>> \in OpToRel(<, Nat)
  BY <1>2 DEF OpToRel
<1>3. ASSUME NEW y \in S
      PROVE  x <= y
  <2>1. ~ (y < x)
    BY <1>1, <1>2
  <2>2. QED
    BY <2>1
<1>4. QED
  BY <1>3

\* The ids of the nodes are the numbers below Nodes.
LEMMA NodesBelow ==
  /\ Threads = 0 .. TP!Nodes - 1 /\ TP!Nodes \in Nat \ {0, 1}
  /\ TP!Nodes = RA!Nodes
  /\ Cardinality(Threads) = RA!Nodes
<1>1. TP!Nodes = Cardinality(Threads)
  BY DEF TP!Nodes, TP!Cardinality, Cardinality
<1>2. RA!Nodes = Cardinality(Threads)
  BY DEF RA!Nodes, RA!Cardinality, Cardinality
<1>3. QED
  BY <1>1, <1>2, NodesAssumption

\* The loop of sendToken() finds a node with a pending request, or nobody.
LEMMA SendToFinds ==
  ASSUME NEW n \in Threads, NEW grants \in [Threads -> Nat],
         requested[n][n] <= grants[n], requested[n] \in [Threads -> Nat]
  PROVE  /\ TP!SendTo(n, grants) \in Threads
         /\ TP!SendTo(n, grants) # n =>
              requested[n][TP!SendTo(n, grants)] > grants[TP!SendTo(n, grants)]
<1> DEFINE P == TP!Pending(n, grants)
<1>1. CASE P = {}
  BY <1>1 DEF TP!SendTo
<1>2. CASE P # {}
  <2>1. P \in SUBSET Nat
    BY NodesAssumption DEF TP!Pending
  <2>2. \E x \in P : \A y \in P : x <= y
    BY <1>2, <2>1, LeastNatural
  <2>3. TP!SendTo(n, grants) \in P
    BY <1>2, <2>2 DEF TP!SendTo
  <2>4. QED
    BY <2>3 DEF TP!Pending
<1>3. QED
  BY <1>1, <1>2

\* The token is with node 0 and nobody has asked for it.
LEMMA TPInit == TP!Init => TPInv
<1> SUFFICES ASSUME TP!Init
             PROVE  TPInv
  OBVIOUS
<1> USE DEF TP!Init, TP!LoopInit, TP!NoMessage
<1>1. 0 \in Threads /\ Threads \subseteq Nat
  BY NodesAssumption
<1>2. TPType
  BY <1>1 DEF TPType, TPLabels
<1>3. TPFlags
  BY <1>1 DEF TPFlags, Holder, TP!Inside
<1>4. TPRequests /\ TPTable /\ TP!TokenIsExpected
  BY DEF TPRequests, TPTable, TP!TokenIsExpected
<1>5. QED
  BY <1>2, <1>3, <1>4 DEF TPInv

\* Every action keeps the variables in their types.
LEMMA TPTypeStep ==
  ASSUME TPInv, [TP!Next]_(TP!vars)
  PROVE  TPType'
<1> USE DEF TPType, TPLabels
<1> TPType /\ TPRequests
  BY DEF TPInv
<1> USE DEF TP!Goto
<1>1. CASE UNCHANGED TP!vars
  BY <1>1 DEF TP!vars, TP!nodevars, TP!loopvars
<1>2. CASE TP!Join
  BY <1>2 DEF TP!Join, TP!Joined, TP!nodevars, TP!loopvars
<1>3. ASSUME NEW n \in Threads, TP!EnterAtOnce(n) \/ TP!EnterWithToken(n)
      PROVE  TPType'
  BY <1>3 DEF TP!EnterAtOnce, TP!EnterWithToken
<1>4. ASSUME NEW n \in Threads, TP!StartRequest(n) \/ TP!SendRequest(n)
      PROVE  TPType'
  <2>1. Threads \subseteq Nat /\ \A k \in Nat : TP!Skip(n, k) \in Nat
    BY SMTT(30), NodesAssumption DEF TP!Skip
  <2>2. CASE TP!StartRequest(n)
    BY <2>1, <2>2 DEF TP!StartRequest
  <2>3. CASE TP!SendRequest(n)
    BY <2>1, <2>3 DEF TP!SendRequest, TPRequests
  <2>4. QED
    BY <1>4, <2>2, <2>3
<1>5. ASSUME NEW n \in Threads, TP!Record(n)
      PROVE  TPType'
  <2>1. TP!NoMessage \in [source : Threads, number : Nat]
    BY NodesAssumption DEF TP!NoMessage
  <2>2. msg[n].source \in Threads /\ msg[n].number \in Nat
    OBVIOUS
  <2>3. requested' \in [Threads -> [Threads -> Nat]]
    BY <1>5, <2>2 DEF TP!Record
  <2>4. QED
    BY <1>5, <2>1, <2>3 DEF TP!Record, TP!loopvars
<1>6. ASSUME NEW n \in Threads, TP!Check(n)
      PROVE  TPType'
  <2>1. requested[n][n] <= granted[n][n]
    BY DEF TPRequests
  <2>2. TP!SendTo(n, granted[n]) \in Threads
    BY <2>1, SendToFinds
  <2>3. QED
    BY <1>6, <2>2 DEF TP!Check, TP!loopvars
<1>7. ASSUME NEW n \in Threads, TP!ReceiverSends(n)
      PROVE  TPType'
  BY <1>7 DEF TP!ReceiverSends, TP!PassToken
<1>8. ASSUME NEW n \in Threads, TP!Count(n)
      PROVE  TPType'
  BY <1>8 DEF TP!Count, TP!Load, TP!Store, TP!nodevars
<1>9. ASSUME NEW n \in Threads, TP!Leave(n)
      PROVE  TPType'
  <2>1. granted' \in [Threads -> [Threads -> Nat]]
    BY <1>9 DEF TP!Leave
  <2>2. requested[n][n] <= granted'[n][n]
    BY <2>1 DEF TPRequests
  <2>3. TP!SendTo(n, granted'[n]) \in Threads
    BY <2>1, <2>2, SendToFinds
  <2>4. pc' \in [Threads -> TPLabels]
    BY <1>9 DEF TP!Leave, TP!EndIteration, TP!After
  <2>5. target' \in [Threads -> Threads]
    BY <1>9, <2>3 DEF TP!Leave
  <2>6. QED
    BY <1>9, <2>1, <2>4, <2>5 DEF TP!Leave
<1>10. ASSUME NEW n \in Threads, TP!UnlockSends(n)
       PROVE  TPType'
  BY <1>10 DEF TP!UnlockSends, TP!PassToken, TP!After
<1>11. QED
  BY <1>1, <1>2, <1>3, <1>4, <1>5, <1>6, <1>7, <1>8, <1>9, <1>10
  DEF TP!Next, TP!Step, TP!Receiver

\* The flags follow the goroutines: the token moves only from a node that has
\* it and is not inside, to a node that awaits it.
LEMMA TPFlagsStep ==
  ASSUME TPInv, [TP!Next]_(TP!vars)
  PROVE  TPFlags'
<1> TPType /\ TPFlags /\ TPRequests /\ TPType'
  BY TPTypeStep DEF TPInv
<1> USE DEF TPType, TPFlags, Holder, TP!Inside, TP!Goto, TP!MutexFree
<1>1. CASE UNCHANGED TP!vars
  BY <1>1 DEF TP!vars, TP!nodevars, TP!loopvars
<1>2. CASE TP!Join
  BY <1>2 DEF TP!Join, TP!Joined, TP!nodevars, TP!loopvars
<1>3. ASSUME NEW n \in Threads, TP!EnterAtOnce(n)
      PROVE  TPFlags'
  BY <1>3 DEF TP!EnterAtOnce
<1>4. ASSUME NEW n \in Threads, TP!EnterWithToken(n)
      PROVE  TPFlags'
  BY <1>4 DEF TP!EnterWithToken
<1>5. ASSUME NEW n \in Threads, TP!StartRequest(n)
      PROVE  TPFlags'
  BY <1>5 DEF TP!StartRequest
<1>6. ASSUME NEW n \in Threads, TP!SendRequest(n)
      PROVE  TPFlags'
  BY <1>6 DEF TP!SendRequest, TPRequests
<1>7. ASSUME NEW n \in Threads, TP!Record(n)
      PROVE  TPFlags'
  BY <1>7 DEF TP!Record, TP!loopvars
<1>8. ASSUME NEW n \in Threads, TP!Check(n)
      PROVE  TPFlags'
  BY <1>8 DEF TP!Check, TP!loopvars
<1>9. ASSUME NEW n \in Threads, TP!ReceiverSends(n)
      PROVE  TPFlags'
  BY <1>9 DEF TP!ReceiverSends, TP!PassToken
<1>10. ASSUME NEW n \in Threads, TP!Count(n)
       PROVE  TPFlags'
  BY <1>10 DEF TP!Count, TP!Load, TP!Store, TP!nodevars
<1>11. ASSUME NEW n \in Threads, TP!Leave(n)
       PROVE  TPFlags'
  BY <1>11 DEF TP!Leave, TP!EndIteration, TP!After
<1>12. ASSUME NEW n \in Threads, TP!UnlockSends(n)
       PROVE  TPFlags'
  BY <1>12 DEF TP!UnlockSends, TP!PassToken, TP!After
<1>13. QED
  BY <1>1, <1>2, <1>3, <1>4, <1>5, <1>6, <1>7, <1>8, <1>9, <1>10, <1>11, <1>12
  DEF TP!Next, TP!Step, TP!Receiver

\* A node's number only grows, and its requests carry it.
LEMMA TPRequestsStep ==
  ASSUME TPInv, [TP!Next]_(TP!vars)
  PROVE  TPRequests'
<1> TPType /\ TPFlags /\ TPRequests /\ TPType'
  BY TPTypeStep DEF TPInv
<1> USE DEF TPType, TPRequests, TP!Goto, TP!MutexFree
<1>1. CASE UNCHANGED TP!vars
  BY <1>1 DEF TP!vars, TP!nodevars, TP!loopvars
<1>2. CASE TP!Join
  BY <1>2 DEF TP!Join, TP!Joined, TP!nodevars, TP!loopvars
<1>3. ASSUME NEW n \in Threads, TP!EnterAtOnce(n) \/ TP!EnterWithToken(n)
      PROVE  TPRequests'
  BY <1>3 DEF TP!EnterAtOnce, TP!EnterWithToken
<1>4. ASSUME NEW n \in Threads, TP!StartRequest(n)
      PROVE  TPRequests'
  <2>1. TP!Skip(n, 0) \in Threads /\ TP!Skip(n, 0) # n
    BY NodesAssumption DEF TP!Skip
  <2>2. QED
    BY <1>4, <2>1 DEF TP!StartRequest
<1>5. ASSUME NEW n \in Threads, TP!SendRequest(n)
      PROVE  TPRequests'
  <2> DEFINE k == TP!Skip(n, i[n] + 1)
  <2>1. k \in Nat /\ k # n
    BY NodesAssumption DEF TP!Skip
  <2>2. k < TP!Nodes => k \in Threads
    BY <2>1, NodesBelow
  <2> HIDE DEF k
  <2>3. i' = [i EXCEPT ![n] = k] \/ pc'[n] # "request"
    BY <1>5 DEF TP!SendRequest, k
  <2>4. QED
    BY <1>5, <2>1, <2>2, <2>3 DEF TP!SendRequest, k
<1>6. ASSUME NEW n \in Threads, TP!Record(n)
      PROVE  TPRequests'
  BY <1>6 DEF TP!Record, TP!loopvars
<1>7. ASSUME NEW n \in Threads, TP!Check(n)
      PROVE  TPRequests'
  BY <1>7 DEF TP!Check, TP!loopvars
<1>8. ASSUME NEW n \in Threads, TP!ReceiverSends(n)
      PROVE  TPRequests'
  BY <1>8 DEF TP!ReceiverSends, TP!PassToken
<1>9. ASSUME NEW n \in Threads, TP!Count(n)
      PROVE  TPRequests'
  BY <1>9 DEF TP!Count, TP!Load, TP!Store, TP!nodevars
<1>10. ASSUME NEW n \in Threads, TP!Leave(n)
       PROVE  TPRequests'
  BY <1>10 DEF TP!Leave, TP!EndIteration, TP!After
<1>11. ASSUME NEW n \in Threads, TP!UnlockSends(n)
       PROVE  TPRequests'
  BY <1>11 DEF TP!UnlockSends, TP!PassToken, TP!After
<1>12. QED
  BY <1>1, <1>2, <1>3, <1>4, <1>5, <1>6, <1>7, <1>8, <1>9, <1>10, <1>11
  DEF TP!Next, TP!Step, TP!Receiver

\* The table travels with the token, and unlock() brings it up to date.
LEMMA TPTableStep ==
  ASSUME TPInv, [TP!Next]_(TP!vars)
  PROVE  TPTable'
<1> TPType /\ TPFlags /\ TPRequests /\ TPTable /\ TPType'
  BY TPTypeStep DEF TPInv
<1> USE DEF TPType, TPFlags, TPTable, Holder, TP!Inside, TP!Goto, TP!MutexFree
<1>1. CASE UNCHANGED TP!vars
  BY <1>1 DEF TP!vars, TP!nodevars, TP!loopvars
<1>2. CASE TP!Join
  BY <1>2 DEF TP!Join, TP!Joined, TP!nodevars, TP!loopvars
<1>3. ASSUME NEW n \in Threads, TP!EnterAtOnce(n)
      PROVE  TPTable'
  BY <1>3 DEF TP!EnterAtOnce
<1>4. ASSUME NEW n \in Threads, TP!EnterWithToken(n)
      PROVE  TPTable'
  BY <1>4 DEF TP!EnterWithToken
<1>5. ASSUME NEW n \in Threads, TP!StartRequest(n)
      PROVE  TPTable'
  BY <1>5 DEF TP!StartRequest
<1>6. ASSUME NEW n \in Threads, TP!SendRequest(n)
      PROVE  TPTable'
  <2>1. \A k \in Threads :
          \/ pc'[k] = pc[k]
          \/ pc[k] = "request" /\ pc'[k] \in {"request", "await"}
    BY <1>6 DEF TP!SendRequest
  <2>2. UNCHANGED <<granted, myNumber, haveToken, inCS>>
    BY <1>6 DEF TP!SendRequest
  <2>3. \A k \in Threads : Holder(k)' => Holder(k)
    BY <2>1, <2>2
  <2>4. QED
    BY <2>1, <2>2, <2>3
<1>7. ASSUME NEW n \in Threads, TP!Record(n)
      PROVE  TPTable'
  BY <1>7 DEF TP!Record, TP!loopvars
<1>8. ASSUME NEW n \in Threads, TP!Check(n)
      PROVE  TPTable'
  BY <1>8 DEF TP!Check, TP!loopvars
<1>9. ASSUME NEW n \in Threads, TP!ReceiverSends(n)
      PROVE  TPTable'
  BY <1>9 DEF TP!ReceiverSends, TP!PassToken
<1>10. ASSUME NEW n \in Threads, TP!Count(n)
       PROVE  TPTable'
  BY <1>10 DEF TP!Count, TP!Load, TP!Store, TP!nodevars
<1>11. ASSUME NEW n \in Threads, TP!Leave(n)
       PROVE  TPTable'
  BY <1>11 DEF TP!Leave, TP!EndIteration, TP!After
<1>12. ASSUME NEW n \in Threads, TP!UnlockSends(n)
       PROVE  TPTable'
  BY <1>12 DEF TP!UnlockSends, TP!PassToken, TP!After
<1>13. QED
  BY <1>1, <1>2, <1>3, <1>4, <1>5, <1>6, <1>7, <1>8, <1>9, <1>10, <1>11, <1>12
  DEF TP!Next, TP!Step, TP!Receiver

\* A node with a request the table does not know of is on its way to await
\* the token, and stays there until the holder sends it.
LEMMA TPExpectedStep ==
  ASSUME TPInv, [TP!Next]_(TP!vars)
  PROVE  TP!TokenIsExpected'
<1> /\ TPType /\ TPFlags /\ TPRequests /\ TPTable /\ TP!TokenIsExpected
    /\ TPType' /\ TPFlags'
  BY TPTypeStep, TPFlagsStep DEF TPInv
<1> USE DEF TPType, TPFlags, Holder, TP!TokenIsExpected, TP!Inside, TP!Goto, TP!MutexFree
\* What sendToken() finds in a newest table is a node on its way.
<1>0. ASSUME NEW n \in Threads, NEW k \in Threads, Holder(n), k # n,
             requested[n][k] > granted[n][k]
      PROVE  pc[k] \in {"request", "await"}
  <2>1. requested[n][k] <= myNumber[k]
    BY <1>0 DEF TPRequests
  <2>2. granted[n][k] # myNumber[k]
    BY <1>0, <2>1
  <2>3. QED
    BY <1>0, <2>2 DEF TPTable
<1>1. CASE UNCHANGED TP!vars
  BY <1>1 DEF TP!vars, TP!nodevars, TP!loopvars
<1>2. CASE TP!Join
  BY <1>2 DEF TP!Join, TP!Joined, TP!nodevars, TP!loopvars
<1>3. ASSUME NEW n \in Threads, TP!EnterAtOnce(n) \/ TP!EnterWithToken(n)
      PROVE  TP!TokenIsExpected'
  BY <1>3 DEF TP!EnterAtOnce, TP!EnterWithToken
<1>4. ASSUME NEW n \in Threads, TP!StartRequest(n)
      PROVE  TP!TokenIsExpected'
  BY <1>4 DEF TP!StartRequest
<1>5. ASSUME NEW n \in Threads, TP!SendRequest(n)
      PROVE  TP!TokenIsExpected'
  BY <1>5 DEF TP!SendRequest
<1>6. ASSUME NEW n \in Threads, TP!Record(n)
      PROVE  TP!TokenIsExpected'
  BY <1>6 DEF TP!Record, TP!loopvars
<1>7. ASSUME NEW n \in Threads, TP!Check(n)
      PROVE  TP!TokenIsExpected'
  <2>1. requested[n][n] <= granted[n][n]
    BY DEF TPRequests
  <2>2. TP!SendTo(n, granted[n]) # n =>
          requested[n][TP!SendTo(n, granted[n])] > granted[n][TP!SendTo(n, granted[n])]
    BY ZenonT(40), <2>1, SendToFinds
  <2>3. QED
    BY <1>0, <1>7, <2>1, <2>2, SendToFinds DEF TP!Check, TP!loopvars
<1>8. ASSUME NEW n \in Threads, TP!ReceiverSends(n)
      PROVE  TP!TokenIsExpected'
  BY <1>8 DEF TP!ReceiverSends, TP!PassToken
<1>9. ASSUME NEW n \in Threads, TP!Count(n)
      PROVE  TP!TokenIsExpected'
  BY <1>9 DEF TP!Count, TP!Load, TP!Store, TP!nodevars
<1>10. ASSUME NEW n \in Threads, TP!Leave(n)
       PROVE  TP!TokenIsExpected'
  <2> DEFINE k == TP!SendTo(n, granted'[n])
  <2>1. requested[n][n] <= granted'[n][n]
    BY DEF TPRequests
  <2>2. k # n => requested[n][k] > granted'[n][k] /\ k \in Threads
    BY ZenonT(40), <2>1, SendToFinds
  <2>3. k # n => granted'[n][k] = granted[n][k]
    BY <1>10, <2>2 DEF TP!Leave
  <2>4. k # n => pc[k] \in {"request", "await"}
    BY <1>0, <1>10, <2>2, <2>3 DEF TP!Leave
  <2> HIDE DEF k
  <2>5. target' = [target EXCEPT ![n] = k] /\ pc[n] = "unlock"
    BY <1>10 DEF TP!Leave, k
  <2>6. \A m \in Threads : m # n => pc'[m] = pc[m]
    BY <1>10 DEF TP!Leave, TP!EndIteration
  <2>7. QED
    BY <2>2, <2>4, <2>5, <2>6
<1>11. ASSUME NEW n \in Threads, TP!UnlockSends(n)
       PROVE  TP!TokenIsExpected'
  BY <1>11 DEF TP!UnlockSends, TP!PassToken, TP!After
<1>12. QED
  BY <1>1, <1>2, <1>3, <1>4, <1>5, <1>6, <1>7, <1>8, <1>9, <1>10, <1>11
  DEF TP!Next, TP!Step, TP!Receiver

-----------------------------------------------------------------------------
(* Neilsen-Mizuno *)

NMLabels == {"begin", "request", "await", "load", "store", "unlock", "send", "done"}

NMNodes == TreeNodes \cup {NM!None}

NMType ==
  /\ pc \in [TreeNodes -> NMLabels]
  /\ rpc \in [TreeNodes -> {"receive", "handle", "forward", "reply"}]
  /\ msg \in [TreeNodes -> [source : NMNodes, originator : NMNodes]]
  /\ mutex \in [TreeNodes -> BOOLEAN]
  /\ parent \in [TreeNodes -> NMNodes]
  /\ holding \in [TreeNodes -> BOOLEAN]
  /\ deferred \in [TreeNodes -> NMNodes]

\* Either goroutine of a node, and never both, blocks with its mutex held.
NMMutex ==
  \A n \in TreeNodes :
    /\ mutex[n] <=> \/ pc[n] \in {"request", "await", "send"}
                    \/ rpc[n] \in {"forward", "reply"}
    /\ rpc[n] \in {"forward", "reply"} => pc[n] \notin {"request", "await", "send"}

Owns(n) == holding[n] \/ NM!Inside(n)

\* One node owns the token, and its flag says whether it is using it.
NMToken ==
  /\ \E n \in TreeNodes : Owns(n)
  /\ \A m, n \in TreeNodes : Owns(m) /\ Owns(n) => m = n
  /\ \A n \in TreeNodes :
       /\ holding[n] => pc[n] \in {"begin", "done"}
       /\ rpc[n] = "reply" => holding[n]

\* A root has the token, or gets it and has promised it to nobody yet.
NMRoots ==
  \A n \in TreeNodes :
    /\ pc[n] \in {"begin", "done", "request"} =>
         deferred[n] = NM!None /\ (holding[n] <=> parent[n] = NM!None)
    /\ pc[n] \in {"await", "load", "store", "unlock"} =>
         (deferred[n] = NM!None <=> parent[n] = NM!None)
    /\ pc[n] = "send" => deferred[n] # NM!None /\ parent[n] # NM!None
    /\ rpc[n] = "forward" => parent[n] # NM!None
    /\ rpc[n] = "reply" => parent[n] = NM!None

\* The receiver of n handles a request of s, or has deferred it.
Handles(n, s) == rpc[n] # "receive" /\ msg[n].originator = s
Defers(n, s) == deferred[n] = s

\* A request under way, or deferred, is the one request of a node that awaits
\* the token.
NMRequests ==
  /\ \A n \in TreeNodes : rpc[n] # "receive" => msg[n].originator \in TreeNodes
  /\ \A n, s \in TreeNodes : Handles(n, s) \/ Defers(n, s) => pc[s] = "await"
  /\ \A m, n, s \in TreeNodes :
       /\ Handles(m, s) /\ Handles(n, s) => m = n
       /\ Defers(m, s) /\ Defers(n, s) => m = n
       /\ ~ (Handles(m, s) /\ Defers(n, s))

\* The edge between node 0 and node k: a parent pointer of k or of 0, or a
\* request on its way from k or from 0.
EdgeUp(k) == parent[k] = 0
EdgeDown(k) == parent[0] = k
RequestUp(k) == rpc[0] # "receive" /\ msg[0].source = k
RequestDown(k) == rpc[k] # "receive" /\ msg[k].source = 0

\* The edges are those of the star main builds around node 0: a request turns
\* the edge it travels on, and no node has two edges with another one.
NMTree ==
  /\ parent[0] # 0
  /\ rpc[0] # "receive" => msg[0].source \in TreeNodes \ {0}
  /\ \A k \in TreeNodes \ {0} :
       /\ parent[k] \in {0, NM!None}
       /\ rpc[k] # "receive" => msg[k].source = 0
       /\ EdgeUp(k) \/ EdgeDown(k) \/ RequestUp(k) \/ RequestDown(k)
       /\ EdgeUp(k) => ~ EdgeDown(k) /\ ~ RequestUp(k) /\ ~ RequestDown(k)
       /\ EdgeDown(k) => ~ RequestUp(k) /\ ~ RequestDown(k)
       /\ RequestUp(k) => ~ RequestDown(k)

NMInv == NMType /\ NMMutex /\ NMToken /\ NMRoots /\ NMRequests /\ NMTree

\* Node 0 is the root and holds the token; the others point to it.
LEMMA NMInit == NM!Init => NMInv
<1> SUFFICES ASSUME NM!Init
             PROVE  NMInv
  OBVIOUS
<1> USE DEF NM!Init, NM!LoopInit, NM!NoMessage, NM!None
<1>1. 0 \in TreeNodes /\ TreeNodes \subseteq Nat
  BY NodesAssumption
<1>2. NMType
  BY <1>1 DEF NMType, NMLabels, NMNodes
<1>3. NMMutex /\ NMToken
  BY <1>1 DEF NMMutex, NMToken, Owns, NM!Inside
<1>4. NMRoots
  <2>1. \A n \in TreeNodes : holding[n] <=> n = 0
    OBVIOUS
  <2>2. \A n \in TreeNodes : parent[n] = NM!None <=> n = 0
    OBVIOUS
  <2>3. QED
    BY <2>1, <2>2 DEF NMRoots
<1>5. NMRequests
  BY <1>1 DEF NMRequests, Handles, Defers
<1>6. NMTree
  BY <1>1 DEF NMTree, EdgeUp, EdgeDown, RequestUp, RequestDown
<1>7. QED
  BY <1>2, <1>3, <1>4, <1>5, <1>6 DEF NMInv

\* Every action keeps the variables of the tree in their types.
LEMMA NMTypeStep ==
  ASSUME NMInv, [NM!Next]_(NM!vars)
  PROVE  NMType'
<1> /\ 0 \in TreeNodes /\ TreeNodes \subseteq Nat
    /\ NMType /\ NMMutex /\ NMToken /\ NMRoots /\ NMRequests /\ NMTree
  BY NodesAssumption DEF NMInv
<1> USE DEF NMType, NMNodes, NMLabels, NM!None, NM!Goto
<1>1. CASE UNCHANGED NM!vars
  BY <1>1 DEF NM!vars, NM!nodevars, NM!loopvars
<1>2. CASE NM!Join
  BY <1>2 DEF NM!Join, NM!Joined, NM!nodevars, NM!loopvars
<1>3. ASSUME NEW n \in TreeNodes, NM!Lock(n)
      PROVE  NMType'
  BY <1>3 DEF NM!Lock
<1>4. ASSUME NEW n \in TreeNodes, NM!SendRequest(n)
      PROVE  NMType'
  BY <1>4 DEF NM!SendRequest, NMRoots, NMToken
<1>5. ASSUME NEW n \in TreeNodes, NM!Count(n)
      PROVE  NMType'
  BY <1>5 DEF NM!Count, NM!Load, NM!Store, NM!nodevars
<1>6. ASSUME NEW n \in TreeNodes, NM!Unlock(n)
      PROVE  NMType'
  BY <1>6 DEF NM!Unlock, NM!EndIteration, NM!After
<1>7. ASSUME NEW n \in TreeNodes, NM!SendDeferred(n)
      PROVE  NMType'
  BY <1>7 DEF NM!SendDeferred, NM!Token, NM!After
<1>8. ASSUME NEW n \in TreeNodes, NM!Handle(n)
      PROVE  NMType'
  <2>1. NM!NoMessage \in [source : NMNodes, originator : NMNodes]
    BY DEF NM!NoMessage
  <2>2. msg[n].source \in NMNodes /\ msg[n].originator \in NMNodes
    OBVIOUS
  <2>3. UNCHANGED <<pc, holding>>
    BY <1>8 DEF NM!Handle, NM!loopvars
  <2>4. /\ rpc' \in [TreeNodes -> {"receive", "handle", "forward", "reply"}]
        /\ mutex' \in [TreeNodes -> BOOLEAN]
    BY <1>8 DEF NM!Handle
  <2>5. /\ msg' \in [TreeNodes -> [source : NMNodes, originator : NMNodes]]
        /\ parent' \in [TreeNodes -> NMNodes]
        /\ deferred' \in [TreeNodes -> NMNodes]
    BY <1>8, <2>1, <2>2 DEF NM!Handle
  <2>6. QED
    BY <2>3, <2>4, <2>5
<1>9. ASSUME NEW n \in TreeNodes, NM!Forward(n)
      PROVE  NMType'
  BY <1>9 DEF NM!Forward, NM!loopvars, NM!NoMessage
<1>10. ASSUME NEW n \in TreeNodes, NM!Reply(n)
       PROVE  NMType'
  BY <1>10 DEF NM!Reply, NM!Token, NM!NoMessage
<1>11. QED
  BY <1>1, <1>2, <1>3, <1>4, <1>5, <1>6, <1>7, <1>8, <1>9, <1>10
  DEF NM!Next, NM!Step, NM!Receiver

\* A goroutine that blocks with the mutex held keeps the other one out, and a
\* node that awaits the token gets its mutex back with it.
LEMMA NMMutexStep ==
  ASSUME NMInv, [NM!Next]_(NM!vars)
  PROVE  NMMutex'
<1> /\ 0 \in TreeNodes /\ TreeNodes \subseteq Nat
    /\ NMType /\ NMMutex /\ NMToken /\ NMRoots /\ NMRequests /\ NMTree /\ NMType'
  BY NodesAssumption, NMTypeStep DEF NMInv
<1> USE DEF NMType, NMMutex, NM!None, NM!Goto
<1>1. CASE UNCHANGED NM!vars
  BY <1>1 DEF NM!vars, NM!nodevars, NM!loopvars
<1>2. CASE NM!Join
  BY <1>2 DEF NM!Join, NM!Joined, NM!nodevars, NM!loopvars
<1>3. ASSUME NEW n \in TreeNodes, NM!Lock(n)
      PROVE  NMMutex'
  BY <1>3 DEF NM!Lock
<1>4. ASSUME NEW n \in TreeNodes, NM!SendRequest(n)
      PROVE  NMMutex'
  BY <1>4 DEF NM!SendRequest
<1>5. ASSUME NEW n \in TreeNodes, NM!Count(n)
      PROVE  NMMutex'
  BY <1>5 DEF NM!Count, NM!Load, NM!Store, NM!nodevars
<1>6. ASSUME NEW n \in TreeNodes, NM!Unlock(n)
      PROVE  NMMutex'
  BY <1>6 DEF NM!Unlock, NM!EndIteration, NM!After
<1>7. ASSUME NEW n \in TreeNodes, NM!SendDeferred(n)
      PROVE  NMMutex'
  BY <1>7 DEF NM!SendDeferred, NM!Token, NM!After, NMRequests, Defers
<1>8. ASSUME NEW n \in TreeNodes, NM!Handle(n)
      PROVE  NMMutex'
  BY <1>8 DEF NM!Handle, NM!loopvars, NM!NoMessage
<1>9. ASSUME NEW n \in TreeNodes, NM!Forward(n)
      PROVE  NMMutex'
  BY <1>9 DEF NM!Forward, NM!loopvars, NM!NoMessage
<1>10. ASSUME NEW n \in TreeNodes, NM!Reply(n)
       PROVE  NMMutex'
  BY <1>10 DEF NM!Reply, NM!Token, NM!NoMessage, NMRequests, Handles
<1>11. QED
  BY <1>1, <1>2, <1>3, <1>4, <1>5, <1>6, <1>7, <1>8, <1>9, <1>10
  DEF NM!Next, NM!Step, NM!Receiver

\* Every move of the token takes it from the one node that owns it.
LEMMA NMTokenStep ==
  ASSUME NMInv, [NM!Next]_(NM!vars)
  PROVE  NMToken'
<1> /\ 0 \in TreeNodes /\ TreeNodes \subseteq Nat
    /\ NMType /\ NMMutex /\ NMToken /\ NMRoots /\ NMRequests /\ NMTree /\ NMType'
  BY NodesAssumption, NMTypeStep DEF NMInv
<1> USE DEF NMType, NMToken, Owns, NM!Inside, NM!None, NM!Goto
<1>1. CASE UNCHANGED NM!vars
  BY <1>1 DEF NM!vars, NM!nodevars, NM!loopvars
<1>2. CASE NM!Join
  BY <1>2 DEF NM!Join, NM!Joined, NM!nodevars, NM!loopvars
<1>3. ASSUME NEW n \in TreeNodes, NM!Lock(n)
      PROVE  NMToken'
  BY <1>3 DEF NM!Lock, NMMutex
<1>4. ASSUME NEW n \in TreeNodes, NM!SendRequest(n)
      PROVE  NMToken'
  BY <1>4 DEF NM!SendRequest
<1>5. ASSUME NEW n \in TreeNodes, NM!Count(n)
      PROVE  NMToken'
  BY <1>5 DEF NM!Count, NM!Load, NM!Store, NM!nodevars
<1>6. ASSUME NEW n \in TreeNodes, NM!Unlock(n)
      PROVE  NMToken'
  BY <1>6 DEF NM!Unlock, NM!EndIteration, NM!After
<1>7. ASSUME NEW n \in TreeNodes, NM!SendDeferred(n)
      PROVE  NMToken'
  <2> DEFINE s == deferred[n]
  <2>1. pc[n] = "send" /\ pc[s] = "await" /\ s \in TreeNodes
    BY <1>7 DEF NM!SendDeferred, NM!Token, NMRoots, NMNodes
  <2>2. \A m \in TreeNodes : Owns(m) => m = n
    BY <2>1
  <2>3. /\ holding' = [holding EXCEPT ![s] = FALSE]
        /\ pc' = [pc EXCEPT ![s] = "load", ![n] = NM!After(n)]
        /\ rpc' = rpc /\ NM!After(n) \in {"begin", "done"}
    BY <1>7 DEF NM!SendDeferred, NM!After
  <2>4. s # n /\ ~ holding[n]
    BY <2>1
  <2>5. \A m \in TreeNodes : ~ holding'[m] /\ (NM!Inside(m)' <=> m = s)
    BY <2>1, <2>2, <2>3, <2>4
  <2>6. \A m \in TreeNodes : rpc[m] # "reply" /\ rpc'[m] # "reply"
    BY <2>2, <2>3, <2>4
  <2>7. \A m \in TreeNodes : Owns(m)' <=> m = s
    BY <2>5
  <2>8. (\E m \in TreeNodes : Owns(m)')
    BY <2>1, <2>7
  <2>9. \A k, m \in TreeNodes : Owns(m)' /\ Owns(k)' => m = k
    BY <2>7
  <2>10. QED
    BY <2>5, <2>6, <2>8, <2>9
<1>8. ASSUME NEW n \in TreeNodes, NM!Handle(n)
      PROVE  NMToken'
  BY <1>8 DEF NM!Handle, NM!loopvars, NM!NoMessage, NMMutex
<1>9. ASSUME NEW n \in TreeNodes, NM!Forward(n)
      PROVE  NMToken'
  BY <1>9 DEF NM!Forward, NM!loopvars, NM!NoMessage
<1>10. ASSUME NEW n \in TreeNodes, NM!Reply(n)
       PROVE  NMToken'
  <2> DEFINE s == msg[n].originator
  <2>1. holding[n] /\ pc[s] = "await" /\ s \in TreeNodes
    BY <1>10 DEF NM!Reply, NM!Token, NMRequests
  <2>2. \A m \in TreeNodes : Owns(m) => m = n
    BY <2>1
  <2>3. /\ holding' = [holding EXCEPT ![n] = FALSE, ![s] = FALSE]
        /\ pc' = [pc EXCEPT ![s] = "load"]
        /\ rpc' = [rpc EXCEPT ![n] = "receive"]
    BY <1>10 DEF NM!Reply
  <2>4. s # n /\ pc[n] \in {"begin", "done"}
    BY <2>1
  <2>5. \A m \in TreeNodes : ~ holding'[m] /\ (NM!Inside(m)' <=> m = s)
    BY <2>1, <2>2, <2>3, <2>4
  <2>6. \A m \in TreeNodes : rpc'[m] # "reply"
    BY <2>2, <2>3
  <2>7. \A m \in TreeNodes : Owns(m)' <=> m = s
    BY <2>5
  <2>8. (\E m \in TreeNodes : Owns(m)')
    BY <2>1, <2>7
  <2>9. \A k, m \in TreeNodes : Owns(m)' /\ Owns(k)' => m = k
    BY <2>7
  <2>10. QED
    BY <2>5, <2>6, <2>8, <2>9
<1>11. QED
  BY <1>1, <1>2, <1>3, <1>4, <1>5, <1>6, <1>7, <1>8, <1>9, <1>10
  DEF NM!Next, NM!Step, NM!Receiver

\* A node without a parent owns the token or has been promised it.
LEMMA NMRootsStep ==
  ASSUME NMInv, [NM!Next]_(NM!vars)
  PROVE  NMRoots'
<1> /\ 0 \in TreeNodes /\ TreeNodes \subseteq Nat
    /\ NMType /\ NMMutex /\ NMToken /\ NMRoots /\ NMRequests /\ NMTree /\ NMType'
  BY NodesAssumption, NMTypeStep DEF NMInv
<1> USE DEF NMType, NMNodes, NMRoots, NM!None, NM!Goto
<1>0. \A n \in TreeNodes : rpc[n] # "receive" =>
        msg[n].source \in TreeNodes /\ msg[n].originator \in TreeNodes
  BY DEF NMTree, NMRequests
<1>1. CASE UNCHANGED NM!vars
  BY <1>1 DEF NM!vars, NM!nodevars, NM!loopvars
<1>2. CASE NM!Join
  BY <1>2 DEF NM!Join, NM!Joined, NM!nodevars, NM!loopvars
<1>3. ASSUME NEW n \in TreeNodes, NM!Lock(n)
      PROVE  NMRoots'
  BY <1>3 DEF NM!Lock, NMMutex
<1>4. ASSUME NEW n \in TreeNodes, NM!SendRequest(n)
      PROVE  NMRoots'
  BY <1>4 DEF NM!SendRequest, NMMutex
<1>5. ASSUME NEW n \in TreeNodes, NM!Count(n)
      PROVE  NMRoots'
  BY <1>5 DEF NM!Count, NM!Load, NM!Store, NM!nodevars
<1>6. ASSUME NEW n \in TreeNodes, NM!Unlock(n)
      PROVE  NMRoots'
  BY <1>6 DEF NM!Unlock, NM!EndIteration, NM!After
<1>7. ASSUME NEW n \in TreeNodes, NM!SendDeferred(n)
      PROVE  NMRoots'
  BY <1>7 DEF NM!SendDeferred, NM!Token, NM!After, NMToken
<1>8. ASSUME NEW n \in TreeNodes, NM!Handle(n)
      PROVE  NMRoots'
  <2>1. pc[n] \notin {"request", "await", "send"} /\ UNCHANGED <<pc, holding>>
    BY <1>8 DEF NM!Handle, NM!loopvars, NMMutex
  <2>2. CASE parent[n] # NM!None \/ holding[n]
    BY <1>8, <2>1, <2>2 DEF NM!Handle
  <2>3. CASE parent[n] = NM!None /\ ~ holding[n]
    BY <1>0, <1>8, <2>1, <2>3 DEF NM!Handle
  <2>4. QED
    BY <2>2, <2>3
<1>9. ASSUME NEW n \in TreeNodes, NM!Forward(n)
      PROVE  NMRoots'
  BY <1>0, <1>9 DEF NM!Forward, NM!loopvars
<1>10. ASSUME NEW n \in TreeNodes, NM!Reply(n)
       PROVE  NMRoots'
  BY <1>10 DEF NM!Reply, NM!Token, NM!NoMessage, NMTree, NMMutex, NMToken, NMRequests, Handles
<1>11. QED
  BY <1>1, <1>2, <1>3, <1>4, <1>5, <1>6, <1>7, <1>8, <1>9, <1>10
  DEF NM!Next, NM!Step, NM!Receiver

\* A node makes one request at a time, and is let in by whoever has it.
LEMMA NMRequestsStep ==
  ASSUME NMInv, [NM!Next]_(NM!vars)
  PROVE  NMRequests'
<1> /\ 0 \in TreeNodes /\ TreeNodes \subseteq Nat
    /\ NMType /\ NMMutex /\ NMToken /\ NMRoots /\ NMRequests /\ NMTree /\ NMType'
  BY NodesAssumption, NMTypeStep DEF NMInv
<1> USE DEF NMType, NMRequests, Handles, Defers, NM!None, NM!Goto
<1>1. CASE UNCHANGED NM!vars
  BY <1>1 DEF NM!vars, NM!nodevars, NM!loopvars
<1>2. CASE NM!Join
  BY <1>2 DEF NM!Join, NM!Joined, NM!nodevars, NM!loopvars
<1>3. ASSUME NEW n \in TreeNodes, NM!Lock(n)
      PROVE  NMRequests'
  BY <1>3 DEF NM!Lock
<1>4. ASSUME NEW n \in TreeNodes, NM!SendRequest(n)
      PROVE  NMRequests'
  BY <1>4 DEF NM!SendRequest, NMRoots, NMToken
<1>5. ASSUME NEW n \in TreeNodes, NM!Count(n)
      PROVE  NMRequests'
  BY <1>5 DEF NM!Count, NM!Load, NM!Store, NM!nodevars
<1>6. ASSUME NEW n \in TreeNodes, NM!Unlock(n)
      PROVE  NMRequests'
  BY <1>6 DEF NM!Unlock, NM!EndIteration, NM!After
<1>7. ASSUME NEW n \in TreeNodes, NM!SendDeferred(n)
      PROVE  NMRequests'
  BY <1>7 DEF NM!SendDeferred, NM!Token, NM!After
<1>8. ASSUME NEW n \in TreeNodes, NM!Handle(n)
      PROVE  NMRequests'
  BY <1>8 DEF NM!Handle, NM!loopvars, NM!NoMessage, NMRoots, NMMutex
<1>9. ASSUME NEW n \in TreeNodes, NM!Forward(n)
      PROVE  NMRequests'
  BY <1>9 DEF NM!Forward, NM!loopvars, NM!NoMessage, NMRoots
<1>10. ASSUME NEW n \in TreeNodes, NM!Reply(n)
       PROVE  NMRequests'
  BY <1>10 DEF NM!Reply, NM!Token, NM!NoMessage
<1>11. QED
  BY <1>1, <1>2, <1>3, <1>4, <1>5, <1>6, <1>7, <1>8, <1>9, <1>10
  DEF NM!Next, NM!Step, NM!Receiver

\* A request travels on the edge to a parent, and turns it.
LEMMA NMTreeStep ==
  ASSUME NMInv, [NM!Next]_(NM!vars)
  PROVE  NMTree'
<1> /\ 0 \in TreeNodes /\ TreeNodes \subseteq Nat
    /\ NMType /\ NMMutex /\ NMToken /\ NMRoots /\ NMRequests /\ NMTree /\ NMType'
  BY NodesAssumption, NMTypeStep DEF NMInv
<1> USE DEF NMType, NMTree, EdgeUp, EdgeDown, RequestUp, RequestDown, NM!None, NM!Goto
<1>1. CASE UNCHANGED NM!vars
  BY <1>1 DEF NM!vars, NM!nodevars, NM!loopvars
<1>2. CASE NM!Join
  BY <1>2 DEF NM!Join, NM!Joined, NM!nodevars, NM!loopvars
<1>3. ASSUME NEW n \in TreeNodes, NM!Lock(n)
      PROVE  NMTree'
  BY <1>3 DEF NM!Lock
<1>4. ASSUME NEW n \in TreeNodes, NM!SendRequest(n)
      PROVE  NMTree'
  BY <1>4 DEF NM!SendRequest, NMRoots, NMToken
<1>5. ASSUME NEW n \in TreeNodes, NM!Count(n)
      PROVE  NMTree'
  BY <1>5 DEF NM!Count, NM!Load, NM!Store, NM!nodevars
<1>6. ASSUME NEW n \in TreeNodes, NM!Unlock(n)
      PROVE  NMTree'
  BY <1>6 DEF NM!Unlock, NM!EndIteration, NM!After
<1>7. ASSUME NEW n \in TreeNodes, NM!SendDeferred(n)
      PROVE  NMTree'
  BY <1>7 DEF NM!SendDeferred, NM!Token, NM!After
<1>8. ASSUME NEW n \in TreeNodes, NM!Handle(n)
      PROVE  NMTree'
  BY <1>8 DEF NM!Handle, NM!loopvars, NM!NoMessage
<1>9. ASSUME NEW n \in TreeNodes, NM!Forward(n)
      PROVE  NMTree'
  BY <1>9 DEF NM!Forward, NM!loopvars, NM!NoMessage, NMRoots
<1>10. ASSUME NEW n \in TreeNodes, NM!Reply(n)
       PROVE  NMTree'
  BY <1>10 DEF NM!Reply, NM!NoMessage, NMRoots
<1>11. QED
  BY <1>1, <1>2, <1>3, <1>4, <1>5, <1>6, <1>7, <1>8, <1>9, <1>10
  DEF NM!Next, NM!Step, NM!Receiver

-----------------------------------------------------------------------------
(* Ricart-Agrawala *)

RALabels == {"begin", "request", "replies", "load", "store", "unlock", "len",
             "grant", "done"}

RAType ==
  /\ pc \in [Threads -> RALabels]
  /\ rpc \in [Threads -> {"receive", "handle", "reply"}]
  /\ msg \in [Threads -> [source : Threads, number : Nat]]
  /\ myNumber \in [Threads -> Nat]
  /\ highestNum \in [Threads -> Nat]
  /\ requestCS \in [Threads -> BOOLEAN]
  /\ i \in [Threads -> Nat]

RAQueues == deferred \in [Threads -> Seq(Threads)]

Queued(q) == {q[k] : k \in 1 .. Len(q)}
Distinct(q) == \A k, l \in 1 .. Len(q) : q[k] = q[l] => k = l

\* What node m owes node n: an answer its receiver is working on, or one it
\* has postponed.
Asked(m, n) == rpc[m] # "receive" /\ msg[m].source = n
Postponed(m, n) == n \in Queued(deferred[m])
Owing(n) == {m \in Threads : Asked(m, n) \/ Postponed(m, n)}

\* The flag of a node says where its goroutine is, and the channel of deferred
\* replies is empty when the goroutine is back from unlock().
RAFlags ==
  \A n \in Threads :
    /\ requestCS[n] <=> pc[n] \in {"request", "replies", "load", "store", "unlock"}
    /\ pc[n] \in {"begin", "done"} => deferred[n] = <<>>
    /\ pc[n] = "grant" => i[n] = Len(deferred[n]) /\ i[n] > 0
    /\ pc[n] = "request" => i[n] \in Threads /\ i[n] # n

\* A node is owed one answer by every node it has asked, and i counts those
\* that it got.
Account(n) ==
  /\ n \notin Owing(n)
  /\ pc[n] \notin {"request", "replies"} => Owing(n) = {}
  /\ pc[n] = "request" => Owing(n) = {m \in Threads : m # n /\ m < i[n]}
  /\ pc[n] = "replies" => /\ i[n] < RA!Nodes - 1
                          /\ i[n] + Cardinality(Owing(n)) = RA!Nodes - 1

RAReplies ==
  /\ \A n \in Threads : Account(n)
  /\ \A m, n \in Threads : ~ (Asked(m, n) /\ Postponed(m, n))
  /\ \A m \in Threads :
       /\ Distinct(deferred[m])
       /\ rpc[m] # "receive" => msg[m].number = myNumber[msg[m].source]

\* The requests are ordered by number, then by node.
Before(n, m) == \/ myNumber[n] < myNumber[m]
                \/ myNumber[n] = myNumber[m] /\ n < m

\* The receiver of m has looked at the request that n is making.
Seen(m, n) == /\ requestCS[n] /\ m # n
              /\ Asked(m, n) => rpc[m] = "reply"
              /\ pc[n] = "request" => m < i[n]

\* A node chooses numbers above those it has seen, and answers at once only
\* those before its own.
Ordered(m, n) == Seen(m, n) =>
                   /\ myNumber[n] <= highestNum[m]
                   /\ requestCS[m] /\ ~ Postponed(m, n) => Before(n, m)
RAOrder == \A m, n \in Threads : Ordered(m, n)

RAInv == RAType /\ RAQueues /\ RAFlags /\ RAReplies /\ RAOrder

\* Lemmas on the channel of deferred replies, a queue of nodes.
LEMMA AppendQueued ==
  ASSUME NEW S, NEW q \in Seq(S), NEW x \in S
  PROVE  /\ Append(q, x) \in Seq(S)
         /\ Queued(Append(q, x)) = Queued(q) \cup {x}
         /\ Distinct(q) /\ x \notin Queued(q) => Distinct(Append(q, x))
<1>1. /\ Append(q, x) \in Seq(S) /\ Len(Append(q, x)) = Len(q) + 1
      /\ Append(q, x)[Len(q) + 1] = x
      /\ \A k \in 1 .. Len(q) : Append(q, x)[k] = q[k]
  OBVIOUS
<1>2. Queued(Append(q, x)) = Queued(q) \cup {x}
  BY <1>1 DEF Queued
<1>3. ASSUME Distinct(q), x \notin Queued(q)
      PROVE  Distinct(Append(q, x))
  BY <1>1, <1>3 DEF Distinct, Queued
<1>4. QED
  BY <1>1, <1>2, <1>3

\* What is left of a queue without repetitions when its head is taken.
LEMMA TailQueued ==
  ASSUME NEW S, NEW q \in Seq(S), Len(q) > 0, Distinct(q)
  PROVE  /\ Head(q) \in S /\ Head(q) \in Queued(q)
         /\ Tail(q) \in Seq(S) /\ Len(Tail(q)) = Len(q) - 1
         /\ Queued(Tail(q)) = Queued(q) \ {Head(q)}
         /\ Distinct(Tail(q))
<1>1. /\ Head(q) = q[1] /\ q[1] \in S
      /\ Tail(q) \in Seq(S) /\ Len(Tail(q)) = Len(q) - 1 /\ Len(q) \in Nat
      /\ \A k \in 1 .. Len(q) - 1 : Tail(q)[k] = q[k + 1]
  BY HeadTailProperties
<1>2. Distinct(Tail(q))
  BY <1>1 DEF Distinct
<1>3. Queued(Tail(q)) \subseteq Queued(q) \ {Head(q)}
  BY <1>1 DEF Queued, Distinct
<1>4. ASSUME NEW x \in Queued(q) \ {Head(q)}
      PROVE  x \in Queued(Tail(q))
  <2>1. PICK k \in 1 .. Len(q) : q[k] = x
    BY DEF Queued
  <2>2. k - 1 \in 1 .. Len(q) - 1 /\ Tail(q)[k - 1] = x
    BY <1>1, <2>1
  <2>3. QED
    BY <1>1, <2>2 DEF Queued
<1>5. Head(q) \in Queued(q)
  BY <1>1 DEF Queued
<1>6. QED
  BY <1>1, <1>2, <1>3, <1>4, <1>5

\* A queue of other nodes, without repetitions, is shorter than Nodes.
LEMMA QueueFits ==
  ASSUME NEW q \in Seq(Threads), NEW n \in Threads, Distinct(q), n \notin Queued(q)
  PROVE  Len(q) < RA!Nodes
<1>1. IsFiniteSet(Threads)
  BY NodesAssumption, FS_Interval
<1>2. IsFiniteSet(Threads \ {n}) /\ Cardinality(Threads \ {n}) = RA!Nodes - 1
  <2>1. /\ IsFiniteSet(Threads \ {n})
        /\ Cardinality(Threads \ {n}) = Cardinality(Threads) - 1
    BY <1>1, FS_RemoveElement, Zenon
  <2>2. QED
    BY <2>1, NodesBelow
<1>3. q \in Injection(1 .. Len(q), Threads \ {n})
  BY DEF Injection, IsInjective, Distinct, Queued
<1>4. Cardinality(1 .. Len(q)) <= Cardinality(Threads \ {n})
  BY <1>2, <1>3, FS_Injection
<1>5. Cardinality(1 .. Len(q)) = Len(q) /\ Len(q) \in Nat
  BY SMTT(30), FS_Interval
<1>6. QED
  BY <1>2, <1>4, <1>5, NodesBelow

\* Counting the nodes that owe an answer.
LEMMA Countable ==
  ASSUME NEW S \in SUBSET Threads
  PROVE  /\ Cardinality(S) \in Nat
         /\ Cardinality(S) = 0 <=> S = {}
         /\ \A m \in S : Cardinality(S \ {m}) = Cardinality(S) - 1
<1>1. IsFiniteSet(S)
  <2>1. IsFiniteSet(Threads)
    BY NodesAssumption, FS_Interval
  <2>2. QED
    BY <2>1, FS_Subset
<1>2. QED
  BY <1>1, FS_CardinalityType, FS_EmptySet, FS_RemoveElement

\* Nobody has a number and nothing has been asked or deferred.
LEMMA RAInit == RA!Init => RAInv
<1> SUFFICES ASSUME RA!Init
             PROVE  RAInv
  OBVIOUS
<1> USE DEF RA!Init, RA!LoopInit, RA!NoMessage
<1>1. 0 \in Threads /\ Threads \subseteq Nat
  BY NodesAssumption
<1>2. RAType
  BY <1>1 DEF RAType, RALabels
<1> RAQueues
  BY DEF RAQueues
<1>3. RAFlags
  BY <1>1 DEF RAFlags
<1>4. \A n \in Threads : Owing(n) = {}
  BY DEF Owing, Asked, Postponed, Queued
<1>5. RAReplies
  BY <1>4 DEF RAReplies, Account, Asked, Distinct
<1>6. RAOrder
  BY DEF RAOrder, Ordered, Seen
<1>7. QED
  BY <1>2, <1>3, <1>5, <1>6 DEF RAInv

\* A reply taken off replies[n] counts one up; the last one ends the loop.
LEMMA CountReply ==
  ASSUME NEW d \in Nat \ {0}, NEW x \in Nat, x < d
  PROVE  (x + 1) % d = IF x + 1 = d THEN 0 ELSE x + 1
<1>1. CASE x + 1 = d
  BY <1>1
<1>2. CASE x + 1 < d
  BY <1>2
<1>3. QED
  BY <1>1, <1>2

\* What GetReply does to the index of a node that waits for its replies.
LEMMA ReplyIndex ==
  ASSUME RAType, RAReplies, NEW n \in Threads, pc[n] = "replies"
  PROVE  /\ (i[n] + 1) % (RA!Nodes - 1) =
              IF i[n] + 1 = RA!Nodes - 1 THEN 0 ELSE i[n] + 1
         /\ (i[n] + 1) % (RA!Nodes - 1) \in Nat
<1>1. RA!Nodes - 1 \in Nat \ {0} /\ i[n] \in Nat /\ i[n] < RA!Nodes - 1
  BY NodesBelow DEF RAType, RAReplies, Account
<1>2. QED
  BY <1>1, CountReply

\* The loop of lock() asks the other nodes in ascending order.
LEMMA NextAsked ==
  ASSUME NEW n \in Threads, NEW k \in Nat
  PROVE  /\ RA!Skip(n, k) \in Nat /\ RA!Skip(n, k) # n
         /\ RA!Skip(n, k) < RA!Nodes => RA!Skip(n, k) \in Threads
         /\ \A m \in Threads : m # n => (m < RA!Skip(n, k) <=> m < k)
<1>1. Threads = 0 .. RA!Nodes - 1 /\ RA!Nodes \in Nat
  BY NodesBelow
<1>2. QED
  BY <1>1 DEF RA!Skip

\* Every action keeps the variables in their types.
LEMMA RATypeStep ==
  ASSUME RAInv, [RA!Next]_(RA!vars)
  PROVE  RAType' /\ RAQueues'
<1> RAType /\ RAQueues /\ RAFlags /\ RAReplies /\ 0 \in Threads
  BY NodesAssumption DEF RAInv
<1> USE DEF RAType, RALabels, RA!Goto
<1>1. CASE UNCHANGED RA!vars
  BY <1>1 DEF RA!vars, RA!nodevars, RA!loopvars, RAQueues
<1>2. CASE RA!Join
  BY <1>2 DEF RA!Join, RA!Joined, RA!nodevars, RA!loopvars, RAQueues
<1>3. ASSUME NEW n \in Threads, RA!ChooseNumber(n) \/ RA!SendRequest(n)
      PROVE  RAType' /\ RAQueues'
  <2>1. CASE RA!ChooseNumber(n)
    <3>1. RA!Skip(n, 0) \in Nat
      BY NextAsked
    <3>2. RAType'
      BY <2>1, <3>1 DEF RA!ChooseNumber
    <3>3. QED
      BY <2>1, <3>2 DEF RA!ChooseNumber, RAQueues
  <2>2. CASE RA!SendRequest(n)
    <3>1. i[n] \in Threads /\ i[n] + 1 \in Nat
      BY <2>2 DEF RA!SendRequest, RAFlags
    <3>2. RA!Skip(n, i[n] + 1) \in Nat
      BY <3>1, NextAsked
    <3>3. i' \in [Threads -> Nat]
      <4>1. \/ i' = [i EXCEPT ![n] = RA!Skip(n, i[n] + 1)]
            \/ i' = [i EXCEPT ![n] = 0]
        BY <2>2, Zenon DEF RA!SendRequest
      <4>2. QED
        BY <3>2, <4>1
    <3>4. RAType'
      BY <2>2, <3>1, <3>3 DEF RA!SendRequest
    <3>5. QED
      BY <2>2, <3>4 DEF RA!SendRequest, RAQueues
  <2>3. QED
    BY <1>3, <2>1, <2>2
<1>4. ASSUME NEW n \in Threads, RA!Handle(n)
      PROVE  RAType' /\ RAQueues'
  <2>1. /\ RA!NoMessage \in [source : Threads, number : Nat]
        /\ msg[n].source \in Threads /\ msg[n].number \in Nat
    BY DEF RA!NoMessage
  <2>2. RAType'
    <3>1. msg' = msg \/ msg' = [msg EXCEPT ![n] = RA!NoMessage]
      BY <1>4 DEF RA!Handle
    <3>2. /\ rpc' \in [Threads -> {"receive", "handle", "reply"}]
          /\ highestNum' \in [Threads -> Nat]
      BY <1>4, <2>1 DEF RA!Handle
    <3>3. UNCHANGED <<pc, myNumber, requestCS, i>>
      BY <1>4 DEF RA!Handle, RA!loopvars
    <3>4. QED
      BY <2>1, <3>1, <3>2, <3>3
  <2>3. deferred[n] \in Seq(Threads)
    BY DEF RAQueues
  <2>4. Append(deferred[n], msg[n].source) \in Seq(Threads)
    BY <2>1, <2>3, AppendQueued
  <2>5. QED
    <3>1. \/ deferred' = deferred
          \/ deferred' = [deferred EXCEPT ![n] = Append(@, msg[n].source)]
      BY <1>4 DEF RA!Handle
    <3> HIDE DEF RAType
    <3>2. QED
      BY <2>2, <2>4, <3>1 DEF RAQueues
<1>5. ASSUME NEW n \in Threads, RA!ReceiverReplies(n)
      PROVE  RAType' /\ RAQueues'
  <2> DEFINE s == msg[n].source
  <2>1. /\ RA!NoMessage \in [source : Threads, number : Nat]
        /\ s \in Threads
    BY DEF RA!NoMessage
  <2>2. (i[s] + 1) % (RA!Nodes - 1) \in Nat
    BY <1>5, <2>1, ReplyIndex DEF RA!ReceiverReplies, RA!GetReply
  <2>3. RAType'
    BY <1>5, <2>1, <2>2 DEF RA!ReceiverReplies, RA!GetReply, RA!AfterReply
  <2>4. QED
    BY <1>5, <2>3 DEF RA!ReceiverReplies, RAQueues
<1>6. ASSUME NEW n \in Threads, RA!Count(n) \/ RA!ClearRequest(n)
      PROVE  RAType' /\ RAQueues'
  BY ZenonT(40), <1>6 DEF RA!Count, RA!Load, RA!Store, RA!nodevars, RA!ClearRequest, RAQueues
<1>7. ASSUME NEW n \in Threads, RA!CountDeferred(n)
      PROVE  RAType' /\ RAQueues'
  <2>1. Len(deferred[n]) \in Nat
    BY DEF RAQueues
  <2>2. i' \in [Threads -> Nat]
    BY <1>7, <2>1 DEF RA!CountDeferred
  <2>3. pc' \in [Threads -> RALabels]
    BY <1>7 DEF RA!CountDeferred, RA!EndIteration, RA!After
  <2>4. RAType'
    BY <1>7, <2>2, <2>3 DEF RA!CountDeferred
  <2>5. QED
    BY <1>7, <2>4 DEF RA!CountDeferred, RAQueues
<1>8. ASSUME NEW n \in Threads, RA!GrantDeferred(n)
      PROVE  RAType' /\ RAQueues'
  <2> DEFINE s == Head(deferred[n])
  <2>1. /\ deferred[n] \in Seq(Threads) /\ Len(deferred[n]) > 0
        /\ Distinct(deferred[n]) /\ i[n] = Len(deferred[n])
    BY <1>8 DEF RA!GrantDeferred, RAFlags, RAReplies, RAQueues
  <2>2. s \in Threads /\ Tail(deferred[n]) \in Seq(Threads)
    BY <2>1, TailQueued
  <2>3. (i[s] + 1) % (RA!Nodes - 1) \in Nat
    BY <1>8, <2>2, ReplyIndex DEF RA!GrantDeferred
  <2>4. i[n] - 1 \in Nat
    BY <2>1
  <2>5. RAType'
    BY <1>8, <2>2, <2>3, <2>4 DEF RA!GrantDeferred, RA!AfterReply, RA!After
  <2>6. QED
    BY <1>8, <2>2, <2>5 DEF RA!GrantDeferred, RAQueues
<1>9. QED
  BY <1>1, <1>2, <1>3, <1>4, <1>5, <1>6, <1>7, <1>8
  DEF RA!Next, RA!Step, RA!Receiver

\* The flag is raised and lowered with the goroutine's steps; nothing is
\* postponed while it is down, so that unlock() empties the channel.
LEMMA RAFlagsStep ==
  ASSUME RAInv, [RA!Next]_(RA!vars)
  PROVE  RAFlags'
<1> RAType /\ RAQueues /\ RAFlags /\ RAReplies /\ RAType'
  BY RATypeStep DEF RAInv
<1> USE DEF RAType, RAFlags, RA!Goto
<1>1. CASE UNCHANGED RA!vars
  BY <1>1 DEF RA!vars, RA!nodevars, RA!loopvars
<1>2. CASE RA!Join
  BY <1>2 DEF RA!Join, RA!Joined, RA!nodevars, RA!loopvars
<1>3. ASSUME NEW n \in Threads, RA!ChooseNumber(n)
      PROVE  RAFlags'
  <2>1. RA!Skip(n, 0) \in Nat /\ RA!Skip(n, 0) # n /\ RA!Skip(n, 0) \in Threads
    BY NodesBelow DEF RA!Skip
  <2>2. QED
    BY <1>3, <2>1 DEF RA!ChooseNumber
<1>4. ASSUME NEW n \in Threads, RA!SendRequest(n)
      PROVE  RAFlags'
  <2> DEFINE k == RA!Skip(n, i[n] + 1)
  <2>0. i[n] + 1 \in Nat
    OBVIOUS
  <2>1. k # n /\ (k < RA!Nodes => k \in Threads)
    BY <2>0, NextAsked
  <2>2. \/ i' = [i EXCEPT ![n] = k] /\ k < RA!Nodes /\ pc' = pc
        \/ pc' = [pc EXCEPT ![n] = "replies"] /\ i' = [i EXCEPT ![n] = 0]
    BY <1>4, Zenon DEF RA!SendRequest
  <2> HIDE DEF k
  <2>3. pc[n] = "request" /\ UNCHANGED <<requestCS, deferred>>
    BY <1>4 DEF RA!SendRequest
  <2>4. \A m \in Threads \ {n} : pc'[m] = pc[m] /\ i'[m] = i[m]
    BY <2>2
  <2>5. \/ pc'[n] = "request" /\ i'[n] \in Threads /\ i'[n] # n
        \/ pc'[n] = "replies"
    BY <2>1, <2>2, <2>3
  <2>6. ASSUME NEW m \in Threads \ {n}
        PROVE  /\ requestCS'[m] <=> pc'[m] \in {"request", "replies", "load", "store", "unlock"}
               /\ pc'[m] \in {"begin", "done"} => deferred'[m] = <<>>
               /\ pc'[m] = "grant" => i'[m] = Len(deferred'[m]) /\ i'[m] > 0
               /\ pc'[m] = "request" => i'[m] \in Threads /\ i'[m] # m
    BY ZenonT(40), <2>3, <2>4
  <2>7. requestCS'[n]
    BY <2>3
  <2>8. QED
    BY ZenonT(40), <2>5, <2>6, <2>7
<1>5. ASSUME NEW n \in Threads, RA!Handle(n)
      PROVE  RAFlags'
  <2>1. UNCHANGED <<pc, requestCS, i>>
    BY <1>5 DEF RA!Handle, RA!loopvars
  <2>2. \/ deferred' = deferred
        \/ /\ requestCS[n]
           /\ deferred' = [deferred EXCEPT ![n] = Append(@, msg[n].source)]
    BY <1>5 DEF RA!Handle, RA!Grants
  <2>3. \A m \in Threads : ~ requestCS[m] => deferred'[m] = deferred[m]
    BY <2>2 DEF RAQueues
  <2>4. QED
    BY <2>1, <2>3
<1>6. ASSUME NEW n \in Threads, RA!ReceiverReplies(n)
      PROVE  RAFlags'
  BY SMTT(30), <1>6 DEF RA!ReceiverReplies, RA!GetReply, RA!AfterReply
<1>7. ASSUME NEW n \in Threads, RA!Count(n) \/ RA!ClearRequest(n)
      PROVE  RAFlags'
  BY <1>7 DEF RA!Count, RA!Load, RA!Store, RA!nodevars, RA!ClearRequest
<1>8. ASSUME NEW n \in Threads, RA!CountDeferred(n)
      PROVE  RAFlags'
  <2>1. Len(deferred[n]) = 0 => deferred[n] = <<>>
    BY EmptySeq DEF RAQueues
  <2>2. QED
    BY <1>8, <2>1 DEF RA!CountDeferred, RA!EndIteration, RA!After
<1>9. ASSUME NEW n \in Threads, RA!GrantDeferred(n)
      PROVE  RAFlags'
  <2> DEFINE s == Head(deferred[n])
             q == Tail(deferred[n])
  <2>1. /\ deferred[n] \in Seq(Threads) /\ Len(deferred[n]) > 0
        /\ Distinct(deferred[n]) /\ i[n] = Len(deferred[n])
    BY <1>9 DEF RA!GrantDeferred, RAReplies, RAQueues
  <2>2. s \in Threads /\ q \in Seq(Threads) /\ Len(q) = i[n] - 1
    <3>1. s \in Threads /\ q \in Seq(Threads) /\ Len(q) = Len(deferred[n]) - 1
      BY <2>1, TailQueued, Zenon
    <3>2. QED
      BY <2>1, <3>1
  <2>3. ~ (i[n] > 1) => q = <<>>
    BY SMTT(30), <2>1, <2>2, EmptySeq
  <2>4. pc[n] = "grant" /\ pc[s] = "replies" /\ s # n
    BY <1>9 DEF RA!GrantDeferred
  <2> HIDE DEF s, q
  <2>5. /\ deferred' = [deferred EXCEPT ![n] = q]
        /\ i' = [i EXCEPT ![n] = @ - 1, ![s] = (@ + 1) % (RA!Nodes - 1)]
        /\ pc' = [pc EXCEPT ![s] = RA!AfterReply(s),
                            ![n] = IF i[n] > 1 THEN "grant" ELSE RA!After(n)]
        /\ requestCS' = requestCS
    BY <1>9 DEF RA!GrantDeferred, s, q
  <2>6. RA!AfterReply(s) \in {"load", "replies"} /\ RA!After(n) \in {"begin", "done"}
    BY DEF RA!AfterReply, RA!After
  <2>7. /\ i'[n] = Len(q) /\ deferred'[n] = q
        /\ pc'[n] = IF i[n] > 1 THEN "grant" ELSE RA!After(n)
        /\ pc'[s] \in {"load", "replies"} /\ deferred'[s] = deferred[s]
    <3>1. i'[n] = Len(q)
      BY <2>2, <2>4, <2>5
    <3>2. deferred'[n] = q /\ deferred'[s] = deferred[s]
      BY <2>2, <2>4, <2>5 DEF RAQueues
    <3>3. /\ pc'[n] = IF i[n] > 1 THEN "grant" ELSE RA!After(n)
          /\ pc'[s] = RA!AfterReply(s)
      BY <2>2, <2>4, <2>5
    <3>4. QED
      BY <2>6, <3>1, <3>2, <3>3
  <2>8. \A m \in Threads \ {n, s} :
          pc'[m] = pc[m] /\ i'[m] = i[m] /\ deferred'[m] = deferred[m]
    BY <2>5
  <2>9. QED
    <3> DEFINE Ok(m) ==
          /\ requestCS'[m] <=> pc'[m] \in {"request", "replies", "load", "store", "unlock"}
          /\ pc'[m] \in {"begin", "done"} => deferred'[m] = <<>>
          /\ pc'[m] = "grant" => i'[m] = Len(deferred'[m]) /\ i'[m] > 0
          /\ pc'[m] = "request" => i'[m] \in Threads /\ i'[m] # m
    <3>1. ASSUME NEW m \in Threads \ {n, s}
          PROVE  Ok(m)
      BY SMTT(30), <2>5, <2>8
    <3>2. ~ requestCS[n] /\ requestCS[s]
      BY <2>2, <2>4
    <3>3. ASSUME i[n] > 1 PROVE Ok(n)
      BY SMTT(30), <2>1, <2>2, <2>5, <2>7, <3>2, <3>3
    <3>4. ASSUME ~ (i[n] > 1) PROVE Ok(n)
      BY <2>3, <2>5, <2>6, <2>7, <3>2, <3>4
    <3>5. Ok(n)
      BY <3>3, <3>4
    <3>6. Ok(s)
      BY <2>2, <2>5, <2>7, <3>2
    <3> HIDE DEF Ok
    <3>7. \A m \in Threads : Ok(m)
      BY <3>1, <3>5, <3>6
    <3>8. QED
      BY <3>7 DEF Ok
<1>10. QED
  BY <1>1, <1>2, <1>3, <1>4, <1>5, <1>6, <1>7, <1>8, <1>9
  DEF RA!Next, RA!Step, RA!Receiver

\* A node to which nothing happens is owed what it was owed.
LEMMA AccountKept ==
  ASSUME NEW n \in Threads, Account(n), Owing(n)' = Owing(n), i'[n] = i[n],
         pc'[n] = pc[n]
  PROVE  Account(n)'
BY DEF Account

\* An answer counts once.
LEMMA AccountAnswered ==
  ASSUME RAType, RAReplies, NEW s \in Threads, NEW n \in Owing(s),
         pc[s] = "replies", Owing(s)' = Owing(s) \ {n},
         i'[s] = (i[s] + 1) % (RA!Nodes - 1), pc'[s] = RA!AfterReply(s)
  PROVE  Account(s)'
<1> DEFINE c == Cardinality(Owing(s))
           d == Cardinality(Owing(s) \ {n})
<1>1. Owing(s) \in SUBSET Threads /\ Owing(s) \ {n} \in SUBSET Threads
  BY DEF Owing
<1>2. /\ c \in Nat /\ d \in Nat /\ d = c - 1
      /\ d = 0 <=> Owing(s) \ {n} = {}
  BY <1>1, Countable
<1> HIDE DEF c, d
<1>3. /\ i[s] \in Nat /\ i[s] < RA!Nodes - 1 /\ i[s] + c = RA!Nodes - 1
      /\ s \notin Owing(s) /\ RA!Nodes \in Nat
  BY NodesBelow DEF RAReplies, Account, c, RAType
<1>4. i'[s] = IF i[s] + 1 = RA!Nodes - 1 THEN 0 ELSE i[s] + 1
  BY ReplyIndex
<1>5. CASE i[s] + 1 = RA!Nodes - 1
  <2>1. Owing(s)' = {}
    BY <1>2, <1>3, <1>5
  <2>2. pc'[s] = "load"
    BY <1>5 DEF RA!AfterReply
  <2>3. QED
    BY <2>1, <2>2 DEF Account
<1>6. CASE i[s] + 1 # RA!Nodes - 1
  <2>1. pc'[s] = "replies" /\ i'[s] = i[s] + 1
    BY <1>4, <1>6 DEF RA!AfterReply
  <2>2. i'[s] < RA!Nodes - 1 /\ i'[s] + d = RA!Nodes - 1
    BY <1>2, <1>3, <1>6, <2>1
  <2>3. Cardinality(Owing(s)') = d /\ s \notin Owing(s)'
    BY <1>3 DEF d
  <2>4. QED
    BY <2>1, <2>2, <2>3 DEF Account
<1>7. QED
  BY <1>5, <1>6

\* Replies are neither lost nor given twice.
LEMMA RARepliesStep ==
  ASSUME RAInv, [RA!Next]_(RA!vars)
  PROVE  RAReplies'
<1> RAType /\ RAQueues /\ RAFlags /\ RAReplies /\ RAType'
  BY RATypeStep DEF RAInv
<1> USE DEF RAType
\* The steps that leave the receivers alone.
<1>0. ASSUME UNCHANGED <<rpc, msg, deferred>>,
             \A n \in Threads : Account(n)',
             \A m \in Threads : rpc[m] # "receive" =>
               myNumber'[msg[m].source] = myNumber[msg[m].source]
      PROVE  RAReplies'
  BY <1>0 DEF RAReplies, Asked, Postponed
<1>1. CASE UNCHANGED <<pc, rpc, msg, deferred, myNumber, i>>
  <2>1. \A n \in Threads : Owing(n)' = Owing(n)
    BY <1>1 DEF Owing, Asked, Postponed
  <2>2. \A n \in Threads : Account(n)'
    BY <1>1, <2>1, AccountKept DEF RAReplies
  <2>3. QED
    BY <1>0, <1>1, <2>2
<1>2. ASSUME NEW n \in Threads, RA!ChooseNumber(n)
      PROVE  RAReplies'
  <2> DEFINE k == RA!Skip(n, 0)
  <2>1. \A m \in Threads : Owing(m)' = Owing(m)
    BY <1>2 DEF RA!ChooseNumber, Owing, Asked, Postponed
  <2>2. Owing(n) = {}
    BY <1>2 DEF RA!ChooseNumber, RAReplies, Account
  <2>3. \A m \in Threads : m # n => ~ (m < k)
    BY SMTT(30), NextAsked, NodesAssumption
  <2> HIDE DEF k
  <2>4. pc'[n] = "request" /\ i'[n] = k
    BY <1>2 DEF RA!ChooseNumber, RA!Goto, k
  <2>5. Account(n)'
    BY <2>1, <2>2, <2>3, <2>4 DEF Account
  <2>6. ASSUME NEW m \in Threads \ {n} PROVE Account(m)'
    <3>1. pc'[m] = pc[m] /\ i'[m] = i[m]
      BY <1>2 DEF RA!ChooseNumber, RA!Goto
    <3>2. QED
      BY <2>1, <3>1, AccountKept DEF RAReplies
  <2>7. ASSUME NEW m \in Threads, rpc[m] # "receive"
        PROVE  myNumber'[msg[m].source] = myNumber[msg[m].source]
    <3>1. msg[m].source # n
      BY <2>2, <2>7 DEF Owing, Asked
    <3>2. QED
      BY <1>2, <3>1 DEF RA!ChooseNumber
  <2>8. QED
    BY <1>0, <1>2, <2>5, <2>6, <2>7 DEF RA!ChooseNumber
<1>3. ASSUME NEW n \in Threads,
             RA!Count(n) \/ RA!ClearRequest(n) \/ RA!CountDeferred(n)
      PROVE  RAReplies'
  <2>1. UNCHANGED <<rpc, msg, deferred, myNumber>>
    BY <1>3 DEF RA!Count, RA!nodevars, RA!ClearRequest, RA!CountDeferred
  <2>2. \A m \in Threads : Owing(m)' = Owing(m)
    BY <2>1 DEF Owing, Asked, Postponed
  <2>3. /\ pc[n] \notin {"request", "replies"} /\ pc'[n] \notin {"request", "replies"}
        /\ \A m \in Threads : m # n => pc'[m] = pc[m] /\ i'[m] = i[m]
    BY <1>3 DEF RA!Count, RA!Load, RA!Store, RA!nodevars, RA!ClearRequest,
                RA!CountDeferred, RA!EndIteration, RA!After, RA!Goto
  <2>4. Account(n)'
    BY <2>2, <2>3 DEF Account, RAReplies
  <2>5. \A m \in Threads : m # n => Account(m)'
    BY <2>2, <2>3, AccountKept DEF RAReplies
  <2>6. QED
    BY <1>0, <2>1, <2>4, <2>5
<1>4. ASSUME NEW n \in Threads, RA!SendRequest(n)
      PROVE  RAReplies'
  <2>0. PICK d \in Threads : /\ d = i[n] /\ d # n
                             /\ pc[n] = "request" /\ rpc[d] = "receive"
    BY <1>4 DEF RA!SendRequest, RAFlags
  <2>1. d \in Nat /\ d + 1 \in Nat
    BY SMTT(30), NodesAssumption
  <2> DEFINE k == RA!Skip(n, d + 1)
  <2>2. \A m \in Threads : m # n => (m < k <=> m < d + 1)
    BY <2>1, NextAsked
  <2>3. Owing(n) = {m \in Threads : m # n /\ m < d}
    BY <2>0 DEF RAReplies, Account
  <2>4. \/ i' = [i EXCEPT ![n] = k] /\ k < RA!Nodes /\ pc' = pc
        \/ /\ i' = [i EXCEPT ![n] = 0] /\ ~ (k < RA!Nodes)
           /\ pc' = [pc EXCEPT ![n] = "replies"]
    BY <1>4, <2>0, Zenon DEF RA!SendRequest, RA!Goto
  <2>5. /\ msg' = [msg EXCEPT ![d] = [source |-> n, number |-> myNumber[n]]]
        /\ rpc' = [rpc EXCEPT ![d] = "handle"]
        /\ UNCHANGED <<deferred, myNumber>>
    BY <1>4, <2>0 DEF RA!SendRequest
  <2> HIDE DEF k
  <2>6. /\ \A m \in Threads : m # d => msg'[m] = msg[m] /\ rpc'[m] = rpc[m]
        /\ msg'[d] = [source |-> n, number |-> myNumber[n]] /\ rpc'[d] = "handle"
    BY <2>1, <2>5
  <2>7. \A m, x \in Threads : /\ Postponed(m, x)' <=> Postponed(m, x)
                              /\ m # d => (Asked(m, x)' <=> Asked(m, x))
    BY <2>5, <2>6 DEF Postponed, Asked
  <2>8. \A x \in Threads : ~ Asked(d, x) /\ (Asked(d, x)' <=> x = n)
    BY <2>0, <2>6 DEF Asked
  <2>9. ~ Postponed(d, n)
    BY <2>0, <2>3 DEF Owing
  <2>10. Owing(n)' = Owing(n) \cup {d}
    BY <2>1, <2>7, <2>8 DEF Owing
  <2>11. \A x \in Threads : x # n => Owing(x)' = Owing(x)
    BY <2>1, <2>7, <2>8 DEF Owing
  <2>12. Owing(n)' = {m \in Threads : m # n /\ m < d + 1}
    <3>1. ASSUME NEW m \in Threads PROVE m < d + 1 <=> m < d \/ m = d
      <4>1. m \in Nat
        BY NodesBelow
      <4>2. QED
        BY <2>1, <4>1
    <3>2. QED
      BY <2>0, <2>3, <2>10, <3>1
  <2>13. Account(n)'
    <3>1. CASE k < RA!Nodes
      <4>1. pc'[n] = "request" /\ i'[n] = k
        BY <2>0, <2>4, <3>1
      <4>2. QED
        BY <2>2, <2>12, <4>1 DEF Account
    <3>2. CASE ~ (k < RA!Nodes)
      <4>1. pc'[n] = "replies" /\ i'[n] = 0
        BY <2>4, <3>2
      <4>2. k \in Nat
        BY <2>1, NextAsked DEF k
      <4>3. ASSUME NEW m \in Threads, m # n PROVE m < d + 1
        <5>1. m \in Nat /\ RA!Nodes \in Nat /\ m < RA!Nodes
          BY NodesBelow
        <5>2. m < k
          BY <3>2, <4>2, <5>1
        <5>3. QED
          BY <2>2, <4>3, <5>2
      <4>4. Owing(n)' = Threads \ {n}
        BY <2>12, <4>3
      <4>5. Cardinality(Threads \ {n}) = RA!Nodes - 1 /\ 0 < RA!Nodes - 1
        <5>1. Cardinality(Threads \ {n}) = Cardinality(Threads) - 1
          BY Countable
        <5>2. QED
          BY <5>1, NodesBelow, NodesAssumption
      <4>6. QED
        <5>1. i'[n] + Cardinality(Owing(n)') = RA!Nodes - 1
          BY <4>1, <4>4, <4>5, NodesBelow
        <5>2. QED
          BY <4>1, <4>4, <4>5, <5>1 DEF Account
    <3>3. QED
      BY <3>1, <3>2
  <2>14. ASSUME NEW x \in Threads, x # n PROVE Account(x)'
    <3>1. pc'[x] = pc[x] /\ i'[x] = i[x]
      BY <2>4, <2>14
    <3>2. QED
      BY <2>11, <2>14, <3>1, AccountKept DEF RAReplies
  <2>15. \A m, x \in Threads : ~ (Asked(m, x)' /\ Postponed(m, x)')
    <3>1. \A m, x \in Threads : ~ (Asked(m, x) /\ Postponed(m, x))
      BY DEF RAReplies
    <3>2. QED
      BY <2>7, <2>8, <2>9, <3>1
  <2>16. \A m \in Threads :
           /\ Distinct(deferred'[m])
           /\ rpc'[m] # "receive" => msg'[m].number = myNumber'[msg'[m].source]
    BY <2>5, <2>6 DEF RAReplies
  <2>17. QED
    BY <2>13, <2>14, <2>15, <2>16 DEF RAReplies
<1>5. ASSUME NEW n \in Threads, RA!Handle(n)
      PROVE  RAReplies'
  <2> DEFINE s == msg[n].source
  <2>1. UNCHANGED <<pc, myNumber, i>> /\ rpc[n] = "handle" /\ s \in Threads
    BY <1>5 DEF RA!Handle, RA!loopvars
  <2>2. CASE rpc' = [rpc EXCEPT ![n] = "reply"] /\ UNCHANGED <<deferred, msg>>
    <3>1. \A m \in Threads : rpc'[m] # "receive" <=> rpc[m] # "receive"
      BY <2>1, <2>2
    <3>2. \A m, x \in Threads : /\ Asked(m, x)' <=> Asked(m, x)
                                /\ Postponed(m, x)' <=> Postponed(m, x)
      BY <2>2, <3>1 DEF Asked, Postponed
    <3>3. \A x \in Threads : Account(x)'
      <4>1. \A x \in Threads : Owing(x)' = Owing(x)
        BY <3>2 DEF Owing
      <4>2. QED
        BY <2>1, <4>1, AccountKept DEF RAReplies
    <3>4. QED
      BY <2>1, <2>2, <3>1, <3>2, <3>3 DEF RAReplies
  <2>3. CASE /\ deferred' = [deferred EXCEPT ![n] = Append(@, s)]
             /\ rpc' = [rpc EXCEPT ![n] = "receive"]
             /\ msg' = [msg EXCEPT ![n] = RA!NoMessage]
    <3>1. /\ \A m \in Threads : m # n => /\ msg'[m] = msg[m] /\ rpc'[m] = rpc[m]
                                         /\ deferred'[m] = deferred[m]
          /\ rpc'[n] = "receive" /\ deferred'[n] = Append(deferred[n], s)
      BY <2>3 DEF RAQueues
    <3>2. \A m, x \in Threads : m # n => /\ Asked(m, x)' <=> Asked(m, x)
                                         /\ Postponed(m, x)' <=> Postponed(m, x)
      BY <3>1 DEF Asked, Postponed
    <3>3. \A x \in Threads : ~ Asked(n, x)' /\ (Asked(n, x) <=> x = s)
      BY <2>1, <3>1 DEF Asked
    <3>4. \A m, x \in Threads : ~ (Asked(m, x) /\ Postponed(m, x))
      BY DEF RAReplies
    <3>5. deferred[n] \in Seq(Threads)
      BY DEF RAQueues
    <3>6. s \notin Queued(deferred[n])
      BY <2>1, <3>3, <3>4 DEF Postponed
    <3>7. /\ Queued(deferred'[n]) = Queued(deferred[n]) \cup {s}
          /\ Distinct(deferred[n]) => Distinct(deferred'[n])
      BY <2>1, <3>1, <3>5, <3>6, AppendQueued
    <3>8. \A x \in Threads : Postponed(n, x)' <=> Postponed(n, x) \/ x = s
      BY <2>1, <3>7 DEF Postponed
    <3>9. \A x \in Threads : Owing(x)' = Owing(x)
      BY <3>2, <3>3, <3>8 DEF Owing
    <3>10. \A x \in Threads : Account(x)'
      BY <2>1, <3>9, AccountKept DEF RAReplies
    <3>11. \A m, x \in Threads : ~ (Asked(m, x)' /\ Postponed(m, x)')
      BY <3>2, <3>3, <3>4
    <3>12. \A m \in Threads :
             /\ Distinct(deferred'[m])
             /\ rpc'[m] # "receive" => msg'[m].number = myNumber'[msg'[m].source]
      BY <2>1, <3>1, <3>7 DEF RAReplies
    <3>13. QED
      BY <3>10, <3>11, <3>12 DEF RAReplies
  <2>4. QED
    BY <1>5, <2>2, <2>3 DEF RA!Handle
<1>6. ASSUME NEW n \in Threads, RA!ReceiverReplies(n)
      PROVE  RAReplies'
  <2>0. PICK s \in Threads : s = msg[n].source
    OBVIOUS
  <2>1. /\ rpc[n] = "reply" /\ pc[s] = "replies"
        /\ i' = [i EXCEPT ![s] = (@ + 1) % (RA!Nodes - 1)]
        /\ pc' = [pc EXCEPT ![s] = RA!AfterReply(s)]
        /\ rpc' = [rpc EXCEPT ![n] = "receive"]
        /\ msg' = [msg EXCEPT ![n] = RA!NoMessage]
        /\ UNCHANGED <<myNumber, deferred>>
    BY <1>6, <2>0 DEF RA!ReceiverReplies, RA!GetReply, RA!Goto
  <2>2. /\ \A m \in Threads : m # n => msg'[m] = msg[m] /\ rpc'[m] = rpc[m]
        /\ rpc'[n] = "receive"
    BY <2>1
  <2>3. \A m, x \in Threads : /\ Postponed(m, x)' <=> Postponed(m, x)
                              /\ m # n => (Asked(m, x)' <=> Asked(m, x))
    BY <2>1, <2>2 DEF Asked, Postponed
  <2>4. \A x \in Threads : ~ Asked(n, x)' /\ (Asked(n, x) <=> x = s)
    BY <2>0, <2>1, <2>2 DEF Asked
  <2>5. \A m, x \in Threads : ~ (Asked(m, x) /\ Postponed(m, x))
    BY DEF RAReplies
  <2>6. n \in Owing(s) /\ Owing(s)' = Owing(s) \ {n}
    BY <2>1, <2>3, <2>4, <2>5 DEF Owing
  <2>7. \A x \in Threads : x # s => Owing(x)' = Owing(x)
    BY <2>1, <2>3, <2>4 DEF Owing
  <2>8. i'[s] = (i[s] + 1) % (RA!Nodes - 1) /\ pc'[s] = RA!AfterReply(s)
    BY <2>1
  <2>9. Account(s)'
    BY <2>1, <2>6, <2>8, AccountAnswered
  <2>10. ASSUME NEW x \in Threads, x # s PROVE Account(x)'
    <3>1. pc'[x] = pc[x] /\ i'[x] = i[x]
      BY <2>1, <2>10
    <3>2. QED
      BY <2>7, <2>10, <3>1, AccountKept DEF RAReplies
  <2>11. \A m, x \in Threads : ~ (Asked(m, x)' /\ Postponed(m, x)')
    BY <2>3, <2>4, <2>5
  <2>12. \A m \in Threads :
           /\ Distinct(deferred'[m])
           /\ rpc'[m] # "receive" => msg'[m].number = myNumber'[msg'[m].source]
    BY <2>1, <2>2 DEF RAReplies
  <2>13. QED
    BY <2>9, <2>10, <2>11, <2>12 DEF RAReplies
<1>7. ASSUME NEW n \in Threads, RA!GrantDeferred(n)
      PROVE  RAReplies'
  <2> DEFINE q == Tail(deferred[n])
  <2>1. /\ deferred[n] \in Seq(Threads) /\ Len(deferred[n]) > 0
        /\ Distinct(deferred[n])
    BY <1>7 DEF RA!GrantDeferred, RAReplies, RAQueues, RAFlags
  <2>0. Head(deferred[n]) \in Threads
    BY <2>1, TailQueued, Zenon
  <2>2. PICK s \in Threads :
          /\ s = Head(deferred[n]) /\ s \in Queued(deferred[n])
          /\ Queued(q) = Queued(deferred[n]) \ {s} /\ Distinct(q)
    BY <2>0, <2>1, TailQueued, Zenon
  <2> HIDE DEF q
  <2>3. /\ pc[n] = "grant" /\ pc[s] = "replies" /\ s # n
        /\ deferred' = [deferred EXCEPT ![n] = q]
        /\ i' = [i EXCEPT ![n] = @ - 1, ![s] = (@ + 1) % (RA!Nodes - 1)]
        /\ pc' = [pc EXCEPT ![s] = RA!AfterReply(s),
                            ![n] = IF i[n] > 1 THEN "grant" ELSE RA!After(n)]
        /\ UNCHANGED <<rpc, msg, myNumber>>
    BY <1>7, <2>2 DEF RA!GrantDeferred, q
  <2>4. /\ \A m \in Threads : m # n => deferred'[m] = deferred[m]
        /\ deferred'[n] = q
    BY <2>3 DEF RAQueues
  <2>5. \A m, x \in Threads : /\ Asked(m, x)' <=> Asked(m, x)
                              /\ m # n => (Postponed(m, x)' <=> Postponed(m, x))
    BY <2>3, <2>4 DEF Asked, Postponed
  <2>6. \A x \in Threads : Postponed(n, x)' <=> Postponed(n, x) /\ x # s
    BY <2>2, <2>4 DEF Postponed
  <2>7. \A m, x \in Threads : ~ (Asked(m, x) /\ Postponed(m, x))
    BY DEF RAReplies
  <2>8. n \in Owing(s) /\ Owing(s)' = Owing(s) \ {n}
    <3>1. Postponed(n, s) /\ ~ Asked(n, s)
      BY <2>2, <2>7 DEF Postponed
    <3>2. QED
      BY <2>5, <2>6, <3>1 DEF Owing
  <2>9. \A x \in Threads : x # s => Owing(x)' = Owing(x)
    BY <2>5, <2>6 DEF Owing
  <2>10. i'[s] = (i[s] + 1) % (RA!Nodes - 1) /\ pc'[s] = RA!AfterReply(s)
    BY <2>2, <2>3
  <2>11. Account(s)'
    BY <2>2, <2>3, <2>8, <2>10, AccountAnswered
  <2>12. Account(n)'
    <3>1. pc'[n] \in {"grant", "begin", "done"}
      BY <2>2, <2>3 DEF RA!After
    <3>2. Owing(n)' = {}
      BY <2>3, <2>9 DEF RAReplies, Account
    <3>3. QED
      BY <3>1, <3>2 DEF Account
  <2>13. ASSUME NEW x \in Threads, x # s, x # n PROVE Account(x)'
    <3>1. pc'[x] = pc[x] /\ i'[x] = i[x]
      BY <2>3, <2>13
    <3>2. QED
      BY <2>9, <2>13, <3>1, AccountKept DEF RAReplies
  <2>14. \A m, x \in Threads : ~ (Asked(m, x)' /\ Postponed(m, x)')
    BY <2>5, <2>6, <2>7
  <2>15. \A m \in Threads :
           /\ Distinct(deferred'[m])
           /\ rpc'[m] # "receive" => msg'[m].number = myNumber'[msg'[m].source]
    BY <2>2, <2>3, <2>4 DEF RAReplies
  <2>16. QED
    BY <2>11, <2>12, <2>13, <2>14, <2>15 DEF RAReplies
<1>8. CASE UNCHANGED RA!vars \/ RA!Join
  BY <1>1, <1>8 DEF RA!vars, RA!nodevars, RA!loopvars, RA!Join, RA!Joined
<1>9. QED
  BY <1>2, <1>3, <1>4, <1>5, <1>6, <1>7, <1>8 DEF RA!Next, RA!Step, RA!Receiver

\* A pair of nodes stays ordered unless the one is seen anew, or the other
\* starts to compete or stops postponing its answer.
LEMMA OrderKept ==
  ASSUME NEW m \in Threads, NEW n \in Threads, RAType, Ordered(m, n),
         Seen(m, n)' => Seen(m, n),
         myNumber'[n] = myNumber[n], highestNum'[m] = highestNum[m],
         requestCS'[m] /\ ~ Postponed(m, n)' =>
           requestCS[m] /\ ~ Postponed(m, n) /\ myNumber'[m] = myNumber[m]
  PROVE  Ordered(m, n)'
BY DEF Ordered, Before

\* A node that is answered has been seen: the numbers of those that
\* request are ordered alike by everybody.
LEMMA RAOrderStep ==
  ASSUME RAInv, [RA!Next]_(RA!vars)
  PROVE  RAOrder'
<1> RAType /\ RAQueues /\ RAFlags /\ RAReplies /\ RAOrder
  BY DEF RAInv
<1> USE DEF RAType
<1>1. ASSUME UNCHANGED <<rpc, msg, deferred, myNumber, highestNum>>,
             \A n \in Threads : /\ requestCS'[n] => requestCS[n]
                                /\ pc[n] = "request" => /\ pc'[n] = "request"
                                                        /\ i'[n] = i[n]
      PROVE  RAOrder'
  <2>1. \A m, n \in Threads : /\ Postponed(m, n)' <=> Postponed(m, n)
                              /\ Seen(m, n)' => Seen(m, n)
    BY <1>1 DEF Postponed, Asked, Seen
  <2>2. QED
    BY <1>1, <2>1, OrderKept DEF RAOrder
<1>2. CASE UNCHANGED RA!vars \/ RA!Join
  BY <1>1, <1>2 DEF RA!vars, RA!nodevars, RA!loopvars, RA!Join, RA!Joined
<1>3. ASSUME NEW n \in Threads,
             RA!Count(n) \/ RA!ClearRequest(n) \/ RA!CountDeferred(n)
      PROVE  RAOrder'
  <2>1. /\ UNCHANGED <<rpc, msg, deferred, myNumber, highestNum>>
        /\ \A m \in Threads : requestCS'[m] => requestCS[m]
    BY <1>3 DEF RA!Count, RA!nodevars, RA!ClearRequest, RA!CountDeferred
  <2>2. \A m \in Threads : pc[m] = "request" => pc'[m] = "request" /\ i'[m] = i[m]
    BY <1>3 DEF RA!Count, RA!Load, RA!Store, RA!nodevars, RA!ClearRequest,
                RA!CountDeferred, RA!EndIteration, RA!After, RA!Goto
  <2>3. QED
    BY <1>1, <2>1, <2>2
<1>4. ASSUME NEW a \in Threads, RA!ChooseNumber(a)
      PROVE  RAOrder'
  <2>1. PICK k \in Nat : /\ i' = [i EXCEPT ![a] = k]
                         /\ \A m \in Threads : m # a => ~ (m < k)
    <3>1. /\ RA!Skip(a, 0) \in Nat
          /\ \A m \in Threads : m # a => ~ (m < RA!Skip(a, 0))
      BY NextAsked, NodesAssumption
    <3>2. QED
      BY <1>4, <3>1 DEF RA!ChooseNumber
  <2>2. /\ pc' = [pc EXCEPT ![a] = "request"]
        /\ requestCS' = [requestCS EXCEPT ![a] = TRUE]
        /\ myNumber' = [myNumber EXCEPT ![a] = highestNum[a] + 1]
        /\ UNCHANGED <<rpc, msg, highestNum, deferred>>
    BY <1>4 DEF RA!ChooseNumber, RA!Goto
  <2>3. ASSUME NEW m \in Threads PROVE Ordered(m, a)'
    BY <2>1, <2>2 DEF Ordered, Seen
  <2>4. ASSUME NEW n \in Threads, n # a PROVE Ordered(a, n)'
    <3>1. Seen(a, n)' => Seen(a, n)
      BY <2>1, <2>2, <2>4 DEF Seen, Asked
    <3>2. Seen(a, n) => myNumber[n] <= highestNum[a]
      BY DEF RAOrder, Ordered
    <3>3. Seen(a, n)' => myNumber'[n] <= highestNum[a] /\ myNumber'[n] < myNumber'[a]
      BY <2>2, <2>4, <3>1, <3>2
    <3>4. QED
      BY <2>2, <3>3 DEF Ordered, Before
  <2>5. ASSUME NEW m \in Threads, NEW n \in Threads, m # a, n # a
        PROVE  Ordered(m, n)'
    <3>1. Seen(m, n)' => Seen(m, n)
      BY <2>1, <2>2, <2>5 DEF Seen, Asked
    <3>2. Postponed(m, n)' <=> Postponed(m, n)
      BY <2>2 DEF Postponed
    <3>3. QED
      BY <2>2, <2>5, <3>1, <3>2, OrderKept DEF RAOrder
  <2>6. QED
    BY <2>3, <2>4, <2>5 DEF RAOrder
<1>5. ASSUME NEW a \in Threads, RA!SendRequest(a)
      PROVE  RAOrder'
  <2>0. PICK d \in Threads : /\ d = i[a] /\ d # a
                             /\ pc[a] = "request" /\ rpc[d] = "receive"
    BY <1>5 DEF RA!SendRequest, RAFlags
  <2>1. PICK k \in Nat : /\ k = RA!Skip(a, d + 1)
                         /\ \A m \in Threads : m # a => (m < k <=> m < d + 1)
    <3>1. d + 1 \in Nat
      BY NodesAssumption
    <3>2. QED
      BY <3>1, NextAsked
  <2>2. \/ i' = [i EXCEPT ![a] = k] /\ k < RA!Nodes /\ pc' = pc
        \/ /\ i' = [i EXCEPT ![a] = 0] /\ ~ (k < RA!Nodes)
           /\ pc' = [pc EXCEPT ![a] = "replies"]
    BY <1>5, <2>0, <2>1, Zenon DEF RA!SendRequest, RA!Goto
  <2>3. /\ msg' = [msg EXCEPT ![d] = [source |-> a, number |-> myNumber[a]]]
        /\ rpc' = [rpc EXCEPT ![d] = "handle"]
        /\ UNCHANGED <<deferred, myNumber, highestNum, requestCS>>
    BY <1>5, <2>0 DEF RA!SendRequest
  <2>4. \A m, n \in Threads :
          /\ Postponed(m, n)' <=> Postponed(m, n)
          /\ m # d => Asked(m, n)' = Asked(m, n) /\ rpc'[m] = rpc[m]
    BY <2>3 DEF Postponed, Asked
  <2>5. \A n \in Threads : ~ Asked(d, n)
    BY <2>0 DEF Asked
  <2>6. ASSUME NEW m \in Threads, NEW n \in Threads, n # a
        PROVE  Seen(m, n)' => Seen(m, n)
    <3>1. pc'[n] = pc[n] /\ i'[n] = i[n]
      BY <2>2, <2>6
    <3>2. QED
      BY <2>3, <2>4, <2>5, <3>1 DEF Seen
  <2>7. ASSUME NEW m \in Threads
        PROVE  Seen(m, a)' => Seen(m, a)
    <3>1. CASE m = d
      <4>1. Asked(m, a)' /\ rpc'[m] = "handle"
        BY <2>3, <3>1 DEF Asked
      <4>2. QED
        BY <4>1 DEF Seen
    <3>2. CASE m # d
      <4>1. m # a /\ (pc'[a] = "request" => m < i'[a]) => m < k
        <5>1. m \in Nat /\ RA!Nodes \in Nat /\ m < RA!Nodes
          BY NodesBelow
        <5>2. CASE k < RA!Nodes
          BY <2>0, <2>2, <5>2
        <5>3. CASE ~ (k < RA!Nodes)
          BY <5>1, <5>3
        <5>4. QED
          BY <5>2, <5>3
      <4>2. m < d + 1 => m < i[a]
        <5>1. m \in Nat /\ d \in Nat
          BY NodesBelow
        <5>2. QED
          BY <2>0, <3>2, <5>1
      <4>3. QED
        BY <2>1, <2>3, <2>4, <3>2, <4>1, <4>2 DEF Seen
    <3>3. QED
      BY <3>1, <3>2
  <2>8. ASSUME NEW m \in Threads, NEW n \in Threads
        PROVE  Ordered(m, n)'
    <3>1. Seen(m, n)' => Seen(m, n)
      BY <2>6, <2>7
    <3>2. QED
      BY <2>3, <2>4, <3>1, OrderKept DEF RAOrder
  <2>9. QED
    BY <2>8 DEF RAOrder
<1>6. ASSUME NEW a \in Threads, RA!Handle(a)
      PROVE  RAOrder'
  <2>0. PICK s \in Threads : s = msg[a].source /\ rpc[a] = "handle"
    BY <1>6 DEF RA!Handle
  <2>1. UNCHANGED <<pc, myNumber, requestCS, i>>
    BY <1>6 DEF RA!Handle, RA!loopvars
  <2>2. msg[a].number = myNumber[s] /\ myNumber[s] \in Nat /\ highestNum[a] \in Nat
    BY <2>0 DEF RAReplies
  <2>3. highestNum' = [highestNum EXCEPT ![a] =
                         IF myNumber[s] > highestNum[a] THEN myNumber[s] ELSE highestNum[a]]
    BY <1>6, <2>2 DEF RA!Handle
  <2>4. \/ /\ RA!Grants(a, msg[a])
           /\ rpc' = [rpc EXCEPT ![a] = "reply"] /\ UNCHANGED <<deferred, msg>>
        \/ /\ deferred' = [deferred EXCEPT ![a] = Append(@, s)]
           /\ rpc' = [rpc EXCEPT ![a] = "receive"]
           /\ msg' = [msg EXCEPT ![a] = RA!NoMessage]
    BY <1>6, <2>0 DEF RA!Handle
  <2>5. ASSUME NEW m \in Threads, m # a
        PROVE  /\ msg'[m] = msg[m] /\ rpc'[m] = rpc[m]
               /\ deferred'[m] = deferred[m] /\ highestNum'[m] = highestNum[m]
    <3>1. msg'[m] = msg[m] /\ rpc'[m] = rpc[m]
      BY <2>4, <2>5
    <3>2. deferred'[m] = deferred[m]
      BY <2>4, <2>5 DEF RAQueues
    <3>3. QED
      BY <2>3, <2>5, <3>1, <3>2
  <2>6. ASSUME NEW m \in Threads, m # a, NEW n \in Threads
        PROVE  Ordered(m, n)'
    <3>1. /\ Seen(m, n)' => Seen(m, n)
          /\ Postponed(m, n)' <=> Postponed(m, n)
      BY <2>1, <2>5, <2>6 DEF Seen, Asked, Postponed
    <3>2. QED
      BY <2>1, <2>5, <2>6, <3>1, OrderKept DEF RAOrder
  <2>7. /\ highestNum'[a] \in Nat
        /\ highestNum[a] <= highestNum'[a] /\ myNumber[s] <= highestNum'[a]
    BY <2>2, <2>3
  <2>8. /\ deferred[a] \in Seq(Threads)
        /\ \A n \in Threads : n # s => (Postponed(a, n)' <=> Postponed(a, n))
        /\ deferred' # deferred => Postponed(a, s)'
    <3>1. deferred[a] \in Seq(Threads)
      BY DEF RAQueues
    <3>2. \/ deferred' = deferred
          \/ deferred'[a] = Append(deferred[a], s)
      BY <2>4 DEF RAQueues
    <3>3. Queued(Append(deferred[a], s)) = Queued(deferred[a]) \cup {s}
      BY <3>1, AppendQueued
    <3>4. QED
      BY <3>1, <3>2, <3>3 DEF Postponed
  <2>9. ASSUME NEW n \in Threads, n # s
        PROVE  Ordered(a, n)'
    <3>1. Seen(a, n)' => Seen(a, n)
      BY <2>0, <2>1, <2>9 DEF Seen, Asked
    <3>2. Seen(a, n)' => myNumber'[n] <= highestNum'[a]
      <4>1. Seen(a, n) => myNumber[n] <= highestNum[a]
        BY DEF RAOrder, Ordered
      <4>2. myNumber[n] \in Nat /\ myNumber'[n] = myNumber[n]
        BY <2>1
      <4>3. QED
        BY <2>2, <2>7, <3>1, <4>1, <4>2
    <3>3. QED
      BY <2>1, <2>8, <2>9, <3>1, <3>2 DEF RAOrder, Ordered, Before
  <2>10. Ordered(a, s)'
    <3>1. myNumber'[s] <= highestNum'[a]
      BY <2>1, <2>7
    <3>2. requestCS'[a] /\ ~ Postponed(a, s)' => Before(s, a)'
      <4>1. CASE RA!Grants(a, msg[a])
        BY <2>0, <2>1, <2>2, <4>1 DEF RA!Grants, Before
      <4>2. CASE deferred' = [deferred EXCEPT ![a] = Append(@, s)]
        <5>1. deferred'[a] = Append(deferred[a], s)
          BY <4>2 DEF RAQueues
        <5>2. Queued(Append(deferred[a], s)) = Queued(deferred[a]) \cup {s}
          BY <2>8, AppendQueued
        <5>3. QED
          BY <5>1, <5>2 DEF Postponed
      <4>3. QED
        BY <2>4, <4>1, <4>2
    <3>3. QED
      BY <3>1, <3>2 DEF Ordered
  <2>11. QED
    BY <2>6, <2>9, <2>10 DEF RAOrder
<1>7. ASSUME NEW a \in Threads, RA!ReceiverReplies(a)
      PROVE  RAOrder'
  <2>0. PICK s \in Threads : s = msg[a].source
    OBVIOUS
  <2>1. /\ rpc[a] = "reply" /\ pc[s] = "replies"
        /\ i' = [i EXCEPT ![s] = (@ + 1) % (RA!Nodes - 1)]
        /\ pc' = [pc EXCEPT ![s] = RA!AfterReply(s)]
        /\ rpc' = [rpc EXCEPT ![a] = "receive"]
        /\ msg' = [msg EXCEPT ![a] = RA!NoMessage]
        /\ UNCHANGED <<myNumber, highestNum, requestCS, deferred>>
    BY <1>7, <2>0 DEF RA!ReceiverReplies, RA!GetReply, RA!Goto
  <2>2. \A n \in Threads : pc[n] = "request" => pc'[n] = "request" /\ i'[n] = i[n]
    BY <2>1
  <2>3. \A m, n \in Threads : Asked(m, n) => rpc[m] = "reply" \/ Asked(m, n)'
    BY <2>1 DEF Asked
  <2>4. \A m \in Threads : rpc'[m] = "reply" => rpc[m] = "reply"
    BY <2>1
  <2>5. \A m, n \in Threads : /\ Postponed(m, n)' <=> Postponed(m, n)
                              /\ Seen(m, n)' => Seen(m, n)
    BY <2>1, <2>2, <2>3, <2>4 DEF Postponed, Seen
  <2>6. QED
    BY <2>1, <2>5, OrderKept DEF RAOrder
<1>8. ASSUME NEW a \in Threads, RA!GrantDeferred(a)
      PROVE  RAOrder'
  <2>1. /\ deferred[a] \in Seq(Threads) /\ Len(deferred[a]) > 0
        /\ Distinct(deferred[a])
    BY <1>8 DEF RA!GrantDeferred, RAReplies, RAQueues, RAFlags
  <2>2. PICK s \in Threads : s = Head(deferred[a])
    BY <2>1, TailQueued, Zenon
  <2>3. /\ pc[a] = "grant" /\ pc[s] = "replies"
        /\ deferred' = [deferred EXCEPT ![a] = Tail(@)]
        /\ i' = [i EXCEPT ![a] = @ - 1, ![s] = (@ + 1) % (RA!Nodes - 1)]
        /\ pc' = [pc EXCEPT ![s] = RA!AfterReply(s),
                            ![a] = IF i[a] > 1 THEN "grant" ELSE RA!After(a)]
        /\ UNCHANGED <<rpc, msg, myNumber, highestNum, requestCS>>
    BY <1>8, <2>2 DEF RA!GrantDeferred
  <2>4. \A n \in Threads : pc[n] = "request" => pc'[n] = "request" /\ i'[n] = i[n]
    BY <2>3
  <2>5. \A m \in Threads : m # a => deferred'[m] = deferred[m]
    BY <2>3 DEF RAQueues
  <2>6. ~ requestCS'[a]
    BY <2>3 DEF RAFlags
  <2>7. ASSUME NEW m \in Threads, NEW n \in Threads
        PROVE  Ordered(m, n)'
    <3>1. Seen(m, n)' => Seen(m, n)
      BY <2>3, <2>4 DEF Seen, Asked
    <3>2. requestCS'[m] /\ ~ Postponed(m, n)' => requestCS[m] /\ ~ Postponed(m, n)
      BY <2>3, <2>5, <2>6 DEF Postponed
    <3>3. QED
      BY <2>3, <3>1, <3>2, OrderKept DEF RAOrder
  <2>8. QED
    BY <2>7 DEF RAOrder
<1>9. QED
  BY <1>2, <1>3, <1>4, <1>5, <1>6, <1>7, <1>8 DEF RA!Next, RA!Step, RA!Receiver

-----------------------------------------------------------------------------
(* What the invariants say of each program *)

\* What the run checks of token passing follows from its invariant.
LEMMA TPSafe ==
  TPInv => /\ TP!MutualExclusion /\ TP!OneToken
           /\ TP!TokenIsExpected /\ TP!TableIsNewest
<1> SUFFICES ASSUME TPInv
             PROVE  /\ TP!MutualExclusion /\ TP!OneToken
                    /\ TP!TokenIsExpected /\ TP!TableIsNewest
  OBVIOUS
<1>1. TPType /\ TPFlags /\ TPTable /\ TP!TokenIsExpected
  BY DEF TPInv
<1>2. TP!MutualExclusion
  BY <1>1 DEF TP!MutualExclusion, TPFlags, Holder
<1>3. TP!OneToken
  <2>1. PICK n \in Threads : Holder(n)
    BY <1>1 DEF TPFlags
  <2>2. \A m \in Threads : Holder(m) => m = n
    BY <1>1, <2>1 DEF TPFlags
  <2>3. {m \in Threads : haveToken[m]} \cup {m \in Threads : pc[m] = "token"} = {n}
    BY <2>1, <2>2 DEF Holder
  <2>4. QED
    BY <2>3 DEF TP!OneToken
<1>4. TP!TableIsNewest
  BY <1>1 DEF TP!TableIsNewest, TPTable, Holder
<1>5. QED
  BY <1>1, <1>2, <1>3, <1>4

\* What the run checks of Neilsen-Mizuno follows from its invariant.
LEMMA NMSafe ==
  NMInv => /\ NM!MutualExclusion /\ NM!OneToken
           /\ NM!TokenIsExpected /\ NM!ParentsAcyclic
<1> SUFFICES ASSUME NMInv
             PROVE  /\ NM!MutualExclusion /\ NM!OneToken
                    /\ NM!TokenIsExpected /\ NM!ParentsAcyclic
  OBVIOUS
<1>1. /\ NMType /\ NMToken /\ NMRequests /\ NMTree
      /\ 0 \in TreeNodes /\ TreeNodes \subseteq Nat
  BY NodesAssumption DEF NMInv
<1>2. NM!MutualExclusion
  BY <1>1 DEF NM!MutualExclusion, NMToken, Owns
<1>3. NM!OneToken
  <2>1. PICK n \in TreeNodes : Owns(n)
    BY <1>1 DEF NMToken
  <2>2. \A m \in TreeNodes : Owns(m) => m = n
    BY <1>1, <2>1 DEF NMToken
  <2>3. {m \in TreeNodes : holding[m]} \cup {m \in TreeNodes : NM!Inside(m)} = {n}
    BY <2>1, <2>2 DEF Owns
  <2>4. QED
    BY <2>3 DEF NM!OneToken
<1>4. NM!TokenIsExpected
  <2>1. \A n \in TreeNodes : deferred[n] # NM!None => deferred[n] \in TreeNodes
    BY <1>1 DEF NMType, NMNodes
  <2>2. ASSUME NEW n \in TreeNodes
        PROVE  /\ deferred[n] # NM!None => pc[deferred[n]] = "await"
               /\ rpc[n] = "reply" => pc[msg[n].originator] = "await"
    <3>1. \A s \in TreeNodes : deferred[n] = s => pc[s] = "await"
      BY <1>1 DEF NMRequests, Defers
    <3>2. rpc[n] = "reply" => /\ msg[n].originator \in TreeNodes
                              /\ Handles(n, msg[n].originator)
      BY <1>1 DEF NMRequests, Handles
    <3>3. \A s \in TreeNodes : Handles(n, s) => pc[s] = "await"
      BY <1>1 DEF NMRequests
    <3>4. QED
      BY <2>1, <3>1, <3>2, <3>3
  <2>3. QED
    BY <2>2 DEF NM!TokenIsExpected
<1>5. NM!ParentsAcyclic
  <2>1. SUFFICES ASSUME NEW S \in SUBSET TreeNodes, S # {}
                 PROVE  \E n \in S : parent[n] \notin S
    BY DEF NM!ParentsAcyclic
  <2>2. /\ NM!None \notin TreeNodes
        /\ \A n \in TreeNodes \ {0} : parent[n] \in {0, NM!None}
        /\ parent[0] # 0
    BY <1>1 DEF NM!None, NMTree
  <2>3. CASE 0 \in S /\ parent[0] \in S
    <3>1. parent[0] \in TreeNodes \ {0} /\ parent[parent[0]] # 0
      BY <1>1, <2>2, <2>3 DEF NMTree, EdgeUp, EdgeDown
    <3>2. parent[parent[0]] = NM!None
      BY <2>2, <3>1
    <3>3. QED
      BY <2>2, <2>3, <3>2
  <2>4. CASE 0 \in S /\ parent[0] \notin S
    BY <2>4
  <2>5. CASE 0 \notin S
    BY <2>1, <2>2, <2>5
  <2>6. QED
    BY <2>3, <2>4, <2>5
<1>6. QED
  BY <1>2, <1>3, <1>4, <1>5

\* The node inside has all its answers, so that it comes before every other
\* one that is requesting; two could not both come first.
LEMMA RASafe ==
  RAInv => /\ RA!MutualExclusion /\ RA!SmallestFirst
           /\ RA!DeferredFits /\ RA!DeferredStillWait
<1> SUFFICES ASSUME RAInv
             PROVE  /\ RA!MutualExclusion /\ RA!SmallestFirst
                    /\ RA!DeferredFits /\ RA!DeferredStillWait
  OBVIOUS
<1>0. /\ RAType /\ RAQueues /\ RAFlags /\ RAReplies /\ RAOrder
      /\ Threads \subseteq Nat
  BY NodesAssumption DEF RAInv
<1>1. ASSUME NEW n \in Threads, RA!Inside(n), NEW m \in Threads, m # n, requestCS[m]
      PROVE  Before(n, m)
  <2>1. requestCS[n] /\ pc[n] \notin {"request", "replies"}
    BY <1>0, <1>1 DEF RA!Inside, RAFlags
  <2>2. ~ Asked(m, n) /\ ~ Postponed(m, n)
    BY <1>0, <2>1 DEF RAReplies, Account, Owing
  <2>3. Seen(m, n)
    BY <1>1, <2>1, <2>2 DEF Seen
  <2>4. QED
    BY <1>0, <1>1, <2>2, <2>3 DEF RAOrder, Ordered
<1>2. RA!SmallestFirst
  BY <1>1 DEF RA!SmallestFirst, Before
<1>3. RA!MutualExclusion
  <2>1. SUFFICES ASSUME NEW m \in Threads, NEW n \in Threads,
                        RA!Inside(m), RA!Inside(n), m # n
                 PROVE  FALSE
    BY DEF RA!MutualExclusion
  <2>2. requestCS[m] /\ requestCS[n]
    BY <1>0, <2>1 DEF RA!Inside, RAFlags
  <2>3. Before(n, m) /\ Before(m, n)
    BY <1>1, <2>1, <2>2
  <2>4. myNumber[m] \in Nat /\ myNumber[n] \in Nat /\ m \in Nat /\ n \in Nat
    BY <1>0 DEF RAType
  <2>5. QED
    BY <2>3, <2>4 DEF Before
<1>4. RA!DeferredFits
  <2>1. SUFFICES ASSUME NEW n \in Threads
                 PROVE  Len(deferred[n]) < RA!Nodes
    BY DEF RA!DeferredFits
  <2>2. deferred[n] \in Seq(Threads) /\ Distinct(deferred[n]) /\ n \notin Queued(deferred[n])
    BY <1>0 DEF RAQueues, RAReplies, Account, Owing, Postponed
  <2>3. QED
    BY <2>2, QueueFits
<1>5. RA!DeferredStillWait
  <2>1. SUFFICES ASSUME NEW n \in Threads, NEW k \in 1 .. Len(deferred[n])
                 PROVE  pc[deferred[n][k]] \in {"request", "replies"}
    BY DEF RA!DeferredStillWait
  <2>2. deferred[n][k] \in Threads /\ Postponed(n, deferred[n][k])
    BY <1>0 DEF RAQueues, Postponed, Queued
  <2>3. QED
    BY <1>0, <2>2 DEF RAReplies, Account, Owing
<1>6. QED
  BY <1>2, <1>3, <1>4, <1>5

-----------------------------------------------------------------------------
(* The program that the initial state chooses *)

DInv == \/ program = "ricart_agrawala" /\ RAInv
        \/ program = "token_passing" /\ TPInv
        \/ program = "neilsen_mizuno" /\ NMInv

\* The initial states of the three programs.
LEMMA DInvInit == MCInit => DInv
BY RAInit, TPInit, NMInit DEF MCInit, DInv

\* The steps of the three programs; none touches the variables of another.
LEMMA DInvStep == DInv /\ [MCNext]_mcvars => DInv'
<1> SUFFICES ASSUME DInv, [MCNext]_mcvars
             PROVE  DInv'
  OBVIOUS
<1>1. CASE UNCHANGED mcvars
  <2>1. /\ UNCHANGED program
        /\ UNCHANGED RA!vars /\ UNCHANGED TP!vars /\ UNCHANGED NM!vars
    BY <1>1 DEF mcvars, shared, loopvars, raOnly, tpOnly, nmOnly,
                RA!vars, RA!nodevars, RA!loopvars, TP!vars, TP!nodevars,
                TP!loopvars, NM!vars, NM!nodevars, NM!loopvars
  <2>2. RAInv => RAInv'
    BY <2>1, RATypeStep, RAFlagsStep, RARepliesStep, RAOrderStep DEF RAInv
  <2>3. TPInv => TPInv'
    BY <2>1, TPTypeStep, TPFlagsStep, TPRequestsStep, TPTableStep, TPExpectedStep
    DEF TPInv
  <2>4. NMInv => NMInv'
    BY <2>1, NMTypeStep, NMMutexStep, NMTokenStep, NMRootsStep, NMRequestsStep,
       NMTreeStep DEF NMInv
  <2>5. QED
    BY <2>1, <2>2, <2>3, <2>4 DEF DInv
<1>2. CASE RAFrame /\ RA!Next
  <2>1. program = "ricart_agrawala" /\ program' = program /\ RA!Next
    BY <1>2 DEF RAFrame
  <2>2. RAInv
    BY <2>1 DEF DInv
  <2>3. RAInv'
    BY <2>1, <2>2, RATypeStep, RAFlagsStep, RARepliesStep, RAOrderStep DEF RAInv
  <2>4. QED
    BY <2>1, <2>3 DEF DInv
<1>3. CASE TPFrame /\ TP!Next
  <2>1. program = "token_passing" /\ program' = program /\ TP!Next
    BY <1>3 DEF TPFrame
  <2>2. TPInv
    BY <2>1 DEF DInv
  <2>3. TPInv'
    BY <2>1, <2>2, TPTypeStep, TPFlagsStep, TPRequestsStep, TPTableStep, TPExpectedStep
    DEF TPInv
  <2>4. QED
    BY <2>1, <2>3 DEF DInv
<1>4. CASE NMFrame /\ NM!Next
  <2>1. program = "neilsen_mizuno" /\ program' = program /\ NM!Next
    BY <1>4 DEF NMFrame
  <2>2. NMInv
    BY <2>1 DEF DInv
  <2>3. NMInv'
    BY <2>1, <2>2, NMTypeStep, NMMutexStep, NMTokenStep, NMRootsStep, NMRequestsStep,
       NMTreeStep DEF NMInv
  <2>4. QED
    BY <2>1, <2>3 DEF DInv
<1>5. QED
  BY <1>1, <1>2, <1>3, <1>4 DEF MCNext

\* Whichever program runs, its inductive invariant holds in every state.
THEOREM DistributedInvariant == MCSpec => []DInv
<1>1. MCInit => DInv
  BY DInvInit
<1>2. DInv /\ [MCNext]_mcvars => DInv'
  BY DInvStep
<1>3. QED
  BY <1>1, <1>2, PTL DEF MCSpec

\* channels/distributed/*.go: in each of the three programs at most one node is
\* between lock() and unlock(), whatever the number of nodes and of increments,
\* and the token of the two that have one is neither lost nor duplicated.
THEOREM OneNodeInsideHolds == MCSpec => []OneNodeInside
<1>1. DInv => OneNodeInside
  BY RASafe, TPSafe, NMSafe DEF DInv, OneNodeInside
<1>2. QED
  BY <1>1, DistributedInvariant, PTL

\* mutex_ricart_agrawala.go: the node inside has the smallest (number, id) of
\* those that request, the channel of deferred replies never fills up, and every
\* deferred reply is owed to a node that waits for it.
THEOREM RequestsAreOrderedHolds == MCSpec => []RequestsAreOrdered
<1>1. DInv => RequestsAreOrdered
  BY RASafe DEF DInv, RequestsAreOrdered
<1>2. QED
  BY <1>1, DistributedInvariant, PTL

\* mutex_token_passing.go, mutex_neilsen_mizuno.go: the token is sent only to a
\* node that waits for it, and the table that travels with it is the newest.
THEOREM TokenSentToWaiterHolds == MCSpec => []TokenSentToWaiter
<1>1. DInv => TokenSentToWaiter
  BY TPSafe, NMSafe DEF DInv, TokenSentToWaiter
<1>2. QED
  BY <1>1, DistributedInvariant, PTL

\* mutex_neilsen_mizuno.go: the parent pointers never form a cycle, not even
\* while requests reverse them.
THEOREM ParentsFormForestHolds == MCSpec => []ParentsFormForest
<1>1. DInv => ParentsFormForest
  BY NMSafe DEF DInv, ParentsFormForest
<1>2. QED
  BY <1>1, DistributedInvariant, PTL
=============================================================================
