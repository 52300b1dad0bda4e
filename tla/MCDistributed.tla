--------------------------- MODULE MCDistributed ---------------------------
(***************************************************************************)
(* The three distributed mutexes of channels/distributed/, for TLC: the    *)
(* initial state chooses the program.                                      *)
(***************************************************************************)
EXTENDS CountLoop

CONSTANT
  TreeNodes   \* the nodes of the Neilsen-Mizuno program, Threads those of the others

\* main numbers its nodes from 0, and node 0 starts with the token.
ASSUME NodesAssumption ==
  /\ Cardinality(Threads) \in Nat \ {0, 1}
  /\ Threads = 0 .. Cardinality(Threads) - 1
  /\ 0 \in TreeNodes /\ TreeNodes \subseteq Nat

VARIABLES
  program,         \* the program that runs
  rpc, msg,        \* the receivers, in all three
  i, myNumber,     \* RicartAgrawala and TokenPassing
  deferred,        \* RicartAgrawala and NeilsenMizuno
  highestNum, requestCS,                        \* RicartAgrawala
  requested, granted, haveToken, inCS, target,  \* TokenPassing
  mutex, parent, holding                        \* NeilsenMizuno

raOnly == <<highestNum, requestCS>>
tpOnly == <<requested, granted, haveToken, inCS, target>>
nmOnly == <<mutex, parent, holding>>
shared == <<loopvars, rpc, msg>>
mcvars == <<shared, i, myNumber, deferred, raOnly, tpOnly, nmOnly, program>>

RA == INSTANCE RicartAgrawala
TP == INSTANCE TokenPassing

NM == INSTANCE NeilsenMizuno WITH Threads <- TreeNodes

MCInit ==
  \/ /\ program = "ricart_agrawala" /\ RA!Init
     /\ requested = <<>> /\ granted = <<>> /\ haveToken = <<>> /\ inCS = <<>>
     /\ target = <<>> /\ mutex = <<>> /\ parent = <<>> /\ holding = <<>>
  \/ /\ program = "token_passing" /\ TP!Init
     /\ deferred = <<>> /\ highestNum = <<>> /\ requestCS = <<>>
     /\ mutex = <<>> /\ parent = <<>> /\ holding = <<>>
  \/ /\ program = "neilsen_mizuno" /\ NM!Init
     /\ i = <<>> /\ myNumber = <<>> /\ highestNum = <<>> /\ requestCS = <<>>
     /\ requested = <<>> /\ granted = <<>> /\ haveToken = <<>> /\ inCS = <<>>
     /\ target = <<>>

RAFrame == program = "ricart_agrawala" /\ UNCHANGED <<program, tpOnly, nmOnly>>
TPFrame == program = "token_passing"
             /\ UNCHANGED <<program, deferred, raOnly, nmOnly>>
NMFrame == program = "neilsen_mizuno"
             /\ UNCHANGED <<program, i, myNumber, raOnly, tpOnly>>

MCNext == \/ RAFrame /\ RA!Next
          \/ TPFrame /\ TP!Next
          \/ NMFrame /\ NM!Next

\* A step of the locking goroutine, or of the receiver, of node n.
MCStep(n) == \/ RAFrame /\ n \in Threads /\ RA!Step(n)
             \/ TPFrame /\ n \in Threads /\ TP!Step(n)
             \/ NMFrame /\ n \in TreeNodes /\ NM!Step(n)

MCReceiver(n) == \/ RAFrame /\ n \in Threads /\ RA!Receiver(n)
                 \/ TPFrame /\ n \in Threads /\ TP!Receiver(n)
                 \/ NMFrame /\ n \in TreeNodes /\ NM!Receiver(n)

\* The Go scheduler runs every goroutine that can run.
MCSpec == /\ MCInit /\ [][MCNext]_mcvars
          /\ \A n \in Threads \cup TreeNodes : WF_mcvars(MCStep(n)) /\ WF_mcvars(MCReceiver(n))

-----------------------------------------------------------------------------

\* At most one node of the program is between lock() and unlock(), and in
\* both token algorithms the token is neither lost nor duplicated.
OneNodeInside ==
  \/ program = "ricart_agrawala" /\ RA!MutualExclusion
  \/ program = "token_passing" /\ TP!MutualExclusion /\ TP!OneToken
  \/ program = "neilsen_mizuno" /\ NM!MutualExclusion /\ NM!OneToken

\* Ricart-Agrawala: the node inside has the smallest (number, id) requested;
\* the channel of deferred replies never fills up, and each deferred reply is
\* owed to a node that waits for it.
RequestsAreOrdered ==
  program = "ricart_agrawala" =>
    RA!SmallestFirst /\ RA!DeferredFits /\ RA!DeferredStillWait

\* Both token algorithms: whoever blocks to send the token, with its mutex
\* held, sends it to a node that waits for it or is about to; the table of
\* grants that travels with the token is the newest one.
TokenSentToWaiter ==
  /\ program = "token_passing" => TP!TokenIsExpected /\ TP!TableIsNewest
  /\ program = "neilsen_mizuno" => NM!TokenIsExpected

\* Neilsen-Mizuno: the parent pointers never form a cycle.
ParentsFormForest == program = "neilsen_mizuno" => NM!ParentsAcyclic

\* Every node of the program ends and the counter has the value main expects.
EveryNodeEnds == <>(/\ \A n \in DOMAIN pc : pc[n] = "done"
                    /\ counter = Cardinality(DOMAIN pc) * Max)
=============================================================================
