----------------------------- MODULE LifoStack -----------------------------
(***************************************************************************)
(* What the concurrent stacks of hardware/ promise: push() and pop() take  *)
(* effect at one instant each, a node is in one list or belongs to one     *)
(* thread, and pop() removes the node that was pushed last.                *)
(***************************************************************************)
EXTENDS Naturals, Sequences

CONSTANTS Threads, Nodes, NULL, Lists

VARIABLES
  list,      \* list[l]: the nodes of l, the top first
  owner      \* owner[t]: the node that belongs to t, or NULL

Owned == {owner[t] : t \in Threads}
Listed == {n \in Nodes : \E l \in Lists : \E i \in DOMAIN list[l] : list[l][i] = n}

Push(t, l) == /\ owner[t] \in Nodes \ Listed
              /\ list' = [list EXCEPT ![l] = <<owner[t]>> \o @]
              /\ owner' = [owner EXCEPT ![t] = NULL]

Pop(t, l) == /\ owner[t] = NULL /\ list[l] # <<>>
             /\ owner' = [owner EXCEPT ![t] = Head(list[l])]
             /\ list' = [list EXCEPT ![l] = Tail(@)]

Malloc(t) == /\ owner[t] = NULL
             /\ \E n \in Nodes \ (Owned \cup Listed) : owner' = [owner EXCEPT ![t] = n]
             /\ UNCHANGED list

Next == \E t \in Threads : \/ Malloc(t)
                           \/ \E l \in Lists : Push(t, l) \/ Pop(t, l)
=============================================================================
