------------------------------ MODULE Queue ------------------------------
(***************************************************************************)
(* The doubly-linked queue of valws379 (queue.c), as operators on its      *)
(* value: size, head and tail, and the nodes that are allocated.  head is  *)
(* the newest node; a node's own head points to the next newer one, its    *)
(* tail to the next older one.                                             *)
(***************************************************************************)
EXTENDS Integers, FiniteSets

NULL == 0

new_queue == [size |-> 0, head |-> NULL, tail |-> NULL, nodes |-> << >>]

(* malloc() may return an address that was freed: the lowest that is free. *)
new_node(q) ==
    CHOOSE n \in 1..Cardinality(DOMAIN q.nodes) + 1 :
        /\ n \notin DOMAIN q.nodes
        /\ 1..n - 1 \subseteq DOMAIN q.nodes

WithNode(q, n, value) ==
    [x \in DOMAIN q.nodes \cup {n} |->
        IF x = n THEN [value |-> value, head |-> NULL, tail |-> NULL]
                 ELSE q.nodes[x]]

enqueue(q, value) ==
    LET n == new_node(q)
        nodes == WithNode(q, n, value)
    IN IF q.head = NULL
         THEN [size |-> q.size + 1, head |-> n, tail |-> n, nodes |-> nodes]
         ELSE [size |-> q.size + 1, head |-> n, tail |-> q.tail,
               nodes |-> [nodes EXCEPT ![q.head].head = n, ![n].tail = q.head]]

(* What dequeue() returns, and what it leaves, of a queue that is not empty*)
oldest(q) == q.nodes[q.tail].value

destroy_node(q, n) == [x \in DOMAIN q.nodes \ {n} |-> q.nodes[x]]

(* Mutant: the link to the freed node stays.                               *)
dequeuedDangling(q) ==
    LET newTail == IF q.size = 1 THEN NULL ELSE q.nodes[q.tail].head
    IN [size |-> q.size - 1, head |-> IF q.size = 1 THEN NULL ELSE q.head,
        tail |-> newTail, nodes |-> destroy_node(q, q.tail)]

dequeued(q) ==
    IF q.size = 1
      THEN [size |-> 0, head |-> NULL, tail |-> NULL, nodes |-> destroy_node(q, q.tail)]
      ELSE LET tail == q.nodes[q.tail].head
           IN [size |-> q.size - 1, head |-> q.head, tail |-> tail,
               nodes |-> [destroy_node(q, q.tail) EXCEPT ![tail].tail = NULL]]

destroy_queue(q) ==
    LET left[n \in 0..q.size] == IF n = q.size THEN q ELSE dequeued(left[n + 1])
    IN left[0]

---------------------------------------------------------------------------
(* The values in the queue, the oldest first, along the links from tail.   *)
Values(q) ==
    LET at[i \in 1..q.size] == IF i = 1 THEN q.tail ELSE q.nodes[at[i - 1]].head
    IN [i \in 1..q.size |-> q.nodes[at[i]].value]

(* The nodes are linked both ways, from tail to head and back, with NULL   *)
(* beyond either end, and none is allocated that is not linked.            *)
Linked(q) ==
    /\ q.size = Cardinality(DOMAIN q.nodes)
    /\ q.size = 0 => q.head = NULL /\ q.tail = NULL
    /\ q.size > 0 =>
          /\ {q.head, q.tail} \subseteq DOMAIN q.nodes
          /\ q.nodes[q.head].head = NULL /\ q.nodes[q.tail].tail = NULL
          /\ \A n \in DOMAIN q.nodes :
                /\ n # q.head => /\ q.nodes[n].head \in DOMAIN q.nodes
                                 /\ q.nodes[q.nodes[n].head].tail = n
                /\ n # q.tail => /\ q.nodes[n].tail \in DOMAIN q.nodes
                                 /\ q.nodes[q.nodes[n].tail].head = n
==========================================================================
