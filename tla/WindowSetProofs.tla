-------------------------- MODULE WindowSetProofs --------------------------
(***************************************************************************)
(* The window set, proved for every trace, window and table: first of the  *)
(* queue, that it holds what was put into it and not yet taken out, link   *)
(* by link; then of the table, that it has what the window refers to but   *)
(* for dropped keys, and counts it, and the keys dropped; then of both.    *)
(***************************************************************************)
EXTENDS WindowSet, HashTableProofs, SequenceTheorems

(* The queue holds vals, the oldest first, in the nodes along path.        *)
HoldsAlong(q, path, vals) ==
    /\ q.size = Len(vals)
    /\ path \in [1..Len(vals) -> Nat \ {0}]
    /\ \A i, j \in 1..Len(vals) : path[i] = path[j] => i = j
    /\ DOMAIN q.nodes = {path[i] : i \in 1..Len(vals)}
    /\ q.nodes = [x \in DOMAIN q.nodes |-> q.nodes[x]]
    /\ \A i \in 1..Len(vals) :
          q.nodes[path[i]] = [value |-> vals[i],
                              head |-> IF i = Len(vals) THEN NULL ELSE path[i + 1],
                              tail |-> IF i = 1 THEN NULL ELSE path[i - 1]]
    /\ q.tail = IF Len(vals) = 0 THEN NULL ELSE path[1]
    /\ q.head = IF Len(vals) = 0 THEN NULL ELSE path[Len(vals)]

Holds(q, vals) == \E path : HoldsAlong(q, path, vals)

---------------------------------------------------------------------------
(* The queue                                                               *)

(* The numbers of the nodes of a queue are few enough to leave one free.   *)
LEMMA NodeNumbers ==
    ASSUME NEW q, NEW path, NEW vals, HoldsAlong(q, path, vals), Len(vals) \in Nat
    PROVE  /\ IsFiniteSet(DOMAIN q.nodes) /\ Cardinality(DOMAIN q.nodes) = Len(vals)
           /\ DOMAIN q.nodes \subseteq Nat \ {0}
<1>1. PICK n \in Nat : n = Len(vals)
  OBVIOUS
<1>2. /\ path \in [1..n -> Nat \ {0}] /\ DOMAIN q.nodes = {path[i] : i \in 1..n}
      /\ \A i, j \in 1..n : path[i] = path[j] => i = j
  BY <1>1 DEF HoldsAlong
<1>3. IsFiniteSet(1..n) /\ Cardinality(1..n) = n
  <2>1. 1 \in Int /\ n \in Int
    OBVIOUS
  <2>2. IsFiniteSet(1..n) /\ Cardinality(1..n) = IF 1 > n THEN 0 ELSE n - 1 + 1
    BY <2>1, FS_Interval
  <2>3. (IF 1 > n THEN 0 ELSE n - 1 + 1) = n
    BY ONLY n \in Nat
  <2>4. QED
    BY <2>2, <2>3
<1>4. path \in Bijection(1..n, DOMAIN q.nodes)
  BY <1>2 DEF Bijection, Injection, Surjection, IsInjective
<1>5. ExistsBijection(1..n, DOMAIN q.nodes)
  BY <1>4 DEF ExistsBijection
<1>6. IsFiniteSet(DOMAIN q.nodes) /\ Cardinality(DOMAIN q.nodes) = n
  BY <1>3, <1>5, FS_Bijection
<1>7. QED
  BY <1>1, <1>2, <1>6

(* A node that is allocated is not one of the queue's.                     *)
LEMMA NewNodeIsNew ==
    ASSUME NEW q, NEW path, NEW vals, HoldsAlong(q, path, vals), Len(vals) \in Nat
    PROVE  new_node(q) \in Nat \ {0} /\ new_node(q) \notin DOMAIN q.nodes
<1>1. PICK n \in Nat : n = Len(vals)
  OBVIOUS
<1>2. /\ IsFiniteSet(DOMAIN q.nodes) /\ Cardinality(DOMAIN q.nodes) = n
      /\ DOMAIN q.nodes \subseteq Nat \ {0}
  BY <1>1, NodeNumbers
<1> DEFINE free == (1..n + 1) \ DOMAIN q.nodes
<1>3. free # {}
  <2>1. SUFFICES ASSUME 1..n + 1 \subseteq DOMAIN q.nodes
                 PROVE  FALSE
    OBVIOUS
  <2>2. 1 \in Int /\ n + 1 \in Int /\ ~(1 > n + 1)
    OBVIOUS
  <2>3. Cardinality(1..n + 1) = (n + 1) - 1 + 1
    BY <2>2, FS_Interval
  <2>4. Cardinality(1..n + 1) <= n
    BY <1>2, <2>1, FS_Subset
  <2>5. QED
    BY <2>3, <2>4
<1>4. free \subseteq Nat
  OBVIOUS
<1>5. PICK m \in free : \A k \in free : m <= k
  <2> HIDE DEF free
  <2>1. QED
    BY <1>3, <1>4, LeastNatural
<1>6. 1..m - 1 \subseteq DOMAIN q.nodes
  <2>1. SUFFICES ASSUME NEW k \in 1..m - 1, k \notin DOMAIN q.nodes
                 PROVE  FALSE
    OBVIOUS
  <2>2. m \in 1..n + 1 /\ k \in 1..n + 1 /\ ~(m <= k)
    OBVIOUS
  <2>3. k \in free
    BY <2>1, <2>2
  <2>4. QED
    BY <1>5, <2>2, <2>3
<1>7. m \in 1..Cardinality(DOMAIN q.nodes) + 1 /\ m \notin DOMAIN q.nodes
  BY <1>2
<1>8. /\ new_node(q) \in 1..Cardinality(DOMAIN q.nodes) + 1
      /\ new_node(q) \notin DOMAIN q.nodes
  <2> HIDE DEF free
  <2>1. \E k \in 1..Cardinality(DOMAIN q.nodes) + 1 :
           /\ k \notin DOMAIN q.nodes
           /\ 1..k - 1 \subseteq DOMAIN q.nodes
    BY <1>6, <1>7
  <2>2. QED
    BY <2>1 DEF new_node
<1>9. QED
  BY <1>2, <1>8

(* enqueue() puts the value behind the others.                             *)
LEMMA EnqueueHolds ==
    ASSUME NEW q, NEW V, NEW vals \in Seq(V), Holds(q, vals), NEW value \in V
    PROVE  Holds(enqueue(q, value), Append(vals, value))
<1>1. PICK path : HoldsAlong(q, path, vals)
  BY DEF Holds
<1>2. PICK n \in Nat : n = Len(vals)
  BY LenProperties
<1>3. /\ Len(Append(vals, value)) = n + 1 /\ Append(vals, value)[n + 1] = value
      /\ \A i \in 1..n : Append(vals, value)[i] = vals[i]
  BY <1>2, AppendProperties
<1> DEFINE new == new_node(q)
           D == DOMAIN q.nodes
           path2 == [i \in 1..n + 1 |-> IF i = n + 1 THEN new ELSE path[i]]
           q2 == enqueue(q, value)
<1>4. new \in Nat \ {0} /\ new \notin D
  BY <1>1, <1>2, NewNodeIsNew
<1> HIDE DEF new
<1>5. /\ q.size = n /\ path \in [1..n -> Nat \ {0}] /\ D = {path[i] : i \in 1..n}
      /\ \A i, j \in 1..n : path[i] = path[j] => i = j
      /\ \A i \in 1..n :
            q.nodes[path[i]] = [value |-> vals[i],
                                head |-> IF i = n THEN NULL ELSE path[i + 1],
                                tail |-> IF i = 1 THEN NULL ELSE path[i - 1]]
      /\ q.tail = IF n = 0 THEN NULL ELSE path[1]
      /\ q.head = IF n = 0 THEN NULL ELSE path[n]
  BY <1>1, <1>2 DEF HoldsAlong
<1>6. (\A i \in 1..n : path2[i] = path[i] /\ path2[i] \in D /\ path2[i] # new) /\ path2[n + 1] = new
  <2>1. \A i \in 1..n : i \in 1..n + 1 /\ i # n + 1
    OBVIOUS
  <2>2. QED
    BY <1>4, <1>5, <2>1
<1>7. path2 \in [1..n + 1 -> Nat \ {0}]
  <2>1. \A i \in 1..n + 1 : i = n + 1 \/ i \in 1..n
    OBVIOUS
  <2>2. QED
    BY <1>4, <1>5, <2>1
<1>8. \A i \in 1..n + 1 : i = n + 1 \/ i \in 1..n
  OBVIOUS
<1> HIDE DEF path2
<1>9. \A i, j \in 1..n + 1 : path2[i] = path2[j] => i = j
  <2>1. ASSUME NEW i \in 1..n + 1, NEW j \in 1..n + 1, path2[i] = path2[j]
        PROVE  i = j
    <3>1. CASE i \in 1..n /\ j \in 1..n
      <4>1. path[i] = path[j]
        BY <1>6, <2>1, <3>1
      <4>2. QED
        BY <1>5, <3>1, <4>1
    <3>2. CASE i = n + 1 /\ j \in 1..n
      BY <1>6, <2>1, <3>2
    <3>3. CASE i \in 1..n /\ j = n + 1
      BY <1>6, <2>1, <3>3
    <3>4. CASE i = n + 1 /\ j = n + 1
      BY <3>4
    <3>5. QED
      BY <1>8, <3>1, <3>2, <3>3, <3>4
  <2>2. QED
    BY <2>1
<1>10. D \cup {new} = {path2[i] : i \in 1..n + 1}
  <2>1. \A i \in 1..n : i \in 1..n + 1
    OBVIOUS
  <2>2. n + 1 \in 1..n + 1
    OBVIOUS
  <2>3. ASSUME NEW x \in D \cup {new}
        PROVE  x \in {path2[i] : i \in 1..n + 1}
    <3>1. CASE x \in D
      <4>1. PICK i \in 1..n : x = path[i]
        BY <1>5, <3>1
      <4>2. i \in 1..n + 1 /\ x = path2[i]
        BY <1>6, <2>1, <4>1
      <4>3. QED
        BY <4>2
    <3>2. CASE x = new
      BY <1>6, <2>2, <3>2
    <3>3. QED
      BY <3>1, <3>2
  <2>4. ASSUME NEW i \in 1..n + 1
        PROVE  path2[i] \in D \cup {new}
    BY <1>6, <1>8
  <2>5. QED
    BY <2>3, <2>4
<1>11. /\ q2.size = n + 1 /\ q2.head = new
       /\ q2.tail = IF n = 0 THEN new ELSE path[1]
       /\ DOMAIN q2.nodes = D \cup {new}
       /\ q2.nodes[new] = [value |-> value, head |-> NULL,
                           tail |-> IF n = 0 THEN NULL ELSE path[n]]
       /\ \A x \in D : q2.nodes[x] =
             IF n # 0 /\ x = path[n] THEN [q.nodes[x] EXCEPT !.head = new] ELSE q.nodes[x]
  <2>1. CASE n = 0
    <3>1. q.head = NULL
      BY <1>5, <2>1
    <3>2. q2 = [size |-> n + 1, head |-> new, tail |-> new, nodes |-> WithNode(q, new, value)]
      BY <1>5, <3>1 DEF enqueue, new
    <3>3. QED
      BY <1>4, <2>1, <3>2 DEF WithNode
  <2>2. CASE n # 0
    <3>1. n \in 1..n
      BY <2>2
    <3>2. q.head = path[n] /\ path[n] \in Nat \ {0} /\ path[n] \in D /\ q.tail = path[1]
      BY <1>5, <2>2, <3>1
    <3>3. path[n] # NULL
      BY <3>2 DEF NULL
    <3>4. q2 = [size |-> n + 1, head |-> new, tail |-> q.tail,
                nodes |-> [WithNode(q, new, value) EXCEPT ![path[n]].head = new,
                                                          ![new].tail = path[n]]]
      BY <1>5, <3>2, <3>3 DEF enqueue, new
    <3> DEFINE w == WithNode(q, new, value)
    <3>5. /\ DOMAIN w = D \cup {new}
          /\ w[new] = [value |-> value, head |-> NULL, tail |-> NULL]
          /\ \A x \in D : w[x] = q.nodes[x]
      BY <1>4 DEF WithNode
    <3> HIDE DEF w
    <3>6. path[n] \in DOMAIN w /\ new \in DOMAIN w /\ path[n] # new
      BY <1>4, <3>2, <3>5
    <3>7. /\ DOMAIN q2.nodes = DOMAIN w
          /\ q2.nodes[new] = [w[new] EXCEPT !.tail = path[n]]
          /\ q2.nodes[path[n]] = [w[path[n]] EXCEPT !.head = new]
          /\ \A x \in D : x # path[n] => q2.nodes[x] = w[x]
      <4>1. q2.nodes = [w EXCEPT ![path[n]].head = new, ![new].tail = path[n]]
        BY <3>4 DEF w
      <4>2. \A x \in D : x \in DOMAIN w /\ x # new
        BY <1>4, <3>5
      <4> HIDE DEF q2
      <4>3. QED
        BY <3>6, <4>1, <4>2
    <3>8. q2.size = n + 1 /\ q2.head = new /\ q2.tail = path[1]
      BY <3>2, <3>4
    <3> HIDE DEF q2
    <3>9. [w[new] EXCEPT !.tail = path[n]] = [value |-> value, head |-> NULL, tail |-> path[n]]
      BY <3>5
    <3>10. QED
      BY <2>2, <3>2, <3>5, <3>7, <3>8, <3>9
  <2>3. QED
    BY <2>1, <2>2
<1> HIDE DEF q2, D
<1> DEFINE vals2 == Append(vals, value)
<1>12. ASSUME NEW i \in 1..n + 1
       PROVE  q2.nodes[path2[i]] = [value |-> vals2[i],
                                    head |-> IF i = n + 1 THEN NULL ELSE path2[i + 1],
                                    tail |-> IF i = 1 THEN NULL ELSE path2[i - 1]]
  <2>1. CASE i = n + 1
    <3>1. i = 1 <=> n = 0
      BY <2>1
    <3>2. n # 0 => i - 1 = n /\ n \in 1..n
      BY <2>1
    <3>3. vals2[i] = value /\ path2[i] = new
      BY <1>3, <1>6, <2>1
    <3>4. (IF n = 0 THEN NULL ELSE path[n]) = (IF i = 1 THEN NULL ELSE path2[i - 1])
      BY <1>6, <3>1, <3>2
    <3>5. QED
      BY <1>11, <2>1, <3>3, <3>4
  <2>2. CASE i # n + 1
    <3>1. i \in 1..n /\ n # 0 /\ i + 1 \in 1..n + 1 /\ n \in 1..n
      BY <2>2
    <3>2. vals2[i] = vals[i] /\ path2[i] = path[i] /\ path[i] \in D
      BY <1>3, <1>6, <3>1
    <3>3. i # 1 => path2[i - 1] = path[i - 1]
      <4>1. i # 1 => i - 1 \in 1..n
        BY <3>1
      <4>2. QED
        BY <1>6, <4>1
    <3>4. q.nodes[path[i]] = [value |-> vals[i],
                              head |-> IF i = n THEN NULL ELSE path[i + 1],
                              tail |-> IF i = 1 THEN NULL ELSE path2[i - 1]]
      BY <1>5, <3>1, <3>3
    <3>5. CASE i = n
      <4>1. path2[i + 1] = new
        BY <1>6, <3>5
      <4>2. q2.nodes[path[i]] = [q.nodes[path[i]] EXCEPT !.head = new]
        BY <1>11, <3>1, <3>2, <3>5
      <4>3. QED
        BY <2>2, <3>2, <3>4, <4>1, <4>2
    <3>6. CASE i # n
      <4>1. i + 1 \in 1..n
        BY <3>1, <3>6
      <4>2. path2[i + 1] = path[i + 1]
        BY <1>6, <4>1
      <4>3. path[i] # path[n]
        BY <1>5, <3>1, <3>6
      <4>4. q2.nodes[path[i]] = q.nodes[path[i]]
        BY <1>11, <3>2, <4>3
      <4>5. QED
        BY <2>2, <3>2, <3>4, <3>6, <4>2, <4>4
    <3>7. QED
      BY <3>5, <3>6
  <2>3. QED
    BY <2>1, <2>2
<1>13. q2.tail = path2[1] /\ q2.head = path2[n + 1]
  <2>1. n # 0 => 1 \in 1..n
    OBVIOUS
  <2>2. n = 0 => n + 1 = 1
    OBVIOUS
  <2>3. QED
    BY <1>6, <1>11, <2>1, <2>2
<1>14. n + 1 # 0
  OBVIOUS
<1> HIDE DEF vals2
<1>15. HoldsAlong(q2, path2, vals2)
  <2>3. q2.nodes = [x \in DOMAIN q2.nodes |-> q2.nodes[x]]
    <3>1. q2.nodes = WithNode(q, new, value) \/
          q2.nodes = [WithNode(q, new, value) EXCEPT ![q.head].head = new,
                                                     ![new].tail = q.head]
      BY DEF q2, enqueue, new
    <3>2. QED
      BY <3>1 DEF WithNode
  <2>1. Len(vals2) = n + 1
    BY <1>3 DEF vals2
  <2>2. DOMAIN q2.nodes = {path2[i] : i \in 1..n + 1}
    BY <1>10, <1>11
  <2>4. QED
    BY <1>7, <1>9, <1>11, <1>12, <1>13, <1>14, <2>1, <2>2, <2>3 DEF HoldsAlong
<1>16. QED
  BY <1>15 DEF Holds, q2, vals2


(* dequeue() returns the oldest value and leaves the others.               *)
LEMMA DequeueHolds ==
    ASSUME NEW q, NEW V, NEW vals \in Seq(V), Holds(q, vals), Len(vals) # 0
    PROVE  oldest(q) = Head(vals) /\ Holds(dequeued(q), Tail(vals))
<1>1. PICK path : HoldsAlong(q, path, vals)
  BY DEF Holds
<1>2. PICK n \in Nat : n = Len(vals)
  BY LenProperties
<1>3. n # 0 /\ vals # << >>
  BY <1>2
<1>4. /\ Head(vals) = vals[1] /\ Len(Tail(vals)) = n - 1
      /\ \A i \in 1..n - 1 : Tail(vals)[i] = vals[i + 1]
  BY <1>2, <1>3, HeadTailProperties
<1> DEFINE D == DOMAIN q.nodes
           path2 == [i \in 1..n - 1 |-> path[i + 1]]
           q2 == dequeued(q)
<1>5. /\ q.size = n /\ path \in [1..n -> Nat \ {0}] /\ D = {path[i] : i \in 1..n}
      /\ \A i, j \in 1..n : path[i] = path[j] => i = j
      /\ \A i \in 1..n :
            q.nodes[path[i]] = [value |-> vals[i],
                                head |-> IF i = n THEN NULL ELSE path[i + 1],
                                tail |-> IF i = 1 THEN NULL ELSE path[i - 1]]
      /\ q.tail = path[1]
      /\ q.head = path[n]
  BY <1>1, <1>2, <1>3 DEF HoldsAlong
<1>6. /\ n \in 1..n /\ 1 \in 1..n /\ n - 1 \in Nat /\ (n - 1 = 0 <=> n = 1)
      /\ \A i \in 1..n - 1 : i \in 1..n /\ i + 1 \in 1..n /\ i + 1 # 1 /\ (i + 1 = n <=> i = n - 1)
      /\ \A i \in 1..n : i = 1 \/ (i - 1 \in 1..n - 1 /\ (i - 1) + 1 = i)
  BY <1>3
<1>7. \A i \in 1..n - 1 : path2[i] = path[i + 1] /\ path2[i] \in D \ {path[1]}
  BY <1>5, <1>6
<1>8. path2 \in [1..n - 1 -> Nat \ {0}]
  BY <1>5, <1>6
<1> HIDE DEF path2
<1>9. \A i, j \in 1..n - 1 : path2[i] = path2[j] => i = j
  <2>1. ASSUME NEW i \in 1..n - 1, NEW j \in 1..n - 1, path2[i] = path2[j]
        PROVE  i = j
    <3>1. i + 1 = j + 1
      BY <1>5, <1>6, <1>7, <2>1
    <3>2. QED
      BY <3>1
  <2>2. QED
    BY <2>1
<1>10. D \ {path[1]} = {path2[i] : i \in 1..n - 1}
  <2>1. ASSUME NEW x \in D \ {path[1]}
        PROVE  x \in {path2[i] : i \in 1..n - 1}
    <3>1. PICK i \in 1..n : x = path[i]
      BY <1>5
    <3>2. i - 1 \in 1..n - 1 /\ (i - 1) + 1 = i
      BY <1>6, <2>1, <3>1
    <3>3. x = path2[i - 1]
      BY <1>7, <3>1, <3>2
    <3>4. QED
      BY <3>2, <3>3
  <2>2. QED
    BY <1>7, <2>1
<1> DEFINE w == destroy_node(q, path[1])
<1>11. DOMAIN w = D \ {path[1]} /\ \A x \in D \ {path[1]} : w[x] = q.nodes[x]
  BY DEF destroy_node
<1>11a. q.nodes[path[1]] = [value |-> vals[1],
                           head |-> IF 1 = n THEN NULL ELSE path[1 + 1],
                           tail |-> IF 1 = 1 THEN NULL ELSE path[1 - 1]]
  BY <1>5, <1>6
<1>12. oldest(q) = vals[1]
  <2>1. q.nodes[q.tail] = q.nodes[path[1]]
    BY <1>5
  <2>2. q.nodes[q.tail].value = vals[1]
    BY <1>11a, <2>1
  <2>3. QED
    BY <2>2 DEF oldest
<1>13. /\ q2.size = n - 1
       /\ q2.head = IF n = 1 THEN NULL ELSE path[n]
       /\ q2.tail = IF n = 1 THEN NULL ELSE path2[1]
       /\ q2.nodes = IF n = 1 THEN w ELSE [w EXCEPT ![path2[1]].tail = NULL]
  <2>1. CASE n = 1
    BY <1>5, <2>1 DEF dequeued, w
  <2>2. CASE n # 1
    <3>1. 1 \in 1..n - 1 /\ 1 + 1 \in 1..n
      BY <1>6, <2>2
    <3>2. q.nodes[q.tail].head = path2[1]
      <4>1. q.nodes[path[1]].head = path[1 + 1]
        BY <1>11a, <2>2
      <4>2. QED
        BY <1>5, <1>7, <3>1, <4>1
    <3>3. QED
      BY <1>5, <2>2, <3>2 DEF dequeued, w
  <2>3. QED
    BY <2>1, <2>2
<1>14. q2.nodes = [x \in DOMAIN q2.nodes |-> q2.nodes[x]]
  BY <1>13 DEF w, destroy_node
<1> HIDE DEF w, D, q2
<1> DEFINE vals2 == Tail(vals)
<1>15. /\ DOMAIN q2.nodes = D \ {path[1]}
       /\ \A i \in 1..n - 1 :
            q2.nodes[path2[i]] = IF i = 1 THEN [q.nodes[path2[i]] EXCEPT !.tail = NULL]
                                          ELSE q.nodes[path2[i]]
  <2>1. CASE n = 1
    BY <1>11, <1>13, <2>1
  <2>2. CASE n # 1
    <3>1. 1 \in 1..n - 1
      BY <1>6, <2>2
    <3>2. q2.nodes = [w EXCEPT ![path2[1]].tail = NULL]
      BY <1>13, <2>2
    <3>3. \A i \in 1..n - 1 : path2[i] \in DOMAIN w /\ w[path2[i]] = q.nodes[path2[i]]
      BY <1>7, <1>11
    <3>4. \A i \in 1..n - 1 : path2[i] = path2[1] <=> i = 1
      BY <1>9, <3>1
    <3>5. QED
      BY <1>11, <3>1, <3>2, <3>3, <3>4
  <2>3. QED
    BY <2>1, <2>2
<1>16. ASSUME NEW i \in 1..n - 1
       PROVE  q2.nodes[path2[i]] = [value |-> vals2[i],
                                    head |-> IF i = n - 1 THEN NULL ELSE path2[i + 1],
                                    tail |-> IF i = 1 THEN NULL ELSE path2[i - 1]]
  <2>1. q.nodes[path2[i]] = [value |-> vals[i + 1],
                             head |-> IF i + 1 = n THEN NULL ELSE path[i + 1 + 1],
                             tail |-> path[i + 1 - 1]]
    BY <1>5, <1>6, <1>7
  <2>2. (IF i + 1 = n THEN NULL ELSE path[i + 1 + 1])
            = (IF i = n - 1 THEN NULL ELSE path2[i + 1])
    <3>1. CASE i = n - 1
      BY <1>6, <3>1
    <3>2. CASE i # n - 1
      <4>1. i + 1 \in 1..n - 1 /\ i + 1 # n
        BY <1>6, <3>2
      <4>2. QED
        BY <1>7, <3>2, <4>1
    <3>3. QED
      BY <3>1, <3>2
  <2>3. i # 1 => path2[i - 1] = path[i + 1 - 1]
    <3>1. i # 1 => i - 1 \in 1..n - 1 /\ i + 1 - 1 = (i - 1) + 1
      OBVIOUS
    <3>2. QED
      BY <1>7, <3>1
  <2>4. vals2[i] = vals[i + 1]
    BY <1>4
  <2> HIDE DEF vals2
  <2>5. CASE i = 1
    <3>1. q2.nodes[path2[i]] = [q.nodes[path2[i]] EXCEPT !.tail = NULL]
      BY <1>15, <2>5
    <3>2. [q.nodes[path2[i]] EXCEPT !.tail = NULL]
             = [value |-> vals[i + 1],
                head |-> IF i + 1 = n THEN NULL ELSE path[i + 1 + 1], tail |-> NULL]
      BY <2>1
    <3>3. QED
      BY <2>2, <2>4, <2>5, <3>1, <3>2
  <2>6. CASE i # 1
    <3>1. q2.nodes[path2[i]] = q.nodes[path2[i]]
      BY <1>15, <2>6
    <3>2. QED
      BY <2>1, <2>2, <2>3, <2>4, <2>6, <3>1
  <2>7. QED
    BY <2>5, <2>6
<1>17. n # 1 => path2[n - 1] = path[n]
  <2>1. n # 1 => n - 1 \in 1..n - 1 /\ (n - 1) + 1 = n
    BY <1>6
  <2>2. QED
    BY <1>7, <2>1
<1> HIDE DEF vals2
<1>18. HoldsAlong(q2, path2, vals2)
  <2>1. Len(vals2) = n - 1
    BY <1>4 DEF vals2
  <2>2. DOMAIN q2.nodes = {path2[i] : i \in 1..n - 1}
    BY <1>10, <1>15
  <2>3. QED
    BY <1>6, <1>8, <1>9, <1>13, <1>14, <1>16, <1>17, <2>1, <2>2 DEF HoldsAlong
<1>19. QED
  BY <1>4, <1>12, <1>18 DEF Holds, q2, vals2


(* An empty queue holds nothing.                                           *)
LEMMA NewHolds == Holds(new_queue, << >>)
<1> DEFINE path == [i \in 1..0 |-> 1]
<1>1. Len(<< >>) = 0 /\ 1..0 = {}
  OBVIOUS
<1>2. new_queue.nodes = [x \in {} |-> new_queue.nodes[x]] /\ DOMAIN new_queue.nodes = {}
  BY DEF new_queue
<1>3. HoldsAlong(new_queue, path, << >>)
  BY <1>1, <1>2 DEF HoldsAlong, new_queue
<1>4. QED
  BY <1>3 DEF Holds

(* A queue that holds nothing has no nodes.                                *)
LEMMA HoldsNothing ==
    ASSUME NEW q, Holds(q, << >>)
    PROVE  q.nodes = << >>
<1>1. PICK path : HoldsAlong(q, path, << >>)
  BY DEF Holds
<1>2. Len(<< >>) = 0 /\ 1..0 = {}
  OBVIOUS
<1>3. q.nodes = [x \in {} |-> q.nodes[x]]
  BY <1>1, <1>2 DEF HoldsAlong
<1>4. QED
  BY <1>3

(* destroy_queue() leaves nothing.                                         *)
LEMMA DestroyHolds ==
    ASSUME NEW q, NEW V, NEW vals \in Seq(V), Holds(q, vals)
    PROVE  Holds(destroy_queue(q), << >>)
<1>1. PICK n \in Nat : n = Len(vals)
  BY LenProperties
<1>2. q.size = n
  BY <1>1 DEF Holds, HoldsAlong
<1> DEFINE Leaves(m, f) ==
             f = [i \in n - m..n |-> IF i = n THEN q ELSE dequeued(f[i + 1])]
           Good == {m \in Nat : m <= n => \E f : Leaves(m, f)}
<1>3. 0 \in Good
  <2> DEFINE f == [i \in n - 0..n |-> q]
  <2>1. \A i \in n - 0..n : i = n
    OBVIOUS
  <2>2. Leaves(0, f)
    BY <2>1
  <2>3. QED
    BY <2>2
<1>4. ASSUME NEW m \in Nat, m \in Good
      PROVE  m + 1 \in Good
  <2>1. SUFFICES ASSUME m + 1 <= n
                 PROVE  \E f : Leaves(m + 1, f)
    OBVIOUS
  <2>2. PICK f : Leaves(m, f)
    BY <1>4, <2>1
  <2> DEFINE first == n - (m + 1)
             g == [i \in first..n |-> IF i = first THEN dequeued(f[n - m]) ELSE f[i]]
  <2>3. /\ first + 1 = n - m /\ first # n /\ n - m \in first..n /\ n - m # first
        /\ \A i \in first..n : i = first \/ i \in n - m..n
        /\ \A i \in n - m..n : i \in first..n /\ i # first
        /\ \A i \in n - m..n : i = n \/ i + 1 \in n - m..n
        /\ n - m \in n - m..n /\ first \in first..n
    BY <2>1
  <2> HIDE DEF first
  <2>4. g[first] = dequeued(f[n - m]) /\ \A i \in n - m..n : g[i] = f[i]
    BY <2>3
  <2>5. g = [i \in first..n |-> g[i]]
    OBVIOUS
  <2> HIDE DEF g
  <2>6. \A i \in n - m..n : f[i] = IF i = n THEN q ELSE dequeued(f[i + 1])
    BY <2>2
  <2>7. ASSUME NEW i \in first..n
        PROVE  g[i] = IF i = n THEN q ELSE dequeued(g[i + 1])
    <3>1. CASE i = first
      <4>1. g[i + 1] = f[n - m]
        BY <2>3, <2>4, <3>1
      <4>2. QED
        BY <2>3, <2>4, <3>1, <4>1
    <3>2. CASE i # first
      <4>1. i \in n - m..n
        BY <2>3, <3>2
      <4>2. i = n \/ g[i + 1] = f[i + 1]
        BY <2>3, <2>4, <4>1
      <4>3. QED
        BY <2>4, <2>6, <4>1, <4>2
    <3>3. QED
      BY <3>1, <3>2
  <2>8. g = [i \in first..n |-> IF i = n THEN q ELSE dequeued(g[i + 1])]
    BY <2>5, <2>7
  <2>9. QED
    BY <2>8 DEF first
<1>5. n \in Good
  <2> HIDE DEF Good
  <2>1. QED
    BY <1>3, <1>4, EveryNatural
<1>6. PICK f : f = [i \in 0..n |-> IF i = n THEN q ELSE dequeued(f[i + 1])]
  <2>1. n - n = 0
    OBVIOUS
  <2>2. \E f : Leaves(n, f)
    BY <1>5
  <2>3. QED
    BY <2>1, <2>2
<1> DEFINE left == CHOOSE g : g = [i \in 0..n |-> IF i = n THEN q ELSE dequeued(g[i + 1])]
<1>7. left = [i \in 0..n |-> IF i = n THEN q ELSE dequeued(left[i + 1])]
  BY <1>6
<1>8. destroy_queue(q) = left[0]
  BY <1>2 DEF destroy_queue
<1> HIDE DEF left
<1>9. left[n] = q /\ \A i \in 0..n : i # n => left[i] = dequeued(left[i + 1])
  BY <1>7
<1> DEFINE Done == {m \in Nat : m <= n =>
                      \E rest \in Seq(V) : Len(rest) = n - m /\ Holds(left[n - m], rest)}
<1>10. 0 \in Done
  BY <1>1, <1>9
<1>11. ASSUME NEW m \in Nat, m \in Done
       PROVE  m + 1 \in Done
  <2>1. SUFFICES ASSUME m + 1 <= n
                 PROVE  \E rest \in Seq(V) : /\ Len(rest) = n - (m + 1)
                                             /\ Holds(left[n - (m + 1)], rest)
    OBVIOUS
  <2>2. PICK rest \in Seq(V) : Len(rest) = n - m /\ Holds(left[n - m], rest)
    BY <1>11, <2>1
  <2>3. Len(rest) # 0 /\ n - (m + 1) \in 0..n /\ n - (m + 1) # n /\ n - (m + 1) + 1 = n - m
    BY <2>1, <2>2
  <2>4. left[n - (m + 1)] = dequeued(left[n - m])
    BY <1>9, <2>3
  <2>5. Holds(dequeued(left[n - m]), Tail(rest))
    BY <2>2, <2>3, DequeueHolds
  <2>6. Tail(rest) \in Seq(V) /\ Len(Tail(rest)) = n - (m + 1)
    <3>1. rest # << >>
      BY <2>3
    <3>2. Tail(rest) \in Seq(V) /\ Len(Tail(rest)) = Len(rest) - 1
      BY <3>1, HeadTailProperties
    <3>3. QED
      BY <2>2, <3>2
  <2>7. QED
    BY <2>4, <2>5, <2>6
<1>12. n \in Done
  <2> HIDE DEF Done
  <2>1. QED
    BY <1>10, <1>11, EveryNatural
<1>13. PICK rest \in Seq(V) : Len(rest) = 0 /\ Holds(left[0], rest)
  <2>1. n - n = 0
    OBVIOUS
  <2>2. QED
    BY <1>12, <2>1
<1>14. rest = << >>
  BY <1>13, EmptySeq
<1>15. QED
  BY <1>8, <1>13, <1>14

(* A queue that holds a sequence is linked.                                *)
LEMMA HoldsLinked ==
    ASSUME NEW q, NEW V, NEW vals \in Seq(V), Holds(q, vals)
    PROVE  Linked(q)
<1>1. PICK path : HoldsAlong(q, path, vals)
  BY DEF Holds
<1>2. PICK n \in Nat : n = Len(vals)
  BY LenProperties
<1>3. Cardinality(DOMAIN q.nodes) = n
  BY <1>1, <1>2, NodeNumbers
<1> DEFINE D == DOMAIN q.nodes
<1>4. /\ q.size = n /\ D = {path[i] : i \in 1..n}
      /\ \A i, j \in 1..n : path[i] = path[j] => i = j
      /\ \A i \in 1..n :
            q.nodes[path[i]] = [value |-> vals[i],
                                head |-> IF i = n THEN NULL ELSE path[i + 1],
                                tail |-> IF i = 1 THEN NULL ELSE path[i - 1]]
      /\ q.tail = IF n = 0 THEN NULL ELSE path[1]
      /\ q.head = IF n = 0 THEN NULL ELSE path[n]
  BY <1>1, <1>2 DEF HoldsAlong
<1>5. \A i \in 1..n : /\ q.nodes[path[i]].head = IF i = n THEN NULL ELSE path[i + 1]
                      /\ q.nodes[path[i]].tail = IF i = 1 THEN NULL ELSE path[i - 1]
  <2>1. ASSUME NEW i \in 1..n
        PROVE  /\ q.nodes[path[i]].head = IF i = n THEN NULL ELSE path[i + 1]
               /\ q.nodes[path[i]].tail = IF i = 1 THEN NULL ELSE path[i - 1]
    <3>1. q.nodes[path[i]] = [value |-> vals[i],
                              head |-> IF i = n THEN NULL ELSE path[i + 1],
                              tail |-> IF i = 1 THEN NULL ELSE path[i - 1]]
      BY <1>4
    <3>2. QED
      BY <3>1
  <2>2. QED
    BY <2>1
<1>6. ASSUME n > 0
      PROVE  /\ {q.head, q.tail} \subseteq D
             /\ q.nodes[q.head].head = NULL /\ q.nodes[q.tail].tail = NULL
             /\ \A x \in D :
                   /\ x # q.head => /\ q.nodes[x].head \in D
                                    /\ q.nodes[q.nodes[x].head].tail = x
                   /\ x # q.tail => /\ q.nodes[x].tail \in D
                                    /\ q.nodes[q.nodes[x].tail].head = x
  <2>1. n # 0 /\ 1 \in 1..n /\ n \in 1..n
    BY <1>6
  <2>2. q.tail = path[1] /\ q.head = path[n]
    BY <1>4, <2>1
  <2>3. {q.head, q.tail} \subseteq D
    BY <1>4, <2>1, <2>2
  <2>4. q.nodes[q.head].head = NULL /\ q.nodes[q.tail].tail = NULL
    BY <1>5, <2>1, <2>2
  <2>5. ASSUME NEW x \in D, x # q.head
        PROVE  q.nodes[x].head \in D /\ q.nodes[q.nodes[x].head].tail = x
    <3>1. PICK i \in 1..n : x = path[i]
      BY <1>4
    <3>2. i # n /\ i + 1 \in 1..n /\ i + 1 # 1 /\ i + 1 - 1 = i
      BY <2>2, <2>5, <3>1
    <3>3. q.nodes[x].head = path[i + 1] /\ q.nodes[path[i + 1]].tail = path[i]
      BY <1>5, <3>1, <3>2
    <3>4. QED
      BY <1>4, <3>1, <3>2, <3>3
  <2>6. ASSUME NEW x \in D, x # q.tail
        PROVE  q.nodes[x].tail \in D /\ q.nodes[q.nodes[x].tail].head = x
    <3>1. PICK i \in 1..n : x = path[i]
      BY <1>4
    <3>2. i # 1 /\ i - 1 \in 1..n /\ i - 1 # n /\ i - 1 + 1 = i
      BY <2>2, <2>6, <3>1
    <3>3. q.nodes[x].tail = path[i - 1] /\ q.nodes[path[i - 1]].head = path[i]
      BY <1>5, <3>1, <3>2
    <3>4. QED
      BY <1>4, <3>1, <3>2, <3>3
  <2>7. QED
    BY <2>3, <2>4, <2>5, <2>6
<1>7. n = 0 => q.head = NULL /\ q.tail = NULL
  BY <1>4
<1>8. QED
  BY <1>3, <1>4, <1>6, <1>7 DEF Linked

(* The values along the links are the values the queue holds.              *)
LEMMA HoldsValues ==
    ASSUME NEW q, NEW V, NEW vals \in Seq(V), Holds(q, vals)
    PROVE  Values(q) = vals
<1>1. PICK path : HoldsAlong(q, path, vals)
  BY DEF Holds
<1>2. PICK n \in Nat : n = Len(vals)
  BY LenProperties
<1>3. /\ q.size = n /\ path \in [1..n -> Nat \ {0}]
      /\ \A i \in 1..n :
            q.nodes[path[i]] = [value |-> vals[i],
                                head |-> IF i = n THEN NULL ELSE path[i + 1],
                                tail |-> IF i = 1 THEN NULL ELSE path[i - 1]]
      /\ q.tail = IF n = 0 THEN NULL ELSE path[1]
  BY <1>1, <1>2 DEF HoldsAlong
<1>4. /\ n # 0 => q.tail = path[1]
      /\ \A i \in 1..n : i # 1 => q.nodes[path[i - 1]].head = path[i]
  <2>1. ASSUME NEW i \in 1..n, i # 1
        PROVE  q.nodes[path[i - 1]].head = path[i]
    <3>1. i - 1 \in 1..n /\ i - 1 # n /\ i - 1 + 1 = i
      BY <2>1
    <3>2. q.nodes[path[i - 1]] = [value |-> vals[i - 1], head |-> path[i - 1 + 1],
                                  tail |-> IF i - 1 = 1 THEN NULL ELSE path[i - 1 - 1]]
      BY <1>3, <3>1
    <3>3. q.nodes[path[i - 1]].head = path[i - 1 + 1]
      BY <3>2
    <3>4. QED
      BY <3>1, <3>3
  <2>2. QED
    BY <1>3, <2>1
<1>5. path = [i \in 1..n |-> IF i = 1 THEN q.tail ELSE q.nodes[path[i - 1]].head]
  <2>1. ASSUME NEW i \in 1..n
        PROVE  path[i] = IF i = 1 THEN q.tail ELSE q.nodes[path[i - 1]].head
    <3>1. n # 0
      BY <2>1
    <3>2. QED
      BY <1>4, <2>1, <3>1
  <2>2. QED
    BY <1>3, <2>1
<1> DEFINE at == CHOOSE f :
                   f = [i \in 1..n |-> IF i = 1 THEN q.tail ELSE q.nodes[f[i - 1]].head]
<1>6. at = [i \in 1..n |-> IF i = 1 THEN q.tail ELSE q.nodes[at[i - 1]].head]
  BY <1>5
<1>7. Values(q) = [i \in 1..n |-> q.nodes[at[i]].value]
  BY <1>3 DEF Values
<1> HIDE DEF at
<1> DEFINE Good == {i \in Nat : i + 1 \in 1..n => at[i + 1] = path[i + 1]}
<1>8. 0 \in Good
  BY <1>4, <1>6
<1>9. ASSUME NEW i \in Nat, i \in Good
      PROVE  i + 1 \in Good
  <2>1. SUFFICES ASSUME i + 1 + 1 \in 1..n
                 PROVE  at[i + 1 + 1] = path[i + 1 + 1]
    OBVIOUS
  <2>2. i + 1 \in 1..n /\ i + 1 + 1 # 1 /\ i + 1 + 1 - 1 = i + 1
    BY <2>1
  <2>3. at[i + 1] = path[i + 1]
    BY <1>9, <2>2
  <2>4. at[i + 1 + 1] = q.nodes[at[i + 1]].head
    BY <1>6, <2>1, <2>2
  <2>5. q.nodes[path[i + 1]].head = path[i + 1 + 1]
    BY <1>4, <2>1, <2>2
  <2>6. QED
    BY <2>3, <2>4, <2>5
<1>10. \A i \in Nat : i \in Good
  <2> HIDE DEF Good
  <2>1. QED
    BY <1>8, <1>9, EveryNatural
<1>11. ASSUME NEW i \in 1..n
       PROVE  q.nodes[at[i]].value = vals[i]
  <2>1. i - 1 \in Nat /\ i - 1 + 1 = i
    OBVIOUS
  <2>2. at[i] = path[i]
    BY <1>10, <2>1
  <2>3. q.nodes[path[i]].value = vals[i]
    <3>1. q.nodes[path[i]] = [value |-> vals[i],
                              head |-> IF i = n THEN NULL ELSE path[i + 1],
                              tail |-> IF i = 1 THEN NULL ELSE path[i - 1]]
      BY <1>3
    <3>2. QED
      BY <3>1
  <2>4. QED
    BY <2>2, <2>3
<1>12. vals = [i \in 1..n |-> vals[i]]
  BY <1>2, SeqDef
<1>13. QED
  BY <1>7, <1>11, <1>12


---------------------------------------------------------------------------
(* The window                                                              *)

References == {MemRef(a[1], a[2]) : a \in Accesses}

(* The queue holds vals, which fit in the window.                          *)
QueueHolds(vals) ==
    /\ vals \in Seq(References)
    /\ Holds(queue, vals)
    /\ Len(vals) <= window_size
    /\ over => vals = << >>

QueueInv == \E vals : QueueHolds(vals)

(* A reference goes behind the others, and the oldest leaves a full window.*)
LEMMA InsertSlides ==
    ASSUME NEW a \in Accesses, NEW vals, QueueHolds(vals), window_set_insert(a[1], a[2])
    PROVE  LET longer == Append(vals, MemRef(a[1], a[2]))
               next == IF Len(vals) = window_size THEN Tail(longer) ELSE longer
           IN /\ Len(longer) = Len(vals) + 1 /\ longer \in Seq(References)
              /\ next \in Seq(References) /\ Holds(queue', next) /\ Len(next) <= window_size
              /\ Overfull(enqueue(queue, MemRef(a[1], a[2]))) <=> Len(vals) = window_size
              /\ Len(vals) = window_size =>
                    oldest(enqueue(queue, MemRef(a[1], a[2]))) = Head(longer)
<1> DEFINE ref == MemRef(a[1], a[2])
           longer == Append(vals, ref)
           long == enqueue(queue, ref)
<1>1. ref \in References
  BY DEF References
<1>2. vals \in Seq(References) /\ Holds(queue, vals) /\ Len(vals) <= window_size
  BY DEF QueueHolds
<1>3. Len(vals) \in Nat /\ window_size \in Nat \ {0}
  BY <1>2, LenProperties, WindowPositive
<1> HIDE DEF ref
<1>4. Holds(long, longer) /\ longer \in Seq(References) /\ Len(longer) = Len(vals) + 1
  BY <1>1, <1>2, EnqueueHolds, AppendProperties
<1>5. long.size = Len(longer)
  BY <1>4 DEF Holds, HoldsAlong
<1>6. Overfull(long) <=> Len(vals) = window_size
  BY <1>2, <1>3, <1>4, <1>5 DEF Overfull
<1>7. /\ Overfull(long) => queue' = dequeued(long)
      /\ ~Overfull(long) => queue' = long
  BY DEF window_set_insert, ref
<1> HIDE DEF long, longer
<1>8. CASE Len(vals) = window_size
  <2>1. Len(longer) # 0 /\ longer # << >>
    BY <1>3, <1>4
  <2>2. oldest(long) = Head(longer) /\ Holds(dequeued(long), Tail(longer))
    BY <1>4, <2>1, DequeueHolds
  <2>3. Tail(longer) \in Seq(References) /\ Len(Tail(longer)) = Len(longer) - 1
    BY <1>4, <2>1, HeadTailProperties
  <2>4. Len(Tail(longer)) <= window_size
    BY <1>2, <1>3, <1>4, <2>3
  <2>5. QED
    BY <1>4, <1>6, <1>7, <1>8, <2>2, <2>3, <2>4 DEF ref, long, longer
<1>9. CASE Len(vals) # window_size
  <2>1. Len(longer) <= window_size
    BY <1>2, <1>3, <1>4, <1>9
  <2>2. QED
    BY <1>4, <1>6, <1>7, <1>9, <2>1 DEF ref, long, longer
<1>10. QED
  BY <1>8, <1>9

(* The queue holds the window at every moment, and is empty at the end.    *)
LEMMA QueueInductive == Spec => []QueueInv
<1>1. Init => QueueInv
  <2>1. SUFFICES ASSUME Init
                 PROVE  QueueHolds(<< >>)
    BY DEF QueueInv
  <2>2. Len(<< >>) = 0 /\ << >> \in Seq(References) /\ 0 <= window_size
    BY WindowPositive
  <2>3. QED
    BY <2>1, <2>2, NewHolds DEF Init, QueueHolds
<1>2. QueueInv /\ [Next]_vars => QueueInv'
  <2>1. SUFFICES ASSUME NEW vals, QueueHolds(vals), [Next]_vars
                 PROVE  QueueInv'
    BY DEF QueueInv
  <2>2. CASE UNCHANGED <<queue, over>>
    BY <2>1, <2>2 DEF QueueInv, QueueHolds
  <2>3. CASE InsertReference
    <3>1. over' = FALSE
      BY <2>3 DEF InsertReference, NextReference
    <3>2. PICK a \in Accesses : window_set_insert(a[1], a[2])
      BY <2>3 DEF InsertReference
    <3>3. \E next : next \in Seq(References) /\ Holds(queue', next) /\ Len(next) <= window_size
      BY <2>1, <3>2, InsertSlides
    <3>4. QED
      BY <3>1, <3>3 DEF QueueInv, QueueHolds
  <2>4. CASE EndOfTrace
    <3>1. Holds(destroy_queue(queue), << >>)
      BY <2>1, DestroyHolds DEF QueueHolds
    <3>2. Len(<< >>) = 0 /\ << >> \in Seq(References) /\ 0 <= window_size
      BY WindowPositive
    <3>3. QueueHolds(<< >>)'
      BY <2>4, <3>1, <3>2 DEF EndOfTrace, QueueHolds
    <3>4. QED
      BY <3>3 DEF QueueInv
  <2>5. QED
    <3>1. SkipReference => UNCHANGED <<queue, over>>
      BY DEF SkipReference, NextReference
    <3>2. UNCHANGED vars => UNCHANGED <<queue, over>>
      BY DEF vars
    <3>3. QED
      BY <2>1, <2>2, <2>3, <2>4, <3>1, <3>2 DEF Next
<1>3. QED
  BY <1>1, <1>2, PTL DEF Spec

(* The queue is linked both ways, holds no more than the window, and has   *)
(* no node left at the end, whatever the trace (queue.c:46-113).           *)
THEOREM QueueLinked == Spec => []QueueSound
<1>1. QueueInv => QueueSound
  <2>1. SUFFICES ASSUME NEW vals, QueueHolds(vals)
                 PROVE  QueueSound
    BY DEF QueueInv
  <2>2. Linked(queue)
    BY <2>1, HoldsLinked DEF QueueHolds
  <2>3. queue.size <= window_size
    BY <2>1 DEF QueueHolds, Holds, HoldsAlong
  <2>4. over => queue.nodes = << >>
    BY <2>1, HoldsNothing DEF QueueHolds
  <2>5. QED
    BY <2>2, <2>3, <2>4 DEF QueueSound
<1>2. QED
  BY <1>1, QueueInductive, PTL

---------------------------------------------------------------------------
(* The table, and how often the window refers to each page                 *)

Kept(value) == {k \in Pages : value[k] > 0}

(* The pages the table has lost some of.                                   *)
Owed(value, times) == {k \in Pages : times[k] > value[k]}

(* The size is large enough for the pages that are there and, once more,   *)
(* for those that a merge has dropped.                                     *)
Pays(t, times) ==
    t.count[Root] >= Cardinality(Kept(t.value)) + Cardinality(Owed(t.value, times))

Matches(t, times) == t.value = times /\ Exact(t)

OneMore(times, k) == [times EXCEPT ![k] = @ + 1]
OneLess(times, k) == [times EXCEPT ![k] = @ - 1]

(* The sets that are counted are finite.                                   *)
LEMMA PagesCount ==
    ASSUME NEW S, S \subseteq Pages
    PROVE  /\ IsFiniteSet(S) /\ Cardinality(S) \in Nat
           /\ \A T : T \subseteq S => Cardinality(T) <= Cardinality(S)
<1>1. IsFiniteSet(S)
  BY PagesAreNumbers, FS_Subset
<1>2. \A T : T \subseteq S => Cardinality(T) <= Cardinality(S)
  BY <1>1, FS_Subset
<1>3. QED
  BY <1>1, <1>2, FS_CardinalityType

(* put() for one more reference to a page.                                 *)
LEMMA PutPays ==
    ASSUME NEW t, Sound(t), NEW times \in [Pages -> Nat], Pays(t, times), NEW k \in Pages
    PROVE  LET p == Put(t, k)
           IN /\ Sound(p) /\ Pays(p, OneMore(times, k))
              /\ Matches(t, times) => Matches(p, OneMore(times, k))
<1> DEFINE p == Put(t, k)
           more == OneMore(times, k)
<1>1. /\ Sound(p) /\ (Exact(t) => Exact(p))
      /\ p.value = [t.value EXCEPT ![k] = @ + 1]
      /\ p.count[Root] = t.count[Root] + IF t.value[k] = 0 THEN 1 ELSE 0
  BY PutSound
<1> HIDE DEF p
<1>2. t.value \in [Pages -> Nat] /\ t.count[Root] \in Nat
  BY DEF Sound, TableValues, Tables
<1>3. Matches(t, times) => Matches(p, more)
  BY <1>1 DEF Matches, OneMore
<1>4. Owed(p.value, more) = Owed(t.value, times)
  <2>1. ASSUME NEW j \in Pages
        PROVE  more[j] > p.value[j] <=> times[j] > t.value[j]
    <3>1. t.value[j] \in Nat /\ times[j] \in Nat
      BY <1>2
    <3>2. CASE j = k
      BY <1>1, <1>2, <3>1, <3>2 DEF OneMore
    <3>3. CASE j # k
      BY <1>1, <1>2, <3>3 DEF OneMore
    <3>4. QED
      BY <3>2, <3>3
  <2> HIDE DEF more
  <2>2. QED
    BY <2>1 DEF Owed
<1>5. Kept(p.value) = Kept(t.value) \cup {k}
  BY <1>1, <1>2 DEF Kept
<1>6. IsFiniteSet(Kept(t.value))
  BY PagesCount DEF Kept
<1>7. k \in Kept(t.value) <=> ~(t.value[k] = 0)
  BY <1>2 DEF Kept
<1>8. Cardinality(Kept(p.value)) = Cardinality(Kept(t.value)) + IF t.value[k] = 0 THEN 1 ELSE 0
  <2>1. Cardinality(Kept(t.value)) \in Nat
    BY <1>6, FS_CardinalityType
  <2>2. Cardinality(Kept(t.value) \cup {k}) =
           IF k \in Kept(t.value) THEN Cardinality(Kept(t.value))
                                  ELSE Cardinality(Kept(t.value)) + 1
    BY <1>6, FS_AddElement
  <2>3. QED
    BY <1>5, <1>7, <2>1, <2>2
<1>9. /\ Cardinality(Kept(t.value)) \in Nat /\ Cardinality(Owed(t.value, times)) \in Nat
  BY PagesCount DEF Kept, Owed
<1>10. Pays(p, more)
  BY <1>1, <1>2, <1>4, <1>8, <1>9 DEF Pays
<1>11. QED
  BY <1>1, <1>3, <1>10 DEF p

(* delete() for one reference less to a page.                              *)
LEMMA DeletePays ==
    ASSUME NEW t, Sound(t), NEW times \in [Pages -> Nat], Pays(t, times), NEW k \in Pages,
           times[k] > 0
    PROVE  LET u == Delete(t, k)
           IN /\ Sound(u) /\ Pays(u, OneLess(times, k))
              /\ Remains(Lowered(t.value, k), u.value)
              /\ Matches(t, times) /\ u.value = Lowered(t.value, k)
                    => Matches(u, OneLess(times, k))
<1> DEFINE u == Delete(t, k)
           less == OneLess(times, k)
           lowered == Lowered(t.value, k)
           size == t.count[Root] - IF t.value[k] = 1 THEN 1 ELSE 0
<1>1. /\ Sound(u) /\ Remains(lowered, u.value)
      /\ Exact(t) /\ u.value = lowered => Exact(u)
      /\ u.count[Root] = size
  BY DeleteSound
<1> HIDE DEF u
<1>2. t.value \in [Pages -> Nat] /\ t.count[Root] \in Nat /\ t.value[k] \in Nat /\ times[k] \in Nat
  BY DEF Sound, TableValues, Tables
<1>3. Matches(t, times) /\ u.value = lowered => Matches(u, less)
  <2>1. ASSUME t.value = times
        PROVE  lowered = less
    <3>1. ~(t.value[k] = 0)
      BY <2>1
    <3>2. QED
      BY <1>2, <2>1, <3>1 DEF Lowered, OneLess
  <2>2. QED
    BY <1>1, <2>1 DEF Matches
<1>4. /\ lowered \in [Pages -> Nat] /\ less \in [Pages -> Nat]
      /\ lowered[k] = IF t.value[k] = 0 THEN 0 ELSE t.value[k] - 1
      /\ less[k] = times[k] - 1
      /\ \A j \in Pages : j # k => lowered[j] = t.value[j] /\ less[j] = times[j]
  BY <1>2 DEF Lowered, OneLess
<1> HIDE DEF lowered, less
<1>5. Owed(lowered, less) \subseteq Owed(t.value, times)
  <2>1. ASSUME NEW j \in Pages, less[j] > lowered[j]
        PROVE  times[j] > t.value[j]
    <3>1. CASE j = k
      BY <1>2, <1>4, <2>1, <3>1
    <3>2. CASE j # k
      BY <1>4, <2>1, <3>2
    <3>3. QED
      BY <3>1, <3>2
  <2>2. QED
    BY <2>1 DEF Owed
<1>6. Kept(lowered) = IF t.value[k] = 1 THEN Kept(t.value) \ {k} ELSE Kept(t.value)
  <2>1. ASSUME NEW j \in Pages
        PROVE  lowered[j] > 0 <=> t.value[j] > 0 /\ ~(j = k /\ t.value[k] = 1)
    <3>1. CASE j = k
      BY <1>2, <1>4, <3>1
    <3>2. CASE j # k
      BY <1>4, <3>2
    <3>3. QED
      BY <3>1, <3>2
  <2>2. QED
    BY <2>1 DEF Kept
<1>7. \A value : IsFiniteSet(Kept(value)) /\ Cardinality(Kept(value)) \in Nat
  BY PagesCount DEF Kept
<1>8. \A value, need : IsFiniteSet(Owed(value, need)) /\ Cardinality(Owed(value, need)) \in Nat
  BY PagesCount DEF Owed
<1>9. size >= Cardinality(Kept(lowered)) + Cardinality(Owed(lowered, less))
  <2>1. Cardinality(Owed(lowered, less)) <= Cardinality(Owed(t.value, times))
    BY <1>5, <1>8, FS_Subset
  <2>2. Cardinality(Kept(lowered)) = Cardinality(Kept(t.value)) - IF t.value[k] = 1 THEN 1 ELSE 0
    <3>1. CASE t.value[k] = 1
      <4>1. k \in Kept(t.value)
        BY <3>1 DEF Kept
      <4>2. Cardinality(Kept(t.value) \ {k}) = Cardinality(Kept(t.value)) - 1
        BY <1>7, <4>1, FS_RemoveElement
      <4>3. QED
        BY <1>6, <3>1, <4>2
    <3>2. CASE t.value[k] # 1
      BY <1>6, <1>7, <3>2
    <3>3. QED
      BY <3>1, <3>2
  <2>3. t.count[Root] >= Cardinality(Kept(t.value)) + Cardinality(Owed(t.value, times))
    BY DEF Pays
  <2>4. QED
    BY <1>2, <1>7, <1>8, <2>1, <2>2, <2>3
<1>10. Cardinality(Kept(u.value)) + Cardinality(Owed(u.value, less))
          <= Cardinality(Kept(lowered)) + Cardinality(Owed(lowered, less))
  <2> DEFINE dropped == Kept(lowered) \ Kept(u.value)
  <2>1. u.value \in [Pages -> Nat] /\ \A j \in Pages : u.value[j] = lowered[j] \/ u.value[j] = 0
    BY <1>1 DEF Remains
  <2>2. Kept(u.value) \subseteq Kept(lowered)
    BY <1>4, <2>1 DEF Kept
  <2>3. Owed(u.value, less) \subseteq Owed(lowered, less) \cup dropped
    <3>1. ASSUME NEW j \in Pages, less[j] > u.value[j], ~(less[j] > lowered[j])
          PROVE  lowered[j] > 0 /\ ~(u.value[j] > 0)
      BY <1>4, <2>1, <3>1
    <3>2. QED
      BY <3>1 DEF Owed, Kept
  <2>4. Kept(lowered) \cap Kept(u.value) = Kept(u.value)
    BY <2>2
  <2>5. IsFiniteSet(dropped) /\ Cardinality(dropped) =
           Cardinality(Kept(lowered)) - Cardinality(Kept(u.value))
    <3>1. /\ IsFiniteSet(Kept(lowered) \ Kept(u.value))
          /\ Cardinality(Kept(lowered) \ Kept(u.value)) =
                Cardinality(Kept(lowered)) - Cardinality(Kept(lowered) \cap Kept(u.value))
      BY <1>7, FS_Difference
    <3>2. QED
      BY <2>4, <3>1
  <2> HIDE DEF dropped
  <2>6. /\ IsFiniteSet(Owed(lowered, less) \cup dropped)
        /\ Cardinality(Owed(lowered, less) \cup dropped) =
              Cardinality(Owed(lowered, less)) + Cardinality(dropped)
                 - Cardinality(Owed(lowered, less) \cap dropped)
    BY <1>8, <2>5, FS_Union
  <2>7. Cardinality(Owed(lowered, less) \cap dropped) \in Nat
    <3>1. IsFiniteSet(Owed(lowered, less) \cap dropped)
      BY <1>8, FS_Subset
    <3>2. QED
      BY <3>1, FS_CardinalityType
  <2>8. Cardinality(Owed(u.value, less)) <= Cardinality(Owed(lowered, less) \cup dropped)
    BY <2>3, <2>6, FS_Subset
  <2>9. PICK x1 \in Nat, x2 \in Nat, x3 \in Nat, x4 \in Nat :
           /\ x1 = Cardinality(Kept(u.value)) /\ x2 = Cardinality(Kept(lowered))
           /\ x3 = Cardinality(Owed(u.value, less)) /\ x4 = Cardinality(Owed(lowered, less))
    BY <1>7, <1>8
  <2>10. PICK x5 \in Nat : x5 = Cardinality(Owed(lowered, less) \cap dropped)
    BY <2>7
  <2>11. x3 <= x4 + (x2 - x1) - x5
    BY <2>5, <2>6, <2>8, <2>9, <2>10
  <2>12. x1 + x3 <= x2 + x4
    BY ONLY <2>11, x1 \in Nat, x2 \in Nat, x3 \in Nat, x4 \in Nat, x5 \in Nat
  <2>13. QED
    BY <2>9, <2>12
<1>11. Pays(u, less)
  <2>1. u.count[Root] \in Nat
    BY <1>1 DEF Sound, TableValues, Tables
  <2>2. QED
    BY <1>1, <1>7, <1>8, <1>9, <1>10, <2>1 DEF Pays
<1>12. QED
  BY <1>1, <1>3, <1>11 DEF u, less, lowered

---------------------------------------------------------------------------
(* A reference's pages, one after the other                                *)

IsRef(ref) ==
    /\ ref.address \in Nat /\ ref.page_count \in Nat
    /\ PagesOf(ref) \subseteq Pages

(* The i-th page of a reference.                                           *)
PageAt(ref, i) == ref.address + i - 1

FirstPages(ref, i) == ref.address..ref.address + i - 1

(* The references to each page, with those of the first i pages of ref ... *)
PlusFirst(times, ref, i) ==
    [k \in Pages |-> IF k \in FirstPages(ref, i) THEN times[k] + 1 ELSE times[k]]

(* ... or without them.                                                    *)
LessFirst(times, ref, i) ==
    [k \in Pages |-> IF k \in FirstPages(ref, i) THEN times[k] - 1 ELSE times[k]]

(* The first i pages are one more than the first i - 1.                    *)
LEMMA NextPage ==
    ASSUME NEW ref, IsRef(ref), NEW i \in 1..ref.page_count
    PROVE  /\ PageAt(ref, i) \in Pages /\ PageAt(ref, i) \in PagesOf(ref)
           /\ PageAt(ref, i) \notin FirstPages(ref, i - 1)
           /\ \A k \in Pages : k \in FirstPages(ref, i) <=>
                                  k \in FirstPages(ref, i - 1) \/ k = PageAt(ref, i)
           /\ ref.address + (i - 1) = PageAt(ref, i)
<1>1. PICK a \in Nat, n \in Nat : a = ref.address /\ n = ref.page_count
  BY DEF IsRef
<1>2. PagesOf(ref) = a..a + n - 1 /\ PageAt(ref, i) = a + i - 1
      /\ FirstPages(ref, i) = a..a + i - 1 /\ FirstPages(ref, i - 1) = a..a + (i - 1) - 1
      /\ i \in 1..n
  BY <1>1 DEF PagesOf, PageAt, FirstPages
<1>3. a + i - 1 \in a..a + n - 1 /\ a + i - 1 \notin a..a + (i - 1) - 1
      /\ a + (i - 1) = a + i - 1
  BY <1>2
<1>4. \A k \in Nat : k \in a..a + i - 1 <=> k \in a..a + (i - 1) - 1 \/ k = a + i - 1
  BY <1>2
<1>5. QED
  BY <1>1, <1>2, <1>3, <1>4, PagesAreNumbers DEF IsRef

(* The tables while a reference's pages are put in.                        *)
LEMMA PutAllSteps ==
    ASSUME NEW t, Sound(t), NEW ref, IsRef(ref)
    PROVE  \E done :
              /\ done[0] = t /\ done[ref.page_count] = PutAll(t, ref)
              /\ \A i \in 1..ref.page_count :
                    done[i] = Put(done[i - 1], PageAt(ref, i))
<1>1. PICK n \in Nat : n = ref.page_count
  BY DEF IsRef
<1> DEFINE X == {u \in TableValues : Sound(u)}
           step == [i \in Nat |-> [u \in X |->
                      IF i \in 1..n THEN Put(u, PageAt(ref, i)) ELSE u]]
           Done(f) == f = [i \in 0..n |-> IF i = 0 THEN t ELSE Put(f[i - 1], PageAt(ref, i))]
<1>2. IsStep(X, step)
  <2>1. ASSUME NEW i \in Nat, NEW u \in X
        PROVE  (IF i \in 1..n THEN Put(u, PageAt(ref, i)) ELSE u) \in X
    <3>1. CASE i \in 1..n
      <4>1. PageAt(ref, i) \in Pages /\ Sound(u)
        BY <1>1, <3>1, NextPage
      <4>2. Sound(Put(u, PageAt(ref, i)))
        BY <4>1, PutSound
      <4>3. QED
        BY <3>1, <4>2 DEF Sound
    <3>2. CASE ~(i \in 1..n)
      BY <3>2
    <3>3. QED
      BY <3>1, <3>2
  <2> HIDE DEF X
  <2>2. QED
    BY <2>1 DEF IsStep
<1>3. t \in X
  BY DEF Sound
<1>4. \A i \in 1..n, u \in X : step[i][u] = Put(u, PageAt(ref, i))
  <2> HIDE DEF X
  <2>1. \A i \in 1..n : i \in Nat
    OBVIOUS
  <2>2. QED
    BY <2>1
<1> HIDE DEF X, step
<1>5. PICK f : Steps(X, t, step, n, f)
  BY <1>2, <1>3, StepsDefine
<1>6. Done(f)
  <2>1. f \in [0..n -> X] /\ f[0] = t /\ \A i \in 1..n : f[i] = step[i][f[i - 1]]
    BY <1>5 DEF Steps
  <2>2. ASSUME NEW i \in 0..n
        PROVE  f[i] = IF i = 0 THEN t ELSE Put(f[i - 1], PageAt(ref, i))
    <3>1. CASE i = 0
      BY <2>1, <3>1
    <3>2. CASE i # 0
      <4>1. i \in 1..n /\ i - 1 \in 0..n
        BY <3>2
      <4>2. QED
        BY <1>4, <2>1, <3>2, <4>1
    <3>3. QED
      BY <3>1, <3>2
  <2>3. QED
    BY <2>1, <2>2
<1> DEFINE done == CHOOSE g : Done(g)
<1>7. Done(done)
  BY <1>6
<1>8. PutAll(t, ref) = done[n]
  BY <1>1 DEF PutAll, PageAt
<1> HIDE DEF done
<1>9. done[0] = t /\ \A i \in 1..n : done[i] = Put(done[i - 1], PageAt(ref, i))
  <2>1. ASSUME NEW i \in 1..n
        PROVE  i \in 0..n /\ i # 0
    OBVIOUS
  <2>2. 0 \in 0..n
    OBVIOUS
  <2>3. QED
    BY <1>7, <2>1, <2>2
<1>10. QED
  BY <1>1, <1>8, <1>9

(* A reference's pages are put in.                                         *)
LEMMA PutAllPays ==
    ASSUME NEW t, Sound(t), NEW times \in [Pages -> Nat], Pays(t, times),
           NEW ref, IsRef(ref)
    PROVE  LET p == PutAll(t, ref)
               more == PlusFirst(times, ref, ref.page_count)
           IN Sound(p) /\ Pays(p, more) /\ (Matches(t, times) => Matches(p, more))
<1>1. PICK n \in Nat : n = ref.page_count
  BY DEF IsRef
<1>2. PICK done : /\ done[0] = t /\ done[n] = PutAll(t, ref)
                  /\ \A i \in 1..n : done[i] = Put(done[i - 1], PageAt(ref, i))
  BY <1>1, PutAllSteps
<1> DEFINE More(i) == PlusFirst(times, ref, i)
           Fine(i) == /\ Sound(done[i]) /\ Pays(done[i], More(i))
                      /\ Matches(t, times) => Matches(done[i], More(i))
           Good == {i \in 0..n : Fine(i)}
<1>3. \A i : More(i) \in [Pages -> Nat]
  BY DEF PlusFirst
<1>4. 0 \in Good
  <2>1. \A k \in Pages : k \notin FirstPages(ref, 0)
    <3>1. \A a \in Nat, k \in Nat : k \notin a..a + 0 - 1
      OBVIOUS
    <3>2. QED
      BY <3>1, PagesAreNumbers DEF FirstPages, IsRef
  <2>2. More(0) = times
    BY <2>1 DEF PlusFirst
  <2>3. QED
    BY <1>2, <2>2
<1>5. ASSUME NEW i \in 1..n, i - 1 \in Good
       PROVE  i \in Good
  <2> DEFINE k == PageAt(ref, i)
  <2>1. /\ k \in Pages /\ k \notin FirstPages(ref, i - 1)
        /\ \A j \in Pages : j \in FirstPages(ref, i) <=> j \in FirstPages(ref, i - 1) \/ j = k
    BY <1>1, NextPage
  <2> HIDE DEF k
  <2>2. OneMore(More(i - 1), k) = More(i)
    BY <2>1 DEF OneMore, PlusFirst
  <2>3. Fine(i - 1) /\ i \in 0..n
    BY <1>5
  <2> HIDE DEF More
  <2>4. done[i] = Put(done[i - 1], k)
    BY <1>2 DEF k
  <2>5. Fine(i)
    BY <1>3, <2>1, <2>2, <2>3, <2>4, PutPays
  <2>6. QED
    BY <2>3, <2>5
<1>6. Fine(n)
  <2>1. \A i \in 0..n : i \in Good
    <3> HIDE DEF Good
    <3>1. QED
      BY <1>4, <1>5, EveryIndex
  <2>2. QED
    BY <2>1
<1>7. QED
  BY <1>1, <1>2, <1>6

(* The tables while the pages of the oldest reference are deleted.         *)
LEMMA DeletingSteps ==
    ASSUME NEW t, Sound(t), NEW ref, IsRef(ref)
    PROVE  LET done == Deleting(t, ref)
           IN /\ done[0] = t
              /\ \A i \in 1..ref.page_count :
                    done[i] = Delete(done[i - 1], PageAt(ref, i))
<1>1. PICK n \in Nat : n = ref.page_count
  BY DEF IsRef
<1> DEFINE X == {u \in TableValues : Sound(u)}
           step == [i \in Nat |-> [u \in X |->
                      IF i \in 1..n THEN Delete(u, PageAt(ref, i)) ELSE u]]
           Done(f) == f = [i \in 0..n |-> IF i = 0 THEN t ELSE Delete(f[i - 1], PageAt(ref, i))]
<1>2. IsStep(X, step)
  <2>1. ASSUME NEW i \in Nat, NEW u \in X
        PROVE  (IF i \in 1..n THEN Delete(u, PageAt(ref, i)) ELSE u) \in X
    <3>1. CASE i \in 1..n
      <4>1. PageAt(ref, i) \in Pages /\ Sound(u)
        BY <1>1, <3>1, NextPage
      <4>2. Sound(Delete(u, PageAt(ref, i)))
        BY <4>1, DeleteSound
      <4>3. QED
        BY <3>1, <4>2 DEF Sound
    <3>2. CASE ~(i \in 1..n)
      BY <3>2
    <3>3. QED
      BY <3>1, <3>2
  <2> HIDE DEF X
  <2>2. QED
    BY <2>1 DEF IsStep
<1>3. t \in X
  BY DEF Sound
<1>4. \A i \in 1..n, u \in X : step[i][u] = Delete(u, PageAt(ref, i))
  <2> HIDE DEF X
  <2>1. \A i \in 1..n : i \in Nat
    OBVIOUS
  <2>2. QED
    BY <2>1
<1> HIDE DEF X, step
<1>5. PICK f : Steps(X, t, step, n, f)
  BY <1>2, <1>3, StepsDefine
<1>6. Done(f)
  <2>1. f \in [0..n -> X] /\ f[0] = t /\ \A i \in 1..n : f[i] = step[i][f[i - 1]]
    BY <1>5 DEF Steps
  <2>2. ASSUME NEW i \in 0..n
        PROVE  f[i] = IF i = 0 THEN t ELSE Delete(f[i - 1], PageAt(ref, i))
    <3>1. CASE i = 0
      BY <2>1, <3>1
    <3>2. CASE i # 0
      <4>1. i \in 1..n /\ i - 1 \in 0..n
        BY <3>2
      <4>2. QED
        BY <1>4, <2>1, <3>2, <4>1
    <3>3. QED
      BY <3>1, <3>2
  <2>3. QED
    BY <2>1, <2>2
<1> DEFINE done == CHOOSE g : Done(g)
<1>7. Done(done)
  BY <1>6
<1>8. Deleting(t, ref) = done
  BY <1>1 DEF Deleting, PageAt
<1> HIDE DEF done
<1>9. done[0] = t /\ \A i \in 1..n : done[i] = Delete(done[i - 1], PageAt(ref, i))
  <2>1. ASSUME NEW i \in 1..n
        PROVE  i \in 0..n /\ i # 0
    OBVIOUS
  <2>2. 0 \in 0..n
    OBVIOUS
  <2>3. QED
    BY <1>7, <2>1, <2>2
<1>10. QED
  BY <1>1, <1>8, <1>9

(* The pages of the oldest reference are deleted.                          *)
LEMMA DeleteAllPays ==
    ASSUME NEW t, Sound(t), NEW times \in [Pages -> Nat], Pays(t, times),
           NEW ref, IsRef(ref), \A k \in PagesOf(ref) : times[k] > 0
    PROVE  LET u == DeleteAll(t, ref)
               less == LessFirst(times, ref, ref.page_count)
           IN /\ Sound(u) /\ Pays(u, less)
              /\ Matches(t, times) /\ ~Dropped(t, ref) => Matches(u, less)
<1>1. PICK n \in Nat : n = ref.page_count
  BY DEF IsRef
<1> DEFINE done == Deleting(t, ref)
<1>2. DeleteAll(t, ref) = done[n]
  BY <1>1 DEF DeleteAll
<1>3. ASSUME ~Dropped(t, ref), NEW i \in 1..n, NEW k \in Pages,
              done[i - 1].value[k] > IF k = PageAt(ref, i) THEN 1 ELSE 0
       PROVE  ~(done[i].value[k] = 0)
  <2>1. QED
    BY <1>1, <1>3 DEF Dropped, PageAt
<1>4. done[0] = t /\ \A i \in 1..n : done[i] = Delete(done[i - 1], PageAt(ref, i))
  BY <1>1, DeletingSteps
<1> HIDE DEF done
<1> DEFINE Less(i) == LessFirst(times, ref, i)
           intactSo == Matches(t, times) /\ ~Dropped(t, ref)
           Fine(i) == /\ Sound(done[i]) /\ Pays(done[i], Less(i))
                      /\ intactSo => Matches(done[i], Less(i))
           Good == {i \in 0..n : Fine(i)}
<1>5. ASSUME NEW i \in 0..n
       PROVE  Less(i) \in [Pages -> Nat]
  <2>1. ASSUME NEW k \in Pages, k \in FirstPages(ref, i)
        PROVE  k \in PagesOf(ref)
    <3>1. \A a \in Nat, j \in Nat : j \in a..a + i - 1 => j \in a..a + n - 1
      OBVIOUS
    <3>2. QED
      BY <1>1, <2>1, <3>1, PagesAreNumbers DEF FirstPages, PagesOf, IsRef
  <2>2. \A k \in Pages : k \in FirstPages(ref, i) => times[k] - 1 \in Nat
    BY <2>1
  <2>3. QED
    BY <2>2 DEF LessFirst
<1>6. 0 \in Good
  <2>1. \A k \in Pages : k \notin FirstPages(ref, 0)
    <3>1. \A a \in Nat, k \in Nat : k \notin a..a + 0 - 1
      OBVIOUS
    <3>2. QED
      BY <3>1, PagesAreNumbers DEF FirstPages, IsRef
  <2>2. Less(0) = times
    BY <2>1 DEF LessFirst
  <2>3. QED
    BY <1>4, <2>2
<1>7. ASSUME NEW i \in 1..n, i - 1 \in Good
       PROVE  i \in Good
  <2> DEFINE k == PageAt(ref, i)
  <2>1. /\ k \in Pages /\ k \in PagesOf(ref) /\ k \notin FirstPages(ref, i - 1)
        /\ \A j \in Pages : j \in FirstPages(ref, i) <=> j \in FirstPages(ref, i - 1) \/ j = k
    BY <1>1, NextPage
  <2> HIDE DEF k
  <2>2. OneLess(Less(i - 1), k) = Less(i) /\ Less(i - 1)[k] > 0
    BY <2>1 DEF OneLess, LessFirst
  <2>3. Fine(i - 1) /\ i \in 0..n /\ i - 1 \in 0..n
    BY <1>7
  <2>4. Less(i - 1) \in [Pages -> Nat]
    BY <1>5, <2>3
  <2> HIDE DEF Less, intactSo
  <2>5. done[i] = Delete(done[i - 1], k)
    BY <1>4 DEF k
  <2> DEFINE before == done[i - 1]
             after == done[i]
             lowered == Lowered(before.value, k)
  <2>6. /\ Sound(after) /\ Pays(after, Less(i)) /\ Remains(lowered, after.value)
        /\ Matches(before, Less(i - 1)) /\ after.value = lowered => Matches(after, Less(i))
    BY <2>1, <2>2, <2>3, <2>4, <2>5, DeletePays
  <2>7. ASSUME intactSo
        PROVE  after.value = lowered
    <3>1. before.value \in [Pages -> Nat]
      BY <2>3 DEF Sound, TableValues
    <3>2. \A j \in Pages : before.value[j] > (IF j = k THEN 1 ELSE 0) => ~(after.value[j] = 0)
      BY <1>3, <2>7 DEF intactSo, k
    <3>3. ASSUME NEW j \in Pages
          PROVE  after.value[j] = lowered[j]
      <4>1. after.value[j] = lowered[j] \/ after.value[j] = 0
        BY <2>6 DEF Remains
      <4>2. lowered[j] = 0 \/ before.value[j] > IF j = k THEN 1 ELSE 0
        <5>1. before.value[j] \in Nat /\ before.value[k] \in Nat
          BY <2>1, <3>1
        <5>2. CASE j = k
          <6>1. lowered[j] = IF before.value[j] = 0 THEN 0 ELSE before.value[j] - 1
            BY <2>1, <3>1, <5>2 DEF Lowered
          <6>2. QED
            BY <5>1, <5>2, <6>1
        <5>3. CASE j # k
          <6>1. lowered[j] = before.value[j]
            BY <3>1, <5>3 DEF Lowered
          <6>2. QED
            BY <5>1, <5>3, <6>1
        <5>4. QED
          BY <5>2, <5>3
      <4>3. QED
        BY <3>2, <4>1, <4>2
    <3>4. after.value \in [Pages -> Nat]
      BY <2>6 DEF Remains
    <3>5. lowered = [j \in Pages |-> lowered[j]]
      BY <3>1 DEF Lowered
    <3> HIDE DEF lowered, after
    <3>6. QED
      BY <3>3, <3>4, <3>5
  <2>8. Fine(i)
    <3>1. intactSo => Matches(before, Less(i - 1))
      BY <2>3
    <3>2. QED
      BY <2>6, <2>7, <3>1
  <2>9. QED
    BY <2>3, <2>8
<1>8. Fine(n)
  <2>1. \A i \in 0..n : i \in Good
    <3> HIDE DEF Good
    <3>1. QED
      BY <1>6, <1>7, EveryIndex
  <2>2. QED
    BY <2>1
<1>9. QED
  BY <1>1, <1>2, <1>8

---------------------------------------------------------------------------
(* The window and its references                                           *)

(* How often the references of w refer to page k.                          *)
Indices(w, k) == {i \in DOMAIN w : k \in PagesOf(w[i])}
Times(w) == [k \in Pages |-> Cardinality(Indices(w, k))]

(* The pages of a reference are those its bytes lie in (windowset.c:70-81).*)
LEMMA PagesOfAccess ==
    ASSUME NEW a \in Accesses
    PROVE  /\ PagesOf(MemRef(a[1], a[2])) = TouchedBy(a)
           /\ IsRef(MemRef(a[1], a[2]))
           /\ MemRef(a[1], a[2]) \in [address : Nat, page_count : Nat]
<1> DEFINE ref == MemRef(a[1], a[2])
<1>1. /\ a[1] \in Nat /\ a[2] \in Nat \ {0} /\ AddressRange \in Nat
      /\ a[1] + a[2] <= AddressRange
  BY AccessesFit
<1>2. PICK p \in Nat \ {0} : p = page_size
  BY PageSizePositive
<1>3. PICK first \in Nat : first = a[1]
  BY <1>1
<1>4. PICK last \in Nat : last = a[1] + a[2] - 1 /\ first <= last
  BY <1>1, <1>3
<1>5. (a[1] + a[2] - 1) % AddressRange = last
  <2>1. last \in 0..AddressRange - 1 /\ AddressRange \in Nat \ {0} /\ 0 \in Nat
    BY <1>1, <1>4
  <2>2. (AddressRange * 0 + last) % AddressRange = last
    BY <2>1, Remainder
  <2>3. AddressRange * 0 + last = last
    BY ONLY <2>1
  <2>4. last % AddressRange = last
    BY ONLY <2>2, <2>3, Zenon
  <2>5. QED
    BY ONLY <1>4, <2>4, Zenon
<1> DEFINE low == first \div p
           high == last \div p
<1>6. ref = [address |-> low, page_count |-> high - low + 1]
  BY <1>2, <1>3, <1>5, PageSizePower DEF MemRef
<1>7. /\ low \in Nat /\ high \in Nat
      /\ first = p * low + (first % p) /\ first % p \in 0..p - 1
      /\ last = p * high + (last % p) /\ last % p \in 0..p - 1
  BY Division
<1> DEFINE Start(q) == p * q
<1>8. /\ \A q \in Nat : Start(q) \in Nat /\ Start(q + 1) = Start(q) + p
      /\ \A q, r \in Nat : q <= r => Start(q) <= Start(r)
  <2>1. \A q \in Nat : p * q \in Nat /\ p * (q + 1) = p * q + p
    OBVIOUS
  <2>2. ASSUME NEW q \in Nat, NEW r \in Nat, q <= r
        PROVE  p * q <= p * r
    <3>1. PICK d \in Nat : r = q + d
      BY <2>2
    <3>2. p * r = p * q + p * d /\ p * d \in Nat /\ p * q \in Nat
      BY <3>1
    <3>3. QED
      BY <3>2
  <2>3. QED
    BY <2>1, <2>2
<1>9. /\ Start(low) <= first /\ first < Start(low + 1)
      /\ Start(high) <= last /\ last < Start(high + 1)
  BY <1>7, <1>8
<1> HIDE DEF Start, low, high
<1>10. low <= high
  <2>1. SUFFICES ASSUME high + 1 <= low
                 PROVE  FALSE
    BY <1>7
  <2>2. Start(high + 1) <= Start(low)
    BY <1>7, <1>8, <2>1
  <2>3. last < first
    BY <1>7, <1>8, <1>9, <2>2
  <2>4. QED
    BY <1>4, <2>3
<1> HIDE DEF ref
<1>11. /\ ref.address = low /\ ref.page_count = high - low + 1
       /\ high - low + 1 \in Nat /\ low + (high - low + 1) - 1 = high
       /\ ref \in [address : Nat, page_count : Nat]
  BY <1>6, <1>7, <1>10
<1>12. PagesOf(ref) = low..high
  BY <1>7, <1>11 DEF PagesOf
<1>13. TouchedBy(a) = {b \div p : b \in first..last}
  BY <1>2, <1>3, <1>4 DEF TouchedBy
<1>14. ASSUME NEW b \in first..last
       PROVE  b \div p \in low..high
  <2>1. PICK q \in Nat : q = b \div p /\ Start(q) <= b /\ b < Start(q + 1)
    <3>1. b \in Nat
      OBVIOUS
    <3>2. b \div p \in Nat /\ b = p * (b \div p) + (b % p) /\ b % p \in 0..p - 1
      BY <3>1, Division
    <3>3. Start(b \div p) <= b /\ b < Start((b \div p) + 1)
      BY <1>8, <3>1, <3>2 DEF Start
    <3>4. QED
      BY <3>2, <3>3
  <2>2. ~(q + 1 <= low)
    <3>1. q + 1 <= low => Start(q + 1) <= Start(low)
      BY <1>7, <1>8
    <3>2. /\ Start(q + 1) \in Nat /\ Start(low) \in Nat /\ b \in Nat /\ first <= b
          /\ Start(low) <= first /\ b < Start(q + 1)
      BY <1>7, <1>8, <1>9, <2>1
    <3>3. ~(Start(q + 1) <= Start(low))
      BY ONLY <3>2, first \in Nat
    <3>4. QED
      BY ONLY <3>1, <3>3
  <2>3. ~(high + 1 <= q)
    <3>1. high + 1 <= q => Start(high + 1) <= Start(q)
      BY <1>7, <1>8
    <3>2. /\ Start(high + 1) \in Nat /\ Start(q) \in Nat /\ b \in Nat /\ b <= last
          /\ last < Start(high + 1) /\ Start(q) <= b
      BY <1>7, <1>8, <1>9, <2>1
    <3>3. ~(Start(high + 1) <= Start(q))
      BY ONLY <3>2, last \in Nat
    <3>4. QED
      BY ONLY <3>1, <3>3
  <2>4. QED
    BY <1>7, <2>1, <2>2, <2>3
<1>15. ASSUME NEW q \in low..high
       PROVE  \E b \in first..last : b \div p = q
  <2>1. q \in Nat /\ low <= q /\ q <= high
    BY <1>7
  <2>2. Start(q) <= Start(high) /\ Start(q) \in Nat /\ Start(q) <= last
    <3>1. Start(q) <= Start(high) /\ Start(q) \in Nat /\ Start(high) \in Nat
      BY <1>7, <1>8, <2>1
    <3>2. Start(q) <= last
      BY ONLY <3>1, <1>9, last \in Nat
    <3>3. QED
      BY ONLY <3>1, <3>2
  <2>3. CASE q = low
    <3>1. first \in first..last /\ first \div p = q
      BY <1>4, <2>3 DEF low
    <3>2. QED
      BY <3>1
  <2>4. CASE q # low
    <3>1. low + 1 <= q
      BY <1>7, <2>1, <2>4
    <3>2. Start(low + 1) <= Start(q)
      BY <1>7, <1>8, <2>1, <3>1
    <3>3. Start(q) \in first..last
      BY <1>7, <1>8, <1>9, <2>2, <3>2
    <3>4. Start(q) \div p = q
      <4>1. 0 \in 0..p - 1
        OBVIOUS
      <4>2. (p * q + 0) \div p = q
        BY <2>1, <4>1, Remainder
      <4>3. p * q + 0 = p * q
        BY ONLY <2>1, p \in Nat \ {0}
      <4>4. QED
        BY ONLY <4>2, <4>3, Zenon DEF Start
    <3>5. QED
      BY <3>3, <3>4
  <2>5. QED
    BY <2>3, <2>4
<1>16. {b \div p : b \in first..last} = low..high
  BY <1>14, <1>15
<1>17. TouchedBy(a) \subseteq Pages
  BY PagesSuffice DEF TouchedBy
<1>18. PagesOf(ref) = TouchedBy(a)
  BY <1>12, <1>13, <1>16
<1>19. IsRef(ref)
  BY <1>7, <1>11, <1>17, <1>18 DEF IsRef
<1>20. QED
  BY <1>11, <1>18, <1>19 DEF ref

(* The pages of a reference are all its first ones.                        *)
LEMMA AllFirst ==
    ASSUME NEW ref
    PROVE  PagesOf(ref) = FirstPages(ref, ref.page_count)
BY DEF PagesOf, FirstPages

(* The references to a page can be counted; none is left of an empty window*)
LEMMA TimesAre ==
    /\ \A w \in Seq(References) : /\ Times(w) \in [Pages -> Nat]
                                  /\ \A k : IsFiniteSet(Indices(w, k))
    /\ Times(<< >>) = [k \in Pages |-> 0]
<1>1. ASSUME NEW w \in Seq(References), NEW k
      PROVE  IsFiniteSet(Indices(w, k)) /\ Cardinality(Indices(w, k)) \in Nat
  <2>1. PICK n \in Nat : n = Len(w) /\ DOMAIN w = 1..n
    BY LenProperties
  <2>2. IsFiniteSet(1..n)
    <3>1. 1 \in Int /\ n \in Int
      OBVIOUS
    <3>2. QED
      BY <3>1, FS_Interval
  <2>3. Indices(w, k) \subseteq 1..n
    BY <2>1 DEF Indices
  <2>4. IsFiniteSet(Indices(w, k))
    BY <2>2, <2>3, FS_Subset
  <2>5. QED
    BY <2>4, FS_CardinalityType
<1>2. \A w \in Seq(References) : Times(w) \in [Pages -> Nat]
  BY <1>1 DEF Times
<1>3. \A k : Cardinality(Indices(<< >>, k)) = 0
  <2>1. \A k : Indices(<< >>, k) = {}
    BY DEF Indices
  <2>2. Cardinality({}) = 0
    BY FS_EmptySet
  <2>3. QED
    BY <2>1, <2>2
<1>4. QED
  BY <1>1, <1>2, <1>3 DEF Times

(* The pages of a reference are referred to once more after it.            *)
LEMMA TimesAppended ==
    ASSUME NEW w \in Seq(References), NEW ref \in References
    PROVE  Times(Append(w, ref)) = PlusFirst(Times(w), ref, ref.page_count)
<1>1. PICK n \in Nat : n = Len(w) /\ DOMAIN w = 1..n
  BY LenProperties
<1> DEFINE longer == Append(w, ref)
<1>2. /\ DOMAIN longer = 1..n + 1 /\ longer[n + 1] = ref
      /\ \A i \in 1..n : longer[i] = w[i]
  <2>1. longer \in Seq(References) /\ Len(longer) = n + 1
    BY <1>1, AppendProperties
  <2>2. DOMAIN longer = 1..Len(longer)
    BY <2>1, LenProperties
  <2>3. QED
    BY <1>1, <2>1, <2>2, AppendProperties
<1> HIDE DEF longer
<1>3. n + 1 \notin 1..n /\ \A i : i \in 1..n + 1 <=> i \in 1..n \/ i = n + 1
  OBVIOUS
<1>4. ASSUME NEW k \in Pages
      PROVE  Cardinality(Indices(longer, k)) =
                IF k \in PagesOf(ref) THEN Cardinality(Indices(w, k)) + 1
                                      ELSE Cardinality(Indices(w, k))
  <2>1. CASE k \in PagesOf(ref)
    <3>1. Indices(longer, k) = Indices(w, k) \cup {n + 1}
      BY <1>1, <1>2, <1>3, <2>1 DEF Indices
    <3>2. IsFiniteSet(Indices(w, k)) /\ n + 1 \notin Indices(w, k)
      BY <1>1, <1>3, TimesAre DEF Indices
    <3>3. QED
      BY <2>1, <3>1, <3>2, FS_AddElement
  <2>2. CASE k \notin PagesOf(ref)
    <3>1. Indices(longer, k) = Indices(w, k)
      BY <1>1, <1>2, <1>3, <2>2 DEF Indices
    <3>2. QED
      BY <2>2, <3>1
  <2>3. QED
    BY <2>1, <2>2
<1>5. QED
  BY <1>4, AllFirst DEF longer, Times, PlusFirst

(* The pages of the oldest reference are referred to once less without it. *)
LEMMA TimesOfTail ==
    ASSUME NEW w \in Seq(References), w # << >>
    PROVE  /\ Times(Tail(w)) = LessFirst(Times(w), Head(w), Head(w).page_count)
           /\ \A k \in Pages : k \in PagesOf(Head(w)) => Times(w)[k] > 0
<1>1. PICK n \in Nat : n = Len(w) /\ n # 0 /\ DOMAIN w = 1..n
  BY LenProperties, EmptySeq
<1> DEFINE rest == Tail(w)
           first == Head(w)
<1>2. /\ rest \in Seq(References) /\ DOMAIN rest = 1..n - 1 /\ first = w[1]
      /\ \A i \in 1..n - 1 : rest[i] = w[i + 1]
  <2>1. rest \in Seq(References) /\ Len(rest) = n - 1 /\ first = w[1]
    BY <1>1, HeadTailProperties
  <2>2. DOMAIN rest = 1..Len(rest)
    BY <2>1, LenProperties
  <2>3. QED
    BY <1>1, <2>1, <2>2, HeadTailProperties
<1> HIDE DEF rest, first
<1>3. ASSUME NEW k \in Pages
      PROVE  /\ Cardinality(Indices(w, k)) \in Nat /\ Cardinality(Indices(rest, k)) \in Nat
             /\ Cardinality(Indices(w, k)) =
                   IF k \in PagesOf(first) THEN Cardinality(Indices(rest, k)) + 1
                                           ELSE Cardinality(Indices(rest, k))
  <2> DEFINE S == Indices(rest, k)
             T == {i + 1 : i \in S}
  <2>1. IsFiniteSet(S) /\ S \subseteq 1..n - 1
    BY <1>2, TimesAre DEF Indices
  <2>2. Cardinality(T) = Cardinality(S) /\ IsFiniteSet(T)
    <3> DEFINE f == [i \in S |-> i + 1]
    <3>1. f \in Bijection(S, T)
      BY <2>1 DEF Bijection, Injection, Surjection, IsInjective
    <3> HIDE DEF S, T
    <3>2. ExistsBijection(S, T)
      BY <3>1 DEF ExistsBijection
    <3>3. QED
      BY <2>1, <3>2, FS_Bijection
  <2>3. \A j \in 1..n : j # 1 => j - 1 \in 1..n - 1 /\ j - 1 + 1 = j
    BY <1>1
  <2>4. \A i \in 1..n - 1 : i + 1 \in 1..n /\ i + 1 # 1
    BY <1>1
  <2>5. \A j \in 1..n : j # 1 => (j \in T <=> j \in Indices(w, k))
    <3>1. ASSUME NEW j \in 1..n, j # 1
          PROVE  j \in T <=> j \in Indices(w, k)
      <4>1. j - 1 \in 1..n - 1 /\ j - 1 + 1 = j
        BY <2>3, <3>1
      <4>2. rest[j - 1] = w[j]
        BY <1>2, <4>1
      <4>3. j - 1 \in S <=> j \in Indices(w, k)
        BY <1>1, <1>2, <4>1, <4>2 DEF Indices
      <4>4. j \in T <=> j - 1 \in S
        <5>1. ASSUME NEW i \in S, j = i + 1
              PROVE  i = j - 1
          BY <2>1, <5>1
        <5>2. QED
          BY <4>1, <5>1
      <4>5. QED
        BY <4>3, <4>4
    <3>2. QED
      BY <3>1
  <2>6. T \subseteq 1..n /\ 1 \notin T
    BY <2>1, <2>4
  <2>7. 1 \in 1..n /\ Indices(w, k) \subseteq 1..n
    BY <1>1 DEF Indices
  <2>8. 1 \in Indices(w, k) <=> k \in PagesOf(first)
    BY <1>1, <1>2, <2>7 DEF Indices
  <2> HIDE DEF S, T
  <2>9. Cardinality(S) \in Nat
    BY <2>1, FS_CardinalityType
  <2>10. CASE k \in PagesOf(first)
    <3>1. \A j \in 1..n : j \in Indices(w, k) <=> j \in T \cup {1}
      BY <2>5, <2>8, <2>10
    <3>2. T \cup {1} \subseteq 1..n
      BY <2>6, <2>7
    <3>3. Indices(w, k) = T \cup {1}
      BY ONLY <2>7, <3>1, <3>2
    <3>4. Cardinality(T \cup {1}) = Cardinality(T) + 1
      BY <2>2, <2>6, FS_AddElement
    <3>5. Cardinality(Indices(w, k)) = Cardinality(S) + 1
      BY <2>2, <3>3, <3>4
    <3>6. PICK x \in Nat, y \in Nat : /\ x = Cardinality(Indices(w, k))
                                      /\ y = Cardinality(S) /\ x = y + 1
      BY <2>9, <3>5
    <3>7. y = Cardinality(Indices(rest, k))
      BY <3>6 DEF S
    <3>8. QED
      BY <2>10, <3>6, <3>7
  <2>11. CASE k \notin PagesOf(first)
    <3>1. \A j \in 1..n : j \in Indices(w, k) <=> j \in T
      BY <2>5, <2>6, <2>8, <2>11
    <3>2. Indices(w, k) = T
      BY ONLY <2>6, <2>7, <3>1
    <3>3. QED
      BY <2>2, <2>9, <2>11, <3>2 DEF S
  <2>12. QED
    BY <2>10, <2>11
<1>4. ASSUME NEW k \in Pages
      PROVE  /\ Cardinality(Indices(rest, k)) =
                   IF k \in PagesOf(first) THEN Cardinality(Indices(w, k)) - 1
                                           ELSE Cardinality(Indices(w, k))
             /\ k \in PagesOf(first) => Cardinality(Indices(w, k)) > 0
  <2>1. PICK x \in Nat, y \in Nat : /\ x = Cardinality(Indices(w, k))
                                    /\ y = Cardinality(Indices(rest, k))
                                    /\ x = IF k \in PagesOf(first) THEN y + 1 ELSE y
    BY <1>3
  <2>2. QED
    BY <2>1
<1>5. QED
  BY <1>4, AllFirst DEF rest, first, Times, LessFirst

---------------------------------------------------------------------------
(* The window set                                                          *)

(* The table holds the references of w, each page as often as it should    *)
(* unless keys were dropped.                                               *)
TableHolds(t, w, whole) ==
    /\ Sound(t) /\ Pays(t, Times(w))
    /\ whole => Matches(t, Times(w))

(* What every step keeps: the queue and the table hold the same window.    *)
WindowHolds(w) == QueueHolds(w) /\ TableHolds(hashtable, w, intact)

WindowInv ==
    /\ \E w : WindowHolds(w)
    /\ mem_ref_count \in 0..MaxAccesses
    /\ over \in BOOLEAN
    /\ intact \in BOOLEAN

(* A reference is put into the table, and the one that leaves a full window*)
(* is deleted from it.                                                     *)
LEMMA InsertHolds ==
    ASSUME NEW a \in Accesses, NEW w, WindowHolds(w), intact \in BOOLEAN,
           window_set_insert(a[1], a[2])
    PROVE  LET longer == Append(w, MemRef(a[1], a[2]))
               next == IF Len(w) = window_size THEN Tail(longer) ELSE longer
           IN /\ TableHolds(hashtable', next, intact')
              /\ intact' \in BOOLEAN /\ (intact' => intact)
<1> DEFINE ref == MemRef(a[1], a[2])
           longer == Append(w, ref)
           next == IF Len(w) = window_size THEN Tail(longer) ELSE longer
           long == enqueue(queue, ref)
           full == PutAll(hashtable, ref)
<1>1. ref \in References
  BY DEF References
<1>2. \A r \in References : IsRef(r)
  BY PagesOfAccess DEF References
<1>3. QueueHolds(w) /\ TableHolds(hashtable, w, intact)
  BY DEF WindowHolds
<1>4. /\ w \in Seq(References) /\ longer \in Seq(References)
      /\ longer # << >>
      /\ Overfull(long) <=> Len(w) = window_size
      /\ Len(w) = window_size => oldest(long) = Head(longer)
  <2>1. w \in Seq(References)
    BY <1>3 DEF QueueHolds
  <2>2. longer # << >>
    BY <1>1, <2>1, AppendProperties
  <2>3. QED
    BY <1>3, <2>1, <2>2, InsertSlides
<1>5. TableHolds(full, longer, intact)
  <2>1. Times(longer) = PlusFirst(Times(w), ref, ref.page_count)
    <3> HIDE DEF ref
    <3>1. QED
      BY <1>1, <1>4, TimesAppended
  <2>2. Times(w) \in [Pages -> Nat]
    BY <1>4, TimesAre
  <2>3. IsRef(ref) /\ Sound(hashtable) /\ Pays(hashtable, Times(w))
    BY <1>1, <1>2, <1>3 DEF TableHolds
  <2>4. intact => Matches(hashtable, Times(w))
    BY <1>3 DEF TableHolds
  <2> HIDE DEF ref, longer
  <2>5. QED
    BY <2>1, <2>2, <2>3, <2>4, PutAllPays DEF TableHolds
<1>6. CASE Len(w) = window_size
  <2> DEFINE first == Head(longer)
  <2>1. /\ hashtable' = DeleteAll(full, first)
        /\ intact' = (intact /\ ~Dropped(full, first))
    BY <1>4, <1>6 DEF window_set_insert
  <2>2. first \in References
    BY <1>4, HeadTailProperties
  <2>3. /\ Times(Tail(longer)) = LessFirst(Times(longer), first, first.page_count)
        /\ \A k \in Pages : k \in PagesOf(first) => Times(longer)[k] > 0
    BY <1>4, TimesOfTail
  <2>4. IsRef(first) /\ \A k \in PagesOf(first) : Times(longer)[k] > 0
    BY <1>2, <2>2, <2>3 DEF IsRef
  <2>5. Times(longer) \in [Pages -> Nat]
    BY <1>4, TimesAre
  <2>6. Sound(full) /\ Pays(full, Times(longer)) /\ (intact => Matches(full, Times(longer)))
    BY <1>5 DEF TableHolds
  <2> HIDE DEF first, longer, full
  <2>7. /\ Sound(hashtable') /\ Pays(hashtable', Times(Tail(longer)))
        /\ Matches(full, Times(longer)) /\ ~Dropped(full, first)
              => Matches(hashtable', Times(Tail(longer)))
    BY <2>1, <2>3, <2>4, <2>5, <2>6, DeleteAllPays
  <2>8. TableHolds(hashtable', Tail(longer), intact')
    BY <2>1, <2>6, <2>7 DEF TableHolds
  <2>9. intact' \in BOOLEAN /\ (intact' => intact)
    BY <2>1
  <2>10. QED
    BY <1>6, <2>8, <2>9 DEF longer
<1>7. CASE Len(w) # window_size
  <2>1. hashtable' = full /\ intact' = intact
    BY <1>4, <1>7 DEF window_set_insert
  <2>2. QED
    BY <1>5, <1>7, <2>1
<1>8. QED
  BY <1>6, <1>7

(* An empty table holds an empty window.                                   *)
LEMMA EmptyHolds == \A whole : TableHolds(EmptyTable, << >>, whole)
<1>1. Times(<< >>) = [k \in Pages |-> 0]
  BY TimesAre
<1>2. Kept([k \in Pages |-> 0]) = {} /\ Owed([k \in Pages |-> 0], [k \in Pages |-> 0]) = {}
  BY DEF Kept, Owed
<1>3. Cardinality({}) = 0
  BY FS_EmptySet
<1>4. QED
  BY <1>1, <1>2, <1>3, EmptySound DEF TableHolds, Pays, Matches

(* The queue and the table hold the same window in every state.            *)
LEMMA WindowInductive == Spec => []WindowInv
<1>1. Init => WindowInv
  <2>1. SUFFICES ASSUME Init
                 PROVE  WindowInv
    OBVIOUS
  <2>2. Len(<< >>) = 0 /\ << >> \in Seq(References) /\ 0 <= window_size
    BY WindowPositive
  <2>3. WindowHolds(<< >>)
    BY <2>1, <2>2, NewHolds, EmptyHolds DEF Init, QueueHolds, WindowHolds
  <2>4. 0 \in 0..MaxAccesses
    BY TraceEnds
  <2>5. mem_ref_count = 0 /\ over = FALSE /\ intact = TRUE
    BY <2>1 DEF Init
  <2>6. QED
    BY <2>3, <2>4, <2>5 DEF WindowInv
<1>2. WindowInv /\ [Next]_vars => WindowInv'
  <2>1. SUFFICES ASSUME WindowInv, [Next]_vars
                 PROVE  WindowInv'
    OBVIOUS
  <2>2. PICK w : WindowHolds(w)
    BY <2>1 DEF WindowInv
  <2>3. /\ mem_ref_count \in 0..MaxAccesses /\ over \in BOOLEAN /\ intact \in BOOLEAN
        /\ MaxAccesses \in Nat
    BY <2>1, TraceEnds DEF WindowInv
  <2>4. ASSUME NextReference
        PROVE  mem_ref_count' \in 0..MaxAccesses /\ over' = FALSE /\ UNCHANGED over
    BY <2>3, <2>4 DEF NextReference
  <2>5. CASE SkipReference
    <3>1. UNCHANGED <<queue, over, hashtable, intact>> /\ NextReference
      BY <2>5 DEF SkipReference, NextReference
    <3>2. WindowHolds(w)'
      BY <2>2, <3>1 DEF WindowHolds, QueueHolds
    <3>3. QED
      BY <2>3, <2>4, <3>1, <3>2 DEF WindowInv
  <2>6. CASE InsertReference
    <3>1. PICK a \in Accesses : window_set_insert(a[1], a[2])
      BY <2>6 DEF InsertReference
    <3>2. mem_ref_count' \in 0..MaxAccesses /\ over' = FALSE
      BY <2>4, <2>6 DEF InsertReference
    <3> DEFINE longer == Append(w, MemRef(a[1], a[2]))
               next == IF Len(w) = window_size THEN Tail(longer) ELSE longer
    <3>3. next \in Seq(References) /\ Holds(queue', next) /\ Len(next) <= window_size
      BY <2>2, <3>1, InsertSlides DEF WindowHolds
    <3>4. TableHolds(hashtable', next, intact') /\ intact' \in BOOLEAN
      BY <2>2, <2>3, <3>1, InsertHolds
    <3> HIDE DEF next
    <3>5. WindowHolds(next)'
      BY <3>2, <3>3, <3>4 DEF WindowHolds, QueueHolds
    <3>6. QED
      BY <3>2, <3>4, <3>5 DEF WindowInv
  <2>7. CASE EndOfTrace
    <3>1. Holds(destroy_queue(queue), << >>)
      BY <2>2, DestroyHolds DEF WindowHolds, QueueHolds
    <3>2. Len(<< >>) = 0 /\ << >> \in Seq(References) /\ 0 <= window_size
      BY WindowPositive
    <3>3. /\ over' = TRUE /\ queue' = destroy_queue(queue) /\ hashtable' = EmptyTable
          /\ UNCHANGED <<mem_ref_count, intact>>
      BY <2>7 DEF EndOfTrace
    <3>4. WindowHolds(<< >>)'
      BY <3>1, <3>2, <3>3, EmptyHolds DEF QueueHolds, WindowHolds
    <3>5. QED
      BY <2>3, <3>3, <3>4 DEF WindowInv
  <2>8. CASE UNCHANGED vars
    BY <2>1, <2>8 DEF vars, WindowInv, WindowHolds, QueueHolds
  <2>9. QED
    BY <2>1, <2>5, <2>6, <2>7, <2>8 DEF Next
<1>3. QED
  BY <1>1, <1>2, PTL DEF Spec

(* Every variable has its type, the queue's references among them, and only*)
(* the way to an expanded bucket is expanded.                              *)
THEOREM WindowTyped == Spec => []TypeOK
<1>1. WindowInv => TypeOK
  <2>1. SUFFICES ASSUME WindowInv
                 PROVE  TypeOK
    OBVIOUS
  <2>2. PICK w : WindowHolds(w)
    BY <2>1 DEF WindowInv
  <2>3. w \in Seq(References) /\ Holds(queue, w) /\ Sound(hashtable)
    BY <2>2 DEF WindowHolds, QueueHolds, TableHolds
  <2>4. \A ref \in References : ref \in [address : Nat, page_count : Nat]
    BY PagesOfAccess DEF References
  <2>5. ASSUME NEW n \in DOMAIN queue.nodes
        PROVE  queue.nodes[n].value \in [address : Nat, page_count : Nat]
    <3>1. PICK path : HoldsAlong(queue, path, w)
      BY <2>3 DEF Holds
    <3>2. PICK i \in 1..Len(w) : n = path[i]
      BY <3>1 DEF HoldsAlong
    <3>3. queue.nodes[n] = [value |-> w[i],
                            head |-> IF i = Len(w) THEN NULL ELSE path[i + 1],
                            tail |-> IF i = 1 THEN NULL ELSE path[i - 1]]
      BY <3>1, <3>2 DEF HoldsAlong
    <3>4. queue.nodes[n].value = w[i]
      BY <3>3
    <3>5. w[i] \in References
      BY <2>3, ElementOfSeq
    <3>6. QED
      BY <2>4, <3>4, <3>5
  <2>6. /\ hashtable.value \in [Pages -> Nat] /\ hashtable.expanded \subseteq Buckets
        /\ hashtable.listed \in [Buckets -> 0..CountRange - 1]
        /\ hashtable.count \in [Tables -> Nat]
    BY <2>3 DEF Sound, TableValues
  <2>7. ASSUME NEW k \in Pages
        PROVE  \E l \in 0..Levels - 1 :
                  /\ At(k, l) \notin hashtable.expanded
                  /\ \A m \in 0..Levels - 1 : m < l <=> At(k, m) \in hashtable.expanded
    <3>1. PICK d \in 0..Levels - 1 : d = LeafLevel(hashtable, k)
      BY <2>3 DEF Sound, Way
    <3>2. \A m \in 0..Levels - 1 : At(k, m) \in hashtable.expanded <=> m < d
      BY <2>3, <3>1 DEF Sound, Way
    <3>3. ~(d < d)
      BY LevelsSuffice
    <3>4. QED
      BY <3>2, <3>3
  <2>8. QED
    BY <2>1, <2>5, <2>6, <2>7 DEF TypeOK, WindowInv
<1>2. QED
  BY <1>1, WindowInductive, PTL

(* The window is what the queue holds.                                     *)
LEMMA WindowIs ==
    ASSUME NEW w, WindowHolds(w)
    PROVE  Window = w /\ w \in Seq(References)
<1>1. w \in Seq(References) /\ Holds(queue, w)
  BY DEF WindowHolds, QueueHolds
<1>2. QED
  BY <1>1, HoldsValues DEF Window

(* The table counts its keys, and has each page once per reference of the  *)
(* window to it, until a merge drops a key: through every split, early     *)
(* split and merge, whatever the trace (windowset.c:84-90).                *)
THEOREM TableRight == Spec => []TableExact
<1>1. WindowInv => TableExact
  <2>1. SUFFICES ASSUME WindowInv, intact
                 PROVE  TableExact
    BY DEF TableExact, CountsMatchKeys, ValuesMatchWindow
  <2>2. PICK w : WindowHolds(w)
    BY <2>1 DEF WindowInv
  <2>3. hashtable.value = Times(w) /\ Exact(hashtable)
    BY <2>1, <2>2 DEF WindowHolds, TableHolds, Matches
  <2>4. Window = w
    BY <2>2, WindowIs
  <2>5. CountsMatchKeys
    BY <2>3 DEF CountsMatchKeys, Exact, Live, KeysIn
  <2>6. ValuesMatchWindow
    BY <2>3, <2>4 DEF ValuesMatchWindow, Times, Indices
  <2>7. QED
    BY <2>5, <2>6 DEF TableExact
<1>2. QED
  BY <1>1, WindowInductive, PTL

---------------------------------------------------------------------------
(* The lengths of the table's lists                                        *)

(* What the count of a list may lag by once that many pages were put.      *)
DriftOf(pages) == (SPLIT_SIZE + 1) * pages

(* Every page adds the same to it.                                         *)
LEMMA DriftGrows ==
    ASSUME NEW m \in Nat
    PROVE  /\ DriftOf(m) \in Nat /\ DriftOf(0) = 0
           /\ DriftOf(m + 1) = DriftOf(m) + SPLIT_SIZE + 1
           /\ \A n \in Nat : m <= n => DriftOf(m) <= DriftOf(n)
<1>1. PICK s \in Nat : s = SPLIT_SIZE
  BY TableSizes
<1>2. (s + 1) * m \in Nat /\ (s + 1) * 0 = 0 /\ (s + 1) * (m + 1) = (s + 1) * m + s + 1
  OBVIOUS
<1>3. ASSUME NEW n \in Nat, m <= n
      PROVE  (s + 1) * m <= (s + 1) * n
  <2>1. PICK d \in Nat : n = m + d
    <3>1. n - m \in Nat /\ n = m + (n - m)
      BY <1>3
    <3>2. QED
      BY <3>1
  <2>2. (s + 1) * (m + d) = (s + 1) * m + (s + 1) * d /\ (s + 1) * d \in Nat
    OBVIOUS
  <2>3. QED
    BY <1>2, <2>1, <2>2
<1>4. QED
  BY <1>1, <1>2, <1>3 DEF DriftOf

(* A table that is this short is short with more room to drift.            *)
LEMMA ShortLonger ==
    ASSUME NEW t, NEW drift \in Nat, NEW more \in Nat, drift <= more, Short(t, drift)
    PROVE  Short(t, more)
<1>1. ASSUME NEW b \in Buckets
      PROVE  Counted(t, b) \/ \E d \in SPLIT_SIZE + 1..more : Lags(t, b, d)
  <2>1. Counted(t, b) \/ \E d \in SPLIT_SIZE + 1..drift : Lags(t, b, d)
    BY DEF Short, ShortBut
  <2>2. QED
    BY <2>1, ShortStays
<1>2. QED
  BY <1>1 DEF Short, ShortBut

(* The table after a reference's pages are put in.                         *)
LEMMA PutAllShort ==
    ASSUME NEW t, Sound(t), NEW pages \in Nat, Short(t, DriftOf(pages)),
           NEW ref, IsRef(ref),
           CountRange > DriftOf(pages + ref.page_count) + SPLIT_SIZE
    PROVE  Sound(PutAll(t, ref)) /\ Short(PutAll(t, ref), DriftOf(pages + ref.page_count))
<1>1. PICK n \in Nat : n = ref.page_count
  BY DEF IsRef
<1>2. PICK done : /\ done[0] = t /\ done[n] = PutAll(t, ref)
                  /\ \A i \in 1..n : done[i] = Put(done[i - 1], PageAt(ref, i))
  BY <1>1, PutAllSteps
<1> DEFINE Good == {i \in 0..n : Sound(done[i]) /\ Short(done[i], DriftOf(pages + i))}
<1>3. 0 \in Good
  BY <1>2
<1>4. ASSUME NEW i \in 1..n, i - 1 \in Good
      PROVE  i \in Good
  <2> DEFINE k == PageAt(ref, i)
             drift == DriftOf(pages + (i - 1))
  <2>1. k \in Pages /\ done[i] = Put(done[i - 1], k)
    BY <1>1, <1>2, NextPage
  <2>2. Sound(done[i - 1]) /\ Short(done[i - 1], drift) /\ i \in 0..n
    BY <1>4
  <2>3. drift \in Nat /\ DriftOf(pages + i) = drift + SPLIT_SIZE + 1
    <3>1. pages + (i - 1) \in Nat /\ pages + (i - 1) + 1 = pages + i
      OBVIOUS
    <3>2. QED
      BY <3>1, DriftGrows
  <2>4. DriftOf(pages + i) <= DriftOf(pages + n)
    <3>1. pages + i \in Nat /\ pages + n \in Nat /\ pages + i <= pages + n
      OBVIOUS
    <3>2. QED
      BY <3>1, DriftGrows
  <2>5. CountRange > drift + SPLIT_SIZE
    <3>1. CountRange > DriftOf(pages + n) + SPLIT_SIZE
      BY <1>1
    <3>2. SPLIT_SIZE \in Nat /\ CountRange \in Nat
      BY TableSizes, CountRangeLarge
    <3>3. pages + n \in Nat
      OBVIOUS
    <3>4. DriftOf(pages + n) \in Nat
      BY <3>3, DriftGrows
    <3> HIDE DEF drift
    <3>5. QED
      BY <2>3, <2>4, <3>1, <3>2, <3>4
  <2> HIDE DEF k, drift
  <2>6. Sound(Put(done[i - 1], k)) /\ Short(Put(done[i - 1], k), drift + SPLIT_SIZE + 1)
    BY <2>1, <2>2, <2>3, <2>5, PutSound, PutShort
  <2>7. QED
    BY <2>1, <2>2, <2>3, <2>6
<1>5. n \in Good
  <2> HIDE DEF Good
  <2>1. \A i \in 0..n : i \in Good
    BY <1>3, <1>4, EveryIndex
  <2>2. QED
    BY <2>1
<1>6. QED
  BY <1>1, <1>2, <1>5

(* The table after the pages of the oldest reference are deleted.          *)
LEMMA DeleteAllShort ==
    ASSUME NEW t, Sound(t), NEW drift \in Nat, Short(t, drift), NEW ref, IsRef(ref)
    PROVE  Short(DeleteAll(t, ref), drift)
<1>1. PICK n \in Nat : n = ref.page_count
  BY DEF IsRef
<1> DEFINE done == Deleting(t, ref)
<1>2. DeleteAll(t, ref) = done[n]
  BY <1>1 DEF DeleteAll
<1>3. done[0] = t /\ \A i \in 1..n : done[i] = Delete(done[i - 1], PageAt(ref, i))
  BY <1>1, DeletingSteps
<1> HIDE DEF done
<1> DEFINE Good == {i \in 0..n : Sound(done[i]) /\ Short(done[i], drift)}
<1>4. 0 \in Good
  BY <1>3
<1>5. ASSUME NEW i \in 1..n, i - 1 \in Good
      PROVE  i \in Good
  <2>1. PageAt(ref, i) \in Pages
    BY <1>1, NextPage
  <2>2. Sound(done[i - 1]) /\ Short(done[i - 1], drift) /\ i \in 0..n
    BY <1>5
  <2>3. Sound(done[i]) /\ Short(done[i], drift)
    BY <1>3, <2>1, <2>2, DeleteSound, DeleteShort
  <2>4. QED
    BY <2>2, <2>3
<1>6. n \in Good
  <2> HIDE DEF Good
  <2>1. \A i \in 0..n : i \in Good
    BY <1>4, <1>5, EveryIndex
  <2>2. QED
    BY <2>1
<1>7. QED
  BY <1>2, <1>6

(* No reference has more than most pages, and the counts are wide enough   *)
(* for all that the trace can make them lag by.                            *)
Room(most) ==
    /\ \A a \in Accesses : MemRef(a[1], a[2]).page_count <= most
    /\ CountRange > DriftOf(most * MaxAccesses) + SPLIT_SIZE

(* A reference makes the counts lag by no more than its pages account for. *)
LEMMA InsertShort ==
    ASSUME NEW most \in Nat, Room(most), WindowInv, InsertReference,
           Short(hashtable, DriftOf(most * mem_ref_count))
    PROVE  Short(hashtable', DriftOf(most * mem_ref_count'))
<1>1. PICK a \in Accesses : window_set_insert(a[1], a[2])
  BY DEF InsertReference
<1>2. PICK w : WindowHolds(w)
  BY DEF WindowInv
<1> DEFINE ref == MemRef(a[1], a[2])
           long == enqueue(queue, ref)
           full == PutAll(hashtable, ref)
           more == DriftOf(most * mem_ref_count')
<1>3. PICK c \in Nat : /\ mem_ref_count = c /\ mem_ref_count' = c + 1
                       /\ c < MaxAccesses /\ MaxAccesses \in Nat
  BY TraceEnds DEF WindowInv, InsertReference, NextReference
<1>4. IsRef(ref) /\ ref.page_count \in Nat /\ ref.page_count <= most
  BY PagesOfAccess DEF Room, IsRef
<1> HIDE DEF ref
<1>5. PICK p \in Nat, q \in Nat, r \in Nat :
            /\ p = most * c /\ q = most * (c + 1) /\ r = most * MaxAccesses
            /\ q = p + most /\ q <= r
  <2>1. most * c \in Nat /\ most * (c + 1) = most * c + most
    OBVIOUS
  <2>2. PICK d \in Nat : MaxAccesses = c + 1 + d
    <3>1. MaxAccesses - (c + 1) \in Nat /\ MaxAccesses = c + 1 + (MaxAccesses - (c + 1))
      BY <1>3
    <3>2. QED
      BY <3>1
  <2>3. most * (c + 1 + d) = most * (c + 1) + most * d /\ most * d \in Nat
    OBVIOUS
  <2>4. PICK p \in Nat, e \in Nat : p = most * c /\ e = most * d
    BY <2>1, <2>3
  <2>5. most * (c + 1) = p + most /\ most * MaxAccesses = p + most + e
    BY <2>1, <2>2, <2>3, <2>4
  <2>6. p + most <= p + most + e /\ p + most \in Nat /\ p + most + e \in Nat
    OBVIOUS
  <2>7. QED
    BY <2>4, <2>5, <2>6
<1>6. PICK n \in Nat : n = p + ref.page_count /\ n <= q /\ n <= r
  BY <1>4, <1>5
<1>7. /\ more = DriftOf(q) /\ more \in Nat
      /\ DriftOf(n) \in Nat /\ DriftOf(n) <= DriftOf(q) /\ DriftOf(n) <= DriftOf(r)
      /\ DriftOf(r) \in Nat
  BY <1>3, <1>5, <1>6, DriftGrows
<1> HIDE DEF more
<1>8. CountRange > DriftOf(p + ref.page_count) + SPLIT_SIZE
  <2>1. CountRange > DriftOf(r) + SPLIT_SIZE
    BY <1>5 DEF Room
  <2>2. SPLIT_SIZE \in Nat /\ CountRange \in Nat
    BY TableSizes, CountRangeLarge
  <2>3. QED
    BY <1>6, <1>7, <2>1, <2>2
<1>9. Sound(full) /\ Short(full, more)
  <2>1. Sound(hashtable) /\ Short(hashtable, DriftOf(p))
    BY <1>2, <1>3, <1>5 DEF WindowHolds, TableHolds
  <2>2. Sound(full) /\ Short(full, DriftOf(n))
    BY <1>4, <1>6, <1>8, <2>1, PutAllShort
  <2> HIDE DEF full
  <2>3. QED
    BY <1>7, <2>2, ShortLonger
<1>10. \A u \in References : IsRef(u)
  BY PagesOfAccess DEF References
<1>11. Overfull(long) => IsRef(oldest(long))
  <2> DEFINE longer == Append(w, ref)
  <2>1. ref \in References
    BY DEF ref, References
  <2>2. w \in Seq(References) /\ QueueHolds(w)
    BY <1>2 DEF WindowHolds, QueueHolds
  <2>3. longer \in Seq(References) /\ longer # << >>
    BY <2>1, <2>2, AppendProperties
  <2>4. Overfull(long) => oldest(long) = Head(longer)
    BY <1>1, <2>2, InsertSlides DEF ref
  <2>5. Head(longer) \in References
    BY <2>3, HeadTailProperties
  <2>6. QED
    BY <1>10, <2>4, <2>5
<1>12. hashtable' = IF Overfull(long) THEN DeleteAll(full, oldest(long)) ELSE full
  BY <1>1 DEF window_set_insert, ref
<1> HIDE DEF long, full
<1>13. Short(hashtable', more)
  BY <1>7, <1>9, <1>11, <1>12, DeleteAllShort
<1>14. QED
  BY <1>13 DEF more

(* No list holds more than SPLIT_SIZE keys, although the count it is split *)
(* by runs away from its length, as long as that count does not come round *)
(* to where it started (linkedlist.c).                                     *)
THEOREM ListsStayShort ==
    ASSUME NEW CONSTANT most \in Nat, Room(most)
    PROVE  Spec => []ListsShort
<1> DEFINE ShortInv == WindowInv /\ Short(hashtable, DriftOf(most * mem_ref_count))
<1>1. \A c \in Nat : most * c \in Nat /\ DriftOf(most * c) \in Nat
  <2>1. \A c \in Nat : most * c \in Nat
    OBVIOUS
  <2>2. QED
    BY <2>1, DriftGrows
<1>2. WindowInv => mem_ref_count \in Nat
  BY TraceEnds DEF WindowInv
<1>3. \A c \in Nat : Short(EmptyTable, DriftOf(most * c))
  <2>1. ASSUME NEW c \in Nat
        PROVE  Short(EmptyTable, DriftOf(most * c))
    <3>1. PICK drift \in Nat : drift = DriftOf(most * c)
      BY <1>1
    <3>2. 0 \in Nat /\ 0 <= drift
      OBVIOUS
    <3>3. QED
      BY <3>1, <3>2, EmptyShort, ShortLonger
  <2>2. QED
    BY <2>1
<1>4. Init /\ WindowInv => ShortInv
  BY <1>2, <1>3 DEF Init
<1>5. ShortInv /\ WindowInv' /\ [Next]_vars => ShortInv'
  <2>1. SUFFICES ASSUME ShortInv, WindowInv', [Next]_vars
                 PROVE  Short(hashtable', DriftOf(most * mem_ref_count'))
    OBVIOUS
  <2>2. PICK c \in Nat : c = mem_ref_count
    BY <1>2, <2>1
  <2>3. CASE SkipReference
    <3>1. hashtable' = hashtable /\ mem_ref_count' = c + 1
      BY <2>2, <2>3 DEF SkipReference, NextReference
    <3>2. DriftOf(most * c) \in Nat /\ DriftOf(most * (c + 1)) \in Nat
      <4>1. c + 1 \in Nat
        OBVIOUS
      <4>2. QED
        BY <1>1, <4>1
    <3>3. DriftOf(most * c) <= DriftOf(most * (c + 1))
      <4>1. most * c \in Nat /\ most * (c + 1) = most * c + most
        OBVIOUS
      <4>2. PICK p \in Nat : p = most * c
        BY <4>1
      <4>3. p <= p + most /\ p + most \in Nat
        OBVIOUS
      <4>4. DriftOf(p) <= DriftOf(p + most)
        BY <4>3, DriftGrows
      <4>5. QED
        BY <4>1, <4>2, <4>4
    <3>4. Short(hashtable, DriftOf(most * c))
      BY <2>1, <2>2
    <3>5. Short(hashtable, DriftOf(most * (c + 1)))
      BY <3>2, <3>3, <3>4, ShortLonger
    <3>6. QED
      BY <3>1, <3>5
  <2>4. CASE InsertReference
    BY <2>1, <2>4, InsertShort
  <2>5. CASE EndOfTrace
    <3>1. hashtable' = EmptyTable /\ mem_ref_count' = mem_ref_count
      BY <2>5 DEF EndOfTrace
    <3>2. QED
      BY <1>3, <2>2, <3>1
  <2>6. CASE UNCHANGED vars
    <3>1. hashtable' = hashtable /\ mem_ref_count' = mem_ref_count
      BY <2>6 DEF vars
    <3>2. QED
      BY <2>1, <3>1
  <2>7. QED
    BY <2>1, <2>3, <2>4, <2>5, <2>6 DEF Next
<1>6. ShortInv => ListsShort
  <2>1. SUFFICES ASSUME ShortInv
                 PROVE  ListsShort
    OBVIOUS
  <2>2. PICK drift \in Nat : Short(hashtable, drift)
    BY <1>1, <1>2, <2>1
  <2>3. QED
    BY <2>2, ShortLengths DEF ListsShort
<1> HIDE DEF ShortInv
<1>7. QED
  BY <1>4, <1>5, <1>6, WindowInductive, PTL DEF Spec

(* The pages of a window's references, as the abstract window has them.    *)
PageSetsOf(w) == [i \in DOMAIN w |-> PagesOf(w[i])]

(* The size is the number of the window's pages while the table matches    *)
(* it, and never smaller.                                                  *)
LEMMA SizeIs ==
    ASSUME NEW w \in Seq(References), NEW t, NEW whole, TableHolds(t, w, whole)
    PROVE  LET pages == Cardinality(Promised!PagesIn(PageSetsOf(w)))
           IN /\ t.count[Root] >= pages
              /\ whole => t.count[Root] = pages
<1> DEFINE touched == Promised!PagesIn(PageSetsOf(w))
           times == Times(w)
<1>1. touched = {k \in Pages : times[k] > 0}
  <2>1. ASSUME NEW k \in Pages
        PROVE  times[k] > 0 <=> Indices(w, k) # {}
    <3>1. times[k] = Cardinality(Indices(w, k)) /\ IsFiniteSet(Indices(w, k))
      BY TimesAre DEF Times
    <3>2. Cardinality(Indices(w, k)) = 0 <=> Indices(w, k) = {}
      BY <3>1, FS_EmptySet
    <3>3. Cardinality(Indices(w, k)) \in Nat
      BY <3>1, FS_CardinalityType
    <3>4. QED
      BY <3>1, <3>2, <3>3
  <2>2. \A i \in DOMAIN w : PagesOf(w[i]) \subseteq Pages
    <3>1. \A r \in References : IsRef(r)
      BY PagesOfAccess DEF References
    <3>2. \A i \in DOMAIN w : w[i] \in References
      BY LenProperties, ElementOfSeq
    <3>3. QED
      BY <3>1, <3>2 DEF IsRef
  <2>3. touched = UNION {PagesOf(w[i]) : i \in DOMAIN w}
    BY DEF Promised!PagesIn, PageSetsOf
  <2>4. \A k : k \in touched <=> \E i \in DOMAIN w : k \in PagesOf(w[i])
    BY <2>3
  <2> HIDE DEF touched, times
  <2>5. \A k \in Pages : k \in touched <=> times[k] > 0
    BY <2>1, <2>4 DEF Indices
  <2>6. touched \subseteq Pages
    BY <2>2, <2>4
  <2>7. QED
    BY <2>5, <2>6
<1>2. times \in [Pages -> Nat]
  BY TimesAre
<1>3. Sound(t) /\ Pays(t, times) /\ (whole => t.value = times /\ Exact(t))
  BY DEF TableHolds, Matches
<1>4. t.value \in [Pages -> Nat] /\ t.count[Root] \in Nat
  BY <1>3 DEF Sound, TableValues, Tables
<1> HIDE DEF touched, times
<1>5. touched \subseteq Kept(t.value) \cup Owed(t.value, times)
  <2>1. \A k \in Pages : times[k] > 0 => t.value[k] > 0 \/ times[k] > t.value[k]
    BY <1>2, <1>4
  <2>2. QED
    BY <1>1, <2>1 DEF Kept, Owed
<1>6. t.count[Root] >= Cardinality(touched)
  <2> DEFINE K == Kept(t.value)
             O == Owed(t.value, times)
  <2>1. /\ IsFiniteSet(K) /\ IsFiniteSet(O) /\ IsFiniteSet(K \cup O)
        /\ Cardinality(K) \in Nat /\ Cardinality(O) \in Nat
        /\ Cardinality(touched) <= Cardinality(K \cup O) /\ Cardinality(touched) \in Nat
        /\ Cardinality(K \cap O) \in Nat
    <3>1. K \subseteq Pages /\ O \subseteq Pages
      BY DEF Kept, Owed
    <3>2. K \cup O \subseteq Pages /\ K \cap O \subseteq Pages /\ touched \subseteq Pages
      BY <1>1, <3>1
    <3>3. QED
      BY <1>5, <3>1, <3>2, PagesCount
  <2>2. Cardinality(K \cup O) = Cardinality(K) + Cardinality(O) - Cardinality(K \cap O)
    BY <2>1, FS_Union
  <2>3. t.count[Root] >= Cardinality(K) + Cardinality(O)
    BY <1>3 DEF Pays
  <2> HIDE DEF K, O
  <2>4. QED
    BY <1>4, <2>1, <2>2, <2>3
<1>7. whole => t.count[Root] = Cardinality(touched)
  <2>1. SUFFICES ASSUME whole
                 PROVE  t.count[Root] = Cardinality(touched)
    OBVIOUS
  <2>2. t.value = times /\ t.count[Root] = Cardinality(KeysIn(t, Root))
    BY <1>3, <2>1 DEF Exact, Live
  <2>3. KeysIn(t, Root) = touched
    <3>1. \A k \in Pages : In(Root, k)
      BY PagesAreNumbers, InIs
    <3>2. QED
      BY <1>1, <2>2, <3>1 DEF KeysIn, Present
  <2>4. QED
    BY <2>2, <2>3
<1>8. QED
  BY <1>6, <1>7 DEF touched

(* The abstract window: as long, and a reference's pages for a reference.  *)
LEMMA PageSetsAre ==
    ASSUME NEW w \in Seq(References)
    PROVE  /\ PageSetsOf(w) \in Seq(SUBSET Pages) /\ Len(PageSetsOf(w)) = Len(w)
           /\ \A i \in 1..Len(w) : PageSetsOf(w)[i] = PagesOf(w[i])
<1>1. PICK n \in Nat : n = Len(w) /\ DOMAIN w = 1..n
  BY LenProperties
<1>2. PageSetsOf(w) = [i \in 1..n |-> PagesOf(w[i])]
  BY <1>1 DEF PageSetsOf
<1>3. \A i \in 1..n : PagesOf(w[i]) \in SUBSET Pages
  <2>1. \A r \in References : IsRef(r)
    BY PagesOfAccess DEF References
  <2>2. \A i \in 1..n : w[i] \in References
    BY <1>1, ElementOfSeq
  <2>3. QED
    BY <2>1, <2>2 DEF IsRef
<1>4. PageSetsOf(w) \in [1..n -> SUBSET Pages]
  BY <1>2, <1>3
<1>5. PageSetsOf(w) \in Seq(SUBSET Pages) /\ Len(PageSetsOf(w)) = n
  <2> DEFINE p == PageSetsOf(w)
             S == SUBSET Pages
  <2>1. p \in [1..n -> S]
    BY <1>4
  <2> HIDE DEF p, S
  <2>2. p \in Seq(S)
    BY <2>1, SeqDef
  <2>3. PICK m \in Nat : m = Len(p) /\ 1..m = 1..n
    BY <2>1, <2>2, LenProperties
  <2>4. Len(p) = n
    <3>1. (m \in 1..m => m \in 1..n) /\ (n \in 1..n => n \in 1..m)
      BY <2>3
    <3>2. m = n
      BY ONLY <3>1, m \in Nat, n \in Nat
    <3>3. QED
      BY <2>3, <3>2
  <2>5. QED
    BY <2>2, <2>4 DEF p, S
<1>6. QED
  BY <1>1, <1>2, <1>5

(* The abstract window slides as the references do.                        *)
LEMMA PageSetsSlide ==
    ASSUME NEW w \in Seq(References), NEW ref \in References, Len(w) <= window_size
    PROVE  LET longer == Append(w, ref)
               next == IF Len(w) = window_size THEN Tail(longer) ELSE longer
           IN PageSetsOf(next) = Promised!Slide(PageSetsOf(w), PagesOf(ref))
<1> DEFINE longer == Append(w, ref)
           p == PageSetsOf(w)
           S == SUBSET Pages
<1>1. PICK n \in Nat : n = Len(w)
  BY LenProperties
<1>2. /\ longer \in Seq(References) /\ longer # << >> /\ Len(longer) = n + 1
      /\ longer[n + 1] = ref /\ \A i \in 1..n : longer[i] = w[i]
  BY <1>1, AppendProperties
<1>3. p \in Seq(S) /\ Len(p) = n /\ \A i \in 1..n : p[i] = PagesOf(w[i])
  BY <1>1, PageSetsAre
<1>4. PagesOf(ref) \in S
  BY PagesOfAccess DEF References, IsRef
<1> HIDE DEF longer, p, S
<1>5. /\ Append(p, PagesOf(ref)) \in Seq(S) /\ Len(Append(p, PagesOf(ref))) = n + 1
      /\ \A i \in 1..n : Append(p, PagesOf(ref))[i] = p[i]
      /\ Append(p, PagesOf(ref))[n + 1] = PagesOf(ref)
  BY <1>3, <1>4, AppendProperties
<1>6. /\ PageSetsOf(longer) \in Seq(S) /\ Len(PageSetsOf(longer)) = n + 1
      /\ \A i \in 1..n + 1 : PageSetsOf(longer)[i] = PagesOf(longer[i])
  BY <1>2, PageSetsAre DEF S
<1>7. PageSetsOf(longer) = Append(p, PagesOf(ref))
  <2>1. ASSUME NEW i \in 1..n + 1
        PROVE  PageSetsOf(longer)[i] = Append(p, PagesOf(ref))[i]
    <3>1. CASE i = n + 1
      BY <1>2, <1>5, <1>6, <3>1
    <3>2. CASE i # n + 1
      <4>1. i \in 1..n
        BY <3>2
      <4>2. QED
        BY <1>2, <1>3, <1>5, <1>6, <4>1
    <3>3. QED
      BY <3>1, <3>2
  <2>2. QED
    BY <1>5, <1>6, <2>1, SeqEqual
<1>8. CASE n = window_size
  <2>1. p # << >>
    BY <1>3, <1>8, WindowPositive
  <2>2. Tail(Append(p, PagesOf(ref))) = Append(Tail(p), PagesOf(ref))
    BY <1>3, <2>1, HeadTailAppend
  <2>3. PageSetsOf(Tail(longer)) = Tail(PageSetsOf(longer))
    <3>1. Tail(longer) \in Seq(References) /\ Len(Tail(longer)) = n
          /\ \A i \in 1..n : Tail(longer)[i] = longer[i + 1]
      BY <1>2, HeadTailProperties
    <3>2. /\ PageSetsOf(Tail(longer)) \in Seq(S) /\ Len(PageSetsOf(Tail(longer))) = n
          /\ \A i \in 1..n : PageSetsOf(Tail(longer))[i] = PagesOf(Tail(longer)[i])
      BY <3>1, PageSetsAre DEF S
    <3>3. PageSetsOf(longer) # << >>
      BY <1>6
    <3>4. /\ Tail(PageSetsOf(longer)) \in Seq(S) /\ Len(Tail(PageSetsOf(longer))) = n
          /\ \A i \in 1..n : Tail(PageSetsOf(longer))[i] = PageSetsOf(longer)[i + 1]
      BY <1>6, <3>3, HeadTailProperties
    <3>5. \A i \in 1..n : i + 1 \in 1..n + 1
      OBVIOUS
    <3>6. \A i \in 1..n : PageSetsOf(Tail(longer))[i] = Tail(PageSetsOf(longer))[i]
      BY <1>6, <3>1, <3>2, <3>4, <3>5
    <3>7. QED
      BY <3>2, <3>4, <3>6, SeqEqual
  <2>4. Promised!Slide(p, PagesOf(ref)) = Append(Tail(p), PagesOf(ref))
    BY <1>3, <1>8 DEF Promised!Slide
  <2>5. QED
    BY <1>1, <1>7, <1>8, <2>2, <2>3, <2>4 DEF longer, p
<1>9. CASE n # window_size
  <2>1. n < window_size
    BY <1>1, <1>9, WindowPositive
  <2>2. Promised!Slide(p, PagesOf(ref)) = Append(p, PagesOf(ref))
    BY <1>3, <2>1 DEF Promised!Slide
  <2>3. QED
    BY <1>1, <1>7, <1>9, <2>2 DEF longer, p
<1>10. QED
  BY <1>8, <1>9

(* The abstract module counts as this one does.                            *)
LEMMA SameCardinality == \A S : Promised!Cardinality(S) = Cardinality(S)
BY DEF Cardinality, Promised!Cardinality

(* The window set implements the working set: its window is the pages of   *)
(* the last references byte by byte, and its size exact while no key was   *)
(* dropped and never too small (windowset.c:66-99).                        *)
THEOREM WorkingSetImplemented == Spec => ImplementsWorkingSet
<1> DEFINE abstract == <<PageSetsOf(Window), get_window_set_size, intact>>
<1>1. PageSetsOf(<< >>) = << >>
  BY DEF PageSetsOf
<1>2. Init => Promised!Init
  <2>1. SUFFICES ASSUME Init
                 PROVE  Promised!Init
    OBVIOUS
  <2>2. Len(<< >>) = 0 /\ << >> \in Seq(References) /\ 0 <= window_size
    BY WindowPositive
  <2>3. WindowHolds(<< >>)
    BY <2>1, <2>2, NewHolds, EmptyHolds DEF Init, QueueHolds, WindowHolds
  <2>4. Window = << >>
    BY <2>3, WindowIs
  <2>5. PageSetsOf(Window) = << >>
    BY <1>1, <2>4
  <2>6. get_window_set_size = 0 /\ intact = TRUE
    BY <2>1, EmptySound DEF Init, get_window_set_size
  <2>7. QED
    BY <2>5, <2>6 DEF Promised!Init, PageSetsOf
<1>3. WindowInv /\ WindowInv' /\ [Next]_vars => [Promised!Next]_abstract
  <2>1. SUFFICES ASSUME WindowInv, [Next]_vars
                 PROVE  Promised!Next \/ UNCHANGED abstract
    OBVIOUS
  <2>2. PICK w : WindowHolds(w)
    BY <2>1 DEF WindowInv
  <2>3. Window = w /\ w \in Seq(References) /\ intact \in BOOLEAN
    BY <2>1, <2>2, WindowIs DEF WindowInv
  <2>4. CASE UNCHANGED <<queue, hashtable, intact>>
    BY <2>4 DEF Window, get_window_set_size
  <2>5. CASE InsertReference
    <3>1. PICK a \in Accesses : window_set_insert(a[1], a[2])
      BY <2>5 DEF InsertReference
    <3>2. over' = FALSE
      BY <2>5 DEF InsertReference, NextReference
    <3> DEFINE ref == MemRef(a[1], a[2])
               longer == Append(w, ref)
               next == IF Len(w) = window_size THEN Tail(longer) ELSE longer
    <3>3. next \in Seq(References) /\ Holds(queue', next) /\ Len(next) <= window_size
      BY <2>2, <3>1, InsertSlides DEF WindowHolds
    <3>4. TableHolds(hashtable', next, intact') /\ (intact' => intact)
      BY <2>2, <2>3, <3>1, InsertHolds
    <3>5. PageSetsOf(next) = Promised!Slide(PageSetsOf(w), PagesOf(ref))
      <4>1. ref \in References /\ Len(w) <= window_size
        BY <2>2 DEF References, WindowHolds, QueueHolds
      <4> HIDE DEF ref
      <4>2. QED
        BY <2>3, <4>1, PageSetsSlide
    <3>6. PagesOf(ref) = TouchedBy(a)
      BY PagesOfAccess
    <3> HIDE DEF next, ref
    <3>7. Window' = next
      BY <3>3, HoldsValues DEF Window
    <3>8. /\ get_window_set_size' >= Cardinality(Promised!PagesIn(PageSetsOf(next)))
          /\ intact' => get_window_set_size' = Cardinality(Promised!PagesIn(PageSetsOf(next)))
      BY <3>3, <3>4, SizeIs DEF get_window_set_size
    <3>9. PageSetsOf(Window)' = Promised!Slide(PageSetsOf(Window), TouchedBy(a))
      BY <2>3, <3>5, <3>6, <3>7 DEF PageSetsOf
    <3>10. PageSetsOf(Window)' = PageSetsOf(next)
      BY <3>7 DEF PageSetsOf
    <3>11. /\ get_window_set_size' >= Cardinality(Promised!PagesIn(PageSetsOf(Window)'))
           /\ intact' =>
                 get_window_set_size' = Cardinality(Promised!PagesIn(PageSetsOf(Window)'))
      BY <3>8, <3>10, Zenon
    <3>12. Promised!Insert(TouchedBy(a))
      BY <3>4, <3>9, <3>11, SameCardinality DEF Promised!Insert, PageSetsOf
    <3>13. QED
      BY <3>12 DEF Promised!Next
  <2>6. CASE EndOfTrace
    <3>1. Holds(destroy_queue(queue), << >>)
      BY <2>2, DestroyHolds DEF WindowHolds, QueueHolds
    <3>2. << >> \in Seq(References) /\ Holds(queue', << >>)
      BY <2>6, <3>1 DEF EndOfTrace
    <3>3. Window' = << >>
      BY <3>2, HoldsValues DEF Window
    <3>4. PageSetsOf(Window)' = << >>
      BY <1>1, <3>3 DEF PageSetsOf
    <3>5. get_window_set_size' = 0 /\ UNCHANGED intact
      BY <2>6, EmptySound DEF EndOfTrace, get_window_set_size
    <3>6. QED
      BY <3>4, <3>5 DEF Promised!Next, Promised!End, PageSetsOf
  <2>7. QED
    <3>1. SkipReference => UNCHANGED <<queue, hashtable, intact>>
      BY DEF SkipReference
    <3>2. UNCHANGED vars => UNCHANGED <<queue, hashtable, intact>>
      BY DEF vars
    <3>3. QED
      BY <2>1, <2>4, <2>5, <2>6, <3>1, <3>2 DEF Next
<1>4. QED
  BY <1>2, <1>3, WindowInductive, PTL DEF Spec, ImplementsWorkingSet, Promised!Spec, PageSetsOf

==========================================================================
