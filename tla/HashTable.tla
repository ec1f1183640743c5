---------------------------- MODULE HashTable ----------------------------
(***************************************************************************)
(* The multi-level hash table of valws379 (hashtable.c, linkedlist.c):     *)
(* put() and delete() on a table value.  A key goes to the bucket its low  *)
(* digit selects; a bucket whose list grows past SPLIT_SIZE becomes a      *)
(* table of the next digit, and a table that shrinks below MERGE_SIZE goes *)
(* back to a list.  A bucket is <<level, residue>>, the residue being the  *)
(* digits its keys share; the table in a bucket has the bucket's name, and *)
(* the outermost one the name Root.                                        *)
(***************************************************************************)
EXTENDS Integers, FiniteSets

CONSTANTS
    Pages,          \* the keys
    TABLE_SIZE, SPLIT_SIZE, MERGE_SIZE,
    Levels,         \* levels 0..Levels-1 can be reached by the keys
    CountRange      \* a list's count is unsigned: it wraps at this value

ASSUME PagesAreNumbers == Pages \subseteq Nat /\ IsFiniteSet(Pages)
ASSUME TableSizes ==
    /\ TABLE_SIZE \in Nat /\ TABLE_SIZE > 1
    /\ MERGE_SIZE \in Nat /\ SPLIT_SIZE \in Nat
    /\ 0 < MERGE_SIZE /\ MERGE_SIZE <= SPLIT_SIZE

(* The keys that differ in their lowest digits: TABLE_SIZE to that power.  *)
Span[digits \in 0..Levels] == IF digits = 0 THEN 1 ELSE TABLE_SIZE * Span[digits - 1]

ASSUME LevelsSuffice ==
    /\ Levels \in Nat \ {0}
    /\ \A p, q \in Pages : p % Span[Levels] = q % Span[Levels] => p = q
ASSUME CountRangeLarge == CountRange \in Nat /\ CountRange > 2 * SPLIT_SIZE + 2

(* Where key k is at a level; at level -1 every key is in the Root.        *)
At(k, level) == <<level, k % Span[level + 1]>>

Root == <<-1, 0>>
Buckets == UNION {{<<l, r>> : r \in 0..Span[l + 1] - 1} : l \in 0..Levels - 1}
Tables == {Root} \cup Buckets

Wrap(n) == n % CountRange

(* A table: the value of each key (0: not in it), the buckets that are     *)
(* expanded, count of each list and count of each table.  A key is always  *)
(* in the list of the first bucket on its way that is not expanded.        *)
EmptyTable ==
    [value    |-> [k \in Pages |-> 0],
     expanded |-> {},
     listed   |-> [b \in Buckets |-> 0],
     count    |-> [t \in Tables |-> 0]]

Present(t) == {k \in Pages : t.value[k] > 0}

LeafLevel(t, k) ==
    CHOOSE l \in 0..Levels - 1 :
        At(k, l) \notin t.expanded /\ \A m \in 0..l - 1 : At(k, m) \in t.expanded

Leaf(t, k) == At(k, LeafLevel(t, k))

(* The tables a key is counted in.                                         *)
OnWay(t, k) == {At(k, l) : l \in -1..LeafLevel(t, k) - 1}

In(b, k) == At(k, b[1]) = b
Under(b) == {c \in Buckets : c[1] > b[1] /\ c[2] % Span[b[1] + 1] = b[2]}
Child(b) == {c \in Under(b) : c[1] = b[1] + 1}

---------------------------------------------------------------------------
(* sll_add(): one more of the key, a node for it if there was none.  Every *)
(* table on the way notices that the count below it has changed.           *)
Added(t, k) ==
    IF t.value[k] > 0
    THEN [t EXCEPT !.value[k] = @ + 1]
    ELSE [t EXCEPT !.value[k] = 1,
                   !.listed[Leaf(t, k)] = Wrap(@ + 1),
                   !.count = [c \in Tables |-> IF c \in OnWay(t, k) THEN @[c] + 1
                                                                    ELSE @[c]]]

(* Mutant: the last of a key is counted out of every table twice.          *)
RemovedTwice(t, k) ==
    IF t.value[k] = 0 THEN t
    ELSE [t EXCEPT !.value[k] = @ - 1,
                   !.count = [c \in Tables |->
                                 IF t.value[k] = 1 /\ c \in OnWay(t, k) THEN @[c] - 2
                                                                       ELSE @[c]]]

(* Mutant: the outermost table alone notices that the count has changed.   *)
RemovedFromRoot(t, k) ==
    IF t.value[k] = 0 THEN t
    ELSE [t EXCEPT !.value[k] = @ - 1,
                   !.count[Root] = IF t.value[k] = 1 THEN @ - 1 ELSE @]

(* sll_remove(): one less of the key; the node goes with the last.         *)
Removed(t, k) ==
    CASE t.value[k] = 0 -> t
      [] t.value[k] > 1 -> [t EXCEPT !.value[k] = @ - 1]
      [] t.value[k] = 1 ->
            [t EXCEPT !.value[k] = 0,
                      !.listed[Leaf(t, k)] = Wrap(@ - 1),
                      !.count = [c \in Tables |-> IF c \in OnWay(t, k) THEN @[c] - 1
                                                                       ELSE @[c]]]

(* The list of bucket b is popped into a new table.  sll_pop() lowers the  *)
(* list's count twice, once itself and once in sll_delete(), so that it    *)
(* ends below zero.  Lists in the new table that grow past SPLIT_SIZE are  *)
(* split in turn, as soon as they do.                                      *)
Split(t, b) ==
    LET moved == {k \in Present(t) : In(b, k)}
        Here(c) == Cardinality({k \in moved : In(c, k)})
        split == {c \in Under(b) : Here(c) > SPLIT_SIZE}
    IN [t EXCEPT
          !.expanded = @ \cup {b} \cup split,
          !.listed = [c \in Buckets |->
              CASE c = b         -> Wrap(@[b] - 2 * Cardinality(moved))
                [] c \in split   -> Wrap(-(SPLIT_SIZE + 1))
                [] c \in Under(b) \ split
                                 -> IF \E d \in split \cup {b} : c \in Child(d)
                                    THEN Here(c) ELSE 0
                [] OTHER         -> @[c]],
          !.count = [c \in Tables |->
              IF c \in split \cup {b} THEN Here(c) ELSE @[c]]]

(* Mutant: a list is split one key late.                                   *)
PutSplitLate(t, k) ==
    LET added == Added(t, k)
    IN IF added.listed[Leaf(t, k)] > SPLIT_SIZE + 1 THEN Split(added, Leaf(t, k))
                                                   ELSE added

(* put(): the list the key is added to is split when its count says so.    *)
Put(t, k) ==
    LET added == Added(t, k)
    IN IF added.listed[Leaf(t, k)] > SPLIT_SIZE THEN Split(added, Leaf(t, k))
                                               ELSE added

(* The lists of the inner table's buckets are popped into the bucket's own *)
(* list.  Keys in the inner table's own inner tables are in none of these  *)
(* lists: they are freed with the table.                                   *)
Merge(t, b) ==
    LET inner == {k \in Present(t) : In(b, k)}
        kept  == {k \in inner : Leaf(t, k) \in Child(b)}
    IN [t EXCEPT
          !.value = [k \in Pages |-> IF k \in inner \ kept THEN 0 ELSE @[k]],
          !.expanded = @ \ ({b} \cup Under(b)),
          !.listed = [c \in Buckets |->
              CASE c = b         -> Wrap(@[b] + Cardinality(kept))
                [] c \in Under(b) -> 0
                [] OTHER         -> @[c]],
          !.count = [c \in Tables |-> IF c \in {b} \cup Under(b) THEN 0 ELSE @[c]]]

(* On the way back from the leaf every table that has become small is      *)
(* merged, the innermost first.                                            *)
Delete(t, k) ==
    LET depth == LeafLevel(t, k)
        back[l \in 0..depth] ==
            IF l = depth THEN Removed(t, k)
            ELSE IF back[l + 1].count[At(k, l)] < MERGE_SIZE
                 THEN Merge(back[l + 1], At(k, l))
                 ELSE back[l + 1]
    IN back[0]
==========================================================================
