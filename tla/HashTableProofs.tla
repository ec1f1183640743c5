-------------------------- MODULE HashTableProofs --------------------------
(***************************************************************************)
(* The hash table, proved for every table size and set of keys: what put() *)
(* and delete() keep of a table's shape and of its counts.                 *)
(***************************************************************************)
EXTENDS HashTable, FiniteSetTheorems, Recursion

---------------------------------------------------------------------------
(* Digits                                                                  *)

(* Quotient and remainder are determined by what they add up to.           *)
LEMMA Remainder ==
    ASSUME NEW b \in Nat \ {0}, NEW q \in Nat, NEW r \in 0..b - 1
    PROVE  (b * q + r) % b = r /\ (b * q + r) \div b = q
  OBVIOUS

(* Quotient and remainder add up to the number.                            *)
LEMMA Division ==
    ASSUME NEW a \in Nat, NEW b \in Nat \ {0}
    PROVE  /\ a \div b \in Nat /\ a % b \in 0..b - 1
           /\ a = b * (a \div b) + (a % b)
  OBVIOUS

(* The low digits of the low digits are the low digits.                    *)
LEMMA RemainderOfRemainder ==
    ASSUME NEW a \in Nat, NEW b \in Nat \ {0}, NEW c \in Nat \ {0}
    PROVE  (a % (b * c)) % b = a % b
<1>1. PICK d \in Nat \ {0} : d = b * c
  OBVIOUS
<1> DEFINE x == a % d
           q == a \div d
<1>2. q \in Nat /\ x \in Nat /\ a = d * q + x
  BY Division
<1> HIDE DEF x, q
<1> DEFINE y == x % b
           z == x \div b
<1>3. z \in Nat /\ y \in 0..b - 1 /\ x = b * z + y
  BY <1>2, Division
<1> HIDE DEF y, z
<1>4. c * q + z \in Nat /\ a = b * (c * q + z) + y
  BY <1>1, <1>2, <1>3
<1>5. a % b = y
  BY <1>3, <1>4, Remainder
<1>6. QED
  BY <1>1, <1>5 DEF x, y

(* The spans are positive and each is TABLE_SIZE times the one before.     *)
LEMMA Spans ==
    /\ \A n \in 0..Levels : Span[n] \in Nat \ {0}
    /\ 0 \in 0..Levels /\ Span[0] = 1
    /\ \A n \in 1..Levels : Span[n] = TABLE_SIZE * Span[n - 1]
<1> DEFINE X == Nat \ {0}
           step == [i \in Nat |-> [x \in X |-> TABLE_SIZE * x]]
<1>1. TABLE_SIZE \in X /\ Levels \in Nat /\ 1 \in X
  BY TableSizes, LevelsSuffice
<1>2. step \in [Nat -> [X -> X]]
  BY <1>1
<1>3. \A i \in Nat, x \in X : step[i][x] = TABLE_SIZE * x
  OBVIOUS
<1> HIDE DEF step
<1>4. PICK f : Steps(X, 1, step, Levels, f)
  <2>1. IsStep(X, step)
    BY <1>2 DEF IsStep
  <2> HIDE DEF X
  <2>2. QED
    BY <1>1, <2>1, StepsDefine
<1>5. f = [n \in 0..Levels |-> IF n = 0 THEN 1 ELSE TABLE_SIZE * f[n - 1]]
  <2>1. ASSUME NEW n \in 0..Levels
        PROVE  f[n] = IF n = 0 THEN 1 ELSE TABLE_SIZE * f[n - 1]
    <3>1. CASE n = 0
      BY <1>4, <3>1 DEF Steps
    <3>2. CASE n # 0
      <4>1. n \in 1..Levels /\ n - 1 \in 0..Levels /\ n \in Nat
        BY <1>1, <3>2
      <4>2. f[n - 1] \in X
        BY <1>4, <4>1 DEF Steps
      <4>3. QED
        BY <1>3, <1>4, <3>2, <4>1, <4>2 DEF Steps
    <3>3. QED
      BY <3>1, <3>2
  <2>2. f \in [0..Levels -> X]
    BY <1>4 DEF Steps
  <2>3. QED
    BY <2>1, <2>2
<1>6. Span = [n \in 0..Levels |-> IF n = 0 THEN 1 ELSE TABLE_SIZE * Span[n - 1]]
  BY <1>5 DEF Span
<1>7. /\ 0 \in 0..Levels /\ Span[0] = 1
      /\ \A n \in 1..Levels : Span[n] = TABLE_SIZE * Span[n - 1]
  BY <1>1, <1>6
<1> DEFINE Good == {n \in Nat : Span[n] \in X}
<1>8. \A n \in 0..Levels : n \in Good
  <2>1. 0 \in Good
    BY <1>7
  <2>2. \A n \in 1..Levels : n - 1 \in Good => n \in Good
    BY <1>1, <1>7
  <2> HIDE DEF Good
  <2>3. QED
    BY <1>1, <2>1, <2>2, EveryIndex
<1>9. QED
  BY <1>7, <1>8

(* The low digits of a number are the low digits of more of its digits.    *)
LEMMA FewerDigits ==
    ASSUME NEW l \in 0..Levels, NEW m \in 0..Levels, l <= m, NEW a \in Nat
    PROVE  (a % Span[m]) % Span[l] = a % Span[l]
<1>1. /\ \A n \in 0..Levels : Span[n] \in Nat \ {0}
      /\ \A n \in 1..Levels : Span[n] = TABLE_SIZE * Span[n - 1]
      /\ TABLE_SIZE \in Nat \ {0} /\ Levels \in Nat
  BY Spans, TableSizes, LevelsSuffice
<1> DEFINE Good == {i \in 0..Levels - l :
                      \A k \in Nat : (k % Span[l + i]) % Span[l] = k % Span[l]}
<1>2. 0 \in Good
  <2>1. ASSUME NEW k \in Nat
        PROVE  (k % Span[l + 0]) % Span[l] = k % Span[l]
    <3>1. PICK s \in Nat \ {0} : s = Span[l]
      BY <1>1
    <3>2. k % s \in 0..s - 1 /\ k % s = s * 0 + (k % s) /\ 0 \in Nat
      BY Division
    <3>3. (s * 0 + (k % s)) % s = k % s
      BY <3>2, Remainder
    <3>4. (k % s) % s = k % s
      BY ONLY <3>2, <3>3, Zenon
    <3>5. l + 0 = l
      OBVIOUS
    <3>6. QED
      BY <3>1, <3>4, <3>5
  <2>2. QED
    BY <1>1, <2>1
<1>3. ASSUME NEW i \in 1..Levels - l, i - 1 \in Good
      PROVE  i \in Good
  <2>1. l + (i - 1) \in 0..Levels /\ l + i \in 1..Levels /\ (l + i) - 1 = l + (i - 1)
    BY <1>1
  <2>2. PICK s \in Nat \ {0} : s = Span[l + (i - 1)]
    BY <1>1, <2>1
  <2>3. Span[l + i] = TABLE_SIZE * s
    BY <1>1, <2>1, <2>2
  <2>4. Span[l + i] = s * TABLE_SIZE
    BY <1>1, <2>3
  <2>5. ASSUME NEW k \in Nat
        PROVE  (k % Span[l + i]) % Span[l] = k % Span[l]
    <3>1. PICK w \in Nat \ {0} : w = Span[l + i]
      BY <1>1, <2>1
    <3>2. (k % w) % s = k % s
      <4>1. (k % (s * TABLE_SIZE)) % s = k % s
        BY <1>1, RemainderOfRemainder
      <4>2. w = s * TABLE_SIZE
        BY <2>4, <3>1
      <4>3. QED
        BY ONLY <4>1, <4>2, Zenon
    <3>3. k % w \in Nat
      BY Division
    <3>4. ((k % w) % s) % Span[l] = (k % w) % Span[l] /\ (k % s) % Span[l] = k % Span[l]
      BY <1>3, <2>2, <3>3
    <3>5. QED
      BY <3>1, <3>2, <3>4
  <2>6. QED
    BY <2>5
<1>4. \A i \in 0..Levels - l : i \in Good
  <2>1. Levels - l \in Nat
    BY <1>1
  <2> HIDE DEF Good
  <2>2. QED
    BY <1>2, <1>3, <2>1, EveryIndex
<1>5. m - l \in 0..Levels - l /\ l + (m - l) = m
  BY <1>1
<1>6. QED
  BY <1>4, <1>5

---------------------------------------------------------------------------
(* A key's way through the tables                                          *)

(* Each bucket has a level and the digits of its keys.                     *)
LEMMA BucketIs ==
    ASSUME NEW b \in Buckets
    PROVE  b[1] \in 0..Levels - 1 /\ b[2] \in Nat /\ b = <<b[1], b[2]>>
<1>1. PICK l \in 0..Levels - 1 : b \in {<<l, r>> : r \in 0..Span[l + 1] - 1}
  BY DEF Buckets
<1>2. PICK r \in 0..Span[l + 1] - 1 : b = <<l, r>>
  BY <1>1
<1>3. r \in Nat
  BY Spans, LevelsSuffice
<1>4. QED
  BY <1>2, <1>3

(* A key is in one bucket of each level.                                   *)
LEMMA AtIs ==
    ASSUME NEW k \in Nat
    PROVE  /\ At(k, -1) = Root
           /\ \A l \in 0..Levels - 1 : At(k, l) \in Buckets /\ At(k, l)[1] = l
<1>1. At(k, -1) = Root
  <2>1. Span[-1 + 1] = 1 /\ k % 1 = 0
    BY Spans
  <2>2. QED
    BY <2>1 DEF At, Root
<1>2. ASSUME NEW l \in 0..Levels - 1
      PROVE  At(k, l) \in Buckets /\ At(k, l)[1] = l
  <2>1. l + 1 \in 0..Levels
    BY LevelsSuffice
  <2>2. PICK s \in Nat \ {0} : s = Span[l + 1]
    BY <2>1, Spans
  <2>3. k % s \in 0..s - 1
    BY Division
  <2>4. <<l, k % s>> \in {<<l, r>> : r \in 0..Span[l + 1] - 1}
    BY <2>2, <2>3
  <2>5. QED
    BY <2>2, <2>4 DEF At, Buckets
<1>3. QED
  BY <1>1, <1>2

(* A key is in a bucket when it has the bucket's digits.                   *)
LEMMA InIs ==
    ASSUME NEW k \in Nat
    PROVE  /\ In(Root, k)
           /\ \A b \in Buckets : In(b, k) <=> k % Span[b[1] + 1] = b[2]
           /\ \A b \in Buckets : In(b, k) <=> b = At(k, b[1])
           /\ \A l \in 0..Levels - 1, j \in Nat : In(At(j, l), k) <=> At(j, l) = At(k, l)
<1>1. In(Root, k)
  <2>1. Root[1] = -1
    BY DEF Root
  <2>2. QED
    BY <2>1, AtIs DEF In
<1>2. ASSUME NEW b \in Buckets
      PROVE  In(b, k) <=> k % Span[b[1] + 1] = b[2]
  <2>1. b = <<b[1], b[2]>>
    BY BucketIs
  <2>2. QED
    BY <2>1 DEF In, At
<1>3. ASSUME NEW l \in 0..Levels - 1, NEW j \in Nat
      PROVE  In(At(j, l), k) <=> At(j, l) = At(k, l)
  <2>1. At(j, l)[1] = l
    BY AtIs
  <2>2. QED
    BY <2>1 DEF In
<1>4. \A b \in Buckets : In(b, k) <=> b = At(k, b[1])
  BY DEF In
<1>5. QED
  BY <1>1, <1>2, <1>3, <1>4

(* What is under a bucket is the deeper buckets that share a key with it.  *)
LEMMA UnderIs ==
    ASSUME NEW b \in Buckets, NEW c \in Buckets, NEW k \in Nat, In(c, k)
    PROVE  c \in Under(b) <=> b[1] < c[1] /\ In(b, k)
<1>1. /\ b[1] + 1 \in 0..Levels /\ c[1] + 1 \in 0..Levels
      /\ c[1] > b[1] <=> b[1] < c[1]
      /\ b[1] < c[1] => b[1] + 1 <= c[1] + 1
  BY BucketIs, LevelsSuffice
<1>2. k % Span[c[1] + 1] = c[2]
  BY InIs
<1>3. b[1] < c[1] => c[2] % Span[b[1] + 1] = k % Span[b[1] + 1]
  BY <1>1, <1>2, FewerDigits
<1>4. In(b, k) <=> k % Span[b[1] + 1] = b[2]
  BY InIs
<1>5. QED
  BY <1>1, <1>3, <1>4 DEF Under

(* Two keys in one bucket are in one bucket at every level above it.       *)
LEMMA Together ==
    ASSUME NEW k \in Nat, NEW j \in Nat, NEW l \in 0..Levels - 1, NEW m \in 0..Levels - 1,
           l <= m, At(k, m) = At(j, m)
    PROVE  At(k, l) = At(j, l)
<1>1. At(k, m) \in Buckets /\ At(k, l) \in Buckets /\ At(k, m)[1] = m /\ At(k, l)[1] = l
  BY AtIs
<1>2. CASE l = m
  BY <1>2
<1>3. CASE l < m
  <2>1. In(At(k, m), k) /\ In(At(k, l), k) /\ In(At(k, m), j)
    BY InIs
  <2>2. At(k, m) \in Under(At(k, l))
    BY <1>1, <1>3, <2>1, UnderIs
  <2>3. In(At(k, l), j)
    BY <1>1, <2>1, <2>2, UnderIs
  <2>4. QED
    BY <2>3, InIs
<1>4. QED
  BY <1>2, <1>3

(* No two keys of the table are in one bucket of the last level.           *)
LEMMA AloneAtLast ==
    ASSUME NEW k \in Pages, NEW j \in Pages, At(k, Levels - 1) = At(j, Levels - 1)
    PROVE  k = j
<1>1. Levels - 1 + 1 = Levels
  BY LevelsSuffice
<1>2. k % Span[Levels] = j % Span[Levels]
  BY <1>1 DEF At
<1>3. QED
  BY <1>2, LevelsSuffice

(* A key's leaf is the first bucket on its way that is not expanded.       *)
LEMMA LeafLevelIs ==
    ASSUME NEW t, NEW k, NEW d \in 0..Levels - 1,
           \A m \in 0..Levels - 1 : At(k, m) \in t.expanded <=> m < d
    PROVE  LeafLevel(t, k) = d
<1> DEFINE First(l) == /\ At(k, l) \notin t.expanded
                       /\ \A m \in 0..l - 1 : At(k, m) \in t.expanded
<1>1. Levels \in Nat
  BY LevelsSuffice
<1>2. First(d)
  <2>1. ~(d < d) /\ \A m \in 0..d - 1 : m \in 0..Levels - 1 /\ m < d
    BY <1>1
  <2>2. QED
    BY <2>1
<1>3. ASSUME NEW l \in 0..Levels - 1, First(l)
      PROVE  l = d
  <2>1. ~(l < d)
    BY <1>3
  <2>2. CASE d < l
    <3>1. d \in 0..l - 1 /\ ~(d < d)
      BY <1>1, <2>2
    <3>2. QED
      BY <1>3, <3>1
  <2>3. QED
    BY <1>1, <2>1, <2>2
<1>4. LeafLevel(t, k) = CHOOSE l \in 0..Levels - 1 : First(l)
  BY DEF LeafLevel
<1> HIDE DEF First
<1>5. QED
  BY <1>2, <1>3, <1>4

---------------------------------------------------------------------------
(* What put() and delete() keep of a table                                 *)

TableValues ==
    [value    : [Pages -> Nat],
     expanded : SUBSET Buckets,
     listed   : [Buckets -> 0..CountRange - 1],
     count    : [Tables -> Nat]]

(* The expanded buckets on a key's way are those above its leaf.           *)
Way(t, k) ==
    /\ LeafLevel(t, k) \in 0..Levels - 1
    /\ \A m \in 0..Levels - 1 : At(k, m) \in t.expanded <=> m < LeafLevel(t, k)

(* The list of a bucket of the last level counts the one key it can have.  *)
LastCounted(t, k) ==
    t.listed[At(k, Levels - 1)] =
        IF LeafLevel(t, k) = Levels - 1 /\ t.value[k] > 0 THEN 1 ELSE 0

Live(t) == {Root} \cup t.expanded

KeysIn(t, c) == {k \in Present(t) : In(c, k)}

(* No table counts fewer keys than it has.                                 *)
Covers(t) == \A c \in Live(t) : t.count[c] >= Cardinality(KeysIn(t, c))

Exact(t) == \A c \in Live(t) : t.count[c] = Cardinality(KeysIn(t, c))

Sound(t) ==
    /\ t \in TableValues
    /\ \A k \in Pages : Way(t, k) /\ LastCounted(t, k)
    /\ Covers(t)

(* A key is counted in the tables it is in.                                *)
LEMMA OnWayIs ==
    ASSUME NEW t, t.expanded \subseteq Buckets, NEW k \in Pages, Way(t, k)
    PROVE  \A c \in Tables : c \in OnWay(t, k) <=> c \in Live(t) /\ In(c, k)
<1>1. k \in Nat /\ Levels \in Nat
  BY PagesAreNumbers, LevelsSuffice
<1> DEFINE d == LeafLevel(t, k)
<1>2. d \in 0..Levels - 1 /\ \A m \in 0..Levels - 1 : At(k, m) \in t.expanded <=> m < d
  BY DEF Way
<1>3. OnWay(t, k) = {At(k, l) : l \in -1..d - 1}
  BY DEF OnWay
<1> HIDE DEF d
<1>4. \A l \in -1..d - 1 : l = -1 \/ (l \in 0..Levels - 1 /\ l < d)
  BY <1>1, <1>2
<1>5. ASSUME NEW c \in Tables, c \in OnWay(t, k)
      PROVE  c \in Live(t) /\ In(c, k)
  <2>1. PICK l \in -1..d - 1 : c = At(k, l)
    BY <1>3, <1>5
  <2>2. CASE l = -1
    BY <1>1, <2>1, <2>2, AtIs, InIs DEF Live
  <2>3. CASE l \in 0..Levels - 1 /\ l < d
    BY <1>1, <1>2, <2>1, <2>3, InIs DEF Live
  <2>4. QED
    BY <1>4, <2>2, <2>3
<1>6. ASSUME NEW c \in Tables, c \in Live(t), In(c, k)
      PROVE  c \in OnWay(t, k)
  <2>1. CASE c = Root
    <3>1. -1 \in -1..d - 1
      BY <1>1, <1>2
    <3>2. QED
      BY <1>1, <1>3, <2>1, <3>1, AtIs
  <2>2. CASE c \in t.expanded
    <3>1. c \in Buckets /\ c[1] \in 0..Levels - 1 /\ c = At(k, c[1])
      BY <1>1, <1>6, <2>2, BucketIs, InIs
    <3>2. c[1] < d
      BY <1>2, <2>2, <3>1
    <3>3. c[1] \in -1..d - 1
      BY <1>1, <1>2, <3>1, <3>2
    <3>4. QED
      BY <1>3, <3>1, <3>3
  <2>3. QED
    BY <1>6, <2>1, <2>2 DEF Live
<1>7. QED
  BY <1>5, <1>6

(* The keys of a table are finitely many; one more or less is counted so.  *)
LEMMA KeysCount ==
    ASSUME NEW t, NEW c
    PROVE  /\ IsFiniteSet(KeysIn(t, c)) /\ Cardinality(KeysIn(t, c)) \in Nat
           /\ \A k : k \notin KeysIn(t, c) =>
                 Cardinality(KeysIn(t, c) \cup {k}) = Cardinality(KeysIn(t, c)) + 1
           /\ \A k \in KeysIn(t, c) :
                 Cardinality(KeysIn(t, c) \ {k}) = Cardinality(KeysIn(t, c)) - 1
<1>1. KeysIn(t, c) \subseteq Pages
  BY DEF KeysIn, Present
<1>2. IsFiniteSet(KeysIn(t, c))
  BY <1>1, PagesAreNumbers, FS_Subset
<1>3. QED
  BY <1>2, FS_CardinalityType, FS_AddElement, FS_RemoveElement

(* One more of a key that is there is counted nowhere.                     *)
LEMMA AddedAgain ==
    ASSUME NEW t, Sound(t), NEW k \in Pages, t.value[k] > 0
    PROVE  LET a == Added(t, k)
           IN /\ Sound(a) /\ (Exact(t) => Exact(a))
              /\ a.value = [t.value EXCEPT ![k] = @ + 1]
              /\ a.expanded = t.expanded /\ a.listed = t.listed /\ a.count = t.count
<1> DEFINE a == Added(t, k)
<1>1. t \in TableValues /\ t.value \in [Pages -> Nat]
  BY DEF Sound, TableValues
<1>2. a = [t EXCEPT !.value[k] = @ + 1]
  BY DEF Added
<1>3. /\ a.value = [t.value EXCEPT ![k] = @ + 1] /\ a.expanded = t.expanded
      /\ a.listed = t.listed /\ a.count = t.count /\ a \in TableValues
  BY <1>1, <1>2 DEF TableValues
<1>4. /\ a.value \in [Pages -> Nat]
      /\ \A j \in Pages : a.value[j] > 0 <=> t.value[j] > 0
  BY <1>1, <1>3
<1> HIDE DEF a
<1>5. Present(a) = Present(t)
  BY <1>4 DEF Present
<1>6. ASSUME NEW j \in Pages
      PROVE  Way(a, j) /\ LastCounted(a, j)
  <2>1. Way(t, j) /\ LastCounted(t, j)
    BY DEF Sound
  <2>2. LeafLevel(a, j) = LeafLevel(t, j)
    BY <1>3, <2>1, LeafLevelIs DEF Way
  <2>3. QED
    BY <1>3, <1>4, <2>1, <2>2 DEF Way, LastCounted
<1>7. Live(a) = Live(t) /\ \A c : KeysIn(a, c) = KeysIn(t, c)
  BY <1>3, <1>5 DEF Live, KeysIn
<1>8. Covers(a) /\ (Exact(t) => Exact(a))
  BY <1>3, <1>7 DEF Sound, Covers, Exact
<1>9. QED
  BY <1>3, <1>6, <1>8 DEF Sound, a

(* A key that was not there is counted in every table it is in.            *)
LEMMA AddedFirst ==
    ASSUME NEW t, Sound(t), NEW k \in Pages, t.value[k] = 0
    PROVE  LET a == Added(t, k)
           IN /\ Sound(a) /\ (Exact(t) => Exact(a))
              /\ a.value = [t.value EXCEPT ![k] = @ + 1]
              /\ a.expanded = t.expanded
              /\ a.listed = [t.listed EXCEPT ![Leaf(t, k)] = Wrap(@ + 1)]
              /\ a.count[Root] = t.count[Root] + 1
<1> DEFINE a == Added(t, k)
           d == LeafLevel(t, k)
           b == Leaf(t, k)
<1>1. /\ t \in TableValues /\ t.value \in [Pages -> Nat] /\ t.expanded \subseteq Buckets
      /\ t.listed \in [Buckets -> 0..CountRange - 1] /\ t.count \in [Tables -> Nat]
      /\ Way(t, k) /\ k \in Nat /\ d \in 0..Levels - 1
  BY PagesAreNumbers DEF Sound, TableValues, Way
<1>2. b = At(k, d) /\ b \in Buckets /\ b[1] = d
  BY <1>1, AtIs DEF Leaf
<1>3. a = [t EXCEPT !.value[k] = 1,
                    !.listed[b] = Wrap(@ + 1),
                    !.count = [c \in Tables |-> IF c \in OnWay(t, k) THEN @[c] + 1 ELSE @[c]]]
  BY <1>1 DEF Added
<1> HIDE DEF b, d
<1>4. /\ a.value = [t.value EXCEPT ![k] = 1] /\ a.expanded = t.expanded
      /\ a.listed = [t.listed EXCEPT ![b] = Wrap(t.listed[b] + 1)]
      /\ a.count = [c \in Tables |-> IF c \in OnWay(t, k) THEN t.count[c] + 1 ELSE t.count[c]]
      /\ a = [value |-> a.value, expanded |-> a.expanded, listed |-> a.listed,
              count |-> a.count]
  BY <1>1, <1>3 DEF TableValues
<1> HIDE DEF a
<1>5. a \in TableValues
  <2>1. \A n \in Nat : Wrap(n) \in 0..CountRange - 1
    BY CountRangeLarge, TableSizes DEF Wrap
  <2>2. t.listed[b] + 1 \in Nat
    BY <1>1, <1>2, CountRangeLarge
  <2>3. a.listed \in [Buckets -> 0..CountRange - 1]
    BY <1>1, <1>2, <1>4, <2>1, <2>2
  <2>4. a.value \in [Pages -> Nat]
    BY <1>1, <1>4
  <2>5. a.count \in [Tables -> Nat]
    BY <1>1, <1>4
  <2>6. QED
    BY <1>1, <1>4, <2>3, <2>4, <2>5 DEF TableValues
<1>6. /\ a.value[k] = 1 /\ \A j \in Pages : j # k => a.value[j] = t.value[j]
      /\ a.value = [t.value EXCEPT ![k] = @ + 1]
  BY <1>1, <1>4
<1>7. ASSUME NEW j \in Pages
      PROVE  Way(a, j) /\ LastCounted(a, j)
  <2>1. Way(t, j) /\ LastCounted(t, j) /\ j \in Nat
    BY PagesAreNumbers DEF Sound
  <2>2. LeafLevel(a, j) = LeafLevel(t, j)
    BY <1>4, <2>1, LeafLevelIs DEF Way
  <2>3. Way(a, j)
    BY <1>4, <2>1, <2>2 DEF Way
  <2>4. Levels - 1 \in 0..Levels - 1
    BY LevelsSuffice
  <2>5. At(j, Levels - 1) \in Buckets /\ At(j, Levels - 1)[1] = Levels - 1
    BY <2>1, <2>4, AtIs
  <2>6. CASE At(j, Levels - 1) = b
    <3>1. d = Levels - 1
      BY <1>2, <2>5, <2>6
    <3>2. j = k
      BY <1>2, <2>6, <3>1, AloneAtLast
    <3>3. t.listed[b] = 0
      BY <2>1, <2>6, <3>2 DEF LastCounted
    <3>4. Wrap(0 + 1) = 1
      BY CountRangeLarge, TableSizes DEF Wrap
    <3>5. a.listed[b] = 1
      BY <1>1, <1>2, <1>4, <3>3, <3>4
    <3>6. QED
      BY <1>6, <2>2, <2>3, <2>6, <3>1, <3>2, <3>5 DEF LastCounted, d
  <2>7. CASE At(j, Levels - 1) # b
    <3>1. a.listed[At(j, Levels - 1)] = t.listed[At(j, Levels - 1)]
      BY <1>1, <1>4, <2>5, <2>7
    <3>2. j = k => LeafLevel(t, j) # Levels - 1
      BY <1>2, <2>7 DEF d
    <3>3. QED
      BY <1>6, <2>1, <2>2, <2>3, <3>1, <3>2 DEF LastCounted
  <2>8. QED
    BY <2>6, <2>7
<1>8. Live(a) = Live(t) /\ Live(t) \subseteq Tables
  BY <1>1, <1>4 DEF Live, Tables
<1>9. ASSUME NEW c \in Live(t)
      PROVE  a.count[c] - Cardinality(KeysIn(a, c)) = t.count[c] - Cardinality(KeysIn(t, c))
  <2>1. c \in OnWay(t, k) <=> In(c, k)
    BY <1>1, <1>8, OnWayIs
  <2>2. k \notin KeysIn(t, c)
    BY DEF KeysIn, Present
  <2>3. Cardinality(KeysIn(t, c)) \in Nat /\ t.count[c] \in Nat
    BY <1>1, <1>8, KeysCount
  <2>4. CASE In(c, k)
    <3>1. KeysIn(a, c) = KeysIn(t, c) \cup {k}
      BY <1>6, <2>4 DEF KeysIn, Present
    <3>2. Cardinality(KeysIn(a, c)) = Cardinality(KeysIn(t, c)) + 1
      BY <2>2, <3>1, KeysCount
    <3>3. a.count[c] = t.count[c] + 1
      BY <1>4, <1>8, <2>1, <2>4
    <3>4. QED
      BY <2>3, <3>2, <3>3
  <2>5. CASE ~In(c, k)
    <3>1. KeysIn(a, c) = KeysIn(t, c)
      BY <1>6, <2>5 DEF KeysIn, Present
    <3>2. a.count[c] = t.count[c]
      BY <1>4, <1>8, <2>1, <2>5
    <3>3. QED
      BY <3>1, <3>2
  <2>6. QED
    BY <2>4, <2>5
<1>10. \A c \in Live(t) : /\ a.count[c] \in Nat /\ t.count[c] \in Nat
                          /\ Cardinality(KeysIn(t, c)) \in Nat
                          /\ Cardinality(KeysIn(a, c)) \in Nat
  <2>1. a.count \in [Tables -> Nat]
    BY <1>5 DEF TableValues
  <2>2. QED
    BY <1>1, <1>8, <2>1, KeysCount
<1>11. Covers(a) /\ (Exact(t) => Exact(a))
  BY <1>8, <1>9, <1>10 DEF Sound, Covers, Exact
<1>12. a.count[Root] = t.count[Root] + 1
  <2>1. Root \in Live(t) /\ In(Root, k)
    BY <1>1, InIs DEF Live
  <2>2. Root \in Tables /\ Root \in OnWay(t, k)
    BY <1>1, <1>8, <2>1, OnWayIs
  <2>3. QED
    BY <1>4, <2>2
<1>13. a.listed = [t.listed EXCEPT ![b] = Wrap(@ + 1)]
  BY <1>1, <1>2, <1>4
<1>14. QED
  BY <1>4, <1>5, <1>6, <1>7, <1>11, <1>12, <1>13 DEF Sound, a, b

(* sll_add() and the counting on the way back.                             *)
LEMMA AddedSound ==
    ASSUME NEW t, Sound(t), NEW k \in Pages
    PROVE  LET a == Added(t, k)
           IN /\ Sound(a) /\ (Exact(t) => Exact(a))
              /\ a.value = [t.value EXCEPT ![k] = @ + 1]
              /\ a.expanded = t.expanded
              /\ a.count[Root] = t.count[Root] + IF t.value[k] = 0 THEN 1 ELSE 0
<1>1. t.value[k] \in Nat /\ t.count[Root] \in Nat
  BY DEF Sound, TableValues, Tables
<1>2. CASE t.value[k] = 0
  BY <1>2, AddedFirst
<1>3. CASE t.value[k] > 0
  BY <1>1, <1>3, AddedAgain
<1>4. QED
  BY <1>1, <1>2, <1>3

---------------------------------------------------------------------------
(* Splitting a list                                                        *)

(* The buckets under b that are split along with it.                       *)
SplitOff(t, b) == {c \in Under(b) : Cardinality(KeysIn(t, c)) > SPLIT_SIZE}

(* The keys moved into a bucket under b are the keys in it.                *)
LEMMA SplitFields ==
    ASSUME NEW t, Sound(t), NEW b \in Buckets
    PROVE  LET s == Split(t, b)
               split == SplitOff(t, b)
           IN /\ s \in TableValues
              /\ s.value = t.value
              /\ s.expanded = t.expanded \cup {b} \cup split
              /\ \A c \in Buckets : c \notin {b} \cup Under(b) => s.listed[c] = t.listed[c]
              /\ s.listed[b] = Wrap(t.listed[b] - 2 * Cardinality(KeysIn(t, b)))
              /\ \A c \in split : s.listed[c] = Wrap(-(SPLIT_SIZE + 1))
              /\ \A c \in Under(b) \ split :
                    s.listed[c] = IF \E d \in split \cup {b} : c \in Child(d)
                                  THEN Cardinality(KeysIn(t, c)) ELSE 0
              /\ \A c \in split \cup {b} : s.count[c] = Cardinality(KeysIn(t, c))
              /\ \A c \in Tables \ (split \cup {b}) : s.count[c] = t.count[c]
<1> DEFINE s == Split(t, b)
           moved == {k \in Present(t) : In(b, k)}
           Here(c) == Cardinality({k \in moved : In(c, k)})
           split == {c \in Under(b) : Here(c) > SPLIT_SIZE}
           listed == [c \in Buckets |->
              CASE c = b         -> Wrap(t.listed[b] - 2 * Cardinality(moved))
                [] c \in split   -> Wrap(-(SPLIT_SIZE + 1))
                [] c \in Under(b) \ split
                                 -> IF \E d \in split \cup {b} : c \in Child(d)
                                    THEN Here(c) ELSE 0
                [] OTHER         -> t.listed[c]]
           count == [c \in Tables |-> IF c \in split \cup {b} THEN Here(c) ELSE t.count[c]]
<1>1. /\ t \in TableValues /\ t.value \in [Pages -> Nat] /\ t.expanded \subseteq Buckets
      /\ t.listed \in [Buckets -> 0..CountRange - 1] /\ t.count \in [Tables -> Nat]
  BY DEF Sound, TableValues
<1>2. Under(b) \subseteq Buckets \ {b} /\ Buckets \subseteq Tables
  <2>1. b \notin Under(b)
    BY BucketIs DEF Under
  <2>2. QED
    BY <2>1 DEF Under, Tables
<1>3. moved = KeysIn(t, b)
  BY DEF KeysIn
<1>4. \A c \in Under(b) \cup {b} : {k \in moved : In(c, k)} = KeysIn(t, c)
  <2>1. ASSUME NEW c \in Under(b), NEW k \in Present(t), In(c, k)
        PROVE  In(b, k)
    <3>1. k \in Nat /\ c \in Buckets
      BY <1>2, PagesAreNumbers DEF Present
    <3>2. QED
      BY <2>1, <3>1, UnderIs
  <2>2. QED
    BY <2>1 DEF KeysIn
<1>5. \A c \in Under(b) \cup {b} : Here(c) = Cardinality(KeysIn(t, c))
  BY <1>4
<1>6. split = SplitOff(t, b)
  BY <1>5 DEF SplitOff
<1>7. s = [t EXCEPT !.expanded = t.expanded \cup {b} \cup split, !.listed = listed,
                    !.count = count]
  BY <1>1 DEF Split, TableValues
<1> HIDE DEF listed, count, s, split, moved, Here
<1>8. /\ s.value = t.value /\ s.expanded = t.expanded \cup {b} \cup split
      /\ s.listed = listed /\ s.count = count
      /\ s = [value |-> s.value, expanded |-> s.expanded, listed |-> s.listed,
              count |-> s.count]
  BY <1>1, <1>7 DEF TableValues
<1>9. \A n \in Int : Wrap(n) \in 0..CountRange - 1
  BY CountRangeLarge, TableSizes DEF Wrap
<1>10. \A c : Cardinality(KeysIn(t, c)) \in Nat
  BY KeysCount
<1>11. split \subseteq Under(b)
  BY DEF split
<1>12. listed[b] = Wrap(t.listed[b] - 2 * Cardinality(moved))
  BY <1>2, <1>11 DEF listed
<1>13. \A c \in split : listed[c] = Wrap(-(SPLIT_SIZE + 1))
  BY <1>2, <1>11 DEF listed
<1>14. \A c \in Under(b) \ split :
          listed[c] = IF \E d \in split \cup {b} : c \in Child(d) THEN Here(c) ELSE 0
  BY <1>2 DEF listed
<1>15. \A c \in Buckets : c \notin {b} \cup Under(b) => listed[c] = t.listed[c]
  BY <1>2, <1>11 DEF listed
<1>16. listed \in [Buckets -> 0..CountRange - 1]
  <2>1. ASSUME NEW c \in Buckets
        PROVE  listed[c] \in 0..CountRange - 1
    <3>1. CASE c = b
      <4>1. t.listed[b] \in Int /\ Cardinality(moved) \in Nat
        BY <1>1, <1>3, <1>10, CountRangeLarge
      <4>2. t.listed[b] - 2 * Cardinality(moved) \in Int
        BY <4>1
      <4>3. QED
        BY <1>9, <1>12, <3>1, <4>2
    <3>2. CASE c \in split
      <4>1. -(SPLIT_SIZE + 1) \in Int
        BY TableSizes
      <4>2. QED
        BY <1>9, <1>13, <3>2, <4>1
    <3>3. CASE c \in Under(b) \ split
      <4>1. Here(c) \in Nat /\ ~(Here(c) > SPLIT_SIZE)
        BY <1>5, <1>10, <3>3 DEF split
      <4>2. Here(c) \in 0..CountRange - 1 /\ 0 \in 0..CountRange - 1
        BY <4>1, TableSizes, CountRangeLarge
      <4>3. QED
        BY <1>14, <3>3, <4>2
    <3>4. CASE c \notin {b} \cup Under(b)
      BY <1>1, <1>15, <3>4
    <3>5. QED
      BY <1>11, <3>1, <3>2, <3>3, <3>4
  <2>2. listed = [c \in Buckets |-> listed[c]]
    BY DEF listed
  <2>3. QED
    BY <2>1, <2>2
<1>17. \A c \in split \cup {b} : count[c] = Cardinality(KeysIn(t, c))
  BY <1>2, <1>5, <1>11 DEF count
<1>18. \A c \in Tables \ (split \cup {b}) : count[c] = t.count[c]
  BY DEF count
<1>19. count \in [Tables -> Nat]
  <2>1. ASSUME NEW c \in Tables
        PROVE  count[c] \in Nat
    BY <1>1, <1>10, <1>17, <1>18
  <2>2. count = [c \in Tables |-> count[c]]
    BY DEF count
  <2>3. QED
    BY <2>1, <2>2
<1>20. s.expanded \subseteq Buckets
  BY <1>1, <1>2, <1>8, <1>11
<1>21. s \in TableValues
  BY <1>1, <1>8, <1>16, <1>19, <1>20 DEF TableValues
<1>22. \A c \in Under(b) \ split :
          s.listed[c] = IF \E d \in split \cup {b} : c \in Child(d)
                        THEN Cardinality(KeysIn(t, c)) ELSE 0
  BY <1>5, <1>8, <1>14
<1>23. QED
  BY <1>3, <1>6, <1>8, <1>12, <1>13, <1>15, <1>17, <1>18, <1>21, <1>22 DEF s

(* The keys of the last bucket of key k are k itself, if it is there.      *)
LEMMA LastKeys ==
    ASSUME NEW t, Sound(t), NEW k \in Pages
    PROVE  Cardinality(KeysIn(t, At(k, Levels - 1))) = IF t.value[k] > 0 THEN 1 ELSE 0
<1>1. k \in Nat /\ Levels - 1 \in 0..Levels - 1
  BY PagesAreNumbers, LevelsSuffice
<1> DEFINE c == At(k, Levels - 1)
<1>2. ASSUME NEW j \in Pages
      PROVE  In(c, j) <=> j = k
  <2>1. j \in Nat
    BY PagesAreNumbers
  <2>2. In(c, j) <=> c = At(j, Levels - 1)
    BY <1>1, <2>1, InIs
  <2>3. QED
    BY <2>2, AloneAtLast
<1> HIDE DEF c
<1>3. KeysIn(t, c) = IF t.value[k] > 0 THEN {k} ELSE {}
  BY <1>2 DEF KeysIn, Present
<1>4. Cardinality({k}) = 1 /\ Cardinality({}) = 0
  BY FS_Singleton, FS_EmptySet
<1>5. QED
  BY <1>3, <1>4 DEF c

(* Keys in one leaf have it at one level.                                  *)
LEMMA SameLeaf ==
    ASSUME NEW t, NEW k \in Pages, NEW j \in Pages, Way(t, k), Way(t, j),
           In(Leaf(t, k), j)
    PROVE  LeafLevel(t, j) = LeafLevel(t, k)
<1> DEFINE l == LeafLevel(t, k)
           d == LeafLevel(t, j)
<1>1. /\ k \in Nat /\ j \in Nat /\ l \in 0..Levels - 1 /\ d \in 0..Levels - 1
      /\ \A m \in 0..Levels - 1 : At(k, m) \in t.expanded <=> m < l
      /\ \A m \in 0..Levels - 1 : At(j, m) \in t.expanded <=> m < d
  BY PagesAreNumbers DEF Way
<1>2. At(k, l) = At(j, l)
  BY <1>1, InIs DEF Leaf
<1>3. \A m \in 0..Levels - 1 : m <= l => At(k, m) = At(j, m)
  BY <1>1, <1>2, Together
<1> HIDE DEF l, d
<1>4. ~(l < l) /\ ~(d < d) /\ l <= l
  BY <1>1
<1>5. ~(l < d)
  BY <1>1, <1>3, <1>4
<1>6. ~(d < l)
  <2>1. d < l => d <= l
    BY <1>1
  <2>2. QED
    BY <1>1, <1>3, <1>4, <2>1
<1>7. l = d
  BY ONLY <1>1, <1>5, <1>6, LevelsSuffice
<1>8. QED
  BY <1>7 DEF l, d

(* A key that is not in b keeps its way and its last bucket's list when    *)
(* nothing but b and the buckets under it changes.                         *)
LEMMA ElsewhereSame ==
    ASSUME NEW t, Sound(t), NEW b \in Buckets, NEW k \in Pages, ~In(b, k), NEW s,
           \A c \in Buckets : c \notin {b} \cup Under(b) =>
               /\ c \in s.expanded <=> c \in t.expanded
               /\ s.listed[c] = t.listed[c],
           s.value[k] = t.value[k]
    PROVE  Way(s, k) /\ LastCounted(s, k) /\ LeafLevel(s, k) = LeafLevel(t, k)
<1>1. k \in Nat /\ Levels - 1 \in 0..Levels - 1
  BY ONLY k \in Pages, PagesAreNumbers, LevelsSuffice
<1>2. ASSUME NEW m \in 0..Levels - 1
      PROVE  At(k, m) \in Buckets /\ At(k, m) \notin {b} \cup Under(b)
  <2>1. At(k, m) \in Buckets /\ In(At(k, m), k)
    BY <1>1, AtIs, InIs
  <2>2. QED
    BY <1>1, <2>1, UnderIs
<1>3. Way(t, k) /\ LastCounted(t, k)
  BY DEF Sound
<1>4. \A m \in 0..Levels - 1 : At(k, m) \in s.expanded <=> At(k, m) \in t.expanded
  BY <1>2
<1>5. LeafLevel(s, k) = LeafLevel(t, k)
  BY <1>3, <1>4, LeafLevelIs DEF Way
<1>6. s.listed[At(k, Levels - 1)] = t.listed[At(k, Levels - 1)]
  BY <1>1, <1>2
<1>7. QED
  BY <1>3, <1>4, <1>5, <1>6 DEF Way, LastCounted

(* A key of the list that is split ends in the first bucket below that is  *)
(* not split with it.                                                      *)
LEMMA SplitWay ==
    ASSUME NEW t, Sound(t), NEW k \in Pages, LeafLevel(t, k) < Levels - 1,
           NEW j \in Pages, In(Leaf(t, k), j)
    PROVE  LET s == Split(t, Leaf(t, k))
           IN Way(s, j) /\ LastCounted(s, j)
<1> DEFINE b == Leaf(t, k)
           l == LeafLevel(t, k)
           s == Split(t, b)
           split == SplitOff(t, b)
<1>1. Way(t, k) /\ Way(t, j) /\ k \in Nat /\ j \in Nat /\ Levels \in Nat \ {0}
  BY PagesAreNumbers, LevelsSuffice DEF Sound
<1>2. /\ l \in 0..Levels - 1 /\ l < Levels - 1 /\ b = At(k, l) /\ b \in Buckets /\ b[1] = l
      /\ In(b, j) /\ b = At(j, l)
  BY <1>1, AtIs, InIs DEF Way, Leaf
<1>3. \A m \in 0..Levels - 1 : At(j, m) \in t.expanded <=> m < l
  BY <1>1, SameLeaf DEF Way
<1> HIDE DEF b, l
<1>4. /\ s.value = t.value /\ s.expanded = t.expanded \cup {b} \cup split
      /\ \A c \in Under(b) \ split :
            s.listed[c] = IF \E d \in split \cup {b} : c \in Child(d)
                          THEN Cardinality(KeysIn(t, c)) ELSE 0
  BY <1>2, SplitFields
<1> HIDE DEF s
<1>5. \A m \in 0..Levels - 1 :
         /\ At(j, m) \in Buckets /\ At(j, m)[1] = m /\ In(At(j, m), j)
         /\ At(j, m) \in Under(b) <=> l < m
         /\ At(j, m) = b <=> m = l
  <2>1. ASSUME NEW m \in 0..Levels - 1
        PROVE  At(j, m) \in Buckets /\ At(j, m)[1] = m /\ In(At(j, m), j)
    BY <1>1, AtIs, InIs
  <2>2. ASSUME NEW m \in 0..Levels - 1
        PROVE  At(j, m) \in Under(b) <=> l < m
    BY <1>1, <1>2, <2>1, UnderIs
  <2>3. QED
    BY <1>2, <2>1, <2>2
<1>6. split \subseteq Under(b)
  BY DEF SplitOff
<1>7. ASSUME NEW m \in 0..Levels - 1, NEW n \in 0..Levels - 1, m <= n, l < m,
             At(j, n) \in split
      PROVE  At(j, m) \in split
  <2>1. KeysIn(t, At(j, n)) \subseteq KeysIn(t, At(j, m))
    <3>1. ASSUME NEW i \in Present(t), In(At(j, n), i)
          PROVE  In(At(j, m), i)
      <4>1. i \in Nat
        BY PagesAreNumbers DEF Present
      <4>2. At(j, n) = At(i, n)
        BY <1>1, <3>1, <4>1, InIs
      <4>3. At(j, m) = At(i, m)
        BY <1>1, <1>7, <4>1, <4>2, Together
      <4>4. QED
        BY <1>1, <4>1, <4>3, InIs
    <3>2. QED
      BY <3>1 DEF KeysIn
  <2>2. IsFiniteSet(KeysIn(t, At(j, m)))
    BY KeysCount
  <2>3. Cardinality(KeysIn(t, At(j, n))) <= Cardinality(KeysIn(t, At(j, m)))
    BY <2>1, <2>2, FS_Subset
  <2>4. Cardinality(KeysIn(t, At(j, n))) \in Nat /\ Cardinality(KeysIn(t, At(j, m))) \in Nat
    BY KeysCount
  <2>5. Cardinality(KeysIn(t, At(j, n))) > SPLIT_SIZE
    BY <1>7 DEF SplitOff
  <2>6. Cardinality(KeysIn(t, At(j, m))) > SPLIT_SIZE
    BY <2>3, <2>4, <2>5, TableSizes
  <2>7. QED
    BY <1>5, <1>7, <2>6 DEF SplitOff
<1> DEFINE last == Levels - 1
<1>8. last \in 0..Levels - 1 /\ l < last /\ last \in Nat /\ l \in Nat
  BY <1>1, <1>2
<1>9. Cardinality(KeysIn(t, At(j, last))) = IF t.value[j] > 0 THEN 1 ELSE 0
  BY LastKeys
<1>10. At(j, last) \notin split
  <2>1. ~(Cardinality(KeysIn(t, At(j, last))) > SPLIT_SIZE)
    BY <1>9, TableSizes
  <2>2. QED
    BY <2>1 DEF SplitOff
<1> HIDE DEF last
<1> DEFINE Stops == {m \in 0..Levels - 1 : l < m /\ At(j, m) \notin split}
<1>11. PICK d \in Stops : \A m \in Stops : d <= m
  <2>1. Stops # {} /\ Stops \subseteq Nat
    BY <1>8, <1>10
  <2> HIDE DEF Stops
  <2>2. QED
    BY <2>1, LeastNatural
<1>12. d \in 0..Levels - 1 /\ l < d /\ At(j, d) \notin split
  BY <1>11
<1>13. ASSUME NEW m \in 0..Levels - 1
       PROVE  At(j, m) \in s.expanded <=> m < d
  <2>1. At(j, m) \in s.expanded <=> m < l \/ m = l \/ At(j, m) \in split
    BY <1>3, <1>4, <1>5
  <2>2. At(j, m) \in split => l < m /\ m < d
    <3>1. At(j, m) \in split => l < m
      BY <1>5, <1>6
    <3>2. At(j, m) \in split /\ d <= m => At(j, d) \in split
      BY <1>7, <1>12
    <3>3. m < d \/ d <= m
      BY <1>12
    <3>4. QED
      BY <1>12, <3>1, <3>2, <3>3
  <2>3. l < m /\ m < d => At(j, m) \in split
    <3>1. m < d => ~(d <= m)
      BY <1>12
    <3>2. QED
      BY <1>11, <3>1
  <2>4. m < l \/ m = l => m < d
    BY <1>8, <1>12
  <2>5. m < d => m < l \/ m = l \/ l < m
    BY <1>8
  <2>6. QED
    BY <2>1, <2>2, <2>3, <2>4, <2>5
<1>14. LeafLevel(s, j) = d
  BY <1>12, <1>13, LeafLevelIs
<1>15. Way(s, j)
  BY <1>12, <1>13, <1>14 DEF Way
<1> DEFINE c == At(j, last)
<1>16. (\E e \in split \cup {b} : c \in Child(e)) <=> d = last
  <2>1. c \in Buckets /\ c[1] = last /\ In(c, j)
    BY <1>5, <1>8
  <2>2. ASSUME NEW e \in split \cup {b}, c \in Child(e)
        PROVE  d = last
    <3>1. e \in Buckets /\ e[1] \in 0..Levels - 1
      BY <1>2, <1>6, BucketIs DEF Under
    <3>2. c \in Under(e) /\ last = e[1] + 1
      BY <2>1, <2>2 DEF Child
    <3>3. In(e, j)
      BY <1>1, <2>1, <3>1, <3>2, UnderIs
    <3>4. e = At(j, e[1])
      BY <1>1, <3>1, <3>3, InIs
    <3>5. e[1] < d
      BY <1>4, <1>13, <3>1, <3>4
    <3>6. d <= last
      BY <1>8, <1>12 DEF last
    <3>7. QED
      BY <1>12, <3>1, <3>2, <3>5, <3>6
  <2>3. ASSUME d = last
        PROVE  \E e \in split \cup {b} : c \in Child(e)
    <3>1. last - 1 \in 0..Levels - 1 /\ last - 1 < d /\ last = (last - 1) + 1
          /\ (last - 1 = l \/ l < last - 1) /\ last - 1 < last
      BY ONLY <1>1, <1>8, <2>3
    <3> DEFINE e == At(j, last - 1)
    <3>2. e \in Buckets /\ e[1] = last - 1 /\ In(e, j)
      BY <1>5, <3>1
    <3>3. e \in split \cup {b}
      <4>1. e \in s.expanded
        BY <1>13, <3>1
      <4>2. ~(last - 1 < l)
        BY <1>8, <3>1
      <4>3. e \notin t.expanded
        BY <1>3, <3>1, <4>2
      <4>4. QED
        BY <1>4, <4>1, <4>3
    <3>4. c \in Under(e)
      BY <1>1, <2>1, <3>1, <3>2, UnderIs
    <3>5. c \in Child(e)
      BY <2>1, <3>1, <3>2, <3>4 DEF Child
    <3>6. QED
      BY <3>3, <3>5
  <2>4. QED
    BY <2>2, <2>3
<1>17. c \in Under(b) \ split
  BY <1>5, <1>8, <1>10
<1>18. s.listed[c] = IF d = last THEN Cardinality(KeysIn(t, c)) ELSE 0
  BY <1>4, <1>16, <1>17
<1>19. LastCounted(s, j)
  BY <1>4, <1>9, <1>14, <1>18 DEF LastCounted, last
<1>20. QED
  BY <1>15, <1>19 DEF s, b

(* A list that is split leaves the table sound, and exact if it was.       *)
LEMMA SplitSound ==
    ASSUME NEW t, Sound(t), NEW k \in Pages, LeafLevel(t, k) < Levels - 1
    PROVE  LET s == Split(t, Leaf(t, k))
           IN /\ Sound(s) /\ (Exact(t) => Exact(s))
              /\ s.value = t.value
              /\ s.count[Root] = t.count[Root]
<1> DEFINE b == Leaf(t, k)
           s == Split(t, b)
           split == SplitOff(t, b)
<1>1. Way(t, k) /\ k \in Nat /\ t.expanded \subseteq Buckets
  BY PagesAreNumbers DEF Sound, TableValues
<1>2. b \in Buckets
  BY <1>1, AtIs DEF Way, Leaf
<1>3. \A j \in Pages : In(b, j) => Way(s, j) /\ LastCounted(s, j)
  BY SplitWay
<1> HIDE DEF b
<1>4. /\ s \in TableValues
      /\ s.value = t.value
      /\ s.expanded = t.expanded \cup {b} \cup split
      /\ \A c \in Buckets : c \notin {b} \cup Under(b) => s.listed[c] = t.listed[c]
      /\ \A c \in split \cup {b} : s.count[c] = Cardinality(KeysIn(t, c))
      /\ \A c \in Tables \ (split \cup {b}) : s.count[c] = t.count[c]
  BY <1>2, SplitFields
<1> HIDE DEF s
<1>5. split \subseteq Under(b) /\ Under(b) \subseteq Buckets
  BY DEF SplitOff, Under
<1> HIDE DEF split
<1>6. ASSUME NEW j \in Pages
      PROVE  Way(s, j) /\ LastCounted(s, j)
  <2>1. CASE In(b, j)
    BY <1>3, <2>1
  <2>2. CASE ~In(b, j)
    <3>1. \A c \in Buckets : c \notin {b} \cup Under(b) =>
              /\ c \in s.expanded <=> c \in t.expanded
              /\ s.listed[c] = t.listed[c]
      BY <1>4, <1>5
    <3>2. QED
      BY <1>2, <1>4, <2>2, <3>1, ElsewhereSame
  <2>3. QED
    BY <2>1, <2>2
<1>7. \A c : KeysIn(s, c) = KeysIn(t, c)
  BY <1>4 DEF KeysIn, Present
<1>8. \A c \in Live(s) : c \in split \cup {b} \/ (c \in Live(t) /\ c \in Tables \ (split \cup {b}))
  BY <1>1, <1>4 DEF Live, Tables
<1>9. \A c : Cardinality(KeysIn(t, c)) \in Nat
  BY KeysCount
<1>10. Covers(s) /\ (Exact(t) => Exact(s))
  BY <1>4, <1>7, <1>8, <1>9 DEF Sound, Covers, Exact
<1>11. s.count[Root] = t.count[Root]
  <2>1. Root \notin Buckets
    <3>1. Root[1] = -1 /\ -1 \notin 0..Levels - 1
      BY DEF Root
    <3>2. QED
      BY <3>1, BucketIs
  <2>2. Root \in Tables \ (split \cup {b})
    BY <1>2, <1>5, <2>1 DEF Tables
  <2>3. QED
    BY <1>4, <2>2
<1>12. QED
  BY <1>4, <1>6, <1>10, <1>11 DEF Sound, s, b

(* put() adds one of the key, keeps the table sound, and exact if it was.  *)
LEMMA PutSound ==
    ASSUME NEW t, Sound(t), NEW k \in Pages
    PROVE  LET p == Put(t, k)
           IN /\ Sound(p) /\ (Exact(t) => Exact(p))
              /\ p.value = [t.value EXCEPT ![k] = @ + 1]
              /\ p.count[Root] = t.count[Root] + IF t.value[k] = 0 THEN 1 ELSE 0
<1> DEFINE a == Added(t, k)
           b == Leaf(t, k)
<1>1. /\ Sound(a) /\ (Exact(t) => Exact(a))
      /\ a.value = [t.value EXCEPT ![k] = @ + 1]
      /\ a.expanded = t.expanded
      /\ a.count[Root] = t.count[Root] + IF t.value[k] = 0 THEN 1 ELSE 0
  BY AddedSound
<1>2. Put(t, k) = IF a.listed[b] > SPLIT_SIZE THEN Split(a, b) ELSE a
  BY DEF Put
<1> HIDE DEF a
<1>3. Way(t, k) /\ Way(a, k) /\ LastCounted(a, k)
  BY <1>1 DEF Sound
<1>4. LeafLevel(a, k) = LeafLevel(t, k)
  BY <1>1, <1>3, LeafLevelIs DEF Way
<1>5. b = Leaf(a, k)
  BY <1>4 DEF Leaf
<1> HIDE DEF b
<1>6. CASE a.listed[b] > SPLIT_SIZE
  <2>1. LeafLevel(a, k) # Levels - 1
    <3>1. ASSUME LeafLevel(a, k) = Levels - 1
          PROVE  a.listed[b] = 0 \/ a.listed[b] = 1
      BY <1>3, <1>5, <3>1 DEF LastCounted, Leaf
    <3>2. QED
      BY <1>6, <3>1, TableSizes
  <2>2. LeafLevel(a, k) < Levels - 1
    BY <1>3, <2>1, LevelsSuffice DEF Way
  <2>3. QED
    BY <1>1, <1>2, <1>5, <1>6, <2>2, SplitSound
<1>7. CASE ~(a.listed[b] > SPLIT_SIZE)
  BY <1>1, <1>2, <1>7
<1>8. QED
  BY <1>6, <1>7

---------------------------------------------------------------------------
(* Deleting a key                                                          *)

(* What sll_remove() leaves of a key's value.                              *)
Lowered(value, k) == [value EXCEPT ![k] = IF @ = 0 THEN 0 ELSE @ - 1]

(* One of a key that is there more often is counted nowhere.               *)
LEMMA RemovedOne ==
    ASSUME NEW t, Sound(t), NEW k \in Pages, t.value[k] > 1
    PROVE  LET r == Removed(t, k)
           IN /\ Sound(r) /\ (Exact(t) => Exact(r))
              /\ r.value = Lowered(t.value, k)
              /\ r.expanded = t.expanded /\ r.listed = t.listed /\ r.count = t.count
<1> DEFINE r == Removed(t, k)
<1>1. t \in TableValues /\ t.value \in [Pages -> Nat] /\ t.value[k] \in Nat
  BY DEF Sound, TableValues
<1>2. r = [t EXCEPT !.value[k] = @ - 1]
  <2>1. ~(t.value[k] = 0) /\ ~(t.value[k] = 1)
    BY <1>1
  <2>2. QED
    BY <2>1 DEF Removed
<1>3. /\ r.value = [t.value EXCEPT ![k] = @ - 1] /\ r.expanded = t.expanded
      /\ r.listed = t.listed /\ r.count = t.count
  BY <1>1, <1>2 DEF TableValues
<1>4. r.value \in [Pages -> Nat]
  BY <1>1, <1>3
<1>5. r \in TableValues
  BY <1>1, <1>2, <1>3, <1>4 DEF TableValues
<1>6. /\ r.value = Lowered(t.value, k)
      /\ \A j \in Pages : r.value[j] > 0 <=> t.value[j] > 0
  BY <1>1, <1>3 DEF Lowered
<1> HIDE DEF r
<1>7. Present(r) = Present(t)
  BY <1>6 DEF Present
<1>8. ASSUME NEW j \in Pages
      PROVE  Way(r, j) /\ LastCounted(r, j)
  <2>1. Way(t, j) /\ LastCounted(t, j)
    BY DEF Sound
  <2>2. LeafLevel(r, j) = LeafLevel(t, j)
    BY <1>3, <2>1, LeafLevelIs DEF Way
  <2>3. QED
    BY <1>3, <1>6, <2>1, <2>2 DEF Way, LastCounted
<1>9. Live(r) = Live(t) /\ \A c : KeysIn(r, c) = KeysIn(t, c)
  BY <1>3, <1>7 DEF Live, KeysIn
<1>10. Covers(r) /\ (Exact(t) => Exact(r))
  BY <1>3, <1>9 DEF Sound, Covers, Exact
<1>11. QED
  BY <1>3, <1>5, <1>6, <1>8, <1>10 DEF Sound, r

(* The last of a key is counted out of every table it was in.              *)
LEMMA RemovedLast ==
    ASSUME NEW t, Sound(t), NEW k \in Pages, t.value[k] = 1
    PROVE  LET r == Removed(t, k)
           IN /\ Sound(r) /\ (Exact(t) => Exact(r))
              /\ r.value = Lowered(t.value, k)
              /\ r.expanded = t.expanded
              /\ r.listed = [t.listed EXCEPT ![Leaf(t, k)] = Wrap(@ - 1)]
              /\ r.count[Root] = t.count[Root] - 1
<1> DEFINE r == Removed(t, k)
           d == LeafLevel(t, k)
           b == Leaf(t, k)
<1>1. /\ t \in TableValues /\ t.value \in [Pages -> Nat] /\ t.expanded \subseteq Buckets
      /\ t.listed \in [Buckets -> 0..CountRange - 1] /\ t.count \in [Tables -> Nat]
      /\ Way(t, k) /\ k \in Nat /\ d \in 0..Levels - 1
  BY PagesAreNumbers DEF Sound, TableValues, Way
<1>2. b = At(k, d) /\ b \in Buckets /\ b[1] = d
  BY <1>1, AtIs DEF Leaf
<1>3. r = [t EXCEPT !.value[k] = 0,
                    !.listed[b] = Wrap(@ - 1),
                    !.count = [c \in Tables |-> IF c \in OnWay(t, k) THEN @[c] - 1 ELSE @[c]]]
  <2>1. ~(t.value[k] = 0) /\ ~(t.value[k] > 1)
    OBVIOUS
  <2>2. QED
    BY <2>1 DEF Removed
<1> HIDE DEF b, d
<1>4. /\ r.value = [t.value EXCEPT ![k] = 0] /\ r.expanded = t.expanded
      /\ r.listed = [t.listed EXCEPT ![b] = Wrap(t.listed[b] - 1)]
      /\ r.count = [c \in Tables |-> IF c \in OnWay(t, k) THEN t.count[c] - 1 ELSE t.count[c]]
      /\ r = [value |-> r.value, expanded |-> r.expanded, listed |-> r.listed,
              count |-> r.count]
  BY <1>1, <1>3 DEF TableValues
<1> HIDE DEF r
<1>5. /\ r.value[k] = 0 /\ \A j \in Pages : j # k => r.value[j] = t.value[j]
      /\ r.value = Lowered(t.value, k)
  BY <1>1, <1>4 DEF Lowered
<1>6. ASSUME NEW j \in Pages
      PROVE  Way(r, j) /\ LastCounted(r, j)
  <2>1. Way(t, j) /\ LastCounted(t, j) /\ j \in Nat
    BY PagesAreNumbers DEF Sound
  <2>2. LeafLevel(r, j) = LeafLevel(t, j)
    BY <1>4, <2>1, LeafLevelIs DEF Way
  <2>3. Way(r, j)
    BY <1>4, <2>1, <2>2 DEF Way
  <2>4. Levels - 1 \in 0..Levels - 1
    BY LevelsSuffice
  <2>5. At(j, Levels - 1) \in Buckets /\ At(j, Levels - 1)[1] = Levels - 1
    BY <2>1, <2>4, AtIs
  <2>6. CASE At(j, Levels - 1) = b
    <3>1. d = Levels - 1
      BY <1>2, <2>5, <2>6
    <3>2. j = k
      BY <1>2, <2>6, <3>1, AloneAtLast
    <3>3. t.listed[b] = 1
      BY <2>1, <2>6, <3>1, <3>2 DEF LastCounted, d
    <3>4. Wrap(1 - 1) = 0
      BY CountRangeLarge, TableSizes DEF Wrap
    <3>5. r.listed[b] = 0
      BY <1>1, <1>2, <1>4, <3>3, <3>4
    <3>6. QED
      BY <1>5, <2>2, <2>3, <2>6, <3>1, <3>2, <3>5 DEF LastCounted, d
  <2>7. CASE At(j, Levels - 1) # b
    <3>1. r.listed[At(j, Levels - 1)] = t.listed[At(j, Levels - 1)]
      BY <1>1, <1>4, <2>5, <2>7
    <3>2. j = k => LeafLevel(t, j) # Levels - 1
      BY <1>2, <2>7 DEF d
    <3>3. QED
      BY <1>5, <2>1, <2>2, <2>3, <3>1, <3>2 DEF LastCounted
  <2>8. QED
    BY <2>6, <2>7
<1>7. Live(r) = Live(t) /\ Live(t) \subseteq Tables
  BY <1>1, <1>4 DEF Live, Tables
<1>8. ASSUME NEW c \in Live(t)
      PROVE  /\ r.count[c] - Cardinality(KeysIn(r, c)) = t.count[c] - Cardinality(KeysIn(t, c))
             /\ r.count[c] = t.count[c] - IF In(c, k) THEN 1 ELSE 0
             /\ In(c, k) => t.count[c] > 0
  <2>1. c \in OnWay(t, k) <=> In(c, k)
    BY <1>1, <1>7, OnWayIs
  <2>2. Cardinality(KeysIn(t, c)) \in Nat /\ t.count[c] \in Nat
    BY <1>1, <1>7, KeysCount
  <2>3. CASE In(c, k)
    <3>1. k \in KeysIn(t, c) /\ KeysIn(r, c) = KeysIn(t, c) \ {k}
      BY <1>5, <2>3 DEF KeysIn, Present
    <3>2. Cardinality(KeysIn(r, c)) = Cardinality(KeysIn(t, c)) - 1
      BY <3>1, KeysCount
    <3>3. Cardinality(KeysIn(r, c)) \in Nat
      BY KeysCount
    <3>4. t.count[c] >= Cardinality(KeysIn(t, c))
      BY DEF Sound, Covers
    <3>5. r.count[c] = t.count[c] - 1
      BY <1>4, <1>7, <2>1, <2>3
    <3>6. QED
      BY <2>2, <2>3, <3>2, <3>3, <3>4, <3>5
  <2>4. CASE ~In(c, k)
    <3>1. KeysIn(r, c) = KeysIn(t, c)
      BY <1>5, <2>4 DEF KeysIn, Present
    <3>2. r.count[c] = t.count[c]
      BY <1>4, <1>7, <2>1, <2>4
    <3>3. QED
      BY <2>2, <2>4, <3>1, <3>2
  <2>5. QED
    BY <2>3, <2>4
<1>9. r.count \in [Tables -> Nat]
  <2>1. ASSUME NEW c \in Tables
        PROVE  r.count[c] \in Nat
    <3>1. t.count[c] \in Nat
      BY <1>1
    <3>2. CASE c \in OnWay(t, k)
      <4>1. c \in Live(t) /\ In(c, k)
        BY <1>1, <3>2, OnWayIs
      <4>2. r.count[c] = t.count[c] - 1 /\ t.count[c] > 0
        BY <1>8, <4>1
      <4>3. QED
        BY <3>1, <4>2
    <3>3. CASE c \notin OnWay(t, k)
      BY <1>4, <3>1, <3>3
    <3>4. QED
      BY <3>2, <3>3
  <2>2. r.count = [c \in Tables |-> r.count[c]]
    BY <1>4
  <2>3. QED
    BY <2>1, <2>2
<1>10. r \in TableValues
  <2>1. \A n \in Int : Wrap(n) \in 0..CountRange - 1
    BY CountRangeLarge, TableSizes DEF Wrap
  <2>2. t.listed[b] - 1 \in Int
    BY <1>1, <1>2, CountRangeLarge
  <2>3. r.listed \in [Buckets -> 0..CountRange - 1]
    BY <1>1, <1>2, <1>4, <2>1, <2>2
  <2>4. r.value \in [Pages -> Nat]
    BY <1>1, <1>4
  <2>5. QED
    BY <1>1, <1>4, <1>9, <2>3, <2>4 DEF TableValues
<1>11. \A c \in Live(t) : /\ r.count[c] \in Nat /\ t.count[c] \in Nat
                          /\ Cardinality(KeysIn(t, c)) \in Nat
                          /\ Cardinality(KeysIn(r, c)) \in Nat
  BY <1>1, <1>7, <1>9, KeysCount
<1>12. Covers(r) /\ (Exact(t) => Exact(r))
  BY <1>7, <1>8, <1>11 DEF Sound, Covers, Exact
<1>13. r.count[Root] = t.count[Root] - 1
  <2>1. Root \in Live(t) /\ In(Root, k)
    BY <1>1, InIs DEF Live
  <2>2. QED
    BY <1>8, <2>1
<1>14. r.listed = [t.listed EXCEPT ![b] = Wrap(@ - 1)]
  BY <1>1, <1>2, <1>4
<1>15. QED
  BY <1>4, <1>5, <1>6, <1>10, <1>12, <1>13, <1>14 DEF Sound, r, b

(* sll_remove() and the counting on the way back.                          *)
LEMMA RemovedSound ==
    ASSUME NEW t, Sound(t), NEW k \in Pages
    PROVE  LET r == Removed(t, k)
           IN /\ Sound(r) /\ (Exact(t) => Exact(r))
              /\ r.value = Lowered(t.value, k)
              /\ r.expanded = t.expanded
              /\ r.count[Root] = t.count[Root] - IF t.value[k] = 1 THEN 1 ELSE 0
<1>1. t.value \in [Pages -> Nat] /\ t.value[k] \in Nat /\ t.count[Root] \in Nat
  BY DEF Sound, TableValues, Tables
<1>2. CASE t.value[k] = 0
  <2>1. ~(t.value[k] > 1) /\ ~(t.value[k] = 1)
    BY <1>2
  <2>2. Removed(t, k) = t
    BY <1>2, <2>1 DEF Removed
  <2>3. Lowered(t.value, k) = t.value
    BY <1>1, <1>2 DEF Lowered
  <2>4. QED
    BY <1>1, <1>2, <2>2, <2>3
<1>3. CASE t.value[k] = 1
  BY <1>3, RemovedLast
<1>4. CASE t.value[k] > 1
  <2>1. t.value[k] # 1
    BY <1>4
  <2>2. QED
    BY <1>1, <1>4, <2>1, RemovedOne
<1>5. QED
  BY <1>1, <1>2, <1>3, <1>4

(* value is what is left of before when some keys have been dropped.       *)
Remains(before, value) ==
    /\ value \in [Pages -> Nat]
    /\ \A k \in Pages : value[k] = before[k] \/ value[k] = 0

(* A merge changes nothing but its bucket and those under it.              *)
LEMMA MergeFields ==
    ASSUME NEW t \in TableValues, NEW b
    PROVE  LET m == Merge(t, b)
           IN /\ m \in TableValues
              /\ Remains(t.value, m.value)
              /\ \A k \in Pages : m.value[k] # t.value[k] => In(b, k)
              /\ m.expanded = t.expanded \ ({b} \cup Under(b))
              /\ \A c \in Buckets : c \notin {b} \cup Under(b) => m.listed[c] = t.listed[c]
              /\ b \notin Under(b) => \A c \in Under(b) : m.listed[c] = 0
              /\ b \in Buckets \ Under(b) =>
                    m.listed[b] = Wrap(t.listed[b] + Cardinality(KeysIn(m, b)))
              /\ \A c \in Tables : c \notin {b} \cup Under(b) => m.count[c] = t.count[c]
<1> DEFINE m == Merge(t, b)
           inner == {k \in Present(t) : In(b, k)}
           kept == {k \in inner : Leaf(t, k) \in Child(b)}
           value == [k \in Pages |-> IF k \in inner \ kept THEN 0 ELSE t.value[k]]
           listed == [c \in Buckets |->
              CASE c = b         -> Wrap(t.listed[b] + Cardinality(kept))
                [] c \in Under(b) -> 0
                [] OTHER         -> t.listed[c]]
           count == [c \in Tables |-> IF c \in {b} \cup Under(b) THEN 0 ELSE t.count[c]]
<1>1. /\ t.value \in [Pages -> Nat] /\ t.expanded \subseteq Buckets
      /\ t.listed \in [Buckets -> 0..CountRange - 1] /\ t.count \in [Tables -> Nat]
  BY DEF TableValues
<1>2. m = [t EXCEPT !.value = value, !.expanded = t.expanded \ ({b} \cup Under(b)),
                    !.listed = listed, !.count = count]
  BY DEF Merge, TableValues
<1>3. kept \subseteq Pages /\ kept = {k \in Pages : value[k] > 0 /\ In(b, k)}
  <2>1. ~(0 > 0)
    OBVIOUS
  <2>2. \A k \in Pages : k \in inner <=> t.value[k] > 0 /\ In(b, k)
    BY DEF Present
  <2>3. \A k \in Pages : value[k] = IF k \in inner \ kept THEN 0 ELSE t.value[k]
    OBVIOUS
  <2>4. kept \subseteq inner /\ inner \subseteq Pages
    BY DEF Present
  <2> HIDE DEF value, kept, inner
  <2>5. QED
    BY <2>1, <2>2, <2>3, <2>4
<1>4. Under(b) \subseteq Buckets
  BY DEF Under
<1> HIDE DEF value, listed, count, m, kept
<1>5. /\ m.value = value /\ m.expanded = t.expanded \ ({b} \cup Under(b))
      /\ m.listed = listed /\ m.count = count
      /\ m = [value |-> m.value, expanded |-> m.expanded, listed |-> m.listed,
              count |-> m.count]
  BY <1>2 DEF TableValues
<1>6. Cardinality(kept) \in Nat
  <2>1. IsFiniteSet(kept)
    BY <1>3, PagesAreNumbers, FS_Subset
  <2>2. QED
    BY <2>1, FS_CardinalityType
<1>7. \A n \in Int : Wrap(n) \in 0..CountRange - 1
  BY CountRangeLarge, TableSizes DEF Wrap
<1>8. \A c \in Buckets : c \notin {b} \cup Under(b) => listed[c] = t.listed[c]
  BY DEF listed
<1>9. b \notin Under(b) => \A c \in Under(b) : listed[c] = 0
  BY <1>4 DEF listed
<1>10. listed \in [Buckets -> 0..CountRange - 1]
  <2>1. ASSUME NEW c \in Buckets
        PROVE  \/ listed[c] = Wrap(t.listed[b] + Cardinality(kept)) /\ c = b
               \/ listed[c] = 0
               \/ listed[c] = t.listed[c]
    BY DEF listed
  <2>2. 0 \in 0..CountRange - 1
    BY CountRangeLarge, TableSizes
  <2>3. ASSUME NEW c \in Buckets
        PROVE  listed[c] \in 0..CountRange - 1
    <3>1. CASE listed[c] = Wrap(t.listed[b] + Cardinality(kept)) /\ c = b
      <4>1. t.listed[b] \in Int
        BY <1>1, <3>1, CountRangeLarge
      <4>2. t.listed[b] + Cardinality(kept) \in Int
        BY <1>6, <4>1
      <4>3. QED
        BY <1>7, <3>1, <4>2
    <3>2. CASE listed[c] = 0
      BY <2>2, <3>2
    <3>3. CASE listed[c] = t.listed[c]
      BY <1>1, <3>3
    <3>4. QED
      BY <2>1, <3>1, <3>2, <3>3
  <2>4. listed = [c \in Buckets |-> listed[c]]
    BY DEF listed
  <2>5. QED
    BY <2>3, <2>4
<1>11. /\ count \in [Tables -> Nat]
       /\ \A c \in Tables : c \notin {b} \cup Under(b) => count[c] = t.count[c]
  BY <1>1 DEF count
<1>12. /\ value \in [Pages -> Nat]
       /\ \A k \in Pages : value[k] = t.value[k] \/ value[k] = 0
       /\ \A k \in Pages : value[k] # t.value[k] => In(b, k)
  BY <1>1 DEF value
<1>13. m.expanded \subseteq Buckets
  BY <1>1, <1>5
<1>14. m \in TableValues
  BY <1>5, <1>10, <1>11, <1>12, <1>13 DEF TableValues
<1>15. b \in Buckets \ Under(b) => listed[b] = Wrap(t.listed[b] + Cardinality(kept))
  BY DEF listed
<1>16. KeysIn(m, b) = kept
  BY <1>3, <1>5 DEF KeysIn, Present
<1>17. QED
  BY <1>5, <1>8, <1>9, <1>11, <1>12, <1>14, <1>15, <1>16 DEF Remains, m

(* A merge leaves the table sound, and exact if it drops no key.           *)
LEMMA MergeSound ==
    ASSUME NEW t, Sound(t), NEW b \in t.expanded
    PROVE  LET m == Merge(t, b)
           IN /\ Sound(m) /\ (Exact(t) /\ m.value = t.value => Exact(m))
              /\ Remains(t.value, m.value)
              /\ m.count[Root] = t.count[Root]
              /\ \A k \in Pages : LeafLevel(m, k) = IF In(b, k) THEN b[1] ELSE LeafLevel(t, k)
<1> DEFINE m == Merge(t, b)
<1>1. t \in TableValues /\ t.expanded \subseteq Buckets /\ t.count \in [Tables -> Nat]
  BY DEF Sound, TableValues
<1>2. /\ m \in TableValues
      /\ Remains(t.value, m.value)
      /\ \A k \in Pages : m.value[k] # t.value[k] => In(b, k)
      /\ m.expanded = t.expanded \ ({b} \cup Under(b))
      /\ \A c \in Buckets : c \notin {b} \cup Under(b) => m.listed[c] = t.listed[c]
      /\ b \notin Under(b) => \A c \in Under(b) : m.listed[c] = 0
      /\ \A c \in Tables : c \notin {b} \cup Under(b) => m.count[c] = t.count[c]
  BY <1>1, MergeFields
<1> HIDE DEF m
<1>3. b \in Buckets /\ b[1] \in 0..Levels - 1 /\ b \notin Under(b)
  BY <1>1, BucketIs DEF Under
<1>4. ASSUME NEW k \in Pages, In(b, k)
      PROVE  Way(m, k) /\ LastCounted(m, k) /\ LeafLevel(m, k) = b[1]
  <2>1. k \in Nat /\ Levels \in Nat \ {0} /\ b = At(k, b[1])
    BY <1>3, <1>4, PagesAreNumbers, LevelsSuffice, InIs
  <2>2. /\ LeafLevel(t, k) \in 0..Levels - 1
        /\ \A n \in 0..Levels - 1 : At(k, n) \in t.expanded <=> n < LeafLevel(t, k)
    BY DEF Sound, Way
  <2>3. b[1] < LeafLevel(t, k)
    BY <1>3, <2>1, <2>2
  <2>4. ASSUME NEW n \in 0..Levels - 1
        PROVE  /\ At(k, n) \in Buckets
               /\ At(k, n) = b => n = b[1]
               /\ At(k, n) \in Under(b) <=> b[1] < n
    <3>1. At(k, n) \in Buckets /\ At(k, n)[1] = n /\ In(At(k, n), k)
      BY <2>1, AtIs, InIs
    <3>2. QED
      BY <1>3, <1>4, <2>1, <3>1, UnderIs
  <2>5. ASSUME NEW n \in 0..Levels - 1
        PROVE  At(k, n) \in m.expanded <=> n < b[1]
    <3>1. CASE n < b[1]
      <4>1. n < LeafLevel(t, k) /\ n # b[1] /\ ~(b[1] < n)
        BY <1>3, <2>2, <2>3, <3>1
      <4>2. At(k, n) \in t.expanded /\ At(k, n) # b /\ At(k, n) \notin Under(b)
        BY <2>2, <2>4, <4>1
      <4>3. QED
        BY <1>2, <3>1, <4>2
    <3>2. CASE n = b[1]
      BY <1>2, <1>3, <2>1, <3>2
    <3>3. CASE b[1] < n
      <4>1. ~(n < b[1])
        BY <1>3, <3>3
      <4>2. QED
        BY <1>2, <2>4, <3>3, <4>1
    <3>4. QED
      BY <1>3, <3>1, <3>2, <3>3
  <2>6. LeafLevel(m, k) = b[1]
    BY <1>3, <2>5, LeafLevelIs
  <2>7. Way(m, k)
    BY <1>3, <2>5, <2>6 DEF Way
  <2>8. Levels - 1 \in 0..Levels - 1 /\ b[1] < Levels - 1
    BY <1>3, <2>1, <2>2, <2>3
  <2>9. m.listed[At(k, Levels - 1)] = 0
    BY <1>2, <1>3, <2>4, <2>8
  <2>10. LeafLevel(m, k) # Levels - 1
    BY <1>3, <2>6, <2>8
  <2>11. QED
    BY <2>6, <2>7, <2>9, <2>10 DEF LastCounted
<1>5. ASSUME NEW k \in Pages, ~In(b, k)
      PROVE  Way(m, k) /\ LastCounted(m, k) /\ LeafLevel(m, k) = LeafLevel(t, k)
  <2>1. \A c \in Buckets : c \notin {b} \cup Under(b) =>
            /\ c \in m.expanded <=> c \in t.expanded
            /\ m.listed[c] = t.listed[c]
    BY <1>2
  <2>2. m.value[k] = t.value[k]
    BY <1>2, <1>5
  <2>3. QED
    BY <1>3, <1>5, <2>1, <2>2, ElsewhereSame
<1>6. Present(m) \subseteq Present(t) /\ (m.value = t.value => Present(m) = Present(t))
  <2>1. t.value \in [Pages -> Nat]
    BY <1>1 DEF TableValues
  <2>2. QED
    BY <1>2, <2>1 DEF Present, Remains
<1>7. Root \notin {b} \cup Under(b)
  <2>1. Root \notin Buckets
    <3>1. Root[1] = -1 /\ -1 \notin 0..Levels - 1
      BY DEF Root
    <3>2. QED
      BY <3>1, BucketIs
  <2>2. QED
    BY <1>3, <2>1 DEF Under
<1>8. ASSUME NEW c \in Live(m)
      PROVE  /\ c \in Live(t) /\ m.count[c] = t.count[c] /\ t.count[c] \in Nat
             /\ Cardinality(KeysIn(m, c)) \in Nat /\ Cardinality(KeysIn(t, c)) \in Nat
             /\ Cardinality(KeysIn(m, c)) <= Cardinality(KeysIn(t, c))
             /\ m.value = t.value => Cardinality(KeysIn(m, c)) = Cardinality(KeysIn(t, c))
  <2>1. c \in Live(t) /\ c \in Tables /\ c \notin {b} \cup Under(b)
    BY <1>1, <1>2, <1>7 DEF Live, Tables
  <2>2. /\ KeysIn(m, c) \subseteq KeysIn(t, c)
        /\ m.value = t.value => KeysIn(m, c) = KeysIn(t, c)
    BY <1>6 DEF KeysIn
  <2>3. IsFiniteSet(KeysIn(t, c))
    BY KeysCount
  <2>4. Cardinality(KeysIn(m, c)) <= Cardinality(KeysIn(t, c))
    BY <2>2, <2>3, FS_Subset
  <2>5. Cardinality(KeysIn(m, c)) \in Nat /\ Cardinality(KeysIn(t, c)) \in Nat
    BY KeysCount
  <2>6. m.count[c] = t.count[c] /\ t.count[c] \in Nat
    BY <1>1, <1>2, <2>1
  <2>7. QED
    BY <2>1, <2>2, <2>4, <2>5, <2>6
<1>9. Covers(m) /\ (Exact(t) /\ m.value = t.value => Exact(m))
  <2>1. ASSUME NEW c \in Live(m)
        PROVE  m.count[c] >= Cardinality(KeysIn(m, c))
    <3>1. t.count[c] >= Cardinality(KeysIn(t, c))
      BY <1>8 DEF Sound, Covers
    <3>2. QED
      BY <1>8, <3>1
  <2>2. ASSUME Exact(t), m.value = t.value, NEW c \in Live(m)
        PROVE  m.count[c] = Cardinality(KeysIn(m, c))
    <3>1. t.count[c] = Cardinality(KeysIn(t, c))
      BY <1>8, <2>2 DEF Exact
    <3>2. QED
      BY <1>8, <2>2, <3>1
  <2>3. QED
    BY <2>1, <2>2 DEF Covers, Exact
<1>10. m.count[Root] = t.count[Root]
  <2>1. Root \in Tables
    BY DEF Tables
  <2>2. QED
    BY <1>2, <1>7, <2>1
<1>11. QED
  BY <1>2, <1>4, <1>5, <1>9, <1>10 DEF Sound, m

(* What one more table on the way back does to the table.                  *)
MergedAt(t, k, l) ==
    IF t.count[At(k, l)] < MERGE_SIZE THEN Merge(t, At(k, l)) ELSE t

(* The tables on the way back from the leaf: back[l] after level l.        *)
IsWayBack(t, k, back) ==
    back = [l \in 0..LeafLevel(t, k) |->
               IF l = LeafLevel(t, k) THEN Removed(t, k) ELSE MergedAt(back[l + 1], k, l)]

(* There is a way back from the leaf, and delete() takes it.               *)
LEMMA DeleteGoesBack ==
    ASSUME NEW t, Sound(t), NEW k \in Pages
    PROVE  \E back : IsWayBack(t, k, back) /\ Delete(t, k) = back[0]
<1> DEFINE d == LeafLevel(t, k)
           r == Removed(t, k)
           step == [i \in Nat |-> [u \in TableValues |-> MergedAt(u, k, d - i)]]
<1>1. d \in Nat
  BY DEF Sound, Way
<1>2. r \in TableValues
  BY RemovedSound DEF Sound
<1>3. \A u \in TableValues : \A l : MergedAt(u, k, l) \in TableValues
  BY MergeFields DEF MergedAt
<1>4. IsStep(TableValues, step)
  BY <1>3 DEF IsStep
<1>5. \A i \in Nat, u \in TableValues : step[i][u] = MergedAt(u, k, d - i)
  OBVIOUS
<1> HIDE DEF d, r, step
<1>6. PICK f : Steps(TableValues, r, step, d, f)
  BY <1>1, <1>2, <1>4, StepsDefine
<1>7. /\ f \in [0..d -> TableValues] /\ f[0] = r
      /\ \A i \in 1..d : f[i] = step[i][f[i - 1]]
  BY <1>6 DEF Steps
<1> DEFINE Back(g) == g = [l \in 0..d |-> IF l = d THEN r ELSE MergedAt(g[l + 1], k, l)]
           g == [l \in 0..d |-> f[d - l]]
<1>8. ASSUME NEW l \in 0..d
      PROVE  g[l] = IF l = d THEN r ELSE MergedAt(g[l + 1], k, l)
  <2>1. CASE l = d
    <3>1. d - l = 0
      BY <1>1, <2>1
    <3>2. QED
      BY <1>7, <2>1, <3>1
  <2>2. CASE l # d
    <3>1. d - l \in 1..d /\ l + 1 \in 0..d /\ (d - l) - 1 = d - (l + 1) /\ d - (d - l) = l
          /\ (d - l) - 1 \in 0..d /\ d - l \in Nat
      BY <1>1, <2>2
    <3>2. f[d - l] = MergedAt(f[(d - l) - 1], k, d - (d - l))
      BY <1>5, <1>7, <3>1
    <3>3. g[l] = f[d - l] /\ g[l + 1] = f[d - (l + 1)]
      BY <3>1
    <3>4. QED
      BY <2>2, <3>1, <3>2, <3>3
  <2>3. QED
    BY <2>1, <2>2
<1>9. Back(g)
  BY <1>8
<1> DEFINE back == CHOOSE h : Back(h)
<1>10. Back(back)
  BY <1>9
<1>11. Delete(t, k) = back[0]
  BY DEF Delete, MergedAt, d, r
<1> HIDE DEF back
<1>12. IsWayBack(t, k, back)
  BY <1>10 DEF IsWayBack, d, r
<1>13. QED
  BY <1>11, <1>12

(* What sll_remove() establishes and every merge on the way back keeps     *)
(* holds after delete(): it merges expanded buckets that have become small.*)
LEMMA DeleteKeeps ==
    ASSUME NEW t, Sound(t), NEW k \in Pages, NEW S, Removed(t, k) \in S,
           \A u \in S : \A b \in u.expanded :
               Sound(u) /\ u.count[b] < MERGE_SIZE => Merge(u, b) \in S
    PROVE  Delete(t, k) \in S /\ Sound(Delete(t, k))
<1> DEFINE d == LeafLevel(t, k)
           r == Removed(t, k)
<1>1. PICK back : IsWayBack(t, k, back) /\ Delete(t, k) = back[0]
  BY DeleteGoesBack
<1>2. k \in Nat /\ Levels \in Nat \ {0} /\ d \in 0..Levels - 1 /\ Way(t, k)
  BY PagesAreNumbers, LevelsSuffice DEF Sound, Way
<1>3. Sound(r) /\ r.expanded = t.expanded
  BY RemovedSound
<1> HIDE DEF r
<1>4. LeafLevel(r, k) = d
  BY <1>2, <1>3, LeafLevelIs DEF Way
<1>5. back[d] = r /\ \A l \in 0..d : l # d => back[l] = MergedAt(back[l + 1], k, l)
  BY <1>1, <1>2 DEF IsWayBack, r
<1> HIDE DEF d
<1> DEFINE Fine(l) == Sound(back[l]) /\ LeafLevel(back[l], k) >= l /\ back[l] \in S
<1>6. Fine(d)
  <2>1. d >= d
    BY <1>2
  <2>2. QED
    BY <1>3, <1>4, <1>5, <2>1 DEF r
<1>7. ASSUME NEW l \in 0..d, l # d, Fine(l + 1)
      PROVE  Fine(l)
  <2> DEFINE u == back[l + 1]
             b == At(k, l)
             m == Merge(u, b)
  <2>1. back[l] = IF u.count[b] < MERGE_SIZE THEN m ELSE u
    BY <1>5, <1>7 DEF MergedAt
  <2>2. Sound(u) /\ LeafLevel(u, k) >= l + 1 /\ l \in 0..Levels - 1
    BY <1>2, <1>7
  <2>3. LeafLevel(u, k) \in 0..Levels - 1 /\ Way(u, k)
    BY <2>2 DEF Sound, Way
  <2>4. l < LeafLevel(u, k) /\ LeafLevel(u, k) >= l
    BY <2>2, <2>3
  <2>5. b \in u.expanded /\ b[1] = l /\ In(b, k)
    BY <1>2, <2>2, <2>3, <2>4, AtIs, InIs DEF Way
  <2>6. CASE ~(u.count[b] < MERGE_SIZE)
    BY <1>7, <2>1, <2>4, <2>6
  <2>7. CASE u.count[b] < MERGE_SIZE
    <3>1. Sound(m) /\ LeafLevel(m, k) = l
      BY <2>2, <2>5, MergeSound
    <3>2. m \in S
      BY <1>7, <2>2, <2>5, <2>7
    <3>3. l >= l
      BY <2>2
    <3>4. QED
      BY <2>1, <2>7, <3>1, <3>2, <3>3
  <2>8. QED
    BY <2>6, <2>7
<1>8. Fine(0)
  <2> DEFINE Good == {i \in 0..d : Fine(d - i)}
  <2>1. d \in Nat
    BY <1>2
  <2> HIDE DEF Fine
  <2>2. 0 \in Good
    <3>1. d - 0 = d /\ 0 \in 0..d
      BY <2>1
    <3>2. QED
      BY <1>6, <3>1
  <2>3. ASSUME NEW i \in 1..d, i - 1 \in Good
        PROVE  i \in Good
    <3>1. d - i \in 0..d /\ d - i # d /\ d - (i - 1) = (d - i) + 1 /\ i \in 0..d
      BY <2>1
    <3>2. Fine((d - i) + 1)
      BY <2>3, <3>1
    <3>3. QED
      BY <1>7, <3>1, <3>2
  <2>4. \A i \in 0..d : i \in Good
    <3> HIDE DEF Good
    <3>1. QED
      BY <2>1, <2>2, <2>3, EveryIndex
  <2>5. d \in 0..d /\ d - d = 0
    BY <2>1
  <2>6. QED
    BY <2>4, <2>5
<1>9. QED
  BY <1>1, <1>8

(* delete() takes one of the key away, keeps the table sound, and exact if *)
(* no merge on the way back drops a key.                                   *)
LEMMA DeleteSound ==
    ASSUME NEW t, Sound(t), NEW k \in Pages
    PROVE  LET u == Delete(t, k)
               lowered == Lowered(t.value, k)
           IN /\ Sound(u) /\ Remains(lowered, u.value)
              /\ Exact(t) /\ u.value = lowered => Exact(u)
              /\ u.count[Root] = t.count[Root] - IF t.value[k] = 1 THEN 1 ELSE 0
<1> DEFINE r == Removed(t, k)
           lowered == Lowered(t.value, k)
           size == t.count[Root] - IF t.value[k] = 1 THEN 1 ELSE 0
           Kept(u) == /\ Remains(lowered, u.value)
                      /\ Exact(t) /\ u.value = lowered => Exact(u)
                      /\ u.count[Root] = size
           S == {u \in TableValues : Kept(u)}
<1>1. r \in S
  <2>1. /\ Sound(r) /\ (Exact(t) => Exact(r))
        /\ r.value = lowered /\ r.count[Root] = size
    BY RemovedSound
  <2> HIDE DEF r, size, lowered
  <2>2. r \in TableValues /\ Remains(lowered, lowered)
    BY <2>1 DEF Remains, Sound, TableValues
  <2>3. QED
    BY <2>1, <2>2
<1> HIDE DEF size, lowered
<1>2. ASSUME NEW u \in S, NEW b \in u.expanded, Sound(u)
      PROVE  Merge(u, b) \in S
  <2> DEFINE m == Merge(u, b)
  <2>1. /\ Sound(m) /\ (Exact(u) /\ m.value = u.value => Exact(m))
        /\ Remains(u.value, m.value)
        /\ m.count[Root] = u.count[Root]
    BY <1>2, MergeSound
  <2> HIDE DEF m
  <2>2. Remains(lowered, m.value)
    BY <1>2, <2>1 DEF Remains
  <2>3. ASSUME m.value = lowered
        PROVE  u.value = m.value
    <3>1. u.value \in [Pages -> Nat] /\ m.value \in [Pages -> Nat]
      BY <1>2, <2>1 DEF Remains
    <3>2. \A j \in Pages : u.value[j] = m.value[j]
      BY <1>2, <2>1, <2>3 DEF Remains
    <3>3. QED
      BY <3>1, <3>2
  <2>4. m \in TableValues
    BY <2>1 DEF Sound
  <2>5. Kept(m)
    BY <1>2, <2>1, <2>2, <2>3
  <2>6. QED
    BY <2>4, <2>5 DEF m
<1>3. Delete(t, k) \in S /\ Sound(Delete(t, k))
  <2> HIDE DEF S
  <2>1. QED
    BY <1>1, <1>2, DeleteKeeps
<1>4. QED
  BY <1>3 DEF lowered, size

(* An empty table is sound and exact.                                      *)
LEMMA EmptySound ==
    /\ Sound(EmptyTable) /\ Exact(EmptyTable)
    /\ EmptyTable.value = [k \in Pages |-> 0] /\ EmptyTable.count[Root] = 0
<1> DEFINE t == EmptyTable
<1>1. /\ t.value = [k \in Pages |-> 0] /\ t.expanded = {}
      /\ t.listed = [b \in Buckets |-> 0] /\ t.count = [c \in Tables |-> 0]
  BY DEF EmptyTable
<1>2. 0 \in 0..CountRange - 1 /\ 0 \in 0..Levels - 1 /\ Levels - 1 \in 0..Levels - 1
  BY CountRangeLarge, TableSizes, LevelsSuffice
<1>3. t \in TableValues
  BY <1>2 DEF EmptyTable, TableValues
<1> HIDE DEF t
<1>4. ASSUME NEW k \in Pages
      PROVE  Way(t, k) /\ LastCounted(t, k)
  <2>1. \A m \in 0..Levels - 1 : At(k, m) \in t.expanded <=> m < 0
    BY <1>1
  <2>2. LeafLevel(t, k) = 0
    BY <1>2, <2>1, LeafLevelIs
  <2>3. Way(t, k)
    BY <1>2, <2>1, <2>2 DEF Way
  <2>4. k \in Nat
    BY PagesAreNumbers
  <2>5. t.listed[At(k, Levels - 1)] = 0 /\ ~(t.value[k] > 0)
    BY <1>1, <1>2, <2>4, AtIs
  <2>6. QED
    BY <2>3, <2>5 DEF LastCounted
<1>5. \A c : KeysIn(t, c) = {}
  BY <1>1 DEF KeysIn, Present
<1>6. \A c \in Live(t) : t.count[c] = 0
  BY <1>1 DEF Live, Tables
<1>7. \A c : Cardinality(KeysIn(t, c)) = 0
  <2>1. Cardinality({}) = 0
    BY FS_EmptySet
  <2>2. QED
    BY ONLY <1>5, <2>1
<1>8. Covers(t) /\ Exact(t)
  <2>1. \A c \in Live(t) : t.count[c] = Cardinality(KeysIn(t, c)) /\ 0 >= 0
    BY <1>6, <1>7
  <2>2. \A c \in Live(t) : t.count[c] >= Cardinality(KeysIn(t, c))
    BY <1>6, <1>7, <2>1
  <2>3. QED
    BY ONLY <2>1, <2>2 DEF Covers, Exact
<1>9. t.count[Root] = 0
  BY <1>6 DEF Live
<1>10. QED
  BY <1>1, <1>3, <1>4, <1>8, <1>9 DEF Sound, t

---------------------------------------------------------------------------
(* The lengths of the lists                                                *)

(* How many keys a bucket's list has.                                      *)
ListOf(t, b) == {k \in Present(t) : Leaf(t, k) = b}
Length(t, b) == Cardinality(ListOf(t, b))

(* The list is counted right, or by d too few, and then it is short.       *)
Counted(t, b) == t.listed[b] = Length(t, b) /\ Length(t, b) <= SPLIT_SIZE
Lags(t, b, d) == t.listed[b] = Wrap(Length(t, b) - d) /\ Length(t, b) < MERGE_SIZE

(* No list lags by more than drift; one that lags has been split once.     *)
ShortBut(t, drift, but) ==
    \A b \in Buckets \ but :
        Counted(t, b) \/ \E d \in SPLIT_SIZE + 1..drift : Lags(t, b, d)
Short(t, drift) == ShortBut(t, drift, {})

(* Quotients of integers.                                                  *)
LEMMA IntegerDivision ==
    /\ \A b \in Nat \ {0}, q \in Int : \A r \in 0..b - 1 : (b * q + r) % b = r
    /\ \A a \in Int, b \in Nat \ {0} :
          \E q \in Int : \E r \in 0..b - 1 : a = b * q + r /\ a % b = r
<1>1. ASSUME NEW b \in Nat \ {0}, NEW q \in Int, NEW r \in 0..b - 1
      PROVE  (b * q + r) % b = r
  OBVIOUS
<1>2. ASSUME NEW a \in Int, NEW b \in Nat \ {0}
      PROVE  a \div b \in Int /\ a % b \in 0..b - 1 /\ a = b * (a \div b) + (a % b)
  OBVIOUS
<1>3. QED
  BY <1>1, <1>2

(* Counting on from a wrapped count is as good as from the count itself.   *)
LEMMA WrapMoved ==
    ASSUME NEW n \in Int, NEW m \in Int
    PROVE  Wrap(Wrap(n) + m) = Wrap(n + m)
<1>1. PICK b \in Nat \ {0} : b = CountRange
  BY CountRangeLarge, TableSizes
<1>2. PICK q \in Int : \E r \in 0..b - 1 : n = b * q + r /\ n % b = r
  BY IntegerDivision
<1>3. PICK r \in 0..b - 1 : n = b * q + r /\ n % b = r
  BY <1>2
<1>4. r + m \in Int
  BY <1>3
<1>5. PICK p \in Int : \E s \in 0..b - 1 : r + m = b * p + s /\ (r + m) % b = s
  BY <1>4, IntegerDivision
<1>6. PICK s \in 0..b - 1 : r + m = b * p + s /\ (r + m) % b = s
  BY <1>5
<1>7. n + m = b * (q + p) + s /\ q + p \in Int
  BY <1>3, <1>6
<1>8. (n + m) % b = s
  BY <1>6, <1>7, IntegerDivision
<1>9. QED
  BY <1>1, <1>3, <1>6, <1>8 DEF Wrap

(* A count within the range stays; one a little below zero is very large.  *)
LEMMA WrapNear ==
    ASSUME NEW n \in Int
    PROVE  /\ n \in 0..CountRange - 1 => Wrap(n) = n
           /\ n < 0 /\ -CountRange <= n => Wrap(n) = CountRange + n
  BY CountRangeLarge, TableSizes DEF Wrap

(* Lists are finite.                                                       *)
LEMMA LengthIs ==
    ASSUME NEW t, NEW b
    PROVE  /\ IsFiniteSet(ListOf(t, b)) /\ Length(t, b) \in Nat
           /\ ListOf(t, b) = {} => Length(t, b) = 0
           /\ \A k : k \notin ListOf(t, b) =>
                 Cardinality(ListOf(t, b) \cup {k}) = Length(t, b) + 1
           /\ \A k \in ListOf(t, b) :
                 Cardinality(ListOf(t, b) \ {k}) = Length(t, b) - 1
<1>1. ListOf(t, b) \subseteq Pages
  BY DEF ListOf, Present
<1>2. IsFiniteSet(ListOf(t, b))
  BY <1>1, PagesAreNumbers, FS_Subset
<1>3. QED
  BY <1>2, FS_CardinalityType, FS_AddElement, FS_RemoveElement, FS_EmptySet DEF Length

(* A key's leaf.                                                           *)
LEMMA LeafIs ==
    ASSUME NEW t, Sound(t), NEW k \in Pages
    PROVE  /\ k \in Nat /\ Leaf(t, k) = At(k, LeafLevel(t, k)) /\ Leaf(t, k) \in Buckets
           /\ Leaf(t, k)[1] = LeafLevel(t, k) /\ LeafLevel(t, k) \in 0..Levels - 1
           /\ In(Leaf(t, k), k) /\ Leaf(t, k) \notin t.expanded
<1>1. k \in Nat /\ Way(t, k)
  BY PagesAreNumbers DEF Sound
<1>2. LeafLevel(t, k) \in 0..Levels - 1 /\ ~(LeafLevel(t, k) < LeafLevel(t, k))
  BY <1>1 DEF Way
<1>3. Leaf(t, k) = At(k, LeafLevel(t, k)) /\ Leaf(t, k) \notin t.expanded
  BY <1>1, <1>2 DEF Way, Leaf
<1>4. QED
  BY <1>1, <1>2, <1>3, AtIs, InIs

(* Tables with the same expanded buckets have the same leaves.             *)
LEMMA SameLeaves ==
    ASSUME NEW t, Sound(t), NEW s, s.expanded = t.expanded, NEW k \in Pages
    PROVE  Leaf(s, k) = Leaf(t, k)
<1>1. LeafLevel(s, k) = LeafLevel(t, k)
  BY LeafLevelIs DEF Sound, Way
<1>2. QED
  BY <1>1 DEF Leaf

(* An expanded bucket has no list.                                         *)
LEMMA NoListExpanded ==
    ASSUME NEW t, Sound(t), NEW b \in t.expanded
    PROVE  Length(t, b) = 0
<1>1. ListOf(t, b) = {}
  BY LeafIs DEF ListOf, Present
<1>2. QED
  BY <1>1, LengthIs

(* A bucket whose list and count stay is as short as it was.               *)
LEMMA ShortStays ==
    ASSUME NEW t, NEW s, NEW b \in Buckets, NEW drift \in Nat, NEW more \in Nat, drift <= more,
           Counted(t, b) \/ \E d \in SPLIT_SIZE + 1..drift : Lags(t, b, d),
           s.listed[b] = t.listed[b], ListOf(s, b) = ListOf(t, b)
    PROVE  Counted(s, b) \/ \E d \in SPLIT_SIZE + 1..more : Lags(s, b, d)
<1>1. Length(s, b) = Length(t, b)
  BY DEF Length
<1>2. SPLIT_SIZE \in Nat
  BY TableSizes
<1>3. QED
  BY <1>1, <1>2 DEF Counted, Lags

(* How far the count of a list that is split is off: it lags by d, and that*)
(* and the keys moved are what it will lag by (linkedlist.c).              *)
Splits(t, b, drift) ==
    \E d \in 0..drift : /\ t.listed[b] = Wrap(Length(t, b) - d)
                        /\ d + Length(t, b) \in SPLIT_SIZE + 1..drift + SPLIT_SIZE + 1

(* A key that is added leaves its list short, or has it split; one that    *)
(* lags is split by any key that is added to it.                           *)
LEMMA AddedShort ==
    ASSUME NEW t, Sound(t), NEW drift \in Nat, Short(t, drift), CountRange > drift + SPLIT_SIZE,
           NEW k \in Pages
    PROVE  LET a == Added(t, k)
               b == Leaf(t, k)
           IN /\ ShortBut(a, drift, {b})
              /\ IF a.listed[b] > SPLIT_SIZE THEN Splits(a, b, drift) ELSE Counted(a, b)
<1> DEFINE a == Added(t, k)
           b == Leaf(t, k)
           n == Length(t, b)
           more == IF t.value[k] = 0 THEN 1 ELSE 0
<1>1. /\ t.value \in [Pages -> Nat] /\ t.listed \in [Buckets -> 0..CountRange - 1]
      /\ t.value[k] \in Nat /\ b \in Buckets /\ k \in Nat
  BY LeafIs DEF Sound, TableValues
<1>2. /\ a.value = [t.value EXCEPT ![k] = @ + 1] /\ a.expanded = t.expanded
      /\ a.listed = [t.listed EXCEPT ![b] = IF more = 1 THEN Wrap(@ + 1) ELSE @]
  <2>1. CASE t.value[k] = 0
    BY <1>1, <2>1, AddedFirst
  <2>2. CASE t.value[k] > 0
    <3>1. more # 1 /\ t.listed = [t.listed EXCEPT ![b] = t.listed[b]]
      BY <1>1, <2>2
    <3>2. QED
      BY <2>2, <3>1, AddedAgain
  <2>3. QED
    BY <1>1, <2>1, <2>2
<1> HIDE DEF a
<1>3. \A j \in Pages : Leaf(a, j) = Leaf(t, j)
  BY <1>2, SameLeaves
<1>4. Present(a) = Present(t) \cup {k}
  <2>1. \A j \in Pages : a.value[j] > 0 <=> t.value[j] > 0 \/ j = k
    BY <1>1, <1>2
  <2>2. QED
    BY <2>1 DEF Present
<1>5. \A c : ListOf(a, c) = IF c = b THEN ListOf(t, c) \cup {k} ELSE ListOf(t, c)
  BY <1>3, <1>4 DEF ListOf, Present
<1>6. k \in ListOf(t, b) <=> more = 0
  BY <1>1 DEF ListOf, Present
<1> HIDE DEF b
<1>7. n \in Nat /\ Length(a, b) = n + more
  <2>1. CASE more = 0
    <3>1. ListOf(a, b) = ListOf(t, b)
      BY <1>5, <1>6, <2>1
    <3>2. QED
      BY <2>1, <3>1, LengthIs DEF Length
  <2>2. CASE more = 1
    BY <1>5, <1>6, <2>2, LengthIs DEF Length
  <2>3. QED
    BY <2>1, <2>2
<1>8. ShortBut(a, drift, {b})
  <2>1. ASSUME NEW c \in Buckets \ {b}
        PROVE  Counted(a, c) \/ \E d \in SPLIT_SIZE + 1..drift : Lags(a, c, d)
    <3>1. a.listed[c] = t.listed[c] /\ ListOf(a, c) = ListOf(t, c)
      BY <1>1, <1>2, <1>5
    <3>2. Counted(t, c) \/ \E d \in SPLIT_SIZE + 1..drift : Lags(t, c, d)
      BY DEF Short, ShortBut
    <3>3. drift <= drift
      OBVIOUS
    <3>4. QED
      BY <3>1, <3>2, <3>3, ShortStays
  <2>2. QED
    BY <2>1 DEF ShortBut
<1> HIDE DEF n, more
<1>9. more \in {0, 1} /\ SPLIT_SIZE \in Nat /\ CountRange \in Nat /\ MERGE_SIZE <= SPLIT_SIZE
      /\ MERGE_SIZE \in Nat /\ CountRange > SPLIT_SIZE + 1
  BY TableSizes, CountRangeLarge DEF more
<1>10. a.listed[b] = IF more = 1 THEN Wrap(t.listed[b] + 1) ELSE t.listed[b]
  BY <1>1, <1>2
<1>11. CASE Counted(t, b)
  <2>1. t.listed[b] = n /\ n <= SPLIT_SIZE
    BY <1>11 DEF Counted, n
  <2>2. Wrap(n + 1) = n + 1
    BY <1>7, <1>9, <2>1, WrapNear
  <2>3. a.listed[b] = n + more
    BY <1>7, <1>9, <1>10, <2>1, <2>2
  <2>4. CASE a.listed[b] > SPLIT_SIZE
    <3>1. n + more = SPLIT_SIZE + 1
      BY <1>7, <1>9, <2>1, <2>3, <2>4
    <3>2. /\ 0 \in 0..drift /\ Wrap(n + more - 0) = n + more
          /\ 0 + (n + more) \in SPLIT_SIZE + 1..drift + SPLIT_SIZE + 1
      BY <1>7, <1>9, <3>1, WrapNear
    <3>3. a.listed[b] = Wrap(Length(a, b) - 0) /\ 0 + Length(a, b) = 0 + (n + more)
      BY <1>7, <1>9, <2>3, <3>2
    <3>4. Splits(a, b, drift)
      BY <3>2, <3>3 DEF Splits
    <3>5. QED
      BY <1>8, <2>4, <3>4 DEF b, a
  <2>5. CASE ~(a.listed[b] > SPLIT_SIZE)
    <3>1. n + more <= SPLIT_SIZE
      BY <1>7, <1>9, <2>3, <2>5
    <3>2. QED
      BY <1>7, <1>8, <2>3, <2>5, <3>1 DEF Counted, b, a
  <2>6. QED
    BY <2>4, <2>5
<1>12. CASE \E d \in SPLIT_SIZE + 1..drift : Lags(t, b, d)
  <2>1. PICK d \in SPLIT_SIZE + 1..drift : t.listed[b] = Wrap(n - d) /\ n < MERGE_SIZE
    BY <1>12 DEF Lags, n
  <2>2. d \in Int /\ n - d \in Int /\ n + more - d \in Int /\ n + more - d < 0
        /\ -CountRange <= n + more - d /\ CountRange + (n + more - d) > SPLIT_SIZE
    BY <1>7, <1>9, <2>1
  <2>3. a.listed[b] = Wrap(n + more - d)
    <3>1. Wrap(Wrap(n - d) + 1) = Wrap(n - d + 1)
      BY <2>2, WrapMoved
    <3>2. more = 1 => n - d + 1 = n + more - d
      BY <1>7, <2>2
    <3>3. more = 0 => n - d = n + more - d
      BY <1>7, <2>2
    <3>4. QED
      BY <1>9, <1>10, <2>1, <3>1, <3>2, <3>3
  <2>4. a.listed[b] > SPLIT_SIZE
    BY <2>2, <2>3, WrapNear
  <2>5. d \in 0..drift /\ d + (n + more) \in SPLIT_SIZE + 1..drift + SPLIT_SIZE + 1
    BY <1>7, <1>9, <2>1
  <2>6. Splits(a, b, drift)
    <3>1. a.listed[b] = Wrap(Length(a, b) - d) /\ d + Length(a, b) = d + (n + more)
      BY <1>7, <1>9, <2>3
    <3>2. QED
      BY <2>5, <3>1 DEF Splits
  <2>7. QED
    BY <1>8, <2>4, <2>6 DEF b, a
<1>13. QED
  BY <1>1, <1>11, <1>12 DEF Short, ShortBut

(* The leaves after a split: the keys of the list go to the children of    *)
(* what is split that are not split themselves.                            *)
LEMMA SplitLeaves ==
    ASSUME NEW t, Sound(t), NEW k \in Pages, LeafLevel(t, k) < Levels - 1
    PROVE  LET b == Leaf(t, k)
               s == Split(t, b)
               split == SplitOff(t, b)
           IN /\ ListOf(t, b) = KeysIn(t, b)
              /\ \A c \in Buckets \ ({b} \cup Under(b)) : ListOf(s, c) = ListOf(t, c)
              /\ \A c \in Under(b) \ split :
                    ListOf(s, c) = IF \E d \in split \cup {b} : c \in Child(d)
                                   THEN KeysIn(t, c) ELSE {}
<1> DEFINE b == Leaf(t, k)
           l == LeafLevel(t, k)
           s == Split(t, b)
           split == SplitOff(t, b)
<1>1. /\ b \in Buckets /\ b[1] = l /\ l \in 0..Levels - 1 /\ Levels \in Nat
      /\ Way(t, k)
  BY LeafIs, LevelsSuffice DEF Sound
<1>2. ASSUME NEW j \in Pages, In(b, j)
      PROVE  /\ LeafLevel(t, j) = l /\ Leaf(t, j) = b
             /\ \A m \in 0..Levels - 1 : At(j, m) \in t.expanded <=> m < l
  <2>1. LeafLevel(t, j) = l /\ Way(t, j)
    BY <1>1, <1>2, SameLeaf DEF Sound
  <2>2. b = At(j, b[1])
    BY <1>1, <1>2, InIs, LeafIs
  <2>3. QED
    BY <1>1, <2>1, <2>2 DEF Leaf, Way
<1>3. Sound(s)
  BY SplitSound
<1> HIDE DEF b, l
<1>4. s.value = t.value /\ s.expanded = t.expanded \cup {b} \cup split
      /\ \A c \in Buckets : c \notin {b} \cup Under(b) => s.listed[c] = t.listed[c]
  BY <1>1, SplitFields
<1> HIDE DEF s
<1>5. Present(s) = Present(t) /\ Present(t) \subseteq Pages
  BY <1>4 DEF Present
<1>6. split \subseteq Under(b) /\ Under(b) \subseteq Buckets
  BY DEF SplitOff, Under
<1> HIDE DEF split
<1>7. ListOf(t, b) = KeysIn(t, b)
  <2>1. \A j \in Present(t) : Leaf(t, j) = b => In(b, j)
    BY <1>5, LeafIs
  <2>2. \A j \in Present(t) : In(b, j) => Leaf(t, j) = b
    BY <1>2, <1>5
  <2>3. QED
    BY <2>1, <2>2 DEF ListOf, KeysIn
<1>8. ASSUME NEW j \in Pages, In(b, j)
      PROVE  Leaf(s, j) \in Under(b)
  <2>1. /\ j \in Nat /\ Leaf(s, j) \in Buckets /\ In(Leaf(s, j), j)
        /\ Leaf(s, j)[1] = LeafLevel(s, j) /\ Way(s, j)
    BY <1>3, LeafIs DEF Sound
  <2>2. b = At(j, l)
    BY <1>1, <1>8, <2>1, InIs
  <2>3. l < LeafLevel(s, j)
    BY <1>1, <1>4, <2>1, <2>2 DEF Way
  <2>4. QED
    BY <1>1, <1>8, <2>1, <2>3, UnderIs
<1>9. ASSUME NEW c \in Buckets \ ({b} \cup Under(b))
      PROVE  ListOf(s, c) = ListOf(t, c)
  <2>1. ASSUME NEW j \in Pages
        PROVE  Leaf(s, j) = c <=> Leaf(t, j) = c
    <3>1. CASE In(b, j)
      BY <1>2, <1>8, <3>1
    <3>2. CASE ~In(b, j)
      <4>1. \A e \in Buckets : e \notin {b} \cup Under(b) =>
                /\ e \in s.expanded <=> e \in t.expanded
                /\ s.listed[e] = t.listed[e]
        BY <1>4, <1>6
      <4>2. LeafLevel(s, j) = LeafLevel(t, j)
        BY <1>1, <1>4, <3>2, <4>1, ElsewhereSame
      <4>3. QED
        BY <4>2 DEF Leaf
    <3>3. QED
      BY <3>1, <3>2
  <2>2. QED
    BY <1>5, <2>1 DEF ListOf
<1>10. ASSUME NEW c \in Under(b) \ split, NEW j \in Pages, In(c, j)
       PROVE  Leaf(s, j) = c <=> \E d \in split \cup {b} : c \in Child(d)
  <2> DEFINE m == c[1]
  <2>1. /\ j \in Nat /\ c \in Buckets /\ m \in 0..Levels - 1 /\ c = At(j, m)
        /\ l < m /\ In(b, j)
    BY <1>1, <1>6, <1>10, PagesAreNumbers, BucketIs, InIs, UnderIs
  <2>2. /\ Way(s, j) /\ Leaf(s, j) = At(j, LeafLevel(s, j)) /\ Leaf(s, j)[1] = LeafLevel(s, j)
        /\ LeafLevel(s, j) \in 0..Levels - 1
    BY <1>3, LeafIs DEF Sound
  <2>3. \A n \in 0..Levels - 1 : At(j, n) \in t.expanded <=> n < l
    BY <1>2, <2>1
  <2>4. b = At(j, l)
    BY <1>1, <2>1, InIs
  <2> DEFINE up == At(j, m - 1)
  <2>5. /\ m - 1 \in 0..Levels - 1 /\ ~(m - 1 < l) /\ ~(m < l) /\ m # l
        /\ (m - 1) + 1 = m /\ m - 1 < m
    BY <1>1, <2>1
  <2>6. up \in Buckets /\ up[1] = m - 1 /\ In(up, j)
    BY <2>1, <2>5, AtIs, InIs
  <2>7. ASSUME Leaf(s, j) = c
        PROVE  \E d \in split \cup {b} : c \in Child(d)
    <3>1. LeafLevel(s, j) = m
      BY <2>2, <2>7
    <3>2. up \in s.expanded
      BY <2>2, <2>5, <3>1 DEF Way
    <3>3. up \in split \cup {b}
      BY <1>4, <2>3, <2>5, <3>2
    <3>4. c \in Under(up)
      BY <1>10, <2>1, <2>5, <2>6, UnderIs
    <3>5. c \in Child(up)
      BY <2>5, <2>6, <3>4 DEF Child
    <3>6. QED
      BY <3>3, <3>5
  <2>8. ASSUME NEW d \in split \cup {b}, c \in Child(d)
        PROVE  Leaf(s, j) = c
    <3>1. d \in Buckets /\ c \in Under(d) /\ m = d[1] + 1 /\ d[1] \in 0..Levels - 1
      BY <1>1, <1>6, <2>8, BucketIs DEF Child
    <3>2. In(d, j) /\ d[1] = m - 1
      BY <1>10, <2>1, <3>1, UnderIs
    <3>3. d = up
      <4>1. d = At(j, d[1])
        BY <2>1, <3>1, <3>2, InIs
      <4>2. QED
        BY <3>2, <4>1
    <3>4. up \in s.expanded
      BY <1>4, <2>8, <3>3
    <3>5. m - 1 < LeafLevel(s, j)
      BY <2>2, <2>5, <3>4 DEF Way
    <3>6. c # b
      BY <1>1, <2>5
    <3>7. c \notin s.expanded
      BY <1>4, <1>10, <2>1, <2>3, <2>5, <3>6
    <3>8. ~(m < LeafLevel(s, j))
      BY <2>1, <2>2, <3>7 DEF Way
    <3>9. LeafLevel(s, j) = m
      BY ONLY <2>1, <2>2, <3>5, <3>8, <1>1
    <3>10. QED
      BY <2>1, <2>2, <3>9
  <2>9. QED
    BY <2>7, <2>8
<1>11. ASSUME NEW c \in Under(b) \ split
       PROVE  ListOf(s, c) = IF \E d \in split \cup {b} : c \in Child(d)
                             THEN KeysIn(t, c) ELSE {}
  <2>1. \A j \in Present(t) : Leaf(s, j) = c => In(c, j)
    BY <1>3, <1>5, LeafIs
  <2>2. \A j \in Present(t) :
           In(c, j) => (Leaf(s, j) = c <=> \E d \in split \cup {b} : c \in Child(d))
    BY <1>5, <1>10
  <2>3. QED
    BY <1>5, <2>1, <2>2 DEF ListOf, KeysIn
<1>12. QED
  BY <1>7, <1>9, <1>11 DEF s, split, b

(* A split leaves every list short.                                        *)
LEMMA SplitShort ==
    ASSUME NEW t, Sound(t), NEW k \in Pages, LeafLevel(t, k) < Levels - 1, NEW drift \in Nat,
           ShortBut(t, drift, {Leaf(t, k)}), Splits(t, Leaf(t, k), drift)
    PROVE  Short(Split(t, Leaf(t, k)), drift + SPLIT_SIZE + 1)
<1> DEFINE b == Leaf(t, k)
           s == Split(t, b)
           split == SplitOff(t, b)
           more == drift + SPLIT_SIZE + 1
<1>1. /\ b \in Buckets /\ SPLIT_SIZE \in Nat /\ MERGE_SIZE \in Nat /\ 0 < MERGE_SIZE
      /\ Splits(t, b, drift) /\ ShortBut(t, drift, {b})
  BY LeafIs, TableSizes
<1>2. Sound(s)
  BY SplitSound
<1>3. /\ ListOf(t, b) = KeysIn(t, b)
      /\ \A c \in Buckets \ ({b} \cup Under(b)) : ListOf(s, c) = ListOf(t, c)
      /\ \A c \in Under(b) \ split :
            ListOf(s, c) = IF \E d \in split \cup {b} : c \in Child(d)
                           THEN KeysIn(t, c) ELSE {}
  BY SplitLeaves
<1> HIDE DEF b
<1>4. /\ s.expanded = t.expanded \cup {b} \cup split
      /\ \A c \in Buckets : c \notin {b} \cup Under(b) => s.listed[c] = t.listed[c]
      /\ s.listed[b] = Wrap(t.listed[b] - 2 * Cardinality(KeysIn(t, b)))
      /\ \A c \in split : s.listed[c] = Wrap(-(SPLIT_SIZE + 1))
      /\ \A c \in Under(b) \ split :
            s.listed[c] = IF \E d \in split \cup {b} : c \in Child(d)
                          THEN Cardinality(KeysIn(t, c)) ELSE 0
  BY <1>1, SplitFields
<1> HIDE DEF s
<1>5. \A c \in split \cup {b} : Length(s, c) = 0
  BY <1>2, <1>4, NoListExpanded
<1>6. split = {c \in Under(b) : Cardinality(KeysIn(t, c)) > SPLIT_SIZE}
  BY DEF SplitOff
<1> HIDE DEF split
<1>7. \E d \in SPLIT_SIZE + 1..more : Lags(s, b, d)
  <2>1. PICK n \in Nat : n = Length(t, b) /\ n = Cardinality(KeysIn(t, b))
    BY <1>3, LengthIs DEF Length
  <2>2. PICK d \in 0..drift : /\ t.listed[b] = Wrap(n - d)
                              /\ d + n \in SPLIT_SIZE + 1..drift + SPLIT_SIZE + 1
    BY <1>1, <2>1 DEF Splits
  <2>3. n - d \in Int /\ -(2 * n) \in Int /\ 0 - (d + n) = n - d + -(2 * n)
    BY <2>1, <2>2
  <2>4. s.listed[b] = Wrap(Wrap(n - d) + -(2 * n))
    <3>1. Wrap(n - d) \in Int
      BY <2>3, CountRangeLarge, TableSizes DEF Wrap
    <3>2. Wrap(n - d) - 2 * n = Wrap(n - d) + -(2 * n)
      BY <2>1, <3>1
    <3>3. QED
      BY <1>4, <2>1, <2>2, <3>2
  <2>5. s.listed[b] = Wrap(0 - (d + n))
    BY <2>3, <2>4, WrapMoved
  <2>6. Lags(s, b, d + n)
    BY <1>1, <1>5, <2>5 DEF Lags
  <2>7. QED
    BY <2>2, <2>6
<1>8. ASSUME NEW c \in split
      PROVE  \E d \in SPLIT_SIZE + 1..more : Lags(s, c, d)
  <2>1. SPLIT_SIZE + 1 \in SPLIT_SIZE + 1..more /\ -(SPLIT_SIZE + 1) = 0 - (SPLIT_SIZE + 1)
    BY <1>1
  <2>2. Lags(s, c, SPLIT_SIZE + 1)
    BY <1>1, <1>4, <1>5, <1>8, <2>1 DEF Lags
  <2>3. QED
    BY <2>1, <2>2
<1>9. ASSUME NEW c \in Under(b) \ split
      PROVE  Counted(s, c)
  <2>1. ~(Cardinality(KeysIn(t, c)) > SPLIT_SIZE) /\ Cardinality(KeysIn(t, c)) \in Nat
    BY <1>6, KeysCount
  <2>2. Cardinality({}) = 0
    BY FS_EmptySet
  <2>3. Length(s, c) = s.listed[c] /\ Length(s, c) <= SPLIT_SIZE
    <3>1. CASE \E d \in split \cup {b} : c \in Child(d)
      <4>1. ListOf(s, c) = KeysIn(t, c) /\ s.listed[c] = Cardinality(KeysIn(t, c))
        BY <1>3, <1>4, <3>1
      <4>2. QED
        BY <1>1, <2>1, <4>1 DEF Length
    <3>2. CASE ~ \E d \in split \cup {b} : c \in Child(d)
      <4>1. ListOf(s, c) = {} /\ s.listed[c] = 0
        BY <1>3, <1>4, <3>2
      <4>2. QED
        BY <1>1, <2>2, <4>1 DEF Length
    <3>3. QED
      BY <3>1, <3>2
  <2>4. QED
    BY <2>3 DEF Counted
<1>10. ASSUME NEW c \in Buckets \ ({b} \cup Under(b))
       PROVE  Counted(s, c) \/ \E d \in SPLIT_SIZE + 1..more : Lags(s, c, d)
  <2>1. more \in Nat /\ drift <= more
    BY <1>1
  <2>2. Counted(t, c) \/ \E d \in SPLIT_SIZE + 1..drift : Lags(t, c, d)
    BY <1>1 DEF ShortBut
  <2> HIDE DEF more
  <2>3. QED
    BY <1>3, <1>4, <2>1, <2>2, ShortStays
<1>11. QED
  BY <1>7, <1>8, <1>9, <1>10 DEF Short, ShortBut, s, b

(* put() leaves every list short, while no wrapped count has come round.   *)
LEMMA PutShort ==
    ASSUME NEW t, Sound(t), NEW drift \in Nat, Short(t, drift), CountRange > drift + SPLIT_SIZE,
           NEW k \in Pages
    PROVE  Short(Put(t, k), drift + SPLIT_SIZE + 1)
<1> DEFINE a == Added(t, k)
           b == Leaf(t, k)
           more == drift + SPLIT_SIZE + 1
<1>1. /\ ShortBut(a, drift, {b})
      /\ IF a.listed[b] > SPLIT_SIZE THEN Splits(a, b, drift) ELSE Counted(a, b)
  BY AddedShort
<1>2. Put(t, k) = IF a.listed[b] > SPLIT_SIZE THEN Split(a, b) ELSE a
  BY DEF Put
<1>3. Sound(a) /\ a.expanded = t.expanded
  BY AddedSound
<1> HIDE DEF a
<1>4. b = Leaf(a, k)
  BY <1>3, SameLeaves
<1> HIDE DEF b
<1>5. /\ LastCounted(a, k) /\ LeafLevel(a, k) \in 0..Levels - 1
      /\ Leaf(a, k) = At(k, LeafLevel(a, k)) /\ Levels \in Nat /\ SPLIT_SIZE \in Nat
      /\ 0 < SPLIT_SIZE
  BY <1>3, LeafIs, LevelsSuffice, TableSizes DEF Sound
<1>6. CASE a.listed[b] > SPLIT_SIZE
  <2>1. LeafLevel(a, k) # Levels - 1
    <3>1. ASSUME LeafLevel(a, k) = Levels - 1
          PROVE  a.listed[b] = 0 \/ a.listed[b] = 1
      BY <1>4, <1>5, <3>1 DEF LastCounted
    <3>2. QED
      BY <1>5, <1>6, <3>1
  <2>2. LeafLevel(a, k) < Levels - 1
    BY <1>5, <2>1
  <2>3. QED
    BY <1>1, <1>2, <1>3, <1>4, <1>6, <2>2, SplitShort
<1>7. CASE ~(a.listed[b] > SPLIT_SIZE)
  <2>1. drift <= more /\ more \in Nat
    BY <1>5
  <2> HIDE DEF more
  <2>2. \A c \in Buckets : Counted(a, c) \/ \E d \in SPLIT_SIZE + 1..drift : Lags(a, c, d)
    BY <1>1, <1>7 DEF ShortBut
  <2>3. \A c \in Buckets : Counted(a, c) \/ \E d \in SPLIT_SIZE + 1..more : Lags(a, c, d)
    BY <2>1, <2>2, ShortStays
  <2>4. Short(a, more)
    BY <2>3 DEF Short, ShortBut
  <2>5. QED
    BY <1>2, <1>7, <2>4 DEF more
<1>8. QED
  BY <1>6, <1>7

(* A key that is removed leaves its list as short and as far behind.       *)
LEMMA RemovedShort ==
    ASSUME NEW t, Sound(t), NEW drift \in Nat, Short(t, drift), NEW k \in Pages
    PROVE  Short(Removed(t, k), drift)
<1> DEFINE r == Removed(t, k)
           b == Leaf(t, k)
           n == Length(t, b)
<1>1. /\ t.value \in [Pages -> Nat] /\ t.listed \in [Buckets -> 0..CountRange - 1]
      /\ t.value[k] \in Nat /\ b \in Buckets
  BY LeafIs DEF Sound, TableValues
<1>2. drift <= drift
  OBVIOUS
<1>3. CASE t.value[k] = 0
  BY <1>3 DEF Removed
<1>4. CASE t.value[k] > 1
  <2>1. /\ r.value = Lowered(t.value, k) /\ r.expanded = t.expanded /\ r.listed = t.listed
    BY <1>4, RemovedOne
  <2> HIDE DEF r
  <2>2. \A j \in Pages : Leaf(r, j) = Leaf(t, j)
    BY <2>1, SameLeaves
  <2>3. \A j \in Pages : r.value[j] > 0 <=> t.value[j] > 0
    BY <1>1, <1>4, <2>1 DEF Lowered
  <2>4. \A c : ListOf(r, c) = ListOf(t, c)
    BY <2>2, <2>3 DEF ListOf, Present
  <2>5. Short(r, drift)
    BY <1>2, <2>1, <2>4, ShortStays DEF Short, ShortBut
  <2>6. QED
    BY <2>5 DEF r
<1>5. CASE t.value[k] = 1
  <2>1. /\ r.value = Lowered(t.value, k) /\ r.expanded = t.expanded
        /\ r.listed = [t.listed EXCEPT ![b] = Wrap(@ - 1)]
    BY <1>5, RemovedLast
  <2> HIDE DEF r
  <2>2. \A j \in Pages : Leaf(r, j) = Leaf(t, j)
    BY <2>1, SameLeaves
  <2>3. \A j \in Pages : r.value[j] > 0 <=> t.value[j] > 0 /\ j # k
    BY <1>1, <1>5, <2>1 DEF Lowered
  <2>4. \A c : ListOf(r, c) = IF c = b THEN ListOf(t, c) \ {k} ELSE ListOf(t, c)
    BY <2>2, <2>3 DEF ListOf, Present
  <2>5. k \in ListOf(t, b)
    BY <1>5 DEF ListOf, Present
  <2> HIDE DEF b
  <2>6. n \in Nat /\ Length(r, b) = n - 1 /\ Length(r, b) \in Nat
    BY <2>4, <2>5, LengthIs DEF Length
  <2>7. r.listed[b] = Wrap(t.listed[b] - 1)
    BY <1>1, <2>1
  <2>8. Counted(t, b) \/ \E d \in SPLIT_SIZE + 1..drift : Lags(t, b, d)
    BY <1>1 DEF Short, ShortBut
  <2> HIDE DEF n
  <2>9. SPLIT_SIZE \in Nat /\ MERGE_SIZE \in Nat /\ CountRange \in Nat
        /\ CountRange > SPLIT_SIZE + 1
    BY TableSizes, CountRangeLarge
  <2>10. Counted(r, b) \/ \E d \in SPLIT_SIZE + 1..drift : Lags(r, b, d)
    <3>1. CASE Counted(t, b)
      <4>1. t.listed[b] = n /\ n <= SPLIT_SIZE
        BY <3>1 DEF Counted, n
      <4>2. Wrap(n - 1) = n - 1
        BY <2>6, <2>9, <4>1, WrapNear
      <4>3. QED
        BY <2>6, <2>7, <2>9, <4>1, <4>2 DEF Counted
    <3>2. ASSUME NEW d \in SPLIT_SIZE + 1..drift, Lags(t, b, d)
          PROVE  Lags(r, b, d)
      <4>1. t.listed[b] = Wrap(n - d) /\ n < MERGE_SIZE
        BY <3>2 DEF Lags, n
      <4>2. n - d \in Int /\ -1 \in Int /\ n - d + -1 = (n - 1) - d /\ d \in Int
        BY <2>6, <2>9
      <4>3. Wrap(n - d) - 1 = Wrap(n - d) + -1
        <5>1. Wrap(n - d) \in Int
          BY <2>9, <4>2 DEF Wrap
        <5>2. QED
          BY <5>1
      <4>4. r.listed[b] = Wrap((n - 1) - d)
        BY <2>7, <4>1, <4>2, <4>3, WrapMoved
      <4>5. QED
        BY <2>6, <2>9, <4>1, <4>4 DEF Lags
    <3>3. QED
      BY <2>8, <3>1, <3>2
  <2>11. ASSUME NEW c \in Buckets \ {b}
         PROVE  Counted(r, c) \/ \E d \in SPLIT_SIZE + 1..drift : Lags(r, c, d)
    <3>1. r.listed[c] = t.listed[c] /\ ListOf(r, c) = ListOf(t, c)
      BY <1>1, <2>1, <2>4
    <3>2. QED
      BY <1>2, <3>1, ShortStays DEF Short, ShortBut
  <2>12. Short(r, drift)
    BY <2>10, <2>11 DEF Short, ShortBut
  <2>13. QED
    BY <2>12 DEF r
<1>6. QED
  BY <1>1, <1>3, <1>4, <1>5

(* A table that is merged has few keys left for its bucket's list.         *)
LEMMA MergeShort ==
    ASSUME NEW t, Sound(t), NEW drift \in Nat, Short(t, drift),
           NEW b \in t.expanded, t.count[b] < MERGE_SIZE
    PROVE  Short(Merge(t, b), drift)
<1> DEFINE m == Merge(t, b)
           n == Length(m, b)
<1>1. /\ t \in TableValues /\ b \in Buckets \ Under(b) /\ Under(b) \subseteq Buckets
      /\ t.listed[b] \in 0..CountRange - 1 /\ t.count[b] \in Nat
  BY BucketIs DEF Sound, TableValues, Under, Tables
<1>2. /\ Remains(t.value, m.value)
      /\ \A k \in Pages : m.value[k] # t.value[k] => In(b, k)
      /\ m.expanded = t.expanded \ ({b} \cup Under(b))
      /\ \A c \in Buckets : c \notin {b} \cup Under(b) => m.listed[c] = t.listed[c]
      /\ \A c \in Under(b) : m.listed[c] = 0
      /\ m.listed[b] = Wrap(t.listed[b] + Cardinality(KeysIn(m, b)))
  BY <1>1, MergeFields
<1>3. /\ Sound(m)
      /\ \A k \in Pages : LeafLevel(m, k) = IF In(b, k) THEN b[1] ELSE LeafLevel(t, k)
  BY MergeSound
<1> HIDE DEF m
<1>4. ASSUME NEW k \in Pages
      PROVE  IF In(b, k) THEN Leaf(m, k) = b /\ Leaf(t, k) \in Under(b)
                         ELSE Leaf(m, k) = Leaf(t, k) /\ Leaf(t, k) \notin {b} \cup Under(b)
  <2>1. /\ k \in Nat /\ Leaf(t, k) = At(k, LeafLevel(t, k)) /\ Leaf(t, k) \in Buckets
        /\ Leaf(t, k)[1] = LeafLevel(t, k) /\ In(Leaf(t, k), k) /\ Way(t, k)
    BY LeafIs DEF Sound
  <2>2. CASE In(b, k)
    <3>1. b = At(k, b[1]) /\ b[1] \in 0..Levels - 1
      BY <1>1, <2>1, <2>2, InIs, BucketIs
    <3>2. Leaf(m, k) = b
      BY <1>3, <2>2, <3>1 DEF Leaf
    <3>3. b[1] < LeafLevel(t, k)
      BY <2>1, <3>1 DEF Way
    <3>4. Leaf(t, k) \in Under(b)
      BY <1>1, <2>1, <2>2, <3>3, UnderIs
    <3>5. QED
      BY <2>2, <3>2, <3>4
  <2>3. CASE ~In(b, k)
    <3>1. Leaf(m, k) = Leaf(t, k)
      BY <1>3, <2>3 DEF Leaf
    <3>2. Leaf(t, k) \notin Under(b) /\ Leaf(t, k) # b
      BY <1>1, <2>1, <2>3, UnderIs
    <3>3. QED
      BY <2>3, <3>1, <3>2
  <2>4. QED
    BY <2>2, <2>3
<1>5. Present(m) \subseteq Present(t) /\ \A k \in Present(t) : ~In(b, k) => k \in Present(m)
  <2>1. t.value \in [Pages -> Nat]
    BY <1>1 DEF TableValues
  <2>2. QED
    BY <1>2, <2>1 DEF Present, Remains
<1>6. ListOf(m, b) = KeysIn(m, b)
  BY <1>1, <1>4 DEF ListOf, KeysIn, Present
<1>7. \A c \in Under(b) : ListOf(m, c) = {}
  BY <1>1, <1>4 DEF ListOf, Present
<1>8. \A c \in Buckets \ ({b} \cup Under(b)) : ListOf(m, c) = ListOf(t, c)
  BY <1>4, <1>5 DEF ListOf, Present
<1>9. SPLIT_SIZE \in Nat /\ MERGE_SIZE \in Nat /\ CountRange \in Nat
      /\ MERGE_SIZE <= SPLIT_SIZE /\ CountRange > SPLIT_SIZE + 1
  BY TableSizes, CountRangeLarge
<1>10. n \in Nat /\ n = Cardinality(KeysIn(m, b)) /\ n < MERGE_SIZE
  <2>1. KeysIn(m, b) \subseteq KeysIn(t, b)
    BY <1>5 DEF KeysIn
  <2>2. Cardinality(KeysIn(m, b)) <= Cardinality(KeysIn(t, b))
    BY <2>1, KeysCount, FS_Subset
  <2>3. Cardinality(KeysIn(t, b)) <= t.count[b]
    <3>1. t.count[b] >= Cardinality(KeysIn(t, b))
      BY DEF Sound, Covers, Live
    <3>2. QED
      BY <1>1, <3>1, KeysCount
  <2>4. Cardinality(KeysIn(m, b)) \in Nat /\ Cardinality(KeysIn(t, b)) \in Nat
    BY KeysCount
  <2>5. Cardinality(KeysIn(m, b)) < MERGE_SIZE
    BY <1>1, <1>9, <2>2, <2>3, <2>4
  <2>6. QED
    BY <1>6, <2>4, <2>5 DEF Length
<1> HIDE DEF n
<1>11. Counted(m, b) \/ \E d \in SPLIT_SIZE + 1..drift : Lags(m, b, d)
  <2>1. m.listed[b] = Wrap(t.listed[b] + n)
    BY <1>2, <1>10
  <2>2. Length(t, b) = 0
    BY NoListExpanded
  <2>3. CASE Counted(t, b)
    <3>1. t.listed[b] = 0
      BY <2>2, <2>3 DEF Counted
    <3>2. Wrap(0 + n) = n /\ n <= SPLIT_SIZE
      BY <1>9, <1>10, WrapNear
    <3>3. QED
      BY <2>1, <3>1, <3>2 DEF Counted, n
  <2>4. ASSUME NEW d \in SPLIT_SIZE + 1..drift, Lags(t, b, d)
        PROVE  Lags(m, b, d)
    <3>1. t.listed[b] = Wrap(0 - d) /\ 0 - d \in Int /\ 0 - d + n = n - d
      BY <1>9, <1>10, <2>2, <2>4 DEF Lags
    <3>2. m.listed[b] = Wrap(n - d)
      BY <1>10, <2>1, <3>1, WrapMoved
    <3>3. QED
      BY <1>10, <3>2 DEF Lags, n
  <2>5. QED
    BY <1>1, <2>3, <2>4 DEF Short, ShortBut
<1>12. ASSUME NEW c \in Under(b)
       PROVE  Counted(m, c)
  <2>1. Length(m, c) = 0
    BY <1>7, LengthIs
  <2>2. QED
    BY <1>2, <1>9, <2>1 DEF Counted
<1>13. ASSUME NEW c \in Buckets \ ({b} \cup Under(b))
       PROVE  Counted(m, c) \/ \E d \in SPLIT_SIZE + 1..drift : Lags(m, c, d)
  <2>1. drift <= drift
    OBVIOUS
  <2>2. QED
    BY <1>2, <1>8, <2>1, ShortStays DEF Short, ShortBut
<1>14. QED
  BY <1>11, <1>12, <1>13 DEF Short, ShortBut, m

(* delete() leaves every list as short and as far behind as it was.        *)
LEMMA DeleteShort ==
    ASSUME NEW t, Sound(t), NEW drift \in Nat, Short(t, drift), NEW k \in Pages
    PROVE  Short(Delete(t, k), drift)
<1> DEFINE S == {u \in TableValues : Short(u, drift)}
<1>1. Removed(t, k) \in S
  BY RemovedSound, RemovedShort DEF Sound
<1>2. ASSUME NEW u \in S, NEW b \in u.expanded, Sound(u), u.count[b] < MERGE_SIZE
      PROVE  Merge(u, b) \in S
  BY <1>2, MergeSound, MergeShort DEF Sound
<1> HIDE DEF S
<1>3. Delete(t, k) \in S
  BY <1>1, <1>2, DeleteKeeps
<1>4. QED
  BY <1>3 DEF S

(* The lists of an empty table are empty.                                  *)
LEMMA EmptyShort == Short(EmptyTable, 0)
<1>1. Sound(EmptyTable) /\ EmptyTable.value = [k \in Pages |-> 0]
      /\ EmptyTable.listed = [b \in Buckets |-> 0]
  BY EmptySound DEF EmptyTable
<1>2. SPLIT_SIZE \in Nat
  BY TableSizes
<1>3. \A b : ListOf(EmptyTable, b) = {}
  BY <1>1 DEF ListOf, Present
<1>4. \A b : Length(EmptyTable, b) = 0
  BY <1>3, LengthIs
<1>5. QED
  BY <1>1, <1>2, <1>4 DEF Short, ShortBut, Counted

(* No list of such a table holds more than SPLIT_SIZE keys.                *)
LEMMA ShortLengths ==
    ASSUME NEW t, NEW drift \in Nat, Short(t, drift), NEW b \in Buckets
    PROVE  Cardinality({k \in Present(t) : Leaf(t, k) = b}) <= SPLIT_SIZE
<1>1. Length(t, b) \in Nat /\ MERGE_SIZE \in Nat /\ SPLIT_SIZE \in Nat /\ MERGE_SIZE <= SPLIT_SIZE
  BY LengthIs, TableSizes
<1>2. Length(t, b) <= SPLIT_SIZE
  BY <1>1 DEF Short, ShortBut, Counted, Lags
<1>3. QED
  BY <1>2 DEF Length, ListOf
==========================================================================
