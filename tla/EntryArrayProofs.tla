------------------------ MODULE EntryArrayProofs -------------------------
(***************************************************************************)
(* The safety properties of EntryArray, proved for every set of observers  *)
(* and every number of slots.  What is known of the array is known while   *)
(* behaviours are calm: a step that ends calm for good leaves nothing to   *)
(* prove.                                                                  *)
(***************************************************************************)
EXTENDS EntryArray, FiniteSetTheorems, TLAPS

(* Where an observer's index is set, and where it is not.                  *)
Indexed ==
    \A o \in Observers :
        /\ observer[o] \in {"absent", "scan", "grown", "refused"} => index[o] = -1
        /\ observer[o] \notin {"absent", "scan", "grown", "refused", "clean"}
              => index[o] # -1

AtMostOneLeaves == \A o, p \in Leaving : o = p

(* Registrations exclude each other; what crosses one is a sort, which     *)
(* moves slots within the array only.                                      *)
Apart ==
    /\ \A o, p \in Registering : o = p
    /\ Registering # {} \/ server_state = "SORTING" => Leaving = {}
    /\ server_state = "SORTING" => nmemb <= entry_array_size
    /\ server_state = "SORTING" /\ Registering # {} => crossed
    /\ crossed => Registering # {} /\ reordered

(* observer_count, and what an unregistration has loaded of it, is never   *)
(* too low, and is exact until two of them have overlapped.                *)
Counting ==
    LET exactly == ~overlapped
        Good(count) == /\ Cardinality(Counted) <= count
                       /\ exactly => count = Cardinality(Counted)
    IN /\ Good(observer_count)
       /\ \A o \in Observers : observer[o] = "store" => Good(loaded[o])
       /\ exactly => AtMostOneLeaves

(* The registration under way, if a sort crosses it, may yet cost a flag.  *)
AtStake == IF crossed THEN 1 ELSE 0

(* There is a flag for every observer that has not given its slot back,    *)
(* but for those that crossings cost; one that has is about to shrink the  *)
(* array only if its slot is the last.                                     *)
Flags ==
    /\ Cardinality(Registered \ Leaving) + AtStake <= Cardinality(Taken) + crossings
    /\ Taken \subseteq Used
    /\ \A o \in Leaving : /\ index[o] \notin Taken
                          /\ observer[o] = "shrink" => index[o] + 1 = entry_array_size
    /\ reordered => AtMostOneLeaves

(* What the scan of a registration has seen still holds, unless a sort     *)
(* crosses it.                                                             *)
Scanned ==
    \A o \in Registering :
        /\ observer[o] = "take" => index[o] \in Used
        /\ observer[o] = "grown" => entry_array_size > 0
        /\ ~crossed =>
              /\ observer[o] = "scan" => /\ at <= entry_array_size
                                         /\ 0..at - 1 \subseteq Taken
              /\ observer[o] = "take" => index[o] \notin Taken
              /\ observer[o] = "grown" => /\ 0..entry_array_size - 2 \subseteq Taken
                                          /\ entry_array_size - 1 \notin Taken
              /\ observer[o] = "refused" => Taken = Slots

(* Until a sort has moved a slot, the flags are those of the observers'    *)
(* indices and each slot holds what its observer wrote.                    *)
Owned ==
    ~reordered =>
        /\ \A o, p \in Registered : index[o] = index[p] => o = p
        /\ Taken = {index[o] : o \in Registered \ Leaving}
        /\ \A o \in Observers :
              observer[o] = "loop" =>
                 /\ entry_array[index[o]].tv = latest[o]
                 /\ entry_array[index[o]].from \in {o, Nobody}

Known == TypeOK /\ calm /\ Indexed /\ Apart /\ Counting /\ Flags /\ Scanned /\ Owned

ArrayInv == TypeOK /\ (calm => Indexed /\ Apart /\ Counting /\ Flags /\ Scanned /\ Owned)

(* The steps of register_observer() that look for a slot, and those that   *)
(* take one.                                                               *)
Seeks(o) == PassSlot(o) \/ FindSlot(o) \/ Grow(o) \/ ShrinkBack(o)
Takes(o) == TakeSlot(o) \/ NewSlot(o)

(* The steps of unregister_observer() between its first and its last.      *)
LeavesOn(o) == TestLast(o) \/ Shrink(o) \/ LoadCount(o)

---------------------------------------------------------------------------
(* The sets of observers and of flags                                      *)

(* They are finite.                                                        *)
LEMMA SetsFinite ==
    /\ IsFiniteSet(Registered) /\ IsFiniteSet(Leaving) /\ IsFiniteSet(Counted)
    /\ IsFiniteSet(Registered \ Leaving)
    /\ IsFiniteSet(Slots) /\ Cardinality(Slots) = CLIENT_MAX /\ IsFiniteSet(Taken)
    /\ Cardinality(Registered) \in Nat /\ Cardinality(Counted) \in Nat
    /\ Cardinality(Registered \ Leaving) \in Nat /\ Cardinality(Taken) \in Nat
<1>1. /\ Registered \in SUBSET Observers /\ Leaving \in SUBSET Observers
      /\ Counted \in SUBSET Observers /\ Registered \ Leaving \in SUBSET Observers
  BY DEF Registered, Leaving, Counted, Registering
<1>2. IsFiniteSet(Slots) /\ Cardinality(Slots) = CLIENT_MAX
  <2>1. CLIENT_MAX \in Nat /\ CLIENT_MAX > 0 /\ CLIENT_MAX - 1 \in Int /\ 0 \in Int
    BY ClientMaxPositive
  <2>2. /\ IsFiniteSet(0..CLIENT_MAX - 1)
        /\ Cardinality(0..CLIENT_MAX - 1) =
              IF 0 > CLIENT_MAX - 1 THEN 0 ELSE (CLIENT_MAX - 1) - 0 + 1
    BY <2>1, FS_Interval
  <2>3. QED
    BY <2>1, <2>2 DEF Slots
<1>3. Taken \in SUBSET Slots
  BY DEF Taken
<1>4. QED
  BY <1>1, <1>2, <1>3, ObserversFinite, FS_Subset, FS_CardinalityType

(* They only change as threads move and indices are set.                   *)
LEMMA SetsFrame ==
    /\ UNCHANGED <<observer, index>> =>
          /\ Registered' = Registered /\ Leaving' = Leaving /\ Counted' = Counted
          /\ Registering' = Registering
    /\ UNCHANGED entry_array => Taken' = Taken
    /\ UNCHANGED entry_array_size => Used' = Used
BY DEF Registered, Leaving, Counted, Registering, Taken, Used

(* An observer is counted before it has a slot, and no more if it is       *)
(* refused one.                                                            *)
LEMMA RegistrationCounts ==
    ASSUME TypeOK, calm, Indexed, Apart, NEW o \in Observers
    PROVE  /\ BeginRegister(o) =>
                 /\ Registered' = Registered /\ Leaving' = Leaving
                 /\ Counted' = Counted \cup {o} /\ o \notin Counted
                 /\ Registering = {} /\ Registering' = {o}
           /\ Seeks(o) =>
                 /\ Registered' = Registered /\ Leaving' = Leaving
                 /\ Counted' = Counted /\ Taken' = Taken
                 /\ Registering = {o} /\ Registering' = {o}
           /\ Refuse(o) =>
                 /\ Registered' = Registered /\ Leaving' = Leaving
                 /\ Counted' = Counted \ {o} /\ o \in Counted
                 /\ Registering = {o} /\ Registering' = {}
<1> USE DEF Indexed, Goes, Registered, Leaving, Counted, Registering
<1>1. ASSUME BeginRegister(o)
      PROVE  /\ Registered' = Registered /\ Leaving' = Leaving
             /\ Counted' = Counted \cup {o} /\ o \notin Counted
             /\ Registering = {} /\ Registering' = {o}
  BY <1>1 DEF BeginRegister, TypeOK
<1>2. ASSUME Seeks(o)
      PROVE  /\ Registered' = Registered /\ Leaving' = Leaving
             /\ Counted' = Counted /\ Taken' = Taken
             /\ Registering = {o} /\ Registering' = {o}
  <2>1. observer[o] \in {"scan", "grown"} /\ UNCHANGED entry_array
    BY <1>2 DEF Seeks, PassSlot, FindSlot, FindSlotIf, Grow, ShrinkBack, ShrinkBackTo
  <2>2. Taken' = Taken
    BY <2>1 DEF Taken
  <2>3. Registering = {o}
    BY <2>1 DEF Apart
  <2>4. /\ \A p \in Observers \ {o} : observer'[p] = observer[p] /\ index'[p] = index[p]
        /\ observer'[o] \in {"scan", "take", "grown", "refused"}
    BY <1>2, <2>1
       DEF Seeks, PassSlot, FindSlot, FindSlotIf, Grow, ShrinkBack, ShrinkBackTo, TypeOK
  <2>5. QED
    BY <2>1, <2>2, <2>3, <2>4
<1>3. ASSUME Refuse(o)
      PROVE  /\ Registered' = Registered /\ Leaving' = Leaving
             /\ Counted' = Counted \ {o} /\ o \in Counted
             /\ Registering = {o} /\ Registering' = {}
  <2>1. observer[o] = "refused" /\ observer' = [observer EXCEPT ![o] = "clean"]
        /\ UNCHANGED index
    BY <1>3 DEF Refuse, Registers
  <2>2. Registering = {o}
    BY <2>1 DEF Apart
  <2>3. QED
    BY <2>1, <2>2 DEF TypeOK
<1>4. QED
  BY <1>1, <1>2, <1>3

(* What a store to is_taken does to the flags.                             *)
LEMMA FlagSet ==
    ASSUME TypeOK, calm, Apart, NEW i \in Used, i \in Slots, SetTaken(i)
    PROVE  /\ Taken \subseteq Taken'
           /\ Taken \subseteq Used => Taken' \subseteq Used
           /\ server_state # "SORTING" =>
                 /\ Taken' = Taken \cup {i}
                 /\ entry_array' = [entry_array EXCEPT ![i].is_taken = TRUE]
<1>1. Moving \subseteq Used /\ Moving \subseteq Slots
  <2>1. server_state = "SORTING" => nmemb <= entry_array_size /\ nmemb \in Int
                                    /\ entry_array_size \in Int
    BY ClientMaxPositive DEF Apart, TypeOK
  <2>2. QED
    BY <2>1 DEF Moving, Used
<1>2. ASSUME NEW j \in Slots, entry_array' = [entry_array EXCEPT ![j].is_taken = TRUE]
      PROVE  Taken' = Taken \cup {j}
  BY <1>2 DEF Taken, TypeOK
<1>3. CASE UNCHANGED entry_array /\ i \in Moving
  BY <1>3, SetsFrame DEF Moving
<1>4. CASE \E j \in IF i \in Moving THEN Moving ELSE {i} :
              entry_array' = [entry_array EXCEPT ![j].is_taken = TRUE]
  <2>1. PICK j \in IF i \in Moving THEN Moving ELSE {i} :
           entry_array' = [entry_array EXCEPT ![j].is_taken = TRUE]
    BY <1>4
  <2>2. j \in Slots /\ j \in Used /\ (server_state # "SORTING" => j = i)
    BY <1>1 DEF Moving
  <2>3. Taken' = Taken \cup {j}
    BY <1>2, <2>1, <2>2
  <2>4. QED
    BY <2>1, <2>2, <2>3
<1>5. QED
  BY <1>3, <1>4 DEF SetTaken

(* The slot a new observer is given lies in the array; unless a sort       *)
(* crosses the registration, it was free and is taken now.                 *)
LEMMA SlotGiven ==
    ASSUME TypeOK, calm, Indexed, Apart, Taken \subseteq Used, Scanned,
           NEW o \in Observers, Takes(o)
    PROVE  \E i \in Slots :
              /\ Taken \subseteq Taken' /\ Taken' \subseteq Used
              /\ ~crossed => /\ i \notin Taken /\ Taken' = Taken \cup {i}
                             /\ entry_array' = [entry_array EXCEPT ![i].is_taken = TRUE]
              /\ index' = [index EXCEPT ![o] = i]
              /\ Leaving = {} /\ Leaving' = {}
              /\ o \notin Registered /\ Registered' = Registered \cup {o}
              /\ Counted' = Counted /\ Registering = {o} /\ Registering' = {}
              /\ observer' = [observer EXCEPT ![o] = "clean"] /\ crossed' = FALSE
              /\ UNCHANGED <<entry_array_size, observer_count, server_state, nmemb, at,
                             loaded, latest, overlapped, crossings, reordered>>
<1>1. /\ observer[o] \in {"take", "grown"} /\ observer' = [observer EXCEPT ![o] = "clean"]
      /\ crossed' = FALSE
      /\ UNCHANGED <<entry_array_size, observer_count, server_state, nmemb, at,
                     loaded, latest, overlapped, crossings, reordered>>
  BY DEF Takes, TakeSlot, NewSlot, Registers, Goes
<1>2. Registering = {o} /\ Leaving = {} /\ (server_state = "SORTING" => crossed)
  BY <1>1 DEF Registering, Apart
<1>3. PICK i \in Slots :
         /\ i \in Used /\ SetTaken(i) /\ index' = [index EXCEPT ![o] = i]
         /\ ~crossed => i \notin Taken
  <2>1. CASE TakeSlot(o)
    <3>1. SetTaken(index[o]) /\ UNCHANGED index /\ observer[o] = "take"
      BY <2>1 DEF TakeSlot, Registers, Goes
    <3>2. /\ index[o] \in Used /\ index[o] \in Slots
          /\ ~crossed => index[o] \notin Taken
          /\ index' = [index EXCEPT ![o] = index[o]]
      BY <1>2, <3>1 DEF Scanned, Indexed, TypeOK
    <3>3. QED
      BY <3>1, <3>2
  <2>2. CASE NewSlot(o)
    <3>1. /\ SetTaken(entry_array_size - 1) /\ observer[o] = "grown"
          /\ index' = [index EXCEPT ![o] = entry_array_size - 1]
          /\ entry_array_size <= CLIENT_MAX
      BY <2>2 DEF NewSlot, Registers, Goes, Fits
    <3>2. /\ entry_array_size > 0 /\ entry_array_size \in Int /\ CLIENT_MAX \in Nat
          /\ ~crossed => entry_array_size - 1 \notin Taken
      BY <1>2, <3>1, ClientMaxPositive DEF Scanned, TypeOK
    <3>3. entry_array_size - 1 \in Used /\ entry_array_size - 1 \in Slots
      BY <3>1, <3>2 DEF Used, Slots
    <3>4. QED
      BY <3>1, <3>2, <3>3
  <2>3. QED
    BY <2>1, <2>2 DEF Takes
<1>4. /\ Taken \subseteq Taken' /\ Taken' \subseteq Used
      /\ ~crossed => /\ Taken' = Taken \cup {i}
                     /\ entry_array' = [entry_array EXCEPT ![i].is_taken = TRUE]
  BY <1>2, <1>3, FlagSet
<1>5. /\ o \notin Registered /\ Registered' = Registered \cup {o}
      /\ Counted' = Counted /\ Leaving' = {} /\ Registering' = {}
  <2>1. i # -1
    BY ClientMaxPositive DEF Slots
  <2>2. QED
    BY <1>1, <1>2, <1>3, <2>1 DEF TypeOK, Registered, Counted, Registering, Leaving
<1>6. QED
  BY <1>1, <1>2, <1>3, <1>4, <1>5

(* An observer that gives its slot back clears the flag at its index, and  *)
(* is counted to the end.                                                  *)
LEMMA LeavingMoves ==
    ASSUME TypeOK, calm, Indexed, NEW o \in Observers
    PROVE  /\ Untake(o) =>
                 /\ index[o] \in Slots
                 /\ Registered' = Registered /\ Counted' = Counted /\ Registering' = Registering
                 /\ o \in Registered \ Leaving /\ Leaving' = Leaving \cup {o}
                 /\ Taken' = Taken \ {index[o]}
           /\ StoreCount(o) =>
                 /\ Registered' = Registered \ {o} /\ Counted' = Counted \ {o} /\ Registering' = Registering
                 /\ o \in Registered \cap Leaving \cap Counted
                 /\ Leaving' = Leaving \ {o}
           /\ LeavesOn(o) =>
                 /\ Registered' = Registered /\ Counted' = Counted /\ Registering' = Registering
                 /\ o \in Registered \cap Leaving /\ Leaving' = Leaving
                 /\ index[o] \in Slots
<1> USE DEF Indexed, Goes, Registered, Leaving, Counted, Registering
<1>1. ASSUME Untake(o)
      PROVE  /\ index[o] \in Slots
             /\ Registered' = Registered /\ Counted' = Counted /\ Registering' = Registering
             /\ o \in Registered \ Leaving /\ Leaving' = Leaving \cup {o}
             /\ Taken' = Taken \ {index[o]}
  <2>1. index[o] \in Slots
    BY <1>1 DEF Untake, TypeOK
  <2>2. Taken' = Taken \ {index[o]}
    BY <1>1, <2>1 DEF Untake, TypeOK, Taken
  <2>3. QED
    BY <1>1, <2>1, <2>2 DEF Untake, TypeOK
<1>2. ASSUME StoreCount(o)
      PROVE  /\ Registered' = Registered \ {o} /\ Counted' = Counted \ {o} /\ Registering' = Registering
             /\ o \in Registered \cap Leaving \cap Counted
             /\ Leaving' = Leaving \ {o}
  BY <1>2 DEF StoreCount, TypeOK
<1>3. ASSUME LeavesOn(o)
      PROVE  /\ Registered' = Registered /\ Counted' = Counted /\ Registering' = Registering
             /\ o \in Registered \cap Leaving /\ Leaving' = Leaving
             /\ index[o] \in Slots
  BY <1>3 DEF LeavesOn, TestLast, TestLastIf, Shrink, LoadCount, TypeOK
<1>4. QED
  BY <1>1, <1>2, <1>3

(* A write changes the entry at the observer's index and no flag.          *)
LEMMA WritesSlot ==
    ASSUME TypeOK, NEW o \in Observers,
           NEW entry \in [tv : 0..MaxTime, from : Observers \cup {Nobody}], Writes(o, entry)
    PROVE  \A i \in Slots :
              /\ entry_array'[i] \in [is_taken : BOOLEAN, tv : 0..MaxTime,
                                      from : Observers \cup {Nobody}]
              /\ entry_array'[i].is_taken = entry_array[i].is_taken
              /\ i # index[o] => entry_array'[i] = entry_array[i]
              /\ i = index[o] => /\ entry_array'[i].tv = entry.tv
                                 /\ entry_array'[i].from = entry.from
<1> SUFFICES ASSUME NEW i \in Slots
             PROVE  /\ entry_array'[i] \in [is_taken : BOOLEAN, tv : 0..MaxTime,
                                            from : Observers \cup {Nobody}]
                    /\ entry_array'[i].is_taken = entry_array[i].is_taken
                    /\ i # index[o] => entry_array'[i] = entry_array[i]
                    /\ i = index[o] => /\ entry_array'[i].tv = entry.tv
                                       /\ entry_array'[i].from = entry.from
  OBVIOUS
<1>1. entry_array' = [entry_array EXCEPT ![index[o]].tv = entry.tv,
                                         ![index[o]].from = entry.from]
  BY DEF Writes
<1>2. /\ DOMAIN entry_array = Slots
      /\ entry_array[i] \in [is_taken : BOOLEAN, tv : 0..MaxTime,
                             from : Observers \cup {Nobody}]
  BY DEF TypeOK
<1>3. CASE i # index[o]
  <2>1. entry_array'[i] = entry_array[i]
    BY <1>1, <1>2, <1>3
  <2>2. QED
    BY <1>2, <1>3, <2>1
<1>4. CASE i = index[o]
  <2>1. entry_array'[i] = [entry_array[i] EXCEPT !.tv = entry.tv, !.from = entry.from]
    BY <1>1, <1>2, <1>4
  <2>2. QED
    BY <1>2, <1>4, <2>1
<1>5. QED
  BY <1>3, <1>4

(* What an observer writes is blank or an event of its own.                *)
LEMMA Written ==
    ASSUME NEW o \in Observers, CleanUp(o) \/ AddEntry(o)
    PROVE  \E entry \in [tv : 0..MaxTime, from : {o, Nobody}] :
              /\ Writes(o, entry)
              /\ entry \in [tv : 0..MaxTime, from : Observers \cup {Nobody}]
<1>0. MaxTime \in Nat
  BY MaxTimePositive
<1>1. CASE CleanUp(o)
  <2>1. PICK entry : entry = [tv |-> 0, from |-> Nobody]
    OBVIOUS
  <2>2. Writes(o, entry)
    <3>1. entry_array' = [entry_array EXCEPT ![index[o]].tv = Blank.tv,
                                             ![index[o]].from = Blank.from]
      BY <1>1 DEF CleanUp, Writes
    <3>2. Blank.tv = entry.tv /\ Blank.from = entry.from
      BY <2>1 DEF Blank
    <3>3. QED
      BY <1>1, <3>1, <3>2 DEF CleanUp, Writes
  <2>3. QED
    BY <1>0, <2>1, <2>2
<1>2. CASE AddEntry(o)
  <2>1. PICK t \in 1..MaxTime : Writes(o, [tv |-> t, from |-> o])
    BY <1>2 DEF AddEntry
  <2>2. QED
    BY <1>0, <2>1
<1>3. QED
  BY <1>1, <1>2

(* An observer that writes moves no flag and no slot.                      *)
LEMMA WritesMoveNothing ==
    ASSUME TypeOK, calm, Indexed, NEW o \in Observers,
           CleanUp(o) \/ CleanUpRefused(o) \/ AddEntry(o)
    PROVE  /\ Registered' = Registered /\ Leaving' = Leaving /\ Counted' = Counted
           /\ Taken' = Taken /\ Registering' = Registering
<1> USE DEF Indexed, Goes, Registered, Leaving, Counted, Registering
<1>1. Taken' = Taken
  <2>1. CASE CleanUpRefused(o)
    BY <2>1 DEF CleanUpRefused, Taken
  <2>2. CASE CleanUp(o) \/ AddEntry(o)
    BY <2>2, Written, WritesSlot DEF Taken
  <2>3. QED
    BY <2>1, <2>2
<1>2. /\ Registered' = Registered /\ Leaving' = Leaving /\ Counted' = Counted
      /\ Registering' = Registering
  BY DEF CleanUp, CleanUpRefused, AddEntry, Writes, TypeOK
<1>3. QED
  BY <1>1, <1>2

(* A sort moves flags, within the array, but loses none.                   *)
LEMMA SortMovesFlags ==
    ASSUME TypeOK, calm, Apart, Taken \subseteq Used, EndSort
    PROVE  /\ Taken' \subseteq Used
           /\ Cardinality(Taken) <= Cardinality(Taken')
<1>1. PICK p \in Reorderings(Moving) :
         entry_array' = [i \in Slots |-> IF i \in Moving THEN entry_array[p[i]]
                                                         ELSE entry_array[i]]
  BY DEF EndSort
<1> DEFINE q == [i \in Slots |-> IF i \in Moving THEN p[i] ELSE i]
<1>2. Moving \subseteq Slots /\ Moving \subseteq Used
  <2>1. server_state = "SORTING" /\ nmemb <= entry_array_size /\ nmemb \in Int
        /\ entry_array_size \in Int
    BY ClientMaxPositive DEF EndSort, Apart, TypeOK
  <2>2. QED
    BY <2>1 DEF Moving, Used
<1>3. q \in Injection(Slots, Slots)
  BY <1>1, <1>2 DEF Reorderings, Injection, IsInjective
<1>4. Taken' = {i \in Slots : entry_array[q[i]].is_taken}
  BY <1>1, <1>2 DEF Taken
<1>5. Taken' \subseteq Used
  BY <1>2, <1>4 DEF Taken
<1>6. q \in Surjection(Slots, Slots)
  <2> HIDE DEF q
  <2>1. Cardinality(Slots) = Cardinality(Slots) <=> q \in Surjection(Slots, Slots)
    BY <1>3, SetsFinite, FS_Injection
  <2>2. QED
    BY <2>1
<1> DEFINE moved == [i \in Taken' |-> q[i]]
<1>7. moved \in Surjection(Taken', Taken)
  <2> HIDE DEF q
  <2>1. \A i \in Taken' : q[i] \in Taken
    BY <1>3, <1>4 DEF Taken, Injection
  <2>2. \A j \in Taken : \E i \in Taken' : q[i] = j
    <3>1. SUFFICES ASSUME NEW j \in Taken PROVE \E i \in Taken' : q[i] = j
      OBVIOUS
    <3>2. PICK i \in Slots : q[i] = j
      BY <1>6 DEF Surjection, Taken
    <3>3. QED
      BY <1>4, <3>2 DEF Taken
  <2>3. QED
    BY <2>1, <2>2 DEF Surjection
<1>8. IsFiniteSet(Taken')
  <2>1. Taken' \in SUBSET Slots
    BY <1>4
  <2>2. QED
    BY <2>1, SetsFinite, FS_Subset
<1>9. QED
  <2> HIDE DEF moved
  <2>1. Cardinality(Taken) <= Cardinality(Taken')
    BY <1>7, <1>8, FS_Surjection
  <2>2. QED
    BY <1>5, <2>1

---------------------------------------------------------------------------
(* Types                                                                   *)

(* Calm never comes back.                                                  *)
LEMMA CalmBefore == TypeOK /\ [Next]_vars /\ calm' => calm
<1> SUFFICES ASSUME TypeOK, [Next]_vars, calm' PROVE calm
  OBVIOUS
<1>1. CASE UNCHANGED vars
  BY <1>1 DEF vars, history
<1>2. CASE BeginSort \/ EndSort \/ Reopen
  BY <1>2 DEF BeginSort, EndSort, Reopen, history
<1>3. ASSUME NEW o \in Observers,
             BeginRegister(o) \/ Seeks(o) \/ Takes(o) \/ Refuse(o)
      PROVE  calm
  BY <1>3 DEF BeginRegister, Seeks, PassSlot, FindSlot, FindSlotIf, Grow, ShrinkBack,
     ShrinkBackTo, Takes, TakeSlot, NewSlot, Refuse, Registers, history
<1>4. ASSUME NEW o \in Observers, Untake(o) \/ LeavesOn(o) \/ StoreCount(o)
      PROVE  calm
  BY <1>4 DEF Untake, LeavesOn, TestLast, TestLastIf, Shrink, LoadCount, StoreCount, history
<1>5. ASSUME NEW o \in Observers, CleanUp(o) \/ CleanUpRefused(o) \/ AddEntry(o)
      PROVE  calm
  BY <1>5 DEF CleanUp, CleanUpRefused, AddEntry, Writes, history
<1>6. QED
  BY <1>1, <1>2, <1>3, <1>4, <1>5 DEF Next, Seeks, Takes, LeavesOn

(* The slots stay slots, the threads threads, whatever happens.            *)
SlotsTyped ==
    entry_array \in [Slots -> [is_taken : BOOLEAN, tv : 0..MaxTime,
                              from : Observers \cup {Nobody}]]

(* A sort fills its range with what was in it.                             *)
LEMMA SortKeepsSlots == TypeOK /\ EndSort => SlotsTyped'
<1> SUFFICES ASSUME TypeOK, EndSort PROVE SlotsTyped'
  OBVIOUS
<1>1. PICK p \in Reorderings(Moving) :
         entry_array' = [i \in Slots |-> IF i \in Moving THEN entry_array[p[i]]
                                                         ELSE entry_array[i]]
  BY DEF EndSort
<1>2. \A i \in Moving : p[i] \in Slots
  BY DEF Reorderings, Moving
<1>3. QED
  BY <1>1, <1>2 DEF TypeOK, SlotsTyped

(* A slot with another entry is a slot.                                    *)
LEMMA FieldsTyped ==
    ASSUME NEW array \in [Slots -> [is_taken : BOOLEAN, tv : 0..MaxTime,
                                   from : Observers \cup {Nobody}]],
           NEW i, NEW tv \in 0..MaxTime, NEW from \in Observers \cup {Nobody}
    PROVE  /\ [array EXCEPT ![i].tv = tv] \in
                  [Slots -> [is_taken : BOOLEAN, tv : 0..MaxTime,
                             from : Observers \cup {Nobody}]]
           /\ [array EXCEPT ![i].from = from] \in
                  [Slots -> [is_taken : BOOLEAN, tv : 0..MaxTime,
                             from : Observers \cup {Nobody}]]
<1>1. i \in Slots => /\ [array[i] EXCEPT !.tv = tv] \in
                           [is_taken : BOOLEAN, tv : 0..MaxTime,
                            from : Observers \cup {Nobody}]
                     /\ [array[i] EXCEPT !.from = from] \in
                           [is_taken : BOOLEAN, tv : 0..MaxTime,
                            from : Observers \cup {Nobody}]
  OBVIOUS
<1>2. QED
  BY <1>1

(* Every step leaves the slots what they are.                              *)
LEMMA NextKeepsSlots == TypeOK /\ [Next]_vars => SlotsTyped'
<1> SUFFICES ASSUME TypeOK, [Next]_vars PROVE SlotsTyped'
  OBVIOUS
<1>1. CASE UNCHANGED entry_array
  BY <1>1 DEF TypeOK, SlotsTyped
<1>2. ASSUME NEW i, SetTaken(i)
      PROVE  SlotsTyped'
  <2>1. CASE \E j : entry_array' = [entry_array EXCEPT ![j].is_taken = TRUE]
    <3>1. PICK j : entry_array' = [entry_array EXCEPT ![j].is_taken = TRUE]
      BY <2>1
    <3>2. QED
      BY <3>1 DEF TypeOK, SlotsTyped
  <2>2. QED
    BY <1>1, <1>2, <2>1 DEF SetTaken
<1>3. ASSUME NEW o \in Observers, CleanUp(o) \/ AddEntry(o)
      PROVE  SlotsTyped'
  <2>1. PICK entry \in [tv : 0..MaxTime, from : Observers \cup {Nobody}] : Writes(o, entry)
    BY <1>3, Written
  <2>2. entry.tv \in 0..MaxTime /\ entry.from \in Observers \cup {Nobody}
    OBVIOUS
  <2>3. entry_array' = [[entry_array EXCEPT ![index[o]].tv = entry.tv]
                           EXCEPT ![index[o]].from = entry.from]
    BY <2>1 DEF Writes, TypeOK
  <2>4. QED
    BY <2>2, <2>3, FieldsTyped DEF SlotsTyped, TypeOK
<1>4. ASSUME NEW o \in Observers, Untake(o)
      PROVE  SlotsTyped'
  BY <1>4 DEF Untake, TypeOK, SlotsTyped
<1>5. ASSUME NEW o \in Observers,
             \/ BeginRegister(o) \/ Seeks(o) \/ Refuse(o) \/ CleanUpRefused(o)
             \/ LeavesOn(o) \/ StoreCount(o)
      PROVE  UNCHANGED entry_array
  BY <1>5 DEF BeginRegister, Seeks, PassSlot, FindSlot, FindSlotIf, Grow, ShrinkBack,
     ShrinkBackTo, Refuse, CleanUpRefused, LeavesOn, TestLast, TestLastIf, Shrink,
     LoadCount, StoreCount
<1>6. ASSUME NEW o \in Observers, Takes(o)
      PROVE  SlotsTyped'
  BY <1>2, <1>6 DEF Takes, TakeSlot, NewSlot
<1>7. CASE UNCHANGED vars \/ BeginSort \/ EndSort \/ Reopen
  BY <1>1, <1>7, SortKeepsSlots DEF vars, BeginSort, Reopen
<1>8. QED
  BY <1>1, <1>3, <1>4, <1>5, <1>6, <1>7 DEF Next, Seeks, Takes, LeavesOn

(* The threads' places and the history have their types in any case.       *)
PlacesTyped ==
    /\ server_state \in {"DONE", "SORTING", "READING"}
    /\ observer \in [Observers -> {"absent", "scan", "take", "grown", "refused", "clean",
                                "loop", "test", "shrink", "uncount", "store"}]
    /\ latest \in [Observers -> 0..MaxTime]
    /\ overlapped \in BOOLEAN
    /\ calm \in BOOLEAN
    /\ crossed \in BOOLEAN
    /\ crossings \in Nat
    /\ reordered \in BOOLEAN

(* They keep them.                                                         *)
LEMMA NextKeepsPlaces == TypeOK /\ [Next]_vars => PlacesTyped'
<1> SUFFICES ASSUME TypeOK, [Next]_vars PROVE PlacesTyped'
  OBVIOUS
<1> USE DEF PlacesTyped, TypeOK, history, Goes
<1>1. CASE UNCHANGED vars
  BY <1>1 DEF vars
<1>2. CASE BeginSort
  BY <1>2 DEF BeginSort
<1>3. CASE EndSort \/ Reopen
  BY <1>3 DEF EndSort, Reopen
<1>4. ASSUME NEW o \in Observers, BeginRegister(o)
      PROVE  PlacesTyped'
  BY <1>4 DEF BeginRegister
<1>5. ASSUME NEW o \in Observers, Seeks(o)
      PROVE  PlacesTyped'
  BY <1>5 DEF Seeks, PassSlot, FindSlot, FindSlotIf, Grow, ShrinkBack, ShrinkBackTo
<1>6. ASSUME NEW o \in Observers, Takes(o) \/ Refuse(o)
      PROVE  PlacesTyped'
  BY <1>6 DEF Takes, TakeSlot, NewSlot, Refuse, Registers
<1>7. ASSUME NEW o \in Observers, CleanUp(o) \/ AddEntry(o)
      PROVE  PlacesTyped'
  <2>1. PICK entry \in [tv : 0..MaxTime, from : Observers \cup {Nobody}] : Writes(o, entry)
    BY <1>7, Written
  <2>2. UNCHANGED observer \/ observer' = [observer EXCEPT ![o] = "loop"]
    BY <1>7 DEF CleanUp, AddEntry
  <2>3. QED
    BY <2>1, <2>2 DEF Writes
<1>8. ASSUME NEW o \in Observers, CleanUpRefused(o) \/ Untake(o) \/ LeavesOn(o)
      PROVE  PlacesTyped'
  BY <1>8 DEF CleanUpRefused, Untake, LeavesOn, TestLast, TestLastIf, Shrink, LoadCount
<1>9. ASSUME NEW o \in Observers, StoreCount(o)
      PROVE  PlacesTyped'
  BY <1>9, MaxTimePositive DEF StoreCount
<1>10. QED
  BY <1>1, <1>2, <1>3, <1>4, <1>5, <1>6, <1>7, <1>8, <1>9 DEF Next, Seeks, Takes, LeavesOn

---------------------------------------------------------------------------
(* What is known while behaviours are calm                                 *)

(* Indices are set and unset as threads move.                              *)
LEMMA NextKeepsIndexed == Known /\ [Next]_vars /\ calm' => Indexed'
<1> SUFFICES ASSUME Known, [Next]_vars, calm' PROVE Indexed'
  OBVIOUS
<1> USE DEF Indexed, Goes
<1>0. TypeOK /\ calm /\ Indexed /\ Apart /\ Scanned /\ Taken \subseteq Used
  BY DEF Known, Flags
<1>1. CASE UNCHANGED vars
  BY <1>0, <1>1 DEF vars
<1>2. CASE BeginSort \/ EndSort \/ Reopen
  <2>1. UNCHANGED <<observer, index>>
    BY <1>2 DEF BeginSort, EndSort, Reopen
  <2>2. QED
    BY <1>0, <2>1
<1>3. ASSUME NEW o \in Observers,
             BeginRegister(o) \/ PassSlot(o) \/ Grow(o) \/ ShrinkBack(o) \/ Refuse(o)
      PROVE  Indexed'
  <2>1. /\ UNCHANGED index /\ index[o] = -1
        /\ \E to \in {"scan", "grown", "refused", "clean"} :
              observer' = [observer EXCEPT ![o] = to]
    BY <1>0, <1>3 DEF BeginRegister, PassSlot, Grow, ShrinkBack, ShrinkBackTo, Refuse,
       Registers, TypeOK
  <2>2. QED
    BY <1>0, <2>1 DEF TypeOK
<1>4. ASSUME NEW o \in Observers, FindSlot(o)
      PROVE  Indexed'
  <2>1. /\ index' = [index EXCEPT ![o] = at] /\ at \in Nat
        /\ observer' = [observer EXCEPT ![o] = "take"]
    BY <1>0, <1>4 DEF FindSlot, FindSlotIf, TypeOK
  <2>2. QED
    BY <1>0, <2>1 DEF TypeOK
<1>5. ASSUME NEW o \in Observers, Takes(o)
      PROVE  Indexed'
  <2>1. PICK i \in Slots : /\ index' = [index EXCEPT ![o] = i]
                          /\ observer' = [observer EXCEPT ![o] = "clean"]
    BY <1>0, <1>5, SlotGiven
  <2>2. QED
    BY <1>0, <2>1 DEF TypeOK
<1>6. ASSUME NEW o \in Observers, CleanUp(o) \/ CleanUpRefused(o) \/ AddEntry(o)
      PROVE  Indexed'
  <2>1. /\ UNCHANGED index
        /\ \/ UNCHANGED observer
           \/ observer' = [observer EXCEPT ![o] = "loop"] /\ index[o] # -1
           \/ observer' = [observer EXCEPT ![o] = "absent"] /\ index[o] = -1
    BY <1>6 DEF CleanUp, CleanUpRefused, AddEntry, Writes
  <2>2. QED
    BY <1>0, <2>1 DEF TypeOK
<1>7. ASSUME NEW o \in Observers, Untake(o) \/ LeavesOn(o) \/ StoreCount(o)
      PROVE  Indexed'
  BY <1>0, <1>7 DEF Untake, LeavesOn, TestLast, TestLastIf, Shrink, LoadCount, StoreCount,
     TypeOK, history
<1>8. QED
  BY <1>1, <1>2, <1>3, <1>4, <1>5, <1>6, <1>7 DEF Next, Takes, LeavesOn

(* While a registration or a sort is under way nobody leaves, and the one  *)
(* does not end without the other if they cross.                           *)
LEMMA NextKeepsApart == Known /\ [Next]_vars /\ calm' => Apart'
<1> SUFFICES ASSUME Known, [Next]_vars, calm' PROVE Apart'
  OBVIOUS
<1> USE DEF Apart
<1>0. /\ TypeOK /\ calm /\ Indexed /\ Apart /\ Scanned /\ Taken \subseteq Used
      /\ entry_array_size \in Nat /\ nmemb \in Nat
  BY ClientMaxPositive DEF Known, Flags, TypeOK
<1>1. ASSUME Registering' = Registering, Leaving' = Leaving,
             UNCHANGED <<server_state, nmemb, entry_array_size, crossed, reordered>>
      PROVE  Apart'
  BY <1>0, <1>1
<1>2. CASE UNCHANGED vars
  BY <1>1, <1>2, SetsFrame DEF vars, history
<1>3. CASE BeginSort
  <2>1. Leaving = {} /\ Registering' = Registering /\ Leaving' = Leaving
    BY <1>3, SetsFrame DEF BeginSort
  <2>2. /\ nmemb' = entry_array_size /\ UNCHANGED entry_array_size
        /\ crossed' <=> Registering # {}
        /\ crossed' => reordered'
    BY <1>3 DEF BeginSort
  <2>3. QED
    BY <1>0, <2>1, <2>2
<1>4. CASE EndSort \/ Reopen
  <2>1. /\ Registering' = Registering /\ Leaving' = Leaving /\ UNCHANGED crossed
        /\ server_state' # "SORTING"
    BY <1>4, SetsFrame DEF EndSort, Reopen, history
  <2>2. reordered => reordered'
    BY <1>4 DEF EndSort, Reopen, history
  <2>3. Registering # {} => Leaving = {}
    BY <1>0
  <2>4. QED
    BY <1>0, <2>1, <2>2, <2>3
<1>5. ASSUME NEW o \in Observers, BeginRegister(o)
      PROVE  Apart'
  <2>1. Registering' = {o} /\ Leaving = {} /\ Leaving' = {}
    BY <1>0, <1>5, RegistrationCounts DEF BeginRegister
  <2>2. QED
    BY <1>0, <1>5, <2>1 DEF BeginRegister
<1>6. ASSUME NEW o \in Observers, Seeks(o)
      PROVE  Apart'
  <2>1. Registering = {o} /\ Registering' = {o} /\ Leaving' = Leaving
    BY <1>0, <1>6, RegistrationCounts
  <2>2. UNCHANGED <<server_state, nmemb, crossed, reordered>>
    BY <1>6 DEF Seeks, PassSlot, FindSlot, FindSlotIf, Grow, ShrinkBack, ShrinkBackTo,
       history
  <2>3. server_state = "SORTING" => nmemb <= entry_array_size'
    <3>1. CASE PassSlot(o) \/ FindSlot(o)
      <4>1. UNCHANGED entry_array_size
        BY <3>1 DEF PassSlot, FindSlot, FindSlotIf
      <4>2. QED
        BY <1>0, <4>1
    <3>2. CASE ShrinkBack(o)
      <4>1. nmemb <= CLIENT_MAX /\ CLIENT_MAX < entry_array_size
            /\ entry_array_size' = entry_array_size - 1 /\ CLIENT_MAX \in Nat
        BY <1>0, <3>2, ClientMaxPositive DEF ShrinkBack, ShrinkBackTo, Fits, TypeOK
      <4>2. QED
        BY <1>0, <4>1
    <3>3. CASE Grow(o)
      <4>1. entry_array_size' = entry_array_size + 1
        BY <3>3 DEF Grow
      <4>2. QED
        BY <1>0, <4>1
    <3>4. QED
      BY <1>6, <3>1, <3>2, <3>3 DEF Seeks
  <2>4. QED
    BY <1>0, <2>1, <2>2, <2>3
<1>7. ASSUME NEW o \in Observers, Takes(o)
      PROVE  Apart'
  <2>1. /\ Registering' = {} /\ Leaving' = {} /\ crossed' = FALSE
        /\ UNCHANGED <<server_state, nmemb, entry_array_size, reordered>>
    BY <1>0, <1>7, SlotGiven
  <2>2. QED
    BY <1>0, <2>1
<1>8. ASSUME NEW o \in Observers, Refuse(o)
      PROVE  Apart'
  <2>1. /\ Registering = {o} /\ Registering' = {} /\ Leaving' = Leaving /\ crossed' = FALSE
        /\ UNCHANGED <<server_state, nmemb, entry_array_size, reordered>>
    BY <1>0, <1>8, RegistrationCounts DEF Refuse, Registers
  <2>2. QED
    BY <1>0, <2>1
<1>9. ASSUME NEW o \in Observers, CleanUp(o) \/ CleanUpRefused(o) \/ AddEntry(o)
      PROVE  Apart'
  <2>1. UNCHANGED <<server_state, nmemb, entry_array_size, crossed, reordered>>
    BY <1>9 DEF CleanUp, CleanUpRefused, AddEntry, Writes, history
  <2>2. QED
    BY <1>0, <1>1, <1>9, <2>1, WritesMoveNothing
<1>10. ASSUME NEW o \in Observers, Untake(o)
       PROVE  Apart'
  <2>1. /\ Registering = {} /\ Registering' = {}
        /\ server_state # "SORTING" /\ UNCHANGED <<server_state, crossed, reordered>>
    BY <1>0, <1>10, LeavingMoves DEF Untake
  <2>2. QED
    BY <1>0, <2>1
<1>11. ASSUME NEW o \in Observers, LeavesOn(o) \/ StoreCount(o)
       PROVE  Apart'
  <2>1. /\ Registering' = Registering /\ Leaving # {}
        /\ UNCHANGED <<server_state, crossed, reordered>>
    BY <1>0, <1>11, LeavingMoves
       DEF LeavesOn, TestLast, TestLastIf, Shrink, LoadCount, StoreCount, history
  <2>2. Registering = {} /\ server_state # "SORTING"
    BY <1>0, <2>1
  <2>3. QED
    BY <1>0, <2>1, <2>2
<1>12. QED
  BY <1>2, <1>3, <1>4, <1>5, <1>6, <1>7, <1>8, <1>9, <1>10, <1>11
     DEF Next, Seeks, Takes, LeavesOn

(* Two unregistrations that do not overlap do not load the same count; one *)
(* that does overlap loads a count that is no longer exact, but never too  *)
(* low.                                                                    *)
LEMMA NextKeepsCounting == Known /\ [Next]_vars /\ calm' => Counting'
<1> SUFFICES ASSUME Known, [Next]_vars, calm' PROVE Counting'
  OBVIOUS
<1>0. /\ TypeOK /\ calm /\ Indexed /\ Apart /\ Counting /\ Scanned /\ Taken \subseteq Used
      /\ Cardinality(Counted) \in Nat /\ IsFiniteSet(Counted)
      /\ observer_count \in Nat /\ \A p \in Observers : loaded[p] \in Nat
  BY SetsFinite DEF Known, Flags, TypeOK
<1>1. CASE UNCHANGED vars
  BY <1>0, <1>1, SetsFrame DEF vars, history, Counting, AtMostOneLeaves
<1>2. CASE BeginSort \/ EndSort \/ Reopen
  <2>1. /\ Counted' = Counted /\ Leaving' = Leaving
        /\ UNCHANGED <<observer, observer_count, loaded, overlapped>>
    BY <1>2, SetsFrame DEF BeginSort, EndSort, Reopen, history
  <2>2. QED
    BY <1>0, <2>1 DEF Counting, AtMostOneLeaves
<1>3. ASSUME NEW o \in Observers, BeginRegister(o)
      PROVE  Counting'
  <2>1. /\ Counted' = Counted \cup {o} /\ o \notin Counted
        /\ Leaving = {} /\ Leaving' = {} /\ observer_count' = observer_count + 1
        /\ UNCHANGED <<loaded, overlapped>>
    BY <1>0, <1>3, RegistrationCounts DEF BeginRegister
  <2>2. Cardinality(Counted') = Cardinality(Counted) + 1
    BY <1>0, <2>1, FS_AddElement
  <2>3. \A p \in Observers : observer'[p] # "store"
    BY <2>1 DEF Leaving
  <2>4. QED
    BY <1>0, <2>1, <2>2, <2>3 DEF Counting, AtMostOneLeaves
<1>4. ASSUME NEW o \in Observers, Takes(o)
      PROVE  Counting'
  <2>1. /\ Counted' = Counted /\ Leaving' = {}
        /\ UNCHANGED <<observer_count, loaded, overlapped>>
    BY <1>0, <1>4, SlotGiven
  <2>2. \A p \in Observers : observer'[p] # "store"
    BY <2>1 DEF Leaving
  <2>3. QED
    BY <1>0, <2>1, <2>2 DEF Counting, AtMostOneLeaves
<1>5. ASSUME NEW o \in Observers, Refuse(o)
      PROVE  Counting'
  <2>1. /\ Counted' = Counted \ {o} /\ o \in Counted
        /\ Leaving = {} /\ Leaving' = {} /\ observer_count' = observer_count - 1
        /\ UNCHANGED <<loaded, overlapped>>
    BY <1>0, <1>5, RegistrationCounts DEF Refuse, Registers, Apart
  <2>2. Cardinality(Counted') = Cardinality(Counted) - 1
    BY <1>0, <2>1, FS_RemoveElement
  <2>3. \A p \in Observers : observer'[p] # "store"
    BY <2>1 DEF Leaving
  <2>4. QED
    BY <1>0, <2>1, <2>2, <2>3 DEF Counting, AtMostOneLeaves
<1>6. ASSUME NEW o \in Observers, CleanUp(o) \/ CleanUpRefused(o) \/ AddEntry(o)
      PROVE  Counting'
  <2>1. /\ Counted' = Counted /\ Leaving' = Leaving
        /\ UNCHANGED <<observer_count, loaded, overlapped>>
        /\ \A p \in Observers : observer'[p] = "store" => observer[p] = "store"
    BY <1>0, <1>6, WritesMoveNothing
       DEF CleanUp, CleanUpRefused, AddEntry, Writes, Goes, history, TypeOK
  <2>2. QED
    BY <1>0, <2>1 DEF Counting, AtMostOneLeaves
<1>7. ASSUME NEW o \in Observers, Untake(o)
      PROVE  Counting'
  <2>1. /\ Counted' = Counted /\ Leaving' = Leaving \cup {o}
        /\ UNCHANGED <<observer_count, loaded>>
        /\ overlapped' = (overlapped \/ Leaving # {})
        /\ \A p \in Observers : observer'[p] = "store" => observer[p] = "store"
    BY <1>0, <1>7, LeavingMoves DEF Untake, Goes, TypeOK
  <2>2. QED
    BY <1>0, <2>1 DEF Counting, AtMostOneLeaves
<1>8. ASSUME NEW o \in Observers, Seeks(o) \/ TestLast(o) \/ Shrink(o)
      PROVE  Counting'
  <2>1. /\ Counted' = Counted /\ Leaving' = Leaving
        /\ UNCHANGED <<observer_count, loaded, overlapped>>
        /\ \A p \in Observers : observer'[p] = "store" => observer[p] = "store"
    BY <1>0, <1>8, LeavingMoves, RegistrationCounts
       DEF LeavesOn, TestLast, TestLastIf, Shrink, Seeks, PassSlot, FindSlot, FindSlotIf, Grow,
           ShrinkBack, ShrinkBackTo, Goes, history, TypeOK
  <2>2. QED
    BY <1>0, <2>1 DEF Counting, AtMostOneLeaves
<1>9. ASSUME NEW o \in Observers, LoadCount(o)
      PROVE  Counting'
  <2>1. /\ Counted' = Counted /\ Leaving' = Leaving
        /\ UNCHANGED <<observer_count, overlapped>>
        /\ loaded' = [loaded EXCEPT ![o] = observer_count]
        /\ \A p \in Observers \ {o} : observer'[p] = "store" => observer[p] = "store"
    BY <1>0, <1>9, LeavingMoves DEF LeavesOn, LoadCount, Goes, history, TypeOK
  <2>2. \A p \in Observers : loaded'[p] = IF p = o THEN observer_count ELSE loaded[p]
    BY <1>0, <2>1 DEF TypeOK
  <2>3. QED
    BY <1>0, <2>1, <2>2 DEF Counting, AtMostOneLeaves
<1>10. ASSUME NEW o \in Observers, StoreCount(o)
       PROVE  Counting'
  <2>1. /\ Counted' = Counted \ {o} /\ o \in Counted /\ o \in Leaving
        /\ Leaving' = Leaving \ {o}
        /\ observer[o] = "store" /\ observer_count' = loaded[o] - 1
        /\ UNCHANGED overlapped
        /\ \A p \in Observers : observer'[p] = "store" =>
              p # o /\ observer[p] = "store" /\ loaded'[p] = loaded[p]
    BY <1>0, <1>10, LeavingMoves DEF StoreCount, Goes, TypeOK
  <2>2. Cardinality(Counted') = Cardinality(Counted) - 1
    BY <1>0, <2>1, FS_RemoveElement
  <2>3. \A p \in Observers : observer[p] = "store" => p \in Leaving
    BY DEF Leaving
  <2>4. \A p \in Observers : observer[p] = "store" =>
           /\ Cardinality(Counted) <= loaded[p]
           /\ ~overlapped => loaded[p] = Cardinality(Counted)
    BY <1>0 DEF Counting
  <2>5. ~overlapped => \A p \in Leaving : p = o
    BY <1>0, <2>1 DEF Counting, AtMostOneLeaves
  <2>6. /\ Cardinality(Counted') <= observer_count'
        /\ ~overlapped' => observer_count' = Cardinality(Counted')
    BY <1>0, <2>1, <2>2, <2>4
  <2>7. \A p \in Observers : observer'[p] = "store" =>
           /\ Cardinality(Counted') <= loaded'[p]
           /\ ~overlapped' => loaded'[p] = Cardinality(Counted')
    BY <1>0, <2>1, <2>2, <2>3, <2>4, <2>5
  <2>8. ~overlapped' => AtMostOneLeaves'
    BY <2>1, <2>5 DEF AtMostOneLeaves
  <2>9. QED
    BY <2>6, <2>7, <2>8 DEF Counting
<1>11. QED
  BY <1>1, <1>2, <1>3, <1>4, <1>5, <1>6, <1>7, <1>8, <1>9, <1>10 DEF Next, Seeks, Takes

(* A bound that moves by no less than what it bounds.                      *)
LEMMA BoundMoves ==
    ASSUME NEW observers \in Nat, NEW flags \in Nat, NEW more \in Nat,
           NEW stake \in 0..1, NEW stakes \in 0..1, NEW cost \in Nat, NEW costs \in Nat,
           observers + stake <= flags + cost, flags <= more, stakes + cost <= stake + costs
    PROVE  observers + stakes <= more + costs
OBVIOUS

(* No flag is above the array: the array shrinks by a slot whose flag is   *)
(* cleared, once.                                                          *)
LEMMA NextKeepsFlags == Known /\ [Next]_vars /\ calm' => Flags'
<1> SUFFICES ASSUME Known, [Next]_vars, calm' PROVE Flags'
  OBVIOUS
<1>0. /\ TypeOK /\ calm /\ Indexed /\ Apart /\ Flags /\ Scanned
      /\ CLIENT_MAX \in Nat /\ entry_array_size \in Nat /\ crossings \in Nat
      /\ AtStake \in 0..1 /\ Cardinality(Taken') \in Nat
      /\ Taken \subseteq Used /\ Taken \subseteq Slots
      /\ IsFiniteSet(Registered \ Leaving) /\ IsFiniteSet(Taken)
      /\ Cardinality(Registered \ Leaving) \in Nat /\ Cardinality(Taken) \in Nat
  <2>1. Taken' \in SUBSET Slots
    BY DEF Taken
  <2>2. IsFiniteSet(Taken') /\ Cardinality(Taken') \in Nat
    BY <2>1, SetsFinite, FS_Subset, FS_CardinalityType
  <2>3. AtStake \in 0..1
    BY DEF AtStake
  <2>4. QED
    BY <2>2, <2>3, SetsFinite, ClientMaxPositive DEF Known, Flags, Taken, TypeOK
<1>1. ASSUME UNCHANGED <<entry_array, entry_array_size, index, reordered, crossed, crossings>>,
             Registered' = Registered, Leaving' = Leaving,
             \A p \in Observers : observer'[p] = "shrink" =>
                observer[p] = "shrink" \/ index[p] + 1 = entry_array_size
      PROVE  Flags'
  <2>1. Taken' = Taken /\ Used' = Used /\ AtStake' = AtStake
    BY <1>1 DEF Taken, Used, AtStake
  <2>2. Leaving \subseteq Observers
    BY DEF Leaving
  <2>3. QED
    BY <1>0, <1>1, <2>1, <2>2 DEF Flags, AtMostOneLeaves
<1>2. CASE UNCHANGED vars
  <2>1. UNCHANGED <<entry_array, entry_array_size, index, reordered, crossed, crossings, observer>>
    BY <1>2 DEF vars, history
  <2>2. QED
    BY <1>1, <2>1, SetsFrame
<1>3. CASE BeginSort \/ EndSort
  <2>1. Registered' = Registered /\ Leaving = {} /\ Leaving' = {} /\ Used' = Used
    BY <1>0, <1>3, SetsFrame DEF BeginSort, EndSort, Apart
  <2>2. Taken' \subseteq Used /\ Cardinality(Taken) <= Cardinality(Taken')
    <3>1. CASE BeginSort
      BY <1>0, <3>1, SetsFrame DEF BeginSort
    <3>2. CASE EndSort
      BY <1>0, <3>2, SortMovesFlags
    <3>3. QED
      BY <1>3, <3>1, <3>2
  <2>3. /\ AtStake' + crossings <= AtStake + crossings'
        /\ AtStake' \in 0..1 /\ crossings' \in Nat
    <3>1. CASE EndSort
      BY <1>0, <3>1 DEF EndSort, AtStake
    <3>2. CASE BeginSort
      <4>1. crossed' <=> Registering # {}
        BY <3>2 DEF BeginSort
      <4>2. crossings' = IF crossed' /\ ~crossed THEN crossings + 1 ELSE crossings
        BY <3>2 DEF BeginSort
      <4>3. crossed => crossed'
        BY <1>0, <4>1 DEF Apart
      <4>4. CASE crossed' /\ ~crossed
        BY <1>0, <4>2, <4>4 DEF AtStake
      <4>5. CASE ~(crossed' /\ ~crossed)
        BY <1>0, <4>2, <4>3, <4>5 DEF AtStake
      <4>6. QED
        BY <4>4, <4>5
    <3>3. QED
      BY <1>3, <3>1, <3>2
  <2>4. Cardinality(Registered \ Leaving) + AtStake <= Cardinality(Taken) + crossings
    BY <1>0 DEF Flags
  <2>5. Cardinality(Registered \ Leaving) + AtStake' <= Cardinality(Taken') + crossings'
    BY <1>0, <2>2, <2>3, <2>4, BoundMoves
  <2>6. QED
    BY <2>1, <2>2, <2>5 DEF Flags, AtMostOneLeaves
<1>4. CASE Reopen
  <2>1. UNCHANGED <<entry_array, entry_array_size, index, reordered, crossed, crossings, observer>>
    BY <1>4 DEF Reopen, history
  <2>2. QED
    BY <1>1, <2>1, SetsFrame
<1>5. ASSUME NEW o \in Observers, BeginRegister(o) \/ Seeks(o) \/ Refuse(o)
      PROVE  Flags'
  <2>1. /\ Registered' = Registered /\ Leaving = {} /\ Leaving' = {} /\ Taken' = Taken
    <3>1. CASE BeginRegister(o)
      <4>1. Leaving = {} /\ UNCHANGED entry_array
        BY <3>1 DEF BeginRegister
      <4>2. QED
        BY <1>0, <3>1, <4>1, RegistrationCounts, SetsFrame
    <3>2. CASE Seeks(o)
      BY <1>0, <3>2, RegistrationCounts DEF Apart
    <3>3. CASE Refuse(o)
      BY <1>0, <3>3, RegistrationCounts, SetsFrame DEF Refuse, Apart
    <3>4. QED
      BY <1>5, <3>1, <3>2, <3>3
  <2>2. Taken \subseteq Used'
    <3>1. CASE ShrinkBack(o)
      <4>1. entry_array_size' = entry_array_size - 1 /\ entry_array_size > CLIENT_MAX
        BY <1>0, <3>1 DEF ShrinkBack, ShrinkBackTo, Fits
      <4>2. Slots \subseteq Used'
        BY <1>0, <4>1 DEF Slots, Used
      <4>3. QED
        BY <1>0, <4>2
    <3>2. CASE Grow(o)
      <4>1. entry_array_size' = entry_array_size + 1
        BY <3>2 DEF Grow
      <4>2. QED
        BY <1>0, <4>1 DEF Used
    <3>3. CASE BeginRegister(o) \/ PassSlot(o) \/ FindSlot(o) \/ Refuse(o)
      <4>1. UNCHANGED entry_array_size
        BY <3>3 DEF BeginRegister, PassSlot, FindSlot, FindSlotIf, Refuse, Registers
      <4>2. QED
        BY <1>0, <4>1, SetsFrame
    <3>4. QED
      BY <1>5, <3>1, <3>2, <3>3 DEF Seeks
  <2>3. /\ AtStake' + crossings <= AtStake + crossings'
        /\ AtStake' \in 0..1 /\ crossings' \in Nat
    <3>1. CASE BeginRegister(o)
      <4>1. /\ crossings' = IF crossed' THEN crossings + 1 ELSE crossings
            /\ Registering = {}
        BY <1>0, <3>1, RegistrationCounts DEF BeginRegister
      <4>2. AtStake = 0
        BY <1>0, <4>1 DEF AtStake, Apart
      <4>3. QED
        BY <1>0, <4>1, <4>2 DEF AtStake
    <3>2. CASE Seeks(o)
      <4>1. UNCHANGED <<crossed, crossings>>
        BY <3>2 DEF Seeks, PassSlot, FindSlot, FindSlotIf, Grow, ShrinkBack,
           ShrinkBackTo, history
      <4>2. QED
        BY <1>0, <4>1 DEF AtStake
    <3>3. CASE Refuse(o)
      BY <1>0, <3>3 DEF Refuse, Registers, AtStake
    <3>4. QED
      BY <1>5, <3>1, <3>2, <3>3
  <2>4. Cardinality(Registered \ Leaving) + AtStake <= Cardinality(Taken) + crossings
    BY <1>0 DEF Flags
  <2>5. Cardinality(Registered \ Leaving) + AtStake' <= Cardinality(Taken') + crossings'
    <3>1. Cardinality(Taken) <= Cardinality(Taken')
      BY <1>0, <2>1
    <3>2. QED
      BY <1>0, <2>3, <2>4, <3>1, BoundMoves
  <2>6. QED
    BY <2>1, <2>2, <2>5 DEF Flags, AtMostOneLeaves
<1>6. ASSUME NEW o \in Observers, Takes(o)
      PROVE  Flags'
  <2>1. PICK i \in Slots :
           /\ Taken \subseteq Taken' /\ Taken' \subseteq Used
           /\ ~crossed => i \notin Taken /\ Taken' = Taken \cup {i}
           /\ Leaving = {} /\ Leaving' = {}
           /\ o \notin Registered /\ Registered' = Registered \cup {o}
           /\ crossed' = FALSE /\ UNCHANGED <<entry_array_size, crossings>>
    BY <1>0, <1>6, SlotGiven
  <2>2. /\ Registered \ Leaving = Registered
        /\ (Registered \ Leaving)' = (Registered \ Leaving) \cup {o}
        /\ o \notin Registered \ Leaving
    BY <2>1
  <2>3. Cardinality((Registered \ Leaving)') = Cardinality(Registered \ Leaving) + 1
    <3>1. Cardinality((Registered \ Leaving) \cup {o}) = Cardinality(Registered \ Leaving) + 1
      BY <1>0, <2>2, FS_AddElement
    <3>2. QED
      BY <2>2, <3>1
  <2>4. Cardinality(Taken) + 1 <= Cardinality(Taken') + AtStake
    <3>1. CASE crossed
      <4>1. Taken' \in SUBSET Slots
        BY DEF Taken
      <4>2. Cardinality(Taken) <= Cardinality(Taken')
        BY <2>1, <4>1, SetsFinite, FS_Subset
      <4>3. QED
        BY <1>0, <3>1, <4>2 DEF AtStake
    <3>2. CASE ~crossed
      <4>1. Cardinality(Taken \cup {i}) = Cardinality(Taken) + 1
        BY <1>0, <2>1, <3>2, FS_AddElement
      <4>2. QED
        BY <1>0, <2>1, <3>2, <4>1
    <3>3. QED
      BY <3>1, <3>2
  <2>5. AtStake' = 0
    BY <2>1 DEF AtStake
  <2>6. Cardinality(Registered \ Leaving) + AtStake <= Cardinality(Taken) + crossings
    BY <1>0 DEF Flags
  <2>7. Cardinality((Registered \ Leaving)') + AtStake' <= Cardinality(Taken') + crossings'
    BY <1>0, <2>1, <2>3, <2>4, <2>5, <2>6
  <2>8. Used' = Used
    BY <2>1, SetsFrame
  <2>9. QED
    BY <2>1, <2>7, <2>8 DEF Flags, AtMostOneLeaves
<1>7. ASSUME NEW o \in Observers, CleanUp(o) \/ CleanUpRefused(o) \/ AddEntry(o)
      PROVE  Flags'
  <2>1. /\ UNCHANGED <<entry_array_size, index, reordered, crossed, crossings>>
        /\ \A p \in Observers : observer'[p] = "shrink" => observer[p] = "shrink"
    <3>1. /\ UNCHANGED <<entry_array_size, index, reordered, crossed, crossings>>
          /\ \/ UNCHANGED observer
             \/ observer' = [observer EXCEPT ![o] = "loop"]
             \/ observer' = [observer EXCEPT ![o] = "absent"]
      BY <1>7 DEF CleanUp, CleanUpRefused, AddEntry, Writes, Goes, history
    <3>2. QED
      BY <1>0, <3>1 DEF TypeOK
  <2>2. /\ Registered' = Registered /\ Leaving' = Leaving /\ Taken' = Taken
        /\ Used' = Used /\ AtStake' = AtStake
    BY <1>0, <1>7, <2>1, WritesMoveNothing DEF Used, AtStake
  <2>3. Leaving \subseteq Observers
    BY DEF Leaving
  <2>4. QED
    BY <1>0, <2>1, <2>2, <2>3 DEF Flags, AtMostOneLeaves
<1>8. ASSUME NEW o \in Observers, Untake(o)
      PROVE  Flags'
  <2>1. /\ UNCHANGED <<entry_array_size, index, reordered, crossed, crossings>>
        /\ Registered' = Registered /\ o \in Registered \ Leaving
        /\ Leaving' = Leaving \cup {o}
        /\ Taken' = Taken \ {index[o]}
        /\ reordered => Leaving = {}
        /\ \A p \in Observers : observer'[p] = "shrink" => observer[p] = "shrink"
        /\ observer'[o] # "shrink"
    BY <1>0, <1>8, LeavingMoves DEF Untake, Goes, TypeOK
  <2>2. Used' = Used /\ AtStake' = AtStake
    BY <2>1 DEF Used, AtStake
  <2>3. (Registered \ Leaving)' = (Registered \ Leaving) \ {o}
    BY <2>1
  <2>4. /\ Cardinality((Registered \ Leaving)') = Cardinality(Registered \ Leaving) - 1
        /\ Cardinality(Taken') = IF index[o] \in Taken THEN Cardinality(Taken) - 1
                                                     ELSE Cardinality(Taken)
    BY <1>0, <2>1, <2>3, FS_RemoveElement
  <2>5. Cardinality((Registered \ Leaving)') + AtStake' <= Cardinality(Taken') + crossings'
    <3>1. Cardinality(Registered \ Leaving) + AtStake <= Cardinality(Taken) + crossings
      BY <1>0 DEF Flags
    <3>2. QED
      BY <1>0, <2>1, <2>2, <2>4, <3>1
  <2>6. \A p \in Leaving' : /\ index'[p] \notin Taken'
                            /\ observer'[p] = "shrink" => index'[p] + 1 = entry_array_size'
    BY <1>0, <2>1 DEF Flags, Leaving
  <2>7. reordered' => AtMostOneLeaves'
    BY <2>1 DEF AtMostOneLeaves
  <2>8. QED
    BY <1>0, <2>1, <2>2, <2>5, <2>6, <2>7 DEF Flags
<1>9. ASSUME NEW o \in Observers, TestLast(o) \/ LoadCount(o)
      PROVE  Flags'
  <2>1. UNCHANGED <<entry_array, entry_array_size, index, reordered, crossed, crossings>>
    BY <1>9 DEF TestLast, TestLastIf, LoadCount, history
  <2>2. Registered' = Registered /\ Leaving' = Leaving
    BY <1>0, <1>9, LeavingMoves DEF LeavesOn
  <2>3. \A p \in Observers : observer'[p] = "shrink" =>
           observer[p] = "shrink" \/ index[p] + 1 = entry_array_size
    BY <1>0, <1>9 DEF TestLast, TestLastIf, LoadCount, Goes, TypeOK
  <2>4. QED
    BY <1>1, <2>1, <2>2, <2>3
<1>10. ASSUME NEW o \in Observers, Shrink(o)
       PROVE  Flags'
  <2>1. /\ observer[o] = "shrink" /\ entry_array_size' = entry_array_size - 1
        /\ UNCHANGED <<entry_array, index, reordered, crossed, crossings>>
        /\ Registered' = Registered /\ Leaving' = Leaving
        /\ o \in Registered /\ o \in Leaving /\ index[o] \in Slots
        /\ observer'[o] # "shrink"
        /\ \A p \in Observers : observer'[p] = "shrink" => observer[p] = "shrink"
    BY <1>0, <1>10, LeavingMoves DEF LeavesOn, Shrink, Goes, history, TypeOK
  <2>2. index[o] \notin Taken /\ index[o] + 1 = entry_array_size
    BY <1>0, <2>1 DEF Flags
  <2>3. Taken' = Taken /\ AtStake' = AtStake
    BY <2>1 DEF Taken, AtStake
  <2>4. Taken' \subseteq Used'
    <3>1. \A i \in Taken : i \in 0..entry_array_size - 1 /\ i # index[o]
      BY <1>0, <2>2 DEF Used
    <3>2. entry_array_size \in Int /\ index[o] = entry_array_size - 1
      BY <1>0, <2>1, <2>2, ClientMaxPositive DEF Slots, TypeOK
    <3>3. QED
      BY <2>1, <2>3, <3>1, <3>2 DEF Used
  <2>5. \A p \in Leaving : observer[p] = "shrink" => p = o
    <3>1. SUFFICES ASSUME NEW p \in Leaving, observer[p] = "shrink" PROVE p = o
      OBVIOUS
    <3>2. CASE reordered
      <4>1. AtMostOneLeaves
        BY <1>0, <3>2 DEF Flags
      <4>2. QED
        BY <2>1, <3>1, <4>1 DEF AtMostOneLeaves
    <3>3. CASE ~reordered
      <4>1. p \in Observers /\ p \in Registered
        BY <1>0, <3>1 DEF Leaving, Registered, Registering, Indexed
      <4>2. index[p] \in Int /\ index[o] \in Int
        BY <1>0, <2>1, <4>1, ClientMaxPositive DEF TypeOK, Slots
      <4>3. index[p] + 1 = index[o] + 1
        BY <1>0, <2>2, <3>1 DEF Flags
      <4>4. index[p] = index[o]
        BY <4>2, <4>3
      <4>5. QED
        BY <2>1, <3>3, <4>1, <4>4 DEF Known, Owned
    <3>4. QED
      BY <1>0, <3>2, <3>3 DEF TypeOK
  <2>6. \A p \in Leaving' : observer'[p] # "shrink"
    BY <2>1, <2>5 DEF Leaving
  <2>7. QED
    BY <1>0, <2>1, <2>3, <2>4, <2>6 DEF Flags, AtMostOneLeaves
<1>11. ASSUME NEW o \in Observers, StoreCount(o)
       PROVE  Flags'
  <2>1. /\ UNCHANGED <<entry_array, entry_array_size, reordered, crossed, crossings>>
        /\ Registered' = Registered \ {o} /\ Leaving' = Leaving \ {o} /\ o \in Leaving
        /\ \A p \in Observers \ {o} : index'[p] = index[p] /\ observer'[p] = observer[p]
    BY <1>0, <1>11, LeavingMoves DEF StoreCount, Goes, TypeOK
  <2>2. /\ (Registered \ Leaving)' = Registered \ Leaving /\ Taken' = Taken
        /\ Used' = Used /\ AtStake' = AtStake
    BY <2>1 DEF Taken, Used, AtStake
  <2>3. Leaving' \subseteq Leaving /\ Leaving' \subseteq Observers \ {o}
    BY <2>1 DEF Leaving
  <2>4. QED
    BY <1>0, <2>1, <2>2, <2>3 DEF Flags, AtMostOneLeaves
<1>12. QED
  BY <1>2, <1>3, <1>4, <1>5, <1>6, <1>7, <1>8, <1>9, <1>10, <1>11
     DEF Next, Seeks, Takes

(* A scan passes taken slots; nobody leaves meanwhile, and a sort that     *)
(* moves them crosses it.                                                  *)
LEMMA NextKeepsScanned == Known /\ [Next]_vars /\ calm' => Scanned'
<1> SUFFICES ASSUME Known, [Next]_vars, calm' PROVE Scanned'
  OBVIOUS
<1>0. /\ TypeOK /\ calm /\ Indexed /\ Apart /\ Scanned /\ Taken \subseteq Used
      /\ CLIENT_MAX \in Nat /\ entry_array_size \in Nat /\ at \in Nat
      /\ Registering \subseteq Observers /\ Taken \subseteq Slots
      /\ ~crossed /\ Registering # {} => server_state # "SORTING"
  BY ClientMaxPositive DEF Known, Flags, TypeOK, Registering, Taken, Apart
<1>1. ASSUME Registering' = {}
      PROVE  Scanned'
  BY <1>1 DEF Scanned
<1>2. ASSUME Registering' = Registering, Taken' = Taken,
             UNCHANGED <<index, at, entry_array_size>>, ~crossed' => ~crossed,
             \A p \in Registering : observer'[p] = observer[p]
      PROVE  Scanned'
  BY <1>0, <1>2, SetsFrame DEF Scanned
<1>3. CASE UNCHANGED vars \/ Reopen
  <2>1. /\ Registering' = Registering /\ Taken' = Taken
        /\ UNCHANGED <<index, at, entry_array_size, crossed, observer>>
    BY <1>3, SetsFrame DEF vars, Reopen, history
  <2>2. QED
    BY <1>2, <2>1
<1>4. CASE BeginSort
  <2>1. Registering' = Registering /\ Taken' = Taken
        /\ UNCHANGED <<index, at, entry_array_size, observer>>
    BY <1>4, SetsFrame DEF BeginSort
  <2>2. ~crossed' => Registering = {}
    BY <1>4 DEF BeginSort
  <2>3. CASE Registering = {}
    BY <1>1, <2>1, <2>3
  <2>4. CASE crossed'
    BY <1>2, <2>1, <2>4
  <2>5. QED
    BY <2>2, <2>3, <2>4
<1>5. CASE EndSort
  <2>1. /\ Registering' = Registering /\ server_state = "SORTING"
        /\ UNCHANGED <<index, at, entry_array_size, observer, crossed>>
    BY <1>5, SetsFrame DEF EndSort
  <2>2. CASE Registering = {}
    BY <1>1, <2>1, <2>2
  <2>3. CASE Registering # {}
    <3>1. crossed'
      BY <1>0, <2>1, <2>3
    <3>2. QED
      BY <1>0, <2>1, <3>1, SetsFrame DEF Scanned
  <2>4. QED
    BY <2>2, <2>3
<1>6. ASSUME NEW o \in Observers, BeginRegister(o)
      PROVE  Scanned'
  <2>1. /\ Registering' = {o} /\ at' = 0 /\ observer'[o] = "scan"
        /\ UNCHANGED entry_array_size
    BY <1>0, <1>6, RegistrationCounts DEF BeginRegister, Goes, TypeOK
  <2>2. 0..at' - 1 = {} /\ at' <= entry_array_size'
    BY <1>0, <2>1
  <2>3. QED
    BY <2>1, <2>2 DEF Scanned
<1>7. ASSUME NEW o \in Observers, Seeks(o)
      PROVE  Scanned'
  <2>0. /\ Registering = {o} /\ Registering' = {o} /\ Taken' = Taken
        /\ UNCHANGED <<crossed, server_state>>
    BY <1>0, <1>7, RegistrationCounts DEF Seeks, PassSlot, FindSlot, FindSlotIf, Grow,
       ShrinkBack, ShrinkBackTo, history
  <2>1. ASSUME ~crossed, at < entry_array_size, observer[o] = "scan"
        PROVE  /\ TRUE \in Seen(at) => at \in Taken
               /\ FALSE \in Seen(at) => at \notin Taken
    <3>1. at \in Slots
      <4>1. entry_array_size <= CLIENT_MAX
        BY <1>0, <2>0, <2>1 DEF TypeOK, Registering
      <4>2. QED
        BY <1>0, <2>1, <4>1 DEF Slots
    <3>2. Moving = {}
      BY <1>0, <2>0, <2>1 DEF Moving
    <3>3. Seen(at) = {entry_array[at].is_taken}
      BY <3>2 DEF Seen
    <3>4. at \in Taken <=> entry_array[at].is_taken
      BY <3>1 DEF Taken
    <3>5. QED
      BY <3>3, <3>4
  <2>2. CASE PassSlot(o)
    <3>1. /\ observer[o] = "scan" /\ at < entry_array_size /\ TRUE \in Seen(at)
          /\ at' = at + 1 /\ UNCHANGED <<observer, entry_array_size>>
      BY <2>2 DEF PassSlot
    <3>2. ASSUME ~crossed
          PROVE  at' <= entry_array_size /\ 0..at' - 1 \subseteq Taken
      <4>1. at \in Taken
        BY <2>1, <3>1, <3>2
      <4>2. 0..at - 1 \subseteq Taken
        BY <2>0, <3>1, <3>2, <1>0 DEF Scanned
      <4>3. \A i \in 0..at' - 1 : i = at \/ i \in 0..at - 1
        BY <1>0, <3>1
      <4>4. QED
        BY <1>0, <3>1, <4>1, <4>2, <4>3
    <3>3. QED
      BY <2>0, <3>1, <3>2 DEF Scanned
  <2>3. CASE FindSlot(o)
    <3>1. /\ observer[o] = "scan" /\ at < entry_array_size /\ FALSE \in Seen(at)
          /\ index' = [index EXCEPT ![o] = at] /\ UNCHANGED entry_array_size
          /\ observer' = [observer EXCEPT ![o] = "take"]
      BY <2>3 DEF FindSlot, FindSlotIf, Goes
    <3>2. index'[o] = at /\ observer'[o] = "take"
      BY <1>0, <3>1 DEF TypeOK
    <3>3. at \in Used'
      BY <1>0, <3>1 DEF Used
    <3>4. ~crossed => at \notin Taken
      BY <2>1, <3>1
    <3>5. QED
      BY <2>0, <3>2, <3>3, <3>4 DEF Scanned
  <2>4. CASE Grow(o)
    <3>1. /\ observer[o] = "scan" /\ at >= entry_array_size
          /\ entry_array_size' = entry_array_size + 1 /\ observer'[o] = "grown"
      BY <1>0, <2>4 DEF Grow, Goes, TypeOK
    <3>2. ~crossed => 0..entry_array_size' - 2 \subseteq Taken
      <4>1. ~crossed => at = entry_array_size /\ 0..at - 1 \subseteq Taken
        BY <1>0, <2>0, <3>1 DEF Scanned
      <4>2. entry_array_size' - 2 = entry_array_size - 1
        BY <1>0, <3>1
      <4>3. QED
        BY <4>1, <4>2
    <3>3. entry_array_size' - 1 \notin Taken
      <4>1. entry_array_size' - 1 = entry_array_size /\ entry_array_size \notin Used
        BY <1>0, <3>1 DEF Used
      <4>2. QED
        BY <1>0, <4>1
    <3>4. entry_array_size' > 0
      BY <1>0, <3>1
    <3>5. QED
      BY <2>0, <3>1, <3>2, <3>3, <3>4 DEF Scanned
  <2>5. CASE ShrinkBack(o)
    <3>1. /\ observer[o] = "grown" /\ observer'[o] = "refused"
          /\ entry_array_size > CLIENT_MAX
      BY <1>0, <2>5 DEF ShrinkBack, ShrinkBackTo, Goes, Fits, TypeOK
    <3>2. Slots \subseteq 0..entry_array_size - 2
      BY <1>0, <3>1 DEF Slots
    <3>3. ~crossed => Taken = Slots
      BY <1>0, <2>0, <3>1, <3>2 DEF Scanned
    <3>4. Slots' = Slots
      BY DEF Slots
    <3>5. QED
      BY <2>0, <3>1, <3>3, <3>4 DEF Scanned
  <2>6. QED
    BY <1>7, <2>2, <2>3, <2>4, <2>5 DEF Seeks
<1>8. ASSUME NEW o \in Observers, Takes(o) \/ Refuse(o)
      PROVE  Scanned'
  BY <1>0, <1>1, <1>8, SlotGiven, RegistrationCounts
<1>9. ASSUME NEW o \in Observers, CleanUp(o) \/ CleanUpRefused(o) \/ AddEntry(o)
      PROVE  Scanned'
  <2>1. /\ UNCHANGED <<index, at, entry_array_size, crossed>>
        /\ \A p \in Registering : observer'[p] = observer[p]
    <3>1. /\ UNCHANGED <<index, at, entry_array_size, crossed>>
          /\ o \notin Registering
          /\ \/ UNCHANGED observer
             \/ observer' = [observer EXCEPT ![o] = "loop"]
             \/ observer' = [observer EXCEPT ![o] = "absent"]
      BY <1>9 DEF CleanUp, CleanUpRefused, AddEntry, Writes, Goes, history, Registering
    <3>2. QED
      BY <1>0, <3>1 DEF TypeOK
  <2>2. Registering' = Registering /\ Taken' = Taken
    BY <1>0, <1>9, WritesMoveNothing
  <2>3. QED
    BY <1>2, <2>1, <2>2
<1>10. ASSUME NEW o \in Observers, Untake(o) \/ LeavesOn(o) \/ StoreCount(o)
       PROVE  Scanned'
  <2>1. Registering' = Registering
    BY <1>0, <1>10, LeavingMoves
  <2>2. Registering = {}
    <3>1. CASE Untake(o)
      BY <3>1 DEF Untake
    <3>2. CASE LeavesOn(o) \/ StoreCount(o)
      BY <1>0, <3>2, LeavingMoves DEF Apart
    <3>3. QED
      BY <1>10, <3>1, <3>2
  <2>3. QED
    BY <1>1, <2>1, <2>2
<1>11. QED
  BY <1>3, <1>4, <1>5, <1>6, <1>7, <1>8, <1>9, <1>10 DEF Next, Seeks, Takes, LeavesOn

(* Until a sort moves a slot, what changes at an observer's index is its   *)
(* own: a slot is free when it is given, and held by nobody else.          *)
LEMMA NextKeepsOwned == Known /\ [Next]_vars /\ calm' => Owned'
<1> SUFFICES ASSUME Known, [Next]_vars, calm', ~reordered' PROVE Owned'
  BY DEF Owned
<1>0. /\ TypeOK /\ calm /\ Indexed /\ Apart /\ Scanned /\ Flags
      /\ Taken \subseteq Used /\ Taken \subseteq Slots
      /\ \A p \in Observers : observer[p] = "loop" => p \in Registered \ Leaving
      /\ Registered \subseteq Observers
  BY DEF Known, Flags, Taken, Registered, Registering, Leaving, Indexed
<1>00. Owned /\ (~reordered => ~crossed)
  BY DEF Known, Apart
<1>1. ASSUME UNCHANGED <<entry_array, index, latest>>, ~reordered,
             Registered' = Registered, Leaving' = Leaving,
             \A p \in Observers : observer'[p] = "loop" => observer[p] = "loop"
      PROVE  Owned'
  <2>1. Taken' = Taken
    BY <1>1 DEF Taken
  <2>2. QED
    BY <1>0, <1>00, <1>1, <2>1 DEF Owned
<1>2. CASE UNCHANGED vars
  <2>1. UNCHANGED <<entry_array, index, latest, reordered, observer>>
    BY <1>2 DEF vars, history
  <2>2. QED
    BY <1>1, <2>1, SetsFrame
<1>3. CASE BeginSort \/ EndSort \/ Reopen
  <2>1. UNCHANGED <<index, latest, observer>>
    BY <1>3 DEF BeginSort, EndSort, Reopen, history
  <2>2. UNCHANGED entry_array /\ ~reordered
    <3>1. CASE BeginSort
      BY <3>1 DEF BeginSort
    <3>2. CASE EndSort
      <4>1. reordered' = (reordered \/ entry_array' # entry_array)
        BY <3>2 DEF EndSort
      <4>2. QED
        BY <4>1
    <3>3. CASE Reopen
      BY <3>3 DEF Reopen, history
    <3>4. QED
      BY <1>3, <3>1, <3>2, <3>3
  <2>3. QED
    BY <1>1, <2>1, <2>2, SetsFrame
<1>4. ASSUME NEW o \in Observers, BeginRegister(o) \/ Refuse(o)
      PROVE  Owned'
  <2>1. /\ UNCHANGED <<entry_array, index, latest>>
        /\ \A p \in Observers : observer'[p] = "loop" => observer[p] = "loop"
    BY <1>0, <1>4 DEF BeginRegister, Refuse, Registers, Goes, TypeOK
  <2>2. ~reordered
    BY <1>4 DEF BeginRegister, Refuse, Registers
  <2>3. QED
    BY <1>0, <1>1, <1>4, <2>1, <2>2, RegistrationCounts
<1>5. ASSUME NEW o \in Observers, Takes(o)
      PROVE  Owned'
  <2>1. PICK i \in Slots :
           /\ i \notin Taken /\ Taken' = Taken \cup {i}
           /\ index' = [index EXCEPT ![o] = i]
           /\ entry_array' = [entry_array EXCEPT ![i].is_taken = TRUE]
           /\ Leaving = {} /\ Leaving' = {}
           /\ o \notin Registered /\ Registered' = Registered \cup {o}
           /\ observer' = [observer EXCEPT ![o] = "clean"]
           /\ UNCHANGED <<latest, reordered>>
    <3>1. ~reordered
      BY <1>0, <1>5, SlotGiven
    <3>2. QED
      BY <1>0, <1>00, <1>5, <3>1, SlotGiven
  <2>2. \A p \in Registered : p # o /\ index'[p] = index[p] /\ index[p] \in Taken
    BY <1>0, <1>00, <2>1 DEF Owned, TypeOK
  <2>3. index'[o] = i
    BY <1>0, <2>1 DEF TypeOK
  <2>4. \A p, q \in Registered' : index'[p] = index'[q] => p = q
    BY <1>0, <1>00, <2>1, <2>2, <2>3 DEF Owned
  <2>5. Taken' = {index'[p] : p \in Registered' \ Leaving'}
    BY <1>0, <1>00, <2>1, <2>2, <2>3 DEF Owned
  <2>6. \A p \in Observers :
           observer'[p] = "loop" =>
              /\ observer[p] = "loop" /\ index'[p] = index[p]
              /\ entry_array'[index[p]] = entry_array[index[p]]
    <3>1. SUFFICES ASSUME NEW p \in Observers, observer'[p] = "loop"
                   PROVE  /\ observer[p] = "loop" /\ index'[p] = index[p]
                          /\ entry_array'[index[p]] = entry_array[index[p]]
      OBVIOUS
    <3>2. p # o /\ observer[p] = "loop"
      BY <1>0, <2>1, <3>1 DEF TypeOK
    <3>3. index'[p] = index[p] /\ index[p] \in Slots /\ index[p] # i
      BY <1>0, <2>1, <2>2, <3>2
    <3>4. QED
      BY <1>0, <2>1, <3>2, <3>3 DEF TypeOK
  <2>7. QED
    BY <1>0, <1>00, <2>1, <2>4, <2>5, <2>6 DEF Owned
<1>6. ASSUME NEW o \in Observers, CleanUpRefused(o)
      PROVE  Owned'
  <2>1. /\ UNCHANGED <<entry_array, index, latest, reordered>>
        /\ \A p \in Observers : observer'[p] = "loop" => observer[p] = "loop"
    BY <1>0, <1>6 DEF CleanUpRefused, Goes, history, TypeOK
  <2>2. QED
    BY <1>0, <1>1, <1>6, <2>1, WritesMoveNothing
<1>7. ASSUME NEW o \in Observers, CleanUp(o) \/ AddEntry(o)
      PROVE  Owned'
  <2>1. PICK entry \in [tv : 0..MaxTime, from : {o, Nobody}] :
           /\ Writes(o, entry)
           /\ entry \in [tv : 0..MaxTime, from : Observers \cup {Nobody}]
    BY <1>7, Written
  <2>2. /\ latest' = [latest EXCEPT ![o] = entry.tv] /\ UNCHANGED <<index, reordered>>
    BY <2>1 DEF Writes
  <2>3. Registered' = Registered /\ Leaving' = Leaving /\ Taken' = Taken
    BY <1>0, <1>7, WritesMoveNothing
  <2>4. index[o] \in Slots /\ o \in Registered
    <3>1. index[o] # -1 /\ observer[o] \in {"clean", "loop"}
      BY <1>0, <1>7 DEF CleanUp, AddEntry, Goes, Indexed
    <3>2. QED
      BY <1>0, <3>1 DEF TypeOK, Registered, Registering
  <2>5. \A p \in Observers : observer'[p] = "loop" => p = o \/ observer[p] = "loop"
    <3>1. UNCHANGED observer \/ observer' = [observer EXCEPT ![o] = "loop"]
      BY <1>7 DEF CleanUp, AddEntry, Goes
    <3>2. QED
      BY <1>0, <3>1 DEF TypeOK
  <2>6. ASSUME NEW p \in Observers, observer'[p] = "loop"
        PROVE  /\ entry_array'[index[p]].tv = latest'[p]
               /\ entry_array'[index[p]].from \in {p, Nobody}
    <3>1. CASE p = o
      BY <1>0, <2>1, <2>2, <2>4, <3>1, WritesSlot DEF TypeOK
    <3>2. CASE p # o
      <4>1. observer[p] = "loop" /\ p \in Registered
        BY <1>0, <2>5, <2>6, <3>2
      <4>2. index[p] \in Slots /\ index[p] # index[o]
        BY <1>0, <1>00, <2>2, <2>4, <3>2, <4>1 DEF Owned, TypeOK, Indexed
      <4>3. entry_array'[index[p]] = entry_array[index[p]] /\ latest'[p] = latest[p]
        BY <1>0, <2>1, <2>2, <3>2, <4>2, WritesSlot DEF TypeOK
      <4>4. QED
        BY <1>0, <1>00, <2>2, <4>1, <4>3 DEF Owned
    <3>3. QED
      BY <3>1, <3>2
  <2>7. QED
    BY <1>0, <1>00, <2>2, <2>3, <2>6 DEF Owned
<1>8. ASSUME NEW o \in Observers, Untake(o)
      PROVE  Owned'
  <2>1. /\ UNCHANGED <<index, latest, reordered>> /\ index[o] \in Slots
        /\ Registered' = Registered /\ o \in Registered \ Leaving
        /\ Leaving' = Leaving \cup {o}
        /\ Taken' = Taken \ {index[o]}
        /\ entry_array' = [entry_array EXCEPT ![index[o]].is_taken = FALSE]
        /\ \A p \in Observers : observer'[p] = "loop" => observer[p] = "loop"
    BY <1>0, <1>8, LeavingMoves DEF Untake, Goes, TypeOK
  <2>2. Taken' = {index'[p] : p \in Registered' \ Leaving'}
    BY <1>0, <1>00, <2>1 DEF Owned
  <2>3. \A i \in Slots : /\ entry_array'[i].tv = entry_array[i].tv
                         /\ entry_array'[i].from = entry_array[i].from
    BY <1>0, <2>1 DEF TypeOK
  <2>4. \A p \in Observers : observer[p] = "loop" => index[p] \in Slots
    BY <1>0 DEF Indexed, TypeOK
  <2>5. QED
    BY <1>0, <1>00, <2>1, <2>2, <2>3, <2>4 DEF Owned
<1>9. ASSUME NEW o \in Observers, LeavesOn(o)
      PROVE  Owned'
  <2>1. /\ UNCHANGED <<entry_array, index, latest, reordered>>
        /\ \A p \in Observers : observer'[p] = "loop" => observer[p] = "loop"
    BY <1>0, <1>9 DEF LeavesOn, TestLast, TestLastIf, Shrink, LoadCount, Goes, history, TypeOK
  <2>2. QED
    BY <1>0, <1>1, <1>9, <2>1, LeavingMoves
<1>10. ASSUME NEW o \in Observers, StoreCount(o)
       PROVE  Owned'
  <2>1. /\ UNCHANGED <<entry_array, reordered>>
        /\ Registered' = Registered \ {o} /\ Leaving' = Leaving \ {o} /\ o \in Leaving
        /\ observer'[o] = "absent"
        /\ \A p \in Observers \ {o} :
              index'[p] = index[p] /\ observer'[p] = observer[p] /\ latest'[p] = latest[p]
    BY <1>0, <1>10, LeavingMoves DEF StoreCount, Goes, TypeOK
  <2>2. Taken' = Taken /\ Registered' \ Leaving' = Registered \ Leaving
    BY <2>1 DEF Taken
  <2>3. Taken' = {index'[p] : p \in Registered' \ Leaving'}
    BY <1>0, <1>00, <2>1, <2>2 DEF Owned
  <2>4. QED
    BY <1>0, <1>00, <2>1, <2>2, <2>3 DEF Owned
<1>11. ASSUME NEW o \in Observers, Seeks(o)
       PROVE  Owned'
  <2>1. /\ Registering = {o} /\ Registered' = Registered /\ Leaving' = Leaving
        /\ Taken' = Taken
    BY <1>0, <1>11, RegistrationCounts
  <2>2. /\ UNCHANGED <<entry_array, latest, reordered>>
        /\ \A p \in Observers \ {o} : index'[p] = index[p]
        /\ \A p \in Observers : observer'[p] = "loop" =>
              p # o /\ observer[p] = "loop"
    BY <1>0, <1>11 DEF Seeks, PassSlot, FindSlot, FindSlotIf, Grow, ShrinkBack,
       ShrinkBackTo, Goes, history, TypeOK
  <2>3. \A p \in Registered : index'[p] = index[p]
    BY <1>0, <2>1, <2>2 DEF Registered
  <2>4. /\ \A p, q \in Registered' : index'[p] = index'[q] => p = q
        /\ Taken' = {index'[p] : p \in Registered' \ Leaving'}
    BY <1>0, <1>00, <2>1, <2>2, <2>3 DEF Owned
  <2>5. QED
    BY <1>0, <1>00, <2>2, <2>4 DEF Owned
<1>12. QED
  BY <1>2, <1>3, <1>4, <1>5, <1>6, <1>7, <1>8, <1>9, <1>10, <1>11
     DEF Next, Seeks, Takes, LeavesOn

(* The array has a slot too many only while an observer is being refused.  *)
SizeTyped ==
    /\ entry_array_size \in 0..CLIENT_MAX + 1
    /\ entry_array_size > CLIENT_MAX => \E o \in Observers : observer[o] = "grown"

(* It keeps it so.                                                         *)
LEMMA NextKeepsSize == Known /\ [Next]_vars /\ calm' => SizeTyped'
<1> SUFFICES ASSUME Known, [Next]_vars, calm' PROVE SizeTyped'
  OBVIOUS
<1>0. /\ TypeOK /\ calm /\ Indexed /\ Apart /\ Flags /\ Scanned /\ Taken \subseteq Used
      /\ CLIENT_MAX \in Nat /\ CLIENT_MAX + 1 \in Nat
      /\ entry_array_size \in Nat /\ entry_array_size <= CLIENT_MAX + 1
  BY ClientMaxPositive DEF Known, Flags, TypeOK
<1>1. ASSUME UNCHANGED entry_array_size,
             \A p \in Observers : observer[p] = "grown" => observer'[p] = "grown"
      PROVE  SizeTyped'
  BY <1>0, <1>1 DEF SizeTyped, TypeOK
<1>2. ASSUME entry_array_size' \in 0..CLIENT_MAX PROVE SizeTyped'
  BY <1>0, <1>2 DEF SizeTyped
<1>3. ASSUME UNCHANGED entry_array_size, entry_array_size <= CLIENT_MAX
      PROVE  SizeTyped'
  BY <1>0, <1>2, <1>3
<1>4. CASE UNCHANGED vars \/ BeginSort \/ EndSort \/ Reopen
  BY <1>1, <1>4 DEF vars, BeginSort, EndSort, Reopen
<1>5. ASSUME NEW o \in Observers, PassSlot(o) \/ FindSlot(o) \/ Grow(o)
      PROVE  SizeTyped'
  <2>1. observer[o] = "scan" /\ Registering = {o}
    BY <1>0, <1>5, RegistrationCounts DEF PassSlot, FindSlot, FindSlotIf, Grow, Goes, Seeks
  <2>2. entry_array_size <= CLIENT_MAX
    BY <1>0, <2>1 DEF TypeOK, Registering
  <2>3. CASE Grow(o)
    <3>1. entry_array_size' = entry_array_size + 1 /\ observer'[o] = "grown"
      BY <1>0, <2>3 DEF Grow, Goes, TypeOK
    <3>2. QED
      BY <1>0, <2>2, <3>1 DEF SizeTyped
  <2>4. CASE PassSlot(o) \/ FindSlot(o)
    BY <1>3, <2>2, <2>4 DEF PassSlot, FindSlot, FindSlotIf
  <2>5. QED
    BY <1>5, <2>3, <2>4
<1>6. ASSUME NEW o \in Observers, ShrinkBack(o)
      PROVE  SizeTyped'
  <2>1. entry_array_size' = entry_array_size - 1 /\ entry_array_size > CLIENT_MAX
    BY <1>0, <1>6 DEF ShrinkBack, ShrinkBackTo, Fits
  <2>2. QED
    BY <1>0, <1>2, <2>1
<1>7. ASSUME NEW o \in Observers, TakeSlot(o) \/ Refuse(o)
      PROVE  SizeTyped'
  <2>1. /\ UNCHANGED entry_array_size
        /\ observer[o] \in {"take", "refused"} /\ observer' = [observer EXCEPT ![o] = "clean"]
    BY <1>7 DEF TakeSlot, Refuse, Registers, Goes
  <2>2. QED
    BY <1>0, <1>1, <2>1 DEF TypeOK
<1>8. ASSUME NEW o \in Observers, NewSlot(o)
      PROVE  SizeTyped'
  BY <1>3, <1>8 DEF NewSlot, Registers, Fits
<1>9. ASSUME NEW o \in Observers,
             \/ BeginRegister(o) \/ CleanUp(o) \/ CleanUpRefused(o) \/ AddEntry(o)
             \/ Untake(o) \/ TestLast(o) \/ LoadCount(o) \/ StoreCount(o)
      PROVE  SizeTyped'
  <2>1. /\ UNCHANGED entry_array_size
        /\ \/ UNCHANGED observer
           \/ \E to : observer[o] # "grown" /\ observer' = [observer EXCEPT ![o] = to]
    BY <1>9 DEF BeginRegister, CleanUp, CleanUpRefused, AddEntry, Writes, Untake, TestLast,
       TestLastIf, LoadCount, StoreCount, Goes
  <2>2. QED
    BY <1>0, <1>1, <2>1 DEF TypeOK
<1>10. ASSUME NEW o \in Observers, Shrink(o)
       PROVE  SizeTyped'
  <2>1. /\ entry_array_size' = entry_array_size - 1 /\ o \in Leaving
        /\ observer[o] = "shrink" /\ index[o] \in Slots
    BY <1>0, <1>10, LeavingMoves DEF LeavesOn, Shrink, Goes
  <2>2. index[o] + 1 = entry_array_size
    BY <1>0, <2>1 DEF Flags
  <2>3. entry_array_size' \in 0..CLIENT_MAX
    BY <1>0, <2>1, <2>2 DEF Slots
  <2>4. QED
    BY <1>2, <2>3
<1>11. QED
  BY <1>4, <1>5, <1>6, <1>7, <1>8, <1>9, <1>10 DEF Next

(* While behaviours are calm, counts and indices have their types.         *)
CountsTyped ==
    /\ nmemb \in 0..CLIENT_MAX
    /\ at \in 0..CLIENT_MAX
    /\ observer_count \in Nat
    /\ loaded \in [Observers -> Nat]
    /\ index \in [Observers -> Slots \cup {-1}]

(* They keep them.                                                         *)
LEMMA NextKeepsCounts == Known /\ [Next]_vars /\ calm' => CountsTyped'
<1> SUFFICES ASSUME Known, [Next]_vars, calm' PROVE CountsTyped'
  OBVIOUS
<1>0. /\ TypeOK /\ calm /\ Indexed /\ Apart /\ Counting /\ Flags /\ Scanned
      /\ Taken \subseteq Used /\ CountsTyped
      /\ CLIENT_MAX \in Nat /\ entry_array_size \in Nat /\ 0 \in 0..CLIENT_MAX
      /\ Slots' = Slots
  BY ClientMaxPositive DEF Known, Flags, TypeOK, CountsTyped, Slots
<1>1. CASE UNCHANGED <<nmemb, at, observer_count, loaded, index>>
  BY <1>0, <1>1 DEF CountsTyped
<1>2. CASE BeginSort
  <2>1. entry_array_size <= CLIENT_MAX
    BY <1>2 DEF BeginSort
  <2>2. QED
    BY <1>0, <1>2, <2>1 DEF BeginSort, CountsTyped
<1>3. CASE EndSort
  BY <1>0, <1>3 DEF EndSort, CountsTyped
<1>4. ASSUME NEW o \in Observers, BeginRegister(o)
      PROVE  CountsTyped'
  BY <1>0, <1>4 DEF BeginRegister, CountsTyped
<1>5. ASSUME NEW o \in Observers, PassSlot(o) \/ FindSlot(o)
      PROVE  CountsTyped'
  <2>1. observer[o] = "scan" /\ Registering = {o} /\ at < entry_array_size
    BY <1>0, <1>5, RegistrationCounts DEF PassSlot, FindSlot, FindSlotIf, Goes, Seeks
  <2>2. entry_array_size <= CLIENT_MAX
    BY <1>0, <2>1 DEF TypeOK, Registering
  <2>3. at \in Slots /\ at + 1 \in 0..CLIENT_MAX
    BY <1>0, <2>1, <2>2 DEF CountsTyped, Slots
  <2>4. QED
    BY <1>0, <1>5, <2>3 DEF PassSlot, FindSlot, FindSlotIf, CountsTyped
<1>6. ASSUME NEW o \in Observers, Grow(o) \/ ShrinkBack(o)
      PROVE  CountsTyped'
  BY <1>0, <1>6 DEF Grow, ShrinkBack, ShrinkBackTo, CountsTyped
<1>7. ASSUME NEW o \in Observers, Takes(o)
      PROVE  CountsTyped'
  <2>1. PICK i \in Slots : /\ index' = [index EXCEPT ![o] = i]
                          /\ UNCHANGED <<nmemb, at, observer_count, loaded>>
    BY <1>0, <1>7, SlotGiven
  <2>2. QED
    BY <1>0, <2>1 DEF CountsTyped
<1>8. ASSUME NEW o \in Observers, Refuse(o)
      PROVE  CountsTyped'
  <2>1. /\ observer_count' = observer_count - 1 /\ UNCHANGED <<nmemb, at, loaded, index>>
        /\ o \in Counted
    BY <1>0, <1>8, RegistrationCounts DEF Refuse, Registers
  <2>2. Cardinality(Counted) >= 1
    BY <2>1, SetsFinite, FS_EmptySet
  <2>3. Cardinality(Counted) <= observer_count
    BY <1>0 DEF Counting
  <2>4. observer_count' \in Nat
    BY <1>0, <2>1, <2>2, <2>3, SetsFinite DEF CountsTyped
  <2>5. QED
    BY <1>0, <2>1, <2>4 DEF CountsTyped
<1>9. ASSUME NEW o \in Observers, LoadCount(o)
      PROVE  CountsTyped'
  BY <1>0, <1>9 DEF LoadCount, CountsTyped
<1>10. ASSUME NEW o \in Observers, StoreCount(o)
       PROVE  CountsTyped'
  <2>1. /\ observer_count' = loaded[o] - 1
        /\ o \in Counted /\ observer[o] = "store"
    BY <1>0, <1>10, LeavingMoves DEF StoreCount, Goes
  <2>2. Cardinality(Counted) >= 1
    BY <2>1, SetsFinite, FS_EmptySet
  <2>3. Cardinality(Counted) <= loaded[o] /\ loaded[o] \in Nat
    BY <1>0, <2>1 DEF Counting, CountsTyped
  <2>4. observer_count' \in Nat
    BY <2>1, <2>2, <2>3, SetsFinite
  <2>5. QED
    BY <1>0, <1>10, <2>4 DEF StoreCount, CountsTyped
<1>11. ASSUME \/ UNCHANGED vars \/ Reopen
              \/ \E o \in Observers : \/ CleanUp(o) \/ CleanUpRefused(o) \/ AddEntry(o)
                                     \/ Untake(o) \/ TestLast(o) \/ Shrink(o)
       PROVE  UNCHANGED <<nmemb, at, observer_count, loaded, index>>
  BY <1>11 DEF vars, Reopen, CleanUp, CleanUpRefused, AddEntry, Writes, Untake,
     TestLast, TestLastIf, Shrink
<1>12. QED
  BY <1>1, <1>2, <1>3, <1>4, <1>5, <1>6, <1>7, <1>8, <1>9, <1>10, <1>11 DEF Next, Takes

(* At the start no one is there.                                           *)
LEMMA InitArray == Init => ArrayInv
<1> SUFFICES ASSUME Init PROVE ArrayInv
  OBVIOUS
<1>1. TypeOK
  <2>1. /\ CLIENT_MAX \in Nat /\ MaxTime \in Nat /\ 0 \in 0..CLIENT_MAX /\ 0 \in 0..MaxTime
        /\ 0 \in 0..CLIENT_MAX + 1 /\ ~(0 > CLIENT_MAX)
    BY ClientMaxPositive, MaxTimePositive
  <2>2. Blank \in [is_taken : BOOLEAN, tv : 0..MaxTime, from : Observers \cup {Nobody}]
    BY <2>1 DEF Blank
  <2>3. QED
    BY <2>1, <2>2 DEF Init, TypeOK
<1>2. /\ Registered = {} /\ Leaving = {} /\ Counted = {} /\ Taken = {}
      /\ Registering = {} /\ AtStake = 0
  BY DEF Init, Registered, Leaving, Counted, Registering, Taken, Blank, AtStake
<1>3. Cardinality({}) = 0
  BY FS_EmptySet
<1>4. Indexed /\ Apart /\ Counting /\ Scanned
  BY <1>2, <1>3 DEF Init, Indexed, Apart, Counting, AtMostOneLeaves, Scanned
<1>5. Flags
  <2>1. Registered \ Leaving = {}
    BY <1>2
  <2>2. QED
    BY <1>2, <1>3, <2>1 DEF Init, Flags, AtMostOneLeaves
<1>6. Owned
  BY <1>2 DEF Init, Owned
<1>7. QED
  BY <1>1, <1>4, <1>5, <1>6 DEF ArrayInv

(* Every step keeps the whole of it.                                       *)
LEMMA NextKeepsArray == ArrayInv /\ [Next]_vars => ArrayInv'
<1> SUFFICES ASSUME ArrayInv, [Next]_vars PROVE ArrayInv'
  OBVIOUS
<1>1. calm' => Known
  BY CalmBefore DEF ArrayInv, Known
<1>2. calm' => Indexed' /\ Apart' /\ Counting' /\ Flags' /\ Scanned' /\ Owned'
  BY <1>1, NextKeepsIndexed, NextKeepsApart, NextKeepsCounting, NextKeepsFlags,
     NextKeepsScanned, NextKeepsOwned
<1>3. TypeOK'
  <2>1. SlotsTyped' /\ PlacesTyped'
    BY NextKeepsSlots, NextKeepsPlaces DEF ArrayInv
  <2>2. calm' => SizeTyped' /\ CountsTyped'
    BY <1>1, NextKeepsSize, NextKeepsCounts
  <2>3. QED
    BY <2>1, <2>2 DEF TypeOK, SlotsTyped, PlacesTyped, SizeTyped, CountsTyped
<1>4. QED
  BY <1>2, <1>3 DEF ArrayInv

(* The flags, the indices and the counts keep in step while behaviours are *)
(* calm.                                                                   *)
THEOREM ArrayInductive == Spec => []ArrayInv
BY InitArray, NextKeepsArray, PTL DEF Spec

(* Every variable has its type.                                            *)
THEOREM ArrayTyped == Spec => []TypeOK
<1>1. ArrayInv => TypeOK
  BY DEF ArrayInv
<1>2. QED
  BY <1>1, ArrayInductive, PTL

---------------------------------------------------------------------------
(* What is promised of the array                                           *)

(* With nobody coming or going, an exact count is beyond the end of the    *)
(* array by no more than the flags lost, and if none is it reaches the end *)
(* only if every slot has its flag.                                        *)
LEMMA CountStaysBelow ==
    ASSUME Known, ~overlapped, Leaving \cup Registering = {}
    PROVE  /\ observer_count <= entry_array_size + crossings
           /\ crossings = 0 /\ Shown = Used => Logged = Shown
<1>1. /\ entry_array_size \in Nat /\ entry_array_size <= CLIENT_MAX
      /\ CLIENT_MAX \in Nat /\ observer_count \in Nat /\ crossings \in Nat
  <2>1. \A o \in Observers : observer[o] # "grown"
    BY DEF Registering
  <2>2. QED
    BY <2>1, ClientMaxPositive DEF Known, TypeOK
<1>2. observer_count = Cardinality(Registered \ Leaving) /\ AtStake = 0
  <2>1. Counted = Registered \ Leaving
    BY DEF Counted
  <2>2. QED
    BY <2>1 DEF Known, Counting, Apart, AtStake
<1>3. observer_count <= Cardinality(Taken) + crossings
  BY <1>1, <1>2 DEF Known, Flags
<1>4. Taken \subseteq Used /\ Taken \subseteq Slots
  BY DEF Known, Flags, Taken
<1>5. IsFiniteSet(Used) /\ Cardinality(Used) = entry_array_size
  <2>1. 0 \in Int /\ entry_array_size - 1 \in Int
    BY <1>1
  <2>2. /\ IsFiniteSet(0..entry_array_size - 1)
        /\ Cardinality(0..entry_array_size - 1) =
              IF 0 > entry_array_size - 1 THEN 0 ELSE (entry_array_size - 1) - 0 + 1
    BY <2>1, FS_Interval
  <2>3. QED
    BY <1>1, <2>2 DEF Used
<1>6. /\ Cardinality(Taken) <= entry_array_size
      /\ Cardinality(Taken) = entry_array_size => Taken = Used
  BY <1>4, <1>5, FS_Subset
<1>7. observer_count <= entry_array_size + crossings
  BY <1>1, <1>3, <1>6, SetsFinite
<1>8. ASSUME crossings = 0, Shown = Used PROVE Logged = Shown
  <2>1. observer_count = entry_array_size
    <3>1. CASE observer_count < entry_array_size
      <4>1. observer_count \in Used /\ observer_count \notin Shown
        BY <1>1, <3>1 DEF Used, Shown
      <4>2. QED
        BY <1>8, <4>1
    <3>2. QED
      BY <1>1, <1>7, <1>8, <3>1
  <2>2. Taken = Used
    BY <1>1, <1>3, <1>6, <1>8, <2>1, SetsFinite
  <2>3. QED
    BY <1>4, <1>8, <2>2 DEF Logged, Taken
<1>9. QED
  BY <1>7, <1>8

(* The slots are accounted for, and observer_count is never too low.       *)
THEOREM Accounted == Spec => []SlotsAccounted
<1>1. ArrayInv => SlotsAccounted
  <2> SUFFICES ASSUME ArrayInv, calm
               PROVE  /\ Cardinality(Counted) <= observer_count
                      /\ ~overlapped => observer_count = Cardinality(Counted)
                      /\ ~overlapped /\ Leaving \cup Registering = {}
                            => /\ observer_count <= entry_array_size + crossings
                               /\ crossings = 0 /\ Shown = Used => Logged = Shown
                      /\ Cardinality(Registered \ Leaving) <= Cardinality(Taken) + crossings
                      /\ Leaving = {} => Taken \subseteq Used
    BY DEF SlotsAccounted
  <2>1. Known
    BY DEF ArrayInv, Known
  <2>2. /\ Cardinality(Counted) <= observer_count
        /\ ~overlapped => observer_count = Cardinality(Counted)
    BY <2>1 DEF Known, Counting
  <2>3. Taken \subseteq Used
    BY <2>1 DEF Known, Flags
  <2>4. Cardinality(Registered \ Leaving) <= Cardinality(Taken) + crossings
    <3>1. /\ Cardinality(Registered \ Leaving) + AtStake <= Cardinality(Taken) + crossings
          /\ crossings \in Nat /\ AtStake \in 0..1
      BY <2>1 DEF Known, Flags, TypeOK, AtStake
    <3>2. QED
      BY <3>1, SetsFinite
  <2>5. QED
    BY <2>1, <2>2, <2>3, <2>4, CountStaysBelow
<1>2. QED
  BY <1>1, ArrayInductive, PTL

(* Until a sort first moves a slot, an observer's slot is its own.         *)
THEOREM SlotIsOwn == Spec => []OwnSlotUntilReordered
<1>1. ArrayInv => OwnSlotUntilReordered
  <2> SUFFICES ASSUME ArrayInv, calm, ~reordered, NEW o \in Registered \ Leaving
               PROVE  /\ \A p \in Registered \ Leaving : index[p] = index[o] => p = o
                      /\ observer[o] = "loop" =>
                            /\ entry_array[index[o]].tv = latest[o]
                            /\ entry_array[index[o]].from \in {o, Nobody}
                            /\ index[o] \in Logged
    BY DEF OwnSlotUntilReordered
  <2>1. Owned /\ Taken \subseteq Used /\ o \in Observers
    BY DEF ArrayInv, Flags, Registered
  <2>2. \A p \in Registered \ Leaving : index[p] = index[o] => p = o
    BY <2>1 DEF Owned
  <2>3. index[o] \in Taken
    BY <2>1 DEF Owned
  <2>4. index[o] \in Logged
    BY <2>1, <2>3 DEF Taken, Logged
  <2>5. QED
    BY <2>1, <2>2, <2>4 DEF Owned
<1>2. QED
  BY <1>1, ArrayInductive, PTL

(* Where an observer is refused, every slot has its flag unless a sort     *)
(* crossed its registration, and until a sort first moves a slot every     *)
(* flag has an observer.                                                   *)
LEMMA RefusedFull ==
    ASSUME Known, ~crossed, NEW o \in Observers, Refuse(o)
    PROVE  /\ Taken = Slots
           /\ ~reordered => Cardinality(Registered) = CLIENT_MAX
<1>1. observer[o] = "refused" /\ o \in Registering
  BY DEF Refuse, Registers, Goes, Registering
<1>2. Leaving = {}
  BY <1>1 DEF Known, Apart
<1>3. Taken = Slots
  BY <1>1 DEF Known, Scanned
<1>4. ASSUME ~reordered PROVE Cardinality(Registered) = CLIENT_MAX
  <2> DEFINE slot == [p \in Registered |-> index[p]]
  <2>1. /\ Slots = {index[p] : p \in Registered}
        /\ \A p, q \in Registered : index[p] = index[q] => p = q
    BY <1>2, <1>3, <1>4 DEF Known, Owned
  <2>2. slot \in Bijection(Registered, Slots)
    BY <2>1 DEF Bijection, Injection, Surjection, IsInjective
  <2>3. ExistsBijection(Registered, Slots)
    BY <2>2 DEF ExistsBijection
  <2>4. QED
    BY <2>3, SetsFinite, FS_Bijection
<1>5. QED
  BY <1>3, <1>4

(* No other step ends a refused registration.                              *)
LEMMA OnlyRefused ==
    ASSUME Known, [Next]_vars, NEW o \in Observers,
           observer[o] = "refused", observer'[o] = "clean"
    PROVE  Refuse(o)
<1>0. TypeOK /\ calm
  BY DEF Known
<1>1. ASSUME NEW p \in Observers, NEW from \in {"absent", "scan", "take", "grown", "clean",
                                    "loop", "test", "shrink", "uncount", "store"},
             NEW to, Goes(p, from, to)
      PROVE  FALSE
  BY <1>0, <1>1 DEF Goes, TypeOK
<1>2. ASSUME UNCHANGED observer
      PROVE  FALSE
  BY <1>2
<1>3. ASSUME NEW p \in Observers, Refuse(p)
      PROVE  p = o
  BY <1>0, <1>3 DEF Refuse, Registers, Goes, TypeOK
<1>4. ASSUME NEW p \in Observers, BeginRegister(p) \/ Seeks(p) \/ Takes(p)
      PROVE  FALSE
  <2>1. \/ UNCHANGED observer
        \/ \E from \in {"absent", "scan", "take", "grown"},
              to \in {"scan", "take", "grown", "refused", "clean"} : Goes(p, from, to)
    BY <1>4 DEF BeginRegister, Seeks, PassSlot, FindSlot, FindSlotIf, Grow, ShrinkBack,
       ShrinkBackTo, Takes, TakeSlot, NewSlot, Registers
  <2>2. QED
    BY <1>1, <1>2, <2>1
<1>5. ASSUME NEW p \in Observers,
             \/ CleanUp(p) \/ CleanUpRefused(p) \/ AddEntry(p)
             \/ Untake(p) \/ LeavesOn(p) \/ StoreCount(p)
      PROVE  FALSE
  <2>1. \/ UNCHANGED observer
        \/ \E from \in {"clean", "loop", "test", "shrink", "uncount", "store"},
              to \in {"loop", "absent", "test", "shrink", "uncount", "store"} : Goes(p, from, to)
    BY <1>5 DEF CleanUp, CleanUpRefused, AddEntry, Untake, LeavesOn, TestLast, TestLastIf,
       Shrink, LoadCount, StoreCount
  <2>2. QED
    BY <1>1, <1>2, <2>1
<1>6. CASE BeginSort \/ EndSort \/ Reopen \/ UNCHANGED vars
  BY <1>2, <1>6 DEF BeginSort, EndSort, Reopen, vars
<1>7. QED
  BY <1>3, <1>4, <1>5, <1>6 DEF Next, Seeks, Takes, LeavesOn

(* An observer whose registration no sort crosses is refused only if every *)
(* slot is taken.                                                          *)
THEOREM RefusedWhenFull == Spec => RefusedOnlyWhenFull
<1>1. ArrayInv /\ [Next]_vars =>
        [\A o \in Observers :
            observer[o] = "refused" /\ observer'[o] = "clean" /\ calm /\ ~crossed
              => /\ Taken = Slots
                 /\ ~reordered => Cardinality(Registered) = CLIENT_MAX]_vars
  <2> SUFFICES ASSUME ArrayInv, [Next]_vars, calm, ~crossed, NEW o \in Observers,
                      observer[o] = "refused", observer'[o] = "clean"
               PROVE  /\ Taken = Slots
                      /\ ~reordered => Cardinality(Registered) = CLIENT_MAX
    OBVIOUS
  <2>1. Known
    BY DEF ArrayInv, Known
  <2>2. QED
    BY <2>1, OnlyRefused, RefusedFull
<1>2. QED
  BY <1>1, ArrayInductive, PTL DEF Spec, RefusedOnlyWhenFull
==========================================================================
