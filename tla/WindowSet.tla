---------------------------- MODULE WindowSet ----------------------------
(***************************************************************************)
(* The window set of valws379 (windowset.c) over HashTable and Queue, and  *)
(* main()'s loop over the trace (valws379.c): each memory reference is put *)
(* into the table page by page, and the reference that falls out of the    *)
(* window is deleted from it.                                              *)
(***************************************************************************)
EXTENDS HashTable, Queue, Sequences

CONSTANTS
    Accesses,       \* the references of the trace: <<address, size>>
    page_size, window_size,
    AddressRange,   \* addresses are unsigned and wrap at this value
    skipsize,       \* one more than the argument of -s, 0 without it
    MaxAccesses     \* the length of the trace: bounds the behaviours

ASSUME WindowPositive == window_size \in Nat \ {0}
ASSUME SkipNat == skipsize \in Nat
ASSUME PageSizePositive == page_size \in Nat \ {0}
ASSUME AccessesFit ==
    /\ Accesses \subseteq Nat \X (Nat \ {0}) /\ AddressRange \in Nat
    /\ \A a \in Accesses : a[1] + a[2] <= AddressRange
ASSUME TraceEnds == MaxAccesses \in Nat
ASSUME PagesSuffice ==
    \A a \in Accesses : \A b \in a[1]..a[1] + a[2] - 1 : b \div page_size \in Pages

VARIABLES
    queue,          \* of [address, page_count]
    hashtable,
    mem_ref_count,
    over,           \* the trace has ended
    intact          \* history: no merge has dropped a key yet

vars == <<queue, hashtable, mem_ref_count, over, intact>>

Init ==
    /\ queue = new_queue
    /\ hashtable = EmptyTable
    /\ mem_ref_count = 0
    /\ over = FALSE
    /\ intact = TRUE

---------------------------------------------------------------------------
(* The position of the highest bit that is set; -1, wrapped, for 0.        *)
get_power_of_two(value) ==
    LET exponent[v \in 0..value] == IF v = 0 THEN -1 ELSE exponent[v \div 2] + 1
    IN exponent[value]

page_exponent == get_power_of_two(page_size)

(* Any other page size would be taken for the power of two below it.       *)
ASSUME PageSizePower == page_size = 2^page_exponent

(* Mutant: the position of the reference itself is counted twice.          *)
MemRefTooLong(address, size) ==
    LET lower == address \div 2^page_exponent
        upper == ((address + size) % AddressRange) \div 2^page_exponent
    IN [address |-> lower, page_count |-> upper - lower + 1]

(* The pages of a reference; unsigned arithmetic.                          *)
MemRef(address, size) ==
    LET lower == address \div 2^page_exponent
        upper == ((address + size - 1) % AddressRange) \div 2^page_exponent
    IN [address |-> lower, page_count |-> upper - lower + 1]

PutAll(t, ref) ==
    LET done[i \in 0..ref.page_count] ==
            IF i = 0 THEN t ELSE Put(done[i - 1], ref.address + i - 1)
    IN done[ref.page_count]

(* The table before the first page is deleted, and after each.             *)
Deleting(t, ref) ==
    LET done[i \in 0..ref.page_count] ==
            IF i = 0 THEN t ELSE Delete(done[i - 1], ref.address + i - 1)
    IN done

DeleteAll(t, ref) == Deleting(t, ref)[ref.page_count]

(* The queue holds one reference too many.                                 *)
Overfull(q) == q.size > window_size

get_window_set_size == hashtable.count[Root]

(* One of the deletes drops a key, beyond what it is asked to delete.      *)
Dropped(t, ref) ==
    LET done == Deleting(t, ref)
    IN \E i \in 1..ref.page_count : \E k \in Pages :
          /\ done[i - 1].value[k] > IF k = ref.address + i - 1 THEN 1 ELSE 0
          /\ done[i].value[k] = 0

window_set_insert(address, size) ==
    LET ref == MemRef(address, size)
        longer == enqueue(queue, ref)
        full == PutAll(hashtable, ref)
    IN IF Overfull(longer)
       THEN /\ queue' = dequeued(longer)
            /\ hashtable' = DeleteAll(full, oldest(longer))
            /\ intact' = (intact /\ ~Dropped(full, oldest(longer)))
       ELSE /\ queue' = longer
            /\ hashtable' = full
            /\ UNCHANGED intact

(* The trace has another reference, which -s has main() count only ...     *)
NextReference ==
    /\ ~over /\ UNCHANGED over
    /\ mem_ref_count < MaxAccesses
    /\ mem_ref_count' = mem_ref_count + 1

SkipReference ==
    /\ NextReference
    /\ mem_ref_count' < skipsize
    /\ UNCHANGED <<queue, hashtable, intact>>

(* ... or insert.                                                          *)
InsertReference ==
    /\ NextReference
    /\ mem_ref_count' >= skipsize
    /\ \E a \in Accesses : window_set_insert(a[1], a[2])

(* The trace ends, or has an empty line: destroy_window_set().             *)
EndOfTrace ==
    /\ ~over /\ over' = TRUE
    /\ queue' = destroy_queue(queue)
    /\ hashtable' = EmptyTable
    /\ UNCHANGED <<mem_ref_count, intact>>

Next ==
    \/ SkipReference \/ InsertReference \/ EndOfTrace
    \/ over /\ UNCHANGED vars

Spec == Init /\ [][Next]_vars

---------------------------------------------------------------------------
(* PROPERTIES *)

(* The pages a reference touches, byte by byte.                            *)
TouchedBy(a) == {b \div page_size : b \in a[1]..a[1] + a[2] - 1}

PagesOf(ref) == ref.address..ref.address + ref.page_count - 1

Window == Values(queue)

DistinctPages == UNION {PagesOf(Window[i]) : i \in DOMAIN Window}

(* Every variable has its type, and only the way to an expanded bucket is  *)
(* expanded.                                                               *)
TypeOK ==
    /\ \A n \in DOMAIN queue.nodes :
          queue.nodes[n].value \in [address : Nat, page_count : Nat]
    /\ hashtable.value \in [Pages -> Nat]
    /\ hashtable.expanded \subseteq Buckets
    /\ hashtable.listed \in [Buckets -> 0..CountRange - 1]
    /\ hashtable.count \in [Tables -> Nat]
    /\ \A k \in Pages : \E l \in 0..Levels - 1 :
          /\ At(k, l) \notin hashtable.expanded
          /\ \A m \in 0..Levels - 1 : m < l <=> At(k, m) \in hashtable.expanded
    /\ mem_ref_count \in 0..MaxAccesses
    /\ over \in BOOLEAN
    /\ intact \in BOOLEAN

(* Every count on a key's way counts the keys below it, whatever the lists'*)
(* wrapped counts did to the shape of the table, until a merge drops a key.*)
CountsMatchKeys ==
    intact => \A t \in {Root} \cup hashtable.expanded :
                  hashtable.count[t] = Cardinality({k \in Present(hashtable) : In(t, k)})

(* The table holds each page once per reference of the window to it, until *)
(* a merge drops a key.                                                    *)
ValuesMatchWindow ==
    intact => \A k \in Pages :
        hashtable.value[k] =
            Cardinality({i \in DOMAIN Window : k \in PagesOf(Window[i])})

(* The table agrees with the window in both, through every split, merge    *)
(* and early split (windowset.c:84-90).                                    *)
TableExact == CountsMatchKeys /\ ValuesMatchWindow

(* The queue is linked both ways, holds the window and one reference at    *)
(* most beyond it, and leaks no node, nor keeps a link to a freed one, up  *)
(* to the end of the trace (queue.c:46-113).                               *)
QueueSound == Linked(queue) /\ queue.size <= window_size /\ (over => queue.nodes = << >>)

(* No list holds more than SPLIT_SIZE keys after a reference, although the *)
(* count it is split by runs away from its length.                         *)
ListsShort ==
    \A b \in Buckets :
        Cardinality({k \in Present(hashtable) : Leaf(hashtable, k) = b}) <= SPLIT_SIZE

(* The window set implements the working set: the pages of the last        *)
(* window_size references byte by byte, their number exact while no key    *)
(* was dropped and never too small.                                        *)
Promised ==
    INSTANCE WorkingSet WITH
        PageSets <- {TouchedBy(a) : a \in Accesses},
        window <- [i \in DOMAIN Window |-> PagesOf(Window[i])],
        size <- get_window_set_size

ImplementsWorkingSet == Promised!Spec

(* What the documentation claims and the code does not keep                *)

(* "When getting the size of the windowset, we get the size of the         *)
(* hashtable": it is the number of distinct pages in the window            *)
(* (Assignment03/DESIGN.md, Windowset).                                    *)
SizeIsDistinctPages == get_window_set_size = Cardinality(DistinctPages)
==========================================================================
