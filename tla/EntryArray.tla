--------------------------- MODULE EntryArray ---------------------------
(***************************************************************************)
(* The entry array of the notapp server (server_data.c): the slots that    *)
(* observer threads take and give back, the entries they write there, and  *)
(* the sort that moves whole slots.  The phases are those TrafficEnforcer  *)
(* enforces when nothing disturbs it: entries are added in DONE, sorted    *)
(* in SORTING.  (They are sent in UserSession.)  Registration is in no     *)
(* phase: its mutex is not the sorter's, and it may cross a sort anywhere. *)
(***************************************************************************)
EXTENDS Integers, FiniteSets

CONSTANTS
    Observers,      \* observer clients, one observer_thread each
    Nobody,         \* the origin of an entry no event was written to
    CLIENT_MAX,     \* slots of entry_array
    MaxTime         \* events are stamped 1..MaxTime, by the clients' clocks

ASSUME ClientMaxPositive == CLIENT_MAX \in Nat \ {0}
ASSUME MaxTimePositive == MaxTime \in Nat \ {0}
ASSUME ObserversFinite == IsFiniteSet(Observers)
ASSUME NobodyElse == Nobody \notin Observers

VARIABLES
    entry_array,        \* per slot: [is_taken, tv, from]; from is the string
    entry_array_size,
    observer_count,
    server_state,
    nmemb,              \* the slots that qsort() is at work on
    observer,           \* where each observer_thread is
    index,              \* its observer_index
    at,                 \* i of register_observer(), of whoever is in it
    loaded,             \* observer_count as -- loaded it
    (* history: read by no guard *)
    latest,             \* tv of the event each observer wrote last, or 0
    overlapped,         \* two unregistrations, which take no lock, have
    calm,               \* none has overlapped a registration, a sort, or
                        \* another one after reordered; and no sort began
                        \* while the array had a slot too many
    crossed,            \* a sort crosses the registration under way
    crossings,          \* the registrations that a sort has crossed
    reordered           \* a sort has moved a slot, or crossed a registration

history == <<latest, overlapped, calm, crossed, crossings, reordered>>
vars == <<entry_array, entry_array_size, observer_count, server_state, nmemb,
          observer, index, at, loaded, history>>

Slots == 0..CLIENT_MAX - 1
Used == 0..entry_array_size - 1
Taken == {i \in Slots : entry_array[i].is_taken}
(* The observer, if any, that is in register_observer().                   *)
Registering ==
    {o \in Observers : observer[o] \in {"scan", "take", "grown", "refused"}}

Registered ==
    {o \in Observers : observer[o] # "absent" /\ index[o] # -1} \ Registering

(* The observers between two statements of unregister_observer().          *)
Leaving == {o \in Observers : observer[o] \in {"test", "shrink", "uncount", "store"}}

(* The observers observer_count stands for.                                *)
Counted == Registered \cup Registering

Blank == [is_taken |-> FALSE, tv |-> 0, from |-> Nobody]

Init ==
    /\ entry_array = [i \in Slots |-> Blank]
    /\ entry_array_size = 0
    /\ observer_count = 0
    /\ server_state = "DONE"
    /\ nmemb = 0
    /\ observer = [o \in Observers |-> "absent"]
    /\ index = [o \in Observers |-> -1]
    /\ at = 0
    /\ loaded = [o \in Observers |-> 0]
    /\ overlapped = FALSE
    /\ latest = [o \in Observers |-> 0]
    /\ calm = TRUE
    /\ crossed = FALSE
    /\ crossings = 0
    /\ reordered = FALSE

---------------------------------------------------------------------------
(* register_observer(), access by access: entry_array_register_mutex keeps *)
(* registrations apart, but neither the sorter nor the readers of the      *)
(* counts from them                                                        *)

Goes(o, from, to) ==
    observer[o] = from /\ observer' = [observer EXCEPT ![o] = to]

(* While qsort() moves whole slots about, a flag that is read in its range *)
(* may be that of any slot there, and one that is set may land in any, or  *)
(* be lost with a copy.                                                    *)
Moving  == IF server_state = "SORTING" THEN (0..nmemb - 1) \cap Slots ELSE {}
Seen(i) == {entry_array[j].is_taken : j \in IF i \in Moving THEN Moving ELSE {i}}

SetTaken(i) ==
    \/ /\ i \in Slots
       /\ \E j \in IF i \in Moving THEN Moving ELSE {i} :
             entry_array' = [entry_array EXCEPT ![j].is_taken = TRUE]
    \/ i \in Moving /\ UNCHANGED entry_array

BeginRegister(o) ==
    /\ Registering = {}
    /\ Goes(o, "absent", "scan")
    /\ observer_count' = observer_count + 1
    /\ at' = 0
    /\ calm' = (calm /\ Leaving = {})
    /\ crossed' = (server_state = "SORTING")
    /\ crossings' = IF crossed' THEN crossings + 1 ELSE crossings
    /\ reordered' = (reordered \/ crossed')
    /\ UNCHANGED <<entry_array, entry_array_size, server_state, nmemb, index, loaded,
                   latest, overlapped>>

(* The loop over i: at a slot that is taken it goes on.                    *)
PassSlot(o) ==
    /\ observer[o] = "scan" /\ at < entry_array_size /\ TRUE \in Seen(at)
    /\ at' = at + 1
    /\ UNCHANGED <<entry_array, entry_array_size, observer_count, server_state, nmemb,
                   observer, index, loaded, history>>

FindSlotIf(o, free) ==
    /\ Goes(o, "scan", "take")
    /\ at < entry_array_size /\ free
    /\ index' = [index EXCEPT ![o] = at]
    /\ at' = 0
    /\ UNCHANGED <<entry_array, entry_array_size, observer_count, server_state, nmemb,
                   loaded, history>>

(* Mutant: the scan does not look at is_taken.                             *)
FindAnySlot(o) == FindSlotIf(o, TRUE)

FindSlot(o) == FindSlotIf(o, FALSE \in Seen(at))

(* The registration is over, and with it what crossed it.                  *)
Registers(o, from) ==
    /\ Goes(o, from, "clean")
    /\ crossed' = FALSE
    /\ UNCHANGED <<entry_array_size, server_state, nmemb, at, loaded, latest, overlapped,
                   calm, crossings, reordered>>

(* The slot may have been moved since its flag was read.                   *)
TakeSlot(o) ==
    /\ Registers(o, "take")
    /\ SetTaken(index[o])
    /\ UNCHANGED <<observer_count, index>>

(* No slot was found: the array grows by one, and only then is compared    *)
(* with CLIENT_MAX.                                                        *)
Grow(o) ==
    /\ Goes(o, "scan", "grown")
    /\ at >= entry_array_size
    /\ entry_array_size' = entry_array_size + 1
    /\ at' = 0
    /\ UNCHANGED <<entry_array, observer_count, server_state, nmemb, index, loaded,
                   history>>

(* Mutant: the comparison is off by one.                                   *)
FitsBelow == entry_array_size < CLIENT_MAX
Fits      == entry_array_size <= CLIENT_MAX

NewSlot(o) ==
    /\ Fits
    /\ Registers(o, "grown")
    /\ index' = [index EXCEPT ![o] = entry_array_size - 1]
    /\ SetTaken(entry_array_size - 1)
    /\ UNCHANGED observer_count

ShrinkBackTo(o, size) ==
    /\ ~Fits
    /\ Goes(o, "grown", "refused")
    /\ entry_array_size' = size
    /\ UNCHANGED <<entry_array, observer_count, server_state, nmemb, index, at, loaded,
                   history>>

(* Mutant: the failure leaves the array a slot too long.                   *)
StaysGrown(o) == ShrinkBackTo(o, entry_array_size)

ShrinkBack(o) == ShrinkBackTo(o, entry_array_size - 1)

(* The observer is not counted, and its index is -1.                       *)
Refuse(o) ==
    /\ Registers(o, "refused")
    /\ observer_count' = observer_count - 1
    /\ UNCHANGED <<entry_array, index>>

---------------------------------------------------------------------------
(* add_entry(), in one step: server_state and writer_count keep others out *)

Writes(o, entry) ==
    /\ server_state = "DONE"
    /\ entry_array' = [entry_array EXCEPT ![index[o]].tv = entry.tv,
                                          ![index[o]].from = entry.from]
    /\ latest' = [latest EXCEPT ![o] = entry.tv]
    /\ UNCHANGED <<entry_array_size, observer_count, server_state, nmemb, index, at,
                   loaded, overlapped, calm, crossed, crossings, reordered>>

(* A new observer blanks the entry of the slot it was given.               *)
CleanUp(o) ==
    /\ index[o] # -1
    /\ Goes(o, "clean", "loop")
    /\ Writes(o, Blank)

(* The thread does not test for -1 before it blanks "its" entry: the write *)
(* falls before the array, outside this model, and the thread ends.        *)
CleanUpRefused(o) ==
    /\ index[o] = -1
    /\ server_state = "DONE"
    /\ Goes(o, "clean", "absent")
    /\ UNCHANGED <<entry_array, entry_array_size, observer_count, server_state, nmemb,
                   index, at, loaded, history>>

AddEntry(o) ==
    /\ observer[o] = "loop"
    /\ \E t \in 1..MaxTime : Writes(o, [tv |-> t, from |-> o])
    /\ UNCHANGED observer

---------------------------------------------------------------------------
(* unregister_observer(), access by access: it takes no mutex              *)

(* The client said DISCONNECTION_OBSERVER or closed; is_taken is cleared.  *)
Untake(o) ==
    /\ Goes(o, "loop", "test")
    /\ entry_array' = [entry_array EXCEPT ![index[o]].is_taken = FALSE]
    /\ overlapped' = (overlapped \/ Leaving # {})
    /\ calm' = (calm /\ (Leaving = {} \/ ~reordered)
                     /\ Registering = {} /\ server_state # "SORTING")
    /\ UNCHANGED <<entry_array_size, observer_count, server_state, nmemb, index, at,
                   loaded, latest, crossed, crossings, reordered>>

TestLastIf(o, last) ==
    /\ Goes(o, "test", IF last THEN "shrink" ELSE "uncount")
    /\ UNCHANGED <<entry_array, entry_array_size, observer_count, server_state, nmemb,
                   index, at, loaded, history>>

(* Mutant: the array shrinks whichever slot is given back.                 *)
TestNothing(o) == TestLastIf(o, TRUE)

TestLast(o) == TestLastIf(o, index[o] + 1 = entry_array_size)

Shrink(o) ==
    /\ Goes(o, "shrink", "uncount")
    /\ entry_array_size' = entry_array_size - 1
    /\ UNCHANGED <<entry_array, observer_count, server_state, nmemb, index, at, loaded,
                   history>>

LoadCount(o) ==
    /\ Goes(o, "uncount", "store")
    /\ loaded' = [loaded EXCEPT ![o] = observer_count]
    /\ UNCHANGED <<entry_array, entry_array_size, observer_count, server_state, nmemb,
                   index, at, history>>

StoreCount(o) ==
    /\ Goes(o, "store", "absent")
    /\ observer_count' = loaded[o] - 1
    /\ loaded' = [loaded EXCEPT ![o] = 0]
    /\ index' = [index EXCEPT ![o] = -1]
    /\ latest' = [latest EXCEPT ![o] = 0]
    /\ UNCHANGED <<entry_array, entry_array_size, server_state, nmemb, at, overlapped,
                   calm, crossed, crossings, reordered>>

---------------------------------------------------------------------------
(* The sorter                                                              *)

Reorderings(S) == {p \in [S -> S] : \A i, j \in S : p[i] = p[j] => i = j}

(* SORTING, once no writer is left, and the call of qsort().  With a slot  *)
(* too many it moves what lies behind the array: there calm ends.          *)
BeginSort ==
    /\ server_state = "DONE" /\ server_state' = "SORTING"
    /\ nmemb' = entry_array_size
    /\ calm' = (calm /\ Leaving = {} /\ entry_array_size <= CLIENT_MAX)
    /\ crossed' = (Registering # {})
    /\ crossings' = IF crossed' /\ ~crossed THEN crossings + 1 ELSE crossings
    /\ reordered' = (reordered \/ crossed')
    /\ UNCHANGED <<entry_array, entry_array_size, observer_count, observer, index, at,
                   loaded, latest, overlapped>>

(* The slots are sorted, latest first, equal times in any order: READING.  *)
EndSort ==
    /\ server_state = "SORTING" /\ server_state' = "READING"
    /\ nmemb' = 0
    /\ \E p \in Reorderings(Moving) :
          /\ entry_array' = [i \in Slots |-> IF i \in Moving THEN entry_array[p[i]]
                                                            ELSE entry_array[i]]
          /\ \A i, j \in Moving : i < j => entry_array'[i].tv >= entry_array'[j].tv
    /\ reordered' = (reordered \/ entry_array' # entry_array)
    /\ UNCHANGED <<entry_array_size, observer_count, observer, index, at, loaded,
                   latest, overlapped, calm, crossed, crossings>>

(* The readers are done: back to DONE.                                     *)
Reopen ==
    /\ server_state = "READING" /\ server_state' = "DONE"
    /\ UNCHANGED <<entry_array, entry_array_size, observer_count, nmemb, observer, index,
                   at, loaded, history>>

(* The rows print_logfile() writes, and the slots send_entries() sends: it *)
(* goes by the count of observers, the log by the flags.  (While the array *)
(* has a slot too many, the log looks behind it, too.)                     *)
Logged == {i \in Used \cap Slots : entry_array[i].is_taken}
Shown  == 0..observer_count - 1

---------------------------------------------------------------------------
Next ==
    \/ \E o \in Observers :
          \/ BeginRegister(o) \/ PassSlot(o) \/ FindSlot(o) \/ TakeSlot(o)
          \/ Grow(o) \/ NewSlot(o) \/ ShrinkBack(o) \/ Refuse(o)
          \/ CleanUp(o) \/ CleanUpRefused(o) \/ AddEntry(o)
          \/ Untake(o) \/ TestLast(o) \/ Shrink(o)
          \/ LoadCount(o) \/ StoreCount(o)
    \/ BeginSort \/ EndSort \/ Reopen

Spec == Init /\ [][Next]_vars

---------------------------------------------------------------------------
(* PROPERTIES *)

(* Every variable has its type: entry_array_size goes past CLIENT_MAX only *)
(* while an observer is being refused.  (Where calm ends, so does this     *)
(* model: it may fall below zero, and the next index with it.)             *)
TypeOK ==
    /\ entry_array \in [Slots -> [is_taken : BOOLEAN, tv : 0..MaxTime,
                                  from : Observers \cup {Nobody}]]
    /\ calm => /\ entry_array_size \in 0..CLIENT_MAX + 1
               /\ entry_array_size > CLIENT_MAX => \E o \in Observers : observer[o] = "grown"
               /\ nmemb \in 0..CLIENT_MAX
               /\ at \in 0..CLIENT_MAX
               /\ observer_count \in Nat
               /\ loaded \in [Observers -> Nat]
               /\ index \in [Observers -> Slots \cup {-1}]
    /\ server_state \in {"DONE", "SORTING", "READING"}
    /\ observer \in [Observers -> {"absent", "scan", "take", "grown", "refused", "clean",
                                "loop", "test", "shrink", "uncount", "store"}]
    /\ latest \in [Observers -> 0..MaxTime]
    /\ overlapped \in BOOLEAN
    /\ calm \in BOOLEAN
    /\ crossed \in BOOLEAN
    /\ crossings \in Nat
    /\ reordered \in BOOLEAN

(* The accounting of slots survives the sort that moves is_taken flags away*)
(* from the observers that hold the indices, and unregistrations that      *)
(* overlap before one has; a registration that a sort crosses costs it at  *)
(* most one flag.  But for those there are at least as many flags as       *)
(* observers, all below entry_array_size.  observer_count is exact until   *)
(* two decrements overlap, and never too low; while it is, send_entries()  *)
(* goes beyond entry_array_size by at most the flags lost, and if none is  *)
(* and no slot is free it sends what the log has (server_data.c:182-203,   *)
(* 284-286, 307-311).                                                      *)
SlotsAccounted ==
    calm => /\ Cardinality(Counted) <= observer_count
            /\ ~overlapped => observer_count = Cardinality(Counted)
            /\ ~overlapped /\ Leaving \cup Registering = {}
                  => /\ observer_count <= entry_array_size + crossings
                     /\ crossings = 0 /\ Shown = Used => Logged = Shown
            /\ Cardinality(Registered \ Leaving) <= Cardinality(Taken) + crossings
            /\ Leaving = {} => Taken \subseteq Used

(* Until a sort first moves a slot or crosses a registration, no two       *)
(* observers share an index and each one's slot holds the last event it    *)
(* wrote, and is in the log, however slots are given back and reused       *)
(* (server.c:62-64).                                                       *)
OwnSlotUntilReordered ==
    calm /\ ~reordered =>
        \A o \in Registered \ Leaving :
            /\ \A p \in Registered \ Leaving : index[p] = index[o] => p = o
            /\ observer[o] = "loop" =>
                  /\ entry_array[index[o]].tv = latest[o]
                  /\ entry_array[index[o]].from \in {o, Nobody}
                  /\ index[o] \in Logged

(* An observer whose registration no sort crosses is refused only if every *)
(* slot is taken, and until a sort moves a slot only if CLIENT_MAX         *)
(* observers are connected (Assignment02/README.md:11).                    *)
RefusedOnlyWhenFull ==
    [][\A o \in Observers :
          observer[o] = "refused" /\ observer'[o] = "clean" /\ calm /\ ~crossed
            => /\ Taken = Slots
               /\ ~reordered => Cardinality(Registered) = CLIENT_MAX]_vars

(* What the comments claim and the code does not keep                      *)

(* The common data structure "stores the most recent event that came from  *)
(* each observer" (server.c:62-63).                                        *)
MostRecentFromEach ==
    \A o \in Observers :
        observer[o] = "loop" /\ latest[o] # 0 =>
            \E i \in Used \cap Slots :
                entry_array[i].from = o /\ entry_array[i].tv = latest[o]
==========================================================================
