---------------------------- MODULE MemLayout ----------------------------
(***************************************************************************)
(* get_mem_layout() of memlayout.c: the scan of the address space that     *)
(* probes every page with a read and a write and lists the regions of      *)
(* pages with the same accessibility.  A probe that is not allowed raises  *)
(* a signal; the handler gives up the signal's disposition and jumps back  *)
(* to the probe that was set up last.                                      *)
(***************************************************************************)
EXTENDS Integers, FiniteSets

CONSTANTS
    PAGE_SIZE,
    PageCount,      \* pages in the address space
    MaxSize         \* the longest list of regions the caller offers

ASSUME PageSizeNumber == PAGE_SIZE \in Nat /\ PAGE_SIZE > 1
ASSUME PageCountNumber == PageCount \in Nat /\ PageCount > 0
ASSUME MaxSizeNumber == MaxSize \in Nat

MEM_RW == 0
MEM_RO == 1
MEM_NO == 2
Modes == {MEM_RW, MEM_RO, MEM_NO}

Signals == {"SIGSEGV", "SIGBUS"}

AddressRange == PageCount * PAGE_SIZE
REGION_END == AddressRange - 1
PageStarts == {p * PAGE_SIZE : p \in 0..PageCount - 1}

(* An entry of the caller's list that the scan has not written.            *)
Untouched == [from |-> 0, to |-> 0, mode |-> MEM_NO]

VARIABLES
    layout,             \* what the process may do with the page at an address
    size, regions,      \* the caller's list
    pc, curr_add, first_loop,
    handled,            \* the signals that handle_signal() is installed for
    env,                \* the probe that siglongjmp() returns to
    check_val,
    curr_index, region_from, curr_region_mode,
    result

vars == <<layout, size, regions, pc, curr_add, first_loop, handled, env,
          check_val, curr_index, region_from, curr_region_mode, result>>

cursor == <<curr_add, curr_index, region_from, curr_region_mode, regions, result>>

(* Nothing is mapped at address 0.                                         *)
Layouts == {l \in [PageStarts -> Modes] : l[0] = MEM_NO}

Init ==
    /\ layout \in Layouts
    /\ size \in 0..MaxSize
    /\ regions = [i \in 0..size - 1 |-> Untouched]
    /\ pc = "page" /\ curr_add = 0 /\ first_loop = TRUE
    /\ handled = {} /\ env = "none"
    /\ check_val = MEM_NO
    /\ curr_index = 0 /\ region_from = 0 /\ curr_region_mode = MEM_NO
    /\ result = 0

---------------------------------------------------------------------------
(* Mutant: the scan only stops at the end of the address space.            *)
ScanOverAtEnd == curr_add >= REGION_END

(* The address is past the end, or has wrapped to the first page.          *)
ScanOver == curr_add >= REGION_END \/ (curr_add < PAGE_SIZE /\ ~first_loop)

(* Mutant: the handlers are installed once, before the first page.         *)
StartPageArmedOnce ==
    /\ pc = "page" /\ ~ScanOver
    /\ first_loop' = FALSE
    /\ handled' = IF first_loop THEN Signals ELSE handled
    /\ env' = "read" /\ check_val' = MEM_NO
    /\ pc' = "read"
    /\ UNCHANGED <<cursor, layout, size>>

(* Both handlers are installed and the read is set up to be jumped back to.*)
StartPage ==
    /\ pc = "page" /\ ~ScanOver
    /\ first_loop' = FALSE
    /\ handled' = Signals
    /\ env' = "read" /\ check_val' = MEM_NO
    /\ pc' = "read"
    /\ UNCHANGED <<cursor, layout, size>>

(* Mutant: the write is not set up to be jumped back to.                   *)
ReadPageOnly ==
    /\ pc = "read" /\ layout[curr_add] # MEM_NO
    /\ check_val' = MEM_RO
    /\ pc' = "write"
    /\ UNCHANGED <<cursor, layout, size, first_loop, handled, env>>

ReadPage ==
    /\ pc = "read" /\ layout[curr_add] # MEM_NO
    /\ env' = "write" /\ check_val' = MEM_RO
    /\ pc' = "write"
    /\ UNCHANGED <<cursor, layout, size, first_loop, handled>>

WritePage ==
    /\ pc = "write" /\ layout[curr_add] = MEM_RW
    /\ check_val' = MEM_RW
    /\ pc' = "compare"
    /\ UNCHANGED <<cursor, layout, size, first_loop, handled, env>>

Forbidden ==
    \/ pc = "read" /\ layout[curr_add] = MEM_NO
    \/ pc = "write" /\ layout[curr_add] # MEM_RW

(* A forbidden probe raises a signal.  In handle_signal() the signal is    *)
(* ignored from now on, and the probe whose environment was saved last     *)
(* returns a second time, with the signal mask it was saved with; a signal *)
(* without the handler ends the process.                                   *)
handle_signal(sig) ==
    /\ Forbidden
    /\ handled' = handled \ {sig}
    /\ IF sig \in handled
       THEN /\ check_val' = IF env = "read" THEN MEM_NO ELSE MEM_RO
            /\ pc' = "compare"
       ELSE pc' = "killed" /\ UNCHANGED check_val
    /\ UNCHANGED <<cursor, layout, size, first_loop, env>>

(* What is known of the current region goes into the list, if it fits.     *)
Listed(to) ==
    IF curr_index < size
    THEN [regions EXCEPT ![curr_index] =
              [from |-> region_from, to |-> to, mode |-> curr_region_mode]]
    ELSE regions

(* Mutant: the regions that do not fit are counted as well.                *)
CountedAlways == curr_index + 1

Counted == IF curr_index < size THEN curr_index + 1 ELSE curr_index

(* Mutant: the new region starts after its first page.                     *)
ComparePageLate ==
    /\ pc = "compare"
    /\ IF check_val # curr_region_mode
       THEN /\ regions' = Listed(curr_add)
            /\ curr_index' = Counted
            /\ region_from' = (curr_add + PAGE_SIZE) % AddressRange
            /\ curr_region_mode' = check_val
       ELSE UNCHANGED <<regions, curr_index, region_from, curr_region_mode>>
    /\ curr_add' = (curr_add + PAGE_SIZE) % AddressRange
    /\ pc' = "page"
    /\ UNCHANGED <<layout, size, first_loop, handled, env, check_val, result>>

(* A page of another mode than the region's closes the region.             *)
ComparePage ==
    /\ pc = "compare"
    /\ IF check_val # curr_region_mode
       THEN /\ regions' = Listed(curr_add)
            /\ curr_index' = Counted
            /\ region_from' = curr_add
            /\ curr_region_mode' = check_val
       ELSE UNCHANGED <<regions, curr_index, region_from, curr_region_mode>>
    /\ curr_add' = (curr_add + PAGE_SIZE) % AddressRange
    /\ pc' = "page"
    /\ UNCHANGED <<layout, size, first_loop, handled, env, check_val, result>>

(* The last region extends to the end of the address space.                *)
Finish ==
    /\ pc = "page" /\ ScanOver
    /\ regions' = Listed(REGION_END)
    /\ result' = curr_index + 1
    /\ pc' = "done"
    /\ UNCHANGED <<layout, size, curr_add, first_loop, handled, env, check_val,
                   curr_index, region_from, curr_region_mode>>

Stopped == pc \in {"done", "killed"} /\ UNCHANGED vars

Scan ==
    \/ StartPage \/ ReadPage \/ WritePage
    \/ \E sig \in Signals : handle_signal(sig)
    \/ ComparePage \/ Finish

Next == Scan \/ Stopped

Spec == Init /\ [][Next]_vars

(* The process keeps running.                                              *)
FairSpec == Spec /\ WF_vars(Scan)

(* The rows that print_mem_layout() prints of the list.                    *)
Printed == {i \in 0..size - 1 : i < result}

---------------------------------------------------------------------------
(* PROPERTIES *)

(* Where a region starts: at the first page and at every page whose mode   *)
(* is not that of the page before it.                                      *)
RegionStarts == {a \in PageStarts : a = 0 \/ layout[a] # layout[a - PAGE_SIZE]}

(* The i-th region of the layout, "to" being the start of the next one, as *)
(* the scan writes it (memlayout.c:113), or the address space's last       *)
(* address.  (memlayout.h:49 calls it the region's last address, which it  *)
(* is of that last region only.)                                           *)
IsRegion(i, r) ==
    /\ r.from \in RegionStarts /\ Cardinality({a \in RegionStarts : a < r.from}) = i
    /\ r.mode = layout[r.from]
    /\ r.to > r.from
    /\ \A a \in RegionStarts : a > r.from => r.to <= a
    /\ r.to \in RegionStarts \/ r.to = REGION_END

(* Every variable has its type.                                            *)
TypeOK ==
    /\ layout \in Layouts /\ size \in 0..MaxSize
    /\ regions \in [0..size - 1 ->
                      [from : PageStarts, to : PageStarts \cup {REGION_END}, mode : Modes]]
    /\ pc \in {"page", "read", "write", "compare", "done", "killed"}
    /\ curr_add \in PageStarts /\ first_loop \in BOOLEAN
    /\ handled \subseteq Signals /\ env \in {"none", "read", "write"}
    /\ check_val \in Modes /\ curr_region_mode \in Modes
    /\ curr_index \in 0..size /\ region_from \in PageStarts
    /\ result \in 0..size + 1

(* No fault finds its signal without the handler, although the handler     *)
(* gives it up each time it runs.                                          *)
NeverKilled == pc # "killed"

(* A page is judged by what the process may do with it, whichever probe    *)
(* faulted and wherever the handler jumped back to.                        *)
PagesJudged == pc = "compare" => check_val = layout[curr_add]

(* The rows printed are the regions of the layout in order, as many as the *)
(* list has room for.  But for the last of all "to" is exclusive, though   *)
(* memlayout.h (49, 86-87) says it is the last address of the region.      *)
RowsAreRegions ==
    pc = "done" =>
        /\ \A i \in Printed : IsRegion(i, regions[i])
        /\ Cardinality(Printed) =
              IF Cardinality(RegionStarts) < size THEN Cardinality(RegionStarts) ELSE size

(* The count says whether the list was too short, though not by how much   *)
(* (memlayout.c:110-116, 134); memlayout.h:71 and memlayout.c:105-106 say  *)
(* that all regions are counted.                                           *)
CountCapped ==
    pc = "done" =>
        result = IF Cardinality(RegionStarts) <= size THEN Cardinality(RegionStarts)
                                                      ELSE size + 1

(* The scan ends, although no address is greater than the last page's.     *)
ScanEnds == <>(pc = "done")
==========================================================================
