------------------------- MODULE MemLayoutProofs -------------------------
(***************************************************************************)
(* The safety properties of MemLayout, proved for every page size, every   *)
(* number of pages, every layout of them and every list of the caller's.   *)
(* The types come first, then what a probe finds, then what the list holds *)
(* of the pages scanned so far.                                            *)
(***************************************************************************)
EXTENDS MemLayout, FiniteSetTheorems, TLAPS

(* The end of the pages that have been compared: the address to look at    *)
(* next, unless that has wrapped.                                          *)
Limit == IF pc \in {"page", "done"} /\ curr_add = 0 /\ ~first_loop THEN AddressRange
                                                                   ELSE curr_add

(* How many regions of the layout start before an address.                 *)
Starts(limit) == {a \in RegionStarts : a < limit}
Before(limit) == Cardinality(Starts(limit))

(* A probe faults with both handlers in place, and its own environment is  *)
(* the one that was saved last.                                            *)
ProbeInv ==
    /\ pc # "killed"
    /\ pc \in {"read", "write"} => handled = Signals /\ env = pc
    /\ pc = "write" => layout[curr_add] # MEM_NO
    /\ PagesJudged
    /\ first_loop => pc = "page" /\ curr_add = 0

(* The current region is the last that starts before the limit, its mode   *)
(* is that of the page before it, and the regions before it are in the     *)
(* list, as many as fit.                                                   *)
ListInv ==
    /\ region_from \in RegionStarts
    /\ region_from < Limit \/ (region_from = 0 /\ Limit = 0)
    /\ \A a \in RegionStarts : a > region_from => a >= Limit
    /\ curr_region_mode = layout[region_from]
    /\ Limit > 0 => layout[Limit - PAGE_SIZE] = curr_region_mode
    /\ curr_index = IF Before(region_from) <= size THEN Before(region_from) ELSE size
    /\ \A i \in 0..curr_index - 1 : IsRegion(i, regions[i])

ScanInv == TypeOK /\ ProbeInv /\ (pc # "done" => ListInv) /\ RowsAreRegions /\ CountCapped

---------------------------------------------------------------------------
(* Pages                                                                   *)

(* Multiplication keeps the order of the pages.                            *)
LEMMA PagesOrdered ==
    ASSUME NEW p \in Nat, NEW q \in Nat, p < q
    PROVE  /\ p * PAGE_SIZE \in Nat /\ q * PAGE_SIZE \in Nat
           /\ (p + 1) * PAGE_SIZE = p * PAGE_SIZE + PAGE_SIZE
           /\ p * PAGE_SIZE + PAGE_SIZE <= q * PAGE_SIZE
<1>1. PAGE_SIZE \in Nat
  BY PageSizeNumber
<1>2. /\ p * PAGE_SIZE \in Nat /\ q * PAGE_SIZE \in Nat
      /\ (p + 1) * PAGE_SIZE = p * PAGE_SIZE + PAGE_SIZE
  BY <1>1
<1>3. q - (p + 1) \in Nat /\ q = (p + 1) + (q - (p + 1))
  OBVIOUS
<1>4. /\ (q - (p + 1)) * PAGE_SIZE \in Nat
      /\ q * PAGE_SIZE = (p + 1) * PAGE_SIZE + (q - (p + 1)) * PAGE_SIZE
  BY <1>1, <1>3
<1>5. PICK a \in Nat, b \in Nat, gap \in Nat :
         /\ a = p * PAGE_SIZE /\ b = q * PAGE_SIZE
         /\ gap = (q - (p + 1)) * PAGE_SIZE
  BY <1>2, <1>4
<1>6. b = a + PAGE_SIZE + gap
  BY <1>2, <1>4, <1>5
<1>7. a + PAGE_SIZE <= b
  BY ONLY <1>1, <1>6, a \in Nat, b \in Nat, gap \in Nat
<1>8. QED
  BY <1>2, <1>5, <1>7

(* The address space ends a page after its last page.                      *)
LEMMA Space ==
    /\ AddressRange \in Nat /\ AddressRange - PAGE_SIZE \in PageStarts
    /\ PAGE_SIZE \in Nat /\ PAGE_SIZE > 1
    /\ 0 \in PageStarts
    /\ REGION_END = AddressRange - 1
<1>1. PageCount - 1 \in Nat /\ PageCount - 1 < PageCount /\ PageCount \in Nat
  BY PageCountNumber
<1>2. AddressRange = (PageCount - 1) * PAGE_SIZE + PAGE_SIZE /\ AddressRange \in Nat
  <2>1. (PageCount - 1) + 1 = PageCount
    BY <1>1
  <2>2. QED
    BY <1>1, <2>1, PagesOrdered DEF AddressRange
<1>3. (PageCount - 1) * PAGE_SIZE \in Nat
  BY <1>1, PagesOrdered
<1>4. AddressRange - PAGE_SIZE = (PageCount - 1) * PAGE_SIZE
  BY <1>2, <1>3, PageSizeNumber
<1>5. PageCount - 1 \in 0..PageCount - 1 /\ 0 \in 0..PageCount - 1
  BY <1>1
<1>6. 0 = 0 * PAGE_SIZE
  BY PageSizeNumber
<1>7. QED
  BY <1>2, <1>4, <1>5, <1>6, PageSizeNumber DEF PageStarts, REGION_END

(* A page starts below the end, and the next one a page further.           *)
LEMMA PageBounds ==
    ASSUME NEW a \in PageStarts
    PROVE  /\ a \in Nat /\ a + PAGE_SIZE <= AddressRange
           /\ a + PAGE_SIZE # AddressRange => a + PAGE_SIZE \in PageStarts
           /\ a # 0 => a >= PAGE_SIZE /\ a - PAGE_SIZE \in PageStarts
<1>1. PICK p \in 0..PageCount - 1 : a = p * PAGE_SIZE
  BY DEF PageStarts
<1>2. p \in Nat /\ p < PageCount /\ PageCount \in Nat /\ PAGE_SIZE \in Nat
  BY <1>1, PageCountNumber, PageSizeNumber
<1>3. /\ a \in Nat /\ a + PAGE_SIZE <= AddressRange
      /\ (p + 1) * PAGE_SIZE = a + PAGE_SIZE
  BY <1>1, <1>2, PagesOrdered DEF AddressRange
<1>4. ASSUME a + PAGE_SIZE # AddressRange PROVE a + PAGE_SIZE \in PageStarts
  <2>1. p + 1 # PageCount
    BY <1>3, <1>4 DEF AddressRange
  <2>2. p + 1 \in 0..PageCount - 1
    BY <1>2, <2>1
  <2>3. QED
    BY <1>3, <2>2 DEF PageStarts
<1>5. ASSUME a # 0 PROVE a >= PAGE_SIZE /\ a - PAGE_SIZE \in PageStarts
  <2>1. p # 0
    BY <1>1, <1>5, PageSizeNumber
  <2>2. p - 1 \in Nat /\ p - 1 < p /\ p - 1 \in 0..PageCount - 1 /\ (p - 1) + 1 = p
    BY <1>2, <2>1
  <2>3. p * PAGE_SIZE = (p - 1) * PAGE_SIZE + PAGE_SIZE /\ (p - 1) * PAGE_SIZE \in Nat
    BY <1>2, <2>2, PagesOrdered
  <2>4. a - PAGE_SIZE = (p - 1) * PAGE_SIZE /\ a >= PAGE_SIZE
    BY <1>1, <1>2, <2>3
  <2>5. QED
    BY <2>2, <2>4 DEF PageStarts
<1>6. QED
  BY <1>3, <1>4, <1>5

(* No page starts within another.                                          *)
LEMMA PagesApart ==
    ASSUME NEW a \in PageStarts, NEW b \in PageStarts, a < b
    PROVE  a + PAGE_SIZE <= b
<1>1. PICK p \in 0..PageCount - 1, q \in 0..PageCount - 1 :
         a = p * PAGE_SIZE /\ b = q * PAGE_SIZE
  BY DEF PageStarts
<1>2. p \in Nat /\ q \in Nat
  BY PageCountNumber
<1>3. CASE p < q
  BY <1>1, <1>2, <1>3, PagesOrdered
<1>4. CASE q < p
  <2>1. b + PAGE_SIZE <= a /\ a \in Nat /\ b \in Nat
    BY <1>1, <1>2, <1>4, PagesOrdered
  <2>2. QED
    BY <2>1, PageSizeNumber
<1>5. CASE p = q
  BY <1>1, <1>2, <1>5, PageBounds
<1>6. QED
  BY <1>2, <1>3, <1>4, <1>5

(* The address after the last page's wraps to the first page.              *)
LEMMA NextPage ==
    ASSUME NEW a \in PageStarts
    PROVE  /\ (a + PAGE_SIZE) % AddressRange =
                 IF a + PAGE_SIZE = AddressRange THEN 0 ELSE a + PAGE_SIZE
           /\ (a + PAGE_SIZE) % AddressRange \in PageStarts
<1>1. /\ a + PAGE_SIZE \in Nat /\ a + PAGE_SIZE <= AddressRange
      /\ AddressRange \in Nat /\ AddressRange > 0
  BY PageBounds, Space
<1>2. \A n, m \in Nat : m > 0 /\ n < m => n % m = n
  OBVIOUS
<1>3. \A m \in Nat : m > 0 => m % m = 0
  OBVIOUS
<1>4. QED
  BY <1>1, <1>2, <1>3, Space, PageBounds

(* The regions that start before an address are finitely many, and one     *)
(* more with a region that starts there.                                   *)
LEMMA StartsFinite ==
    /\ IsFiniteSet(RegionStarts) /\ Cardinality(RegionStarts) \in Nat
    /\ \A limit : IsFiniteSet(Starts(limit)) /\ Before(limit) \in Nat
<1>1. PageStarts \subseteq Nat /\ (\A a \in PageStarts : a <= AddressRange)
      /\ AddressRange \in Nat
  BY PageBounds, Space
<1>2. RegionStarts \in SUBSET Nat /\ (\A a \in RegionStarts : a <= AddressRange)
  BY <1>1 DEF RegionStarts
<1>3. IsFiniteSet(RegionStarts)
  BY <1>1, <1>2, FS_BoundedSetOfNaturals
<1>4. \A limit : Starts(limit) \in SUBSET RegionStarts
  BY DEF Starts
<1>5. QED
  BY <1>3, <1>4, FS_Subset, FS_CardinalityType DEF Before

---------------------------------------------------------------------------
(* Types and probes                                                        *)

(* At the start nothing has been probed.                                   *)
LEMMA InitScanned == Init => TypeOK /\ ProbeInv
<1> SUFFICES ASSUME Init PROVE TypeOK /\ ProbeInv
  OBVIOUS
<1>1. size \in Nat /\ MaxSize \in Nat
  BY MaxSizeNumber DEF Init
<1>2. regions \in [0..size - 1 ->
                     [from : PageStarts, to : PageStarts \cup {REGION_END}, mode : Modes]]
  BY Space DEF Init, Untouched, Modes
<1>3. 0 \in 0..size /\ 0 \in 0..size + 1
  BY <1>1
<1>4. QED
  BY <1>2, <1>3, Space DEF Init, TypeOK, ProbeInv, PagesJudged, Modes

(* What is listed is a region as far as types go.                          *)
LEMMA ListedTyped ==
    ASSUME TypeOK, NEW to \in PageStarts \cup {REGION_END}
    PROVE  /\ Listed(to) \in [0..size - 1 ->
                     [from : PageStarts, to : PageStarts \cup {REGION_END}, mode : Modes]]
           /\ Counted \in 0..size
<1>1. size \in Nat /\ curr_index \in 0..size
  BY MaxSizeNumber DEF TypeOK
<1>2. Counted \in 0..size
  BY <1>1 DEF Counted
<1>3. curr_index < size => curr_index \in 0..size - 1
  BY <1>1
<1>4. QED
  BY <1>2, <1>3 DEF Listed, TypeOK

(* Every step keeps the types.                                             *)
LEMMA NextKeepsTypes == TypeOK /\ [Next]_vars => TypeOK'
<1> SUFFICES ASSUME TypeOK, [Next]_vars PROVE TypeOK'
  OBVIOUS
<1>1. CASE UNCHANGED vars
  BY <1>1 DEF vars, TypeOK
<1>2. CASE StartPage \/ ReadPage \/ WritePage
  BY <1>2 DEF StartPage, ReadPage, WritePage, cursor, TypeOK, Modes
<1>3. ASSUME NEW sig \in Signals, handle_signal(sig)
      PROVE  TypeOK'
  BY <1>3 DEF handle_signal, cursor, TypeOK, Modes
<1>4. CASE ComparePage
  <2>1. /\ regions' \in [0..size - 1 ->
                   [from : PageStarts, to : PageStarts \cup {REGION_END}, mode : Modes]]
        /\ curr_index' \in 0..size
    BY <1>4, ListedTyped DEF ComparePage, TypeOK
  <2>2. curr_add' \in PageStarts
    BY <1>4, NextPage DEF ComparePage, TypeOK
  <2>3. QED
    BY <1>4, <2>1, <2>2 DEF ComparePage, TypeOK
<1>5. CASE Finish
  <2>1. regions' \in [0..size - 1 ->
                   [from : PageStarts, to : PageStarts \cup {REGION_END}, mode : Modes]]
    BY <1>5, ListedTyped DEF Finish
  <2>2. result' \in 0..size + 1
    BY <1>5, MaxSizeNumber DEF Finish, TypeOK
  <2>3. QED
    BY <1>5, <2>1, <2>2 DEF Finish, TypeOK
<1>6. QED
  BY <1>1, <1>2, <1>3, <1>4, <1>5 DEF Next, Scan, Stopped

(* The scan is over only after the address has wrapped: every page starts  *)
(* before REGION_END, as a page has more than one byte.                    *)
LEMMA ScanOverWraps ==
    ASSUME TypeOK
    PROVE  ScanOver <=> curr_add = 0 /\ ~first_loop
<1>1. /\ curr_add \in Nat /\ curr_add + PAGE_SIZE <= AddressRange
      /\ curr_add # 0 => curr_add >= PAGE_SIZE
      /\ PAGE_SIZE \in Nat /\ PAGE_SIZE > 1 /\ AddressRange \in Nat
      /\ REGION_END = AddressRange - 1
  BY PageBounds, Space DEF TypeOK
<1>2. QED
  BY <1>1 DEF ScanOver

(* Every step keeps what is known of the probe under way: each page's      *)
(* first probe finds both handlers installed, whatever the one before did. *)
LEMMA NextKeepsProbe == TypeOK /\ ProbeInv /\ [Next]_vars => ProbeInv'
<1> SUFFICES ASSUME TypeOK, ProbeInv, [Next]_vars PROVE ProbeInv'
  OBVIOUS
<1> USE DEF ProbeInv, PagesJudged
<1>1. CASE UNCHANGED vars
  BY <1>1 DEF vars
<1>2. CASE StartPage
  BY <1>2 DEF StartPage, cursor
<1>3. CASE ReadPage
  BY <1>3 DEF ReadPage, cursor
<1>4. CASE WritePage
  BY <1>4 DEF WritePage, cursor
<1>5. ASSUME NEW sig \in Signals, handle_signal(sig)
      PROVE  ProbeInv'
  <2>1. sig \in handled /\ pc' = "compare" /\ ~first_loop
        /\ UNCHANGED <<layout, curr_add, first_loop>>
    BY <1>5 DEF handle_signal, Forbidden, cursor
  <2>2. CASE pc = "read"
    BY <1>5, <2>1, <2>2 DEF handle_signal, Forbidden
  <2>3. CASE pc = "write"
    <3>1. layout[curr_add] \in Modes
      BY DEF TypeOK, Layouts
    <3>2. layout[curr_add] = MEM_RO
      BY <1>5, <2>3, <3>1 DEF handle_signal, Forbidden, Modes
    <3>3. QED
      BY <1>5, <2>1, <2>3, <3>2 DEF handle_signal
  <2>4. QED
    BY <1>5, <2>2, <2>3 DEF handle_signal, Forbidden
<1>6. CASE ComparePage
  BY <1>6 DEF ComparePage
<1>7. CASE Finish
  BY <1>7, ScanOverWraps DEF Finish
<1>8. QED
  BY <1>1, <1>2, <1>3, <1>4, <1>5, <1>6, <1>7 DEF Next, Scan, Stopped

(* Every variable has its type in every state.                             *)
THEOREM ScanTyped == Spec => []TypeOK
BY InitScanned, NextKeepsTypes, PTL DEF Spec

(* No fault finds its signal without the handler.                          *)
THEOREM NotKilled == Spec => []NeverKilled
<1>1. ProbeInv => NeverKilled
  BY DEF ProbeInv, NeverKilled
<1>2. QED
  BY <1>1, InitScanned, NextKeepsTypes, NextKeepsProbe, PTL DEF Spec

(* A page is judged by what the process may do with it.                    *)
THEOREM JudgedRight == Spec => []PagesJudged
<1>1. ProbeInv => PagesJudged
  BY DEF ProbeInv
<1>2. QED
  BY <1>1, InitScanned, NextKeepsTypes, NextKeepsProbe, PTL DEF Spec

---------------------------------------------------------------------------
(* The list                                                                *)

(* A step that only probes leaves the list and the limit as they are.      *)
LEMMA ProbesKeepList ==
    ASSUME ListInv, Limit' = Limit, UNCHANGED <<layout, size, cursor>>
    PROVE  ListInv'
BY DEF ListInv, Before, Starts, RegionStarts, IsRegion, cursor

(* The region that is listed is the one that comes next in the layout.     *)
LEMMA NextRegion ==
    ASSUME TypeOK, ListInv, NEW to \in RegionStarts \cup {REGION_END}, region_from < to,
           \A a \in RegionStarts : a > region_from => to <= a,
           curr_index < size
    PROVE  IsRegion(curr_index, [from |-> region_from, to |-> to, mode |-> curr_region_mode])
<1>1. Before(region_from) \in Nat /\ size \in Nat
  BY StartsFinite, MaxSizeNumber DEF TypeOK
<1>2. curr_index = Before(region_from)
  BY <1>1 DEF ListInv
<1>3. QED
  BY <1>2 DEF IsRegion, ListInv, Before, Starts

(* It goes behind those that are listed already, if there is room for it.  *)
LEMMA ListedRegions ==
    ASSUME TypeOK, ListInv, NEW to \in RegionStarts \cup {REGION_END}, region_from < to,
           \A a \in RegionStarts : a > region_from => to <= a
    PROVE  /\ \A i \in 0..curr_index - 1 : IsRegion(i, Listed(to)[i])
           /\ curr_index < size => IsRegion(curr_index, Listed(to)[curr_index])
<1>1. /\ curr_index \in Nat /\ curr_index <= size /\ size \in Nat
      /\ DOMAIN regions = 0..size - 1
  BY MaxSizeNumber DEF TypeOK
<1>2. ASSUME NEW i \in 0..curr_index - 1 PROVE Listed(to)[i] = regions[i]
  BY <1>1, <1>2 DEF Listed
<1>3. ASSUME curr_index < size
      PROVE  Listed(to)[curr_index] =
               [from |-> region_from, to |-> to, mode |-> curr_region_mode]
  BY <1>1, <1>3 DEF Listed
<1>4. QED
  BY <1>2, <1>3, NextRegion DEF ListInv

(* A region that starts right after another is the next one.               *)
LEMMA OneMoreStart ==
    ASSUME TypeOK, ListInv, NEW limit \in Nat, region_from < limit,
           \A a \in RegionStarts : a > region_from => a >= limit
    PROVE  Before(limit) = Before(region_from) + 1
<1>1. /\ region_from \in RegionStarts /\ region_from \in Nat
      /\ \A a \in RegionStarts : a \in Nat
  BY PageBounds DEF ListInv, TypeOK, RegionStarts
<1>2. Starts(limit) = Starts(region_from) \cup {region_from}
  <2>1. ASSUME NEW a \in RegionStarts
        PROVE  a < limit <=> a < region_from \/ a = region_from
    BY <1>1, <2>1
  <2>2. QED
    BY <1>1, <2>1 DEF Starts
<1>3. region_from \notin Starts(region_from) /\ IsFiniteSet(Starts(region_from))
  BY <1>1, StartsFinite DEF Starts
<1>4. QED
  BY <1>2, <1>3, FS_AddElement DEF Before

(* A comparison moves the limit by a page, past the end with the last one. *)
LEMMA CompareMovesLimit ==
    ASSUME TypeOK, ProbeInv, ComparePage
    PROVE  /\ Limit = curr_add /\ Limit' = curr_add + PAGE_SIZE
           /\ curr_add \in Nat /\ check_val = layout[curr_add]
           /\ PAGE_SIZE \in Nat /\ PAGE_SIZE > 1
           /\ (curr_add + PAGE_SIZE) - PAGE_SIZE = curr_add
<1>1. /\ pc = "compare" /\ pc' = "page" /\ ~first_loop'
      /\ curr_add' = IF curr_add + PAGE_SIZE = AddressRange THEN 0 ELSE curr_add + PAGE_SIZE
  BY NextPage DEF ComparePage, ProbeInv, TypeOK
<1>2. /\ curr_add \in Nat /\ PAGE_SIZE \in Nat /\ PAGE_SIZE > 1
      /\ curr_add + PAGE_SIZE # 0
  BY PageBounds, Space DEF TypeOK
<1>3. check_val = layout[curr_add]
  BY <1>1 DEF ProbeInv, PagesJudged
<1>4. QED
  BY <1>1, <1>2, <1>3 DEF Limit

(* A page of the region's mode starts no region.                           *)
LEMMA SameModeKeepsList ==
    ASSUME TypeOK, ProbeInv, ListInv, ComparePage, check_val = curr_region_mode
    PROVE  ListInv'
<1>1. UNCHANGED <<layout, size, regions, curr_index, region_from, curr_region_mode>>
  BY DEF ComparePage
<1>2. RegionStarts' = RegionStarts /\ Before(region_from)' = Before(region_from)
  BY <1>1 DEF RegionStarts, Before, Starts
<1>3. ASSUME NEW a \in RegionStarts, a > region_from
      PROVE  a >= curr_add + PAGE_SIZE
  <2>1. /\ a \in PageStarts /\ a \in Nat /\ region_from \in Nat /\ a >= curr_add
        /\ curr_add \in PageStarts
    BY <1>3, PageBounds, CompareMovesLimit DEF TypeOK, ListInv, RegionStarts
  <2>2. a # curr_add
    <3>1. CASE curr_add = 0
      BY <1>3, <2>1, <3>1
    <3>2. CASE curr_add # 0
      <4>1. layout[curr_add - PAGE_SIZE] = layout[curr_add]
        BY <3>2, CompareMovesLimit DEF ListInv
      <4>2. QED
        BY <3>2, <4>1 DEF RegionStarts
    <3>3. QED
      BY <3>1, <3>2
  <2>3. a > curr_add
    BY <2>1, <2>2, CompareMovesLimit
  <2>4. QED
    BY <2>1, <2>3, PagesApart
<1>4. region_from < curr_add + PAGE_SIZE
  <2>1. /\ region_from \in Nat /\ curr_add \in Nat
        /\ PAGE_SIZE \in Nat /\ PAGE_SIZE > 1
    BY CompareMovesLimit, PageBounds DEF TypeOK
  <2>2. region_from < curr_add \/ (region_from = 0 /\ curr_add = 0)
    BY CompareMovesLimit DEF ListInv
  <2>3. QED
    BY <2>1, <2>2
<1>5. layout[Limit' - PAGE_SIZE] = curr_region_mode
  BY CompareMovesLimit
<1>6. \A i \in 0..curr_index - 1 : IsRegion(i, regions[i])'
  BY <1>1, <1>2 DEF ListInv, IsRegion
<1>7. QED
  BY <1>1, <1>2, <1>3, <1>4, <1>5, <1>6, CompareMovesLimit DEF ListInv

(* A page of another mode starts one, and the one before it is listed.     *)
LEMMA OtherModeKeepsList ==
    ASSUME TypeOK, ProbeInv, ListInv, ComparePage, check_val # curr_region_mode
    PROVE  ListInv'
<1>1. /\ UNCHANGED <<layout, size>>
      /\ regions' = Listed(curr_add) /\ curr_index' = Counted
      /\ region_from' = curr_add /\ curr_region_mode' = check_val
  BY DEF ComparePage
<1>2. RegionStarts' = RegionStarts /\ Before(region_from)' = Before(curr_add)
  BY <1>1 DEF RegionStarts, Before, Starts
<1>3. curr_add > 0 /\ region_from < curr_add
  <2>1. region_from \in Nat /\ curr_add \in Nat
    BY CompareMovesLimit, PageBounds DEF TypeOK
  <2>2. region_from < curr_add \/ (region_from = 0 /\ curr_add = 0)
    BY CompareMovesLimit DEF ListInv
  <2>3. ~(region_from = 0 /\ curr_add = 0)
    BY CompareMovesLimit DEF ListInv
  <2>4. QED
    BY <2>1, <2>2, <2>3
<1>4. curr_add \in RegionStarts
  BY <1>3, CompareMovesLimit DEF ListInv, RegionStarts, TypeOK
<1>5. \A a \in RegionStarts : a > region_from => a >= curr_add
  BY CompareMovesLimit DEF ListInv
<1>6. \A a \in RegionStarts : a > region_from => curr_add <= a
  <2>1. \A a \in RegionStarts : a \in Nat
    BY PageBounds DEF RegionStarts
  <2>2. QED
    BY <1>5, <2>1, CompareMovesLimit
<1>7. /\ \A i \in 0..curr_index - 1 : IsRegion(i, Listed(curr_add)[i])
      /\ curr_index < size => IsRegion(curr_index, Listed(curr_add)[curr_index])
  BY <1>3, <1>4, <1>6, ListedRegions
<1>8. /\ Before(curr_add) = Before(region_from) + 1
      /\ Before(region_from) \in Nat
  BY <1>3, <1>5, CompareMovesLimit, OneMoreStart, StartsFinite
<1>9. curr_index' = IF Before(curr_add) <= size THEN Before(curr_add) ELSE size
  <2>1. /\ curr_index = IF Before(region_from) <= size THEN Before(region_from) ELSE size
        /\ size \in Nat
    BY MaxSizeNumber DEF ListInv, TypeOK
  <2>2. QED
    BY <1>1, <1>8, <2>1 DEF Counted
<1>10. \A i \in 0..curr_index' - 1 : IsRegion(i, regions'[i])
  <2>1. SUFFICES ASSUME NEW i \in 0..curr_index' - 1
                 PROVE  IsRegion(i, Listed(curr_add)[i])
    BY <1>1
  <2>2. /\ curr_index \in Nat /\ size \in Nat
        /\ i \in 0..curr_index - 1 \/ (curr_index < size /\ i = curr_index)
    BY <1>1, MaxSizeNumber DEF Counted, TypeOK
  <2>3. QED
    BY <1>7, <2>2
<1>11. \A i \in 0..curr_index' - 1 : IsRegion(i, regions[i])'
  BY <1>1, <1>2, <1>10 DEF IsRegion
<1>12. \A a \in RegionStarts : a > curr_add => a >= curr_add + PAGE_SIZE
  <2>1. ASSUME NEW a \in RegionStarts, a > curr_add
        PROVE  a >= curr_add + PAGE_SIZE
    <3>1. a \in PageStarts /\ a \in Nat /\ curr_add \in PageStarts
      BY PageBounds DEF RegionStarts, TypeOK
    <3>2. QED
      BY <2>1, <3>1, PagesApart, CompareMovesLimit
  <2>2. QED
    BY <2>1
<1>13. QED
  BY <1>1, <1>2, <1>4, <1>9, <1>11, <1>12, CompareMovesLimit DEF ListInv


(* A comparison keeps the list.                                            *)
LEMMA CompareKeepsList ==
    TypeOK /\ ProbeInv /\ ListInv /\ ComparePage => ListInv'
BY SameModeKeepsList, OtherModeKeepsList

(* At the start there is one region, the first page's, and no row.         *)
LEMMA InitList == Init => ListInv /\ RowsAreRegions /\ CountCapped
<1> SUFFICES ASSUME Init PROVE ListInv /\ RowsAreRegions /\ CountCapped
  OBVIOUS
<1>1. /\ pc = "page" /\ curr_add = 0 /\ first_loop = TRUE
      /\ curr_index = 0 /\ region_from = 0 /\ curr_region_mode = MEM_NO
      /\ layout[0] = MEM_NO /\ size \in Nat
  BY MaxSizeNumber DEF Init, Layouts
<1>2. Limit = 0 /\ 0 \in RegionStarts
  BY <1>1, Space DEF Limit, RegionStarts
<1>3. \A a \in RegionStarts : a \in Nat
  BY PageBounds DEF RegionStarts
<1>4. Before(0) = 0
  <2>1. Starts(0) = {}
    BY <1>3 DEF Starts
  <2>2. QED
    BY <2>1, FS_EmptySet DEF Before
<1>5. ListInv
  BY <1>1, <1>2, <1>3, <1>4 DEF ListInv
<1>6. QED
  BY <1>1, <1>5 DEF RowsAreRegions, CountCapped

(* Nor does a probe move the limit.                                        *)
LEMMA ProbeKeepsList ==
    ASSUME TypeOK, ListInv, NEW sig \in Signals,
           StartPage \/ ReadPage \/ WritePage \/ handle_signal(sig)
    PROVE  ListInv'
<1>1. UNCHANGED <<layout, size, cursor>>
  BY DEF StartPage, ReadPage, WritePage, handle_signal
<1>2. CASE StartPage
  <2>1. ~(curr_add = 0 /\ ~first_loop)
    BY <1>2, ScanOverWraps DEF StartPage
  <2>2. Limit' = Limit
    BY <1>2, <2>1 DEF StartPage, cursor, Limit
  <2>3. QED
    BY <1>1, <2>2, ProbesKeepList
<1>3. CASE ReadPage \/ WritePage
  <2>1. Limit' = Limit
    BY <1>3 DEF ReadPage, WritePage, cursor, Limit
  <2>2. QED
    BY <1>1, <2>1, ProbesKeepList
<1>4. CASE handle_signal(sig)
  <2>1. pc \in {"read", "write"} /\ pc' # "page" /\ pc' # "done"
    BY <1>4 DEF handle_signal, Forbidden
  <2>2. Limit' = Limit
    BY <1>1, <2>1 DEF cursor, Limit
  <2>3. QED
    BY <1>1, <2>2, ProbesKeepList
<1>5. QED
  BY <1>2, <1>3, <1>4

(* When the scan is over, every region but the current one starts before   *)
(* it, and the current one extends to the end.                             *)
LEMMA LastRegion ==
    ASSUME TypeOK, ListInv, Finish
    PROVE  /\ Limit = AddressRange
           /\ \A a \in RegionStarts : a <= region_from
           /\ region_from < REGION_END
           /\ Cardinality(RegionStarts) = Before(region_from) + 1
           /\ Before(region_from) \in Nat
<1>1. Limit = AddressRange
  BY ScanOverWraps DEF Finish, Limit
<1>2. \A a \in RegionStarts : a \in Nat /\ a + PAGE_SIZE <= AddressRange
  BY PageBounds DEF RegionStarts
<1>3. /\ AddressRange \in Nat /\ PAGE_SIZE \in Nat /\ PAGE_SIZE > 1
      /\ REGION_END = AddressRange - 1
  BY Space
<1>4. region_from \in RegionStarts
  BY DEF ListInv
<1>5. \A a \in RegionStarts : a > region_from => a >= AddressRange
  BY <1>1 DEF ListInv
<1>6. \A a \in RegionStarts : a <= region_from /\ a < AddressRange
  BY <1>2, <1>3, <1>4, <1>5
<1>7. region_from < REGION_END
  BY <1>2, <1>3, <1>4
<1>8. Starts(AddressRange) = RegionStarts
  BY <1>6 DEF Starts
<1>9. /\ Before(AddressRange) = Before(region_from) + 1
      /\ Before(region_from) \in Nat
  BY <1>3, <1>4, <1>5, <1>6, OneMoreStart, StartsFinite
<1>10. QED
  BY <1>1, <1>6, <1>7, <1>8, <1>9 DEF Before

(* The last region is listed, and every row printed is a region.           *)
LEMMA FinishListsAll ==
    TypeOK /\ ListInv /\ Finish => RowsAreRegions' /\ CountCapped'
<1> SUFFICES ASSUME TypeOK, ListInv, Finish PROVE RowsAreRegions' /\ CountCapped'
  OBVIOUS
<1>1. /\ UNCHANGED <<layout, size>> /\ regions' = Listed(REGION_END)
      /\ result' = curr_index + 1
  BY DEF Finish
<1>2. RegionStarts' = RegionStarts
  BY <1>1 DEF RegionStarts
<1>3. PICK before \in Nat : /\ before = Before(region_from)
                            /\ Cardinality(RegionStarts) = before + 1
  BY LastRegion
<1>4. curr_index = (IF before <= size THEN before ELSE size) /\ size \in Nat
  BY <1>3, MaxSizeNumber DEF ListInv, TypeOK
<1>5. CountCapped'
  <2>1. result' = IF before + 1 <= size THEN before + 1 ELSE size + 1
    BY <1>1, <1>3, <1>4
  <2>2. QED
    BY <1>1, <1>2, <1>3, <2>1 DEF CountCapped
<1>6. /\ \A i \in 0..curr_index - 1 : IsRegion(i, Listed(REGION_END)[i])
      /\ curr_index < size => IsRegion(curr_index, Listed(REGION_END)[curr_index])
  <2>1. \A a \in RegionStarts : a \in Nat
    BY PageBounds DEF RegionStarts
  <2>2. region_from \in Nat
    BY PageBounds DEF TypeOK
  <2>3. \A a \in RegionStarts : a > region_from => REGION_END <= a
    BY <2>1, <2>2, LastRegion
  <2>4. QED
    BY <2>3, LastRegion, ListedRegions
<1>7. Printed' = 0..(IF before + 1 < size THEN before + 1 ELSE size) - 1
  <2>1. ASSUME NEW i
        PROVE  i \in Printed' <=> i \in 0..(IF before + 1 < size THEN before + 1 ELSE size) - 1
    BY <1>1, <1>3, <1>4 DEF Printed
  <2>2. QED
    BY <2>1
<1>8. \A i \in Printed' : IsRegion(i, regions[i])'
  <2>1. SUFFICES ASSUME NEW i \in Printed' PROVE IsRegion(i, Listed(REGION_END)[i])
    BY <1>1, <1>2 DEF IsRegion
  <2>2. i \in 0..curr_index - 1 \/ (curr_index < size /\ i = curr_index)
    BY <1>3, <1>4, <1>7, <2>1
  <2>3. QED
    BY <1>6, <2>2
<1>9. Cardinality(Printed') = IF before + 1 < size THEN before + 1 ELSE size
  <2>1. PICK n \in Nat : n = IF before + 1 < size THEN before + 1 ELSE size
    BY <1>3, <1>4
  <2>2. Cardinality(0..n - 1) = n
    <3>1. n \in Nat /\ n - 1 \in Int
      OBVIOUS
    <3>2. Cardinality(0..n - 1) = IF 0 > n - 1 THEN 0 ELSE (n - 1) - 0 + 1
      BY <3>1, FS_Interval
    <3>3. QED
      BY <3>1, <3>2
  <2>3. QED
    BY <1>7, <2>1, <2>2
<1>10. RowsAreRegions'
  BY <1>1, <1>2, <1>3, <1>8, <1>9 DEF RowsAreRegions
<1>11. QED
  BY <1>5, <1>10

(* Every step keeps the list, and what is printed of it in the end.        *)
LEMMA NextKeepsList == ScanInv /\ [Next]_vars => ScanInv'
<1> SUFFICES ASSUME ScanInv, [Next]_vars PROVE ScanInv'
  OBVIOUS
<1>1. TypeOK' /\ ProbeInv'
  BY NextKeepsTypes, NextKeepsProbe DEF ScanInv
<1>2. CASE UNCHANGED vars
  BY <1>1, <1>2 DEF vars, ScanInv, ListInv, Limit, Before, Starts, RegionStarts,
     IsRegion, RowsAreRegions, CountCapped, Printed
<1>3. ASSUME NEW sig \in Signals,
             StartPage \/ ReadPage \/ WritePage \/ handle_signal(sig)
      PROVE  ScanInv'
  <2>1. pc # "done" /\ pc' # "done"
    BY <1>3 DEF StartPage, ReadPage, WritePage, handle_signal, Forbidden
  <2>2. ListInv'
    BY <1>3, <2>1, ProbeKeepsList DEF ScanInv
  <2>3. QED
    BY <1>1, <2>1, <2>2 DEF ScanInv, RowsAreRegions, CountCapped
<1>4. CASE ComparePage
  <2>1. pc # "done" /\ pc' # "done"
    BY <1>4 DEF ComparePage
  <2>2. ListInv'
    BY <1>4, <2>1, CompareKeepsList DEF ScanInv
  <2>3. QED
    BY <1>1, <2>1, <2>2 DEF ScanInv, RowsAreRegions, CountCapped
<1>5. CASE Finish
  <2>1. pc # "done" /\ pc' = "done"
    BY <1>5 DEF Finish
  <2>2. RowsAreRegions' /\ CountCapped'
    BY <1>5, <2>1, FinishListsAll DEF ScanInv
  <2>3. QED
    BY <1>1, <2>1, <2>2 DEF ScanInv
<1>6. "SIGBUS" \in Signals
  BY DEF Signals
<1>7. QED
  BY <1>2, <1>3, <1>4, <1>5, <1>6 DEF Next, Scan, Stopped

(* The scan keeps its list in step with the layout.                        *)
THEOREM ScanInductive == Spec => []ScanInv
<1>1. Init => ScanInv
  BY InitScanned, InitList DEF ScanInv
<1>2. QED
  BY <1>1, NextKeepsList, PTL DEF Spec

(* The rows printed are the regions of the layout.                         *)
THEOREM RowsRight == Spec => []RowsAreRegions
<1>1. ScanInv => RowsAreRegions
  BY DEF ScanInv
<1>2. QED
  BY <1>1, ScanInductive, PTL

(* The count says whether the list was too short.                          *)
THEOREM CountRight == Spec => []CountCapped
<1>1. ScanInv => CountCapped
  BY DEF ScanInv
<1>2. QED
  BY <1>1, ScanInductive, PTL

==========================================================================
