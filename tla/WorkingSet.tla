--------------------------- MODULE WorkingSet ---------------------------
(***************************************************************************)
(* What valws379's window set promises: the references of the last         *)
(* window_size calls, and the number of distinct pages among them.         *)
(* The number is exact as long as the table that keeps it is intact, and   *)
(* never too small.                                                        *)
(***************************************************************************)
EXTENDS Integers, Sequences, FiniteSets

CONSTANTS
    PageSets,       \* the sets of pages a reference may touch
    window_size

VARIABLES window, size, intact

PagesIn(w) == UNION {w[i] : i \in DOMAIN w}

(* The window after one more reference.                                    *)
Slide(w, pages) ==
    IF Len(w) < window_size THEN Append(w, pages) ELSE Append(Tail(w), pages)

Init == window = <<>> /\ size = 0 /\ intact = TRUE

Insert(pages) ==
    /\ window' = Slide(window, pages)
    /\ intact' => intact
    /\ size' >= Cardinality(PagesIn(window'))
    /\ intact' => size' = Cardinality(PagesIn(window'))

(* The trace is over.                                                      *)
End == window' = <<>> /\ size' = 0 /\ UNCHANGED intact

Next == End \/ \E pages \in PageSets : Insert(pages)

Spec == Init /\ [][Next]_<<window, size, intact>>
==========================================================================
