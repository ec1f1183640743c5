--------------------------- MODULE MCWindowSet ---------------------------
(***************************************************************************)
(* WindowSet with two buckets a table, lists of two and tables of one key  *)
(* merged.  Pages 0, 4 and 8 share two digits, so that three levels of     *)
(* tables are reached; one access crosses a page boundary.                 *)
(***************************************************************************)
EXTENDS WindowSet

MCPages == 0..9
MCAccesses == {<<0, 1>>, <<3, 2>>, <<9, 1>>, <<16, 2>>, <<12, 1>>}
==========================================================================
