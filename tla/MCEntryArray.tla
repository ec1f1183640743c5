-------------------------- MODULE MCEntryArray --------------------------
(* EntryArray on a few observers and slots.                                *)
EXTENDS EntryArray, TLC

CONSTANT MaxCrossings   \* bounds the registrations a sort has crossed

(* Observers are interchangeable.                                          *)
ObserverSymmetry == Permutations(Observers)

(* Only behaviours in which no unregistration overlaps a registration or a *)
(* sort, nor another one once slots have moved, and in which no sort       *)
(* begins while an observer is being refused.                              *)
StaysCalm == calm

(* Every lost decrement leaves observer_count one too high for ever.       *)
LostDecrementsBounded == observer_count <= Cardinality(Observers) + 1

CrossingsBounded == crossings <= MaxCrossings
==========================================================================
