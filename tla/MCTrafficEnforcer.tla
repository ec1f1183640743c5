------------------------ MODULE MCTrafficEnforcer ------------------------
(* TrafficEnforcer on small sets of clients.                               *)
EXTENDS TrafficEnforcer, TLC

(* Clients of a kind are interchangeable.  Used by the safety runs only.   *)
ClientSymmetry == Permutations(Users) \cup Permutations(Observers)

(* Only behaviours in which the breaker never fires (TrafficAllServed.cfg) *)
BreakerNeverFires == ~possible_lock_detected
==========================================================================
