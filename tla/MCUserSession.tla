-------------------------- MODULE MCUserSession --------------------------
(* UserSession with one user client; observer_count stands for the         *)
(* observers, so TrafficEnforcer's set of them is empty.                   *)
EXTENDS UserSession

NoObservers == {}
==========================================================================
