---------------------------- MODULE Broadcast ----------------------------
(***************************************************************************)
(* What the server promises its user clients, whatever its threads do to   *)
(* keep it (server.c:167-173): it opens rounds, and in each of them sends  *)
(* the entries once to every user that was registered when it opened, or   *)
(* came while it was open, before it closes - unless the round is          *)
(* disturbed, by the breaker or a registration that came too late.         *)
(***************************************************************************)

CONSTANT Users

VARIABLES
    registered,
    open,
    waiting,    \* the users the round has yet to serve
    answered,   \* the users sent the entries, and not yet counted as done
    disturbed

vars == <<registered, open, waiting, answered, disturbed>>

Init ==
    /\ registered = {} /\ waiting = {} /\ answered = {}
    /\ open = FALSE
    /\ disturbed = FALSE

Register(u) ==
    /\ u \notin registered
    /\ registered' = registered \cup {u}
    /\ waiting' \in {waiting, waiting \cup {u}}
    /\ disturbed' \in {disturbed, TRUE}
    /\ IF open THEN u \in waiting' \/ disturbed' ELSE waiting' = waiting
    /\ UNCHANGED <<open, answered>>

Leave(u) ==
    /\ u \in registered \ answered
    /\ registered' = registered \ {u}
    /\ waiting' = waiting \ {u}
    /\ UNCHANGED <<open, answered, disturbed>>

Open ==
    /\ ~open /\ open'
    /\ waiting' = registered
    /\ disturbed' \in BOOLEAN
    /\ answered = {} \/ disturbed'
    /\ UNCHANGED <<registered, answered>>

Send(u) ==
    /\ (open /\ u \in waiting) \/ disturbed
    /\ answered' = answered \cup {u}
    /\ UNCHANGED <<registered, open, waiting, disturbed>>

Serve(u) ==
    /\ u \in answered
    /\ answered' = answered \ {u}
    /\ waiting' = waiting \ {u}
    /\ UNCHANGED <<registered, open, disturbed>>

Disturb ==
    /\ disturbed' = TRUE
    /\ UNCHANGED <<registered, open, waiting, answered>>

Close ==
    /\ open /\ ~open'
    /\ waiting = {} \/ disturbed
    /\ waiting' = {}
    /\ UNCHANGED <<registered, answered, disturbed>>

Next ==
    \/ \E u \in Users : Register(u) \/ Leave(u) \/ Send(u) \/ Serve(u)
    \/ Open \/ Disturb \/ Close

Spec == Init /\ [][Next]_vars

==========================================================================
