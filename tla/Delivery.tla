---------------------------- MODULE Delivery ----------------------------
(***************************************************************************)
(* What the server promises its observer clients (server.c:60-64), whatever*)
(* its threads do to keep it: a client reports events for as long as it is *)
(* there; they become entries one by one, each once and in their order; and*)
(* the session ends when the client is gone and all that it told has been  *)
(* added.  Of a broken session, whose client left in the middle of what it *)
(* had to say, or has names that are too long, or whose socket went to     *)
(* another's thread, it promises nothing.                                  *)
(***************************************************************************)
EXTENDS Integers, Sequences

CONSTANT Clients

VARIABLE session

(* The events the client has reported, the entries added for it, whether   *)
(* it is here, has left or was cut off within its last event, and whether  *)
(* its session has ended.                                                  *)
New == [reported |-> 0, added |-> <<>>, client |-> "here", ended |-> FALSE]

Broken == [reported |-> 0, added |-> <<>>, client |-> "broken", ended |-> FALSE]

(* Some clients' names are too long for the server from the start.         *)
Init == session \in [Clients -> {New, Broken}]

(* How many of the events can become entries.                              *)
Complete(s) == IF s.client = "cut" THEN s.reported - 1 ELSE s.reported

Becomes(c, s) == session' = [session EXCEPT ![c] = s]

Report(c) ==
    /\ session[c].client = "here"
    /\ Becomes(c, [session[c] EXCEPT !.reported = @ + 1])

Leave(c) ==
    /\ session[c].client = "here"
    /\ \E way \in {"left", "cut"} : Becomes(c, [session[c] EXCEPT !.client = way])

Add(c) ==
    /\ ~session[c].ended
    /\ Len(session[c].added) < Complete(session[c])
    /\ Becomes(c, [session[c] EXCEPT !.added = Append(@, Len(@) + 1)])

End(c) ==
    /\ session[c].client \in {"left", "cut"}
    /\ Len(session[c].added) = Complete(session[c])
    /\ Becomes(c, [session[c] EXCEPT !.ended = TRUE])

(* One client breaks its session, or two get into each other's.            *)
Break(c, d) == session' = [session EXCEPT ![c] = Broken, ![d] = Broken]

Next ==
    \E c \in Clients :
        \/ Report(c) \/ Leave(c) \/ Add(c) \/ End(c)
        \/ \E d \in Clients : Break(c, d)

Spec == Init /\ [][Next]_session
==========================================================================
