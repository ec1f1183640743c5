----------------------------- MODULE Session -----------------------------
(***************************************************************************)
(* The sessions of observer clients: do_observer_client() sending its      *)
(* introduction and its events, do_server()'s accept loop, which hands     *)
(* each thread the address of new_socket, and the observer_threads reading *)
(* what the clients sent.  A stream is a sequence of pieces, one for each  *)
(* send(); a piece is delivered whole, as it is on the loopback interface. *)
(* That add_entry() comes back is TrafficEnforcer's EntryWritten; that the *)
(* array has a slot for every observer is assumed here (see EntryArray).   *)
(***************************************************************************)
EXTENDS Integers, SequencesExt

CONSTANTS
    Clients,        \* the observer clients
    NoClient,
    Fitting,        \* those whose names are short enough for the server
    MaxEvents       \* each client's inotify events: bounds the behaviours

ASSUME NoClientElse == NoClient \notin Clients
ASSUME ClientsFinite == IsFiniteSet(Clients)
ASSUME FittingClients == Fitting \subseteq Clients
ASSUME MaxEventsNumber == MaxEvents \in [Clients -> Nat]

VARIABLES
    (* the clients *)
    place,          \* how many pieces of the Introduction it has sent, or
                    \* Within: the header of an event but not its name
    sent,           \* how many events it has begun to send
    gone,           \* "no", "bye" (SIGINT, it said so) or "died"
    stream,         \* the pieces in its socket, unread
    (* do_server() *)
    backlog,        \* connections to accept
    acceptor,       \* "accept", or "identify": in read() for the identity
    new_socket,
    (* the thread started for each client *)
    thread,         \* where it is
    sock,           \* the socket it found in new_socket
    pending,        \* the event whose name it reads
    entries,        \* the events it added; 0 stands for some that never
                    \* happened
    up              \* the process is alive

client == <<place, sent, gone, backlog>>
server == <<acceptor, new_socket>>
local  == <<sock, pending>>
vars   == <<client, stream, server, thread, local, entries, up>>

(* What a client sends first; send_string() is two of the pieces.          *)
Introduction == <<"id", "size", "string", "size", "string">>
Ready == Len(Introduction)
Within == Ready + 1

Piece(kind, event) == [kind |-> kind, event |-> event]

(* The reads of the introduction: what each expects and what comes next.   *)
Expected == [monitored_size |-> "size", monitored |-> "string",
             host_size |-> "size", host |-> "string"]
(* Mutant: the host is not read.                                           *)
FollowingSkipsHost == [monitored_size |-> "monitored", monitored |-> "loop",
                       host_size |-> "host", host |-> "loop"]

Following == [monitored_size |-> "monitored", monitored |-> "host_size",
              host_size |-> "host", host |-> "loop"]

Init ==
    /\ place = [c \in Clients |-> -1]
    /\ sent = [c \in Clients |-> 0]
    /\ gone = [c \in Clients |-> "no"]
    /\ stream = [c \in Clients |-> <<>>]
    /\ backlog = <<>>
    /\ acceptor = "accept"
    /\ new_socket = NoClient
    /\ thread = [c \in Clients |-> "none"]
    /\ sock = [c \in Clients |-> NoClient]
    /\ pending = [c \in Clients |-> 0]
    /\ entries = [c \in Clients |-> <<>>]
    /\ up = TRUE

---------------------------------------------------------------------------
(* do_observer_client()                                                    *)

NotClient == <<server, thread, local, entries, up>>

Send(c, piece) == stream' = [stream EXCEPT ![c] = Append(@, piece)]

(* connect() returns when the connection is in the backlog.                *)
Connect(c) ==
    /\ place[c] = -1
    /\ place' = [place EXCEPT ![c] = 0]
    /\ backlog' = Append(backlog, c)
    /\ UNCHANGED <<sent, gone, stream, NotClient>>

Introduce(c) ==
    /\ gone[c] = "no" /\ place[c] \in 0..Ready - 1
    /\ place' = [place EXCEPT ![c] = @ + 1]
    /\ Send(c, Piece(Introduction[place[c] + 1], 0))
    /\ UNCHANGED <<sent, gone, backlog, NotClient>>

(* An inotify event; its name, if it has one, is sent after the header.    *)
SendHeader(c) ==
    /\ gone[c] = "no" /\ place[c] = Ready /\ sent[c] < MaxEvents[c]
    /\ sent' = [sent EXCEPT ![c] = @ + 1]
    /\ \/ Send(c, Piece("header", sent'[c])) /\ UNCHANGED place
       \/ /\ Send(c, Piece("header with len", sent'[c]))
          /\ place' = [place EXCEPT ![c] = Within]
    /\ UNCHANGED <<gone, backlog, NotClient>>

SendName(c) ==
    /\ gone[c] = "no" /\ place[c] = Within
    /\ place' = [place EXCEPT ![c] = Ready]
    /\ Send(c, Piece("name", sent[c]))
    /\ UNCHANGED <<sent, gone, backlog, NotClient>>

(* SIGINT, the user's or auto_kill()'s: wherever it is, the client jumps to*)
(* cleanup(), which sends a disconnect message and closes.                 *)
Interrupted(c) ==
    /\ gone[c] = "no" /\ place[c] >= 0
    /\ gone' = [gone EXCEPT ![c] = "bye"]
    /\ Send(c, Piece("bye", 0))
    /\ UNCHANGED <<place, sent, backlog, NotClient>>

(* The client is killed: its socket is closed without a word.              *)
Dies(c) ==
    /\ gone[c] = "no" /\ place[c] >= 0
    /\ gone' = [gone EXCEPT ![c] = "died"]
    /\ UNCHANGED <<place, sent, stream, backlog, NotClient>>

---------------------------------------------------------------------------
(* Reading                                                                 *)

Arrived(s) == stream[s] # <<>>
EndOfStream(s) == stream[s] = <<>> /\ gone[s] # "no"
Kind(s) == Head(stream[s]).kind
Take(s) == stream' = [stream EXCEPT ![s] = Tail(@)]

(* A read that was meant for something else may stop inside a piece.       *)
TakeSome(s) == Take(s) \/ stream' = [stream EXCEPT ![s][1] = Piece("rest", 0)]

(* do_server(): new_socket is assigned while threads may not have read it. *)
Accept ==
    /\ acceptor = "accept" /\ backlog # <<>>
    /\ new_socket' = Head(backlog)
    /\ backlog' = Tail(backlog)
    /\ acceptor' = "identify"
    /\ UNCHANGED <<place, sent, gone, stream, thread, local, entries, up>>

(* Mutant: the loop reads on from the client it has identified.            *)
IdentifiedAgain(c, start) ==
    /\ UNCHANGED acceptor
    /\ thread' = [thread EXCEPT ![c] = start]
    /\ UNCHANGED <<client, new_socket, local, entries, up>>

Identified(c, start) ==
    /\ acceptor' = "accept"
    /\ thread' = [thread EXCEPT ![c] = start]
    /\ UNCHANGED <<client, new_socket, local, entries, up>>

(* Something else is in front of the stream: a disconnect message, which   *)
(* begins with 1, and so does INTRO_USER; or what follows an identity that *)
(* a thread started late has taken.                                        *)
Misidentify(c) ==
    /\ Arrived(c) /\ Kind(c) # "id"
    /\ TakeSome(c)
    /\ \/ Kind(c) = "bye" /\ Identified(c, "user")
       \/ Kind(c) # "bye" /\ \E start \in {"none", "observer", "user"} : Identified(c, start)

(* Mutant: the read is retried at the end of the stream.                   *)
IdentifyForever ==
    LET c == new_socket
    IN /\ acceptor = "identify"
       /\ \/ Arrived(c) /\ Kind(c) = "id" /\ Take(c) /\ Identified(c, "observer")
          \/ Misidentify(c)

(* The accept loop itself waits for the identity.                          *)
Identify ==
    LET c == new_socket
    IN /\ acceptor = "identify"
       /\ \/ Arrived(c) /\ Kind(c) = "id" /\ Take(c) /\ Identified(c, "observer")
          \/ Misidentify(c)
          \/ EndOfStream(c) /\ UNCHANGED stream /\ Identified(c, "none")

---------------------------------------------------------------------------
(* observer_thread                                                         *)

NotThread == <<client, server, up>>

GoesTo(t, at) == thread' = [thread EXCEPT ![t] = at]
Adds(t, event) == entries' = [entries EXCEPT ![t] = Append(@, event)]
AddsSpurious(t) == IF entries[t] # <<>> /\ Last(entries[t]) = 0
                   THEN UNCHANGED entries ELSE Adds(t, 0)

(* The thread reads the socket through the pointer it was given.  A        *)
(* user_thread here reads what was not meant for it.                       *)
Start(t) ==
    /\ thread[t] \in {"observer", "user"}
    /\ sock' = [sock EXCEPT ![t] = new_socket]
    /\ GoesTo(t, IF thread[t] = "observer" THEN "monitored_size" ELSE "adrift")
    /\ UNCHANGED <<stream, pending, entries, NotThread>>

(* read_string(), twice.  Neither what it returns nor how much was read is *)
(* tested.                                                                 *)
ReadIntroduction(t) ==
    LET s == sock[t]
    IN /\ thread[t] \in DOMAIN Expected
       /\ \/ /\ Arrived(s) /\ Kind(s) = Expected[thread[t]]
             /\ Take(s)
             /\ GoesTo(t, Following[thread[t]])
          \/ /\ (Arrived(s) /\ Kind(s) # Expected[thread[t]]) \/ EndOfStream(s)
             /\ GoesTo(t, "adrift")
             /\ UNCHANGED stream
       /\ UNCHANGED <<local, entries, NotThread>>

ReadHeaderUntil(t, over) ==
    LET s == sock[t]
    IN /\ thread[t] = "loop"
       /\ \/ /\ Arrived(s) /\ Kind(s) = "header"
             /\ Adds(t, Head(stream[s]).event)
             /\ Take(s) /\ UNCHANGED <<thread, pending>>
          \/ /\ Arrived(s) /\ Kind(s) = "header with len"
             /\ pending' = [pending EXCEPT ![t] = Head(stream[s]).event]
             /\ Take(s) /\ GoesTo(t, "name") /\ UNCHANGED entries
          \/ /\ Arrived(s) /\ Kind(s) = "bye"
             /\ Take(s) /\ GoesTo(t, "ended") /\ UNCHANGED <<pending, entries>>
          \/ /\ Arrived(s) /\ Kind(s) \notin {"header", "header with len", "bye"}
             /\ GoesTo(t, "adrift") /\ UNCHANGED <<stream, pending, entries>>
          \/ /\ over
             /\ GoesTo(t, "ended") /\ UNCHANGED <<stream, pending, entries>>
       /\ UNCHANGED <<sock, NotThread>>

(* Mutant: the test for valread <= 0 is dropped.                           *)
ReadHeaderForever(t) == ReadHeaderUntil(t, FALSE)

ReadHeader(t) == ReadHeaderUntil(t, EndOfStream(sock[t]))

(* Mutant: the test for valread == 0 is dropped.                           *)
ReadNameUntested(t) ==
    LET s == sock[t]
    IN /\ thread[t] = "name"
       /\ IF EndOfStream(s) THEN UNCHANGED stream ELSE Arrived(s) /\ Take(s)
       /\ Adds(t, pending[t]) /\ GoesTo(t, "loop")
       /\ UNCHANGED <<local, NotThread>>

(* Whatever arrives is taken for the name, a disconnect message too.       *)
ReadName(t) ==
    LET s == sock[t]
    IN /\ thread[t] = "name"
       /\ \/ /\ Arrived(s) /\ Kind(s) = "name"
             /\ IF Head(stream[s]).event = pending[t]
                THEN Adds(t, pending[t]) ELSE AddsSpurious(t)
             /\ Take(s) /\ GoesTo(t, "loop")
          \/ /\ Arrived(s) /\ Kind(s) # "name"
             /\ AddsSpurious(t) /\ TakeSome(s) /\ GoesTo(t, "adrift")
          \/ /\ EndOfStream(s)
             /\ GoesTo(t, "ended") /\ UNCHANGED <<stream, entries>>
       /\ UNCHANGED <<local, NotThread>>

(* The directory's name is copied to a buffer of BUF_SIZE, and an entry is *)
(* put together in another, by strcpy() and strcat(): names that are too   *)
(* long are written past their ends.                                       *)
Overflows(t) ==
    LET s == sock[t]
    IN /\ thread[t] \in {"monitored", "loop", "name"}
       /\ Arrived(s) /\ s \notin Fitting
       /\ Kind(s) = [monitored |-> "string", loop |-> "header", name |-> "name"][thread[t]]
       /\ Take(s)
       /\ GoesTo(t, "adrift")
       /\ UNCHANGED <<local, entries, NotThread>>

(* A thread that has lost its place, or its variables, reads on: what it   *)
(* takes for an event, a length or a string is indeterminate, and so is    *)
(* whether the process outlives it (read_string()'s NULL goes to strcpy(), *)
(* a user_thread sends to a socket that is closed, a stack is overwritten).*)
Drift(t) ==
    LET s == sock[t]
    IN /\ thread[t] = "adrift"
       /\ \/ /\ Arrived(s) /\ TakeSome(s)
             /\ AddsSpurious(t) \/ UNCHANGED entries
             /\ GoesTo(t, "ended") \/ UNCHANGED thread
             /\ UNCHANGED up
          \/ /\ EndOfStream(s)
             /\ GoesTo(t, "ended")
             /\ UNCHANGED <<stream, entries, up>>
          \/ /\ up' = FALSE
             /\ UNCHANGED <<stream, thread, entries>>
       /\ UNCHANGED <<client, server, local>>

Serves(t) == \/ Start(t) \/ ReadIntroduction(t)
             \/ ReadHeader(t) \/ ReadName(t) \/ Overflows(t) \/ Drift(t)

Acts(c) == \/ Connect(c) \/ Introduce(c) \/ SendHeader(c) \/ SendName(c)
           \/ Interrupted(c) \/ Dies(c)

Next == /\ up
        /\ \/ Accept \/ Identify
           \/ \E c \in Clients : Acts(c) \/ Serves(c)

Spec == Init /\ [][Next]_vars

(* The accept loop and the threads run; a client may stop anywhere.        *)
FairSpec ==
    /\ Spec
    /\ WF_vars(up /\ (Accept \/ Identify))
    /\ \A c \in Clients : WF_vars(up /\ Serves(c))

---------------------------------------------------------------------------
(* PROPERTIES *)

Places == DOMAIN Expected \cup {"none", "observer", "user", "loop", "name",
                                "adrift", "ended"}

(* Every variable has its type.                                            *)
TypeOK ==
    /\ place \in [Clients -> -1..Within]
    /\ \A c \in Clients : sent[c] \in 0..MaxEvents[c]
    /\ gone \in [Clients -> {"no", "bye", "died"}]
    /\ \A c \in Clients : \A i \in DOMAIN stream[c] :
          stream[c][i].event \in 0..sent[c]
    /\ backlog \in Seq(Clients)
    /\ acceptor \in {"accept", "identify"}
    /\ new_socket \in Clients \cup {NoClient}
    /\ acceptor = "identify" => new_socket \in Clients
    /\ thread \in [Clients -> Places]
    /\ \A t \in Clients : sock[t] = NoClient <=> thread[t] \in {"none", "observer", "user"}
    /\ pending \in [Clients -> Nat]
    /\ entries \in [Clients -> Seq(Nat)]
    /\ up \in BOOLEAN

(* The thread serves its client's socket, and no other thread does.        *)
Alone(t) == \A u \in Clients : sock[u] = t <=> u = t

(* The client left, if it did, where the thread can tell: between events,  *)
(* or without a word after its introduction.                               *)
LeftInOrder(c) == \/ gone[c] = "no"
                  \/ place[c] = Ready
                  \/ place[c] = Within /\ gone[c] = "died"

(* And its names fit: near the limit of 1023 characters they are not just  *)
(* truncated, as Assignment02/README.md:8-10 has it.                       *)
Orderly(c) == c \in Fitting /\ LeftInOrder(c)

(* A thread that alone serves an orderly client adds exactly the events    *)
(* the client sent, in their order, each with its own name, and never      *)
(* loses its place in the stream (server.c:61, DESIGN.md, Phase 3).        *)
EntriesAreEvents ==
    \A t \in Clients :
        Alone(t) /\ Orderly(t) =>
            /\ thread[t] # "adrift"
            /\ entries[t] = [i \in 1..Len(entries[t]) |-> i]
            /\ Len(entries[t]) <= sent[t]

(* No other thread reads the client's stream, nor its thread another's.    *)
Mine(t) == sock[t] \in {NoClient, t} /\ \A u \in Clients : sock[u] = t => u = t

(* The sessions as a client may count on them, as long as its thread and   *)
(* its socket belong together and it leaves in order.                      *)
AsPromised(c) ==
    IF Mine(c) /\ Orderly(c)
    THEN [reported |-> sent[c], added |-> entries[c],
          client |-> IF gone[c] = "no" THEN "here"
                     ELSE IF place[c] = Within THEN "cut" ELSE "left",
          ended |-> thread[c] = "ended"]
    ELSE [reported |-> 0, added |-> <<>>, client |-> "broken", ended |-> FALSE]

Promised == INSTANCE Delivery WITH session <- [c \in Clients |-> AsPromised(c)]

(* The threads deliver each client's events, step by step: one entry for   *)
(* each, in their order, of what was reported and not beyond it, and no    *)
(* end before the last of them (server.c:60-64, DESIGN.md, Phase 3).       *)
ImplementsDelivery == Promised!Spec

(* A thread whose client is gone ends, wherever the two of them were.      *)
ThreadsEnd ==
    \A t \in Clients :
        ~<>[](sock[t] # NoClient /\ gone[sock[t]] # "no" /\ thread[t] # "ended" /\ up)

(* The accept loop waits for a client that is there and says nothing.      *)
Waits ==
    /\ acceptor = "identify" /\ thread[new_socket] = "none"
    /\ ~Arrived(new_socket) /\ gone[new_socket] = "no"

(* A client that stays gets a thread, if no other's has taken its socket,  *)
(* unless the accept loop waits for ever: nothing but a client that stays  *)
(* silent keeps the loop from the others for good (server.c:450-471).      *)
Received ==
    \A c \in Clients :
        <>[](/\ place[c] >= 0 /\ thread[c] = "none" /\ gone[c] = "no" /\ up
             /\ \A t \in Clients \ {c} : sock[t] # c)
            => <>[]Waits

(* The events a client has told, name and all.                             *)
Told(c) == IF place[c] = Within THEN sent[c] - 1 ELSE sent[c]

(* Every event that an orderly client has told becomes an entry, unless its*)
(* thread and its socket do not belong together, though it may be gone by  *)
(* then (server.c:102-156).                                                *)
EventsArrive ==
    \A c \in Clients :
        <>[](Len(entries[c]) < Told(c) /\ Mine(c) /\ Orderly(c) /\ up) => <>[]Waits

(* What the documentation claims and the code does not keep                *)

(* "Based on the enum, the server spawns a thread that will handle         *)
(* everything from now on" (DESIGN.md, Phase 1): no two threads handle one *)
(* client.                                                                 *)
HandledByOneThread ==
    \A t, u \in Clients : sock[t] = sock[u] /\ sock[t] # NoClient => t = u
==========================================================================
