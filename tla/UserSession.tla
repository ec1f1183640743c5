--------------------------- MODULE UserSession ---------------------------
(***************************************************************************)
(* The session of a user client, piece by piece: do_user_client() on the   *)
(* one side (user_client.c), user_thread's send_entries() on the other     *)
(* (server_data.c), the client's auto_kill thread (notapp_base.c), and how *)
(* the accept loop hands the one's socket to the other (server.c): by the  *)
(* address of new_socket, which it assigns again at the next accept().     *)
(* The session refines the phase machine it extends: TrafficEnforcer's one *)
(* step SendEntries is here the last of a send() of the count and two for  *)
(* every string, and what a read() returns depends on the stream.  The     *)
(* observers' threads move observer_count as they like (EntryArray).       *)
(***************************************************************************)
EXTENDS TrafficEnforcer, Sequences

CONSTANTS
    MaxObservers,   \* bounds observer_count
    MaxIntruders,   \* bounds the connections read by threads of observers
    NoUser          \* the socket of any other kind of client

ASSUME MaxObserversNat == MaxObservers \in Nat
ASSUME MaxIntrudersNat == MaxIntruders \in Nat
ASSUME NoUserIsNone == NoUser \notin Users

(* A user client, its connection, and the thread created for it have one   *)
(* name; the thread may come to serve another connection.                  *)
VARIABLES
    new_socket, \* do_server()'s: whose connection was accepted last
    thread,     \* per thread: "none", "created", or "begun" to run
    socket,     \* per thread: the connection it was handed
    intruders,  \* the connections that threads of observers were handed
    observer_count,     \* server_data.c
    sent,       \* per thread: -1, or the pieces sent after the count
    code,       \* the connections with a code sent and not read
    conn,       \* per connection: "open", "closed" or "reset" by its client
    down,       \* per connection: the pieces sent and not read
    fatal,      \* per connection: "sent" or "reset" if a send() on it, or its
                \* error, has made the next send() raise SIGPIPE, else "no"
    client,     \* per client: "ask", what it waits for, "lost", "gone"
    left,       \* per client: the strings it has yet to read
    is_dormant, \* per client (notapp_base.c)
    disturbed   \* history, per client: observer_count moved during an answer,
                \* a read returned a part of a piece, or threads and
                \* connections were not handed to each other one to one

handover    == <<new_socket, thread, socket, intruders>>
stream      == <<code, conn, down, fatal>>
atClient    == <<client, left, is_dormant>>
session     == <<handover, observer_count, sent, stream, atClient, disturbed>>
sessionVars == <<vars, session>>

Piece == [is : {"count"}, n : 0..MaxObservers]
         \cup [is : {"size", "string"}, n : {0}]

Waiting(u) == client[u] \in {"count", "size", "string"}
Alive(u)   == client[u] # "gone"

SessionInit ==
    /\ Init
    /\ new_socket = NoUser
    /\ thread = [u \in Users |-> "none"]
    /\ socket = [u \in Users |-> NoUser]
    /\ intruders = {}
    /\ observer_count \in 0..MaxObservers
    /\ sent = [u \in Users |-> -1]
    /\ code = {}
    /\ conn = [u \in Users |-> "closed"]
    /\ down = [u \in Users |-> <<>>]
    /\ fatal = [u \in Users |-> "no"]
    /\ client = [u \in Users |-> "gone"]
    /\ left = [u \in Users |-> 0]
    /\ is_dormant = [u \in Users |-> FALSE]
    /\ disturbed = [u \in Users |-> FALSE]

---------------------------------------------------------------------------
(* The accept loop, and the threads it creates.  Those of observers are    *)
(* here as far as they can be handed a user's connection; what they make   *)
(* of its stream, and the server's life, is in Session.                    *)

ReadBy(t) == IF thread[t] = "begun" THEN {socket[t]} ELSE {}
Read      == intruders \cup UNION {ReadBy(t) : t \in Users}

(* accept(), the identity, and pthread_create().  (A client's name is used *)
(* again when its last connection is read by nobody any more.)             *)
Connects(c) ==
    /\ client[c] = "gone" /\ thread[c] = "none" /\ c \notin Read
    /\ new_socket' = c
    /\ thread' = [thread EXCEPT ![c] = "created"]
    /\ client' = [client EXCEPT ![c] = "ask"]
    /\ code' = code \ {c}
    /\ conn' = [conn EXCEPT ![c] = "open"]
    /\ fatal' = [fatal EXCEPT ![c] = "no"]
    /\ disturbed' = [disturbed EXCEPT ![c] = FALSE]
    /\ UNCHANGED <<vars, socket, intruders, observer_count, sent, down, left,
                   is_dormant>>

(* A client of another kind.  (Nobody sees it but a thread yet to begin.)  *)
AcceptsOther ==
    /\ \E t \in Users : thread[t] = "created"
    /\ new_socket' = NoUser
    /\ UNCHANGED <<vars, thread, socket, intruders, observer_count, sent, stream,
                   atClient, disturbed>>

(* The thread reads new_socket: what was accepted last.                    *)
Starts(t) ==
    /\ thread[t] = "created"
    /\ thread' = [thread EXCEPT ![t] = "begun"]
    /\ socket' = [socket EXCEPT ![t] = new_socket]
    /\ disturbed' = [u \in Users |-> \/ disturbed[u]
                                     \/ new_socket # t /\ u \in {t, new_socket}]
    /\ UNCHANGED <<vars, new_socket, intruders, observer_count, sent, stream,
                   atClient>>

(* So does that of an observer, created at any time before.                *)
OtherStarts ==
    /\ new_socket # NoUser /\ Cardinality(intruders) < MaxIntruders
    /\ intruders' = intruders \cup {new_socket}
    /\ disturbed' = [disturbed EXCEPT ![new_socket] = TRUE]
    /\ UNCHANGED <<vars, new_socket, thread, socket, observer_count, sent, stream,
                   atClient>>

(* A connection reports that it was reset once, to the next read() or      *)
(* send(); from then on it is like one that was closed.                    *)
ErrorTaken(c) ==
    [conn EXCEPT ![c] = IF @ = "reset" THEN "closed" ELSE @]

(* An observer's thread reads a code, an error, or that it can go.         *)
Intrudes(c) ==
    /\ c \in intruders
    /\ \/ c \in code /\ code' = code \ {c} /\ UNCHANGED <<conn, intruders>>
       \/ /\ c \notin code /\ conn[c] = "reset" /\ conn' = ErrorTaken(c)
          /\ UNCHANGED <<code, intruders>>
       \/ /\ conn[c] # "open" /\ intruders' = intruders \ {c}
          /\ UNCHANGED <<code, conn>>
    /\ UNCHANGED <<vars, new_socket, thread, socket, observer_count, sent, down,
                   fatal, atClient, disturbed>>

---------------------------------------------------------------------------
(* The server's user threads, and the phases                               *)

Phases ==
    /\ \/ Timer \/ Sorter
       \/ \E u \in Users : SeeReading(u) \/ StoreDone(u) \/ SeeReadingOver(u)
    /\ UNCHANGED session

(* register_observer() and unregister_observer() do not wait for a send.   *)
ObserverCountMoves ==
    /\ observer_count' \in {observer_count - 1, observer_count + 1} \cap 0..MaxObservers
    /\ disturbed' = [u \in Users |-> disturbed[u] \/ sent[u] >= 0]
    /\ UNCHANGED <<vars, handover, sent, stream, atClient>>

Registers(t) ==
    /\ thread[t] = "begun"
    /\ RegisterUser(t)
    /\ UNCHANGED session

(* A read() that returns -1 takes the error.  Of another kind of client    *)
(* the thread may read anything.                                           *)
TakesCodeIf(t, readable) ==
    /\ ReadCode(t)
    /\ LET c == socket[t] IN
         \/ c = NoUser /\ UNCHANGED <<code, conn, fatal>>
         \/ c \in code /\ code' = code \ {c} /\ UNCHANGED <<conn, fatal>>
         \/ /\ c \in Users \ code /\ readable
            /\ conn' = ErrorTaken(c)
            /\ fatal' = [fatal EXCEPT ![c] = IF conn[c] = "reset" THEN "reset" ELSE @]
            /\ UNCHANGED code
    /\ UNCHANGED <<handover, observer_count, sent, down, atClient, disturbed>>

(* Mutant: the test for valread == 0 is dropped.                           *)
TakesAnything(t) ==
    TakesCodeIf(t, socket[t] \in Users /\ conn[socket[t]] # "open")

TakesCode(t) ==
    TakesCodeIf(t, socket[t] \in Users /\ conn[socket[t]] = "reset")

Disconnects(t) ==
    /\ ReadDisconnect(t)
    /\ socket[t] \in Users => socket[t] \notin code /\ conn[socket[t]] = "closed"
    /\ thread' = [thread EXCEPT ![t] = "none"]
    /\ socket' = [socket EXCEPT ![t] = NoUser]
    /\ UNCHANGED <<new_socket, intruders, observer_count, sent, stream, atClient,
                   disturbed>>

(* A send() on a connection whose client is gone succeeds, or returns the  *)
(* error of the reset; it is the one after it that raises SIGPIPE.         *)
Sends(t, piece) ==
    /\ user[t] = "send"
    /\ sent' = [sent EXCEPT ![t] = @ + 1]
    /\ LET c == socket[t] IN
         \/ c = NoUser /\ UNCHANGED <<conn, down, fatal>>
         \/ /\ c \in Users /\ conn[c] = "open"
            /\ down' = [down EXCEPT ![c] = Append(@, piece)]
            /\ UNCHANGED <<conn, fatal>>
         \/ /\ c \in Users /\ conn[c] # "open"
            /\ conn' = ErrorTaken(c)
            /\ fatal' = [fatal EXCEPT ![c] = IF @ = "no" THEN "sent" ELSE @]
            /\ UNCHANGED down
    /\ UNCHANGED <<vars, handover, observer_count, code, atClient, disturbed>>

Announce(t) ==
    /\ sent[t] = -1
    /\ Sends(t, [is |-> "count", n |-> observer_count])

(* The loop over i = sent \div 2, and in it send_string()'s two sends.  Its *)
(* bound is observer_count, read again for each string.  Mutants: the loop *)
(* stops a string early, or goes on for one more.                          *)
AllButTheLast == observer_count - 1
OneMore       == observer_count + 1
StringsToSend == observer_count

InString(t) == sent[t] >= 0 /\ sent[t] % 2 = 1
LoopsOn(t)  == sent[t] >= 0 /\ ~InString(t) /\ sent[t] \div 2 < StringsToSend
LoopOver(t) == sent[t] >= 0 /\ ~InString(t) /\ ~LoopsOn(t)

SendString(t) ==
    \/ LoopsOn(t)  /\ Sends(t, [is |-> "size", n |-> 0])
    \/ InString(t) /\ Sends(t, [is |-> "string", n |-> 0])

AllSentBy(t, step) ==
    /\ LoopOver(t)
    /\ step
    /\ sent' = [sent EXCEPT ![t] = -1]
    /\ UNCHANGED <<handover, observer_count, stream, atClient, disturbed>>

(* Mutant: an answer without strings is not counted as done.               *)
AllSentUncounted(t) ==
    AllSentBy(t, IF sent[t] = 0
                   THEN /\ UserPasses(t, "send", "hold")
                        /\ UNCHANGED <<reader_count, reader_done_count, loaded, up,
                                       history>>
                   ELSE SendEntries(t))

AllSent(t) == AllSentBy(t, SendEntries(t))

PipeBreaks(t) ==
    /\ socket[t] \in Users => fatal[socket[t]] # "no"
    /\ BrokenPipe(t)
    /\ UNCHANGED session

SendsAnswer(t) == Announce(t) \/ SendString(t) \/ AllSent(t) \/ PipeBreaks(t)

---------------------------------------------------------------------------
(* The client's main thread                                                *)

(* alert_activity(), then the code: at most one is unread.  (That a lost   *)
(* client asks only when it has read everything bounds what is under way.) *)
Asks(u) ==
    /\ Alive(u) /\ u \notin code
    /\ code' = code \cup {u}
    /\ \/ client[u] = "ask" /\ client' = [client EXCEPT ![u] = "count"]
       \/ client[u] = "lost" /\ down[u] = <<>> /\ UNCHANGED client
    /\ is_dormant' = [is_dormant EXCEPT ![u] = FALSE]
    /\ UNCHANGED <<vars, handover, observer_count, sent, conn, down, fatal, left,
                   disturbed>>

(* The read() of one piece, if it is there and whole.                      *)
Reads(u, piece) ==
    /\ client[u] = piece
    /\ down[u] # <<>> /\ Head(down[u]).is = piece
    /\ down' = [down EXCEPT ![u] = Tail(@)]
    /\ UNCHANGED <<vars, handover, observer_count, sent, code, conn, fatal, is_dormant,
                   disturbed>>

(* The loop over the strings: to the next one, or round again.             *)
WithLeft(u, n) ==
    /\ left' = [left EXCEPT ![u] = n]
    /\ client' = [client EXCEPT ![u] = IF n > 0 THEN "size" ELSE "ask"]

ReadCount(u)  == Reads(u, "count") /\ WithLeft(u, Head(down[u]).n)
ReadSize(u)   == /\ Reads(u, "size")
                 /\ client' = [client EXCEPT ![u] = "string"] /\ UNCHANGED left
ReadString(u) == Reads(u, "string") /\ WithLeft(u, left[u] - 1)

(* It reads another piece than it waits for, whole or in part, or (the     *)
(* stream's doing) a part of the one it does.  From then on it reads on in *)
(* the wrong places: it takes what comes, asks again, waits or crashes.    *)
LosesPlace(u) ==
    /\ Waiting(u) /\ down[u] # <<>>
    /\ client' = [client EXCEPT ![u] = "lost"]
    /\ left' = [left EXCEPT ![u] = 0]
    /\ down' = [down EXCEPT ![u] = IF Head(@).is = client[u] THEN @ ELSE Tail(@)]
    /\ disturbed' = [disturbed EXCEPT ![u] = @ \/ Head(down[u]).is = client[u]]
    /\ UNCHANGED <<vars, handover, observer_count, sent, code, conn, fatal, is_dormant>>

ReadsAstray(u) ==
    /\ client[u] = "lost" /\ down[u] # <<>>
    /\ down' = [down EXCEPT ![u] = Tail(@)]
    /\ UNCHANGED <<vars, handover, observer_count, sent, code, conn, fatal, atClient,
                   disturbed>>

(* The client is gone, by cleaning up after itself, or by a signal it does *)
(* not catch or a crash of its own (strlen() of NULL): then the connection *)
(* is reset if anything was left to read.                                  *)
Ends(u, how) ==
    /\ Alive(u)
    /\ conn' = [conn EXCEPT ![u] = how]
    /\ client' = [client EXCEPT ![u] = "gone"]
    /\ left' = [left EXCEPT ![u] = 0]
    /\ down' = [down EXCEPT ![u] = <<>>]
    /\ is_dormant' = [is_dormant EXCEPT ![u] = FALSE]
    /\ UNCHANGED <<vars, handover, observer_count, sent, code, fatal, disturbed>>

Interrupted(u) == Ends(u, "closed")
Dies(u)        == Ends(u, IF down[u] = <<>> THEN "closed" ELSE "reset")

---------------------------------------------------------------------------
(* auto_kill(), when its sleep is over                                     *)

(* Mutant: the flag it leaves for its next look is lost.                   *)
ForgetsDormant(u) == Alive(u) /\ ~is_dormant[u] /\ UNCHANGED sessionVars

FindsDormant(u) ==
    /\ Alive(u) /\ ~is_dormant[u]
    /\ is_dormant' = [is_dormant EXCEPT ![u] = TRUE]
    /\ UNCHANGED <<vars, handover, observer_count, sent, stream, client, left, disturbed>>

(* raise(SIGINT): the handler jumps into main()'s environment from another *)
(* thread, which cleans up, if that works, or crashes.                     *)
KillsDormant(u) == is_dormant[u] /\ (Interrupted(u) \/ Dies(u))

AutoKill(u) == FindsDormant(u) \/ KillsDormant(u)

---------------------------------------------------------------------------
ReadsAnswer(u) == ReadCount(u) \/ ReadSize(u) \/ ReadString(u)

UserThread(t) == Starts(t) \/ Registers(t) \/ TakesCode(t) \/ Disconnects(t) \/ SendsAnswer(t)

UserClient(u) ==
    \/ Connects(u) \/ Asks(u) \/ ReadsAnswer(u) \/ LosesPlace(u) \/ ReadsAstray(u)
    \/ Interrupted(u) \/ Dies(u) \/ AutoKill(u)

(* The sessions end with the server: what the clients that are left find   *)
(* then (read() returns 0, and they clean up) nobody can see.              *)
SessionNext ==
    \/ /\ up
       /\ \/ Phases \/ ObserverCountMoves \/ AcceptsOther \/ OtherStarts
          \/ \E u \in Users : UserThread(u) \/ UserClient(u) \/ Intrudes(u)
    \/ Terminated /\ UNCHANGED session

SessionSpec == SessionInit /\ [][SessionNext]_sessionVars

(* The server's threads as TrafficEnforcer has them, and they start; what  *)
(* a user client has sent is read, and it reads what was sent to it.  That *)
(* clients come, ask, leave or are killed is not assumed.                  *)
SessionFairness ==
    /\ Fairness
    /\ \A u \in Users :
          /\ WF_sessionVars(up /\ (\/ Starts(u) \/ Registers(u)
                                   \/ socket[u] # NoUser /\ TakesCode(u)
                                   \/ socket[u] # NoUser /\ Disconnects(u)))
          /\ WF_sessionVars(up /\ ReadsAnswer(u))

FairSessionSpec == SessionSpec /\ SessionFairness

---------------------------------------------------------------------------
(* PROPERTIES *)

(* Every variable has its type. *)
SessionTypeOK ==
    /\ TypeOK
    /\ new_socket \in Users \cup {NoUser}
    /\ thread \in [Users -> {"none", "created", "begun"}]
    /\ socket \in [Users -> Users \cup {NoUser}]
    /\ intruders \in SUBSET Users
    /\ observer_count \in 0..MaxObservers
    /\ sent \in [Users -> -1..2 * MaxObservers]
    /\ code \in SUBSET Users
    /\ conn \in [Users -> {"open", "closed", "reset"}]
    /\ down \in [Users -> Seq(Piece)]
    /\ fatal \in [Users -> {"no", "sent", "reset"}]
    /\ client \in [Users -> {"ask", "count", "size", "string", "lost", "gone"}]
    /\ left \in [Users -> 0..MaxObservers]
    /\ is_dormant \in [Users -> BOOLEAN]
    /\ disturbed \in [Users -> BOOLEAN]

(* As long as nothing disturbs them, client and thread stay in step,       *)
(* though they share only a stream: the client never takes one piece for   *)
(* another, it waits only for what is under way or was asked for, and asks *)
(* again only when the last answer was complete and read to its end        *)
(* (user_client.c:61-80, server_data.c:281-286).                           *)
InStep ==
    \A u \in Users : Alive(u) /\ ~disturbed[u] =>
        /\ client[u] # "lost"
        /\ Waiting(u) /\ user[u] # "send" /\ down[u] = <<>> => u \in code
        /\ u \in code => /\ client[u] = "count" /\ down[u] = <<>>
                         /\ user[u] = "send" => LoopOver(u)

(* A client that leaves in order costs the server its life only by a       *)
(* second send() after that in one answer: the goodbye it left in the      *)
(* stream ends its thread before the next one begins, as long as nothing   *)
(* disturbed the two (server.c:191-195).  One that dies before it has read *)
(* everything does so by the first, as its thread takes read()'s -1 for a  *)
(* code.  Other than that, only a thread that was handed the socket of     *)
(* another kind of client sends into a broken pipe.                        *)
FirstSendSurvived ==
    ~up => \E t \in Users :
              /\ user[t] = "send"
              /\ \/ socket[t] = NoUser
                 \/ fatal[socket[t]] = "reset"
                 \/ fatal[socket[t]] = "sent" /\ (sent[t] >= 0 \/ disturbed[socket[t]])

(* The session implements the phase machine, whose properties therefore    *)
(* hold of it: no piece of an answer, no lost client and no kill is seen   *)
(* there as anything but a step of its threads or clients.                 *)
ImplementsPhases == Spec

(* No client waits for ever for its answer, or the rest of it, unless      *)
(* something disturbs it, a late start of its thread or of another's among *)
(* them, or the server ends: whatever phase it asks in, and however other  *)
(* rounds were broken off.                                                 *)
Answered == \A u \in Users : ~<>[](Waiting(u) /\ ~disturbed[u] /\ up)

(* A client that waits for a string that never comes, as observer_count    *)
(* fell while it was sent the others, waits for its thread while that      *)
(* waits for it; one whose thread serves another's connection waits for    *)
(* nobody.  As long as auto_kill keeps looking, neither does for ever      *)
(* (notapp_base.c:121-132).                                                *)
ComesBack ==
    (\A u \in Users : WF_sessionVars(up /\ AutoKill(u)))
        => \A u \in Users : ~<>[](Waiting(u) /\ up)

(* No thread reads the connection of a client that is gone for ever: it    *)
(* ends, wherever it was, unless the server does, and is not counted among *)
(* the readers any more (server.c:190-195).                                *)
ClientReaped ==
    \A t \in Users :
        ~<>[](user[t] # "absent" /\ socket[t] # NoUser /\ ~Alive(socket[t]) /\ up)

==========================================================================
