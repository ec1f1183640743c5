-------------------------- MODULE SessionProofs --------------------------
(***************************************************************************)
(* The safety properties of Session, proved for every set of observer      *)
(* clients and any number of events: as long as no other thread reads a    *)
(* client's stream, the pieces in it lead from where its thread is to      *)
(* where the client is.                                                    *)
(***************************************************************************)
EXTENDS Session, SequenceTheorems, Recursion

(* A place in what a client sends: the pieces of the introduction before   *)
(* it, the events begun before it, and whether the client has said goodbye.*)
Point(at, events, over) == [place |-> at, sent |-> events, over |-> over]
Points(limit) == [place : 0..Within, sent : 0..limit, over : BOOLEAN]

(* One piece further.                                                      *)
Leads(p, piece, q) ==
    /\ ~p.over
    /\ \/ piece.kind = "bye" /\ q = Point(p.place, p.sent, TRUE)
       \/ /\ p.place \in 0..Ready - 1 /\ piece.kind = Introduction[p.place + 1]
          /\ q = Point(p.place + 1, p.sent, FALSE)
       \/ /\ p.place = Ready /\ piece.event = p.sent + 1
          /\ \/ piece.kind = "header" /\ q = Point(Ready, p.sent + 1, FALSE)
             \/ piece.kind = "header with len" /\ q = Point(Within, p.sent + 1, FALSE)
       \/ /\ p.place = Within /\ piece.kind = "name" /\ piece.event = p.sent
          /\ q = Point(Ready, p.sent, FALSE)

(* Where the thread is in it, and where the client is.                     *)
Reached == [none |-> 0, observer |-> 1, monitored_size |-> 1, monitored |-> 2,
            host_size |-> 3, host |-> 4, loop |-> Ready, name |-> Within]
Reading(t) == Point(Reached[thread[t]],
                    IF thread[t] = "name" THEN Len(entries[t]) + 1 ELSE Len(entries[t]),
                    FALSE)
Sending(t) == Point(place[t], sent[t], gone[t] = "bye")

(* The pieces on the way lead from the one to the other.                   *)
IsPath(path, from, pieces, to) ==
    /\ path[0] = from /\ path[Len(pieces)] = to
    /\ \A i \in 1..Len(pieces) : Leads(path[i - 1], pieces[i], path[i])
InTurn(t) ==
    \E path \in [0..Len(stream[t]) -> Points(sent[t])] :
        IsPath(path, Reading(t), stream[t], Sending(t))

(* What there is to know of a thread and an orderly client whose stream    *)
(* nobody else reads.                                                      *)
Followed(t) ==
    Mine(t) /\ Orderly(t) /\ place[t] >= 0 =>
        /\ thread[t] \notin {"user", "adrift"}
        /\ entries[t] = [i \in 1..Len(entries[t]) |-> i]
        /\ thread[t] = "name" => pending[t] = Len(entries[t]) + 1
        /\ IF thread[t] = "ended"
           THEN /\ gone[t] # "no"
                /\ Len(entries[t]) = IF place[t] = Within THEN sent[t] - 1 ELSE sent[t]
           ELSE InTurn(t)

(* A client is accepted once, and identified before it has a thread.       *)
Accepting ==
    /\ \A c \in Clients : place[c] = -1 =>
          /\ thread[c] = "none" /\ sent[c] = 0 /\ gone[c] = "no"
          /\ stream[c] = <<>> /\ entries[c] = <<>>
    /\ \A i \in 1..Len(backlog) :
          /\ thread[backlog[i]] = "none" /\ place[backlog[i]] # -1
          /\ acceptor = "identify" => backlog[i] # new_socket
    /\ \A i, j \in 1..Len(backlog) : backlog[i] = backlog[j] => i = j
    /\ acceptor = "identify" => thread[new_socket] = "none" /\ place[new_socket] # -1
    /\ \A t \in Clients : thread[t] # "none" => new_socket \in Clients

Pieces == [kind : {"id", "size", "string", "header", "header with len", "name", "bye", "rest"},
           event : Nat]

(* The types that TypeOK leaves open.                                      *)
Typed ==
    /\ TypeOK
    /\ sent \in [Clients -> Nat]
    /\ stream \in [Clients -> Seq(Pieces)]
    /\ sock \in [Clients -> Clients \cup {NoClient}]

StreamInv == Typed /\ Accepting /\ (\A t \in Clients : Followed(t))

---------------------------------------------------------------------------
(* Types                                                                   *)

(* What a sequence of pieces turns into as pieces are sent and read.       *)
LEMMA PiecesStay ==
    ASSUME NEW s \in Seq(Pieces)
    PROVE  /\ \A piece \in Pieces : /\ Append(s, piece) \in Seq(Pieces)
                                   /\ Len(Append(s, piece)) = Len(s) + 1
           /\ s # <<>> => /\ Head(s) \in Pieces /\ Head(s) = s[1]
                          /\ Tail(s) \in Seq(Pieces) /\ Len(Tail(s)) = Len(s) - 1
                          /\ \A i \in 1..Len(Tail(s)) : Tail(s)[i] = s[i + 1]
                          /\ Len(s) > 0
           /\ Len(s) \in Nat /\ DOMAIN s = 1..Len(s)
           /\ s = <<>> <=> Len(s) = 0
<1>1. \A piece \in Pieces : /\ Append(s, piece) \in Seq(Pieces)
                            /\ Len(Append(s, piece)) = Len(s) + 1
  BY AppendProperties
<1>2. ASSUME s # <<>>
      PROVE  /\ Head(s) \in Pieces /\ Head(s) = s[1]
             /\ Tail(s) \in Seq(Pieces) /\ Len(Tail(s)) = Len(s) - 1
             /\ \A i \in 1..Len(Tail(s)) : Tail(s)[i] = s[i + 1]
             /\ Len(s) > 0
  BY <1>2, HeadTailProperties
<1>3. s = <<>> <=> Len(s) = 0
  BY EmptySeq
<1>4. QED
  BY <1>1, <1>2, <1>3

(* The pieces in the streams, each about an event that has begun.          *)
StreamsTyped ==
    /\ stream \in [Clients -> Seq(Pieces)]
    /\ \A c \in Clients : \A i \in DOMAIN stream[c] : stream[c][i].event \in 0..sent[c]

(* A piece that is sent is about the last event or none.                   *)
LEMMA SendsKeepStreams ==
    ASSUME Typed, NEW c \in Clients, NEW piece \in Pieces, Send(c, piece),
           sent' \in [Clients -> Nat], \A d \in Clients : sent[d] <= sent'[d],
           piece.event <= sent'[c]
    PROVE  StreamsTyped'
<1>1. stream[c] \in Seq(Pieces) /\ stream \in [Clients -> Seq(Pieces)]
  BY DEF Typed
<1>2. stream' = [stream EXCEPT ![c] = Append(stream[c], piece)]
  BY DEF Send
<1>3. stream' \in [Clients -> Seq(Pieces)]
  BY <1>1, <1>2, PiecesStay
<1>4. ASSUME NEW d \in Clients, NEW i \in DOMAIN stream'[d]
      PROVE  stream'[d][i].event \in 0..sent'[d]
  <2>0. sent[d] \in Nat /\ sent'[d] \in Nat /\ sent[d] <= sent'[d] /\ piece.event \in Nat
    BY DEF Typed, Pieces
  <2>1. CASE d # c
    <3>1. stream'[d] = stream[d]
      BY <1>1, <1>2, <2>1
    <3>2. stream[d][i].event \in 0..sent[d]
      BY <1>4, <3>1 DEF Typed, TypeOK
    <3>3. QED
      BY <2>0, <3>1, <3>2
  <2>2. CASE d = c
    <3>1. stream'[c] = Append(stream[c], piece)
      BY <1>1, <1>2
    <3>2. CASE i \in 1..Len(stream[c])
      <4>1. stream'[d][i] = stream[d][i] /\ i \in DOMAIN stream[d]
        BY <1>1, <2>2, <3>1, <3>2, PiecesStay, AppendProperties
      <4>2. stream[d][i].event \in 0..sent[d]
        BY <4>1 DEF Typed, TypeOK
      <4>3. QED
        BY <2>0, <4>1, <4>2
    <3>3. CASE i = Len(stream[c]) + 1
      <4>1. stream'[d][i] = piece
        BY <1>1, <2>2, <3>1, <3>3, AppendProperties
      <4>2. QED
        BY <2>0, <2>2, <4>1
    <3>4. i \in 1..Len(stream[c]) + 1 /\ Len(stream[c]) \in Nat
      <4>1. stream'[d] \in Seq(Pieces) /\ Len(stream'[d]) = Len(stream[c]) + 1
        BY <1>1, <2>2, <3>1, PiecesStay
      <4>2. QED
        BY <1>1, <1>4, <4>1, PiecesStay
    <3>5. QED
      BY <3>2, <3>3, <3>4
  <2>3. QED
    BY <2>1, <2>2
<1>5. QED
  BY <1>3, <1>4 DEF StreamsTyped

(* What is read was there, and so is what is left.                         *)
LEMMA ReadsKeepStreams ==
    ASSUME Typed, NEW s \in Clients, Arrived(s), Take(s) \/ TakeSome(s), UNCHANGED sent
    PROVE  StreamsTyped' /\ \A d \in Clients \ {s} : stream'[d] = stream[d]
<1>1. /\ stream[s] \in Seq(Pieces) /\ stream \in [Clients -> Seq(Pieces)]
      /\ stream[s] # <<>> /\ sent[s] \in Nat
  BY DEF Typed, Arrived
<1>2. \A i \in 1..Len(stream[s]) : stream[s][i].event \in 0..sent[s]
  BY <1>1, PiecesStay DEF Typed, TypeOK
<1>3. PICK left \in Seq(Pieces) :
         /\ stream' = [stream EXCEPT ![s] = left]
         /\ \A i \in 1..Len(left) : left[i].event \in 0..sent[s]
  <2>1. CASE Take(s)
    <3>1. stream' = [stream EXCEPT ![s] = Tail(stream[s])]
      BY <2>1 DEF Take
    <3>2. \A i \in 1..Len(Tail(stream[s])) : i + 1 \in 1..Len(stream[s])
      BY <1>1, PiecesStay
    <3>3. \A i \in 1..Len(Tail(stream[s])) : Tail(stream[s])[i] = stream[s][i + 1]
      BY <1>1, PiecesStay
    <3>4. \A i \in 1..Len(Tail(stream[s])) : Tail(stream[s])[i].event \in 0..sent[s]
      BY <1>2, <3>2, <3>3
    <3>5. QED
      BY <1>1, <3>1, <3>4, PiecesStay
  <2>2. CASE stream' = [stream EXCEPT ![s][1] = Piece("rest", 0)]
    <3>1. Piece("rest", 0) \in Pieces /\ Piece("rest", 0).event = 0
      BY DEF Piece, Pieces
    <3> DEFINE left == [stream[s] EXCEPT ![1] = Piece("rest", 0)]
    <3>2. stream' = [stream EXCEPT ![s] = left]
      BY <2>2
    <3>3. 1 \in 1..Len(stream[s])
      BY <1>1, PiecesStay
    <3>4. /\ left \in Seq(Pieces) /\ Len(left) = Len(stream[s])
          /\ \A i \in 1..Len(stream[s]) :
                left[i] = IF i = 1 THEN Piece("rest", 0) ELSE stream[s][i]
      BY <1>1, <3>1, <3>3, ExceptSeq
    <3>5. \A i \in 1..Len(left) : left[i].event \in 0..sent[s]
      BY <1>1, <1>2, <3>1, <3>4
    <3>6. QED
      BY <3>2, <3>4, <3>5
  <2>3. QED
    BY <2>1, <2>2 DEF TakeSome
<1>4. stream' \in [Clients -> Seq(Pieces)]
  BY <1>1, <1>3
<1>5. \A d \in Clients \ {s} : stream'[d] = stream[d]
  BY <1>1, <1>3
<1>6. stream'[s] = left /\ DOMAIN left = 1..Len(left)
  BY <1>1, <1>3, LenProperties
<1>7. \A d \in Clients : \A i \in DOMAIN stream'[d] : stream'[d][i].event \in 0..sent'[d]
  BY <1>3, <1>5, <1>6 DEF Typed, TypeOK
<1>8. QED
  BY <1>4, <1>5, <1>7 DEF StreamsTyped

(* What of the types only the clients change, ...                          *)
ClientsTyped ==
    /\ place \in [Clients -> -1..Within]
    /\ sent \in [Clients -> Nat] /\ \A c \in Clients : sent[c] \in 0..MaxEvents[c]
    /\ gone \in [Clients -> {"no", "bye", "died"}]

(* ... or only the server.                                                 *)
ServerTyped ==
    /\ acceptor \in {"accept", "identify"}
    /\ new_socket \in Clients \cup {NoClient}
    /\ acceptor = "identify" => new_socket \in Clients
    /\ thread \in [Clients -> Places]
    /\ sock \in [Clients -> Clients \cup {NoClient}]
    /\ \A t \in Clients : sock[t] = NoClient <=> thread[t] \in {"none", "observer", "user"}
    /\ pending \in [Clients -> Nat]
    /\ entries \in [Clients -> Seq(Nat)]
    /\ up \in BOOLEAN

(* Together they are all there is.                                         *)
LEMMA TypedParts ==
    Typed <=> ClientsTyped /\ ServerTyped /\ StreamsTyped /\ backlog \in Seq(Clients)
BY DEF Typed, TypeOK, ClientsTyped, ServerTyped, StreamsTyped

(* A client's step.                                                        *)
LEMMA ActsKeepTypes ==
    ASSUME Typed, NEW c \in Clients, Acts(c)
    PROVE  Typed'
<1>0. ClientsTyped /\ ServerTyped /\ StreamsTyped /\ backlog \in Seq(Clients)
  BY TypedParts
<1>1. Ready = 5 /\ Within = 6
  BY DEF Ready, Within, Introduction
<1>2. ServerTyped'
  <2>1. UNCHANGED NotClient
    BY DEF Acts, Connect, Introduce, SendHeader, SendName, Interrupted, Dies
  <2>2. QED
    BY <1>0, <2>1 DEF NotClient, server, local, ServerTyped
<1>3. ClientsTyped' /\ \A d \in Clients : sent[d] <= sent'[d]
  <2>1. CASE SendHeader(c)
    <3>1. /\ sent[c] < MaxEvents[c] /\ sent' = [sent EXCEPT ![c] = @ + 1]
          /\ UNCHANGED gone
          /\ UNCHANGED place \/ place' = [place EXCEPT ![c] = Within]
      BY <2>1 DEF SendHeader
    <3>2. \A d \in Clients : sent[d] \in Nat /\ MaxEvents[d] \in Nat
      BY <1>0, MaxEventsNumber DEF ClientsTyped
    <3>3. place' \in [Clients -> -1..Within]
      <4>1. Within \in -1..Within
        BY <1>1
      <4>2. QED
        BY <1>0, <3>1, <4>1 DEF ClientsTyped
    <3>4. \A d \in Clients : sent'[d] = IF d = c THEN sent[c] + 1 ELSE sent[d]
      BY <1>0, <3>1 DEF ClientsTyped
    <3>5. sent' \in [Clients -> Nat]
      BY <1>0, <3>1, <3>2 DEF ClientsTyped
    <3>6. \A d \in Clients : sent'[d] \in 0..MaxEvents[d] /\ sent[d] <= sent'[d]
      BY <1>0, <3>1, <3>2, <3>4 DEF ClientsTyped
    <3>7. QED
      BY <1>0, <3>1, <3>3, <3>5, <3>6 DEF ClientsTyped
  <2>2. CASE ~SendHeader(c)
    <3>1. UNCHANGED sent
      BY <2>2 DEF Acts, Connect, Introduce, SendName, Interrupted, Dies
    <3>2. place' \in [Clients -> -1..Within]
      <4>1. \/ UNCHANGED place
            \/ \E n \in -1..Within : place' = [place EXCEPT ![c] = n]
        <5>1. CASE Introduce(c)
          <6>1. place[c] + 1 \in -1..Within /\ place' = [place EXCEPT ![c] = place[c] + 1]
            BY <1>1, <5>1 DEF Introduce
          <6>2. QED
            BY <6>1
        <5>2. CASE ~Introduce(c)
          BY <1>1, <2>2, <5>2 DEF Acts, Connect, SendName, Interrupted, Dies
        <5>3. QED
          BY <5>1, <5>2
      <4>2. QED
        BY <1>0, <4>1 DEF ClientsTyped
    <3>3. gone' \in [Clients -> {"no", "bye", "died"}]
      BY <1>0, <2>2 DEF Acts, Connect, Introduce, SendName, Interrupted, Dies, ClientsTyped
    <3>4. \A d \in Clients : sent[d] \in Nat
      BY <1>0 DEF ClientsTyped
    <3>5. QED
      BY <1>0, <3>1, <3>2, <3>3, <3>4 DEF ClientsTyped
  <2>3. QED
    BY <2>1, <2>2
<1>4. StreamsTyped'
  <2>1. CASE UNCHANGED stream
    <3>1. \A d \in Clients : sent[d] \in Nat /\ sent'[d] \in Nat /\ sent[d] <= sent'[d]
      BY <1>0, <1>3 DEF ClientsTyped
    <3>2. QED
      BY <1>0, <2>1, <3>1 DEF StreamsTyped
  <2>2. CASE \E piece \in Pieces : Send(c, piece) /\ piece.event <= sent'[c]
    BY <1>3, <2>2, SendsKeepStreams DEF ClientsTyped
  <2>3. sent'[c] \in Nat /\ sent[c] \in Nat
    BY <1>0, <1>3 DEF ClientsTyped
  <2>4. CASE Introduce(c)
    <3>1. place[c] + 1 \in 1..5
      BY <1>1, <2>4 DEF Introduce
    <3>2. Introduction[place[c] + 1] \in {"id", "size", "string"}
      BY <3>1 DEF Introduction
    <3>3. \A kind \in {"id", "size", "string"} :
             Piece(kind, 0) \in Pieces /\ Piece(kind, 0).event = 0
      BY DEF Piece, Pieces
    <3>4. QED
      BY <2>2, <2>3, <2>4, <3>2, <3>3 DEF Introduce
  <2>5. CASE SendHeader(c)
    <3>1. \A kind \in {"header", "header with len"} :
             Piece(kind, sent'[c]) \in Pieces /\ Piece(kind, sent'[c]).event = sent'[c]
      BY <2>3 DEF Piece, Pieces
    <3>2. \/ Send(c, Piece("header", sent'[c]))
          \/ Send(c, Piece("header with len", sent'[c]))
      BY <2>5 DEF SendHeader
    <3>3. sent'[c] <= sent'[c]
      BY <2>3
    <3>4. QED
      BY <2>2, <3>1, <3>2, <3>3
  <2>6. CASE SendName(c)
    <3>1. Piece("name", sent[c]) \in Pieces /\ Piece("name", sent[c]).event <= sent'[c]
      BY <1>3, <2>3 DEF Piece, Pieces
    <3>2. QED
      BY <2>2, <2>6, <3>1 DEF SendName
  <2>7. CASE Interrupted(c)
    <3>1. Piece("bye", 0) \in Pieces /\ Piece("bye", 0).event <= sent'[c]
      BY <2>3 DEF Piece, Pieces
    <3>2. QED
      BY <2>2, <2>7, <3>1 DEF Interrupted
  <2>8. CASE Connect(c) \/ Dies(c)
    BY <2>1, <2>8 DEF Connect, Dies
  <2>9. QED
    BY <2>4, <2>5, <2>6, <2>7, <2>8 DEF Acts
<1>5. backlog' \in Seq(Clients)
  <2>1. UNCHANGED backlog \/ backlog' = Append(backlog, c)
    BY DEF Acts, Connect, Introduce, SendHeader, SendName, Interrupted, Dies
  <2>2. QED
    BY <1>0, <2>1, AppendProperties
<1>6. QED
  BY <1>2, <1>3, <1>4, <1>5
     DEF Typed, TypeOK, ClientsTyped, ServerTyped, StreamsTyped

(* A step of the accept loop.                                              *)
LEMMA AcceptsKeepTypes ==
    ASSUME Typed, Accepting, Accept \/ Identify
    PROVE  Typed'
<1>0. ClientsTyped /\ ServerTyped /\ StreamsTyped /\ backlog \in Seq(Clients)
  BY TypedParts
<1>1. CASE Accept
  <2>1. Head(backlog) \in Clients /\ Tail(backlog) \in Seq(Clients)
    BY <1>0, <1>1, HeadTailProperties DEF Accept
  <2>2. ServerTyped' /\ backlog' \in Seq(Clients)
    BY <1>0, <1>1, <2>1 DEF Accept, ServerTyped, local
  <2>3. ClientsTyped' /\ StreamsTyped'
    BY <1>0, <1>1 DEF Accept, ClientsTyped, StreamsTyped
  <2>4. QED
    BY <2>2, <2>3 DEF Typed, TypeOK, ClientsTyped, ServerTyped, StreamsTyped
<1>2. CASE Identify
  <2>1. new_socket \in Clients
    BY <1>0, <1>2 DEF Identify, ServerTyped
  <2>2. PICK start \in {"none", "observer", "user"} : Identified(new_socket, start)
    BY <1>2 DEF Identify, Misidentify
  <2>3. UNCHANGED <<client, new_socket, local, entries, up>>
    BY <2>2 DEF Identified
  <2>4. StreamsTyped'
    <3>1. \/ UNCHANGED stream
          \/ Arrived(new_socket) /\ (Take(new_socket) \/ TakeSome(new_socket))
      BY <1>2 DEF Identify, Misidentify
    <3>2. UNCHANGED sent
      BY <2>3 DEF client
    <3>3. QED
      BY <1>0, <2>1, <3>1, <3>2, ReadsKeepStreams DEF StreamsTyped
  <2>5. ServerTyped'
    <3>1. thread[new_socket] = "none" /\ acceptor' = "accept"
          /\ thread' = [thread EXCEPT ![new_socket] = start]
      BY <1>2, <2>2 DEF Identify, Accepting, Identified
    <3>2. thread' \in [Clients -> Places]
      BY <1>0, <3>1 DEF ServerTyped, Places
    <3>3. \A t \in Clients : sock[t] = NoClient <=> thread'[t] \in {"none", "observer", "user"}
      BY <1>0, <2>1, <3>1 DEF ServerTyped
    <3>4. QED
      BY <1>0, <2>3, <3>1, <3>2, <3>3 DEF ServerTyped, local
  <2>6. ClientsTyped' /\ backlog' \in Seq(Clients)
    BY <1>0, <2>3 DEF client, ClientsTyped
  <2>7. QED
    BY <2>4, <2>5, <2>6 DEF Typed, TypeOK, ClientsTyped, ServerTyped, StreamsTyped
<1>3. QED
  BY <1>1, <1>2

(* What is added to the entries is a number.                               *)
LEMMA AddsKeepEntries ==
    ASSUME Typed, NEW t \in Clients
    PROVE  /\ \A event \in Nat : Adds(t, event) => entries' \in [Clients -> Seq(Nat)]
           /\ AddsSpurious(t) => entries' \in [Clients -> Seq(Nat)]
<1>1. entries \in [Clients -> Seq(Nat)]
  BY DEF Typed, TypeOK
<1>2. ASSUME NEW event \in Nat, Adds(t, event)
      PROVE  entries' \in [Clients -> Seq(Nat)]
  <2>1. Append(entries[t], event) \in Seq(Nat)
    BY <1>1, AppendProperties
  <2>2. QED
    BY <1>1, <1>2, <2>1 DEF Adds
<1>3. AddsSpurious(t) => UNCHANGED entries \/ Adds(t, 0)
  BY DEF AddsSpurious
<1>4. QED
  BY <1>1, <1>2, <1>3

(* What a thread does to the socket it has, its place and the entries.     *)
LEMMA ThreadReads ==
    ASSUME Typed, NEW t \in Clients,
           ReadIntroduction(t) \/ ReadHeader(t) \/ ReadName(t) \/ Overflows(t) \/ Drift(t)
    PROVE  /\ sock[t] \in Clients /\ UNCHANGED <<client, server, sock>>
           /\ thread[t] \in DOMAIN Expected \cup {"loop", "name", "adrift"}
           /\ \/ UNCHANGED stream
              \/ Arrived(sock[t]) /\ (Take(sock[t]) \/ TakeSome(sock[t]))
           /\ \/ UNCHANGED thread
              \/ \E at \in DOMAIN Expected \cup {"loop", "name", "adrift", "ended"} :
                    GoesTo(t, at)
           /\ UNCHANGED up \/ thread[t] = "adrift"
<1>1. DOMAIN Expected = {"monitored_size", "monitored", "host_size", "host"}
  BY DEF Expected
<1>2. thread[t] \in DOMAIN Expected \cup {"loop", "name", "adrift"}
  BY <1>1 DEF ReadIntroduction, ReadHeader, ReadHeaderUntil, ReadName, Overflows, Drift
<1>3. sock[t] \in Clients
  BY <1>1, <1>2 DEF Typed, TypeOK
<1>4. UNCHANGED <<client, server, sock>>
  BY DEF ReadIntroduction, ReadHeader, ReadHeaderUntil, ReadName, Overflows, Drift, NotThread,
     local
<1>5. \/ UNCHANGED stream
      \/ Arrived(sock[t]) /\ (Take(sock[t]) \/ TakeSome(sock[t]))
  BY DEF ReadIntroduction, ReadHeader, ReadHeaderUntil, ReadName, Overflows, Drift
<1>6. thread[t] \in DOMAIN Expected =>
         Following[thread[t]] \in DOMAIN Expected \cup {"loop", "name", "adrift", "ended"}
  BY <1>1 DEF Following
<1>7. \/ UNCHANGED thread
      \/ \E at \in DOMAIN Expected \cup {"loop", "name", "adrift", "ended"} : GoesTo(t, at)
  BY <1>6 DEF ReadIntroduction, ReadHeader, ReadHeaderUntil, ReadName, Overflows, Drift
<1>8. UNCHANGED up \/ thread[t] = "adrift"
  BY DEF ReadIntroduction, ReadHeader, ReadHeaderUntil, ReadName, Overflows, Drift, NotThread
<1>9. QED
  BY <1>2, <1>3, <1>4, <1>5, <1>7, <1>8

(* A thread's step.                                                        *)
LEMMA ServesKeepTypes ==
    ASSUME Typed, Accepting, NEW t \in Clients, Serves(t)
    PROVE  Typed'
<1>0. ClientsTyped /\ ServerTyped /\ StreamsTyped /\ backlog \in Seq(Clients)
  BY TypedParts
<1>1. DOMAIN Expected = {"monitored_size", "monitored", "host_size", "host"}
  BY DEF Expected
<1>2. CASE Start(t)
  <2>1. /\ new_socket \in Clients /\ sock' = [sock EXCEPT ![t] = new_socket]
        /\ thread' = [thread EXCEPT ![t] = IF thread[t] = "observer" THEN "monitored_size"
                                                                     ELSE "adrift"]
        /\ UNCHANGED <<stream, pending, entries, client, server, up>>
    BY <1>2 DEF Start, Accepting, GoesTo, NotThread
  <2>2. thread' \in [Clients -> Places]
    BY <1>0, <1>1, <2>1 DEF ServerTyped, Places
  <2>3. \A u \in Clients : sock'[u] = NoClient <=> thread'[u] \in {"none", "observer", "user"}
    BY <1>0, <2>1, NoClientElse DEF ServerTyped
  <2>4. ServerTyped'
    BY <1>0, <2>1, <2>2, <2>3 DEF ServerTyped, server
  <2>5. ClientsTyped' /\ StreamsTyped' /\ backlog' \in Seq(Clients)
    BY <1>0, <2>1 DEF client, ClientsTyped, StreamsTyped
  <2>6. QED
    BY <2>4, <2>5 DEF Typed, TypeOK, ClientsTyped, ServerTyped, StreamsTyped
<1>3. CASE ReadIntroduction(t) \/ ReadHeader(t) \/ ReadName(t) \/ Overflows(t) \/ Drift(t)
  <2>1. /\ sock[t] \in Clients /\ UNCHANGED <<client, server, sock>>
        /\ thread[t] \in DOMAIN Expected \cup {"loop", "name", "adrift"}
    BY <1>3, ThreadReads
  <2>2. StreamsTyped'
    <3>1. \/ UNCHANGED stream
          \/ Arrived(sock[t]) /\ (Take(sock[t]) \/ TakeSome(sock[t]))
      BY <1>3, ThreadReads
    <3>2. UNCHANGED sent
      BY <2>1 DEF client
    <3>3. QED
      BY <1>0, <2>1, <3>1, <3>2, ReadsKeepStreams DEF StreamsTyped
  <2>3. PICK at \in DOMAIN Expected \cup {"loop", "name", "adrift", "ended"} :
           UNCHANGED thread \/ thread' = [thread EXCEPT ![t] = at]
    BY <1>3, <1>1, ThreadReads DEF GoesTo
  <2>4. /\ thread' \in [Clients -> Places]
        /\ \A u \in Clients : sock[u] = NoClient <=> thread'[u] \in {"none", "observer", "user"}
    BY <1>0, <1>1, <2>1, <2>3, NoClientElse DEF ServerTyped, Places
  <2>5. Arrived(sock[t]) => Head(stream[sock[t]]).event \in Nat
    <3>1. stream[sock[t]] \in Seq(Pieces)
      BY <2>1 DEF Typed
    <3>2. QED
      BY <3>1, PiecesStay DEF Arrived, Pieces
  <2>6. pending' \in [Clients -> Nat] /\ entries' \in [Clients -> Seq(Nat)]
    <3>1. pending \in [Clients -> Nat] /\ entries \in [Clients -> Seq(Nat)]
      BY <1>0 DEF ServerTyped
    <3>2. CASE ReadIntroduction(t) \/ Overflows(t)
      BY <3>1, <3>2 DEF ReadIntroduction, Overflows, local
    <3>3. CASE ReadHeader(t)
      <4>1. /\ UNCHANGED pending
               \/ \E event \in Nat : pending' = [pending EXCEPT ![t] = event]
            /\ UNCHANGED entries \/ \E event \in Nat : Adds(t, event)
        BY <2>5, <3>3 DEF ReadHeader, ReadHeaderUntil
      <4>2. QED
        BY <3>1, <4>1, AddsKeepEntries
    <3>4. CASE ReadName(t)
      <4>1. pending[t] \in Nat
        BY <3>1
      <4>2. QED
        BY <3>1, <3>4, <4>1, AddsKeepEntries DEF ReadName, local
    <3>5. CASE Drift(t)
      BY <3>1, <3>5, AddsKeepEntries DEF Drift, local
    <3>6. QED
      BY <1>3, <3>2, <3>3, <3>4, <3>5
  <2>7. up' \in BOOLEAN
    BY <1>0, <1>3
       DEF ReadIntroduction, ReadHeader, ReadHeaderUntil, ReadName, Overflows, Drift, NotThread,
           ServerTyped
  <2>8. ServerTyped'
    BY <1>0, <2>1, <2>4, <2>6, <2>7 DEF ServerTyped, server
  <2>9. ClientsTyped' /\ backlog' \in Seq(Clients)
    BY <1>0, <2>1 DEF client, ClientsTyped
  <2>10. QED
    BY <2>2, <2>8, <2>9 DEF Typed, TypeOK, ClientsTyped, ServerTyped, StreamsTyped
<1>4. QED
  BY <1>2, <1>3 DEF Serves

---------------------------------------------------------------------------
(* Accepting                                                               *)

(* A client connects once, and does nothing before.                        *)
LEMMA ActsKeepAccepting ==
    ASSUME Typed, Accepting, NEW c \in Clients, Acts(c)
    PROVE  Accepting'
<1>0. /\ backlog \in Seq(Clients) /\ place \in [Clients -> -1..Within]
      /\ stream \in [Clients -> Seq(Pieces)] /\ sent \in [Clients -> Nat]
      /\ gone \in [Clients -> {"no", "bye", "died"}]
      /\ acceptor = "identify" => new_socket \in Clients
      /\ Ready = 5 /\ Within = 6
  BY DEF Typed, TypeOK, Ready, Within, Introduction
<1>1. CASE Connect(c)
  <2>1. /\ place[c] = -1 /\ place' = [place EXCEPT ![c] = 0]
        /\ backlog' = Append(backlog, c)
        /\ UNCHANGED <<sent, gone, stream, acceptor, new_socket, thread, entries>>
    BY <1>1 DEF Connect, NotClient, server
  <2>2. \A d \in Clients : place'[d] = IF d = c THEN 0 ELSE place[d]
    BY <1>0, <2>1
  <2>3. /\ Len(backlog') = Len(backlog) + 1 /\ Len(backlog) \in Nat
        /\ backlog'[Len(backlog) + 1] = c
        /\ \A i \in 1..Len(backlog) : backlog'[i] = backlog[i] /\ backlog[i] \in Clients
    BY <1>0, <2>1, AppendProperties, ElementOfSeq
  <2>4. \A i \in 1..Len(backlog') : i \in 1..Len(backlog) \/ i = Len(backlog) + 1
    BY <2>3
  <2>5. \A i \in 1..Len(backlog) : backlog[i] # c
    BY <2>1 DEF Accepting
  <2>6. /\ thread[c] = "none"
        /\ acceptor = "identify" => /\ new_socket # c /\ thread[new_socket] = "none"
                                    /\ place'[new_socket] # -1
    BY <1>0, <2>1, <2>2 DEF Accepting
  <2>7. \A i \in 1..Len(backlog') :
           /\ thread[backlog'[i]] = "none" /\ place'[backlog'[i]] # -1
           /\ acceptor = "identify" => backlog'[i] # new_socket
    BY <2>2, <2>3, <2>4, <2>6 DEF Accepting
  <2>8. \A i, j \in 1..Len(backlog') : backlog'[i] = backlog'[j] => i = j
    BY <2>3, <2>4, <2>5 DEF Accepting
  <2>9. QED
    BY <2>1, <2>2, <2>6, <2>7, <2>8 DEF Accepting
<1>2. CASE ~Connect(c)
  <2>1. /\ place[c] # -1 /\ UNCHANGED <<backlog, acceptor, new_socket, thread, entries>>
        /\ UNCHANGED place \/ \E n \in 0..Within : place' = [place EXCEPT ![c] = n]
    <3>1. UNCHANGED <<backlog, acceptor, new_socket, thread, entries>>
      BY <1>2 DEF Acts, Introduce, SendHeader, SendName, Interrupted, Dies, NotClient, server
    <3>2. place[c] # -1
      <4>1. \/ place[c] \in 0..Ready - 1 \/ place[c] = Ready \/ place[c] = Within
            \/ place[c] >= 0
        BY <1>2 DEF Acts, Introduce, SendHeader, SendName, Interrupted, Dies
      <4>2. QED
        BY <1>0, <4>1
    <3>3. CASE Introduce(c)
      <4>1. place[c] + 1 \in 0..Within /\ place' = [place EXCEPT ![c] = place[c] + 1]
        BY <1>0, <3>3 DEF Introduce
      <4>2. QED
        BY <3>1, <3>2, <4>1
    <3>4. CASE ~Introduce(c)
      <4>1. \/ UNCHANGED place \/ place' = [place EXCEPT ![c] = Ready]
            \/ place' = [place EXCEPT ![c] = Within]
        BY <1>2, <3>4 DEF Acts, SendHeader, SendName, Interrupted, Dies
      <4>2. Ready \in 0..Within /\ Within \in 0..Within
        BY <1>0
      <4>3. QED
        BY <3>1, <3>2, <4>1, <4>2
    <3>5. QED
      BY <3>3, <3>4
  <2>2. \A d \in Clients : place'[d] = -1 <=> place[d] = -1
    BY <1>0, <2>1
  <2>3. \A d \in Clients \ {c} : stream'[d] = stream[d] /\ sent'[d] = sent[d] /\ gone'[d] = gone[d]
    BY <1>0, <1>2 DEF Acts, Introduce, SendHeader, SendName, Interrupted, Dies, Send
  <2>4. \A i \in 1..Len(backlog) : backlog[i] \in Clients
    BY <1>0, ElementOfSeq
  <2>5. QED
    BY <1>0, <2>1, <2>2, <2>3, <2>4 DEF Accepting
<1>3. QED
  BY <1>1, <1>2

(* The accept loop starts no second thread for a client.                   *)
LEMMA AcceptsKeepAccepting ==
    ASSUME Typed, Accepting, Accept \/ Identify
    PROVE  Accepting'
<1>0. /\ backlog \in Seq(Clients) /\ place \in [Clients -> -1..Within]
      /\ stream \in [Clients -> Seq(Pieces)] /\ thread \in [Clients -> Places]
      /\ acceptor = "identify" => new_socket \in Clients
  BY DEF Typed, TypeOK
<1>1. \A i \in 1..Len(backlog) : backlog[i] \in Clients
  BY <1>0, ElementOfSeq
<1>2. CASE Accept
  <2>1. /\ new_socket' = Head(backlog) /\ backlog' = Tail(backlog) /\ backlog # <<>>
        /\ UNCHANGED <<place, sent, gone, stream, thread, entries>>
    BY <1>2 DEF Accept
  <2>2. /\ new_socket' = backlog[1] /\ 1 \in 1..Len(backlog)
        /\ Len(backlog') = Len(backlog) - 1 /\ Len(backlog) \in Nat
        /\ \A i \in 1..Len(backlog') : backlog'[i] = backlog[i + 1]
    <3>1. Len(backlog) \in Nat /\ Len(backlog) # 0
      BY <1>0, <2>1, EmptySeq, LenProperties
    <3>2. QED
      BY <1>0, <2>1, <3>1, HeadTailProperties
  <2>3. \A i \in 1..Len(backlog') : i + 1 \in 1..Len(backlog) /\ i + 1 # 1
    BY <2>2
  <2>4. \A i \in 1..Len(backlog') :
           /\ thread[backlog'[i]] = "none" /\ place[backlog'[i]] # -1
           /\ backlog'[i] # new_socket'
    BY <2>2, <2>3 DEF Accepting
  <2>5. \A i, j \in 1..Len(backlog') : backlog'[i] = backlog'[j] => i = j
    <3>1. SUFFICES ASSUME NEW i \in 1..Len(backlog'), NEW j \in 1..Len(backlog'),
                          backlog'[i] = backlog'[j]
                   PROVE  i = j
      OBVIOUS
    <3>2. i + 1 = j + 1
      BY <2>2, <2>3, <3>1 DEF Accepting
    <3>3. QED
      BY <2>2, <3>2
  <2>6. thread[new_socket'] = "none" /\ place[new_socket'] # -1 /\ new_socket' \in Clients
    BY <1>1, <2>2 DEF Accepting
  <2>7. QED
    BY <2>1, <2>4, <2>5, <2>6 DEF Accepting
<1>3. CASE Identify
  <2>1. PICK start : Identified(new_socket, start)
    BY <1>3 DEF Identify, Misidentify
  <2>2. /\ acceptor = "identify" /\ acceptor' = "accept" /\ new_socket \in Clients
        /\ thread' = [thread EXCEPT ![new_socket] = start]
        /\ UNCHANGED <<place, sent, gone, backlog, new_socket, entries>>
    BY <1>0, <1>3, <2>1 DEF Identify, Identified, client
  <2>3. \A d \in Clients \ {new_socket} : stream'[d] = stream[d] /\ thread'[d] = thread[d]
    <3>1. \/ UNCHANGED stream
          \/ Arrived(new_socket) /\ (Take(new_socket) \/ TakeSome(new_socket))
      BY <1>3 DEF Identify, Misidentify
    <3>2. UNCHANGED sent
      BY <2>2
    <3>3. QED
      BY <1>0, <2>2, <3>1, <3>2, ReadsKeepStreams
  <2>4. place[new_socket] # -1 /\ \A i \in 1..Len(backlog) : backlog[i] # new_socket
    BY <2>2 DEF Accepting
  <2>5. QED
    BY <1>1, <2>2, <2>3, <2>4 DEF Accepting
<1>4. QED
  BY <1>2, <1>3

(* A thread that runs is that of a client that was accepted, and reads     *)
(* only what a client that connected has sent.                             *)
LEMMA ServesKeepAccepting ==
    ASSUME Typed, Accepting, NEW t \in Clients, Serves(t)
    PROVE  Accepting'
<1>0. /\ backlog \in Seq(Clients) /\ stream \in [Clients -> Seq(Pieces)]
      /\ thread \in [Clients -> Places] /\ entries \in [Clients -> Seq(Nat)]
      /\ acceptor = "identify" => new_socket \in Clients
      /\ \A i \in 1..Len(backlog) : backlog[i] \in Clients
  BY ElementOfSeq DEF Typed, TypeOK
<1>1. DOMAIN Expected = {"monitored_size", "monitored", "host_size", "host"}
  BY DEF Expected
<1>2. /\ thread[t] # "none" /\ UNCHANGED <<place, sent, gone, backlog, acceptor, new_socket>>
      /\ \A d \in Clients : thread'[d] = "none" <=> thread[d] = "none"
  <2>1. CASE Start(t)
    <3>1. /\ thread[t] # "none" /\ UNCHANGED <<place, sent, gone, backlog, acceptor, new_socket>>
          /\ thread' = [thread EXCEPT ![t] = IF thread[t] = "observer" THEN "monitored_size"
                                                                       ELSE "adrift"]
      BY <2>1 DEF Start, GoesTo, NotThread, client, server
    <3>2. QED
      BY <1>0, <3>1
  <2>2. CASE ReadIntroduction(t) \/ ReadHeader(t) \/ ReadName(t) \/ Overflows(t) \/ Drift(t)
    <3>1. /\ thread[t] # "none" /\ UNCHANGED <<place, sent, gone, backlog, acceptor, new_socket>>
          /\ \/ UNCHANGED thread
             \/ \E at \in DOMAIN Expected \cup {"loop", "name", "adrift", "ended"} :
                   thread' = [thread EXCEPT ![t] = at]
      BY <1>1, <2>2, ThreadReads DEF client, server, GoesTo
    <3>2. QED
      BY <1>0, <1>1, <3>1
  <2>3. QED
    BY <2>1, <2>2 DEF Serves
<1>3. \A d \in Clients : stream[d] = <<>> => stream'[d] = <<>>
  <2>1. CASE UNCHANGED stream
    BY <2>1
  <2>2. CASE Arrived(sock[t]) /\ (Take(sock[t]) \/ TakeSome(sock[t])) /\ sock[t] \in Clients
    BY <1>2, <2>2, ReadsKeepStreams DEF Arrived
  <2>3. QED
    BY <2>1, <2>2, ThreadReads DEF Serves, Start
<1>4. \A d \in Clients \ {t} : entries'[d] = entries[d]
  BY <1>0 DEF Serves, Start, ReadIntroduction, ReadHeader, ReadHeaderUntil, ReadName,
     Overflows, Drift, Adds, AddsSpurious
<1>5. QED
  BY <1>0, <1>2, <1>3, <1>4 DEF Accepting

---------------------------------------------------------------------------
(* Paths                                                                   *)

(* A piece that is sent is a step at the end of the path.                  *)
LEMMA PathLonger ==
    ASSUME NEW s \in Seq(Pieces), NEW limit \in Nat, NEW longer \in Nat, limit <= longer,
           NEW path \in [0..Len(s) -> Points(limit)], NEW from, NEW to,
           IsPath(path, from, s, to),
           NEW piece \in Pieces, NEW next \in Points(longer), Leads(to, piece, next)
    PROVE  \E path2 \in [0..Len(Append(s, piece)) -> Points(longer)] :
              IsPath(path2, from, Append(s, piece), next)
<1>1. /\ Len(s) \in Nat /\ Len(Append(s, piece)) = Len(s) + 1
      /\ Append(s, piece)[Len(s) + 1] = piece
      /\ \A i \in 1..Len(s) : Append(s, piece)[i] = s[i]
  BY AppendProperties, LenProperties
<1>2. PICK n \in Nat : n = Len(s)
  BY <1>1
<1> DEFINE path2 == [i \in 0..n + 1 |-> IF i = n + 1 THEN next ELSE path[i]]
<1>3. /\ path[0] = from /\ path[n] = to
      /\ \A i \in 1..n : Leads(path[i - 1], s[i], path[i])
  BY <1>2 DEF IsPath
<1>4. path2 \in [0..n + 1 -> Points(longer)]
  <2>1. \A q \in Points(limit) : q \in Points(longer)
    BY DEF Points
  <2>2. \A i \in 0..n : path[i] \in Points(limit)
    BY <1>2
  <2>3. \A i \in 0..n + 1 : i = n + 1 \/ i \in 0..n
    BY <1>2
  <2>4. QED
    BY <2>1, <2>2, <2>3
<1>5. /\ path2[0] = from /\ path2[n + 1] = next /\ path2[n] = to
      /\ \A i \in 0..n : path2[i] = path[i]
  <2>1. 0 \in 0..n + 1 /\ n \in 0..n + 1 /\ n + 1 \in 0..n + 1 /\ 0 # n + 1 /\ n # n + 1
    BY <1>2
  <2>2. \A i \in 0..n : i \in 0..n + 1 /\ i # n + 1
    BY <1>2
  <2>3. QED
    BY <1>3, <2>1, <2>2
<1>6. ASSUME NEW i \in 1..n + 1
      PROVE  Leads(path2[i - 1], Append(s, piece)[i], path2[i])
  <2> HIDE DEF path2
  <2>1. CASE i = n + 1
    <3>1. i - 1 = n
      BY <1>2, <2>1
    <3>2. QED
      BY <1>1, <1>2, <1>5, <2>1, <3>1
  <2>2. CASE i # n + 1
    <3>1. i \in 1..n /\ i \in 0..n /\ i - 1 \in 0..n
      BY <1>2, <1>6, <2>2
    <3>2. QED
      BY <1>1, <1>2, <1>3, <1>5, <3>1
  <2>3. QED
    BY <2>1, <2>2
<1>7. QED
  <2> HIDE DEF path2
  <2>1. IsPath(path2, from, Append(s, piece), next)
    BY <1>1, <1>2, <1>5, <1>6 DEF IsPath
  <2>2. QED
    BY <1>1, <1>2, <1>4, <2>1

(* The piece in front is the first step, and the others lead on from       *)
(* there.  None follows a goodbye.                                         *)
LEMMA PathShorter ==
    ASSUME NEW s \in Seq(Pieces), s # <<>>, NEW limit \in Nat,
           NEW path \in [0..Len(s) -> Points(limit)], NEW from, NEW to,
           IsPath(path, from, s, to)
    PROVE  \E next \in Points(limit) :
              /\ Leads(from, Head(s), next)
              /\ \E rest \in [0..Len(Tail(s)) -> Points(limit)] :
                    IsPath(rest, next, Tail(s), to)
              /\ next.over => next = to
<1>1. /\ Len(s) \in Nat /\ Len(s) > 0 /\ Len(Tail(s)) = Len(s) - 1 /\ Head(s) = s[1]
      /\ \A i \in 1..Len(Tail(s)) : Tail(s)[i] = s[i + 1]
  BY PiecesStay
<1>2. PICK n \in Nat : n = Len(Tail(s)) /\ Len(s) = n + 1
  <2>1. PICK k \in Nat : k = Len(s)
    BY <1>1
  <2>2. PICK n \in Nat : n = Len(Tail(s))
    <3>1. k > 0 /\ k - 1 \in Nat
      BY <1>1, <2>1
    <3>2. QED
      BY <1>1, <2>1, <3>1
  <2>3. n = k - 1
    BY <1>1, <2>1, <2>2
  <2>4. k = n + 1
    BY <2>1, <2>2, <2>3
  <2>5. QED
    BY <2>1, <2>2, <2>4
<1>3. /\ path[0] = from /\ path[n + 1] = to
      /\ \A i \in 1..n + 1 : Leads(path[i - 1], s[i], path[i])
  BY <1>2 DEF IsPath
<1> DEFINE rest == [i \in 0..n |-> path[i + 1]]
<1>4. \A i \in 0..n : i + 1 \in 0..n + 1 /\ i + 1 \in 1..n + 1 /\ (i + 1) - 1 = i
  BY <1>2
<1>5. rest \in [0..n -> Points(limit)] /\ path[1] \in Points(limit)
  <2>1. \A i \in 0..n + 1 : path[i] \in Points(limit)
    BY <1>2
  <2>2. 1 \in 0..n + 1
    BY <1>2
  <2>3. QED
    BY <1>4, <2>1, <2>2
<1>6. rest[0] = path[1] /\ rest[n] = to
  <2>1. 0 \in 0..n /\ n \in 0..n /\ 0 + 1 = 1
    BY <1>2
  <2>2. QED
    BY <1>3, <2>1
<1>7. ASSUME NEW i \in 1..n
      PROVE  Leads(rest[i - 1], Tail(s)[i], rest[i])
  <2>1. i \in 0..n /\ i - 1 \in 0..n /\ (i - 1) + 1 = i /\ i + 1 \in 1..n + 1 /\ (i + 1) - 1 = i
    BY <1>2, <1>7
  <2>2. rest[i - 1] = path[i] /\ rest[i] = path[i + 1] /\ Tail(s)[i] = s[i + 1]
    BY <1>1, <1>2, <1>7, <2>1
  <2> HIDE DEF rest
  <2>3. QED
    BY <1>3, <2>1, <2>2
<1>8. Leads(from, Head(s), path[1])
  <2>1. 1 \in 1..n + 1 /\ 1 - 1 = 0
    BY <1>2
  <2>2. QED
    BY <1>1, <1>3, <2>1
<1>9. path[1].over => path[1] = to
  <2>1. ASSUME path[1].over PROVE n = 0
    <3>1. CASE n # 0
      <4>1. 2 \in 1..n + 1 /\ 2 - 1 = 1
        BY <1>2, <3>1
      <4>2. Leads(path[1], s[2], path[2])
        BY <1>3, <4>1
      <4>3. QED
        BY <2>1, <4>2 DEF Leads
    <3>2. QED
      BY <3>1
  <2>2. QED
    BY <1>3, <2>1
<1>10. QED
  <2> HIDE DEF rest
  <2>1. IsPath(rest, path[1], Tail(s), to)
    BY <1>2, <1>6, <1>7 DEF IsPath
  <2>2. QED
    BY <1>2, <1>5, <1>8, <1>9, <2>1

(* Where nothing is on the way, the thread is where the client is.         *)
LEMMA PathEmpty ==
    ASSUME NEW limit \in Nat
    PROVE  /\ \A path, from, to : IsPath(path, from, <<>>, to) => from = to
           /\ \A from \in Points(limit) :
                \E path \in [0..Len(<<>>) -> Points(limit)] : IsPath(path, from, <<>>, from)
<1>1. Len(<<>>) = 0
  OBVIOUS
<1>2. \A path, from, to : IsPath(path, from, <<>>, to) => from = to
  BY <1>1 DEF IsPath
<1>3. ASSUME NEW from \in Points(limit)
      PROVE  \E path \in [0..Len(<<>>) -> Points(limit)] : IsPath(path, from, <<>>, from)
  <2> DEFINE path == [i \in 0..0 |-> from]
  <2>1. path \in [0..0 -> Points(limit)] /\ path[0] = from
    OBVIOUS
  <2> HIDE DEF path
  <2>2. IsPath(path, from, <<>>, from)
    BY <1>1, <2>1 DEF IsPath
  <2>3. QED
    BY <1>1, <2>1, <2>2
<1>4. QED
  BY <1>2, <1>3

---------------------------------------------------------------------------
(* Clients' steps                                                          *)

(* What concerns neither the thread, its client nor the stream.            *)
LEMMA FollowedElsewhere ==
    ASSUME NEW t \in Clients, Followed(t), Mine(t)' => Mine(t),
           place'[t] = place[t], sent'[t] = sent[t], gone'[t] = gone[t],
           stream'[t] = stream[t], thread'[t] = thread[t], entries'[t] = entries[t],
           pending'[t] = pending[t]
    PROVE  Followed(t)'
<1>1. Reading(t)' = Reading(t) /\ Sending(t)' = Sending(t)
  BY DEF Reading, Sending
<1>2. InTurn(t) => InTurn(t)'
  BY <1>1 DEF InTurn
<1>3. Orderly(t)' => Orderly(t)
  BY DEF Orderly, LeftInOrder
<1>4. QED
  BY <1>2, <1>3 DEF Followed

(* The places there are.                                                   *)
LEMMA PointsTyped ==
    ASSUME NEW at \in 0..Within, NEW events \in Nat, NEW over \in BOOLEAN
    PROVE  /\ Point(at, events, over) \in Points(events)
           /\ Point(at, events, over).place = at /\ Point(at, events, over).sent = events
           /\ Point(at, events, over).over = over
<1>1. events \in 0..events
  OBVIOUS
<1>2. QED
  BY <1>1 DEF Point, Points

(* A piece that is next in what the client sends goes to the end.          *)
LEMMA SendKeepsTurn ==
    ASSUME Typed, NEW c \in Clients, InTurn(c), NEW piece \in Pieces, Send(c, piece),
           thread'[c] = thread[c], entries'[c] = entries[c],
           sent[c] \in Nat, sent'[c] \in Nat, sent[c] <= sent'[c],
           Sending(c)' \in Points(sent'[c]), Leads(Sending(c), piece, Sending(c)')
    PROVE  InTurn(c)'
<1>1. stream[c] \in Seq(Pieces) /\ stream'[c] = Append(stream[c], piece)
  BY DEF Typed, Send
<1>2. Reading(c)' = Reading(c)
  BY DEF Reading
<1>3. PICK path \in [0..Len(stream[c]) -> Points(sent[c])] :
         IsPath(path, Reading(c), stream[c], Sending(c))
  BY DEF InTurn
<1>4. \E longer \in [0..Len(Append(stream[c], piece)) -> Points(sent'[c])] :
         IsPath(longer, Reading(c), Append(stream[c], piece), Sending(c)')
  BY <1>1, <1>3, PathLonger
<1>5. QED
  BY <1>1, <1>2, <1>4 DEF InTurn

(* A client's step.                                                        *)
LEMMA ActsKeepFollowed ==
    ASSUME Typed, Typed', Accepting, NEW c \in Clients, Acts(c), NEW t \in Clients, Followed(t)
    PROVE  Followed(t)'
<1>0. UNCHANGED <<server, thread, local, entries, up>>
  BY DEF Acts, Connect, Introduce, SendHeader, SendName, Interrupted, Dies, NotClient
<1>1. Mine(t)' => Mine(t)
  BY <1>0 DEF Mine, local
<1>2. CASE t # c
  <2>1. /\ place'[t] = place[t] /\ sent'[t] = sent[t] /\ gone'[t] = gone[t]
        /\ stream'[t] = stream[t]
    BY <1>2 DEF Acts, Connect, Introduce, SendHeader, SendName, Interrupted, Dies, Send,
       Typed, TypeOK
  <2>2. QED
    BY <1>0, <1>1, <2>1, FollowedElsewhere DEF local
<1>3. CASE t = c /\ Connect(t)
  <2>1. /\ thread'[t] = "none" /\ entries'[t] = <<>> /\ stream'[t] = <<>>
        /\ place'[t] = 0 /\ sent'[t] = 0 /\ gone'[t] = "no"
    <3>1. place[t] = -1 /\ place' = [place EXCEPT ![t] = 0] /\ UNCHANGED <<sent, gone, stream>>
      BY <1>3 DEF Connect
    <3>2. place \in [Clients -> -1..Within]
      BY DEF Typed, TypeOK
    <3>3. thread[t] = "none" /\ sent[t] = 0 /\ gone[t] = "no" /\ stream[t] = <<>> /\ entries[t] = <<>>
      BY <3>1 DEF Accepting
    <3>4. place'[t] = 0
      BY <3>1, <3>2
    <3>5. QED
      BY <1>0, <3>1, <3>3, <3>4
  <2>2. Reading(t)' = Point(0, 0, FALSE) /\ Sending(t)' = Point(0, 0, FALSE)
    <3>1. Reached["none"] = 0 /\ Len(<<>>) = 0 /\ ~("no" = "bye") /\ ~("none" = "name")
      BY DEF Reached
    <3>2. Reading(t)' = Point(0, 0, FALSE)
      BY <2>1, <3>1 DEF Reading
    <3>3. (gone'[t] = "bye") = FALSE
      BY <2>1
    <3>4. Sending(t)' = Point(0, 0, FALSE)
      BY <2>1, <3>3, Zenon DEF Sending
    <3>5. QED
      BY <3>2, <3>4
  <2>3. Point(0, 0, FALSE) \in Points(sent'[t])
    <3>1. 0 \in 0..Within
      BY DEF Within, Ready, Introduction
    <3>2. QED
      BY <2>1, <3>1, PointsTyped
  <2>4. InTurn(t)'
    <3>1. 0 \in Nat /\ Point(0, 0, FALSE) \in Points(0)
      BY <2>1, <2>3
    <3>2. \E path \in [0..Len(<<>>) -> Points(0)] :
             IsPath(path, Point(0, 0, FALSE), <<>>, Point(0, 0, FALSE))
      BY <3>1, PathEmpty
    <3>3. QED
      BY <2>1, <2>2, <3>2 DEF InTurn
  <2>5. entries'[t] = [i \in 1..Len(entries'[t]) |-> i]
    BY <2>1
  <2>6. QED
    BY <2>1, <2>4, <2>5 DEF Followed
<1>4. CASE t = c /\ ~Connect(t)
  <2>1. gone[t] = "no" /\ place[t] >= 0
    <3>1. /\ gone[t] = "no"
          /\ place[t] \in 0..Ready - 1 \/ place[t] = Ready \/ place[t] = Within \/ place[t] >= 0
      BY <1>4 DEF Acts, Introduce, SendHeader, SendName, Interrupted, Dies
    <3>2. Ready = 5 /\ Within = 6
      BY DEF Ready, Within, Introduction
    <3>3. QED
      BY <3>1, <3>2
  <2>2. SUFFICES ASSUME Mine(t), Orderly(t)', place'[t] >= 0
                 PROVE  Followed(t)'
    BY <1>1 DEF Followed
  <2>3. /\ thread[t] \notin {"user", "adrift", "ended"} /\ InTurn(t)
        /\ entries[t] = [i \in 1..Len(entries[t]) |-> i]
        /\ thread[t] = "name" => pending[t] = Len(entries[t]) + 1
    BY <2>1, <2>2 DEF Followed, Orderly, LeftInOrder
  <2>4. SUFFICES InTurn(t)'
    BY <1>0, <2>3 DEF Followed, local
  <2>5. /\ Ready = 5 /\ Within = 6 /\ sent[t] \in Nat /\ sent'[t] \in Nat
        /\ Sending(t) = Point(place[t], sent[t], FALSE)
        /\ Sending(t)' \in Points(sent'[t])
    <3>1. Ready = 5 /\ Within = 6 /\ sent[t] \in Nat
      BY DEF Typed, Ready, Within, Introduction
    <3>2. /\ place'[t] \in -1..Within /\ place'[t] >= 0 /\ sent'[t] \in Nat
          /\ (gone'[t] = "bye") \in BOOLEAN
      BY <2>2 DEF Typed, TypeOK
    <3>3. place'[t] \in 0..Within
      BY <3>1, <3>2
    <3>4. Sending(t)' \in Points(sent'[t])
      BY <3>2, <3>3, PointsTyped DEF Sending
    <3>5. QED
      BY <2>1, <3>1, <3>2, <3>4 DEF Sending
  <2>6. ASSUME NEW piece \in Pieces, Send(t, piece), sent[t] <= sent'[t],
               Leads(Sending(t), piece, Sending(t)')
        PROVE  InTurn(t)'
    BY <1>0, <2>3, <2>5, <2>6, SendKeepsTurn
  <2> DEFINE from == Sending(t)
             to == Sending(t)'
  <2>7. CASE Introduce(t)
    <3>1. /\ place[t] \in 0..4 /\ place' = [place EXCEPT ![t] = place[t] + 1]
          /\ UNCHANGED <<sent, gone>>
          /\ Send(t, Piece(Introduction[place[t] + 1], 0))
      BY <2>5, <2>7 DEF Introduce
    <3>2. to = Point(place[t] + 1, sent[t], FALSE)
      <4>1. place'[t] = place[t] + 1
        BY <3>1 DEF Typed, TypeOK
      <4>2. QED
        BY <2>1, <3>1, <4>1 DEF Sending
    <3>3. Piece(Introduction[place[t] + 1], 0) \in Pieces
      <4>1. place[t] + 1 \in 1..5
        BY <3>1
      <4>2. Introduction[place[t] + 1] \in {"id", "size", "string"}
        BY <4>1 DEF Introduction
      <4>3. QED
        BY <4>2 DEF Piece, Pieces
    <3>4. Leads(from, Piece(Introduction[place[t] + 1], 0), to)
      <4>1. from.place = place[t] /\ from.sent = sent[t] /\ ~from.over
        BY <2>5 DEF Point
      <4>2. place[t] \in 0..Ready - 1
        BY <2>5, <3>1
      <4>3. QED
        BY <3>2, <4>1, <4>2 DEF Leads, Piece
    <3>5. QED
      <4>1. sent[t] <= sent'[t]
        BY <2>5, <3>1
      <4>2. QED
        BY <2>6, <3>1, <3>3, <3>4, <4>1
  <2>8. CASE SendHeader(t)
    <3>1. /\ place[t] = Ready /\ sent'[t] = sent[t] + 1 /\ UNCHANGED gone
      BY <2>8 DEF SendHeader, Typed
    <3>2. \A kind \in {"header", "header with len"} : Piece(kind, sent'[t]) \in Pieces
      BY <2>5 DEF Piece, Pieces
    <3>3. sent[t] <= sent'[t]
      BY <2>5, <3>1
    <3>4. CASE Send(t, Piece("header", sent'[t])) /\ UNCHANGED place
      <4>1. to = Point(Ready, sent[t] + 1, FALSE)
        BY <2>1, <3>1, <3>4 DEF Sending
      <4>2. Leads(from, Piece("header", sent'[t]), to)
        BY <2>5, <3>1, <4>1 DEF Leads, Point, Piece
      <4>3. QED
        BY <2>6, <3>2, <3>3, <3>4, <4>2
    <3>5. CASE /\ Send(t, Piece("header with len", sent'[t]))
               /\ place' = [place EXCEPT ![t] = Within]
      <4>1. to = Point(Within, sent[t] + 1, FALSE)
        BY <2>1, <3>1, <3>5 DEF Sending, Typed, TypeOK
      <4>2. Leads(from, Piece("header with len", sent'[t]), to)
        BY <2>5, <3>1, <4>1 DEF Leads, Point, Piece
      <4>3. QED
        BY <2>6, <3>2, <3>3, <3>5, <4>2
    <3>6. QED
      BY <2>8, <3>4, <3>5 DEF SendHeader
  <2>9. CASE SendName(t)
    <3>1. /\ place[t] = Within /\ place' = [place EXCEPT ![t] = Ready]
          /\ UNCHANGED <<sent, gone>> /\ Send(t, Piece("name", sent[t]))
      BY <2>9 DEF SendName
    <3>2. to = Point(Ready, sent[t], FALSE)
      BY <2>1, <3>1 DEF Sending, Typed, TypeOK
    <3>3. Piece("name", sent[t]) \in Pieces
      BY <2>5 DEF Piece, Pieces
    <3>4. Leads(from, Piece("name", sent[t]), to)
      BY <2>5, <3>1, <3>2 DEF Leads, Point, Piece
    <3>5. QED
      <4>1. sent[t] <= sent'[t]
        BY <2>5, <3>1
      <4>2. QED
        BY <2>6, <3>1, <3>3, <3>4, <4>1
  <2>10. CASE Interrupted(t)
    <3>1. /\ gone' = [gone EXCEPT ![t] = "bye"] /\ UNCHANGED <<place, sent>>
          /\ Send(t, Piece("bye", 0))
      BY <2>10 DEF Interrupted
    <3>2. to = Point(place[t], sent[t], TRUE)
      BY <3>1 DEF Sending, Typed, TypeOK
    <3>3. Piece("bye", 0) \in Pieces
      BY DEF Piece, Pieces
    <3>4. Leads(from, Piece("bye", 0), to)
      BY <2>5, <3>2 DEF Leads, Point, Piece
    <3>5. QED
      <4>1. sent[t] <= sent'[t]
        BY <2>5, <3>1
      <4>2. QED
        BY <2>6, <3>1, <3>3, <3>4, <4>1
  <2>11. CASE Dies(t)
    <3>1. gone'[t] = "died" /\ UNCHANGED <<place, sent, stream>>
      BY <2>11 DEF Dies, Typed, TypeOK
    <3>2. Sending(t)' = Sending(t) /\ Reading(t)' = Reading(t)
      BY <1>0, <2>1, <3>1 DEF Sending, Reading
    <3>3. QED
      BY <2>3, <3>1, <3>2 DEF InTurn
  <2>12. QED
    BY <1>4, <2>7, <2>8, <2>9, <2>10, <2>11 DEF Acts
<1>5. QED
  BY <1>2, <1>3, <1>4

---------------------------------------------------------------------------
(* What a thread finds in its client's stream                              *)

(* At its end: the client is where the thread is.                          *)
LEMMA NothingInTurn ==
    ASSUME Typed, NEW t \in Clients, InTurn(t), stream[t] = <<>>
    PROVE  /\ Reached[thread[t]] = place[t] /\ gone[t] # "bye"
           /\ sent[t] = IF thread[t] = "name" THEN Len(entries[t]) + 1 ELSE Len(entries[t])
<1>1. Reading(t) = Sending(t)
  <2>1. PICK path : IsPath(path, Reading(t), <<>>, Sending(t))
    BY DEF InTurn
  <2>2. QED
    BY <2>1, PathEmpty
<1>2. /\ Reading(t).place = Sending(t).place /\ Reading(t).sent = Sending(t).sent
      /\ Reading(t).over = Sending(t).over
  BY <1>1
<1>3. /\ Reached[thread[t]] = place[t]
      /\ sent[t] = IF thread[t] = "name" THEN Len(entries[t]) + 1 ELSE Len(entries[t])
  BY <1>2 DEF Reading, Sending, Point
<1>4. ~Reading(t).over
  BY DEF Reading, Point
<1>5. Sending(t).over = (gone[t] = "bye")
  BY DEF Sending, Point
<1>6. QED
  BY <1>2, <1>3, <1>4, <1>5

(* In front of it: what comes next, or a goodbye at the end.               *)
LEMMA FrontInTurn ==
    ASSUME Typed, NEW t \in Clients, InTurn(t), Arrived(t), NEW at, at = Reached[thread[t]],
           NEW before, before = IF thread[t] = "name" THEN Len(entries[t]) + 1 ELSE Len(entries[t])
    PROVE  \/ Kind(t) = "bye" /\ place[t] = at /\ sent[t] = before /\ gone[t] = "bye"
           \/ at \in 0..Ready - 1 /\ Kind(t) = Introduction[at + 1]
           \/ /\ at = Ready /\ Kind(t) \in {"header", "header with len"}
              /\ Head(stream[t]).event = before + 1
           \/ at = Within /\ Kind(t) = "name" /\ Head(stream[t]).event = before
<1>1. stream[t] \in Seq(Pieces) /\ stream[t] # <<>> /\ sent[t] \in Nat
  BY DEF Typed, Arrived
<1>2. PICK next \in Points(sent[t]) :
         /\ Leads(Reading(t), Head(stream[t]), next)
         /\ next.over => next = Sending(t)
  BY <1>1, PathShorter DEF InTurn
<1>3. Reading(t).place = at /\ Reading(t).sent = before /\ ~Reading(t).over
  BY DEF Reading, Point
<1>4. CASE Head(stream[t]).kind = "bye" /\ next = Point(at, before, TRUE)
  <2>1. next.over /\ next.place = at /\ next.sent = before
    BY <1>4 DEF Point
  <2>2. next = Sending(t)
    BY <1>2, <2>1
  <2>3. Sending(t).over = (gone[t] = "bye") /\ Sending(t).place = place[t] /\ Sending(t).sent = sent[t]
    BY DEF Sending, Point
  <2>4. QED
    BY <1>4, <2>1, <2>2, <2>3 DEF Kind
<1>5. QED
  BY <1>2, <1>3, <1>4 DEF Leads, Kind

(* Reading it takes the thread where the rest of the pieces begin.         *)
LEMMA TakeKeepsTurn ==
    ASSUME Typed, NEW t \in Clients, InTurn(t), Arrived(t), Take(t),
           place'[t] = place[t], sent'[t] = sent[t], gone'[t] = gone[t],
           \A next : Leads(Reading(t), Head(stream[t]), next) => next = Reading(t)'
    PROVE  InTurn(t)'
<1>1. stream[t] \in Seq(Pieces) /\ stream[t] # <<>> /\ sent[t] \in Nat
  BY DEF Typed, Arrived
<1>2. PICK next \in Points(sent[t]) :
         /\ Leads(Reading(t), Head(stream[t]), next)
         /\ \E rest \in [0..Len(Tail(stream[t])) -> Points(sent[t])] :
               IsPath(rest, next, Tail(stream[t]), Sending(t))
  BY <1>1, PathShorter DEF InTurn
<1>3. next = Reading(t)' /\ stream'[t] = Tail(stream[t]) /\ Sending(t)' = Sending(t)
  BY <1>2 DEF Take, Sending, Typed
<1>4. QED
  BY <1>2, <1>3 DEF InTurn

---------------------------------------------------------------------------
(* The accept loop's steps                                                 *)

(* A thread is started for a client that has sent its identity.            *)
LEMMA AcceptsKeepFollowed ==
    ASSUME Typed, Accepting, Accept \/ Identify, NEW t \in Clients, Followed(t)
    PROVE  Followed(t)'
<1>0. UNCHANGED <<place, sent, gone, sock, pending, entries>>
  <2>1. CASE Accept
    BY <2>1 DEF Accept, local
  <2>2. CASE Identify
    <3>1. \E start : Identified(new_socket, start)
      BY <2>2 DEF Identify, Misidentify
    <3>2. QED
      BY <3>1 DEF Identified, client, local
  <2>3. QED
    BY <2>1, <2>2
<1>1. Mine(t)' => Mine(t)
  BY <1>0 DEF Mine
<1>2. CASE Accept
  BY <1>0, <1>1, <1>2, FollowedElsewhere DEF Accept
<1>3. CASE Identify
  <2>1. PICK start \in {"none", "observer", "user"} : Identified(new_socket, start)
    BY <1>3 DEF Identify, Misidentify
  <2>2. /\ new_socket \in Clients /\ thread[new_socket] = "none" /\ place[new_socket] >= 0
        /\ thread' = [thread EXCEPT ![new_socket] = start]
        /\ thread \in [Clients -> Places]
    <3>1. new_socket \in Clients /\ thread[new_socket] = "none" /\ place[new_socket] # -1
      <4>1. acceptor = "identify"
        BY <1>3 DEF Identify
      <4>2. new_socket \in Clients
        BY <4>1 DEF Typed, TypeOK
      <4>3. QED
        BY <4>1, <4>2 DEF Accepting
    <3>2. place[new_socket] \in -1..Within /\ Within = 6
      <4>1. place \in [Clients -> -1..Within]
        BY DEF Typed, TypeOK
      <4>2. QED
        BY <3>1, <4>1 DEF Within, Ready, Introduction
    <3>3. place[new_socket] >= 0
      BY <3>1, <3>2
    <3>4. QED
      BY <2>1, <3>1, <3>3 DEF Identified, Typed, TypeOK
  <2>3. CASE t # new_socket
    <3>1. stream'[t] = stream[t]
      <4>1. \/ UNCHANGED stream
            \/ Arrived(new_socket) /\ (Take(new_socket) \/ TakeSome(new_socket))
        BY <1>3 DEF Identify, Misidentify
      <4>2. QED
        BY <1>0, <2>2, <2>3, <4>1, ReadsKeepStreams
    <3>2. thread'[t] = thread[t]
      BY <2>2, <2>3
    <3>3. QED
      BY <1>0, <1>1, <3>1, <3>2, FollowedElsewhere
  <2>4. CASE t = new_socket
    <3>1. SUFFICES ASSUME Mine(t), Orderly(t)
                   PROVE  Followed(t)'
      BY <1>0, <1>1 DEF Followed, Orderly, LeftInOrder
    <3>2. /\ InTurn(t) /\ entries[t] = [i \in 1..Len(entries[t]) |-> i]
          /\ thread[t] = "none" /\ Reached[thread[t]] = 0
          /\ Ready = 5 /\ Within = 6
      BY <2>2, <2>4, <3>1 DEF Followed, Reached, Ready, Within, Introduction
    <3>3. place[t] = 0 => gone[t] = "no"
      BY <3>1, <3>2 DEF Orderly, LeftInOrder
    <3>4. ~EndOfStream(t)
      BY <3>2, <3>3, NothingInTurn DEF EndOfStream
    <3>5. ASSUME Arrived(t)
          PROVE  Kind(t) = "id"
      <4>1. 0 \in 0..Ready - 1 /\ Introduction[0 + 1] = "id" /\ 0 # Ready /\ 0 # Within
        BY <3>2 DEF Introduction
      <4>2. QED
        BY <3>2, <3>3, <3>5, <4>1, FrontInTurn
    <3>6. Arrived(t) /\ Kind(t) = "id" /\ Take(t) /\ Identified(t, "observer")
      BY <1>3, <2>4, <3>4, <3>5 DEF Identify, Misidentify
    <3>7. thread'[t] = "observer"
      BY <2>2, <2>4, <3>6 DEF Identified
    <3>8. Reading(t) = Point(0, Len(entries[t]), FALSE)
      BY <3>2 DEF Reading
    <3>9. Reading(t)' = Point(1, Len(entries[t]), FALSE)
      BY <1>0, <3>7 DEF Reading, Reached
    <3>10. ASSUME NEW next, Leads(Reading(t), Head(stream[t]), next)
           PROVE  next = Reading(t)'
      <4>1. /\ Reading(t).place = 0 /\ Reading(t).sent = Len(entries[t])
            /\ Head(stream[t]).kind = "id"
        BY <3>6, <3>8 DEF Point, Kind
      <4>2. 0 # Ready /\ 0 # Within
        BY <3>2
      <4>3. next = Point(0 + 1, Len(entries[t]), FALSE)
        BY <3>10, <4>1, <4>2 DEF Leads
      <4>4. QED
        BY <3>9, <4>3
    <3>11. InTurn(t)'
      BY <1>0, <3>2, <3>6, <3>10, TakeKeepsTurn
    <3>12. QED
      BY <1>0, <3>2, <3>7, <3>11 DEF Followed
  <2>5. QED
    BY <2>3, <2>4
<1>4. QED
  BY <1>2, <1>3

---------------------------------------------------------------------------
(* The threads' steps                                                      *)

(* The next event is added to the events before it.                        *)
LEMMA NextEntry ==
    ASSUME Typed, NEW t \in Clients, entries[t] = [i \in 1..Len(entries[t]) |-> i],
           Adds(t, Len(entries[t]) + 1)
    PROVE  /\ Len(entries'[t]) = Len(entries[t]) + 1
           /\ entries'[t] = [i \in 1..Len(entries'[t]) |-> i]
<1>1. /\ entries[t] \in Seq(Nat) /\ Len(entries[t]) \in Nat
      /\ entries'[t] = Append(entries[t], Len(entries[t]) + 1)
  BY LenProperties DEF Adds, Typed, TypeOK
<1>2. PICK n \in Nat : n = Len(entries[t])
  BY <1>1
<1>3. /\ entries'[t] \in Seq(Nat) /\ Len(entries'[t]) = n + 1 /\ entries'[t][n + 1] = n + 1
      /\ \A i \in 1..n : entries'[t][i] = entries[t][i]
  <2>1. n + 1 \in Nat /\ entries'[t] = Append(entries[t], n + 1)
    BY <1>1, <1>2
  <2>2. QED
    BY <1>1, <1>2, <2>1, AppendProperties
<1>4. \A i \in 1..n : entries[t][i] = i
  BY <1>2
<1>5. \A i \in 1..n + 1 : entries'[t][i] = i
  <2>1. \A i \in 1..n + 1 : i \in 1..n \/ i = n + 1
    BY <1>2
  <2>2. QED
    BY <1>3, <1>4, <2>1
<1>6. entries'[t] = [i \in 1..n + 1 |-> entries'[t][i]]
  BY <1>3
<1>7. entries'[t] = [i \in 1..n + 1 |-> i]
  BY <1>5, <1>6
<1>8. QED
  BY <1>2, <1>3, <1>7

(* The thread starts to read.                                              *)
LEMMA StartKeepsFollowed ==
    ASSUME Typed, NEW u \in Clients, Start(u), NEW t \in Clients, Followed(t)
    PROVE  Followed(t)'
<1>0. /\ thread[u] \in {"observer", "user"} /\ sock[u] = NoClient
      /\ sock' = [sock EXCEPT ![u] = new_socket]
      /\ thread' = [thread EXCEPT ![u] = IF thread[u] = "observer" THEN "monitored_size"
                                                                   ELSE "adrift"]
      /\ UNCHANGED <<place, sent, gone, stream, pending, entries>>
  BY DEF Start, GoesTo, NotThread, client, Typed, TypeOK
<1>1. sock \in [Clients -> Clients \cup {NoClient}] /\ thread \in [Clients -> Places]
  BY DEF Typed, TypeOK
<1>2. Mine(t)' => Mine(t)
  <2>1. \A v \in Clients \ {u} : sock'[v] = sock[v]
    BY <1>0, <1>1
  <2>2. sock[u] # t
    BY <1>0, NoClientElse
  <2>3. sock[t] = sock'[t] \/ sock[t] = NoClient
    BY <1>0, <2>1
  <2>4. QED
    BY <2>1, <2>2, <2>3 DEF Mine
<1>3. CASE t # u
  <2>1. thread'[t] = thread[t]
    BY <1>0, <1>1, <1>3
  <2>2. QED
    BY <1>0, <1>2, <2>1, FollowedElsewhere
<1>4. CASE t = u
  <2>1. SUFFICES ASSUME Mine(t), Orderly(t), place[t] >= 0
                 PROVE  Followed(t)'
    BY <1>0, <1>2 DEF Followed, Orderly, LeftInOrder
  <2>2. /\ thread[t] = "observer" /\ InTurn(t)
        /\ entries[t] = [i \in 1..Len(entries[t]) |-> i]
    BY <1>0, <1>4, <2>1 DEF Followed
  <2>3. thread'[t] = "monitored_size"
    BY <1>0, <1>1, <1>4, <2>2
  <2>4. Reading(t)' = Reading(t) /\ Sending(t)' = Sending(t)
    <3>1. Reached["observer"] = Reached["monitored_size"]
      BY DEF Reached
    <3>2. UNCHANGED entries /\ UNCHANGED <<place, sent, gone>>
      BY <1>0
    <3>3. Reading(t)' = Reading(t)
      BY <2>2, <2>3, <3>1, <3>2 DEF Reading
    <3>4. Sending(t)' = Sending(t)
      BY <3>2 DEF Sending
    <3>5. QED
      BY <3>3, <3>4
  <2>5. InTurn(t)'
    BY <1>0, <2>2, <2>4 DEF InTurn
  <2>6. QED
    BY <1>0, <2>2, <2>3, <2>5 DEF Followed
<1>5. QED
  BY <1>3, <1>4

(* The introduction is read as it was sent.                                *)
LEMMA IntroductionKeepsFollowed ==
    ASSUME Typed, NEW t \in Clients, Followed(t), Mine(t), Orderly(t), place[t] >= 0,
           sock[t] = t, ReadIntroduction(t)
    PROVE  Followed(t)'
<1>0. /\ UNCHANGED <<place, sent, gone, sock, pending, entries>>
      /\ thread[t] \in {"monitored_size", "monitored", "host_size", "host"}
      /\ thread \in [Clients -> Places] /\ Ready = 5 /\ Within = 6
  BY DEF ReadIntroduction, NotThread, client, local, Expected, Typed, TypeOK, Ready, Within,
     Introduction
<1>1. InTurn(t) /\ entries[t] = [i \in 1..Len(entries[t]) |-> i]
  BY <1>0 DEF Followed
<1>2. PICK at : at = Reached[thread[t]]
  OBVIOUS
<1>3. /\ at \in {1, 2, 3, 4} /\ Introduction[at + 1] = Expected[thread[t]]
      /\ Reached[Following[thread[t]]] = at + 1
      /\ Following[thread[t]] \in {"monitored", "host_size", "host", "loop"}
  BY <1>0, <1>2 DEF Reached, Expected, Following, Introduction
<1>4. place[t] = at => gone[t] = "no"
  BY <1>0, <1>3 DEF Orderly, LeftInOrder
<1>5. ~EndOfStream(t)
  BY <1>1, <1>2, <1>4, NothingInTurn DEF EndOfStream
<1>6. Arrived(t) => Kind(t) = Expected[thread[t]]
  <2>1. PICK before : before = IF thread[t] = "name" THEN Len(entries[t]) + 1 ELSE Len(entries[t])
    OBVIOUS
  <2>2. at # Ready /\ at # Within
    BY <1>0, <1>3
  <2>3. QED
    BY <1>1, <1>2, <1>3, <1>4, <2>1, <2>2, FrontInTurn
<1>7. Arrived(t) /\ Take(t) /\ thread' = [thread EXCEPT ![t] = Following[thread[t]]]
  BY <1>5, <1>6 DEF ReadIntroduction, GoesTo
<1>8. thread'[t] = Following[thread[t]]
  BY <1>0, <1>7
<1>9. Reading(t) = Point(at, Len(entries[t]), FALSE)
  BY <1>0, <1>2 DEF Reading
<1>10. Reading(t)' = Point(at + 1, Len(entries[t]), FALSE)
  BY <1>0, <1>3, <1>8 DEF Reading
<1>11. ASSUME NEW next, Leads(Reading(t), Head(stream[t]), next)
       PROVE  next = Reading(t)'
  <2>1. /\ Reading(t).place = at /\ Reading(t).sent = Len(entries[t])
        /\ Head(stream[t]).kind # "bye"
    BY <1>0, <1>6, <1>7, <1>9 DEF Point, Kind, Expected
  <2>2. at # Ready /\ at # Within
    BY <1>0, <1>3
  <2>3. next = Point(at + 1, Len(entries[t]), FALSE)
    BY <1>11, <2>1, <2>2 DEF Leads
  <2>4. QED
    BY <1>10, <2>3
<1>12. InTurn(t)'
  BY <1>0, <1>1, <1>7, <1>11, TakeKeepsTurn
<1>13. QED
  BY <1>0, <1>1, <1>3, <1>8, <1>12 DEF Followed

(* An event is added, or its name is read next, or it was the last.        *)
LEMMA HeaderKeepsFollowed ==
    ASSUME Typed, NEW t \in Clients, Followed(t), Mine(t), Orderly(t), place[t] >= 0,
           sock[t] = t, ReadHeader(t)
    PROVE  Followed(t)'
<1>0. /\ UNCHANGED <<place, sent, gone, sock>> /\ thread[t] = "loop"
      /\ thread \in [Clients -> Places] /\ pending \in [Clients -> Nat]
      /\ Ready = 5 /\ Within = 6 /\ sent[t] \in Nat
  <2>1. UNCHANGED <<place, sent, gone, sock>> /\ thread[t] = "loop"
    BY DEF ReadHeader, ReadHeaderUntil, NotThread, client
  <2>2. thread \in [Clients -> Places] /\ pending \in [Clients -> Nat] /\ sent[t] \in Nat
    BY DEF Typed, TypeOK
  <2>3. Ready = 5 /\ Within = 6
    BY DEF Ready, Within, Introduction
  <2>4. QED
    BY <2>1, <2>2, <2>3
<1>1. InTurn(t) /\ entries[t] = [i \in 1..Len(entries[t]) |-> i]
  BY <1>0 DEF Followed
<1>2. PICK n \in Nat : n = Len(entries[t])
  <2>1. entries[t] \in Seq(Nat)
    BY DEF Typed, TypeOK
  <2>2. QED
    BY <2>1, LenProperties
<1>3. Reached["loop"] = 5 /\ Reading(t) = Point(Ready, n, FALSE)
  BY <1>0, <1>2 DEF Reading, Reached
<1>4. ASSUME Arrived(t)
      PROVE  \/ Kind(t) = "bye" /\ place[t] = Ready /\ sent[t] = n /\ gone[t] = "bye"
             \/ /\ Kind(t) \in {"header", "header with len"}
                /\ Head(stream[t]).event = n + 1
  <2>1. 5 \notin 0..Ready - 1 /\ 5 # Within
    BY <1>0
  <2>2. PICK at : at = Reached[thread[t]]
    OBVIOUS
  <2>3. PICK before :
           before = IF thread[t] = "name" THEN Len(entries[t]) + 1 ELSE Len(entries[t])
    OBVIOUS
  <2>4. at = 5 /\ before = n
    BY <1>0, <1>2, <1>3, <2>2, <2>3
  <2>5. Arrived(t) /\ InTurn(t)
    BY <1>1, <1>4
  <2>6. \/ Kind(t) = "bye" /\ place[t] = at /\ sent[t] = before /\ gone[t] = "bye"
        \/ at \in 0..Ready - 1 /\ Kind(t) = Introduction[at + 1]
        \/ /\ at = Ready /\ Kind(t) \in {"header", "header with len"}
           /\ Head(stream[t]).event = before + 1
        \/ at = Within /\ Kind(t) = "name" /\ Head(stream[t]).event = before
    BY ONLY Typed, t \in Clients, <2>2, <2>3, <2>5, FrontInTurn
  <2>7. QED
    BY <1>0, <2>1, <2>4, <2>6
<1>5. ASSUME NEW next, Leads(Reading(t), Head(stream[t]), next)
      PROVE  /\ Kind(t) = "header" => next = Point(Ready, n + 1, FALSE)
             /\ Kind(t) = "header with len" => next = Point(Within, n + 1, FALSE)
  <2>1. Reading(t).place = 5 /\ Reading(t).sent = n
    BY <1>0, <1>3 DEF Point
  <2>2. 5 \notin 0..Ready - 1 /\ 5 # Within
    BY <1>0
  <2>3. QED
    BY <1>5, <2>1, <2>2 DEF Leads, Kind
<1>6. CASE /\ Arrived(t) /\ Kind(t) = "header" /\ Adds(t, Head(stream[t]).event)
           /\ Take(t) /\ UNCHANGED <<thread, pending>>
  <2>1. Adds(t, n + 1)
    BY <1>4, <1>6
  <2>2. Len(entries'[t]) = n + 1 /\ entries'[t] = [i \in 1..Len(entries'[t]) |-> i]
    BY <1>1, <1>2, <2>1, NextEntry
  <2>3. Reading(t)' = Point(Ready, n + 1, FALSE)
    BY <1>0, <1>3, <1>6, <2>2 DEF Reading
  <2>4. InTurn(t)'
    BY <1>0, <1>1, <1>5, <1>6, <2>3, TakeKeepsTurn
  <2>5. QED
    BY <1>0, <1>6, <2>2, <2>4 DEF Followed
<1>7. CASE /\ Arrived(t) /\ Kind(t) = "header with len"
           /\ pending' = [pending EXCEPT ![t] = Head(stream[t]).event]
           /\ Take(t) /\ GoesTo(t, "name") /\ UNCHANGED entries
  <2>1. pending'[t] = n + 1 /\ thread'[t] = "name"
    <3>1. Head(stream[t]).event = n + 1
      BY <1>4, <1>7
    <3>2. pending'[t] = Head(stream[t]).event
      BY <1>0, <1>7
    <3>3. thread'[t] = "name"
      BY <1>0, <1>7 DEF GoesTo
    <3>4. QED
      BY <3>1, <3>2, <3>3
  <2>2. Reading(t)' = Point(Within, n + 1, FALSE)
    <3>1. Reached["name"] = Within /\ Len(entries'[t]) = n
      BY <1>2, <1>7 DEF Reached
    <3>2. QED
      BY <2>1, <3>1 DEF Reading
  <2>3. InTurn(t)'
    BY <1>0, <1>1, <1>5, <1>7, <2>2, TakeKeepsTurn
  <2>4. QED
    BY <1>1, <1>2, <1>7, <2>1, <2>3 DEF Followed
<1>8. CASE /\ (Arrived(t) /\ Kind(t) = "bye") \/ EndOfStream(t)
           /\ GoesTo(t, "ended") /\ UNCHANGED entries
  <2>1. place[t] = Ready /\ sent[t] = n /\ gone[t] # "no"
    <3>1. CASE Arrived(t) /\ Kind(t) = "bye"
      BY <1>4, <3>1
    <3>2. CASE EndOfStream(t)
      BY <1>0, <1>1, <1>2, <1>3, <3>2, NothingInTurn DEF EndOfStream
    <3>3. QED
      BY <1>8, <3>1, <3>2
  <2>2. thread'[t] = "ended" /\ place'[t] # Within /\ Len(entries'[t]) = sent'[t]
    BY <1>0, <1>2, <1>8, <2>1 DEF GoesTo
  <2>3. QED
    BY <1>0, <1>1, <1>8, <2>1, <2>2 DEF Followed
<1>9. QED
  BY <1>4, <1>6, <1>7, <1>8 DEF ReadHeader, ReadHeaderUntil

(* The name is the event's, or did not come.                               *)
LEMMA NameKeepsFollowed ==
    ASSUME Typed, NEW t \in Clients, Followed(t), Mine(t), Orderly(t), place[t] >= 0,
           sock[t] = t, ReadName(t)
    PROVE  Followed(t)'
<1>0. /\ UNCHANGED <<place, sent, gone, sock, pending>> /\ thread[t] = "name"
      /\ thread \in [Clients -> Places] /\ Ready = 5 /\ Within = 6 /\ sent[t] \in Nat
  BY DEF ReadName, NotThread, client, local, Typed, TypeOK, Ready, Within, Introduction
<1>1. InTurn(t) /\ entries[t] = [i \in 1..Len(entries[t]) |-> i]
  BY <1>0 DEF Followed
<1>2. PICK n \in Nat : n = Len(entries[t])
  <2>1. entries[t] \in Seq(Nat)
    BY DEF Typed, TypeOK
  <2>2. QED
    BY <2>1, LenProperties
<1>3. /\ Reached["name"] = 6 /\ Reading(t) = Point(Within, n + 1, FALSE)
      /\ pending[t] = n + 1
  BY <1>0, <1>2 DEF Reading, Reached, Followed
<1>4. place[t] = Within => gone[t] # "bye"
  BY <1>0 DEF Orderly, LeftInOrder
<1>5. ASSUME Arrived(t)
      PROVE  Kind(t) = "name" /\ Head(stream[t]).event = n + 1
  <2>1. 6 \notin 0..Ready - 1 /\ 6 # Ready
    BY <1>0
  <2>2. QED
    BY <1>0, <1>1, <1>2, <1>3, <1>4, <1>5, <2>1, FrontInTurn
<1>6. CASE Arrived(t)
  <2>1. Take(t) /\ GoesTo(t, "loop") /\ Adds(t, n + 1)
    BY <1>3, <1>5, <1>6 DEF ReadName, EndOfStream, Arrived
  <2>2. Len(entries'[t]) = n + 1 /\ entries'[t] = [i \in 1..Len(entries'[t]) |-> i]
    BY <1>1, <1>2, <2>1, NextEntry
  <2>3. thread'[t] = "loop"
    BY <1>0, <2>1 DEF GoesTo
  <2>4. Reading(t)' = Point(Ready, n + 1, FALSE)
    BY <2>2, <2>3 DEF Reading, Reached
  <2>5. ASSUME NEW next, Leads(Reading(t), Head(stream[t]), next)
        PROVE  next = Reading(t)'
    <3>1. Reading(t).place = 6 /\ Reading(t).sent = n + 1 /\ Head(stream[t]).kind = "name"
      BY <1>0, <1>3, <1>5, <1>6 DEF Point, Kind
    <3>2. 6 \notin 0..Ready - 1 /\ 6 # Ready
      BY <1>0
    <3>3. QED
      BY <2>4, <2>5, <3>1, <3>2 DEF Leads
  <2>6. InTurn(t)'
    BY <1>0, <1>1, <1>6, <2>1, <2>5, TakeKeepsTurn
  <2>7. QED
    BY <1>0, <2>2, <2>3, <2>6 DEF Followed
<1>7. CASE ~Arrived(t)
  <2>1. EndOfStream(t) /\ GoesTo(t, "ended") /\ UNCHANGED entries
    BY <1>7 DEF ReadName
  <2>2. place[t] = Within /\ sent[t] = n + 1 /\ gone[t] # "no"
    BY <1>0, <1>1, <1>2, <1>3, <2>1, NothingInTurn DEF EndOfStream
  <2>3. thread'[t] = "ended" /\ place'[t] = Within /\ Len(entries'[t]) = sent'[t] - 1
    <3>1. n = (n + 1) - 1
      BY <1>2
    <3>2. QED
      BY <1>0, <1>2, <2>1, <2>2, <3>1 DEF GoesTo
  <2>4. QED
    BY <1>0, <1>1, <2>1, <2>2, <2>3 DEF Followed
<1>8. QED
  BY <1>6, <1>7

(* A thread's step.                                                        *)
LEMMA ServesKeepFollowed ==
    ASSUME Typed, NEW u \in Clients, Serves(u), NEW t \in Clients, Followed(t)
    PROVE  Followed(t)'
<1>1. CASE Start(u)
  BY <1>1, StartKeepsFollowed
<1>2. CASE ReadIntroduction(u) \/ ReadHeader(u) \/ ReadName(u) \/ Overflows(u) \/ Drift(u)
  <2>1. sock[u] \in Clients /\ UNCHANGED <<place, sent, gone, sock>>
    BY <1>2, ThreadReads DEF client
  <2>2. SUFFICES ASSUME Mine(t), Orderly(t), place[t] >= 0
                 PROVE  Followed(t)'
    BY <2>1 DEF Followed, Mine, Orderly, LeftInOrder
  <2>3. CASE t # u
    <3>1. sock[u] # t
      BY <2>2, <2>3 DEF Mine
    <3>2. stream'[t] = stream[t]
      <4>1. \/ UNCHANGED stream
            \/ Arrived(sock[u]) /\ (Take(sock[u]) \/ TakeSome(sock[u]))
        BY <1>2, ThreadReads
      <4>2. QED
        BY <2>1, <3>1, <4>1, ReadsKeepStreams
    <3>3. thread'[t] = thread[t] /\ pending'[t] = pending[t] /\ entries'[t] = entries[t]
      <4>1. /\ thread \in [Clients -> Places] /\ pending \in [Clients -> Nat]
            /\ entries \in [Clients -> Seq(Nat)]
        BY DEF Typed, TypeOK
      <4>2. UNCHANGED thread \/ \E at : GoesTo(u, at)
        BY <1>2, ThreadReads
      <4>3. /\ UNCHANGED entries \/ \E event : Adds(u, event)
            /\ UNCHANGED pending \/ \E event : pending' = [pending EXCEPT ![u] = event]
        BY <1>2 DEF ReadIntroduction, ReadHeader, ReadHeaderUntil, ReadName, Overflows,
           Drift, AddsSpurious, local
      <4>4. QED
        BY <2>3, <4>1, <4>2, <4>3 DEF GoesTo, Adds
    <3>4. QED
      BY <2>1, <2>2, <3>2, <3>3, FollowedElsewhere DEF Mine
  <2>4. CASE t = u
    <3>1. sock[t] = t
      BY <2>1, <2>2, <2>4, NoClientElse DEF Mine
    <3>2. thread[t] # "adrift"
      BY <2>2 DEF Followed
    <3>3. t \in Fitting
      BY <2>2 DEF Orderly
    <3>4. ReadIntroduction(t) \/ ReadHeader(t) \/ ReadName(t)
      BY <1>2, <2>4, <3>1, <3>2, <3>3 DEF Overflows, Drift
    <3>5. QED
      BY <2>2, <3>1, <3>4, IntroductionKeepsFollowed, HeaderKeepsFollowed, NameKeepsFollowed
  <2>5. QED
    BY <2>3, <2>4
<1>3. QED
  BY <1>1, <1>2 DEF Serves

---------------------------------------------------------------------------
(* Every behaviour                                                         *)

(* Before anybody connects there is nothing to read.                       *)
LEMMA InitStreams == Init => StreamInv
<1>1. SUFFICES ASSUME Init
               PROVE  StreamInv
  OBVIOUS
<1>2. Ready = 5 /\ Within = 6
  BY DEF Ready, Within, Introduction
<1>3. Typed
  <2>1. ClientsTyped
    <3>1. \A c \in Clients : MaxEvents[c] \in Nat
      BY MaxEventsNumber
    <3>2. -1 \in -1..Within /\ \A n \in Nat : 0 \in 0..n
      BY <1>2
    <3>3. QED
      BY <1>1, <3>1, <3>2 DEF Init, ClientsTyped
  <2>2. ServerTyped
    BY <1>1 DEF Init, ServerTyped, Places
  <2>3. StreamsTyped /\ backlog \in Seq(Clients)
    BY <1>1 DEF Init, StreamsTyped
  <2>4. QED
    BY <2>1, <2>2, <2>3, TypedParts
<1>4. Accepting
  BY <1>1 DEF Init, Accepting
<1>5. \A t \in Clients : Followed(t)
  BY <1>1 DEF Init, Followed
<1>6. QED
  BY <1>3, <1>4, <1>5 DEF StreamInv

(* A thread there is belongs to a client that has connected.               *)
LEMMA ThreadConnected ==
    ASSUME Typed, Accepting, NEW t \in Clients, thread[t] # "none"
    PROVE  place[t] >= 0
<1>1. place[t] # -1
  BY DEF Accepting
<1>2. place \in [Clients -> -1..Within]
  BY DEF Typed, TypeOK
<1>3. Within = 6
  BY DEF Within, Ready, Introduction
<1>4. QED
  BY <1>1, <1>2, <1>3

(* Whatever is done, the pieces on the way lead from each thread to its    *)
(* client.                                                                 *)
LEMMA NextStreams == StreamInv /\ [Next]_vars => StreamInv'
<1>1. CASE UNCHANGED vars
  <2>1. SUFFICES ASSUME StreamInv
                 PROVE  StreamInv'
    OBVIOUS
  <2>2. UNCHANGED <<place, sent, gone, backlog, stream, acceptor, new_socket, thread, sock,
                    pending, entries, up>>
    BY <1>1 DEF vars, client, server, local
  <2>3. Typed'
    BY <2>1, <2>2 DEF StreamInv, Typed, TypeOK
  <2>4. Accepting'
    BY <2>1, <2>2 DEF StreamInv, Accepting
  <2>5. \A t \in Clients : Followed(t)'
    BY <2>1, <2>2, FollowedElsewhere DEF StreamInv, Mine
  <2>6. QED
    BY <2>3, <2>4, <2>5 DEF StreamInv
<1>2. CASE Next
  <2>1. SUFFICES ASSUME StreamInv
                 PROVE  StreamInv'
    OBVIOUS
  <2>2. CASE Accept \/ Identify
    BY <2>1, <2>2, AcceptsKeepTypes, AcceptsKeepAccepting, AcceptsKeepFollowed DEF StreamInv
  <2>3. ASSUME NEW c \in Clients, Acts(c)
        PROVE  StreamInv'
    BY <2>1, <2>3, ActsKeepTypes, ActsKeepAccepting, ActsKeepFollowed DEF StreamInv
  <2>4. ASSUME NEW c \in Clients, Serves(c)
        PROVE  StreamInv'
    BY <2>1, <2>4, ServesKeepTypes, ServesKeepAccepting, ServesKeepFollowed DEF StreamInv
  <2>5. QED
    BY <1>2, <2>2, <2>3, <2>4 DEF Next
<1>3. QED
  BY <1>1, <1>2

(* The pieces in every stream lead from its thread's place to its          *)
(* client's, or somebody else read it or the client broke off.             *)
THEOREM StreamInductive == Spec => []StreamInv
BY InitStreams, NextStreams, PTL DEF Spec

(* Every variable has its type.                                            *)
THEOREM StreamTyped == Spec => []TypeOK
<1>1. StreamInv => TypeOK
  BY DEF StreamInv, Typed
<1>2. QED
  BY <1>1, StreamInductive, PTL

(* What a thread that alone serves an orderly client adds are the client's *)
(* events, in their order, however their steps are interleaved.            *)
THEOREM EntriesRight == Spec => []EntriesAreEvents
<1>1. ASSUME StreamInv, NEW t \in Clients, Alone(t), Orderly(t)
      PROVE  /\ thread[t] # "adrift" /\ entries[t] = [i \in 1..Len(entries[t]) |-> i]
             /\ Len(entries[t]) <= sent[t]
  <2>1. Mine(t) /\ sock[t] = t
    BY <1>1 DEF Alone, Mine
  <2>2. place[t] >= 0
    <3>1. thread[t] # "none"
      BY <1>1, <2>1, NoClientElse DEF StreamInv, Typed, TypeOK
    <3>2. QED
      BY <1>1, <3>1, ThreadConnected DEF StreamInv
  <2>3. Followed(t) /\ sent[t] \in Nat /\ entries[t] \in Seq(Nat)
    BY <1>1 DEF StreamInv, Typed, TypeOK
  <2>4. thread[t] # "adrift" /\ entries[t] = [i \in 1..Len(entries[t]) |-> i]
    BY <1>1, <2>1, <2>2, <2>3 DEF Followed
  <2>5. PICK n \in Nat : n = Len(entries[t])
    BY <2>3, LenProperties
  <2>6. CASE thread[t] = "ended"
    <3>1. n = sent[t] \/ n = sent[t] - 1
      BY <1>1, <2>1, <2>2, <2>3, <2>5, <2>6 DEF Followed
    <3>2. QED
      BY <2>3, <2>4, <2>5, <3>1
  <2>7. CASE thread[t] # "ended"
    <3>1. PICK path \in [0..Len(stream[t]) -> Points(sent[t])] : path[0] = Reading(t)
      BY <1>1, <2>1, <2>2, <2>3, <2>7 DEF Followed, InTurn, IsPath
    <3>2. 0 \in 0..Len(stream[t])
      <4>1. stream[t] \in Seq(Pieces)
        BY <1>1 DEF StreamInv, Typed
      <4>2. Len(stream[t]) \in Nat
        BY <4>1, LenProperties
      <4>3. QED
        BY <4>2
    <3>3. Reading(t) \in Points(sent[t])
      BY <3>1, <3>2
    <3>4. Reading(t).sent \in 0..sent[t]
      BY <3>3 DEF Points
    <3>5. Reading(t).sent = n \/ Reading(t).sent = n + 1
      BY <2>5 DEF Reading, Point
    <3>6. n <= sent[t]
      BY <2>3, <2>5, <3>4, <3>5
    <3>7. QED
      BY <2>4, <2>5, <3>6
  <2>8. QED
    BY <2>6, <2>7
<1>2. StreamInv => EntriesAreEvents
  BY <1>1 DEF EntriesAreEvents
<1>3. QED
  BY <1>2, StreamInductive, PTL

(* What a client whose session ended has of ImplementsDelivery: all of its *)
(* events were added, but for one it did not live to send the name of.     *)
NoEventLost ==
    \A t \in Clients :
        Alone(t) /\ Orderly(t) /\ thread[t] = "ended" =>
            Len(entries[t]) = IF place[t] = Within THEN sent[t] - 1 ELSE sent[t]

(* A thread that is alone with an orderly client ends only when it has     *)
(* added all of the client's events (server.c:60-64).                      *)
THEOREM NoneLost == Spec => []NoEventLost
<1>1. ASSUME StreamInv, NEW t \in Clients, Alone(t), Orderly(t), thread[t] = "ended"
      PROVE  Len(entries[t]) = IF place[t] = Within THEN sent[t] - 1 ELSE sent[t]
  <2>1. Mine(t)
    BY <1>1 DEF Alone, Mine
  <2>2. place[t] >= 0
    BY <1>1, ThreadConnected DEF StreamInv
  <2>3. QED
    BY <1>1, <2>1, <2>2 DEF StreamInv, Followed
<1>2. StreamInv => NoEventLost
  BY <1>1 DEF NoEventLost
<1>3. QED
  BY <1>2, StreamInductive, PTL

---------------------------------------------------------------------------
(* The delivery of the events                                              *)

(* How far a point is: two for an event, one for its header alone.         *)
Progress(p) == IF p.place = Within THEN 2 * p.sent - 1 ELSE 2 * p.sent

(* A piece does not lead back.                                             *)
LEMMA LeadsOn ==
    ASSUME NEW limit \in Nat, NEW p \in Points(limit), NEW q, NEW piece, Leads(p, piece, q)
    PROVE  Progress(p) <= Progress(q)
<1>1. Ready = 5 /\ Within = 6
  BY DEF Ready, Within, Introduction
<1>2. p.place \in 0..6 /\ p.sent \in Nat
  BY <1>1 DEF Points
<1>3. \/ q = Point(p.place, p.sent, TRUE)
      \/ p.place \in 0..Ready - 1 /\ q = Point(p.place + 1, p.sent, FALSE)
      \/ /\ p.place = Ready
         /\ q = Point(Ready, p.sent + 1, FALSE) \/ q = Point(Within, p.sent + 1, FALSE)
      \/ p.place = Within /\ q = Point(Ready, p.sent, FALSE)
  BY Zenon DEF Leads
<1>4. \/ q.place = p.place /\ q.sent = p.sent
      \/ p.place \in 0..Ready - 1 /\ q.place = p.place + 1 /\ q.sent = p.sent
      \/ p.place = Ready /\ q.place \in {Ready, Within} /\ q.sent = p.sent + 1
      \/ p.place = Within /\ q.place = Ready /\ q.sent = p.sent
  BY <1>3 DEF Point
<1>5. QED
  BY <1>1, <1>2, <1>4 DEF Progress

(* A thread has added no more events than it has been sent in full.        *)
AddsWhatWasSent ==
    \A t \in Clients :
        Mine(t) /\ Orderly(t) /\ place[t] >= 0 /\ thread[t] # "ended" =>
            Len(entries[t]) <= IF gone[t] # "no" /\ place[t] = Within
                               THEN sent[t] - 1 ELSE sent[t]

LEMMA EntriesWithin == StreamInv => AddsWhatWasSent
<1> SUFFICES ASSUME StreamInv, NEW t \in Clients, Mine(t), Orderly(t), place[t] >= 0,
                    thread[t] # "ended"
             PROVE  Len(entries[t]) <= IF gone[t] # "no" /\ place[t] = Within
                                       THEN sent[t] - 1 ELSE sent[t]
  BY DEF AddsWhatWasSent
<1>1. /\ Followed(t) /\ sent[t] \in Nat /\ entries[t] \in Seq(Nat)
      /\ stream[t] \in Seq(Pieces) /\ thread[t] \in Places
  BY DEF StreamInv, Typed, TypeOK
<1>2. thread[t] \notin {"user", "adrift", "ended"} /\ InTurn(t)
  BY <1>1 DEF Followed
<1>3. PICK n \in Nat : n = Len(entries[t])
  BY <1>1, LenProperties
<1>4. PICK m \in Nat : m = Len(stream[t])
  BY <1>1, LenProperties
<1>5. PICK path \in [0..m -> Points(sent[t])] :
         IsPath(path, Reading(t), stream[t], Sending(t))
  BY <1>2, <1>4 DEF InTurn
<1>6. Progress(Reading(t)) <= Progress(Sending(t))
  <2> DEFINE Further == {i \in 0..m : Progress(path[0]) <= Progress(path[i])}
  <2>1. ASSUME NEW p \in Points(sent[t])
        PROVE  Progress(p) \in Int
    <3>1. p.sent \in Nat
      BY <1>1, <2>1 DEF Points
    <3>2. QED
      BY <3>1 DEF Progress
  <2>2. 0 \in Further
    <3>1. 0 \in 0..m
      OBVIOUS
    <3>2. Progress(path[0]) \in Int
      BY <2>1, <3>1
    <3>3. QED
      BY <3>1, <3>2
  <2>3. ASSUME NEW i \in 1..m, i - 1 \in Further
        PROVE  i \in Further
    <3>1. i \in 0..m /\ i - 1 \in 0..m /\ 0 \in 0..m
      BY <2>3
    <3>2. Leads(path[i - 1], stream[t][i], path[i])
      BY <1>4, <1>5 DEF IsPath
    <3>3. Progress(path[i - 1]) <= Progress(path[i])
      BY <1>1, <3>1, <3>2, LeadsOn
    <3>4. /\ Progress(path[0]) \in Int /\ Progress(path[i - 1]) \in Int
          /\ Progress(path[i]) \in Int
      BY <2>1, <3>1
    <3>5. Progress(path[0]) <= Progress(path[i - 1])
      BY <2>3
    <3>6. Progress(path[0]) <= Progress(path[i])
      BY <3>3, <3>4, <3>5
    <3>7. QED
      BY <3>1, <3>6
  <2>4. m \in Further
    <3> HIDE DEF Further
    <3>1. \A i \in 0..m : i \in Further
      BY <2>2, <2>3, EveryIndex
    <3>2. QED
      BY <3>1
  <2>5. path[0] = Reading(t) /\ path[m] = Sending(t)
    BY <1>4, <1>5 DEF IsPath
  <2>6. QED
    BY <2>4, <2>5
<1>7. Progress(Reading(t)) >= 2 * n
  <2>1. Ready = 5 /\ Within = 6
    BY DEF Ready, Within, Introduction
  <2>2. thread[t] \in {"none", "observer", "monitored_size", "monitored", "host_size",
                       "host", "loop", "name"}
    BY <1>1, <1>2 DEF Places, Expected
  <2>3. Reached[thread[t]] = 6 <=> thread[t] = "name"
    BY <2>1, <2>2 DEF Reached
  <2>4. /\ Reading(t).place = Reached[thread[t]]
        /\ Reading(t).sent = IF thread[t] = "name" THEN n + 1 ELSE n
    BY <1>3 DEF Reading, Point
  <2>5. QED
    BY <2>1, <2>3, <2>4 DEF Progress
<1>8. Progress(Sending(t)) = IF place[t] = Within THEN 2 * sent[t] - 1 ELSE 2 * sent[t]
  BY DEF Progress, Sending, Point
<1>9. PICK s \in Nat : s = sent[t]
  BY <1>1
<1>10. 2 * n <= IF place[t] = Within THEN 2 * s - 1 ELSE 2 * s
  <2>1. Progress(Reading(t)) \in Int
    <3>1. Reading(t).sent \in Nat
      BY <1>3 DEF Reading, Point
    <3>2. QED
      BY <3>1 DEF Progress
  <2>2. QED
    BY <1>6, <1>7, <1>8, <1>9, <2>1
<1>11. QED
  BY <1>3, <1>9, <1>10

(* The abstract sessions.                                                  *)
Sessions == [c \in Clients |-> AsPromised(c)]

Delivers == Promised!Next \/ UNCHANGED Sessions

(* What changes nothing of a session.                                      *)
LEMMA SameSession ==
    ASSUME NEW c \in Clients, UNCHANGED sock, entries'[c] = entries[c],
           sent'[c] = sent[c], gone'[c] = gone[c],
           place'[c] = place[c] \/ gone[c] = "no",
           thread'[c] = "ended" <=> thread[c] = "ended"
    PROVE  AsPromised(c)' = AsPromised(c)
<1>1. Mine(c)' = Mine(c)
  BY DEF Mine
<1>2. Orderly(c)' = Orderly(c)
  BY DEF Orderly, LeftInOrder
<1>3. (thread'[c] = "ended") = (thread[c] = "ended")
  OBVIOUS
<1>4. QED
  BY <1>1, <1>2, <1>3 DEF AsPromised

(* A step of one session.                                                  *)
LEMMA OneSession ==
    ASSUME NEW c \in Clients, \A d \in Clients \ {c} : AsPromised(d)' = AsPromised(d)
    PROVE  /\ Sessions' = [Sessions EXCEPT ![c] = AsPromised(c)']
           /\ AsPromised(c)' = AsPromised(c) => UNCHANGED Sessions
BY DEF Sessions

(* A client's steps.                                                       *)
LEMMA ActsDeliver ==
    ASSUME StreamInv, NEW c \in Clients, Acts(c)
    PROVE  Delivers
<1>1. UNCHANGED <<thread, sock, entries>>
  BY DEF Acts, Connect, Introduce, SendHeader, SendName, Interrupted, Dies, NotClient, local
<1>2. \A d \in Clients \ {c} :
         place'[d] = place[d] /\ sent'[d] = sent[d] /\ gone'[d] = gone[d]
  BY DEF StreamInv, Typed, TypeOK,
         Acts, Connect, Introduce, SendHeader, SendName, Interrupted, Dies
<1>3. \A d \in Clients \ {c} : AsPromised(d)' = AsPromised(d)
  BY <1>1, <1>2, SameSession
<1>4. /\ place \in [Clients -> -1..Within] /\ gone \in [Clients -> {"no", "bye", "died"}]
      /\ sent \in [Clients -> Nat]
  BY DEF StreamInv, Typed, TypeOK
<1>5. Mine(c)' = Mine(c)
  BY <1>1 DEF Mine
<1>6. CASE Connect(c) \/ Introduce(c) \/ SendName(c)
  <2>1. gone[c] = "no" /\ UNCHANGED <<gone, sent>>
    BY <1>6 DEF Connect, Introduce, SendName, StreamInv, Accepting
  <2>2. AsPromised(c)' = AsPromised(c)
    BY <1>1, <2>1, SameSession
  <2>3. QED
    BY <1>3, <2>2, OneSession DEF Delivers
<1>7. CASE SendHeader(c)
  <2>1. gone[c] = "no" /\ UNCHANGED gone /\ sent'[c] = sent[c] + 1
    BY <1>4, <1>7 DEF SendHeader
  <2>2. (Orderly(c) <=> c \in Fitting) /\ (Orderly(c)' <=> c \in Fitting)
    BY <2>1 DEF Orderly, LeftInOrder
  <2>3. CASE Mine(c) /\ c \in Fitting
    <3>1. AsPromised(c)' = [AsPromised(c) EXCEPT !.reported = @ + 1]
      BY <1>1, <1>5, <2>1, <2>2, <2>3 DEF AsPromised
    <3>2. AsPromised(c).client = "here"
      BY <2>1, <2>2, <2>3 DEF AsPromised
    <3>3. Promised!Report(c)
      BY <1>3, <3>1, <3>2, OneSession DEF Promised!Report, Promised!Becomes, Sessions
    <3>4. QED
      BY <3>3 DEF Delivers, Promised!Next
  <2>4. CASE ~(Mine(c) /\ c \in Fitting)
    <3>1. AsPromised(c)' = AsPromised(c)
      BY <1>5, <2>2, <2>4 DEF AsPromised
    <3>2. QED
      BY <1>3, <3>1, OneSession DEF Delivers
  <2>5. QED
    BY <2>3, <2>4
<1>8. CASE Interrupted(c) \/ Dies(c)
  <2>1. gone[c] = "no" /\ gone'[c] # "no" /\ UNCHANGED <<place, sent>>
    BY <1>4, <1>8 DEF Interrupted, Dies
  <2>2. Orderly(c)' => Orderly(c)
    BY <2>1 DEF Orderly, LeftInOrder
  <2>3. CASE Mine(c) /\ Orderly(c)'
    <3> DEFINE way == IF place[c] = Within THEN "cut" ELSE "left"
    <3>1. AsPromised(c)' = [AsPromised(c) EXCEPT !.client = way]
      BY <1>1, <1>5, <2>1, <2>2, <2>3 DEF AsPromised
    <3>2. AsPromised(c).client = "here" /\ way \in {"left", "cut"}
      BY <2>1, <2>2, <2>3 DEF AsPromised
    <3> HIDE DEF way
    <3>3. Promised!Leave(c)
      BY <1>3, <3>1, <3>2, OneSession DEF Promised!Leave, Promised!Becomes, Sessions
    <3>4. QED
      BY <3>3 DEF Delivers, Promised!Next
  <2>4. CASE ~(Mine(c) /\ Orderly(c)')
    <3>1. AsPromised(c)' = Promised!Broken
      BY <1>5, <2>4 DEF AsPromised, Promised!Broken
    <3>2. Promised!Break(c, c)
      BY <1>3, <3>1, OneSession DEF Promised!Break, Sessions
    <3>3. QED
      BY <3>2 DEF Delivers, Promised!Next
  <2>5. QED
    BY <2>3, <2>4
<1>9. QED
  BY <1>6, <1>7, <1>8 DEF Acts

(* do_server() delivers nothing.                                           *)
LEMMA AcceptsDeliver ==
    ASSUME StreamInv, Accept \/ Identify
    PROVE  Delivers
<1>1. UNCHANGED <<place, sent, gone, sock, entries>>
  BY DEF Accept, Identify, Misidentify, Identified, client, local
<1>2. \A d \in Clients : thread'[d] = "ended" <=> thread[d] = "ended"
  <2>1. CASE Accept
    BY <2>1 DEF Accept
  <2>2. CASE Identify
    <3>1. PICK start \in {"none", "observer", "user"} : Identified(new_socket, start)
      BY <2>2 DEF Identify, Misidentify
    <3>2. thread' = [thread EXCEPT ![new_socket] = start]
      BY <3>1 DEF Identified
    <3>3. thread[new_socket] = "none" /\ thread \in [Clients -> Places]
      BY <2>2 DEF Identify, StreamInv, Accepting, Typed, TypeOK
    <3>4. QED
      BY <3>2, <3>3
  <2>3. QED
    BY <2>1, <2>2
<1>3. \A d \in Clients : AsPromised(d)' = AsPromised(d)
  BY <1>1, <1>2, SameSession
<1>4. QED
  BY <1>3 DEF Delivers, Sessions

(* A thread that starts on another client's socket breaks both sessions.   *)
LEMMA StartDelivers ==
    ASSUME StreamInv, NEW t \in Clients, Start(t)
    PROVE  Delivers
<1>1. /\ UNCHANGED <<place, sent, gone, entries>>
      /\ sock' = [sock EXCEPT ![t] = new_socket]
      /\ thread[t] \in {"observer", "user"}
      /\ thread' = [thread EXCEPT ![t] = thread'[t]] /\ thread'[t] # "ended"
  BY DEF Start, GoesTo, NotThread, client, StreamInv, Typed, TypeOK
<1>2. /\ new_socket \in Clients /\ sock[t] = NoClient /\ NoClient \notin Clients
      /\ sock \in [Clients -> Clients \cup {NoClient}]
  BY <1>1, NoClientElse DEF StreamInv, Accepting, Typed, TypeOK
<1>3. \A u \in Clients : sock'[u] = IF u = t THEN new_socket ELSE sock[u]
  BY <1>1, <1>2
<1>4. \A u \in Clients : Orderly(u)' = Orderly(u)
  BY <1>1 DEF Orderly, LeftInOrder
<1>5. \A u \in Clients : (thread'[u] = "ended") = (thread[u] = "ended")
  BY <1>1 DEF StreamInv, Typed, TypeOK
<1>6. ASSUME NEW u \in Clients, Mine(u)' = Mine(u)
      PROVE  AsPromised(u)' = AsPromised(u)
  BY <1>1, <1>4, <1>5, <1>6 DEF AsPromised
<1>7. PICK s \in Clients : s = new_socket
  BY <1>2
<1>8. \A u \in Clients \ {t, s} : Mine(u)' = Mine(u)
  BY <1>2, <1>3, <1>7 DEF Mine
<1>9. CASE s = t
  <2>1. Mine(t)' = Mine(t)
    BY <1>2, <1>3, <1>7, <1>9 DEF Mine
  <2>2. \A u \in Clients : AsPromised(u)' = AsPromised(u)
    BY <1>6, <1>8, <1>9, <2>1
  <2>3. QED
    BY <2>2 DEF Delivers, Sessions
<1>10. CASE s # t
  <2>1. ~Mine(t)' /\ ~Mine(s)'
    BY <1>2, <1>3, <1>7, <1>10 DEF Mine
  <2>2. ASSUME NEW u \in Clients, ~Mine(u)'
        PROVE  AsPromised(u)' = Promised!Broken
    BY <2>2 DEF AsPromised, Promised!Broken
  <2>3. \A u \in Clients \ {t, s} : AsPromised(u)' = AsPromised(u)
    BY <1>6, <1>8
  <2>4. Sessions' = [Sessions EXCEPT ![t] = Promised!Broken, ![s] = Promised!Broken]
    BY <2>1, <2>2, <2>3 DEF Sessions
  <2>5. Promised!Break(t, s)
    BY <2>4 DEF Promised!Break, Sessions
  <2>6. QED
    BY <2>5 DEF Delivers, Promised!Next
<1>11. QED
  BY <1>9, <1>10

(* A session with one of its fields changed.                               *)
LEMMA SessionFields ==
    ASSUME NEW n, NEW events, NEW way, NEW over, NEW s,
           s = [reported |-> n, added |-> events, client |-> way, ended |-> over]
    PROVE  /\ s.reported = n /\ s.added = events /\ s.client = way /\ s.ended = over
           /\ \A yes : [s EXCEPT !.ended = yes] =
                 [reported |-> n, added |-> events, client |-> way, ended |-> yes]
           /\ \A more : [s EXCEPT !.added = more] =
                 [reported |-> n, added |-> more, client |-> way, ended |-> over]
<1>1. s.reported = n /\ s.added = events /\ s.client = way /\ s.ended = over
  OBVIOUS
<1>2. ASSUME NEW yes
      PROVE  [s EXCEPT !.ended = yes] =
                 [reported |-> n, added |-> events, client |-> way, ended |-> yes]
  OBVIOUS
<1>3. ASSUME NEW more
      PROVE  [s EXCEPT !.added = more] =
                 [reported |-> n, added |-> more, client |-> way, ended |-> over]
  OBVIOUS
<1>4. QED
  BY <1>1, <1>2, <1>3

(* A thread adds the next event, ends, or does what no one can tell.       *)
LEMMA ReadsDeliver ==
    ASSUME StreamInv, StreamInv', AddsWhatWasSent', NEW t \in Clients,
           ReadIntroduction(t) \/ ReadHeader(t) \/ ReadName(t) \/ Overflows(t) \/ Drift(t)
    PROVE  Delivers
<1>1. /\ UNCHANGED <<place, sent, gone, sock>>
      /\ thread[t] \in {"monitored_size", "monitored", "host_size", "host",
                        "loop", "name", "adrift"}
  BY ThreadReads DEF StreamInv, client, Expected
<1>2. /\ thread \in [Clients -> Places] /\ sent[t] \in Nat
      /\ entries \in [Clients -> Seq(Nat)] /\ entries' \in [Clients -> Seq(Nat)]
  BY DEF StreamInv, Typed, TypeOK
<1>3. UNCHANGED entries \/ \E event : Adds(t, event)
  BY DEF ReadIntroduction, ReadHeader, ReadHeaderUntil, ReadName, Overflows, Drift,
     AddsSpurious
<1>4. \A d \in Clients \ {t} : thread'[d] = thread[d] /\ entries'[d] = entries[d]
  <2>1. UNCHANGED thread \/ \E at : GoesTo(t, at)
    BY DEF ReadIntroduction, ReadHeader, ReadHeaderUntil, ReadName, Overflows, Drift
  <2>2. QED
    BY <1>2, <1>3, <2>1 DEF GoesTo, Adds
<1>5. \A d \in Clients \ {t} : AsPromised(d)' = AsPromised(d)
  BY <1>1, <1>4, SameSession
<1>6. Mine(t)' = Mine(t) /\ Orderly(t)' = Orderly(t)
  BY <1>1 DEF Mine, Orderly, LeftInOrder
<1>7. CASE ~(Mine(t) /\ Orderly(t))
  <2>1. AsPromised(t)' = AsPromised(t)
    BY <1>6, <1>7 DEF AsPromised
  <2>2. QED
    BY <1>5, <2>1, OneSession DEF Delivers
<1>8. CASE Mine(t) /\ Orderly(t)
  <2>1. place[t] >= 0 /\ thread[t] # "ended"
    BY <1>1, ThreadConnected DEF StreamInv
  <2>2. /\ thread[t] # "adrift"
        /\ entries[t] = [i \in 1..Len(entries[t]) |-> i]
    BY <1>8, <2>1 DEF StreamInv, Followed
  <2>3. /\ Followed(t)' /\ Mine(t)' /\ Orderly(t)' /\ place'[t] >= 0
    BY <1>1, <1>6, <1>8, <2>1 DEF StreamInv
  <2>4. entries'[t] = [i \in 1..Len(entries'[t]) |-> i]
    BY <2>3 DEF Followed
  <2>5. PICK n \in Nat : n = Len(entries[t])
    BY <1>2, LenProperties
  <2>6. CASE thread'[t] = "ended"
    <3>1. UNCHANGED entries
      <4>1. CASE ReadIntroduction(t) \/ Overflows(t)
        BY <4>1 DEF ReadIntroduction, Overflows
      <4>2. CASE ReadHeader(t)
        BY <1>1, <2>6, <4>2 DEF ReadHeader, ReadHeaderUntil
      <4>3. CASE ReadName(t)
        BY <1>2, <2>6, <4>3 DEF ReadName, GoesTo
      <4>4. ~Drift(t)
        BY <2>2 DEF Drift
      <4>5. QED
        BY <4>1, <4>2, <4>3, <4>4
    <3>2. /\ gone[t] # "no"
          /\ n = IF place[t] = Within THEN sent[t] - 1 ELSE sent[t]
      BY <1>1, <2>3, <2>5, <2>6, <3>1 DEF Followed
    <3> DEFINE way == IF place[t] = Within THEN "cut" ELSE "left"
    <3>3. /\ AsPromised(t).client = way /\ AsPromised(t).added = entries[t]
          /\ AsPromised(t).reported = sent[t]
          /\ AsPromised(t)' = [AsPromised(t) EXCEPT !.ended = TRUE]
      <4>1. PICK no, yes :
               /\ no = FALSE /\ yes = TRUE
               /\ (thread[t] = "ended") = no /\ (thread'[t] = "ended") = yes
               /\ (IF gone[t] = "no" THEN "here" ELSE way) = way
        BY <2>1, <2>6, <3>2
      <4>2. AsPromised(t) = [reported |-> sent[t], added |-> entries[t],
                             client |-> way, ended |-> no]
        BY <1>8, <4>1 DEF AsPromised
      <4>3. AsPromised(t)' = [reported |-> sent[t], added |-> entries[t],
                              client |-> way, ended |-> yes]
        BY <1>1, <2>3, <3>1, <4>1 DEF AsPromised
      <4> HIDE DEF way
      <4>4. AsPromised(t)' = [AsPromised(t) EXCEPT !.ended = yes]
        BY <4>2, <4>3, SessionFields
      <4>5. /\ AsPromised(t).client = way /\ AsPromised(t).added = entries[t]
            /\ AsPromised(t).reported = sent[t]
        BY <4>2, SessionFields
      <4>6. QED
        BY <4>1, <4>4, <4>5
    <3>4. Len(AsPromised(t).added) = Promised!Complete(AsPromised(t))
      BY <2>5, <3>2, <3>3 DEF Promised!Complete
    <3>5. AsPromised(t).client \in {"left", "cut"}
      BY <3>3
    <3>6. Promised!End(t)
      BY <1>5, <3>3, <3>4, <3>5, OneSession DEF Promised!End, Promised!Becomes, Sessions
    <3>7. QED
      BY <3>6 DEF Delivers, Promised!Next
  <2>7. CASE thread'[t] # "ended" /\ UNCHANGED entries
    <3>1. AsPromised(t)' = AsPromised(t)
      BY <1>1, <2>1, <2>7, SameSession
    <3>2. QED
      BY <1>5, <3>1, OneSession DEF Delivers
  <2>8. CASE thread'[t] # "ended" /\ \E event : Adds(t, event)
    <3>1. PICK event : Adds(t, event)
      BY <2>8
    <3>2. entries'[t] = Append(entries[t], event)
      BY <1>2, <3>1 DEF Adds
    <3>3. Len(entries'[t]) = n + 1 /\ entries'[t][n + 1] = event
      BY <1>2, <2>5, <3>2
    <3>4. event = n + 1
      <4>1. n + 1 \in 1..n + 1
        OBVIOUS
      <4>2. QED
        BY <2>4, <3>3, <4>1
    <3>5. n + 1 <= IF gone[t] # "no" /\ place[t] = Within THEN sent[t] - 1 ELSE sent[t]
      <4>1. Len(entries'[t]) <= IF gone'[t] # "no" /\ place'[t] = Within
                                THEN sent'[t] - 1 ELSE sent'[t]
        BY <2>3, <2>8 DEF AddsWhatWasSent
      <4>2. QED
        BY <1>1, <3>3, <4>1
    <3>6. /\ AsPromised(t).client = IF gone[t] = "no" THEN "here"
                                    ELSE IF place[t] = Within THEN "cut" ELSE "left"
          /\ AsPromised(t).added = entries[t] /\ AsPromised(t).reported = sent[t]
          /\ AsPromised(t).ended = FALSE
          /\ AsPromised(t)' = [AsPromised(t) EXCEPT !.added = entries'[t]]
      <4> DEFINE now == IF gone[t] = "no" THEN "here"
                        ELSE IF place[t] = Within THEN "cut" ELSE "left"
      <4>1. PICK no : /\ no = FALSE
                      /\ (thread[t] = "ended") = no /\ (thread'[t] = "ended") = no
        BY <2>1, <2>8
      <4>2. AsPromised(t) = [reported |-> sent[t], added |-> entries[t],
                             client |-> now, ended |-> no]
        BY <1>8, <4>1 DEF AsPromised
      <4>3. AsPromised(t)' = [reported |-> sent[t], added |-> entries'[t],
                              client |-> now, ended |-> no]
        BY <1>1, <2>3, <4>1 DEF AsPromised
      <4> HIDE DEF now
      <4>4. AsPromised(t)' = [AsPromised(t) EXCEPT !.added = entries'[t]]
        BY <4>2, <4>3, SessionFields
      <4>5. /\ AsPromised(t).client = now /\ AsPromised(t).added = entries[t]
            /\ AsPromised(t).reported = sent[t] /\ AsPromised(t).ended = no
        BY <4>2, SessionFields
      <4>6. QED
        BY <4>1, <4>4, <4>5 DEF now
    <3>7. n < Promised!Complete(AsPromised(t))
      BY <1>2, <3>5, <3>6 DEF Promised!Complete
    <3>8. AsPromised(t)' = [AsPromised(t) EXCEPT !.added = Append(@, Len(@) + 1)]
      BY <2>5, <3>2, <3>4, <3>6
    <3>9. Promised!Add(t)
      BY <1>5, <2>5, <3>6, <3>7, <3>8, OneSession DEF Promised!Add, Promised!Becomes, Sessions
    <3>10. QED
      BY <3>9 DEF Delivers, Promised!Next
  <2>9. QED
    BY <1>3, <2>6, <2>7, <2>8
<1>9. QED
  BY <1>7, <1>8

(* The threads deliver the events of each client that leaves in order and  *)
(* has its socket to its thread alone: every step is one of the abstract   *)
(* delivery's or does not show in it (server.c:60-64).                     *)
THEOREM DeliveryImplemented == Spec => ImplementsDelivery
<1>1. Init => Promised!Init
  <2>1. SUFFICES ASSUME Init
                 PROVE  Promised!Init
    OBVIOUS
  <2>2. \A c \in Clients : AsPromised(c) = IF c \in Fitting THEN Promised!New
                                                            ELSE Promised!Broken
    BY <2>1, NoClientElse
       DEF Init, AsPromised, Mine, Orderly, LeftInOrder, Promised!New, Promised!Broken
  <2>3. QED
    BY <2>2 DEF Promised!Init, Sessions
<1>2. StreamInv /\ StreamInv' /\ AddsWhatWasSent' /\ [Next]_vars
          => [Promised!Next]_Sessions
  <2>1. SUFFICES ASSUME StreamInv, StreamInv', AddsWhatWasSent', [Next]_vars
                 PROVE  Delivers
    BY DEF Delivers
  <2>2. CASE UNCHANGED vars
    <3>1. \A c \in Clients : AsPromised(c)' = AsPromised(c)
      BY <2>2, SameSession DEF vars, client, local
    <3>2. QED
      BY <3>1 DEF Delivers, Sessions
  <2>3. CASE Accept \/ Identify
    BY <2>1, <2>3, AcceptsDeliver
  <2>4. ASSUME NEW c \in Clients, Acts(c)
        PROVE  Delivers
    BY <2>1, <2>4, ActsDeliver
  <2>5. ASSUME NEW t \in Clients, Serves(t)
        PROVE  Delivers
    BY <2>1, <2>5, StartDelivers, ReadsDeliver DEF Serves
  <2>6. QED
    BY <2>1, <2>2, <2>3, <2>4, <2>5 DEF Next
<1>3. QED
  BY <1>1, <1>2, StreamInductive, EntriesWithin, PTL
     DEF Spec, ImplementsDelivery, Promised!Spec, Sessions

===========================================================================
