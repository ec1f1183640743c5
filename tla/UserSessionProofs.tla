------------------------ MODULE UserSessionProofs ------------------------
(***************************************************************************)
(* The safety properties of UserSession, proved for any finite set of      *)
(* users and any bound on observer_count.  First that the session          *)
(* implements the phase machine, with whatever is proved of that one; then *)
(* the types, with the ties of client and connection, and of those that    *)
(* nothing disturbed to the one thread that serves them; then the talk     *)
(* between client and thread; then the server's survival.                  *)
(***************************************************************************)
EXTENDS UserSession, TrafficEnforcerProofs, SequenceTheorems

(* A thread has begun before it registers.  Where a client is fixes where  *)
(* its connection can be.  One that nothing has disturbed is served by its *)
(* own thread and by no other.                                             *)
HandedAt(u) ==
    ~disturbed[u] => /\ thread[u] = "begun" => socket[u] = u
                     /\ \A t \in Users : thread[t] = "begun" /\ socket[t] = u => t = u
                     /\ u \notin intruders

TiedAt(u) ==
    /\ user[u] # "absent" => thread[u] = "begun"
    /\ conn[u] # "open" <=> client[u] = "gone"
    /\ sent[u] # -1 => user[u] = "send"
    /\ ~Alive(u) => down[u] = <<>>
    /\ fatal[u] # "no" => client[u] = "gone"
    /\ client[u] \in {"size", "string"} => left[u] > 0
    /\ HandedAt(u)

Tied == \A u \in Users : TiedAt(u)

(* The piece at each place of an answer, and the place of the one that the *)
(* client waits for: the first, or any string's size, or any string.       *)
KindAt(place) ==
    IF place = 0 THEN "count" ELSE IF place % 2 = 1 THEN "size" ELSE "string"

Place(u) == IF client[u] = "count" THEN 0 ELSE IF client[u] = "size" THEN 1 ELSE 2

(* What the client has yet to read of the answer it has asked for, once    *)
(* its thread has taken the code, and what its thread has yet to send.     *)
Announced(u) == IF down[u] = <<>> THEN observer_count ELSE Head(down[u]).n

ToRead(u) ==
    IF client[u] = "count" /\ u \notin code THEN 2 * Announced(u) + 1
    ELSE IF client[u] = "size" THEN 2 * left[u]
    ELSE IF client[u] = "string" THEN 2 * left[u] - 1
    ELSE 0

ToSend(u) == IF user[u] = "send" THEN 2 * observer_count - sent[u] ELSE 0

(* As long as nothing disturbs them, what the client has yet to read is    *)
(* what is under way and what its thread has yet to send, and what is      *)
(* under way is in order.                                                  *)
TalkAt(u) ==
    Alive(u) /\ ~disturbed[u] =>
        /\ client[u] # "lost"
        /\ u \in code => client[u] = "count"
        /\ user[u] = "send" =>
              /\ sent[u] <= 2 * observer_count
              /\ sent[u] = -1 => client[u] = "count" /\ u \notin code /\ down[u] = <<>>
        /\ Len(down[u]) + ToSend(u) = ToRead(u)
        /\ \A k \in 1..Len(down[u]) : down[u][k].is = KindAt(Place(u) + k - 1)

Talk == \A u \in Users : TalkAt(u)

(* The goodbye a client left in the stream stays there until the answer    *)
(* under way is over, and then ends its thread: a first send() after it is *)
(* not followed by a second, but in the same answer.                       *)
GoodbyeAt(u) ==
    client[u] = "gone" /\ ~disturbed[u] =>
        /\ u \in code /\ user[u] = "send" => LoopOver(u)
        /\ fatal[u] = "sent" => u \notin code /\ (user[u] = "send" => sent[u] >= 0)

Goodbye == \A u \in Users : GoodbyeAt(u)

SessionInv == SessionTypeOK /\ Tied /\ Talk /\ Goodbye /\ FirstSendSurvived

---------------------------------------------------------------------------
(* The refinement of TrafficEnforcer                                       *)

(* A session step is a step of the phase machine, or does not show.        *)
LEMMA SessionRunsPhases == [SessionNext]_sessionVars => [Next]_vars
<1> SUFFICES ASSUME [SessionNext]_sessionVars PROVE [Next]_vars
  OBVIOUS
<1>1. CASE UNCHANGED sessionVars
  BY <1>1 DEF sessionVars
<1>2. CASE up /\ Phases
  BY <1>2 DEF Phases, Next, Running, Answers
<1>3. CASE ObserverCountMoves \/ AcceptsOther \/ OtherStarts
  BY <1>3 DEF ObserverCountMoves, AcceptsOther, OtherStarts
<1>4. ASSUME NEW u \in Users, up, UserThread(u)
      PROVE  [Next]_vars
  BY <1>4 DEF UserThread, Starts, Registers, TakesCode, TakesCodeIf, Disconnects,
              SendsAnswer, Announce, SendString, Sends, AllSent, AllSentBy, PipeBreaks,
              Next, Running, Answers
<1>5. ASSUME NEW u \in Users, UserClient(u) \/ Intrudes(u)
      PROVE  UNCHANGED vars
  BY <1>5 DEF UserClient, Connects, Asks, ReadsAnswer, ReadCount, ReadSize, ReadString,
              Reads, LosesPlace, ReadsAstray, Interrupted, Dies, Ends, AutoKill,
              FindsDormant, KillsDormant, Intrudes
<1>6. CASE Terminated /\ UNCHANGED session
  BY <1>6 DEF Next
<1>7. QED
  BY <1>1, <1>2, <1>3, <1>4, <1>5, <1>6 DEF SessionNext

(* The session implements the phase machine, for any users and any number  *)
(* of observers.                                                           *)
THEOREM PhasesImplemented == SessionSpec => ImplementsPhases
<1>1. SessionInit => Init
  BY DEF SessionInit
<1>2. QED
  BY <1>1, SessionRunsPhases, PTL DEF SessionSpec, ImplementsPhases, Spec

(* So what is proved of the phases holds in every session: its rounds and  *)
(* its breaker are those of TrafficEnforcer, and with it a session         *)
(* implements the broadcast.                                               *)
THEOREM SessionKeepsPhases ==
    SessionSpec => [](TypeOK /\ CountersExact /\ IndInv) /\ ImplementsBroadcast
BY PhasesImplemented, TypesAndCounters, Inductive, BroadcastImplemented, PTL
   DEF ImplementsPhases

---------------------------------------------------------------------------
(* Types                                                                   *)

(* The types need the ties: a count of strings does not fall below zero    *)
(* where a client that waits for a string has one left.                    *)
Grounds == SessionTypeOK /\ CountersExact /\ Tied

(* A piece taken off the front, or added at the end, leaves pieces.        *)
LEMMA PiecesStay ==
    ASSUME NEW s \in Seq(Piece)
    PROVE  /\ s # <<>> => Head(s) \in Piece /\ Tail(s) \in Seq(Piece)
           /\ \A piece \in Piece : Append(s, piece) \in Seq(Piece)
BY HeadTailProperties, AppendProperties

(* The thread never sends more pieces than the bound on the strings allows.*)
LEMMA SentBound ==
    ASSUME Grounds, NEW u \in Users, sent[u] = -1 \/ LoopsOn(u) \/ InString(u)
    PROVE  sent[u] + 1 \in -1..2 * MaxObservers /\ sent[u] + 1 >= 0
<1>1. /\ sent[u] \in -1..2 * MaxObservers
      /\ observer_count \in 0..MaxObservers
      /\ MaxObservers \in Nat
  BY MaxObserversNat DEF Grounds, SessionTypeOK
<1>2. CASE sent[u] = -1
  BY <1>1, <1>2
<1>3. CASE LoopsOn(u)
  BY <1>1, <1>3 DEF LoopsOn, InString, StringsToSend
<1>4. CASE InString(u)
  BY <1>1, <1>4 DEF InString
<1>5. QED
  BY <1>2, <1>3, <1>4

(* A send moves one piece, or breaks the connection, with types kept.      *)
LEMMA SendsKeepTypes ==
    ASSUME Grounds, TypeOK', NEW u \in Users, Announce(u) \/ SendString(u)
    PROVE  SessionTypeOK'
<1>1. PICK piece \in Piece : Sends(u, piece)
  BY DEF Announce, SendString, Piece, Grounds, SessionTypeOK
<1>2. sent[u] + 1 \in -1..2 * MaxObservers
  BY SentBound DEF Announce, SendString
<1>3. sent' \in [Users -> -1..2 * MaxObservers]
  BY <1>1, <1>2 DEF Sends, Grounds, SessionTypeOK
<1>4. down' \in [Users -> Seq(Piece)]
  <2>1. ASSUME socket[u] \in Users PROVE Append(down[socket[u]], piece) \in Seq(Piece)
    BY <2>1, PiecesStay DEF Grounds, SessionTypeOK
  <2>2. QED
    BY <1>1, <2>1 DEF Sends, Grounds, SessionTypeOK
<1>5. fatal' \in [Users -> {"no", "sent", "reset"}]
  BY <1>1 DEF Sends, Grounds, SessionTypeOK
<1>6. conn' \in [Users -> {"open", "closed", "reset"}]
  <2>1. ErrorTaken(socket[u]) \in [Users -> {"open", "closed", "reset"}]
    BY DEF ErrorTaken, Grounds, SessionTypeOK
  <2>2. conn' = conn \/ conn' = ErrorTaken(socket[u])
    BY <1>1 DEF Sends
  <2>3. QED
    BY <2>1, <2>2 DEF Grounds, SessionTypeOK
<1>7. UNCHANGED <<handover, observer_count, code, atClient, disturbed>>
  BY <1>1 DEF Sends
<1>8. QED
  BY <1>3, <1>4, <1>5, <1>6, <1>7 DEF handover, atClient, Grounds, SessionTypeOK

(* What the client reads has been a piece, and the strings it has yet to   *)
(* read are as many as the observers can be.                               *)
LEMMA ReadsKeepTypes ==
    ASSUME Grounds, TypeOK', NEW u \in Users,
           ReadsAnswer(u) \/ LosesPlace(u) \/ ReadsAstray(u)
    PROVE  SessionTypeOK'
<1>0. down \in [Users -> Seq(Piece)]
  BY DEF Grounds, SessionTypeOK
<1>1. down[u] # <<>> /\ Head(down[u]) \in Piece /\ Tail(down[u]) \in Seq(Piece)
  BY <1>0, PiecesStay DEF ReadsAnswer, ReadCount, ReadSize, ReadString, Reads, LosesPlace,
                          ReadsAstray
<1>2. down' \in [Users -> Seq(Piece)]
  <2>1. \/ down' = [down EXCEPT ![u] = Tail(@)]
        \/ down' = [down EXCEPT ![u] = IF Head(@).is = client[u] THEN @ ELSE Tail(@)]
    BY DEF ReadsAnswer, ReadCount, ReadSize, ReadString, Reads, LosesPlace, ReadsAstray
  <2>2. QED
    BY <1>0, <1>1, <2>1
<1> USE DEF Grounds, SessionTypeOK, handover, atClient
<1>3. CASE ReadCount(u)
  <2>1. Head(down[u]).n \in 0..MaxObservers
    BY <1>1, MaxObserversNat DEF Piece
  <2>2. QED
    BY <1>2, <1>3, <2>1 DEF ReadCount, Reads, WithLeft
<1>4. CASE ReadString(u)
  <2>1. left[u] - 1 \in 0..MaxObservers
    BY <1>4, MaxObserversNat DEF ReadString, Reads, Tied, TiedAt
  <2>2. QED
    BY <1>2, <1>4, <2>1 DEF ReadString, Reads, WithLeft
<1>5. CASE ReadSize(u)
  BY <1>2, <1>5 DEF ReadSize, Reads
<1>6. CASE LosesPlace(u)
  <2>1. disturbed' \in [Users -> BOOLEAN]
    BY <1>6 DEF LosesPlace
  <2>2. QED
    BY <1>2, <1>6, <2>1, MaxObserversNat DEF LosesPlace
<1>7. CASE ReadsAstray(u)
  BY <1>2, <1>7 DEF ReadsAstray
<1>8. QED
  BY <1>3, <1>4, <1>5, <1>6, <1>7 DEF ReadsAnswer

(* What the threads do in handing over, reading and counting keeps types.  *)
LEMMA ThreadsKeepTypes ==
    ASSUME Grounds, TypeOK', NEW u \in Users, UserThread(u)
    PROVE  SessionTypeOK'
<1> USE DEF Grounds, SessionTypeOK, handover, atClient, stream
<1>1. CASE Starts(u)
  BY <1>1 DEF Starts
<1>2. CASE Registers(u) \/ PipeBreaks(u)
  BY <1>2 DEF Registers, PipeBreaks, session
<1>3. CASE TakesCode(u)
  <2>1. /\ code' \in SUBSET Users
        /\ conn' \in [Users -> {"open", "closed", "reset"}]
        /\ fatal' \in [Users -> {"no", "sent", "reset"}]
    BY <1>3 DEF TakesCode, TakesCodeIf, ErrorTaken
  <2>2. QED
    BY <1>3, <2>1 DEF TakesCode, TakesCodeIf
<1>4. CASE Disconnects(u)
  BY <1>4 DEF Disconnects
<1>5. CASE Announce(u) \/ SendString(u)
  BY <1>5, SendsKeepTypes
<1>6. CASE AllSent(u)
  <2>1. -1 \in -1..2 * MaxObservers
    BY MaxObserversNat
  <2>2. QED
    BY <1>6, <2>1 DEF AllSent, AllSentBy
<1>7. QED
  BY <1>1, <1>2, <1>3, <1>4, <1>5, <1>6 DEF UserThread, SendsAnswer

(* So does what the clients do.                                            *)
LEMMA ClientsKeepTypes ==
    ASSUME Grounds, TypeOK', NEW u \in Users, UserClient(u) \/ Intrudes(u)
    PROVE  SessionTypeOK'
<1> USE DEF Grounds, SessionTypeOK, handover, atClient, stream
<1>1. CASE Connects(u)
  BY <1>1 DEF Connects
<1>2. CASE Asks(u) \/ FindsDormant(u)
  BY <1>2 DEF Asks, FindsDormant
<1>3. CASE ReadsAnswer(u) \/ LosesPlace(u) \/ ReadsAstray(u)
  BY <1>3, ReadsKeepTypes
<1>4. CASE Interrupted(u) \/ Dies(u)
  <2>1. <<>> \in Seq(Piece) /\ 0 \in 0..MaxObservers
    BY MaxObserversNat
  <2>2. PICK how \in {"closed", "reset"} : Ends(u, how)
    BY <1>4 DEF Interrupted, Dies
  <2>3. QED
    BY <2>1, <2>2 DEF Ends
<1>5. CASE Intrudes(u)
  <2>1. conn' \in [Users -> {"open", "closed", "reset"}]
    BY <1>5 DEF Intrudes, ErrorTaken
  <2>2. QED
    BY <1>5, <2>1 DEF Intrudes
<1>6. QED
  BY <1>1, <1>2, <1>3, <1>4, <1>5 DEF UserClient, AutoKill, KillsDormant

(* Every step keeps the types.                                             *)
LEMMA SessionKeepsTypes == Grounds /\ [SessionNext]_sessionVars => SessionTypeOK'
<1> SUFFICES ASSUME Grounds, [SessionNext]_sessionVars PROVE SessionTypeOK'
  OBVIOUS
<1>1. TypeOK'
  BY SessionRunsPhases, NextKeepsTypes DEF Grounds, SessionTypeOK, TypedAndExact
<1>2. SessionTypeOK
  BY DEF Grounds
<1>3. CASE Phases \/ (Terminated /\ UNCHANGED session) \/ UNCHANGED sessionVars
  BY <1>1, <1>2, <1>3 DEF Phases, sessionVars, session, handover, stream, atClient,
                          SessionTypeOK
<1>4. CASE ObserverCountMoves
  BY <1>1, <1>2, <1>4 DEF ObserverCountMoves, handover, stream, atClient, SessionTypeOK
<1>5. CASE AcceptsOther \/ OtherStarts
  BY <1>1, <1>2, <1>5 DEF AcceptsOther, OtherStarts, stream, atClient, SessionTypeOK
<1>6. QED
  BY <1>1, <1>3, <1>4, <1>5, ThreadsKeepTypes, ClientsKeepTypes DEF SessionNext

(* The ties are about one user each: what leaves a user alone keeps its,   *)
(* and so does what disturbs it.                                           *)
LEMMA TiedFrame ==
    ASSUME NEW v \in Users, TiedAt(v),
           user[v] = "absent" /\ user'[v] # "absent" => thread'[v] = "begun",
           thread[v] = "begun" /\ user'[v] # "absent" => thread'[v] = "begun",
           user[v] = "send" /\ sent'[v] # -1 => user'[v] = "send",
           client'[v] = client[v], conn'[v] # "open" <=> conn[v] # "open",
           sent'[v] = sent[v], client[v] = "gone" => down'[v] = down[v],
           client[v] # "gone" => fatal'[v] = fatal[v], left'[v] = left[v],
           ~disturbed'[v] => ~disturbed[v] /\ HandedAt(v)'
    PROVE  TiedAt(v)'
BY DEF TiedAt, Alive, HandedAt

(* A thread that begins with a connection accepted for another disturbs    *)
(* both; one that reads it had begun.                                      *)
LEMMA StartsKeepsHanded ==
    ASSUME Grounds, NEW u \in Users, Starts(u), NEW v \in Users
    PROVE  HandedAt(v)'
<1> USE DEF Grounds, SessionTypeOK
<1>1. HandedAt(v)
  BY DEF Tied, TiedAt
<1>2. /\ disturbed'[v] = (disturbed[v] \/ (new_socket # u /\ v \in {u, new_socket}))
      /\ intruders' = intruders
      /\ socket'[u] = new_socket
      /\ \A t \in Users : t # u => thread'[t] = thread[t] /\ socket'[t] = socket[t]
  BY DEF Starts
<1>3. QED
  BY <1>1, <1>2 DEF HandedAt

(* What moves no thread keeps what was handed to whom.                     *)
LEMMA HandedFrame ==
    ASSUME NEW v \in Users, HandedAt(v), UNCHANGED <<thread, socket>>,
           ~disturbed'[v] => ~disturbed[v] /\ v \notin intruders'
    PROVE  HandedAt(v)'
BY DEF HandedAt

(* A thread that ends gives up the connection it was handed.               *)
LEMMA DisconnectsKeepsHanded ==
    ASSUME Grounds, NEW u \in Users, Disconnects(u), NEW v \in Users
    PROVE  HandedAt(v)'
<1> USE DEF Grounds, SessionTypeOK
<1>1. HandedAt(v)
  BY DEF Tied, TiedAt
<1>2. /\ UNCHANGED <<disturbed, intruders>>
      /\ thread'[u] = "none"
      /\ \A t \in Users : t # u => thread'[t] = thread[t] /\ socket'[t] = socket[t]
  BY DEF Disconnects
<1>3. QED
  BY <1>1, <1>2 DEF HandedAt

(* The server's threads keep the ties.                                     *)
LEMMA ThreadsKeepTied ==
    ASSUME Grounds, NEW u \in Users, UserThread(u), NEW v \in Users
    PROVE  TiedAt(v)'
<1> USE DEF Grounds, SessionTypeOK, TypeOK, UserPasses
<1>1. TiedAt(v) /\ TiedAt(u) /\ HandedAt(v)
  BY DEF Tied, TiedAt
<1>2. CASE Starts(u)
  <2>1. HandedAt(v)'
    BY <1>2, StartsKeepsHanded
  <2>2. QED
    BY <1>1, <1>2, <2>1, TiedFrame DEF Starts, vars, threads, stream, atClient
<1>3. CASE Registers(u)
  <2>1. HandedAt(v)'
    BY <1>1, <1>3, HandedFrame DEF Registers, session, handover, HandedAt
  <2>2. QED
    BY <1>1, <1>3, <2>1, TiedFrame DEF Registers, RegisterUser, RegisterUserCounting,
                                       session, handover, stream, atClient
<1>4. CASE TakesCode(u)
  <2>1. HandedAt(v)'
    BY <1>1, <1>4, HandedFrame DEF TakesCode, TakesCodeIf, handover, HandedAt
  <2>2. ASSUME fatal'[v] # fatal[v] PROVE client[v] = "gone"
    BY <1>1, <1>4, <2>2 DEF TakesCode, TakesCodeIf, TiedAt
  <2>3. conn'[v] # "open" <=> conn[v] # "open"
    BY <1>4 DEF TakesCode, TakesCodeIf, ErrorTaken
  <2>4. QED
    BY <1>1, <1>4, <2>1, <2>2, <2>3, TiedFrame
       DEF TakesCode, TakesCodeIf, ReadCode, handover, atClient
<1>5. CASE Disconnects(u)
  <2>1. HandedAt(v)'
    BY <1>5, DisconnectsKeepsHanded
  <2>2. QED
    BY <1>1, <1>5, <2>1, TiedFrame
       DEF Disconnects, ReadDisconnect, stream, atClient, TiedAt
<1>6. CASE Announce(u) \/ SendString(u)
  <2>1. PICK piece : Sends(u, piece)
    BY <1>6 DEF Announce, SendString
  <2>2. HandedAt(v)'
    BY <1>1, <2>1, HandedFrame DEF Sends, handover, HandedAt
  <2>3. UNCHANGED <<thread, client, left>> /\ user' = user /\ user[u] = "send"
        /\ (v # u => sent'[v] = sent[v])
    BY <2>1 DEF Sends, handover, atClient, vars, threads
  <2>4. (conn'[v] # "open" <=> conn[v] # "open")
    BY <2>1 DEF Sends, ErrorTaken
  <2>5. /\ conn[v] # "open" => down'[v] = down[v]
        /\ conn[v] = "open" => fatal'[v] = fatal[v]
    BY <2>1 DEF Sends
  <2>6. QED
    BY <1>1, <2>2, <2>3, <2>4, <2>5 DEF TiedAt, Alive
<1>7. CASE AllSent(u)
  <2>1. HandedAt(v)'
    BY <1>1, <1>7, HandedFrame DEF AllSent, AllSentBy, handover, HandedAt
  <2>2. /\ UNCHANGED <<thread, client, left, conn, down, fatal>>
        /\ sent' = [sent EXCEPT ![u] = -1]
        /\ user[u] = "send" /\ user' = [user EXCEPT ![u] = "store"]
    BY <1>7 DEF AllSent, AllSentBy, SendEntries, handover, stream, atClient
  <2>3. QED
    BY <1>1, <2>1, <2>2 DEF TiedAt, Alive
<1>8. CASE PipeBreaks(u)
  <2>1. HandedAt(v)'
    BY <1>1, <1>8, HandedFrame DEF PipeBreaks, session, handover, HandedAt
  <2>2. QED
    BY <1>1, <1>8, <2>1, TiedFrame DEF PipeBreaks, BrokenPipe, session, handover, stream,
                                       atClient, threads
<1>9. QED
  BY <1>2, <1>3, <1>4, <1>5, <1>6, <1>7, <1>8 DEF UserThread, SendsAnswer

(* A client that connects is handed to a thread of its own, or disturbed   *)
(* when that begins; nobody reads its connection before.                   *)
LEMMA ConnectsKeepsTied ==
    ASSUME Grounds, NEW u \in Users, Connects(u), NEW v \in Users
    PROVE  TiedAt(v)'
<1> USE DEF Grounds, SessionTypeOK
<1>1. TiedAt(v)
  BY DEF Tied
<1>2. /\ UNCHANGED <<user, socket, intruders, sent, down, left>>
      /\ thread' = [thread EXCEPT ![u] = "created"] /\ thread[u] = "none"
      /\ client[u] = "gone"
      /\ client' = [client EXCEPT ![u] = "ask"]
      /\ conn' = [conn EXCEPT ![u] = "open"]
      /\ fatal' = [fatal EXCEPT ![u] = "no"]
      /\ disturbed' = [disturbed EXCEPT ![u] = FALSE]
  BY DEF Connects, vars, threads
<1>3. u \notin intruders /\ \A t \in Users : thread[t] = "begun" => socket[t] # u
  BY DEF Connects, Read, ReadBy
<1>4. \A t \in Users : thread'[t] = "begun" <=> thread[t] = "begun"
  BY <1>2
<1>5. HandedAt(v)'
  <2>1. CASE v = u
    BY <1>2, <1>3, <1>4, <2>1 DEF HandedAt
  <2>2. CASE v # u
    BY <1>1, <1>2, <1>4, <2>2 DEF HandedAt, TiedAt
  <2>3. QED
    BY <2>1, <2>2
<1>6. QED
  BY <1>1, <1>2, <1>4, <1>5 DEF TiedAt, Alive

(* The clients keep the ties, and what kills them.                         *)
LEMMA ClientsKeepTied ==
    ASSUME Grounds, NEW u \in Users, UserClient(u) \/ Intrudes(u), NEW v \in Users
    PROVE  TiedAt(v)'
<1> USE DEF Grounds, SessionTypeOK
<1>1. TiedAt(v) /\ TiedAt(u) /\ HandedAt(v)
  BY DEF Tied, TiedAt
<1>2. CASE Connects(u)
  BY <1>2, ConnectsKeepsTied
<1>3. ASSUME UNCHANGED <<user, thread, socket, sent>>,
             ~disturbed'[v] => ~disturbed[v] /\ v \notin intruders'
      PROVE  HandedAt(v)' /\ (user'[v] # "absent" => thread'[v] = "begun")
             /\ (sent'[v] # -1 => user'[v] = "send")
  BY <1>1, <1>3, HandedFrame DEF TiedAt
<1>4. CASE Asks(u)
  BY <1>1, <1>3, <1>4 DEF Asks, vars, threads, handover, TiedAt, Alive, HandedAt
<1>5. CASE ReadsAnswer(u)
  BY <1>1, <1>3, <1>5 DEF ReadsAnswer, ReadCount, ReadSize, ReadString, Reads, WithLeft,
                          vars, threads, handover, TiedAt, Alive, HandedAt
<1>6. CASE LosesPlace(u)
  <2>1. ~disturbed'[v] => ~disturbed[v] /\ v \notin intruders'
    BY <1>1, <1>6 DEF LosesPlace, handover, HandedAt
  <2>2. QED
    BY <1>1, <1>3, <1>6, <2>1 DEF LosesPlace, Waiting, vars, threads, handover, TiedAt,
                                  Alive
<1>7. CASE ReadsAstray(u)
  BY <1>1, <1>3, <1>7 DEF ReadsAstray, vars, threads, handover, atClient, TiedAt, Alive,
                          HandedAt
<1>8. CASE Interrupted(u) \/ Dies(u)
  <2>1. PICK how \in {"closed", "reset"} : Ends(u, how)
    BY <1>8 DEF Interrupted, Dies
  <2>2. QED
    BY <1>1, <1>3, <2>1 DEF Ends, vars, threads, handover, TiedAt, Alive, HandedAt
<1>9. CASE FindsDormant(u)
  BY <1>1, <1>3, <1>9 DEF FindsDormant, vars, threads, handover, stream, TiedAt, Alive,
                          HandedAt
<1>10. CASE Intrudes(u)
  <2>1. ~disturbed'[v] => ~disturbed[v] /\ v \notin intruders'
    BY <1>1, <1>10 DEF Intrudes, HandedAt
  <2>2. UNCHANGED <<user, thread, socket, sent, down, fatal, client, left>>
        /\ (conn'[v] # "open" <=> conn[v] # "open")
    BY <1>10 DEF Intrudes, ErrorTaken, vars, threads, atClient
  <2>3. QED
    BY <1>1, <1>3, <2>1, <2>2 DEF TiedAt, Alive
<1>11. QED
  BY <1>2, <1>4, <1>5, <1>6, <1>7, <1>8, <1>9, <1>10 DEF UserClient, AutoKill, KillsDormant

(* What of other kinds of clients is accepted, and which threads begin     *)
(* with a user's connection.                                               *)
LEMMA OthersKeepTied ==
    ASSUME Grounds, AcceptsOther \/ OtherStarts, NEW v \in Users
    PROVE  TiedAt(v)'
<1> USE DEF Grounds, SessionTypeOK
<1>1. TiedAt(v) /\ HandedAt(v)
  BY DEF Tied, TiedAt
<1>2. /\ UNCHANGED <<user, thread, socket, sent, conn, down, fatal, client, left>>
      /\ ~disturbed'[v] => ~disturbed[v] /\ v \notin intruders'
  BY <1>1 DEF AcceptsOther, OtherStarts, vars, threads, stream, atClient, HandedAt
<1>3. QED
  BY <1>1, <1>2, HandedFrame DEF TiedAt, Alive

(* The phases move a thread only where it neither sends nor is absent.     *)
LEMMA PhasesMoves ==
    ASSUME Grounds, Phases
    PROVE  /\ \A v \in Users :
                 \/ user'[v] = user[v]
                 \/ user[v] \notin {"absent", "send"} /\ user'[v] \notin {"absent", "send"}
           /\ UNCHANGED <<up, session>>
<1> USE DEF Grounds, SessionTypeOK, TypeOK, UserPasses, history, NotSorter, counters
<1>1. CASE Timer
  BY <1>1 DEF Phases, Timer, TimerWakes, TimerWakesWith, TimerSets
<1>2. CASE Sorter
  BY <1>2 DEF Phases, Sorter, SorterPolls, SorterClearsLock, SorterClearsTo,
              SorterClearsTimer, SetSorting, WritersOut, OpenReading, LoadDoneCount,
              ReadersDone, ReadersDoneIf, ResetReaderDoneCount, SetDone, SetStateDone,
              SorterPasses
<1>3. ASSUME NEW u \in Users, SeeReading(u) \/ StoreDone(u) \/ SeeReadingOver(u)
      PROVE  /\ \A v \in Users :
                   \/ user'[v] = user[v]
                   \/ user[v] \notin {"absent", "send"} /\ user'[v] \notin {"absent", "send"}
             /\ up' = up
  BY <1>3 DEF SeeReading, StoreDone, SeeReadingOver
<1>4. QED
  BY <1>1, <1>2, <1>3 DEF Phases

(* Every step keeps the grounds.                                           *)
LEMMA SessionKeepsGrounds == Grounds /\ [SessionNext]_sessionVars => Grounds'
<1> SUFFICES ASSUME Grounds, [SessionNext]_sessionVars PROVE Grounds'
  OBVIOUS
<1>1. SessionTypeOK' /\ CountersExact'
  BY SessionKeepsTypes, SessionRunsPhases, NextKeepsTypes
     DEF Grounds, SessionTypeOK, TypedAndExact
<1>2. ASSUME NEW v \in Users
      PROVE  TiedAt(v)'
  <2>1. TiedAt(v) /\ HandedAt(v)
    BY DEF Grounds, Tied, TiedAt
  <2>2. CASE UNCHANGED sessionVars \/ (Terminated /\ UNCHANGED session)
    BY <2>1, <2>2 DEF sessionVars, Terminated, session, handover, stream, atClient, vars,
                      threads, TiedAt, HandedAt, Alive
  <2>3. CASE Phases
    BY <2>1, <2>3, PhasesMoves DEF session, handover, stream, atClient, TiedAt, HandedAt,
                                   Alive
  <2>4. CASE ObserverCountMoves
    <3>1. /\ UNCHANGED <<user, thread, socket, intruders, sent, conn, down, fatal, client,
                         left>>
          /\ disturbed[v] => disturbed'[v]
      BY <2>4 DEF ObserverCountMoves, vars, threads, handover, stream, atClient
    <3>2. QED
      BY <2>1, <3>1 DEF TiedAt, HandedAt, Alive
  <2>5. QED
    BY <2>2, <2>3, <2>4, ThreadsKeepTied, ClientsKeepTied, OthersKeepTied DEF SessionNext
<1>3. QED
  BY <1>1, <1>2 DEF Grounds, Tied

(* At the start nobody is there.                                           *)
LEMMA InitGrounds == SessionInit => Grounds
<1> SUFFICES ASSUME SessionInit PROVE Grounds
  OBVIOUS
<1>1. TypedAndExact
  BY InitTyped DEF SessionInit
<1>2. -1 \in -1..2 * MaxObservers /\ 0 \in 0..MaxObservers /\ <<>> \in Seq(Piece)
  BY MaxObserversNat
<1>3. SessionTypeOK
  BY <1>1, <1>2 DEF SessionInit, SessionTypeOK, TypedAndExact
<1>4. Tied
  BY DEF SessionInit, Init, Tied, TiedAt, HandedAt, Alive
<1>5. QED
  BY <1>1, <1>3, <1>4 DEF Grounds, TypedAndExact

(* Every variable of a session has its type in every state: the threads    *)
(* never send, and the clients never wait for, more strings than there can *)
(* be observers.                                                           *)
THEOREM SessionTyped == SessionSpec => []SessionTypeOK
<1>1. Grounds => SessionTypeOK
  BY DEF Grounds
<1>2. QED
  BY <1>1, InitGrounds, SessionKeepsGrounds, PTL DEF SessionSpec

---------------------------------------------------------------------------
(* The talk between client and thread                                      *)

(* The places of sizes and strings alternate.                              *)
LEMMA Parity ==
    ASSUME NEW n \in Int, NEW d \in Int
    PROVE  (n + 1 + 2 * d) % 2 = 1 <=> n % 2 # 1
OBVIOUS

(* What a step leaves alone of a client, its connection and its thread.    *)
LeavesAlone(v) ==
    /\ observer_count' = observer_count
    /\ \/ user'[v] = user[v]
       \/ user[v] # "send" /\ user'[v] # "send"
    /\ client'[v] = client[v] /\ (v \in code' <=> v \in code)
    /\ sent'[v] = sent[v] /\ down'[v] = down[v] /\ left'[v] = left[v]
    /\ fatal'[v] = fatal[v]
    /\ ~disturbed[v]

(* The talk is about one user each: a step that leaves one alone, unless   *)
(* it disturbs it, keeps its.                                              *)
LEMMA TalkFrame ==
    ASSUME NEW v \in Users, TalkAt(v), ~disturbed'[v] => LeavesAlone(v)
    PROVE  TalkAt(v)'
BY DEF LeavesAlone, TalkAt, Alive, ToSend, ToRead, Announced, Place, KindAt

(* What the ground says of one user.                                       *)
LEMMA GroundsAt ==
    ASSUME Grounds, NEW v \in Users
    PROVE  /\ sent[v] \in -1..2 * MaxObservers /\ sent[v] \in Int
           /\ observer_count \in Nat
           /\ left[v] \in Nat
           /\ down[v] \in Seq(Piece) /\ Len(down[v]) \in Nat
           /\ down[v] # <<>> => Len(down[v]) > 0 /\ Head(down[v]).n \in Nat
           /\ down[v] = <<>> => Len(down[v]) = 0
           /\ client[v] \in {"ask", "count", "size", "string", "lost", "gone"}
           /\ TiedAt(v)
<1> USE DEF Grounds, SessionTypeOK
<1>1. down[v] \in Seq(Piece) /\ TiedAt(v)
  BY DEF Tied
<1>2. down[v] # <<>> => Head(down[v]) \in Piece /\ Len(down[v]) > 0
  BY <1>1, PiecesStay, EmptySeq
<1>3. \A piece \in Piece : piece.n \in Nat
  BY MaxObserversNat DEF Piece
<1>4. QED
  BY <1>1, <1>2, <1>3, MaxObserversNat

(* The thread that serves an undisturbed client is its own.                *)
LEMMA OwnSocket ==
    ASSUME Grounds, NEW t \in Users, user[t] # "absent"
    PROVE  /\ thread[t] = "begun"
           /\ ~disturbed[t] => socket[t] = t
           /\ \A v \in Users : socket[t] = v /\ ~disturbed[v] => v = t
BY DEF Grounds, Tied, TiedAt, HandedAt

(* An observer comes or goes between two answers, or disturbs the one that *)
(* is under way.                                                           *)
LEMMA ObserverKeepsTalk ==
    ASSUME Grounds, NEW v \in Users, TalkAt(v), ObserverCountMoves
    PROVE  TalkAt(v)'
<1> SUFFICES ASSUME Alive(v), ~disturbed[v], sent[v] < 0 PROVE TalkAt(v)'
  <2>1. sent[v] >= 0 \/ sent[v] < 0
    BY GroundsAt
  <2>2. disturbed'[v] = (disturbed[v] \/ sent[v] >= 0)
    BY DEF ObserverCountMoves
  <2>3. Alive(v)' = Alive(v)
    BY DEF ObserverCountMoves, atClient, Alive
  <2>4. QED
    BY <2>1, <2>2, <2>3 DEF TalkAt
<1>1. sent[v] = -1 /\ observer_count' \in Nat
  BY GroundsAt, MaxObserversNat DEF ObserverCountMoves
<1>2. UNCHANGED <<user, code, sent, down, client, left>>
  BY DEF ObserverCountMoves, vars, threads, stream, atClient
<1>3. CASE user[v] = "send"
  <2>1. client[v] = "count" /\ v \notin code /\ down[v] = <<>> /\ Len(down[v]) = 0
    BY <1>1, <1>3, GroundsAt DEF TalkAt
  <2>2. ToSend(v)' = ToRead(v)' /\ ToSend(v)' \in Int
    BY <1>1, <1>2, <1>3, <2>1 DEF ToSend, ToRead, Announced
  <2>3. QED
    BY <1>1, <1>2, <2>1, <2>2 DEF TalkAt
<1>4. CASE user[v] # "send"
  <2>1. ToSend(v) = 0 /\ ToSend(v)' = 0
    BY <1>2, <1>4 DEF ToSend
  <2>2. client[v] = "count" /\ v \notin code => down[v] # <<>>
    BY <2>1, GroundsAt DEF TalkAt, ToRead, Announced
  <2>3. ToRead(v)' = ToRead(v)
    BY <1>2, <2>2 DEF ToRead, Announced
  <2>4. QED
    BY <1>2, <1>4, <2>1, <2>3 DEF TalkAt, Alive, Place, KindAt
<1>5. QED
  BY <1>3, <1>4

(* A thread that takes a code owes the whole answer, of which nothing is   *)
(* under way; and nothing is owed to a client that has just connected.     *)
LEMMA TurnsKeepTalk ==
    ASSUME Grounds, NEW u \in Users, TalkAt(u),
           Connects(u) \/ TakesCode(u) \/ Disconnects(u)
    PROVE  TalkAt(u)'
<1> USE DEF Grounds, SessionTypeOK, TypeOK, UserPasses
<1>1. CASE Connects(u)
  <2>1. /\ client'[u] = "ask" /\ user'[u] = "absent"
        /\ down'[u] = <<>> /\ u \notin code'
    BY <1>1, GroundsAt DEF Connects, vars, threads, TiedAt, Alive
  <2>2. Len(down'[u]) = 0
    BY <2>1
  <2>3. QED
    BY ONLY <2>1, <2>2 DEF TalkAt, ToSend, ToRead
<1>2. CASE TakesCode(u)
  <2>1. /\ user[u] = "read" /\ user'[u] = "send" /\ sent[u] = -1
        /\ UNCHANGED <<observer_count, sent, down, client, left, disturbed>>
    BY <1>2, GroundsAt DEF TakesCode, TakesCodeIf, ReadCode, atClient, TiedAt
  <2>2. SUFFICES ASSUME Alive(u), ~disturbed[u] PROVE TalkAt(u)'
    BY <2>1 DEF TalkAt, Alive
  <2>0. socket[u] = u /\ conn[u] = "open"
    BY <2>1, <2>2, OwnSocket, GroundsAt DEF Alive, TiedAt
  <2>3. u \in code /\ u \notin code'
    BY <1>2, <2>0, NoUserIsNone DEF TakesCode, TakesCodeIf
  <2>4. ToSend(u) = 0 /\ ToRead(u) = 0 /\ client[u] = "count"
    BY <2>1, <2>2, <2>3 DEF TalkAt, ToSend, ToRead
  <2>5. Len(down[u]) = 0 /\ down[u] = <<>>
    BY <2>2, <2>4, GroundsAt DEF TalkAt
  <2>6. ToSend(u)' = 2 * observer_count + 1 /\ ToRead(u)' = 2 * observer_count + 1
    BY <2>1, <2>3, <2>4, <2>5, GroundsAt DEF ToSend, ToRead, Announced
  <2>7. QED
    BY <2>1, <2>3, <2>4, <2>5, <2>6, GroundsAt DEF TalkAt
<1>3. CASE Disconnects(u)
  <2>1. user[u] # "absent" /\ UNCHANGED <<conn, client, disturbed>>
    BY <1>3 DEF Disconnects, ReadDisconnect, stream, atClient
  <2>2. ~disturbed[u] => conn[u] = "closed"
    BY <1>3, <2>1, OwnSocket DEF Disconnects
  <2>3. QED
    BY <2>1, <2>2, GroundsAt DEF TalkAt, Alive, TiedAt
<1>4. QED
  BY <1>1, <1>2, <1>3

(* What a thread sends is the piece that follows those under way.          *)
LEMMA SendsKeepTalk ==
    ASSUME Grounds, NEW u \in Users, TalkAt(u), Announce(u) \/ SendString(u)
    PROVE  TalkAt(u)'
<1>0. /\ sent[u] \in Int /\ sent[u] >= -1 /\ observer_count \in Nat /\ left[u] \in Nat
      /\ Len(down[u]) \in Nat /\ down[u] \in Seq(Piece)
      /\ down[u] # <<>> => Len(down[u]) > 0 /\ Head(down[u]).n \in Nat
      /\ down[u] = <<>> => Len(down[u]) = 0
  BY GroundsAt
<1>1. PICK piece \in Piece :
         /\ Sends(u, piece)
         /\ \/ sent[u] = -1 /\ piece.is = "count" /\ piece.n = observer_count
            \/ LoopsOn(u) /\ piece.is = "size"
            \/ InString(u) /\ piece.is = "string"
  BY DEF Announce, SendString, Piece, Grounds, SessionTypeOK
<1>2. /\ user[u] = "send" /\ sent'[u] = sent[u] + 1
      /\ UNCHANGED <<user, code, observer_count, client, left, disturbed>>
  BY <1>1 DEF Sends, vars, threads, atClient, Grounds, SessionTypeOK
<1>3. SUFFICES ASSUME Alive(u), ~disturbed[u] PROVE TalkAt(u)'
  BY <1>2 DEF TalkAt, Alive
<1>4. socket[u] = u /\ conn[u] = "open"
  BY <1>2, <1>3, OwnSocket, GroundsAt DEF Alive, TiedAt
<1>5. down'[u] = Append(down[u], piece)
  BY <1>1, <1>4, NoUserIsNone DEF Sends, Grounds, SessionTypeOK
<1>6. /\ Len(down'[u]) = Len(down[u]) + 1
      /\ \A k \in 1..Len(down[u]) : down'[u][k] = down[u][k]
      /\ down'[u][Len(down[u]) + 1] = piece
      /\ Head(down'[u]) = IF down[u] = <<>> THEN piece ELSE Head(down[u])
      /\ down'[u] # <<>>
  BY <1>5, GroundsAt, AppendProperties, HeadTailAppend
<1>7. ToSend(u)' = ToSend(u) - 1 /\ ToSend(u) = 2 * observer_count - sent[u]
  BY <1>2, <1>0 DEF ToSend
<1>8. sent'[u] >= 0 /\ sent'[u] <= 2 * observer_count
  <2>1. CASE sent[u] = -1
    BY <1>2, <2>1, <1>0
  <2>2. CASE LoopsOn(u)
    BY <1>2, <2>2, <1>0 DEF LoopsOn, InString, StringsToSend
  <2>3. CASE InString(u)
    BY <1>2, <1>3, <2>3, <1>0 DEF InString, TalkAt
  <2>4. QED
    BY <1>1, <2>1, <2>2, <2>3
<1>9. ToRead(u)' = ToRead(u)
  <2>1. CASE sent[u] = -1
    <3>1. down[u] = <<>> /\ client[u] = "count" /\ u \notin code
      BY <1>2, <1>3, <2>1 DEF TalkAt
    <3>2. piece.n = observer_count
      BY <1>1, <2>1 DEF LoopsOn, InString
    <3>3. QED
      BY <1>2, <1>6, <3>1, <3>2 DEF ToRead, Announced
  <2>2. CASE sent[u] # -1
    <3>1. client[u] = "count" /\ u \notin code => down[u] # <<>>
      BY <1>2, <1>3, <1>7, <2>2, <1>0 DEF TalkAt, ToRead, Announced
    <3>2. QED
      BY <1>2, <1>6, <3>1 DEF ToRead, Announced
  <2>3. QED
    BY <2>1, <2>2
<1>10. piece.is = KindAt(Place(u) + Len(down[u]))
  <2>1. Len(down[u]) + 2 * observer_count - sent[u] = ToRead(u)
    BY <1>3, <1>7, <1>0 DEF TalkAt
  <2>2. CASE sent[u] = -1
    <3>1. Len(down[u]) = 0 /\ client[u] = "count" /\ piece.is = "count"
      BY <1>1, <1>2, <1>3, <2>2, <1>0 DEF TalkAt, LoopsOn, InString
    <3>2. QED
      BY <3>1 DEF KindAt, Place
  <2>3. CASE sent[u] # -1
    <3>1. piece.is = IF sent[u] % 2 = 1 THEN "string" ELSE "size"
      BY <1>1, <2>3 DEF LoopsOn, InString
    <3>2. sent[u] >= 0 /\ sent[u] < 2 * observer_count
      BY <1>2, <1>8, <2>3, <1>0
    <3>3. client[u] \in {"count", "size", "string"} /\ ToRead(u) # 0
      BY <1>3, <2>1, <3>2, <1>0 DEF TalkAt, ToRead
    <3>4. /\ Place(u) \in {0, 1, 2}
          /\ client[u] # "count" => Place(u) # 0
          /\ client[u] = "count" => ToRead(u) = IF u \in code THEN 0 ELSE 2 * Announced(u) + 1
          /\ client[u] = "size" => Place(u) = 1 /\ ToRead(u) = 2 * left[u]
          /\ client[u] = "string" => Place(u) = 2 /\ ToRead(u) = 2 * left[u] - 1
      BY DEF Place, ToRead
    <3>8. PICK d \in Int : Place(u) + Len(down[u]) = sent[u] + 1 + 2 * d
      <4>1. PICK n \in Int : ToRead(u) = 2 * n + 1 - Place(u)
        <5>1. CASE client[u] = "count"
          <6>1. Announced(u) \in Int /\ Place(u) = 0
            BY <5>1, <1>0 DEF Announced, Place
          <6>2. QED
            BY <3>3, <3>4, <5>1, <6>1
        <5>2. CASE client[u] = "size"
          BY <3>4, <5>2, <1>0
        <5>3. CASE client[u] = "string"
          BY <3>4, <5>3, <1>0
        <5>4. QED
          BY <3>3, <5>1, <5>2, <5>3
      <4>2. Len(down[u]) + 2 * observer_count - sent[u] = 2 * n + 1 - Place(u)
        BY <2>1, <4>1
      <4>3. /\ Len(down[u]) \in Int /\ observer_count \in Int /\ sent[u] \in Int
            /\ Place(u) \in Int
        BY <1>0, <3>4
      <4>4. PICK len \in Int, count \in Int, pieces \in Int, place \in Int :
               /\ len = Len(down[u]) /\ count = observer_count
               /\ pieces = sent[u] /\ place = Place(u)
        BY <4>3
      <4>5. \E d \in Int : place + len = pieces + 1 + 2 * d
        <5>1. len + 2 * count - pieces = 2 * n + 1 - place
          BY <4>2, <4>4
        <5>2. /\ n - count \in Int
              /\ place + len = pieces + 1 + 2 * (n - count)
          BY ONLY <5>1, n \in Int, len \in Int, count \in Int, pieces \in Int,
                  place \in Int
        <5>3. QED
          BY ONLY <5>2
      <4>6. QED
        BY <4>4, <4>5
    <3>5. Place(u) + Len(down[u]) # 0
      <4>1. CASE client[u] = "count"
        <5>1. down[u] # <<>>
          BY <2>1, <3>2, <3>3, <4>1, <1>0 DEF ToRead, Announced
        <5>2. QED
          BY <3>4, <5>1, <1>0
      <4>2. CASE client[u] # "count"
        BY <3>4, <4>2, <1>0
      <4>3. QED
        BY <4>1, <4>2
    <3>6. (sent[u] + 1 + 2 * d) % 2 = 1 <=> sent[u] % 2 # 1
      BY <1>0, Parity
    <3>7. QED
      BY <3>1, <3>5, <3>6, <3>8 DEF KindAt
  <2>4. QED
    BY <2>2, <2>3
<1>11. \A k \in 1..Len(down'[u]) : down'[u][k].is = KindAt(Place(u)' + k - 1)
  <2>1. Place(u)' = Place(u) /\ Place(u) \in 0..2
    BY <1>2 DEF Place
  <2>2. ASSUME NEW k \in 1..Len(down[u])
        PROVE  down'[u][k].is = KindAt(Place(u)' + k - 1)
    BY <1>3, <1>6, <2>1, <2>2 DEF TalkAt, KindAt
  <2>3. Place(u)' + (Len(down[u]) + 1) - 1 = Place(u) + Len(down[u])
    BY <2>1, <1>0
  <2>4. ASSUME NEW k \in 1..Len(down'[u]), k \notin 1..Len(down[u])
        PROVE  down'[u][k].is = KindAt(Place(u)' + k - 1)
    <3>1. k = Len(down[u]) + 1
      BY <1>0, <1>6, <2>4
    <3>2. Place(u)' + k - 1 = Place(u) + Len(down[u])
      BY <2>3, <3>1
    <3>3. QED
      BY <1>6, <1>10, <3>1, <3>2
  <2>5. QED
    BY <2>2, <2>4
<1>12. QED
  <2>1. Len(down'[u]) + ToSend(u)' = ToRead(u)'
    <3>1. Len(down[u]) + ToSend(u) = ToRead(u)
      BY <1>3 DEF TalkAt
    <3>2. ToSend(u) \in Int
      BY <1>0, <1>7
    <3>3. QED
      BY ONLY <1>0, <1>6, <1>7, <1>9, <3>1, <3>2
  <2>2. sent'[u] # -1 /\ sent'[u] <= 2 * observer_count'
    BY <1>2, <1>8
  <2>3. client'[u] # "lost" /\ (u \in code' => client'[u] = "count")
    BY <1>2, <1>3 DEF TalkAt
  <2>4. QED
    BY <1>11, <2>1, <2>2, <2>3 DEF TalkAt

(* A thread is over with an answer when all of it is under way or read.    *)
LEMMA AllSentKeepsTalk ==
    ASSUME Grounds, NEW u \in Users, TalkAt(u), AllSent(u)
    PROVE  TalkAt(u)'
<1>0. /\ sent[u] \in Int /\ sent[u] >= 0 /\ sent[u] % 2 # 1
      /\ ~(sent[u] \div 2 < observer_count) /\ observer_count \in Nat
      /\ Len(down[u]) \in Nat /\ (down[u] = <<>> => Len(down[u]) = 0)
  BY GroundsAt DEF AllSent, AllSentBy, LoopOver, LoopsOn, InString, StringsToSend
<1>1. /\ user[u] = "send" /\ user'[u] = "store"
      /\ UNCHANGED <<code, observer_count, down, client, left, disturbed>>
  BY DEF AllSent, AllSentBy, SendEntries, UserPasses, stream, atClient, Grounds,
         SessionTypeOK, TypeOK
<1>2. SUFFICES ASSUME Alive(u), ~disturbed[u] PROVE TalkAt(u)'
  BY <1>1 DEF TalkAt, Alive
<1>3. sent[u] = 2 * observer_count
  <2>1. sent[u] >= 2 * observer_count
    BY <1>0
  <2>2. sent[u] <= 2 * observer_count
    BY <1>1, <1>2 DEF TalkAt
  <2>3. QED
    BY <1>0, <2>1, <2>2
<1>4. ToSend(u) = 0 /\ ToSend(u)' = 0
  BY <1>0, <1>1, <1>3 DEF ToSend
<1>5. client[u] = "count" /\ u \notin code => down[u] # <<>>
  BY <1>0, <1>2, <1>4 DEF TalkAt, ToRead, Announced
<1>6. ToRead(u)' = ToRead(u)
  BY <1>1, <1>5 DEF ToRead, Announced
<1>7. QED
  BY <1>1, <1>2, <1>4, <1>6 DEF TalkAt, Place, KindAt

(* A client asks when everything it asked for has been sent and read.      *)
LEMMA AsksKeepsTalk ==
    ASSUME Grounds, NEW u \in Users, TalkAt(u), Asks(u)
    PROVE  TalkAt(u)'
<1>1. /\ code' = code \cup {u}
      /\ UNCHANGED <<user, observer_count, sent, down, left, disturbed>>
      /\ \/ client[u] = "ask" /\ client'[u] = "count"
         \/ client[u] = "lost" /\ client'[u] = "lost"
  BY DEF Asks, vars, threads, Grounds, SessionTypeOK
<1>2. SUFFICES ASSUME client[u] = "ask", client'[u] = "count", ~disturbed[u]
               PROVE  TalkAt(u)'
  BY <1>1 DEF TalkAt, Alive
<1>3. Len(down[u]) + ToSend(u) = 0 /\ u \notin code
  BY <1>2 DEF TalkAt, Alive, ToRead
<1>4. user[u] = "send" => sent[u] # -1
  BY <1>2 DEF TalkAt, Alive
<1>5. ToSend(u) \in Nat
  BY <1>2, GroundsAt DEF TalkAt, Alive, ToSend
<1>6. Len(down[u]) = 0
  BY <1>3, <1>5, GroundsAt
<1>7. ToSend(u)' = ToSend(u) /\ ToRead(u)' = 0
  BY <1>1, <1>2 DEF ToSend, ToRead
<1>8. QED
  BY <1>1, <1>2, <1>3, <1>4, <1>6, <1>7 DEF TalkAt, Alive

(* A piece that is read moves the client's place by one.                   *)
LEMMA ReadsKeepsTalk ==
    ASSUME Grounds, NEW u \in Users, TalkAt(u), ReadsAnswer(u)
    PROVE  TalkAt(u)'
<1>1. /\ down[u] # <<>> /\ down'[u] = Tail(down[u])
      /\ UNCHANGED <<user, code, observer_count, sent, disturbed>>
      /\ \/ /\ client[u] = "count" /\ left'[u] = Head(down[u]).n
            /\ client'[u] = IF Head(down[u]).n > 0 THEN "size" ELSE "ask"
         \/ client[u] = "size" /\ client'[u] = "string" /\ left'[u] = left[u]
         \/ /\ client[u] = "string" /\ left'[u] = left[u] - 1
            /\ client'[u] = IF left[u] - 1 > 0 THEN "size" ELSE "ask"
  BY DEF ReadsAnswer, ReadCount, ReadSize, ReadString, Reads, WithLeft, vars, threads,
         Grounds, SessionTypeOK
<1>2. /\ sent[u] \in Int /\ observer_count \in Nat /\ left[u] \in Nat
      /\ Len(down[u]) \in Nat /\ Len(down[u]) > 0 /\ down[u] \in Seq(Piece)
      /\ Head(down[u]).n \in Nat
      /\ client[u] \in {"size", "string"} => left[u] > 0
  BY <1>1, GroundsAt DEF TiedAt
<1>3. /\ Len(down'[u]) = Len(down[u]) - 1
      /\ \A k \in 1..Len(down'[u]) : down'[u][k] = down[u][k + 1]
  BY <1>1, <1>2, HeadTailProperties
<1>4. SUFFICES ASSUME ~disturbed[u] PROVE TalkAt(u)'
  BY <1>1 DEF TalkAt
<1>5. Alive(u)
  BY <1>1 DEF Alive
<1>6. u \notin code
  <2>1. ToSend(u) \in Nat
    BY <1>1, <1>2, <1>4, <1>5 DEF TalkAt, ToSend
  <2>2. u \in code => ToRead(u) = 0
    BY <1>4, <1>5 DEF TalkAt, ToRead
  <2>3. QED
    BY <1>2, <1>4, <1>5, <2>1, <2>2 DEF TalkAt
<1>7. ToSend(u)' = ToSend(u) /\ ToSend(u) \in Int
  BY <1>1, <1>2 DEF ToSend
<1>8. ToRead(u) = ToRead(u)' + 1 /\ ToRead(u)' \in Int
  <2>1. CASE client[u] = "count"
    <3>1. ToRead(u) = 2 * Head(down[u]).n + 1
      BY <1>1, <1>6, <2>1 DEF ToRead, Announced
    <3>2. ToRead(u)' = 2 * Head(down[u]).n
      BY <1>1, <1>2, <2>1 DEF ToRead
    <3>3. QED
      BY <1>2, <3>1, <3>2
  <2>2. CASE client[u] = "size"
    BY <1>1, <1>2, <2>2 DEF ToRead
  <2>3. CASE client[u] = "string"
    <3>1. ToRead(u) = 2 * left[u] - 1
      BY <2>3 DEF ToRead
    <3>2. ToRead(u)' = 2 * (left[u] - 1)
      BY <1>1, <1>2, <2>3 DEF ToRead
    <3>3. QED
      BY <1>2, <3>1, <3>2
  <2>4. QED
    BY <1>1, <2>1, <2>2, <2>3
<1>9. \A k \in 1..Len(down'[u]) : down'[u][k].is = KindAt(Place(u)' + k - 1)
  <2>1. SUFFICES ASSUME NEW k \in 1..Len(down'[u])
                 PROVE  down'[u][k].is = KindAt(Place(u)' + k - 1)
    OBVIOUS
  <2>2. down'[u][k].is = KindAt(Place(u) + (k + 1) - 1)
    <3>1. k + 1 \in 1..Len(down[u])
      BY <1>2, <1>3, <2>1
    <3>2. QED
      BY <1>3, <1>4, <1>5, <3>1 DEF TalkAt
  <2>3. CASE client'[u] = "ask"
    <3>1. ToRead(u)' = 0
      BY <2>3 DEF ToRead
    <3>2. Len(down[u]) + ToSend(u) = 1
      BY <1>4, <1>5, <1>8, <3>1 DEF TalkAt
    <3>3. ToSend(u) \in Nat
      BY <1>1, <1>2, <1>4, <1>5 DEF TalkAt, ToSend
    <3>4. QED
      BY <1>2, <1>3, <2>1, <3>2, <3>3
  <2>4. CASE client[u] = "count" /\ client'[u] = "size"
    BY <2>2, <2>4 DEF Place
  <2>5. CASE client[u] = "size"
    BY <1>1, <2>2, <2>5 DEF Place
  <2>6. CASE client[u] = "string" /\ client'[u] = "size"
    <3>1. Place(u)' + k - 1 = k /\ Place(u) + (k + 1) - 1 = k + 2 /\ k # 0 /\ k + 2 # 0
      BY <2>6 DEF Place
    <3>2. (k + 2) % 2 = k % 2
      OBVIOUS
    <3>3. QED
      BY <2>2, <3>1, <3>2 DEF KindAt
  <2>7. QED
    BY <1>1, <2>3, <2>4, <2>5, <2>6
<1>10. QED
  <2>1. Len(down'[u]) + ToSend(u)' = ToRead(u)'
    <3>1. Len(down[u]) + ToSend(u) = ToRead(u)
      BY <1>4, <1>5 DEF TalkAt
    <3>2. ToRead(u)' = (Len(down[u]) - 1) + ToSend(u)
      BY ONLY <1>2, <1>7, <1>8, <3>1
    <3>3. QED
      BY ONLY <1>3, <1>7, <3>2
  <2>2. client'[u] # "lost" /\ u \notin code'
    BY <1>1, <1>6
  <2>3. user[u] = "send" => sent[u] <= 2 * observer_count /\ sent[u] # -1
    BY <1>1, <1>4, <1>5 DEF TalkAt
  <2>4. QED
    BY <1>1, <1>9, <2>1, <2>2, <2>3 DEF TalkAt

(* While the talk is undisturbed the first piece under way is the one the  *)
(* client waits for: it loses its place only in a read that disturbs.      *)
LEMMA LosesKeepsTalk ==
    ASSUME Grounds, NEW u \in Users, TalkAt(u), LosesPlace(u) \/ ReadsAstray(u)
    PROVE  TalkAt(u)'
<1>1. CASE ReadsAstray(u)
  BY <1>1 DEF ReadsAstray, TalkAt, Alive
<1>2. CASE LosesPlace(u)
  <2>1. /\ client[u] \in {"count", "size", "string"} /\ down[u] # <<>>
        /\ disturbed'[u] = (disturbed[u] \/ Head(down[u]).is = client[u])
    BY <1>2 DEF LosesPlace, Waiting, Grounds, SessionTypeOK
  <2>2. SUFFICES ASSUME ~disturbed[u] PROVE Head(down[u]).is = client[u]
    BY <2>1 DEF TalkAt
  <2>3. 1 \in 1..Len(down[u]) /\ Head(down[u]) = down[u][1]
    BY <2>1, GroundsAt
  <2>4. down[u][1].is = KindAt(Place(u) + 1 - 1)
    BY <2>1, <2>2, <2>3 DEF TalkAt, Alive
  <2>5. KindAt(Place(u) + 1 - 1) = client[u]
    BY <2>1 DEF KindAt, Place
  <2>6. QED
    BY <2>3, <2>4, <2>5
<1>3. QED
  BY <1>1, <1>2

(* What a thread and what a client leave alone of the others.              *)
LEMMA ThreadsAlone ==
    ASSUME Grounds, NEW u \in Users, UserThread(u), NEW v \in Users, v # u,
           ~disturbed'[v]
    PROVE  LeavesAlone(v)
<1> USE DEF Grounds, SessionTypeOK, TypeOK, UserPasses, handover, stream, atClient, vars,
            threads
<1>1. ~disturbed[v]
  BY DEF UserThread, Starts, Registers, TakesCode, TakesCodeIf, Disconnects, SendsAnswer,
         Announce, SendString, Sends, AllSent, AllSentBy, PipeBreaks, session
<1>2. user[u] # "absent" => socket[u] # v
  BY <1>1, OwnSocket
<1>3. CASE Starts(u)
  BY <1>1, <1>3 DEF Starts, LeavesAlone
<1>4. CASE Registers(u) \/ PipeBreaks(u)
  BY <1>1, <1>4 DEF Registers, RegisterUser, RegisterUserCounting, PipeBreaks, BrokenPipe,
                    session, LeavesAlone
<1>5. CASE TakesCode(u)
  BY <1>1, <1>2, <1>5 DEF TakesCode, TakesCodeIf, ReadCode, LeavesAlone
<1>6. CASE Disconnects(u)
  BY <1>1, <1>6 DEF Disconnects, ReadDisconnect, LeavesAlone
<1>7. CASE Announce(u) \/ SendString(u)
  <2>1. PICK piece : Sends(u, piece)
    BY <1>7 DEF Announce, SendString
  <2>2. user[u] # "absent"
    BY <2>1 DEF Sends
  <2>3. down'[v] = down[v] /\ fatal'[v] = fatal[v] /\ sent'[v] = sent[v]
    BY <1>2, <2>1, <2>2 DEF Sends
  <2>4. UNCHANGED <<user, observer_count, client, code, left>>
    BY <2>1 DEF Sends
  <2>5. QED
    BY <1>1, <2>3, <2>4 DEF LeavesAlone
<1>8. CASE AllSent(u)
  BY <1>1, <1>8 DEF AllSent, AllSentBy, SendEntries, LeavesAlone
<1>9. QED
  BY <1>3, <1>4, <1>5, <1>6, <1>7, <1>8 DEF UserThread, SendsAnswer

LEMMA ClientsAlone ==
    ASSUME Grounds, NEW u \in Users, UserClient(u), NEW v \in Users, v # u,
           ~disturbed'[v]
    PROVE  LeavesAlone(v)
<1> USE DEF Grounds, SessionTypeOK, handover, stream, atClient, vars, threads
<1>1. CASE Connects(u)
  BY <1>1 DEF Connects, LeavesAlone
<1>2. CASE Asks(u) \/ FindsDormant(u)
  BY <1>2 DEF Asks, FindsDormant, LeavesAlone
<1>3. CASE ReadsAnswer(u) \/ LosesPlace(u) \/ ReadsAstray(u)
  BY <1>3 DEF ReadsAnswer, ReadCount, ReadSize, ReadString, Reads, WithLeft, LosesPlace,
              ReadsAstray, LeavesAlone
<1>4. CASE Interrupted(u) \/ Dies(u)
  BY <1>4 DEF Interrupted, Dies, Ends, LeavesAlone
<1>5. QED
  BY <1>1, <1>2, <1>3, <1>4 DEF UserClient, AutoKill, KillsDormant

(* The steps that are no user's own, and the beginning of a thread.        *)
LEMMA StrangersAlone ==
    ASSUME Grounds, NEW v \in Users, ~disturbed'[v],
           \/ AcceptsOther \/ OtherStarts \/ Phases \/ UNCHANGED sessionVars
           \/ Terminated /\ UNCHANGED session
           \/ \E u \in Users : \/ Intrudes(u) \/ Starts(u) \/ Registers(u)
                              \/ PipeBreaks(u) \/ FindsDormant(u)
    PROVE  LeavesAlone(v)
<1> USE DEF Grounds, SessionTypeOK, TypeOK, handover, stream, atClient, vars, threads
<1>1. CASE AcceptsOther \/ OtherStarts
  BY <1>1 DEF AcceptsOther, OtherStarts, LeavesAlone
<1>2. CASE Phases
  BY <1>2, PhasesMoves DEF session, LeavesAlone
<1>3. CASE UNCHANGED sessionVars \/ (Terminated /\ UNCHANGED session)
  BY <1>3 DEF Terminated, sessionVars, session, LeavesAlone
<1>4. ASSUME NEW u \in Users, Intrudes(u)
      PROVE  LeavesAlone(v)
  <2>1. u \in intruders /\ disturbed' = disturbed
    BY <1>4 DEF Intrudes
  <2>2. v # u
    BY <2>1 DEF Tied, TiedAt, HandedAt
  <2>3. QED
    BY <1>4, <2>2 DEF Intrudes, LeavesAlone
<1>5. ASSUME NEW u \in Users, Starts(u)
      PROVE  LeavesAlone(v)
  BY <1>5 DEF Starts, LeavesAlone
<1>6. ASSUME NEW u \in Users, Registers(u) \/ PipeBreaks(u)
      PROVE  LeavesAlone(v)
  BY <1>6 DEF Registers, RegisterUser, RegisterUserCounting, UserPasses, PipeBreaks,
              BrokenPipe, session, LeavesAlone
<1>7. ASSUME NEW u \in Users, FindsDormant(u)
      PROVE  LeavesAlone(v)
  BY <1>7 DEF FindsDormant, LeavesAlone
<1>8. QED
  BY <1>1, <1>2, <1>3, <1>4, <1>5, <1>6, <1>7

(* Every step keeps the talk.                                              *)
LEMMA SessionKeepsTalk == Grounds /\ Talk /\ [SessionNext]_sessionVars => Talk'
<1> SUFFICES ASSUME Grounds, Talk, [SessionNext]_sessionVars, NEW v \in Users
             PROVE  TalkAt(v)'
  BY DEF Talk
<1>1. TalkAt(v)
  BY DEF Talk
<1>2. CASE ObserverCountMoves
  BY <1>1, <1>2, ObserverKeepsTalk
<1>3. ASSUME NEW u \in Users, UserThread(u)
      PROVE  TalkAt(v)'
  <2>1. CASE v # u
    BY <1>1, <1>3, <2>1, ThreadsAlone, TalkFrame
  <2>2. CASE v = u /\ (Starts(u) \/ Registers(u) \/ PipeBreaks(u))
    BY <1>1, <2>2, StrangersAlone, TalkFrame
  <2>3. QED
    BY <1>1, <1>3, <2>1, <2>2, TurnsKeepTalk, SendsKeepTalk, AllSentKeepsTalk
       DEF UserThread, SendsAnswer
<1>4. ASSUME NEW u \in Users, UserClient(u)
      PROVE  TalkAt(v)'
  <2>1. CASE v # u
    BY <1>1, <1>4, <2>1, ClientsAlone, TalkFrame
  <2>2. CASE v = u /\ (Interrupted(u) \/ Dies(u))
    BY <2>2 DEF Interrupted, Dies, Ends, TalkAt, Alive, Grounds, SessionTypeOK
  <2>3. CASE v = u /\ FindsDormant(u)
    BY <1>1, <2>3, StrangersAlone, TalkFrame
  <2>4. QED
    BY <1>1, <1>4, <2>1, <2>2, <2>3, TurnsKeepTalk, AsksKeepsTalk, ReadsKeepsTalk,
       LosesKeepsTalk DEF UserClient, AutoKill, KillsDormant
<1>5. QED
  BY <1>1, <1>2, <1>3, <1>4, StrangersAlone, TalkFrame DEF SessionNext

(* Nobody talks at the start.                                              *)
LEMMA InitTalk == SessionInit => Talk
BY DEF SessionInit, Talk, TalkAt, Alive

(* What the talk says of a client is what InStep says.                     *)
LEMMA TalkInStep == Grounds /\ Talk => InStep
<1> SUFFICES ASSUME Grounds, Talk, NEW u \in Users, Alive(u), ~disturbed[u]
             PROVE  /\ client[u] # "lost"
                    /\ Waiting(u) /\ user[u] # "send" /\ down[u] = <<>> => u \in code
                    /\ u \in code => /\ client[u] = "count" /\ down[u] = <<>>
                                     /\ user[u] = "send" => LoopOver(u)
  BY DEF InStep
<1>0. /\ sent[u] \in Int /\ sent[u] >= -1 /\ observer_count \in Nat /\ left[u] \in Nat
      /\ Len(down[u]) \in Nat
      /\ down[u] # <<>> => Len(down[u]) > 0
      /\ down[u] = <<>> => Len(down[u]) = 0
      /\ client[u] \in {"size", "string"} => left[u] > 0
  BY GroundsAt DEF TiedAt
<1>1. TalkAt(u)
  BY DEF Talk
<1>2. ASSUME Waiting(u), user[u] # "send", down[u] = <<>> PROVE u \in code
  BY <1>0, <1>1, <1>2 DEF TalkAt, Waiting, ToSend, ToRead, Announced
<1>3. ASSUME u \in code
      PROVE  /\ client[u] = "count" /\ down[u] = <<>>
             /\ user[u] = "send" => LoopOver(u)
  <2>1. client[u] = "count" /\ Len(down[u]) + ToSend(u) = 0
    BY <1>1, <1>3 DEF TalkAt, ToRead
  <2>2. ToSend(u) \in Nat
    BY <1>0, <1>1 DEF TalkAt, ToSend
  <2>3. Len(down[u]) = 0 /\ ToSend(u) = 0
    BY <1>0, <2>1, <2>2
  <2>4. ASSUME user[u] = "send" PROVE LoopOver(u)
    <3>1. sent[u] = 2 * observer_count /\ sent[u] >= 0
      <4>1. 2 * observer_count - sent[u] = 0
        BY <2>3, <2>4 DEF ToSend
      <4>2. QED
        BY <1>0, <4>1
    <3>2. sent[u] % 2 = 0 /\ sent[u] \div 2 = observer_count
      BY <1>0, <3>1
    <3>3. QED
      BY <1>0, <3>1, <3>2 DEF LoopOver, InString, LoopsOn, StringsToSend
  <2>5. QED
    BY <1>0, <2>1, <2>3, <2>4
<1>4. QED
  BY <1>1, <1>2, <1>3 DEF TalkAt

(* As long as nothing disturbs them client and thread stay in step: no     *)
(* piece is taken for another, nobody waits for what is not to come, and   *)
(* no code is sent before the last answer has been read to its end.        *)
THEOREM StaysInStep == SessionSpec => []InStep
BY InitGrounds, InitTalk, SessionKeepsGrounds, SessionKeepsTalk, TalkInStep, PTL
   DEF SessionSpec

---------------------------------------------------------------------------
(* The server's survival                                                   *)

(* The goodbye, too, is about one user each.                               *)
LEMMA GoodbyeFrame ==
    ASSUME NEW v \in Users, GoodbyeAt(v), ~disturbed'[v] => LeavesAlone(v)
    PROVE  GoodbyeAt(v)'
BY DEF LeavesAlone, GoodbyeAt, LoopOver, LoopsOn, InString, StringsToSend

(* A thread that sends to a client that is gone has taken the goodbye's    *)
(* place in the stream, or was not done when it left.                      *)
LEMMA ThreadsKeepGoodbye ==
    ASSUME Grounds, NEW u \in Users, GoodbyeAt(u),
           Connects(u) \/ UserThread(u)
    PROVE  GoodbyeAt(u)'
<1> USE DEF Grounds, SessionTypeOK, TypeOK, UserPasses, stream, atClient
<1>1. CASE Connects(u)
  BY <1>1 DEF Connects, GoodbyeAt
<1>2. CASE Starts(u) \/ Registers(u) \/ PipeBreaks(u)
  BY <1>2, StrangersAlone, GoodbyeFrame
<1>3. CASE TakesCode(u)
  <2>1. user[u] # "absent" /\ UNCHANGED <<client, disturbed>>
    BY <1>3 DEF TakesCode, TakesCodeIf, ReadCode
  <2>2. SUFFICES ASSUME ~disturbed[u] PROVE GoodbyeAt(u)'
    BY <2>1 DEF GoodbyeAt
  <2>3. socket[u] = u
    BY <2>1, <2>2, OwnSocket
  <2>4. /\ u \notin code'
        /\ \/ u \in code /\ fatal'[u] = fatal[u]
           \/ u \notin code /\ fatal'[u] = "reset"
    BY <1>3, <2>3, NoUserIsNone DEF TakesCode, TakesCodeIf
  <2>5. QED
    BY <2>1, <2>4 DEF GoodbyeAt
<1>4. CASE Disconnects(u)
  BY <1>4 DEF Disconnects, ReadDisconnect, GoodbyeAt
<1>5. CASE Announce(u) \/ SendString(u)
  <2>1. PICK piece : Sends(u, piece) /\ (sent[u] = -1 \/ LoopsOn(u) \/ InString(u))
    BY <1>5 DEF Announce, SendString
  <2>2. /\ user[u] = "send" /\ sent'[u] = sent[u] + 1 /\ sent'[u] >= 0
        /\ UNCHANGED <<client, code, disturbed>>
    BY <2>1, SentBound DEF Sends, vars
  <2>3. ~LoopOver(u)
    BY <2>1, GroundsAt DEF LoopOver
  <2>4. QED
    BY <2>2, <2>3 DEF GoodbyeAt
<1>6. CASE AllSent(u)
  BY <1>6 DEF AllSent, AllSentBy, SendEntries, GoodbyeAt
<1>7. QED
  BY <1>1, <1>2, <1>3, <1>4, <1>5, <1>6 DEF UserThread, SendsAnswer

(* A client that leaves does so in step with its thread.                   *)
LEMMA ClientsKeepGoodbye ==
    ASSUME Grounds, Talk, NEW u \in Users, GoodbyeAt(u),
           \/ Asks(u) \/ ReadsAnswer(u) \/ LosesPlace(u) \/ ReadsAstray(u)
           \/ Interrupted(u) \/ Dies(u) \/ FindsDormant(u)
    PROVE  GoodbyeAt(u)'
<1> USE DEF Grounds, SessionTypeOK, TypeOK, atClient
<1>1. CASE Asks(u) \/ ReadsAnswer(u) \/ LosesPlace(u) \/ ReadsAstray(u)
  BY <1>1 DEF Asks, ReadsAnswer, ReadCount, ReadSize, ReadString, Reads, WithLeft,
              LosesPlace, Waiting, ReadsAstray, GoodbyeAt
<1>2. CASE Interrupted(u) \/ Dies(u)
  <2>1. /\ Alive(u) /\ conn[u] = "open"
        /\ UNCHANGED <<user, code, observer_count, sent, fatal, disturbed>>
    BY <1>2, GroundsAt DEF Interrupted, Dies, Ends, vars, threads, TiedAt, Alive
  <2>2. fatal[u] = "no"
    BY <2>1, GroundsAt DEF TiedAt, Alive
  <2>3. ~disturbed[u] /\ u \in code /\ user[u] = "send" => LoopOver(u)
    BY <2>1, TalkInStep DEF InStep
  <2>4. QED
    BY <2>1, <2>2, <2>3 DEF GoodbyeAt, LoopOver, LoopsOn, InString, StringsToSend
<1>3. CASE FindsDormant(u)
  BY <1>3, StrangersAlone, GoodbyeFrame
<1>4. QED
  BY <1>1, <1>2, <1>3

(* Every step keeps the goodbyes.                                          *)
LEMMA SessionKeepsGoodbye ==
    Grounds /\ Talk /\ Goodbye /\ [SessionNext]_sessionVars => Goodbye'
<1> SUFFICES ASSUME Grounds, Talk, Goodbye, [SessionNext]_sessionVars, NEW v \in Users
             PROVE  GoodbyeAt(v)'
  BY DEF Goodbye
<1>1. GoodbyeAt(v)
  BY DEF Goodbye
<1>2. CASE ObserverCountMoves
  <2>1. /\ disturbed'[v] = (disturbed[v] \/ sent[v] >= 0)
        /\ UNCHANGED <<user, code, client, sent, fatal>>
    BY <1>2 DEF ObserverCountMoves, vars, threads, stream, atClient, Grounds,
                SessionTypeOK
  <2>2. ~disturbed'[v] => ~disturbed[v] /\ ~LoopOver(v)
    BY <2>1 DEF LoopOver
  <2>3. QED
    BY <1>1, <2>1, <2>2 DEF GoodbyeAt
<1>3. ASSUME NEW u \in Users, UserThread(u)
      PROVE  GoodbyeAt(v)'
  <2>1. CASE v # u
    BY <1>1, <1>3, <2>1, ThreadsAlone, GoodbyeFrame
  <2>2. QED
    BY <1>1, <1>3, <2>1, ThreadsKeepGoodbye
<1>4. ASSUME NEW u \in Users, UserClient(u)
      PROVE  GoodbyeAt(v)'
  <2>1. CASE v # u
    BY <1>1, <1>4, <2>1, ClientsAlone, GoodbyeFrame
  <2>2. QED
    BY <1>1, <1>4, <2>1, ThreadsKeepGoodbye, ClientsKeepGoodbye
       DEF UserClient, AutoKill, KillsDormant
<1>5. QED
  BY <1>1, <1>2, <1>3, <1>4, StrangersAlone, GoodbyeFrame DEF SessionNext

(* Only a send() on a broken pipe ends the server, and nothing moves after *)
(* that.                                                                   *)
LEMMA OnlyPipesEnd ==
    ASSUME Grounds, [SessionNext]_sessionVars
    PROVE  \/ up' = up /\ up
           \/ UNCHANGED sessionVars
           \/ \E u \in Users : PipeBreaks(u)
<1>1. CASE UNCHANGED sessionVars \/ (Terminated /\ UNCHANGED session)
  BY <1>1 DEF Terminated, sessionVars
<1>2. CASE up /\ Phases
  BY <1>2, PhasesMoves
<1>3. CASE up /\ (ObserverCountMoves \/ AcceptsOther \/ OtherStarts)
  BY <1>3 DEF ObserverCountMoves, AcceptsOther, OtherStarts, vars
<1>4. ASSUME NEW u \in Users, up, UserThread(u), ~PipeBreaks(u)
      PROVE  up' = up
  BY <1>4 DEF UserThread, Starts, Registers, RegisterUser, RegisterUserCounting, TakesCode,
              TakesCodeIf, ReadCode, Disconnects, ReadDisconnect, SendsAnswer, Announce,
              SendString, Sends, AllSent, AllSentBy, SendEntries, vars
<1>5. ASSUME NEW u \in Users, up, UserClient(u) \/ Intrudes(u)
      PROVE  up' = up
  BY <1>5 DEF UserClient, Connects, Asks, ReadsAnswer, ReadCount, ReadSize, ReadString,
              Reads, LosesPlace, ReadsAstray, Interrupted, Dies, Ends, AutoKill,
              FindsDormant, KillsDormant, Intrudes, vars
<1>6. QED
  BY <1>1, <1>2, <1>3, <1>4, <1>5 DEF SessionNext

(* Every step keeps the reason for the server's end.                       *)
LEMMA SessionKeepsSurvival ==
    Grounds /\ Goodbye /\ FirstSendSurvived /\ [SessionNext]_sessionVars
        => FirstSendSurvived'
<1> SUFFICES ASSUME Grounds, Goodbye, FirstSendSurvived, [SessionNext]_sessionVars
             PROVE  FirstSendSurvived'
  OBVIOUS
<1>1. CASE up' = up /\ up
  BY <1>1 DEF FirstSendSurvived
<1>2. CASE UNCHANGED sessionVars
  BY <1>2 DEF sessionVars, session, handover, stream, vars, threads, FirstSendSurvived
<1>3. ASSUME NEW t \in Users, PipeBreaks(t)
      PROVE  FirstSendSurvived'
  <2>1. /\ user[t] = "send"
        /\ socket[t] \in Users => fatal[socket[t]] # "no"
        /\ UNCHANGED <<user, socket, sent, fatal, disturbed>>
    BY <1>3 DEF PipeBreaks, BrokenPipe, session, handover, stream, threads
  <2>2. CASE socket[t] \notin Users
    BY <2>1, <2>2 DEF FirstSendSurvived, Grounds, SessionTypeOK
  <2>3. CASE socket[t] \in Users
    <3> DEFINE c == socket[t]
    <3>1. client[c] = "gone" /\ fatal[c] \in {"sent", "reset"}
      BY <2>1, <2>3, GroundsAt DEF TiedAt, Grounds, SessionTypeOK
    <3>2. ~disturbed[c] => c = t
      BY <2>1, <2>3, OwnSocket
    <3>3. fatal[c] = "sent" => sent[t] >= 0 \/ disturbed[c]
      BY <2>1, <2>3, <3>1, <3>2 DEF Goodbye, GoodbyeAt
    <3>4. QED
      BY <2>1, <2>3, <3>1, <3>3 DEF FirstSendSurvived
  <2>4. QED
    BY <2>2, <2>3
<1>4. QED
  BY <1>1, <1>2, <1>3, OnlyPipesEnd

(* The session's inductive invariant.                                      *)
THEOREM SessionInductive == SessionSpec => []SessionInv
<1>1. SessionInit => Goodbye /\ FirstSendSurvived
  BY DEF SessionInit, Init, Goodbye, GoodbyeAt, FirstSendSurvived
<1>2. Grounds /\ Talk /\ Goodbye /\ FirstSendSurvived => SessionInv
  BY DEF SessionInv, Grounds
<1>3. QED
  BY <1>1, <1>2, InitGrounds, InitTalk, SessionKeepsGrounds, SessionKeepsTalk,
     SessionKeepsGoodbye, SessionKeepsSurvival, PTL DEF SessionSpec

(* A client that leaves in order costs the server its life only by a       *)
(* second send() after that in the same answer, or after a disturbance.    *)
(* Which takes that its thread serves it and no other does.                *)
THEOREM FirstSendIsSurvived == SessionSpec => []FirstSendSurvived
<1>1. SessionInv => FirstSendSurvived
  BY DEF SessionInv
<1>2. QED
  BY <1>1, SessionInductive, PTL

==========================================================================
