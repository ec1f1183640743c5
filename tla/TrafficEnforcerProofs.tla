---------------------- MODULE TrafficEnforcerProofs ----------------------
(***************************************************************************)
(* The safety properties of TrafficEnforcer, proved for any finite sets of *)
(* users and observers.  First the types together with the exactness of    *)
(* the two thread counters, then PhaseInv, then RoundInv; the properties   *)
(* that the runs check follow.                                             *)
(***************************************************************************)
EXTENDS TrafficEnforcer, FiniteSetTheorems, TLAPS

(* The sets of threads that the counters stand for are finite.             *)
LEMMA ThreadsFinite ==
    /\ IsFiniteSet(Writing) /\ Cardinality(Writing) \in Nat
    /\ IsFiniteSet(Registered) /\ Cardinality(Registered) \in Nat
    /\ Cardinality(Users) \in Nat
<1>1. Writing \in SUBSET Observers /\ Registered \in SUBSET Users
  BY DEF Writing, Registered
<1>2. IsFiniteSet(Writing) /\ IsFiniteSet(Registered)
  BY <1>1, UsersFinite, ObserversFinite, FS_Subset
<1>3. QED
  BY <1>2, UsersFinite, FS_CardinalityType

(* Saturation keeps a count a natural number and never raises it.          *)
LEMMA SaturateBound ==
    ASSUME NEW n \in Nat
    PROVE  Saturate(n) \in Nat /\ Saturate(n) <= n
BY ThreadsFinite DEF Saturate

(* Stated apart for the steps that mix it with Boolean variables.          *)
LEMMA TickZero == 0 \in 0..2
OBVIOUS

(* All that the thread of a user does.                                     *)
UserSteps(u) ==
    \/ RegisterUser(u) \/ SeeReading(u) \/ ReadCode(u) \/ ReadDisconnect(u)
    \/ Answers(u) \/ SeeReadingOver(u)

---------------------------------------------------------------------------
(* Types and counters                                                      *)

(* Neither is inductive alone: a counter stays a natural number because it *)
(* counts a set.                                                           *)
TypedAndExact == TypeOK /\ CountersExact

(* The timer keeps the types and changes no counter.                       *)
LEMMA TimerKeepsTypes == TypedAndExact /\ Timer => TypedAndExact'
<1> SUFFICES ASSUME TypedAndExact, Timer PROVE TypedAndExact'
  OBVIOUS
<1> USE DEF TypedAndExact, counters, history, locals
<1>1. CASE TimerWakes
  BY <1>1 DEF TimerWakes, TimerWakesWith, TypeOK, CountersExact, Writing, Registered
<1>2. CASE TimerSets
  BY <1>2 DEF TimerSets, TypeOK, CountersExact, Writing, Registered
<1>3. QED
  BY <1>1, <1>2 DEF Timer

(* The sorter keeps the types; it resets only the done count.              *)
LEMMA SorterKeepsTypes == TypedAndExact /\ Sorter => TypedAndExact'
<1> SUFFICES ASSUME TypedAndExact, Sorter PROVE TypedAndExact'
  OBVIOUS
<1> USE DEF TypedAndExact, flags, counters, history, locals, NotSorter, TypeOK,
            CountersExact, Writing, Registered
<1>1. CASE SorterPolls
  BY <1>1 DEF SorterPolls, SorterPasses
<1>2. CASE SorterClearsLock
  BY <1>2 DEF SorterClearsLock, SorterClearsTo
<1>3. CASE SorterClearsTimer
  BY <1>3, TickZero DEF SorterClearsTimer
<1>4. CASE SetSorting
  BY <1>4 DEF SetSorting
<1>5. CASE WritersOut
  BY <1>5 DEF WritersOut, SorterPasses
<1>6. CASE OpenReading
  BY <1>6 DEF OpenReading
<1>7. CASE LoadDoneCount
  BY <1>7 DEF LoadDoneCount
<1>8. CASE ReadersDone
  BY <1>8 DEF ReadersDone, ReadersDoneIf
<1>9. CASE ResetReaderDoneCount
  BY <1>9 DEF ResetReaderDoneCount
<1>10. CASE SetDone
  BY <1>10 DEF SetDone, SetStateDone
<1>11. QED
  BY <1>1, <1>2, <1>3, <1>4, <1>5, <1>6, <1>7, <1>8, <1>9, <1>10 DEF Sorter

(* An observer changes writer_count when it joins or leaves Writing.       *)
LEMMA ObserverKeepsTypes ==
    ASSUME TypedAndExact, NEW o \in Observers, HasEntry(o) \/ Adds(o)
    PROVE  TypedAndExact'
<1> USE DEF TypedAndExact, NotObserver, ObserverPasses, flags, history, locals
<1>1. Registered' = Registered /\ UNCHANGED <<reader_count, reader_done_count>>
  BY DEF HasEntry, Adds, PassGate, StartWrite, EndWrite, EndWriteCounting, Registered
<1>2. writer_count' = Cardinality(Writing')
  <2>1. CASE HasEntry(o) \/ PassGate(o)
    <3>1. Writing' = Writing
      BY <2>1 DEF HasEntry, PassGate, Writing, TypeOK
    <3>2. QED
      BY <2>1, <3>1 DEF HasEntry, PassGate, CountersExact
  <2>2. CASE StartWrite(o)
    <3>1. Writing' = Writing \cup {o} /\ o \notin Writing
      BY <2>2 DEF StartWrite, Writing, TypeOK
    <3>2. QED
      BY <2>2, <3>1, ThreadsFinite, FS_AddElement DEF StartWrite, CountersExact
  <2>3. CASE EndWrite(o)
    <3>1. Writing' = Writing \ {o} /\ o \in Writing
      BY <2>3 DEF EndWrite, EndWriteCounting, Writing, TypeOK
    <3>2. QED
      BY <2>3, <3>1, ThreadsFinite, FS_RemoveElement
         DEF EndWrite, EndWriteCounting, CountersExact
  <2>4. QED
    BY <2>1, <2>2, <2>3 DEF Adds
<1>3. IsFiniteSet(Writing') /\ Cardinality(Writing') \in Nat
  <2>1. Writing' \in SUBSET Observers
    BY DEF Writing
  <2>2. QED
    BY <2>1, ObserversFinite, FS_Subset, FS_CardinalityType
<1>4. TypeOK'
  BY <1>1, <1>2, <1>3
     DEF HasEntry, Adds, PassGate, StartWrite, EndWrite, EndWriteCounting, TypeOK
<1>5. QED
  BY <1>1, <1>2, <1>4 DEF CountersExact

(* A user changes reader_count when it joins or leaves Registered.         *)
LEMMA UserKeepsTypes ==
    ASSUME TypedAndExact, NEW u \in Users,
           UserSteps(u)
    PROVE  TypedAndExact'
<1> USE DEF TypedAndExact, NotUser, UserPasses, flags, history, locals, counters,
            threads, RegisterUser, RegisterUserCounting, SeeReading, ReadCode,
            ReadDisconnect, Answers, SendEntries, BrokenPipe, StoreDone,
            SeeReadingOver
<1>1. Writing' = Writing /\ writer_count' = writer_count
  BY DEF UserSteps, Writing
<1>2. reader_count' = Cardinality(Registered')
  <2>1. CASE SeeReading(u) \/ ReadCode(u) \/ SendEntries(u) \/ BrokenPipe(u)
             \/ StoreDone(u) \/ SeeReadingOver(u)
    <3>1. Registered' = Registered
      BY <2>1 DEF Registered, TypeOK
    <3>2. QED
      BY <2>1, <3>1 DEF CountersExact
  <2>2. CASE RegisterUser(u)
    <3>1. Registered' = Registered \cup {u} /\ u \notin Registered
      BY <2>2 DEF Registered, TypeOK
    <3>2. QED
      BY <2>2, <3>1, ThreadsFinite, FS_AddElement DEF CountersExact
  <2>3. CASE ReadDisconnect(u)
    <3>1. Registered' = Registered \ {u} /\ u \in Registered
      BY <2>3 DEF Registered, TypeOK
    <3>2. QED
      BY <2>3, <3>1, ThreadsFinite, FS_RemoveElement DEF CountersExact
  <2>4. QED
    BY <2>1, <2>2, <2>3 DEF UserSteps
<1>3. reader_count' \in Nat
  <2>1. Registered' \in SUBSET Users
    BY DEF Registered
  <2>2. QED
    BY <1>2, <2>1, UsersFinite, FS_Subset, FS_CardinalityType
<1>4. loaded' \in [Users -> Nat] /\ reader_done_count' \in Nat
  BY SaturateBound DEF UserSteps, TypeOK
<1>5. user' \in [Users -> {"absent", "await", "read", "send", "store", "hold"}]
  BY DEF UserSteps, TypeOK
<1>6. owed' \in SUBSET Users /\ up' \in BOOLEAN /\ quiet' \in BOOLEAN
  BY Zenon DEF UserSteps, TypeOK
<1>7. TypeOK'
  <2>1. UNCHANGED <<server_state, timer_expired, possible_lock_detected,
                    timer_expired_mutex, timer, sorter, observer, seen, ticks,
                    barred>>
    BY DEF UserSteps
  <2>2. TypeOK
    BY DEF TypedAndExact
  <2>3. QED
    BY ONLY <1>1, <1>3, <1>4, <1>5, <1>6, <2>1, <2>2 DEF TypeOK
<1>8. QED
  BY <1>1, <1>2, <1>7 DEF CountersExact

(* No thread counts at the start.                                          *)
LEMMA InitTyped == Init => TypedAndExact
<1> SUFFICES ASSUME Init PROVE TypedAndExact
  OBVIOUS
<1>1. Writing = {} /\ Registered = {}
  BY DEF Init, Writing, Registered
<1>2. CountersExact
  BY <1>1, FS_EmptySet DEF Init, CountersExact
<1>3. TypeOK
  BY TickZero DEF Init, TypeOK
<1>4. QED
  BY <1>2, <1>3 DEF TypedAndExact

(* Types and exact counters are inductive together.                        *)
LEMMA NextKeepsTypes == TypedAndExact /\ [Next]_vars => TypedAndExact'
<1> SUFFICES ASSUME TypedAndExact, [Next]_vars PROVE TypedAndExact'
  OBVIOUS
<1>1. CASE UNCHANGED vars
  BY <1>1 DEF vars, flags, counters, threads, locals, history, TypedAndExact,
              TypeOK, CountersExact, Writing, Registered
<1>2. CASE Running
  BY <1>2, TimerKeepsTypes, SorterKeepsTypes, ObserverKeepsTypes, UserKeepsTypes
     DEF Running, UserSteps
<1>3. QED
  BY <1>1, <1>2 DEF Next, Terminated

(* Types, and the counters the sorter waits on equal the threads they      *)
(* stand for, in every state.                                              *)
THEOREM TypesAndCounters == Spec => [](TypeOK /\ CountersExact)
<1>1. Spec => []TypedAndExact
  BY InitTyped, NextKeepsTypes, PTL DEF Spec
<1>2. TypedAndExact => TypeOK /\ CountersExact
  BY DEF TypedAndExact
<1>3. QED
  BY <1>1, <1>2, PTL

(* Every variable has its type in every state, the counters that count     *)
(* down included.                                                          *)
THEOREM Typed == Spec => []TypeOK
<1>1. TypeOK /\ CountersExact => TypeOK
  OBVIOUS
<1>2. QED
  BY <1>1, TypesAndCounters, PTL
---------------------------------------------------------------------------
(* Phases, the mutex and the breaker                                       *)

(* The sorter and the timer start in step.                                 *)
LEMMA InitPhase == Init => PhaseInv
BY DEF Init, PhaseInv, BreakerWaits, BarredWritersOut

(* A tick is counted as the timer sets its flags one after the other.      *)
LEMMA TimerKeepsPhase == TypeOK /\ PhaseInv /\ Timer => PhaseInv'
<1> SUFFICES ASSUME TypeOK, PhaseInv, Timer PROVE PhaseInv'
  OBVIOUS
<1> USE DEF PhaseInv, BreakerWaits, BarredWritersOut, Writing, TypeOK
<1>1. CASE TimerWakes
  BY <1>1 DEF TimerWakes, TimerWakesWith
<1>2. CASE TimerSets
  BY <1>2 DEF TimerSets, history
<1>3. QED
  BY <1>1, <1>2 DEF Timer

(* The sorter moves the state as it goes on, and waits the writers out.    *)
LEMMA SorterKeepsPhase == TypedAndExact /\ PhaseInv /\ Sorter => PhaseInv'
<1> SUFFICES ASSUME TypedAndExact, PhaseInv, Sorter PROVE PhaseInv'
  OBVIOUS
<1> USE DEF PhaseInv, BreakerWaits, BarredWritersOut, Writing, TypedAndExact, TypeOK,
            NotSorter, flags, history, SorterPasses
<1>1. CASE SorterPolls
  BY <1>1 DEF SorterPolls
<1>2. CASE SorterClearsLock
  BY <1>2 DEF SorterClearsLock, SorterClearsTo
<1>3. CASE SorterClearsTimer
  BY <1>3 DEF SorterClearsTimer
<1>4. CASE SetSorting
  BY <1>4 DEF SetSorting
<1>5. CASE WritersOut
  <2>1. writer_count = 0 => Writing = {}
    BY ThreadsFinite, FS_EmptySet DEF CountersExact
  <2>2. QED
    BY <1>5, <2>1 DEF WritersOut
<1>6. CASE OpenReading
  BY <1>6 DEF OpenReading
<1>7. CASE LoadDoneCount
  BY <1>7 DEF LoadDoneCount
<1>8. CASE ReadersDone
  BY <1>8 DEF ReadersDone, ReadersDoneIf
<1>9. CASE ResetReaderDoneCount
  BY <1>9 DEF ResetReaderDoneCount
<1>10. CASE SetDone
  BY <1>10 DEF SetDone, SetStateDone
<1>11. QED
  BY <1>1, <1>2, <1>3, <1>4, <1>5, <1>6, <1>7, <1>8, <1>9, <1>10 DEF Sorter

(* An observer leaves barred with its write, and cannot join it.           *)
LEMMA ObserverKeepsPhase ==
    ASSUME TypeOK, PhaseInv, NEW o \in Observers, HasEntry(o) \/ Adds(o)
    PROVE  PhaseInv'
<1> USE DEF NotObserver, ObserverPasses, flags, history
<1>1. UNCHANGED <<server_state, flags, timer, sorter, ticks>>
  BY DEF HasEntry, Adds, PassGate, StartWrite, EndWrite, EndWriteCounting
<1>2. barred' \subseteq Writing' /\ barred' \subseteq barred
  BY DEF HasEntry, Adds, PassGate, StartWrite, EndWrite, EndWriteCounting, Writing,
         PhaseInv, TypeOK
<1>3. QED
  BY <1>1, <1>2 DEF PhaseInv, BreakerWaits, BarredWritersOut

(* Users touch nothing of the phases.                                      *)
LEMMA UserKeepsPhase ==
    ASSUME PhaseInv, NEW u \in Users, UserSteps(u)
    PROVE  PhaseInv'
<1>1. UNCHANGED <<server_state, flags, timer, sorter, observer, ticks, barred>>
  BY DEF UserSteps, NotUser, UserPasses, flags, history, threads, RegisterUser,
         RegisterUserCounting, SeeReading, ReadCode, ReadDisconnect, Answers,
         SendEntries, BrokenPipe, StoreDone, SeeReadingOver
<1>2. QED
  BY <1>1 DEF flags, PhaseInv, BreakerWaits, BarredWritersOut, Writing

(* Every step keeps the phases in order.                                   *)
LEMMA NextKeepsPhase == TypedAndExact /\ PhaseInv /\ [Next]_vars => PhaseInv'
<1> SUFFICES ASSUME TypedAndExact, PhaseInv, [Next]_vars PROVE PhaseInv'
  OBVIOUS
<1>1. CASE UNCHANGED vars
  BY <1>1 DEF vars, flags, counters, threads, locals, history, PhaseInv,
              BreakerWaits, BarredWritersOut, Writing
<1>2. CASE Running
  BY <1>2, TimerKeepsPhase, SorterKeepsPhase, ObserverKeepsPhase, UserKeepsPhase
     DEF Running, UserSteps, TypedAndExact
<1>3. QED
  BY <1>1, <1>2 DEF Next, Terminated

(* The phases are in order in every state.                                 *)
LEMMA PhaseInvariant == Spec => [](TypedAndExact /\ PhaseInv)
<1>1. Init => TypedAndExact /\ PhaseInv
  BY InitTyped, InitPhase
<1>2. TypedAndExact /\ PhaseInv /\ [Next]_vars => (TypedAndExact /\ PhaseInv)'
  BY NextKeepsTypes, NextKeepsPhase
<1>3. QED
  BY <1>1, <1>2, PTL DEF Spec

(* is_locked() implies that the timer went off twice since the sorter last *)
(* took a tick, whatever the two threads' interleaving.                    *)
THEOREM BreakerWaitsTwoTicks == Spec => []BreakerWaits
<1>1. PhaseInv => BreakerWaits
  BY DEF PhaseInv
<1>2. QED
  BY <1>1, PhaseInvariant, PTL

(* The writers caught inside when SORTING was set are out before the sort, *)
(* unless the breaker fired.                                               *)
THEOREM WritersGetOut == Spec => []BarredWritersOut
<1>1. PhaseInv => BarredWritersOut
  BY DEF PhaseInv
<1>2. QED
  BY <1>1, PhaseInvariant, PTL
---------------------------------------------------------------------------
(* Rounds                                                                  *)

(* What the steps of a round start from.                                   *)
Base == TypedAndExact /\ PhaseInv

(* No round is open at the start.                                          *)
LEMMA InitRound == Init => RoundInv
<1> SUFFICES ASSUME Init PROVE RoundInv
  OBVIOUS
<1>1. Registered = {} /\ Reading = {} /\ owed = {} /\ reader_done_count = 0
  BY DEF Init, Registered, Reading
<1>2. Cardinality(Registered \ owed) = 0
  BY <1>1, FS_EmptySet
<1>3. QED
  BY <1>1, <1>2 DEF Init, RoundInv, RoundComplete, UsersWaitOutsideReading,
                    DoneNeverAhead

(* A step that changes no variable RoundInv speaks of, or only gives up    *)
(* quiet.                                                                  *)
LEMMA RoundFrame ==
    ASSUME RoundInv,
           UNCHANGED <<user, owed, locals, reader_done_count>>,
           quiet' => /\ quiet
                     /\ server_state' = server_state
                     /\ ~possible_lock_detected'
                     /\ sorter' \in {"compare", "reset", "reopen"}
                            => sorter' = sorter
    PROVE  RoundInv'
<1>1. Registered' = Registered /\ Reading' = Reading
  BY DEF Registered, Reading
<1>2. QED
  BY <1>1 DEF RoundInv, RoundComplete, UsersWaitOutsideReading, DoneNeverAhead, locals

(* The timer can disturb a round, and says so in quiet.                    *)
LEMMA TimerKeepsRound == Base /\ RoundInv /\ Timer => RoundInv'
<1> SUFFICES ASSUME Base, RoundInv, Timer PROVE RoundInv'
  OBVIOUS
<1>1. UNCHANGED <<user, owed, locals, reader_done_count, server_state, sorter>>
  BY DEF Timer, TimerWakes, TimerWakesWith, TimerSets, counters, history
<1>2. quiet' => quiet /\ ~possible_lock_detected'
  BY DEF Timer, TimerWakes, TimerWakesWith, TimerSets, history, RoundInv
<1>3. QED
  BY <1>1, <1>2, RoundFrame

(* What the sorter loads is not ahead of the users done.                   *)
LEMMA LoadKeepsRound ==
    ASSUME Base, RoundInv, LoadDoneCount
    PROVE  RoundInv'
<1>1. /\ UNCHANGED <<server_state, possible_lock_detected, user, owed, loaded,
                     reader_done_count, quiet>>
      /\ seen' = reader_done_count /\ sorter' = "compare"
  BY DEF LoadDoneCount, NotSorter, history, counters, flags
<1>2. Registered' = Registered /\ Reading' = Reading
  BY <1>1 DEF Registered, Reading
<1>3. QED
  BY <1>1, <1>2 DEF RoundInv, RoundComplete, UsersWaitOutsideReading, DoneNeverAhead

(* The sorter compares: if it saw as many done as are registered by now,   *)
(* all of them are done.                                                   *)
LEMMA ReadersDoneKeepsRound ==
    ASSUME Base, RoundInv, ReadersDone
    PROVE  RoundInv'
<1> USE DEF ReadersDone, ReadersDoneIf, NotSorter, history, counters
<1>1. /\ UNCHANGED <<server_state, possible_lock_detected, user, owed, loaded,
                     reader_done_count, quiet>>
      /\ sorter = "compare"
      /\ sorter' = IF seen >= reader_count \/ possible_lock_detected
                      THEN "reset" ELSE "wait_readers"
  BY DEF flags
<1>2. Registered' = Registered /\ Reading' = Reading
  BY <1>1 DEF Registered, Reading
<1>3. ASSUME quiet, sorter' = "reset" PROVE owed = {}
  <2>1. reader_count = Cardinality(Registered) /\ seen >= reader_count
    BY <1>1, <1>3 DEF Base, TypedAndExact, CountersExact, RoundInv
  <2>2. seen <= Cardinality(Registered \ owed)
    BY <1>1, <1>3 DEF RoundInv
  <2>3. /\ IsFiniteSet(Registered \ owed)
        /\ Cardinality(Registered \ owed) <= Cardinality(Registered)
        /\ Cardinality(Registered) = Cardinality(Registered \ owed)
              => Registered = Registered \ owed
    <3>1. Registered \ owed \in SUBSET Registered
      OBVIOUS
    <3>2. QED
      BY <3>1, ThreadsFinite, FS_Subset
  <2>4. Registered = Registered \ owed
    <3>1. /\ Cardinality(Registered \ owed) \in Nat
          /\ Cardinality(Registered) \in Nat
          /\ seen \in Nat
      BY <2>3, ThreadsFinite, FS_CardinalityType DEF Base, TypedAndExact, TypeOK
    <3>2. QED
      BY <2>1, <2>2, <2>3, <3>1
  <2>5. QED
    BY <2>4 DEF RoundInv
<1>4. QED
  BY <1>1, <1>2, <1>3 DEF RoundInv, RoundComplete, UsersWaitOutsideReading,
                          DoneNeverAhead

(* The sorter opens a round with every registered user owed.               *)
LEMMA SorterKeepsRound == Base /\ RoundInv /\ Sorter => RoundInv'
<1> SUFFICES ASSUME Base, RoundInv, Sorter PROVE RoundInv'
  OBVIOUS
<1>1. CASE SorterPolls \/ WritersOut
  BY <1>1, RoundFrame DEF SorterPolls, WritersOut, SorterPasses, NotSorter, history,
                          counters, flags, locals, RoundInv
<1>2. CASE SorterClearsLock \/ SorterClearsTimer
  BY <1>2, RoundFrame DEF SorterClearsLock, SorterClearsTo, SorterClearsTimer,
                          NotSorter, history, counters, flags, locals, RoundInv
<1>3. CASE SetSorting
  <2>1. UNCHANGED <<user, owed, loaded, reader_done_count, quiet,
                    possible_lock_detected>>
    BY <1>3 DEF SetSorting, NotSorter, counters, flags
  <2>2. server_state = "DONE" /\ server_state' = "SORTING" /\ sorter' = "wait_writers"
    BY <1>3 DEF SetSorting, Base, PhaseInv
  <2>3. Registered' = Registered /\ Reading' = Reading
    BY <2>1 DEF Registered, Reading
  <2>4. QED
    BY <2>1, <2>2, <2>3 DEF RoundInv, RoundComplete, UsersWaitOutsideReading,
                            DoneNeverAhead
<1>4. CASE OpenReading
  <2>1. /\ UNCHANGED <<user, loaded, reader_done_count, possible_lock_detected>>
        /\ owed' = Registered
        /\ server_state' = "READING" /\ sorter' = "wait_readers"
        /\ quiet' => /\ ~possible_lock_detected
                     /\ reader_done_count = 0
                     /\ Reading = {}
    BY <1>4 DEF OpenReading, NotSorter, counters, flags
  <2>2. Registered' = Registered /\ Reading' = Reading /\ Registered' \ owed' = {}
    BY <2>1 DEF Registered, Reading
  <2>3. Cardinality(Registered' \ owed') = 0
    BY <2>2, FS_EmptySet
  <2>4. \A u \in Users : user[u] = "store" => u \in Reading
    BY DEF Reading
  <2>5. QED
    BY <2>1, <2>2, <2>3, <2>4 DEF RoundInv, RoundComplete, UsersWaitOutsideReading,
                                  DoneNeverAhead
<1>5. CASE LoadDoneCount \/ ReadersDone
  BY <1>5, LoadKeepsRound, ReadersDoneKeepsRound
<1>6. CASE ResetReaderDoneCount
  <2>1. /\ UNCHANGED <<user, owed, loaded, quiet, server_state,
                       possible_lock_detected>>
        /\ reader_done_count' = 0
        /\ sorter = "reset" /\ sorter' = "reopen"
    BY <1>6 DEF ResetReaderDoneCount, NotSorter, history, flags
  <2>2. Registered' = Registered /\ Reading' = Reading
    BY <2>1 DEF Registered, Reading
  <2>3. Cardinality(Registered' \ owed') \in Nat
    <3>1. Registered \ owed \in SUBSET Registered
      OBVIOUS
    <3>2. QED
      BY <2>1, <2>2, <3>1, ThreadsFinite, FS_Subset, FS_CardinalityType
  <2>4. QED
    BY <2>1, <2>2, <2>3 DEF RoundInv, RoundComplete, UsersWaitOutsideReading,
                            DoneNeverAhead
<1>7. CASE SetDone
  <2>1. /\ UNCHANGED <<user, loaded, quiet, reader_done_count,
                       possible_lock_detected>>
        /\ owed' = {} /\ server_state' = "DONE"
        /\ sorter = "reopen" /\ sorter' = "poll" /\ server_state = "READING"
    BY <1>7 DEF SetDone, SetStateDone, NotSorter, counters, flags, Base, PhaseInv
  <2>2. Registered' = Registered /\ Reading' = Reading
    BY <2>1 DEF Registered, Reading
  <2>3. quiet => owed = {} /\ reader_done_count = 0
    BY <2>1 DEF RoundInv, RoundComplete
  <2>4. quiet => \A u \in Registered : user[u] = "hold"
    BY <2>1, <2>3 DEF RoundInv, Registered
  <2>5. quiet => Reading = {}
    BY <2>4 DEF Reading, Registered
  <2>6. Cardinality(Registered') \in Nat
    BY <2>2, ThreadsFinite
  <2>7. QED
    BY <2>1, <2>2, <2>3, <2>5, <2>6 DEF RoundInv, RoundComplete,
                                   UsersWaitOutsideReading, DoneNeverAhead
<1>8. QED
  BY <1>1, <1>2, <1>3, <1>4, <1>5, <1>6, <1>7 DEF Sorter

(* A user that moves with Registered, owed, and the counters as they were  *)
(* keeps RoundInv if it goes where an undisturbed round lets it go.        *)
LEMMA UserMoves ==
    ASSUME Base, RoundInv, NEW u \in Users, NEW place,
           user[u] # "absent", place # "absent", place # "store",
           user' = [user EXCEPT ![u] = place],
           UNCHANGED <<server_state, possible_lock_detected, sorter, owed, quiet,
                       locals, reader_done_count>>,
           quiet /\ place \in {"read", "send"}
               => server_state = "READING" /\ user[u] # "hold",
           quiet /\ user[u] = "hold" => server_state # "READING"
    PROVE  RoundInv'
<1> USE DEF Base, TypedAndExact, TypeOK, locals
<1>1. Registered' = Registered
  BY DEF Registered
<1>2. quiet /\ server_state # "READING" => Reading' = {}
  BY DEF Reading, RoundInv, UsersWaitOutsideReading
<1>3. quiet /\ server_state = "READING" =>
        \A v \in Users : /\ v \in Registered \ owed => user'[v] = "hold"
                        /\ user'[v] = "store" => user[v] = "store"
  BY DEF RoundInv, Registered
<1>4. QED
  BY <1>1, <1>2, <1>3 DEF RoundInv, RoundComplete, UsersWaitOutsideReading,
                          DoneNeverAhead

(* A user that registers is owed at once, or disturbs the round.           *)
LEMMA RegisterKeepsRound ==
    ASSUME Base, RoundInv, NEW u \in Users, RegisterUser(u)
    PROVE  RoundInv'
<1> USE DEF RegisterUser, RegisterUserCounting, UserPasses, NotUser, flags, Base,
            TypedAndExact, TypeOK
<1>1. u \notin Registered /\ Registered' = Registered \cup {u} /\ Reading' = Reading
  BY DEF Registered, Reading
<1>2. /\ owed' \subseteq Registered'
      /\ quiet' => quiet /\ sorter \notin {"reset", "reopen"}
      /\ quiet' /\ server_state = "READING" => owed' = owed \cup {u}
  BY <1>1 DEF RoundInv, PhaseInv
<1>3. quiet' /\ server_state = "READING" => Registered' \ owed' = Registered \ owed
  BY <1>1, <1>2 DEF RoundInv
<1>4. Cardinality(Registered' \ owed') \in Nat
  <2>1. Registered' \ owed' \in SUBSET Users
    BY DEF Registered
  <2>2. QED
    BY <2>1, UsersFinite, FS_Subset, FS_CardinalityType
<1>5. quiet' => reader_done_count' <= Cardinality(Registered' \ owed')
  BY <1>2, <1>3, <1>4 DEF RoundInv, DoneNeverAhead
<1>6. quiet' /\ sorter = "compare" => seen <= Cardinality(Registered' \ owed')
  BY <1>2, <1>3 DEF RoundInv, PhaseInv
<1>7. quiet' /\ server_state = "READING" =>
        \A v \in Users :
            /\ v \in Registered' \ owed' => user'[v] = "hold"
            /\ user'[v] = "store" => loaded[v] <= Cardinality(Registered' \ owed')
  BY <1>2, <1>3 DEF RoundInv, Registered
<1>8. UNCHANGED <<server_state, sorter, possible_lock_detected, locals,
                  reader_done_count>>
  BY DEF locals
<1>9. QED
  BY ONLY <1>1, <1>2, <1>5, <1>6, <1>7, <1>8, RoundInv
     DEF RoundInv, RoundComplete, UsersWaitOutsideReading, DoneNeverAhead, locals

(* A user that unregisters is owed nothing, and was not done.              *)
LEMMA DisconnectKeepsRound ==
    ASSUME Base, RoundInv, NEW u \in Users, ReadDisconnect(u)
    PROVE  RoundInv'
<1> USE DEF ReadDisconnect, UserPasses, NotUser, flags, Base, TypedAndExact, TypeOK
<1>1. /\ u \in Registered /\ Registered' = Registered \ {u}
      /\ Reading' = Reading \ {u}
      /\ owed' = owed \ {u}
  BY DEF Registered, Reading
<1>2. quiet => server_state = "READING" /\ u \in owed
  BY <1>1 DEF RoundInv, UsersWaitOutsideReading, Reading
<1>3. quiet => Registered' \ owed' = Registered \ owed
  BY <1>1, <1>2
<1>4. UNCHANGED <<server_state, sorter, possible_lock_detected, loaded, seen, quiet,
                  reader_done_count>>
  OBVIOUS
<1>5. \A v \in Users : v # u => user'[v] = user[v]
  OBVIOUS
<1>6. user'[u] = "absent"
  OBVIOUS
<1>7. QED
  BY ONLY <1>1, <1>2, <1>3, <1>4, <1>5, <1>6, RoundInv
     DEF RoundInv, RoundComplete, UsersWaitOutsideReading, DoneNeverAhead

(* The load of ++reader_done_count: what it loads is not ahead.            *)
LEMMA SendKeepsRound ==
    ASSUME Base, RoundInv, NEW u \in Users, SendEntries(u)
    PROVE  RoundInv'
<1> USE DEF SendEntries, UserPasses, NotUser, flags, history, Base, TypedAndExact, TypeOK
<1>1. Registered' = Registered /\ Reading' = Reading
  BY DEF Registered, Reading
<1>2. /\ user[u] = "send" /\ loaded'[u] = reader_done_count
      /\ \A v \in Users : v # u => user'[v] = user[v] /\ loaded'[v] = loaded[v]
      /\ user'[u] = "store"
  OBVIOUS
<1>3. UNCHANGED <<server_state, sorter, possible_lock_detected, owed, quiet, seen,
                  reader_done_count>>
  OBVIOUS
<1>4. quiet /\ server_state = "READING" => u \notin Registered \ owed
  BY <1>2 DEF RoundInv
<1>5. QED
  BY ONLY <1>1, <1>2, <1>3, <1>4, RoundInv
     DEF RoundInv, RoundComplete, UsersWaitOutsideReading, DoneNeverAhead

(* The store: one more user done, and at most one more counted.            *)
LEMMA StoreKeepsRound ==
    ASSUME Base, RoundInv, NEW u \in Users, StoreDone(u)
    PROVE  RoundInv'
<1> USE DEF StoreDone, UserPasses, NotUser, flags, Base, TypedAndExact, TypeOK
<1>1. /\ u \in Registered /\ Registered' = Registered
      /\ u \in Reading /\ Reading' = Reading \ {u}
      /\ owed' = owed \ {u}
  BY DEF Registered, Reading
<1>2. quiet => /\ server_state = "READING"
               /\ u \in owed
               /\ loaded[u] <= Cardinality(Registered \ owed)
               /\ sorter \in {"wait_readers", "compare"}
  BY <1>1 DEF RoundInv, RoundComplete, UsersWaitOutsideReading, Registered, Reading,
              PhaseInv
<1>3. IsFiniteSet(Registered \ owed) /\ Cardinality(Registered \ owed) \in Nat
  <2>1. Registered \ owed \in SUBSET Registered
    OBVIOUS
  <2>2. QED
    BY <2>1, ThreadsFinite, FS_Subset, FS_CardinalityType
<1>4. quiet => Cardinality(Registered' \ owed') = Cardinality(Registered \ owed) + 1
  <2>1. Cardinality((Registered \ owed) \cup {u}) =
          IF u \in Registered \ owed THEN Cardinality(Registered \ owed)
                                   ELSE Cardinality(Registered \ owed) + 1
    BY ONLY <1>3, FS_AddElement
  <2>2. ASSUME u \in owed
        PROVE  Registered' \ owed' = (Registered \ owed) \cup {u}
    BY <1>1, <2>2
  <2>3. QED
    BY <1>2, <2>1, <2>2
<1>5. loaded[u] \in Nat /\ reader_done_count' <= loaded[u] + 1
      /\ reader_done_count' \in Nat
  BY SaturateBound
<1>6. UNCHANGED <<server_state, sorter, possible_lock_detected, quiet, seen>>
  OBVIOUS
<1>7. /\ \A v \in Users : v # u => user'[v] = user[v] /\ loaded'[v] = loaded[v]
      /\ user'[u] = "hold"
  OBVIOUS
<1>8. quiet => reader_done_count' <= Cardinality(Registered' \ owed')
  BY <1>2, <1>3, <1>4, <1>5
<1>9. quiet /\ sorter = "compare" => seen <= Cardinality(Registered' \ owed')
  BY <1>2, <1>3, <1>4 DEF RoundInv, Base, TypedAndExact, TypeOK
<1>10. quiet => \A v \in Users : user'[v] = "store" =>
                     loaded'[v] <= Cardinality(Registered' \ owed')
  <2>1. ASSUME quiet, NEW v \in Users, user'[v] = "store"
        PROVE  loaded'[v] <= Cardinality(Registered' \ owed')
    <3>1. v # u /\ user[v] = "store" /\ loaded'[v] = loaded[v] /\ loaded[v] \in Nat
      BY <1>7, <2>1
    <3>2. loaded[v] <= Cardinality(Registered \ owed)
      BY <1>2, <2>1, <3>1 DEF RoundInv
    <3>3. QED
      BY <1>3, <1>4, <2>1, <3>1, <3>2
  <2>2. QED
    BY <2>1
<1>11. quiet => \A v \in Registered' \ owed' : user'[v] = "hold"
  BY <1>1, <1>2, <1>7 DEF RoundInv, Registered
<1>12. QED
  BY ONLY <1>1, <1>2, <1>6, <1>8, <1>9, <1>10, <1>11, RoundInv
     DEF RoundInv, RoundComplete, UsersWaitOutsideReading, DoneNeverAhead, Registered

(* Every step of a user thread keeps the round.                            *)
LEMMA UserKeepsRound ==
    ASSUME Base, RoundInv, NEW u \in Users,
           UserSteps(u)
    PROVE  RoundInv'
<1> USE DEF UserPasses, NotUser, flags, history, counters, locals, threads
<1>1. CASE SeeReading(u)
  BY <1>1, UserMoves DEF SeeReading, RoundInv
<1>2. CASE ReadCode(u)
  <2>1. quiet => server_state = "READING"
    BY <1>2 DEF ReadCode, RoundInv, UsersWaitOutsideReading, Reading
  <2>2. QED
    BY <1>2, <2>1, UserMoves DEF ReadCode
<1>3. CASE SeeReadingOver(u)
  BY <1>3, UserMoves DEF SeeReadingOver, RoundInv
<1>4. CASE BrokenPipe(u)
  BY <1>4 DEF BrokenPipe, RoundInv, RoundComplete, UsersWaitOutsideReading,
              DoneNeverAhead, Registered, Reading
<1>5. QED
  BY <1>1, <1>2, <1>3, <1>4, RegisterKeepsRound, DisconnectKeepsRound,
     SendKeepsRound, StoreKeepsRound DEF UserSteps, Answers

(* Every step keeps the round.                                             *)
LEMMA NextKeepsRound == Base /\ RoundInv /\ [Next]_vars => RoundInv'
<1> SUFFICES ASSUME Base, RoundInv, [Next]_vars PROVE RoundInv'
  OBVIOUS
<1>1. ASSUME UNCHANGED <<user, owed, locals, reader_done_count, quiet, server_state,
                         possible_lock_detected, sorter>>
      PROVE  RoundInv'
  BY <1>1, RoundFrame DEF RoundInv
<1>2. CASE UNCHANGED vars
  BY <1>1, <1>2 DEF vars, flags, counters, threads, locals, history
<1>3. CASE \E o \in Observers : HasEntry(o) \/ Adds(o)
  BY <1>1, <1>3 DEF HasEntry, Adds, PassGate, StartWrite, EndWrite, EndWriteCounting,
                    ObserverPasses, NotObserver, flags, history
<1>4. CASE Running
  BY <1>3, <1>4, TimerKeepsRound, SorterKeepsRound, UserKeepsRound
     DEF Running, UserSteps
<1>5. QED
  BY <1>2, <1>4 DEF Next, Terminated

(* The inductive invariant holds in every state.                           *)
THEOREM Inductive == Spec => []IndInv
<1>1. Init => Base /\ RoundInv
  BY InitTyped, InitPhase, InitRound DEF Base
<1>2. Base /\ RoundInv /\ [Next]_vars => (Base /\ RoundInv)'
  BY NextKeepsTypes, NextKeepsPhase, NextKeepsRound DEF Base
<1>3. Base /\ RoundInv => IndInv
  BY DEF Base, IndInv
<1>4. QED
  BY <1>1, <1>2, <1>3, PTL DEF Spec

(* An undisturbed round is not closed before every registered user has     *)
(* been served, in spite of the unlocked ++ on reader_done_count.          *)
THEOREM RoundsComplete == Spec => []RoundComplete
<1>1. IndInv => RoundComplete
  BY DEF IndInv, RoundInv
<1>2. QED
  BY <1>1, Inductive, PTL

(* Users keep out of the DONE and SORTING states, short of a disturbance.  *)
THEOREM UsersWait == Spec => []UsersWaitOutsideReading
<1>1. IndInv => UsersWaitOutsideReading
  BY DEF IndInv, RoundInv
<1>2. QED
  BY <1>1, Inductive, PTL

(* Done users are never over-counted in an undisturbed round.              *)
THEOREM DoneCountSound == Spec => []DoneNeverAhead
<1>1. IndInv => DoneNeverAhead
  BY DEF IndInv, RoundInv
<1>2. QED
  BY <1>1, Inductive, PTL

(* No user is sent the entries twice in an undisturbed round: who is at    *)
(* the point of sending is still owed.                                     *)
THEOREM SentOnce == Spec => SentOncePerRound
<1>1. IndInv => \A u \in Users : quiet /\ user[u] = "send" => u \in owed
  BY DEF IndInv, RoundInv, UsersWaitOutsideReading, Reading, Registered
<1>2. IndInv /\ [Next]_vars =>
        [\A u \in Users :
            quiet /\ user[u] = "send" /\ user'[u] = "store" => u \in owed]_vars
  BY <1>1
<1>3. QED
  BY <1>2, Inductive, PTL DEF Spec, SentOncePerRound
---------------------------------------------------------------------------
(* The refinement of Broadcast                                             *)

(* The users whose thread has sent and not yet counted: what the abstract  *)
(* state calls answered.                                                   *)
SentUncounted == {u \in Users : user[u] = "store"}

(* A step that moves no user in or out of the server, in or out of its     *)
(* answer, and leaves the round as it is, is a stutter of the broadcast.   *)
LEMMA BroadcastStutters ==
    ASSUME Registered' = Registered, SentUncounted' = SentUncounted,
           UNCHANGED <<owed, quiet>>,
           server_state' = "READING" <=> server_state = "READING"
    PROVE  UNCHANGED B!vars
BY DEF B!vars, SentUncounted

(* No round is open at the start, and nobody is there to be served.        *)
LEMMA InitBroadcast == Init => B!Init
BY DEF Init, B!Init, Registered

(* The timer disturbs a round, or changes nothing the broadcast knows of.  *)
LEMMA TimerBroadcasts == Base /\ RoundInv /\ Timer => [B!Next]_(B!vars)
<1> SUFFICES ASSUME Base, RoundInv, Timer PROVE [B!Next]_(B!vars)
  OBVIOUS
<1>1. UNCHANGED <<user, owed, server_state>>
  BY DEF Timer, TimerWakes, TimerWakesWith, TimerSets, counters, history
<1>2. Registered' = Registered /\ SentUncounted' = SentUncounted
  BY <1>1 DEF Registered, SentUncounted
<1>3. quiet' = quiet \/ quiet' = FALSE
  BY DEF Timer, TimerWakes, TimerWakesWith, TimerSets, history, Base, TypedAndExact,
         TypeOK
<1>4. CASE quiet' = quiet
  BY <1>1, <1>2, <1>4, BroadcastStutters
<1>5. CASE quiet' = FALSE
  BY <1>1, <1>2, <1>5 DEF B!Next, B!Disturb, SentUncounted
<1>6. QED
  BY <1>3, <1>4, <1>5

(* The sorter opens rounds and closes them, each on nobody still waiting   *)
(* unless the round is disturbed; its other steps do not show.             *)
LEMMA SorterBroadcasts == Base /\ RoundInv /\ Sorter => [B!Next]_(B!vars)
<1> SUFFICES ASSUME Base, RoundInv, Sorter PROVE [B!Next]_(B!vars)
  OBVIOUS
<1>1. user' = user
  BY DEF Sorter, SorterPolls, SorterClearsLock, SorterClearsTo, SorterClearsTimer,
         SetSorting, WritersOut, OpenReading, LoadDoneCount, ReadersDone,
         ReadersDoneIf, ResetReaderDoneCount, SetDone, SetStateDone,
         SorterPasses, NotSorter
<1>2. Registered' = Registered /\ SentUncounted' = SentUncounted
  BY <1>1 DEF Registered, SentUncounted
<1>3. CASE OpenReading
  <2>1. /\ server_state # "READING" /\ server_state' = "READING"
        /\ owed' = Registered
        /\ quiet' => Reading = {}
        /\ quiet' \in BOOLEAN
    BY <1>3 DEF OpenReading, Base, PhaseInv
  <2>2. quiet' => SentUncounted = {}
    BY <2>1 DEF SentUncounted, Reading
  <2>3. B!Open
    BY <1>2, <2>1, <2>2 DEF B!Open, SentUncounted
  <2>4. QED
    BY <2>3 DEF B!Next
<1>4. CASE SetDone
  <2>1. /\ server_state = "READING" /\ server_state' = "DONE"
        /\ owed' = {} /\ quiet' = quiet
        /\ quiet => owed = {}
    BY <1>4 DEF SetDone, SetStateDone, Base, PhaseInv, RoundInv, RoundComplete
  <2>2. B!Close
    BY <1>2, <2>1 DEF B!Close, SentUncounted
  <2>3. QED
    BY <2>2 DEF B!Next
<1>5. CASE SetSorting
  <2>1. server_state = "DONE" /\ server_state' = "SORTING"
        /\ UNCHANGED <<owed, quiet>>
    BY <1>5 DEF SetSorting, Base, PhaseInv
  <2>2. QED
    BY <1>2, <2>1, BroadcastStutters
<1>6. CASE \/ SorterPolls \/ SorterClearsLock \/ SorterClearsTimer
           \/ WritersOut \/ LoadDoneCount \/ ReadersDone
           \/ ResetReaderDoneCount
  <2>1. UNCHANGED <<owed, quiet, server_state>>
    BY <1>6 DEF SorterPolls, SorterClearsLock, SorterClearsTo, SorterClearsTimer,
                WritersOut, LoadDoneCount, ReadersDone, ReadersDoneIf,
                ResetReaderDoneCount, SorterPasses, history
  <2>2. QED
    BY <1>2, <2>1, BroadcastStutters
<1>7. QED
  BY <1>3, <1>4, <1>5, <1>6 DEF Sorter

(* A user that registers while a round is open is among those it will      *)
(* serve, or disturbs it.                                                  *)
LEMMA RegisterBroadcasts ==
    ASSUME Base, NEW u \in Users, RegisterUser(u)
    PROVE  B!Register(u)
<1> USE DEF RegisterUser, RegisterUserCounting, UserPasses, NotUser, Base,
            TypedAndExact, TypeOK
<1>1. u \notin Registered /\ Registered' = Registered \cup {u} /\ SentUncounted' = SentUncounted
  BY DEF Registered, SentUncounted
<1>2. server_state = "READING" <=> sorter \in {"wait_readers", "compare", "reset", "reopen"}
  BY DEF PhaseInv
<1>3. /\ owed' = IF sorter \in {"wait_readers", "compare"}
                    THEN owed \cup {u} ELSE owed
      /\ quiet' = (quiet /\ sorter \notin {"reset", "reopen"})
      /\ quiet \in BOOLEAN
      /\ server_state' = server_state
  OBVIOUS
<1>4. QED
  BY ONLY <1>1, <1>2, <1>3 DEF B!Register, SentUncounted

(* A user that unregisters was not being counted as done.                  *)
LEMMA DisconnectBroadcasts ==
    ASSUME Base, NEW u \in Users, ReadDisconnect(u)
    PROVE  B!Leave(u)
<1> USE DEF ReadDisconnect, UserPasses, NotUser, Base, TypedAndExact, TypeOK
<1>1. /\ u \in Registered \ SentUncounted
      /\ Registered' = Registered \ {u} /\ SentUncounted' = SentUncounted
  BY DEF Registered, SentUncounted
<1>2. owed' = owed \ {u} /\ UNCHANGED <<quiet, server_state>>
  OBVIOUS
<1>3. QED
  BY ONLY <1>1, <1>2 DEF B!Leave, SentUncounted

(* In an undisturbed round the entries go to a user that is still waiting  *)
(* for them.                                                               *)
LEMMA SendBroadcasts ==
    ASSUME Base, RoundInv, NEW u \in Users, SendEntries(u)
    PROVE  B!Send(u)
<1> USE DEF SendEntries, UserPasses, NotUser, history, Base, TypedAndExact, TypeOK
<1>1. /\ Registered' = Registered /\ SentUncounted' = SentUncounted \cup {u}
      /\ UNCHANGED <<owed, quiet, server_state>>
  BY DEF Registered, SentUncounted
<1>2. quiet => server_state = "READING" /\ u \in owed
  BY DEF RoundInv, UsersWaitOutsideReading, Reading, Registered
<1>3. QED
  BY ONLY <1>1, <1>2 DEF B!Send, SentUncounted

(* The store of the count is the moment a user is served.                  *)
LEMMA StoreBroadcasts ==
    ASSUME Base, NEW u \in Users, StoreDone(u)
    PROVE  B!Serve(u)
<1> USE DEF StoreDone, UserPasses, NotUser, Base, TypedAndExact, TypeOK
<1>1. /\ u \in SentUncounted /\ SentUncounted' = SentUncounted \ {u}
      /\ Registered' = Registered
      /\ owed' = owed \ {u} /\ UNCHANGED <<quiet, server_state>>
  BY DEF Registered, SentUncounted
<1>2. QED
  BY ONLY <1>1 DEF B!Serve, SentUncounted

(* Every step of the server is a step of the broadcast, or does not show.  *)
LEMMA NextBroadcasts == Base /\ RoundInv /\ [Next]_vars => [B!Next]_(B!vars)
<1> SUFFICES ASSUME Base, RoundInv, [Next]_vars PROVE [B!Next]_(B!vars)
  OBVIOUS
<1>1. ASSUME UNCHANGED <<user, owed, quiet, server_state>> PROVE UNCHANGED B!vars
  BY <1>1, BroadcastStutters DEF Registered, SentUncounted
<1>2. CASE UNCHANGED vars
  BY <1>1, <1>2 DEF vars, threads, history
<1>3. CASE \E o \in Observers : HasEntry(o) \/ Adds(o)
  BY <1>1, <1>3 DEF HasEntry, Adds, PassGate, StartWrite, EndWrite, EndWriteCounting,
                    ObserverPasses, NotObserver, history
<1>4. CASE \E u \in Users : BrokenPipe(u)
  BY <1>1, <1>4 DEF BrokenPipe, threads, history
<1>5. ASSUME NEW u \in Users, SeeReading(u) \/ ReadCode(u) \/ SeeReadingOver(u)
      PROVE  UNCHANGED B!vars
  <2>1. /\ UNCHANGED <<owed, quiet, server_state>>
        /\ user[u] \notin {"absent", "store"}
        /\ \E place \in {"read", "send", "await"} :
              user' = [user EXCEPT ![u] = place]
    BY <1>5 DEF SeeReading, ReadCode, SeeReadingOver, UserPasses, NotUser,
                history
  <2>2. user \in [Users -> {"absent", "await", "read", "send", "store", "hold"}]
    BY DEF Base, TypedAndExact, TypeOK
  <2>3. Registered' = Registered /\ SentUncounted' = SentUncounted
    BY <2>1, <2>2 DEF Registered, SentUncounted
  <2>4. QED
    BY <2>1, <2>3, BroadcastStutters
<1>6. CASE \E u \in Users : \/ RegisterUser(u) \/ ReadDisconnect(u)
                           \/ SendEntries(u) \/ StoreDone(u)
  BY <1>6, RegisterBroadcasts, DisconnectBroadcasts, SendBroadcasts, StoreBroadcasts
     DEF B!Next
<1>7. CASE Running
  BY <1>3, <1>4, <1>5, <1>6, <1>7, TimerBroadcasts, SorterBroadcasts
     DEF Running, Answers
<1>8. QED
  BY <1>2, <1>7 DEF Next, Terminated

(* The server implements the broadcast, for any number of users and        *)
(* observers: every user of an undisturbed round is sent the entries,      *)
(* before it closes, and none of them twice.                               *)
THEOREM BroadcastImplemented == Spec => ImplementsBroadcast
<1>1. Init => Base /\ RoundInv
  BY InitTyped, InitPhase, InitRound DEF Base
<1>2. Base /\ RoundInv /\ [Next]_vars => (Base /\ RoundInv)'
  BY NextKeepsTypes, NextKeepsPhase, NextKeepsRound DEF Base
<1>3. Base /\ RoundInv /\ [Next]_vars => [B!Next]_(B!vars)
  BY NextBroadcasts
<1>4. QED
  BY <1>1, <1>2, <1>3, InitBroadcast, PTL DEF Spec, ImplementsBroadcast, B!Spec

==========================================================================
