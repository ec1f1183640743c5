------------------------- MODULE TrafficEnforcer -------------------------
(***************************************************************************)
(* The phase machine of the notapp server: server_data.c's flags and       *)
(* counters, and the four kinds of threads of server.c that turn on them:  *)
(* server_timer, output_sorter (the "traffic enforcer"), one               *)
(* observer_thread per observer client and one user_thread per user        *)
(* client.  One action is one access to shared memory that another thread  *)
(* can tell apart.  The entries themselves are in EntryArray; the sockets, *)
(* and which of them each user_thread was handed, in UserSession: here a   *)
(* read() may return anything, at any time or never.                       *)
(***************************************************************************)
EXTENDS Integers, FiniteSets

CONSTANTS
    Users,      \* the user clients, each served by a user_thread
    Observers   \* the observer clients, each served by an observer_thread

ASSUME UsersFinite == IsFiniteSet(Users)
ASSUME ObserversFinite == IsFiniteSet(Observers)

VARIABLES
    (* server_data.c *)
    server_state,
    timer_expired,
    possible_lock_detected,
    timer_expired_mutex,    \* who holds it, or "free"
    writer_count,
    reader_count,
    reader_done_count,      \* saturates at |Users|, see Saturate
    (* where each thread is *)
    timer, sorter, observer, user,
    loaded,                 \* per user: reader_done_count as ++ loaded it
    seen,                   \* reader_done_count as are_readers_done() did
    up,                     \* the process is alive
    (* history: read by no guard *)
    ticks,                  \* intervals that ended since the sorter took one
    barred,                 \* observers caught writing when SORTING was set
    owed,                   \* users the open round has yet to serve
    quiet                   \* the open round is one the breaker, or a late
                            \* registration, has not disturbed

flags    == <<timer_expired, possible_lock_detected, timer_expired_mutex>>
counters == <<writer_count, reader_count, reader_done_count>>
threads  == <<timer, sorter, observer, user>>
history  == <<ticks, barred, owed, quiet>>
locals   == <<loaded, seen>>
vars     == <<server_state, flags, counters, threads, locals, up, history>>

Registered == {u \in Users : user[u] # "absent"}
Reading    == {u \in Users : user[u] \in {"read", "send", "store"}}
Writing    == {o \in Observers : observer[o] = "write"}

(* reader_done_count is only ever compared with reader_count, which never  *)
(* exceeds |Users|, so counting beyond |Users| cannot be told apart.       *)
Saturate(n) == IF n > Cardinality(Users) THEN Cardinality(Users) ELSE n

Init ==
    /\ server_state = "DONE"
    /\ timer_expired = FALSE
    /\ possible_lock_detected = FALSE
    /\ timer_expired_mutex = "free"
    /\ writer_count = 0
    /\ reader_count = 0
    /\ reader_done_count = 0
    /\ timer = "sleep"
    /\ sorter = "poll"
    /\ observer = [o \in Observers |-> "idle"]
    /\ user = [u \in Users |-> "absent"]
    /\ loaded = [u \in Users |-> 0]
    /\ seen = 0
    /\ up = TRUE
    /\ ticks = 0
    /\ barred = {}
    /\ owed = {}
    /\ quiet = TRUE

---------------------------------------------------------------------------
(* server_timer: nanosleep, then set_timer_expired(true), in two steps:    *)
(* the lock with the first assignment, and the second with the unlock.     *)

TimerWakesWith(locked) ==
    /\ timer = "sleep" /\ timer' = "set"
    /\ timer_expired_mutex = "free" /\ timer_expired_mutex' = "timer"
    /\ possible_lock_detected' = locked
    /\ ticks' = IF ticks = 2 THEN 2 ELSE ticks + 1
    /\ quiet' = (quiet /\ ~timer_expired)
    /\ UNCHANGED <<server_state, timer_expired, counters, sorter, observer,
                   user, locals, up, barred, owed>>

(* Mutant: the test of the previous status is lost.                        *)
TimerNeverFindsLock == TimerWakesWith(FALSE)

TimerWakes == TimerWakesWith(timer_expired)

TimerSets ==
    /\ timer = "set" /\ timer' = "sleep"
    /\ timer_expired' = TRUE
    /\ timer_expired_mutex' = "free"
    /\ UNCHANGED <<server_state, possible_lock_detected, counters, sorter,
                   observer, user, locals, up, history>>

Timer == TimerWakes \/ TimerSets

---------------------------------------------------------------------------
(* output_sorter.  Every waiting loop of the sorter, and of the users,     *)
(* ends on is_locked().                                                    *)

NotSorter == <<timer, observer, user, loaded, up>>

SorterPasses(from, to) ==
    /\ sorter = from /\ sorter' = to
    /\ UNCHANGED <<server_state, flags, counters, seen, history, NotSorter>>

SorterPolls == timer_expired /\ SorterPasses("poll", "clear")

SorterClearsTo(locked) ==
    /\ sorter = "clear" /\ sorter' = "cleared"
    /\ timer_expired_mutex = "free" /\ timer_expired_mutex' = "sorter"
    /\ possible_lock_detected' = locked
    /\ UNCHANGED <<server_state, timer_expired, counters, seen, history, NotSorter>>

(* Mutant: set_timer_expired(false) leaves the lock flag.                  *)
SorterLeavesLock == SorterClearsTo(possible_lock_detected)

(* set_timer_expired(false), the lock and the first assignment.            *)
SorterClearsLock == SorterClearsTo(FALSE)

SorterClearsTimer ==
    /\ sorter = "cleared" /\ sorter' = "wait_done"
    /\ timer_expired' = FALSE
    /\ timer_expired_mutex' = "free"
    /\ ticks' = 0
    /\ UNCHANGED <<server_state, possible_lock_detected, counters, seen, barred,
                   owed, quiet, NotSorter>>

SetSorting ==
    /\ sorter = "wait_done" /\ sorter' = "wait_writers"
    /\ server_state = "DONE" \/ possible_lock_detected
    /\ server_state' = "SORTING"
    /\ barred' = Writing
    /\ UNCHANGED <<flags, counters, seen, ticks, owed, quiet, NotSorter>>

(* Mutant: the sorter does not wait for the writers.                       *)
WritersNotAwaited == SorterPasses("wait_writers", "sort")

WritersOut ==
    /\ writer_count = 0 \/ possible_lock_detected
    /\ SorterPasses("wait_writers", "sort")

(* sort_entry_array() is over: the cut off for readers to join.            *)
OpenReading ==
    /\ sorter = "sort" /\ sorter' = "wait_readers"
    /\ server_state' = "READING"
    /\ owed' = Registered
    /\ quiet' = /\ ~possible_lock_detected
                /\ reader_done_count = 0
                /\ Reading = {}
    /\ UNCHANGED <<flags, counters, seen, ticks, barred, NotSorter>>

(* are_readers_done() loads reader_done_count, and then reader_count: what *)
(* it saw may be out of date, as users register, leave and count meanwhile.*)
LoadDoneCount ==
    /\ sorter = "wait_readers" /\ sorter' = "compare"
    /\ seen' = reader_done_count
    /\ UNCHANGED <<server_state, flags, counters, history, NotSorter>>

ReadersDoneIf(done) ==
    /\ sorter = "compare" /\ sorter' = IF done THEN "reset" ELSE "wait_readers"
    /\ seen' = 0
    /\ UNCHANGED <<server_state, flags, counters, history, NotSorter>>

(* Mutant: off by one in are_readers_done().                               *)
ReadersDoneEarly ==
    ReadersDoneIf(seen + 1 >= reader_count \/ possible_lock_detected)

(* Mutant: the loop does not watch is_locked().                            *)
ReadersDoneUnbroken == ReadersDoneIf(seen >= reader_count)

ReadersDone == ReadersDoneIf(seen >= reader_count \/ possible_lock_detected)

(* Mutant: the counter is not reset.                                       *)
ReaderDoneCountKept == SorterPasses("reset", "reopen")

ResetReaderDoneCount ==
    /\ sorter = "reset" /\ sorter' = "reopen"
    /\ reader_done_count' = 0
    /\ UNCHANGED <<server_state, flags, writer_count, reader_count, seen, history,
                   NotSorter>>

SetStateDone(state) ==
    /\ sorter = "reopen" /\ sorter' = "poll"
    /\ server_state' = state
    /\ owed' = {}
    /\ UNCHANGED <<flags, counters, seen, ticks, barred, quiet, NotSorter>>

(* Mutant: a round that the breaker ended does not reopen the gate.        *)
SetDoneUnlessLocked ==
    SetStateDone(IF possible_lock_detected THEN server_state ELSE "DONE")

SetDone == SetStateDone("DONE")

Sorter ==
    \/ SorterPolls \/ SorterClearsLock \/ SorterClearsTimer
    \/ SetSorting \/ WritersOut \/ OpenReading
    \/ LoadDoneCount \/ ReadersDone \/ ResetReaderDoneCount \/ SetDone

---------------------------------------------------------------------------
(* observer_thread, as far as add_entry() is concerned                     *)

NotObserver == <<server_state, flags, reader_count, reader_done_count, timer,
                 sorter, user, locals, up>>

ObserverPasses(o, from, to) ==
    /\ observer[o] = from /\ observer' = [observer EXCEPT ![o] = to]
    /\ UNCHANGED NotObserver

(* A message has been read (or the thread has registered): it has an entry *)
(* to add.                                                                 *)
HasEntry(o) ==
    /\ ObserverPasses(o, "idle", "gate")
    /\ UNCHANGED <<writer_count, history>>

(* The spin on get_server_state() != DONE ends.  It has no is_locked().    *)
PassGate(o) ==
    /\ server_state = "DONE"
    /\ ObserverPasses(o, "gate", "enter")
    /\ UNCHANGED <<writer_count, history>>

(* ++writer_count, a step of its own: the state may have changed since.    *)
StartWrite(o) ==
    /\ ObserverPasses(o, "enter", "write")
    /\ writer_count' = writer_count + 1
    /\ UNCHANGED history

EndWriteCounting(o, n) ==
    /\ ObserverPasses(o, "write", "idle")
    /\ writer_count' = writer_count - n
    /\ barred' = barred \ {o}
    /\ UNCHANGED <<ticks, owed, quiet>>

(* Mutant: --writer_count is forgotten.                                    *)
EndWriteUncounted(o) == EndWriteCounting(o, 0)

EndWrite(o) == EndWriteCounting(o, 1)

Adds(o) == PassGate(o) \/ StartWrite(o) \/ EndWrite(o)

---------------------------------------------------------------------------
(* user_thread                                                             *)

NotUser == <<server_state, flags, writer_count, timer, sorter, observer, seen>>

UserPasses(u, from, to) ==
    /\ user[u] = from /\ user' = [user EXCEPT ![u] = to]
    /\ UNCHANGED NotUser

RegisterUserCounting(u, n) ==
    /\ UserPasses(u, "absent", "await")
    /\ reader_count' = reader_count + n
    /\ owed' = IF sorter \in {"wait_readers", "compare"} THEN owed \cup {u} ELSE owed
    /\ quiet' = (quiet /\ sorter \notin {"reset", "reopen"})
    /\ UNCHANGED <<reader_done_count, loaded, up, ticks, barred>>

(* Mutant: ++reader_count is forgotten.                                    *)
RegisterUserUncounted(u) == RegisterUserCounting(u, 0)

(* The thread of a user client runs register_user().                       *)
RegisterUser(u) == RegisterUserCounting(u, 1)

(* Mutant: users are let in while the sorter sorts.                        *)
SeeSorting(u) ==
    /\ server_state # "DONE" \/ possible_lock_detected
    /\ UserPasses(u, "await", "read")
    /\ UNCHANGED <<reader_count, reader_done_count, loaded, up, history>>

SeeReading(u) ==
    /\ server_state = "READING" \/ possible_lock_detected
    /\ UserPasses(u, "await", "read")
    /\ UNCHANGED <<reader_count, reader_done_count, loaded, up, history>>

(* read() returns what the thread takes for a code.  (So is -1: it does    *)
(* not test for it, and goes on with the code it last read.)               *)
ReadCode(u) ==
    /\ UserPasses(u, "read", "send")
    /\ UNCHANGED <<reader_count, reader_done_count, loaded, up, history>>

(* read() returns DISCONNECT_CODE, or 0: unregister_user().                *)
ReadDisconnect(u) ==
    /\ UserPasses(u, "read", "absent")
    /\ reader_count' = reader_count - 1
    /\ owed' = owed \ {u}
    /\ UNCHANGED <<reader_done_count, loaded, up, ticks, barred, quiet>>

(* send_entries() has sent everything and loads reader_done_count for ++.  *)
SendEntries(u) ==
    /\ UserPasses(u, "send", "store")
    /\ loaded' = [loaded EXCEPT ![u] = reader_done_count]
    /\ UNCHANGED <<reader_count, reader_done_count, up, history>>

(* A send() to a client that closed its socket raises SIGPIPE, which       *)
(* nothing in the server ignores or handles: the process is terminated.    *)
BrokenPipe(u) ==
    /\ user[u] = "send"
    /\ up' = FALSE
    /\ UNCHANGED <<server_state, flags, counters, threads, locals, history>>

(* The store of ++reader_done_count, which no mutex protects.              *)
StoreDone(u) ==
    /\ UserPasses(u, "store", "hold")
    /\ reader_done_count' = Saturate(loaded[u] + 1)
    /\ loaded' = [loaded EXCEPT ![u] = 0]
    /\ owed' = owed \ {u}
    /\ UNCHANGED <<reader_count, up, ticks, barred, quiet>>

(* Mutant: the second waiting loop is dropped.                             *)
HoldSkipped(u) ==
    /\ UserPasses(u, "hold", "await")
    /\ UNCHANGED <<reader_count, reader_done_count, loaded, up, history>>

SeeReadingOver(u) ==
    /\ server_state # "READING" \/ possible_lock_detected
    /\ UserPasses(u, "hold", "await")
    /\ UNCHANGED <<reader_count, reader_done_count, loaded, up, history>>

Answers(u) == SendEntries(u) \/ BrokenPipe(u) \/ StoreDone(u)

---------------------------------------------------------------------------
Terminated == ~up /\ UNCHANGED vars

Running ==
    /\ up
    /\ \/ Timer
       \/ Sorter
       \/ \E o \in Observers : HasEntry(o) \/ Adds(o)
       \/ \E u \in Users : \/ RegisterUser(u) \/ SeeReading(u)
                           \/ ReadCode(u) \/ ReadDisconnect(u) \/ Answers(u)
                           \/ SeeReadingOver(u)

Next == Running \/ Terminated

Spec == Init /\ [][Next]_vars

(* Threads that are neither asleep nor polling run.  A polling loop yields *)
(* and looks again, and a phase lasts far longer than a look: a test that  *)
(* is true again and again is seen to be true (strong fairness).  So is a  *)
(* mutex that the timer holds for two assignments in every interval.       *)
(* Nothing is assumed of the clients: a read() need never return.          *)
Fairness ==
    /\ WF_vars(up /\ Timer)
    /\ WF_vars(up /\ Sorter)
    /\ SF_vars(up /\ SorterClearsLock)
    /\ \A o \in Observers : /\ SF_vars(up /\ PassGate(o))
                            /\ WF_vars(up /\ (StartWrite(o) \/ EndWrite(o)))
    /\ \A u \in Users : /\ SF_vars(up /\ (SeeReading(u) \/ SeeReadingOver(u)))
                        /\ WF_vars(up /\ Answers(u))

FairSpec == Spec /\ Fairness
---------------------------------------------------------------------------
(* PROPERTIES *)

(* Every variable has its type. *)
TypeOK ==
    /\ server_state \in {"DONE", "SORTING", "READING"}
    /\ timer_expired \in BOOLEAN
    /\ possible_lock_detected \in BOOLEAN
    /\ timer_expired_mutex \in {"free", "timer", "sorter"}
    /\ writer_count \in Nat
    /\ reader_count \in Nat
    /\ reader_done_count \in Nat
    /\ timer \in {"sleep", "set"}
    /\ sorter \in {"poll", "clear", "cleared", "wait_done", "wait_writers",
                   "sort", "wait_readers", "compare", "reset", "reopen"}
    /\ observer \in [Observers -> {"idle", "gate", "enter", "write"}]
    /\ user \in [Users -> {"absent", "await", "read", "send", "store", "hold"}]
    /\ loaded \in [Users -> Nat]
    /\ seen \in Nat
    /\ up \in BOOLEAN
    /\ ticks \in 0..2
    /\ barred \in SUBSET Observers
    /\ owed \in SUBSET Users
    /\ quiet \in BOOLEAN

(* The two counters the sorter waits on count the threads they stand for:  *)
(* the observers inside add_entry()'s write and the registered users.      *)
CountersExact ==
    /\ writer_count = Cardinality(Writing)
    /\ reader_count = Cardinality(Registered)

(* The breaker leaves the sorter a full interval: is_locked() is true only *)
(* if the timer has gone off twice since the sorter last took a tick,      *)
(* wherever set_timer_expired() of the one interleaves with the other's    *)
(* and with the unlocked reads (server.c:250-254).                         *)
BreakerWaits == possible_lock_detected => ticks = 2 /\ timer_expired

(* Unless the breaker fired, no observer that was writing when the server  *)
(* entered SORTING is still in the same write when the sorter starts to    *)
(* sort, nor for the rest of that round (server.c:221-223).                *)
BarredWritersOut ==
    sorter \in {"sort", "wait_readers", "compare", "reset", "reopen"}
        => barred = {} \/ ticks = 2

(* A round that neither the breaker nor a late registration disturbed has  *)
(* served every registered user before it is closed, although the users    *)
(* count themselves done without a mutex (server.c:242-247).               *)
RoundComplete ==
    quiet /\ sorter \in {"reset", "reopen"} => owed = {}

(* Outside READING no user thread is reading its code, sending entries or  *)
(* counting itself done, as long as nothing disturbed the last round       *)
(* (server.c:219, 224, 229).                                               *)
UsersWaitOutsideReading ==
    quiet /\ server_state # "READING" => Reading = {}

(* In an undisturbed round done users are never over-counted: the counter  *)
(* may lag, after two ++ lose one, but it is never ahead of the users done *)
(* and is back at zero when users may next be counted.                     *)
DoneNeverAhead ==
    quiet => /\ reader_done_count <= Cardinality(Registered \ owed)
             /\ server_state # "READING" => reader_done_count = 0

(* The inductive invariant behind the properties above.  First, what the   *)
(* sorter's and the timer's places say of the state, the mutex and ticks.  *)
PhaseInv ==
    /\ server_state = CASE sorter \in {"wait_writers", "sort"} -> "SORTING"
                         [] sorter \in {"wait_readers", "compare", "reset", "reopen"} -> "READING"
                         [] OTHER -> "DONE"
    /\ timer = "set" <=> timer_expired_mutex = "timer"
    /\ sorter = "cleared" <=> timer_expired_mutex = "sorter"
    /\ sorter = "cleared" => ~possible_lock_detected
    /\ timer = "sleep" => (timer_expired <=> ticks # 0)
    /\ timer = "set" => ticks = IF timer_expired THEN 2 ELSE 1
    /\ BreakerWaits
    /\ barred \subseteq Writing
    /\ BarredWritersOut

(* Second, who may be where in an undisturbed round: users owed nothing    *)
(* are held, and a ++ under way will not count more users than are done.   *)
RoundInv ==
    /\ owed \subseteq Registered
    /\ RoundComplete
    /\ UsersWaitOutsideReading
    /\ DoneNeverAhead
    /\ quiet =>
          /\ ~possible_lock_detected
          /\ sorter = "reopen" => reader_done_count = 0
          /\ sorter = "compare" => seen <= Cardinality(Registered \ owed)
          /\ server_state = "READING" =>
                \A u \in Users :
                    /\ u \in Registered \ owed => user[u] = "hold"
                    /\ user[u] = "store"
                          => loaded[u] <= Cardinality(Registered \ owed)

IndInv == PhaseInv /\ RoundInv

(* A user is sent the entries at most once in an undisturbed round: a user *)
(* already served is held until the round is over, however fast its client *)
(* asks again (server.c:238-239).                                          *)
SentOncePerRound ==
    [][\A u \in Users :
          quiet /\ user[u] = "send" /\ user'[u] = "store" => u \in owed]_vars

(* The four kinds of threads together implement the broadcast the server   *)
(* promises (server.c:167-173), with all users of an undisturbed round     *)
(* served, and none of them twice.                                         *)
B == INSTANCE Broadcast WITH
        registered <- Registered,
        open       <- server_state = "READING",
        waiting    <- owed,
        answered   <- {u \in Users : user[u] = "store"},
        disturbed  <- ~quiet

ImplementsBroadcast == B!Spec

(* However silent, slow or gone the clients are, every round comes to its  *)
(* end (the breaker's purpose, server.c:250-254).                          *)
RoundEnds ==
    server_state # "DONE" ~> server_state = "DONE" \/ ~up

(* The sorter takes every tick: no tick leaves the server stuck.           *)
TickTaken == timer_expired ~> ~timer_expired \/ ~up

(* An observer with an entry to add gets to write it, though its spin on   *)
(* the state does not watch the breaker.                                   *)
EntryWritten ==
    \A o \in Observers : observer[o] = "gate" ~> observer[o] = "write" \/ ~up

(* What the comments claim and the code does not keep, each shown by a run *)

(* "All observer threads are barred from writing" from the moment the      *)
(* server enters SORTING (server.c:222, 227): the sorter never sorts while *)
(* an observer writes, the breaker aside.                                  *)
NoWriteWhileSorting == sorter = "sort" /\ ticks < 2 => Writing = {}

(* "Output sorter waits for all registered user clients to finish their    *)
(* job" (server.c:244): a round is not closed on a user that was           *)
(* registered when the sorter cut off the readers, or that joined before   *)
(* the sorter saw the readers done.  The run looks at behaviours in which  *)
(* the breaker never fires.                                                *)
AllUsersServed == sorter = "reset" => owed = {}

==========================================================================
