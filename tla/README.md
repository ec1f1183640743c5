# C380-1Code: a TLA+ model of the notapp server, valws379 and memlayout

The repository holds three independent C programs:

* `Assignment02` - **notapp**: a daemon to which *observer clients* send inotify
  events and from which *user clients* are periodically sent the latest entry of
  every observer. It is multi-threaded, with hand-made synchronisation, and is
  the core of this project.
* `Assignment03` - **valws379**: reads a memory trace and prints, after every
  reference, how many distinct pages the last `windowsize` references touched.
* `Assignment01` - **memlayout**: scans the process's own address space by
  probing every page and catching the faults.

This directory is their verification project: TLA+ modules, the TLC
configurations that check them on small instances, and TLAPS proofs for
instances of any size. All names in the modules are those of the C code where
TLA+ allows it, and `PROJECT.json` maps every definition to its lines.

## 1. Inventory

### notapp

| component | state | operations | interacts through |
|---|---|---|---|
| `server_timer` (server.c:318) | - | sleep, `set_timer_expired(true)` | `timer_expired`, `possible_lock_detected` |
| `output_sorter` (server.c:259) | its place in the round | take a tick, DONE -> SORTING -> READING -> DONE | `server_state`, `writer_count`, `reader_done_count` |
| `observer_thread`, one per observer (server.c:71) | slot index, the entry | register, blank its slot, read events, `add_entry`, unregister | the entry array, `writer_count`, its socket |
| `user_thread`, one per user (server.c:180) | last code read | register, wait for READING, read a code, `send_entries`, wait for READING to end, unregister | `reader_count`, `reader_done_count`, its socket |
| server data (server_data.c) | flags, counters, `entry_array` | the functions above | shared memory; only some accesses are under a mutex |
| accept loop (server.c:443) | `new_socket` | accept, read the identity, start a thread | passes `&new_socket` to the thread; waits for each client's identity |
| observer client (observer_client.c) | inotify descriptor, socket | send header and name of every event; on SIGINT a disconnect message | socket |
| user client (user_client.c) | socket | send a code, read count and strings, again; on SIGINT `DISCONNECT_CODE` | socket |
| auto kill (notapp_base.c:121) | `is_dormant` | raise SIGINT after a silent minute | SIGINT in its own process |
| argument parser (argparser.c) | - | argv to `notapp_args` | - |

What is hard here: the phases are a hand-made readers/writers protocol in which
the test of the phase, the counting and the work are separate steps; a *breaker*
ends every waiting loop when the timer goes off twice without the sorter taking
the first tick; counters are updated without a mutex; clients leave in any
phase, in two ways; sorting moves the slots the observers hold indices of, while
others are being registered; the accept loop shares one `new_socket` with all
the threads it starts; names are copied to buffers they may not fit; a client
interrupted between two sends says goodbye where something else is read; and an
answer is a stream of pieces whose number is read anew, from a count that other
threads change, before each of them.

What makes it correct: writers and the sorter keep out of each other's way, a
round serves every registered user once and always ends, the counters count
what they stand for, an observer's entry is its own, and it is the event the
client sent, and a user client stays in step with its thread and is answered.

### valws379

| component | state | operations |
|---|---|---|
| window set (windowset.c) | page and window size | `window_set_insert`, `get_window_set_size` |
| queue (queue.c) | linked references | `enqueue`, `dequeue` |
| hash table (hashtable.c) | buckets, counts, nested tables | `put`, `delete`; a list that grows too long becomes a table, a table that gets too small a list |
| list (linkedlist.c) | nodes, count | `sll_add`, `sll_remove`, `sll_put_key_value`, `sll_pop` |
| main, base | - | parse the trace, insert each reference, print the size |

Sequential; what is hard is the long sequences of references that split, merge
and split again, where each level keeps a count of what is below it. It is
correct if the size is the number of distinct pages in the window.

### memlayout

`get_mem_layout` walks all pages; `handle_signal` catches the fault of a
forbidden probe, gives up its own disposition and jumps back. It is correct if
it survives its faults, ends (the loop's bound is never reached: the address
wraps), and lists the maximal regions of equal accessibility.

## 2. Modules

| module | models | checked by |
|---|---|---|
| `Broadcast` | abstract: the rounds in which users are sent the entries | as a property of `TrafficEnforcer` |
| `TrafficEnforcer` | the phase machine: timer, sorter, observer and user threads; refines `Broadcast` | `MCTrafficEnforcer` |
| `TrafficEnforcerProofs` | theorems about it | tlapm |
| `UserSession` | user clients, their connections, how threads are handed them, answers and `auto_kill`, piece by piece, composed with the whole phase machine, which it refines | `MCUserSession` |
| `UserSessionProofs` | theorems about it | tlapm |
| `EntryArray` | slots: registration, entries, sort, log | `MCEntryArray` |
| `EntryArrayProofs` | theorems about it | tlapm |
| `Delivery` | abstract: the events of observer clients become entries | as a property of `Session` |
| `Session` | observer clients, accept loop, observer threads, send by send and read by read; refines `Delivery` | `MCSession` |
| `SessionProofs` | theorems about it | tlapm |
| `HashTable` | the table and its lists, as operators on a table value | through `WindowSet` |
| `Queue` | the linked queue, as operators on its nodes | through `WindowSet` |
| `WorkingSet` | abstract: what a window set promises | as a property of `WindowSet` |
| `WindowSet` | window set and the loop over the trace, over `HashTable` and `Queue`; refines `WorkingSet` | `MCWindowSet` |
| `Recursion` | lemmas: recursive functions on the first natural numbers exist, and induction over them | tlapm |
| `HashTableProofs` | what `Put` and `Delete` keep of a table | tlapm |
| `WindowSetProofs` | theorems about `Queue` and `WindowSet` | tlapm |
| `MemLayout` | the scan, probe by probe | itself |
| `MemLayoutProofs` | theorems about it | tlapm |

**TrafficEnforcer.** One action is one access to shared memory that another
thread can tell apart. `sorter`, `timer`, `observer[o]` and `user[u]` say where
each thread is; `set_timer_expired` is two steps under its mutex because the
flags are read without it; `++reader_done_count`, which has no mutex, is a load
(`SendEntries`) and a store (`StoreDone`). `are_readers_done` is two loads, of
the done count and then of `reader_count`, in the order of the compiled code;
the done count may even fall between them, when three users store stale values.
`add_entry` is a test of the phase (`PassGate`), the counting (`StartWrite`) and
the write with the uncounting (`EndWrite`). Sockets are not here: a `read` of a
user thread returns a code, or that its client is gone, at any time or never,
and a `send` may raise SIGPIPE, which the daemon has at its default (`up` becomes
FALSE). When they do is `UserSession`'s. `reader_done_count` saturates at
`|Users|`, since it is only compared with `reader_count`.
`ticks`, `barred`, `owed` and `quiet` are history variables, read by no guard:
a round is *quiet* if the breaker did not fire in it, no user registered
between the end of the readers' wait and DONE, and it did not inherit such a
disturbance from the round before.

`Broadcast` is what all this is for (server.c:167-173): a round opens on the
registered users and those who still join, sends to each of them once, and
closes when none is waiting, unless it was disturbed. The refinement maps
`owed`, `quiet` and the places of the user threads to it. That the entries sent
to two users of a round are the same is *not* part of it: an observer that
passed the gate may write meanwhile (`traffic_no_write`), and `observer_count`
may move (below).

**UserSession.** Extends `TrafficEnforcer` with the other end of the users'
connections, and with how threads come by them: `do_server` passes `&new_socket`
(server.c:470), and a thread reads it when it starts (181). `Connects` assigns
`new_socket` and creates a thread, `AcceptsOther` assigns it for a client of
another kind, and `Starts` hands the thread what is there by then: its own
client, another one, or the socket of an observer (`NoUser`). Threads of
observers that start late are handed users' connections in the same way
(`OtherStarts`) and take codes from them (`Intrudes`). So `socket[t]` is whichever
connection thread `t` serves, two threads may serve one, and a client may be
served by none.

`sent` counts the pieces of the answer under way: the count, then a
size and a string for each of `observer_count` strings, the bound being read
again before each; the last one is the step `SendEntries`. The client asks,
reads the count, and then a size and a string as often as the count said; a read
of another piece, or of a part of one, leaves it `lost`, and from then on it
takes what comes, waits, asks again or crashes. A connection is `open`, `closed`
(its client said DISCONNECT_CODE or closed in order) or `reset` (it died with
unread data). A reset is reported once, to a `read`, which returns -1, for which
the thread does not test, or to a `send`; after that the connection is like a
closed one (`ErrorTaken`). The first `send` to a client that is gone succeeds (or
takes the error of a reset), the second raises SIGPIPE: `fatal`. `auto_kill` finds
`is_dormant` set, or sets it; the SIGINT it raises makes the handler jump into
another thread's stack, so that the client may clean up or crash.
`observer_count` moves by one at any time, which is all the array's threads can
do to an answer. `disturbed` is history: the count has moved during an answer of
this connection, a read took a part, or connection and thread were not handed to
each other one to one.

**EntryArray.** Slots are records `[is_taken, tv, from]`, `from` standing for
the string. `register_observer` is one step per access: its mutex keeps
registrations apart, but neither the sorter nor the readers of the counts take
it. `BeginRegister` increments `observer_count`; the scan looks at one flag per
step (`PassSlot`, `FindSlot`) and only then sets it (`TakeSlot`), or the array
grows (`Grow`) and only then is compared with CLIENT_MAX (`NewSlot`,
`ShrinkBack`), so that its size is CLIENT_MAX + 1 for a while. A sort may begin
or end between any two of these. While `qsort()` runs (`nmemb` is the number of
slots it was called for) a flag read in its range may be that of any slot there,
and one that is set may land in any, or be lost with a copy (`Seen`, `SetTaken`).
So a flag may be set that is set already, or a free slot may move behind the
scan: the array then grows, or an observer is refused, though there is room.

`unregister_observer` takes no mutex and is one step per access, too: the flag,
the test for the last slot, the shrinking, the load and the store of
`--observer_count`. The sort permutes whole slots in any order that agrees with
`tv`. Phases are those `TrafficEnforcer` enforces when undisturbed, so
`add_entry` is a single step in DONE.

Four history variables say what has happened. `crossings` counts the
registrations that a sort has crossed (`crossed`: the one under way is among
them): each costs at most one flag, and that is what `SlotsAccounted` allows
for. `reordered`: a sort has moved a slot, or crossed a registration.
`overlapped`: two unregistrations have overlapped. `calm`: none has overlapped a
registration or a sort, nor another one after slots had moved, and no sort began
while the array had a slot too many. What happens beyond `calm` is reached but
not explored, as it leads to slots outside the array. `Logged` are the rows
`print_logfile` writes within the array (while its size is CLIENT_MAX + 1 it looks
at one more), `Shown` the slots `send_entries` sends.

**Session.** A socket is a sequence of pieces, one per `send`: the identity, two
strings of two pieces each (`send_string`), then headers, names and a goodbye.
Readers take a piece if it is the one they expect. A client is `gone` by SIGINT
(its own or `auto_kill`'s; the handler jumps to `cleanup`, which sends the
goodbye wherever it was) or by dying without a word. `Accept` assigns
`new_socket`, `Identify` reads the identity from it and starts a thread, and
only `Start` reads `new_socket` for that thread, possibly after the next
`Accept`. A thread that finds something else than it expects, or the end of
the stream where the code does not test for it, goes `adrift`, and so does one
whose client has names that do not fit the buffers of 1024 they are copied and
appended to (`Overflows`; `Fitting` are the clients whose do): it may then take
whole pieces or parts of them, add events that never happened, end, or cost
the process its life (`strcpy` of NULL, SIGPIPE, an overwritten stack). That is
deliberately loose, as what it reads is indeterminate; the properties are about the threads that do
not get there. `Alone` and `Orderly` say which clients those belong to: `Orderly`
ones have names that fit and leave between events, or without a word.

`Delivery` is what all this is for (server.c:60-64): a client reports events and
leaves, maybe within its last one; the events become entries one by one, each
once and in order, never beyond what was reported; and the session ends when the
client is gone and all that it told in full has been added. A session may
break, or be broken from the start, and of a broken one nothing is promised. The refinement maps a client to
a broken session only if its names do not fit, it left where the thread cannot
tell (`Orderly`), or a thread took another client's socket (`Mine`); a step breaks two sessions at most.

**HashTable / Queue / WindowSet.** The nested tables are flattened: a bucket is
`<<level, residue>>`, `expanded` says which are tables, and a key is in the list
of the first bucket on its way that is not. `listed` is each list's own `count`
field, unsigned, *not* the number of its nodes: `sll_pop` lowers it twice, so
after a split it is below zero. The model keeps that, and what follows from it.
The operators were compared with the compiled C code (constants scaled the same
way) on 300 traces of 26 references, including traces that lose keys: every
size agreed. `Queue` keeps the nodes under their addresses, with both links;
`malloc` returns the lowest that is free, so that freed ones come back. `main`
counts every reference and inserts those that `-s` does not skip; at the end of
the trace everything is destroyed.

**MemLayout.** A page costs three to four steps: set up, read, write, compare;
a forbidden probe raises either signal. `handled` are the signals whose handler
is installed, `env` the probe `siglongjmp` returns to. `to` of a region is the
first address of the next one, as the code writes it, and of the last region the
last address there is; memlayout.h says it is the region's last address for all
of them. And the count is at most one more than the list has room for, where
memlayout.h:71 and memlayout.c:105-106 promise all regions. `RowsAreRegions` and
`CountCapped` state what the code does.

## 3. Runs

| run | instance | what it shows |
|---|---|---|
| `traffic_safety` | 3 users, 2 observers, symmetric | the safety of the phases, and that they implement `Broadcast` |
| `traffic_live` | 2 users, 1 observer, `FairSpec` | rounds end, ticks are taken, entries written |
| `user_session` | 1 user, at most 1 observer, 1 thread of an observer that starts late, `FairSessionSpec` | client and thread stay in step while the count stays put and they were handed to each other; what a dying client costs; the session implements `TrafficEnforcer!Spec`; a waiting client is answered, or disturbed, and comes back at the latest by `auto_kill`; threads of gone clients end |
| `entry_array` | 3 observers, 2 slots, 1 time stamp, symmetric | accounting of slots under sorts that cross registrations, reuse, refusals and overlapping unregistrations |
| `session` | 2 clients, one with 1 event, one with names that do not fit, `FairSpec` | a thread alone with an orderly client adds its events, each with its name, and loses none; the refinement of `Delivery`; threads of gone clients end; clients are received, and their events arrive, unless one that stays silent keeps the accept loop |
| `window_set` | 2 buckets per table, lists of at most 2, merge below 2, window 4, 13 references, the first skipped | refinement of `WorkingSet`; counts and values match the window until a merge drops a key; the queue's links are sound |
| `mem_layout` | 5 pages, list of 0..6 | the scan, for all layouts |
| `traffic_no_write` | 1 user, 1 observer | **violated**: an observer writes while the sorter sorts |
| `traffic_all_served` | 2 users, 1 observer, breaker never fires | **violated**: a round closes on an unserved user |
| `entry_most_recent` | 2 observers | **violated**: an entry is overwritten after a sort |
| `session_two_threads` | as session | **violated**: two threads serve one client |
| `window_lost` | as window_set | **violated**: the size stays too large after a merge |

A violated run checks what a comment or document of the repository says; the
finding in `PROJECT.json` quotes it. `entry_most_recent` explains one of the
"known issues (for unknown reasons)" of Assignment02/README.md. The other one,
"Sometimes broken pipes happen" (README.md:17), is what `FirstSendSurvived` is
about: a client that leaves in order costs the server its life only if its
thread sends twice more to it in one answer, or if `observer_count` moved during
an answer; one that dies with something unread does so through `read`'s -1,
taken for a code; other than that only a thread that was handed somebody else's
connection (server.c:470) does. One of the "Limitations" there is *not* what the code does:
"Server threads that interact with observer clients and user clients don't
terminate without those client's informing them" (4-6). Both threads test for the
end of the stream, and `ThreadsEnd` and `ClientReaped` say that they end whenever
their client is gone. More disagreements are stated by the properties of passing
runs: `InStep` and `Answered` need that no observer registers or leaves during
the send, as `send_entries` reads `observer_count` again before each string,
although it promises "how many entries there are followed by all the entries"
(server_data.c:274); when the count falls, the client waits for a string and its
thread for the client, until `auto_kill` ends it (`ComesBack`). Both also need that
the thread was handed its own client's connection and nobody else was: a client
whose thread starts after the next `accept` waits for nobody. `SlotsAccounted`
has `observer_count` exact only until two unregistrations overlap, and allows
for a flag lost to every sort that crosses a registration. `EntriesAreEvents` and
the refinement of `Delivery` except clients whose names do not fit (`Fitting`):
README.md:7-10 has entries of at most 1023 characters and names near that limit
truncated, but `strcat` appends each field to a buffer of 1024 behind the others
(server.c:137-145), and nothing is truncated there. `RowsAreRegions` has `to` as
the first address after a region, and `CountCapped` size + 1 for a list too short,
where memlayout.h says otherwise (49, 86-87; 71).

Deadlock is checked in all runs but those of `Session`, which really stops: when all
clients are gone and the threads have ended, the server waits in `accept`. In the
others the timer goes on, or the end is a step that stutters.

**Bounds.** Two users are the fewest that can lose an update of
`reader_done_count`, leave a done count behind for another, or be served one
without the other; the third, in the safety run, makes the count fall while the
sorter looks at it. Two observers let one write while another passes the gate.
The threads' behaviour does not depend on which others there are, only on the
counters, and the safety properties are proved for any number anyway. Liveness
has two users and so the round that waits for one user because another one's
increment was lost.
`UserSession` runs with one user: its client, its thread, and the phases are all
there; other users are to it what the breaker and the timer already are, and
clients of other kinds stand for those whose connections its thread may be handed
and whose threads may be handed its own. That two users get each other's
connections is covered by the theorems (and simulations of two users found no
error). `MaxIntruders` lets one observer's thread start late. `MaxObservers = 1` already has answers of no string and of one, a count
that rises and one that falls during the send. Two bounds are in its guards: a
client has at most one unread code (it asks only after an answer, or what it
takes for one), and a client that has lost its place asks only when nothing is
left to read, which bounds what is under way.
Three observers on two slots give every case of reuse, growth, shrinking and
refusal, with a slot left to be moved by the sort; with one time stamp (besides 0
for a blank entry) equal times permute freely. `CrossingsBounded` lets two
registrations be crossed by a sort, and `LostDecrementsBounded` one decrement of
`observer_count` be lost. Thirteen references, the first of them
skipped, are enough for
a bucket to be split, merged, split early by its wrapped count and merged with
keys nested below; `CountRange` 256 stands for 2^64, and no count comes near
wrapping round (`Room`, below). TABLE_SIZE 16, SPLIT_SIZE 15 and MERGE_SIZE 6 are scaled to 2,
2 and 2. Five pages make regions of one to several pages in every order of
modes, against lists that are too short, exact and too long. Two clients are
what it takes to have one's thread serve the other's socket, or one's silence
keep the other waiting. One event with or without a name already has every place
at which a client can be interrupted and every read of a thread, and the second
client needs none, as an event of its own would be read by the same steps; it has
a directory whose name does not fit. The order of several events of one client is
that of its socket, and in the theorems. `StaysCalm`, `CrossingsBounded`,
`LostDecrementsBounded` and `BreakerNeverFires` are constraints of runs; the
first ends a behaviour of `entry_array` where an unregistration overlaps a
registration or a sort, or where a sort begins on CLIENT_MAX + 1 slots, the last
only narrows a violated run.

That nothing is stuck for ever is stated as `~<>[]` wherever what is stuck would
stay so by itself, which says the same as `~>` there and is far cheaper to check.

**Fairness** (`TrafficEnforcer!Fairness`). Threads that are neither asleep nor
polling run: weak fairness of the timer, the sorter, the writes and the
services. A polling loop calls `sched_yield` and looks again, and a phase lasts
far longer than a look, so a condition that is true again and again is seen to
be true: strong fairness of the loops of observers and users. The same holds of
the mutex that the timer takes for two assignments an interval. Nothing is
assumed of clients, and nothing of the arrival of observers' events.
`UserSession!SessionFairness` adds that threads that were created start, that a
code that was sent is read, and that a client reads what has been sent to it;
that it asks, leaves or is killed is not assumed, nor that anybody reads for a
thread that was handed another kind of client (`NoUser`). Only `ComesBack`
supposes, in its premise, that `auto_kill` goes on looking (it sleeps and looks
for ever).
`Session!FairSpec`: the accept loop and the threads run. Of clients nothing is
assumed: one may stop anywhere, also before its identity, where the accept loop
waits for it (`Waits`); `Received` and `EventsArrive` name that case.
`MemLayout!FairSpec` only says that the process keeps running.

## 4. Proofs

Every safety property that a passing run checks is proved for all values of the
constants; `ListsShort`, which is not true of every `CountRange`, for those that
have room for the trace. What is assumed are the named ASSUMEs of the
modules: finite sets of users and observers, positive sizes, a page size that is
a power of two, references that fit in the address range.

**`TrafficEnforcerProofs`**, for any finite sets of users and observers:

1. `TypesAndCounters`: `TypeOK` and `CountersExact` are inductive together
   (neither is alone: a counter stays a natural number because it is the size of
   a set). They rest on the finiteness assumptions and the library's facts on
   cardinality.
2. `PhaseInv` on top of these: what the places of sorter and timer say about the
   state, the mutex and the ticks. It yields `BreakerWaits` (the two assignments
   of `set_timer_expired` leave no window in which the flag means less than two
   ticks) and `BarredWritersOut` (`writer_count = 0` means that no writer is
   inside, by `CountersExact`, and barred writers are writers).
3. `RoundInv` on top of `PhaseInv`. `RoundComplete` is not inductive: that the
   sorter sees `reader_done_count >= reader_count` implies that nobody is owed
   only if the done count never exceeds the users done (`DoneNeverAhead`), which
   in turn needs that a value loaded for `++` by a user about to store it is not
   ahead either, nor the one the sorter is about to compare, that served users are held, and that the count is zero before a
   round. The conjunction is `IndInv`.
4. `SentOnce`, an action property, from the same invariant.
5. `BroadcastImplemented`: `Spec => Broadcast!Spec` under the mapping. A lemma per
   thread says which abstract step its steps are: opening and setting DONE are
   `Open` and `Close` (by `RoundComplete`), the last send is `Send` (a user that
   sends in a quiet round is owed, by `RoundInv`), the store of the count is
   `Serve`, a late registration or the breaker `Disturb`s; all others stutter.

**`UserSessionProofs`.** `PhasesImplemented`: every step of a session is one of
the phase machine's or does not show in it, so that all of the above holds of
sessions (`SessionKeepsPhases`). `SessionInv` is what relates the two ends of a
connection:

* `Tied`: where a client is fixes where its connection and its thread can be.
  `SessionTypeOK` is not inductive without it.
* `Talk`: as long as nothing disturbs them, what the client has yet to read is
  what is under way and what its thread has yet to send, and the pieces under
  way are in order. `InStep` follows from it and is far from inductive: it says
  nothing of the middle of an answer.
* `HandedAt`: short of a disturbance a thread serves its own client and nobody
  else does. It is inductive because `Starts` and `OtherStarts` set `disturbed`
  for every connection they get wrong.
* `Goodbye`: a client that leaves in order does so while no code of its own is
  unread, but at the end of an answer, so that its goodbye is the next thing its
  thread reads. `FirstSendSurvived` needs that.

**`EntryArrayProofs`.** `ArrayInv` holds everything but types under `calm`, as
behaviours end where it does. `Apart` says what may overlap what: registrations
exclude each other, an unregistration neither a registration nor a sort, but a
sort may cross a registration, and then `crossed` says so. `Indexed` says who
holds an index; `Counting`, that
`observer_count`, *and what an unregistration under way has loaded of it*, is
never less than the observers counted, and equal to them until two have
overlapped. `Flags` says that there are as many flags as observers that stay, but
for one per crossing, *with one in reserve for the registration under way if it
is crossed* (`AtStake`: its store may yet fall on a flag that is set), all below
`entry_array_size`, and that a thread about to shrink the array holds its
last index. `Scanned`: what a registration that no sort crosses has seen still
holds, the slots passed are taken and the one found is free, as nobody else sets
a flag and whoever clears one ends `calm`. `Owned`: until a sort moves a slot the
flags are exactly those of the observers' indices. A sort permutes the flags and
so leaves their number alone, which is why `Accounted` compares numbers. The
size exceeds CLIENT_MAX by at most one, and only for an observer about to be
refused, because the mutex leaves nobody else to grow the array meanwhile; that it
never falls below what is in use rests on the flags lying below it. `RefusedWhenFull` is an action property: a
registration that is not crossed is refused only if no slot is free.

**`SessionProofs`.** A property like `EntriesAreEvents` speaks of a thread; what
makes it true lies in a stream, and can be disturbed by a thread that started
late. `Followed` says, for each thread and orderly client whose stream nobody
else reads, that the pieces in it are a path from the point the thread has
reached to the point the client has: the rest of the introduction, then headers
and names with the events' numbers, then a goodbye. `Accepting` says which
sockets the accept loop may still hand over: a client is accepted once, and
identified before it has a thread. With both, each read of such a thread finds
the piece it expects; it goes adrift only if its client left within an event, or
its names do not fit.
`DeliveryImplemented` follows from it with one more step: a path never leads
back (`Progress`), so that no more is added than has been sent in full
(`AddsWhatWasSent`), an event that was cut off within not counted. A start on
another's socket breaks both sessions; what a thread does that serves none but
its own client is adding the next event, or the end.

**`MemLayoutProofs`.** `ProbeInv`: whenever a page is probed, both handlers are
installed and the environment is the one just saved. `ListInv`, on top of it: the
current region is the last to start before the pages already compared, its mode
is theirs, and the list holds the regions before it, as many as fit. It is about
`Limit`, the address the scan has come to, which is `AddressRange` once the
address has wrapped to 0: without the distinction the invariant would be false at
the end. `RowsAreRegions` and `CountCapped`, which speak of the end only, follow.

**`WindowSetProofs`**, for every trace, any window and tables of any size:

1. The queue. `Linked` alone is not inductive: it allows a cycle beside the chain,
   and says nothing of the order. `HoldsAlong(q, path, vals)` says that the
   nodes are those along a path without repetition, with the values in order;
   `enqueue`, `dequeue` and `destroy_queue` are shown to append, take the head
   and empty. `QueueLinked` follows, and that `Values(queue)` is the window.
2. The table (`HashTableProofs`). `Sound` says that the expanded buckets on a
   key's way are those above its leaf, that no count is less than the keys below
   it, and that a list of the last level counts exactly the one key it can hold
   (`LastCounted`). Only the last of these keeps `Put` from splitting a bucket
   that has no level below it, although the lists' counts are wrong after a
   split. `PutSound` and `DeleteSound` keep `Sound`, and the counts exact for as
   long as no merge drops a key. Nothing is assumed of the lists' wrapped counts
   but that they are in range: what they do to the shape cannot hurt.
3. Both (`WindowInv`). `Pays`: the size is at least the number of pages in the
   table and of those the window has more often than the table does. A dropped
   key costs no count above it, so that what the size has too much pays for the
   key when it comes back; this is why it is never too small, whatever the
   merges lost. `Matches`, the exact relation, holds while `intact`. From these:
   `WindowTyped`, `TableRight`, and the refinement `WorkingSetImplemented`, for
   which `PagesOfAccess` shows that shifting addresses gives the pages a
   reference's bytes lie in.
4. The lists' wrapped counts (`ListsStayShort`). `ListsShort` is far from
   inductive, as it says nothing of the counts that lists are split by. `Short(t,
   drift)` says that the count of every list is right and the list no longer than
   `SPLIT_SIZE` (`Counted`), or else too low by some d of at most `drift`, beyond
   `SPLIT_SIZE`, while the list is shorter than `MERGE_SIZE` (`Lags`): it has been
   split, and what the count lacks makes it wrap to a number so large that the
   next key splits the list again. A list becomes longer only by one key, after
   which it is split, or by a merge, which leaves fewer than `MERGE_SIZE` keys in
   a list that was empty until then. `PutShort` shows that a page put raises
   `drift` by `SPLIT_SIZE + 1` at most, `DeleteShort` that a deleted one, with all
   its merges, leaves it alone. The invariant bounds `drift` by `mem_ref_count`;
   the theorem's hypothesis `Room(most)` says that no reference has more than
   `most` pages and that `CountRange` exceeds `(SPLIT_SIZE + 1) * most *
   MaxAccesses + SPLIT_SIZE`. The run has 80 there, against a `CountRange` of 256.
   It is not far from needed: a list's count loses `SPLIT_SIZE + 1` with every
   split of its bucket, and when it has come all the way down to `SPLIT_SIZE` the
   list may grow. (With a `CountRange` of 7 TLC finds a list of three on pages 0,
   2, 4 and 1.) For 2^64 that takes some 10^18 splits of one bucket.

`Recursion` has what these need to reason about recursive functions: every
non-empty set of natural numbers has a least one, hence induction over sets of
numbers (the library's induction theorem has an operator for a parameter, which
the provers cannot instantiate), and a recursive function on `0..n` given by a
step function exists.

Each proof has a lemma per group of actions and a step per action.

Two things in the models were wrong or too strong, and were found by failing
proofs. `WindowSet!Dropped` used to compare the table before and after all the
deletes of a reference: a page that the merge after one delete dropped, and that
the same reference was about to delete next, was not noticed, and TLC finds a
trace on which `TableExact` is violated. It is now asked of every delete. And
`EntryArray!TypeOK` had a type for `loaded` and `index` also beyond `calm`, where
two overlapping unregistrations can make the array's size negative.

Model-checked only is all liveness: `RoundEnds`, `TickTaken`, `EntryWritten`,
`ClientReaped`, `Answered`, `ComesBack`, `ScanEnds`, `ThreadsEnd`, `Received`,
`EventsArrive`.
The prover handles neither fairness nor ENABLED.

## 5. Not modelled

* Formatting of entries, masks, log file and screen. (server.c:64 has the log
  list events "in the order received"; `print_logfile` writes a snapshot of the
  taken slots each round, so that an event overwritten between two rounds is in
  no log. `Logged` is that snapshot.)
* `daemonize`, argument parsing and the mains' dispatch: no interleaving, no
  state.
* In `Session`, reads that deliver only a part of what was sent to a thread that
  has not lost its place; `UserSession` has them for the answers.
* What a user client does once the server has ended: every read ends at once, it
  leaves its loop and cleans up.
* The length of time: `auto_kill` may look at any moment, the timer may be as fast
  as an interval of 0 would make it. So it is not shown that an answered client
  is never killed, which holds for intervals well below AUTOKILL_TIME.
* What follows an unregistration that overlaps a registration or a sort, or a sort
  that begins while an observer is being refused, which moves an entry from, and
  to, what lies behind the array (server_data.c:191-198, 247).
* What the code does with the memory beyond a buffer it has overflown: `adrift`
  stands for everything it may do.
* The drivers `mem_1.c` to `mem_3.c`, `lab9`, `fancy_scripts`, recorded outputs
  and reports.
* The memory an out-of-range index reaches (`add_entry(&entry, -1)`).
* References of size 0 and addresses next to 2^64: `AccessesFit`.
* `memlayout` on a system that maps page 0: `Layouts` has nothing there, as the
  kernels the program runs on refuse such mappings. (With a page there the code
  would list an empty first region.)

## 6. Plan

In order of weight:

1. `Server`: `TrafficEnforcer` and `EntryArray` composed, so that entries are
   written in the gap of the gate and sent while registrations happen; the
   proofs of either carry over by refinement, as they do for `UserSession`.
2. In `Session`, a stream that delivers parts of pieces to the introduction and the
   events too, as `UserSession` has it for the answers.
