# A TLA+ verification of creme

creme is a Scheme implementation with two runtimes: a Crystal interpreter (`src/creme`) and
icecreme, a C virtual machine (`icecreme`), both under one Scheme standard library (`modules/creme`).
This project covers two things. The first is the parts in which several actors share a job, fail and recover: the Raft
engine `(creme raft-scheme)`, `modules/creme/raft-scheme/core.scm`, which promises the most, the actor runtime of
icecreme it runs on (`icecreme/actor.c`), with its mailboxes, nodes and connections, the supervisor library over it
(`modules/creme/actor-supervisor.sld`) and the HTTP multiplexer (`icecreme/mux.c`). The second is the C runtime itself, where
a slip in the representation goes unnoticed for long: frames and upvalues, guards and continuations,
code shared by several VMs, the numeric tower, lists, buffers, tree lists, tables, ports, the reader, the
writer, the loader and the router.

Paths below are relative to the repository; line numbers without a file are those of `core.scm` where Raft is
the subject and of `actor.c` where the actor runtime is.

## 1. Inventory

| Part | State | Operations | Interaction |
| --- | --- | --- | --- |
| Raft node (`raft-node-loop`, 859) | a private hash table: role, term, vote, leader, peers, learners, commit/applied/snapshot index, next and match index per peer, votes, pre-votes, epochs, pending client requests | eight RPC handlers, two ticks, the client requests, snapshot, stop | one actor per node; mail only |
| Log (260-361) | SQLite tables `entries`, `metadata`, `snapshots` | append with conflict detection, truncate, slice, save/load of metadata and snapshot | private to the node; survives it |
| Transport of Raft (384-422) | registry id -> actor, blocklist of pairs | register, deliver, partition, heal | one FIFO actor per cluster, between all nodes |
| Tickers (473-491) | an epoch each | one election tick; heartbeats forever | send to the node; stale epochs are ignored |
| State machine (375-380) | the caller's | apply, snapshot, restore | called by the node |
| Clients (943-1004) | none | propose, read, four membership changes, snapshot, stop, queries | request to one node, then `receive!` for the answer |
| Actors (`icecreme/actor.c`) | bounded mailboxes (64), monitors, registry, nodes | spawn, send!, receive!, monitor, register!, start-node, ... | threads and locks |
| Nodes on the network (`icecreme/actor.c` 601-1680) | cached connections, inbound threads and their count | connect and prove the cookie, write a frame, evict, accept, read, stop-node! | sockets; two kinds of mutex |
| Supervisor (`modules/creme/actor-supervisor.sld`) | alist of child specs and current refs | start-child (spawn, register!, monitor), restart or drop on `<down>` | an actor that monitors its children |
| HTTP multiplexer (`icecreme/mux.c`) | slots of a poll loop, a buffer per connection; the pool: a count, a set of listeners, worker threads | accept, read, parse, dispatch, reset; grow, shrink, close | one loop per worker; atomics and a lock between workers |
| Router (`icecreme/radix.c`) | a trie of path patterns | insert, find | below the multiplexer |
| VM (`icecreme/vm.c`) | register stack, frames, upvalues, handlers, unwind stack, global cells, chunks | about 160 instructions, calls, raise, continuations | builtins re-enter it; chunks are shared by the VMs of a process |
| Loader (`icecreme/loader.c`, `bootstrap.c`) | chunks, labels, the global table | read, validate, resolve globals | feeds the VM; the other end is `compile/chunk_serializer.cr` |
| Builtins (`icecreme/builtins.c`, `treelist.c`, `hashtable.c`, `zstd.c`) | the heap, ports and filters | numbers, lists, buffers, tables, tree lists, ports, reader, writer | called by the VM |
| pstore, memoize, the Crystal runtime, bindings, codecs, the rest of the standard library | heap, files | | sequential or plain I/O |

What is hard in the Raft engine: handlers of different nodes interleave arbitrarily; mail of old
terms and old epochs arrives late; a node restarts with what its SQLite file holds and nothing else;
compaction removes entries that others still need; the membership is changed by the very log it
decides about; a client's answer is tied to a log index that another leader may reuse.

What makes it correct: one vote per term and node, at most one leader per term, logs that agree up
to their last common entry, commit and applied indices that never move back, nothing skipped and
nothing applied twice, each client answered at most once and only for its own entry, an
acknowledged command on a majority, an election that does not stop short of a leader.

What is hard in the actor runtime: every actor is an OS thread; senders and the receiver meet in a ring buffer with
two condition variables; a registry is locked per access, so names, monitors and the end of an actor race each other
between two accesses; ids count per node and an actor can move to a new node; `<down>` messages are sent to bounded
mailboxes one after the other. What makes it correct: mailboxes that are bounded FIFO queues without lost
wake-ups, ids that are unique per node, names that lead to their latest holder, a `<down>` for each watcher and for
nobody else, and for the supervisor: one incarnation per child, current names, a replacement for each permanent child
that goes down.

What is hard in the C runtime: a frame's registers are reused by a tail call while closures still point at them; an error leaves
C and Scheme frames in one longjmp and has to restore three stacks; an instruction that one VM rewrites is fetched by another;
a connection is removed from the slots the loop is walking; workers grow and shrink a pool without a common lock; two threads
connect to one peer at once; a dead connection stays in a cache; integers leave the machine word and come back; lists
run in circles; copies overlap; compaction renumbers slots; a file is damaged. What makes it correct is always the
same statement: the representation means what Scheme (HTTP, a byte stream, a list, a map) says, at every moment another party
looks.

`PROJECT.json` lists the hazards at their lines, with the properties that would catch each, or the reason
why none does.

## 2. Modules

| Module | Content |
| --- | --- |
| `Raft` | the engine: log, node, transport, tickers, clients; its properties |
| `MCRaft` | small clusters for TLC |
| `RaftElectionProofs` | type correctness, one lemma per operator; one vote per term; one leader per term |
| `RaftLogProofs` | what a handler does to its node: tickers, logs of leaders, answers, commit and applied indices; reasons to step down, Log Matching, nothing skipped |
| `BoundedFifo` | what a mailbox promises |
| `Mailbox` | one icecreme mailbox, thread by thread; implements `BoundedFifo` |
| `Sublists` | what a loop keeps of an array or a list, for `ActorSystem`, `HashTable`, `Transport` and `Calls` |
| `SublistProofs` | counting a set up in order, and occurrences in what is kept; used by four of the proof modules |
| `ActorSystem`, `MCActorSystem` | contexts, registries, names, monitors, nodes and the end of an actor; its mailboxes are bounded queues as `BoundedFifo` has them |
| `ActorSystemProofs` | unique ids, one registry per context, names, who gets a `<down>`; of the supervisor: one incarnation per child, current names |
| `Supervisor`, `MCSupervisor` | the supervisor library as a program on `ActorSystem` |
| `Transport` | cached connections, handshake, frames, eviction, inbound threads, `stop-node!` |
| `Wire` | the text of a message between nodes, and what references mean on it |
| `MuxConn` | a loop of the multiplexer with its connections and clients |
| `MuxPool` | the pool of such loops |
| `ThreadsProofs` | of a mailbox: the refinement, and that no wake-up is lost; of the pool: its count, its limit, its listeners; of a loop: its slots |
| `Calls` | frames, argument binding, tail calls, closures, re-entry from builtins |
| `CallsProofs` | registers and upvalues hold the variables of the program |
| `Control` | guards, raise, handlers, dynamic-wind, parameterize, call/cc |
| `ControlProofs` | what is kept in the VM's arrays mirrors what is on the C stack |
| `SharedCode` | quickened instructions in code that several VMs run |
| `Globals` | global cells, child VMs, default ports and their redirection |
| `ProcessProofs` | what shared code and its slots mean in each VM; hash tables are ordered maps; whole frames over cached connections |
| `VMOps` | data instructions and their fused, immediate and upvalue forms, case dispatch, quasiquote, records |
| `Numbers` | fixnums, bignums, rationals, floats and complex numbers, with conversions between them and to text |
| `Lists`, `Buffers`, `HashTable`, `TreeList`, `Ports`, `Radix` | the data structures, each beside its reference definition |
| `DatumGraphs` | data with sharing and cycles, for the two below |
| `Loader` | chunk files, written and read, whole and damaged |
| `Datums` | the writer and the reader |
| `MCThreads` | `Mailbox` and `MuxPool`: threads that share memory |
| `MCNetwork` | `MuxConn` and `Wire`: what goes over a socket |
| `MCProcess` | `Calls`, `Control`, `SharedCode`, `Globals`, `HashTable`, `Ports`, `Transport`: what a process keeps |
| `MCLibrary` | `TreeList`, `VMOps` with `Numbers`, `Lists`, `Buffers`, `Radix`, `Loader`, `Datums`: algorithms |

In the last four a variable `subject`, chosen at the start, says which part a behaviour is about; the other parts rest. The
parts of one such run share no state in the code either, so nothing is lost by not interleaving them.

### How `Raft` corresponds to the code

* `node[n]` is the hash table of `raft-new-state` together with the node's SQLite file (`log`, `snap`,
  `currentTerm`, `votedFor`). Memory and metadata row always change together in the code, so there is
  one copy of term and vote. A procedure of the source that takes the table `st` is an operator from
  such a record to the next, under the source's name (`raft-become-follower!` is `BecomeFollower`), and
  handlers compose them in the source's order.
* One action per message a node's loop dispatches on. `ReceiveX` takes the head of the inbox; the ticks,
  the client requests (`Ask`), `SnapshotNow` and `Stop` come from outside. `Start` is `raft-scheme-start!`
  over the same file: only what is durable survives.
* `raft-send!` appends to the field `out`, which `Continue` hands to the inboxes. The transport actor and the
  mailbox behind it are one FIFO queue per node. The partition test is made when the message is sent. This
  is exact when a handler's sends are not interleaved with other nodes' (native fibers switch only when they
  block); with icecreme's threads the transport can interleave them, which reorders messages from
  different senders only, and those are unordered in the model too.
* At a restart an arbitrary prefix of the inbox is lost: the former actor's mailbox is gone, what the transport
  had not delivered yet goes to the new one.
* `ticker` says that the tick of the current election epoch is still to come. Ticks of older epochs do nothing
  in the code and do not exist in the model. A leader's heartbeat ticker never ends, so `HeartbeatTick` is enabled
  whenever the node leads.
* `sm` stands for the caller's state machine by the history of entries it went through. `Skipped` stands for an index
  for which `raft-apply-committed!` found no entry.
* 0 in `nextIndex` is an absent key.
* `ballots`, `elected` and `replies` are history, for the properties: every vote put on record, every term led, every
  answer a client was sent.

Left out of `Raft`: the textual representation of entries (`raft-write-datum`, `raft-read-datum`), metrics, the queries
`get-role`, `get-leader`, `get-metrics`, which change nothing, crashes in the middle of a handler, exceptions of
the state machine, bounded mailboxes.

### How `Mailbox` corresponds to the code

All fields of the struct are touched under its mutex only, so one step is one stay in the critical section: from getting
the mutex, at the call or after a wake-up, to `pthread_cond_wait` or the return. `mailbox_send` is `WaitNotFull`, any number of
times, and then `Put`; `mailbox_receive` is `WaitNotEmpty` and `Take`. `at` says whether a thread is outside, wants the mutex
or sleeps on its condition variable. `pthread_cond_signal` wakes one sleeper of its variable, any one
(`SignalNotFull`); only the owner sleeps on `not_empty`. POSIX allows spurious wake-ups (`WakeSpuriously`). `sent` and
`received` are history. The owner is not among the senders: an actor that sends to itself on a full mailbox
waits for itself.

### How `ActorSystem` corresponds to the code

* `phase`, `id`, `home`, `mail` are the fields of `ActorContext` and the position of its thread in `actor_thread_main` (546-581);
  `linked`, `names`, `monitors`, `nextId` are the lists and the counter of an `ActorSystem`. `linked` is a set: lookups go by id, and
  `IdsUnique` says that at most one context is found. `monitors` keeps its order and its duplicates.
* An access to a registry under its mutex is one step. `send!` resolves a name in one step and delivers in another
  (`Send`, `Deliver`); `monitor` reads `target->system` in one step, without a lock, and files in another (`Monitor`, `File`);
  the end of an actor is `End`, `Collect` and one `Notify` per watcher (503, waiting for room), then `Unregister`.
* `StartNode` is `start-node` for any transport: a fresh system, and `move_context_to_system` under both mutexes. Names
  and monitors stay behind, as in the code.
* A program may call anything at any time (`Program`), on references to any actor ever spawned. An abort (an unknown name,
  an error in the thunk) is `End`; the main script does not end, as that ends the process.
* `CrossNode` says whether the workload monitors or registers actors of other nodes.
* `calls`, `watched`, `asked`, `owner`, `downs` are history and bounds.

Left out: `stop-node!` (it only affects sockets and `remote-ref`), remote references, the reason in a `<down>`.

### How `Supervisor` corresponds to the code

Each step of the library's program is a call of the runtime joined with what the program makes of it:
`start-child` is `SpawnChild`, `RegisterChild`, `MonitorChild`, `ChildStarted` (36-40 of the library), `supervisor-loop` is `Loop`. `step`, `todo`
and `child` are the program counter and local variables, `children` the alist. Children run, end and send to the
supervisor between any two of these steps. `make-behavior` may raise, which ends the supervisor.

### How the modules of the C runtime correspond to the code

Operators have the names of the C functions and instructions they translate; state that C keeps in structures is a record with the
same fields, or as many of them as a property tells apart. An error is modelled where it is raised, with what the function has done by
then.

* `Transport`: `sys` is the cache of connections under `sys->mutex`, `cons` the `Connection` structures, each with its own mutex, `fds` the descriptor
  table, whose numbers the system gives out again, `socks` what is behind it. `send!` to a remote actor is `connection_for` (look up, dial
  outside the mutex, look again), `handshake`, two writes for a frame, and eviction when a write failed. On the other side an accept thread counts,
  refuses or starts an inbound thread. The network may cut a connection between any two steps.
* `Wire`: a message is a tree, its text a sequence of lexemes. A number and a symbol are both plain words, as they are to
  the reader, and it is the reader's order of attempts that decides between them.
* `MuxConn`: a byte of the stream is a piece that knows its request and its part of it, so that a property can tell whose bytes a handler was given. The
  parser (picohttpparser) is external and modelled by its three answers. `PollAndAccept` is poll and accept. `ServeSlot` is
  one turn of the loop over the slots: a slot with nothing to read (`SkipSlot`), a recv that found nothing or the end (`ReadNothing`), a recv
  with what follows from it: advance, dispatch, answer, reset or close (`ReadMore`). Each recv is a step of its own, and clients may send
  and hang up in between. Slots are walked from the last to the first, as in the code.
* `MuxPool`: a step is what a worker does between two accesses to what workers share: `g_pool_count`, the set of listeners under its
  lock, the descriptor table. `bind`, `pthread_create` and `poll` may fail.
* `Calls`: one register stack with a window per frame. Next to the machine runs what Scheme means: a location for every variable of every
  activation. `SharedSetters` says whether a variable that
  several closures captured is ever assigned after it has left the stack. What the compiler resolves of nested procedures is an assumption on `Code`
  (`CodeAssumption`). The loops of the C functions over upvalues and arguments are functions on their index here.
* `Control`: `vm.c` is what the program is inside of: the dispatch loops and waiting builtins of the C stack, which a longjmp cuts off, and the
  `guard` and `parameterize` forms between them. The VM's `handlers`, `unwind` and `exc` are what must mirror it. An array that is full raises an error, as
  `Error` does anywhere. `Habit` lists six things a program may do that the code does not handle (section 3).
* `SharedCode`: one instruction and one global. Fetch and execution are two steps; other VMs redefine their globals and rewrite the opcode
  in between.
* `Globals`: cells are found by name and length. A chunk's references are slots, resolved by the VM that loads it, and used by the VMs made from it.
* `Numbers`: a machine integer ends at `INT_MAX`, a small constant, so that overflow and the return from it happen; a double has
  few mantissa bits, and rounds. Results are compared with arithmetic on TLA+ integers.
* `VMOps`: a frame of registers, an upvalue, a small heap. Every fused, immediate and upvalue form is executed next to the plain
  instructions it stands for.
* `Lists`, `Buffers`, `HashTable`, `TreeList`, `Ports`, `Radix`: a mutable structure is built by any sequence of the operations within the bounds,
  and the answers of all procedures are compared with the reference in every state reached. Ports are stacks of a file or string and
  zstd filters; a filter is external but for its blocks.
* `Loader`: a file is the sequence of numbers that `chunk_serializer.cr` writes; a damaged file has one number changed, its end missing or another version. `Refuse` is
  `creme_abort`.
* `Datums`: what is written (`write`, `write-shared`) to a port is read back by the reader. Characters of strings are
  kept apart from the escapes that stand for them.

The operators under a comment `Fault:` are what a slip in the code would look like. No specification uses them;
each shows, put in the place of the definition after it, that some property would notice.

## 3. Runs

### Raft

These runs use `MCRaft` with three nodes. Terms, indices and mail are bounded through what starts them: the
number of election timeouts, heartbeats, snapshots, stops, cuts and client requests (the `Max...` constants). Every
run says `CHECK_DEADLOCK FALSE`, because with the bounds used up and all mail read the system may stop. Where all
nodes begin alike, nodes and commands are symmetric.

| Run | Bounds | Shows |
| --- | --- | --- |
| `elections` | 2 timeouts, 1 stop, 1 cut | `OneVotePerTerm`, `ElectionSafety`, `FollowerHasTicker`, `StepDownHasCause` with two candidacies in any interleaving, a node restarting and a link cut and healed |
| `replication` | 2 timeouts, 2 commands, n3 starts late | `LogMatching`, `PendingIsOwn`, `NeverBack` under two competing leaders |
| `snapshots` | 1 timeout, 1 heartbeat, 2 commands, threshold 2, 1 snapshot call, 1 stop | `NothingSkipped`, `LeaderAppendOnly` with compaction and restart |
| `membership` | 2 timeouts, 1 heartbeat, 1 read, add-learner and then promotion of a node that starts alone as a learner | `ElectionSafety` while views of the membership differ, `OneReply` |

Two timeouts are what it takes for a second leader; three nodes are the smallest cluster with a majority that is not everybody; two commands make a conflict
at one index and a log longer than a snapshot. `replication` leaves out requests to nodes that do not lead
(`ToLeaders`): they are answered `not-leader` and change nothing; and it stops where more than four messages are on their
way to one node (`FewInFlight`), which is above what one round of any handler sends.

No Raft run claims liveness: nothing in the code bounds the time a message takes, and the first question to ask,
whether an election is ever held again, is answered in the negative below.

### Actors and supervisor

| Run | Bounds | Shows |
| --- | --- | --- |
| `threads` (mailbox) | 3 senders, 2 slots, 2 messages each | `IsBoundedFifo` (refinement), `NoLostWakeup`, and `AllReceived`: every message arrives |
| `threads` (pool) | 4 threads, between 2 and 3 workers, 2 connections, 1 failing call | `PoolInOrder`: the count is exact, the limit kept, and every listener closed once and by its owner; `IdleWorkersLeave` |
| `actors` | 3 actors, 2 nodes, mailboxes of 1, 2 monitors, 2 registrations, 1 send | `IdsUnique`, `NameFindsLatest`, `DownsDelivered`: nobody but a watcher gets a `<down>`, and a live watcher that has not moved has as many as it filed monitors in time |
| `supervisor` | 1 permanent, 1 temporary child, 4 actors for them, 1 message | `OneIncarnation`, `NameIsCurrent`, and `WatchedIsReplaced`: a permanent child that ends once it is monitored is replaced |

Fewer slots than senders and more messages than slots make every wait happen and the ring wrap around. Mailboxes of one
slot make `notify_down` block. Three actors are a watcher, a target and a third one to interfere; two registrations of
one name make a successor. A pool limit one above the minimum makes two workers compete for the last place. These runs say
`CHECK_DEADLOCK FALSE`, because all programs may end. `FdsReused` is off in `threads`: with descriptor numbers given out
again, a worker that leaves while `mux-close!` runs can close a number that by then belongs to somebody else.

Fairness: in `threads`, a thread that wants the mailbox's mutex gets it (pthreads on a fair scheduler; nobody holds the mutex
while waiting), and the owner keeps calling `receive!`, which is the program's part; wake-ups are not assumed: that signals come
is what the run shows. A worker of the pool goes on because its `poll` has a timeout. In `supervisor`, every thread in a call of
the runtime or in the library's program goes on; children need not do anything.

### The C runtime

| Run | Subject and bounds | Shows |
| --- | --- | --- |
| `network` | two clients, ten scripts of requests (with and without body, chunked, malformed, oversized, persistent or not), cut into pieces anywhere | `ConnectionsApart`: each client gets its answers in order, for its own bytes; every open connection has one slot. `RequestsAnswered`: a client that waits for its answer gets it |
| | messages of every kind two deep, and some too long or too deep, two hops among three nodes in two processes | `MessagesArrive`: unchanged, references included, or dropped for a cause the format names |
| `process` | 5 nested procedures with rest parameters and captures, 3 frames, 2 calls, 3 closures, 1 guard, 1 assignment, errors and builtins that call back | `VariablesKept`: registers and upvalues hold the variables of the program |
| | 5 things entered, 11 deep, 3 guards, 3 unwind actions, 3 handlers | `ControlMirrored`: handlers, winders and parameters are those of the extents the program is in, after thunks run once, a condition reaches its guard |
| | 2 VMs, 0 to 3 arguments, every quickened opcode | `CodeMeansGlobals`: a call applies what its own VM's global is bound to |
| | 3 VMs, 3 names, 8 cells | `GlobalsMeanNames` |
| | 3 keys, 7 writes, compaction from 4 slots | `TableIsMap`: an insertion-ordered map, in bounded space |
| | 2 stacks of at most 2 filters on a file or a string, blocks and buffers of 2 bytes | `PortsAreStreams`: no byte lost, repeated or out of order, whichever procedure reads; a flush reaches the sink; handles are freed once |
| | 2 threads, 1 peer that may have another cookie, 3 sockets, 2 messages, 2 cuts, 2 inbound threads | `TransportSound`: frames arrive whole and only between equal cookies, the cache holds live connections only, the inbound count is exact. `NoStandstill`: a send or a stop under way never waits for a lock or a peer that is gone |
| `library` | tree lists of width 2 up to 4 items | `TreesAreLists` |
| | integers and rationals up to 10 with a machine integer of -4..3 | `TowerIsExact`: every operation is exact whatever the representations, results are canonical, orders and divisions agree |
| | one instruction of each form on 220 frames | `InstructionsMean` |
| | heaps of 3 objects, shared and circular; buffers of 3 elements, indices -1..4, all ranges | `ListsAndBuffersAgree`: `equal?`, walks and copies agree with what the list or the buffer is, whatever is shared, circular or overlapping |
| | 3 routes of 9 patterns, 120 paths | `TrieRoutes`: the best pattern is found with its parameters, in whatever order routes were added |
| | small programs, every position damaged | `LoaderSound`: a whole file gives what was compiled, and what is accepted of a damaged one indexes nothing outside its tables |
| | two data of 13 with sharing and cycles, comments between them | `TextMeansDatum`: what `write` writes is read back, datum by datum; the labels of `write-shared` stand for exactly the sharing of the datum |

Capacities are small so that they are reached: a table that compacts after a few writes, blocks shorter than a read, a frame stack and a handler
array that fill up, integers that overflow after one addition. The structures do not depend on the
capacities otherwise; `RRB_WIDTH = 2` is the width at which a tree list splits and repacks most.

Fairness in `network`: the loop takes its next turn or recv whenever `poll` has something to return or slots are left to visit (`LoopTurns`), which is a statement about one thread that
does not block elsewhere; clients need not do anything. Two clients that pipeline are not promised an answer for what lies in
the buffer (see below), so `RequestsAnswered` is about those that wait.

### What the code does not keep

| Run | Property | What happens |
| --- | --- | --- |
| `ok_lost` | `OkIsOnMajority` | A follower answers an empty, matching AppendEntries with its own last index (805), stale tail included; the leader takes it for the match index (813) and commits what only it has. |
| `shared_variable` | `UpvaluesAreVariables` | `make_closure` (`vm.c` 847-866) makes a new upvalue for each capture. Two closures of one frame that captured one variable have two copies of it once the frame has returned; an assignment by one is not seen by the other. |

The models contain more behaviour of this sort. Each of the following was met while modelling, and is left out of the runs by a
constant or described where the property is weaker than one would like.

Raft and actors:

* The election ticker sends one tick and ends (478); only a return to follower starts another. Three candidates that split the vote refuse
  each other and wait forever. The header says the ticker "re-spawns itself for the next interval" (66-69). So no Raft run claims
  liveness.
* InstallSnapshot pairs the stored snapshot's index with the state of now (589-590); the follower applies the entries in between
  again.
* A promoted or added node adds itself to its own peers (633), counts itself twice and, elected, steps down on its own
  AppendEntries (`StepDownHasCause` holds for the memberships of `elections`, not of `membership`).
* `notify_down` looks a watcher's id up in the target's node (`actor.c` 491); a watcher of another node is not found, or another
  actor with that id gets the `<down>`. `CrossNode = FALSE` keeps the workload of `actors` away from it.
* `monitor` on an actor that is through with `notify_down` (`actor.c` 487-495, 1525) is never answered. A child that ends between
  `spawn` and `monitor` in `start-child` (`actor-supervisor.sld` 36-40) is therefore not replaced, which is why `WatchedIsReplaced` begins at the
  monitor.
* A reference to an actor of another node of the same process is written with the address of the sender's node (`actor.c` 759-760);
  one to a node started as `'local` makes the receiver drop the message.
* The character `x` is written as `#\x`, which the reader takes for the beginning of a hexadecimal one (`actor.c` 995): it reads on to the next
  `;`, through whatever comes in between. The messages of `network` do not contain it.
* `stop-node!` leaves inbound connections open; after a reconnect, frames of the old connection may still arrive behind those of the
  new one.

VM and builtins:

* `invoke_continuation` (`vm.c` 836) does not restore the number of guards (`escape_guard`); `guard` in an after thunk that an error unwinds
  overwrites the handler in use (`vm.c` 2748, `guard_in_after`); so does `guard` while another one's clause is being chosen (`guard_in_test`); leaving a
  handler of `with-exception-handler` (`builtins.c` 4385 and after) for a point inside its thunk leaves the handler stack short (`leave_handler`); an
  after thunk that an escape has called may call a continuation whose `call/cc` is inside the `dynamic-wind` being left, and comes back there
  with the extents already unwound (`vm.c` 838 only ever drains, `reenter_left`); and `with-exception-handler` pushes its handler before it finds the unwind stack full,
  and nothing takes it off (`builtins.c` 4405, `fill_unwind`). `Control` has these as `Habit`, and `ControlMirrored` fails with any of them.
* While an error or an escape is unwinding, an after thunk can see a handler that is gone: `UNWIND_EXC_HANDLER` sets the count back to its mark
  (`vm.c` 818), which may be above the count of the moment, and the slots between hold whatever was last stored there. Once the unwinding is over the
  handlers are right again (`ControlMirrored`).
* `current-output-port` and `current-input-port` are interned with lengths one too large (`vm.c` 236 and 239, `builtins.c` 5092 and 5095), so
  that the cell found by a program is another one, and a redirection in an actor's VM acts on its parent's port (`ChildrenRedirect`).
* `MulImm` and its relatives abort on operands that are not fixnums, as `icecreme/README.md` 1558-1566 says.
* `quotient` of the least fixnum by -1 (`builtins.c` 336) and `exact-integer-sqrt` near the largest one (668) overflow in C, which is undefined; the properties
  leave these operands out.
* `string->number` of an integer beyond the machine word with a leading `+` is `#f`: `strtoll` accepts the sign and reports the overflow, `mpz_set_str`
  refuses it (`builtins.c` 3983, "unreachable in practice"). `number->string` refuses rationals, and writes a whole double from 1e15 up to 1e17 without
  a point, so that it is read back exact (4035-4038). `TextReadsBack` names these.
* `with-output-to-file` redirects the port before it finds the unwind stack full (`builtins.c` 1552-1557): the redirection then stays. The programs of
  `process` nest less deeply than that.
* Range arguments are cast to 32 bits before they are compared: an index beyond `INT_LIMIT` wraps around.
* The hash of circular data is not computed to an end, although `equal?` of it is; `EqualHashes` is about data without cycles.
* The reader takes integers beyond the machine word for the largest one (`builtins.c` 2189 and after, against 2001-2003), `+inf.0` for a symbol, and
  knows neither `|...|` nor the labels that `write-shared` produces.
* A list literal of more than 4000 elements is refused by the loader as nested too deeply (`loader.c` 335, 381), and so is a datum of more than
  256 labels.

Multiplexer:

* A parsed request points into the connection's buffer; when the buffer grows for the body and `realloc` moves it, method and path dangle (`ReallocMoves`).
* A chunked body that arrives in several reads is decoded again from its start (`SplitChunks`).

`ok_lost` is why no run claims that all nodes apply the same sequence: they do not.

## 4. Proofs

Each theorem is about every behaviour of a specification, for every value of the constants that the named assumptions of its module
allow. Where it needs more than that, the hypothesis is part of the statement.

### Raft

The assumptions of `Raft`: `Node` is finite and does not contain `None`, the tables given as constants have the right type, the
snapshot threshold is positive, `Skipped` is no command's datum. Types and elections (`RaftElectionProofs`):

* `TypeCorrect`: `Spec => []TypeOK`. The inductive invariant `TypeInv` says that every table is in
  the record set `NodeState` and every message in `Message`. One consequence (`LogLastTermType`) is that
  `raft-log-last-term` never returns `#f`, on which the comparison in `raft-log-up-to-date?` would raise; a message's
  previous term may be `#f`, and the handlers only ever test it for equality. There is one lemma per operator, so that each
  action's step is the composition of the lemmas of what it calls.
* `OneVote`: `Spec => []OneVotePerTerm`, with restarts, partitions and membership changes. By itself the
  property is not inductive; `VoteOK` adds that no ballot is of a later term than the node's and that the ballot of
  the node's own term is its `votedFor`.
* `SafeElections`: `StaticCluster => (Spec => []ElectionSafety)`, for a fixed membership of any size,
  learners included. `ElectInv` adds that every vote counted by a candidate (`ElectOK`) or on its way to one (`AllBacked`)
  is on record with its voter, and that every term led is backed by a majority of votes on record. Two majorities
  of voters share a voter (`MajoritiesAgree`), and that voter voted once. Operators that do not touch elections are handled
  by one lemma through the tuple `Core`.

What handlers do to their node (first part of `RaftLogProofs`), in every cluster and with membership changes, restarts and losses. Each has one lemma per
operator that says how the operator's result relates to its argument, composed per action:

* `FollowersTick` (`FollowerHasTicker`), `LeadersAppend` (`LeaderAppendOnly`), `AnswerOnce` (`OneReply`). The last rests on `Ledger`: a node
  owes no request twice and none that it has answered, and one node at most has anything to do with a request.
* `AnswersAreEarned`: "ok" is only said in a step that applies the entry of the very request. `DebtsAreOwn`: only a leader owes answers, and what
  it owes for an index it has not applied is the entry of its own log and term. `PendingsOwn` adds that it has not applied it, along
  behaviours with `[]AppliedIsLogged` (no node applies more than its log holds).
* `AllApplied`: a handler that moves the commit index has applied everything up to it when it returns. `AppliedNeverBack`: terms and the
  applied index never move back. `CommitNeverBack` (`NeverBack`) adds the commit index, again with `[]AppliedIsLogged`.

Logs (second part of `RaftLogProofs`):

* `StepDowns` (`StepDownHasCause`), for a static cluster: with `ElectInv`, messages that carry entries come from a node that leads or led their term
  (`SealInv`), and nobody gets its own (`StandInv`).
* `LogsMatch`: `Spec /\ []ElectionSafety /\ []NoCompaction => []LogMatching`, with membership changes; `FixedLogsMatch` is the same without
  `[]ElectionSafety` in a static cluster. The invariant is about segments, that is, logs and the entries of messages on their way: none has a gap (`PlainInv`),
  any two that share an entry agree up to it, and a leader's log has an entry wherever a segment has one of its term (`MatchInv`).
* `NothingSkips`: `Spec /\ []NoCompaction => []NothingSkipped` (`SkipInv`), with membership changes.

The hypotheses are needed. `raft-handle-install-snapshot` accepts a snapshot older than the follower's own: a new leader with an older
snapshot that has decremented `nextIndex` far enough sends one. It lowers the follower's snapshot index, and leaves its log with a gap or
shorter than what it has applied; then an index can be skipped, a pending entry be one already "applied", and logs be compared at an entry
that one of them gets its term for from elsewhere. The commit index is not safe in any case (`ok_lost`), and a committed tail may be
truncated below `lastApplied`. So `LogMatching`, `NothingSkipped`, `PendingIsOwn` and the commit part of `NeverBack` are not theorems of `Spec`. They
hold within the bounds of `replication` and `snapshots`, where no behaviour has the steps that such a snapshot takes; in
`replication` the threshold is never reached, so it is an instance of `NoCompaction`.

### Actors

* `ImplementsFifo` (`ThreadsProofs`): `Spec => IsBoundedFifo`, for every positive capacity, every finite set of senders and
  every number of messages. The refinement mapping reads the `count` slots from `head` on. The invariant `RingOK` says
  that `tail` is `head + count` modulo the capacity and that the slots in between hold messages; `TailIsFree` and `HeadMoves` are the
  modular arithmetic of a put and a take. `TypeCorrect` rests on the same invariant.
* `WakeupsSuffice` (`ThreadsProofs`): `Spec => []NoLostWakeup`. The property is inductive relative to the types: a put turns one
  entering sender into one message, a take turns one message into one entering sender, if any waits.
* `UniqueIds`, `OneRegistry` (`ActorSystemProofs`), for any actors, nodes and workload: `IdsInv` says that a node's counter is above
  the ids of all actors that live or ended there, so that `start-node`'s adjustment of the counter is what keeps ids apart.
* `NamesFindLatest` (`ActorSystemProofs`): `~CrossNode => (Spec => []NameFindsLatest)`. `NameOK` ties each entry to its actor: no one else in
  the node can have the id in the entry, now or later, and an entry disappears only with its actor.
* `DownsAreAsked` (`ActorSystemProofs`): `~CrossNode => (Spec => []DownToWatcher)`. Entries of `monitors` are pairs of ids, and `DownInv` says that they keep
  meaning the pair of actors that called `monitor`, although both may end, move, and leave their ids behind.
* `WatchersAreTold` (`ActorSystemProofs`): `~CrossNode => (Spec /\ []RoomForWatchers => []DownsDelivered)`. `ToldInv` follows an actor through its end: before
  it, the entries filed by a watcher are as many as its monitors; while it notifies, what the watcher has got and what is left of the list of targets
  are; afterwards what it has got. `RoomForWatchers` says that nobody has more watchers than the array of 64 in `notify_down`, a cap the
  source calls deliberate (`actor.c` 478-479). The lemmas of `SublistProofs`
  count occurrences in lists and in what a loop keeps of them.
* `OneAtATime`, `NamesAreCurrent` (`ActorSystemProofs`): `SupSpec => []OneIncarnation` and `SupSpec => []NameIsCurrent`, if no two child specs share a
  name (`SpecsAssumption`). `SupInv` is the invariant of the actor system (`Inv`) with: all is in one node (`NodeInv`), the list of children still to be
  started has no duplicates (`Progress`), a `<down>` in a mailbox is of a thread that has ended (`MailInv`), every actor ever started for a
  child has ended or is the current one, which is not waiting to be started again (`ChildrenInv`), and a name's entry has the id of the latest holder
  (`EntriesInv`). The supervisor's steps are steps of the actor system, whose lemmas are used.

The assumptions are those named in `Mailbox`, `ActorSystem` and `Supervisor`: finitely many senders apart from the owner, a positive
capacity, `None` not an actor, `Plain` neither, the main script an actor, the default node a node.

### Multiplexer and processes

* `CountsAndLimit` (`ThreadsProofs`): `PoolSpec => [](CountExact /\ PoolBounded)`. `BooksInv` counts the permanent workers, the grown ones and the places taken for workers that
  are still being made; the sum stays within the limit at every step.
* `ListenersUntilClose` (`ThreadsProofs`): until `mux-close!`, each serving worker has its own listener, in the set, and none was closed by anybody else, whether or
  not descriptor numbers are reused. `OwnInv` says who has which number. `PoolKeepsOrder` is `PoolInOrder` for ever, under `~FdsReused`: with numbers reused,
  a worker that leaves after `mux-close!` may close a number that is somebody else's by then.
* `OneSlotEach` (`ThreadsProofs`): `MuxSpec => []SlotsAreConns`, half of `ConnectionsApart`: what a loop has accepted and not closed is watched through exactly one slot,
  for any clients, requests and sizes of a recv. `PollInv` adds what waits for accept: a queue of different connections, none of them open,
  and that a closed one never comes back to it. Removal puts the last slot in the place of the one that goes, which is harmless
  because no connection has two (`RemoveSlot`).
* `WindowsHoldVariables`, `VariablesAreKept` (`CallsProofs`): `CallsSpec => [](WindowsApart /\ RegistersAreVariables)`, and `CallsSpec => []VariablesKept` under
  `~SharedSetters`, for any code, stack, and number of calls, closures, assignments and guards. `CallsInv` is about the machine: windows follow one another
  (`Layout`); the variables of all running frames are different and their registers hold them (`Variabled`); an open upvalue is on the list of the frame whose register it
  points to, a closed one holds the value (`Upvalued`); frames have the closures and closures the upvalues the compiler counted on (`Closed`);
  guards, results and builtins that go on refer to frames that run, and to none with a guard if the result goes to their caller (`Controlled`). The other
  direction is `GoneUpTo`: no variable of a running frame has a closed upvalue, so that an assignment to the register misses nobody.
  It is broken for the frame on top in the middle of a return, a tail call or an abort, which therefore must remove or replace the frame.
  There is a lemma for each kind of change (`EnterKeeps`, `TruncateKeeps`, `AssignKeeps`, `CaptureKeeps`, `ShutKeeps`), and each operator of `Calls` is shown to
  be an instance of one or a composition.
* `ControlMirrors` (`ControlProofs`): `ControlSpec => []ControlMirrored` if `Habit = {}`, for any size of the arrays, any number of entries and any
  depth of the C stack. The property speaks of settled states only, and most of what makes it true happens in between, while one unwinding runs after thunks
  that raise, escape and unwind themselves. `ControlInv` therefore gives every entry of `vm.c` the moment at which it was entered: it recorded how full the
  arrays were, and `Here` is the present. Entering changes the counts as the kind of the entry says (`ChangesOK`), unless something was being unwound, and where
  nothing was the counts are the numbers of entries that use the array (`CountsOK`). What an entry pushed stays in its slot for as long as nothing it is inside of
  is unwound (`GuardsOK`, `OwnersOK`, `SlotsOK`). The saved handler counts on the unwind stack, innermost first, lead back to what was installed at any earlier moment
  that is still held (`FirstsOK`, `SavedsOK`, `DipsOK`): so unwinding to a guard or a call/cc restores its handlers, though every raise on the way has popped one
  (`UnwoundExcs`). An escape goes to a call/cc that waits, leaving no guard (`EscapesOK`). There is a lemma for each way to change the machine (`EnterKeeps`,
  `LeaveKeeps`, `JumpKeeps`, `DrainedKeeps`), and each action is an instance or a composition. The hypothesis excludes programs with a habit of section 3; with any
  of the habits the property is false.
* `CallsMeanGlobals` (`ProcessProofs`): `CodeSpec => CodeMeansGlobals`, for any number of VMs. `CodeType` says that whatever is fetched is an opcode, and
  `FastPathIsCallee` that no opcode takes its fast path unless that is what the procedure in the cell does.
* `SlotsMeanNames`, `NamesAndPorts` (`ProcessProofs`): `GlobalsSpec => []SlotMeansName`, and `GlobalsMeanNames` under `~ChildrenRedirect`. `SlotsInv`: a table grows
  only at its end, a VM's table begins as its parent's, and nobody runs a name that is not resolved. `PortsInv`: a VM's redirections are of its own
  port and the first of them put `stdout` aside. With `ChildrenRedirect` the second half is false (section 3).
* `TablesAreMaps` (`ProcessProofs`): `TableSpec => []TableIsMap`, for any keys, values and compaction limit. `TableInv` says that the map leads each key to the slot
  of its entry, that these slots are in the order of the last writes, that `n_live` is the number of keys, and that the arrays are in proportion. The property
  needs that enumeration is a function of the live slots alone: `OneOrder` (`SublistProofs`) says that a finite set of numbers has one ascending list.
* `FramesAndConnections` (`ProcessProofs`): `TransportSpec => []TransportSound`, for any number of threads, peers, cookies, sockets and cuts. `TransportInv` gives
  every descriptor one owner: a thread that dials, or one connection. What is under way to a peer is the dialler's letter before the handshake, and after it
  headers and bodies in turn, only to a peer that has the cookie; the number of halves is odd only while a writer is between its two writes, and the writer
  holds the connection's mutex all that time. A closed connection is in the cache only while its writer is about to take it out or `stop-node!` holds `sys->mutex`.
  Threads are other than 0, an open mutex's owner (`TransportAssumption`).

Threads and descriptors are positive numbers, threads finitely many (`ThreadAssumption`); the main VM is a VM (`GlobalsAssumption`); bounds are natural numbers
(`BoundsAssumption`), code is what the compiler makes of nested procedures, and the main chunk fits on the stack (`CodeAssumption`); the compaction limit
is a natural number (`TableAssumption`); so are the sizes of the arrays (`CapAssumption`);
a recv returns at least one byte, and a client that connects has something to ask (`MuxAssumption`).

### What is not proved

Not true of `Spec` without hypotheses: see above. Open: `ElectionSafety` under membership changes. Only model-checked so far:
the other half of `ConnectionsApart` (`AnswersAreRight`), `MessagesArrive`, `PortsAreStreams`, `NoStandstill` and the properties of
`library`. Out of the prover's reach and left to TLC: liveness (`AllReceived`, `WatchedIsReplaced`, `RequestsAnswered`, `IdleWorkersLeave`), `ENABLED` (in `NoStandstill`),
and what a recursion over data computes, which is most of what
`library` is about (ten of these modules declare RECURSIVE operators, as the C functions recurse).

## 5. Not modelled

* The Crystal interpreter and compiler (`src/creme/compile`, `src/creme/eval`, `src/creme/read`) but for the writer of chunk files: sequential
  translation of unbounded trees. What its output has to mean is stated on the other side, in `VMOps`, `Calls` and `Loader`.
* The actor runtime of native creme: the same interface on fibers, whose channels are a library's.
* Bindings of external libraries (SQL, JSON, YAML, CSV, HTTP client, keys and certificates), TLS and the HMAC of the handshake.
* pstore and memoize, and the rest of the standard library: small and sequential.
* Of the modelled parts: crashes and exceptions inside a Raft handler, bounded mailboxes under Raft, the reason in a `<down>`, an actor
  that sends to itself, address parsing, formatting of responses, transcendental functions, time, files and processes.

## 6. Plan

1. Proofs: `PortsAreStreams`, once the recursive operators of `Ports` (as many as the C functions that call themselves) are functions; `AnswersAreRight` of `MuxConn`.
2. Raft: crash points inside a handler (between the SQL statements of `raft-log-save-snapshot!` and `raft-log-append!`), an
   exception in a handler, an InstallSnapshot older than the follower's state, two membership changes and the loss of
   membership at a restart.
3. Composition: the Raft transport with bounded mailboxes, and who waits for whom.
4. Supervisor: children that move to nodes of their own, a supervisor of supervisors.
