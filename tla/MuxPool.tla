------------------------------ MODULE MuxPool ------------------------------
(***************************************************************************)
(* The growable pool of mux.c: workers that each poll a listener of their  *)
(* own, grow the pool when one of them has many connections, leave it when *)
(* idle, and mux-close! from the thread that was in mux-listen!.  What a   *)
(* worker does for a connection is in MuxConn; here connections are only   *)
(* counted.                                                                *)
(*                                                                         *)
(* The steps of a thread between two accesses to what threads share        *)
(* (g_pool_count, the set of listeners under its lock, the table of file   *)
(* descriptors) are separate actions.                                      *)
(***************************************************************************)
EXTENDS Integers, Sequences, FiniteSets, FiniteSetsExt

CONSTANTS Worker,                  \* threads that may be a worker, a set of naturals
          pool_min, pool_max,
          POOL_GROW_HIGH_WATER, POOL_SHRINK_IDLE_TICKS,
          Fd,                      \* descriptor numbers, a set of naturals
          FdsReused,               \* does the system hand out a closed number again?
          MaxConnects, MaxFailures \* connections made, calls that fail

ASSUME PoolAssumption ==
  pool_min \in Nat /\ pool_max \in Nat /\ 0 < pool_min /\ pool_min <= pool_max
\* 0 stands for no descriptor and no thread.
ASSUME ThreadAssumption ==
  Worker \subseteq Nat \ {0} /\ IsFiniteSet(Worker) /\ Fd \subseteq Nat \ {0}

VARIABLES worker,    \* what each thread is doing
          g_pool_count,
          held,      \* g_pool_fds
          open,      \* open listeners: a function from descriptors to their workers
          closed,    \* descriptors that have been closed
          misclosed, \* was one closed that was not the closer's?
          server,    \* "new", "starting", "listening", "closed" (mux-close!) or "failed"
          main,      \* the worker on the thread that called mux-listen!
          connects, failures

poolVars == <<worker, g_pool_count, held, open, closed, misclosed, server, main, connects, failures>>

NoFd == 0

\* state: "none", "starting", "serving", "reserved" (grow, before bind), "bound" (before the
\* listener is in the set), "added" (before the thread exists), "rollback",
\* "leaving" (no longer counted, still in the set), "gone".  next: the worker being
\* started.
Idle == [state |-> "none", permanent |-> FALSE, fd |-> NoFd, conns |-> 0, ticks |-> 0, next |-> NoFd]

\* Threads not in use; the one to be created next has the lowest number.
Free == {w \in Worker : worker[w].state = "none" /\ \A v \in Worker : worker[v].next # w}
NewThread(w) == Free # {} /\ w = Min(Free)

\* The number the system gives to a new listener: any that is free, other files
\* and sockets of the process having taken the rest; or one never given before.
FreshFd(f) ==
  LET unused == Fd \ (DOMAIN open \cup closed)
  IN IF FdsReused THEN f \notin DOMAIN open ELSE unused # {} /\ f = Min(unused)

Opened(f, w) == [g \in DOMAIN open \cup {f} |-> IF g = f THEN w ELSE open[g]]
Closing(S) == [g \in DOMAIN open \ S |-> open[g]]

Fail == failures < MaxFailures /\ failures' = failures + 1

-----------------------------------------------------------------------------
(* mux-listen!                                                              *)

Serving(f, permanent) ==
  [state |-> "serving", permanent |-> permanent, fd |-> f, conns |-> 0, ticks |-> 0, next |-> NoFd]

Permanent == {w \in Worker : worker[w].permanent}

\* The calling thread binds its listener and sets the count.
bi_mux_listen(w, f) ==
  /\ server = "new" /\ NewThread(w) /\ FreshFd(f)
  /\ server' = "starting"
  /\ main' = w
  /\ g_pool_count' = pool_min
  /\ held' = held \cup {f} /\ open' = Opened(f, w)
  /\ worker' = [worker EXCEPT ![w] = [Serving(f, TRUE) EXCEPT !.state = "starting"]]
  /\ UNCHANGED <<closed, misclosed, connects, failures>>

\* pool_min - 1 listeners more and their permanent workers.
StartPermanent(w, f) ==
  /\ server = "starting" /\ NewThread(w) /\ FreshFd(f)
  /\ Cardinality(Permanent) < pool_min
  /\ held' = held \cup {f} /\ open' = Opened(f, w)
  /\ worker' = [worker EXCEPT ![w] = Serving(f, TRUE)]
  /\ UNCHANGED <<g_pool_count, closed, misclosed, server, main, connects, failures>>

StartMain ==
  /\ server = "starting" /\ Cardinality(Permanent) = pool_min
  /\ server' = "listening"
  /\ worker' = [worker EXCEPT ![main].state = "serving"]
  /\ UNCHANGED <<g_pool_count, held, open, closed, misclosed, main, connects, failures>>

\* A bind or a thread that fails aborts mux-listen!; the workers stay.
ListenFails ==
  /\ server \in {"new", "starting"} /\ Fail
  /\ server' = "failed"
  /\ UNCHANGED <<worker, g_pool_count, held, open, closed, misclosed, main, connects>>

-----------------------------------------------------------------------------
(* g_pool_fds, under its lock                                               *)

fdset_add(f) == held' = held \cup {f}

\* close(2) on a descriptor by the thread that owns owner's listener: it is
\* misplaced when the number is not open, or by now another's.
CloseFd(f, owner) ==
  /\ open' = Closing({f})
  /\ closed' = closed \cup {f}
  /\ misclosed' = (misclosed \/ f \notin DOMAIN open \/ (f \in DOMAIN open /\ open[f] # owner))

fdset_remove_and_close(f, owner) ==
  IF f \in held THEN held' = held \ {f} /\ CloseFd(f, owner)
  ELSE UNCHANGED <<held, open, closed, misclosed>>

\* mux-listen! hands out the server to close when its own loop has ended.
bi_mux_close ==
  /\ server = "listening" /\ worker[main].state = "gone"
  /\ server' = "closed"
  /\ held' = {} /\ open' = Closing(held) /\ closed' = closed \cup held
  /\ UNCHANGED <<worker, g_pool_count, misclosed, main, connects, failures>>

-----------------------------------------------------------------------------
(* pool_try_grow                                                            *)

Step(w, state) == worker' = [worker EXCEPT ![w].state = state]

\* Reserve a place; over the limit it is given back in a second step.
Reserve(w) ==
  /\ g_pool_count' = g_pool_count + 1
  /\ worker' = [worker EXCEPT ![w].ticks = 0,
                              ![w].state = IF g_pool_count + 1 > pool_max THEN "rollback" ELSE "reserved"]
  /\ UNCHANGED <<held, open, closed, misclosed>>

\* Fault: a place that was reserved and not used is kept.
KeepPlace(w) ==
  /\ worker[w].state = "rollback"
  /\ Step(w, "serving")
  /\ UNCHANGED <<g_pool_count, held, open, closed, misclosed, server, main, connects, failures>>

Rollback(w) ==
  /\ worker[w].state = "rollback"
  /\ g_pool_count' = g_pool_count - 1
  /\ Step(w, "serving")
  /\ UNCHANGED <<held, open, closed, misclosed, server, main, connects, failures>>

\* The listener of the new worker n is bound.
bind_listener(w, n, f) ==
  /\ worker[w].state = "reserved" /\ NewThread(n) /\ FreshFd(f)
  /\ open' = Opened(f, n)
  /\ worker' = [worker EXCEPT ![w].state = "bound", ![w].next = n, ![n].fd = f]
  /\ UNCHANGED <<g_pool_count, held, closed, misclosed, server, main, connects, failures>>

BindFails(w) ==
  /\ worker[w].state = "reserved" /\ Fail
  /\ Step(w, "rollback")
  /\ UNCHANGED <<g_pool_count, held, open, closed, misclosed, server, main, connects>>

AddListener(w) ==
  /\ worker[w].state = "bound"
  /\ fdset_add(worker[worker[w].next].fd)
  /\ Step(w, "added")
  /\ UNCHANGED <<g_pool_count, open, closed, misclosed, server, main, connects, failures>>

pool_worker_thread_main(w) ==
  LET n == worker[w].next
  IN /\ worker[w].state = "added"
     /\ worker' = [worker EXCEPT ![w].state = "serving", ![w].next = NoFd,
                                 ![n] = Serving(worker[n].fd, FALSE)]
     /\ UNCHANGED <<g_pool_count, held, open, closed, misclosed, server, main, connects, failures>>

ThreadFails(w) ==
  LET n == worker[w].next
  IN /\ worker[w].state = "added" /\ Fail
     /\ fdset_remove_and_close(worker[n].fd, n)
     /\ worker' = [worker EXCEPT ![w].state = "rollback", ![w].next = NoFd, ![n] = Idle]
     /\ UNCHANGED <<g_pool_count, server, main, connects>>

-----------------------------------------------------------------------------
(* pool_worker_loop                                                         *)

\* A connection reaches some listener; its worker accepts it.
Accept(w) ==
  /\ worker[w].state = "serving" /\ worker[w].fd \in DOMAIN open
  /\ connects < MaxConnects /\ connects' = connects + 1
  /\ worker' = [worker EXCEPT ![w].conns = @ + 1]
  /\ UNCHANGED <<g_pool_count, held, open, closed, misclosed, server, main, failures>>

Disconnect(w) ==
  /\ worker[w].state = "serving" /\ worker[w].conns > 0
  /\ worker' = [worker EXCEPT ![w].conns = @ - 1]
  /\ UNCHANGED <<g_pool_count, held, open, closed, misclosed, server, main, connects, failures>>

\* Fault: the ticks start again at every turn.
TurnWithoutTicks(w) ==
  /\ worker[w].state = "serving"
  /\ IF worker[w].conns >= POOL_GROW_HIGH_WATER THEN Reserve(w)
     ELSE worker' = [worker EXCEPT ![w].ticks = 0] /\ UNCHANGED <<g_pool_count, held, open, closed, misclosed>>
  /\ UNCHANGED <<server, main, connects, failures>>

\* The end of a turn of the loop, after a poll that timed out or returned.  A
\* listener that mux-close! has closed makes poll return at once, not fail.
Turn(w) ==
  LET me == worker[w]
      ticks == IF me.ticks < POOL_SHRINK_IDLE_TICKS THEN me.ticks + 1 ELSE me.ticks
  IN /\ me.state = "serving"
     /\ CASE me.conns = 0 /\ ~me.permanent /\ ticks >= POOL_SHRINK_IDLE_TICKS ->
               /\ g_pool_count' = g_pool_count - 1
               /\ worker' = [worker EXCEPT ![w].state = "leaving"]
               /\ UNCHANGED <<held, open, closed, misclosed>>
          [] me.conns = 0 /\ (me.permanent \/ ticks < POOL_SHRINK_IDLE_TICKS) ->
               /\ worker' = [worker EXCEPT ![w].ticks = ticks]
               /\ UNCHANGED <<g_pool_count, held, open, closed, misclosed>>
          [] me.conns >= POOL_GROW_HIGH_WATER -> Reserve(w)
          [] OTHER ->
               /\ worker' = [worker EXCEPT ![w].ticks = 0]
               /\ UNCHANGED <<g_pool_count, held, open, closed, misclosed>>
     /\ UNCHANGED <<server, main, connects, failures>>

\* A real poll error: the worker falls out of its loop.
PollFails(w) ==
  /\ worker[w].state = "serving" /\ Fail
  /\ g_pool_count' = IF worker[w].permanent THEN g_pool_count ELSE g_pool_count - 1
  /\ Step(w, IF worker[w].permanent THEN "gone" ELSE "leaving")
  /\ UNCHANGED <<held, open, closed, misclosed, server, main, connects>>

\* A thread that left may be created again.
Leave(w) ==
  /\ worker[w].state = "leaving"
  /\ fdset_remove_and_close(worker[w].fd, w)
  /\ worker' = [worker EXCEPT ![w] = Idle]
  /\ UNCHANGED <<g_pool_count, server, main, connects, failures>>

PoolInit ==
  /\ worker = [w \in Worker |-> Idle]
  /\ g_pool_count = 0 /\ held = {} /\ open = <<>> /\ closed = {} /\ misclosed = FALSE
  /\ server = "new" /\ main = NoFd /\ connects = 0 /\ failures = 0

WorkerStep(w) ==
  \/ Rollback(w) \/ AddListener(w) \/ pool_worker_thread_main(w) \/ Turn(w) \/ Leave(w)
  \/ \E n \in Worker, f \in Fd : bind_listener(w, n, f)

PoolNext ==
  \/ bi_mux_close \/ ListenFails \/ StartMain
  \/ \E w \in Worker :
       \/ WorkerStep(w)
       \/ Accept(w) \/ Disconnect(w)
       \/ BindFails(w) \/ ThreadFails(w) \/ PollFails(w)
       \/ \E f \in Fd : bi_mux_listen(w, f) \/ StartPermanent(w, f)

PoolSpec == PoolInit /\ [][PoolNext]_poolVars

-----------------------------------------------------------------------------
(* Properties                                                              *)

Grown(w) == worker[w].state \notin {"none", "leaving", "gone"} /\ ~worker[w].permanent
Growing(w) == worker[w].state \in {"reserved", "bound", "added", "rollback"}

\* The count is exact at every moment: the permanent workers, the grown ones
\* that have not given up their place, and the places reserved by workers that
\* are growing the pool.  No failure of bind, thread or poll makes it drift.
CountExact ==
  Permanent # {} =>
    g_pool_count = pool_min + Cardinality({w \in Worker : Grown(w)}) + Cardinality({w \in Worker : Growing(w)})

\* However many workers grow the pool at once, the threads that serve, and those
\* that are being started, are never more than the pool's limit.
PoolBounded ==
  Cardinality({w \in Worker : worker[w].state \notin {"none", "leaving"} \/ worker[w].fd # NoFd}
              \ {w \in Worker : worker[w].state = "leaving"}) <= pool_max

\* No listener is closed twice, and none by a thread it does not belong to, when
\* workers leave while mux-close! runs; until mux-close! every worker that serves
\* has its own listener open and in the set; and no listener is open outside the
\* set but one that is being added.
OwnListener ==
  /\ ~misclosed
  /\ server # "closed" =>
       \A w \in Worker : worker[w].state \in {"starting", "serving"} \/ Growing(w) =>
         worker[w].fd \in held /\ open[worker[w].fd] = w
  /\ held \subseteq DOMAIN open
  /\ \A f \in DOMAIN open \ held :
       \E w \in Worker : worker[w].state = "bound" /\ worker[worker[w].next].fd = f

\* A grown worker that has nothing to serve leaves the pool.
IdleWorkersLeave ==
  \A w \in Worker :
    (Grown(w) /\ worker[w].conns = 0) ~> (~Grown(w) \/ worker[w].conns > 0)

\* The pool of mux.c keeps its books: threads, limit and listeners.
PoolInOrder == CountExact /\ PoolBounded /\ OwnListener

=============================================================================
