------------------------------ MODULE HttpPool ------------------------------
(***************************************************************************)
(* The threads of the http-server: httplib's accept loop, the ThreadPool it *)
(* puts connections into, and the keep-alive loop a worker runs on each.    *)
(* What a worker does with one HTTP request is the module HttpServer; here  *)
(* it is the two steps "request" and Respond.                              *)
(*                                                                         *)
(* A section under ThreadPool::mutex_ is one step, except where the accept  *)
(* loop joins threads while it holds the mutex.  The server never calls     *)
(* stop(), and the queue has no limit (max_queued_requests_ is 0): enqueue   *)
(* could only refuse after shutdown, and then the accept loop is over.      *)
(***************************************************************************)
EXTENDS Integers, Sequences, FiniteSets

CONSTANTS
  Conn,          \* the connections clients open
  Base,          \* threads_: the workers that stay
  Dynamic,       \* identifiers for the workers that come and go
  MaxThreads,    \* max_thread_count_
  KeepAliveMax   \* keep_alive_max_count_: HTTP requests per connection

Worker == Base \cup Dynamic
None == "none"

ASSUME PoolAssumption ==
  /\ IsFiniteSet(Base) /\ Base # {} /\ IsFiniteSet(Dynamic) /\ Base \cap Dynamic = {}
  /\ MaxThreads \in Nat /\ Cardinality(Base) <= MaxThreads
  /\ KeepAliveMax \in Nat \ {0}
  /\ None \notin Conn

VARIABLES
  acceptor,    \* where the thread of listen_internal stands
  sock,        \* the connection it has just accepted
  phase,       \* of each connection
  jobs,        \* jobs_: connections nobody has taken up yet
  at,          \* where each worker stands
  conn,        \* the connection a worker carries
  left,        \* count, the turns its keep-alive loop has left
  idle,        \* idle_thread_count_
  dynamic,     \* dynamic_threads_
  finished,    \* finished_threads_: ended or about to, and not joined
  remaining,   \* remaining_dynamic of shutdown()
  shutdown     \* shutdown_

lists == <<dynamic, finished, remaining>>
carried == <<conn, left>>
vars == <<acceptor, sock, phase, jobs, at, carried, idle, lists, shutdown>>

AcceptorPc == {"accept", "enqueue", "spawn", "notify", "shut", "notify_all", "join_base",
               "take", "join_remaining", "cleanup", "stopped"}
WorkerPc == {"none",      \* no such thread
             "ready",     \* at the top of the loop, about to take the mutex
             "asleep",    \* blocked in wait or wait_for
             "notified",  \* woken, about to take the mutex again
             "expired",   \* wait_for has timed out, likewise
             "alive",     \* in keep_alive, waiting for the client
             "request",   \* in process_request
             "after",     \* the job is done
             "ending", "ended"}

TypeOK ==
  /\ acceptor \in AcceptorPc
  /\ sock \in Conn \cup {None}
  /\ phase \in [Conn -> {"away", "accepted", "closed"}]
  /\ jobs \in Seq(Conn)
  /\ at \in [Worker -> WorkerPc]
  /\ conn \in [Worker -> Conn \cup {None}]
  /\ left \in [Worker -> 0 .. KeepAliveMax]
  /\ idle \in Int
  /\ dynamic \subseteq Dynamic /\ finished \subseteq Dynamic /\ remaining \subseteq Dynamic
  /\ shutdown \in BOOLEAN

\* The accept loop holds the mutex from here while it joins.
MutexFree == acceptor \notin {"spawn", "cleanup"}

-----------------------------------------------------------------------------
(* listen_internal and ThreadPool::enqueue. *)

Accept(c) ==
  /\ acceptor = "accept"
  /\ phase[c] = "away"
  /\ acceptor' = "enqueue"
  /\ sock' = c
  /\ phase' = [phase EXCEPT ![c] = "accepted"]
  /\ UNCHANGED <<jobs, at, carried, idle, lists, shutdown>>

\* accept fails otherwise than for a moment: the loop ends and closes the listening
\* socket, but svr_sock_ keeps its value, so the keep-alive loops do not notice.
AcceptFails ==
  /\ acceptor = "accept"
  /\ acceptor' = "shut"
  /\ UNCHANGED <<sock, phase, jobs, at, carried, idle, lists, shutdown>>

\* Mutant of MayGrow: the limit is looked at too late.
MayGrowBeyond == idle = 0 /\ Cardinality(Base) + Cardinality(dynamic) <= MaxThreads

\* No worker is in a wait and the pool is not at its limit.
MayGrow == idle = 0 /\ Cardinality(Base) + Cardinality(dynamic) < MaxThreads

Enqueue ==
  /\ acceptor = "enqueue"
  /\ jobs' = Append(jobs, sock)
  /\ sock' = None
  /\ acceptor' = IF MayGrow THEN "spawn" ELSE "notify"
  /\ UNCHANGED <<phase, at, carried, idle, lists, shutdown>>

Joined(set) == [w \in Worker |-> IF w \in set THEN "none" ELSE at[w]]

\* Still under the mutex, cleanup_finished_threads joins, then a worker is started.
Spawn(w) ==
  /\ acceptor = "spawn"
  /\ \A f \in finished : at[f] = "ended"
  /\ Joined(finished)[w] = "none"
  /\ finished' = {}
  /\ at' = [Joined(finished) EXCEPT ![w] = "ready"]
  /\ dynamic' = dynamic \cup {w}
  /\ acceptor' = "notify"
  /\ UNCHANGED <<sock, phase, jobs, carried, idle, remaining, shutdown>>

Asleep == {w \in Worker : at[w] = "asleep"}

\* Mutant of NotifyOne: nobody is notified.
NotifyNobody ==
  /\ acceptor = "notify"
  /\ acceptor' = "accept"
  /\ UNCHANGED <<sock, phase, jobs, at, carried, idle, lists, shutdown>>

NotifyOne ==
  /\ acceptor = "notify"
  /\ acceptor' = "accept"
  /\ \/ Asleep = {} /\ UNCHANGED at
     \/ \E w \in Asleep : at' = [at EXCEPT ![w] = "notified"]
  /\ UNCHANGED <<sock, phase, jobs, carried, idle, lists, shutdown>>

-----------------------------------------------------------------------------
(* ThreadPool::shutdown, after the accept loop. *)

SetShutdown ==
  /\ acceptor = "shut"
  /\ shutdown' = TRUE
  /\ acceptor' = "notify_all"
  /\ UNCHANGED <<sock, phase, jobs, at, carried, idle, lists>>

\* Mutant of NotifyAll: one worker is notified.
NotifyFirst ==
  /\ acceptor = "notify_all"
  /\ acceptor' = "join_base"
  /\ \/ Asleep = {} /\ UNCHANGED at
     \/ \E w \in Asleep : at' = [at EXCEPT ![w] = "notified"]
  /\ UNCHANGED <<sock, phase, jobs, carried, idle, lists, shutdown>>

NotifyAll ==
  /\ acceptor = "notify_all"
  /\ acceptor' = "join_base"
  /\ at' = [w \in Worker |-> IF w \in Asleep THEN "notified" ELSE at[w]]
  /\ UNCHANGED <<sock, phase, jobs, carried, idle, lists, shutdown>>

JoinBase ==
  /\ acceptor = "join_base"
  /\ \A w \in Base : at[w] = "ended"
  /\ at' = Joined(Base)
  /\ acceptor' = "take"
  /\ UNCHANGED <<sock, phase, jobs, carried, idle, lists, shutdown>>

\* Mutant of TakeDynamic: the local list is never filled.
TakeNothing ==
  /\ acceptor = "take"
  /\ acceptor' = "join_remaining"
  /\ UNCHANGED <<sock, phase, jobs, at, carried, idle, lists, shutdown>>

\* Under the mutex; a worker that ends later no longer finds itself in the list.
TakeDynamic ==
  /\ acceptor = "take"
  /\ remaining' = dynamic
  /\ dynamic' = {}
  /\ acceptor' = "join_remaining"
  /\ UNCHANGED <<sock, phase, jobs, at, carried, idle, finished, shutdown>>

\* ... after which the mutex is taken for the cleanup.
JoinRemaining ==
  /\ acceptor = "join_remaining"
  /\ \A w \in remaining : at[w] = "ended"
  /\ at' = Joined(remaining)
  /\ remaining' = {}
  /\ acceptor' = "cleanup"
  /\ UNCHANGED <<sock, phase, jobs, carried, idle, dynamic, finished, shutdown>>

\* The pool is destroyed next, and main returns.
Cleanup ==
  /\ acceptor = "cleanup"
  /\ \A w \in finished : at[w] = "ended"
  /\ at' = Joined(finished)
  /\ finished' = {}
  /\ acceptor' = "stopped"
  /\ UNCHANGED <<sock, phase, jobs, carried, idle, dynamic, remaining, shutdown>>

-----------------------------------------------------------------------------
(* ThreadPool::worker.  Waiting says whether the worker is counted in idle   *)
(* before the step.                                                         *)

Waiting(w) == at[w] \in {"asleep", "notified", "expired"}
Uncounted(w) == IF Waiting(w) THEN idle - 1 ELSE idle

\* Worker w holds the mutex and evaluates the predicate of its wait.
Wakes(w) == MutexFree /\ at[w] \in {"ready", "notified", "expired"}
HasWork == jobs # <<>> \/ shutdown

Sleep(w) ==
  /\ Wakes(w)
  /\ at[w] # "expired"
  /\ ~HasWork
  /\ at' = [at EXCEPT ![w] = "asleep"]
  /\ idle' = Uncounted(w) + 1
  /\ UNCHANGED <<acceptor, sock, phase, jobs, carried, lists, shutdown>>

\* Mutant of TakeJob: the worker keeps being counted.
TakeJobIdle(w) ==
  /\ Wakes(w)
  /\ jobs # <<>>
  /\ conn' = [conn EXCEPT ![w] = Head(jobs)]
  /\ left' = [left EXCEPT ![w] = KeepAliveMax]
  /\ jobs' = Tail(jobs)
  /\ at' = [at EXCEPT ![w] = "alive"]
  /\ UNCHANGED <<acceptor, sock, phase, idle, lists, shutdown>>

TakeJob(w) ==
  /\ Wakes(w)
  /\ jobs # <<>>
  /\ conn' = [conn EXCEPT ![w] = Head(jobs)]
  /\ left' = [left EXCEPT ![w] = KeepAliveMax]
  /\ jobs' = Tail(jobs)
  /\ at' = [at EXCEPT ![w] = "alive"]
  /\ idle' = Uncounted(w)
  /\ UNCHANGED <<acceptor, sock, phase, lists, shutdown>>

\* Mutant of Break: the worker leaves its jobs behind.
BreakAtOnce(w) ==
  /\ Wakes(w)
  /\ shutdown
  /\ at' = [at EXCEPT ![w] = "ending"]
  /\ idle' = Uncounted(w)
  /\ UNCHANGED <<acceptor, sock, phase, jobs, carried, lists, shutdown>>

\* Shutdown and nothing left: the loop ends.
Break(w) ==
  /\ Wakes(w)
  /\ shutdown /\ jobs = <<>>
  /\ at' = [at EXCEPT ![w] = "ending"]
  /\ idle' = Uncounted(w)
  /\ UNCHANGED <<acceptor, sock, phase, jobs, carried, lists, shutdown>>

\* move_to_finished finds the worker in dynamic_threads_, or shutdown() has it.
MoveToFinished(w) ==
  /\ finished' = finished \cup (dynamic \cap {w})
  /\ dynamic' = dynamic \ {w}
  /\ UNCHANGED remaining

\* A dynamic worker has waited long enough and finds no work.
Retire(w) ==
  /\ Wakes(w)
  /\ w \in Dynamic /\ at[w] = "expired"
  /\ ~HasWork
  /\ idle' = Uncounted(w)
  /\ MoveToFinished(w)
  /\ at' = [at EXCEPT ![w] = "ending"]
  /\ UNCHANGED <<acceptor, sock, phase, jobs, carried, shutdown>>

\* A base worker goes on; a dynamic one ends if the queue is empty.
Continue(w) ==
  /\ at[w] = "after"
  /\ w \in Dynamic => MutexFree /\ jobs # <<>>
  /\ at' = [at EXCEPT ![w] = "ready"]
  /\ UNCHANGED <<acceptor, sock, phase, jobs, carried, idle, lists, shutdown>>

Leave(w) ==
  /\ at[w] = "after"
  /\ w \in Dynamic /\ MutexFree /\ jobs = <<>>
  /\ MoveToFinished(w)
  /\ at' = [at EXCEPT ![w] = "ending"]
  /\ UNCHANGED <<acceptor, sock, phase, jobs, carried, idle, shutdown>>

\* The thread function returns.
End(w) ==
  /\ at[w] = "ending"
  /\ at' = [at EXCEPT ![w] = "ended"]
  /\ UNCHANGED <<acceptor, sock, phase, jobs, carried, idle, lists, shutdown>>

-----------------------------------------------------------------------------
(* The job: process_and_close_socket and its keep-alive loop. *)

\* The client sends a request.
Ready(w) ==
  /\ at[w] = "alive"
  /\ left[w] > 0
  /\ at' = [at EXCEPT ![w] = "request"]
  /\ UNCHANGED <<acceptor, sock, phase, jobs, carried, idle, lists, shutdown>>

\* It is answered, and the connection is kept.
Respond(w) ==
  /\ at[w] = "request"
  /\ at' = [at EXCEPT ![w] = "alive"]
  /\ left' = [left EXCEPT ![w] = @ - 1]
  /\ UNCHANGED <<acceptor, sock, phase, jobs, conn, idle, lists, shutdown>>

\* Mutant of Close: the job ends and the socket stays open.
CloseNothing(w) ==
  /\ at[w] \in {"alive", "request"}
  /\ at' = [at EXCEPT ![w] = "after"]
  /\ conn' = [conn EXCEPT ![w] = None]
  /\ UNCHANGED <<acceptor, sock, phase, jobs, left, idle, lists, shutdown>>

\* The client is silent too long, or gone, or has used up its turns; or the answer
\* could not be written, or one of the two asked for the connection to be closed.
Close(w) ==
  /\ at[w] \in {"alive", "request"}
  /\ at' = [at EXCEPT ![w] = "after"]
  /\ phase' = [phase EXCEPT ![conn[w]] = "closed"]
  /\ conn' = [conn EXCEPT ![w] = None]
  /\ UNCHANGED <<acceptor, sock, jobs, left, idle, lists, shutdown>>

-----------------------------------------------------------------------------
(* The condition variable wakes a worker that was not notified, or times out. *)

Spurious(w) ==
  /\ at[w] = "asleep"
  /\ at' = [at EXCEPT ![w] = "notified"]
  /\ UNCHANGED <<acceptor, sock, phase, jobs, carried, idle, lists, shutdown>>

Expire(w) ==
  /\ w \in Dynamic
  /\ at[w] = "asleep"
  /\ at' = [at EXCEPT ![w] = "expired"]
  /\ UNCHANGED <<acceptor, sock, phase, jobs, carried, idle, lists, shutdown>>

-----------------------------------------------------------------------------
Init ==
  /\ acceptor = "accept"
  /\ sock = None
  /\ phase = [c \in Conn |-> "away"]
  /\ jobs = <<>>
  /\ at = [w \in Worker |-> IF w \in Base THEN "ready" ELSE "none"]
  /\ conn = [w \in Worker |-> None]
  /\ left = [w \in Worker |-> 0]
  /\ idle = 0
  /\ dynamic = {} /\ finished = {} /\ remaining = {}
  /\ shutdown = FALSE

Listen ==
  \/ Enqueue
  \/ \E w \in Dynamic : Spawn(w)
  \/ NotifyOne
  \/ SetShutdown \/ NotifyAll \/ JoinBase \/ TakeDynamic \/ JoinRemaining \/ Cleanup

Work(w) ==
  \/ Sleep(w) \/ TakeJob(w) \/ Break(w) \/ Retire(w)
  \/ Continue(w) \/ Leave(w) \/ End(w)
  \/ Respond(w) \/ Close(w)

PoolNext ==
  \/ \E c \in Conn : Accept(c)
  \/ AcceptFails
  \/ Listen
  \/ \E w \in Worker : Work(w) \/ Ready(w) \/ Spurious(w) \/ Expire(w)

Spec == Init /\ [][PoolNext]_vars

\* The accept loop and a worker that can run do; a client that stays silent is
\* given up after keep_alive_timeout_sec_, one that reads or writes too slowly after
\* the timeouts of its socket, so a job always comes to its next step.
FairSpec == Spec /\ WF_vars(Listen) /\ \A w \in Worker : WF_vars(Work(w))

-----------------------------------------------------------------------------
(* Properties. *)

\* Workers that look at the queue before they sleep, whatever happens.
Coming == {w \in Worker : at[w] \in {"ready", "notified", "expired"}}

\* No wakeup is lost: while a worker sleeps, every connection in the queue has a
\* worker on its way, or is about to be announced.  This holds through spurious
\* wakeups, timeouts and notifications that reach a worker whose job another took.
NoLostWakeup ==
  Asleep # {} =>
    Len(jobs) <= Cardinality(Coming) + (IF acceptor \in {"spawn", "notify"} THEN 1 ELSE 0)

\* There are never more threads at work than max_thread_count_, although only those
\* are counted that are in one of the two lists when a connection is put in.
PoolBounded == Cardinality({w \in Worker : at[w] \notin {"none", "ending", "ended"}}) <= MaxThreads

\* idle_thread_count_ is the number of workers inside a wait, so it is zero again
\* whenever none is, through every way into a wait and out of it.
IdleCounted == idle = Cardinality({w \in Worker : Waiting(w)})

\* Every accepted connection is in one place: with the accept loop, once in the queue,
\* or with one worker.  A closed one is in none.
InQueue(c) == {i \in 1 .. Len(jobs) : jobs[i] = c}
Carriers(c) == {w \in Worker : conn[w] = c}
OnePlace ==
  \A c \in Conn :
    LET places == Cardinality(InQueue(c)) + Cardinality(Carriers(c)) + (IF sock = c THEN 1 ELSE 0)
    IN  places = IF phase[c] = "accepted" THEN 1 ELSE 0

\* When shutdown() returns, every connection that was accepted has been closed by its
\* job and every thread has been joined: nothing touches the destroyed pool.
GoneWhenStopped ==
  acceptor = "stopped" =>
    /\ \A w \in Worker : at[w] = "none"
    /\ \A c \in Conn : phase[c] # "accepted"

\* Every accepted connection is carried by a worker and closed in the end, also those
\* still in the queue when the server shuts down.
EveryConnectionClosed == \A c \in Conn : phase[c] = "accepted" ~> phase[c] = "closed"

\* Once accept has failed, listen returns, so that the process ends and the supervisor
\* can start it again: no join waits for ever, with or without the mutex held.
ListenReturns == acceptor = "shut" ~> acceptor = "stopped"
=============================================================================
