--------------------------- MODULE HttpPoolProofs ---------------------------
(* Proofs about the http-server's thread pool, for every number of workers,   *)
(* connections and turns.                                                    *)
EXTENDS HttpPool, FiniteSetTheorems, TLAPS

LEMMA WorkerFinite == IsFiniteSet(Worker) /\ \A S : S \subseteq Worker => IsFiniteSet(S)
  BY PoolAssumption, FS_Union, FS_Subset DEF Worker

LEMMA Sizes == \A S : S \subseteq Worker => Cardinality(S) \in Nat
  BY WorkerFinite, FS_CardinalityType

LEMMA Turns == KeepAliveMax \in Nat /\ KeepAliveMax > 0
  BY PoolAssumption

LEMMA Workers == Base \subseteq Worker /\ Dynamic \subseteq Worker /\ Base \cap Dynamic = {}
  BY PoolAssumption DEF Worker

\* A step of one worker.
WorkerStep(w) == Work(w) \/ Ready(w) \/ Spurious(w) \/ Expire(w)

-----------------------------------------------------------------------------
(* Typing, with the two facts it needs to be inductive. *)

TypeInv ==
  /\ TypeOK
  /\ acceptor = "enqueue" => sock \in Conn
  /\ \A w \in Worker : at[w] = "request" => left[w] > 0

LEMMA TypeInit == Init => TypeInv
  <1> SUFFICES ASSUME Init PROVE TypeInv
    OBVIOUS
  <1>1. at \in [Worker -> WorkerPc] /\ \A w \in Worker : at[w] # "request"
    BY DEF Init, WorkerPc
  <1>2. left \in [Worker -> 0 .. KeepAliveMax] /\ jobs \in Seq(Conn)
    BY Turns DEF Init
  <1>3. /\ acceptor \in AcceptorPc /\ acceptor # "enqueue"
        /\ sock \in Conn \cup {None} /\ phase \in [Conn -> {"away", "accepted", "closed"}]
        /\ conn \in [Worker -> Conn \cup {None}]
    BY DEF Init, AcceptorPc
  <1>4. idle \in Int /\ dynamic \subseteq Dynamic /\ finished \subseteq Dynamic /\ remaining \subseteq Dynamic
    BY DEF Init
  <1>5. shutdown \in BOOLEAN
    BY DEF Init
  <1>6. TypeOK
    BY <1>1, <1>2, <1>3, <1>4, <1>5 DEF TypeOK
  <1>7. QED
    BY <1>1, <1>3, <1>6 DEF TypeInv

LEMMA TypeListen ==
  ASSUME TypeInv, Listen \/ AcceptFails \/ \E c \in Conn : Accept(c) PROVE TypeInv'
  <1> USE DEF TypeInv, TypeOK, AcceptorPc, WorkerPc, lists, carried
  <1>1. ASSUME NEW c \in Conn, Accept(c) PROVE TypeInv'
    BY <1>1 DEF Accept
  <1>2. CASE AcceptFails \/ NotifyOne \/ SetShutdown \/ NotifyAll \/ TakeDynamic
    BY <1>2, PoolAssumption DEF AcceptFails, NotifyOne, SetShutdown, NotifyAll, TakeDynamic, Asleep
  <1>3. CASE Enqueue
    BY <1>3, PoolAssumption DEF Enqueue
  <1>4. ASSUME NEW w \in Dynamic, Spawn(w) PROVE TypeInv'
    BY <1>4 DEF Spawn, Joined
  <1>5. CASE JoinBase \/ JoinRemaining \/ Cleanup
    <2>1. at' \in [Worker -> WorkerPc] /\ \A w \in Worker : at'[w] \in {at[w], "none"}
      BY <1>5 DEF JoinBase, JoinRemaining, Cleanup, Joined
    <2>2. /\ acceptor' \in {"take", "cleanup", "stopped"} /\ finished' \subseteq finished
          /\ remaining' \subseteq remaining /\ UNCHANGED <<sock, phase, jobs, carried, idle, dynamic, shutdown>>
      BY <1>5 DEF JoinBase, JoinRemaining, Cleanup
    <2>3. TypeOK'
      BY <2>1, <2>2
    <2>4. \A w \in Worker : at'[w] = "request" => left'[w] > 0
      BY <2>1, <2>2
    <2>5. QED
      BY <2>2, <2>3, <2>4
  <1>6. QED
    BY <1>1, <1>2, <1>3, <1>4, <1>5 DEF Listen

LEMMA TypeWorker == ASSUME TypeInv, NEW w \in Worker, WorkerStep(w) PROVE TypeInv'
  <1> USE DEF TypeInv, TypeOK, AcceptorPc, WorkerPc, lists, carried
  <1>0. Uncounted(w) \in Int /\ Uncounted(w) + 1 \in Int
    BY DEF Uncounted
  <1>1. CASE Sleep(w) \/ Break(w)
    BY <1>0, <1>1 DEF Sleep, Break
  <1>2. CASE TakeJob(w)
    <2>1. Head(jobs) \in Conn /\ Tail(jobs) \in Seq(Conn)
      BY <1>2 DEF TakeJob
    <2>2. QED
      BY <1>0, <1>2, <2>1, Turns DEF TakeJob
  <1>3. CASE Retire(w) \/ Leave(w)
    <2>1. dynamic' \subseteq Dynamic /\ finished' \subseteq Dynamic /\ remaining' = remaining
      BY <1>3 DEF Retire, Leave, MoveToFinished
    <2>2. at' = [at EXCEPT ![w] = "ending"] /\ idle' \in Int
      BY <1>0, <1>3 DEF Retire, Leave
    <2>3. QED
      BY <1>3, <2>1, <2>2 DEF Retire, Leave
  <1>4. CASE Continue(w) \/ End(w) \/ Ready(w) \/ Spurious(w) \/ Expire(w)
    BY <1>4 DEF Continue, End, Ready, Spurious, Expire
  <1>5. CASE Respond(w) \/ Close(w)
    <2>1. left' \in [Worker -> 0 .. KeepAliveMax]
      BY SMTT(30), <1>5, Turns DEF Respond, Close
    <2>2. QED
      BY <1>5, <2>1 DEF Respond, Close
  <1>6. QED
    BY <1>1, <1>2, <1>3, <1>4, <1>5 DEF WorkerStep, Work

LEMMA TypeStep == TypeInv /\ [PoolNext]_vars => TypeInv'
  <1> SUFFICES ASSUME TypeInv, [PoolNext]_vars PROVE TypeInv'
    OBVIOUS
  <1>1. CASE UNCHANGED vars
    BY <1>1 DEF TypeInv, TypeOK, vars, lists, carried
  <1>2. QED
    BY <1>1, TypeListen, TypeWorker DEF PoolNext, WorkerStep

LEMMA TypeInvariant == Spec => []TypeInv
  BY TypeInit, TypeStep, PTL DEF Spec

\* Every variable keeps to its type; no connection gets more turns than it may.
THEOREM PoolTyping == Spec => []TypeOK
  BY TypeInvariant, PTL DEF TypeInv

-----------------------------------------------------------------------------
(* No wakeup is lost.  The invariant is inductive: a worker falls asleep only  *)
(* over an empty queue, and a connection that is put in is announced.          *)

Announced == IF acceptor \in {"spawn", "notify"} THEN 1 ELSE 0

LEMMA ComingGrows ==
  ASSUME TypeInv, NoLostWakeup, jobs' = jobs, Coming \subseteq Coming', Coming' \subseteq Worker,
         Asleep' # {} => Asleep # {}, acceptor' = acceptor
  PROVE  NoLostWakeup'
  <1>1. Cardinality(Coming) <= Cardinality(Coming')
    BY WorkerFinite, FS_Subset
  <1>2. Cardinality(Coming) \in Nat /\ Cardinality(Coming') \in Nat
    BY Sizes DEF Coming
  <1>3. QED
    BY <1>1, <1>2 DEF NoLostWakeup, TypeInv, TypeOK

LEMMA WakeWorker ==
  ASSUME TypeInv, NoLostWakeup, NEW w \in Worker, WorkerStep(w) PROVE NoLostWakeup'
  <1> USE DEF TypeInv, TypeOK
  <1>0. at \in [Worker -> WorkerPc] /\ Coming \subseteq Worker /\ Coming' \subseteq Worker
    BY DEF Coming
  <1>1. CASE jobs' = <<>>
    BY <1>1, <1>0, Sizes DEF NoLostWakeup
  <1>2. CASE TakeJob(w)
    <2>1. w \in Coming /\ Coming' = Coming \ {w}
      BY <1>2 DEF TakeJob, Wakes, Coming
    <2>2. Cardinality(Coming') = Cardinality(Coming) - 1
      BY <2>1, <1>0, WorkerFinite, FS_RemoveElement
    <2>3. Len(jobs') = Len(jobs) - 1 /\ acceptor' = acceptor
      BY <1>2 DEF TakeJob
    <2>4. Asleep' # {} => Asleep # {}
      BY <1>2 DEF TakeJob, Asleep
    <2>5. Cardinality(Coming) \in Nat /\ Len(jobs) \in Nat
      BY <1>0, Sizes
    <2>6. QED
      BY <2>2, <2>3, <2>4, <2>5 DEF NoLostWakeup
  <1>3. CASE Sleep(w) \/ Break(w) \/ Retire(w) \/ Leave(w)
    <2>1. jobs' = <<>>
      BY <1>3 DEF Sleep, Break, Retire, Leave, HasWork
    <2>2. QED
      BY <1>1, <2>1
  <1>4. CASE \/ Continue(w) \/ End(w) \/ Respond(w) \/ Close(w) \/ Ready(w)
             \/ Spurious(w) \/ Expire(w)
    <2>1. /\ jobs' = jobs /\ acceptor' = acceptor
          /\ Coming \subseteq Coming' /\ (Asleep' # {} => Asleep # {})
      BY <1>4 DEF Continue, End, Respond, Close, Ready, Spurious, Expire, Coming, Asleep
    <2>2. QED
      BY <1>0, <2>1, ComingGrows
  <1>5. QED
    BY <1>2, <1>3, <1>4 DEF WorkerStep, Work

LEMMA WakeListen ==
  ASSUME TypeInv, NoLostWakeup, Listen \/ AcceptFails \/ \E c \in Conn : Accept(c)
  PROVE  NoLostWakeup'
  <1> USE DEF TypeInv, TypeOK
  <1>0. /\ Coming \subseteq Worker /\ Coming' \subseteq Worker
        /\ Cardinality(Coming) \in Nat /\ Cardinality(Coming') \in Nat /\ Len(jobs) \in Nat
    BY Sizes DEF Coming
  <1>1. CASE AcceptFails \/ SetShutdown \/ TakeDynamic \/ \E c \in Conn : Accept(c)
    BY <1>0, <1>1 DEF AcceptFails, SetShutdown, TakeDynamic, Accept, NoLostWakeup, Coming, Asleep
  <1>2. CASE Enqueue
    <2>1. Len(jobs') = Len(jobs) + 1 /\ at' = at /\ acceptor = "enqueue"
          /\ acceptor' \in {"spawn", "notify"}
      BY <1>2 DEF Enqueue
    <2>2. QED
      BY <1>0, <2>1 DEF NoLostWakeup, Coming, Asleep
  <1>3. ASSUME NEW w \in Dynamic, Spawn(w) PROVE NoLostWakeup'
    <2>1. Coming \subseteq Coming' /\ Asleep' \subseteq Asleep
      BY <1>3 DEF Spawn, Joined, Coming, Asleep
    <2>2. Cardinality(Coming) <= Cardinality(Coming')
      BY <1>0, <2>1, WorkerFinite, FS_Subset
    <2>3. QED
      BY <1>0, <1>3, <2>1, <2>2 DEF Spawn, NoLostWakeup
  <1>4. CASE NotifyOne
    <2>1. CASE Asleep = {}
      BY <1>4, <2>1 DEF NotifyOne, NoLostWakeup, Asleep
    <2>2. ASSUME NEW w \in Asleep, at' = [at EXCEPT ![w] = "notified"] PROVE NoLostWakeup'
      <3>1. w \notin Coming /\ Coming' = Coming \cup {w}
        BY <2>2 DEF Coming, Asleep
      <3>2. Cardinality(Coming') = Cardinality(Coming) + 1
        BY <1>0, <3>1, WorkerFinite, FS_AddElement
      <3>3. QED
        BY <1>0, <1>4, <2>2, <3>2 DEF NotifyOne, NoLostWakeup
    <2>3. QED
      BY <1>4, <2>1, <2>2 DEF NotifyOne
  <1>5. CASE NotifyAll
    BY <1>5 DEF NotifyAll, NoLostWakeup, Asleep
  <1>6. CASE JoinBase \/ JoinRemaining \/ Cleanup
    <2>1. Coming' = Coming /\ Asleep' = Asleep
      BY <1>6, PoolAssumption DEF JoinBase, JoinRemaining, Cleanup, Joined, Coming, Asleep, Worker
    <2>2. QED
      BY <1>0, <1>6, <2>1 DEF JoinBase, JoinRemaining, Cleanup, NoLostWakeup
  <1>7. QED
    BY <1>1, <1>2, <1>3, <1>4, <1>5, <1>6 DEF Listen

LEMMA WakeStep == TypeInv /\ NoLostWakeup /\ [PoolNext]_vars => NoLostWakeup'
  <1> SUFFICES ASSUME TypeInv, NoLostWakeup, [PoolNext]_vars PROVE NoLostWakeup'
    OBVIOUS
  <1>1. CASE UNCHANGED vars
    BY <1>1 DEF NoLostWakeup, Coming, Asleep, vars
  <1>2. QED
    BY <1>1, WakeListen, WakeWorker DEF PoolNext, WorkerStep

\* However many workers and connections there are, no worker sleeps over a connection
\* that nobody is coming for.
THEOREM WakeupsKept == Spec => []NoLostWakeup
  <1>1. Init => NoLostWakeup
    BY DEF Init, NoLostWakeup, Asleep
  <1>2. QED
    BY <1>1, WakeStep, TypeInvariant, PTL DEF Spec

-----------------------------------------------------------------------------
(* idle_thread_count_ counts the workers inside a wait. *)

Waiters == {w \in Worker : Waiting(w)}

\* One worker enters a wait, leaves it, or does neither.
LEMMA CountOne ==
  ASSUME TypeInv, IdleCounted, NEW w \in Worker,
         \A v \in Worker \ {w} : at'[v] = at[v],
         \/ Waiters' = Waiters /\ idle' = idle
         \/ Waiters' = Waiters \cup {w} /\ idle' = Uncounted(w) + 1
         \/ Waiters' = Waiters \ {w} /\ idle' = Uncounted(w)
  PROVE  IdleCounted'
  <1>1. IsFiniteSet(Waiters) /\ Cardinality(Waiters) \in Nat
    BY WorkerFinite, Sizes DEF Waiters
  <1>2. Cardinality(Waiters \cup {w}) = IF w \in Waiters THEN Cardinality(Waiters) ELSE Cardinality(Waiters) + 1
    BY <1>1, FS_AddElement
  <1>3. Cardinality(Waiters \ {w}) = IF w \in Waiters THEN Cardinality(Waiters) - 1 ELSE Cardinality(Waiters)
    BY <1>1, FS_RemoveElement
  <1>4. idle = Cardinality(Waiters) /\ (IdleCounted' <=> idle' = Cardinality(Waiters'))
    BY DEF IdleCounted, Waiters
  <1>5. Uncounted(w) = IF w \in Waiters THEN idle - 1 ELSE idle
    BY DEF Uncounted, Waiters
  <1>6. CASE Waiters' = Waiters /\ idle' = idle
    BY <1>4, <1>6
  <1>7. CASE Waiters' = Waiters \cup {w} /\ idle' = Uncounted(w) + 1
    <2>1. Cardinality(Waiters') = Cardinality(Waiters \cup {w})
      BY <1>7
    <2>2. Cardinality(Waiters') = idle'
      BY <1>1, <1>2, <1>4, <1>5, <1>7, <2>1
    <2>3. QED
      BY <1>4, <2>2
  <1>8. CASE Waiters' = Waiters \ {w} /\ idle' = Uncounted(w)
    <2>1. Cardinality(Waiters') = Cardinality(Waiters \ {w})
      BY <1>8
    <2>2. Cardinality(Waiters') = idle'
      BY <1>1, <1>3, <1>4, <1>5, <1>8, <2>1
    <2>3. QED
      BY <1>4, <2>2
  <1>9. QED
    BY <1>6, <1>7, <1>8

LEMMA CountWorker ==
  ASSUME TypeInv, IdleCounted, NEW w \in Worker, WorkerStep(w) PROVE IdleCounted'
  <1> USE DEF TypeInv, TypeOK
  <1>1. \A v \in Worker \ {w} : at'[v] = at[v]
    BY DEF WorkerStep, Work, Sleep, TakeJob, Break, Retire, Continue, Leave, End, Respond, Close,
       Ready, Spurious, Expire
  <1>2. CASE Sleep(w)
    <2>1. Waiters' = Waiters \cup {w} /\ idle' = Uncounted(w) + 1
      BY <1>2 DEF Sleep, Wakes, Waiters, Waiting
    <2>2. QED
      BY <1>1, <2>1, CountOne
  <1>3. CASE TakeJob(w) \/ Break(w) \/ Retire(w)
    <2>1. Waiters' = Waiters \ {w} /\ idle' = Uncounted(w)
      BY <1>3 DEF TakeJob, Break, Retire, Wakes, Waiters, Waiting
    <2>2. QED
      BY <1>1, <2>1, CountOne
  <1>4. CASE \/ Continue(w) \/ Leave(w) \/ End(w) \/ Respond(w) \/ Close(w) \/ Ready(w)
             \/ Spurious(w) \/ Expire(w)
    <2>1. Waiters' = Waiters /\ idle' = idle
      BY <1>4 DEF Continue, Leave, End, Respond, Close, Ready, Spurious, Expire, Waiters, Waiting
    <2>2. QED
      BY <1>1, <2>1, CountOne
  <1>5. QED
    BY <1>2, <1>3, <1>4 DEF WorkerStep, Work

LEMMA CountListen ==
  ASSUME TypeInv, IdleCounted, Listen \/ AcceptFails \/ \E c \in Conn : Accept(c)
  PROVE  IdleCounted'
  <1> USE DEF TypeInv, TypeOK
  <1>1. Waiters' = Waiters /\ idle' = idle
    <2>1. CASE \/ AcceptFails \/ Enqueue \/ SetShutdown \/ TakeDynamic
               \/ \E c \in Conn : Accept(c)
      BY <2>1 DEF AcceptFails, Enqueue, SetShutdown, TakeDynamic, Accept, Waiters, Waiting
    <2>2. CASE NotifyOne \/ NotifyAll
      BY <2>2 DEF NotifyOne, NotifyAll, Asleep, Waiters, Waiting
    <2>3. CASE JoinBase \/ JoinRemaining \/ Cleanup
      BY <2>3, Workers DEF JoinBase, JoinRemaining, Cleanup, Joined, Waiters, Waiting
    <2>4. ASSUME NEW w \in Dynamic, Spawn(w) PROVE Waiters' = Waiters /\ idle' = idle
      BY <2>4 DEF Spawn, Joined, Waiters, Waiting
    <2>5. QED
      BY <2>1, <2>2, <2>3, <2>4 DEF Listen
  <1>2. QED
    BY <1>1 DEF IdleCounted, Waiters

LEMMA CountStep == TypeInv /\ IdleCounted /\ [PoolNext]_vars => IdleCounted'
  <1> SUFFICES ASSUME TypeInv, IdleCounted, [PoolNext]_vars PROVE IdleCounted'
    OBVIOUS
  <1>1. CASE UNCHANGED vars
    BY <1>1 DEF IdleCounted, Waiting, vars
  <1>2. QED
    BY <1>1, CountListen, CountWorker DEF PoolNext, WorkerStep

\* The count by which enqueue decides to start a worker is exact.
THEOREM IdleExact == Spec => []IdleCounted
  <1>1. Init => IdleCounted
    <2> SUFFICES ASSUME Init PROVE IdleCounted
      OBVIOUS
    <2>1. {w \in Worker : Waiting(w)} = {}
      BY DEF Init, Waiting
    <2>2. QED
      BY <2>1, FS_EmptySet DEF Init, IdleCounted
  <1>2. QED
    BY <1>1, CountStep, TypeInvariant, PTL DEF Spec

-----------------------------------------------------------------------------
(* The lists of threads.  Every dynamic thread is in one of them until it is    *)
(* joined, and one in finished_threads_ is past its last use of the mutex.      *)

ListInv ==
  /\ acceptor # "join_remaining" => remaining = {}
  /\ \A w \in Dynamic : at[w] # "none" => w \in dynamic \cup remaining \cup finished
  /\ \A w \in finished : at[w] \in {"ending", "ended"}
  /\ finished \cap (dynamic \cup remaining) = {}
  /\ acceptor \in {"join_remaining", "cleanup", "stopped"} => dynamic = {}
  /\ acceptor = "stopped" => finished = {}

RoomInv ==
  /\ Cardinality(Base) + Cardinality(dynamic \cup remaining) <= MaxThreads
  /\ acceptor = "spawn" => Cardinality(Base) + Cardinality(dynamic) < MaxThreads

LEMMA ListInit == Init => ListInv /\ RoomInv
  <1>1. Init => ListInv
    BY Workers DEF Init, ListInv
  <1>2. ASSUME Init PROVE Cardinality(dynamic \cup remaining) = 0
    BY <1>2, FS_EmptySet DEF Init
  <1>3. Cardinality(Base) \in Nat /\ Cardinality(Base) <= MaxThreads /\ MaxThreads \in Nat
    BY PoolAssumption, Sizes, Workers
  <1>4. ASSUME Init PROVE RoomInv
    <2>1. acceptor # "spawn"
      BY <1>4 DEF Init
    <2>2. Cardinality(Base) + Cardinality(dynamic \cup remaining) <= MaxThreads
      BY <1>2, <1>3, <1>4
    <2>3. QED
      BY <2>1, <2>2 DEF RoomInv
  <1>5. QED
    BY <1>1, <1>4

LEMMA ListWorker == ASSUME TypeInv, ListInv, NEW w \in Worker, WorkerStep(w) PROVE ListInv'
  <1> USE DEF TypeInv, TypeOK, ListInv
  <1>1. CASE Retire(w) \/ Leave(w)
    <2>1. acceptor' = acceptor /\ remaining' = remaining /\ at' = [at EXCEPT ![w] = "ending"]
          /\ finished' = finished \cup (dynamic \cap {w}) /\ dynamic' = dynamic \ {w}
          /\ acceptor \notin {"spawn", "cleanup"} /\ at[w] # "none"
          /\ at[w] \notin {"ending", "ended"}
      BY <1>1 DEF Retire, Leave, MoveToFinished, MutexFree, Wakes
    <2>2. at'[w] = "ending" /\ w \notin finished /\ \A v \in Worker \ {w} : at'[v] = at[v]
      BY <2>1
    <2>3. acceptor = "stopped" => finished' = {}
      BY <2>1
    <2>4. \A v \in Dynamic : at'[v] # "none" => v \in (dynamic \cup remaining \cup finished)'
      BY <2>1, <2>2, Workers
    <2>5. \A v \in finished' : at'[v] \in {"ending", "ended"}
      BY <2>1, <2>2, Workers
    <2>6. finished' \cap (dynamic' \cup remaining') = {}
      <3>1. remaining = {} \/ dynamic = {}
        OBVIOUS
      <3>2. QED
        BY <2>1, <3>1
    <2>7. QED
      BY <2>1, <2>3, <2>4, <2>5, <2>6
  <1>2. CASE \/ Sleep(w) \/ TakeJob(w) \/ Break(w) \/ Continue(w) \/ End(w) \/ Respond(w)
             \/ Close(w) \/ Ready(w) \/ Spurious(w) \/ Expire(w)
    <2>1. /\ acceptor' = acceptor /\ UNCHANGED lists
          /\ at[w] # "none" /\ at[w] # "ended"
          /\ \E p \in WorkerPc \ {"none"} :
               at' = [at EXCEPT ![w] = p] /\ (at[w] = "ending" => p = "ended")
      BY <1>2 DEF Sleep, TakeJob, Break, Continue, End, Respond, Close, Ready, Spurious, Expire,
         Wakes, WorkerPc
    <2>2. QED
      BY <2>1 DEF lists
  <1>3. QED
    BY <1>1, <1>2 DEF WorkerStep, Work

LEMMA ListListen ==
  ASSUME TypeInv, ListInv, Listen \/ AcceptFails \/ \E c \in Conn : Accept(c) PROVE ListInv'
  <1> USE DEF TypeInv, TypeOK, ListInv, lists
  <1>1. CASE \/ AcceptFails \/ Enqueue \/ SetShutdown \/ \E c \in Conn : Accept(c)
    BY <1>1 DEF AcceptFails, Enqueue, SetShutdown, Accept
  <1>2. CASE NotifyOne \/ NotifyAll
    <2>1. /\ acceptor' \in {"accept", "join_base"} /\ acceptor \in {"notify", "notify_all"}
          /\ dynamic' = dynamic /\ remaining' = remaining /\ finished' = finished
      BY <1>2 DEF NotifyOne, NotifyAll
    <2>2. \A w \in Worker : at'[w] = at[w] \/ (at[w] = "asleep" /\ at'[w] = "notified")
      BY <1>2 DEF NotifyOne, NotifyAll, Asleep
    <2>3. QED
      BY <2>1, <2>2, Workers
  <1>3. CASE JoinBase
    <2>1. /\ acceptor = "join_base" /\ acceptor' = "take" /\ UNCHANGED lists
          /\ \A w \in Dynamic : at'[w] = at[w]
      BY <1>3, Workers DEF JoinBase, Joined
    <2>2. dynamic' = dynamic /\ remaining' = remaining /\ finished' = finished /\ remaining = {}
      BY <2>1
    <2>3. finished \subseteq Dynamic
      OBVIOUS
    <2>4. QED
      BY <2>1, <2>2, <2>3
  <1>4. CASE TakeDynamic
    <2>0. remaining = {}
      BY <1>4 DEF TakeDynamic
    <2>1. /\ acceptor = "take" /\ acceptor' = "join_remaining" /\ at' = at
          /\ dynamic' = {} /\ remaining' = dynamic /\ finished' = finished
      BY <1>4 DEF TakeDynamic
    <2>2. \A w \in Dynamic : at'[w] # "none" => w \in dynamic' \cup remaining' \cup finished'
      BY <2>0, <2>1
    <2>3. \A w \in finished' : at'[w] \in {"ending", "ended"}
      BY <2>1
    <2>4. QED
      BY <2>1, <2>2, <2>3
  <1>5. CASE JoinRemaining
    BY <1>5, Workers DEF JoinRemaining, Joined
  <1>6. CASE Cleanup
    BY <1>6, Workers DEF Cleanup, Joined
  <1>7. ASSUME NEW w \in Dynamic, Spawn(w) PROVE ListInv'
    BY <1>7, Workers DEF Spawn, Joined
  <1>8. QED
    BY <1>1, <1>2, <1>3, <1>4, <1>5, <1>6, <1>7 DEF Listen

LEMMA ListStep == TypeInv /\ ListInv /\ [PoolNext]_vars => ListInv'
  <1> SUFFICES ASSUME TypeInv, ListInv, [PoolNext]_vars PROVE ListInv'
    OBVIOUS
  <1>1. CASE UNCHANGED vars
    BY <1>1 DEF ListInv, vars, lists
  <1>2. QED
    BY <1>1, ListListen, ListWorker DEF PoolNext, WorkerStep

LEMMA Shrinks ==
  ASSUME TypeInv, RoomInv, (dynamic \cup remaining)' \subseteq dynamic \cup remaining,
         acceptor' = "spawn" => acceptor = "spawn" /\ dynamic' = dynamic
  PROVE  RoomInv'
  <1>1. Cardinality((dynamic \cup remaining)') <= Cardinality(dynamic \cup remaining)
    BY WorkerFinite, FS_Subset, Workers DEF TypeInv, TypeOK
  <1>2. /\ Cardinality((dynamic \cup remaining)') \in Nat
        /\ Cardinality(dynamic \cup remaining) \in Nat
        /\ Cardinality(Base) \in Nat /\ MaxThreads \in Nat
    BY Sizes, Workers, PoolAssumption DEF TypeInv, TypeOK
  <1>3. QED
    BY <1>1, <1>2 DEF RoomInv

LEMMA RoomStep == TypeInv /\ ListInv /\ RoomInv /\ [PoolNext]_vars => RoomInv'
  <1> SUFFICES ASSUME TypeInv, ListInv, RoomInv, [PoolNext]_vars PROVE RoomInv'
    OBVIOUS
  <1>1. CASE UNCHANGED vars
    BY <1>1 DEF RoomInv, vars, lists
  <1>2. ASSUME NEW w \in Worker, WorkerStep(w) PROVE RoomInv'
    <2>1. /\ (dynamic \cup remaining)' \subseteq dynamic \cup remaining
          /\ acceptor' = acceptor /\ (acceptor = "spawn" => dynamic' = dynamic)
      BY <1>2 DEF WorkerStep, Work, Sleep, TakeJob, Break, Retire, Continue, Leave, End, Respond,
         Close, Ready, Spurious, Expire, MoveToFinished, Wakes, MutexFree, lists
    <2>2. QED
      BY <2>1, Shrinks
  <1>3. CASE Enqueue
    <2>1. dynamic' = dynamic /\ remaining' = remaining
          /\ (acceptor' = "spawn" => Cardinality(Base) + Cardinality(dynamic) < MaxThreads)
      BY <1>3 DEF Enqueue, MayGrow, lists
    <2>2. QED
      BY <2>1 DEF RoomInv
  <1>4. ASSUME NEW w \in Dynamic, Spawn(w) PROVE RoomInv'
    <2>1. (dynamic \cup remaining)' = dynamic \cup {w} /\ acceptor' = "notify"
      BY <1>4 DEF Spawn, ListInv
    <2>2. Cardinality(Base) + Cardinality(dynamic) < MaxThreads
      BY <1>4 DEF Spawn, RoomInv
    <2>3. Cardinality(dynamic \cup {w}) \in {Cardinality(dynamic), Cardinality(dynamic) + 1}
      BY WorkerFinite, FS_AddElement, Workers DEF TypeInv, TypeOK
    <2>4. Cardinality(Base) \in Nat /\ Cardinality(dynamic) \in Nat /\ MaxThreads \in Nat
      BY Sizes, Workers, PoolAssumption DEF TypeInv, TypeOK
    <2>5. Cardinality((dynamic \cup remaining)') = Cardinality(dynamic \cup {w})
      BY <2>1
    <2>6. QED
      BY <2>1, <2>2, <2>3, <2>4, <2>5 DEF RoomInv
  <1>5. CASE \/ AcceptFails \/ NotifyOne \/ SetShutdown \/ NotifyAll \/ JoinBase \/ TakeDynamic
             \/ JoinRemaining \/ Cleanup \/ \E c \in Conn : Accept(c)
    <2>1. /\ (dynamic \cup remaining)' \subseteq dynamic \cup remaining
          /\ acceptor' # "spawn"
      BY <1>5 DEF AcceptFails, NotifyOne, SetShutdown, NotifyAll, JoinBase, TakeDynamic,
         JoinRemaining, Cleanup, Accept, lists
    <2>2. QED
      BY <2>1, Shrinks
  <1>6. QED
    BY <1>1, <1>2, <1>3, <1>4, <1>5 DEF PoolNext, Listen, WorkerStep

LEMMA ListInvariant == Spec => [](ListInv /\ RoomInv)
  BY ListInit, ListStep, RoomStep, TypeInvariant, PTL DEF Spec

\* Never more threads at work than max_thread_count_.
THEOREM PoolKeepsToLimit == Spec => []PoolBounded
  <1>1. TypeInv /\ ListInv /\ RoomInv => PoolBounded
    <2> SUFFICES ASSUME TypeInv, ListInv, RoomInv PROVE PoolBounded
      OBVIOUS
    <2> DEFINE AtWork == {w \in Worker : at[w] \notin {"none", "ending", "ended"}}
               Listed == dynamic \cup remaining
    <2>1. AtWork \subseteq Base \cup Listed
      BY DEF ListInv, Worker
    <2>2. Listed \subseteq Worker /\ Base \subseteq Worker
      BY Workers DEF TypeInv, TypeOK
    <2>3. IsFiniteSet(Listed) /\ IsFiniteSet(Base) /\ IsFiniteSet(Base \cup Listed)
      BY <2>2, WorkerFinite
    <2>4. /\ Cardinality(AtWork) \in Nat /\ Cardinality(Base \cup Listed) \in Nat
          /\ Cardinality(Base) \in Nat /\ Cardinality(Listed) \in Nat
          /\ Cardinality(Base \cap Listed) \in Nat /\ MaxThreads \in Nat
      BY <2>2, Sizes, PoolAssumption
    <2>5. Cardinality(AtWork) <= Cardinality(Base \cup Listed)
      BY <2>1, <2>3, FS_Subset
    <2>6. Cardinality(Base \cup Listed) = Cardinality(Base) + Cardinality(Listed) - Cardinality(Base \cap Listed)
      BY <2>3, FS_Union
    <2>7. Cardinality(Base) + Cardinality(Listed) <= MaxThreads
      BY DEF RoomInv
    <2>8. Cardinality(AtWork) <= MaxThreads
      BY <2>4, <2>5, <2>6, <2>7
    <2>9. QED
      BY <2>8 DEF PoolBounded
  <1>2. QED
    BY <1>1, TypeInvariant, ListInvariant, PTL

-----------------------------------------------------------------------------
(* What is left when shutdown() returns.  A base worker ends only over an empty *)
(* queue that nobody puts into any more, and shutdown() waits for all of them.  *)

Past == {"take", "join_remaining", "cleanup", "stopped"}

DrainInv ==
  /\ shutdown <=> acceptor \in Past \cup {"notify_all", "join_base"}
  /\ \A w \in Base : at[w] \in {"ending", "ended"} => shutdown /\ jobs = <<>>
  /\ \A w \in Base : at[w] = "none" <=> acceptor \in Past
  /\ acceptor \in Past => jobs = <<>>

Held(c) == \E w \in Worker : conn[w] = c /\ at[w] \in {"alive", "request"}
HeldInv ==
  \A c \in Conn : phase[c] = "accepted" =>
    (acceptor = "enqueue" /\ sock = c) \/ InQueue(c) # {} \/ Held(c)

LEMMA DrainWorker == ASSUME TypeInv, DrainInv, NEW w \in Worker, WorkerStep(w) PROVE DrainInv'
  <1> USE DEF TypeInv, TypeOK, DrainInv
  <1>1. acceptor' = acceptor /\ shutdown' = shutdown /\ at[w] # "none"
    BY DEF WorkerStep, Work, Sleep, TakeJob, Break, Retire, Continue, Leave, End, Respond, Close,
       Ready, Spurious, Expire, Wakes
  <1>2. jobs' = jobs \/ (jobs # <<>> /\ TakeJob(w))
    BY DEF WorkerStep, Work, Sleep, TakeJob, Break, Retire, Continue, Leave, End, Respond, Close,
       Ready, Spurious, Expire
  <1>3. \A v \in Worker \ {w} : at'[v] = at[v]
    BY DEF WorkerStep, Work, Sleep, TakeJob, Break, Retire, Continue, Leave, End, Respond, Close,
       Ready, Spurious, Expire
  <1>4. at'[w] # "none"
    BY DEF WorkerStep, Work, Sleep, TakeJob, Break, Retire, Continue, Leave, End, Respond, Close,
       Ready, Spurious, Expire
  <1>5. w \in Base /\ at'[w] \in {"ending", "ended"} => shutdown /\ jobs = <<>> /\ jobs' = jobs
    <2>1. w \in Base => w \notin Dynamic
      BY Workers
    <2>2. CASE Break(w)
      BY <2>2 DEF Break
    <2>3. CASE End(w)
      BY <2>3 DEF End
    <2>4. CASE Retire(w) \/ Leave(w)
      BY <2>1, <2>4 DEF Retire, Leave
    <2>5. CASE \/ Sleep(w) \/ TakeJob(w) \/ Continue(w) \/ Respond(w) \/ Close(w) \/ Ready(w)
               \/ Spurious(w) \/ Expire(w)
      BY <2>5 DEF Sleep, TakeJob, Continue, Respond, Close, Ready, Spurious, Expire
    <2>6. QED
      BY <2>2, <2>3, <2>4, <2>5 DEF WorkerStep, Work
  <1>6. jobs' # <<>> => jobs # <<>>
    BY <1>2
  <1>7. \A v \in Base : at'[v] \in {"ending", "ended"} => shutdown' /\ jobs' = <<>>
    BY <1>1, <1>3, <1>5, <1>6, Workers
  <1>8. \A v \in Base : at'[v] = "none" <=> acceptor' \in Past
    BY <1>1, <1>3, <1>4, Workers
  <1>9. QED
    BY <1>1, <1>6, <1>7, <1>8

LEMMA DrainListen ==
  ASSUME TypeInv, DrainInv, Listen \/ AcceptFails \/ \E c \in Conn : Accept(c) PROVE DrainInv'
  <1> USE DEF TypeInv, TypeOK, DrainInv, Past
  <1>1. CASE \/ AcceptFails \/ SetShutdown \/ TakeDynamic \/ \E c \in Conn : Accept(c)
    BY <1>1 DEF AcceptFails, SetShutdown, TakeDynamic, Accept
  <1>2. CASE Enqueue
    <2>1. acceptor = "enqueue" /\ acceptor' \in {"spawn", "notify"} /\ at' = at /\ shutdown' = shutdown
      BY <1>2 DEF Enqueue
    <2>2. QED
      BY <2>1
  <1>3. CASE NotifyOne \/ NotifyAll
    <2>1. /\ acceptor \in {"notify", "notify_all"} /\ jobs' = jobs /\ shutdown' = shutdown
          /\ acceptor' = IF acceptor = "notify" THEN "accept" ELSE "join_base"
      BY <1>3 DEF NotifyOne, NotifyAll
    <2>2. \A w \in Worker : at'[w] = at[w] \/ (at[w] = "asleep" /\ at'[w] = "notified")
      BY <1>3 DEF NotifyOne, NotifyAll, Asleep
    <2>3. QED
      BY <2>1, <2>2, Workers
  <1>4. CASE JoinBase
    <2>1. /\ acceptor = "join_base" /\ acceptor' = "take" /\ jobs' = jobs /\ shutdown' = shutdown
          /\ \A w \in Base : at[w] = "ended" /\ at'[w] = "none"
      BY <1>4, Workers DEF JoinBase, Joined
    <2>2. jobs = <<>> /\ shutdown
      BY <2>1, PoolAssumption
    <2>3. QED
      BY <2>1, <2>2
  <1>5. CASE JoinRemaining \/ Cleanup
    <2>1. /\ acceptor \in {"join_remaining", "cleanup"} /\ acceptor' \in {"cleanup", "stopped"}
          /\ jobs' = jobs /\ shutdown' = shutdown
          /\ \A w \in Base : at[w] = "none" /\ at'[w] = "none"
      BY <1>5, Workers DEF JoinRemaining, Cleanup, Joined
    <2>2. QED
      BY <2>1
  <1>6. ASSUME NEW w \in Dynamic, Spawn(w) PROVE DrainInv'
    <2>1. /\ acceptor = "spawn" /\ acceptor' = "notify" /\ jobs' = jobs /\ shutdown' = shutdown
          /\ \A v \in Base : at'[v] = at[v]
      BY <1>6, Workers DEF Spawn, Joined
    <2>2. QED
      BY <2>1
  <1>7. QED
    BY <1>1, <1>2, <1>3, <1>4, <1>5, <1>6 DEF Listen

LEMMA DrainStep == TypeInv /\ DrainInv /\ [PoolNext]_vars => DrainInv'
  <1> SUFFICES ASSUME TypeInv, DrainInv, [PoolNext]_vars PROVE DrainInv'
    OBVIOUS
  <1>1. CASE UNCHANGED vars
    BY <1>1 DEF DrainInv, vars
  <1>2. QED
    BY <1>1, DrainListen, DrainWorker DEF PoolNext, WorkerStep

LEMMA HeldWorker == ASSUME TypeInv, HeldInv, NEW w \in Worker, WorkerStep(w) PROVE HeldInv'
  <1> USE DEF TypeInv, TypeOK, Held
  <1> SUFFICES ASSUME NEW c \in Conn, phase'[c] = "accepted"
               PROVE  (acceptor' = "enqueue" /\ sock' = c) \/ InQueue(c)' # {} \/ Held(c)'
    BY DEF HeldInv
  <1>1. acceptor' = acceptor /\ sock' = sock
    BY DEF WorkerStep, Work, Sleep, TakeJob, Break, Retire, Continue, Leave, End, Respond, Close,
       Ready, Spurious, Expire
  <1>2. CASE TakeJob(w)
    <2>1. phase[c] = "accepted" /\ jobs # <<>> /\ jobs' = Tail(jobs)
          /\ conn' = [conn EXCEPT ![w] = Head(jobs)] /\ at' = [at EXCEPT ![w] = "alive"]
          /\ at[w] \notin {"alive", "request"}
      BY <1>2 DEF TakeJob, Wakes
    <2>2. ASSUME NEW i \in 1 .. Len(jobs), jobs[i] = c PROVE InQueue(c)' # {} \/ Held(c)'
      <3>1. CASE i = 1
        BY <2>1, <2>2, <3>1
      <3>2. CASE i # 1
        <4>1. i - 1 \in 1 .. Len(Tail(jobs)) /\ Tail(jobs)[i - 1] = c
          BY <2>1, <2>2, <3>2
        <4>2. QED
          BY <2>1, <4>1 DEF InQueue
      <3>3. QED
        BY <3>1, <3>2
    <2>3. Held(c) => Held(c)'
      BY <2>1
    <2>4. QED
      BY <1>1, <2>1, <2>2, <2>3 DEF HeldInv, InQueue
  <1>3. CASE Close(w)
    <2>1. jobs' = jobs /\ phase[c] = "accepted" /\ conn[w] # c
      BY <1>3 DEF Close
    <2>2. Held(c) => Held(c)'
      BY <1>3, <2>1 DEF Close
    <2>3. QED
      BY <1>1, <2>1, <2>2 DEF HeldInv, InQueue
  <1>4. CASE \/ Sleep(w) \/ Break(w) \/ Retire(w) \/ Continue(w) \/ Leave(w) \/ End(w)
             \/ Respond(w) \/ Ready(w) \/ Spurious(w) \/ Expire(w)
    <2>1. jobs' = jobs /\ phase' = phase /\ conn' = conn
      BY <1>4 DEF Sleep, Break, Retire, Continue, Leave, End, Respond, Ready, Spurious, Expire, carried
    <2>2. \A v \in Worker : at[v] \in {"alive", "request"} => at'[v] \in {"alive", "request"}
      BY <1>4 DEF Sleep, Break, Retire, Continue, Leave, End, Respond, Ready, Spurious, Expire, Wakes
    <2>3. QED
      BY <1>1, <2>1, <2>2 DEF HeldInv, InQueue
  <1>5. QED
    BY <1>2, <1>3, <1>4 DEF WorkerStep, Work

LEMMA HeldListen ==
  ASSUME TypeInv, ListInv, HeldInv, Listen \/ AcceptFails \/ \E c \in Conn : Accept(c)
  PROVE  HeldInv'
  <1> USE DEF TypeInv, TypeOK, Held
  <1>1. ASSUME NEW c \in Conn, Accept(c) PROVE HeldInv'
    BY <1>1 DEF Accept, HeldInv, InQueue, carried
  <1>2. CASE Enqueue
    <2> SUFFICES ASSUME NEW c \in Conn, phase[c] = "accepted" PROVE InQueue(c)' # {} \/ Held(c)'
      BY <1>2 DEF Enqueue, HeldInv
    <2>1. /\ jobs' = Append(jobs, sock) /\ sock \in Conn
          /\ UNCHANGED <<at, conn>>
      BY <1>2 DEF Enqueue, carried
    <2>2. /\ Len(jobs') = Len(jobs) + 1 /\ jobs'[Len(jobs) + 1] = sock
          /\ \A i \in 1 .. Len(jobs) : jobs'[i] = jobs[i]
          /\ Len(jobs) \in Nat
      BY <2>1
    <2>3. sock = c => Len(jobs) + 1 \in InQueue(c)'
      BY <2>2 DEF InQueue
    <2>4. InQueue(c) \subseteq InQueue(c)'
      BY <2>2 DEF InQueue
    <2>5. QED
      BY <2>1, <2>3, <2>4 DEF HeldInv
  <1>3. ASSUME UNCHANGED <<phase, jobs, conn>>, acceptor # "enqueue",
               \A w \in Worker : at[w] \in {"alive", "request"} => at'[w] = at[w]
        PROVE  HeldInv'
    BY <1>3 DEF HeldInv, InQueue
  <1>4. CASE AcceptFails \/ SetShutdown \/ TakeDynamic \/ NotifyOne \/ NotifyAll
    <2>1. \A w \in Worker : at[w] \in {"alive", "request"} => at'[w] = at[w]
      BY <1>4 DEF AcceptFails, SetShutdown, TakeDynamic, NotifyOne, NotifyAll, Asleep
    <2>2. UNCHANGED <<phase, jobs, conn>> /\ acceptor # "enqueue"
      BY <1>4 DEF AcceptFails, SetShutdown, TakeDynamic, NotifyOne, NotifyAll, carried
    <2>3. QED
      BY <1>3, <2>1, <2>2
  <1>5. CASE JoinBase \/ JoinRemaining \/ Cleanup
    <2>1. \A w \in Worker : at[w] \in {"alive", "request"} => at'[w] = at[w]
      BY <1>5 DEF JoinBase, JoinRemaining, Cleanup, Joined
    <2>2. UNCHANGED <<phase, jobs, conn>> /\ acceptor # "enqueue"
      BY <1>5 DEF JoinBase, JoinRemaining, Cleanup, carried
    <2>3. QED
      BY <1>3, <2>1, <2>2
  <1>6. ASSUME NEW w \in Dynamic, Spawn(w) PROVE HeldInv'
    <2>1. at[w] \in {"none", "ended"} /\ \A f \in finished : at[f] = "ended"
      BY <1>6, Workers DEF Spawn, Joined
    <2>2. \A v \in Worker : at[v] \in {"alive", "request"} => at'[v] = at[v]
      BY <1>6, <2>1 DEF Spawn, Joined
    <2>3. UNCHANGED <<phase, jobs, conn>> /\ acceptor # "enqueue"
      BY <1>6 DEF Spawn, carried
    <2>4. QED
      BY <1>3, <2>2, <2>3
  <1>7. QED
    BY <1>1, <1>2, <1>4, <1>5, <1>6 DEF Listen

LEMMA HeldStep == TypeInv /\ ListInv /\ HeldInv /\ [PoolNext]_vars => HeldInv'
  <1> SUFFICES ASSUME TypeInv, ListInv, HeldInv, [PoolNext]_vars PROVE HeldInv'
    OBVIOUS
  <1>1. CASE UNCHANGED vars
    BY <1>1 DEF HeldInv, Held, InQueue, vars, carried
  <1>2. QED
    BY <1>1, HeldListen, HeldWorker DEF PoolNext, WorkerStep

\* When shutdown() returns every accepted connection is closed and every thread joined,
\* for every number of workers and connections: the pool is destroyed with none left.
THEOREM StopsClean == Spec => []GoneWhenStopped
  <1>1. Init => DrainInv /\ HeldInv
    BY Workers DEF Init, DrainInv, HeldInv, Past
  <1>2. TypeInv /\ ListInv /\ DrainInv /\ HeldInv => GoneWhenStopped
    <2> SUFFICES ASSUME TypeInv, ListInv, DrainInv, HeldInv, acceptor = "stopped"
                 PROVE  (\A w \in Worker : at[w] = "none") /\ (\A c \in Conn : phase[c] # "accepted")
      BY DEF GoneWhenStopped
    <2>1. \A w \in Worker : at[w] = "none"
      BY DEF ListInv, DrainInv, Past, Worker
    <2>2. jobs = <<>>
      BY DEF DrainInv, Past
    <2>3. \A c \in Conn : phase[c] # "accepted"
      BY <2>1, <2>2 DEF HeldInv, Held, InQueue
    <2>4. QED
      BY <2>1, <2>3
  <1>3. QED
    BY <1>1, <1>2, DrainStep, HeldStep, TypeInvariant, ListInvariant, PTL DEF Spec
-----------------------------------------------------------------------------
(* Every accepted connection is in one place.  The counts are kept because a   *)
(* worker that takes a connection has none, and the accept loop neither.       *)

PlaceInv ==
  /\ acceptor # "enqueue" => sock = None
  /\ \A w \in Worker : conn[w] # None <=> at[w] \in {"alive", "request"}

Queued(c) == Cardinality(InQueue(c))
Carried(c) == Cardinality(Carriers(c))
Accepted(c) == IF sock = c THEN 1 ELSE 0

LEMMA OnePlaceDef ==
  OnePlace <=> \A c \in Conn : Queued(c) + Carried(c) + Accepted(c)
                                 = IF phase[c] = "accepted" THEN 1 ELSE 0
  BY DEF OnePlace, Queued, Carried, Accepted

LEMMA InQueueFinite ==
  ASSUME TypeInv, NEW c \in Conn PROVE IsFiniteSet(InQueue(c)) /\ Queued(c) \in Nat
  <1>1. Len(jobs) \in Nat /\ InQueue(c) \in SUBSET (1 .. Len(jobs))
    BY DEF TypeInv, TypeOK, InQueue
  <1>2. IsFiniteSet(1 .. Len(jobs))
    BY <1>1, FS_Interval
  <1>3. QED
    BY <1>1, <1>2, FS_Subset, FS_CardinalityType DEF Queued

LEMMA CarriersFinite ==
  ASSUME NEW c \in Conn PROVE IsFiniteSet(Carriers(c)) /\ Carried(c) \in Nat
  BY WorkerFinite, Sizes DEF Carriers, Carried

LEMMA PlaceInit == Init => PlaceInv /\ OnePlace
  <1> SUFFICES ASSUME Init PROVE PlaceInv /\ OnePlace
    OBVIOUS
  <1>1. PlaceInv
    BY DEF Init, PlaceInv
  <1>2. ASSUME NEW c \in Conn PROVE InQueue(c) = {} /\ Carriers(c) = {} /\ sock # c /\ phase[c] = "away"
    BY PoolAssumption DEF Init, InQueue, Carriers
  <1>3. ASSUME NEW c \in Conn PROVE Queued(c) + Carried(c) + Accepted(c) = 0
    BY <1>2, FS_EmptySet DEF Queued, Carried, Accepted
  <1>4. QED
    BY <1>1, <1>2, <1>3, OnePlaceDef

LEMMA PlaceListen ==
  ASSUME TypeInv, ListInv, PlaceInv, Listen \/ AcceptFails \/ \E c \in Conn : Accept(c)
  PROVE  PlaceInv'
  <1> USE DEF TypeInv, TypeOK, PlaceInv
  <1>1. acceptor' # "enqueue" => sock' = None
    BY DEF Listen, AcceptFails, Accept, Enqueue, Spawn, NotifyOne, SetShutdown, NotifyAll, JoinBase,
       TakeDynamic, JoinRemaining, Cleanup
  <1>2. conn' = conn
    BY DEF Listen, AcceptFails, Accept, Enqueue, Spawn, NotifyOne, SetShutdown, NotifyAll, JoinBase,
       TakeDynamic, JoinRemaining, Cleanup, carried
  <1>3. \A v \in Worker : at'[v] \in {"alive", "request"} <=> at[v] \in {"alive", "request"}
    <2>1. CASE \/ AcceptFails \/ Enqueue \/ SetShutdown \/ TakeDynamic
               \/ \E c \in Conn : Accept(c)
      BY <2>1 DEF AcceptFails, Enqueue, SetShutdown, TakeDynamic, Accept
    <2>2. CASE NotifyOne \/ NotifyAll
      BY <2>2 DEF NotifyOne, NotifyAll, Asleep
    <2>3. CASE JoinBase \/ JoinRemaining \/ Cleanup
      BY <2>3 DEF JoinBase, JoinRemaining, Cleanup, Joined
    <2>4. ASSUME NEW w \in Dynamic, Spawn(w)
          PROVE  \A v \in Worker : at'[v] \in {"alive", "request"} <=> at[v] \in {"alive", "request"}
      BY <2>4, Workers DEF Spawn, Joined
    <2>5. QED
      BY <2>1, <2>2, <2>3, <2>4 DEF Listen
  <1>4. QED
    BY <1>1, <1>2, <1>3

LEMMA PlaceWorker == ASSUME TypeInv, PlaceInv, NEW w \in Worker, WorkerStep(w) PROVE PlaceInv'
  <1> USE DEF TypeInv, TypeOK, PlaceInv
  <1>1. acceptor' = acceptor /\ sock' = sock
    BY DEF WorkerStep, Work, Sleep, TakeJob, Break, Retire, Continue, Leave, End, Respond, Close,
       Ready, Spurious, Expire
  <1>2. CASE TakeJob(w)
    <2>1. Head(jobs) \in Conn
      BY <1>2 DEF TakeJob
    <2>2. Head(jobs) # None
      BY <2>1, PoolAssumption
    <2>3. QED
      BY <1>1, <1>2, <2>2 DEF TakeJob
  <1>3. CASE Close(w)
    BY <1>1, <1>3 DEF Close
  <1>4. CASE \/ Sleep(w) \/ Break(w) \/ Retire(w) \/ Continue(w) \/ Leave(w) \/ End(w)
             \/ Respond(w) \/ Ready(w) \/ Spurious(w) \/ Expire(w)
    <2>1. conn' = conn /\ \A v \in Worker \ {w} : at'[v] = at[v]
      BY <1>4 DEF Sleep, Break, Retire, Continue, Leave, End, Respond, Ready, Spurious, Expire, carried
    <2>2. at'[w] \in {"alive", "request"} <=> at[w] \in {"alive", "request"}
      BY <1>4 DEF Sleep, Break, Retire, Continue, Leave, End, Respond, Ready, Spurious, Expire, Wakes
    <2>3. QED
      BY <1>1, <2>1, <2>2
  <1>5. QED
    BY <1>2, <1>3, <1>4 DEF WorkerStep, Work

LEMMA PlaceStep == TypeInv /\ ListInv /\ PlaceInv /\ [PoolNext]_vars => PlaceInv'
  <1> SUFFICES ASSUME TypeInv, ListInv, PlaceInv, [PoolNext]_vars PROVE PlaceInv'
    OBVIOUS
  <1>1. CASE UNCHANGED vars
    BY <1>1 DEF PlaceInv, vars, carried
  <1>2. QED
    BY <1>1, PlaceListen, PlaceWorker DEF PoolNext, WorkerStep

\* Taking the front of the queue moves the others up and leaves none out.
LEMMA QueueMovesUp ==
  ASSUME TypeInv, jobs # <<>>, jobs' = Tail(jobs), NEW c \in Conn
  PROVE  Queued(c)' = IF Head(jobs) = c THEN Queued(c) - 1 ELSE Queued(c)
  <1> DEFINE Behind == InQueue(c) \ {1}
             up == [i \in Behind |-> i - 1]
  <1>1. /\ jobs \in Seq(Conn) /\ Len(jobs) \in Nat \ {0} /\ Head(jobs) = jobs[1]
        /\ Len(Tail(jobs)) = Len(jobs) - 1
        /\ \A i \in 1 .. Len(jobs) - 1 : Tail(jobs)[i] = jobs[i + 1]
    BY DEF TypeInv, TypeOK
  <1>2. IsFiniteSet(Behind) /\ Cardinality(Behind) = IF 1 \in InQueue(c) THEN Queued(c) - 1 ELSE Queued(c)
    BY InQueueFinite, FS_RemoveElement DEF Queued
  <1>3. 1 \in InQueue(c) <=> Head(jobs) = c
    BY <1>1 DEF InQueue
  <1>4. InQueue(c)' = {i \in 1 .. Len(jobs) - 1 : jobs[i + 1] = c}
    BY <1>1 DEF InQueue
  <1>5. \A i \in Behind : i \in Int /\ i - 1 \in InQueue(c)'
    BY <1>1, <1>4 DEF InQueue
  <1>6. \A j \in InQueue(c)' : j + 1 \in Behind /\ j \in Int
    BY <1>1, <1>4 DEF InQueue
  <1>7. up \in [Behind -> InQueue(c)']
    BY <1>5
  <1>8. \A i, j \in Behind : up[i] = up[j] => i = j
    BY <1>5
  <1>9. \A j \in InQueue(c)' : up[j + 1] = j
    BY <1>6
  <1>10. up \in Bijection(Behind, InQueue(c)')
    BY <1>6, <1>7, <1>8, <1>9 DEF Bijection, Injection, Surjection, IsInjective
  <1>11. Cardinality(InQueue(c)') = Cardinality(Behind)
    BY <1>2, <1>10, FS_Bijection DEF ExistsBijection
  <1>12. QED
    BY <1>2, <1>3, <1>11 DEF Queued

LEMMA QueueGrows ==
  ASSUME TypeInv, jobs' = Append(jobs, sock), NEW c \in Conn
  PROVE  Queued(c)' = IF sock = c THEN Queued(c) + 1 ELSE Queued(c)
  <1>1. /\ Len(jobs) \in Nat /\ Len(jobs') = Len(jobs) + 1 /\ jobs'[Len(jobs) + 1] = sock
        /\ \A i \in 1 .. Len(jobs) : jobs'[i] = jobs[i]
    BY DEF TypeInv, TypeOK
  <1>2. InQueue(c)' = IF sock = c THEN InQueue(c) \cup {Len(jobs) + 1} ELSE InQueue(c)
    BY <1>1 DEF InQueue
  <1>3. Len(jobs) + 1 \notin InQueue(c)
    BY <1>1 DEF InQueue
  <1>4. Cardinality(InQueue(c) \cup {Len(jobs) + 1}) = Cardinality(InQueue(c)) + 1
    BY <1>3, InQueueFinite, FS_AddElement
  <1>5. QED
    BY <1>2, <1>4 DEF Queued

LEMMA OnePlaceStep == TypeInv /\ PlaceInv /\ OnePlace /\ [PoolNext]_vars => OnePlace'
  <1> SUFFICES ASSUME TypeInv, PlaceInv, OnePlace, [PoolNext]_vars PROVE OnePlace'
    OBVIOUS
  <1> USE DEF TypeInv, TypeOK
  <1> DEFINE Wanted(c) == IF phase[c] = "accepted" THEN 1 ELSE 0
  <1>0. \A c \in Conn : /\ Queued(c) + Carried(c) + Accepted(c) = Wanted(c)
                        /\ Queued(c) \in Nat /\ Carried(c) \in Nat /\ Accepted(c) \in {0, 1}
    BY OnePlaceDef, InQueueFinite, CarriersFinite DEF Accepted
  <1>1. SUFFICES ASSUME NEW c \in Conn
                 PROVE  Queued(c)' + Carried(c)' + Accepted(c)' = Wanted(c)'
    BY DEF OnePlace, Queued, Carried, Accepted
  <1>2. CASE UNCHANGED <<jobs, conn, sock, phase>>
    <2>1. /\ Queued(c)' = Queued(c) /\ Carried(c)' = Carried(c) /\ Accepted(c)' = Accepted(c)
          /\ Wanted(c)' = Wanted(c)
      BY <1>2 DEF Queued, InQueue, Carried, Carriers, Accepted
    <2>2. QED
      BY <1>0, <2>1
  <1>3. ASSUME NEW d \in Conn, Accept(d) PROVE Queued(c)' + Carried(c)' + Accepted(c)' = Wanted(c)'
    <2>1. Queued(c)' = Queued(c) /\ Carried(c)' = Carried(c)
      BY <1>3 DEF Accept, carried, Queued, InQueue, Carried, Carriers
    <2>2. sock = None /\ sock' = d /\ phase[d] = "away" /\ sock # c
      BY <1>3, PoolAssumption DEF Accept, PlaceInv
    <2>3. Wanted(c)' = IF c = d THEN 1 ELSE Wanted(c)
      BY <1>3 DEF Accept
    <2>4. c = d => Wanted(c) = 0
      BY <2>2
    <2>5. QED
      BY <1>0, <2>1, <2>2, <2>3, <2>4 DEF Accepted
  <1>4. CASE Enqueue
    <2>1. Queued(c)' = IF sock = c THEN Queued(c) + 1 ELSE Queued(c)
      BY <1>4, QueueGrows DEF Enqueue
    <2>2. Carried(c)' = Carried(c) /\ Wanted(c)' = Wanted(c) /\ Accepted(c)' = 0
      BY <1>4, PoolAssumption DEF Enqueue, carried, Carried, Carriers, Accepted
    <2>3. QED
      BY <1>0, <2>1, <2>2 DEF Accepted
  <1>5. ASSUME NEW w \in Worker, TakeJob(w)
        PROVE  Queued(c)' + Carried(c)' + Accepted(c)' = Wanted(c)'
    <2>1. Queued(c)' = IF Head(jobs) = c THEN Queued(c) - 1 ELSE Queued(c)
      BY <1>5, QueueMovesUp DEF TakeJob
    <2>2. conn[w] = None /\ conn' = [conn EXCEPT ![w] = Head(jobs)]
      BY <1>5 DEF TakeJob, Wakes, PlaceInv
    <2>3. w \notin Carriers(c)
          /\ Carriers(c)' = IF Head(jobs) = c THEN Carriers(c) \cup {w} ELSE Carriers(c)
      BY <2>2, PoolAssumption DEF Carriers
    <2>4. Cardinality(Carriers(c) \cup {w}) = Carried(c) + 1
      BY <2>3, CarriersFinite, FS_AddElement DEF Carried
    <2>5. Carried(c)' = IF Head(jobs) = c THEN Carried(c) + 1 ELSE Carried(c)
      BY <2>3, <2>4 DEF Carried
    <2>6. Wanted(c)' = Wanted(c) /\ Accepted(c)' = Accepted(c)
      BY <1>5 DEF TakeJob, Accepted
    <2>7. QED
      BY <1>0, <2>1, <2>5, <2>6
  <1>6. ASSUME NEW w \in Worker, Close(w)
        PROVE  Queued(c)' + Carried(c)' + Accepted(c)' = Wanted(c)'
    <2>1. conn[w] \in Conn /\ conn' = [conn EXCEPT ![w] = None]
      BY <1>6 DEF Close, PlaceInv
    <2>2. Carriers(c)' = Carriers(c) \ {w} /\ (w \in Carriers(c) <=> conn[w] = c)
      BY <2>1, PoolAssumption DEF Carriers
    <2>3. Cardinality(Carriers(c) \ {w}) = IF conn[w] = c THEN Carried(c) - 1 ELSE Carried(c)
      BY <2>2, CarriersFinite, FS_RemoveElement DEF Carried
    <2>4. Carried(c)' = IF conn[w] = c THEN Carried(c) - 1 ELSE Carried(c)
      BY <2>2, <2>3 DEF Carried
    <2>5. Wanted(c)' = IF conn[w] = c THEN 0 ELSE Wanted(c)
      BY <1>6, <2>1 DEF Close
    <2>6. Queued(c)' = Queued(c) /\ Accepted(c)' = Accepted(c)
      BY <1>6 DEF Close, Queued, InQueue, Accepted
    <2>7. conn[w] = c => Carried(c) = 1 /\ Queued(c) = 0 /\ Accepted(c) = 0
      <3>1. Wanted(c) \in {0, 1}
        OBVIOUS
      <3>2. conn[w] = c => Carried(c) # 0
        BY <2>2, CarriersFinite, FS_EmptySet DEF Carried
      <3>3. Queued(c) + Carried(c) + Accepted(c) = Wanted(c)
            /\ Queued(c) \in Nat /\ Carried(c) \in Nat /\ Accepted(c) \in {0, 1}
        BY <1>0
      <3> HIDE DEF Wanted
      <3>4. QED
        BY <3>1, <3>2, <3>3
    <2>8. QED
      BY <1>0, <2>4, <2>5, <2>6, <2>7
  <1>7. QED
    <2>1. CASE Listen /\ ~Enqueue
      BY <1>2, <2>1 DEF Listen, Spawn, NotifyOne, SetShutdown, NotifyAll, JoinBase, TakeDynamic,
         JoinRemaining, Cleanup, carried
    <2>2. CASE UNCHANGED vars \/ AcceptFails
      BY <1>2, <2>2 DEF vars, AcceptFails, carried
    <2>3. ASSUME NEW w \in Worker, WorkerStep(w), ~TakeJob(w), ~Close(w)
          PROVE  UNCHANGED <<jobs, conn, sock, phase>>
      BY <2>3 DEF WorkerStep, Work, Sleep, Break, Retire, Continue, Leave, End, Respond, Ready,
         Spurious, Expire, carried
    <2>4. QED
      BY <1>2, <1>3, <1>4, <1>5, <1>6, <2>1, <2>2, <2>3 DEF PoolNext, WorkerStep

\* An accepted connection is never with two workers, never twice in the queue and never
\* lost between the accept loop and a worker, for every number of them.
THEOREM ConnectionsInOnePlace == Spec => []OnePlace
  <1>1. Spec => [](PlaceInv /\ OnePlace)
    BY PlaceInit, PlaceStep, OnePlaceStep, TypeInvariant, ListInvariant, PTL DEF Spec
  <1>2. QED
    BY <1>1, PTL
=============================================================================
