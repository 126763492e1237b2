----------------------------- MODULE PathTracer -----------------------------
(***************************************************************************)
(* The path-tracer process: the polling loop of main.cpp, one detached     *)
(* handle_request thread per request, and the detached start_render thread *)
(* each of those starts.  The threads share the multi-buffer slots (guarded *)
(* by lock_states) and the two directories path-tracer/requests and         *)
(* path-tracer/requests/in_progress, which outlive the process.             *)
(*                                                                         *)
(* The process can die at any step, killed from outside or by its own      *)
(* _exit and uncaught exceptions; the supervisor starts it again and the   *)
(* new process finds the directories as the old one left them.  A shell    *)
(* command issued through std::system is a child process: it may survive   *)
(* the tracer that issued it and take effect later.                        *)
(***************************************************************************)
EXTENDS Integers, FiniteSets

CONSTANTS
  Stem,         \* file stems that may appear: [num |-> n, unit |-> "" or "ms"]
  Thread,       \* identifiers for handle_request threads
  MaxRequests,  \* max_requests, the number of multi-buffer slots
  IntMax,       \* the largest value std::stoi can return
  Kinds,        \* the file contents that occur, a subset of Content
  MaxKills,     \* bound: how often the process is killed from outside
  FastRestart,  \* may a new tracer start before an orphaned command is done?
  ReuseNames    \* the names that may be given again once the file of the name was taken

Content == {"scene",   \* a JSON scene parse_request can read
            "torn",    \* empty, truncated or not JSON: operator>> throws
            "alien"}   \* JSON of another shape: parse_request throws
Absent == "absent"
None == -1

Plain(n) == [num |-> n, unit |-> ""]

ASSUME SizeAssumption ==
  /\ MaxRequests \in Nat \ {0}
  /\ IntMax \in Nat
  /\ MaxKills \in Nat
  /\ FastRestart \in BOOLEAN /\ ReuseNames \subseteq Stem
  /\ Kinds \subseteq Content

ASSUME StemAssumption ==
  /\ Stem \subseteq [num : Nat, unit : {"", "ms"}]
  /\ \A s \in Stem : Plain(s.num) \in Stem

Slot == 0 .. MaxRequests - 1
Request == {s.num : s \in Stem}
Commands == [op : {"restore"}, req : {None}] \cup [op : {"move", "remove"}, req : Request]

VARIABLES
  requests,              \* path-tracer/requests: content per stem, or Absent
  in_progress,           \* path-tracer/requests/in_progress, likewise
  main,                  \* where the polling loop stands; "dead": no process
  current_request,       \* the local of main()
  buffer_to_use,         \* the slot being probed, then the slot taken
  listing,               \* files present when the current scan opened the directory
  lock_states,           \* lock_states[i]: slot i is in use
  pc,                    \* where each handle_request thread stands
  req,                   \* its current_request argument
  slot,                  \* the slot whose buffers and lock it was given
  curr_gpu_write_count,  \* the atomic in its stack frame: 0, or -1 when done
  rendering,             \* threads whose start_render thread still has to publish
  orphans,               \* shell commands that outlived the tracer that issued them
  kills,                 \* external kills so far
  overtaken,             \* history: a tracer started while a command was orphaned
  arrived,               \* history: stems ever placed in requests
  regiven,               \* history: those placed again after they had been taken
  rendered,              \* history: requests whose render was published
  done                   \* history: stems removed after handling

folders == <<requests, in_progress, done>>
poller  == <<main, current_request, buffer_to_use, listing>>
workers == <<pc, req, slot, curr_gpu_write_count, rendering>>
outside == <<orphans, kills, overtaken, arrived, regiven>>
vars == <<folders, poller, workers, lock_states, outside, rendered>>

MainPc == {"restore", "scan", "list", "probe", "move", "launch", "dead"}
WorkerPc == {"idle", "read", "start", "wait", "remove", "release"}

Present(dir) == {s \in Stem : dir[s] # Absent}

TypeOK ==
  /\ requests \in [Stem -> Content \cup {Absent}]
  /\ in_progress \in [Stem -> Content \cup {Absent}]
  /\ main \in MainPc
  /\ current_request \in Request \cup {None}
  /\ buffer_to_use \in 0 .. MaxRequests
  /\ listing \subseteq Stem
  /\ lock_states \in [Slot -> BOOLEAN]
  /\ pc \in [Thread -> WorkerPc]
  /\ req \in [Thread -> Request \cup {None}]
  /\ slot \in [Thread -> Slot]
  /\ curr_gpu_write_count \in [Thread -> {0, -1}]
  /\ rendering \subseteq Thread
  /\ orphans \subseteq Commands
  /\ kills \in 0 .. MaxKills
  /\ overtaken \in BOOLEAN
  /\ arrived \subseteq Stem /\ regiven \subseteq arrived
  /\ rendered \subseteq Request
  /\ done \subseteq Stem

-----------------------------------------------------------------------------
(* The shell commands. *)

\* mv in_progress/* ./  (a file of the same name in requests is overwritten)
Restore ==
  /\ requests' = [s \in Stem |-> IF in_progress[s] # Absent THEN in_progress[s]
                                 ELSE requests[s]]
  /\ in_progress' = [s \in Stem |-> Absent]
  /\ UNCHANGED done

\* Mutant of Move: the file is copied.
MoveCopies(r) ==
  LET s == Plain(r) IN
  IF requests[s] = Absent THEN UNCHANGED folders
  ELSE /\ in_progress' = [in_progress EXCEPT ![s] = requests[s]]
       /\ UNCHANGED <<requests, done>>

\* Mutant of Move: the name is matched by its number, whatever unit follows it.
MoveByNumber(r) ==
  LET moved == {s \in Present(requests) : s.num = r} IN
  /\ in_progress' = [s \in Stem |-> IF s \in moved THEN requests[s] ELSE in_progress[s]]
  /\ requests' = [s \in Stem |-> IF s \in moved THEN Absent ELSE requests[s]]
  /\ UNCHANGED done

\* mv r.json in_progress/r.json  (fails without effect when there is no r.json)
Move(r) ==
  LET s == Plain(r) IN
  IF requests[s] = Absent THEN UNCHANGED folders
  ELSE /\ in_progress' = [in_progress EXCEPT ![s] = requests[s]]
       /\ requests' = [requests EXCEPT ![s] = Absent]
       /\ UNCHANGED done

\* rm path-tracer/requests/in_progress/r.json
Remove(r) ==
  LET s == Plain(r) IN
  IF in_progress[s] = Absent THEN UNCHANGED folders
  ELSE /\ in_progress' = [in_progress EXCEPT ![s] = Absent]
       /\ done' = done \cup {s}
       /\ UNCHANGED requests

\* Commands some thread of the process is waiting for.
Pending ==
  {c \in Commands :
     \/ c.op = "restore" /\ main = "restore"
     \/ c.op = "move" /\ main = "move" /\ c.req = current_request
     \/ c.op = "remove" /\ \E t \in Thread : pc[t] = "remove" /\ req[t] = c.req}

\* The process ends: every thread and all memory is gone; a pending command was
\* not started yet or goes on by itself.
Die ==
  /\ main' = "dead"
  /\ current_request' = None
  /\ buffer_to_use' = 0
  /\ listing' = {}
  /\ lock_states' = [i \in Slot |-> FALSE]
  /\ pc' = [t \in Thread |-> "idle"]
  /\ req' = [t \in Thread |-> None]
  /\ slot' = [t \in Thread |-> 0]
  /\ curr_gpu_write_count' = [t \in Thread |-> 0]
  /\ rendering' = {}
  /\ \E started \in SUBSET Pending : orphans' = orphans \cup started
  /\ UNCHANGED <<folders, overtaken, arrived, regiven, rendered>>

-----------------------------------------------------------------------------
(* The polling loop of main(). *)

\* Mutant of RestoreInProgress: the directory is only created.
RestoreNothing ==
  /\ main = "restore"
  /\ main' = "scan"
  /\ UNCHANGED <<folders, current_request, buffer_to_use, listing, workers,
                 lock_states, outside, rendered>>

RestoreInProgress ==
  /\ main = "restore"
  /\ Restore
  /\ main' = "scan"
  /\ UNCHANGED <<current_request, buffer_to_use, listing, workers, lock_states,
                 outside, rendered>>

\* find_earliest_request opens the directory ...
OpenDirectory ==
  /\ main = "scan"
  /\ listing' = Present(requests)
  /\ main' = "list"
  /\ current_request' = None
  /\ UNCHANGED <<folders, buffer_to_use, workers, lock_states, outside, rendered>>

\* ... and reads its entries one by one: a file that appears or disappears
\* meanwhile is seen or not.
Entries == {seen \in SUBSET (listing \cup Present(requests)) :
              listing \cap Present(requests) \subseteq seen}

\* Mutant of FindEarliest: the comparison is turned round.
FindLatest(seen) ==
  /\ main = "list"
  /\ seen \in Entries
  /\ \A s \in seen : s.num <= IntMax
  /\ IF seen = {}
       THEN main' = "scan" /\ UNCHANGED <<current_request, buffer_to_use>>
       ELSE /\ \E s \in seen : /\ \A e \in seen : s.num >= e.num
                               /\ current_request' = s.num
            /\ buffer_to_use' = 0
            /\ main' = "probe"
  /\ listing' = {}
  /\ UNCHANGED <<folders, workers, lock_states, outside, rendered>>

\* The sleep that follows a scan without a request is a stuttering step.
FindEarliest(seen) ==
  /\ main = "list"
  /\ seen \in Entries
  /\ \A s \in seen : s.num <= IntMax
  /\ IF seen = {}
       THEN main' = "scan" /\ UNCHANGED <<current_request, buffer_to_use>>
       ELSE /\ \E s \in seen : /\ \A e \in seen : s.num <= e.num
                               /\ current_request' = s.num
            /\ buffer_to_use' = 0
            /\ main' = "probe"
  /\ listing' = {}
  /\ UNCHANGED <<folders, workers, lock_states, outside, rendered>>

\* std::stoi throws out_of_range and nothing catches it.
FindOutOfRange(seen) ==
  /\ main = "list"
  /\ seen \in Entries
  /\ \E s \in seen : s.num > IntMax
  /\ Die
  /\ UNCHANGED kills

\* One turn of the loop over lock_states, each element read on its own while
\* the handlers write theirs.
ProbeTaken ==
  /\ main = "probe"
  /\ buffer_to_use < MaxRequests
  /\ lock_states[buffer_to_use]
  /\ buffer_to_use' = buffer_to_use + 1
  /\ UNCHANGED <<folders, main, current_request, listing, workers, lock_states,
                 outside, rendered>>

\* Mutant of ProbeFree: the lock is tested and not taken.
ProbeFreeUnlocked ==
  /\ main = "probe"
  /\ buffer_to_use < MaxRequests
  /\ ~lock_states[buffer_to_use]
  /\ main' = "move"
  /\ UNCHANGED <<folders, current_request, buffer_to_use, listing, workers,
                 lock_states, outside, rendered>>

ProbeFree ==
  /\ main = "probe"
  /\ buffer_to_use < MaxRequests
  /\ ~lock_states[buffer_to_use]
  /\ lock_states' = [lock_states EXCEPT ![buffer_to_use] = TRUE]
  /\ main' = "move"
  /\ UNCHANGED <<folders, current_request, buffer_to_use, listing, workers,
                 outside, rendered>>

\* No slot was free: sleep, then scan again.
ProbeNone ==
  /\ main = "probe"
  /\ buffer_to_use = MaxRequests
  /\ main' = "scan"
  /\ UNCHANGED <<folders, current_request, buffer_to_use, listing, workers,
                 lock_states, outside, rendered>>

MoveRequest ==
  /\ main = "move"
  /\ Move(current_request)
  /\ main' = "launch"
  /\ UNCHANGED <<current_request, buffer_to_use, listing, workers, lock_states,
                 outside, rendered>>

Launch(t) ==
  /\ main = "launch"
  /\ pc[t] = "idle"
  /\ pc' = [pc EXCEPT ![t] = "read"]
  /\ req' = [req EXCEPT ![t] = current_request]
  /\ slot' = [slot EXCEPT ![t] = buffer_to_use]
  /\ main' = "scan"
  /\ UNCHANGED <<folders, current_request, buffer_to_use, listing, lock_states,
                 curr_gpu_write_count, rendering, outside, rendered>>

-----------------------------------------------------------------------------
(* handle_request, and the start_render thread it starts. *)

Step(t, from, to) ==
  /\ pc[t] = from
  /\ pc' = [pc EXCEPT ![t] = to]

\* The file is read and parse_request gets through.
ReadRequest(t) ==
  /\ Step(t, "read", "start")
  /\ in_progress[Plain(req[t])] = "scene"
  /\ UNCHANGED <<folders, poller, req, slot, curr_gpu_write_count, rendering,
                 lock_states, outside, rendered>>

\* Mutant of RejectRequest: an unreadable request is cleaned up like a finished one.
RejectByRemoving(t) ==
  /\ Step(t, "read", "remove")
  /\ in_progress[Plain(req[t])] # "scene"
  /\ UNCHANGED <<folders, poller, req, slot, curr_gpu_write_count, rendering,
                 lock_states, outside, rendered>>

\* The file is not there or does not parse (_exit), or parse_request throws in a
\* thread where nothing catches it: the whole process ends.
RejectRequest(t) ==
  /\ pc[t] = "read"
  /\ in_progress[Plain(req[t])] # "scene"
  /\ Die
  /\ UNCHANGED kills

StartRender(t) ==
  /\ Step(t, "start", "wait")
  /\ curr_gpu_write_count' = [curr_gpu_write_count EXCEPT ![t] = 0]
  /\ rendering' = rendering \cup {t}
  /\ UNCHANGED <<folders, poller, req, slot, lock_states, outside, rendered>>

\* Mutant of Publish: the number of finished buffers instead of the end mark.
PublishCount(t) ==
  /\ t \in rendering
  /\ curr_gpu_write_count' = [curr_gpu_write_count EXCEPT ![t] = @ + 1]
  /\ rendering' = rendering \ {t}
  /\ rendered' = rendered \cup {req[t]}
  /\ UNCHANGED <<folders, poller, pc, req, slot, lock_states, outside>>

\* start_render stores -1 through the reference into its handler's frame.
Publish(t) ==
  /\ t \in rendering
  /\ curr_gpu_write_count' = [curr_gpu_write_count EXCEPT ![t] = -1]
  /\ rendering' = rendering \ {t}
  /\ rendered' = rendered \cup {req[t]}
  /\ UNCHANGED <<folders, poller, pc, req, slot, lock_states, outside>>

\* Mutants of SeePublished: the handler gives up waiting; or it hands the slot
\* back as soon as it leaves the loop.
SeeTimeout(t) ==
  /\ Step(t, "wait", "remove")
  /\ UNCHANGED <<folders, poller, req, slot, curr_gpu_write_count, rendering,
                 lock_states, outside, rendered>>
SeePublishedUnlocks(t) ==
  /\ curr_gpu_write_count[t] = -1
  /\ Step(t, "wait", "remove")
  /\ lock_states' = [lock_states EXCEPT ![slot[t]] = FALSE]
  /\ UNCHANGED <<folders, poller, req, slot, curr_gpu_write_count, rendering,
                 outside, rendered>>

\* The handler's loop sleeps while the count is 0 and leaves it at -1.
SeePublished(t) ==
  /\ curr_gpu_write_count[t] = -1
  /\ Step(t, "wait", "remove")
  /\ UNCHANGED <<folders, poller, req, slot, curr_gpu_write_count, rendering,
                 lock_states, outside, rendered>>

RemoveRequest(t) ==
  /\ Step(t, "remove", "release")
  /\ Remove(req[t])
  /\ UNCHANGED <<poller, req, slot, curr_gpu_write_count, rendering, lock_states,
                 outside, rendered>>

\* Mutant of Release: the thread ends and keeps its slot.
ReleaseNothing(t) ==
  /\ Step(t, "release", "idle")
  /\ UNCHANGED <<folders, poller, req, slot, curr_gpu_write_count, rendering,
                 lock_states, outside, rendered>>

\* The scene is freed and the slot handed back; the thread ends.
Release(t) ==
  /\ Step(t, "release", "idle")
  /\ lock_states' = [lock_states EXCEPT ![slot[t]] = FALSE]
  /\ UNCHANGED <<folders, poller, req, slot, curr_gpu_write_count, rendering,
                 outside, rendered>>

-----------------------------------------------------------------------------
(* The environment. *)

\* A request file appears, over one of the same name if that is still waiting.  A
\* name is what the clock says; nothing makes it larger than earlier ones or new.
Arrive(s, c) ==
  LET again == s \in arrived /\ requests[s] = Absent IN
  /\ again => s \in ReuseNames
  /\ requests' = [requests EXCEPT ![s] = c]
  /\ arrived' = arrived \cup {s}
  /\ regiven' = IF again THEN regiven \cup {s} ELSE regiven
  /\ UNCHANGED <<in_progress, done, poller, workers, lock_states, orphans, kills,
                 overtaken, rendered>>

Kill ==
  /\ main # "dead"
  /\ kills < MaxKills
  /\ kills' = kills + 1
  /\ Die

\* The supervisor's spawn: a fresh process, all of its memory initialised.
Respawn ==
  /\ main = "dead"
  /\ FastRestart \/ orphans = {}
  /\ main' = "restore"
  /\ overtaken' = (overtaken \/ orphans # {})
  /\ UNCHANGED <<folders, current_request, buffer_to_use, listing, workers,
                 lock_states, orphans, kills, arrived, regiven, rendered>>

\* An orphaned command takes effect.
FinishOrphan(c) ==
  /\ c \in orphans
  /\ orphans' = orphans \ {c}
  /\ \/ c.op = "restore" /\ Restore
     \/ c.op = "move" /\ Move(c.req)
     \/ c.op = "remove" /\ Remove(c.req)
  /\ UNCHANGED <<poller, workers, lock_states, kills, overtaken, arrived, regiven,
                 rendered>>

-----------------------------------------------------------------------------
Init ==
  /\ requests = [s \in Stem |-> Absent]
  /\ in_progress = [s \in Stem |-> Absent]
  /\ main = "restore"
  /\ current_request = None
  /\ buffer_to_use = 0
  /\ listing = {}
  /\ lock_states = [i \in Slot |-> FALSE]
  /\ pc = [t \in Thread |-> "idle"]
  /\ req = [t \in Thread |-> None]
  /\ slot = [t \in Thread |-> 0]
  /\ curr_gpu_write_count = [t \in Thread |-> 0]
  /\ rendering = {}
  /\ orphans = {}
  /\ kills = 0
  /\ overtaken = FALSE
  /\ arrived = {}
  /\ regiven = {}
  /\ rendered = {}
  /\ done = {}

Poll ==
  \/ RestoreInProgress
  \/ OpenDirectory
  \/ \E seen \in SUBSET Stem : FindEarliest(seen) \/ FindOutOfRange(seen)
  \/ ProbeTaken
  \/ ProbeFree
  \/ ProbeNone
  \/ MoveRequest
  \/ \E t \in Thread : Launch(t)

Handle(t) ==
  \/ ReadRequest(t)
  \/ RejectRequest(t)
  \/ StartRender(t)
  \/ SeePublished(t)
  \/ RemoveRequest(t)
  \/ Release(t)

TracerNext ==
  \/ Poll
  \/ \E t \in Thread : Handle(t) \/ Publish(t)
  \/ Kill
  \/ Respawn
  \/ \E c \in Commands : FinishOrphan(c)

Next == TracerNext \/ \E s \in Stem, c \in Kinds : Arrive(s, c)

Spec == Init /\ [][Next]_vars

\* The system scheduler runs every thread and every orphaned command that can
\* run, and the supervisor starts a dead tracer again.
Fairness ==
  /\ WF_vars(Poll)
  /\ \A t \in Thread : WF_vars(Handle(t)) /\ WF_vars(Publish(t))
  /\ \A c \in Commands : WF_vars(FinishOrphan(c))
  /\ WF_vars(Respawn)

FairSpec == Spec /\ Fairness

-----------------------------------------------------------------------------
(* Properties. *)

\* A handler between its launch and its last statement.
Live(t) == pc[t] # "idle"

\* A handler that has read its request file and not removed it yet.
Handling(t) == pc[t] \in {"start", "wait", "remove"}

\* Multi-buffer slots (main.cpp: "Each element is a buffer for 1 thread ONLY"):
\* two live handlers never own the same slot, and the slot the polling loop has
\* just taken belongs to no handler.
SlotExclusive ==
  /\ \A t, u \in Thread : Live(t) /\ Live(u) /\ slot[t] = slot[u] => t = u
  /\ main \in {"move", "launch"} => \A t \in Thread : Live(t) => slot[t] # buffer_to_use

\* No slot leaks: one is marked in use exactly while the polling loop or a live
\* handler owns it, so no sequence of requests and crashes uses up the pool.
SlotAccounted ==
  \A i \in Slot :
    lock_states[i] <=> \/ main \in {"move", "launch"} /\ buffer_to_use = i
                       \/ \E t \in Thread : Live(t) /\ slot[t] = i

\* The detached start_render holds references into its handler's stack frame
\* and heap: until it has published, the handler is still in its waiting loop.
NoDanglingRender == \A t \in rendering : pc[t] = "wait"

\* No crash, restart or delayed command loses or duplicates a request: each one
\* that arrived is waiting, in progress or done, and in one of these only unless
\* its name was given again after the first file of that name had been taken.
Conservation ==
  \A s \in Stem :
    /\ s \in arrived <=> requests[s] # Absent \/ in_progress[s] # Absent \/ s \in done
    /\ s \notin regiven =>
         /\ requests[s] # Absent => in_progress[s] = Absent /\ s \notin done
         /\ in_progress[s] # Absent => s \notin done

\* A request file is deleted only after the render of that request was published,
\* whichever process and whichever restart deletes it.
RemovedOnlyRendered == \A s \in done : s.num \in rendered

\* Several files are told apart by nothing the code looks at: their names start with
\* the same number (1.json, 1ms.json), or one name was given again.
Ambiguous(r) ==
  \/ Plain(r) \in regiven
  \/ \E a, b \in arrived : a # b /\ a.num = r /\ b.num = r

\* Two handlers never carry out the same request, unless its number is ambiguous, or
\* a tracer was started over an orphaned command (an orphaned restore could put a
\* request that is being carried out back among the waiting ones).
OneHandler ==
  ~overtaken =>
    \A t, u \in Thread :
      Handling(t) /\ Handling(u) /\ req[t] = req[u] /\ ~Ambiguous(req[t]) => t = u

\* While the process runs and has restored what a crash left behind, every file in
\* in_progress has a handler that will remove it, or is about to get one: nothing
\* in the code would look at it again before the next crash.
Attended(s) ==
  \/ main = "launch" /\ current_request = s.num
  \/ \E t \in Thread : pc[t] \in {"read", "start", "wait", "remove"} /\ req[t] = s.num
AllAttended ==
  main \notin {"dead", "restore"} => \A s \in Present(in_progress) : Attended(s)

\* ... which holds as long as no tracer was started over an orphaned command: a mv that
\* takes effect after the new tracer's restore leaves its file there.
NotStranded == ~overtaken => AllAttended

\* What the code guarantees of the order of numbers: a request that was waiting when a
\* scan opened the directory is not overtaken by any request the scan selects.
OldestListedFirst ==
  [][main = "list" /\ main' = "probe"
       => \A a \in listing \cap Present(requests) : current_request' <= a.num]_vars

\* Every request is carried out and removed in the end, however the process is
\* killed, provided every file is a readable scene and is named by a plain number
\* in range, and restarts do not overtake orphaned commands.
EveryRequestDone == \A s \in Stem : s \in arrived ~> s \in done

\* The refinement mapping to the abstract queue: the two directories are the queue
\* and the requests being carried out.
QueueStatus ==
  [s \in Stem |-> IF s \in done THEN "done"
                  ELSE IF in_progress[s] # Absent THEN "running"
                  ELSE IF requests[s] # Absent THEN "queued"
                  ELSE "absent"]

Queue == INSTANCE RequestQueue
           WITH Job <- Stem, Capacity <- MaxRequests, status <- QueueStatus

\* The tracer carries out requests the way the abstract queue allows: at most
\* max_requests at a time, each finished once, requeued only by recovery.
ImplementsQueue == Queue!QueueSpec
=============================================================================
