# TLA+ specifications of path-tracer-cpp

The system is three processes that share a directory tree. A supervisor starts and restarts
an http-server and a path-tracer. The http-server turns scenes it receives into files of
`path-tracer/requests` and meshes into files of `path-tracer/meshes`. The path-tracer polls
the first directory, moves a request to `requests/in_progress`, carries it out in a thread
of its own, and removes it. There is no channel but these files, and every process can die at
any step while the files stay.

The modules here model that behaviour. TLC checks small instances, TLAPS proves safety for every
value of the constants. Paths below are those of the repository.

## 1. Inventory

| Part | State it keeps | Operations | Hard because |
|---|---|---|---|
| Supervisor, `src/main.cpp` | `http_pid`, `path_tracer_pid`, global `children` | `spawn`, guarded respawn, `waitpid` loop, clearing of `children`, `sig_handler` | the handler runs between any two statements; pids are reused; fork fails |
| Path-tracer, polling loop, `src/path-tracer/src/main.cpp` | `current_request`, `lock_states`, multi-buffers | restore at start-up, `find_earliest_request`, slot search, `mv`, launch | slots are shared with detached threads; the directory changes while it is read; a crash between two steps; shell commands outlive the process |
| Path-tracer, handlers, `request_handler.cpp`, `renderer.cu` | an atomic in the handler's frame, heap arrays, the slot | read and parse, start `start_render`, wait, `rm`, release | a detached thread refers to another's frame; any exception ends the whole process |
| Http-server, accept loop and pool, `lib/httplib/include/httplib.h` | `jobs_`, `idle_thread_count_`, three lists of threads, `shutdown_` | `listen_internal`, `enqueue`, `worker`, `shutdown`, the keep-alive loop | workers come and go while connections are put in; notifications reach nobody or a worker too late; the pool is destroyed after its shutdown |
| Http-server, middleware, `controller.cpp`, `middleware/` | layers; `res.status` | `check_json`, `wrap_endpoint` | layers and handler share one status, which starts at -1 |
| Http-server, endpoints | request and mesh files, the system clock | `submit_render`, `create_request_file`, `upload_mesh`, `health` | threads share a directory whose names come from the clock; errors of streams are not looked at; a crash between creation and write |
| `enforce_*`, `validate_mesh`, `parse_request` | none | checks and conversions of data | fixed widths, signed bytes, unchecked lengths |
| `lib/raylib` | none | intersections, reflection | float arithmetic |
| `gen_content`, `stream_result`, `alloc`/`dealloc` | none | formatting; never called; one CUDA call each | not modelled |
| vendored asio, the rest of cpp-httplib, nlohmann json | - | - | modelled only as `src/src` uses them |

How they interact: the supervisor knows its children by pid only. The http-server and the path-tracer
meet only in `path-tracer/requests` (written by `create_request_file`, read and emptied by the polling
loop). Inside the path-tracer the polling loop, the handlers and the `start_render` threads share
`lock_states`, the buffers and the in-progress directory; inside the http-server the threads of
httplib's pool share the two directories and the clock.

What makes each part correct:

- supervisor: one process per role, each dead one started again, none left behind by a signal;
- polling loop and handlers: one owner per slot, no slot lost, no request lost, passed to two threads
  at once or left in `in_progress`, none deleted before it was rendered, each carried out in the end;
- http-server: only valid scenes become requests, what is acknowledged is on disk, what is refused leaves
  nothing that could be taken for a request or a mesh, every HTTP request is answered;
- accept loop and pool: every accepted connection is carried and closed, no wakeup is lost, the pool keeps to its limit and a shutdown ends;
- the two programs together: what the server has acknowledged is still there whatever the tracer does, and is rendered in the end;
- data: the checks enforce what their comments say, read nothing but the data that was sent, and what they accept the tracer reads as it was meant;
- geometry: a ray is said to hit a triangle exactly if it does.

Not all of this is so. Section 3 has a run for four places where the code does not keep what a comment or a README of the repository says, and lists the smaller ones after the findings.

## 2. Modules

| Module | Models | Extends / instances |
|---|---|---|
| `RequestQueue` | what a request may go through, without directories, slots or threads | |
| `PathTracer` | polling loop, handlers, `start_render`, the two directories, crash, restart, orphaned commands | instance of `RequestQueue` under the mapping `QueueStatus` |
| `Supervisor` | `src/main.cpp` and the process table | |
| `SceneStore` | what clients are promised about their scenes, without threads, files or statements | |
| `HttpServer` | middleware, the three endpoints, the two directories, clock, crash | instance of `SceneStore` under `Asking`, `Outcome` and `Kept` |
| `Pipeline` | the http-server and the path-tracer over the one directory they share | extends `PathTracer`, instance of `HttpServer` |
| `HttpPool` | accept loop, thread pool, keep-alive loop and shutdown of httplib | |
| `MeshFormat` | `validate_mesh`, read by read | |
| `SceneFormat` | the `enforce_*` functions and `parse_request` over one document, with the casts of both | |
| `Ray` | the intersections and the reflection of `ray.cuh` over exact rationals | |
| `MCPathTracer`, `MCSupervisor`, `MCHttpServer`, `MCPipeline`, `MCHttpPool`; `MCFormats` | the constants of the runs | the module in the name; `MeshFormat`, `SceneFormat` and `Ray` |
| `PathTracerProofs` | type correctness, slots, threads, conservation, order | `PathTracer` |
| `PathTracerRefines` | recovery after crashes, one handler per request; `PathTracer` implements `RequestQueue` | `PathTracerProofs` |
| `SupervisorProofs` | safety of `Supervisor` | `Supervisor` |
| `HttpServerProofs` | safety of `HttpServer`; what holds of its files without disk errors; `HttpServer` implements `SceneStore` | `HttpServer` |
| `PipelineProofs` | safety of the composed system | `Pipeline`, `PathTracerProofs`, instance of `HttpServerProofs` |
| `HttpPoolProofs` | safety of `HttpPool` | `HttpPool` |
| `FormatProofs` | what the checks read and accept, and what the casts keep | `MeshFormat`, `SceneFormat` |
| `RayProofs` | which rays are said to hit, and where a reflected ray goes | `Ray` |

Operators named as a mutant in a comment are changed forms of the definition below them, each the way a
plausible slip would change the code. They take no part in the specifications; every property of
a passing run fails when its mutant is put in the place of the definition.

### PathTracer

`requests`, `in_progress`: what a file of that stem holds, or `Absent`. A stem is a number and a unit, because the
http-server's names end in `ms` while the path-tracer's own commands do not write it. A file holds a readable
scene, a torn text, or JSON of another shape. `main` is the statement the polling loop is at; `pc[t]` that of a
handler; `rendering` the `start_render` threads that have not stored -1 yet.

| Action | Code |
|---|---|
| `RestoreInProgress` | the `mv in_progress/* ./` before the loop |
| `OpenDirectory`, `FindEarliest`, `FindOutOfRange` | `find_earliest_request`: the directory is opened, then read entry by entry, so that a file which appears meanwhile is seen or not; `std::stoi` throws for a large number |
| `ProbeTaken`, `ProbeFree`, `ProbeNone` | one turn of the loop over `lock_states`, and its end without a free slot |
| `MoveRequest`, `Launch` | the `mv` whose result nobody looks at; the detached thread |
| `ReadRequest`, `RejectRequest` | `parse_request` gets through; or the file is missing or unreadable (`_exit`), or of another shape (uncaught exception): the process ends |
| `StartRender`, `Publish`, `SeePublished` | the second detached thread, its `curr_gpu_write_count = -1`, the loop that waits for it |
| `RemoveRequest`, `Release` | `rm`; the frees and `lock_state = false` |
| `Kill`, `Respawn`, `FinishOrphan` | death from outside at any step; the supervisor's next spawn; a `std::system` command of a dead tracer that takes effect later |
| `Arrive` | a file appears, over one of the same name if that is still waiting |

`Die` is the end of the process: all memory is gone, the directories stay, and any subset of the shell commands it was waiting
for lives on in `orphans`. `FastRestart` says whether the next tracer may start before those are done. The supervisor
sleeps a second between polls, so usually it does not, but nothing prevents it.

A name is what a clock says when the file is created. Nothing makes it larger than earlier names, or new: `1.json` and `1ms.json` can be there together, an older
number can come after a younger one, and a name of `ReuseNames` can come again after its file was taken (`regiven`). A number that stands for several files is `Ambiguous`: two handlers
can then carry out one file, which is why `OneHandler` excuses it.

A shell command acts in one step. A restore of several files is really one rename per file; nobody but
an overtaking tracer could see the states in between. Sleeping is stuttering.

### Supervisor

`pid` is the two local variables, `children` the vector as a set, `forked` the result of `fork` before it is
pushed, `os` the process table with unrelated processes in it, so that pids are reused. `Fork`, `ForkFails`, `Record` split
`spawn` where a signal can fall; `Reap`/`ReapNone` are the `waitpid` loop; `Clean` drops the -1 entries. `Signal` is
`sig_handler`: in the middle of `spawn` it may read storage the vector has just left, so it kills any set of pids. `Clean` is
one step although the copy is not: the vector is overwritten in place from the front, and every pid that is
kept can be found in it at any moment.

### HttpServer

A client is one HTTP request and the thread that serves it; `at` is the statement it has reached. `CheckJson`,
`SkipHandler`, `Enter` and `RunOutgoing` are the middleware; `submit_render` is `RejectSubmit`, `ThrowSubmit` (an empty body is parsed
outside the try block; httplib answers 500), `AcceptSubmit`, then `ReadClock`, `Touch`, `Open`, `Write` for
`create_request_file`, `FailSubmit` for an exception in it (500, with the file as far as it got) and `Accept` for the last lines; `upload_mesh` is `RejectUpload`, `ChooseId`, `FailUpload`,
`OpenMesh`, `WriteMesh`, `Accept`. What the `enforce_*` functions accept is the body `"scene"`, whose mesh they look for on disk;
whether the bytes of a mesh pass `validate_mesh` is left open. A file holds the name of the
client whose bytes are in it, or is `Torn`. The clock can move either way.

Not in the model: HTTP requests that httplib refuses before routing (payload limit), and the wording of answers.

### Pipeline

Both modules unchanged, each with its own steps. `HttpStep` is any step of the server: the server's own view of its files is `written`, and a
file the step changes is shown to the tracer as `Shown` says - absent, torn, or a JSON string, which `parse_request` cannot
read. `TracerStep` is any step of the tracer, on `requests` and `in_progress`. `Drop` is a readable file put into the directory by hand, under a
name without a unit. That the two views cannot drift apart is the invariant `OneDirectory`, not an assumption.
`PipelineFairSpec` adds the fairness of both programs, for what the READMEs promise of it (finding 3).

### HttpPool

`acceptor` is the statement the accept loop has reached, `at[w]` that of a worker, `phase` and `conn` where a connection is.

| Action | Code |
|---|---|
| `Accept`, `AcceptFails` | `listen_internal`: a connection, or an error that ends the loop |
| `Enqueue`, `Spawn`, `NotifyOne` | `enqueue`: the queue and the decision under the mutex; joining the finished workers and starting one, still under it; `notify_one` after it is released |
| `SetShutdown`, `NotifyAll`, `JoinBase`, `TakeDynamic`, `JoinRemaining`, `Cleanup` | `shutdown`, one action per critical section and join; the last join holds the mutex |
| `Sleep`, `TakeJob`, `Break`, `Retire` | `worker`: the predicate of its wait is evaluated under the mutex, and it blocks, takes a job, ends at shutdown, or ends because its wait timed out |
| `Continue`, `Leave`, `End` | what follows a job: the next round, or `move_to_finished` of a dynamic worker; the return of the thread function |
| `Ready`, `Respond`, `Close` | the keep-alive loop: a request, its answer, the end of the connection for whatever reason |
| `Spurious`, `Expire` | the condition variable wakes without a notification, or its time is up |

`MutexFree` keeps workers out of their critical sections while the accept loop joins under the mutex; a join of threads in `finished_threads_` can therefore
wait only for workers past their last one. `Server::stop` is never called and no limit of queued requests is set by `controller.cpp`, so neither is modelled;
nor is a `std::thread` that cannot be created, which ends the process.

### MeshFormat, SceneFormat, Ray

`MeshFormat` takes a mesh as the client sends it: the two numbers, and the vertices and indices that follow them, which may be more or fewer than the numbers say, and of the bytes the last ones may
be missing. `validate_mesh` reads: `ReadVertsLen`, `ReadTrisLen`, `CheckIndex` for each turn of the loop, `Pass` at its end. `WordAt` is the or of sign-extended bytes, `trisLenIndex` the product that wraps, and
`ReadOutside` a read past the end of the body, at any of the three places, after which either verdict or the end of the process is possible. How many values a byte has is a constant (`ByteSize`); words are four bytes as in the code.
`max_payload_length`, which `controller.cpp` sets to 50 million, is why a misread number always points behind the body.

`SceneFormat` gives each check of the code an operator of its name; `Verdicts` is their order, with what can come out where it is not determined: `[]` of a const document asserts
that a key exists (`camera`, `mats`), and `pixels_to_skip[0][0]` is read before the length of `pixels_to_skip[0]` is known (`FirstPixelEmpty`). `parse_request` is given the accepted document itself. `Pipeline` shows that what the
server writes today is a string around it; `SceneFormat` is about what the two agree on once that is an object, as the code of `parse_request` expects. Of `verts`, `tris` and `mat_indices` it takes
`size()` and as many elements, so null, an empty object and, for `verts`, a scalar are read as lists of nothing (`IsList`). How many values the types of 8, 16, 32 and 64 bits have are constants
(`Size8` and so on). `And` is the `&` of `request_size`, as a recursive function that can be proved about.

`Ray` has the three functions of `ray.cuh` with the library's vectors as triples of integers and a quotient as a pair. What `epsilon` separates from 0 is 0 here, and
rounding is left out.

## 3. Runs

| Run | Checks | Bounds | Shows |
|---|---|---|---|
| `tracer_safety` | `TypeOK`, `SlotExclusive`, `SlotAccounted`, `NoDanglingRender`, `Conservation`, `RemovedOnlyRendered`, `OneHandler`, `NotStranded` | two slots, two threads, files 1, 1ms, 2 and 3 in any order with 3 out of range, one kill (deaths by the code itself are unbounded), overtaking restarts | 309,467 states |
| `tracer_progress` | `EveryRequestDone`, `ImplementsQueue`, `OldestListedFirst` | one slot, two threads, two requests in either order, two kills, no overtaking, readable files; `FairSpec` | 2,443 states |
| `supervisor_safety` | `OneProcessPerRole`, `ChildrenRecorded`, `PidsCurrent`, `SignalKillsRecorded`, `Respawn` | four pids, one unrelated process; `FairSpec` | 26,296 states |
| `supervisor_signal` | `SignalLeavesNoChild` | the same | violated: finding 1 |
| `http_faults` | `TypeOK`, `OnlyScenesQueued`, `RefusedLeavesNothing`, `EveryRequestAnswered` | two clients with every kind of message, two clock readings, disk, memory and entropy errors, one crash; `FairSpec` | 66,972 states |
| `http_store` | `StoredUnlessShared`, `TornIsExplained`, `QueuedMeshWhole`, `ImplementsStore` | three clients that upload or submit, two clock readings, one crash, no disk or entropy error | 17,330 states |
| `http_same_millisecond` | `AcceptedIsQueued` | the same without a crash | violated: finding 2 |
| `pipeline` | `OneDirectory`, `AcceptedStaysQueued` | two clients, two clock readings (one an int holds, one it does not), two files by hand around them, one slot, one crash of the server; the tracer dies by its own code as often as it does | 206,260 states |
| `pipeline_stuck` | `WaitingRendered` | two clients, one clock reading, more than an int holds, one file by hand, no kill or crash; `PipelineFairSpec` | violated: finding 3 |
| `http_pool` | `NoLostWakeup`, `PoolBounded`, `IdleCounted`, `OnePlace`, `GoneWhenStopped`, `EveryConnectionClosed`, `ListenReturns` | one base worker, one dynamic at a time under two identifiers, three connections of two requests each; `FairSpec` | 120,316 states |
| `formats` | `WholeReadInside`, `AcceptedIsMeant`, `AgreedKeysRead`, `TriangleHit`, `PlaneReflection` | about 1,400 meshes with bytes of 3 bits, cut short by 0, 1, 4 or 6 bytes, about 9,600 documents with types of 2, 4, 8 and 16 bits, 2,808 rays at three triangles | 37,770 states |
| `mesh_indices` | `IndicesEnforced` | the meshes of `formats` | violated: finding 4 |

Deadlock is checked in all runs but `http_pool`, where the server really stops after `listen` has returned.

Why these bounds are enough to meet the cases: two slots and two threads are the least in which two handlers run at
once and the pool is exhausted; one slot makes a second request wait for it. Two names with one number are the least that can be mistaken for one another, and a third
file lets the loop work on something else meanwhile. `ReuseNames` is empty in every run: with names that come again TLC does not get through an instance with several others; the theorems hold
for every `ReuseNames`. Two readings of the clock let submissions share a
millisecond or not. Three clients are one upload and two submissions of its mesh. Four pids leave room for
two children, one dead child that was not reaped, and a stranger. The thread identifiers
bound the handlers that are alive at a time; there are never more than slots (`SlotExclusive`), so two suffice for two.

In `pipeline` the numbers by hand lie one below and one between those of the clock. In `pipeline_stuck` one reading is enough, and it is one `std::stoi` cannot take, as every reading of the real clock is. In `http_pool` three connections are one
for each worker and one that must wait; two identifiers let a dynamic worker be started while the last one is still ending. In `formats` bytes of 3 bits are negative from 4 on, and the counts go over each edge:
zero, one, a negative low byte, a second byte, a negative second byte, and for numbers that fit nothing one near the end of a word; nine triangles are the fewest of which two indices are looked at. A byte and a word and a half less cut
every number of a short mesh in two; no body is empty, which `upload_mesh` refuses first. The numbers of documents lie
at 0, at the 16-bit limit, at an int that is negative after the cast and at one that has wrapped; 1, 4 and 5 materials are below, at and above what eight bits count; the lists
of the tracer are null, a scalar, and lists with and without numbers.

Symmetry is used for threads and clients in runs without liveness only.

### Findings

1. `supervisor_signal`. main.cpp promises that exit signals kill the children. One that arrives between `fork` and
   `push_back` leaves the new child running. `SignalKillsRecorded` is what does hold.
2. `http_same_millisecond`. endpoints/README.md says a submission is queued. Two of one millisecond share a file and both are
   answered 200. `StoredUnlessShared` is what does hold.
3. `pipeline_stuck`. http-server/README.md says scenes are sent to the path-tracer to be rendered, path-tracer/README.md that the tracer carries out the first request it finds. The tracer ends at the
   name of a submission (`std::stoi` throws for milliseconds since 1970), and could not read what is in it, for `create_request_file` is given a string and writes a JSON string. Neither the submission nor
   a readable file beside it is ever rendered, though both programs go on. The theorem `NeverRendered` says it of every submission, and `Blocks` that a name `std::stoi` can take, of a file
   that cannot be read, keeps back all larger numbers. `AcceptedStaysQueued` is what does hold.
4. `mesh_indices`. The comment of `validate_mesh` says it enforces that all indices are in range. It looks at the number of triangles and at a twelfth of the indices: three vertices and the triangle
   (0, 0, 11) pass. `WholeReadInside` is what does hold.

Seen while modelling, and part of the models, without a run of their own. Against something the repository says:

- after a crash "all requests in progress" are to be moved back (main.cpp). A tracer killed while it waits for `mv 1.json in_progress/1.json` leaves the shell behind; if the `mv` takes effect after the
  next tracer's restore, the request stays in `in_progress` with no handler until the next crash (`NotStranded` excuses `overtaken`);
- requests are to be carried out first in, first out (path-tracer/README.md). Of two that arrive while the directory is read, the younger may be the only one seen (`OldestListedFirst` is what holds);
- a request is to be passed "onto another thread" (main.cpp). With `1.json` in progress and `1ms.json` waiting, the number of the second is 1 too; its `mv` fails, nobody looks, and a second thread
  carries out `in_progress/1.json` together with the first (`OneHandler` excuses `Ambiguous`);
- `validate_mesh` is to enforce that indices are in range ONLY. One vertex and the triangle (0, 0, 0) are refused, because the number of triangles is taken for an index;
- the comment of `submit_render` calls `pixels_to_skip` optional, and the form it gives has no `verts`, `tris` or `mat_indices`. A document without them is accepted and ends the tracer (`AgreedKeysRead` is what holds);
- up to 256 materials are allowed, and the tracer counts 256 as 0; width, height and samples are documented as `uint16_t` but compared after a cast to `int`, so 2^32 + 1 passes for 1
  (`AcceptedIsMeant` is what holds); three things of any kind pass for the `float[3]` of `rgb`, and end the tracer; `fov` is to be between 0 and 180 exclusive, and 0 and 180 pass;
- ray.cuh and the README of raylib say `get_tri_intersect` gives the intersection with the triangle. Points beyond the edge from `v3` to `v1` get a value too, because `u` is compared by its absolute
  value (`TriangleHit` is what holds, the theorem `HitOfRay` gives the exact region).

Against nothing it says:
`main` registers its handler for SIGKILL, which cannot be caught; the clearing step keeps the pids of reaped children, so `children` grows
with each respawn and the signal handler may kill a stranger; a failed write of a request or mesh is answered 200; a submission with an
empty body is answered 500; a body without Content-Type that is not JSON is answered 400 by `check_json` even for an upload;
a body cut short, or with numbers that do not fit it, makes `validate_mesh` read behind its end, 4 GB behind it if the number of vertices has a low byte above 127; `pixels_to_skip: [[]]` makes `enforce_valid_pixels_to_skip` read
behind an empty array; `request_size` can be 0; an exception in `create_request_file` leaves an empty file in the queue and is answered 500; the
reflected ray starts behind the plane and runs back to the point it is reflected at (`PlaneReflection`), as the test of raylib expects.

## 4. Fairness

- `PathTracer`: weak fairness of the polling loop, of each handler, of each `start_render` thread and of each orphaned command - threads and processes
  that the system schedules, none of which waits for a condition that can be taken away again - and of `Respawn`, which the supervisor's loop does (`Respawn` in
  `Supervisor`). `EveryRequestDone` further needs files that can be read, restarts that do not overtake and names that are not given again: the run's constants say so.
  Kills are bounded, since a process that is killed for ever does nothing for ever.
- `Supervisor`: weak fairness of the main thread, and strong fairness of a successful fork for each role: fork may fail any number of times, not for ever.
  Nothing is assumed of signals: the property lets the supervisor be gone.
- `HttpPool`: weak fairness of the accept loop past `accept`, and of each worker. Both are threads; a step that needs the mutex finds it free again, since every critical section ends and the joins
  under it wait only for threads that no longer need it (`ListenReturns` would fail otherwise). `Close` is among the worker's steps because `keep_alive_timeout_sec_` and the timeouts of the socket end every wait for a client, and the handlers
  themselves end (`EveryRequestAnswered`). Nothing is assumed of clients, of `accept`, of spurious wakeups or of a wait's timeout.
- `Pipeline`: in `PipelineFairSpec` that of the two programs it is made of, so that finding 3 is about a system in which everybody goes on. Everything else is safety, as in the formats.
- `HttpServer`: weak fairness of each thread after httplib has handed it a request. Nothing is assumed of clients, the clock or crashes.

## 5. Proofs

All theorems hold for every value of the constants that satisfies the named assumptions of the module
(`SizeAssumption`, `StemAssumption`, `SupervisorAssumption`, `HttpAssumption`, `PipelineAssumption`, `PoolAssumption`, `MeshAssumption`, `SceneAssumption`, `RayAssumption`), which the runs evaluate.

**PathTracer.** `TypeOK` is not inductive by itself, since a thread's `req` is used as a file's name and the loop's slot as an index.
`BaseInv` adds `Chosen` (inside an iteration and inside a handler a request, and past the probing a slot, is chosen) and `RenderInv` (a
`start_render` that still has to publish has count 0 and a waiting handler, which gives `NoDanglingRender`). `SlotInv` is `SlotExclusive` and
`SlotAccounted` together: each needs the other, for a slot found free has no owner only because marks and owners agree. `Conservation` is
inductive over `BaseInv`. `RemovedOnlyRendered` also needs that a handler past its waiting loop, and an orphaned `rm`, belong to a published render.

`PathTracerRefines` proves `NotStranded` and `OneHandler` from `RecoveryInv`. As long as no tracer was started over an orphaned command (`~overtaken`), a live
process has no orphans, what the loop has listed or chosen is still in the directory, and, for a number that is not `Ambiguous`, handlers and in-progress files correspond one to one and
the request about to be launched has no handler yet (`Calm`). Nothing is assumed of the order in which names arrive, or that they are new. That a request whose `mv` found no file is handled at all - its name has a unit - is why
`Selected` allows for a file of another name.

It also maps the directories to the abstract status. The bound on running requests is a counting argument: each in-progress file has a
handler, handlers own different slots, and the loop that issues a `mv` holds one more, so there is room for it (`RoomWhenMoving`, by an injection into the
slots); an orphaned `mv` still finds that room (`RoomInv`). `Refinement` has the hypotheses that no tracer overtakes and that
no name comes again after its file was taken - a request of the abstract queue is done once; `SlowRestartRefines` discharges them when `FastRestart` is FALSE and `ReuseNames` empty.

**Supervisor.** `OneProcessPerRole` follows, while the supervisor lives, from `ChildrenRecorded` and `PidsCurrent`: a process of a role is the one its variable names, or
the one being forked, for which the variable is -1. `ForkInv` carries that through `spawn`. After the end of the supervisor processes only disappear.

**HttpServer.** `PathInv` says what a thread at a statement has checked, chosen and answered, `OwnerInv` that a file holds a client's bytes only after
that client's write. With `DiskFails` FALSE, `WholeInv` follows the file of a submission whose name nobody shares through truncation and write;
`SharedStays` (sharing is for ever) is why the exception can be stated in the present. With `EntropyFails` FALSE too, `MeshInv` says that an id has one owner and a
scene names the id of an upload that was answered, hence written. `RefusedCleanly` holds with every failure: what an exception leaves of a file is empty. `StoreRefinement` maps the server to `SceneStore`: `ReadClock` takes a name, `Open` and `Write` are a `Put` each (the first only takes namesakes away, the
second keeps the scene), the end of the outgoing layer or the exception accepts or refuses, a crash loses those not answered, and every other step is a stutter. What it needs beyond the invariants above is that a thread
past its handler has a status, and that a submission is answered 200 only with a name (both in `PathInv`).

**Pipeline.** A step is one of the server, the tracer or `Drop`, so the invariants of the tracer (`BaseInv`, `Conservation`) are carried over with the lemmas of `PathTracerProofs` for its steps and a short argument for
the others, which touch `requests` only where the tracer has nothing. `SharedDirectory` holds since every name the tracer moves, restores or removes has no unit while `Ms(n)` has one. `NeverRendered` follows from it and from
`ReadRequest` needing a readable file. `Blocks` is an action property proved from an invariant (`Blocked`) that is set by the hypothesis and then kept: the submission lies in the directory
whenever one is opened, so every later scan lists it and the minimum is never above it. `ServerUnchanged` is a refinement: `PipelineSpec => Http!Spec`. `AcceptedStays` joins
the two programs: the theorems of `HttpServerProofs` are cited through its instance over `written`, what the server alone writes (`Server`; `ServerAssumption` discharges its assumptions, `SameServer` carries the
specification over). So a scene that is acknowledged is whole in `written`, where `StoredUnlessShared` keeps it, and `SharedDirectory` says that `requests` shows the same whatever the tracer does. It needs
`DiskFails = FALSE`, as `Stored` does.

**HttpPool.** `NoLostWakeup` is inductive as it stands once `TypeOK` is added: a worker falls asleep only when it has seen an empty queue under the mutex, and a notification of a worker that is already awake is not needed. `IdleExact` counts through every way into a
wait and out of it. `PoolBounded` needs to know which list a worker is in (`ListInv`) and that `Spawn` still has room (`RoomInv`), since the count of `enqueue` is taken one step earlier. `StopsClean` needs that the queue is empty once a base worker has broken off (`DrainInv`) and that an
accepted connection is with the accept loop, in the queue or with a worker at work (`HeldInv`). `ConnectionsInOnePlace` counts: a worker that takes a connection has none, and neither has an accept loop
that accepts one (`PlaceInv`); taking the front of the queue moves the others up one place (`QueueMovesUp`, by a bijection), so every step that adds a connection to one place takes it from another.

**MeshFormat.** The assumption is the code's: a body httplib lets through is shorter than 2^32 bytes by far more than the largest mistake of a number read wrongly (50 million against
2^32 - 6 * 2^24 bytes). `Misread` is the arithmetic of the sign: a number with a negative byte below the highest is read as one that is
at most ByteSize^3 / 2 below 2^32 (2^23 for 8 bits), so that 12 times it wraps to at most 6 * 2^24 below 2^32 and points behind every body. `WordOfBody` says that what is read at a multiple of
four is the word the client wrote there, and `WhereTrianglesAre` where the second read lands. `MeshInv` follows the loop: `i` stands `j` words behind the number of triangles, and every word before it passed as an index (`Checked`).
`AllChecked` turns that, at the end of the loop, into what `LooksRight` says of the mesh, and `PassesAsIndex` is why a misread index never passes. `ExactVerdict` is the result for a mesh that arrived whole, accepted and refused alike, and
`Verdict` the part of it that can be wanted; of a body that is cut short, or whose numbers do not fit it, nothing is proved.

**SceneFormat.** `SceneInv` says that a verdict is one of `Verdicts` on the scene in hand, and that `parsed` is what the casts give. `FailsForGaps` is then a case distinction over the keys that `Readable` asks for, and `IsMeant` the arithmetic of the casts: what is below a limit
that was itself cast is left alone by the cast (`Remains`). That `request_size` is at most the samples is `AndBound`, which needs first that `And` satisfies its own recursive equation (`AndStep`, by building the function up to n), and
then an induction over halves. The library's induction theorems take an operator as a parameter; `StrongInduction` states the principle with a set of numbers instead, from the well-foundedness of `<`.

**Ray.** `Hit` compares the algorithm with geometry that does not mention it. With n the normal of the triangle, the side of an edge on which the met point lies is n.n times the numerator that `get_tri_intersect` compares with 0 or 1 (`EdgeSide` from
`CrossOfCross`, `SideOf`, `Numerators`), and n.n is positive for a ray that is not parallel (`Positive`); the sign of the denominator goes away in `QuotientBySign`. `HitOfRay` is the exact
region the function takes for the triangle: what is inside the first two edges, and inside the third or beyond it by at most a height (`Reach`). `Hit` keeps of it what the triangle asks for. `Reflection` is the same kind of arithmetic (`Moved`). Both are over exact
integers and quotients, for every ray and triangle.

The run of the three formats takes one of them at a time (`MCFormats`); each of its steps is one of `MeshNext`, `SceneNext` or `RayNext` that leaves the other two alone, and the theorems are about `MeshSpec`, `SceneSpec` and `RaySpec`.

Only model-checked: liveness (`EveryRequestDone`, `Respawn`, `EveryRequestAnswered`, `EveryConnectionClosed`, `ListenReturns`), which the prover cannot do, and the violations. Every other property of a passing run is stated by a theorem.

## 6. Plan

Done, in this order because the tracer's directories and slots are where requests can be lost: `RequestQueue`, `PathTracer` with its proofs
and refinement, `Supervisor` and `HttpServer` with their proofs, `Pipeline` and `HttpPool` with theirs, `MeshFormat`, `SceneFormat` and `Ray`
with theirs.

Next:

1. A second supervisor after a SIGKILL of the first, over the same children and directories, once the repository says what should hold then.

## 7. Not modelled

`gen_content` (wording), `stream_result` (never called), `alloc`/`dealloc` (CUDA calls), `start_render` beyond its end mark (the rest is not written yet); of raylib, rounding and the tolerance of `operator==`;
the vector, matrix and common libraries, submodules whose sources are not in the repository.

Nearly all lines of the tree are vendored: nlohmann json, cpp-httplib and asio, of which the program uses the server half of httplib, parsing and `get` of json, and one function of asio (`make_address`). The pool, the accept
loop and the keep-alive loop of httplib are modelled, because the program's concurrency lives there; the rest is used as pure conversion (HTTP and JSON texts to values) or not at all (clients, TLS, WebSockets, compression, all of asio's
sockets), and a model of it would say nothing about this program.
