----------------------------- MODULE HttpServer -----------------------------
(***************************************************************************)
(* The http-server process: the middleware wrapped round each endpoint, and *)
(* the endpoints health, submit_render and upload_mesh, each run by a       *)
(* thread of httplib's pool.  The endpoints share the two directories       *)
(* path-tracer/requests and path-tracer/meshes and the system clock, which  *)
(* gives a request file its name.                                          *)
(*                                                                         *)
(* What enforce_* accepts is abstracted to the body "scene"; whether the    *)
(* bytes of a mesh pass validate_mesh is left open.                        *)
(***************************************************************************)
EXTENDS Integers, FiniteSets

CONSTANTS
  Client,       \* HTTP requests, one thread each
  Stamp,        \* the readings of the system clock, in milliseconds
  MeshId,       \* ids a mesh can get
  ZeroId,       \* the id made of charset[0] only: raw_id stays zero when nothing is read
  Sent,         \* the messages clients send, a subset of Message
  DiskFails,    \* may opening or writing a file, or the memory for it, fail?
  EntropyFails, \* may reading /dev/urandom fail?
  MaxCrashes    \* bound: how often the process dies

Absent == "absent"
Torn == "torn"      \* created, and nothing, or not all, written to it
None == -1

Body == {"empty", "text", "unfit", "scene"}   \* no JSON but "unfit" and "scene"
Message == [route : {"health", "submit", "upload"},
            type : {"json", "other", "missing"},   \* of the Content-Type header
            body : Body]

ASSUME HttpAssumption ==
  /\ Stamp \subseteq Nat
  /\ ZeroId \in MeshId
  /\ Sent \subseteq Message
  /\ DiskFails \in BOOLEAN /\ EntropyFails \in BOOLEAN
  /\ MaxCrashes \in Nat
  /\ Client \cap {Absent, Torn} = {}
  /\ None \notin MeshId

VARIABLES
  now,        \* the system clock; it can be set back
  at,         \* where the thread of each HTTP request stands
  msg,        \* what it sends
  mesh,       \* the mesh a scene names, or the id an upload gets
  status,     \* res.status, -1 until a layer or the handler sets it
  stamp,      \* the reading create_request_file names its file by
  requests,   \* path-tracer/requests: who wrote each file, Torn or Absent
  meshes,     \* path-tracer/meshes, likewise
  crashes     \* how often the process has died

store == <<requests, meshes>>
local == <<msg, mesh, stamp>>
vars == <<now, at, local, status, store, crashes>>

Place == {"none", "incoming", "handler", "create", "touch", "open", "write", "mesh_open",
          "mesh_write", "accept", "outgoing", "answered", "lost"}

TypeOK ==
  /\ now \in Stamp
  /\ at \in [Client -> Place]
  /\ msg \in [Client -> Sent]
  /\ mesh \in [Client -> MeshId \cup {None}]
  /\ status \in [Client -> {-1, 200, 400, 500}]
  /\ stamp \in [Client -> Stamp \cup {None}]
  /\ requests \in [Stamp -> Client \cup {Torn, Absent}]
  /\ meshes \in [MeshId -> Client \cup {Torn, Absent}]
  /\ crashes \in 0 .. MaxCrashes

Go(c, from, to) ==
  /\ at[c] = from
  /\ at' = [at EXCEPT ![c] = to]

Answer(c, code) == status' = [status EXCEPT ![c] = code]

-----------------------------------------------------------------------------
(* The middleware: one incoming layer, check_json, and one outgoing layer   *)
(* that does nothing.  A status that is set skips what is left.             *)

\* httplib hands over a message.  A scene names a mesh by an id its client was given.
IsScene(c) == msg[c].route = "submit" /\ msg[c].body = "scene"
Known == {m \in MeshId : \E c \in Client : mesh[c] = m /\ at[c] = "answered"
                           /\ msg[c].route = "upload" /\ status[c] = 200}
Receive(c) ==
  /\ Go(c, "none", "incoming")
  /\ IF IsScene(c) THEN \E k \in Known : mesh' = [mesh EXCEPT ![c] = k]
     ELSE UNCHANGED mesh
  /\ UNCHANGED <<now, msg, stamp, status, store, crashes>>

\* An empty body and one announced as something else than JSON pass.
Malformed(m) == m.body = "text" /\ m.type # "other"
CheckJson(c) ==
  /\ Go(c, "incoming", "handler")
  /\ IF Malformed(msg[c]) THEN Answer(c, 400) ELSE UNCHANGED status
  /\ UNCHANGED <<now, local, store, crashes>>

SkipHandler(c) ==
  /\ status[c] # -1
  /\ Go(c, "handler", "outgoing")
  /\ UNCHANGED <<now, local, status, store, crashes>>

\* Mutant of Enter: the handler runs whatever the layer answered.
EnterAnyway(c, route) == at[c] = "handler" /\ msg[c].route = route

\* The handler runs: its status is still -1, and the route is its own.
Enter(c, route) == at[c] = "handler" /\ status[c] = -1 /\ msg[c].route = route

\* Mutant of RunOutgoing: a message that was answered is dropped there.
RunOutgoingUnset(c) ==
  /\ status[c] = -1
  /\ Go(c, "outgoing", "answered")
  /\ UNCHANGED <<now, local, status, store, crashes>>

RunOutgoing(c) ==
  /\ Go(c, "outgoing", "answered")
  /\ UNCHANGED <<now, local, status, store, crashes>>

-----------------------------------------------------------------------------
Health(c) ==
  /\ Enter(c, "health")
  /\ Go(c, "handler", "outgoing")
  /\ Answer(c, 200)
  /\ UNCHANGED <<now, local, store, crashes>>

-----------------------------------------------------------------------------
(* submit_render *)

\* Wrong Content-Type, or one of the enforce_* checks throws.  The last of
\* those looks for the mesh's file.
Accepts(c) == msg[c].body = "scene" /\ meshes[mesh[c]] # Absent
RejectSubmit(c) ==
  /\ Enter(c, "submit")
  /\ msg[c].type = "json" => msg[c].body # "empty" /\ ~Accepts(c)
  /\ Go(c, "handler", "outgoing")
  /\ Answer(c, 400)
  /\ UNCHANGED <<now, local, store, crashes>>

\* json::parse of an empty body throws outside the try block: httplib answers 500.
ThrowSubmit(c) ==
  /\ Enter(c, "submit")
  /\ msg[c].type = "json" /\ msg[c].body = "empty"
  /\ Go(c, "handler", "answered")
  /\ Answer(c, 500)
  /\ UNCHANGED <<now, local, store, crashes>>

\* Mutant of AcceptSubmit: the Content-Type is not looked at.
AcceptAnyType(c) ==
  /\ Enter(c, "submit")
  /\ Accepts(c)
  /\ Go(c, "handler", "create")
  /\ UNCHANGED <<now, local, status, store, crashes>>

AcceptSubmit(c) ==
  /\ Enter(c, "submit")
  /\ msg[c].type = "json" /\ Accepts(c)
  /\ Go(c, "handler", "create")
  /\ UNCHANGED <<now, local, status, store, crashes>>

(* create_request_file: read the clock, touch, open, write and close. *)

ReadClock(c) ==
  /\ Go(c, "create", "touch")
  /\ stamp' = [stamp EXCEPT ![c] = now]
  /\ UNCHANGED <<now, msg, mesh, status, store, crashes>>

\* Mutant of Touch: the clock is read once more for the command.
TouchNow(c) ==
  /\ Go(c, "touch", "open")
  /\ requests' = [requests EXCEPT ![now] = IF @ = Absent THEN Torn ELSE @]
  /\ UNCHANGED <<now, local, status, meshes, crashes>>

Touch(c) ==
  /\ Go(c, "touch", "open")
  /\ \/ requests' = [requests EXCEPT ![stamp[c]] = IF @ = Absent THEN Torn ELSE @]
     \/ DiskFails /\ UNCHANGED requests
  /\ UNCHANGED <<now, local, status, meshes, crashes>>

\* Mutant of Open: the name is made once more for the stream.
OpenAgain(c) ==
  /\ Go(c, "open", "write")
  /\ stamp' = [stamp EXCEPT ![c] = now]
  /\ requests' = [requests EXCEPT ![now] = Torn]
  /\ UNCHANGED <<now, msg, mesh, status, meshes, crashes>>

\* An ofstream truncates the file.  When it cannot be opened, nothing is thrown and
\* the write that follows does nothing.
Open(c) ==
  \/ /\ Go(c, "open", "write")
     /\ requests' = [requests EXCEPT ![stamp[c]] = Torn]
     /\ UNCHANGED <<now, local, status, meshes, crashes>>
  \/ /\ DiskFails
     /\ Go(c, "open", "accept")
     /\ UNCHANGED <<now, local, status, store, crashes>>

\* Mutant of Write: the stream is neither flushed nor closed.
WriteBuffered(c) ==
  /\ Go(c, "write", "accept")
  /\ UNCHANGED <<now, local, status, store, crashes>>

\* Over the bytes of another writer of the same file, the longer text wins or its
\* tail is left behind the shorter one.
Write(c) ==
  /\ Go(c, "write", "accept")
  /\ \/ requests' = [requests EXCEPT ![stamp[c]] = c]
     \/ /\ DiskFails \/ requests[stamp[c]] \in Client
        /\ requests' = [requests EXCEPT ![stamp[c]] = Torn]
  /\ UNCHANGED <<now, local, status, meshes, crashes>>

\* create_request_file throws: what formatting a name or dumping the body allocates
\* is not there.  The file stays as far as it got.
FailSubmit(c) ==
  /\ DiskFails
  /\ at[c] \in {"create", "touch", "open", "write"}
  /\ at' = [at EXCEPT ![c] = "outgoing"]
  /\ Answer(c, 500)
  /\ UNCHANGED <<now, local, store, crashes>>

\* Mutant of Accept: the status the README plans.
Accept202(c) ==
  /\ Go(c, "accept", "outgoing")
  /\ Answer(c, 202)
  /\ UNCHANGED <<now, local, store, crashes>>

\* The last statements of submit_render and upload_mesh.
Accept(c) ==
  /\ Go(c, "accept", "outgoing")
  /\ Answer(c, 200)
  /\ UNCHANGED <<now, local, store, crashes>>

-----------------------------------------------------------------------------
(* upload_mesh *)

\* The body is empty, or an index is out of range.
RejectUpload(c) ==
  /\ Enter(c, "upload")
  /\ Go(c, "handler", "outgoing")
  /\ Answer(c, 400)
  /\ UNCHANGED <<now, local, store, crashes>>

\* Mutant of Unused: too few letters, so that ids repeat.
UnusedOrNot == MeshId

\* 32 random letters never repeat; the read of /dev/urandom is not checked.
Unused == {m \in MeshId \ {ZeroId} : \A c \in Client : mesh[c] # m}
ChooseId(c) ==
  /\ Enter(c, "upload")
  /\ msg[c].body # "empty"
  /\ Go(c, "handler", "mesh_open")
  /\ \E m \in Unused \cup {z \in {ZeroId} : EntropyFails} : mesh' = [mesh EXCEPT ![c] = m]
  /\ UNCHANGED <<now, msg, stamp, status, store, crashes>>

\* create_directories throws.
FailUpload(c) ==
  /\ DiskFails
  /\ Enter(c, "upload")
  /\ msg[c].body # "empty"
  /\ Go(c, "handler", "outgoing")
  /\ Answer(c, 500)
  /\ UNCHANGED <<now, local, store, crashes>>

OpenMesh(c) ==
  \/ /\ Go(c, "mesh_open", "mesh_write")
     /\ meshes' = [meshes EXCEPT ![mesh[c]] = Torn]
     /\ UNCHANGED <<now, local, status, requests, crashes>>
  \/ /\ DiskFails
     /\ Go(c, "mesh_open", "accept")
     /\ UNCHANGED <<now, local, status, store, crashes>>

WriteMesh(c) ==
  /\ Go(c, "mesh_write", "accept")
  /\ \/ meshes' = [meshes EXCEPT ![mesh[c]] = c]
     \/ /\ DiskFails \/ meshes[mesh[c]] \in Client
        /\ meshes' = [meshes EXCEPT ![mesh[c]] = Torn]
  /\ UNCHANGED <<now, local, status, requests, crashes>>

-----------------------------------------------------------------------------
(* The environment. *)

Tick ==
  /\ now' \in Stamp \ {now}
  /\ UNCHANGED <<at, local, status, store, crashes>>

\* The process dies and is started again: what it was doing is lost, files stay.
Crash ==
  /\ crashes < MaxCrashes
  /\ crashes' = crashes + 1
  /\ at' = [c \in Client |-> IF at[c] \in {"none", "answered"} THEN at[c] ELSE "lost"]
  /\ UNCHANGED <<now, local, status, store>>

-----------------------------------------------------------------------------
Init ==
  /\ now \in Stamp
  /\ at = [c \in Client |-> "none"]
  /\ msg \in [Client -> Sent]
  /\ mesh = [c \in Client |-> None]
  /\ status = [c \in Client |-> -1]
  /\ stamp = [c \in Client |-> None]
  /\ requests = [s \in Stamp |-> Absent]
  /\ meshes = [m \in MeshId |-> Absent]
  /\ crashes = 0

Serve(c) ==
  \/ CheckJson(c) \/ SkipHandler(c) \/ RunOutgoing(c)
  \/ Health(c)
  \/ RejectSubmit(c) \/ ThrowSubmit(c) \/ AcceptSubmit(c)
  \/ ReadClock(c) \/ Touch(c) \/ Open(c) \/ Write(c) \/ FailSubmit(c) \/ Accept(c)
  \/ RejectUpload(c) \/ ChooseId(c) \/ FailUpload(c) \/ OpenMesh(c) \/ WriteMesh(c)

ServerNext ==
  \/ \E c \in Client : Receive(c) \/ Serve(c)
  \/ Tick
  \/ Crash

Spec == Init /\ [][ServerNext]_vars

\* A thread of the pool that can run does.
FairSpec == Spec /\ \A c \in Client : WF_vars(Serve(c))

-----------------------------------------------------------------------------
(* Properties. *)

Done(c, code) == at[c] = "answered" /\ status[c] = code

\* Only a scene that was sent as JSON and passed validation ever becomes a request
\* file, and a request file holds what the client who caused it sent.
OnlyScenesQueued ==
  \A s \in Stamp : requests[s] # Absent =>
    \E c \in Client : /\ stamp[c] = s /\ IsScene(c) /\ msg[c].type = "json"
                      /\ requests[s] \in {c, Torn}

\* A client that is told its message was refused or failed left nothing behind that is
\* whole: no file of a request or a mesh holds its bytes, and if it was refused, not
\* even an empty request file was named for it.
RefusedLeavesNothing ==
  \A c \in Client :
    /\ status[c] = 400 => stamp[c] = None
    /\ status[c] \in {400, 500} => /\ \A s \in Stamp : requests[s] # c
                                   /\ \A m \in MeshId : meshes[m] # c

\* A submission answered 200 is in its request file, whole, whatever other threads
\* do and whenever the server dies, unless another took its name in the same
\* millisecond.
Alone(c) == \A d \in Client \ {c} : stamp[d] # stamp[c]
StoredUnlessShared ==
  \A c \in Client : IsScene(c) /\ Done(c, 200) /\ Alone(c) => requests[stamp[c]] = c

\* The store of scenes as clients see it: who asks for one to be kept, what they were
\* told, and whose bytes are in the file named for them.
Asking == {c \in Client : msg[c].route = "submit"}
Outcome ==
  [c \in Client |-> IF at[c] = "lost" THEN "lost"
                    ELSE IF at[c] # "answered" THEN "pending"
                    ELSE IF status[c] = 200 THEN "accepted" ELSE "refused"]
Kept == {c \in Client : \E s \in Stamp : stamp[c] = s /\ requests[s] = c}

Store == INSTANCE SceneStore
           WITH Name <- Stamp, NoName <- None,
                asks <- Asking, outcome <- Outcome, name <- stamp, kept <- Kept

\* The statements of all threads amount to a store where a scene is named, put under
\* its name in one step, and only then acknowledged, where nothing is taken back from
\* a client that was told, and where a message that is refused was never put anywhere.
ImplementsStore == Store!StoreSpec

\* A request file that is not whole is being written, or its writer died, or two
\* submissions share it: the path-tracer would find no other torn file.
TornIsExplained ==
  \A s \in Stamp : requests[s] = Torn =>
    \E c \in Client : stamp[c] = s /\ (at[c] \in {"open", "write", "lost"} \/ ~Alone(c))

\* The mesh named by a scene that is in the queue is on disk, whole: validation of
\* a scene never sees a mesh another thread is still writing.
QueuedMeshWhole ==
  \A c \in Client : stamp[c] # None => meshes[mesh[c]] \in Client

\* Every HTTP request is answered, unless the server dies first.
EveryRequestAnswered ==
  \A c \in Client : at[c] = "incoming" ~> at[c] \in {"answered", "lost"}

\* "Submits a scene ... to be queued for rendering" (endpoints/README.md): every
\* submission answered 200 has a request file of its own.
AcceptedIsQueued ==
  \A c \in Client : IsScene(c) /\ Done(c, 200) => requests[stamp[c]] = c
=============================================================================
