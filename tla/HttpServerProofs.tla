-------------------------- MODULE HttpServerProofs --------------------------
(***************************************************************************)
(* Safety of the http-server for any number of clients, clock readings and *)
(* mesh ids.  The inductive invariant relates the place of each thread to  *)
(* its variables (PathInv) and each file to the thread that wrote it       *)
(* (OwnerInv).                                                             *)
(***************************************************************************)
EXTENDS HttpServer, TLAPS

\* Where a thread stands tells what it has checked, chosen and answered.
Path(c) ==
  /\ at[c] \in {"none", "incoming", "handler", "create"} => stamp[c] = None
  /\ at[c] \in {"create", "touch", "open", "write"} => IsScene(c) /\ msg[c].type = "json"
  /\ at[c] \in {"touch", "open", "write"} => stamp[c] # None
  /\ at[c] \notin {"handler", "outgoing", "answered", "lost"} => status[c] = -1
  /\ at[c] \in {"outgoing", "answered"} => status[c] # -1
  /\ at[c] \in {"mesh_open", "mesh_write"} => msg[c].route = "upload" /\ mesh[c] \in MeshId
  /\ at[c] = "accept" => \/ IsScene(c) /\ stamp[c] # None
                         \/ msg[c].route = "upload" /\ mesh[c] \in MeshId
  /\ stamp[c] # None => IsScene(c) /\ msg[c].type = "json"
  /\ IsScene(c) /\ at[c] # "none" => mesh[c] \in MeshId
  /\ msg[c].route = "submit" /\ status[c] = 200 => stamp[c] # None
  /\ msg[c].route = "upload" /\ status[c] = 200 => mesh[c] \in MeshId
  /\ status[c] = 400 => stamp[c] = None
  /\ status[c] = 500 => stamp[c] = None \/ DiskFails
PathInv == \A c \in Client : Path(c)

\* A file holds a client's bytes only after that client's own write.
OwnerInv ==
  /\ \A s \in Stamp, c \in Client :
       requests[s] = c => /\ stamp[c] = s
                          /\ at[c] \in {"accept", "outgoing", "answered", "lost"}
                          /\ status[c] \notin {400, 500}
  /\ \A m \in MeshId, c \in Client :
       meshes[m] = c => /\ mesh[c] = m /\ msg[c].route = "upload"
                        /\ at[c] \in {"accept", "outgoing", "answered", "lost"}
                        /\ status[c] \notin {400, 500}

IInv == TypeOK /\ PathInv /\ OwnerInv /\ OnlyScenesQueued

\* The marks are told apart from readings, ids and clients.
LEMMA Marks ==
  /\ None \notin Stamp /\ None \notin MeshId
  /\ Absent \notin Client /\ Torn \notin Client /\ Absent # Torn
  BY HttpAssumption DEF None, Absent, Torn

LEMMA MessageType ==
  ASSUME TypeOK, NEW c \in Client
  PROVE  /\ msg[c].route \in {"health", "submit", "upload"}
         /\ msg[c].type \in {"json", "other", "missing"}
  BY HttpAssumption DEF TypeOK, Message

LEMMA InitInv == Init => IInv
  <1> SUFFICES ASSUME Init PROVE IInv
    OBVIOUS
  <1>1. TypeOK
    BY HttpAssumption DEF Init, TypeOK, Place
  <1>2. PathInv
    BY DEF Init, PathInv, Path
  <1>3. OwnerInv /\ OnlyScenesQueued
    BY Marks DEF Init, OwnerInv, OnlyScenesQueued
  <1>4. QED
    BY <1>1, <1>2, <1>3 DEF IInv

-----------------------------------------------------------------------------
(* Type correctness. *)

LEMMA ServeType == ASSUME TypeOK, NEW c \in Client, Serve(c) PROVE TypeOK'
  <1> USE DEF TypeOK, Go, Answer, Place
  <1>1. CASE CheckJson(c) \/ SkipHandler(c) \/ RunOutgoing(c) \/ Health(c)
    BY <1>1 DEF CheckJson, SkipHandler, RunOutgoing, Health, store, local
  <1>2. CASE RejectSubmit(c) \/ ThrowSubmit(c) \/ AcceptSubmit(c) \/ Accept(c)
    BY <1>2 DEF RejectSubmit, ThrowSubmit, AcceptSubmit, Accept, store, local
  <1>3. CASE ReadClock(c) \/ Touch(c) \/ Open(c) \/ FailSubmit(c)
    BY <1>3 DEF ReadClock, Touch, Open, FailSubmit, store, local
  <1>4. CASE Write(c)
    BY <1>4 DEF Write, store, local
  <1>5. CASE RejectUpload(c) \/ FailUpload(c) \/ ChooseId(c)
    BY <1>5, HttpAssumption DEF RejectUpload, FailUpload, ChooseId, Unused, store, local
  <1>6. CASE OpenMesh(c) \/ WriteMesh(c)
    BY <1>6 DEF OpenMesh, WriteMesh, store, local
  <1>7. QED
    BY <1>1, <1>2, <1>3, <1>4, <1>5, <1>6 DEF Serve

LEMMA TypeStep == TypeOK /\ [ServerNext]_vars => TypeOK'
  <1> SUFFICES ASSUME TypeOK, [ServerNext]_vars PROVE TypeOK'
    OBVIOUS
  <1>1. ASSUME NEW c \in Client, Receive(c) PROVE TypeOK'
    BY <1>1 DEF TypeOK, Receive, Known, Go, Place, store
  <1>2. CASE Tick
    BY <1>2 DEF Tick, TypeOK, store, local
  <1>3. CASE Crash
    BY <1>3, HttpAssumption DEF Crash, TypeOK, Place, store, local
  <1>4. CASE UNCHANGED vars
    BY <1>4 DEF vars, TypeOK, store, local
  <1>5. QED
    BY <1>1, <1>2, <1>3, <1>4, ServeType DEF ServerNext

-----------------------------------------------------------------------------
(* What a step of one thread leaves alone. *)

\* The variables of the other threads.
LEMMA OthersFrame ==
  ASSUME TypeOK, NEW c \in Client, Receive(c) \/ Serve(c), NEW d \in Client \ {c}
  PROVE  /\ at'[d] = at[d] /\ status'[d] = status[d]
         /\ mesh'[d] = mesh[d] /\ stamp'[d] = stamp[d]
  <1> USE DEF TypeOK, Go, Answer, store, local
  <1>1. CASE Receive(c) \/ CheckJson(c) \/ SkipHandler(c) \/ RunOutgoing(c) \/ Health(c)
    BY <1>1 DEF Receive, CheckJson, SkipHandler, RunOutgoing, Health
  <1>2. CASE RejectSubmit(c) \/ ThrowSubmit(c) \/ FailSubmit(c) \/ AcceptSubmit(c) \/ Accept(c)
    BY <1>2 DEF RejectSubmit, ThrowSubmit, FailSubmit, AcceptSubmit, Accept
  <1>3. CASE ReadClock(c) \/ Touch(c) \/ Open(c) \/ Write(c)
    BY <1>3 DEF ReadClock, Touch, Open, Write
  <1>4. CASE RejectUpload(c) \/ FailUpload(c) \/ ChooseId(c) \/ OpenMesh(c) \/ WriteMesh(c)
    BY <1>4 DEF RejectUpload, FailUpload, ChooseId, OpenMesh, WriteMesh
  <1>5. QED
    BY <1>1, <1>2, <1>3, <1>4 DEF Serve

\* The messages, always; the files, unless it is at one of the statements that change them.
LEMMA FilesFrame ==
  ASSUME TypeOK, NEW c \in Client, Receive(c) \/ Serve(c)
  PROVE  /\ msg' = msg
         /\ requests' = requests \/ Touch(c) \/ Open(c) \/ Write(c)
         /\ meshes' = meshes \/ OpenMesh(c) \/ WriteMesh(c)
  BY DEF Receive, Serve, CheckJson, SkipHandler, RunOutgoing, Health, RejectSubmit, ThrowSubmit,
    FailSubmit, AcceptSubmit, Accept, ReadClock, Touch, Open, Write, RejectUpload, FailUpload, ChooseId,
    OpenMesh, WriteMesh, store, local

-----------------------------------------------------------------------------
(* The path of one thread. *)

LEMMA OwnPath == ASSUME TypeOK, NEW c \in Client, Path(c), Receive(c) \/ Serve(c) PROVE Path(c)'
  <1>0. msg' = msg
    BY FilesFrame
  <1>1. msg[c].route \in {"health", "submit", "upload"}
    BY MessageType
  <1> USE <1>0, <1>1, Marks DEF TypeOK, Path, IsScene, Go, Answer, store, local
  <1>2. CASE Receive(c)
    BY <1>2 DEF Receive, Known
  <1>3. CASE CheckJson(c) \/ SkipHandler(c) \/ RunOutgoing(c)
    BY <1>3 DEF CheckJson, SkipHandler, RunOutgoing
  <1>4. CASE Health(c)
    BY <1>4 DEF Health, Enter
  <1>5. CASE RejectSubmit(c) \/ ThrowSubmit(c) \/ FailSubmit(c)
    BY <1>5 DEF RejectSubmit, ThrowSubmit, FailSubmit, Enter
  <1>6. CASE AcceptSubmit(c)
    BY <1>6 DEF AcceptSubmit, Accepts, Enter
  <1>7. CASE ReadClock(c)
    BY <1>7 DEF ReadClock
  <1>8. CASE Touch(c) \/ Open(c)
    BY <1>8 DEF Touch, Open
  <1>9. CASE Write(c) \/ OpenMesh(c) \/ WriteMesh(c)
    BY <1>9 DEF Write, OpenMesh, WriteMesh
  <1>10. CASE Accept(c)
    BY <1>10 DEF Accept
  <1>11. CASE RejectUpload(c) \/ FailUpload(c)
    BY <1>11 DEF RejectUpload, FailUpload, Enter
  <1>12. CASE ChooseId(c)
    BY <1>12, HttpAssumption DEF ChooseId, Unused, Enter
  <1>13. QED
    BY <1>2, <1>3, <1>4, <1>5, <1>6, <1>7, <1>8, <1>9, <1>10, <1>11, <1>12 DEF Serve

LEMMA PathStep == TypeOK /\ PathInv /\ [ServerNext]_vars => PathInv'
  <1> SUFFICES ASSUME TypeOK, PathInv, [ServerNext]_vars, NEW d \in Client PROVE Path(d)'
    BY DEF PathInv
  <1>0. Path(d)
    BY DEF PathInv
  <1>1. ASSUME NEW c \in Client, Receive(c) \/ Serve(c) PROVE Path(d)'
    <2>1. CASE c = d
      BY <1>0, <1>1, <2>1, OwnPath
    <2>2. CASE c # d
      <3>1. at'[d] = at[d] /\ status'[d] = status[d] /\ mesh'[d] = mesh[d] /\ stamp'[d] = stamp[d]
        BY <1>1, <2>2, OthersFrame
      <3>2. msg' = msg
        BY <1>1, FilesFrame
      <3>3. QED
        BY <1>0, <3>1, <3>2 DEF Path, IsScene
    <2>3. QED
      BY <2>1, <2>2
  <1>2. CASE Tick \/ UNCHANGED vars
    BY <1>0, <1>2 DEF Tick, vars, local, Path, IsScene
  <1>3. CASE Crash
    BY <1>0, <1>3 DEF Crash, local, Path, IsScene, TypeOK
  <1>4. QED
    BY <1>1, <1>2, <1>3 DEF ServerNext

-----------------------------------------------------------------------------
(* Facts that last once they hold. *)

\* The reading a submission is named by is taken once; its writes come later and
\* are not repeated.
Written == {"accept", "outgoing", "answered", "lost"}

LEMMA Lasting ==
  ASSUME TypeOK, PathInv, [ServerNext]_vars, NEW d \in Client
  PROVE  /\ msg' = msg
         /\ stamp[d] # None => stamp'[d] = stamp[d]
         /\ stamp[d] # None /\ at[d] \notin {"touch", "open", "write"}
              => at'[d] \notin {"touch", "open", "write"}
         /\ at[d] \in Written => /\ at'[d] \in Written /\ mesh'[d] = mesh[d]
                                 /\ status'[d] = status[d] \/ status'[d] = 200
  <1>1. Path(d)
    BY DEF PathInv
  <1>2. ASSUME NEW c \in Client, Receive(c) \/ Serve(c)
        PROVE  /\ stamp[d] # None => stamp'[d] = stamp[d]
               /\ stamp[d] # None /\ at[d] \notin {"touch", "open", "write"}
                    => at'[d] \notin {"touch", "open", "write"}
               /\ at[d] \in Written => /\ at'[d] \in Written /\ mesh'[d] = mesh[d]
                                       /\ status'[d] = status[d] \/ status'[d] = 200
    <2>1. CASE c # d
      <3>1. at'[d] = at[d] /\ status'[d] = status[d] /\ mesh'[d] = mesh[d] /\ stamp'[d] = stamp[d]
        BY <1>2, <2>1, OthersFrame
      <3>2. QED
        BY <3>1
    <2>2. CASE c = d
      <3> USE <1>1, <2>2 DEF TypeOK, Written, Path, Go, Answer, store, local
      <3>1. CASE Receive(c) \/ CheckJson(c) \/ SkipHandler(c) \/ RunOutgoing(c) \/ Health(c)
        BY <3>1 DEF Receive, CheckJson, SkipHandler, RunOutgoing, Health
      <3>2. CASE RejectSubmit(c) \/ ThrowSubmit(c) \/ FailSubmit(c) \/ AcceptSubmit(c) \/ Accept(c)
        BY <3>2 DEF RejectSubmit, ThrowSubmit, FailSubmit, AcceptSubmit, Accept
      <3>3. CASE ReadClock(c) \/ Touch(c) \/ Open(c) \/ Write(c)
        BY <3>3 DEF ReadClock, Touch, Open, Write
      <3>4. CASE RejectUpload(c) \/ FailUpload(c) \/ ChooseId(c) \/ OpenMesh(c) \/ WriteMesh(c)
        BY <3>4 DEF RejectUpload, FailUpload, ChooseId, OpenMesh, WriteMesh
      <3>5. QED
        BY <1>2, <3>1, <3>2, <3>3, <3>4 DEF Serve
    <2>3. QED
      BY <2>1, <2>2
  <1>3. CASE Tick \/ UNCHANGED vars
    BY <1>3 DEF Tick, vars, local
  <1>4. CASE Crash
    BY <1>4 DEF Crash, local, TypeOK, Written
  <1>5. ASSUME NEW c \in Client, Receive(c) \/ Serve(c) PROVE msg' = msg
    BY <1>5, FilesFrame
  <1>6. QED
    BY <1>2, <1>3, <1>4, <1>5 DEF ServerNext

-----------------------------------------------------------------------------
(* The owners of the files. *)

\* Every change of a request file is made for the submission it is named by.
LEMMA RequestsChange ==
  ASSUME TypeOK, [ServerNext]_vars
  PROVE  \/ requests' = requests
         \/ \E c \in Client : Touch(c) \/ Open(c) \/ Write(c)
  BY FilesFrame DEF ServerNext, Tick, Crash, vars, store

LEMMA MeshesChange ==
  ASSUME TypeOK, [ServerNext]_vars
  PROVE  meshes' = meshes \/ \E c \in Client : OpenMesh(c) \/ WriteMesh(c)
  BY FilesFrame DEF ServerNext, Tick, Crash, vars, store

LEMMA OwnerStep == TypeOK /\ PathInv /\ OwnerInv /\ [ServerNext]_vars => OwnerInv'
  <1> SUFFICES ASSUME TypeOK, PathInv, OwnerInv, [ServerNext]_vars PROVE OwnerInv'
    OBVIOUS
  <1>1. ASSUME NEW s \in Stamp, NEW d \in Client, requests'[s] = d
        PROVE  stamp'[d] = s /\ at'[d] \in Written /\ status'[d] \notin {400, 500}
    <2>1. CASE requests[s] = d
      <3>1. stamp[d] = s /\ stamp[d] # None /\ at[d] \in Written /\ status[d] \notin {400, 500}
        BY <2>1, Marks DEF OwnerInv, Written
      <3>2. QED
        BY <3>1, Lasting
    <2>2. CASE requests[s] # d
      <3>1. PICK c \in Client : Touch(c) \/ Open(c) \/ Write(c)
        BY <1>1, <2>2, RequestsChange
      <3>2. Write(c) /\ c = d /\ stamp[c] = s
        BY <1>1, <2>2, <3>1, Marks DEF Touch, Open, Write, TypeOK, store
      <3>3. Path(c)
        BY DEF PathInv
      <3>4. QED
        BY <3>2, <3>3 DEF Write, Go, TypeOK, local, Path, Written
    <2>3. QED
      BY <2>1, <2>2
  <1>2. ASSUME NEW m \in MeshId, NEW d \in Client, meshes'[m] = d
        PROVE  /\ mesh'[d] = m /\ msg'[d].route = "upload" /\ at'[d] \in Written
               /\ status'[d] \notin {400, 500}
    <2>1. CASE meshes[m] = d
      BY <2>1, Lasting DEF OwnerInv, Written
    <2>2. CASE meshes[m] # d
      <3>1. PICK c \in Client : OpenMesh(c) \/ WriteMesh(c)
        BY <1>2, <2>2, MeshesChange
      <3>2. WriteMesh(c) /\ c = d /\ mesh[c] = m
        BY <1>2, <2>2, <3>1, Marks DEF OpenMesh, WriteMesh, TypeOK, store
      <3>3. Path(c)
        BY DEF PathInv
      <3>4. QED
        BY <3>2, <3>3 DEF WriteMesh, Go, TypeOK, local, Path, Written
    <2>3. QED
      BY <2>1, <2>2
  <1>3. QED
    BY <1>1, <1>2 DEF OwnerInv, Written

LEMMA ScenesStep == TypeOK /\ PathInv /\ OnlyScenesQueued /\ [ServerNext]_vars => OnlyScenesQueued'
  <1> DEFINE Cause(s, c) == stamp[c] = s /\ IsScene(c) /\ msg[c].type = "json"
  <1> SUFFICES ASSUME TypeOK, PathInv, OnlyScenesQueued, [ServerNext]_vars,
                      NEW s \in Stamp, requests'[s] # Absent
               PROVE  \E c \in Client : Cause(s, c)' /\ requests'[s] \in {c, Torn}
    BY DEF OnlyScenesQueued
  <1>1. ASSUME NEW c \in Client, Cause(s, c) PROVE Cause(s, c)'
    BY <1>1, Lasting, Marks DEF IsScene
  <1>2. CASE requests'[s] = requests[s]
    BY <1>1, <1>2 DEF OnlyScenesQueued
  <1>3. CASE requests'[s] # requests[s]
    <2>1. PICK c \in Client : Touch(c) \/ Open(c) \/ Write(c)
      BY <1>3, RequestsChange
    <2>2. stamp[c] = s /\ requests'[s] \in {c, Torn}
      BY <1>3, <2>1 DEF Touch, Open, Write, TypeOK, store
    <2>3. Cause(s, c)
      BY <2>1, <2>2 DEF PathInv, Path, Touch, Open, Write, Go
    <2>4. QED
      BY <1>1, <2>2, <2>3
  <1>4. QED
    BY <1>2, <1>3

LEMMA Invariant == Spec => []IInv
  <1>1. IInv /\ [ServerNext]_vars => IInv'
    BY TypeStep, PathStep, OwnerStep, ScenesStep DEF IInv
  <1>2. QED
    BY <1>1, InitInv, PTL DEF Spec

\* Every variable keeps to its type, for any number of clients.
THEOREM Typing == Spec => []TypeOK
  BY Invariant, PTL DEF IInv

\* Only scenes sent as JSON become request files, and a file holds nobody else's bytes.
THEOREM ScenesOnly == Spec => []OnlyScenesQueued
  BY Invariant, PTL DEF IInv

\* What is answered 400 or 500 left no whole file, and what is answered 400 named none.
THEOREM RefusedCleanly == Spec => []RefusedLeavesNothing
  <1>1. IInv => RefusedLeavesNothing
    BY DEF IInv, PathInv, Path, OwnerInv, RefusedLeavesNothing
  <1>2. QED
    BY <1>1, Invariant, PTL

-----------------------------------------------------------------------------
(***************************************************************************)
(* What the http-server guarantees of the files it acknowledges when the   *)
(* disk and /dev/urandom do not fail, for any number of clients and any    *)
(* interleaving of their threads.                                          *)
(***************************************************************************)

\* The requests file of a submission that shares its name with no other: truncated
\* before the write, whole after it.
WholeInv ==
  \A c \in Client : stamp[c] # None /\ Alone(c) =>
    /\ at[c] = "write" => requests[stamp[c]] = Torn
    /\ at[c] \in {"accept", "outgoing", "answered"} => requests[stamp[c]] = c

\* Where a thread can have come from.
Closing == {"accept", "outgoing", "answered"}

LEMMA Places ==
  ASSUME DiskFails = FALSE, TypeOK, PathInv, [ServerNext]_vars, NEW d \in Client
  PROVE  /\ at[d] = "answered" => at'[d] = "answered"
         /\ at[d] \in {"open", "write", "lost"} =>
              at'[d] \in {"open", "write", "lost"} \/ Open(d) \/ Write(d)
         /\ at'[d] = "write" => at[d] = "write" \/ Open(d)
         /\ at'[d] = "mesh_write" => at[d] = "mesh_write" \/ OpenMesh(d)
         /\ at'[d] \in Closing =>
              \/ at[d] \in Closing \/ Open(d) \/ Write(d) \/ OpenMesh(d) \/ WriteMesh(d)
              \/ at[d] = "handler" /\ mesh'[d] = mesh[d]
         /\ stamp'[d] # None => stamp[d] # None \/ at'[d] = "touch"
  <1>1. ASSUME NEW c \in Client \ {d}, Receive(c) \/ Serve(c)
        PROVE  at'[d] = at[d] /\ stamp'[d] = stamp[d]
    BY <1>1, OthersFrame
  <1>2. CASE Receive(d) \/ Serve(d)
    <2> USE <1>2 DEF TypeOK, Closing, Go, store, local
    <2>1. CASE Receive(d) \/ CheckJson(d) \/ SkipHandler(d) \/ RunOutgoing(d) \/ Health(d)
      BY <2>1 DEF Receive, CheckJson, SkipHandler, RunOutgoing, Health
    <2>2. CASE RejectSubmit(d) \/ ThrowSubmit(d) \/ FailSubmit(d) \/ AcceptSubmit(d) \/ Accept(d)
      BY <2>2 DEF RejectSubmit, ThrowSubmit, FailSubmit, AcceptSubmit, Accept
    <2>3. CASE ReadClock(d) \/ Touch(d) \/ Open(d) \/ Write(d)
      BY <2>3 DEF ReadClock, Touch, Open, Write
    <2>4. CASE RejectUpload(d) \/ FailUpload(d) \/ ChooseId(d) \/ OpenMesh(d) \/ WriteMesh(d)
      BY <2>4 DEF RejectUpload, FailUpload, ChooseId, OpenMesh, WriteMesh
    <2>5. QED
      BY <1>2, <2>1, <2>2, <2>3, <2>4 DEF Serve
  <1>3. CASE Tick \/ UNCHANGED vars
    BY <1>3 DEF Tick, vars, local
  <1>4. CASE Crash
    BY <1>4 DEF Crash, local, TypeOK, Closing
  <1>5. QED
    BY <1>1, <1>2, <1>3, <1>4 DEF ServerNext

\* Sharing a name is for ever.
LEMMA SharedStays ==
  ASSUME TypeOK, PathInv, [ServerNext]_vars, NEW c \in Client, stamp[c] # None, ~Alone(c)
  PROVE  ~Alone(c)'
  <1>1. PICK d \in Client \ {c} : stamp[d] = stamp[c]
    BY DEF Alone
  <1>2. stamp'[d] = stamp[d] /\ stamp'[c] = stamp[c]
    BY <1>1, Lasting
  <1>3. QED
    BY <1>1, <1>2 DEF Alone

\* The thread that changes the file of a submission without a namesake is its own.
LEMMA OwnFile ==
  ASSUME TypeOK, [ServerNext]_vars, NEW c \in Client, stamp[c] \in Stamp, Alone(c)
  PROVE  requests'[stamp[c]] = requests[stamp[c]] \/ Touch(c) \/ Open(c) \/ Write(c)
  <1>1. ASSUME NEW d \in Client \ {c}, Touch(d) \/ Open(d) \/ Write(d)
        PROVE  requests'[stamp[c]] = requests[stamp[c]]
    BY <1>1 DEF Alone, Touch, Open, Write, TypeOK, store
  <1>2. QED
    BY <1>1, RequestsChange

LEMMA WholeStep ==
  ASSUME DiskFails = FALSE
  PROVE  TypeOK /\ PathInv /\ WholeInv /\ [ServerNext]_vars => WholeInv'
  <1> SUFFICES ASSUME TypeOK, PathInv, WholeInv, [ServerNext]_vars,
                      NEW c \in Client, stamp'[c] # None, Alone(c)'
               PROVE  /\ at'[c] = "write" => requests'[stamp'[c]] = Torn
                      /\ at'[c] \in {"accept", "outgoing", "answered"} => requests'[stamp'[c]] = c
    BY DEF WholeInv
  <1>1. Path(c)
    BY DEF PathInv
  <1>2. CASE stamp[c] = None
    BY <1>2, Places
  <1>3. CASE stamp[c] # None
    <2>1. stamp'[c] = stamp[c] /\ Alone(c) /\ stamp[c] \in Stamp
      BY <1>3, Lasting, SharedStays DEF TypeOK
    <2>2. CASE Touch(c) \/ Open(c) \/ Write(c)
      BY <1>3, <2>1, <2>2, Marks DEF WholeInv, Touch, Open, Write, Go, TypeOK, local
    <2>3. CASE ~(Touch(c) \/ Open(c) \/ Write(c))
      <3>1. requests'[stamp[c]] = requests[stamp[c]]
        BY <2>1, <2>3, OwnFile
      <3>2. at[c] \notin {"handler", "mesh_open", "mesh_write"}
        BY <1>1, <1>3 DEF Path, IsScene
      <3>3. ~OpenMesh(c) /\ ~WriteMesh(c)
        BY <3>2 DEF OpenMesh, WriteMesh, Go
      <3>4. (at'[c] = "write" => at[c] = "write") /\ (at'[c] \in Closing => at[c] \in Closing)
        BY <2>3, <3>2, <3>3, Places
      <3>5. QED
        BY <1>3, <2>1, <3>1, <3>4 DEF WholeInv, Closing
    <2>4. QED
      BY <2>2, <2>3
  <1>4. QED
    BY <1>2, <1>3

\* A submission answered 200 is in its request file, whole, unless another shares
\* its millisecond.
THEOREM Stored == ASSUME DiskFails = FALSE PROVE Spec => []StoredUnlessShared
  <1>1. Init => WholeInv
    BY DEF Init, WholeInv
  <1>2. IInv /\ WholeInv /\ [ServerNext]_vars => WholeInv'
    BY WholeStep DEF IInv
  <1>3. IInv /\ WholeInv => StoredUnlessShared
    BY DEF IInv, PathInv, Path, WholeInv, StoredUnlessShared, Done, IsScene
  <1>4. QED
    BY <1>1, <1>2, <1>3, Invariant, PTL DEF Spec

-----------------------------------------------------------------------------
(* Files that are not whole. *)

\* Why the file named s may be torn.
Explained(s) == \E c \in Client : stamp[c] = s /\ (at[c] \in {"open", "write", "lost"} \/ ~Alone(c))

LEMMA TornStep ==
  ASSUME DiskFails = FALSE
  PROVE  IInv /\ TornIsExplained /\ [ServerNext]_vars => TornIsExplained'
  <1> SUFFICES ASSUME IInv, TornIsExplained, [ServerNext]_vars, NEW s \in Stamp, requests'[s] = Torn
               PROVE  Explained(s)'
    BY DEF TornIsExplained, Explained
  <1>0. TypeOK /\ PathInv /\ OwnerInv
    BY DEF IInv
  <1>1. ASSUME NEW c \in Client, stamp[c] = s, ~Alone(c) PROVE Explained(s)'
    BY <1>0, <1>1, Marks, Lasting, SharedStays DEF Explained
  <1>2. CASE requests[s] = Torn
    <2>1. PICK c \in Client : stamp[c] = s /\ (at[c] \in {"open", "write", "lost"} \/ ~Alone(c))
      BY <1>2 DEF TornIsExplained
    <2>2. CASE Alone(c)
      <3>1. stamp'[c] = s
        BY <1>0, <2>1, Marks, Lasting
      <3>2. ~Write(c)
        BY <1>0, <1>2, <2>1, <2>2, Marks DEF Write, TypeOK
      <3>3. at'[c] \in {"open", "write", "lost"} \/ Open(c) \/ Write(c)
        BY <1>0, <2>1, <2>2, Places
      <3>4. Open(c) => at'[c] = "write"
        BY <1>0 DEF Open, Go, TypeOK
      <3>5. QED
        BY <3>1, <3>2, <3>3, <3>4 DEF Explained
    <2>3. QED
      BY <1>1, <2>1, <2>2
  <1>3. CASE requests[s] # Torn
    <2>1. PICK c \in Client : Touch(c) \/ Open(c) \/ Write(c)
      BY <1>0, <1>3, RequestsChange
    <2>2. stamp[c] = s /\ stamp' = stamp
      BY <1>0, <1>3, <2>1 DEF Touch, Open, Write, TypeOK, store, local
    <2>3. CASE Touch(c) \/ Open(c)
      BY <1>0, <2>2, <2>3 DEF Touch, Open, Go, TypeOK, Explained
    <2>4. CASE Write(c)
      <3>1. PICK d \in Client : requests[s] = d
        BY <1>0, <1>3, <2>2, <2>4, Marks DEF Write, TypeOK
      <3>2. stamp[d] = s /\ d # c
        BY <1>0, <2>4, <3>1 DEF OwnerInv, Write, Go
      <3>3. QED
        BY <1>1, <2>2, <3>2 DEF Alone
    <2>5. QED
      BY <2>1, <2>3, <2>4
  <1>4. QED
    BY <1>2, <1>3

\* A request file that is not whole is being written, was left by a crash, or is shared.
THEOREM TornExplained == ASSUME DiskFails = FALSE PROVE Spec => []TornIsExplained
  <1>1. Init => TornIsExplained
    BY DEF Init, TornIsExplained, Absent, Torn
  <1>2. QED
    BY <1>1, TornStep, Invariant, PTL DEF Spec

-----------------------------------------------------------------------------
(* Meshes. *)

Uploads(c) == msg[c].route = "upload"

\* An id is chosen by one upload and its file written by that one alone; a scene
\* names the id of an upload that was answered.
MeshInv ==
  /\ \A u \in Client : Uploads(u) =>
       /\ at[u] \in {"none", "incoming", "handler"} => mesh[u] = None
       /\ mesh[u] # None => \A v \in Client : Uploads(v) /\ mesh[v] = mesh[u] => v = u
       /\ at[u] = "mesh_write" => meshes[mesh[u]] = Torn
       /\ at[u] \in Closing /\ mesh[u] # None => meshes[mesh[u]] = u
  /\ \A c \in Client : IsScene(c) /\ mesh[c] # None =>
       \E u \in Client : Uploads(u) /\ mesh[u] = mesh[c] /\ at[u] = "answered"

\* An upload gets its id from ChooseId and never another.
LEMMA IdChosenOnce ==
  ASSUME TypeOK, PathInv, MeshInv, [ServerNext]_vars, NEW u \in Client, Uploads(u)
  PROVE  \/ mesh'[u] = mesh[u] /\ (at'[u] \in {"none", "incoming", "handler"} => mesh[u] = None)
         \/ /\ ChooseId(u) /\ mesh[u] = None /\ at'[u] = "mesh_open"
            /\ \A d \in Client \ {u} : mesh'[d] = mesh[d]
  <1>1. ASSUME NEW c \in Client \ {u}, Receive(c) \/ Serve(c)
        PROVE  mesh'[u] = mesh[u] /\ at'[u] = at[u]
    BY <1>1, OthersFrame
  <1>2. CASE Receive(u) \/ Serve(u)
    <2> USE DEF TypeOK, Go, store, local
    <2>1. CASE Receive(u)
      BY <2>1 DEF Receive, IsScene, Uploads, MeshInv
    <2>2. CASE ChooseId(u)
      <3>1. at[u] = "handler" /\ at'[u] = "mesh_open"
        BY <2>2 DEF ChooseId
      <3>2. mesh[u] = None
        BY <3>1 DEF MeshInv
      <3>3. \A d \in Client \ {u} : mesh'[d] = mesh[d]
        BY <2>2 DEF ChooseId
      <3>4. QED
        BY <2>2, <3>1, <3>2, <3>3
    <2>3. CASE Serve(u) /\ ~ChooseId(u)
      <3>1. mesh' = mesh
        BY <2>3 DEF Serve, CheckJson, SkipHandler, RunOutgoing, Health, RejectSubmit, ThrowSubmit,
          FailSubmit, AcceptSubmit, Accept, ReadClock, Touch, Open, Write, RejectUpload, FailUpload,
          OpenMesh, WriteMesh
      <3>2. at'[u] \in {"none", "incoming", "handler"} => at[u] = "incoming"
        BY <2>3 DEF Serve, CheckJson, SkipHandler, RunOutgoing, Health, RejectSubmit, ThrowSubmit,
          FailSubmit, AcceptSubmit, Accept, ReadClock, Touch, Open, Write, RejectUpload, FailUpload,
          OpenMesh, WriteMesh
      <3>3. QED
        BY <3>1, <3>2 DEF MeshInv
    <2>4. QED
      BY <1>2, <2>1, <2>2, <2>3
  <1>3. CASE Tick \/ UNCHANGED vars
    BY <1>3 DEF Tick, vars, local, MeshInv
  <1>4. CASE Crash
    BY <1>4 DEF Crash, local, TypeOK, MeshInv
  <1>5. QED
    BY <1>1, <1>2, <1>3, <1>4 DEF ServerNext, MeshInv

LEMMA MeshStep ==
  ASSUME DiskFails = FALSE, EntropyFails = FALSE
  PROVE  TypeOK /\ PathInv /\ MeshInv /\ [ServerNext]_vars => MeshInv'
  <1> SUFFICES ASSUME TypeOK, PathInv, MeshInv, [ServerNext]_vars PROVE MeshInv'
    OBVIOUS
  <1>1. msg' = msg /\ \A c \in Client : (Uploads(c)' <=> Uploads(c)) /\ (IsScene(c)' <=> IsScene(c))
    <2>1. CASE Client = {}
      BY <2>1 DEF MeshInv, ServerNext, Tick, Crash, vars, local
    <2>2. QED
      BY <2>1, Lasting DEF Uploads, IsScene
  <1>2. ASSUME NEW u \in Client, Uploads(u), at'[u] \in {"none", "incoming", "handler"}
        PROVE  mesh'[u] = None
    BY <1>2, IdChosenOnce
  <1>3. ASSUME NEW u \in Client, NEW v \in Client, Uploads(u), Uploads(v),
               mesh'[u] # None, mesh'[v] = mesh'[u]
        PROVE  v = u
    <2>1. ASSUME NEW x \in Client, NEW y \in Client \ {x}, ChooseId(x), mesh'[y] = mesh[y]
          PROVE  mesh'[x] # mesh'[y]
      BY <2>1 DEF ChooseId, Unused, TypeOK
    <2>2. CASE mesh'[u] = mesh[u] /\ mesh'[v] = mesh[v]
      BY <1>3, <2>2 DEF MeshInv
    <2>3. QED
      BY <1>3, <2>1, <2>2, IdChosenOnce
  <1>4. ASSUME NEW u \in Client, Uploads(u), mesh[u] \in MeshId
        PROVE  meshes'[mesh[u]] = meshes[mesh[u]] \/ OpenMesh(u) \/ WriteMesh(u)
    <2>1. ASSUME NEW v \in Client \ {u}, OpenMesh(v) \/ WriteMesh(v)
          PROVE  meshes'[mesh[u]] = meshes[mesh[u]]
      <3>1. Uploads(v) /\ mesh[v] \in MeshId
        BY <2>1 DEF PathInv, Path, OpenMesh, WriteMesh, Go, Uploads
      <3>2. mesh[v] # mesh[u]
        BY <1>4, <3>1, Marks DEF MeshInv
      <3>3. QED
        BY <1>4, <2>1, <3>1, <3>2 DEF OpenMesh, WriteMesh, TypeOK, store
    <2>2. QED
      BY <2>1, MeshesChange
  <1>5. ASSUME NEW u \in Client, Uploads(u), mesh[u] \in MeshId, OpenMesh(u) \/ WriteMesh(u)
        PROVE  \/ at'[u] = "mesh_write" /\ meshes'[mesh[u]] = Torn
               \/ at'[u] = "accept" /\ meshes'[mesh[u]] = u
    BY <1>5, Marks DEF OpenMesh, WriteMesh, Go, TypeOK, MeshInv, store
  <1>6. ASSUME NEW u \in Client, Uploads(u)
        PROVE  /\ at'[u] = "mesh_write" => meshes'[mesh'[u]] = Torn
               /\ at'[u] \in Closing /\ mesh'[u] # None => meshes'[mesh'[u]] = u
    <2>1. CASE mesh'[u] # mesh[u]
      BY <1>6, <2>1, IdChosenOnce DEF Closing
    <2>2. CASE mesh'[u] = mesh[u] /\ mesh[u] = None
      <3>1. at'[u] # "mesh_write"
        BY <1>6, <2>2, Marks, PathStep DEF PathInv, Path
      <3>2. QED
        BY <2>2, <3>1
    <2>3. CASE mesh'[u] = mesh[u] /\ mesh[u] \in MeshId
      <3>1. CASE OpenMesh(u) \/ WriteMesh(u)
        BY <1>5, <1>6, <2>3, <3>1 DEF Closing
      <3>2. CASE ~OpenMesh(u) /\ ~WriteMesh(u)
        <4>1. ~Open(u) /\ ~Write(u)
          BY <1>6 DEF PathInv, Path, IsScene, Uploads, Open, Write, Go
        <4>2. at[u] # "handler"
          BY <1>6, <2>3, Marks DEF MeshInv
        <4>3. /\ at'[u] = "mesh_write" => at[u] = "mesh_write"
              /\ at'[u] \in Closing => at[u] \in Closing
          BY <3>2, <4>1, <4>2, Places
        <4>4. QED
          BY <1>4, <1>6, <2>3, <3>2, <4>3 DEF MeshInv
      <3>3. QED
        BY <3>1, <3>2
    <2>4. QED
      BY <2>1, <2>2, <2>3 DEF TypeOK
  <1>7. ASSUME NEW c \in Client, IsScene(c), mesh'[c] # None
        PROVE  \E u \in Client : Uploads(u) /\ mesh'[u] = mesh'[c] /\ at'[u] = "answered"
    <2>1. ASSUME NEW u \in Client, Uploads(u), at[u] = "answered"
          PROVE  mesh'[u] = mesh[u] /\ at'[u] = "answered"
      BY <2>1, Lasting, Places DEF Written
    <2>2. CASE mesh'[c] = mesh[c]
      BY <1>7, <2>1, <2>2 DEF MeshInv
    <2>3. CASE mesh'[c] # mesh[c]
      <3>1. PICK d \in Client : Receive(d) \/ ChooseId(d)
        BY <2>3 DEF ServerNext, Tick, Crash, vars, local, Serve, CheckJson, SkipHandler,
          RunOutgoing, Health, RejectSubmit, ThrowSubmit, FailSubmit, AcceptSubmit, Accept, ReadClock,
          Touch, Open, Write, RejectUpload, FailUpload, OpenMesh, WriteMesh
      <3>2. d = c
        BY <2>3, <3>1, OthersFrame DEF Serve
      <3>3. Receive(c)
        BY <1>7, <3>1, <3>2 DEF ChooseId, Enter, IsScene
      <3>4. mesh'[c] \in Known
        BY <1>7, <3>3 DEF Receive, TypeOK
      <3>5. PICK u \in Client : mesh[u] = mesh'[c] /\ at[u] = "answered" /\ Uploads(u)
        BY <3>4 DEF Known, Uploads
      <3>6. QED
        BY <2>1, <3>5
    <2>4. QED
      BY <2>2, <2>3
  <1>8. QED
    BY <1>1, <1>2, <1>3, <1>6, <1>7 DEF MeshInv, Closing

\* Without failures of the disk and of /dev/urandom, a scene in the queue names a
\* mesh that is on disk, whole.
THEOREM MeshesWhole ==
  ASSUME DiskFails = FALSE, EntropyFails = FALSE PROVE Spec => []QueuedMeshWhole
  <1>1. Init => MeshInv
    BY DEF Init, MeshInv, Closing
  <1>2. IInv /\ MeshInv /\ [ServerNext]_vars => MeshInv'
    BY MeshStep DEF IInv
  <1>3. IInv /\ MeshInv => QueuedMeshWhole
    <2> SUFFICES ASSUME IInv, MeshInv, NEW c \in Client, stamp[c] # None
                 PROVE  meshes[mesh[c]] \in Client
      BY DEF QueuedMeshWhole
    <2>1. IsScene(c) /\ mesh[c] \in MeshId
      BY DEF IInv, PathInv, Path
    <2>2. QED
      BY <2>1, Marks DEF MeshInv, Closing
  <1>4. QED
    BY <1>1, <1>2, <1>3, Invariant, PTL DEF Spec

-----------------------------------------------------------------------------
(* The abstract store. *)

StoreMapped == [Store!StoreNext]_(Store!storeVars)

LEMMA SameAsking == ASSUME TypeOK, [ServerNext]_vars PROVE Asking' = Asking
  <1>1. ASSUME NEW c \in Client, Receive(c) \/ Serve(c) PROVE msg' = msg
    BY <1>1, FilesFrame
  <1>2. msg' = msg
    BY <1>1 DEF ServerNext, Tick, Crash, vars, local
  <1>3. QED
    BY <1>2 DEF Asking

\* A thread that moves on and is not answered yet leaves what clients were told.
LEMMA SameOutcome ==
  ASSUME TypeOK, NEW c \in Client, Receive(c) \/ Serve(c), at[c] # "answered", at[c] # "lost",
         at'[c] # "answered", at'[c] # "lost"
  PROVE  Outcome' = Outcome
  <1>1. ASSUME NEW d \in Client PROVE Outcome'[d] = Outcome[d]
    BY <1>1, OthersFrame DEF Outcome
  <1>2. QED
    BY <1>1 DEF Outcome

\* Where the thread of a step stands before and after it.
LEMMA Unanswered ==
  ASSUME TypeOK, NEW c \in Client, Receive(c) \/ Serve(c)
  PROVE  /\ at[c] # "answered" /\ at[c] # "lost" /\ at'[c] # "lost"
         /\ at'[c] = "answered" => RunOutgoing(c) \/ ThrowSubmit(c)
  <1> USE DEF TypeOK, Go
  <1>1. CASE Receive(c) \/ CheckJson(c) \/ SkipHandler(c) \/ RunOutgoing(c) \/ Health(c)
    BY <1>1 DEF Receive, CheckJson, SkipHandler, RunOutgoing, Health
  <1>2. CASE RejectSubmit(c) \/ ThrowSubmit(c) \/ FailSubmit(c) \/ AcceptSubmit(c) \/ Accept(c)
    BY <1>2 DEF RejectSubmit, ThrowSubmit, FailSubmit, AcceptSubmit, Accept
  <1>3. CASE ReadClock(c) \/ Touch(c) \/ Open(c) \/ Write(c)
    BY <1>3 DEF ReadClock, Touch, Open, Write
  <1>4. CASE RejectUpload(c) \/ ChooseId(c) \/ FailUpload(c) \/ OpenMesh(c) \/ WriteMesh(c)
    BY <1>4 DEF RejectUpload, ChooseId, FailUpload, OpenMesh, WriteMesh
  <1>5. QED
    BY <1>1, <1>2, <1>3, <1>4 DEF Serve

LEMMA ReadClockMaps ==
  ASSUME IInv, NEW c \in Client, ReadClock(c), [ServerNext]_vars PROVE StoreMapped
  <1>1. TypeOK /\ Path(c)
    BY DEF IInv, PathInv
  <1>2. at[c] = "create" /\ at'[c] = "touch" /\ requests' = requests
        /\ stamp' = [stamp EXCEPT ![c] = now] /\ now \in Stamp /\ Serve(c)
    BY <1>1 DEF ReadClock, Go, TypeOK, store, Serve
  <1>3. stamp[c] = None /\ c \in Asking
    BY <1>1, <1>2 DEF Path, IsScene, Asking
  <1>4. c \in Store!Pending
    BY <1>2 DEF Store!Pending, Outcome
  <1>5. Outcome' = Outcome /\ Asking' = Asking
    BY <1>1, <1>2, SameOutcome, SameAsking
  <1>6. Kept' = Kept
    <2>1. ASSUME NEW s \in Stamp PROVE requests[s] # c
      BY <1>2, <1>3, <2>1, Marks DEF IInv, OwnerInv
    <2>2. ASSUME NEW d \in Client, NEW s \in Stamp
          PROVE  stamp'[d] = s /\ requests[s] = d <=> stamp[d] = s /\ requests[s] = d
      BY <1>1, <1>2, <2>1 DEF TypeOK
    <2>3. QED
      BY <1>2, <2>2 DEF Kept
  <1>7. Store!Take(c, now)
    BY <1>2, <1>3, <1>4, <1>5, <1>6 DEF Store!Take
  <1>8. QED
    BY <1>2, <1>7 DEF StoreMapped, Store!StoreNext

\* What a write leaves kept.
LEMMA OpenOrWriteMaps ==
  ASSUME IInv, NEW c \in Client, Open(c) \/ Write(c), requests' # requests, [ServerNext]_vars
  PROVE  StoreMapped
  <1>1. TypeOK /\ Path(c)
    BY DEF IInv, PathInv
  <1>2. /\ at[c] \in {"open", "write"} /\ at'[c] \notin {"answered", "lost"} /\ stamp' = stamp
        /\ Serve(c)
    BY <1>1 DEF Open, Write, Go, TypeOK, local, Serve
  <1>3. stamp[c] \in Stamp /\ stamp[c] # None
    BY <1>1, <1>2 DEF Path, TypeOK
  <1>4. PICK f \in {c, Torn} : requests' = [requests EXCEPT ![stamp[c]] = f]
    BY DEF Open, Write, store
  <1>5. c \notin Kept
    BY <1>2 DEF Kept, IInv, OwnerInv
  <1>6. Outcome' = Outcome /\ Asking' = Asking
    BY <1>1, <1>2, SameOutcome, SameAsking
  <1>7. Kept' \in {Kept \ Store!Namesakes(c), (Kept \ Store!Namesakes(c)) \cup {c}}
    <2>1. ASSUME NEW d \in Client, d # c
          PROVE  d \in Kept' <=> d \in Kept /\ stamp[d] # stamp[c]
      BY <1>1, <1>2, <1>3, <1>4, <2>1, Marks DEF Kept, TypeOK
    <2>2. \A d \in Client : d \in Store!Namesakes(c) <=> stamp[d] = stamp[c]
      BY DEF Store!Namesakes
    <2>3. Kept \subseteq Client /\ Kept' \subseteq Client
      BY DEF Kept
    <2>4. QED
      BY <1>5, <2>1, <2>2, <2>3
  <1>8. c \in Store!Pending
    BY <1>2 DEF Store!Pending, Outcome
  <1>9. Store!Put(c)
    BY <1>2, <1>3, <1>5, <1>6, <1>7, <1>8 DEF Store!Put
  <1>10. QED
    BY <1>9 DEF StoreMapped, Store!StoreNext

\* The answer: a submission is accepted with a name, and its bytes under it or a namesake.
LEMMA AnswerMaps ==
  ASSUME DiskFails = FALSE, IInv, IInv', WholeInv', NEW c \in Client, RunOutgoing(c) \/ ThrowSubmit(c), [ServerNext]_vars
  PROVE  StoreMapped
  <1>1. TypeOK /\ Path(c) /\ TypeOK' /\ Path(c)'
    BY DEF IInv, PathInv
  <1>2. at[c] \in {"outgoing", "handler"} /\ at'[c] = "answered" /\ UNCHANGED <<stamp, requests>>
        /\ Serve(c)
    BY <1>1 DEF RunOutgoing, ThrowSubmit, Go, TypeOK, local, store, Serve
  <1>3. Asking' = Asking /\ Kept' = Kept
    BY <1>1, <1>2, SameAsking DEF Kept
  <1>4. c \in Store!Pending
    BY <1>2 DEF Store!Pending, Outcome
  <1>5. Outcome' = [Outcome EXCEPT ![c] = IF status'[c] = 200 THEN "accepted" ELSE "refused"]
    <2>1. ASSUME NEW d \in Client \ {c} PROVE Outcome'[d] = Outcome[d]
      BY <1>1, <1>2, OthersFrame DEF Outcome
    <2>2. Outcome'[c] = IF status'[c] = 200 THEN "accepted" ELSE "refused"
      BY <1>2 DEF Outcome
    <2>3. /\ Outcome = [d \in Client |-> Outcome[d]]
          /\ Outcome' = [d \in Client |-> Outcome'[d]]
      BY DEF Outcome
    <2> DEFINE told == IF status'[c] = 200 THEN "accepted" ELSE "refused"
    <2> HIDE DEF told
    <2>4. Outcome' = [Outcome EXCEPT ![c] = told]
      BY <2>1, <2>2, <2>3 DEF told
    <2>5. QED
      BY <2>4 DEF told
  <1>6. CASE status'[c] = 200
    <2>1. ASSUME c \in Asking PROVE stamp[c] # None /\ (c \in Kept \/ Store!Namesakes(c) # {c})
      <3>1. stamp[c] \in Stamp /\ stamp[c] # None
        BY <1>1, <1>2, <1>3, <1>6, <2>1 DEF Path, Asking, TypeOK
      <3>2. CASE Alone(c)'
        BY <1>2, <3>1, <3>2 DEF WholeInv, Kept
      <3>3. CASE ~Alone(c)'
        BY <1>2, <3>1, <3>3 DEF Alone, Store!Namesakes
      <3>4. QED
        BY <3>1, <3>2, <3>3
    <2>2. Store!Accept(c)
      BY <1>2, <1>3, <1>4, <1>5, <1>6, <2>1 DEF Store!Accept, Store!Tell
    <2>3. QED
      BY <2>2 DEF StoreMapped, Store!StoreNext
  <1>7. CASE status'[c] # 200
    <2>1. stamp[c] = None
      BY <1>1, <1>2, <1>7 DEF Path, TypeOK
    <2>2. Store!Refuse(c)
      BY <1>2, <1>3, <1>4, <1>5, <1>7, <2>1 DEF Store!Refuse, Store!Tell
    <2>3. QED
      BY <2>2 DEF StoreMapped, Store!StoreNext
  <1>8. QED
    BY <1>6, <1>7

\* Every other step of a thread changes nothing a client can see.
LEMMA QuietMaps ==
  ASSUME IInv, NEW c \in Client, Receive(c) \/ Serve(c), [ServerNext]_vars, at'[c] # "answered",
         ~ReadClock(c), requests' = requests \/ Touch(c)
  PROVE  StoreMapped
  <1>1. TypeOK
    BY DEF IInv
  <1>2. Outcome' = Outcome /\ Asking' = Asking
    BY <1>1, Unanswered, SameOutcome, SameAsking
  <1>3. stamp' = stamp
    BY DEF Receive, Serve, CheckJson, SkipHandler, RunOutgoing, Health, RejectSubmit, ThrowSubmit,
      FailSubmit, AcceptSubmit, Accept, Touch, Open, Write, RejectUpload, FailUpload, ChooseId, OpenMesh,
      WriteMesh, local
  <1>4. ASSUME NEW s \in Stamp, NEW d \in Client PROVE requests'[s] = d <=> requests[s] = d
    BY <1>1, Marks DEF Touch, TypeOK
  <1>5. Kept' = Kept
    BY <1>3, <1>4 DEF Kept
  <1>6. QED
    BY <1>2, <1>3, <1>5 DEF StoreMapped, Store!storeVars

LEMMA CrashMaps == ASSUME IInv, Crash PROVE StoreMapped
  <1> DEFINE gone == {c \in Client : at[c] \notin {"none", "answered", "lost"}}
  <1>1. gone \in SUBSET Store!Pending
    BY DEF Store!Pending, Outcome
  <1>2. Outcome' = [c \in Client |-> IF c \in gone THEN "lost" ELSE Outcome[c]]
    BY DEF Crash, Outcome
  <1>3. Asking' = Asking /\ stamp' = stamp /\ Kept' = Kept
    BY DEF Crash, local, store, Asking, Kept
  <1> HIDE DEF gone
  <1>4. Store!Lose(gone)
    BY <1>2, <1>3 DEF Store!Lose
  <1>5. QED
    BY <1>1, <1>4 DEF StoreMapped, Store!StoreNext

\* With a disk that does not fail, the threads, files and statements of the server
\* amount to a store where a scene is put under its name in one step before its client
\* is told, and nothing but a namesake or a crash before the answer takes it back.
THEOREM StoreRefinement == ASSUME DiskFails = FALSE PROVE Spec => ImplementsStore
  <1>1. Init => WholeInv /\ Store!StoreInit
    BY Marks DEF Init, WholeInv, Store!StoreInit, Asking, Outcome, Kept
  <1>2. IInv /\ WholeInv /\ [ServerNext]_vars => WholeInv'
    BY WholeStep DEF IInv
  <1>3. IInv /\ IInv' /\ WholeInv /\ [ServerNext]_vars => StoreMapped
    <2> SUFFICES ASSUME IInv, IInv', WholeInv, WholeInv', [ServerNext]_vars PROVE StoreMapped
      BY <1>2
    <2>1. ASSUME NEW c \in Client, Receive(c) \/ Serve(c) PROVE StoreMapped
      <3>1. CASE ReadClock(c)
        BY <3>1, ReadClockMaps
      <3>2. CASE (Open(c) \/ Write(c)) /\ requests' # requests
        BY <3>2, OpenOrWriteMaps
      <3>3. CASE at'[c] = "answered"
        BY <2>1, <3>3, Unanswered, AnswerMaps DEF IInv
      <3>4. CASE ~ReadClock(c) /\ ~((Open(c) \/ Write(c)) /\ requests' # requests) /\ at'[c] # "answered"
        BY <2>1, <3>4, FilesFrame, QuietMaps DEF IInv
      <3>5. QED
        BY <3>1, <3>2, <3>3, <3>4
    <2>2. CASE Tick \/ UNCHANGED vars
      BY <2>2 DEF Tick, vars, local, store, StoreMapped, Store!storeVars, Asking, Outcome, Kept
    <2>3. CASE Crash
      BY <2>3, CrashMaps
    <2>4. QED
      BY <2>1, <2>2, <2>3 DEF ServerNext
  <1>4. QED
    BY <1>1, <1>2, <1>3, Invariant, PTL DEF Spec, ImplementsStore, Store!StoreSpec, StoreMapped
=============================================================================
