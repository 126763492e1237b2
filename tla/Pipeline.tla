------------------------------ MODULE Pipeline ------------------------------
(***************************************************************************)
(* The http-server and the path-tracer over the one directory they share,  *)
(* path-tracer/requests: the modules HttpServer and PathTracer, unchanged,  *)
(* with the steps of the first acting on the files the second polls.       *)
(*                                                                         *)
(* The two programs agree on the directory and on nothing else.  The server *)
(* names a file <clock>ms.json, since std::format writes the unit of a      *)
(* duration, and writes into it the text of the body as one JSON string;    *)
(* the tracer looks for <number>.json and an object.                        *)
(***************************************************************************)
EXTENDS PathTracer

CONSTANTS
  Client, Stamp, MeshId, ZeroId, Sent, DiskFails, EntropyFails, MaxCrashes,
  ByHand        \* stems somebody may put into the directory without the server

VARIABLES
  now, at, msg, mesh, status, stamp, meshes, crashes,
  written       \* what the server has put into its files of requests

server == <<now, at, msg, mesh, status, stamp, meshes, crashes, written>>

Http == INSTANCE HttpServer WITH requests <- written

Ms(n) == [num |-> n, unit |-> "ms"]

\* The first part is what HttpServer assumes.
ASSUME PipelineAssumption ==
  /\ Stamp \subseteq Nat /\ ZeroId \in MeshId /\ Sent \subseteq Http!Message
  /\ DiskFails \in BOOLEAN /\ EntropyFails \in BOOLEAN /\ MaxCrashes \in Nat
  /\ Client \cap {Http!Absent, Http!Torn} = {} /\ Http!None \notin MeshId
  /\ \A n \in Stamp : Ms(n) \in Stem
  /\ ByHand \subseteq {s \in Stem : s.unit = ""}
  /\ Absent \notin Client

-----------------------------------------------------------------------------
\* What the tracer finds in a file of the server: create_request_file is given the
\* body as a string, so a whole file is JSON, but a string and no object.
Shown(f) == IF f = Absent THEN Absent ELSE IF f = Http!Torn THEN "torn" ELSE "alien"

\* A step of the server.  Nobody else touches its files (OneDirectory), so a file
\* the step leaves as it was keeps its contents in the directory too.
HttpStep ==
  /\ Http!ServerNext
  /\ requests' = [s \in Stem |->
                    IF s.unit = "ms" /\ s.num \in Stamp /\ written'[s.num] # written[s.num]
                      THEN Shown(written'[s.num])
                      ELSE requests[s]]
  /\ arrived' = arrived \cup {Ms(n) : n \in {m \in Stamp : written'[m] # Absent}}
  /\ UNCHANGED <<in_progress, done, poller, workers, lock_states, orphans, kills,
                 overtaken, regiven, rendered>>

TracerStep == TracerNext /\ UNCHANGED server

\* A readable request is put into the directory by hand.
Drop(s) ==
  /\ s \in ByHand \ arrived
  /\ requests' = [requests EXCEPT ![s] = "scene"]
  /\ arrived' = arrived \cup {s}
  /\ UNCHANGED <<in_progress, done, poller, workers, lock_states, orphans, kills,
                 overtaken, regiven, rendered, server>>

PipelineInit == Init /\ Http!Init

PipelineNext ==
  \/ HttpStep
  \/ TracerStep
  \/ \E s \in ByHand : Drop(s)

PipelineSpec == PipelineInit /\ [][PipelineNext]_<<vars, server>>

\* Both programs go on: what is fair of the tracer, and the threads of the server.
PipelineFairSpec ==
  PipelineSpec /\ Fairness /\ \A c \in Client : WF_(Http!vars)(Http!Serve(c))

-----------------------------------------------------------------------------
(* Properties. *)

\* The tracer never moves, restores or removes a file of the http-server, so what
\* the server wrote is what lies in the directory: a request that is found by its
\* number is moved by a name without unit, which the server never gives.
OneDirectory ==
  \A n \in Stamp : requests[Ms(n)] = Shown(written[n]) /\ in_progress[Ms(n)] = Absent

\* A submission answered 200 is in the queue, whole and for ever, whichever of the
\* two processes dies and starts again, unless another took its millisecond.
AcceptedStaysQueued ==
  \A c \in Client :
    Http!IsScene(c) /\ Http!Done(c, 200) /\ Http!Alone(c) => requests[Ms(stamp[c])] = "alien"

\* "scene data to be rendered by the path-tracer process" (http-server/README.md), which
\* "Polls the requests folder for incoming JSON files (requests) and carries out the first
\* one (FIFO)" (path-tracer/README.md): when a submission that was answered 200 and a
\* readable request put there by hand both wait, one of them is rendered in the end.
WaitingRendered ==
  /\ \E c \in Client : Http!IsScene(c) /\ Http!Done(c, 200) /\ Http!Alone(c)
  /\ \E s \in ByHand : requests[s] = "scene"
  ~> rendered # {}
=============================================================================
