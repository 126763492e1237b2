---------------------------- MODULE MCHttpServer ----------------------------
(* Small instances of HttpServer for TLC. *)
EXTENDS HttpServer, TLC

CONSTANTS c1, c2, c3, m1, m2, m3, zero

TwoClients == {c1, c2}
ThreeClients == {c1, c2, c3}
ClientSymmetry == Permutations(ThreeClients)
MeshIds == {m1, m2, m3, zero}
TwoStamps == 1 .. 2

Upload == [route |-> "upload", type |-> "other", body |-> "text"]
Submit == [route |-> "submit", type |-> "json", body |-> "scene"]

\* One message for each way through the middleware and the handlers.
Varied ==
  [route : {"submit"}, type : {"json", "other", "missing"}, body : {"text", "unfit", "scene"}]
  \cup {[route |-> "submit", type |-> "json", body |-> "empty"],
        [route |-> "upload", type |-> "other", body |-> "empty"],
        [route |-> "upload", type |-> "missing", body |-> "text"],
        [route |-> "health", type |-> "missing", body |-> "empty"], Upload}
UploadsAndScenes == {Upload, Submit}
=============================================================================
