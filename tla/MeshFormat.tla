----------------------------- MODULE MeshFormat -----------------------------
(***************************************************************************)
(* validate_mesh of the http-server, byte by byte.  A mesh is sent as      *)
(*                                                                         *)
(*     number of vertices, 12 bytes per vertex,                            *)
(*     number of triangles, 12 bytes per triangle (three indices),         *)
(*                                                                         *)
(* every number a little endian word of four bytes.  The function reads    *)
(* through a char pointer: a byte is signed, and when it is widened to 32   *)
(* bits and or'ed into a word its sign fills the bytes above it.  Nothing  *)
(* tells the function where the body ends, and upload_mesh passes on every *)
(* body that is not empty: one with numbers that do not fit what follows,  *)
(* or without its last bytes, too.                                         *)
(***************************************************************************)
EXTENDS Integers, Sequences

CONSTANTS
  ByteSize,             \* 256; a word is four bytes in any case
  max_payload_length,   \* httplib refuses a longer body before upload_mesh sees it
  Mesh,                 \* what clients send: verts and triangles, the numbers they state;
                        \* points, how many vertices follow the first; tris, the indices
  Lost                  \* how many bytes may be missing at the end

-----------------------------------------------------------------------------
(* Words and bytes. *)

WordSize == ByteSize * ByteSize * ByteSize * ByteSize

Bytes(n) ==
  LET n1 == n \div ByteSize
      n2 == n1 \div ByteSize
      n3 == n2 \div ByteSize
  IN  <<n % ByteSize, n1 % ByteSize, n2 % ByteSize, n3 % ByteSize>>

\* The words of a mesh; the coordinates of vertices are 0.
Words(m) == <<m.verts>> \o [k \in 1 .. 3 * m.points |-> 0] \o <<m.triangles>> \o m.tris
Encode(m) ==
  LET words == Words(m)
  IN  [k \in 1 .. 4 * Len(words) |-> Bytes(words[(k + 3) \div 4])[((k - 1) % 4) + 1]]

IsNegative(byte) == 2 * byte >= ByteSize

\* (uint32_t)body[k] | (uint32_t)body[k+1] << 8 | ...: a negative byte sets every
\* bit above its own.
Word(bytes) ==
  LET filled(b) == IF \E c \in 1 .. b - 1 : IsNegative(bytes[c]) THEN ByteSize - 1 ELSE bytes[b]
  IN  filled(1) + ByteSize * (filled(2) + ByteSize * (filled(3) + ByteSize * filled(4)))

Consistent(m) == m.points = m.verts /\ Len(m.tris) = 3 * m.triangles

\* The limit is 50 million bytes: far below what a misread number points at.
ASSUME MeshAssumption ==
  /\ ByteSize \in Nat /\ ByteSize >= 6
  /\ max_payload_length \in Nat
  /\ max_payload_length <= WordSize - 6 * (ByteSize * ByteSize * ByteSize)
  /\ \A m \in Mesh : /\ {m.verts, m.triangles} \subseteq 0 .. WordSize - 1
                     /\ m.points \in Nat /\ m.tris \in Seq(0 .. WordSize - 1)
                     /\ Len(Encode(m)) <= max_payload_length
  /\ Lost \subseteq Nat

VARIABLES
  mesh,        \* what the client set out to send
  body,        \* the bytes it sent
  reading,     \* where validate_mesh stands
  verts_len, tris_len,
  i            \* index into body, counted from 0 as in the code

meshVars == <<mesh, body, reading, verts_len, tris_len, i>>

\* body[k], k counted from 0: data() of a std::string ends in a 0 of its own.
Byte(k) == IF k = Len(body) THEN 0 ELSE body[k + 1]
WordAt(k) == Word(<<Byte(k), Byte(k + 1), Byte(k + 2), Byte(k + 3)>>)

InBody(k) == k + 3 <= Len(body)

NoMesh == [verts |-> 0, points |-> 0, triangles |-> 0, tris |-> <<>>]

-----------------------------------------------------------------------------
(* upload_mesh receives a body, validate_mesh reads it. *)

Receive(m, lost) ==
  /\ lost < Len(Encode(m))
  /\ mesh' = m
  /\ body' = SubSeq(Encode(m), 1, Len(Encode(m)) - lost)
  /\ reading' = "verts_len"
  /\ UNCHANGED <<verts_len, tris_len, i>>

\* 4 + 4 * 3 * verts_len is computed in 32 bits before it is widened.
trisLenIndex == (4 + 4 * 3 * verts_len) % WordSize

ReadVertsLen ==
  /\ reading = "verts_len" /\ InBody(0)
  /\ verts_len' = WordAt(0)
  /\ i' = trisLenIndex'
  /\ reading' = "tris_len"
  /\ UNCHANGED <<mesh, body, tris_len>>

ReadTrisLen ==
  /\ reading = "tris_len" /\ InBody(i)
  /\ tris_len' = WordAt(i)
  /\ reading' = "index"
  /\ UNCHANGED <<mesh, body, verts_len, i>>

\* The loop starts at the word tris_len itself and goes on for tris_len bytes.
MoreIndices == i < trisLenIndex + tris_len

\* Mutant of CheckIndex: an index equal to the number of vertices passes.
CheckIndexLoosely ==
  /\ reading = "index" /\ MoreIndices /\ InBody(i)
  /\ IF WordAt(i) > verts_len
       THEN reading' = "refused" /\ UNCHANGED i
       ELSE i' = i + 4 /\ UNCHANGED reading
  /\ UNCHANGED <<mesh, body, verts_len, tris_len>>

CheckIndex ==
  /\ reading = "index" /\ MoreIndices /\ InBody(i)
  /\ IF WordAt(i) >= verts_len
       THEN reading' = "refused" /\ UNCHANGED i
       ELSE i' = i + 4 /\ UNCHANGED reading
  /\ UNCHANGED <<mesh, body, verts_len, tris_len>>

Pass ==
  /\ reading = "index" /\ ~MoreIndices
  /\ reading' = "accepted"
  /\ UNCHANGED <<mesh, body, verts_len, tris_len, i>>

\* A word outside the body: whatever lies there, or the end of the process.
ReadOutside ==
  /\ \/ reading = "verts_len" /\ ~InBody(0)
     \/ reading = "tris_len" /\ ~InBody(i)
     \/ reading = "index" /\ MoreIndices /\ ~InBody(i)
  /\ reading' \in {"accepted", "refused", "crashed"}
  /\ UNCHANGED <<mesh, body, verts_len, tris_len, i>>

\* The handler goes on with the verdict; the next body comes.
MeshDone ==
  /\ reading \in {"accepted", "refused", "crashed"}
  /\ reading' = "idle"
  /\ mesh' = NoMesh
  /\ body' = <<>>
  /\ verts_len' = 0 /\ tris_len' = 0 /\ i' = 0

MeshInit ==
  /\ reading = "idle"
  /\ mesh = NoMesh
  /\ body = <<>>
  /\ verts_len = 0 /\ tris_len = 0 /\ i = 0

\* One body at a time.
MeshNext ==
  \/ reading = "idle" /\ \E m \in Mesh, lost \in Lost : Receive(m, lost)
  \/ ReadVertsLen \/ ReadTrisLen \/ CheckIndex \/ Pass \/ ReadOutside
  \/ MeshDone

MeshSpec == MeshInit /\ [][MeshNext]_meshVars

-----------------------------------------------------------------------------
(* Properties. *)

\* A number whose bytes below the highest are less than 128 (for 8 bits) is read as
\* it is; any other is read as a number near 2^32.
IsRead(n) == \A k \in 1 .. 3 : ~IsNegative(Bytes(n)[k])

\* A mesh that arrived as it should be, with a number of vertices that is read as it is.
Arrived == Consistent(mesh) /\ body = Encode(mesh)
Whole == Arrived /\ IsRead(mesh.verts)

\* The loop takes the number of triangles for the first index, then looks at as many
\* bytes of indices as there are triangles.
Looked(m) == (m.triangles + 3) \div 4 - 1

InRange(index) == index < mesh.verts

\* Although nothing compares the numbers in a body with its size, no read leaves the
\* body of such a mesh, however the number of triangles and the indices are misread;
\* and of the indices that are looked at none is out of range when it is accepted.
WholeReadInside ==
  Whole =>
    /\ reading = "tris_len" => InBody(i)
    /\ reading = "index" /\ MoreIndices => InBody(i)
    /\ reading # "crashed"
    /\ reading = "accepted" => \A k \in 1 .. Looked(mesh) : InRange(mesh.tris[k])

\* "Enforces that all triangle indices are not out of range of verts ONLY" (the comment
\* of validate_mesh): a mesh is accepted only if all its indices are in range.
IndicesEnforced ==
  Whole /\ reading = "accepted" => \A k \in DOMAIN mesh.tris : InRange(mesh.tris[k])
=============================================================================
