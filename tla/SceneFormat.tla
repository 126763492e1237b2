---------------------------- MODULE SceneFormat ----------------------------
(***************************************************************************)
(* What the enforce_* functions of the http-server let through, and what    *)
(* parse_request of the path-tracer makes of the same document.  Both take  *)
(* numbers out of JSON by casts to types of different widths; how many      *)
(* values each type has is a constant, so that they can be few and keep     *)
(* their order.                                                            *)
(*                                                                         *)
(* A document is a record: keys, the keys it has (render_id, ip and port    *)
(* are one, "strings"), malformed, those with a value of another shape than *)
(* is asked for, and the values of the others.  A material is "ok",          *)
(* "malformed", or "rgb" if the three things in its rgb are no numbers; an   *)
(* object has a mesh that exists or not, and a mat_index.  A camera without *)
(* one of its keys counts as missing, which comes to the same.  Of verts,   *)
(* tris and mat_indices, which only the tracer looks at, a document has the  *)
(* size() of the value, 0 for null and 1 for a scalar, and whether what is   *)
(* taken out of it by index is there and a number.                          *)
(***************************************************************************)
EXTENDS Integers, Sequences

CONSTANTS
  Size8, Size16, Size32, Size64,   \* 2^8 and so on: the values of the types of the code
  Scene                            \* the documents clients send

\* A number that is not unsigned is of another shape than is asked for, but not as a
\* mat_index.
ASSUME SceneAssumption ==
  /\ {Size8, Size16, Size32, Size64} \subseteq Nat \ {0}
  /\ Size8 <= Size16 /\ Size16 < Size32 /\ Size32 <= Size64
  /\ \A d \in Scene :
       /\ {d.width, d.height, d.samples} \subseteq Nat
       /\ d.pixels_to_skip \in Seq(Seq(Nat))
       /\ d.mats \in Seq({"ok", "malformed", "rgb"})
       /\ d.objects \in Seq([mesh : BOOLEAN, mat_index : Int])
       /\ {d.verts, d.tris, d.mat_indices} \subseteq [size : Nat, numbers : BOOLEAN]

VARIABLES
  scene,     \* the document
  verdict,   \* of the server, then of the tracer
  parsed     \* what parse_request has filled in

sceneVars == <<scene, verdict, parsed>>

NoScene == [keys |-> {}]
NotParsed == [request_size |-> 0]

\* get<T>() is a static_cast of the number in the document.
AsUnsigned(v, size) == v % size
AsInt(v) == LET w == v % Size32 IN IF 2 * w >= Size32 THEN w - Size32 ELSE w

Good(d, key) == key \in d.keys \ d.malformed

-----------------------------------------------------------------------------
(* The server. *)

\* Compared after the cast to int: negative ints and numbers above 32 bits can pass.
enforce_nonzero_uint16_t(d, key) ==
  Good(d, key) /\ AsInt(d[key]) < Size16 /\ AsInt(d[key]) # 0

\* Mutant of enforce_valid_pixels_to_skip: the limits are those of the document, not
\* those of the 16 bits that are kept of them.
enforce_wide_pixels(d) ==
  "pixels_to_skip" \in d.keys =>
    /\ Good(d, "pixels_to_skip") /\ d.pixels_to_skip # <<>>
    /\ \A k \in DOMAIN d.pixels_to_skip :
         /\ Len(d.pixels_to_skip[k]) = 2
         /\ d.pixels_to_skip[k][1] < d.width /\ d.pixels_to_skip[k][2] < d.height

enforce_valid_pixels_to_skip(d) ==
  "pixels_to_skip" \in d.keys =>
    /\ Good(d, "pixels_to_skip") /\ d.pixels_to_skip # <<>>
    /\ \A k \in DOMAIN d.pixels_to_skip :
         /\ Len(d.pixels_to_skip[k]) = 2
         /\ d.pixels_to_skip[k][1] < AsUnsigned(d.width, Size16)
         /\ d.pixels_to_skip[k][2] < AsUnsigned(d.height, Size16)

\* pixels_to_skip[0][0] is read before the length of pixels_to_skip[0] is known.
FirstPixelEmpty(d) ==
  Good(d, "pixels_to_skip") /\ d.pixels_to_skip # <<>> /\ d.pixels_to_skip[1] = <<>>

\* pos and rot of three floats, fov from 0 to 180.
enforce_valid_camera(d) == Good(d, "camera")

\* Mutant of enforce_valid_materials: a material without its keys is let through.
enforce_any_materials(d) == Good(d, "mats") /\ Len(d.mats) <= Size8

\* Of rgb only the size is looked at.
enforce_valid_materials(d) ==
  /\ Good(d, "mats") /\ Len(d.mats) <= Size8
  /\ \A k \in DOMAIN d.mats : d.mats[k] # "malformed"

enforce_valid_objects(d) ==
  /\ Good(d, "objects") /\ d.objects # <<>>
  /\ \A k \in DOMAIN d.objects :
       d.objects[k].mesh /\ AsUnsigned(d.objects[k].mat_index, Size8) < Len(d.mats)

enforce_numbers(d) ==
  /\ Good(d, "strings")
  /\ \A key \in {"width", "height", "samples"} : enforce_nonzero_uint16_t(d, key)

\* The checks run in this order.  What lies past the end of an empty list ends the
\* process or is no pixel; [] of a const document asserts that the key is there, and
\* camera and mats are taken by [] without a look.
Verdicts(d) ==
  IF enforce_numbers(d) /\ FirstPixelEmpty(d)
    THEN {"refused", "aborted"}
  ELSE IF /\ enforce_numbers(d) /\ enforce_valid_pixels_to_skip(d)
          /\ \/ "camera" \notin d.keys
             \/ enforce_valid_camera(d) /\ "mats" \notin d.keys
    THEN {"aborted"}
  ELSE IF /\ enforce_numbers(d) /\ enforce_valid_pixels_to_skip(d)
          /\ enforce_valid_camera(d) /\ enforce_valid_materials(d) /\ enforce_valid_objects(d)
    THEN {"accepted"}
  ELSE {"refused"}

submit_render(d) ==
  /\ scene' = d
  /\ verdict' \in Verdicts(d)
  /\ UNCHANGED parsed

-----------------------------------------------------------------------------
(* The tracer, given the document itself. *)

\* y & x, bit by bit from the lowest.
And[y \in Nat] ==
  [x \in Nat |-> IF y = 0 THEN 0 ELSE (x % 2) * (y % 2) + 2 * And[y \div 2][x \div 2]]

\* A product of 64 bits, then & with the samples.
RequestSize(d) == And[d.samples][(d.width * d.height) % Size64]

\* Of verts as many numbers are taken as there are whole vertices, of the other two lists
\* as many as there are values; a value with none of them is not looked into.
IsList(d, key) ==
  /\ key \in d.keys
  /\ \/ key = "verts" /\ d[key].size \div 3 = 0
     \/ d[key].size = 0
     \/ d[key].numbers

\* All keys are taken by [], and what is no number throws.
Readable(d) ==
  /\ {"pixels_to_skip", "mats", "camera"} \subseteq d.keys
  /\ \A key \in {"verts", "tris", "mat_indices"} : IsList(d, key)
  /\ \A k \in DOMAIN d.mats : d.mats[k] = "ok"

\* It runs in a thread of its own: what fails there ends the process.
parse_request ==
  /\ verdict = "accepted"
  /\ IF Readable(scene)
       THEN /\ verdict' = "read"
            /\ parsed' = [pixels_to_skip |->
                            [k \in DOMAIN scene.pixels_to_skip |->
                               [c \in 1 .. 2 |-> AsUnsigned(scene.pixels_to_skip[k][c], Size16)]],
                          mats_length |-> AsUnsigned(Len(scene.mats), Size8),
                          request_size |-> RequestSize(scene)]
       ELSE verdict' = "failed" /\ UNCHANGED parsed
  /\ UNCHANGED scene

SceneDone ==
  /\ verdict \notin {"idle", "accepted"}
  /\ scene' = NoScene /\ verdict' = "idle" /\ parsed' = NotParsed

SceneInit == scene = NoScene /\ verdict = "idle" /\ parsed = NotParsed

\* One document at a time.
SceneNext ==
  \/ verdict = "idle" /\ \E d \in Scene : submit_render(d)
  \/ parse_request
  \/ SceneDone

SceneSpec == SceneInit /\ [][SceneNext]_sceneVars

-----------------------------------------------------------------------------
(* Properties. *)

\* What the server accepts, the tracer reads as the client meant it, for all the casts
\* on the way: every pixel to skip is the one that was sent and lies inside the width
\* and height that were sent, the cast mat_index of every object is below the number of
\* materials the tracer has counted if eight bits can count them, and request_size is at
\* most the samples asked for.
AcceptedIsMeant ==
  verdict = "read" =>
    /\ parsed.pixels_to_skip = scene.pixels_to_skip
    /\ \A k \in DOMAIN scene.pixels_to_skip :
         scene.pixels_to_skip[k][1] < scene.width /\ scene.pixels_to_skip[k][2] < scene.height
    /\ Len(scene.mats) < Size8 =>
         \A k \in DOMAIN scene.objects :
           AsUnsigned(scene.objects[k].mat_index, Size8) < parsed.mats_length
    /\ parsed.request_size <= scene.samples

\* The lists that the tracer takes and the server never looks for.
ListsThere(d) == \A key \in {"verts", "tris", "mat_indices"} : IsList(d, key)
RgbThere(d) == \A k \in DOMAIN d.mats : d.mats[k] # "rgb"

\* Where the two agree on what a key holds no accepted document ends the tracer: one
\* that has pixels_to_skip, the lists of the tracer and numbers in every rgb is read,
\* however far its numbers and its materials are from what was asked for.
AgreedKeysRead ==
  verdict = "failed" =>
    "pixels_to_skip" \notin scene.keys \/ ~ListsThere(scene) \/ ~RgbThere(scene)
=============================================================================
