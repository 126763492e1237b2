----------------------------- MODULE MCFormats -----------------------------
(* The three formats in one run: one of them at work at a time. *)
EXTENDS MeshFormat, SceneFormat, Ray, TLC

\* Bytes of 3 bits: 4 to 7 are negative, words have 12 bits.  The indices that may be
\* looked at are the first two.
MCTris(n, a, b, rest) == [k \in 1 .. n |-> IF k = 1 THEN a ELSE IF k = 2 THEN b ELSE rest]

Consistents ==
  {[verts |-> v, points |-> v, triangles |-> t, tris |-> MCTris(3 * t, a, b, rest)] :
     v \in {0, 1, 3, 5, 9, 11, 33}, t \in {0, 1, 2, 5, 8, 9},
     a \in {0, 5, 8, 10, 11}, b \in {0, 5, 11}, rest \in {0, 11}}

\* Numbers that do not fit what follows; 511 vertices are the 12 bits nearly all set.
Inconsistents ==
  {[verts |-> v, points |-> p, triangles |-> t, tris |-> MCTris(n, 0, b, 0)] :
     v \in {0, 1, 3, 33, 511}, p \in {0, 1, 3}, t \in {0, 2, 5, 9, 33}, n \in {0, 1, 3}, b \in {0, 9}}

MCMesh == Consistents \cup Inconsistents

\* One byte is missing, a whole word, or a word and a half, which leaves half a number of
\* a mesh without vertices and triangles.
MCLost == {0, 1, 4, 6}

\* Types of 2, 4, 8 and 16 bits.  Numbers around 2^4, 2^7 and 2^8 for the three of 16 bits.
AllKeys == {"strings", "width", "height", "samples", "pixels_to_skip", "camera", "mats",
            "objects", "verts", "tris", "mat_indices"}
List(size, numbers) == [size |-> size, numbers |-> numbers]
Document(keys, malformed, w, h, s, skip, mats, objects, list) ==
  [keys |-> keys, malformed |-> malformed, width |-> w, height |-> h, samples |-> s,
   pixels_to_skip |-> skip, mats |-> mats, objects |-> objects,
   verts |-> list, tris |-> list, mat_indices |-> list]

Object(exists, index) == [mesh |-> exists, mat_index |-> index]
Ok(n) == [k \in 1 .. n |-> "ok"]

\* The numbers, with all keys there.
Numbers ==
  {Document(AllKeys, {}, w, h, s, skip, Ok(n), <<Object(TRUE, index)>>, List(3, TRUE)) :
     w \in {0, 3, 16, 130, 259}, h \in {1, 131}, s \in {2, 15, 257},
     skip \in {<<>>, <<<<>>>>, <<<<0>>>>, <<<<0, 0>>>>, <<<<2, 2>>>>, <<<<0, 0>>, <<3, 1>>>>, <<<<17, 0>>>>},
     n \in {1, 4, 5}, index \in {0, 1, 3, 5}}

\* The shapes, with fitting numbers; of verts, tris and mat_indices null, a scalar, and
\* lists that hold numbers or not.
Lists == {List(0, FALSE), List(1, FALSE), List(3, FALSE), List(3, TRUE)}
Shapes ==
  {Document(AllKeys \ missing, malformed, 3, 3, 3, <<<<0, 0>>>>, mats, objects, list) :
     missing \in SUBSET {"pixels_to_skip", "camera", "mats", "verts"}
                 \cup {{"tris"}, {"mat_indices"}, {"verts", "tris", "mat_indices"}, {"objects"}, {"width"}, {"strings"}},
     malformed \in {{}} \cup {{key} : key \in AllKeys \ {"verts", "tris", "mat_indices"}},
     mats \in {<<"ok">>, <<"ok", "rgb">>, <<"malformed">>},
     objects \in {<<>>, <<Object(TRUE, 0)>>, <<Object(TRUE, 0), Object(FALSE, 0)>>},
     list \in Lists}

MCScene == Numbers \cup Shapes

\* Rays at a triangle in front of them, at one that is not, and at one that is none.
Point == {<<x, y, 0>> : x, y \in -2 .. 3}
Way == {<<x, y, z>> : x, y \in -1 .. 1, z \in {0, 1, -1}} \ {<<0, 0, 0>>}
Triangle == {<<<<0, 0, 2>>, <<2, 0, 2>>, <<0, 2, 2>>>>, <<<<1, 0, 1>>, <<0, 2, 2>>, <<-1, -1, 3>>>>,
             <<<<0, 0, 1>>, <<1, 1, 1>>, <<2, 2, 1>>>>}
MCCase ==
  {[o |-> o, dir |-> w, v1 |-> v[1], v2 |-> v[2], v3 |-> v[3]] : o \in Point, w \in Way, v \in Triangle}

formatVars == <<meshVars, sceneVars, rayVars>>

FormatsInit == MeshInit /\ SceneInit /\ RayInit

FormatsNext ==
  \/ verdict = "idle" /\ shot = NoShot /\ MeshNext /\ UNCHANGED <<sceneVars, rayVars>>
  \/ reading = "idle" /\ shot = NoShot /\ SceneNext /\ UNCHANGED <<meshVars, rayVars>>
  \/ reading = "idle" /\ verdict = "idle" /\ RayNext /\ UNCHANGED <<meshVars, sceneVars>>

FormatsSpec == FormatsInit /\ [][FormatsNext]_formatVars
=============================================================================
