---------------------------- MODULE FormatProofs ----------------------------
(***************************************************************************)
(* What validate_mesh and the two readers of a scene make of what a client  *)
(* sends, for every width of a byte or a type, every mesh that fits in a    *)
(* body and every scene.                                                   *)
(***************************************************************************)
EXTENDS MeshFormat, SceneFormat, SequenceTheorems, WellFoundedInduction, TLAPS

-----------------------------------------------------------------------------
(* Arithmetic of one word. *)

B2 == ByteSize * ByteSize
B3 == ByteSize * ByteSize * ByteSize

LEMMA DivisionLaw ==
  ASSUME NEW n \in Nat, NEW b \in Nat, b > 0, NEW q \in Nat, NEW r \in Nat,
         n \div b = q, n % b = r
  PROVE  n = b * q + r
  OBVIOUS

LEMMA Division ==
  ASSUME NEW n \in Nat, NEW b \in Nat, b > 0
  PROVE  /\ n \div b \in Nat /\ n % b \in 0 .. b - 1
         /\ n = b * (n \div b) + (n % b)
  <1> DEFINE q == n \div b
             r == n % b
  <1>1. q \in Nat /\ r \in 0 .. b - 1 /\ n \div b = q /\ n % b = r
    OBVIOUS
  <1> HIDE DEF q, r
  <1>2. n = b * q + r
    BY <1>1, DivisionLaw
  <1>3. QED
    BY <1>1, <1>2

LEMMA Remainder ==
  ASSUME NEW q \in Int, NEW b \in Nat, NEW r \in 0 .. b - 1
  PROVE  (b * q + r) % b = r
  OBVIOUS

LEMMA SmallRemainder ==
  ASSUME NEW b \in Nat, NEW r \in 0 .. b - 1
  PROVE  r % b = r
  OBVIOUS

LEMMA Products ==
  /\ ByteSize \in Nat /\ B2 \in Nat /\ B3 \in Nat /\ WordSize \in Nat
  /\ B2 >= 6 * ByteSize /\ B3 >= 6 * B2 /\ WordSize >= 6 * B3
  /\ B2 = ByteSize * ByteSize /\ B3 = ByteSize * B2 /\ WordSize = ByteSize * B3
  <1>1. ByteSize \in Nat /\ ByteSize >= 6
    BY MeshAssumption
  <1>2. B2 \in Nat /\ B2 = ByteSize * ByteSize /\ B2 >= 6 * ByteSize
    BY <1>1 DEF B2
  <1>3. B3 = ByteSize * B2
    BY <1>1 DEF B2, B3
  <1>4. B3 \in Nat /\ B3 >= 6 * B2
    BY <1>1, <1>2, <1>3
  <1>5. WordSize = ByteSize * B3
    BY <1>1 DEF WordSize, B3
  <1>6. WordSize \in Nat /\ WordSize >= 6 * B3
    BY <1>1, <1>4, <1>5
  <1>7. QED
    BY <1>1, <1>2, <1>3, <1>4, <1>5, <1>6

LEMMA Assemble ==
  ASSUME NEW b \in Nat, NEW n0 \in Nat, NEW n1 \in Nat, NEW n2 \in Nat, NEW n3 \in Nat,
         NEW r0 \in Nat, NEW r1 \in Nat, NEW r2 \in Nat,
         n0 = b * n1 + r0, n1 = b * n2 + r1, n2 = b * n3 + r2
  PROVE  n0 = r0 + b * r1 + (b * b) * r2 + (b * b * b) * n3
  <1>1. n0 = b * (b * (b * n3 + r2) + r1) + r0
    OBVIOUS
  <1>2. QED
    BY <1>1

\* The four bytes of a number that fits in a word.
LEMMA FourBytes ==
  ASSUME NEW n \in 0 .. WordSize - 1
  PROVE  \E b1, b2, b3, b4 \in 0 .. ByteSize - 1 :
           /\ Bytes(n) = <<b1, b2, b3, b4>>
           /\ n = b1 + ByteSize * b2 + B2 * b3 + B3 * b4
  <1> USE Products
  <1> DEFINE n1 == n \div ByteSize
             n2 == n1 \div ByteSize
             n3 == n2 \div ByteSize
  <1>0. ByteSize > 0 /\ n \in Nat
    BY MeshAssumption
  <1>1. n1 \in Nat /\ n % ByteSize \in 0 .. ByteSize - 1 /\ n = ByteSize * n1 + (n % ByteSize)
    BY <1>0, Division
  <1>2. n2 \in Nat /\ n1 % ByteSize \in 0 .. ByteSize - 1 /\ n1 = ByteSize * n2 + (n1 % ByteSize)
    BY <1>0, <1>1, Division
  <1>3. n3 \in Nat /\ n2 % ByteSize \in 0 .. ByteSize - 1 /\ n2 = ByteSize * n3 + (n2 % ByteSize)
    BY <1>0, <1>2, Division
  <1> HIDE DEF n1, n2, n3
  <1>6. n = (n % ByteSize) + ByteSize * (n1 % ByteSize) + B2 * (n2 % ByteSize) + B3 * n3
    BY <1>0, <1>1, <1>2, <1>3, Assemble DEF B2, B3
  <1>7. n3 < ByteSize
    <2>1. B3 * n3 <= n
      BY <1>1, <1>2, <1>3, <1>6
    <2>2. n3 >= ByteSize => B3 * n3 >= WordSize
      BY <1>3
    <2>3. QED
      BY <1>3, <2>1, <2>2
  <1>8. n3 % ByteSize = n3
    BY <1>3, <1>7
  <1>9. Bytes(n) = <<n % ByteSize, n1 % ByteSize, n2 % ByteSize, n3>>
    BY <1>8 DEF Bytes, n1, n2, n3
  <1>10. QED
    BY <1>1, <1>2, <1>3, <1>6, <1>7, <1>9

-----------------------------------------------------------------------------
(* What a word is read as. *)

\* A number with no negative byte below the highest is read as it is.
LEMMA ReadAsItIs ==
  ASSUME NEW n \in 0 .. WordSize - 1, IsRead(n)
  PROVE  Word(Bytes(n)) = n
  <1> USE Products
  <1>1. PICK b1, b2, b3, b4 \in 0 .. ByteSize - 1 :
          /\ Bytes(n) = <<b1, b2, b3, b4>>
          /\ n = b1 + ByteSize * b2 + B2 * b3 + B3 * b4
    BY FourBytes
  <1>2. ~IsNegative(b1) /\ ~IsNegative(b2) /\ ~IsNegative(b3)
    BY <1>1 DEF IsRead
  <1>3. Word(<<b1, b2, b3, b4>>) = b1 + ByteSize * (b2 + ByteSize * (b3 + ByteSize * b4))
    BY <1>2 DEF Word
  <1>4. QED
    BY <1>1, <1>3 DEF B2, B3

\* Any other number is read as one near the end of the range of a word.
LEMMA Misread ==
  ASSUME NEW n \in 0 .. WordSize - 1, ~IsRead(n)
  PROVE  \E x \in Nat : /\ Word(Bytes(n)) = WordSize - x
                        /\ 0 < x /\ 2 * x <= B3
  <1> USE Products
  <1>0. ByteSize > 0
    BY MeshAssumption
  <1>1. PICK b1, b2, b3, b4 \in 0 .. ByteSize - 1 :
          /\ Bytes(n) = <<b1, b2, b3, b4>>
          /\ n = b1 + ByteSize * b2 + B2 * b3 + B3 * b4
    BY FourBytes
  <1>2. IsNegative(b1) \/ IsNegative(b2) \/ IsNegative(b3)
    BY <1>1 DEF IsRead
  <1> DEFINE top == ByteSize - 1
  <1>3. CASE IsNegative(b1)
    <2>1. Word(<<b1, b2, b3, b4>>) = b1 + ByteSize * (top + ByteSize * (top + ByteSize * top))
      BY <1>3 DEF Word
    <2>2. Word(<<b1, b2, b3, b4>>) = WordSize - (ByteSize - b1)
      BY <2>1 DEF B2, B3
    <2>3. ByteSize - b1 \in Nat /\ 0 < ByteSize - b1 /\ 2 * (ByteSize - b1) <= B3
      BY <1>0, <1>3 DEF IsNegative
    <2>4. QED
      BY <1>1, <2>2, <2>3
  <1>4. CASE ~IsNegative(b1) /\ IsNegative(b2)
    <2>1. Word(<<b1, b2, b3, b4>>) = b1 + ByteSize * (b2 + ByteSize * (top + ByteSize * top))
      BY <1>4 DEF Word
    <2> DEFINE x == B2 - b1 - ByteSize * b2
    <2>2. Word(<<b1, b2, b3, b4>>) = WordSize - x
      BY <2>1 DEF B2, B3
    <2>3. ByteSize * b2 <= B2 - ByteSize /\ 2 * (ByteSize * b2) >= B2
      BY <1>0, <1>4 DEF IsNegative
    <2>4. x \in Nat /\ 0 < x /\ 2 * x <= B3
      BY <1>0, <2>3
    <2>5. QED
      BY <1>1, <2>2, <2>4
  <1>5. CASE ~IsNegative(b1) /\ ~IsNegative(b2) /\ IsNegative(b3)
    <2>1. Word(<<b1, b2, b3, b4>>) = b1 + ByteSize * (b2 + ByteSize * (b3 + ByteSize * top))
      BY <1>5 DEF Word
    <2> DEFINE x == B3 - b1 - ByteSize * b2 - B2 * b3
    <2>2. Word(<<b1, b2, b3, b4>>) = WordSize - x
      BY <2>1 DEF B2, B3
    <2>3. ByteSize * b2 <= B2 - ByteSize
      BY <1>0
    <2>4. B2 * b3 <= B3 - B2 /\ 2 * (B2 * b3) >= B3
      BY <1>0, <1>5 DEF IsNegative
    <2>5. ByteSize * b2 \in Nat /\ B2 * b3 \in Nat
      OBVIOUS
    <2>6. x \in Nat /\ 0 < x /\ 2 * x <= B3
      BY <1>0, <2>3, <2>4, <2>5
    <2>7. QED
      BY <1>1, <2>2, <2>6
  <1>6. QED
    BY <1>2, <1>3, <1>4, <1>5

\* A word passes for an index of one of v vertices if and only if it is read as it is
\* and it is one.
LEMMA PassesAsIndex ==
  ASSUME NEW n \in 0 .. WordSize - 1, NEW v \in Nat, 12 * v < WordSize
  PROVE  /\ Word(Bytes(n)) \in 0 .. WordSize - 1
         /\ Word(Bytes(n)) < v <=> IsRead(n) /\ n < v
         /\ Word(Bytes(n)) = 0 <=> n = 0
  <1> USE Products
  <1>1. CASE IsRead(n)
    BY <1>1, ReadAsItIs
  <1>2. CASE ~IsRead(n)
    <2>1. PICK x \in Nat : Word(Bytes(n)) = WordSize - x /\ 0 < x /\ 2 * x <= B3
      BY <1>2, Misread
    <2>2. n # 0
      <3>1. SUFFICES ASSUME n = 0 PROVE FALSE
        OBVIOUS
      <3>2. PICK b1, b2, b3, b4 \in 0 .. ByteSize - 1 :
              /\ Bytes(n) = <<b1, b2, b3, b4>>
              /\ n = b1 + ByteSize * b2 + B2 * b3 + B3 * b4
        BY FourBytes
      <3>3. b1 = 0 /\ b2 = 0 /\ b3 = 0
        <4>1. ByteSize > 0 /\ B2 > 0 /\ B3 > 0
          BY MeshAssumption
        <4>2. ByteSize * b2 >= b2 /\ B2 * b3 >= b3 /\ B3 * b4 >= b4
          BY <4>1
        <4>3. QED
          BY <3>1, <3>2, <4>2
      <3>4. IsRead(n)
        BY <3>2, <3>3, MeshAssumption DEF IsRead, IsNegative
      <3>5. QED
        BY <1>2, <3>4
    <2>3. QED
      BY <1>2, <2>1, <2>2
  <1>3. QED
    BY <1>1, <1>2

-----------------------------------------------------------------------------
(* Where the words of a mesh are in its body. *)

Zeros(n) == [k \in 1 .. n |-> 0]

LEMMA ZerosTyped ==
  ASSUME NEW n \in Nat
  PROVE  Zeros(n) \in Seq(0 .. WordSize - 1) /\ Len(Zeros(n)) = n
  <1>1. WordSize > 0
    BY Products, MeshAssumption
  <1>2. QED
    BY <1>1, Products DEF Zeros

LEMMA LargerSet ==
  ASSUME NEW S, NEW T, S \subseteq T, NEW s \in Seq(S)
  PROVE  s \in Seq(T)
  OBVIOUS

Joined(x, s, y, t) == <<x>> \o s \o <<y>> \o t

LEMMA FourParts ==
  ASSUME NEW S, NEW x \in S, NEW s \in Seq(S), NEW y \in S, NEW t \in Seq(S)
  PROVE  /\ Len(Joined(x, s, y, t)) = 2 + Len(s) + Len(t)
         /\ \A p \in 1 .. Len(Joined(x, s, y, t)) : Joined(x, s, y, t)[p] \in S
         /\ Joined(x, s, y, t)[1] = x /\ Joined(x, s, y, t)[2 + Len(s)] = y
         /\ \A k \in 1 .. Len(t) : Joined(x, s, y, t)[2 + Len(s) + k] = t[k]
  <1> DEFINE w == Joined(x, s, y, t)
             u == <<x>> \o s
             v == u \o <<y>>
  <1>1. u \in Seq(S) /\ Len(u) = 1 + Len(s) /\ u[1] = x
    OBVIOUS
  <1> HIDE DEF u
  <1>2. /\ v \in Seq(S) /\ Len(v) = 2 + Len(s) /\ v[1] = x /\ v[2 + Len(s)] = y
    BY <1>1
  <1>3. w = v \o t
    BY DEF Joined, u, v
  <1> HIDE DEF v, w
  <1>4. w \in Seq(S) /\ Len(w) = 2 + Len(s) + Len(t)
    <2>1. v \o t \in Seq(S) /\ Len(v \o t) = Len(v) + Len(t)
      BY <1>2, ConcatProperties
    <2>2. QED
      BY <1>2, <1>3, <2>1
  <1>5. w[1] = x /\ w[2 + Len(s)] = y
    BY <1>2, <1>3
  <1>6. ASSUME NEW k \in 1 .. Len(t) PROVE w[2 + Len(s) + k] = t[k]
    BY <1>2, <1>3
  <1>7. ASSUME NEW p \in 1 .. Len(w) PROVE w[p] \in S
    BY <1>4
  <1>8. QED
    BY <1>4, <1>5, <1>6, <1>7 DEF w

LEMMA WordsParts ==
  ASSUME NEW m, NEW S, m.verts \in S, m.triangles \in S,
         Zeros(3 * m.points) \in Seq(S), m.tris \in Seq(S)
  PROVE  LET w == Words(m)
             n == Len(Zeros(3 * m.points))
         IN  /\ Len(w) = 2 + n + Len(m.tris)
             /\ \A p \in 1 .. Len(w) : w[p] \in S
             /\ w[1] = m.verts /\ w[2 + n] = m.triangles
             /\ \A k \in 1 .. Len(m.tris) : w[2 + n + k] = m.tris[k]
  <1> DEFINE x == m.verts
             s == Zeros(3 * m.points)
             y == m.triangles
             t == m.tris
             w == Joined(x, s, y, t)
  <1>1. Words(m) = w
    BY DEF Words, Zeros, Joined
  <1>2. x \in S /\ s \in Seq(S) /\ y \in S /\ t \in Seq(S)
    OBVIOUS
  <1> HIDE DEF x, s, y, t
  <1>3. /\ Len(w) = 2 + Len(s) + Len(t)
        /\ \A p \in 1 .. Len(w) : w[p] \in S
        /\ w[1] = x /\ w[2 + Len(s)] = y
        /\ \A k \in 1 .. Len(t) : w[2 + Len(s) + k] = t[k]
    <2>1. Len(w) = 2 + Len(s) + Len(t)
      BY <1>2, FourParts
    <2>2. ASSUME NEW p \in 1 .. Len(w) PROVE w[p] \in S
      BY <1>2, <2>2, FourParts
    <2>3. w[1] = x /\ w[2 + Len(s)] = y
      BY <1>2, FourParts
    <2>4. ASSUME NEW k \in 1 .. Len(t) PROVE w[2 + Len(s) + k] = t[k]
      BY <1>2, <2>4, FourParts
    <2>5. QED
      BY <2>1, <2>2, <2>3, <2>4
  <1> HIDE DEF w
  <1>4. QED
    BY <1>1, <1>3 DEF x, s, y, t

LEMMA MeshTyped ==
  ASSUME NEW m \in Mesh, Consistent(m)
  PROVE  /\ m.verts \in Nat /\ m.triangles \in Nat
         /\ Len(m.tris) = 3 * m.triangles
         /\ m.tris \in Seq(0 .. WordSize - 1)
         /\ Len(Words(m)) = 2 + 3 * m.verts + 3 * m.triangles
         /\ Len(Encode(m)) = 4 * Len(Words(m))
         /\ Len(Encode(m)) <= WordSize - 6 * B3
         /\ 12 * m.verts < WordSize
  <1>1. m.verts \in Nat /\ m.points = m.verts /\ m.tris \in Seq(0 .. WordSize - 1)
    BY MeshAssumption, Products DEF Consistent
  <1>2. m.triangles \in Nat /\ Len(m.tris) = 3 * m.triangles
    BY MeshAssumption, Products DEF Consistent
  <1>3. Zeros(3 * m.points) \in Seq(0 .. WordSize - 1) /\ Len(Zeros(3 * m.points)) = 3 * m.verts
    BY <1>1, ZerosTyped
  <1>4. Len(Words(m)) = 2 + 3 * m.verts + 3 * m.triangles
    <2> DEFINE R == 0 .. WordSize - 1
               S == R \cup {m.verts, m.triangles}
    <2>1. m.tris \in Seq(R) /\ Zeros(3 * m.points) \in Seq(R)
      BY <1>1, <1>3
    <2>2. m.verts \in S /\ m.triangles \in S /\ R \subseteq S
      OBVIOUS
    <2> HIDE DEF S, R
    <2>3. m.tris \in Seq(S) /\ Zeros(3 * m.points) \in Seq(S)
      BY <2>1, <2>2, LargerSet
    <2>4. Len(Words(m)) = 2 + Len(Zeros(3 * m.points)) + Len(m.tris)
      BY <2>2, <2>3, WordsParts
    <2>5. QED
      BY <1>1, <1>2, <1>3, <2>4
  <1>5. Len(Encode(m)) = 4 * Len(Words(m))
    <2> DEFINE n == 4 * Len(Words(m))
    <2>1. n \in Nat
      BY <1>1, <1>2, <1>4
    <2>2. Encode(m) = [k \in 1 .. n |-> Bytes(Words(m)[(k + 3) \div 4])[((k - 1) % 4) + 1]]
      BY DEF Encode
    <2> HIDE DEF n
    <2>3. Len(Encode(m)) = n
      BY <2>1, <2>2
    <2>4. QED
      BY <2>3 DEF n
  <1>6. Len(Encode(m)) <= WordSize - 6 * B3
    <2>1. /\ Len(Encode(m)) \in Nat /\ B3 \in Nat /\ WordSize \in Nat
          /\ B3 = ByteSize * ByteSize * ByteSize
      BY <1>1, <1>2, <1>4, <1>5, Products DEF B3
    <2>2. /\ max_payload_length \in Nat /\ Len(Encode(m)) <= max_payload_length
          /\ max_payload_length <= WordSize - 6 * B3
      BY <2>1, MeshAssumption
    <2>3. QED
      BY <2>1, <2>2
  <1>7. 12 * m.verts < WordSize
    <2>1. WordSize \in Nat /\ B3 \in Nat
      BY Products
    <2>2. 4 * (2 + 3 * m.verts + 3 * m.triangles) <= WordSize - 6 * B3
      BY <1>4, <1>5, <1>6
    <2>3. QED
      BY SMTT(30), <1>1, <1>2, <2>1, <2>2
  <1>8. QED
    BY <1>1, <1>2, <1>4, <1>5, <1>6, <1>7

LEMMA WordsOfMesh ==
  ASSUME NEW m \in Mesh, Consistent(m)
  PROVE  /\ m.verts \in 0 .. WordSize - 1 /\ m.triangles \in 0 .. WordSize - 1
         /\ \A p \in 1 .. Len(Words(m)) : Words(m)[p] \in 0 .. WordSize - 1
         /\ Words(m)[1] = m.verts
         /\ Words(m)[2 + 3 * m.verts] = m.triangles
         /\ \A k \in 1 .. Len(m.tris) : Words(m)[2 + 3 * m.verts + k] = m.tris[k]
  <1>0. WordSize \in Nat
    BY Products
  <1>1. /\ m.verts \in 0 .. WordSize - 1 /\ m.triangles \in 0 .. WordSize - 1
        /\ m.tris \in Seq(0 .. WordSize - 1)
    <2>1. /\ m.verts \in Nat /\ m.triangles \in Nat /\ B3 \in Nat
          /\ 4 * (2 + 3 * m.verts + 3 * m.triangles) <= WordSize - 6 * B3
      BY MeshTyped, Products
    <2>2. m.verts \in 0 .. WordSize - 1 /\ m.triangles \in 0 .. WordSize - 1
      BY <1>0, <2>1
    <2>3. m.tris \in Seq(0 .. WordSize - 1)
      BY Zenon, MeshTyped
    <2>4. QED
      BY Zenon, <2>2, <2>3
  <1>2. /\ Zeros(3 * m.points) \in Seq(0 .. WordSize - 1)
        /\ Len(Zeros(3 * m.points)) = 3 * m.verts
    <2>1. m.points = m.verts
      BY DEF Consistent
    <2>2. m.verts \in Nat
      BY Zenon, MeshTyped
    <2>3. 3 * m.points \in Nat
      BY <2>1, <2>2
    <2>4. /\ Zeros(3 * m.points) \in Seq(0 .. WordSize - 1)
          /\ Len(Zeros(3 * m.points)) = 3 * m.points
      BY <2>3, ZerosTyped
    <2>5. QED
      BY <2>1, <2>4
  <1> DEFINE S == 0 .. WordSize - 1
  <1>3. /\ m.verts \in S /\ m.triangles \in S
        /\ m.tris \in Seq(S) /\ Zeros(3 * m.points) \in Seq(S)
    BY <1>1, <1>2
  <1> HIDE DEF S
  <1>4. /\ \A p \in 1 .. Len(Words(m)) : Words(m)[p] \in S
        /\ Words(m)[1] = m.verts
        /\ Words(m)[2 + Len(Zeros(3 * m.points))] = m.triangles
        /\ \A k \in 1 .. Len(m.tris) :
             Words(m)[2 + Len(Zeros(3 * m.points)) + k] = m.tris[k]
    BY <1>3, WordsParts
  <1>5. /\ Words(m)[2 + 3 * m.verts] = m.triangles
        /\ \A k \in 1 .. Len(m.tris) : Words(m)[2 + 3 * m.verts + k] = m.tris[k]
    BY <1>2, <1>4
  <1>6. \A p \in 1 .. Len(Words(m)) : Words(m)[p] \in 0 .. WordSize - 1
    BY <1>4 DEF S
  <1>7. QED
    BY <1>1, <1>4, <1>5, <1>6

LEMMA IndexTyped ==
  ASSUME NEW m \in Mesh, Consistent(m), NEW k \in 1 .. Len(m.tris)
  PROVE  m.tris[k] \in 0 .. WordSize - 1
  <1> DEFINE S == 0 .. WordSize - 1
             s == m.tris
  <1>1. s \in Seq(S)
    BY MeshTyped
  <1>2. k \in 1 .. Len(s)
    OBVIOUS
  <1> HIDE DEF S, s
  <1>3. s[k] \in S
    BY <1>1, <1>2
  <1>4. QED
    BY <1>3 DEF S, s

\* validate_mesh finds the word of index p, counted from 0, at index 4 * p of the body.
LEMMA WordOfBody ==
  ASSUME NEW m \in Mesh, Consistent(m), body = Encode(m), NEW p \in Nat, p < Len(Words(m))
  PROVE  WordAt(4 * p) = Word(Bytes(Words(m)[p + 1])) /\ InBody(4 * p)
  <1> DEFINE n == Words(m)[p + 1]
             words == Words(m)
  <1>1. n \in 0 .. WordSize - 1 /\ Len(words) \in Nat
    BY MeshTyped, WordsOfMesh
  <1>2. Len(body) = 4 * Len(words)
    BY MeshTyped
  <1> HIDE DEF n
  <1>3. PICK b1, b2, b3, b4 \in 0 .. ByteSize - 1 : Bytes(n) = <<b1, b2, b3, b4>>
    BY <1>1, FourBytes
  <1>4. \A c \in 1 .. 4 : body[4 * p + c] = Bytes(n)[c]
    <2> SUFFICES ASSUME NEW c \in 1 .. 4 PROVE body[4 * p + c] = Bytes(n)[c]
      OBVIOUS
    <2>1. 4 * p + c \in 1 .. 4 * Len(words)
      BY <1>1
    <2>2. (4 * p + c + 3) \div 4 = p + 1 /\ ((4 * p + c - 1) % 4) + 1 = c
      OBVIOUS
    <2>3. body[4 * p + c] = Bytes(words[(4 * p + c + 3) \div 4])[((4 * p + c - 1) % 4) + 1]
      BY <2>1 DEF Encode
    <2>4. QED
      BY <2>2, <2>3 DEF n
  <1>5. WordAt(4 * p) = Word(<<b1, b2, b3, b4>>)
    <2>1. ASSUME NEW c \in 0 .. 3 PROVE Byte(4 * p + c) = body[4 * p + c + 1]
      BY <1>1, <1>2 DEF Byte
    <2>2. /\ Byte(4 * p) = body[4 * p + 1] /\ Byte(4 * p + 1) = body[4 * p + 2]
          /\ Byte(4 * p + 2) = body[4 * p + 3] /\ Byte(4 * p + 3) = body[4 * p + 4]
      <3>1. /\ Byte(4 * p + 0) = body[4 * p + 0 + 1] /\ Byte(4 * p + 1) = body[4 * p + 1 + 1]
            /\ Byte(4 * p + 2) = body[4 * p + 2 + 1] /\ Byte(4 * p + 3) = body[4 * p + 3 + 1]
        BY <2>1
      <3>2. QED
        BY <3>1
    <2>3. /\ body[4 * p + 1] = b1 /\ body[4 * p + 2] = b2
          /\ body[4 * p + 3] = b3 /\ body[4 * p + 4] = b4
      BY <1>3, <1>4
    <2>4. QED
      BY <2>2, <2>3 DEF WordAt
  <1>6. QED
    BY <1>1, <1>2, <1>3, <1>5 DEF InBody, n

-----------------------------------------------------------------------------
(* The verdict on a mesh that arrived as it should. *)

\* What a mesh must be for the loop to pass it.
LooksRight(m) ==
  \/ m.triangles = 0
  \/ /\ IsRead(m.triangles) /\ m.triangles < m.verts
     /\ \A k \in 1 .. Looked(m) : IsRead(m.tris[k]) /\ m.tris[k] < m.verts

\* The word validate_mesh looks at after j others.
Checked(j) == 4 + 12 * mesh.verts + 4 * j

\* If the number of vertices is read as it is, the loop has passed some words, all of
\* them in the body, and its verdict is the one the mesh calls for.
ArrivedInv ==
  /\ reading = "tris_len" => verts_len = Word(Bytes(mesh.verts)) /\ i = trisLenIndex
  /\ reading = "index" =>
       /\ IsRead(mesh.verts) /\ verts_len = mesh.verts
       /\ tris_len = Word(Bytes(mesh.triangles))
       /\ \E j \in 0 .. Len(body) :
            /\ i = Checked(j)
            /\ \A k \in 0 .. j - 1 : WordAt(Checked(k)) < verts_len
  /\ IsRead(mesh.verts) =>
       /\ reading # "crashed"
       /\ reading = "accepted" => LooksRight(mesh)
       /\ reading = "refused" => ~LooksRight(mesh)

MeshInv ==
  /\ reading # "idle" => mesh \in Mesh
  /\ reading \in {"verts_len", "tris_len", "index", "accepted", "refused", "crashed", "idle"}
  /\ Arrived /\ reading # "idle" => ArrivedInv

\* What the words of the mesh that is looked at are, when its number of vertices is
\* read as it is.
LEMMA CheckedWords ==
  ASSUME mesh \in Mesh, Arrived
  PROVE  /\ WordAt(0) = Word(Bytes(mesh.verts)) /\ InBody(0)
         /\ WordAt(Checked(0)) = Word(Bytes(mesh.triangles)) /\ InBody(Checked(0))
         /\ \A j \in 1 .. Len(mesh.tris) :
              WordAt(Checked(j)) = Word(Bytes(mesh.tris[j])) /\ InBody(Checked(j))
  <1> DEFINE v == mesh.verts
             t == mesh.triangles
             n == Len(Words(mesh))
  <1>0. mesh \in Mesh /\ Consistent(mesh) /\ body = Encode(mesh)
    BY DEF Arrived
  <1>1. v \in Nat /\ t \in Nat /\ n = 2 + 3 * v + 3 * t /\ Len(mesh.tris) = 3 * t
    BY <1>0, MeshTyped
  <1> HIDE DEF t, n
  <1>2. WordAt(4 * 0) = Word(Bytes(Words(mesh)[0 + 1])) /\ InBody(4 * 0)
    <2>1. 0 \in Nat /\ 0 < n
      BY <1>1
    <2>2. QED
      BY <1>0, <2>1, WordOfBody DEF n
  <1>3. /\ WordAt(4 * (1 + 3 * v)) = Word(Bytes(Words(mesh)[1 + 3 * v + 1]))
        /\ InBody(4 * (1 + 3 * v))
    <2>1. 1 + 3 * v \in Nat /\ 1 + 3 * v < n
      BY <1>1
    <2>2. QED
      BY <1>0, <2>1, WordOfBody DEF n
  <1>4. ASSUME NEW j \in 1 .. Len(mesh.tris)
        PROVE  /\ WordAt(4 * (1 + 3 * v + j)) = Word(Bytes(Words(mesh)[1 + 3 * v + j + 1]))
               /\ InBody(4 * (1 + 3 * v + j))
    <2>1. 1 + 3 * v + j \in Nat /\ 1 + 3 * v + j < n
      <3>1. j \in 1 .. 3 * t
        BY <1>1
      <3>2. QED
        BY SMTT(30), <1>1, <3>1
    <2>2. QED
      BY <1>0, <2>1, WordOfBody DEF n
  <1>5. Checked(0) = 4 * (1 + 3 * v) /\ 1 + 3 * v + 1 = 2 + 3 * v
    BY <1>1 DEF Checked
  <1>6. ASSUME NEW j \in 1 .. Len(mesh.tris)
        PROVE  Checked(j) = 4 * (1 + 3 * v + j) /\ 1 + 3 * v + j + 1 = 2 + 3 * v + j
    BY SMTT(30), <1>1 DEF Checked
  <1>7. 4 * 0 = 0 /\ 0 + 1 = 1
    OBVIOUS
  <1>8. WordAt(0) = Word(Bytes(v)) /\ InBody(0)
    BY <1>0, <1>2, <1>7, WordsOfMesh
  <1>9. WordAt(Checked(0)) = Word(Bytes(mesh.triangles)) /\ InBody(Checked(0))
    BY <1>0, <1>3, <1>5, WordsOfMesh
  <1>10. ASSUME NEW j \in 1 .. Len(mesh.tris)
         PROVE  WordAt(Checked(j)) = Word(Bytes(mesh.tris[j])) /\ InBody(Checked(j))
    <2>1. Words(mesh)[2 + 3 * v + j] = mesh.tris[j]
      BY <1>0, WordsOfMesh
    <2>2. QED
      BY <1>4, <1>6, <2>1
  <1>11. QED
    BY <1>8, <1>9, <1>10

\* Where the number of triangles is looked for.
LEMMA WhereTrianglesAre ==
  ASSUME mesh \in Mesh, Arrived, verts_len = Word(Bytes(mesh.verts))
  PROVE  /\ IsRead(mesh.verts) => /\ verts_len = mesh.verts /\ trisLenIndex = Checked(0)
                                 /\ InBody(trisLenIndex)
         /\ ~IsRead(mesh.verts) => ~InBody(trisLenIndex)
  <1>1. /\ mesh.verts \in 0 .. WordSize - 1 /\ 12 * mesh.verts < WordSize
        /\ WordSize \in Nat /\ B3 \in Nat /\ WordSize >= 6 * B3
        /\ Len(body) \in Nat /\ Len(body) <= WordSize - 6 * B3
        /\ Len(body) = 4 * (2 + 3 * mesh.verts + 3 * mesh.triangles) /\ mesh.triangles \in Nat
    <2>1. /\ mesh.verts \in Nat /\ 12 * mesh.verts < WordSize /\ mesh.triangles \in Nat
          /\ Len(body) <= WordSize - 6 * B3
          /\ Len(body) = 4 * (2 + 3 * mesh.verts + 3 * mesh.triangles)
      BY MeshTyped DEF Arrived
    <2>2. WordSize \in Nat /\ B3 \in Nat /\ WordSize >= 6 * B3
      BY Products
    <2>3. QED
      BY <2>1, <2>2
  <1>2. CASE IsRead(mesh.verts)
    <2>1. verts_len = mesh.verts
      BY <1>1, <1>2, ReadAsItIs
    <2>2. 4 + 4 * 3 * mesh.verts \in 0 .. WordSize - 1
      <3> DEFINE v == mesh.verts
                 t == mesh.triangles
      <3>1. /\ v \in Nat /\ t \in Nat /\ WordSize \in Nat /\ B3 \in Nat
            /\ 4 * (2 + 3 * v + 3 * t) <= WordSize - 6 * B3
        BY <1>1
      <3> HIDE DEF v, t
      <3>2. 4 + 4 * 3 * v \in 0 .. WordSize - 1
        BY <3>1
      <3>3. QED
        BY <3>2 DEF v
    <2>3. (4 + 4 * 3 * mesh.verts) % WordSize = 4 + 4 * 3 * mesh.verts
      BY <1>1, <2>2, SmallRemainder
    <2>4. trisLenIndex = Checked(0)
      BY <1>1, <2>1, <2>3 DEF trisLenIndex, Checked
    <2>5. QED
      BY <1>2, <2>1, <2>4, CheckedWords
  <1>3. CASE ~IsRead(mesh.verts)
    <2>1. PICK x \in Nat : verts_len = WordSize - x /\ 0 < x /\ 2 * x <= B3
      BY <1>1, <1>3, Misread
    <2> DEFINE r == WordSize + 4 - 12 * x
    <2>2. r \in 0 .. WordSize - 1 /\ r + 3 > Len(body)
      BY <1>1, <2>1
    <2> DEFINE q == 11
    <2>3. 4 + 4 * 3 * verts_len = WordSize * q + r /\ q \in Int
      BY <1>1, <2>1
    <2> HIDE DEF r, q
    <2>4. (WordSize * q + r) % WordSize = r
      BY <1>1, <2>2, <2>3, Remainder
    <2>5. trisLenIndex = r
      BY <2>3, <2>4 DEF trisLenIndex
    <2>6. QED
      BY <1>1, <1>3, <2>2, <2>5 DEF InBody
  <1>4. QED
    BY <1>2, <1>3

LEMMA Quarters ==
  ASSUME NEW t \in Nat, NEW j \in Nat
  PROVE  /\ 4 * j < t => j <= (t + 3) \div 4 - 1
         /\ ~(4 * j < t) => (t + 3) \div 4 - 1 <= j - 1
         /\ (t + 3) \div 4 - 1 <= 3 * t
  <1> DEFINE q == (t + 3) \div 4
  <1>1. q \in Nat /\ 4 * q <= t + 3 /\ t + 3 < 4 * q + 4
    OBVIOUS
  <1> HIDE DEF q
  <1>2. QED
    BY <1>1 DEF q

\* What the loop has passed so far, and what that says of the mesh.
LEMMA Passed ==
  ASSUME MeshInv, Arrived, reading = "index", NEW j \in Nat, i = Checked(j),
         \A k \in 0 .. j - 1 : WordAt(Checked(k)) < verts_len
  PROVE  /\ MoreIndices <=> 4 * j < tris_len
         /\ j = 0 /\ ~MoreIndices => mesh.triangles = 0
         /\ j = 0 /\ MoreIndices => mesh.triangles # 0
         /\ j > 0 => /\ IsRead(mesh.triangles) /\ mesh.triangles < mesh.verts
                    /\ tris_len = mesh.triangles
         /\ j > 0 /\ MoreIndices => j \in 1 .. Looked(mesh) /\ j \in 1 .. Len(mesh.tris)
         /\ j > 0 /\ ~MoreIndices => Looked(mesh) <= j - 1
         /\ Looked(mesh) <= Len(mesh.tris)
  <1> DEFINE t == mesh.triangles
  <1>1. /\ mesh \in Mesh /\ Consistent(mesh) /\ body = Encode(mesh)
        /\ IsRead(mesh.verts) /\ verts_len = mesh.verts /\ tris_len = Word(Bytes(t))
    BY DEF MeshInv, ArrivedInv, Arrived
  <1>2. /\ mesh.verts \in Nat /\ 12 * mesh.verts < WordSize
        /\ t \in 0 .. WordSize - 1 /\ Len(mesh.tris) = 3 * t /\ t \in Nat
    <2>1. /\ mesh.verts \in Nat /\ 12 * mesh.verts < WordSize /\ t \in Nat
          /\ Len(mesh.tris) = 3 * t /\ 4 * (2 + 3 * mesh.verts + 3 * t) <= WordSize - 6 * B3
      BY <1>1, MeshTyped
    <2>2. WordSize \in Nat /\ B3 \in Nat
      BY Products
    <2> HIDE DEF t
    <2>3. QED
      BY SMTT(30), <2>1, <2>2
  <1>3. /\ tris_len \in 0 .. WordSize - 1
        /\ tris_len < mesh.verts <=> IsRead(t) /\ t < mesh.verts
        /\ tris_len = 0 <=> t = 0
    BY <1>1, <1>2, PassesAsIndex
  <1>4. trisLenIndex = Checked(0)
    <2>1. verts_len = Word(Bytes(mesh.verts))
      BY <1>1, <1>2, Products, ReadAsItIs
    <2>2. QED
      BY <1>1, <2>1, WhereTrianglesAre
  <1>5. MoreIndices <=> 4 * j < tris_len
    <2>1. tris_len \in Nat
      BY <1>3, Products
    <2>2. MoreIndices <=> Checked(j) < Checked(0) + tris_len
      BY <1>4 DEF MoreIndices
    <2>3. QED
      BY <1>2, <2>1, <2>2 DEF Checked
  <1>6. j > 0 => IsRead(t) /\ t < mesh.verts /\ tris_len = t
    <2> SUFFICES ASSUME j > 0 PROVE IsRead(t) /\ t < mesh.verts /\ tris_len = t
      OBVIOUS
    <2>1. WordAt(Checked(0)) < verts_len
      OBVIOUS
    <2>2. WordAt(Checked(0)) = tris_len
      BY <1>1, CheckedWords
    <2>3. IsRead(t) /\ t < mesh.verts
      BY <1>1, <1>3, <2>1, <2>2
    <2>4. QED
      BY <1>1, <1>2, <2>3, ReadAsItIs
  <1> HIDE DEF t
  <1>7. /\ 4 * j < t => j <= (t + 3) \div 4 - 1
        /\ ~(4 * j < t) => (t + 3) \div 4 - 1 <= j - 1
        /\ (t + 3) \div 4 - 1 <= 3 * t
    BY <1>2, Quarters
  <1>8. Looked(mesh) = (t + 3) \div 4 - 1
    BY DEF Looked, t
  <1>9. j = 0 => (MoreIndices <=> t # 0)
    BY <1>2, <1>3, <1>5, Products
  <1>10. j > 0 /\ MoreIndices => j \in 1 .. Looked(mesh) /\ j \in 1 .. Len(mesh.tris)
    BY <1>2, <1>5, <1>6, <1>7, <1>8
  <1>11. j > 0 /\ ~MoreIndices => Looked(mesh) <= j - 1
    BY <1>2, <1>5, <1>6, <1>7, <1>8
  <1>12. QED
    BY <1>2, <1>5, <1>6, <1>7, <1>8, <1>9, <1>10, <1>11 DEF t

\* While there are words to look at they are in the body, and one that does not pass
\* is not what it should be.
LEMMA NextChecked ==
  ASSUME MeshInv, Arrived, reading = "index", NEW j \in Nat, i = Checked(j),
         \A k \in 0 .. j - 1 : WordAt(Checked(k)) < verts_len,
         MoreIndices
  PROVE  InBody(i) /\ WordAt(i) \in Nat /\ (LooksRight(mesh) => WordAt(i) < verts_len)
  <1>1. /\ mesh \in Mesh /\ Consistent(mesh) /\ verts_len = mesh.verts
        /\ mesh.verts \in Nat /\ 12 * mesh.verts < WordSize
        /\ mesh.triangles \in 0 .. WordSize - 1 /\ mesh.tris \in Seq(0 .. WordSize - 1)
    BY MeshTyped, WordsOfMesh DEF MeshInv, ArrivedInv, Arrived
  <1>2. CASE j = 0
    <2>1. WordAt(i) = Word(Bytes(mesh.triangles)) /\ InBody(i)
      BY <1>1, <1>2, CheckedWords
    <2>2. mesh.triangles # 0
      BY <1>2, Passed
    <2>3. LooksRight(mesh) => IsRead(mesh.triangles) /\ mesh.triangles < mesh.verts
      BY <2>2 DEF LooksRight
    <2> DEFINE n == mesh.triangles
    <2>4. /\ n \in 0 .. WordSize - 1 /\ WordAt(i) = Word(Bytes(n)) /\ InBody(i)
          /\ LooksRight(mesh) => IsRead(n) /\ n < mesh.verts
      BY <1>1, <2>1, <2>3
    <2> HIDE DEF n
    <2>5. QED
      BY <1>1, <2>4, PassesAsIndex, Products
  <1>3. CASE j > 0
    <2>1. j \in 1 .. Looked(mesh) /\ j \in 1 .. Len(mesh.tris)
      BY <1>3, Passed
    <2>2. WordAt(i) = Word(Bytes(mesh.tris[j])) /\ InBody(i)
      BY <1>1, <2>1, CheckedWords
    <2>3. mesh.triangles # 0
      <3>1. 4 * j < tris_len /\ tris_len = mesh.triangles
        BY <1>3, Passed
      <3>2. QED
        BY <1>3, <3>1
    <2>4. LooksRight(mesh) => IsRead(mesh.tris[j]) /\ mesh.tris[j] < mesh.verts
      BY <2>1, <2>3 DEF LooksRight
    <2>5. mesh.tris[j] \in 0 .. WordSize - 1
      BY <1>1, <2>1, IndexTyped
    <2> DEFINE n == mesh.tris[j]
    <2>6. /\ n \in 0 .. WordSize - 1 /\ WordAt(i) = Word(Bytes(n)) /\ InBody(i)
          /\ LooksRight(mesh) => IsRead(n) /\ n < mesh.verts
      BY <2>2, <2>4, <2>5
    <2> HIDE DEF n
    <2>7. QED
      BY <1>1, <2>6, PassesAsIndex, Products
  <1>4. QED
    BY <1>2, <1>3

\* When there is no word left all that are looked at have passed.
LEMMA AllChecked ==
  ASSUME MeshInv, Arrived, reading = "index", NEW j \in Nat, i = Checked(j),
         \A k \in 0 .. j - 1 : WordAt(Checked(k)) < verts_len,
         ~MoreIndices
  PROVE  LooksRight(mesh)
  <1>1. /\ mesh \in Mesh /\ Consistent(mesh) /\ verts_len = mesh.verts
        /\ mesh.verts \in Nat /\ 12 * mesh.verts < WordSize
        /\ mesh.triangles \in Nat /\ mesh.tris \in Seq(0 .. WordSize - 1)
    BY MeshTyped DEF MeshInv, ArrivedInv, Arrived
  <1>2. CASE j = 0
    BY <1>2, Passed DEF LooksRight
  <1>3. CASE j > 0
    <2>1. /\ IsRead(mesh.triangles) /\ mesh.triangles < mesh.verts
          /\ Looked(mesh) <= j - 1 /\ Looked(mesh) <= Len(mesh.tris)
      BY <1>3, Passed
    <2>2. ASSUME NEW k \in 1 .. Looked(mesh)
          PROVE  IsRead(mesh.tris[k]) /\ mesh.tris[k] < mesh.verts
      <3>1. Looked(mesh) \in Int
        BY <1>1 DEF Looked
      <3>2. k \in 0 .. j - 1 /\ k \in 1 .. Len(mesh.tris)
        BY <1>1, <2>1, <3>1
      <3>3. WordAt(Checked(k)) = Word(Bytes(mesh.tris[k])) /\ WordAt(Checked(k)) < verts_len
        BY <1>1, <3>2, CheckedWords
      <3>4. mesh.tris[k] \in 0 .. WordSize - 1
        BY <1>1, <3>2, IndexTyped
      <3> DEFINE n == mesh.tris[k]
      <3>5. n \in 0 .. WordSize - 1 /\ Word(Bytes(n)) < mesh.verts
        BY <1>1, <3>3, <3>4
      <3> HIDE DEF n
      <3>6. IsRead(n) /\ n < mesh.verts
        BY <1>1, <3>5, PassesAsIndex
      <3>7. QED
        BY <3>6 DEF n
    <2>3. QED
      BY <2>1, <2>2 DEF LooksRight
  <1>4. QED
    BY <1>2, <1>3

\* What is known of a mesh that arrived as it should is kept by validate_mesh.
LEMMA ArrivedInvStep ==
  ASSUME MeshInv, Arrived,
         ReadVertsLen \/ ReadTrisLen \/ CheckIndex \/ Pass \/ ReadOutside
  PROVE  MeshInv'
  <1>1. CASE ReadVertsLen
    <2>1. mesh \in Mesh
      BY <1>1 DEF ReadVertsLen, MeshInv
    <2>2. /\ verts_len' = Word(Bytes(mesh.verts)) /\ i' = trisLenIndex'
          /\ reading' = "tris_len" /\ mesh' = mesh /\ body' = body
      BY <1>1, <2>1, CheckedWords DEF ReadVertsLen
    <2>3. QED
      BY <2>1, <2>2 DEF MeshInv, ArrivedInv
  <1>2. CASE ReadTrisLen
    <2>1. /\ mesh \in Mesh /\ body = Encode(mesh) /\ verts_len = Word(Bytes(mesh.verts))
          /\ i = trisLenIndex /\ InBody(i) /\ tris_len' = WordAt(i) /\ reading' = "index"
          /\ UNCHANGED <<mesh, body, verts_len, i>>
      BY <1>2 DEF ReadTrisLen, MeshInv, ArrivedInv, Arrived
    <2>2. IsRead(mesh.verts) /\ verts_len = mesh.verts /\ i = Checked(0)
      BY <2>1, WhereTrianglesAre
    <2>3. tris_len' = Word(Bytes(mesh.triangles))
      BY <2>1, <2>2, CheckedWords
    <2>4. Len(body) \in Nat
      BY <2>1, MeshTyped DEF Arrived
    <2>5. \E j \in 0 .. Len(body') :
            /\ i' = Checked(j)'
            /\ \A k \in 0 .. j - 1 : WordAt(Checked(k))' < verts_len'
      <3>1. i' = Checked(0)' /\ 0 \in 0 .. Len(body')
        BY <2>1, <2>2, <2>4 DEF Checked
      <3>2. QED
        BY <3>1
    <2>6. QED
      BY <2>1, <2>2, <2>3, <2>5 DEF MeshInv, ArrivedInv
  <1>3. CASE CheckIndex
    <2>1. /\ reading = "index" /\ MoreIndices /\ InBody(i)
          /\ UNCHANGED <<mesh, body, verts_len, tris_len>>
      BY <1>3 DEF CheckIndex
    <2>2. PICK j \in 0 .. Len(body) :
            /\ i = Checked(j)
            /\ \A k \in 0 .. j - 1 : WordAt(Checked(k)) < verts_len
      BY <2>1 DEF MeshInv, ArrivedInv
    <2>3. mesh \in Mesh /\ mesh.verts \in Nat /\ Len(body) \in Nat /\ j \in Nat
      BY <2>1, MeshTyped DEF MeshInv, ArrivedInv, Arrived
    <2>4. WordAt(i) \in Nat /\ verts_len \in Nat
      BY <2>1, <2>2, <2>3, NextChecked DEF MeshInv, ArrivedInv
    <2>5. CASE WordAt(i) >= verts_len
      <3>1. reading' = "refused"
        BY <1>3, <2>5 DEF CheckIndex
      <3>2. ~(WordAt(i) < verts_len)
        BY <2>4, <2>5
      <3>3. ~LooksRight(mesh)
        BY <2>1, <2>2, <2>3, <3>2, NextChecked
      <3>4. QED
        BY <2>1, <3>1, <3>3 DEF MeshInv, ArrivedInv
    <2>6. CASE ~(WordAt(i) >= verts_len)
      <3>1. reading' = "index" /\ i' = i + 4
        BY <1>3, <2>1, <2>6 DEF CheckIndex
      <3>2. i' = Checked(j + 1)' /\ j + 1 \in 0 .. Len(body')
        <4>1. Checked(j + 1)' = Checked(j) + 4
          BY <2>1, <2>3 DEF Checked
        <4>2. 4 + 12 * mesh.verts + 4 * j + 3 <= Len(body)
          BY <2>1, <2>2 DEF Checked, InBody
        <4>3. j + 1 <= Len(body)
          BY <2>3, <4>2
        <4>4. QED
          BY <2>1, <2>2, <2>3, <3>1, <4>1, <4>3
      <3>3. ASSUME NEW k \in 0 .. j PROVE WordAt(Checked(k))' < verts_len'
        <4>1. /\ WordAt(Checked(k))' = WordAt(Checked(k)) /\ verts_len' = verts_len
              /\ k \in 0 .. j - 1 \/ k = j
          BY <2>1, <2>3 DEF WordAt, Byte, Checked
        <4>2. WordAt(i) < verts_len
          BY <2>4, <2>6
        <4>3. QED
          BY <2>2, <4>1, <4>2
      <3>4. QED
        BY <2>1, <3>1, <3>2, <3>3 DEF MeshInv, ArrivedInv
    <2>7. QED
      BY <2>5, <2>6
  <1>4. CASE Pass
    <2>1. /\ reading = "index" /\ ~MoreIndices /\ reading' = "accepted"
          /\ UNCHANGED <<mesh, body>>
      BY <1>4 DEF Pass
    <2>2. PICK j \in 0 .. Len(body) :
            /\ i = Checked(j)
            /\ \A k \in 0 .. j - 1 : WordAt(Checked(k)) < verts_len
      BY <2>1 DEF MeshInv, ArrivedInv
    <2>3. LooksRight(mesh)
      <3>1. j \in Nat
        BY <2>1, MeshTyped DEF MeshInv, ArrivedInv, Arrived
      <3>2. QED
        BY <2>1, <2>2, <3>1, AllChecked
    <2>4. QED
      BY <2>1, <2>3 DEF MeshInv, ArrivedInv
  <1>5. CASE ReadOutside
    <2>1. ~IsRead(mesh.verts)
      <3>1. CASE reading = "tris_len"
        BY <1>5, <3>1, WhereTrianglesAre DEF ReadOutside, MeshInv, ArrivedInv
      <3>2. CASE reading = "index" /\ MoreIndices
        <4>1. PICK j \in 0 .. Len(body) :
                /\ i = Checked(j)
                /\ \A k \in 0 .. j - 1 : WordAt(Checked(k)) < verts_len
          BY <3>2 DEF MeshInv, ArrivedInv
        <4>2. j \in Nat
          BY <3>2, MeshTyped DEF MeshInv, ArrivedInv, Arrived
        <4>3. InBody(i)
          BY <3>2, <4>1, <4>2, NextChecked
        <4>4. QED
          BY <1>5, <3>2, <4>3 DEF ReadOutside
      <3>3. CASE reading = "verts_len" /\ ~InBody(0)
        BY <3>3, CheckedWords DEF MeshInv
      <3>4. QED
        BY <1>5, <3>1, <3>2, <3>3 DEF ReadOutside
    <2>2. QED
      BY <1>5, <2>1 DEF ReadOutside, MeshInv, ArrivedInv
  <1>6. QED
    BY <1>1, <1>2, <1>3, <1>4, <1>5

\* And so by every step.
LEMMA MeshInvStep == MeshInv /\ [MeshNext]_meshVars => MeshInv'
  <1> SUFFICES ASSUME MeshInv, [MeshNext]_meshVars PROVE MeshInv'
    OBVIOUS
  <1>1. ASSUME NEW m \in Mesh, NEW lost \in Lost, Receive(m, lost) PROVE MeshInv'
    BY <1>1 DEF Receive, MeshInv, ArrivedInv
  <1>2. CASE MeshDone
    BY <1>2 DEF MeshDone, MeshInv
  <1> DEFINE Reads == ReadVertsLen \/ ReadTrisLen \/ CheckIndex \/ Pass \/ ReadOutside
  <1>3. CASE Reads /\ ~Arrived
    <2>1. mesh' = mesh /\ body' = body /\ mesh \in Mesh
      BY <1>3 DEF ReadVertsLen, ReadTrisLen, CheckIndex, Pass, ReadOutside, MeshInv
    <2>2. ~Arrived'
      BY <1>3, <2>1 DEF Arrived
    <2>3. reading' \in {"verts_len", "tris_len", "index", "accepted", "refused", "crashed", "idle"}
      BY <1>3 DEF ReadVertsLen, ReadTrisLen, CheckIndex, Pass, ReadOutside, MeshInv
    <2>4. QED
      BY <2>1, <2>2, <2>3 DEF MeshInv
  <1>4. CASE Reads /\ Arrived
    BY <1>4, ArrivedInvStep
  <1>5. CASE UNCHANGED meshVars
    BY <1>5 DEF meshVars, MeshInv, ArrivedInv, Arrived, Checked, WordAt, Byte, trisLenIndex
  <1>6. QED
    BY <1>1, <1>2, <1>3, <1>4, <1>5 DEF MeshNext

\* Read off the mesh and not its bytes, the verdict validate_mesh gives on one that
\* arrived whole: it is accepted if it has no triangles, or fewer than vertices and the
\* indices that are looked at are in range and read as they are, and otherwise refused.
LEMMA ExactVerdict ==
  ASSUME MeshInv, Whole, reading # "idle"
  PROVE  /\ reading # "crashed"
         /\ reading = "accepted" => LooksRight(mesh)
         /\ reading = "refused" => ~LooksRight(mesh)
  BY DEF MeshInv, ArrivedInv, Whole

\* No read of validate_mesh leaves the body of a mesh that arrived whole, and of the
\* indices it looks at none is out of range when it accepts, for every width of a byte
\* and every mesh within the limit of a body.
THEOREM Verdict == MeshSpec => []WholeReadInside
  <1>1. MeshInit => MeshInv
    BY DEF MeshInit, MeshInv
  <1>2. MeshInv => WholeReadInside
    <2> SUFFICES ASSUME MeshInv, Whole PROVE WholeReadInside
      BY DEF WholeReadInside
    <2>1. Arrived /\ IsRead(mesh.verts)
      BY DEF Whole
    <2>2. reading = "tris_len" => InBody(i)
      BY <2>1, WhereTrianglesAre DEF MeshInv, ArrivedInv
    <2>3. ASSUME reading = "index", MoreIndices PROVE InBody(i)
      <3>1. PICK j \in 0 .. Len(body) :
              /\ i = Checked(j)
              /\ \A k \in 0 .. j - 1 : WordAt(Checked(k)) < verts_len
        BY <2>1, <2>3 DEF MeshInv, ArrivedInv
      <3>2. j \in Nat
        BY <2>1, <2>3, MeshTyped DEF MeshInv, Arrived
      <3>3. QED
        BY <2>1, <2>3, <3>1, <3>2, NextChecked
    <2>4. reading # "crashed"
      BY <2>1, ExactVerdict DEF Whole
    <2>5. ASSUME reading = "accepted" PROVE \A k \in 1 .. Looked(mesh) : InRange(mesh.tris[k])
      <3>1. LooksRight(mesh)
        BY <2>5, ExactVerdict
      <3>2. mesh.triangles = 0 => Looked(mesh) < 1
        BY DEF Looked
      <3>3. mesh.triangles \in Nat
        BY <2>1, <2>5, MeshTyped DEF MeshInv, Arrived
      <3>4. QED
        BY <3>1, <3>2, <3>3 DEF LooksRight, InRange, Looked
    <2>6. QED
      BY <2>2, <2>3, <2>4, <2>5 DEF WholeReadInside
  <1>3. QED
    BY <1>1, <1>2, MeshInvStep, PTL DEF MeshSpec

-----------------------------------------------------------------------------
(* The bitwise and. *)

LEMMA StrongInduction ==
  ASSUME NEW T, \A n \in Nat : (\A k \in 0 .. n - 1 : k \in T) => n \in T
  PROVE  Nat \subseteq T
  <1> DEFINE F == Nat \ T
  <1> SUFFICES ASSUME F # {} PROVE FALSE
    OBVIOUS
  <1>1. PICK n \in F : \A k \in F : ~(<<k, n>> \in OpToRel(<, Nat))
    <2>1. F \subseteq Nat
      OBVIOUS
    <2> HIDE DEF F
    <2>2. QED
      BY <2>1, WFMin, NatLessThanWellFounded
  <1>2. \A k \in F : ~(k < n)
    BY <1>1 DEF OpToRel
  <1>3. QED
    BY <1>2

\* One step of the definition of And.
HalfStep(y, g) ==
  [x \in Nat |-> IF y = 0 THEN 0 ELSE (x % 2) * (y % 2) + 2 * g[y \div 2][x \div 2]]

\* g is And as far as n.
Computes(n, g) ==
  /\ g \in [0 .. n -> [Nat -> Nat]]
  /\ \A y \in 0 .. n : g[y] = HalfStep(y, g)

LEMMA Half ==
  ASSUME NEW y \in Nat, y # 0
  PROVE  y \div 2 \in 0 .. y - 1
  OBVIOUS

LEMMA HalfStepSame ==
  ASSUME NEW y \in Nat, NEW g, NEW h, y = 0 \/ g[y \div 2] = h[y \div 2]
  PROVE  HalfStep(y, g) = HalfStep(y, h)
  BY DEF HalfStep

LEMMA HalfStepTyped ==
  ASSUME NEW y \in Nat, NEW g, y = 0 \/ g[y \div 2] \in [Nat -> Nat]
  PROVE  HalfStep(y, g) \in [Nat -> Nat]
  <1> SUFFICES ASSUME NEW x \in Nat
               PROVE  (IF y = 0 THEN 0 ELSE (x % 2) * (y % 2) + 2 * g[y \div 2][x \div 2]) \in Nat
    BY DEF HalfStep
  <1>1. x \div 2 \in Nat /\ x % 2 \in Nat /\ y % 2 \in Nat
    OBVIOUS
  <1>2. y # 0 => g[y \div 2][x \div 2] \in Nat
    BY <1>1
  <1>3. (x % 2) * (y % 2) \in Nat
    BY <1>1
  <1>4. QED
    BY <1>2, <1>3

LEMMA ComputesAt ==
  ASSUME NEW n \in Nat, NEW g, Computes(n, g), NEW y \in Nat, y <= n
  PROVE  g[y] = HalfStep(y, g)
  BY DEF Computes

LEMMA ComputesOne ==
  ASSUME NEW n \in Nat, NEW m \in Nat, NEW g, NEW h, Computes(n, g), Computes(m, h),
         NEW y \in Nat, y <= n, y <= m
  PROVE  g[y] = h[y]
  <1> DEFINE T == {z \in Nat : z <= n /\ z <= m => g[z] = h[z]}
  <1>1. ASSUME NEW z \in Nat, \A k \in 0 .. z - 1 : k \in T
        PROVE  z \in T
    <2> SUFFICES ASSUME z <= n, z <= m PROVE g[z] = h[z]
      OBVIOUS
    <2>1. z = 0 \/ g[z \div 2] = h[z \div 2]
      <3> DEFINE w == z \div 2
      <3> SUFFICES ASSUME z # 0 PROVE g[w] = h[w]
        OBVIOUS
      <3>1. w \in 0 .. z - 1
        BY Half
      <3> HIDE DEF w
      <3>2. w \in T /\ w \in Nat /\ w <= n /\ w <= m
        BY <1>1, <3>1
      <3>3. QED
        BY <3>2
    <2>2. g[z] = HalfStep(z, g) /\ h[z] = HalfStep(z, h)
      BY ComputesAt
    <2>3. QED
      BY <2>1, <2>2, HalfStepSame
  <1> HIDE DEF T
  <1>2. Nat \subseteq T
    BY <1>1, StrongInduction
  <1>3. QED
    BY <1>2 DEF T

LEMMA ComputesSome == \A n \in Nat : \E g : Computes(n, g)
  <1> DEFINE T == {n \in Nat : \E g : Computes(n, g)}
  <1>1. ASSUME NEW n \in Nat, \A k \in 0 .. n - 1 : k \in T
        PROVE  n \in T
    <2>1. PICK h : n # 0 => Computes(n - 1, h)
      <3>1. CASE n = 0
        BY <3>1
      <3>2. CASE n # 0
        <4>1. n - 1 \in T
          BY <1>1, <3>2
        <4>2. \E h : Computes(n - 1, h)
          BY <4>1
        <4>3. QED
          BY <4>2
      <3>3. QED
        BY <3>1, <3>2
    <2> DEFINE g == [y \in 0 .. n |-> IF y = n THEN HalfStep(n, h) ELSE h[y]]
    <2>2. ASSUME NEW y \in 0 .. n, y # n
          PROVE  g[y] = h[y] /\ h[y] = HalfStep(y, h) /\ h[y] \in [Nat -> Nat]
      <3>1. y \in Nat /\ n - 1 \in Nat /\ y <= n - 1 /\ Computes(n - 1, h)
        BY <2>1, <2>2
      <3>2. h[y] = HalfStep(y, h)
        BY <3>1, ComputesAt
      <3>3. h[y] \in [Nat -> Nat]
        <4> DEFINE V == [Nat -> Nat]
        <4>1. h \in [0 .. n - 1 -> V]
          BY <3>1 DEF Computes
        <4> HIDE DEF V
        <4>2. h[y] \in V
          BY <3>1, <4>1
        <4>3. QED
          BY <4>2 DEF V
      <3>4. QED
        BY <2>2, <3>2, <3>3
    <2>3. HalfStep(n, h) \in [Nat -> Nat]
      BY SMTT(30), <2>2, Half, HalfStepTyped
    <2>4. ASSUME NEW y \in 0 .. n
          PROVE  HalfStep(y, g) = HalfStep(y, h)
      <3>1. y = 0 \/ g[y \div 2] = h[y \div 2]
        <4>1. y # 0 => y \div 2 \in 0 .. n /\ y \div 2 # n
          BY Half
        <4>2. QED
          BY <2>2, <4>1
      <3> HIDE DEF g
      <3>2. QED
        BY <3>1, HalfStepSame
    <2>5. g \in [0 .. n -> [Nat -> Nat]]
      BY <2>2, <2>3
    <2>6. \A y \in 0 .. n : g[y] = HalfStep(y, g)
      BY <2>2, <2>4
    <2> HIDE DEF g
    <2>7. Computes(n, g)
      BY <2>5, <2>6 DEF Computes
    <2>8. QED
      BY <2>7
  <1> HIDE DEF T
  <1>2. Nat \subseteq T
    BY <1>1, StrongInduction
  <1>3. QED
    BY <1>2 DEF T

\* And satisfies its definition.
LEMMA AndStep == /\ And = [y \in Nat |-> HalfStep(y, And)]
                 /\ \A y \in Nat : And[y] = HalfStep(y, And)
  <1> DEFINE G(n) == CHOOSE g : Computes(n, g)
             A == [y \in Nat |-> G(y)[y]]
  <1>1. \A n \in Nat : Computes(n, G(n))
    BY ComputesSome
  <1> HIDE DEF G
  <1>2. ASSUME NEW y \in Nat PROVE A[y] = HalfStep(y, A)
    <2>1. G(y)[y] = HalfStep(y, G(y))
      BY <1>1 DEF Computes
    <2>2. y = 0 \/ G(y)[y \div 2] = A[y \div 2]
      <3> SUFFICES ASSUME y # 0 PROVE G(y)[y \div 2] = G(y \div 2)[y \div 2]
        BY Half
      <3>1. y \div 2 \in Nat /\ y \div 2 <= y
        BY Half
      <3>2. Computes(y, G(y)) /\ Computes(y \div 2, G(y \div 2))
        BY <1>1, <3>1
      <3>3. QED
        BY <3>1, <3>2, ComputesOne
    <2> HIDE DEF A
    <2>3. HalfStep(y, G(y)) = HalfStep(y, A)
      BY <2>2, HalfStepSame
    <2>4. QED
      BY <2>1, <2>3 DEF A
  <1>3. A = [y \in Nat |-> HalfStep(y, A)]
    BY <1>2
  <1> HIDE DEF A
  <1>4. And = CHOOSE f : f = [y \in Nat |-> HalfStep(y, f)]
    BY DEF And, HalfStep
  <1>5. And = [y \in Nat |-> HalfStep(y, And)]
    BY <1>3, <1>4
  <1>6. QED
    BY <1>5

\* x & y is a number that is not above y.
LEMMA AndBound == \A y, x \in Nat : And[y][x] \in 0 .. y
  <1> DEFINE T == {y \in Nat : \A x \in Nat : And[y][x] \in 0 .. y}
  <1>1. ASSUME NEW y \in Nat, \A k \in 0 .. y - 1 : k \in T
        PROVE  y \in T
    <2> SUFFICES ASSUME NEW x \in Nat PROVE And[y][x] \in 0 .. y
      OBVIOUS
    <2>1. And[y][x] = IF y = 0 THEN 0 ELSE (x % 2) * (y % 2) + 2 * And[y \div 2][x \div 2]
      BY AndStep DEF HalfStep
    <2>2. CASE y = 0
      BY <2>1, <2>2
    <2>3. CASE y # 0
      <3>1. x \div 2 \in Nat /\ y \div 2 \in 0 .. y - 1
        BY <2>3, Half
      <3>2. And[y \div 2][x \div 2] \in 0 .. y \div 2
        BY <1>1, <3>1
      <3>3. x % 2 \in {0, 1} /\ y % 2 \in {0, 1} /\ y = 2 * (y \div 2) + (y % 2)
        OBVIOUS
      <3>4. (x % 2) * (y % 2) \in 0 .. y % 2
        BY <3>3
      <3>5. QED
        BY <2>1, <2>3, <3>1, <3>2, <3>3, <3>4
    <2>4. QED
      BY <2>2, <2>3
  <1> HIDE DEF T
  <1>2. Nat \subseteq T
    BY <1>1, StrongInduction
  <1>3. QED
    BY <1>2 DEF T

LEMMA Remains ==
  ASSUME NEW n \in Nat, NEW b \in Nat, b > 0
  PROVE  n % b \in 0 .. b - 1 /\ n % b <= n
  OBVIOUS

-----------------------------------------------------------------------------
(* What becomes of a document. *)

\* A document that reaches the tracer is one the server has accepted.
SceneInv ==
  /\ verdict \in {"idle", "refused", "aborted", "accepted", "read", "failed"}
  /\ verdict \in {"accepted", "read", "failed"} =>
       scene \in Scene /\ "accepted" \in Verdicts(scene)
  /\ verdict = "failed" => ~Readable(scene)
  /\ verdict = "read" =>
       /\ Readable(scene)
       /\ parsed.pixels_to_skip =
            [k \in DOMAIN scene.pixels_to_skip |->
               [c \in 1 .. 2 |-> AsUnsigned(scene.pixels_to_skip[k][c], Size16)]]
       /\ parsed.mats_length = AsUnsigned(Len(scene.mats), Size8)
       /\ parsed.request_size = RequestSize(scene)

LEMMA SceneInvStep == SceneInv /\ [SceneNext]_sceneVars => SceneInv'
  <1> SUFFICES ASSUME SceneInv, [SceneNext]_sceneVars PROVE SceneInv'
    OBVIOUS
  <1>1. ASSUME NEW d \in Scene, submit_render(d) PROVE SceneInv'
    <2>1. scene' = d /\ verdict' \in Verdicts(d)
      BY <1>1 DEF submit_render
    <2>2. Verdicts(d) \subseteq {"aborted", "accepted", "refused"}
      BY DEF Verdicts
    <2>3. QED
      BY <2>1, <2>2 DEF SceneInv
  <1>2. CASE parse_request
    <2>1. verdict = "accepted" /\ scene' = scene /\ scene \in Scene
          /\ "accepted" \in Verdicts(scene)
      BY <1>2 DEF parse_request, SceneInv
    <2>2. CASE Readable(scene)
      BY <1>2, <2>1, <2>2 DEF parse_request, SceneInv
    <2>3. CASE ~Readable(scene)
      BY <1>2, <2>1, <2>3 DEF parse_request, SceneInv
    <2>4. QED
      BY <2>2, <2>3
  <1>3. CASE SceneDone
    BY <1>3 DEF SceneDone, SceneInv
  <1>4. CASE UNCHANGED sceneVars
    BY <1>4 DEF sceneVars, SceneInv
  <1>5. QED
    BY <1>1, <1>2, <1>3, <1>4 DEF SceneNext

LEMMA AlwaysSceneInv == SceneSpec => []SceneInv
  <1>1. SceneInit => SceneInv
    BY DEF SceneInit, SceneInv
  <1>2. QED
    BY <1>1, SceneInvStep, PTL DEF SceneSpec

\* What is known of an accepted document.
LEMMA Accepted ==
  ASSUME NEW d \in Scene, "accepted" \in Verdicts(d)
  PROVE  /\ enforce_valid_pixels_to_skip(d) /\ enforce_valid_camera(d)
         /\ enforce_valid_materials(d) /\ enforce_valid_objects(d)
  BY DEF Verdicts

\* Where the two agree on what a key holds no accepted document ends the tracer.
THEOREM FailsForGaps == SceneSpec => []AgreedKeysRead
  <1>1. SceneInv => AgreedKeysRead
    <2> SUFFICES ASSUME SceneInv, verdict = "failed", "pixels_to_skip" \in scene.keys,
                        ListsThere(scene), RgbThere(scene)
                 PROVE  FALSE
      BY DEF AgreedKeysRead
    <2>1. scene \in Scene /\ "accepted" \in Verdicts(scene) /\ ~Readable(scene)
      BY DEF SceneInv
    <2>2. "camera" \in scene.keys /\ "mats" \in scene.keys
      BY <2>1, Accepted DEF enforce_valid_camera, enforce_valid_materials, Good
    <2>3. ASSUME NEW k \in DOMAIN scene.mats
          PROVE  scene.mats[k] = "ok"
      <3>1. scene.mats[k] # "malformed" /\ scene.mats[k] # "rgb"
        BY <2>1, Accepted DEF enforce_valid_materials, RgbThere
      <3>2. scene.mats \in Seq({"ok", "malformed", "rgb"})
        BY <2>1, SceneAssumption
      <3>3. QED
        BY <3>1, <3>2
    <2>4. QED
      BY <2>1, <2>2, <2>3 DEF Readable, ListsThere
  <1>2. QED
    BY <1>1, AlwaysSceneInv, PTL

\* What the server accepts, the tracer reads as the client meant it.
THEOREM IsMeant == SceneSpec => []AcceptedIsMeant
  <1>1. SceneInv => AcceptedIsMeant
    <2> SUFFICES ASSUME SceneInv, verdict = "read" PROVE AcceptedIsMeant
      BY DEF AcceptedIsMeant
    <2> DEFINE skip == scene.pixels_to_skip
               n == Len(scene.mats)
    <2>1. scene \in Scene /\ "accepted" \in Verdicts(scene) /\ Readable(scene)
      BY DEF SceneInv
    <2>2. /\ skip \in Seq(Seq(Nat)) /\ n \in Nat
          /\ scene.width \in Nat /\ scene.height \in Nat /\ scene.samples \in Nat
      BY <2>1, SceneAssumption
    <2>3. ASSUME NEW k \in DOMAIN skip
          PROVE  /\ skip[k] \in Seq(Nat) /\ Len(skip[k]) = 2
                 /\ skip[k][1] \in Nat /\ skip[k][1] < AsUnsigned(scene.width, Size16)
                 /\ skip[k][2] \in Nat /\ skip[k][2] < AsUnsigned(scene.height, Size16)
      <3>1. skip[k] \in Seq(Nat)
        BY <2>2
      <3>2. "pixels_to_skip" \in scene.keys
        BY <2>1 DEF Readable
      <3>3. QED
        BY <2>1, <3>1, <3>2, Accepted DEF enforce_valid_pixels_to_skip
    <2>4. ASSUME NEW v \in Nat, NEW p \in Nat, p < AsUnsigned(v, Size16)
          PROVE  p < v /\ AsUnsigned(p, Size16) = p
      <3>1. Size16 \in Nat /\ Size16 > 0
        BY SceneAssumption
      <3>2. v % Size16 \in 0 .. Size16 - 1 /\ v % Size16 <= v
        BY <3>1, Remains
      <3>3. p \in 0 .. Size16 - 1
        BY <2>4, <3>1, <3>2 DEF AsUnsigned
      <3>4. QED
        BY <2>4, <3>1, <3>2, <3>3, SmallRemainder DEF AsUnsigned
    <2>5. parsed.pixels_to_skip = skip
      <3>1. ASSUME NEW k \in DOMAIN skip
            PROVE  [c \in 1 .. 2 |-> AsUnsigned(skip[k][c], Size16)] = skip[k]
        <4>1. AsUnsigned(skip[k][1], Size16) = skip[k][1] /\ AsUnsigned(skip[k][2], Size16) = skip[k][2]
          BY <2>2, <2>3, <2>4
        <4> DEFINE pixel == skip[k]
        <4>2. pixel \in Seq(Nat) /\ Len(pixel) = 2
          BY <2>3
        <4> HIDE DEF pixel
        <4>3. [c \in 1 .. 2 |-> pixel[c]] = pixel
          BY <4>2
        <4>4. [c \in 1 .. 2 |-> AsUnsigned(pixel[c], Size16)] = [c \in 1 .. 2 |-> pixel[c]]
          BY <4>1 DEF pixel
        <4>5. QED
          BY <4>3, <4>4 DEF pixel
      <3>2. parsed.pixels_to_skip =
              [k \in DOMAIN skip |-> [c \in 1 .. 2 |-> AsUnsigned(skip[k][c], Size16)]]
        BY DEF SceneInv
      <3>3. [k \in DOMAIN skip |-> skip[k]] = skip
        BY <2>2
      <3> HIDE DEF skip
      <3>4. QED
        BY <3>1, <3>2, <3>3
    <2>6. ASSUME NEW k \in DOMAIN skip
          PROVE  skip[k][1] < scene.width /\ skip[k][2] < scene.height
      BY <2>2, <2>3, <2>4
    <2>7. n < Size8 => \A k \in DOMAIN scene.objects :
                         AsUnsigned(scene.objects[k].mat_index, Size8) < parsed.mats_length
      <3>1. Size8 \in Nat /\ Size8 > 0
        BY SceneAssumption
      <3> SUFFICES ASSUME n < Size8
                   PROVE  \A k \in DOMAIN scene.objects :
                            AsUnsigned(scene.objects[k].mat_index, Size8) < parsed.mats_length
        OBVIOUS
      <3>2. parsed.mats_length = n % Size8
        BY DEF SceneInv, AsUnsigned
      <3> HIDE DEF n
      <3>3. n \in 0 .. Size8 - 1
        BY <2>2, <3>1
      <3>4. parsed.mats_length = n
        BY <3>1, <3>2, <3>3, SmallRemainder
      <3>5. QED
        BY <2>1, <3>4, Accepted DEF enforce_valid_objects, n
    <2>8. parsed.request_size <= scene.samples
      <3> DEFINE pixels == (scene.width * scene.height) % Size64
      <3>1. Size64 \in Nat /\ Size64 > 0 /\ scene.width * scene.height \in Nat
        BY <2>2, SceneAssumption
      <3>2. pixels \in Nat
        BY <3>1
      <3>3. parsed.request_size = And[scene.samples][pixels]
        BY DEF SceneInv, RequestSize
      <3> HIDE DEF pixels
      <3>4. And[scene.samples][pixels] \in 0 .. scene.samples
        BY <2>2, <3>2, AndBound
      <3>5. QED
        BY <2>2, <3>3, <3>4
    <2>9. QED
      BY <2>5, <2>6, <2>7, <2>8 DEF AcceptedIsMeant
  <1>2. QED
    BY <1>1, AlwaysSceneInv, PTL
=============================================================================
