----------------------------- MODULE RayProofs -----------------------------
(***************************************************************************)
(* The case distinctions of ray.cuh, for every ray and every triangle with *)
(* whole coordinates.                                                      *)
(***************************************************************************)
EXTENDS Ray, TLAPS

-----------------------------------------------------------------------------
(* Vectors. *)

LEMMA Typed ==
  ASSUME NEW x \in Vector, NEW y \in Vector, NEW n \in Int
  PROVE  /\ x ++ y \in Vector /\ x -- y \in Vector /\ Scale(n, x) \in Vector
         /\ Cross(x, y) \in Vector /\ Dot(x, y) \in Int
  BY DEF Vector, ++, --, Scale, Cross, Dot

LEMMA DotSum ==
  ASSUME NEW x \in Vector, NEW y \in Vector, NEW z \in Vector
  PROVE  /\ Dot(x ++ y, z) = Dot(x, z) + Dot(y, z)
         /\ Dot(x -- y, z) = Dot(x, z) - Dot(y, z)
         /\ Dot(z, x ++ y) = Dot(z, x) + Dot(z, y)
         /\ Dot(z, x -- y) = Dot(z, x) - Dot(z, y)
  BY DEF Vector, ++, --, Dot

LEMMA DotScale ==
  ASSUME NEW x \in Vector, NEW y \in Vector, NEW n \in Int
  PROVE  Dot(Scale(n, x), y) = n * Dot(x, y) /\ Dot(x, Scale(n, y)) = n * Dot(x, y)
  BY DEF Vector, Scale, Dot

LEMMA DotSymmetric ==
  ASSUME NEW x \in Vector, NEW y \in Vector
  PROVE  Dot(x, y) = Dot(y, x)
  BY DEF Vector, Dot

\* The triple product.
LEMMA Triple ==
  ASSUME NEW x \in Vector, NEW y \in Vector, NEW z \in Vector
  PROVE  /\ Dot(x, Cross(y, z)) = Dot(y, Cross(z, x))
         /\ Dot(x, Cross(y, z)) = -Dot(x, Cross(z, y))
         /\ Dot(x, Cross(x, y)) = 0 /\ Dot(x, Cross(y, x)) = 0
  BY DEF Vector, Dot, Cross

LEMMA CrossSum ==
  ASSUME NEW x \in Vector, NEW y \in Vector, NEW z \in Vector
  PROVE  /\ Cross(z, x ++ y) = Cross(z, x) ++ Cross(z, y)
         /\ Cross(z, x -- y) = Cross(z, x) -- Cross(z, y)
  BY DEF Vector, ++, --, Cross

LEMMA CrossScale ==
  ASSUME NEW x \in Vector, NEW y \in Vector, NEW n \in Int
  PROVE  /\ Cross(x, Scale(n, y)) = Scale(n, Cross(x, y))
         /\ Cross(Scale(n, x), y) = Scale(n, Cross(x, y))
  BY DEF Vector, Scale, Cross

LEMMA CrossOfCross ==
  ASSUME NEW x \in Vector, NEW y \in Vector, NEW z \in Vector
  PROVE  Cross(x, Cross(y, z)) = Scale(Dot(x, z), y) -- Scale(Dot(x, y), z)
  BY DEF Vector, Scale, Cross, Dot, --

LEMMA Positive ==
  ASSUME NEW x \in Vector, NEW y \in Vector, Dot(x, y) # 0
  PROVE  Dot(x, x) > 0
  <1> DEFINE x1 == x[1]
             x2 == x[2]
             x3 == x[3]
  <1>1. x1 \in Int /\ x2 \in Int /\ x3 \in Int /\ y[1] \in Int /\ y[2] \in Int /\ y[3] \in Int
    BY DEF Vector
  <1>2. x1 # 0 \/ x2 # 0 \/ x3 # 0
    BY <1>1 DEF Dot
  <1>3. Dot(x, x) = x1 * x1 + x2 * x2 + x3 * x3
    BY DEF Dot
  <1> HIDE DEF x1, x2, x3
  <1>4. \A n \in Int : n * n >= 0 /\ (n # 0 => n * n > 0)
    OBVIOUS
  <1>5. x1 * x1 \in Int /\ x2 * x2 \in Int /\ x3 * x3 \in Int
    BY <1>1
  <1>6. QED
    BY <1>1, <1>2, <1>3, <1>4, <1>5

\* For an edge e in the plane with normal n, on which side of it a ray from s in
\* direction d meets the plane.
LEMMA EdgeSide ==
  ASSUME NEW e \in Vector, NEW n \in Vector, NEW d \in Vector, NEW s \in Vector,
         Dot(e, n) = 0
  PROVE  Dot(n, d) * Dot(n, Cross(e, s)) - Dot(n, s) * Dot(n, Cross(e, d))
           = Dot(n, n) * Dot(e, Cross(s, d))
  <1> DEFINE w == Cross(s, d)
             p == Dot(n, d)
             q == Dot(n, s)
  <1>1. /\ w \in Vector /\ p \in Int /\ q \in Int
        /\ Cross(e, s) \in Vector /\ Cross(e, d) \in Vector
        /\ Scale(p, s) \in Vector /\ Scale(q, d) \in Vector
    BY Typed
  <1>2. Cross(n, w) = Scale(p, s) -- Scale(q, d)
    BY CrossOfCross
  <1>3. Cross(e, Cross(n, w)) = Scale(Dot(e, w), n) -- Scale(Dot(e, n), w)
    BY <1>1, CrossOfCross
  <1>4. Cross(e, Scale(p, s) -- Scale(q, d)) = Scale(p, Cross(e, s)) -- Scale(q, Cross(e, d))
    BY <1>1, CrossSum, CrossScale
  <1>5. Scale(p, Cross(e, s)) \in Vector /\ Scale(q, Cross(e, d)) \in Vector
    BY <1>1, Typed
  <1>6. Dot(n, Cross(e, Cross(n, w))) = p * Dot(n, Cross(e, s)) - q * Dot(n, Cross(e, d))
    BY <1>1, <1>2, <1>4, <1>5, DotSum, DotScale
  <1>7. Dot(e, w) \in Int /\ Scale(Dot(e, w), n) \in Vector /\ Scale(0, w) \in Vector
        /\ Dot(n, n) \in Int /\ Dot(n, w) \in Int
    BY <1>1, Typed
  <1>8. Dot(n, Cross(e, Cross(n, w))) = Dot(e, w) * Dot(n, n) - 0 * Dot(n, w)
    BY <1>1, <1>3, <1>7, DotSum, DotScale
  <1> HIDE DEF w, p, q
  <1>9. QED
    BY <1>6, <1>7, <1>8 DEF w, p, q

-----------------------------------------------------------------------------
(* Quotients. *)

Sign(a) == IF a > 0 THEN 1 ELSE -1

LEMMA QuotientBySign ==
  ASSUME NEW x \in Int, NEW a \in Int, a # 0
  PROVE  /\ Quotient(x, a) = [n |-> Sign(a) * x, d |-> Sign(a) * a]
         /\ Quotient(-x, -a) = Quotient(x, a)
         /\ Sign(a) \in Int /\ Sign(a) * x \in Int /\ Sign(a) * a \in Int /\ Sign(a) * a > 0
  BY DEF Quotient, Sign

LEMMA Factor ==
  ASSUME NEW p \in Int, p > 0, NEW x \in Int, NEW y \in Int
  PROVE  /\ p * x >= 0 <=> x >= 0
         /\ p * x >= -(p * y) <=> x >= -y
  <1>1. \A z \in Int : p * z >= 0 <=> z >= 0
    OBVIOUS
  <1>2. p * (x + y) = p * x + p * y /\ p * x \in Int /\ p * y \in Int
    OBVIOUS
  <1>3. QED
    BY <1>1, <1>2

-----------------------------------------------------------------------------
(* A triangle. *)

\* The determinant of get_tri_intersect.
Det(r) == Dot(Cross(r.dir, r.v3 -- r.v1), r.v2 -- r.v1)

LEMMA RaysTyped ==
  ASSUME NEW r \in Rays
  PROVE  /\ r.o \in Vector /\ r.dir \in Vector
         /\ r.v1 \in Vector /\ r.v2 \in Vector /\ r.v3 \in Vector
         /\ Normal(r) \in Vector /\ Det(r) \in Int
         /\ Det(r) = -Dot(r.dir, Normal(r))
  <1>1. /\ r.o \in Vector /\ r.dir \in Vector
        /\ r.v1 \in Vector /\ r.v2 \in Vector /\ r.v3 \in Vector
    BY DEF Rays
  <1> DEFINE e1 == r.v2 -- r.v1
             e2 == r.v3 -- r.v1
  <1>2. e1 \in Vector /\ e2 \in Vector
    BY <1>1, Typed
  <1> HIDE DEF e1, e2
  <1>3. Cross(e1, e2) \in Vector /\ Cross(r.dir, e2) \in Vector
    BY <1>1, <1>2, Typed
  <1>4. Dot(Cross(r.dir, e2), e1) = Dot(e1, Cross(r.dir, e2))
    BY <1>2, <1>3, DotSymmetric
  <1>5. Dot(e1, Cross(r.dir, e2)) = Dot(r.dir, Cross(e2, e1))
    BY <1>1, <1>2, Triple
  <1>6. Dot(r.dir, Cross(e2, e1)) = -Dot(r.dir, Cross(e1, e2))
    BY <1>1, <1>2, Triple
  <1>7. Dot(Cross(r.dir, e2), e1) \in Int
    BY <1>2, <1>3, Typed
  <1>8. QED
    BY <1>1, <1>3, <1>4, <1>5, <1>6, <1>7 DEF Normal, Det, e1, e2

\* The edges lie in the plane of the triangle, and so do its corners.
LEMMA InPlane ==
  ASSUME NEW r \in Rays
  PROVE  LET n == Normal(r)
         IN  /\ Dot(r.v2 -- r.v1, n) = 0 /\ Dot(r.v3 -- r.v2, n) = 0
             /\ Dot(r.v1 -- r.v3, n) = 0
             /\ Dot(r.v2, n) = Dot(r.v1, n) /\ Dot(r.v3, n) = Dot(r.v1, n)
  <1> DEFINE n == Normal(r)
             e1 == r.v2 -- r.v1
             e2 == r.v3 -- r.v1
  <1>1. /\ r.v1 \in Vector /\ r.v2 \in Vector /\ r.v3 \in Vector /\ n \in Vector
        /\ e1 \in Vector /\ e2 \in Vector
    BY RaysTyped, Typed
  <1>2. n = Cross(e1, e2)
    BY DEF Normal
  <1> HIDE DEF n
  <1>3. Dot(e1, n) = 0 /\ Dot(e2, n) = 0
    <2> HIDE DEF e1, e2
    <2>1. QED
      BY <1>1, <1>2, Triple
  <1>4. /\ Dot(r.v1, n) \in Int /\ Dot(r.v2, n) \in Int /\ Dot(r.v3, n) \in Int
    BY <1>1, Typed
  <1>5. /\ Dot(e1, n) = Dot(r.v2, n) - Dot(r.v1, n)
        /\ Dot(e2, n) = Dot(r.v3, n) - Dot(r.v1, n)
        /\ Dot(r.v3 -- r.v2, n) = Dot(r.v3, n) - Dot(r.v2, n)
        /\ Dot(r.v1 -- r.v3, n) = Dot(r.v1, n) - Dot(r.v3, n)
    BY <1>1, DotSum
  <1>6. QED
    BY <1>3, <1>4, <1>5 DEF n

\* Where a ray meets the plane.
LEMMA MeetsPlane ==
  ASSUME NEW r \in Rays, Det(r) # 0
  PROVE  /\ Meets(r) = Quotient(Dot(r.o -- r.v1, Normal(r)), Det(r))
         /\ Meets(r) = [n |-> Sign(Det(r)) * Dot(r.o -- r.v1, Normal(r)),
                        d |-> Sign(Det(r)) * Det(r)]
         /\ Dot(r.o -- r.v1, Normal(r)) \in Int
  <1> DEFINE n == Normal(r)
             x == Dot(r.o -- r.v1, n)
  <1>1. /\ r.o \in Vector /\ r.v1 \in Vector /\ n \in Vector /\ r.o -- r.v1 \in Vector
        /\ Det(r) \in Int /\ Det(r) = -Dot(r.dir, n) /\ Dot(r.dir, n) \in Int
    BY RaysTyped, Typed
  <1>2. /\ x = Dot(r.o, n) - Dot(r.v1, n) /\ x \in Int
        /\ Dot(r.o, n) \in Int /\ Dot(r.v1, n) \in Int
    <2> HIDE DEF n
    <2>1. x = Dot(r.o, n) - Dot(r.v1, n)
      BY <1>1, DotSum
    <2>2. Dot(r.o, n) \in Int /\ Dot(r.v1, n) \in Int
      BY <1>1, Typed
    <2>3. QED
      BY <2>1, <2>2
  <1> HIDE DEF n, x
  <1>3. Meets(r) = Quotient(-x, -Det(r))
    <2>1. Dot(r.dir, n) # 0 /\ Dot(r.dir, n) = -Det(r)
      BY <1>1
    <2>2. Dot(r.v1, n) - Dot(r.o, n) = -x
      BY <1>2
    <2>3. QED
      BY <2>1, <2>2 DEF Meets, get_plane_intersect, n
  <1>4. Quotient(-x, -Det(r)) = Quotient(x, Det(r))
    BY <1>1, <1>2, QuotientBySign
  <1>5. Quotient(x, Det(r)) = [n |-> Sign(Det(r)) * x, d |-> Sign(Det(r)) * Det(r)]
    BY <1>1, <1>2, QuotientBySign
  <1>6. QED
    BY <1>2, <1>3, <1>4, <1>5 DEF n, x

LEMMA FromCorner ==
  ASSUME NEW o \in Vector, NEW d \in Vector, NEW x \in Vector, NEW p \in Int, NEW q \in Int
  PROVE  (Scale(p, o) ++ Scale(q, d)) -- Scale(p, x) = Scale(p, o -- x) ++ Scale(q, d)
  BY DEF Vector, Scale, ++, --

\* Side, written without the point where the ray meets the plane.
LEMMA SideOf ==
  ASSUME NEW r \in Rays, Det(r) # 0, NEW x \in Vector, NEW y \in Vector,
         Dot(y -- x, Normal(r)) = 0, Dot(x, Normal(r)) = Dot(r.v1, Normal(r))
  PROVE  Side(r, x, y) =
           Dot(Normal(r), Normal(r)) * (Sign(Det(r)) * Dot(y -- x, Cross(r.dir, r.o -- x)))
  <1> DEFINE n == Normal(r)
             e == y -- x
             d == r.dir
             s == r.o -- x
             g == Sign(Det(r))
             p == g * Det(r)
             q == g * Dot(r.o -- r.v1, n)
  <1>1. /\ r.o \in Vector /\ r.v1 \in Vector /\ d \in Vector /\ n \in Vector /\ Det(r) \in Int
        /\ e \in Vector /\ s \in Vector /\ r.o -- r.v1 \in Vector
        /\ Det(r) = -Dot(d, n)
    BY RaysTyped, Typed
  <1>2. Dot(d, n) \in Int /\ Dot(n, d) = Dot(d, n) /\ Dot(e, n) = 0 /\ Dot(n, n) \in Int
    <2> HIDE DEF n, d
    <2>1. QED
      BY <1>1, Typed, DotSymmetric DEF n
  <1>3. Dot(r.o -- r.v1, n) = Dot(n, s) /\ Dot(n, s) \in Int
    <2> HIDE DEF n
    <2>1. /\ Dot(r.o -- r.v1, n) = Dot(r.o, n) - Dot(r.v1, n)
          /\ Dot(s, n) = Dot(r.o, n) - Dot(x, n)
      BY <1>1, DotSum
    <2>2. Dot(s, n) = Dot(n, s) /\ Dot(s, n) \in Int
      <3> HIDE DEF s
      <3>1. QED
        BY <1>1, DotSymmetric, Typed
    <2>3. Dot(x, n) = Dot(r.v1, n)
      BY DEF n
    <2>4. QED
      BY <2>1, <2>2, <2>3
  <1>4. g \in Int /\ p \in Int /\ q \in Int
    BY <1>1, <1>3 DEF Sign
  <1>5. Side(r, x, y) = Dot(n, Cross(e, Scale(p, s) ++ Scale(q, d)))
    <2>1. Meets(r) = [n |-> q, d |-> p]
      BY MeetsPlane
    <2> HIDE DEF p, q
    <2>2. (Scale(p, r.o) ++ Scale(q, r.dir)) -- Scale(p, x) = Scale(p, s) ++ Scale(q, d)
      BY <1>1, <1>4, FromCorner
    <2>3. QED
      BY <2>1, <2>2 DEF Side
  <1> DEFINE es == Dot(n, Cross(e, s))
             ed == Dot(n, Cross(e, d))
             sd == Dot(e, Cross(s, d))
             ds == Dot(e, Cross(d, s))
  <1> HIDE DEF n, e, d, s, g, p, q
  <1>6. Side(r, x, y) = p * es + q * ed /\ es \in Int /\ ed \in Int
    <2>1. /\ Scale(p, s) \in Vector /\ Scale(q, d) \in Vector
          /\ Cross(e, s) \in Vector /\ Cross(e, d) \in Vector
      BY <1>1, <1>4, Typed
    <2>2. Scale(p, Cross(e, s)) \in Vector /\ Scale(q, Cross(e, d)) \in Vector
      BY <1>4, <2>1, Typed
    <2>3. Cross(e, Scale(p, s) ++ Scale(q, d)) = Scale(p, Cross(e, s)) ++ Scale(q, Cross(e, d))
      BY <1>1, <1>4, <2>1, CrossSum, CrossScale
    <2>4. Dot(n, Scale(p, Cross(e, s)) ++ Scale(q, Cross(e, d)))
            = Dot(n, Scale(p, Cross(e, s))) + Dot(n, Scale(q, Cross(e, d)))
      BY <1>1, <2>2, DotSum
    <2>5. /\ Dot(n, Scale(p, Cross(e, s))) = p * es
          /\ Dot(n, Scale(q, Cross(e, d))) = q * ed
      BY <1>1, <1>4, <2>1, DotScale
    <2>6. es \in Int /\ ed \in Int
      BY <1>1, <2>1, Typed
    <2>7. QED
      BY <1>5, <2>3, <2>4, <2>5, <2>6
  <1>7. Dot(n, d) * es - Dot(n, s) * ed = Dot(n, n) * sd
    BY <1>1, <1>2, EdgeSide
  <1>8. sd \in Int /\ ds = -sd
    <2>1. Cross(s, d) \in Vector
      BY <1>1, Typed
    <2>2. sd \in Int
      BY <1>1, <2>1, Typed
    <2>3. sd = -ds
      BY <1>1, Triple
    <2>4. Cross(d, s) \in Vector
      BY <1>1, Typed
    <2>5. ds \in Int
      BY <1>1, <2>4, Typed
    <2>6. QED
      BY <2>2, <2>3, <2>5
  <1>9. p = g * (-Dot(n, d)) /\ q = g * Dot(n, s)
    BY <1>1, <1>2, <1>3 DEF p, q
  <1> DEFINE nd == Dot(n, d)
             ns == Dot(n, s)
             nn == Dot(n, n)
  <1>10. nd \in Int /\ ns \in Int /\ nn \in Int
    BY <1>2, <1>3
  <1> HIDE DEF es, ed, sd, ds, nd, ns, nn
  <1>11. p * es + q * ed = -(g * (nd * es - ns * ed))
    BY <1>4, <1>6, <1>9, <1>10 DEF nd, ns
  <1>12. -(g * (nn * sd)) = nn * (g * ds)
    BY <1>4, <1>8, <1>10
  <1>13. Side(r, x, y) = nn * (g * ds)
    BY <1>6, <1>7, <1>11, <1>12 DEF nd, ns, nn
  <1>14. QED
    BY <1>13 DEF nn, g, ds, n, e, d, s

\* The numerators of get_tri_intersect, one for each edge.
LEMMA Numerators ==
  ASSUME NEW d \in Vector, NEW s \in Vector, NEW e1 \in Vector, NEW e2 \in Vector
  PROVE  /\ Dot(e1, Cross(d, s)) = Dot(d, Cross(s, e1))
         /\ Dot(Scale(-1, e2), Cross(d, s -- e2)) = Dot(s, Cross(d, e2))
         /\ Dot(e2 -- e1, Cross(d, s -- e1)) =
              Dot(Cross(d, e2), e1) - Dot(s, Cross(d, e2)) - Dot(d, Cross(s, e1))
  <1>1. Dot(e1, Cross(d, s)) = Dot(d, Cross(s, e1))
    BY Triple
  <1>2. Dot(Scale(-1, e2), Cross(d, s -- e2)) = Dot(s, Cross(d, e2))
    BY DEF Vector, Dot, Cross, Scale, --
  <1>3. Dot(e2 -- e1, Cross(d, s -- e1)) =
          Dot(Cross(d, e2), e1) - Dot(s, Cross(d, e2)) - Dot(d, Cross(s, e1))
    BY DEF Vector, Dot, Cross, --
  <1>4. QED
    BY <1>1, <1>2, <1>3

LEMMA Edges ==
  ASSUME NEW o \in Vector, NEW v1 \in Vector, NEW v2 \in Vector, NEW v3 \in Vector
  PROVE  /\ v3 -- v2 = (v3 -- v1) -- (v2 -- v1) /\ v1 -- v3 = Scale(-1, v3 -- v1)
         /\ o -- v2 = (o -- v1) -- (v2 -- v1) /\ o -- v3 = (o -- v1) -- (v3 -- v1)
  BY DEF Vector, Scale, --

\* How far from the edge v3 v1, in heights of v2 over it, a point may lie outside.
Reach(r) == Dot(Normal(r), Normal(r)) * Meets(r).d

\* What get_tri_intersect takes for the triangle: all that lies inside the edges v1 v2 and
\* v2 v3, and inside the edge v3 v1 or beyond it by at most the height of v2.
LEMMA HitOfRay ==
  ASSUME NEW r \in Rays
  PROVE  LET inside == /\ ~Parallel(r)
                       /\ Side(r, r.v1, r.v2) >= 0
                       /\ Side(r, r.v2, r.v3) >= 0
                       /\ Side(r, r.v3, r.v1) >= -Reach(r)
         IN  get_tri_intersect(r) = IF inside THEN Meets(r) ELSE MinusOne
  <1> DEFINE n == Normal(r)
             d == r.dir
             e1 == r.v2 -- r.v1
             e2 == r.v3 -- r.v1
             s == r.o -- r.v1
             a == Det(r)
             g == Sign(a)
             un == Dot(s, Cross(d, e2))
             vn == Dot(d, Cross(s, e1))
             inside == /\ ~Parallel(r)
                       /\ Side(r, r.v1, r.v2) >= 0
                       /\ Side(r, r.v2, r.v3) >= 0
                       /\ Side(r, r.v3, r.v1) >= -Reach(r)
  <1>1. /\ r.o \in Vector /\ r.v1 \in Vector /\ r.v2 \in Vector /\ r.v3 \in Vector
        /\ d \in Vector /\ n \in Vector /\ a \in Int /\ a = -Dot(d, n)
        /\ e1 \in Vector /\ e2 \in Vector /\ s \in Vector
    BY RaysTyped, Typed
  <1>2. Dot(d, n) \in Int /\ Dot(n, d) = Dot(d, n) /\ Dot(n, n) \in Int /\ un \in Int /\ vn \in Int
    <2> HIDE DEF n, d, e1, e2, s
    <2>1. Cross(d, e2) \in Vector /\ Cross(s, e1) \in Vector
      BY <1>1, Typed
    <2>2. QED
      BY <1>1, <2>1, Typed, DotSymmetric
  <1>3. Parallel(r) <=> a = 0
    BY <1>1, <1>2 DEF Parallel
  <1>4. a = Dot(Cross(d, e2), e1)
    BY DEF Det
  <1>5. CASE a = 0
    <2>1. get_tri_intersect(r) = MinusOne
      BY <1>4, <1>5 DEF get_tri_intersect
    <2>2. ~inside
      BY <1>3, <1>5
    <2>3. QED
      BY <2>1, <2>2
  <1>6. CASE a # 0
    <2>1. Dot(n, n) > 0
      BY <1>1, <1>2, <1>6, Positive
    <2>2. /\ Side(r, r.v1, r.v2) = Dot(n, n) * (g * vn)
          /\ Side(r, r.v2, r.v3) = Dot(n, n) * (g * (a - un - vn))
          /\ Side(r, r.v3, r.v1) = Dot(n, n) * (g * un)
      <3>1. /\ Side(r, r.v1, r.v2) = Dot(n, n) * (g * Dot(r.v2 -- r.v1, Cross(d, r.o -- r.v1)))
            /\ Side(r, r.v2, r.v3) = Dot(n, n) * (g * Dot(r.v3 -- r.v2, Cross(d, r.o -- r.v2)))
            /\ Side(r, r.v3, r.v1) = Dot(n, n) * (g * Dot(r.v1 -- r.v3, Cross(d, r.o -- r.v3)))
        BY <1>1, <1>6, SideOf, InPlane
      <3>2. /\ r.v3 -- r.v2 = e2 -- e1 /\ r.v1 -- r.v3 = Scale(-1, e2)
            /\ r.o -- r.v2 = s -- e1 /\ r.o -- r.v3 = s -- e2
        BY <1>1, Edges
      <3> HIDE DEF e1, e2, s
      <3>3. /\ Dot(e1, Cross(d, s)) = vn
            /\ Dot(Scale(-1, e2), Cross(d, s -- e2)) = un
            /\ Dot(e2 -- e1, Cross(d, s -- e1)) = a - un - vn
        BY <1>1, <1>4, Numerators
      <3>4. r.v2 -- r.v1 = e1 /\ r.o -- r.v1 = s
        BY DEF e1, s
      <3> HIDE DEF un, vn, n, d, a, g
      <3>5. QED
        BY <3>1, <3>2, <3>3, <3>4
    <2>3. Reach(r) = Dot(n, n) * (g * a)
      BY <1>6, MeetsPlane DEF Reach
    <2>4. g \in Int /\ g * a \in Int /\ g * un \in Int /\ g * vn \in Int /\ g * a > 0
      BY <1>1, <1>2, <1>6 DEF Sign
    <2>5. /\ Quotient(un, a) = [n |-> g * un, d |-> g * a]
          /\ Quotient(vn, a) = [n |-> g * vn, d |-> g * a]
      BY <1>1, <1>2, <1>6, QuotientBySign
    <2>6. Quotient(Dot(e2, Cross(s, e1)), a) = Meets(r)
      <3>1. Meets(r) = Quotient(Dot(s, n), a)
        BY <1>6, MeetsPlane
      <3>2. n = Cross(e1, e2)
        BY DEF Normal
      <3> HIDE DEF e1, e2, s, n
      <3>3. Dot(e2, Cross(s, e1)) = Dot(s, Cross(e1, e2))
        BY <1>1, Triple
      <3>4. QED
        BY <3>1, <3>2, <3>3
    <2>7. get_tri_intersect(r) =
            IF \/ g * un > g * a \/ g * un < -(g * a) \/ g * vn < 0
               \/ g * un + g * vn > g * a
              THEN MinusOne ELSE Meets(r)
      BY <1>4, <1>6, <2>5, <2>6 DEF get_tri_intersect
    <2>8. inside <=> /\ g * vn >= 0 /\ g * a - g * un - g * vn >= 0 /\ g * un >= -(g * a)
      <3> DEFINE nn == Dot(n, n)
      <3>1. nn \in Int /\ nn > 0
        BY <1>2, <2>1
      <3>2. /\ Side(r, r.v1, r.v2) = nn * (g * vn)
            /\ Side(r, r.v2, r.v3) = nn * (g * a - g * un - g * vn)
            /\ Side(r, r.v3, r.v1) = nn * (g * un)
            /\ Reach(r) = nn * (g * a)
        <4>1. g * (a - un - vn) = g * a - g * un - g * vn
          BY <1>1, <1>2, <2>4
        <4>2. QED
          BY <2>2, <2>3, <4>1
      <3>3. ~Parallel(r)
        BY <1>3, <1>6
      <3> DEFINE gu == g * un
                 gv == g * vn
                 ga == g * a
      <3>4. gu \in Int /\ gv \in Int /\ ga \in Int /\ ga - gu - gv \in Int
        BY <2>4
      <3> HIDE DEF nn, gu, gv, ga
      <3>5. /\ nn * gv >= 0 <=> gv >= 0
            /\ nn * (ga - gu - gv) >= 0 <=> ga - gu - gv >= 0
            /\ nn * gu >= -(nn * ga) <=> gu >= -ga
        BY <3>1, <3>4, Factor
      <3>6. QED
        BY <3>2, <3>3, <3>5 DEF gu, gv, ga
    <2>9. QED
      BY <2>4, <2>7, <2>8
  <1>7. QED
    BY <1>5, <1>6

LEMMA SidesTyped ==
  ASSUME NEW r \in Rays, ~Parallel(r)
  PROVE  /\ Side(r, r.v1, r.v2) \in Int /\ Side(r, r.v2, r.v3) \in Int
         /\ Side(r, r.v3, r.v1) \in Int /\ Reach(r) \in Nat
  <1> DEFINE n == Normal(r)
  <1>1. /\ r.o \in Vector /\ r.dir \in Vector /\ r.v1 \in Vector /\ r.v2 \in Vector
        /\ r.v3 \in Vector /\ n \in Vector /\ Det(r) \in Int
        /\ Det(r) = -Dot(r.dir, n) /\ Dot(r.dir, n) \in Int
    BY RaysTyped, Typed
  <1>2. Det(r) # 0 /\ Dot(r.dir, n) # 0
    BY <1>1 DEF Parallel
  <1>3. /\ Meets(r).n \in Int /\ Meets(r).d \in Int /\ Meets(r).d > 0
    BY <1>1, <1>2, MeetsPlane DEF Sign
  <1>4. Dot(n, n) \in Int /\ Dot(n, n) > 0
    <2>1. Dot(n, r.dir) = Dot(r.dir, n)
      BY <1>1, DotSymmetric
    <2>2. Dot(n, r.dir) # 0
      BY <1>2, <2>1
    <2> HIDE DEF n
    <2>3. QED
      BY <1>1, <2>2, Positive, Typed
  <1>5. ASSUME NEW x \in Vector, NEW y \in Vector PROVE Side(r, x, y) \in Int
    <2> DEFINE point == Scale(Meets(r).d, r.o) ++ Scale(Meets(r).n, r.dir)
               out == point -- Scale(Meets(r).d, x)
    <2>1. Scale(Meets(r).d, r.o) \in Vector /\ Scale(Meets(r).n, r.dir) \in Vector
          /\ Scale(Meets(r).d, x) \in Vector
      BY <1>1, <1>3, Typed
    <2>2. point \in Vector
      BY <2>1, Typed
    <2> HIDE DEF point
    <2>3. out \in Vector
      BY <2>1, <2>2, Typed
    <2> HIDE DEF out, n
    <2>4. Cross(y -- x, out) \in Vector
      BY <2>3, Typed
    <2>5. Dot(n, Cross(y -- x, out)) \in Int
      BY <1>1, <2>4, Typed
    <2>6. QED
      BY <2>5 DEF Side, out, point, n
  <1>6. Reach(r) \in Nat
    <2> DEFINE nn == Dot(n, n)
    <2>1. nn \in Nat /\ Meets(r).d \in Nat
      BY <1>3, <1>4
    <2> HIDE DEF nn
    <2>2. nn * Meets(r).d \in Nat
      BY <2>1
    <2>3. QED
      BY <2>2 DEF Reach, nn
  <1>7. QED
    BY <1>1, <1>5, <1>6

-----------------------------------------------------------------------------
(* The theorems. *)

LEMMA NoShotTyped == NoShot \in Rays
  BY DEF NoShot, Rays, Vector

LEMMA AlwaysRay == RaySpec => [](shot \in Rays)
  <1>1. RayInit => shot \in Rays
    BY NoShotTyped DEF RayInit
  <1>2. shot \in Rays /\ [RayNext]_rayVars => (shot \in Rays)'
    BY NoShotTyped, RayAssumption DEF RayNext, Shoot, ShotDone, rayVars, Rays
  <1>3. QED
    BY <1>1, <1>2, PTL DEF RaySpec

\* get_tri_intersect reports every hit of a triangle, with the value of its plane, and
\* none beyond its first or second edge, for every ray and triangle.
THEOREM Hit == RaySpec => []TriangleHit
  <1>1. shot \in Rays => TriangleHit
    <2> SUFFICES ASSUME shot \in Rays PROVE TriangleHit
      OBVIOUS
    <2> DEFINE s1 == Side(shot, shot.v1, shot.v2)
               s2 == Side(shot, shot.v2, shot.v3)
               s3 == Side(shot, shot.v3, shot.v1)
               inside == /\ ~Parallel(shot)
                         /\ s1 >= 0 /\ s2 >= 0 /\ s3 >= -Reach(shot)
    <2>1. get_tri_intersect(shot) = IF inside THEN Meets(shot) ELSE MinusOne
      BY HitOfRay
    <2>2. ASSUME ~Parallel(shot)
          PROVE  s1 \in Int /\ s2 \in Int /\ s3 \in Int /\ Reach(shot) \in Nat
      BY <2>2, SidesTyped
    <2> HIDE DEF s1, s2, s3
    <2>3. SameQuotient(Meets(shot), Meets(shot)) /\ SameQuotient(MinusOne, MinusOne)
      BY DEF SameQuotient
    <2>4. Inside(shot) => inside
      <3> SUFFICES ASSUME Inside(shot) PROVE inside
        OBVIOUS
      <3>1. ~Parallel(shot) /\ s1 >= 0 /\ s2 >= 0 /\ s3 >= 0
        BY DEF Inside, s1, s2, s3
      <3>2. QED
        BY <2>2, <3>1
    <2>5. Parallel(shot) \/ s1 < 0 \/ s2 < 0 => ~inside
      BY <2>2
    <2> HIDE DEF inside
    <2>6. QED
      BY <2>1, <2>3, <2>4, <2>5 DEF TriangleHit, s1, s2
  <1>2. QED
    BY <1>1, AlwaysRay, PTL

LEMMA Moved ==
  ASSUME NEW o \in Vector, NEW d \in Vector, NEW p \in Int, NEW q \in Int, NEW x \in Vector
  PROVE  LET o2 == Scale(p, o) ++ Scale(2 * q, d)
         IN  /\ o2 \in Vector
             /\ o2 -- Scale(p, o) = Scale(2 * q, d)
             /\ Cross(o2 -- Scale(p, o), d) = <<0, 0, 0>>
             /\ o2 ++ (Scale(p, x) -- o2) = Scale(p, x)
  <1> DEFINE o2 == Scale(p, o) ++ Scale(2 * q, d)
  <1>1. o2 \in Vector
    <2>1. 2 * q \in Int
      OBVIOUS
    <2>2. Scale(p, o) \in Vector /\ Scale(2 * q, d) \in Vector
      BY <2>1, Typed
    <2>3. QED
      BY <2>2, Typed
  <1>2. o2 -- Scale(p, o) = Scale(2 * q, d)
    BY DEF Vector, Scale, ++, --
  <1>3. Cross(Scale(2 * q, d), d) = <<0, 0, 0>>
    BY DEF Vector, Scale, Cross
  <1>4. o2 ++ (Scale(p, x) -- o2) = Scale(p, x)
    BY DEF Vector, Scale, ++, --
  <1>5. QED
    BY <1>1, <1>2, <1>3, <1>4

\* reflect_inplace moves a ray to the other side of the plane of a triangle and turns
\* it towards the triangle's first corner.
THEOREM Reflection == RaySpec => []PlaneReflection
  <1>1. shot \in Rays => PlaneReflection
    <2> SUFFICES ASSUME shot \in Rays PROVE PlaneReflection
      OBVIOUS
    <2> DEFINE n == Normal(shot)
               o == shot.o
               d == shot.dir
               v == shot.v1
               t == get_plane_intersect(shot, v, n)
               o2 == Scale(t.d, o) ++ Scale(2 * t.n, d)
               den == Dot(d, n)
               num == Dot(v, n) - Dot(o, n)
    <2>1. o \in Vector /\ d \in Vector /\ v \in Vector /\ n \in Vector
      BY RaysTyped
    <2>2. den \in Int /\ Dot(v, n) \in Int /\ Dot(o, n) \in Int /\ num \in Int
      <3> HIDE DEF n, o, d, v
      <3>1. QED
        BY <2>1, Typed
    <2>3. t = IF den = 0 THEN MinusOne ELSE Quotient(num, den)
      BY DEF get_plane_intersect
    <2>4. t.n \in Int /\ t.d \in Int
      BY <2>2, <2>3 DEF MinusOne, Quotient
    <2>5. reflect_inplace(shot, v, n) = [o |-> o2, dir |-> Scale(t.d, v) -- o2, d |-> t.d]
      BY DEF reflect_inplace
    <2>6. Parallel(shot) <=> den = 0
      BY DEF Parallel
    <2> HIDE DEF n, o, d, v, t, den, num
    <2>7. /\ o2 \in Vector
          /\ o2 -- Scale(t.d, o) = Scale(2 * t.n, d)
          /\ Cross(o2 -- Scale(t.d, o), d) = <<0, 0, 0>>
          /\ o2 ++ (Scale(t.d, v) -- o2) = Scale(t.d, v)
      BY <2>1, <2>4, Moved
    <2>8. den = 0 => o2 -- Scale(t.d, o) = Scale(-2, d)
      <3>1. den = 0 => t.n = -1
        BY <2>3 DEF MinusOne
      <3>2. QED
        BY <2>7, <3>1
    <2>9. den # 0 => Dot(o2 -- Scale(t.d, v), n) = t.d * Dot(v -- o, n)
      <3> SUFFICES ASSUME den # 0
                   PROVE  Dot(o2 -- Scale(t.d, v), n) = t.d * Dot(v -- o, n)
        OBVIOUS
      <3>1. Dot(v -- o, n) = num
        BY <2>1, DotSum DEF num
      <3>2. Scale(t.d, o) \in Vector /\ Scale(2 * t.n, d) \in Vector /\ Scale(t.d, v) \in Vector
        <4>1. 2 * t.n \in Int
          BY <2>4
        <4>2. QED
          BY <2>1, <2>4, <4>1, Typed
      <3>3. Dot(o2 -- Scale(t.d, v), n)
              = (Dot(Scale(t.d, o), n) + Dot(Scale(2 * t.n, d), n)) - Dot(Scale(t.d, v), n)
        <4>1. Dot(o2 -- Scale(t.d, v), n) = Dot(o2, n) - Dot(Scale(t.d, v), n)
          <5> HIDE DEF o2
          <5>1. QED
            BY <2>1, <2>7, <3>2, DotSum
        <4>2. Dot(o2, n) = Dot(Scale(t.d, o), n) + Dot(Scale(2 * t.n, d), n)
          BY <2>1, <3>2, DotSum
        <4>3. QED
          BY <4>1, <4>2
      <3>4. /\ Dot(Scale(t.d, o), n) = t.d * Dot(o, n)
            /\ Dot(Scale(2 * t.n, d), n) = 2 * t.n * den
            /\ Dot(Scale(t.d, v), n) = t.d * Dot(v, n)
        BY <2>1, <2>4, DotScale DEF den
      <3>5. t.n * den = t.d * num
        BY <2>2, <2>3 DEF Quotient
      <3>6. t.d * Dot(o, n) - t.d * Dot(v, n) = -(t.d * num)
        BY <2>2, <2>4 DEF num
      <3> DEFINE p == t.d
                 q == t.n
                 x == p * num
                 y == q * den
                 ov == p * Dot(o, n)
                 vv == p * Dot(v, n)
      <3>7. x \in Int /\ ov \in Int /\ vv \in Int
        BY <2>2, <2>4
      <3>8. 2 * t.n * den = 2 * y
        BY <2>2, <2>4
      <3> HIDE DEF p, q, x, y, ov, vv
      <3>9. Dot(o2 -- Scale(t.d, v), n) = (ov + 2 * y) - vv /\ y = x /\ ov - vv = -x
        BY <3>3, <3>4, <3>5, <3>6, <3>8 DEF p, q, x, y, ov, vv
      <3>10. Dot(o2 -- Scale(t.d, v), n) = x
        BY <3>7, <3>9
      <3>11. QED
        BY <3>1, <3>10 DEF x, p
    <2>10. QED
      BY <2>5, <2>6, <2>7, <2>8, <2>9 DEF PlaneReflection, n, o, d, v
  <1>2. QED
    BY <1>1, AlwaysRay, PTL
=============================================================================
