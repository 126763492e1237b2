-------------------------------- MODULE Ray --------------------------------
(***************************************************************************)
(* ray.cuh: intersection of a ray with a triangle and with a plane, and    *)
(* reflection, over exact rationals.  Vectors have integer coordinates; a   *)
(* quotient is a pair of a numerator and a positive denominator.  What is   *)
(* smaller than epsilon is 0 here, and rounding is left out: the module is  *)
(* about the case distinctions.                                            *)
(***************************************************************************)
EXTENDS Integers, Sequences

CONSTANTS
  Case    \* origin and direction of a ray, and a triangle: o, dir, v1, v2, v3

Vector == [1 .. 3 -> Int]
Rays == [o : Vector, dir : Vector, v1 : Vector, v2 : Vector, v3 : Vector]

ASSUME RayAssumption == Case \subseteq Rays

VARIABLE shot

rayVars == <<shot>>

-----------------------------------------------------------------------------
(* Vectors, as the vector library has them, and quotients. *)

x ++ y == [k \in 1 .. 3 |-> x[k] + y[k]]
x -- y == [k \in 1 .. 3 |-> x[k] - y[k]]
Scale(n, x) == [k \in 1 .. 3 |-> n * x[k]]
Dot(x, y) == x[1] * y[1] + x[2] * y[2] + x[3] * y[3]
Cross(x, y) == << x[2] * y[3] - x[3] * y[2], x[3] * y[1] - x[1] * y[3], x[1] * y[2] - x[2] * y[1] >>

Quotient(n, d) == IF d > 0 THEN [n |-> n, d |-> d] ELSE [n |-> -n, d |-> -d]
SameQuotient(q, r) == q.n * r.d = r.n * q.d
MinusOne == [n |-> -1, d |-> 1]

-----------------------------------------------------------------------------
\* Mutant of get_tri_intersect: u + v is not compared with 1.
get_parallelogram_intersect(r) ==
  LET e1 == r.v2 -- r.v1
      e2 == r.v3 -- r.v1
      h == Cross(r.dir, e2)
      a == Dot(h, e1)
      s == r.o -- r.v1
      u == Quotient(Dot(s, h), a)
      q == Cross(s, e1)
      v == Quotient(Dot(r.dir, q), a)
  IN  IF a = 0 \/ u.n > u.d \/ u.n < -u.d \/ v.n < 0
        THEN MinusOne
        ELSE Quotient(Dot(e2, q), a)

\* Moller-Trumbore; u is compared by its absolute value.
get_tri_intersect(r) ==
  LET e1 == r.v2 -- r.v1
      e2 == r.v3 -- r.v1
      h == Cross(r.dir, e2)
      a == Dot(h, e1)
      s == r.o -- r.v1
      u == Quotient(Dot(s, h), a)
      q == Cross(s, e1)
      v == Quotient(Dot(r.dir, q), a)
  IN  IF a = 0 \/ u.n > u.d \/ u.n < -u.d \/ v.n < 0 \/ u.n + v.n > u.d
        THEN MinusOne
        ELSE Quotient(Dot(e2, q), a)

get_plane_intersect(r, p, n) ==
  LET den == Dot(r.dir, n)
  IN  IF den = 0 THEN MinusOne ELSE Quotient(Dot(p, n) - Dot(r.o, n), den)

\* Mutant of reflect_inplace: the origin goes as far as the plane only.
reflect_halfway(r, p, n) ==
  LET t == get_plane_intersect(r, p, n)
      o2 == Scale(t.d, r.o) ++ Scale(t.n, r.dir)
  IN  [o |-> o2, dir |-> Scale(t.d, p) -- o2, d |-> t.d]

\* The new origin and direction, over the common denominator d.
reflect_inplace(r, p, n) ==
  LET t == get_plane_intersect(r, p, n)
      o2 == Scale(t.d, r.o) ++ Scale(2 * t.n, r.dir)
  IN  [o |-> o2, dir |-> Scale(t.d, p) -- o2, d |-> t.d]

-----------------------------------------------------------------------------
NoShot == [o |-> <<0, 0, 0>>, dir |-> <<0, 0, 1>>,
           v1 |-> <<0, 0, 0>>, v2 |-> <<1, 0, 0>>, v3 |-> <<0, 1, 0>>]

Shoot(r) == shot' = r
ShotDone == shot # NoShot /\ shot' = NoShot

RayInit == shot = NoShot
RayNext ==
  \/ shot = NoShot /\ \E r \in Case : Shoot(r)
  \/ ShotDone

RaySpec == RayInit /\ [][RayNext]_rayVars

-----------------------------------------------------------------------------
(* Reference: the normal of the triangle, the point where the ray meets its  *)
(* plane, and on which side of each edge that point lies.                    *)

Normal(r) == Cross(r.v2 -- r.v1, r.v3 -- r.v1)
Parallel(r) == Dot(r.dir, Normal(r)) = 0
Meets(r) == get_plane_intersect(r, r.v1, Normal(r))

\* Twice the area of the triangle from edge x, y to the point, times the length of the
\* normal and the denominator; negative beyond the edge.
Side(r, x, y) ==
  LET t == Meets(r)
      point == Scale(t.d, r.o) ++ Scale(t.n, r.dir)
  IN  Dot(Normal(r), Cross(y -- x, point -- Scale(t.d, x)))

Inside(r) ==
  /\ ~Parallel(r)
  /\ Side(r, r.v1, r.v2) >= 0 /\ Side(r, r.v2, r.v3) >= 0 /\ Side(r, r.v3, r.v1) >= 0

\* No true hit is missed, and of what is no hit all is reported as none that is parallel
\* to the plane of the triangle or beyond its first or second edge.  The value returned
\* for a hit is the one get_plane_intersect gives for that plane.
TriangleHit ==
  /\ Inside(shot) => SameQuotient(get_tri_intersect(shot), Meets(shot))
  /\ \/ Parallel(shot)
     \/ Side(shot, shot.v1, shot.v2) < 0
     \/ Side(shot, shot.v2, shot.v3) < 0
     => SameQuotient(get_tri_intersect(shot), MinusOne)

\* reflect_inplace moves the origin along the ray to the other side of the plane, as far
\* behind it as it was before it, and turns the ray towards p, which it meets at 1.
\* With a plane it is parallel to, it moves back by two directions instead.
PlaneReflection ==
  LET n == Normal(shot)
      r == reflect_inplace(shot, shot.v1, n)
      moved == r.o -- Scale(r.d, shot.o)
  IN  /\ Cross(moved, shot.dir) = <<0, 0, 0>>
      /\ r.o ++ r.dir = Scale(r.d, shot.v1)
      /\ IF Parallel(shot)
           THEN moved = Scale(-2, shot.dir)
           ELSE Dot(r.o -- Scale(r.d, shot.v1), n) = r.d * Dot(shot.v1 -- shot.o, n)
=============================================================================
