----------------------------- MODULE MCAnalysis -----------------------------
(***************************************************************************)
(* Instances of Analysis for TLC: a few places on the x-y plane and off    *)
(* it, in the middle, on edges, on the upper bound of the bins and outside *)
(* of them.                                                                *)
(***************************************************************************)
EXTENDS Analysis

At(x, y, z, m, v) == [x |-> x, y |-> y, z |-> z, m |-> m, v |-> v]

Ringed ==
  {At(1, 0, 0, 7, <<1, 0, 0>>), At(0, 1, -1, 1, <<0, 2, 1>>),
   At(2, 2, 1, 1, <<-1, 1, 0>>), At(4, 0, 4, 2, <<2, -1, 1>>),
   At(-3, 0, -2, 1, <<0, 1, -2>>), At(0, -2, 5, 1, <<1, 1, 1>>),
   At(-5, 0, 0, 1, <<1, -2, 1>>)}

MCOrders == {0, 2, 4}

\* The argument in whole degrees: in the first octant to within a degree, from
\* atan(t) = t (60.6 - 15.6 t); elsewhere by reflections.
Octant(b, a) == IF b = 0 THEN 0 ELSE (b * (606 * a - 156 * b)) \div (10 * a * a)
MCArg(c) ==
  LET a == Abs(c[1])
      b == Abs(c[2])
      quadrant == IF b <= a THEN Octant(b, a) ELSE 90 - Octant(a, b)
      half == IF c[1] < 0 THEN 180 - quadrant ELSE quadrant
  IN  IF c[2] < 0 THEN -half ELSE half
=============================================================================
