------------------------------ MODULE Analysis ------------------------------
(***************************************************************************)
(* The functions of src/src/analysis that calculator::call_pre_module and  *)
(* call_md_module call (pre.cpp, model.cpp and bin2d of utils.cpp), on     *)
(* particles that are spread over the ranks in any way.                    *)
(*                                                                         *)
(* Each rank hands its own particles to every function and adds them up;   *)
(* MPI_Allreduce adds the partial sums; then each rank derives the result  *)
(* from the sums it holds.  Monitor shows that the ranks make these calls  *)
(* together, so a call is one step of all ranks here.  The order is that   *)
(* of call_md_module with every switch on, axis_ratio 1 and align_bar off. *)
(*                                                                         *)
(* A coordinate is a whole number of grid steps, Unit of them to a length  *)
(* unit, and a sum is exact.  Particles stand in one of eight directions   *)
(* from the centre, so that exp(2 i phi) has whole components; a quotient  *)
(* is the pair of its two parts, and NaN the pair with denominator 0.      *)
(***************************************************************************)
EXTENDS Integers, Sequences, FiniteSets, FiniteSetsExt, Functions

CONSTANTS
  Rank,          \* the processes of MPI_COMM_WORLD
  Root,          \* the one that writes the results
  Particle,      \* the particles of the target set, on all ranks
  Sample,        \* what a particle may be: its place, velocity and mass
  Unit,          \* grid steps per length unit of the simulation
  Half,          \* half the region_size, in grid steps: the bins end there
  Bins,          \* Model/image_bins
  RMin, RMax,    \* Model/rmin and rmax, in length units
  RBins,         \* Model/rbins
  Orders,        \* Model/An, the even ones
  Threshold,     \* Model/bar_threshold, in per cent
  Degrees,       \* Model/deg
  Percentage,    \* Model/percentage
  Arg(_)         \* the argument of a complex number, in degrees

ASSUME RankAssumption == Root \in Rank /\ IsFiniteSet(Rank)
ASSUME ParticleAssumption == Particle # {} /\ IsFiniteSet(Particle)
ASSUME SampleAssumption ==
  \A s \in Sample :
    /\ {s.x, s.y, s.z} \subseteq Int
    /\ s.x = 0 \/ s.y = 0 \/ s.x = s.y \/ s.x = -s.y
    /\ s.v \in [1 .. 3 -> Int]
    /\ s.m \in Nat \ {0}
ASSUME OptionsAssumption ==
  /\ {Unit, Half, Bins, RMax, RBins} \subseteq Nat \ {0}
  /\ RMin \in 0 .. RMax - 1
  /\ \A n \in Orders : n \in 0 .. 6 /\ n % 2 = 0
  /\ {Threshold, Percentage} \subseteq 0 .. 100

VARIABLES
  part,      \* the particles
  home,      \* the rank that holds each of them
  method,    \* Pre/recenter_method
  called,    \* how many functions have been called
  sums       \* the arrays every rank has added up and reduced, by name

vars == <<part, home, method, called, sums>>

-----------------------------------------------------------------------------
\* What the loop of each rank over its own particles adds up in the array Index.
Local(Index, Term(_, _)) ==
  [r \in Rank |-> [i \in Index |->
     SumFunction([p \in Particle |-> IF home[p] = r THEN Term(p, i) ELSE 0])]]

\* MPI_Allreduce in place with MPI_SUM.
Allreduce(array) ==
  [r \in Rank |-> [i \in DOMAIN array[r] |->
                     SumFunction([q \in Rank |-> array[q][i]])]]

Summed(Index, Term(_, _)) == Allreduce(Local(Index, Term))

\* exp(2 i phi) and its powers: quarter turns.
Quarter == <<<<1, 0>>, <<0, 1>>, <<-1, 0>>, <<0, -1>>>>
Compass == <<<<1, 0>>, <<1, 1>>, <<0, 1>>, <<-1, 1>>,
             <<-1, 0>>, <<-1, -1>>, <<0, -1>>, <<1, -1>>>>
Sign(a) == IF a > 0 THEN 1 ELSE IF a < 0 THEN -1 ELSE 0

\* atan2 in eighths of a turn; that of the origin is 0.
Azimuth(p) ==
  IF part[p].x = 0 /\ part[p].y = 0 THEN 0
  ELSE (CHOOSE k \in 1 .. 8 : Compass[k] = <<Sign(part[p].x), Sign(part[p].y)>>) - 1

Phase(p, order) == Quarter[(((order * Azimuth(p)) \div 2) % 4) + 1]

\* Squared moduli keep the order of the moduli.
Square(c) == c[1] * c[1] + c[2] * c[2]

Place(p) == <<part[p].x, part[p].y, part[p].z>>
Axes == {1, 2, 3}
Ones(condition) == IF condition THEN 1 ELSE 0

-----------------------------------------------------------------------------
Init ==
  /\ part \in [Particle -> Sample]
  /\ home \in [Particle -> Rank]
  /\ method \in {"com", "density"}
  /\ called = 0
  /\ sums = [r \in Rank |-> <<>>]

\* The k-th call leaves arrays[n][r] as the array n of every rank r.
Call(k, arrays) ==
  /\ called = k
  /\ called' = k + 1
  /\ sums' = [r \in Rank |->
                [n \in DOMAIN sums[r] \cup DOMAIN arrays |->
                   IF n \in DOMAIN arrays THEN arrays[n][r] ELSE sums[r][n]]]
  /\ UNCHANGED <<part, home, method>>

-----------------------------------------------------------------------------
\* center_of_mass(): both parts of the quotient are reduced.
CenterOfMass ==
  /\ method = "com"
  /\ Call(0, [com |-> Summed(Axes, LAMBDA p, a : part[p].m * Place(p)[a]),
              comMass |-> Summed({"sum"}, LAMBDA p, i : part[p].m)])

\* Without any mass the centre stays what the memset made of it.
Center(r) ==
  [a \in Axes |-> IF sums[r]["comMass"]["sum"] > 0
                    THEN <<sums[r]["com"][a], sums[r]["comMass"]["sum"]>>
                    ELSE <<0, 1>>]

\* Between the bounds of the bins, which are less than the selection lets pass.
Window == -Half .. Half

\* The bin of bin2d: scaled, truncated, and the upper bound in the last one.
Pixel(c) ==
  LET index == ((c + Half) * Bins) \div (2 * Half)
  IN  IF index = Bins THEN index - 1 ELSE index

Pixels == (0 .. Bins - 1) \X (0 .. Bins - 1)

\* Particle p in pixel b of the plane of the axes a1 and a2; bin2d() skips the
\* particles outside.
Inside(p, b, a1, a2) ==
  /\ {Place(p)[a1], Place(p)[a2]} \subseteq Window
  /\ Pixel(Place(p)[a1]) = b[1] /\ Pixel(Place(p)[a2]) = b[2]

\* bin2d() counting the particles.
Counts(a1, a2) == Local(Pixels, LAMBDA p, b : Ones(Inside(p, b, a1, a2)))

\* most_dense_pixel(): two images, reduced row by row, then two searches.
MostDensePixel ==
  /\ method = "density"
  /\ Call(0, [xy |-> Allreduce(Counts(1, 2)), xz |-> Allreduce(Counts(1, 3))])

\* The first of the pixels of S, row by row, that none exceeds.
FirstMaximum(S, image) ==
  CHOOSE b \in S :
    \A c \in S :
      \/ image[c] < image[b]
      \/ image[c] = image[b] /\ (b[1] < c[1] \/ (b[1] = c[1] /\ b[2] <= c[2]))

\* Mutated form of Column: the row of max_y, as in the x-y image.
ColumnOfY(max) == {b \in Pixels : b[1] = max[2]}

\* The z axis is searched at the x of the densest pixel of the x-y image.
Column(max) == {b \in Pixels : b[1] = max[1]}

DensestPixel(r) ==
  LET max == FirstMaximum(Pixels, sums[r]["xy"])
      high == FirstMaximum(Column(max), sums[r]["xz"])
  IN  <<max[1], max[2], high[2]>>

-----------------------------------------------------------------------------
\* Mutated form of Modes: An() without its MPI_Allreduce.
ModesOfRank(orders) ==
  Local(orders \X {1, 2}, LAMBDA p, k : part[p].m * Phase(p, k[1])[k[2]])

\* The sums of one call of An() for each of the orders.
Modes(orders) ==
  Summed(orders \X {1, 2}, LAMBDA p, k : part[p].m * Phase(p, k[1])[k[2]])

Complex(array, i) == <<array[<<i, 1>>], array[<<i, 2>>]>>

\* bar_major_axis(): arg(A2), twice the angle of the axis.
BarMajorAxis == Call(1, [axis |-> Modes({2})])
Axis(r) == Arg(Complex(sums[r]["axis"], 2))

\* s_bar(): the square of |A2 / A0|.
SBar == Call(2, [sbar |-> Modes({0, 2})])
BarStrength(r) ==
  <<Square(Complex(sums[r]["sbar"], 2)), Square(Complex(sums[r]["sbar"], 0))>>

\* s_bar >= bar_threshold; NaN is not.
Strong(r) ==
  LET s == BarStrength(r)
  IN  s[2] # 0 /\ s[1] * 10000 >= s[2] * Threshold * Threshold

\* s_buckle(): the numerator and the denominator reduced, the square of the
\* modulus of their quotient.
SBuckle ==
  Call(3, [buckle |-> Summed({0} \X {1, 2}, LAMBDA p, k :
                               part[p].z * part[p].m * Phase(p, 2)[k[2]]),
           buckleMass |-> Summed({"sum"}, LAMBDA p, i : part[p].m)])
Buckling(r) ==
  <<Square(Complex(sums[r]["buckle"], 0)),
    sums[r]["buckleMass"]["sum"] * sums[r]["buckleMass"]["sum"]>>

Ans == Call(4, [An |-> Modes(Orders)])

-----------------------------------------------------------------------------
Radii == 0 .. RBins - 1
RSquare(p) == part[p].x * part[p].x + part[p].y * part[p].y
InRange(p) ==
  /\ RSquare(p) >= RMin * Unit * RMin * Unit
  /\ RSquare(p) <= RMax * Unit * RMax * Unit

\* (int)(r - min) / bin_size: the cast binds tighter than the division, so r
\* loses its fraction before it is divided.
RadialBin(p) ==
  LET whole == CHOOSE k \in 0 .. RMax - RMin :
                 /\ (k + RMin) * (k + RMin) * Unit * Unit <= RSquare(p)
                 /\ RSquare(p) < (k + RMin + 1) * (k + RMin + 1) * Unit * Unit
      index == (whole * RBins) \div (RMax - RMin)
  IN  IF index = RBins THEN index - 1 ELSE index

InRing(p, i) == InRange(p) /\ RadialBin(p) = i

\* The loop and the reductions of bar_radius(), on the ranks that find a strong
\* bar.  A reduction waits for every rank, so all of them must find it or none.
BarRadius ==
  \/ /\ called = 5
     /\ \A r \in Rank : Strong(r)
     /\ Call(5, [ring |-> Summed(Radii \X {1, 2}, LAMBDA p, k :
                             Ones(InRing(p, k[1])) * part[p].m * Phase(p, 2)[k[2]]),
                 ringMass |-> Summed(Radii, LAMBDA p, i : Ones(InRing(p, i)) * part[p].m)])
  \/ /\ called = 5
     /\ \A r \in Rank : ~Strong(r)
     /\ Call(5, <<>>)

\* a < b for quotients <<square of a numerator, square of a denominator>>:
\* false when one of them is NaN.
Less(a, b) == a[2] # 0 /\ b[2] # 0 /\ a[1] * b[2] < b[1] * a[2]

\* a is at most the given percentage of b.
Down(a, b) ==
  /\ a[2] # 0
  /\ b[2] # 0
  /\ a[1] * 10000 * b[2] <= b[1] * Percentage * Percentage * a[2]

RingStrength(r) ==
  [i \in Radii |-> <<Square(Complex(sums[r]["ring"], i)),
                     sums[r]["ringMass"][i] * sums[r]["ringMass"][i]>>]

\* std::max_element: the first of the largest.  No comparison with NaN is
\* true, so a NaN further on is passed over and one at the start is kept.
MaxElement(s) ==
  IF s[0][2] = 0 THEN 0
  ELSE CHOOSE i \in Radii :
         /\ s[i][2] # 0
         /\ \A j \in Radii : ~Less(s[i], s[j])
         /\ \A j \in 0 .. i - 1 : s[j][2] # 0 => Less(s[j], s[i])

\* The radius a loop breaks off at, as the number of its ring; 0 stands for
\* none, as in the code, where that of bin i is min + (i + 0.5) * bin_size.
FirstOf(S) == IF S = {} THEN 0 ELSE Min(S) + 1

Abs(a) == IF a < 0 THEN -a ELSE a

\* Rbar1: the first ring whose phase differs from the axis by deg or more.  Both
\* are halves of arguments; the difference is not reduced to a half turn.
Radius1(r) ==
  FirstOf({i \in Radii : Abs(Arg(Complex(sums[r]["ring"], i)) - Axis(r)) >= 2 * Degrees})

\* Rbar2: where s_bar is largest.
Radius2(r) == MaxElement(RingStrength(r)) + 1

\* Mutated form of Radius3: from the innermost ring on.
Radius3Anywhere(r) ==
  LET s == RingStrength(r)
  IN  FirstOf({i \in Radii : Down(s[i], s[MaxElement(s)])})

\* Rbar3: from there on, where s_bar has dropped to the percentage of it.
Radius3(r) ==
  LET s == RingStrength(r)
  IN  FirstOf({i \in MaxElement(s) .. RBins - 1 : Down(s[i], s[MaxElement(s)])})

-----------------------------------------------------------------------------
\* The images of one plane, binned from the particles of the rank alone.
Images ==
  Call(6, [number |-> Counts(1, 2),
           mass |-> Local(Pixels, LAMBDA p, b : Ones(Inside(p, b, 1, 2)) * part[p].m),
           velocity |-> Local(Pixels, LAMBDA p, b : Ones(Inside(p, b, 1, 2)) * part[p].v[1])])

\* (unsigned int)(x - lower) / bin_size: again the cast comes first.
TensorBin(c) ==
  LET whole == (c + Half) \div Unit
      index == (whole * Unit * Bins) \div (2 * Half)
  IN  IF index = Bins THEN index - 1 ELSE index

Cells == (0 .. Bins - 1) \X (0 .. Bins - 1) \X (0 .. Bins - 1)
InCell(p, b) ==
  \A a \in Axes : Place(p)[a] \in Window /\ TensorBin(Place(p)[a]) = b[a]

\* dispersion_tensor(): thirteen arrays, all of them reduced.
DispersionTensor ==
  Call(7, [first |-> Summed(Cells \X Axes, LAMBDA p, k :
                              Ones(InCell(p, k[1])) * part[p].v[k[2]]),
           second |-> Summed(Cells \X Axes \X Axes, LAMBDA p, k :
                               Ones(InCell(p, k[1])) * part[p].v[k[2]] * part[p].v[k[3]]),
           count |-> Summed(Cells, LAMBDA p, b : Ones(InCell(p, b)))])

\* <v_i v_j> - <v_i> <v_j>, as one quotient.
Dispersion(r, b, i, j) ==
  LET n == sums[r]["count"][b]
  IN  <<sums[r]["second"][<<b, i, j>>] * n
          - sums[r]["first"][<<b, i>>] * sums[r]["first"][<<b, j>>], n * n>>

\* inertia_tensor(): never reduced.
InertiaTensor ==
  Call(8, [inertia |-> Local(Axes \X Axes, LAMBDA p, k :
             part[p].m * (IF k[1] = k[2]
               THEN SumFunction([a \in Axes \ {k[1]} |-> Place(p)[a] * Place(p)[a]])
               ELSE -(Place(p)[k[1]] * Place(p)[k[2]])))])

Finished == called = 9 /\ UNCHANGED vars

Next ==
  \/ CenterOfMass
  \/ MostDensePixel
  \/ BarMajorAxis
  \/ SBar
  \/ SBuckle
  \/ Ans
  \/ BarRadius
  \/ Images
  \/ DispersionTensor
  \/ InertiaTensor
  \/ Finished

Spec == Init /\ [][Next]_vars
-----------------------------------------------------------------------------
\* The bins the documentation defines: the lower edge is inside, the upper one
\* only of the last bin (development-manual/development.md 582-583).
Between(c, i) ==
  /\ i * 2 * Half <= (c + Half) * Bins
  /\ (c + Half) * Bins < (i + 1) * 2 * Half \/ (i = Bins - 1 /\ c = Half)

Held(b, a1, a2) ==
  Cardinality({p \in Particle : Between(Place(p)[a1], b[1]) /\ Between(Place(p)[a2], b[2])})

InBox(b) == {p \in Particle : \A a \in Axes : Between(Place(p)[a], b[a])}

InAnnulus(i) ==
  {p \in Particle :
     LET edge(k) == (RMin * RBins + k * (RMax - RMin)) * Unit
     IN  /\ edge(i) * edge(i) <= RSquare(p) * RBins * RBins
         /\ \/ RSquare(p) * RBins * RBins < edge(i + 1) * edge(i + 1)
            \/ i = RBins - 1 /\ RSquare(p) = RMax * RMax * Unit * Unit}

\* The width of the cells and of the rings is a whole number of length units.
WholeCells == (2 * Half) % (Bins * Unit) = 0
WholeRings == (RMax - RMin) % RBins = 0

\* sum m f exp(i n phi) over the particles of S, and the sum of their masses.
Fourier(n, S, f) ==
  <<SumFunction([p \in S |-> f[p] * part[p].m * Phase(p, n)[1]]),
    SumFunction([p \in S |-> f[p] * part[p].m * Phase(p, n)[2]])>>
Mass(S) == SumFunction([p \in S |-> part[p].m])

Flat == [p \in Particle |-> 1]
Height == [p \in Particle |-> part[p].z]

\* What the arrays of all ranks hold together.
Together(name, i) == SumFunction([r \in Rank |-> sums[r][name][i]])

Known(name) == \A r \in Rank : name \in DOMAIN sums[r]

\* On every rank the centre of mass, the Fourier modes, the strength of the bar
\* and of its buckling and the dispersion in every cell are those of all the
\* particles (computation.md 21-30 and 50-75), however they are spread: each
\* numerator and denominator needs its own MPI_Allreduce (pre.cpp 25-26,
\* model.cpp 28, 56-57, 214-240).  The tensor, for cells of whole length units.
\* The images and the inertia tensor are not reduced: every rank has a share of
\* them, and only the shares of all ranks together count each particle once, in
\* the pixel whose edges enclose it, if there is one (calculator.cpp 441-540, model.cpp 315-332).
ResultsOfAllParticles ==
  \A r \in Rank :
    /\ Known("com") =>
         \A a \in Axes :
           Center(r)[a][1] * Mass(Particle)
             = Center(r)[a][2] * SumFunction([p \in Particle |-> part[p].m * Place(p)[a]])
    /\ Known("An") =>
         \A n \in Orders : Complex(sums[r]["An"], n) = Fourier(n, Particle, Flat)
    /\ Known("sbar") =>
         BarStrength(r)
           = <<Square(Fourier(2, Particle, Flat)), Mass(Particle) * Mass(Particle)>>
    /\ Known("buckle") =>
         Buckling(r)
           = <<Square(Fourier(2, Particle, Height)), Mass(Particle) * Mass(Particle)>>
    /\ Known("count") /\ WholeCells =>
         \A b \in Cells, i, j \in Axes :
           LET sigma == Dispersion(r, b, i, j)
           IN  /\ sigma[2] = Cardinality(InBox(b)) * Cardinality(InBox(b))
               /\ 2 * sigma[1] = SumFunction([pq \in InBox(b) \X InBox(b) |->
                    (part[pq[1]].v[i] - part[pq[2]].v[i])
                      * (part[pq[1]].v[j] - part[pq[2]].v[j])])
    /\ Known("number") =>
         \A b \in Pixels : Together("number", b) = Held(b, 1, 2)
    /\ Known("inertia") =>
         MapThenSumSet(LAMBDA a : Together("inertia", <<a, a>>), Axes)
           = 2 * SumFunction([p \in Particle |->
                   part[p].m * (RSquare(p) + part[p].z * part[p].z)])

\* What save() finds on the root is the inertia tensor of the whole region
\* (computation.md 84: "summation is over the whole region"); the code of
\* model.cpp 315-332 never reduces it, so that it is the root's own share.
StoredInertia ==
  Known("inertia") =>
    \A i, j \in Axes : sums[Root]["inertia"][<<i, j>>] = Together("inertia", <<i, j>>)

\* The centre found by density is, on every rank, a pixel of the x-y plane that
\* no pixel exceeds in particles of all ranks, and along z a pixel that none of
\* the same x exceeds (computation.md 42-44; pre.cpp 70-90).
PixelIsDensest ==
  Known("xy") =>
    \A r \in Rank, b \in Pixels :
      LET c == DensestPixel(r)
      IN  /\ Held(b, 1, 2) <= Held(<<c[1], c[2]>>, 1, 2)
          /\ b[1] = c[1] => Held(b, 1, 3) <= Held(<<c[1], c[3]>>, 1, 3)

\* Around the circle from one argument to another.
Apart(a, b) == Min({Abs(a - b), 360 - Abs(a - b)})

\* The three radii of a strong bar are those of computation.md 91-97: the first
\* ring that is turned away from the axis, the ring where the bar is strongest,
\* and the first ring outside of it where the strength has dropped to the given
\* percentage (model.cpp 111-132).  Stated for rings of whole length units, none
\* of them empty (an empty first ring is NaN, and std::max_element then stays
\* there; an empty ring has phase 0), and for a bar and rings within 45 degrees
\* of the x axis (the difference of the angles is not reduced to a half turn).
RadiiAsDefined ==
  LET A2 == [i \in Radii |-> Fourier(2, InAnnulus(i), Flat)]
      s == [i \in Radii |-> <<Square(A2[i]), Mass(InAnnulus(i)) * Mass(InAnnulus(i))>>]
      axis == Arg(Fourier(2, Particle, Flat))
  IN  Known("ring") /\ WholeRings /\ (\A i \in Radii : InAnnulus(i) # {}) =>
        \A r \in Rank :
          LET top == Radius2(r) - 1
              end == IF Radius3(r) = 0 THEN RBins ELSE Radius3(r) - 1
          IN  /\ \A i \in Radii : ~Less(s[top], s[i])
              /\ end >= top
              /\ \A i \in top .. end - 1 : ~Down(s[i], s[top])
              /\ end < RBins => Down(s[end], s[top])
              /\ (\A i \in Radii : Abs(Arg(A2[i])) <= 90) /\ Abs(axis) <= 90 =>
                   Radius1(r) = FirstOf({i \in Radii : Apart(Arg(A2[i]), axis) >= 2 * Degrees})
=============================================================================
