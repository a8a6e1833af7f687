--------------------------- MODULE AnalysisProofs ----------------------------
(***************************************************************************)
(* Proofs about the module Analysis, for any number of ranks and any       *)
(* spread of any number of particles over them: what the functions return  *)
(* is what their definition says of all the particles.                     *)
(***************************************************************************)
EXTENDS Analysis, Recursion

-----------------------------------------------------------------------------
(***************************************************************************)
(* The arrays of the analysis functions.                                   *)
(***************************************************************************)

\* What a particle adds to the members of each array.
Modal(orders) ==
  [k \in orders \X {1, 2} |-> [p \in Particle |-> part[p].m * Phase(p, k[1])[k[2]]]]
Counted(a1, a2) == [b \in Pixels |-> [p \in Particle |-> Ones(Inside(p, b, a1, a2))]]
Lever(p, k) ==
  IF k[1] = k[2] THEN SumFunction([a \in Axes \ {k[1]} |-> Place(p)[a] * Place(p)[a]])
  ELSE -(Place(p)[k[1]] * Place(p)[k[2]])
Terms ==
  [com |-> [a \in Axes |-> [p \in Particle |-> part[p].m * Place(p)[a]]],
   comMass |-> [k \in {"sum"} |-> [p \in Particle |-> part[p].m]],
   xy |-> Counted(1, 2),
   xz |-> Counted(1, 3),
   axis |-> Modal({2}),
   sbar |-> Modal({0, 2}),
   buckle |-> [k \in {0} \X {1, 2} |-> [p \in Particle |->
                 part[p].z * part[p].m * Phase(p, 2)[k[2]]]],
   buckleMass |-> [k \in {"sum"} |-> [p \in Particle |-> part[p].m]],
   An |-> Modal(Orders),
   ring |-> [k \in Radii \X {1, 2} |-> [p \in Particle |->
               Ones(InRing(p, k[1])) * part[p].m * Phase(p, 2)[k[2]]]],
   ringMass |-> [k \in Radii |-> [p \in Particle |-> Ones(InRing(p, k)) * part[p].m]],
   number |-> Counted(1, 2),
   mass |-> [b \in Pixels |-> [p \in Particle |-> Ones(Inside(p, b, 1, 2)) * part[p].m]],
   velocity |-> [b \in Pixels |-> [p \in Particle |->
                   Ones(Inside(p, b, 1, 2)) * part[p].v[1]]],
   first |-> [k \in Cells \X Axes |-> [p \in Particle |->
                Ones(InCell(p, k[1])) * part[p].v[k[2]]]],
   second |-> [k \in Cells \X Axes \X Axes |-> [p \in Particle |->
                 Ones(InCell(p, k[1])) * part[p].v[k[2]] * part[p].v[k[3]]]],
   count |-> [b \in Cells |-> [p \in Particle |-> Ones(InCell(p, b))]],
   inertia |-> [k \in Axes \X Axes |-> [p \in Particle |-> part[p].m * Lever(p, k)]]]

\* What the loop of a rank makes of them, and what they sum up to.
Shares(F) ==
  [r \in Rank |-> [k \in DOMAIN F |->
     SumFunction([p \in Particle |-> IF home[p] = r THEN F[k][p] ELSE 0])]]
Totals(F) == [k \in DOMAIN F |-> SumFunction(F[k])]

\* The arrays that no MPI_Allreduce adds up.
Unreduced == {"number", "mass", "velocity", "inertia"}
Result(n) == IF n \in Unreduced THEN Shares(Terms[n]) ELSE [r \in Rank |-> Totals(Terms[n])]

\* The arrays of one call.
Groups == {{"com", "comMass"}, {"xy", "xz"}, {"axis"}, {"sbar"}, {"buckle", "buckleMass"},
           {"An"}, {"ring", "ringMass"}, {"number", "mass", "velocity"},
           {"first", "second", "count"}, {"inertia"}}

\* The arrays are the sums of the terms; those of one call are there together,
\* and the axis before the rings.
Arrays ==
  /\ part \in [Particle -> Sample]
  /\ home \in [Particle -> Rank]
  /\ called \in Nat
  /\ sums = [r \in Rank |-> sums[r]]
  /\ \A r \in Rank :
       /\ \A n \in DOMAIN sums[r] : n \in DOMAIN Terms /\ sums[r][n] = Result(n)[r]
       /\ \A g \in Groups : \A n \in g : n \in DOMAIN sums[r] => g \subseteq DOMAIN sums[r]
       /\ called > 1 => "axis" \in DOMAIN sums[r]
       /\ "ring" \in DOMAIN sums[r] => "axis" \in DOMAIN sums[r]

\* Coordinates and masses are whole numbers, and so are the powers of exp(i phi).
Whole ==
  \A p \in Particle :
    /\ \A a \in Axes : Place(p)[a] \in Int
    /\ part[p].x \in Int /\ part[p].y \in Int /\ part[p].z \in Int
    /\ part[p].m \in Nat /\ part[p].m > 0
    /\ \A a \in Axes : part[p].v[a] \in Int
    /\ \A n \in Nat : \A c \in {1, 2} : Phase(p, n)[c] \in Int

LEMMA AzimuthIsWhole ==
  ASSUME part \in [Particle -> Sample], NEW p \in Particle
  PROVE  Azimuth(p) \in 0 .. 7
<1>1. part[p] \in Sample /\ Half \in Nat
  BY OptionsAssumption
<1>2. /\ part[p].x \in Int /\ part[p].y \in Int /\ part[p].z \in Int
      /\ part[p].x = 0 \/ part[p].y = 0 \/ part[p].x = part[p].y \/ part[p].x = -part[p].y
  BY <1>1, SampleAssumption
<1> DEFINE dir == <<Sign(part[p].x), Sign(part[p].y)>>
<1>3. CASE part[p].x = 0 /\ part[p].y = 0
  BY <1>3 DEF Azimuth
<1>4. CASE ~(part[p].x = 0 /\ part[p].y = 0)
  <2>1. \E k \in 1 .. 8 : Compass[k] = dir
    BY <1>2, <1>4 DEF Compass, Sign
  <2>2. (CHOOSE k \in 1 .. 8 : Compass[k] = dir) \in 1 .. 8
    <3> HIDE DEF dir
    <3>1. QED
      BY <2>1
  <2>3. Azimuth(p) = (CHOOSE k \in 1 .. 8 : Compass[k] = dir) - 1
    BY <1>4 DEF Azimuth
  <2> HIDE DEF dir
  <2>4. QED
    BY <2>2, <2>3
<1>5. QED
  BY <1>3, <1>4

LEMMA PlacesAreWhole ==
  ASSUME part \in [Particle -> Sample]
  PROVE  Whole
<1>1. SUFFICES ASSUME NEW p \in Particle
               PROVE  /\ \A a \in Axes : Place(p)[a] \in Int
                      /\ part[p].x \in Int /\ part[p].y \in Int /\ part[p].z \in Int
                      /\ part[p].m \in Nat /\ part[p].m > 0
                      /\ \A a \in Axes : part[p].v[a] \in Int
                      /\ \A n \in Nat : \A c \in {1, 2} : Phase(p, n)[c] \in Int
  BY DEF Whole
<1>2. part[p] \in Sample /\ Half \in Nat
  BY OptionsAssumption
<1>3. /\ {part[p].x, part[p].y, part[p].z} \subseteq Int
      /\ part[p].v \in [1 .. 3 -> Int]
      /\ part[p].m \in Nat \ {0}
  BY <1>2, SampleAssumption
<1>4. part[p].x \in Int /\ part[p].y \in Int /\ part[p].z \in Int
  BY <1>2, <1>3
<1>5. Azimuth(p) \in 0 .. 7
  BY AzimuthIsWhole
<1>6. ASSUME NEW n \in Nat, NEW c \in {1, 2}
      PROVE  Phase(p, n)[c] \in Int
  <2> DEFINE q == ((n * Azimuth(p)) \div 2) % 4
  <2>1. n * Azimuth(p) \in Int
    BY <1>5
  <2>2. (n * Azimuth(p)) \div 2 \in Int
    BY <2>1
  <2>3. q \in 0 .. 3
    BY <2>2
  <2>4. Phase(p, n) = Quarter[q + 1]
    BY DEF Phase
  <2> HIDE DEF q
  <2>5. QED
    BY <2>3, <2>4 DEF Quarter
<1>7. QED
  BY <1>3, <1>4, <1>6 DEF Place, Axes

LEMMA AxesAreFinite == IsFiniteSet(Axes)
<1> DEFINE one == 1
           three == 3
<1>1. one \in Int /\ three \in Int /\ Axes = one .. three
  BY DEF Axes
<1> HIDE DEF one, three
<1>2. IsFiniteSet(one .. three)
  BY <1>1, FS_Interval
<1>3. QED
  BY <1>1, <1>2

LEMMA TermsAreWhole ==
  ASSUME part \in [Particle -> Sample]
  PROVE  \A n \in DOMAIN Terms : \A k \in DOMAIN Terms[n] : Terms[n][k] \in [Particle -> Int]
<1>1. Whole
  BY PlacesAreWhole
<1>2. \A n \in Orders \cup {0, 2} : n \in Nat
  BY OptionsAssumption
<1>3. \A condition \in BOOLEAN : Ones(condition) \in Int
  BY DEF Ones
<1>4. ASSUME NEW orders \in SUBSET (Orders \cup {0, 2})
      PROVE  \A k \in DOMAIN Modal(orders) : Modal(orders)[k] \in [Particle -> Int]
  <2>1. SUFFICES ASSUME NEW k \in orders \X {1, 2}, NEW p \in Particle
                 PROVE  part[p].m * Phase(p, k[1])[k[2]] \in Int
    BY DEF Modal
  <2>2. k[1] \in Nat /\ k[2] \in {1, 2}
    BY <1>2
  <2>3. part[p].m \in Int /\ Phase(p, k[1])[k[2]] \in Int
    BY <1>1, <2>2 DEF Whole
  <2>4. QED
    BY <2>3
<1>5. ASSUME NEW a1, NEW a2
      PROVE  \A k \in DOMAIN Counted(a1, a2) : Counted(a1, a2)[k] \in [Particle -> Int]
  BY DEF Counted, Ones
<1>6. \A p \in Particle : \A k \in Axes \X Axes : Lever(p, k) \in Int
  <2>1. SUFFICES ASSUME NEW p \in Particle, NEW k \in Axes \X Axes
                 PROVE  Lever(p, k) \in Int
    OBVIOUS
  <2>2. \A a \in Axes : Place(p)[a] \in Int
    BY <1>1 DEF Whole
  <2>3. IsFiniteSet(Axes \ {k[1]})
    <3>1. IsFiniteSet(Axes)
      BY AxesAreFinite
    <3>2. QED
      BY <3>1, FS_Subset
  <2>4. [a \in Axes \ {k[1]} |-> Place(p)[a] * Place(p)[a]] \in [Axes \ {k[1]} -> Int]
    BY <2>2
  <2>5. SumFunction([a \in Axes \ {k[1]} |-> Place(p)[a] * Place(p)[a]]) \in Int
    BY <2>3, <2>4, SumOneMore DEF SumsUp
  <2>6. -(Place(p)[k[1]] * Place(p)[k[2]]) \in Int
    BY <2>2
  <2>7. QED
    BY <2>5, <2>6 DEF Lever
<1>7. DOMAIN Terms = {"com", "comMass", "xy", "xz", "axis", "sbar", "buckle", "buckleMass",
                      "An", "ring", "ringMass", "number", "mass", "velocity", "first",
                      "second", "count", "inertia"}
  BY DEF Terms
<1> DEFINE Fine(F) == \A k \in DOMAIN F : F[k] \in [Particle -> Int]
<1>8. Fine(Terms.com)
  <2>1. Terms.com = [a \in Axes |-> [p \in Particle |-> part[p].m * Place(p)[a]]]
    BY DEF Terms
  <2>2. \A a \in Axes, p \in Particle : part[p].m * Place(p)[a] \in Int
    BY <1>1 DEF Whole
  <2>3. QED
    BY <2>1, <2>2
<1>9. Fine(Terms.comMass) /\ Fine(Terms.buckleMass)
  <2>1. /\ Terms.comMass = [k \in {"sum"} |-> [p \in Particle |-> part[p].m]]
        /\ Terms.buckleMass = [k \in {"sum"} |-> [p \in Particle |-> part[p].m]]
    BY DEF Terms
  <2>2. \A p \in Particle : part[p].m \in Int
    BY <1>1 DEF Whole
  <2>3. QED
    BY <2>1, <2>2
<1>10. Fine(Terms.xy) /\ Fine(Terms.xz) /\ Fine(Terms.number)
  <2>1. /\ Terms.xy = Counted(1, 2) /\ Terms.xz = Counted(1, 3)
        /\ Terms.number = Counted(1, 2)
    BY DEF Terms
  <2> QED
    BY <1>5, <2>1
<1>11. Fine(Terms.axis) /\ Fine(Terms.sbar) /\ Fine(Terms.An)
  <2>1. Terms.axis = Modal({2}) /\ Terms.sbar = Modal({0, 2}) /\ Terms.An = Modal(Orders)
    BY DEF Terms
  <2>2. Fine(Modal({2})) /\ Fine(Modal({0, 2})) /\ Fine(Modal(Orders))
    BY <1>4
  <2> QED
    BY <2>1, <2>2
<1>12. Fine(Terms.buckle)
  <2>1. Terms.buckle = [k \in {0} \X {1, 2} |-> [p \in Particle |->
                          part[p].z * part[p].m * Phase(p, 2)[k[2]]]]
    BY DEF Terms
  <2>2. \A k \in {0} \X {1, 2}, p \in Particle :
          part[p].z * part[p].m * Phase(p, 2)[k[2]] \in Int
    BY <1>1 DEF Whole
  <2>3. QED
    BY <2>1, <2>2
<1>13. Fine(Terms.ring)
  <2>1. Terms.ring = [k \in Radii \X {1, 2} |-> [p \in Particle |->
                        Ones(InRing(p, k[1])) * part[p].m * Phase(p, 2)[k[2]]]]
    BY DEF Terms
  <2>2. \A k \in Radii \X {1, 2}, p \in Particle :
          Ones(InRing(p, k[1])) * part[p].m * Phase(p, 2)[k[2]] \in Int
    BY <1>1 DEF Whole, Ones
  <2>3. QED
    BY <2>1, <2>2
<1>14. Fine(Terms.ringMass)
  <2>1. Terms.ringMass = [k \in Radii |-> [p \in Particle |-> Ones(InRing(p, k)) * part[p].m]]
    BY DEF Terms
  <2>2. \A k \in Radii, p \in Particle : Ones(InRing(p, k)) * part[p].m \in Int
    BY <1>1 DEF Whole, Ones
  <2>3. QED
    BY <2>1, <2>2
<1>15. Fine(Terms.mass)
  <2>1. Terms.mass = [b \in Pixels |-> [p \in Particle |->
                        Ones(Inside(p, b, 1, 2)) * part[p].m]]
    BY DEF Terms
  <2>2. \A b \in Pixels, p \in Particle : Ones(Inside(p, b, 1, 2)) * part[p].m \in Int
    BY <1>1 DEF Whole, Ones
  <2>3. QED
    BY <2>1, <2>2
<1>16. Fine(Terms.velocity)
  <2>1. Terms.velocity = [b \in Pixels |-> [p \in Particle |->
                            Ones(Inside(p, b, 1, 2)) * part[p].v[1]]]
    BY DEF Terms
  <2>2. \A b \in Pixels, p \in Particle : Ones(Inside(p, b, 1, 2)) * part[p].v[1] \in Int
    BY <1>1 DEF Whole, Ones, Axes
  <2>3. QED
    BY <2>1, <2>2
<1>17. Fine(Terms.first)
  <2>1. Terms.first = [k \in Cells \X Axes |-> [p \in Particle |->
                         Ones(InCell(p, k[1])) * part[p].v[k[2]]]]
    BY DEF Terms
  <2>2. \A k \in Cells \X Axes, p \in Particle :
          Ones(InCell(p, k[1])) * part[p].v[k[2]] \in Int
    BY <1>1 DEF Whole, Ones
  <2>3. QED
    BY <2>1, <2>2
<1>18. Fine(Terms.second)
  <2>1. Terms.second = [k \in Cells \X Axes \X Axes |-> [p \in Particle |->
                          Ones(InCell(p, k[1])) * part[p].v[k[2]] * part[p].v[k[3]]]]
    BY DEF Terms
  <2>2. \A k \in Cells \X Axes \X Axes, p \in Particle :
          Ones(InCell(p, k[1])) * part[p].v[k[2]] * part[p].v[k[3]] \in Int
    BY <1>1 DEF Whole, Ones
  <2>3. QED
    BY <2>1, <2>2
<1>19. Fine(Terms.count)
  <2>1. Terms.count = [b \in Cells |-> [p \in Particle |-> Ones(InCell(p, b))]]
    BY DEF Terms
  <2>2. \A b \in Cells, p \in Particle : Ones(InCell(p, b)) \in Int
    BY DEF Ones
  <2>3. QED
    BY <2>1, <2>2
<1>20. Fine(Terms.inertia)
  <2>1. Terms.inertia = [k \in Axes \X Axes |-> [p \in Particle |-> part[p].m * Lever(p, k)]]
    BY DEF Terms
  <2>2. \A k \in Axes \X Axes, p \in Particle : part[p].m * Lever(p, k) \in Int
    BY <1>1, <1>6 DEF Whole
  <2>3. QED
    BY <2>1, <2>2
<1> HIDE DEF Fine
<1>21. \A n \in DOMAIN Terms : Fine(Terms[n])
  BY <1>7, <1>8, <1>9, <1>10, <1>11, <1>12, <1>13, <1>14, <1>15, <1>16, <1>17, <1>18, <1>19,
     <1>20
<1>22. QED
  BY <1>21 DEF Fine

\* What the reduction of the shares leaves on every rank.
LEMMA SharesReduce ==
  ASSUME NEW F, \A k \in DOMAIN F : F[k] \in [Particle -> Int], home \in [Particle -> Rank]
  PROVE  /\ Allreduce(Shares(F)) = [r \in Rank |-> Totals(F)]
         /\ \A k \in DOMAIN F : SumFunction([q \in Rank |-> Shares(F)[q][k]]) = Totals(F)[k]
<1>1. ASSUME NEW k \in DOMAIN F
      PROVE  SumFunction([q \in Rank |-> Shares(F)[q][k]]) = SumFunction(F[k])
  <2>1. F[k] \in [Particle -> Int]
    OBVIOUS
  <2>2. SumFunction([q \in Rank |-> SumFunction([p \in Particle |->
                                      IF home[p] = q THEN F[k][p] ELSE 0])])
          = SumFunction(F[k])
    BY <2>1, RankAssumption, ParticleAssumption, SumSpread
  <2>3. [q \in Rank |-> Shares(F)[q][k]]
          = [q \in Rank |-> SumFunction([p \in Particle |->
                              IF home[p] = q THEN F[k][p] ELSE 0])]
    BY DEF Shares
  <2>4. QED
    BY <2>2, <2>3
<1>2. \A r \in Rank : DOMAIN Shares(F)[r] = DOMAIN F
  BY DEF Shares
<1>3. QED
  BY <1>1, <1>2 DEF Allreduce, Totals

LEMMA GroupsAreDisjoint ==
  \A g, h \in Groups : \A n \in g : n \in h => g = h
BY DEF Groups

\* The results follow from the particles and from where they are.
LEMMA SameResults ==
  ASSUME part' = part, home' = home
  PROVE  /\ \A n : Result(n)' = Result(n)
         /\ DOMAIN Terms' = DOMAIN Terms
<1>1. \A p, n : Phase(p, n)' = Phase(p, n)
  BY DEF Phase, Azimuth
<1>2. \A p : Place(p)' = Place(p)
  BY DEF Place
<1>3. \A p, b, a1, a2 : Inside(p, b, a1, a2)' = Inside(p, b, a1, a2)
  BY <1>2 DEF Inside
<1>4. \A p, k : InRing(p, k)' = InRing(p, k)
  BY DEF InRing, InRange, RadialBin, RSquare
<1>5. \A p, b : InCell(p, b)' = InCell(p, b)
  BY <1>2 DEF InCell
<1>6. \A p, k : Lever(p, k)' = Lever(p, k)
  BY <1>2 DEF Lever
<1>7. \A orders : Modal(orders)' = Modal(orders)
  BY <1>1 DEF Modal
<1>8. \A a1, a2 : Counted(a1, a2)' = Counted(a1, a2)
  BY <1>3 DEF Counted
<1>9. Terms' = Terms
  BY <1>1, <1>2, <1>3, <1>4, <1>5, <1>6, <1>7, <1>8 DEF Terms
<1>10. \A F : Shares(F)' = Shares(F)
  BY DEF Shares
<1>11. QED
  BY <1>9, <1>10 DEF Result, Totals

LEMMA SameArrays ==
  ASSUME Arrays, part' = part, home' = home, called' = called, sums' = sums
  PROVE  Arrays'
BY SameResults DEF Arrays

LEMMA CallKeeps ==
  ASSUME Arrays, NEW k \in Nat, NEW arrays, Call(k, arrays),
         DOMAIN arrays \in Groups \cup {{}}, DOMAIN arrays \subseteq DOMAIN Terms,
         \A n \in DOMAIN arrays : arrays[n] = Result(n),
         k = 1 => "axis" \in DOMAIN arrays,
         "ring" \in DOMAIN arrays => k > 1
  PROVE  Arrays'
<1>1. /\ part' = part /\ home' = home /\ called = k /\ called' = k + 1
      /\ sums' = [r \in Rank |-> [n \in DOMAIN sums[r] \cup DOMAIN arrays |->
                    IF n \in DOMAIN arrays THEN arrays[n][r] ELSE sums[r][n]]]
  BY DEF Call
<1>2. /\ \A n : Result(n)' = Result(n)
      /\ DOMAIN Terms' = DOMAIN Terms
  BY <1>1, SameResults
<1>3. ASSUME NEW r \in Rank
      PROVE  /\ \A n \in DOMAIN sums'[r] : n \in DOMAIN Terms /\ sums'[r][n] = Result(n)[r]
             /\ \A g \in Groups : \A n \in g :
                  n \in DOMAIN sums'[r] => g \subseteq DOMAIN sums'[r]
             /\ called' > 1 => "axis" \in DOMAIN sums'[r]
             /\ "ring" \in DOMAIN sums'[r] => "axis" \in DOMAIN sums'[r]
  <2> DEFINE D == DOMAIN sums[r]
             A == DOMAIN arrays
  <2>1. /\ DOMAIN sums'[r] = D \cup A
        /\ \A n \in D \cup A : sums'[r][n] = IF n \in A THEN arrays[n][r] ELSE sums[r][n]
    BY <1>1
  <2>2. /\ \A n \in D : n \in DOMAIN Terms /\ sums[r][n] = Result(n)[r]
        /\ \A g \in Groups : \A n \in g : n \in D => g \subseteq D
        /\ called > 1 => "axis" \in D
        /\ "ring" \in D => "axis" \in D
    BY DEF Arrays
  <2>3. /\ A \in Groups \cup {{}} /\ A \subseteq DOMAIN Terms
        /\ \A n \in A : arrays[n] = Result(n)
        /\ k = 1 => "axis" \in A
        /\ "ring" \in A => k > 1
    OBVIOUS
  <2> HIDE DEF D, A
  <2>4. \A n \in D \cup A : n \in DOMAIN Terms /\ sums'[r][n] = Result(n)[r]
    BY <2>1, <2>2, <2>3
  <2>5. ASSUME NEW g \in Groups, NEW n \in g, n \in D \cup A
        PROVE  g \subseteq D \cup A
    <3>1. CASE n \in D
      BY <2>2, <3>1
    <3>2. CASE n \in A
      <4>1. A \in Groups
        BY <2>3, <3>2
      <4>2. g = A
        BY <3>2, <4>1, GroupsAreDisjoint
      <4>3. QED
        BY <4>2
    <3>3. QED
      BY <2>5, <3>1, <3>2
  <2>6. /\ called' > 1 => "axis" \in D \cup A
        /\ "ring" \in D \cup A => "axis" \in D \cup A
    BY <1>1, <2>2, <2>3
  <2>7. QED
    BY <2>1, <2>4, <2>5, <2>6
<1>4. sums' = [r \in Rank |-> sums'[r]]
  BY <1>1
<1>5. part \in [Particle -> Sample] /\ home \in [Particle -> Rank]
  BY DEF Arrays
<1>6. part' \in [Particle -> Sample] /\ home' \in [Particle -> Rank] /\ called' \in Nat
  BY <1>1, <1>5
<1>7. ASSUME NEW r \in Rank
      PROVE  \A n \in DOMAIN sums'[r] : n \in DOMAIN Terms' /\ sums'[r][n] = Result(n)'[r]
  BY <1>2, <1>3
<1>8. QED
  BY <1>3, <1>4, <1>6, <1>7 DEF Arrays

LEMMA InitArrays == ASSUME Init PROVE Arrays
<1>1. \A r \in Rank : sums[r] = <<>> /\ DOMAIN sums[r] = {}
  BY DEF Init
<1>2. QED
  BY <1>1 DEF Init, Arrays

LEMMA ReducedOrNot ==
  ASSUME Arrays, NEW n \in DOMAIN Terms
  PROVE  /\ n \notin Unreduced => Allreduce(Shares(Terms[n])) = Result(n)
         /\ n \in Unreduced => Shares(Terms[n]) = Result(n)
<1>1. /\ \A k \in DOMAIN Terms[n] : Terms[n][k] \in [Particle -> Int]
      /\ home \in [Particle -> Rank]
  BY TermsAreWhole DEF Arrays
<1>2. Allreduce(Shares(Terms[n])) = [r \in Rank |-> Totals(Terms[n])]
  BY <1>1, SharesReduce
<1>3. QED
  BY <1>2 DEF Result

LEMMA TermNames ==
  DOMAIN Terms = {"com", "comMass", "xy", "xz", "axis", "sbar", "buckle", "buckleMass",
                  "An", "ring", "ringMass", "number", "mass", "velocity", "first",
                  "second", "count", "inertia"}
BY DEF Terms

LEMMA StepKeepsArrays ==
  ASSUME Arrays, Next
  PROVE  Arrays'
<1>1. CASE CenterOfMass
  <2> DEFINE arrays == [com |-> Summed(Axes, LAMBDA p, a : part[p].m * Place(p)[a]),
                        comMass |-> Summed({"sum"}, LAMBDA p, i : part[p].m)]
  <2>1. Call(0, arrays)
    BY <1>1 DEF CenterOfMass
  <2>2. /\ Local(Axes, LAMBDA p, a : part[p].m * Place(p)[a]) = Shares(Terms["com"])
        /\ Local({"sum"}, LAMBDA p, i : part[p].m) = Shares(Terms["comMass"])
    BY DEF Local, Shares, Terms
  <2>3. arrays["com"] = Result("com") /\ arrays["comMass"] = Result("comMass")
    BY <2>2, ReducedOrNot, TermNames DEF Summed, Unreduced
  <2>4. DOMAIN arrays = {"com", "comMass"}
    OBVIOUS
  <2> HIDE DEF arrays
  <2>5. QED
    BY <2>1, <2>3, <2>4, CallKeeps, TermNames DEF Groups
<1>2. CASE MostDensePixel
  <2> DEFINE arrays == [xy |-> Allreduce(Counts(1, 2)), xz |-> Allreduce(Counts(1, 3))]
  <2>1. Call(0, arrays)
    BY <1>2 DEF MostDensePixel
  <2>2. /\ Counts(1, 2) = Shares(Terms["xy"])
        /\ Counts(1, 3) = Shares(Terms["xz"])
    BY DEF Counts, Local, Shares, Terms, Counted
  <2>3. arrays["xy"] = Result("xy") /\ arrays["xz"] = Result("xz")
    BY <2>2, ReducedOrNot, TermNames DEF Unreduced
  <2>4. DOMAIN arrays = {"xy", "xz"}
    OBVIOUS
  <2> HIDE DEF arrays
  <2>5. QED
    BY <2>1, <2>3, <2>4, CallKeeps, TermNames DEF Groups
<1>3. CASE BarMajorAxis
  <2> DEFINE arrays == [axis |-> Modes({2})]
  <2>1. Call(1, arrays)
    BY <1>3 DEF BarMajorAxis
  <2>2. Modes({2}) = Allreduce(Shares(Terms["axis"]))
    BY DEF Modes, Summed, Local, Shares, Terms, Modal
  <2>3. arrays["axis"] = Result("axis")
    BY <2>2, ReducedOrNot, TermNames DEF Unreduced
  <2>4. DOMAIN arrays = {"axis"}
    OBVIOUS
  <2> HIDE DEF arrays
  <2>5. QED
    BY <2>1, <2>3, <2>4, CallKeeps, TermNames DEF Groups
<1>4. CASE SBar
  <2> DEFINE arrays == [sbar |-> Modes({0, 2})]
  <2>1. Call(2, arrays)
    BY <1>4 DEF SBar
  <2>2. Modes({0, 2}) = Allreduce(Shares(Terms["sbar"]))
    BY DEF Modes, Summed, Local, Shares, Terms, Modal
  <2>3. arrays["sbar"] = Result("sbar")
    BY <2>2, ReducedOrNot, TermNames DEF Unreduced
  <2>4. DOMAIN arrays = {"sbar"}
    OBVIOUS
  <2> HIDE DEF arrays
  <2>5. QED
    BY <2>1, <2>3, <2>4, CallKeeps, TermNames DEF Groups
<1>5. CASE SBuckle
  <2> DEFINE arrays == [buckle |-> Summed({0} \X {1, 2}, LAMBDA p, k :
                               part[p].z * part[p].m * Phase(p, 2)[k[2]]),
                        buckleMass |-> Summed({"sum"}, LAMBDA p, i : part[p].m)]
  <2>1. Call(3, arrays)
    BY <1>5 DEF SBuckle
  <2>2. /\ Local({0} \X {1, 2}, LAMBDA p, k : part[p].z * part[p].m * Phase(p, 2)[k[2]])
             = Shares(Terms["buckle"])
        /\ Local({"sum"}, LAMBDA p, i : part[p].m) = Shares(Terms["buckleMass"])
    <3>1. Local({0} \X {1, 2}, LAMBDA p, k : part[p].z * part[p].m * Phase(p, 2)[k[2]])
            = Shares(Terms["buckle"])
      BY DEF Local, Shares, Terms
    <3>2. Local({"sum"}, LAMBDA p, i : part[p].m) = Shares(Terms["buckleMass"])
      BY DEF Local, Shares, Terms
    <3>3. QED
      BY <3>1, <3>2
  <2>3. arrays["buckle"] = Result("buckle") /\ arrays["buckleMass"] = Result("buckleMass")
    BY <2>2, ReducedOrNot, TermNames DEF Summed, Unreduced
  <2>4. DOMAIN arrays = {"buckle", "buckleMass"}
    OBVIOUS
  <2> HIDE DEF arrays
  <2>5. QED
    BY <2>1, <2>3, <2>4, CallKeeps, TermNames DEF Groups
<1>6. CASE Ans
  <2> DEFINE arrays == [An |-> Modes(Orders)]
  <2>1. Call(4, arrays)
    BY <1>6 DEF Ans
  <2>2. Modes(Orders) = Allreduce(Shares(Terms["An"]))
    BY DEF Modes, Summed, Local, Shares, Terms, Modal
  <2>3. arrays["An"] = Result("An")
    BY <2>2, ReducedOrNot, TermNames DEF Unreduced
  <2>4. DOMAIN arrays = {"An"}
    OBVIOUS
  <2> HIDE DEF arrays
  <2>5. QED
    BY <2>1, <2>3, <2>4, CallKeeps, TermNames DEF Groups
<1>7. CASE BarRadius
  <2> DEFINE arrays == [ring |-> Summed(Radii \X {1, 2}, LAMBDA p, k :
                             Ones(InRing(p, k[1])) * part[p].m * Phase(p, 2)[k[2]]),
                        ringMass |-> Summed(Radii, LAMBDA p, i :
                             Ones(InRing(p, i)) * part[p].m)]
  <2>1. Call(5, arrays) \/ Call(5, <<>>)
    BY <1>7 DEF BarRadius
  <2>2. /\ Local(Radii \X {1, 2}, LAMBDA p, k :
                   Ones(InRing(p, k[1])) * part[p].m * Phase(p, 2)[k[2]])
             = Shares(Terms["ring"])
        /\ Local(Radii, LAMBDA p, i : Ones(InRing(p, i)) * part[p].m)
             = Shares(Terms["ringMass"])
    <3>1. Local(Radii \X {1, 2}, LAMBDA p, k :
                   Ones(InRing(p, k[1])) * part[p].m * Phase(p, 2)[k[2]])
             = Shares(Terms["ring"])
      BY DEF Local, Shares, Terms
    <3>2. Local(Radii, LAMBDA p, i : Ones(InRing(p, i)) * part[p].m)
             = Shares(Terms["ringMass"])
      BY DEF Local, Shares, Terms
    <3>3. QED
      BY <3>1, <3>2
  <2>3. arrays["ring"] = Result("ring") /\ arrays["ringMass"] = Result("ringMass")
    BY <2>2, ReducedOrNot, TermNames DEF Summed, Unreduced
  <2>4. DOMAIN arrays = {"ring", "ringMass"}
    OBVIOUS
  <2>7. DOMAIN <<>> = {}
    OBVIOUS
  <2> HIDE DEF arrays
  <2>5. CASE Call(5, arrays)
    BY <2>3, <2>4, <2>5, CallKeeps, TermNames DEF Groups
  <2>6. CASE Call(5, <<>>)
    BY <2>6, <2>7, CallKeeps
  <2>8. QED
    BY <2>1, <2>5, <2>6
<1>8. CASE Images
  <2> DEFINE arrays ==
        [number |-> Counts(1, 2),
         mass |-> Local(Pixels, LAMBDA p, b : Ones(Inside(p, b, 1, 2)) * part[p].m),
         velocity |-> Local(Pixels, LAMBDA p, b : Ones(Inside(p, b, 1, 2)) * part[p].v[1])]
  <2>1. Call(6, arrays)
    BY <1>8 DEF Images
  <2>2. /\ Counts(1, 2) = Shares(Terms["number"])
        /\ Local(Pixels, LAMBDA p, b : Ones(Inside(p, b, 1, 2)) * part[p].m)
             = Shares(Terms["mass"])
        /\ Local(Pixels, LAMBDA p, b : Ones(Inside(p, b, 1, 2)) * part[p].v[1])
             = Shares(Terms["velocity"])
    BY DEF Counts, Local, Shares, Terms, Counted
  <2>3. /\ arrays["number"] = Result("number") /\ arrays["mass"] = Result("mass")
        /\ arrays["velocity"] = Result("velocity")
    BY <2>2, ReducedOrNot, TermNames DEF Unreduced
  <2>4. DOMAIN arrays = {"number", "mass", "velocity"}
    OBVIOUS
  <2> HIDE DEF arrays
  <2>5. QED
    BY <2>1, <2>3, <2>4, CallKeeps, TermNames DEF Groups
<1>9. CASE DispersionTensor
  <2> DEFINE arrays ==
        [first |-> Summed(Cells \X Axes, LAMBDA p, k :
                              Ones(InCell(p, k[1])) * part[p].v[k[2]]),
         second |-> Summed(Cells \X Axes \X Axes, LAMBDA p, k :
                               Ones(InCell(p, k[1])) * part[p].v[k[2]] * part[p].v[k[3]]),
         count |-> Summed(Cells, LAMBDA p, b : Ones(InCell(p, b)))]
  <2>1. Call(7, arrays)
    BY <1>9 DEF DispersionTensor
  <2>2. /\ Local(Cells \X Axes, LAMBDA p, k : Ones(InCell(p, k[1])) * part[p].v[k[2]])
             = Shares(Terms["first"])
        /\ Local(Cells \X Axes \X Axes, LAMBDA p, k :
                   Ones(InCell(p, k[1])) * part[p].v[k[2]] * part[p].v[k[3]])
             = Shares(Terms["second"])
        /\ Local(Cells, LAMBDA p, b : Ones(InCell(p, b))) = Shares(Terms["count"])
    BY DEF Local, Shares, Terms
  <2>3. /\ arrays["first"] = Result("first") /\ arrays["second"] = Result("second")
        /\ arrays["count"] = Result("count")
    BY <2>2, ReducedOrNot, TermNames DEF Summed, Unreduced
  <2>4. DOMAIN arrays = {"first", "second", "count"}
    OBVIOUS
  <2> HIDE DEF arrays
  <2>5. QED
    BY <2>1, <2>3, <2>4, CallKeeps, TermNames DEF Groups
<1>10. CASE InertiaTensor
  <2> DEFINE arrays ==
        [inertia |-> Local(Axes \X Axes, LAMBDA p, k :
           part[p].m * (IF k[1] = k[2]
             THEN SumFunction([a \in Axes \ {k[1]} |-> Place(p)[a] * Place(p)[a]])
             ELSE -(Place(p)[k[1]] * Place(p)[k[2]])))]
  <2>1. Call(8, arrays)
    BY <1>10 DEF InertiaTensor
  <2>2. arrays["inertia"] = Shares(Terms["inertia"])
    <3>1. Terms["inertia"]
            = [k \in Axes \X Axes |-> [p \in Particle |-> part[p].m * Lever(p, k)]]
      BY DEF Terms
    <3> DEFINE F == Terms["inertia"]
    <3>2. /\ DOMAIN F = Axes \X Axes
          /\ \A k \in Axes \X Axes : \A p \in Particle : F[k][p] = part[p].m * Lever(p, k)
      BY <3>1
    <3> HIDE DEF F
    <3>3. arrays["inertia"] = Local(Axes \X Axes, LAMBDA p, k : part[p].m * Lever(p, k))
      BY DEF Lever
    <3>4. Local(Axes \X Axes, LAMBDA p, k : part[p].m * Lever(p, k)) = Shares(F)
      BY <3>2 DEF Local, Shares
    <3>5. QED
      BY <3>3, <3>4 DEF F
  <2>3. arrays["inertia"] = Result("inertia")
    BY <2>2, ReducedOrNot, TermNames DEF Unreduced
  <2>4. DOMAIN arrays = {"inertia"}
    OBVIOUS
  <2> HIDE DEF arrays
  <2>5. QED
    BY <2>1, <2>3, <2>4, CallKeeps, TermNames DEF Groups
<1>11. CASE Finished
  <2>1. /\ part' = part /\ home' = home /\ called' = called /\ sums' = sums
    BY <1>11 DEF Finished, vars
  <2>2. QED
    BY <2>1, SameArrays
<1>12. QED
  BY <1>1, <1>2, <1>3, <1>4, <1>5, <1>6, <1>7, <1>8, <1>9, <1>10, <1>11 DEF Next

\* Every array a rank holds is what the loop of its function makes of the
\* particles, summed over all of them if the code reduces it and over those of
\* the rank if not, and the arrays of one call are there together.
THEOREM ArraysHold == Spec => []Arrays
<1>1. Arrays /\ UNCHANGED vars => Arrays'
  BY SameArrays DEF vars
<1>2. Arrays /\ [Next]_vars => Arrays'
  BY <1>1, StepKeepsArrays
<1>3. QED
  BY InitArrays, <1>2, PTL DEF Spec

-----------------------------------------------------------------------------
(***************************************************************************)
(* What the sums of all particles are.                                     *)
(***************************************************************************)

LEMMA Arrived ==
  ASSUME Arrays, NEW r \in Rank, NEW n \in DOMAIN sums[r]
  PROVE  /\ n \in DOMAIN Terms
         /\ n \notin Unreduced => sums[r][n] = Totals(Terms[n])
         /\ n \in Unreduced => sums[r][n] = Shares(Terms[n])[r]
<1>1. n \in DOMAIN Terms /\ sums[r][n] = Result(n)[r]
  BY DEF Arrays
<1>2. QED
  BY <1>1 DEF Result

\* The arrays of one call come together.
LEMMA TogetherOrNot ==
  ASSUME Arrays, NEW r \in Rank
  PROVE  /\ "com" \in DOMAIN sums[r] => "comMass" \in DOMAIN sums[r]
         /\ "buckle" \in DOMAIN sums[r] => "buckleMass" \in DOMAIN sums[r]
         /\ "ring" \in DOMAIN sums[r] => "ringMass" \in DOMAIN sums[r] /\ "axis" \in DOMAIN sums[r]
         /\ "count" \in DOMAIN sums[r] => "first" \in DOMAIN sums[r] /\ "second" \in DOMAIN sums[r]
<1>1. /\ \A g \in Groups : \A n \in g : n \in DOMAIN sums[r] => g \subseteq DOMAIN sums[r]
      /\ "ring" \in DOMAIN sums[r] => "axis" \in DOMAIN sums[r]
  BY DEF Arrays
<1>2. /\ {"com", "comMass"} \in Groups /\ {"buckle", "buckleMass"} \in Groups
      /\ {"ring", "ringMass"} \in Groups /\ {"first", "second", "count"} \in Groups
  BY DEF Groups
<1>3. QED
  BY <1>1, <1>2

LEMMA MassIsPositive ==
  ASSUME Arrays
  PROVE  /\ [p \in Particle |-> part[p].m] \in [Particle -> Int]
         /\ Mass(Particle) \in Int /\ Mass(Particle) > 0
<1> DEFINE m == [p \in Particle |-> part[p].m]
<1>1. m \in [Particle -> Int] /\ \A p \in Particle : m[p] > 0
  BY PlacesAreWhole DEF Arrays, Whole
<1>2. Mass(Particle) = SumFunction(m)
  BY DEF Mass
<1> HIDE DEF m
<1>3. SumFunction(m) > 0 /\ SumFunction(m) \in Int
  BY <1>1, ParticleAssumption, SumIsPositive, SumOneMore DEF SumsUp
<1>4. QED
  BY <1>1, <1>2, <1>3 DEF m

LEMMA ModesAreFourier ==
  ASSUME Arrays, NEW orders \in SUBSET (Orders \cup {0, 2}), NEW n \in orders
  PROVE  Complex(Totals(Modal(orders)), n) = Fourier(n, Particle, Flat)
<1>1. n \in Nat
  BY OptionsAssumption
<1>2. \A c \in {1, 2} : \A p \in Particle : part[p].m * Phase(p, n)[c] \in Int /\ part[p].m \in Int
  BY <1>1, PlacesAreWhole DEF Arrays, Whole
<1>3. ASSUME NEW c \in {1, 2}
      PROVE  /\ Totals(Modal(orders))[<<n, c>>]
                  = SumFunction([p \in Particle |-> part[p].m * Phase(p, n)[c]])
             /\ [p \in Particle |-> Flat[p] * part[p].m * Phase(p, n)[c]]
                  = [p \in Particle |-> part[p].m * Phase(p, n)[c]]
  <2>1. \A p \in Particle : Flat[p] * part[p].m = part[p].m
    BY <1>2 DEF Flat
  <2>2. <<n, c>> \in orders \X {1, 2} /\ <<n, c>>[1] = n /\ <<n, c>>[2] = c
    OBVIOUS
  <2>3. QED
    BY <2>1, <2>2 DEF Totals, Modal
<1>4. Fourier(n, Particle, Flat)
        = <<SumFunction([p \in Particle |-> part[p].m * Phase(p, n)[1]]),
            SumFunction([p \in Particle |-> part[p].m * Phase(p, n)[2]])>>
  BY <1>3 DEF Fourier
<1>5. QED
  BY <1>3, <1>4 DEF Complex

\* The mode 0 is the mass.
LEMMA FirstModeIsMass ==
  ASSUME Arrays
  PROVE  /\ Fourier(0, Particle, Flat) = <<Mass(Particle), 0>>
         /\ Square(Fourier(0, Particle, Flat)) = Mass(Particle) * Mass(Particle)
<1>1. \A p \in Particle : Phase(p, 0) = <<1, 0>>
  <2>1. SUFFICES ASSUME NEW p \in Particle
                 PROVE  Phase(p, 0) = <<1, 0>>
    OBVIOUS
  <2>2. Azimuth(p) \in Int
    BY AzimuthIsWhole DEF Arrays
  <2>3. 0 * Azimuth(p) = 0
    BY <2>2
  <2>4. ((0 * Azimuth(p)) \div 2) % 4 = 0
    BY <2>3
  <2>5. QED
    BY <2>4 DEF Phase, Quarter
<1> DEFINE m == [p \in Particle |-> part[p].m]
           z == [p \in Particle |-> 0]
<1>2. m \in [Particle -> Int] /\ Mass(Particle) = SumFunction(m) /\ Mass(Particle) \in Int
  BY MassIsPositive DEF Mass
<1>3. [p \in Particle |-> Flat[p] * part[p].m * Phase(p, 0)[1]] = m
  <2>1. \A p \in Particle : Flat[p] * part[p].m * Phase(p, 0)[1] = m[p]
    BY <1>1, <1>2 DEF Flat
  <2>2. QED
    BY <2>1
<1>4. [p \in Particle |-> Flat[p] * part[p].m * Phase(p, 0)[2]] = z
  <2>1. \A p \in Particle : Flat[p] * part[p].m * Phase(p, 0)[2] = z[p]
    BY <1>1, <1>2 DEF Flat
  <2>2. QED
    BY <2>1
<1>5. Fourier(0, Particle, Flat) = <<SumFunction(m), SumFunction(z)>>
  BY <1>3, <1>4 DEF Fourier
<1>6. SumFunction(z) = 0
  <2> DEFINE none == 0
  <2>1. z \in [Particle -> Int] /\ none \in Int /\ Combined(z, none, m, none, m, Particle)
    BY <1>2 DEF Combined
  <2>2. SumFunction(m) \in Int
    BY <1>2
  <2> HIDE DEF none, m, z
  <2>3. SumFunction(z) = none * SumFunction(m) + none * SumFunction(m)
    BY <1>2, <2>1, ParticleAssumption, SumLinear
  <2>4. QED
    BY <2>2, <2>3 DEF none
<1> HIDE DEF m, z
<1>7. QED
  BY <1>2, <1>5, <1>6 DEF Square

-----------------------------------------------------------------------------
(***************************************************************************)
(* Pixels, cells and the images.                                           *)
(***************************************************************************)

LEMMA QuotientBetween ==
  ASSUME NEW a \in Int, NEW d \in Nat, d > 0, NEW q \in Int
  PROVE  a \div d = q <=> (q * d <= a /\ a < (q + 1) * d)
OBVIOUS

LEMMA TimesLess ==
  ASSUME NEW a \in Int, NEW b \in Int, NEW d \in Nat, d > 0
  PROVE  a * d < b * d <=> a < b
OBVIOUS

LEMMA TimesAtMost ==
  ASSUME NEW a \in Int, NEW b \in Int, NEW d \in Nat, d > 0
  PROVE  a * d <= b * d <=> a <= b
OBVIOUS

LEMMA PixelIsBetween ==
  ASSUME NEW c \in Window, NEW n \in 0 .. Bins - 1
  PROVE  Pixel(c) = n <=> Between(c, n)
<1>1. /\ Half \in Nat /\ Half > 0 /\ Bins \in Nat /\ Bins > 0 /\ c \in Int /\ n \in Int
      /\ c \in -Half .. Half
  BY OptionsAssumption DEF Window
<1> DEFINE a == (c + Half) * Bins
           d == 2 * Half
           j == a \div d
<1>2. a \in Int /\ d \in Nat /\ d > 0 /\ j \in Int
  BY <1>1
<1>3. a <= Bins * d /\ a >= 0 * d /\ (a = Bins * d <=> c = Half)
  <2>1. 0 <= c + Half /\ c + Half <= d
    BY <1>1
  <2>2. 0 * Bins <= (c + Half) * Bins /\ (c + Half) * Bins <= d * Bins
    BY <1>1, <1>2, <2>1, TimesAtMost
  <2>3. (c + Half) * Bins < d * Bins <=> c + Half < d
    BY <1>1, <1>2, TimesLess
  <2>4. QED
    BY <1>1, <1>2, <2>1, <2>2, <2>3
<1>4. Pixel(c) = IF j = Bins THEN j - 1 ELSE j
  BY DEF Pixel
<1>5. Between(c, n) <=> /\ n * d <= a
                        /\ a < (n + 1) * d \/ (n = Bins - 1 /\ c = Half)
  BY <1>1 DEF Between
<1>6. j = n <=> (n * d <= a /\ a < (n + 1) * d)
  BY <1>1, <1>2, QuotientBetween
<1>7. j = Bins <=> (Bins * d <= a /\ a < (Bins + 1) * d)
  BY <1>1, <1>2, QuotientBetween
<1>8. Bins * d < (Bins + 1) * d
  BY <1>1, <1>2
<1>9. n = Bins - 1 => n * d <= Bins * d /\ (n + 1) * d = Bins * d
  BY <1>1, <1>2
<1> HIDE DEF a, d, j
<1>10. CASE c = Half
  <2>1. a = Bins * d /\ j = Bins /\ Pixel(c) = Bins - 1
    BY <1>1, <1>2, <1>3, <1>4, <1>7, <1>8, <1>10
  <2>2. n # Bins - 1 => ~(a < (n + 1) * d) /\ ~Between(c, n)
    <3>1. n # Bins - 1 => (n + 1) * d < Bins * d
      BY <1>1, <1>2, TimesLess
    <3>2. QED
      BY <1>1, <1>2, <1>5, <2>1, <3>1
  <2>3. n = Bins - 1 => Between(c, n)
    BY <1>1, <1>2, <1>5, <1>9, <1>10, <2>1
  <2>4. QED
    BY <2>1, <2>2, <2>3
<1>11. CASE c # Half
  <2>1. j # Bins /\ Pixel(c) = j
    BY <1>1, <1>2, <1>3, <1>4, <1>7, <1>11
  <2>2. QED
    BY <1>5, <1>6, <1>11, <2>1
<1>12. QED
  BY <1>10, <1>11

LEMMA CellIsBetween ==
  ASSUME WholeCells, NEW c \in Window, NEW n \in 0 .. Bins - 1
  PROVE  TensorBin(c) = n <=> Between(c, n)
<1>1. /\ Half \in Nat /\ Half > 0 /\ Bins \in Nat /\ Bins > 0 /\ c \in Int /\ n \in Int
      /\ Unit \in Nat /\ Unit > 0 /\ c \in -Half .. Half
  BY OptionsAssumption DEF Window
<1> DEFINE d == 2 * Half
           k == d \div (Bins * Unit)
           w == k * Unit
           a == c + Half
           whole == a \div Unit
           j == a \div w
<1>2. Bins * Unit \in Nat /\ Bins * Unit > 0 /\ d \in Nat /\ d > 0 /\ a \in Int
  BY <1>1
<1>3. k \in Int /\ d = k * (Bins * Unit)
  BY <1>2 DEF WholeCells
<1>4. k > 0
  BY <1>2, <1>3
<1>5. w \in Nat /\ w > 0 /\ d = w * Bins
  BY <1>1, <1>3, <1>4
<1>6. whole \in Int /\ whole * Unit <= a /\ a < (whole + 1) * Unit
  BY <1>1, <1>2, QuotientBetween
<1>7. \A m \in Int : m * w <= whole * Unit <=> m * w <= a
  <2>1. SUFFICES ASSUME NEW m \in Int
                 PROVE  m * w <= whole * Unit <=> m * w <= a
    OBVIOUS
  <2>2. m * w = (m * k) * Unit /\ m * k \in Int
    BY <1>1, <1>3
  <2> DEFINE mk == m * k
  <2> HIDE DEF whole, a, w, mk
  <2>3. CASE mk * Unit <= a
    <3>1. mk * Unit < (whole + 1) * Unit
      BY <1>1, <1>2, <1>6, <2>2, <2>3 DEF mk
    <3>2. mk < whole + 1
      BY <1>1, <1>6, <2>2, <3>1, TimesLess DEF mk
    <3>3. mk * Unit <= whole * Unit
      BY <1>1, <1>6, <2>2, <3>2, TimesAtMost DEF mk
    <3>4. QED
      BY <2>2, <2>3, <3>3 DEF mk
  <2>4. CASE ~(mk * Unit <= a)
    BY <1>1, <1>2, <1>6, <2>2, <2>4 DEF mk
  <2>5. QED
    BY <2>3, <2>4
<1> DEFINE t == (whole * Unit * Bins) \div d
<1>8. \A m \in Int : t = m <=> (m * w <= a /\ a < (m + 1) * w)
  <2>1. SUFFICES ASSUME NEW m \in Int
                 PROVE  t = m <=> (m * w <= a /\ a < (m + 1) * w)
    OBVIOUS
  <2> DEFINE u == whole * Unit
  <2>2. u \in Int /\ u * Bins \in Int
    BY <1>1, <1>6
  <2>3. t = m <=> (m * d <= u * Bins /\ u * Bins < (m + 1) * d)
    <3>1. t = (u * Bins) \div d
      OBVIOUS
    <3> HIDE DEF u, d, t
    <3>2. QED
      BY <1>2, <2>2, <3>1, QuotientBetween
  <2>4. m * d = (m * w) * Bins /\ (m + 1) * d = ((m + 1) * w) * Bins
    <3> HIDE DEF w, d
    <3>1. QED
      BY <1>1, <1>5
  <2>5. m * w \in Int /\ (m + 1) * w \in Int
    BY <1>5
  <2>6. (m * w) * Bins <= u * Bins <=> m * w <= u
    <3> HIDE DEF w, u
    <3>1. QED
      BY <1>1, <2>2, <2>5, TimesAtMost
  <2>7. u * Bins < ((m + 1) * w) * Bins <=> u < (m + 1) * w
    <3> HIDE DEF w, u
    <3>1. QED
      BY <1>1, <2>2, <2>5, TimesLess
  <2>8. m * w <= u <=> m * w <= a
    BY <1>7
  <2>9. (m + 1) * w <= u <=> (m + 1) * w <= a
    BY <1>7
  <2> HIDE DEF t, d, w, u, a
  <2>10. QED
    BY <1>2, <2>2, <2>3, <2>4, <2>5, <2>6, <2>7, <2>8, <2>9
<1>9. TensorBin(c) = IF t = Bins THEN t - 1 ELSE t
  BY DEF TensorBin
<1>10. Between(c, n) <=> /\ n * w <= a
                         /\ a < (n + 1) * w \/ (n = Bins - 1 /\ c = Half)
  <2>1. Between(c, n) <=> /\ n * d <= a * Bins
                          /\ a * Bins < (n + 1) * d \/ (n = Bins - 1 /\ c = Half)
    BY <1>1 DEF Between
  <2>2. n * d = (n * w) * Bins /\ (n + 1) * d = ((n + 1) * w) * Bins
    <3> HIDE DEF w, d
    <3>1. QED
      BY <1>1, <1>5
  <2>3. n * w \in Int /\ (n + 1) * w \in Int
    BY <1>1, <1>5
  <2> HIDE DEF w, a, d
  <2>4. (n * w) * Bins <= a * Bins <=> n * w <= a
    BY <1>1, <1>2, <2>3, TimesAtMost
  <2>5. a * Bins < ((n + 1) * w) * Bins <=> a < (n + 1) * w
    BY <1>1, <1>2, <2>3, TimesLess
  <2>6. QED
    BY <2>1, <2>2, <2>4, <2>5
<1>11. t \in Int
  <2>1. whole * Unit * Bins \in Int
    BY <1>1, <1>6
  <2>2. QED
    BY <1>2, <2>1
<1>12. /\ t = n <=> (n * w <= a /\ a < (n + 1) * w)
       /\ t = Bins <=> (Bins * w <= a /\ a < (Bins + 1) * w)
  BY <1>1, <1>8
<1>13. a <= Bins * w /\ (a = Bins * w <=> c = Half)
  <2>1. Bins * w = d
    <3> HIDE DEF w, d
    <3>1. QED
      BY <1>1, <1>5
  <2>2. QED
    BY <1>1, <2>1
<1>14. Bins * w < (Bins + 1) * w /\ (n = Bins - 1 => n * w <= Bins * w /\ (n + 1) * w = Bins * w)
  <2> HIDE DEF w
  <2>1. QED
    BY <1>1, <1>5
<1> HIDE DEF a, w, t, d, k, whole, j
<1>15. CASE c = Half
  <2>1. a = Bins * w /\ t = Bins /\ TensorBin(c) = Bins - 1
    BY <1>1, <1>2, <1>5, <1>9, <1>12, <1>13, <1>14, <1>15
  <2>2. n # Bins - 1 => ~Between(c, n)
    <3>1. n # Bins - 1 => (n + 1) * w < Bins * w
      BY <1>1, <1>5, TimesLess
    <3>2. QED
      BY <1>1, <1>2, <1>5, <1>10, <2>1, <3>1
  <2>3. n = Bins - 1 => Between(c, n)
    BY <1>1, <1>2, <1>5, <1>10, <1>14, <1>15, <2>1
  <2>4. QED
    BY <2>1, <2>2, <2>3
<1>16. CASE c # Half
  <2>1. t # Bins /\ TensorBin(c) = t
    BY <1>1, <1>2, <1>5, <1>9, <1>12, <1>13, <1>16
  <2>2. QED
    BY <1>10, <1>12, <1>16, <2>1
<1>17. QED
  BY <1>15, <1>16

LEMMA PlacesAreIntegers ==
  ASSUME Arrays, NEW p \in Particle, NEW a \in Axes
  PROVE  Place(p)[a] \in Int
  BY PlacesAreWhole DEF Arrays, Whole

\* Outside of the window there is no bin.
LEMMA OutsideIsNowhere ==
  ASSUME NEW c \in Int, c \notin Window, NEW n \in 0 .. Bins - 1
  PROVE  ~Between(c, n)
<1>1. Half \in Nat /\ Half > 0 /\ Bins \in Nat /\ Bins > 0 /\ n \in Int
  BY OptionsAssumption
<1> DEFINE a == (c + Half) * Bins
           d == 2 * Half
<1>2. a \in Int /\ d \in Int /\ d > 0 /\ n * d \in Int /\ (n + 1) * d \in Int
  BY <1>1
<1>3. Between(c, n) <=> /\ n * d <= a
                        /\ a < (n + 1) * d \/ (n = Bins - 1 /\ c = Half)
  BY <1>1 DEF Between
<1>4. c # Half
  BY <1>1 DEF Window
<1>5. CASE c < -Half
  <2>1. (c + Half) * Bins < 0 * Bins
    BY <1>1, <1>5, TimesLess
  <2>2. 0 * d <= n * d
    BY <1>1, <1>2, TimesAtMost
  <2> HIDE DEF a, d
  <2>3. a < 0 /\ 0 <= n * d
    BY <1>1, <1>2, <2>1, <2>2 DEF a
  <2>. QED
    BY <1>2, <1>3, <2>3
<1>6. CASE c > Half
  <2>1. d * Bins < (c + Half) * Bins
    BY <1>1, <1>2, <1>6, TimesLess
  <2>2. (n + 1) * d <= Bins * d
    BY <1>1, <1>2, TimesAtMost
  <2>3. d * Bins = Bins * d
    BY <1>1, <1>2
  <2> HIDE DEF a, d
  <2>4. Bins * d < a
    BY <1>2, <2>1, <2>3 DEF a
  <2>5. Bins * d \in Int
    BY <1>1, <1>2
  <2>. QED
    BY <1>2, <1>3, <1>4, <2>2, <2>4, <2>5
<1>. QED
  BY <1>1, <1>5, <1>6 DEF Window

\* The images of the ranks together count every particle once.
LEMMA ImagesCount ==
  ASSUME Arrays, NEW a1 \in Axes, NEW a2 \in Axes, NEW b \in Pixels
  PROVE  SumFunction(Counted(a1, a2)[b]) = Held(b, a1, a2)
<1> DEFINE T == {p \in Particle : Between(Place(p)[a1], b[1]) /\ Between(Place(p)[a2], b[2])}
           f == [p \in Particle |-> Ones(Inside(p, b, a1, a2))]
<1>1. b[1] \in 0 .. Bins - 1 /\ b[2] \in 0 .. Bins - 1
  BY DEF Pixels
<1>2. \A p \in Particle : Inside(p, b, a1, a2) <=> p \in T
  <2>1. ASSUME NEW p \in Particle, NEW a \in Axes, NEW n \in 0 .. Bins - 1
        PROVE  Place(p)[a] \in Window /\ Pixel(Place(p)[a]) = n <=> Between(Place(p)[a], n)
    <3>1. Place(p)[a] \in Int
      BY PlacesAreIntegers
    <3>. QED
      BY <3>1, PixelIsBetween, OutsideIsNowhere
  <2>. QED
    BY <1>1, <2>1 DEF Inside
<1>3. f \in [Particle -> Int] /\ \A p \in Particle : f[p] = IF p \in T THEN 1 ELSE 0
  BY <1>2 DEF Ones
<1>4. Counted(a1, a2)[b] = f
  BY DEF Counted
<1>5. T \in SUBSET Particle /\ Held(b, a1, a2) = Cardinality(T)
  BY DEF Held
<1> HIDE DEF T, f
<1>6. QED
  BY <1>3, <1>4, <1>5, ParticleAssumption, SumOfOnes

LEMMA SharesAddUp ==
  ASSUME Arrays, NEW n \in Unreduced, \A r \in Rank : n \in DOMAIN sums[r],
         NEW k \in DOMAIN Terms[n]
  PROVE  Together(n, k) = SumFunction(Terms[n][k])
<1>1. n \in DOMAIN Terms
  BY TermNames DEF Unreduced
<1>2. \A r \in Rank : sums[r][n] = Shares(Terms[n])[r]
  BY Arrived
<1>3. /\ \A l \in DOMAIN Terms[n] : Terms[n][l] \in [Particle -> Int]
      /\ home \in [Particle -> Rank]
  BY <1>1, TermsAreWhole DEF Arrays
<1>4. SumFunction([q \in Rank |-> Shares(Terms[n])[q][k]]) = Totals(Terms[n])[k]
  BY <1>3, SharesReduce
<1>5. Together(n, k) = SumFunction([q \in Rank |-> Shares(Terms[n])[q][k]])
  <2>1. \A r \in Rank : sums[r][n][k] = Shares(Terms[n])[r][k]
    BY <1>2
  <2>2. QED
    BY <2>1 DEF Together
<1>6. QED
  BY <1>4, <1>5 DEF Totals

-----------------------------------------------------------------------------
(***************************************************************************)
(* The dispersion.                                                         *)
(***************************************************************************)

\* The sum of the products of the differences of all pairs.
Spread(f, g, S) ==
  SumFunction([pq \in S \X S |-> (f[pq[1]] - f[pq[2]]) * (g[pq[1]] - g[pq[2]])])

LEMMA PairsSpread ==
  ASSUME NEW S, IsFiniteSet(S), NEW f \in [S -> Int], NEW g \in [S -> Int], NEW h \in [S -> Int],
         \A x \in S : h[x] = f[x] * g[x]
  PROVE  Spread(f, g, S)
           = 2 * (Cardinality(S) * SumFunction(h) - SumFunction(f) * SumFunction(g))
<1> DEFINE all == [pq \in S \X S |-> (f[pq[1]] - f[pq[2]]) * (g[pq[1]] - g[pq[2]])]
           row(x) == [y \in S |-> all[<<x, y>>]]
           rows == [x \in S |-> SumFunction(row(x))]
           one == [x \in S |-> 1]
           N == Cardinality(S)
           F == SumFunction(f)
           G == SumFunction(g)
           H == SumFunction(h)
<1>1. all \in [S \X S -> Int]
  OBVIOUS
<1>2. SumFunction(all) = SumFunction(rows)
  <2> HIDE DEF all
  <2>1. SumFunction(all) = SumOfRows(all, S, S)
    BY <1>1, SumPairs
  <2>2. QED
    BY <2>1 DEF SumOfRows
<1>3. one \in [S -> Int] /\ SumFunction(one) = N
  <2>1. one \in [S -> Int] /\ \A x \in S : one[x] = IF x \in S THEN 1 ELSE 0
    OBVIOUS
  <2> HIDE DEF one
  <2>2. QED
    BY <2>1, SumOfOnes
<1>4. F \in Int /\ G \in Int /\ H \in Int /\ N \in Int
  BY <1>3, SumOneMore DEF SumsUp
<1>5. \A x \in S : row(x) \in [S -> Int]
  BY <1>1
<1>6. ASSUME NEW x \in S
      PROVE  SumFunction(row(x)) = (f[x] * g[x]) * N - f[x] * G - g[x] * F + H
  <2> DEFINE a == f[x]
             b == g[x]
             ab == a * b
             u == [y \in S |-> ab * one[y] + (-a) * g[y]]
             v == [y \in S |-> (-b) * f[y] + 1 * h[y]]
             un == 1
             w == row(x)
  <2>1. a \in Int /\ b \in Int /\ ab \in Int /\ -a \in Int /\ -b \in Int /\ un \in Int
    OBVIOUS
  <2>2. \A y \in S : one[y] = 1 /\ f[y] \in Int /\ g[y] \in Int /\ h[y] = f[y] * g[y]
    OBVIOUS
  <2>3. /\ u \in [S -> Int] /\ v \in [S -> Int] /\ w \in [S -> Int]
        /\ Combined(u, ab, one, -a, g, S)
        /\ Combined(v, -b, f, un, h, S)
    <3>1. u \in [S -> Int] /\ v \in [S -> Int]
      BY <2>1, <2>2
    <3>2. QED
      BY <1>5, <3>1 DEF Combined
  <2>4. Added(w, u, v, S)
    <3>1. ASSUME NEW y \in S
          PROVE  w[y] = u[y] + v[y]
      <4>1. w[y] = (a - f[y]) * (b - g[y])
        OBVIOUS
      <4>2. u[y] = ab + (-a) * g[y] /\ v[y] = (-b) * f[y] + f[y] * g[y]
        BY <2>1, <2>2
      <4>3. f[y] \in Int /\ g[y] \in Int
        OBVIOUS
      <4> HIDE DEF w, u, v
      <4>4. QED
        BY <2>1, <4>1, <4>2, <4>3
    <3>2. QED
      BY <3>1 DEF Added
  <2> HIDE DEF a, b, ab, u, v, un, w, one, row, all
  <2>5. SumFunction(u) = ab * SumFunction(one) + (-a) * SumFunction(g)
    BY <1>3, <2>1, <2>3, SumLinear
  <2>6. SumFunction(v) = (-b) * SumFunction(f) + un * SumFunction(h)
    BY <2>1, <2>3, SumLinear
  <2>7. SumFunction(w) = SumFunction(u) + SumFunction(v)
    BY <2>3, <2>4, SumPlus
  <2>8. SumFunction(w) = ab * N + (-a) * G + ((-b) * F + un * H)
    BY <1>3, <2>5, <2>6, <2>7
  <2>9. QED
    <3>1. SumFunction(w) = ab * N - a * G - b * F + H
      <4> HIDE DEF F, G, H, N
      <4>1. QED
        BY <1>4, <2>1, <2>8 DEF un
    <3>2. QED
      BY <3>1 DEF ab, a, b, w
<1> DEFINE u == [x \in S |-> N * h[x] + (-G) * f[x]]
           v == [x \in S |-> (-F) * g[x] + H * one[x]]
<1>7. \A x \in S : one[x] = 1 /\ f[x] \in Int /\ g[x] \in Int /\ h[x] = f[x] * g[x]
  OBVIOUS
<1> HIDE DEF row, all, F, G, H, N, one
<1>8. /\ u \in [S -> Int] /\ v \in [S -> Int] /\ rows \in [S -> Int]
      /\ Combined(u, N, h, -G, f, S) /\ Combined(v, -F, g, H, one, S)
      /\ Added(rows, u, v, S)
  <2>1. u \in [S -> Int] /\ v \in [S -> Int]
    BY <1>4, <1>7
  <2>2. \A x \in S : SumFunction(row(x)) \in Int
    BY <1>4, <1>6, <1>7
  <2>3. rows \in [S -> Int]
    BY <2>2
  <2>4. Combined(u, N, h, -G, f, S) /\ Combined(v, -F, g, H, one, S)
    BY DEF Combined
  <2>5. ASSUME NEW x \in S
        PROVE  rows[x] = u[x] + v[x]
    <3>1. rows[x] = (f[x] * g[x]) * N - f[x] * G - g[x] * F + H
      BY <1>6
    <3>2. u[x] = N * (f[x] * g[x]) + (-G) * f[x] /\ v[x] = (-F) * g[x] + H
      BY <1>4, <1>7
    <3>3. f[x] \in Int /\ g[x] \in Int
      OBVIOUS
    <3> HIDE DEF rows, u, v
    <3>4. QED
      BY <1>4, <3>1, <3>2, <3>3
  <2>6. QED
    BY <2>1, <2>3, <2>4, <2>5 DEF Added
<1>9. -G \in Int /\ -F \in Int
  BY <1>4
<1> HIDE DEF u, v, rows
<1>10. SumFunction(u) = N * SumFunction(h) + (-G) * SumFunction(f)
  BY <1>4, <1>8, <1>9, SumLinear
<1>11. SumFunction(v) = (-F) * SumFunction(g) + H * SumFunction(one)
  BY <1>3, <1>4, <1>8, <1>9, SumLinear
<1>12. SumFunction(rows) = SumFunction(u) + SumFunction(v)
  BY <1>8, SumPlus
<1>13. SumFunction(rows) = N * H + (-G) * F + ((-F) * G + H * N)
  BY <1>3, <1>10, <1>11, <1>12 DEF F, G, H
<1>14. SumFunction(rows) = 2 * (N * H - F * G)
  BY <1>4, <1>13
<1>15. SumFunction(all) = Spread(f, g, S)
  BY Zenon DEF all, Spread
<1>16. QED
  BY <1>2, <1>14, <1>15 DEF F, G, H, N

\* The three arrays of a cell are sums over the particles in its box.
LEMMA CellSums ==
  ASSUME Arrays, WholeCells, NEW b \in Cells, NEW j \in Axes, NEW l \in Axes
  PROVE  /\ InBox(b) \subseteq Particle
         /\ \A p \in InBox(b) : part[p].v[j] \in Int /\ part[p].v[l] \in Int
         /\ SumFunction(Terms["count"][b]) = Cardinality(InBox(b))
         /\ SumFunction(Terms["first"][<<b, j>>])
              = SumFunction([p \in InBox(b) |-> part[p].v[j]])
         /\ SumFunction(Terms["second"][<<b, j, l>>])
              = SumFunction([p \in InBox(b) |-> part[p].v[j] * part[p].v[l]])
<1> DEFINE B == InBox(b)
<1>1. B \subseteq Particle
  BY DEF InBox
<1>2. \A p \in Particle : part[p].v[j] \in Int /\ part[p].v[l] \in Int
  BY PlacesAreWhole DEF Arrays, Whole
<1>3. \A p \in Particle : InCell(p, b) <=> p \in B
  <2>1. \A a \in Axes : b[a] \in 0 .. Bins - 1
    BY DEF Cells, Axes
  <2>2. \A p \in Particle, a \in Axes :
          Place(p)[a] \in Window /\ TensorBin(Place(p)[a]) = b[a]
            <=> Between(Place(p)[a], b[a])
    <3>1. \A p \in Particle, a \in Axes : Place(p)[a] \in Int
      BY PlacesAreIntegers
    <3>. QED
      BY <2>1, <3>1, CellIsBetween, OutsideIsNowhere
  <2>3. QED
    BY <2>2 DEF InCell, InBox
<1> HIDE DEF B
<1>4. SumFunction(Terms["count"][b]) = Cardinality(B)
  <2> DEFINE f == [p \in Particle |-> Ones(InCell(p, b))]
  <2>1. Terms["count"][b] = f
    BY DEF Terms
  <2>2. f \in [Particle -> Int] /\ \A p \in Particle : f[p] = IF p \in B THEN 1 ELSE 0
    BY <1>3 DEF Ones
  <2> HIDE DEF f
  <2>3. QED
    BY <1>1, <2>1, <2>2, ParticleAssumption, SumOfOnes
<1>5. SumFunction(Terms["first"][<<b, j>>]) = SumFunction([p \in B |-> part[p].v[j]])
  <2> DEFINE f == [p \in Particle |-> Ones(InCell(p, b)) * part[p].v[j]]
  <2>1. Terms["first"][<<b, j>>] = f
    BY DEF Terms
  <2>2. /\ f \in [Particle -> Int]
        /\ \A p \in Particle \ B : f[p] = 0
        /\ \A p \in B : f[p] = part[p].v[j]
    BY <1>1, <1>2, <1>3 DEF Ones
  <2>3. Part(f, B) = [p \in B |-> part[p].v[j]]
    BY <2>2 DEF Part
  <2> HIDE DEF f
  <2>4. SumFunction(f) = SumFunction(Part(f, B))
    BY <1>1, <2>2, ParticleAssumption, SumOfPart
  <2>5. QED
    BY <2>1, <2>3, <2>4
<1>6. SumFunction(Terms["second"][<<b, j, l>>])
        = SumFunction([p \in B |-> part[p].v[j] * part[p].v[l]])
  <2> DEFINE f == [p \in Particle |-> Ones(InCell(p, b)) * part[p].v[j] * part[p].v[l]]
  <2>1. Terms["second"][<<b, j, l>>] = f
    BY DEF Terms
  <2>2. /\ f \in [Particle -> Int]
        /\ \A p \in Particle \ B : f[p] = 0
        /\ \A p \in B : f[p] = part[p].v[j] * part[p].v[l]
    BY <1>1, <1>2, <1>3 DEF Ones
  <2>3. Part(f, B) = [p \in B |-> part[p].v[j] * part[p].v[l]]
    BY <2>2 DEF Part
  <2> HIDE DEF f
  <2>4. SumFunction(f) = SumFunction(Part(f, B))
    BY <1>1, <2>2, ParticleAssumption, SumOfPart
  <2>5. QED
    BY <2>1, <2>3, <2>4
<1>7. QED
  BY <1>1, <1>2, <1>4, <1>5, <1>6 DEF B

LEMMA DispersionIsOfAll ==
  ASSUME Arrays, WholeCells, NEW r \in Rank, "count" \in DOMAIN sums[r],
         NEW b \in Cells, NEW j \in Axes, NEW l \in Axes
  PROVE  /\ Dispersion(r, b, j, l)[2] = Cardinality(InBox(b)) * Cardinality(InBox(b))
         /\ 2 * Dispersion(r, b, j, l)[1] = SumFunction([pq \in InBox(b) \X InBox(b) |->
                    (part[pq[1]].v[j] - part[pq[2]].v[j])
                      * (part[pq[1]].v[l] - part[pq[2]].v[l])])
<1> DEFINE B == InBox(b)
           N == Cardinality(B)
           f == [p \in B |-> part[p].v[j]]
           g == [p \in B |-> part[p].v[l]]
           h == [p \in B |-> part[p].v[j] * part[p].v[l]]
<1>1. /\ sums[r]["count"] = Totals(Terms["count"])
      /\ sums[r]["first"] = Totals(Terms["first"])
      /\ sums[r]["second"] = Totals(Terms["second"])
  BY Arrived, TogetherOrNot DEF Unreduced
<1>2. /\ DOMAIN Terms["count"] = Cells /\ DOMAIN Terms["first"] = Cells \X Axes
      /\ DOMAIN Terms["second"] = Cells \X Axes \X Axes
  BY DEF Terms
<1>3. /\ sums[r]["count"][b] = SumFunction(Terms["count"][b])
      /\ sums[r]["first"][<<b, j>>] = SumFunction(Terms["first"][<<b, j>>])
      /\ sums[r]["first"][<<b, l>>] = SumFunction(Terms["first"][<<b, l>>])
      /\ sums[r]["second"][<<b, j, l>>] = SumFunction(Terms["second"][<<b, j, l>>])
  BY <1>1, <1>2 DEF Totals
<1>4. /\ B \subseteq Particle
      /\ \A p \in B : part[p].v[j] \in Int /\ part[p].v[l] \in Int
      /\ SumFunction(Terms["count"][b]) = N
      /\ SumFunction(Terms["first"][<<b, j>>]) = SumFunction(f)
      /\ SumFunction(Terms["second"][<<b, j, l>>]) = SumFunction(h)
  BY CellSums
<1>5. SumFunction(Terms["first"][<<b, l>>]) = SumFunction(g)
  BY CellSums
<1>6. Dispersion(r, b, j, l) = <<SumFunction(h) * N - SumFunction(f) * SumFunction(g), N * N>>
  BY <1>3, <1>4, <1>5 DEF Dispersion
<1>7. IsFiniteSet(B)
  BY <1>4, ParticleAssumption, FS_Subset
<1>8. /\ f \in [B -> Int] /\ g \in [B -> Int] /\ h \in [B -> Int]
      /\ \A p \in B : h[p] = f[p] * g[p]
  BY <1>4
<1>9. [pq \in B \X B |-> (part[pq[1]].v[j] - part[pq[2]].v[j])
                            * (part[pq[1]].v[l] - part[pq[2]].v[l])]
        = [pq \in B \X B |-> (f[pq[1]] - f[pq[2]]) * (g[pq[1]] - g[pq[2]])]
  OBVIOUS
<1>10. SumFunction(f) \in Int /\ SumFunction(g) \in Int /\ SumFunction(h) \in Int /\ N \in Int
  <2> HIDE DEF f, g, h, B
  <2>1. N \in Nat
    BY <1>7, FS_CardinalityType
  <2>2. QED
    BY <1>7, <1>8, <2>1, SumOneMore DEF SumsUp
<1> DEFINE D == Dispersion(r, b, j, l)
<1>11. Spread(f, g, B) = 2 * (N * SumFunction(h) - SumFunction(f) * SumFunction(g))
  <2> HIDE DEF B, f, g, h
  <2>1. QED
    BY <1>7, <1>8, PairsSpread
<1>12. D[2] = N * N /\ D[1] = SumFunction(h) * N - SumFunction(f) * SumFunction(g)
  BY <1>6
<1>13. 2 * D[1] = 2 * (N * SumFunction(h) - SumFunction(f) * SumFunction(g))
  <2> HIDE DEF B, N, f, g, h, D
  <2>1. QED
    BY <1>10, <1>12
<1>14. 2 * D[1] = SumFunction([pq \in B \X B |-> (part[pq[1]].v[j] - part[pq[2]].v[j])
                            * (part[pq[1]].v[l] - part[pq[2]].v[l])])
  <2>1. Spread(f, g, B) = SumFunction([pq \in B \X B |-> (part[pq[1]].v[j] - part[pq[2]].v[j])
                                        * (part[pq[1]].v[l] - part[pq[2]].v[l])])
    <3> HIDE DEF B
    <3>1. QED
      BY <1>9, Zenon DEF Spread
  <2>2. QED
    BY <1>11, <1>13, <2>1, Zenon
<1>15. QED
  BY <1>12, <1>14, Zenon

-----------------------------------------------------------------------------
(***************************************************************************)
(* The inertia tensor.                                                     *)
(***************************************************************************)

\* A sum over the three axes.
LEMMA SumOverAxes ==
  ASSUME NEW f \in [Axes -> Int], NEW it, Sums(it, f, Axes)
  PROVE  it[Axes] = f[1] + f[2] + f[3]
<1>1. /\ it[{}] = 0
      /\ \A s \in SUBSET Axes : it[s] \in Int
      /\ \A s \in SUBSET Axes : \A x \in s : it[s] = f[x] + it[s \ {x}]
  BY AxesAreFinite, SumWithout DEF Adds
<1>2. /\ Axes \ {1} = {2, 3} /\ {2, 3} \ {2} = {3} /\ {3} \ {3} = {}
      /\ Axes \in SUBSET Axes /\ {2, 3} \in SUBSET Axes /\ {3} \in SUBSET Axes
      /\ 1 \in Axes /\ 2 \in {2, 3} /\ 3 \in {3}
  BY DEF Axes
<1>3. it[Axes] = f[1] + it[Axes \ {1}]
  BY <1>1, <1>2
<1>4. it[{2, 3}] = f[2] + it[{2, 3} \ {2}]
  BY <1>1, <1>2
<1>5. it[{3}] = f[3] + it[{3} \ {3}]
  BY <1>1, <1>2
<1>6. /\ it[Axes \ {1}] = it[{2, 3}] /\ it[{2, 3} \ {2}] = it[{3}] /\ it[{3} \ {3}] = it[{}]
  BY <1>2, Zenon
<1>7. f[1] \in Int /\ f[2] \in Int /\ f[3] \in Int /\ it[Axes] \in Int
  BY <1>1, <1>2 DEF Axes
<1>8. QED
  BY <1>1, <1>3, <1>4, <1>5, <1>6, <1>7

LEMMA TraceIsASum ==
  ASSUME \A a \in Axes : Together("inertia", <<a, a>>) \in Int
  PROVE  MapThenSumSet(LAMBDA a : Together("inertia", <<a, a>>), Axes)
           = Together("inertia", <<1, 1>>) + Together("inertia", <<2, 2>>)
               + Together("inertia", <<3, 3>>)
<1> DEFINE f == [a \in Axes |-> Together("inertia", <<a, a>>)]
           it == CHOOSE g : g = [s \in SUBSET Axes |->
                   IF s = {} THEN 0
                   ELSE Together("inertia", <<CHOOSE x \in s : TRUE, CHOOSE x \in s : TRUE>>)
                          + g[s \ {CHOOSE x \in s : TRUE}]]
<1>1. PICK g : Sums(g, f, Axes)
  BY AxesAreFinite, SumsExist
<1>2. g = [s \in SUBSET Axes |->
             IF s = {} THEN 0
             ELSE Together("inertia", <<CHOOSE x \in s : TRUE, CHOOSE x \in s : TRUE>>)
                    + g[s \ {CHOOSE x \in s : TRUE}]]
  <2> DEFINE c(s) == CHOOSE x \in s : TRUE
             G == [s \in SUBSET Axes |->
                     IF s = {} THEN 0 ELSE Together("inertia", <<c(s), c(s)>>) + g[s \ {c(s)}]]
  <2>1. \A s \in SUBSET Axes : s # {} => c(s) \in Axes
    BY Zenon
  <2>2. g = [s \in SUBSET Axes |-> IF s = {} THEN 0 ELSE f[c(s)] + g[s \ {c(s)}]]
    BY <1>1, Zenon DEF Sums
  <2>3. \A a \in Axes : f[a] = Together("inertia", <<a, a>>)
    OBVIOUS
  <2> HIDE DEF c, f
  <2>4. g = G
    BY <2>1, <2>2, <2>3
  <2>5. QED
    BY <2>4, Zenon DEF c
<1>3. it = [s \in SUBSET Axes |->
              IF s = {} THEN 0
              ELSE Together("inertia", <<CHOOSE x \in s : TRUE, CHOOSE x \in s : TRUE>>)
                     + it[s \ {CHOOSE x \in s : TRUE}]]
  BY <1>2, Zenon
<1>4. MapThenSumSet(LAMBDA a : Together("inertia", <<a, a>>), Axes) = it[Axes]
  BY DEF MapThenSumSet, MapThenFoldSet
<1> HIDE DEF it
<1>5. Sums(it, f, Axes)
  <2> DEFINE c(s) == CHOOSE x \in s : TRUE
  <2>1. \A s \in SUBSET Axes : s # {} => c(s) \in Axes
    BY Zenon
  <2>2. it = [s \in SUBSET Axes |->
                IF s = {} THEN 0 ELSE Together("inertia", <<c(s), c(s)>>) + it[s \ {c(s)}]]
    BY <1>3, Zenon
  <2>3. \A a \in Axes : f[a] = Together("inertia", <<a, a>>)
    OBVIOUS
  <2> HIDE DEF c, f
  <2>4. it = [s \in SUBSET Axes |-> IF s = {} THEN 0 ELSE f[c(s)] + it[s \ {c(s)}]]
    BY <2>1, <2>2, <2>3
  <2>5. QED
    BY <2>4, Zenon DEF c, Sums
<1>6. f \in [Axes -> Int] /\ \A a \in Axes : f[a] = Together("inertia", <<a, a>>)
  OBVIOUS
<1> HIDE DEF f
<1>7. it[Axes] = f[1] + f[2] + f[3]
  BY <1>5, <1>6, SumOverAxes
<1>8. 1 \in Axes /\ 2 \in Axes /\ 3 \in Axes
  BY DEF Axes
<1>9. QED
  BY <1>4, <1>6, <1>7, <1>8

\* And over two of them.
LEMMA SumOverTwo ==
  ASSUME NEW j, NEW l, j # l, NEW f \in [{j, l} -> Int]
  PROVE  SumFunction(f) = f[j] + f[l]
<1>1. IsFiniteSet({j, l})
  <2>1. IsFiniteSet({})
    BY FS_EmptySet
  <2>2. IsFiniteSet({} \cup {j})
    BY <2>1, FS_AddElement
  <2>3. IsFiniteSet(({} \cup {j}) \cup {l})
    BY <2>2, FS_AddElement
  <2>4. ({} \cup {j}) \cup {l} = {j, l}
    OBVIOUS
  <2>5. QED
    BY <2>3, <2>4, Zenon
<1>2. SumsUp(f, {j, l}) /\ Part(f, {j, l}) = f
  BY <1>1, SumOneMore
<1>3. SumFunction(Part(f, {} \cup {j})) = f[j] + SumFunction(Part(f, {}))
  BY <1>2 DEF SumsUp
<1>4. SumFunction(Part(f, {j} \cup {l})) = f[l] + SumFunction(Part(f, {j}))
  BY <1>2 DEF SumsUp
<1>5. {} \cup {j} = {j} /\ {j} \cup {l} = {j, l}
  OBVIOUS
<1>6. /\ SumFunction(Part(f, {} \cup {j})) = SumFunction(Part(f, {j}))
      /\ SumFunction(Part(f, {j} \cup {l})) = SumFunction(Part(f, {j, l}))
  BY <1>5, Zenon
<1>7. SumFunction(Part(f, {})) = 0
  BY <1>2 DEF SumsUp
<1>8. f[j] \in Int /\ f[l] \in Int
  OBVIOUS
<1>9. SumFunction(Part(f, {j, l})) = SumFunction(f)
  BY <1>2, Zenon
<1>10. SumFunction(Part(f, {j})) = f[j] + 0
  BY <1>3, <1>6, <1>7, Zenon
<1>11. SumFunction(f) = f[l] + SumFunction(Part(f, {j}))
  BY <1>4, <1>6, <1>9, Zenon
<1>12. SumFunction(f) = f[l] + (f[j] + 0)
  BY <1>10, <1>11, Zenon
<1> HIDE DEF SumFunction
<1>13. QED
  BY <1>8, <1>12

LEMMA InertiaIsOfAll ==
  ASSUME Arrays, Known("inertia")
  PROVE  MapThenSumSet(LAMBDA a : Together("inertia", <<a, a>>), Axes)
           = 2 * SumFunction([p \in Particle |-> part[p].m * (RSquare(p) + part[p].z * part[p].z)])
<1> DEFINE F(a) == [p \in Particle |-> part[p].m * Lever(p, <<a, a>>)]
           X(p) == part[p].x * part[p].x
           Y(p) == part[p].y * part[p].y
           Z(p) == part[p].z * part[p].z
           I == [p \in Particle |-> part[p].m * (RSquare(p) + part[p].z * part[p].z)]
           S == [p \in Particle |-> part[p].m * (X(p) + Y(p) + 2 * Z(p))]
<1>1. \A p \in Particle : /\ part[p].x \in Int /\ part[p].y \in Int /\ part[p].z \in Int
                          /\ part[p].m \in Int
  BY PlacesAreWhole DEF Arrays, Whole
<1>2. \A a \in Axes : Together("inertia", <<a, a>>) = SumFunction(F(a))
  <2>1. Terms["inertia"] = [k \in Axes \X Axes |-> [p \in Particle |-> part[p].m * Lever(p, k)]]
    BY DEF Terms
  <2>2. \A a \in Axes : /\ <<a, a>> \in DOMAIN Terms["inertia"]
                        /\ Terms["inertia"][<<a, a>>] = F(a)
    BY <2>1
  <2>3. /\ "inertia" \in Unreduced
        /\ \A r \in Rank : "inertia" \in DOMAIN sums[r]
    BY DEF Unreduced, Known
  <2> HIDE DEF F
  <2>4. QED
    BY <2>2, <2>3, SharesAddUp
<1>3. ASSUME NEW p \in Particle
      PROVE  /\ Lever(p, <<1, 1>>) = Y(p) + Z(p)
             /\ Lever(p, <<2, 2>>) = X(p) + Z(p)
             /\ Lever(p, <<3, 3>>) = X(p) + Y(p)
  <2> DEFINE sq(a) == Place(p)[a] * Place(p)[a]
  <2>1. sq(1) = X(p) /\ sq(2) = Y(p) /\ sq(3) = Z(p)
    BY DEF Place
  <2>2. X(p) \in Int /\ Y(p) \in Int /\ Z(p) \in Int
    BY <1>1
  <2>3. /\ Lever(p, <<1, 1>>) = SumFunction([a \in Axes \ {1} |-> sq(a)])
        /\ Lever(p, <<2, 2>>) = SumFunction([a \in Axes \ {2} |-> sq(a)])
        /\ Lever(p, <<3, 3>>) = SumFunction([a \in Axes \ {3} |-> sq(a)])
    BY DEF Lever
  <2>4. Axes \ {1} = {2, 3} /\ Axes \ {2} = {1, 3} /\ Axes \ {3} = {1, 2}
    BY DEF Axes
  <2> DEFINE f(T) == [a \in T |-> sq(a)]
  <2>5. /\ SumFunction(f(Axes \ {1})) = SumFunction(f({2, 3}))
        /\ SumFunction(f(Axes \ {2})) = SumFunction(f({1, 3}))
        /\ SumFunction(f(Axes \ {3})) = SumFunction(f({1, 2}))
    BY <2>4, Zenon
  <2>6. ASSUME NEW j \in Axes, NEW l \in Axes, j # l
        PROVE  SumFunction(f({j, l})) = sq(j) + sq(l)
    <3>1. \A a \in Axes : sq(a) \in Int
      BY <2>1, <2>2 DEF Axes
    <3>2. f({j, l}) \in [{j, l} -> Int] /\ f({j, l})[j] = sq(j) /\ f({j, l})[l] = sq(l)
      BY <3>1
    <3> HIDE DEF f, sq
    <3>3. QED
      BY <2>6, <3>2, SumOverTwo
  <2>7. 1 \in Axes /\ 2 \in Axes /\ 3 \in Axes
    BY DEF Axes
  <2>8. /\ SumFunction(f({2, 3})) = sq(2) + sq(3)
        /\ SumFunction(f({1, 3})) = sq(1) + sq(3)
        /\ SumFunction(f({1, 2})) = sq(1) + sq(2)
    <3> HIDE DEF f, sq
    <3>1. QED
      BY <2>6, <2>7
  <2>9. QED
    BY <2>1, <2>3, <2>5, <2>8
<1>4. /\ F(1) \in [Particle -> Int] /\ F(2) \in [Particle -> Int] /\ F(3) \in [Particle -> Int]
      /\ S \in [Particle -> Int] /\ I \in [Particle -> Int]
  BY <1>1, <1>3 DEF RSquare
<1>5. \A p \in Particle : /\ X(p) \in Int /\ Y(p) \in Int /\ Z(p) \in Int
                          /\ RSquare(p) = X(p) + Y(p)
  BY <1>1 DEF RSquare
<1>6. /\ \A p \in Particle : /\ F(1)[p] = part[p].m * (Y(p) + Z(p))
                             /\ F(2)[p] = part[p].m * (X(p) + Z(p))
                             /\ F(3)[p] = part[p].m * (X(p) + Y(p))
                             /\ S[p] = part[p].m * (X(p) + Y(p) + 2 * Z(p))
                             /\ I[p] = part[p].m * (X(p) + Y(p) + Z(p))
  <2>1. \A p \in Particle : F(1)[p] = part[p].m * (Y(p) + Z(p))
    BY <1>3
  <2>2. \A p \in Particle : F(2)[p] = part[p].m * (X(p) + Z(p))
    BY <1>3
  <2>3. \A p \in Particle : F(3)[p] = part[p].m * (X(p) + Y(p))
    BY <1>3
  <2>4. \A p \in Particle : S[p] = part[p].m * (X(p) + Y(p) + 2 * Z(p))
    OBVIOUS
  <2>5. \A p \in Particle : I[p] = part[p].m * (X(p) + Y(p) + Z(p))
    BY <1>5
  <2>6. QED
    BY <2>1, <2>2, <2>3, <2>4, <2>5
<1> HIDE DEF F, S, I, X, Y, Z
<1>7. Added(S, F(1), F(2), Particle)
  BY <1>1, <1>5, <1>6 DEF Added
<1>8. SumFunction(S) = SumFunction(F(1)) + SumFunction(F(2))
  BY <1>4, <1>7, ParticleAssumption, SumPlus
<1> DEFINE W == [p \in Particle |-> 2 * I[p]]
           two == 2
           none == 0
<1>9. /\ W \in [Particle -> Int] /\ two \in Int /\ none \in Int
      /\ Combined(W, two, I, none, I, Particle)
  BY <1>4 DEF Combined
<1>10. Added(W, S, F(3), Particle)
  BY <1>1, <1>5, <1>6 DEF Added
<1>11. SumFunction(I) \in Int /\ SumFunction(S) \in Int
       /\ SumFunction(F(1)) \in Int /\ SumFunction(F(2)) \in Int /\ SumFunction(F(3)) \in Int
  BY <1>4, ParticleAssumption, SumOneMore DEF SumsUp
<1> HIDE DEF W, two, none
<1>12. SumFunction(W) = two * SumFunction(I) + none * SumFunction(I)
  BY <1>4, <1>9, ParticleAssumption, SumLinear
<1>13. SumFunction(W) = SumFunction(S) + SumFunction(F(3))
  BY <1>4, <1>9, <1>10, ParticleAssumption, SumPlus
<1>14. 1 \in Axes /\ 2 \in Axes /\ 3 \in Axes
  BY DEF Axes
<1>15. \A a \in Axes : Together("inertia", <<a, a>>) \in Int
  BY <1>2, <1>11 DEF Axes
<1>16. MapThenSumSet(LAMBDA a : Together("inertia", <<a, a>>), Axes)
         = Together("inertia", <<1, 1>>) + Together("inertia", <<2, 2>>)
             + Together("inertia", <<3, 3>>)
  BY <1>15, TraceIsASum
<1>17. Together("inertia", <<1, 1>>) + Together("inertia", <<2, 2>>)
             + Together("inertia", <<3, 3>>) = 2 * SumFunction(I)
  BY <1>2, <1>8, <1>11, <1>12, <1>13, <1>14 DEF two, none
<1>18. QED
  BY <1>16, <1>17, Zenon DEF I

-----------------------------------------------------------------------------
\* Whatever the number of ranks and however the particles are spread over them,
\* every rank derives the centre of mass, the modes, the strengths of bar and
\* buckling and the dispersion of all the particles, and the unreduced images
\* and inertia tensors of all ranks together count each particle once.
THEOREM ResultsAreOfAll == Spec => []ResultsOfAllParticles
<1>1. ASSUME Arrays
      PROVE  ResultsOfAllParticles
  <2>1. ASSUME NEW r \in Rank, Known("com"), NEW a \in Axes
        PROVE  Center(r)[a][1] * Mass(Particle)
                 = Center(r)[a][2] * SumFunction([p \in Particle |-> part[p].m * Place(p)[a]])
    <3> DEFINE M == Mass(Particle)
               C == SumFunction([p \in Particle |-> part[p].m * Place(p)[a]])
    <3>1. "com" \in DOMAIN sums[r] /\ "comMass" \in DOMAIN sums[r]
      BY <2>1, <1>1, TogetherOrNot DEF Known
    <3>2. sums[r]["com"] = Totals(Terms["com"]) /\ sums[r]["comMass"] = Totals(Terms["comMass"])
      BY <1>1, <3>1, Arrived DEF Unreduced
    <3>3. sums[r]["comMass"]["sum"] = M
      BY <3>2 DEF Totals, Terms, Mass
    <3>4. sums[r]["com"][a] = C
      BY <3>2 DEF Totals, Terms
    <3>5. M \in Int /\ M > 0
      BY <1>1, MassIsPositive
    <3>6. C \in Int
      <4> DEFINE f == [p \in Particle |-> part[p].m * Place(p)[a]]
      <4>1. f \in [Particle -> Int]
        BY <1>1, PlacesAreWhole DEF Arrays, Whole
      <4> HIDE DEF f
      <4>2. SumFunction(f) \in Int
        BY <4>1, ParticleAssumption, SumOneMore DEF SumsUp
      <4>3. QED
        BY <4>2 DEF f
    <3> HIDE DEF M, C
    <3>7. Center(r)[a] = <<C, M>>
      BY <3>3, <3>4, <3>5 DEF Center
    <3>8. Center(r)[a][1] * M = Center(r)[a][2] * C
      BY <3>5, <3>6, <3>7
    <3>9. QED
      BY <3>8 DEF M, C
  <2>2. ASSUME NEW r \in Rank, Known("An"), NEW n \in Orders
        PROVE  Complex(sums[r]["An"], n) = Fourier(n, Particle, Flat)
    <3>1. sums[r]["An"] = Totals(Terms["An"])
      BY <1>1, <2>2, Arrived DEF Known, Unreduced
    <3>2. Terms["An"] = Modal(Orders)
      BY DEF Terms
    <3>3. QED
      BY <1>1, <3>1, <3>2, ModesAreFourier
  <2>3. ASSUME NEW r \in Rank, Known("sbar")
        PROVE  BarStrength(r)
                 = <<Square(Fourier(2, Particle, Flat)), Mass(Particle) * Mass(Particle)>>
    <3>1. sums[r]["sbar"] = Totals(Terms["sbar"])
      BY <1>1, <2>3, Arrived DEF Known, Unreduced
    <3>2. Terms["sbar"] = Modal({0, 2})
      BY DEF Terms
    <3>3. /\ Complex(sums[r]["sbar"], 2) = Fourier(2, Particle, Flat)
          /\ Complex(sums[r]["sbar"], 0) = Fourier(0, Particle, Flat)
      BY <1>1, <3>1, <3>2, ModesAreFourier
    <3>4. QED
      BY <1>1, <3>3, FirstModeIsMass DEF BarStrength
  <2>4. ASSUME NEW r \in Rank, Known("buckle")
        PROVE  Buckling(r)
                 = <<Square(Fourier(2, Particle, Height)), Mass(Particle) * Mass(Particle)>>
    <3>1. "buckle" \in DOMAIN sums[r] /\ "buckleMass" \in DOMAIN sums[r]
      BY <2>4, <1>1, TogetherOrNot DEF Known
    <3>2. /\ sums[r]["buckle"] = Totals(Terms["buckle"])
          /\ sums[r]["buckleMass"] = Totals(Terms["buckleMass"])
      BY <1>1, <3>1, Arrived DEF Unreduced
    <3>3. sums[r]["buckleMass"]["sum"] = Mass(Particle)
      BY <3>2 DEF Totals, Terms, Mass
    <3>4. /\ sums[r]["buckle"][<<0, 1>>]
               = SumFunction([p \in Particle |-> Height[p] * part[p].m * Phase(p, 2)[1]])
          /\ sums[r]["buckle"][<<0, 2>>]
               = SumFunction([p \in Particle |-> Height[p] * part[p].m * Phase(p, 2)[2]])
      BY <3>2 DEF Totals, Terms, Height
    <3>5. Complex(sums[r]["buckle"], 0) = Fourier(2, Particle, Height)
      BY <3>4 DEF Complex, Fourier
    <3>6. QED
      BY <3>3, <3>5 DEF Buckling
  <2>5. ASSUME NEW r \in Rank, Known("count"), WholeCells,
               NEW b \in Cells, NEW i \in Axes, NEW j \in Axes
        PROVE  LET sigma == Dispersion(r, b, i, j)
               IN  /\ sigma[2] = Cardinality(InBox(b)) * Cardinality(InBox(b))
                   /\ 2 * sigma[1] = SumFunction([pq \in InBox(b) \X InBox(b) |->
                        (part[pq[1]].v[i] - part[pq[2]].v[i])
                          * (part[pq[1]].v[j] - part[pq[2]].v[j])])
    <3>1. "count" \in DOMAIN sums[r]
      BY <2>5 DEF Known
    <3>2. QED
      BY <1>1, <2>5, <3>1, DispersionIsOfAll
  <2>6. ASSUME Known("number"), NEW b \in Pixels
        PROVE  Together("number", b) = Held(b, 1, 2)
    <3>1. Terms["number"] = Counted(1, 2) /\ DOMAIN Counted(1, 2) = Pixels
      BY DEF Terms, Counted
    <3>2. Together("number", b) = SumFunction(Counted(1, 2)[b])
      BY <1>1, <2>6, <3>1, SharesAddUp DEF Known, Unreduced
    <3>3. 1 \in Axes /\ 2 \in Axes
      BY DEF Axes
    <3>4. QED
      BY <1>1, <3>2, <3>3, ImagesCount
  <2>7. Known("inertia") =>
          MapThenSumSet(LAMBDA a : Together("inertia", <<a, a>>), Axes)
            = 2 * SumFunction([p \in Particle |->
                    part[p].m * (RSquare(p) + part[p].z * part[p].z)])
    BY <1>1, InertiaIsOfAll
  <2>8. QED
    BY <2>1, <2>2, <2>3, <2>4, <2>5, <2>6, <2>7 DEF ResultsOfAllParticles
<1>2. QED
  BY ArraysHold, <1>1, PTL

-----------------------------------------------------------------------------
(***************************************************************************)
(* The densest pixel.                                                      *)
(***************************************************************************)

\* Pixel c comes after b in the order of the search.
After(image, b, c) ==
  \/ image[c] < image[b]
  \/ image[c] = image[b] /\ (b[1] < c[1] \/ (b[1] = c[1] /\ b[2] <= c[2]))

LEMMA SearchFinds ==
  ASSUME NEW S, S \subseteq Pixels, IsFiniteSet(S), S # {}, NEW image,
         \A b \in S : image[b] \in Int
  PROVE  /\ FirstMaximum(S, image) \in S
         /\ \A c \in S : image[c] <= image[FirstMaximum(S, image)]
<1> DEFINE P == {s \in SUBSET S : s = {} \/ \E b \in s : \A c \in s : After(image, b, c)}
<1>1. \A b \in S : b[1] \in Int /\ b[2] \in Int /\ image[b] \in Int
  BY OptionsAssumption DEF Pixels
<1>2. \A b, c, d \in S :
        /\ After(image, b, b)
        /\ After(image, b, c) \/ After(image, c, b)
        /\ After(image, b, c) /\ After(image, c, d) => After(image, b, d)
  BY <1>1 DEF After
<1>3. {} \in P
  OBVIOUS
<1>4. ASSUME NEW s \in SUBSET S, NEW x \in S \ s, s \in P
      PROVE  s \cup {x} \in P
  <2>1. CASE s = {}
    BY <1>2, <2>1
  <2>2. CASE s # {}
    <3>1. PICK b \in s : \A c \in s : After(image, b, c)
      BY <1>4, <2>2
    <3>2. b \in S /\ x \in S
      OBVIOUS
    <3>3. CASE After(image, b, x)
      BY <3>1, <3>3
    <3>4. CASE ~After(image, b, x)
      <4>1. After(image, x, b)
        BY <1>2, <3>2, <3>4
      <4>2. \A c \in s : After(image, x, c)
        BY <1>2, <3>1, <3>2, <4>1
      <4>3. \A c \in s \cup {x} : After(image, x, c)
        BY <1>2, <3>2, <4>2
      <4>4. QED
        BY <4>3
    <3>5. QED
      BY <3>3, <3>4
  <2>3. QED
    BY <2>1, <2>2
<1>5. \A s \in SUBSET S : s \in P
  <2> HIDE DEF P
  <2>1. QED
    BY <1>3, <1>4, OneByOne
<1>6. \E b \in S : \A c \in S : After(image, b, c)
  BY <1>5
<1>7. FirstMaximum(S, image) = CHOOSE b \in S : \A c \in S : After(image, b, c)
  BY DEF FirstMaximum, After
<1>8. FirstMaximum(S, image) \in S /\ \A c \in S : After(image, FirstMaximum(S, image), c)
  BY <1>6, <1>7, Zenon
<1>9. QED
  BY <1>1, <1>8 DEF After

\* However the particles are spread over the ranks, the centre that every rank
\* finds by density is the densest pixel of all the particles, and along z the
\* densest one at its x.
THEOREM DensestIsOfAll == Spec => []PixelIsDensest
<1>1. ASSUME Arrays
      PROVE  PixelIsDensest
  <2>1. SUFFICES ASSUME Known("xy"), NEW r \in Rank, NEW b \in Pixels
                 PROVE  LET c == DensestPixel(r)
                        IN  /\ Held(b, 1, 2) <= Held(<<c[1], c[2]>>, 1, 2)
                            /\ b[1] = c[1] => Held(b, 1, 3) <= Held(<<c[1], c[3]>>, 1, 3)
    BY DEF PixelIsDensest
  <2> DEFINE xy == sums[r]["xy"]
             xz == sums[r]["xz"]
             max == FirstMaximum(Pixels, xy)
             high == FirstMaximum(Column(max), xz)
  <2>2. "xy" \in DOMAIN sums[r] /\ "xz" \in DOMAIN sums[r]
    <3>1. {"xy", "xz"} \in Groups
      BY DEF Groups
    <3>2. QED
      BY <1>1, <2>1, <3>1 DEF Known, Arrays
  <2>3. xy = Totals(Terms["xy"]) /\ xz = Totals(Terms["xz"])
    BY <1>1, <2>2, Arrived DEF Unreduced
  <2>4. \A d \in Pixels : xy[d] = Held(d, 1, 2) /\ xz[d] = Held(d, 1, 3)
    <3>1. /\ Terms["xy"] = Counted(1, 2) /\ Terms["xz"] = Counted(1, 3)
          /\ DOMAIN Counted(1, 2) = Pixels /\ DOMAIN Counted(1, 3) = Pixels
      BY DEF Terms, Counted
    <3>2. 1 \in Axes /\ 2 \in Axes /\ 3 \in Axes
      BY DEF Axes
    <3>3. \A d \in Pixels : /\ xy[d] = SumFunction(Counted(1, 2)[d])
                            /\ xz[d] = SumFunction(Counted(1, 3)[d])
      BY <2>3, <3>1 DEF Totals
    <3>4. QED
      BY <1>1, <3>2, <3>3, ImagesCount
  <2>5. \A d \in Pixels : Held(d, 1, 2) \in Int /\ Held(d, 1, 3) \in Int
    <3>1. \A T \in SUBSET Particle : Cardinality(T) \in Nat
      BY ParticleAssumption, FS_Subset, FS_CardinalityType
    <3>2. QED
      BY <3>1 DEF Held
  <2>6. IsFiniteSet(Pixels)
    <3> DEFINE zero == 0
               last == Bins - 1
    <3>1. zero \in Int /\ last \in Int /\ Pixels = (zero .. last) \X (zero .. last)
      BY OptionsAssumption DEF Pixels
    <3> HIDE DEF zero, last
    <3>2. IsFiniteSet(zero .. last)
      BY <3>1, FS_Interval
    <3>3. IsFiniteSet((zero .. last) \X (zero .. last))
      BY <3>2, FS_Product
    <3>4. QED
      BY <3>1, <3>3, Zenon
  <2>7. DensestPixel(r) = <<max[1], max[2], high[2]>>
    BY DEF DensestPixel
  <2> HIDE DEF max, xy, xz
  <2>8. max \in Pixels /\ \A d \in Pixels : xy[d] <= xy[max]
    BY <2>1, <2>4, <2>5, <2>6, SearchFinds DEF max
  <2> DEFINE col == Column(max)
  <2>9. col \subseteq Pixels /\ max \in col /\ IsFiniteSet(col)
    <3>1. col \subseteq Pixels /\ max \in col
      BY <2>8 DEF Column
    <3>2. QED
      BY <2>6, <3>1, FS_Subset
  <2>10. high \in col /\ \A d \in col : xz[d] <= xz[high]
    <3> HIDE DEF col
    <3>1. high = FirstMaximum(col, xz)
      BY DEF col
    <3>2. col # {} /\ \A d \in col : xz[d] \in Int
      BY <2>4, <2>5, <2>9
    <3> HIDE DEF high
    <3>3. QED
      BY <2>9, <3>1, <3>2, SearchFinds
  <2> HIDE DEF high
  <2>11. <<max[1], max[2]>> = max /\ <<max[1], high[2]>> = high
    BY <2>8, <2>9, <2>10 DEF Column, Pixels
  <2>12. Held(b, 1, 2) <= Held(max, 1, 2)
    BY <2>4, <2>8
  <2>13. b[1] = max[1] => Held(b, 1, 3) <= Held(high, 1, 3)
    <3>1. b[1] = max[1] => b \in col
      BY DEF Column
    <3>2. high \in Pixels
      BY <2>9, <2>10
    <3>3. QED
      BY <2>4, <2>10, <3>1, <3>2
  <2> DEFINE c == DensestPixel(r)
  <2>14. c[1] = max[1] /\ <<c[1], c[2]>> = max /\ <<c[1], c[3]>> = high
    BY <2>7, <2>11
  <2>15. QED
    BY <2>12, <2>13, <2>14
<1>2. QED
  BY ArraysHold, <1>1, PTL

-----------------------------------------------------------------------------
(***************************************************************************)
(* The rings.                                                              *)
(***************************************************************************)

LEMMA SquaresGrow ==
  ASSUME NEW a \in Nat, NEW b \in Nat
  PROVE  a * a <= b * b <=> a <= b
<1>1. a <= b => a * a <= b * b
  <2>1. a <= b => a * a <= b * a /\ b * a <= b * b
    OBVIOUS
  <2>2. QED
    BY <2>1
<1>2. b < a => b * b < a * a
  <2>1. b < a => b * b <= a * b /\ a * b < a * a
    OBVIOUS
  <2>2. QED
    BY <2>1
<1>3. QED
  BY <1>1, <1>2

\* The whole number of length units in the distance of a particle.
LEMMA WholeRadius ==
  ASSUME Arrays, NEW p \in Particle, InRange(p)
  PROVE  \E k \in 0 .. RMax - RMin :
           /\ (k + RMin) * (k + RMin) * Unit * Unit <= RSquare(p)
           /\ RSquare(p) < (k + RMin + 1) * (k + RMin + 1) * Unit * Unit
<1> DEFINE R == RSquare(p)
           T == {k \in Nat : R < (k + RMin + 1) * (k + RMin + 1) * Unit * Unit}
<1>1. /\ RMin \in Nat /\ RMax \in Nat /\ RMin < RMax /\ Unit \in Nat /\ Unit > 0
  BY OptionsAssumption
<1>2. R \in Int
  <2>1. part[p].x \in Int /\ part[p].y \in Int
    BY PlacesAreWhole DEF Arrays, Whole
  <2>2. QED
    BY <2>1 DEF RSquare
<1>3. R >= RMin * Unit * RMin * Unit /\ R <= RMax * Unit * RMax * Unit
  BY DEF InRange
<1> HIDE DEF R
<1>4. RMax - RMin \in T
  <2>1. RMax * Unit * RMax * Unit = (RMax * RMax) * (Unit * Unit)
    BY <1>1
  <2>2. (RMax * RMax) * (Unit * Unit) < ((RMax + 1) * (RMax + 1)) * (Unit * Unit)
    <3>1. RMax * RMax < (RMax + 1) * (RMax + 1)
      BY <1>1
    <3>2. Unit * Unit \in Nat /\ Unit * Unit > 0 /\ RMax * RMax \in Int
          /\ (RMax + 1) * (RMax + 1) \in Int
      BY <1>1
    <3>3. QED
      BY <3>1, <3>2, TimesLess
  <2>3. ((RMax + 1) * (RMax + 1)) * (Unit * Unit) = (RMax + 1) * (RMax + 1) * Unit * Unit
    BY <1>1
  <2>4. R < (RMax + 1) * (RMax + 1) * Unit * Unit
    BY <1>1, <1>2, <1>3, <2>1, <2>2, <2>3
  <2>5. RMax - RMin \in Nat /\ (RMax - RMin) + RMin = RMax
    BY <1>1
  <2>6. QED
    BY <2>4, <2>5
<1>5. PICK k \in T : \A m \in T : k <= m
  BY <1>4, Least
<1>6. k \in 0 .. RMax - RMin
  <2>1. k <= RMax - RMin /\ k \in Nat
    BY <1>4, <1>5, Zenon
  <2>2. QED
    BY <1>1, <2>1
<1>7. (k + RMin) * (k + RMin) * Unit * Unit <= R
  <2>1. CASE k = 0
    <3>1. (k + RMin) * (k + RMin) * Unit * Unit = RMin * Unit * RMin * Unit
      BY <1>1, <2>1
    <3>2. QED
      BY <1>3, <3>1
  <2>2. CASE k # 0
    <3>1. k - 1 \in Nat /\ k - 1 \notin T
      BY <1>5, <2>2
    <3>2. ~(R < ((k - 1) + RMin + 1) * ((k - 1) + RMin + 1) * Unit * Unit)
      BY <3>1
    <3>3. (k - 1) + RMin + 1 = k + RMin
      BY <1>1, <1>5
    <3>4. (k + RMin) * (k + RMin) * Unit * Unit \in Int
      BY <1>1, <1>5
    <3>5. QED
      BY <1>2, <3>2, <3>3, <3>4
  <2>3. QED
    BY <2>1, <2>2
<1>8. QED
  BY <1>5, <1>6, <1>7 DEF R

\* That number is reached at n exactly when the distance is.
LEMMA WholeRadiusReaches ==
  ASSUME NEW R \in Int, NEW u \in Nat, u > 0, NEW w \in Nat, NEW n \in Nat,
         w * w * u * u <= R, R < (w + 1) * (w + 1) * u * u
  PROVE  n * n * u * u <= R <=> n <= w
<1> DEFINE uu == u * u
           N == n * n
           W == w * w
           V == (w + 1) * (w + 1)
<1>1. uu \in Nat /\ uu > 0 /\ N \in Int /\ W \in Int /\ V \in Int
  OBVIOUS
<1>2. n * n * u * u = N * uu /\ w * w * u * u = W * uu /\ (w + 1) * (w + 1) * u * u = V * uu
  OBVIOUS
<1>3. N <= W <=> n <= w
  BY SquaresGrow
<1>4. V <= N <=> w + 1 <= n
  BY SquaresGrow
<1>5. N * uu <= W * uu <=> N <= W
  <2> HIDE DEF uu, N, W
  <2>1. QED
    BY <1>1, TimesAtMost
<1>6. V * uu <= N * uu <=> V <= N
  <2> HIDE DEF uu, N, V
  <2>1. QED
    BY <1>1, TimesAtMost
<1> HIDE DEF uu, N, W, V
<1>7. N * uu \in Int /\ W * uu \in Int /\ V * uu \in Int
  BY <1>1
<1>8. CASE n <= w
  <2>1. N * uu <= W * uu /\ W * uu <= R
    BY <1>2, <1>3, <1>5, <1>8
  <2>2. QED
    BY <1>2, <1>7, <1>8, <2>1
<1>9. CASE ~(n <= w)
  <2>1. V * uu <= N * uu /\ R < V * uu
    BY <1>2, <1>4, <1>6, <1>9
  <2>2. QED
    BY <1>2, <1>7, <1>9, <2>1
<1>10. QED
  BY <1>8, <1>9

LEMMA RingIsAnnulus ==
  ASSUME Arrays, WholeRings, NEW p \in Particle, NEW i \in Radii
  PROVE  InRing(p, i) <=> p \in InAnnulus(i)
<1> DEFINE R == RSquare(p)
           D == RMax - RMin
           K == D \div RBins
           lower == RMin + i * K
           upper == RMin + (i + 1) * K
<1>1. /\ RMin \in Nat /\ RMax \in Nat /\ RMin < RMax /\ Unit \in Nat /\ Unit > 0
      /\ RBins \in Nat /\ RBins > 0 /\ i \in Nat /\ i < RBins
  BY OptionsAssumption DEF Radii
<1>2. R \in Int
  <2>1. part[p].x \in Int /\ part[p].y \in Int
    BY PlacesAreWhole DEF Arrays, Whole
  <2>2. QED
    BY <2>1 DEF RSquare
<1>3. D \in Nat /\ D > 0 /\ K \in Int /\ D = K * RBins
  BY <1>1 DEF WholeRings
<1>4. K \in Nat /\ K > 0
  <2> HIDE DEF D, K
  <2>1. QED
    BY <1>1, <1>3
<1> HIDE DEF R, K
<1>5. lower \in Nat /\ upper \in Nat /\ upper <= RMax /\ (i = RBins - 1 => upper = RMax)
  <2>1. (i + 1) * K <= RBins * K /\ (i = RBins - 1 => (i + 1) * K = RBins * K)
    BY <1>1, <1>4
  <2>2. RBins * K = RMax - RMin
    BY <1>1, <1>3, <1>4
  <2>3. i * K \in Nat /\ (i + 1) * K \in Nat
    BY <1>1, <1>4
  <2>4. QED
    BY <1>1, <2>1, <2>2, <2>3
\* The edges, without the common factor RBins.
<1>6. p \in InAnnulus(i) <=>
        /\ lower * lower * Unit * Unit <= R
        /\ R < upper * upper * Unit * Unit \/ (i = RBins - 1 /\ R = RMax * RMax * Unit * Unit)
  <2> DEFINE bb == RBins * RBins
             e(k) == (RMin * RBins + k * (RMax - RMin)) * Unit
  <2>1. p \in InAnnulus(i) <=>
          /\ e(i) * e(i) <= R * RBins * RBins
          /\ R * RBins * RBins < e(i + 1) * e(i + 1) \/ (i = RBins - 1 /\ R = RMax * RMax * Unit * Unit)
    BY DEF InAnnulus, R
  <2>2. e(i) = (lower * RBins) * Unit /\ e(i + 1) = (upper * RBins) * Unit
    <3>1. RMax - RMin = K * RBins
      BY <1>3
    <3>2. i * (K * RBins) = (i * K) * RBins /\ (i + 1) * (K * RBins) = ((i + 1) * K) * RBins
      BY <1>1, <1>4
    <3>3. i * K \in Int /\ (i + 1) * K \in Int
      BY <1>1, <1>4
    <3>4. RMin * RBins + (i * K) * RBins = lower * RBins
      BY <1>1, <3>3
    <3>5. RMin * RBins + ((i + 1) * K) * RBins = upper * RBins
      BY <1>1, <3>3
    <3>6. QED
      BY <3>1, <3>2, <3>4, <3>5
  <2> HIDE DEF e, lower, upper
  <2>3. /\ e(i) * e(i) = (lower * lower * Unit * Unit) * bb
        /\ e(i + 1) * e(i + 1) = (upper * upper * Unit * Unit) * bb
        /\ R * RBins * RBins = R * bb
    <3>1. e(i) * e(i) = ((lower * RBins) * Unit) * ((lower * RBins) * Unit)
      BY <2>2
    <3>2. ((lower * RBins) * Unit) * ((lower * RBins) * Unit) = (lower * lower * Unit * Unit) * bb
      BY <1>1, <1>5
    <3>3. e(i + 1) * e(i + 1) = ((upper * RBins) * Unit) * ((upper * RBins) * Unit)
      BY <2>2
    <3>4. ((upper * RBins) * Unit) * ((upper * RBins) * Unit) = (upper * upper * Unit * Unit) * bb
      BY <1>1, <1>5
    <3>5. R * RBins * RBins = R * bb
      BY <1>1, <1>2
    <3>6. QED
      BY <3>1, <3>2, <3>3, <3>4, <3>5
  <2>4. bb \in Nat /\ bb > 0
    BY <1>1
  <2>5. lower * lower * Unit * Unit \in Int /\ upper * upper * Unit * Unit \in Int
    BY <1>1, <1>5
  <2> DEFINE ll == lower * lower * Unit * Unit
             hh == upper * upper * Unit * Unit
  <2> HIDE DEF bb, ll, hh
  <2>6. ll * bb <= R * bb <=> ll <= R
    BY <1>2, <2>4, <2>5, TimesAtMost DEF ll
  <2>7. R * bb < hh * bb <=> R < hh
    BY <1>2, <2>4, <2>5, TimesLess DEF hh
  <2>8. QED
    BY <2>1, <2>3, <2>6, <2>7 DEF ll, hh
<1>7. InRange(p) <=> RMin * RMin * Unit * Unit <= R /\ R <= RMax * RMax * Unit * Unit
  <2>1. RMin * Unit * RMin * Unit = RMin * RMin * Unit * Unit
    BY <1>1
  <2>2. RMax * Unit * RMax * Unit = RMax * RMax * Unit * Unit
    BY <1>1
  <2>3. RMin * RMin * Unit * Unit \in Int /\ RMax * RMax * Unit * Unit \in Int
    BY <1>1
  <2>4. InRange(p) <=> R >= RMin * Unit * RMin * Unit /\ R <= RMax * Unit * RMax * Unit
    BY DEF InRange, R
  <2>5. QED
    BY <1>2, <2>1, <2>2, <2>3, <2>4
<1>8. \A a, b \in Nat : a <= b => a * a * Unit * Unit <= b * b * Unit * Unit
  <2>1. SUFFICES ASSUME NEW a \in Nat, NEW b \in Nat, a <= b
                 PROVE  a * a * Unit * Unit <= b * b * Unit * Unit
    OBVIOUS
  <2> DEFINE uu == Unit * Unit
             A == a * a
             B == b * b
  <2>2. A <= B /\ A \in Int /\ B \in Int
    BY <2>1, SquaresGrow
  <2>3. uu \in Nat /\ uu > 0
    BY <1>1
  <2>4. a * a * Unit * Unit = A * uu /\ b * b * Unit * Unit = B * uu
    BY <1>1
  <2> HIDE DEF A, B, uu
  <2>5. A * uu <= B * uu
    BY <2>2, <2>3, TimesAtMost
  <2>6. QED
    BY <2>4, <2>5
<1>9. RMin <= lower /\ RMin <= upper
  BY <1>1, <1>4
<1>10. \A a \in Nat : a * a * Unit * Unit \in Int
  BY <1>1
<1>11. CASE ~InRange(p)
  <2>1. ~InRing(p, i)
    BY <1>11 DEF InRing
  <2>2. p \in InAnnulus(i) => InRange(p)
    <3>1. RMin * RMin * Unit * Unit <= lower * lower * Unit * Unit
      BY <1>1, <1>5, <1>8, <1>9
    <3>2. upper * upper * Unit * Unit <= RMax * RMax * Unit * Unit
      BY <1>1, <1>5, <1>8
    <3>3. /\ RMin * RMin * Unit * Unit \in Int /\ lower * lower * Unit * Unit \in Int
          /\ upper * upper * Unit * Unit \in Int /\ RMax * RMax * Unit * Unit \in Int
      BY <1>1, <1>5, <1>10
    <3> HIDE DEF lower, upper
    <3>4. QED
      BY <1>2, <1>6, <1>7, <3>1, <3>2, <3>3
  <2>3. QED
    BY <1>11, <2>1, <2>2
<1>12. CASE InRange(p)
  <2> DEFINE w == CHOOSE k \in 0 .. RMax - RMin :
                    /\ (k + RMin) * (k + RMin) * Unit * Unit <= RSquare(p)
                    /\ RSquare(p) < (k + RMin + 1) * (k + RMin + 1) * Unit * Unit
             t == (w * RBins) \div (RMax - RMin)
  <2>1. /\ w \in 0 .. RMax - RMin
        /\ (w + RMin) * (w + RMin) * Unit * Unit <= R
        /\ R < (w + RMin + 1) * (w + RMin + 1) * Unit * Unit
    <3>1. \E k \in 0 .. RMax - RMin :
                    /\ (k + RMin) * (k + RMin) * Unit * Unit <= RSquare(p)
                    /\ RSquare(p) < (k + RMin + 1) * (k + RMin + 1) * Unit * Unit
      BY <1>12, WholeRadius
    <3>2. QED
      BY <3>1, Zenon DEF R
  <2>2. RadialBin(p) = IF t = RBins THEN t - 1 ELSE t
    BY DEF RadialBin
  <2> HIDE DEF w
  <2>3. \A n \in Nat : n * n * Unit * Unit <= R <=> n <= w + RMin
    <3>1. w + RMin \in Nat
      BY <1>1, <2>1
    <3>2. QED
      BY <1>1, <1>2, <2>1, <3>1, WholeRadiusReaches
  <2>4. \A m \in Int : t = m <=> (m * K <= w /\ w < (m + 1) * K)
    <3>1. SUFFICES ASSUME NEW m \in Int
                   PROVE  t = m <=> (m * K <= w /\ w < (m + 1) * K)
      OBVIOUS
    <3>2. w \in Int /\ w * RBins \in Int
      BY <1>1, <2>1
    <3>3. t = m <=> (m * D <= w * RBins /\ w * RBins < (m + 1) * D)
      <4>1. t = (w * RBins) \div D
        OBVIOUS
      <4> HIDE DEF t, D
      <4>2. QED
        BY <1>3, <3>2, <4>1, QuotientBetween
    <3>4. m * D = (m * K) * RBins /\ (m + 1) * D = ((m + 1) * K) * RBins
      <4> HIDE DEF D
      <4>1. QED
        BY <1>1, <1>3, <1>4
    <3>5. m * K \in Int /\ (m + 1) * K \in Int
      BY <1>4
    <3>6. (m * K) * RBins <= w * RBins <=> m * K <= w
      BY <1>1, <3>2, <3>5, TimesAtMost
    <3>7. w * RBins < ((m + 1) * K) * RBins <=> w < (m + 1) * K
      BY <1>1, <3>2, <3>5, TimesLess
    <3> HIDE DEF t, D
    <3>8. QED
      BY <3>3, <3>4, <3>6, <3>7
  <2>5. t \in Int
    <3>1. w * RBins \in Int
      BY <1>1, <2>1
    <3>2. QED
      BY <1>3, <3>1
  <2> HIDE DEF t
  <2>6. /\ lower * lower * Unit * Unit <= R <=> i * K <= w
        /\ R < upper * upper * Unit * Unit <=> w < (i + 1) * K
    <3>1. i * K \in Int /\ (i + 1) * K \in Int
      BY <1>1, <1>4
    <3>2. lower * lower * Unit * Unit <= R <=> lower <= w + RMin
      BY <1>5, <2>3
    <3>3. upper * upper * Unit * Unit <= R <=> upper <= w + RMin
      BY <1>5, <2>3
    <3>4. upper * upper * Unit * Unit \in Int
      BY <1>5, <1>10
    <3>5. lower <= w + RMin <=> i * K <= w
      BY <1>1, <2>1, <3>1
    <3>6. upper <= w + RMin <=> (i + 1) * K <= w
      BY <1>1, <2>1, <3>1
    <3> HIDE DEF lower, upper
    <3>7. QED
      BY <1>1, <1>2, <2>1, <3>1, <3>2, <3>3, <3>4, <3>5, <3>6
  <2>7. w = RMax - RMin <=> R = RMax * RMax * Unit * Unit
    <3>1. RMax * RMax * Unit * Unit <= R <=> RMax <= w + RMin
      BY <1>1, <2>3
    <3>2. R <= RMax * RMax * Unit * Unit /\ RMax * RMax * Unit * Unit \in Int
      BY <1>1, <1>7, <1>10, <1>12
    <3>3. QED
      BY <1>1, <1>2, <2>1, <3>1, <3>2
  <2>8. RMax - RMin = RBins * K /\ w \in Nat /\ w <= RBins * K
    BY <1>1, <1>3, <1>4, <2>1
  <2>9. t = RBins <=> w = RBins * K
    <3>1. t = RBins <=> (RBins * K <= w /\ w < (RBins + 1) * K)
      BY <1>1, <2>4
    <3>2. RBins * K < (RBins + 1) * K /\ RBins * K \in Int
      BY <1>1, <1>4
    <3>3. QED
      BY <2>8, <3>1, <3>2
  <2>10. t = i <=> (i * K <= w /\ w < (i + 1) * K)
    BY <1>1, <2>4
  <2>11. InRing(p, i) <=> RadialBin(p) = i
    BY <1>12 DEF InRing
  <2>12. p \in InAnnulus(i) <=>
           /\ i * K <= w
           /\ w < (i + 1) * K \/ (i = RBins - 1 /\ w = RBins * K)
    <3> HIDE DEF lower, upper
    <3>1. QED
      BY <1>6, <2>6, <2>7, <2>8
  <2>13. CASE w = RBins * K
    <3>1. RadialBin(p) = RBins - 1
      BY <2>2, <2>9, <2>13
    <3>2. i = RBins - 1 => i * K <= w
      BY <1>1, <1>4, <2>13
    <3>3. i # RBins - 1 => ~(w < (i + 1) * K)
      <4>1. i # RBins - 1 => (i + 1) * K <= RBins * K /\ (i + 1) * K \in Int
        BY <1>1, <1>4
      <4>2. QED
        BY <2>8, <2>13, <4>1
    <3>4. QED
      BY <2>11, <2>12, <2>13, <3>1, <3>2, <3>3
  <2>14. CASE w # RBins * K
    BY <2>2, <2>9, <2>10, <2>11, <2>12, <2>14
  <2>15. QED
    BY <2>13, <2>14
<1>13. QED
  BY <1>11, <1>12

-----------------------------------------------------------------------------
(***************************************************************************)
(* The radii of the bar.                                                   *)
(***************************************************************************)

\* The modes of the rings and their masses.
RingModes == [i \in Radii |-> Fourier(2, InAnnulus(i), Flat)]
Strengths ==
  [i \in Radii |-> <<Square(RingModes[i]), Mass(InAnnulus(i)) * Mass(InAnnulus(i))>>]

LEMMA RingSums ==
  ASSUME Arrays, WholeRings, NEW r \in Rank, "ring" \in DOMAIN sums[r], NEW i \in Radii
  PROVE  /\ Complex(sums[r]["ring"], i) = RingModes[i]
         /\ sums[r]["ringMass"][i] = Mass(InAnnulus(i))
<1> DEFINE S == InAnnulus(i)
<1>1. S \subseteq Particle
  BY DEF InAnnulus
<1>2. \A p \in Particle : InRing(p, i) <=> p \in S
  BY RingIsAnnulus
<1>3. \A p \in Particle : /\ part[p].m \in Int
                          /\ \A c \in {1, 2} : Phase(p, 2)[c] \in Int
  BY PlacesAreWhole DEF Arrays, Whole
<1>4. /\ sums[r]["ring"] = Totals(Terms["ring"])
      /\ sums[r]["ringMass"] = Totals(Terms["ringMass"])
  BY Arrived, TogetherOrNot DEF Unreduced
<1> HIDE DEF S
<1>5. ASSUME NEW c \in {1, 2}
      PROVE  sums[r]["ring"][<<i, c>>]
               = SumFunction([p \in S |-> Flat[p] * part[p].m * Phase(p, 2)[c]])
  <2> DEFINE f == [p \in Particle |-> Ones(InRing(p, i)) * part[p].m * Phase(p, 2)[c]]
  <2>1. <<i, c>> \in Radii \X {1, 2} /\ <<i, c>>[1] = i /\ <<i, c>>[2] = c
    OBVIOUS
  <2>2. sums[r]["ring"][<<i, c>>] = SumFunction(f)
    BY <1>4, <2>1 DEF Totals, Terms
  <2>3. /\ f \in [Particle -> Int]
        /\ \A p \in Particle \ S : f[p] = 0
        /\ \A p \in S : f[p] = Flat[p] * part[p].m * Phase(p, 2)[c]
    BY <1>1, <1>2, <1>3 DEF Ones, Flat
  <2>4. Part(f, S) = [p \in S |-> Flat[p] * part[p].m * Phase(p, 2)[c]]
    BY <2>3 DEF Part
  <2> HIDE DEF f
  <2>5. SumFunction(f) = SumFunction(Part(f, S))
    BY <1>1, <2>3, ParticleAssumption, SumOfPart
  <2>6. QED
    BY <2>2, <2>4, <2>5
<1>6. sums[r]["ringMass"][i] = SumFunction([p \in S |-> part[p].m])
  <2> DEFINE f == [p \in Particle |-> Ones(InRing(p, i)) * part[p].m]
  <2>1. sums[r]["ringMass"][i] = SumFunction(f)
    BY <1>4 DEF Totals, Terms
  <2>2. /\ f \in [Particle -> Int]
        /\ \A p \in Particle \ S : f[p] = 0
        /\ \A p \in S : f[p] = part[p].m
    BY <1>1, <1>2, <1>3 DEF Ones
  <2>3. Part(f, S) = [p \in S |-> part[p].m]
    BY <2>2 DEF Part
  <2> HIDE DEF f
  <2>4. SumFunction(f) = SumFunction(Part(f, S))
    BY <1>1, <2>2, ParticleAssumption, SumOfPart
  <2>5. QED
    BY <2>1, <2>3, <2>4
<1>7. RingModes[i] = <<SumFunction([p \in S |-> Flat[p] * part[p].m * Phase(p, 2)[1]]),
                      SumFunction([p \in S |-> Flat[p] * part[p].m * Phase(p, 2)[2]])>>
  BY DEF RingModes, Fourier, S
<1>8. Complex(sums[r]["ring"], i) = RingModes[i]
  BY <1>5, <1>7 DEF Complex
<1>9. QED
  BY <1>6, <1>8 DEF Mass, S

\* The strength of the bar in a ring that is not empty is a number.
LEMMA StrengthsAreNumbers ==
  ASSUME Arrays, NEW i \in Radii, InAnnulus(i) # {}
  PROVE  /\ RingModes[i] \in Int \X Int
         /\ Strengths[i][1] \in Int /\ Strengths[i][2] \in Nat /\ Strengths[i][2] > 0
<1> DEFINE S == InAnnulus(i)
           m == [p \in S |-> part[p].m]
           f(c) == [p \in S |-> Flat[p] * part[p].m * Phase(p, 2)[c]]
<1>1. S \subseteq Particle /\ S # {}
  BY DEF InAnnulus
<1>2. IsFiniteSet(S)
  BY <1>1, ParticleAssumption, FS_Subset
<1>3. \A p \in Particle : /\ part[p].m \in Int /\ part[p].m > 0
                          /\ \A c \in {1, 2} : Phase(p, 2)[c] \in Int
  BY PlacesAreWhole DEF Arrays, Whole
<1> HIDE DEF S
<1>4. m \in [S -> Int] /\ \A p \in S : m[p] > 0
  BY <1>1, <1>3
<1>5. f(1) \in [S -> Int] /\ f(2) \in [S -> Int]
  BY <1>1, <1>3 DEF Flat
<1>6. Mass(S) = SumFunction(m) /\ Fourier(2, S, Flat) = <<SumFunction(f(1)), SumFunction(f(2))>>
  BY DEF Mass, Fourier
<1> HIDE DEF m, f
<1>7. SumFunction(m) \in Int /\ SumFunction(m) > 0
  BY <1>1, <1>2, <1>4, SumIsPositive, SumOneMore DEF SumsUp
<1>8. SumFunction(f(1)) \in Int /\ SumFunction(f(2)) \in Int
  BY <1>2, <1>5, SumOneMore DEF SumsUp
<1>9. RingModes[i] = <<SumFunction(f(1)), SumFunction(f(2))>>
  BY <1>6 DEF RingModes, S
<1>10. Strengths[i] = <<Square(RingModes[i]), Mass(S) * Mass(S)>>
  BY DEF Strengths, S
<1>11. Square(RingModes[i]) \in Int
  BY <1>8, <1>9 DEF Square
<1>12. Mass(S) * Mass(S) \in Nat /\ Mass(S) * Mass(S) > 0
  BY <1>6, <1>7
<1>13. QED
  BY <1>8, <1>9, <1>10, <1>11, <1>12

\* Quotients with a positive denominator.
Quotients(s) == \A i \in Radii : s[i][1] \in Int /\ s[i][2] \in Nat /\ s[i][2] > 0

LEMMA LessAfter ==
  ASSUME NEW s, Quotients(s), NEW i \in Radii, NEW j \in Radii, NEW k \in Radii,
         ~Less(s[i], s[j]), Less(s[i], s[k])
  PROVE  Less(s[j], s[k])
<1> DEFINE a1 == s[i][1]
           a2 == s[i][2]
           b1 == s[j][1]
           b2 == s[j][2]
           c1 == s[k][1]
           c2 == s[k][2]
<1>1. /\ a1 \in Int /\ a2 \in Nat /\ a2 > 0 /\ b1 \in Int /\ b2 \in Nat /\ b2 > 0
      /\ c1 \in Int /\ c2 \in Nat /\ c2 > 0
  BY DEF Quotients
<1>2. ~(a1 * b2 < b1 * a2) /\ a1 * c2 < c1 * a2 /\ (Less(s[j], s[k]) <=> b1 * c2 < c1 * b2)
  BY <1>1 DEF Less
<1> HIDE DEF a1, a2, b1, b2, c1, c2
<1>3. b1 * a2 <= a1 * b2
  BY <1>1, <1>2
<1>4. (b1 * a2) * c2 <= (a1 * b2) * c2
  BY <1>1, <1>3
<1>5. (a1 * c2) * b2 < (c1 * a2) * b2
  BY <1>1, <1>2
<1>6. /\ (b1 * a2) * c2 = (b1 * c2) * a2 /\ (a1 * b2) * c2 = (a1 * c2) * b2
      /\ (c1 * a2) * b2 = (c1 * b2) * a2
  BY <1>1
<1>7. (b1 * c2) * a2 < (c1 * b2) * a2
  <2>1. (b1 * a2) * c2 \in Int /\ (a1 * b2) * c2 \in Int /\ (c1 * a2) * b2 \in Int
    BY <1>1
  <2>2. QED
    BY <1>4, <1>5, <1>6, <2>1
<1>8. b1 * c2 < c1 * b2
  <2>1. b1 * c2 \in Int /\ c1 * b2 \in Int
    BY <1>1
  <2>2. QED
    BY <1>1, <1>7, <2>1, TimesLess
<1>9. QED
  BY <1>2, <1>8

\* std::max_element finds the first of the largest.
LEMMA MaxElementFinds ==
  ASSUME NEW s, Quotients(s)
  PROVE  /\ MaxElement(s) \in Radii
         /\ \A j \in Radii : ~Less(s[MaxElement(s)], s[j])
<1> DEFINE Best(n, i) == /\ i \in 0 .. n
                         /\ \A j \in 0 .. n : ~Less(s[i], s[j])
                         /\ \A j \in 0 .. i - 1 : Less(s[j], s[i])
           T == {n \in Nat : n < RBins => \E i \in Radii : Best(n, i)}
<1>1. RBins \in Nat /\ RBins > 0 /\ Radii = 0 .. RBins - 1
  BY OptionsAssumption DEF Radii
<1>2. \A i \in Radii : ~Less(s[i], s[i])
  BY DEF Less, Quotients
<1>3. 0 \in T
  <2>1. 0 \in Radii /\ Best(0, 0)
    BY <1>1, <1>2
  <2>2. QED
    BY <2>1
<1>4. ASSUME NEW n \in Nat, n \in T
      PROVE  n + 1 \in T
  <2>1. SUFFICES ASSUME n + 1 < RBins
                 PROVE  \E i \in Radii : Best(n + 1, i)
    OBVIOUS
  <2>2. PICK i \in Radii : Best(n, i)
    BY <1>1, <1>4, <2>1
  <2>3. n + 1 \in Radii /\ 0 .. n \subseteq Radii /\ 0 .. n + 1 = (0 .. n) \cup {n + 1}
        /\ 0 .. i - 1 \subseteq 0 .. n
    BY <1>1, <2>1, <2>2
  <2>4. CASE Less(s[i], s[n + 1])
    <3>1. \A j \in 0 .. n : Less(s[j], s[n + 1])
      BY <2>2, <2>3, <2>4, LessAfter
    <3>2. \A j \in 0 .. n : ~Less(s[n + 1], s[j])
      <4>1. SUFFICES ASSUME NEW j \in 0 .. n
                     PROVE  ~Less(s[n + 1], s[j])
        OBVIOUS
      <4>2. /\ s[j][1] \in Int /\ s[j][2] \in Nat
            /\ s[n + 1][1] \in Int /\ s[n + 1][2] \in Nat
        BY <2>3 DEF Quotients
      <4>3. Less(s[j], s[n + 1])
        BY <3>1
      <4>4. s[j][1] * s[n + 1][2] \in Int /\ s[n + 1][1] * s[j][2] \in Int
        BY <4>2
      <4>5. QED
        BY <4>3, <4>4 DEF Less
    <3>3. (n + 1) - 1 = n
      OBVIOUS
    <3>4. Best(n + 1, n + 1)
      BY <1>2, <2>3, <3>1, <3>2, <3>3
    <3>5. QED
      BY <2>3, <3>4
  <2>5. CASE ~Less(s[i], s[n + 1])
    <3>1. Best(n + 1, i)
      BY <2>2, <2>3, <2>5
    <3>2. QED
      BY <3>1
  <2>6. QED
    BY <2>4, <2>5
<1>5. \A n \in Nat : n \in T
  <2> HIDE DEF T
  <2>1. QED
    BY <1>3, <1>4, Peano
<1>6. RBins - 1 \in T /\ RBins - 1 < RBins
  <2>1. RBins - 1 \in Nat /\ RBins - 1 < RBins
    BY <1>1
  <2> HIDE DEF T
  <2>2. QED
    BY <1>5, <2>1
<1>7. \E i \in Radii : Best(RBins - 1, i)
  BY <1>6
<1>8. \E i \in Radii : /\ s[i][2] # 0
                       /\ \A j \in Radii : ~Less(s[i], s[j])
                       /\ \A j \in 0 .. i - 1 : s[j][2] # 0 => Less(s[j], s[i])
  <2>1. \A i \in Radii : s[i][2] # 0
    BY DEF Quotients
  <2>2. QED
    BY <1>1, <1>7, <2>1
<1>9. s[0][2] # 0
  BY <1>1 DEF Quotients
<1>10. MaxElement(s) = CHOOSE i \in Radii :
                         /\ s[i][2] # 0
                         /\ \A j \in Radii : ~Less(s[i], s[j])
                         /\ \A j \in 0 .. i - 1 : s[j][2] # 0 => Less(s[j], s[i])
  BY <1>9 DEF MaxElement
<1>11. QED
  BY <1>8, <1>10, Zenon

\* The first ring of a set.
LEMMA FirstOfSet ==
  ASSUME NEW S \in SUBSET Nat
  PROVE  /\ S = {} => FirstOf(S) = 0
         /\ S # {} => /\ FirstOf(S) - 1 \in S /\ FirstOf(S) # 0
                      /\ \A n \in S : FirstOf(S) - 1 <= n
<1>1. CASE S = {}
  BY <1>1 DEF FirstOf
<1>2. CASE S # {}
  <2>1. \E n \in S : \A m \in S : n <= m
    BY <1>2, Least
  <2>2. Min(S) \in S /\ \A m \in S : Min(S) <= m
    BY <2>1, Zenon DEF Min
  <2>3. FirstOf(S) = Min(S) + 1
    BY <1>2 DEF FirstOf
  <2>4. Min(S) \in Nat
    BY <2>2
  <2> DEFINE mn == Min(S)
             ft == FirstOf(S)
  <2> HIDE DEF mn, ft
  <2>5. ft = mn + 1 /\ mn \in Nat /\ mn \in S /\ \A m \in S : mn <= m
    BY <2>2, <2>3, <2>4 DEF mn, ft
  <2>6. ft - 1 = mn /\ ft # 0
    BY <2>5
  <2>7. QED
    BY <1>2, <2>5, <2>6 DEF ft
<1>3. QED
  BY <1>1, <1>2

\* Within 90 degrees of the x axis the difference of two arguments is at most a
\* half turn.
LEMMA ApartIsDifference ==
  ASSUME NEW a \in Int, NEW b \in Int, Abs(a) <= 90, Abs(b) <= 90
  PROVE  Apart(a, b) = Abs(a - b)
<1>1. Abs(a - b) \in Int /\ Abs(a - b) <= 360 - Abs(a - b)
  BY DEF Abs
<1> DEFINE x == Abs(a - b)
           y == 360 - Abs(a - b)
<1>2. x \in Int /\ y \in Int /\ x <= y
  BY <1>1
<1>3. Apart(a, b) = Min({x, y})
  BY DEF Apart
<1> HIDE DEF x, y
<1>4. \E n \in {x, y} : \A m \in {x, y} : n <= m
  BY <1>2
<1>5. Min({x, y}) \in {x, y} /\ \A m \in {x, y} : Min({x, y}) <= m
  BY <1>4, Zenon DEF Min
<1>6. Min({x, y}) = x
  BY <1>2, <1>5
<1>7. QED
  BY <1>3, <1>6 DEF x

\* The argument of a complex number of whole components is in whole degrees, as
\* the source's atan2 is taken to be.
WholeDegrees == \A c \in Int \X Int : Arg(c) \in Int

\* However the particles are spread over the ranks, every rank finds the radii
\* of the bar that the rings of all particles define.
THEOREM RadiiAreOfAll == ASSUME WholeDegrees PROVE Spec => []RadiiAsDefined
<1>1. ASSUME Arrays
      PROVE  RadiiAsDefined
  <2> DEFINE s == Strengths
             A2 == RingModes
             axis == Arg(Fourier(2, Particle, Flat))
  <2>1. SUFFICES ASSUME Known("ring"), WholeRings, \A i \in Radii : InAnnulus(i) # {},
                        NEW r \in Rank
                 PROVE  LET top == Radius2(r) - 1
                            end == IF Radius3(r) = 0 THEN RBins ELSE Radius3(r) - 1
                        IN  /\ \A i \in Radii : ~Less(s[top], s[i])
                            /\ end >= top
                            /\ \A i \in top .. end - 1 : ~Down(s[i], s[top])
                            /\ end < RBins => Down(s[end], s[top])
                            /\ (\A i \in Radii : Abs(Arg(A2[i])) <= 90) /\ Abs(axis) <= 90 =>
                                 Radius1(r) = FirstOf({i \in Radii :
                                                Apart(Arg(A2[i]), axis) >= 2 * Degrees})
    BY DEF RadiiAsDefined, Strengths, RingModes
  <2> DEFINE top == Radius2(r) - 1
             end == IF Radius3(r) = 0 THEN RBins ELSE Radius3(r) - 1
             D == {i \in top .. RBins - 1 : Down(s[i], s[top])}
  <2>2. "ring" \in DOMAIN sums[r] /\ "axis" \in DOMAIN sums[r]
    BY <1>1, <2>1, TogetherOrNot DEF Known
  <2>3. Quotients(s) /\ \A i \in Radii : A2[i] \in Int \X Int
    BY <1>1, <2>1, StrengthsAreNumbers DEF Quotients
  <2>4. RingStrength(r) = s
    <3>1. \A i \in Radii : /\ Complex(sums[r]["ring"], i) = A2[i]
                           /\ sums[r]["ringMass"][i] = Mass(InAnnulus(i))
      BY <1>1, <2>1, <2>2, RingSums
    <3>2. QED
      BY <3>1 DEF RingStrength, Strengths
  <2>5. MaxElement(s) \in Radii /\ \A j \in Radii : ~Less(s[MaxElement(s)], s[j])
    BY <2>3, MaxElementFinds
  <2>6. RBins \in Nat /\ RBins > 0 /\ Radii = 0 .. RBins - 1
    BY OptionsAssumption DEF Radii
  <2>7. top = MaxElement(s) /\ top \in Nat /\ top < RBins
    <3>1. Radius2(r) = MaxElement(s) + 1
      BY <2>4 DEF Radius2
    <3>2. QED
      BY <2>5, <2>6, <3>1
  <2>8. Radius3(r) = FirstOf(D)
    BY <2>4, <2>7 DEF Radius3
  <2>9. D \in SUBSET Nat /\ D \subseteq top .. RBins - 1
    BY <2>6, <2>7
  <2>10. /\ end >= top
         /\ \A i \in top .. end - 1 : ~Down(s[i], s[top])
         /\ end < RBins => Down(s[end], s[top])
    <3> DEFINE three == Radius3(r)
    <3>1. \A i \in top .. RBins - 1 : i \in D <=> Down(s[i], s[top])
      OBVIOUS
    <3>2. end = IF three = 0 THEN RBins ELSE three - 1
      OBVIOUS
    <3> HIDE DEF top, end, D, three, s
    <3>3. CASE D = {}
      <4>1. end = RBins
        BY <2>8, <2>9, <3>2, <3>3, FirstOfSet DEF three
      <4>2. QED
        BY <2>6, <2>7, <3>1, <3>3, <4>1
    <3>4. CASE D # {}
      <4>1. three - 1 \in D /\ three # 0 /\ \A n \in D : three - 1 <= n
        BY <2>8, <2>9, <3>4, FirstOfSet DEF three
      <4>2. end = three - 1
        BY <3>2, <4>1
      <4>3. end \in D /\ \A n \in D : end <= n
        BY <4>1, <4>2
      <4>4. end \in Nat /\ top <= end /\ end <= RBins - 1
        BY <2>6, <2>7, <2>9, <4>3
      <4>5. ASSUME NEW i \in top .. end - 1
            PROVE  ~Down(s[i], s[top])
        <5>1. i \in top .. RBins - 1 /\ ~(end <= i)
          BY <2>6, <2>7, <4>4
        <5>2. QED
          BY <3>1, <4>3, <5>1
      <4>6. Down(s[end], s[top])
        BY <3>1, <2>9, <4>3
      <4>7. QED
        BY <4>4, <4>5, <4>6
    <3>5. QED
      BY <3>3, <3>4
  <2>11. ASSUME \A i \in Radii : Abs(Arg(A2[i])) <= 90, Abs(axis) <= 90
         PROVE  Radius1(r) = FirstOf({i \in Radii : Apart(Arg(A2[i]), axis) >= 2 * Degrees})
    <3>1. Axis(r) = axis /\ Fourier(2, Particle, Flat) \in Int \X Int
      <4>1. sums[r]["axis"] = Totals(Terms["axis"])
        BY <1>1, <2>2, Arrived DEF Unreduced
      <4>2. Terms["axis"] = Modal({2}) /\ DOMAIN Modal({2}) = {2} \X {1, 2}
        BY DEF Terms, Modal
      <4>3. Complex(Totals(Modal({2})), 2) = Fourier(2, Particle, Flat)
        BY <1>1, ModesAreFourier
      <4>4. \A c \in {1, 2} : Totals(Modal({2}))[<<2, c>>] \in Int
        <5>1. \A k \in DOMAIN Modal({2}) : Modal({2})[k] \in [Particle -> Int]
          BY <1>1, <4>2, TermsAreWhole, TermNames DEF Arrays
        <5>2. \A k \in DOMAIN Modal({2}) : SumFunction(Modal({2})[k]) \in Int
          BY <5>1, ParticleAssumption, SumOneMore DEF SumsUp
        <5>3. QED
          BY <4>2, <5>2 DEF Totals
      <4>5. QED
        BY <4>1, <4>2, <4>3, <4>4 DEF Axis, Complex
    <3>2. axis \in Int /\ \A i \in Radii : Arg(A2[i]) \in Int
      BY <2>3, <3>1 DEF WholeDegrees
    <3>3. \A i \in Radii : Complex(sums[r]["ring"], i) = A2[i]
      BY <1>1, <2>1, <2>2, RingSums
    <3> HIDE DEF axis, A2
    <3>4. \A i \in Radii :
            Abs(Arg(Complex(sums[r]["ring"], i)) - Axis(r)) = Apart(Arg(A2[i]), axis)
      BY <2>11, <3>1, <3>2, <3>3, ApartIsDifference
    <3>5. {i \in Radii : Abs(Arg(Complex(sums[r]["ring"], i)) - Axis(r)) >= 2 * Degrees}
            = {i \in Radii : Apart(Arg(A2[i]), axis) >= 2 * Degrees}
      BY <3>4
    <3>6. QED
      BY <3>5, Zenon DEF Radius1
  <2>12. \A i \in Radii : ~Less(s[top], s[i])
    BY <2>5, <2>7
  <2>13. QED
    BY <2>10, <2>11, <2>12
<1>2. QED
  BY ArraysHold, <1>1, PTL
=============================================================================
