-------------------------- MODULE ModelOutputProofs --------------------------
(***************************************************************************)
(* Proofs about the module ModelOutput, for any plain options, any number  *)
(* of analysis steps, any chunk sizes and any faults: the lists of         *)
(* create_model_file_datasets() and save() agree, and every dataset has    *)
(* the rows of the analysis steps, whatever fails.  And about the objects  *)
(* that hold the handles of such a file, the module NodeTree, for any      *)
(* number of nodes in a tree of any shape and any order of deletion: no    *)
(* pointer dangles, objects are closed from the leaves, no handle leaks.   *)
(***************************************************************************)
EXTENDS ModelOutput, NodeTree, Recursion, SequenceTheorems

-----------------------------------------------------------------------------
(***************************************************************************)
(* The two lists.                                                          *)
(***************************************************************************)

\* The options for which the lists agree: no image of a vector, whose x-z
\* images go under a wrong name, and nothing listed twice.
Plain(p) ==
  /\ \A k \in DOMAIN p.colors : p.colors[k] \notin Vectors
  /\ \A k, l \in DOMAIN p.colors : p.colors[k] = p.colors[l] => k = l
  /\ \A k, l \in DOMAIN p.an : p.an[k] = p.an[l] => k = l

\* A push of the right quantity, except for the imaginary part of An.
Pairs ==
  {q \in Path \X Path :
     \/ q[1] = q[2]
     \/ \E k \in DOMAIN para.an :
          q[1] = An(para.an[k], "imag") /\ q[2] = An(para.an[k], "real")}

\* A dataset is listed by its path, a push by that of its dataset.
own == [p \in Path |-> p]
target == [q \in Pairs |-> q[1]]

Where(switch, paths) == IF switch \in para.on THEN paths ELSE {}
AnPaths == UNION {{An(para.an[k], "real"), An(para.an[k], "imag")} : k \in DOMAIN para.an}
ImagePaths ==
  UNION {{Image(para.colors[k], plane) : plane \in {"xy", "xz", "yz"}}
           : k \in DOMAIN para.colors}

\* The datasets of a file with the options of para, by what switches them on.
Kinds ==
  << {Top("Times")},
     Where("recenter", {Top("Center")}),
     Where("bar_major_axis", {Bar("MajorAxis")}),
     Where("bar_radius", {Bar("Radius1"), Bar("Radius2"), Bar("Radius3")}),
     Where("sbar", {Bar("SBar")}),
     Where("sbuckle", {Bar("SBuckle")}),
     AnPaths,
     Where("image", ImagePaths),
     Where("dispersion_tensor", {Top("DispersionTensor")}),
     Where("inertia_tensor", {Top("InertiaTensor")}) >>
Offered == UNION {Kinds[n] : n \in 1 .. 10}

\* The kind of a path.
KindOf(p) ==
  CASE p[1] = <<"Times">> -> 1
    [] p[1] = <<"Center">> -> 2
    [] p[1] = <<"DispersionTensor">> -> 9
    [] p[1] = <<"InertiaTensor">> -> 10
    [] p[1] = <<"Image">> -> 8
    [] OTHER -> CASE p[2] = <<"MajorAxis">> -> 3
                  [] p[2] \in {<<"Radius1">>, <<"Radius2">>, <<"Radius3">>} -> 4
                  [] p[2] = <<"SBar">> -> 5
                  [] p[2] = <<"SBuckle">> -> 6
                  [] OTHER -> 7

LEMMA WhenLists ==
  ASSUME NEW S, NEW seq \in Seq(S), NEW key, NEW K, Lists(seq, key, K), NEW switch
  PROVE  When(switch, seq) \in Seq(S) /\ Lists(When(switch, seq), key, Where(switch, K))
<1>1. CASE switch \in para.on
  BY <1>1 DEF When, Where
<1>2. CASE switch \notin para.on
  <2>1. When(switch, seq) = <<>> /\ Where(switch, K) = {} /\ <<>> \in Seq(S)
    BY <1>2 DEF When, Where
  <2>2. QED
    BY <2>1, EmptyLists, Zenon
<1>3. QED
  BY <1>1, <1>2

LEMMA SingleLists ==
  ASSUME NEW p \in Path
  PROVE  <<p>> \in Seq(Path) /\ Lists(<<p>>, own, {p})
BY DEF own, Lists

LEMMA OwnsLists ==
  ASSUME NEW paths \in Seq(Path), NEW K, Lists(paths, own, K)
  PROVE  Owns(paths) \in Seq(Pairs) /\ Lists(Owns(paths), target, K)
<1>1. \A p \in Path : Own(p) \in Pairs /\ target[Own(p)] = own[p]
  BY DEF Own, Pairs, target, own
<1>2. DOMAIN Owns(paths) = DOMAIN paths /\ \A k \in DOMAIN paths : Owns(paths)[k] = Own(paths[k])
  BY DEF Owns
<1>3. Owns(paths) \in Seq(Pairs)
  BY <1>1 DEF Owns
<1>4. \A k \in DOMAIN paths : target[Owns(paths)[k]] = own[paths[k]]
  BY <1>1, <1>2
<1>5. QED
  BY <1>2, <1>3, <1>4 DEF Lists

LEMMA RadiiLists ==
  Radii \in Seq(Path) /\ Lists(Radii, own, {Bar("Radius1"), Bar("Radius2"), Bar("Radius3")})
<1>1. /\ Bar("Radius1") \in Path /\ Bar("Radius2") \in Path /\ Bar("Radius3") \in Path
      /\ Bar("Radius1") # Bar("Radius2") /\ Bar("Radius1") # Bar("Radius3")
      /\ Bar("Radius2") # Bar("Radius3")
  <2>1. /\ Bar("Radius1") \in Path /\ Bar("Radius2") \in Path /\ Bar("Radius3") \in Path
    BY PathsAssumption DEF Bars
  <2>2. QED
    BY <2>1 DEF Bar
<1> HIDE DEF Bar
<1>2. QED
  BY <1>1 DEF Radii, own, Lists

\* The three planes of a scalar image.
LEMMA PlanesLists ==
  ASSUME para \in Paras, Plain(para), NEW k \in DOMAIN para.colors
  PROVE  /\ ImagesOf(para.colors[k]) \in Seq(Path)
         /\ Lists(ImagesOf(para.colors[k]), own,
                  {Image(para.colors[k], plane) : plane \in {"xy", "xz", "yz"}})
<1> DEFINE c == para.colors[k]
           seqs == [n \in DOMAIN Planes |-> << Image(c, Planes[n]) >>]
           K == [n \in DOMAIN Planes |-> {Image(c, Planes[n])}]
<1>1. ImagesOf(c) = FlattenSeq(seqs)
  BY DEF ImagesOf, Each, Plain
<1>2. \A plane \in {"xy", "xz", "yz"} : Image(c, plane) \in Path
  BY PathsAssumption DEF Plain
<1>3. DOMAIN Planes = 1 .. 3 /\ \A n \in 1 .. 3 : Planes[n] \in {"xy", "xz", "yz"}
  BY DEF Planes
<1>4. seqs \in Seq(Seq(Path)) /\ DOMAIN seqs = 1 .. 3
  BY <1>2, <1>3
<1>5. \A n \in DOMAIN seqs : Lists(seqs[n], own, K[n])
  BY <1>2, <1>3, <1>4, SingleLists
<1>6. ASSUME NEW n \in DOMAIN seqs, NEW m \in DOMAIN seqs, K[n] \cap K[m] # {}
      PROVE  n = m
  <2>1. Image(c, Planes[n]) = Image(c, Planes[m])
    BY <1>3, <1>4, <1>6
  <2>2. Planes[n] = Planes[m]
    BY <2>1 DEF Image
  <2>3. QED
    BY <1>4, <2>2 DEF Planes
<1>7. UNION {K[n] : n \in DOMAIN seqs} = {Image(c, plane) : plane \in {"xy", "xz", "yz"}}
  BY <1>4 DEF Planes
<1> HIDE DEF seqs, K, c
<1>8. /\ FlattenSeq(seqs) \in Seq(Path)
      /\ Lists(FlattenSeq(seqs), own, UNION {K[n] : n \in DOMAIN seqs})
  <2>1. Parts(seqs, Path, own, K)
    BY <1>4, <1>5, <1>6 DEF Parts
  <2>2. QED
    BY <2>1, FlattenLists
<1>9. QED
  BY <1>1, <1>7, <1>8, Zenon DEF c

\* The images of all colours, as they are created and as they are pushed.
LEMMA ImagesLists ==
  ASSUME para \in Paras, Plain(para)
  PROVE  /\ Each(para.colors, ImagesOf) \in Seq(Path)
         /\ Lists(Each(para.colors, ImagesOf), own, ImagePaths)
         /\ Each(para.colors, ImagePushes) \in Seq(Pairs)
         /\ Lists(Each(para.colors, ImagePushes), target, ImagePaths)
<1> DEFINE colors == para.colors
           of(k) == {Image(colors[k], plane) : plane \in {"xy", "xz", "yz"}}
           K == [k \in DOMAIN colors |-> of(k)]
           created == [k \in DOMAIN colors |-> ImagesOf(colors[k])]
           pushed == [k \in DOMAIN colors |-> ImagePushes(colors[k])]
<1>1. DOMAIN colors = 1 .. Len(colors) /\ Len(colors) \in Nat
  BY ParasAssumption
<1>2. ASSUME NEW k \in DOMAIN colors
      PROVE  /\ ImagesOf(colors[k]) \in Seq(Path)
             /\ Lists(ImagesOf(colors[k]), own, of(k))
             /\ ImagePushes(colors[k]) \in Seq(Pairs)
             /\ Lists(ImagePushes(colors[k]), target, of(k))
  <2>1. ImagePushes(colors[k]) = Owns(ImagesOf(colors[k]))
    BY DEF ImagePushes, Plain
  <2>2. /\ ImagesOf(colors[k]) \in Seq(Path)
        /\ Lists(ImagesOf(colors[k]), own, of(k))
    BY PlanesLists
  <2> HIDE DEF of
  <2>3. QED
    BY <2>1, <2>2, OwnsLists
<1>3. ASSUME NEW k \in DOMAIN colors, NEW l \in DOMAIN colors, K[k] \cap K[l] # {}
      PROVE  k = l
  <2>1. PICK n, m : Image(colors[k], n) = Image(colors[l], m)
    BY <1>3
  <2>2. colors[k] = colors[l]
    BY <2>1 DEF Image
  <2>3. QED
    BY <2>2 DEF Plain
<1>4. UNION {K[k] : k \in DOMAIN colors} = ImagePaths
  <2>1. ImagePaths = UNION {of(k) : k \in DOMAIN colors}
    BY Zenon DEF ImagePaths
  <2>2. \A k \in DOMAIN colors : K[k] = of(k)
    OBVIOUS
  <2> HIDE DEF of, K
  <2>3. QED
    BY <2>1, <2>2
<1>5. Parts(created, Path, own, K) /\ Parts(pushed, Pairs, target, K)
  <2>1. created \in Seq(Seq(Path)) /\ pushed \in Seq(Seq(Pairs))
    <3>1. /\ created = [k \in 1 .. Len(colors) |-> created[k]]
          /\ pushed = [k \in 1 .. Len(colors) |-> pushed[k]]
      BY <1>1
    <3>2. \A k \in 1 .. Len(colors) : created[k] \in Seq(Path) /\ pushed[k] \in Seq(Pairs)
      BY <1>1, <1>2
    <3> HIDE DEF created, pushed
    <3>3. QED
      BY <1>1, <3>1, <3>2, SequenceOf
  <2>2. \A k \in DOMAIN colors : K[k] = of(k)
    OBVIOUS
  <2> HIDE DEF of, K
  <2>3. \A k \in DOMAIN colors : Lists(created[k], own, K[k]) /\ Lists(pushed[k], target, K[k])
    BY <1>2, <2>2
  <2>4. DOMAIN created = DOMAIN colors /\ DOMAIN pushed = DOMAIN colors
    OBVIOUS
  <2> HIDE DEF created, pushed
  <2>5. QED
    BY <1>3, <2>1, <2>3, <2>4 DEF Parts
<1>6. /\ Each(colors, ImagesOf) = FlattenSeq(created)
      /\ Each(colors, ImagePushes) = FlattenSeq(pushed)
  BY DEF Each
<1>7. DOMAIN created = DOMAIN colors /\ DOMAIN pushed = DOMAIN colors
  OBVIOUS
<1> HIDE DEF created, pushed, K, colors
<1>8. /\ FlattenSeq(created) \in Seq(Path)
      /\ Lists(FlattenSeq(created), own, UNION {K[k] : k \in DOMAIN created})
  BY <1>5, FlattenLists
<1>9. /\ FlattenSeq(pushed) \in Seq(Pairs)
      /\ Lists(FlattenSeq(pushed), target, UNION {K[k] : k \in DOMAIN pushed})
  BY <1>5, FlattenLists
<1>10. QED
  BY <1>4, <1>6, <1>7, <1>8, <1>9, Zenon DEF colors

\* The two parts of every order of An.
LEMMA OrdersLists ==
  ASSUME para \in Paras, Plain(para)
  PROVE  LET created == Each(para.an, LAMBDA m : << An(m, "real"), An(m, "imag") >>)
             pushed == Each(para.an, AnPushes)
         IN  /\ created \in Seq(Path) /\ Lists(created, own, AnPaths)
             /\ pushed \in Seq(Pairs) /\ Lists(pushed, target, AnPaths)
<1> DEFINE an == para.an
           K == [k \in DOMAIN an |-> {An(an[k], "real"), An(an[k], "imag")}]
           created == [k \in DOMAIN an |-> << An(an[k], "real"), An(an[k], "imag") >>]
           pushed == [k \in DOMAIN an |-> AnPushes(an[k])]
<1>1. DOMAIN an = 1 .. Len(an) /\ Len(an) \in Nat
  BY ParasAssumption
<1>2. ASSUME NEW k \in DOMAIN an
      PROVE  /\ created[k] \in Seq(Path) /\ Lists(created[k], own, K[k])
             /\ pushed[k] \in Seq(Pairs) /\ Lists(pushed[k], target, K[k])
  <2> DEFINE real == An(an[k], "real")
             imag == An(an[k], "imag")
  <2>1. real \in Path /\ imag \in Path
    BY PathsAssumption
  <2>2. real # imag
    BY DEF An
  <2>4. /\ created[k] = <<real, imag>> /\ K[k] = {real, imag}
        /\ pushed[k] = << <<real, real>>, <<imag, real>> >>
    BY DEF AnPushes, Own, Into
  <2>5. <<real, real>> \in Pairs /\ <<imag, real>> \in Pairs
    BY <2>1 DEF Pairs
  <2>6. /\ own[real] = real /\ own[imag] = imag
        /\ target[<<real, real>>] = real /\ target[<<imag, real>>] = imag
    BY <2>1, <2>5 DEF own, target
  <2> HIDE DEF real, imag, created, pushed, K, an
  <2>7. QED
    BY <2>1, <2>2, <2>4, <2>5, <2>6 DEF Lists
<1>3. ASSUME NEW k \in DOMAIN an, NEW l \in DOMAIN an, K[k] \cap K[l] # {}
      PROVE  k = l
  <2>1. PICK n, m : An(an[k], n) = An(an[l], m)
    BY <1>3
  <2>2. an[k] = an[l]
    BY <2>1 DEF An
  <2>3. QED
    BY <2>2 DEF Plain
<1>4. UNION {K[k] : k \in DOMAIN an} = AnPaths
  BY DEF AnPaths
<1>5. DOMAIN created = DOMAIN an /\ DOMAIN pushed = DOMAIN an
  OBVIOUS
<1>6. /\ Each(an, LAMBDA m : << An(m, "real"), An(m, "imag") >>) = FlattenSeq(created)
      /\ Each(an, AnPushes) = FlattenSeq(pushed)
  BY DEF Each
<1>7. Parts(created, Path, own, K) /\ Parts(pushed, Pairs, target, K)
  <2>1. created \in Seq(Seq(Path)) /\ pushed \in Seq(Seq(Pairs))
    <3>1. /\ created = [k \in 1 .. Len(an) |-> created[k]]
          /\ pushed = [k \in 1 .. Len(an) |-> pushed[k]]
      BY <1>1
    <3> HIDE DEF created, pushed
    <3>2. QED
      BY <1>1, <1>2, <3>1, SequenceOf
  <2> HIDE DEF created, pushed, K
  <2>2. QED
    BY <1>2, <1>3, <1>5, <2>1 DEF Parts
<1> HIDE DEF created, pushed, K, an
<1>8. /\ FlattenSeq(created) \in Seq(Path)
      /\ Lists(FlattenSeq(created), own, UNION {K[k] : k \in DOMAIN created})
  BY <1>7, FlattenLists
<1>9. /\ FlattenSeq(pushed) \in Seq(Pairs)
      /\ Lists(FlattenSeq(pushed), target, UNION {K[k] : k \in DOMAIN pushed})
  BY <1>7, FlattenLists
<1>10. QED
  BY <1>4, <1>5, <1>6, <1>8, <1>9, Zenon DEF an

\* The path tells of which kind it is.
LEMMA KindsAre == \A n \in 1 .. 10 : \A p \in Kinds[n] : KindOf(p) = n
<1>1. ASSUME NEW p
      PROVE  /\ p \in Kinds[1] => KindOf(p) = 1
             /\ p \in Kinds[2] => KindOf(p) = 2
             /\ p \in Kinds[9] => KindOf(p) = 9
             /\ p \in Kinds[10] => KindOf(p) = 10
  BY DEF Kinds, KindOf, Where, Top
<1>2. ASSUME NEW p
      PROVE  /\ p \in Kinds[3] => KindOf(p) = 3
             /\ p \in Kinds[4] => KindOf(p) = 4
             /\ p \in Kinds[5] => KindOf(p) = 5
             /\ p \in Kinds[6] => KindOf(p) = 6
  BY DEF Kinds, KindOf, Where, Bar
<1>3. ASSUME NEW p
      PROVE  p \in Kinds[7] => KindOf(p) = 7
  <2>1. \A m, part : KindOf(An(m, part)) = 7
    BY DEF KindOf, An
  <2>2. \A x \in AnPaths : \E m, part : x = An(m, part)
    BY DEF AnPaths
  <2>3. Kinds[7] = AnPaths
    BY DEF Kinds
  <2>4. QED
    BY <2>1, <2>2, <2>3
<1>4. ASSUME NEW p
      PROVE  p \in Kinds[8] => KindOf(p) = 8
  <2>1. \A color, plane : KindOf(Image(color, plane)) = 8
    BY DEF KindOf, Image
  <2>2. \A x \in ImagePaths : \E color, plane : x = Image(color, plane)
    BY DEF ImagePaths
  <2>3. Kinds[8] \subseteq ImagePaths
    BY DEF Kinds, Where
  <2>4. QED
    BY <2>1, <2>2, <2>3
<1>5. QED
  BY <1>1, <1>2, <1>3, <1>4

\* A path is of one kind.
LEMMA KindsApart ==
  /\ \A n, m \in 1 .. 10 : Kinds[n] \cap Kinds[m] # {} => n = m
  /\ Offered = Kinds[1] \cup Kinds[2] \cup Kinds[3] \cup Kinds[4] \cup Kinds[5] \cup Kinds[6]
               \cup Kinds[7] \cup Kinds[8] \cup Kinds[9] \cup Kinds[10]
<1>1. 1 .. 10 = {1, 2, 3, 4, 5, 6, 7, 8, 9, 10}
  OBVIOUS
<1>2. QED
  BY <1>1, KindsAre DEF Offered

\* A sequence over S that lists the paths of the given kinds.
ListsKinds(part, S, key, kinds) ==
  part \in Seq(S) /\ Lists(part, key, UNION {Kinds[m] : m \in kinds})

LEMMA JoinKinds ==
  ASSUME NEW S, NEW key, NEW a, NEW b, NEW A, NEW n \in 1 .. 10, NEW B,
         A \subseteq 1 .. 10, n \notin A, B = A \cup {n},
         ListsKinds(a, S, key, A), ListsKinds(b, S, key, {n})
  PROVE  ListsKinds(a \o b, S, key, B)
<1>1. (UNION {Kinds[m] : m \in A}) \cap Kinds[n] = {}
  BY KindsApart
<1>2. UNION {Kinds[m] : m \in B} = (UNION {Kinds[m] : m \in A}) \cup Kinds[n]
  OBVIOUS
<1>3. UNION {Kinds[m] : m \in {n}} = Kinds[n]
  OBVIOUS
<1>4. QED
  BY <1>1, <1>2, <1>3, JoinLists DEF ListsKinds

LEMMA OneKind ==
  ASSUME NEW S, NEW key, NEW part \in Seq(S), NEW n, Lists(part, key, Kinds[n])
  PROVE  ListsKinds(part, S, key, {n})
<1>1. UNION {Kinds[m] : m \in {n}} = Kinds[n]
  OBVIOUS
<1>2. QED
  BY <1>1 DEF ListsKinds

\* All kinds in the order of a function are what a file offers.
LEMMA AllKinds ==
  ASSUME NEW S, NEW key, NEW part,
         ListsKinds(part, S, key, {1, 2, 3, 4, 5, 6, 7, 8, 9, 10})
  PROVE  part \in Seq(S) /\ Lists(part, key, Offered)
<1>1. {1, 2, 3, 4, 5, 6, 7, 8, 9, 10} = 1 .. 10
  OBVIOUS
<1>2. QED
  BY <1>1 DEF ListsKinds, Offered

\* The paths that are created and pushed alone.
LEMMA SinglePaths ==
  /\ Top("Times") \in Path /\ Top("Center") \in Path
  /\ Top("DispersionTensor") \in Path /\ Top("InertiaTensor") \in Path
  /\ Bar("MajorAxis") \in Path /\ Bar("SBar") \in Path /\ Bar("SBuckle") \in Path
BY PathsAssumption DEF Tops, Bars

\* Those that a switch puts in.
LEMMA SinglesLists ==
  /\ ListsKinds(<< Top("Times") >>, Path, own, {1})
  /\ ListsKinds(When("recenter", << Top("Center") >>), Path, own, {2})
  /\ ListsKinds(When("bar_major_axis", << Bar("MajorAxis") >>), Path, own, {3})
  /\ ListsKinds(When("sbar", << Bar("SBar") >>), Path, own, {5})
  /\ ListsKinds(When("sbuckle", << Bar("SBuckle") >>), Path, own, {6})
  /\ ListsKinds(When("dispersion_tensor", << Top("DispersionTensor") >>), Path, own, {9})
  /\ ListsKinds(When("inertia_tensor", << Top("InertiaTensor") >>), Path, own, {10})
<1>1. ASSUME NEW p \in Path, NEW switch
      PROVE  /\ When(switch, <<p>>) \in Seq(Path)
             /\ Lists(When(switch, <<p>>), own, Where(switch, {p}))
  BY SingleLists, WhenLists
<1>2. ListsKinds(<< Top("Times") >>, Path, own, {1})
  BY SinglePaths, SingleLists, OneKind DEF Kinds
<1>3. ListsKinds(When("recenter", << Top("Center") >>), Path, own, {2})
  <2>1. Kinds[2] = Where("recenter", {Top("Center")})
    BY DEF Kinds
  <2>2. QED
    BY <1>1, <2>1, SinglePaths, OneKind
<1>4. ListsKinds(When("bar_major_axis", << Bar("MajorAxis") >>), Path, own, {3})
  <2>1. Kinds[3] = Where("bar_major_axis", {Bar("MajorAxis")})
    BY DEF Kinds
  <2>2. QED
    BY <1>1, <2>1, SinglePaths, OneKind
<1>5. ListsKinds(When("sbar", << Bar("SBar") >>), Path, own, {5})
  <2>1. Kinds[5] = Where("sbar", {Bar("SBar")})
    BY DEF Kinds
  <2>2. QED
    BY <1>1, <2>1, SinglePaths, OneKind
<1>6. ListsKinds(When("sbuckle", << Bar("SBuckle") >>), Path, own, {6})
  <2>1. Kinds[6] = Where("sbuckle", {Bar("SBuckle")})
    BY DEF Kinds
  <2>2. QED
    BY <1>1, <2>1, SinglePaths, OneKind
<1>7. ListsKinds(When("dispersion_tensor", << Top("DispersionTensor") >>), Path, own, {9})
  <2>1. Kinds[9] = Where("dispersion_tensor", {Top("DispersionTensor")})
    BY DEF Kinds
  <2>2. QED
    BY <1>1, <2>1, SinglePaths, OneKind
<1>8. ListsKinds(When("inertia_tensor", << Top("InertiaTensor") >>), Path, own, {10})
  <2>1. Kinds[10] = Where("inertia_tensor", {Top("InertiaTensor")})
    BY DEF Kinds
  <2>2. QED
    BY <1>1, <2>1, SinglePaths, OneKind
<1>9. QED
  BY <1>2, <1>3, <1>4, <1>5, <1>6, <1>7, <1>8

\* create_model_file_datasets() lists every dataset once.
LEMMA CreatedLists ==
  ASSUME para \in Paras, Plain(para)
  PROVE  Created \in Seq(Path) /\ Lists(Created, own, Offered)
<1> DEFINE times == << Top("Times") >>
           center == When("recenter", << Top("Center") >>)
           axis == When("bar_major_axis", << Bar("MajorAxis") >>)
           radii == When("bar_radius", Radii)
           sbar == When("sbar", << Bar("SBar") >>)
           sbuckle == When("sbuckle", << Bar("SBuckle") >>)
           orders == Each(para.an, LAMBDA m : << An(m, "real"), An(m, "imag") >>)
           images == When("image", Each(para.colors, ImagesOf))
           dispersion == When("dispersion_tensor", << Top("DispersionTensor") >>)
           inertia == When("inertia_tensor", << Top("InertiaTensor") >>)
<1>s1. ListsKinds(times, Path, own, {1})
  BY SinglesLists
<1>s2. ListsKinds(center, Path, own, {2})
  BY SinglesLists
<1>s3. ListsKinds(axis, Path, own, {3})
  BY SinglesLists
<1>s5. ListsKinds(sbar, Path, own, {5})
  BY SinglesLists
<1>s6. ListsKinds(sbuckle, Path, own, {6})
  BY SinglesLists
<1>s9. ListsKinds(dispersion, Path, own, {9})
  BY SinglesLists
<1>s10. ListsKinds(inertia, Path, own, {10})
  BY SinglesLists
<1>2. ListsKinds(radii, Path, own, {4})
  <2>1. radii \in Seq(Path) /\ Lists(radii, own, Kinds[4])
    BY RadiiLists, WhenLists DEF Kinds
  <2>2. QED
    BY <2>1, OneKind
<1>3. ListsKinds(orders, Path, own, {7})
  <2>1. orders \in Seq(Path) /\ Lists(orders, own, Kinds[7])
    BY OrdersLists DEF Kinds
  <2>2. QED
    BY <2>1, OneKind
<1>4. ListsKinds(images, Path, own, {8})
  <2>1. images \in Seq(Path) /\ Lists(images, own, Kinds[8])
    BY ImagesLists, WhenLists DEF Kinds
  <2>2. QED
    BY <2>1, OneKind
<1>5. Created = times \o center \o axis \o radii \o sbar \o sbuckle \o orders \o images
                \o dispersion \o inertia
  BY DEF Created
<1> HIDE DEF times, center, axis, radii, sbar, sbuckle, orders, images, dispersion, inertia
<1>6. ListsKinds(times \o center, Path, own, {1, 2})
  <2>1. {1, 2} = {1} \cup {2} /\ {1} \subseteq 1 .. 10 /\ 2 \notin {1}
    OBVIOUS
  <2>2. QED
    BY <1>s1, <1>s2, <2>1, JoinKinds
<1>7. ListsKinds(times \o center \o axis, Path, own, {1, 2, 3})
  <2>1. {1, 2, 3} = {1, 2} \cup {3} /\ {1, 2} \subseteq 1 .. 10 /\ 3 \notin {1, 2}
    OBVIOUS
  <2>2. QED
    BY <1>6, <1>s3, <2>1, JoinKinds, SMTT(60)
<1>8. ListsKinds(times \o center \o axis \o radii, Path, own, {1, 2, 3, 4})
  <2>1. /\ {1, 2, 3, 4} = {1, 2, 3} \cup {4}
        /\ {1, 2, 3} \subseteq 1 .. 10
        /\ 4 \notin {1, 2, 3}
    OBVIOUS
  <2>2. QED
    BY <1>7, <1>2, <2>1, JoinKinds
<1>9. ListsKinds(times \o center \o axis \o radii \o sbar, Path, own, {1, 2, 3, 4, 5})
  <2>1. /\ {1, 2, 3, 4, 5} = {1, 2, 3, 4} \cup {5}
        /\ {1, 2, 3, 4} \subseteq 1 .. 10
        /\ 5 \notin {1, 2, 3, 4}
    OBVIOUS
  <2>2. QED
    BY <1>8, <1>s5, <2>1, JoinKinds
<1>10. ListsKinds(times \o center \o axis \o radii \o sbar
            \o sbuckle, Path, own, {1, 2, 3, 4, 5, 6})
  <2>1. /\ {1, 2, 3, 4, 5, 6} = {1, 2, 3, 4, 5} \cup {6}
        /\ {1, 2, 3, 4, 5} \subseteq 1 .. 10
        /\ 6 \notin {1, 2, 3, 4, 5}
    OBVIOUS
  <2>2. QED
    BY <1>9, <1>s6, <2>1, JoinKinds
<1>11. ListsKinds(times \o center \o axis \o radii \o sbar \o sbuckle
            \o orders, Path, own, {1, 2, 3, 4, 5, 6, 7})
  <2>1. /\ {1, 2, 3, 4, 5, 6, 7} = {1, 2, 3, 4, 5, 6} \cup {7}
        /\ {1, 2, 3, 4, 5, 6} \subseteq 1 .. 10
        /\ 7 \notin {1, 2, 3, 4, 5, 6}
    OBVIOUS
  <2>2. QED
    BY <1>10, <1>3, <2>1, JoinKinds
<1>12. ListsKinds(times \o center \o axis \o radii \o sbar \o sbuckle \o orders
            \o images, Path, own, {1, 2, 3, 4, 5, 6, 7, 8})
  <2>1. /\ {1, 2, 3, 4, 5, 6, 7, 8} = {1, 2, 3, 4, 5, 6, 7} \cup {8}
        /\ {1, 2, 3, 4, 5, 6, 7} \subseteq 1 .. 10
        /\ 8 \notin {1, 2, 3, 4, 5, 6, 7}
    OBVIOUS
  <2>2. QED
    BY <1>11, <1>4, <2>1, JoinKinds
<1>13. ListsKinds(times \o center \o axis \o radii \o sbar \o sbuckle \o orders \o images
            \o dispersion, Path, own, {1, 2, 3, 4, 5, 6, 7, 8, 9})
  <2>1. /\ {1, 2, 3, 4, 5, 6, 7, 8, 9} = {1, 2, 3, 4, 5, 6, 7, 8} \cup {9}
        /\ {1, 2, 3, 4, 5, 6, 7, 8} \subseteq 1 .. 10
        /\ 9 \notin {1, 2, 3, 4, 5, 6, 7, 8}
    OBVIOUS
  <2>2. QED
    BY <1>12, <1>s9, <2>1, JoinKinds
<1>14. ListsKinds(times \o center \o axis \o radii \o sbar \o sbuckle \o orders \o images
            \o dispersion \o inertia, Path, own, {1, 2, 3, 4, 5, 6, 7, 8, 9, 10})
  <2>1. /\ {1, 2, 3, 4, 5, 6, 7, 8, 9, 10} = {1, 2, 3, 4, 5, 6, 7, 8, 9} \cup {10}
        /\ {1, 2, 3, 4, 5, 6, 7, 8, 9} \subseteq 1 .. 10
        /\ 10 \notin {1, 2, 3, 4, 5, 6, 7, 8, 9}
    OBVIOUS
  <2>2. QED
    BY <1>13, <1>s10, <2>1, JoinKinds
<1>15. QED
  BY <1>5, <1>14, AllKinds

LEMMA OwnsKinds ==
  ASSUME NEW paths, NEW kinds, ListsKinds(paths, Path, own, kinds)
  PROVE  ListsKinds(Owns(paths), Pairs, target, kinds)
BY OwnsLists DEF ListsKinds

LEMMA WhenOwns ==
  ASSUME NEW paths, NEW switch
  PROVE  When(switch, Owns(paths)) = Owns(When(switch, paths))
BY DEF When, Owns

\* save() pushes once into every dataset, in another order.
LEMMA PushedLists ==
  ASSUME para \in Paras, Plain(para)
  PROVE  Pushed \in Seq(Pairs) /\ Lists(Pushed, target, Offered)
<1> DEFINE times == << Top("Times") >>
           center == When("recenter", << Top("Center") >>)
           axis == When("bar_major_axis", << Bar("MajorAxis") >>)
           sbar == When("sbar", << Bar("SBar") >>)
           sbuckle == When("sbuckle", << Bar("SBuckle") >>)
           bar == times \o center \o axis \o sbar \o sbuckle
           orders == Each(para.an, AnPushes)
           radii == When("bar_radius", Owns(Radii))
           images == When("image", Each(para.colors, ImagePushes))
           dispersion == When("dispersion_tensor", Owns(<< Top("DispersionTensor") >>))
           inertia == When("inertia_tensor", Owns(<< Top("InertiaTensor") >>))
<1>s1. ListsKinds(times, Path, own, {1})
  BY SinglesLists
<1>s2. ListsKinds(center, Path, own, {2})
  BY SinglesLists
<1>s3. ListsKinds(axis, Path, own, {3})
  BY SinglesLists
<1>s5. ListsKinds(sbar, Path, own, {5})
  BY SinglesLists
<1>s6. ListsKinds(sbuckle, Path, own, {6})
  BY SinglesLists
<1>s9. ListsKinds(dispersion, Pairs, target, {9})
  BY SinglesLists, WhenOwns, OwnsKinds
<1>s10. ListsKinds(inertia, Pairs, target, {10})
  BY SinglesLists, WhenOwns, OwnsKinds
<1>3. ListsKinds(radii, Pairs, target, {4})
  <2>1. When("bar_radius", Radii) \in Seq(Path) /\ Lists(When("bar_radius", Radii), own, Kinds[4])
    BY RadiiLists, WhenLists DEF Kinds
  <2>2. QED
    BY <2>1, OneKind, WhenOwns, OwnsKinds
<1>4. ListsKinds(orders, Pairs, target, {7})
  <2>1. orders \in Seq(Pairs) /\ Lists(orders, target, Kinds[7])
    BY OrdersLists DEF Kinds
  <2>2. QED
    BY <2>1, OneKind
<1>5. ListsKinds(images, Pairs, target, {8})
  <2>1. images \in Seq(Pairs) /\ Lists(images, target, Kinds[8])
    BY ImagesLists, WhenLists DEF Kinds
  <2>2. QED
    BY <2>1, OneKind
<1>6. Pushed = Owns(bar) \o orders \o radii \o images \o dispersion \o inertia
  BY DEF Pushed
<1> HIDE DEF times, center, axis, sbar, sbuckle, orders, radii, images, dispersion, inertia
<1>7. ListsKinds(times \o center, Path, own, {1, 2})
  <2>1. {1, 2} = {1} \cup {2} /\ {1} \subseteq 1 .. 10 /\ 2 \notin {1}
    OBVIOUS
  <2>2. QED
    BY <1>s1, <1>s2, <2>1, JoinKinds
<1>8. ListsKinds(times \o center \o axis, Path, own, {1, 2, 3})
  <2>1. {1, 2, 3} = {1, 2} \cup {3} /\ {1, 2} \subseteq 1 .. 10 /\ 3 \notin {1, 2}
    OBVIOUS
  <2>2. QED
    BY <1>7, <1>s3, <2>1, JoinKinds, SMTT(60)
<1>9. ListsKinds(times \o center \o axis \o sbar, Path, own, {1, 2, 3, 5})
  <2>1. /\ {1, 2, 3, 5} = {1, 2, 3} \cup {5}
        /\ {1, 2, 3} \subseteq 1 .. 10
        /\ 5 \notin {1, 2, 3}
    OBVIOUS
  <2>2. QED
    BY <1>8, <1>s5, <2>1, JoinKinds
<1>10. ListsKinds(times \o center \o axis \o sbar \o sbuckle, Path, own, {1, 2, 3, 5, 6})
  <2>1. /\ {1, 2, 3, 5, 6} = {1, 2, 3, 5} \cup {6}
        /\ {1, 2, 3, 5} \subseteq 1 .. 10
        /\ 6 \notin {1, 2, 3, 5}
    OBVIOUS
  <2>2. QED
    BY <1>9, <1>s6, <2>1, JoinKinds
<1>11. ListsKinds(Owns(bar), Pairs, target, {1, 2, 3, 5, 6})
  BY <1>10, OwnsKinds
<1> HIDE DEF bar
<1>12. ListsKinds(Owns(bar) \o orders, Pairs, target, {1, 2, 3, 5, 6, 7})
  <2>1. /\ {1, 2, 3, 5, 6, 7} = {1, 2, 3, 5, 6} \cup {7}
        /\ {1, 2, 3, 5, 6} \subseteq 1 .. 10
        /\ 7 \notin {1, 2, 3, 5, 6}
    OBVIOUS
  <2>2. QED
    BY <1>11, <1>4, <2>1, JoinKinds
<1>13. ListsKinds(Owns(bar) \o orders \o radii, Pairs, target, {1, 2, 3, 5, 6, 7, 4})
  <2>1. /\ {1, 2, 3, 5, 6, 7, 4} = {1, 2, 3, 5, 6, 7} \cup {4}
        /\ {1, 2, 3, 5, 6, 7} \subseteq 1 .. 10
        /\ 4 \notin {1, 2, 3, 5, 6, 7}
    OBVIOUS
  <2>2. QED
    BY <1>12, <1>3, <2>1, JoinKinds
<1>14. ListsKinds(Owns(bar) \o orders \o radii
            \o images, Pairs, target, {1, 2, 3, 5, 6, 7, 4, 8})
  <2>1. /\ {1, 2, 3, 5, 6, 7, 4, 8} = {1, 2, 3, 5, 6, 7, 4} \cup {8}
        /\ {1, 2, 3, 5, 6, 7, 4} \subseteq 1 .. 10
        /\ 8 \notin {1, 2, 3, 5, 6, 7, 4}
    OBVIOUS
  <2>2. QED
    BY <1>13, <1>5, <2>1, JoinKinds
<1>15. ListsKinds(Owns(bar) \o orders \o radii \o images
            \o dispersion, Pairs, target, {1, 2, 3, 5, 6, 7, 4, 8, 9})
  <2>1. /\ {1, 2, 3, 5, 6, 7, 4, 8, 9} = {1, 2, 3, 5, 6, 7, 4, 8} \cup {9}
        /\ {1, 2, 3, 5, 6, 7, 4, 8} \subseteq 1 .. 10
        /\ 9 \notin {1, 2, 3, 5, 6, 7, 4, 8}
    OBVIOUS
  <2>2. QED
    BY <1>14, <1>s9, <2>1, JoinKinds
<1>16. ListsKinds(Owns(bar) \o orders \o radii \o images \o dispersion
            \o inertia, Pairs, target, {1, 2, 3, 5, 6, 7, 4, 8, 9, 10})
  <2>1. /\ {1, 2, 3, 5, 6, 7, 4, 8, 9, 10} = {1, 2, 3, 5, 6, 7, 4, 8, 9} \cup {10}
        /\ {1, 2, 3, 5, 6, 7, 4, 8, 9} \subseteq 1 .. 10
        /\ 10 \notin {1, 2, 3, 5, 6, 7, 4, 8, 9}
    OBVIOUS
  <2>2. QED
    BY <1>15, <1>s10, <2>1, JoinKinds
<1>17. {1, 2, 3, 5, 6, 7, 4, 8, 9, 10} = {1, 2, 3, 4, 5, 6, 7, 8, 9, 10}
  OBVIOUS
<1>18. QED
  BY <1>6, <1>16, <1>17, AllKinds

-----------------------------------------------------------------------------
(***************************************************************************)
(* The writer, with what is proved about it.                               *)
(***************************************************************************)
WP == INSTANCE H5WriterProofs WITH
  Value <- Row, MaxRows <- 2 * MaxSaves,
  Faults <- {p.faults : p \in Paras}, faults <- para.faults

\* It is the writer of the model.
LEMMA SameWriter ==
  /\ W!Datasets = WP!Datasets /\ W!Faulty = WP!Faulty /\ W!Root = WP!Root
  /\ W!Init => WP!Init \/ para \notin Paras
  /\ \A p \in Path :
       /\ W!CreateDataset(p) => WP!CreateDataset(p)
       /\ W!RefusePush(p) => WP!RefusePush(p)
       /\ \A v \in Row : W!Push(p, v) => WP!Push(p, v)
  /\ W!Destroy => WP!Destroy
  /\ W!Crash => WP!Crash
  /\ W!vars = WP!vars
<1>1. W!Datasets = WP!Datasets /\ W!Faulty = WP!Faulty /\ W!Root = WP!Root
  BY DEF W!Datasets, WP!Datasets, W!Faulty, WP!Faulty, W!Root, WP!Root
<1>2. W!Init => WP!Init \/ para \notin Paras
  BY DEF W!Init, WP!Init, W!Root, WP!Root
<1>3. ASSUME NEW p \in Path
      PROVE  W!CreateDataset(p) => WP!CreateDataset(p)
  BY Zenon
     DEF W!Datasets, WP!Datasets, W!Faulty, WP!Faulty, W!Root, WP!Root,
         W!CreateDataset, WP!CreateDataset, W!Exists, WP!Exists, W!Did, WP!Did,
         W!Parent, WP!Parent, W!Made, WP!Made, W!Outcome, WP!Outcome,
         W!WithDataset, WP!WithDataset, W!WithParents, WP!WithParents, W!WithGroups, WP!WithGroups, W!Missing, WP!Missing,
         W!Prefixes, WP!Prefixes, W!Usable, WP!Usable, W!Base, WP!Base
<1>4. ASSUME NEW p \in Path
      PROVE  W!RefusePush(p) => WP!RefusePush(p)
  BY DEF W!RefusePush, WP!RefusePush, W!Did, WP!Did
<1>5. ASSUME NEW p \in Path, NEW v \in Row
      PROVE  W!Push(p, v) => WP!Push(p, v)
  BY <1>1
     DEF W!Push, WP!Push, W!Outcome, WP!Outcome, W!Extended, WP!Extended,
         W!FlushWhenFull, WP!FlushWhenFull, W!Flushed, WP!Flushed, W!CountPush, WP!CountPush,
         W!Pushed, WP!Pushed
<1>6. W!Destroy => WP!Destroy
  BY Zenon
     DEF W!Datasets, WP!Datasets, W!Faulty, WP!Faulty, W!Root, WP!Root,
         W!Destroy, WP!Destroy, W!Destroyed, WP!Destroyed, W!Kept, WP!Kept, W!Did, WP!Did
<1>7. W!Crash => WP!Crash
  BY <1>1, Zenon
     DEF W!Crash, WP!Crash, W!Mortal, WP!Mortal, W!Kept, WP!Kept, W!Did, WP!Did
<1>8. W!vars = WP!vars
  BY DEF W!vars, WP!vars
<1>9. QED
  BY <1>1, <1>2, <1>3, <1>4, <1>5, <1>6, <1>7, <1>8

\* The writer's assumptions.
LEMMA WriterFits ==
  /\ Path \subseteq Seq(Name) /\ <<>> \notin Path
  /\ \A p \in Path : WP!Prefixes(p) \subseteq Path
  /\ Chunk \in [Path -> Nat \ {0}] /\ 2 * MaxSaves \in Nat /\ Fill \notin Row
  /\ {p.faults : p \in Paras} \subseteq SUBSET {"library", "death"}
<1>1. \A p \in Path : W!Prefixes(p) = WP!Prefixes(p)
  BY DEF W!Prefixes, WP!Prefixes
<1>2. MaxSaves \in Nat => 2 * MaxSaves \in Nat
  OBVIOUS
<1>3. QED
  BY <1>1, <1>2, WriterAssumption

\* What a push does to the rows.
LEMMA FilePushes ==
  ASSUME WP!RowsInv, NEW p \in Path, NEW v \in Row, W!Push(p, v)
  PROVE  /\ WP!RowsInv'
         /\ p \in WP!Datasets /\ mode = "open" /\ UNCHANGED <<nodes, mode>>
         /\ \A q \in Path \ {p} : rows'[q] = rows[q] /\ counter'[q] = counter[q]
         /\ counter'[p] = counter[p] + 1
         /\ \A k \in DOMAIN rows[p] : rows'[p][k] = rows[p][k]
         /\ \A k \in DOMAIN rows'[p] \ DOMAIN rows[p] :
              rows'[p][k] = Fill \/ (k = counter[p] /\ rows'[p][k] = v)
<1>1. WP!Push(p, v)
  BY SameWriter
<1>2. WP!RowsInv'
  BY <1>1, WriterFits, WP!PushRows
<1>3. p \in WP!Datasets /\ mode = "open" /\ UNCHANGED <<nodes, mode>>
  BY <1>1, WriterFits, WP!Pushes
<1>4. /\ \A q \in Path \ {p} : rows'[q] = rows[q] /\ counter'[q] = counter[q]
      /\ counter'[p] = counter[p] + 1
      /\ \A k \in 1 .. Len(rows[p]) : rows'[p][k] = rows[p][k]
      /\ \A k \in DOMAIN rows'[p] \ DOMAIN rows[p] : k # counter[p] => rows'[p][k] = Fill
      /\ counter[p] \in DOMAIN rows'[p] => rows'[p][counter[p]] = v \/ rows'[p][counter[p]] = Fill
  BY <1>1, WriterFits, WP!PushKeeps
<1>5. DOMAIN rows[p] = 1 .. Len(rows[p])
  BY WriterFits, WP!RowsAreSequences DEF WP!RowsInv
<1>6. ASSUME NEW k \in DOMAIN rows'[p] \ DOMAIN rows[p]
      PROVE  rows'[p][k] = Fill \/ (k = counter[p] /\ rows'[p][k] = v)
  BY <1>4, <1>6
<1>7. \A k \in DOMAIN rows[p] : rows'[p][k] = rows[p][k]
  BY <1>4, <1>5
<1>8. QED
  BY <1>2, <1>3, <1>4, <1>6, <1>7

-----------------------------------------------------------------------------
(***************************************************************************)
(* The tree of the file.                                                   *)
(***************************************************************************)

\* The two groups of a file.
Ways == {<< <<"Bar">> >>, << <<"Image">> >>}

\* A dataset is at the top or in one of the groups.
LEMMA Shapes ==
  ASSUME NEW p \in Offered
  PROVE  \/ \E name \in Tops : p = Top(name)
         \/ \E x : p = << <<"Bar">>, x >>
         \/ \E x : p = << <<"Image">>, x >>
<1>1. \/ p \in {Top(name) : name \in Tops}
      \/ p \in {Bar(name) : name \in Bars}
      \/ p \in AnPaths
      \/ p \in ImagePaths
  <2>1. /\ Kinds[1] \cup Kinds[2] \cup Kinds[9] \cup Kinds[10] \subseteq {Top(name) : name \in Tops}
        /\ Kinds[3] \cup Kinds[4] \cup Kinds[5] \cup Kinds[6] \subseteq {Bar(name) : name \in Bars}
        /\ Kinds[7] \subseteq AnPaths /\ Kinds[8] \subseteq ImagePaths
    BY DEF Kinds, Where, Tops, Bars
  <2>2. QED
    BY <2>1, KindsApart
<1>2. p \in AnPaths => \E x : p = << <<"Bar">>, x >>
  BY DEF AnPaths, An
<1>3. p \in ImagePaths => \E x : p = << <<"Image">>, x >>
  BY DEF ImagePaths, Image
<1>4. QED
  BY <1>1, <1>2, <1>3 DEF Bar

\* So its parent is the file or a group, and no dataset itself.
LEMMA ParentsOfDatasets ==
  /\ \A p \in Offered : WP!Parent(p) \in Ways \cup {WP!Root}
  /\ (Ways \cup {WP!Root}) \cap Offered = {}
  /\ \A w \in Ways : WP!Prefixes(w) = {w} /\ Len(w) = 1
<1>1. ASSUME NEW x, NEW y
      PROVE  /\ WP!Parent(<<x>>) = WP!Root
             /\ WP!Parent(<<x, y>>) = <<x>>
             /\ WP!Prefixes(<<x>>) = {<<x>>}
  <2> DEFINE S == {x, y}
  <2>1. /\ <<x>> \in Seq(S) /\ Len(<<x>>) = 1
        /\ <<x, y>> \in Seq(S) /\ Len(<<x, y>>) = 2 /\ <<x, y>>[1] = x
        /\ 1 .. 1 = {1}
    OBVIOUS
  <2>2. SubSeq(<<x>>, 1, 1) = <<x>>
    BY <2>1, SubSeqFull
  <2>3. SubSeq(<<x, y>>, 1, 1) = <<x>>
    <3>1. \A i \in 1 .. 1 : <<x, y>>[i] \in S
      OBVIOUS
    <3> DEFINE s == SubSeq(<<x, y>>, 1, 1)
    <3>2. s \in Seq(S) /\ Len(s) = 1 /\ s[1] = <<x, y>>[1]
      BY <3>1, SubSeqProperties
    <3> HIDE DEF s
    <3>3. s = <<x>>
      BY <2>1, <3>2
    <3>4. QED
      BY <3>3 DEF s
  <2>4. WP!Parent(<<x>>) = WP!Root
    BY <2>1, SubSeqEmpty DEF WP!Parent, WP!Root
  <2>5. WP!Parent(<<x, y>>) = <<x>>
    BY <2>1, <2>3 DEF WP!Parent
  <2>6. QED
    BY <2>1, <2>2, <2>4, <2>5 DEF WP!Prefixes
<1>2. ASSUME NEW p \in Offered
      PROVE  WP!Parent(p) \in Ways \cup {WP!Root}
  <2>1. CASE \E name \in Tops : p = Top(name)
    BY <1>1, <2>1, Zenon DEF Top
  <2>2. CASE \E x : p = << <<"Bar">>, x >>
    BY <1>1, <2>2, Zenon DEF Ways
  <2>3. CASE \E x : p = << <<"Image">>, x >>
    <3>1. WP!Parent(p) = << <<"Image">> >>
      BY <1>1, <2>3, Zenon
    <3>2. QED
      BY <3>1 DEF Ways
  <2>4. QED
    BY <2>1, <2>2, <2>3, Shapes
<1>3. ASSUME NEW p \in Offered, p \in Ways \cup {WP!Root}
      PROVE  FALSE
  BY <1>3, Shapes DEF Ways, WP!Root, Top, Tops
<1>4. QED
  BY <1>1, <1>2, <1>3 DEF Ways

\* The nodes of a file: its datasets, and what is on the way to them; handles
\* are valid unless the library fails.
Tree ==
  /\ WP!Datasets \subseteq Offered
  /\ DOMAIN nodes \ WP!Datasets \subseteq Ways \cup {WP!Root}
  /\ ~WP!Faulty => \A p \in DOMAIN nodes : nodes[p].ok

\* The group a dataset is in is created before it.
LEMMA GroupsFirst ==
  ASSUME WP!NodesType, Tree, NEW p \in Offered, Len(p) \in Nat \ {0},
         NEW tree \in WP!WithParents(p)
  PROVE  /\ DOMAIN nodes \subseteq DOMAIN tree /\ WP!Parent(p) \in DOMAIN tree
         /\ DOMAIN tree \subseteq DOMAIN nodes \cup Ways
         /\ \A q \in DOMAIN nodes : tree[q] = nodes[q]
         /\ \A q \in DOMAIN tree \ DOMAIN nodes : tree[q].type = "group"
         /\ tree[WP!Parent(p)].type # "dataset"
         /\ ~WP!Faulty => \A q \in DOMAIN tree : tree[q].ok
<1> DEFINE w == WP!Parent(p)
<1>1. w \in Ways \cup {WP!Root} /\ w \notin Offered /\ w \notin WP!Datasets
  BY ParentsOfDatasets DEF Tree
<1>2. CASE w \in DOMAIN nodes
  <2>1. tree = nodes
    BY <1>2 DEF WP!Exists, WP!WithParents
  <2>2. QED
    BY <1>1, <1>2, <2>1 DEF Tree, WP!Datasets
<1>3. CASE w \notin DOMAIN nodes
  <2>1. w \in Ways /\ WP!Prefixes(w) = {w} /\ Len(w) = 1 /\ WP!Root \in DOMAIN nodes
    BY <1>1, <1>3, ParentsOfDatasets DEF WP!NodesType
  <2>m. PICK made \in WP!Made(p) : tree = WP!WithGroups(w, made)
    BY <1>3 DEF WP!WithParents, WP!Exists
  <2>n. ~WP!Faulty => made \in Nat /\ 1 <= made
    BY <2>m DEF WP!Made
  <2>2. tree = [q \in DOMAIN nodes \cup {w} |->
                  IF q \in DOMAIN nodes THEN nodes[q]
                  ELSE [type |-> "group", ok |-> WP!Usable(WP!Base(w)) /\ Len(q) <= made]]
    BY <1>3, <2>1, <2>m DEF WP!WithGroups, WP!Missing, WP!Exists
  <2>3. WP!Base(w) = WP!Root
    <3>1. {q \in WP!Prefixes(w) \cup {WP!Root} : WP!Exists(q)} = {WP!Root}
      BY <1>3, <2>1 DEF WP!Exists
    <3>2. \A r \in {WP!Root} : Len(r) <= Len(WP!Root)
      BY DEF WP!Root
    <3>3. QED
      BY <3>1, <3>2 DEF WP!Base
  <2>4. ~WP!Faulty => WP!Usable(WP!Base(w)) /\ Len(w) <= made
    BY <2>1, <2>3, <2>n DEF WP!Usable, Tree, WP!NodesType
  <2>5. tree[w] = [type |-> "group", ok |-> WP!Usable(WP!Base(w)) /\ Len(w) <= made]
    BY <1>3, <2>2
  <2>6. DOMAIN tree = DOMAIN nodes \cup {w} /\ \A q \in DOMAIN nodes : tree[q] = nodes[q]
    BY <2>2
  <2>7. tree[w].type = "group" /\ (~WP!Faulty => tree[w].ok)
    <3>1. /\ tree[w].type = "group"
          /\ tree[w].ok = (WP!Usable(WP!Base(w)) /\ Len(w) <= made)
      BY <2>5
    <3>2. QED
      BY <2>4, <3>1, Zenon
  <2> HIDE DEF w
  <2>8. /\ \A q \in DOMAIN tree \ DOMAIN nodes : tree[q].type = "group"
        /\ ~WP!Faulty => \A q \in DOMAIN tree : tree[q].ok
    BY <2>6, <2>7 DEF Tree
  <2>9. QED
    BY <2>1, <2>6, <2>7, <2>8 DEF w
<1>4. QED
  BY <1>2, <1>3

\* A dataset that is not there yet is created, or create_datanode() throws.
LEMMA FileCreates ==
  ASSUME WP!RowsInv, Tree, Offered \subseteq Path,
         NEW p \in Offered, p \notin WP!Datasets, W!CreateDataset(p)
  PROVE  /\ WP!RowsInv'
         /\ WP!Datasets' = IF Thrown' THEN WP!Datasets ELSE WP!Datasets \cup {p}
         /\ DOMAIN nodes' \ WP!Datasets' \subseteq Ways \cup {WP!Root}
         /\ ~WP!Faulty => \A q \in DOMAIN nodes' : nodes'[q].ok
         /\ mode = "open" /\ UNCHANGED <<counter, rows, synced, mode>>
         /\ last'.op = "create_dataset"
<1>1. WP!CreateDataset(p) /\ p \in Path
  BY SameWriter
<1>2. p \notin DOMAIN nodes /\ WP!Parent(p) \notin WP!Datasets
  BY ParentsOfDatasets DEF Tree
<1>3. /\ Thrown' => nodes' \in WP!WithParents(p)
      /\ ~Thrown' => \E tree \in WP!WithParents(p), fine \in WP!Outcome :
                       nodes' = WP!WithDataset(tree, p, fine)
  <2>1. ~WP!Exists(p)
    BY <1>2 DEF WP!Exists
  <2>2. QED
    BY <1>1, <1>2, <2>1 DEF WP!CreateDataset, WP!Did, Thrown
<1>4. ASSUME NEW tree \in WP!WithParents(p)
      PROVE  /\ DOMAIN nodes \subseteq DOMAIN tree /\ WP!Parent(p) \in DOMAIN tree
             /\ DOMAIN tree \subseteq DOMAIN nodes \cup Ways
             /\ \A q \in DOMAIN nodes : tree[q] = nodes[q]
             /\ \A q \in DOMAIN tree \ DOMAIN nodes : tree[q].type = "group"
             /\ tree[WP!Parent(p)].type # "dataset"
             /\ ~WP!Faulty => \A q \in DOMAIN tree : tree[q].ok
  <2>1. Len(p) \in Nat \ {0}
    BY <1>1, WriterFits, WP!ParentIsPrefix
  <2>2. QED
    BY <2>1, GroupsFirst DEF WP!RowsInv
<1>5. ASSUME Thrown'
      PROVE  /\ WP!Datasets' = WP!Datasets
             /\ DOMAIN nodes' \ WP!Datasets' \subseteq Ways \cup {WP!Root}
             /\ ~WP!Faulty => \A q \in DOMAIN nodes' : nodes'[q].ok
  <2>1. nodes' \in WP!WithParents(p)
    BY <1>3, <1>5
  <2>2. /\ DOMAIN nodes \subseteq DOMAIN nodes' /\ DOMAIN nodes' \subseteq DOMAIN nodes \cup Ways
        /\ \A q \in DOMAIN nodes : nodes'[q] = nodes[q]
        /\ \A q \in DOMAIN nodes' \ DOMAIN nodes : nodes'[q].type = "group"
        /\ ~WP!Faulty => \A q \in DOMAIN nodes' : nodes'[q].ok
    BY <1>4, <2>1
  <2>3. WP!Datasets' = WP!Datasets
    BY <2>2 DEF WP!Datasets
  <2>4. DOMAIN nodes' \ WP!Datasets' \subseteq Ways \cup {WP!Root}
    BY <2>2, <2>3 DEF Tree
  <2>5. QED
    BY <1>5, <2>2, <2>3, <2>4
<1>6. ASSUME ~Thrown'
      PROVE  /\ WP!Datasets' = WP!Datasets \cup {p}
             /\ DOMAIN nodes' \ WP!Datasets' \subseteq Ways \cup {WP!Root}
             /\ ~WP!Faulty => \A q \in DOMAIN nodes' : nodes'[q].ok
  <2>1. PICK tree \in WP!WithParents(p), fine \in WP!Outcome :
          nodes' = WP!WithDataset(tree, p, fine)
    BY <1>3, <1>6
  <2>2. nodes' = [q \in DOMAIN tree \cup {p} |->
                   IF q = p
                     THEN [type |-> "dataset",
                           ok |-> /\ tree[WP!Parent(p)].ok
                                  /\ tree[WP!Parent(p)].type # "dataset" /\ fine]
                     ELSE tree[q]]
    BY <2>1 DEF WP!WithDataset
  <2>3. /\ DOMAIN nodes \subseteq DOMAIN tree /\ WP!Parent(p) \in DOMAIN tree
        /\ DOMAIN tree \subseteq DOMAIN nodes \cup Ways
        /\ \A q \in DOMAIN nodes : tree[q] = nodes[q]
        /\ \A q \in DOMAIN tree \ DOMAIN nodes : tree[q].type = "group"
        /\ tree[WP!Parent(p)].type # "dataset"
        /\ ~WP!Faulty => \A q \in DOMAIN tree : tree[q].ok
    BY <1>4
  <2>4. /\ DOMAIN nodes' = DOMAIN tree \cup {p}
        /\ \A q \in DOMAIN tree \ {p} : nodes'[q] = tree[q]
        /\ nodes'[p].type = "dataset"
        /\ ~WP!Faulty => nodes'[p].ok
    <3>1. ~WP!Faulty => fine = TRUE
      BY <2>1 DEF WP!Outcome
    <3>2. QED
      BY <2>2, <2>3, <3>1
  <2>5. WP!Datasets' = WP!Datasets \cup {p}
    BY <1>2, <2>3, <2>4 DEF WP!Datasets
  <2>6. DOMAIN nodes' \ WP!Datasets' \subseteq Ways \cup {WP!Root}
    BY <2>3, <2>4, <2>5 DEF Tree
  <2>7. ~WP!Faulty => \A q \in DOMAIN nodes' : nodes'[q].ok
    BY <2>3, <2>4
  <2>8. QED
    BY <1>6, <2>5, <2>6, <2>7
<1>7. WP!Datasets \subseteq WP!Datasets'
  BY <1>5, <1>6
<1>8. mode = "open" /\ UNCHANGED <<counter, rows, synced, mode>> /\ last'.op = "create_dataset"
  BY <1>1 DEF WP!CreateDataset, WP!Did
<1>9. WP!RowsInv'
  <2>1. WP!NodesType'
    BY <1>1, WriterFits, WP!CreatesDataset DEF WP!RowsInv
  <2>2. QED
    BY <1>7, <1>8, <2>1, WriterFits, WP!CreateRows
<1>10. QED
  BY <1>5, <1>6, <1>8, <1>9

\* A push that was not refused says what became of its row, and extends the
\* dataset if the library does what it is told.
LEMMA FilePushExtends ==
  ASSUME WP!RowsInv, NEW p \in Path, NEW v \in Row, W!Push(p, v)
  PROVE  /\ last'.cell # "none"
         /\ ~WP!Faulty /\ nodes[p].ok => Len(rows'[p]) = counter[p]
<1>1. WP!Push(p, v)
  BY SameWriter
<1>2. last'.cell # "none"
  BY <1>1 DEF WP!Push, WP!Pushed
<1>3. ASSUME ~WP!Faulty, nodes[p].ok
      PROVE  Len(rows'[p]) = counter[p]
  <2> DEFINE e == WP!Extended(p, counter[p])
  <2>1. counter[p] \in Nat /\ WP!RowsType
    BY WriterFits, WP!RowsAreSequences DEF WP!RowsInv
  <2>2. e \in Seq(WP!Cell) /\ Len(e) = counter[p]
    BY <2>1, WriterFits, WP!ExtendedRows
  <2>3. rows \in [Path -> Seq(WP!Cell)]
    BY <2>1 DEF WP!RowsType
  <2>4. \/ rows' = [rows EXCEPT ![p] = [e EXCEPT ![counter[p]] = v]]
        \/ rows' = [rows EXCEPT ![p] = e]
    <3>1. PICK extended \in WP!Outcome, written \in WP!Outcome :
            LET grown == IF nodes[p].ok /\ extended THEN e ELSE rows[p]
                hit == counter[p] \in DOMAIN grown /\ written
            IN  rows' = [rows EXCEPT ![p] =
                           IF hit THEN [grown EXCEPT ![counter[p]] = v] ELSE grown]
      BY <1>1 DEF WP!Push
    <3>2. extended = TRUE
      BY <1>3 DEF WP!Outcome
    <3> HIDE DEF e
    <3>3. QED
      BY <1>3, <3>1, <3>2
  <2> HIDE DEF e
  <2>5. rows'[p] = e \/ rows'[p] = [e EXCEPT ![counter[p]] = v]
    BY <2>3, <2>4
  <2>6. Len([e EXCEPT ![counter[p]] = v]) = Len(e)
    BY <2>2
  <2>7. QED
    BY <2>2, <2>5, <2>6
<1>4. QED
  BY <1>2, <1>3

\* The destructor leaves all rows on the disk if the library does.
LEMMA FileCloses ==
  ASSUME WP!RowsInv, W!Destroy
  PROVE  /\ WP!RowsInv' /\ mode = "open" /\ mode' = "closed" /\ UNCHANGED <<nodes, counter, rows>>
         /\ ~WP!Faulty => \A p \in Path : synced'[p] = Len(rows[p])
         /\ last'.op = "destroy"
<1>1. WP!Destroy
  BY SameWriter
<1>2. WP!RowsInv'
  BY <1>1, WriterFits, WP!DestroyRows
<1>3. QED
  BY <1>1, <1>2 DEF WP!Destroy, WP!Destroyed, WP!Did

\* A crash leaves the first rows of each dataset.
LEMMA FileDies ==
  ASSUME WP!RowsInv, W!Crash
  PROVE  /\ WP!RowsInv' /\ mode = "open" /\ mode' = "dead" /\ UNCHANGED <<nodes, counter>>
         /\ \A p \in Path : \A k \in DOMAIN rows'[p] :
              k \in DOMAIN rows[p] /\ rows'[p][k] = rows[p][k]
         /\ last'.op = "crash"
<1>1. WP!Crash
  BY SameWriter
<1>2. WP!RowsInv' /\ UNCHANGED <<nodes, counter>>
  BY <1>1, WriterFits, WP!CrashRows
<1>3. ASSUME NEW p \in Path, NEW k \in DOMAIN rows'[p]
      PROVE  k \in DOMAIN rows[p] /\ rows'[p][k] = rows[p][k]
  <2>1. CASE p \in WP!Datasets
    <3>1. PICK n \in synced[p] .. Len(rows[p]) :
            n \in Nat /\ rows'[p] = SubSeq(rows[p], 1, n) /\ Len(rows'[p]) = n
      BY <1>1, <2>1, WriterFits, WP!CrashRows
    <3>2. /\ rows[p] \in Seq(WP!Cell) /\ Len(rows[p]) \in Nat
          /\ DOMAIN rows[p] = 1 .. Len(rows[p])
      BY WriterFits, WP!RowsAreSequences DEF WP!RowsInv
    <3>3. \A i \in 1 .. n : rows[p][i] \in WP!Cell
      BY <3>1, <3>2
    <3>4. rows'[p] \in Seq(WP!Cell) /\ \A i \in 1 .. n : rows'[p][i] = rows[p][i]
      BY <3>1, <3>3, SubSeqProperties
    <3>5. k \in 1 .. n
      BY <1>3, <3>1, <3>4
    <3>6. QED
      BY <3>1, <3>2, <3>4, <3>5
  <2>2. CASE p \notin WP!Datasets
    <3>1. rows'[p] = <<>>
      BY <1>1, <2>2 DEF WP!Crash
    <3>2. QED
      BY <1>3, <3>1
  <2>3. QED
    BY <2>1, <2>2
<1>4. mode = "open" /\ mode' = "dead" /\ last'.op = "crash"
  BY <1>1 DEF WP!Crash, WP!Did
<1>5. QED
  BY <1>2, <1>3, <1>4

-----------------------------------------------------------------------------
(***************************************************************************)
(* The invariant: what a function still has to list, and what that means   *)
(* for the file.                                                           *)
(***************************************************************************)

\* The datasets that the running function has not come to yet.
Left ==
  IF saves = 0 THEN {own[todo[k]] : k \in DOMAIN todo}
  ELSE {target[todo[k]] : k \in DOMAIN todo}

Listed ==
  /\ para \in Paras /\ saves \in 0 .. MaxSaves
  /\ Left \subseteq Offered
  /\ saves = 0 => todo \in Seq(Path) /\ Lists(todo, own, Left)
  /\ saves # 0 => todo \in Seq(Pairs) /\ Lists(todo, target, Left)

\* The constructor creates what it has come to, all of it by the first save().
Built == Tree /\ WP!Datasets = IF saves = 0 THEN Offered \ Left ELSE Offered

\* A dataset lags one row behind until save() comes to it.
Numbered ==
  \A p \in Offered : counter[p] = IF saves # 0 /\ p \in Left THEN saves ELSE saves + 1

\* A row was never written, or is of the step with its number and, but for the
\* imaginary parts, of the quantity its dataset is named after.
Meant ==
  \A p \in Path : \A k \in DOMAIN rows[p] :
    rows[p][k] = Fill \/ (rows[p][k].step = k /\ <<p, rows[p][k].of>> \in Pairs)

Found == last.op = "push" => last.cell # "none"

\* As long as the library does what it is told no row is missing, and none is
\* missing on the disk at the end.
Complete ==
  ~WP!Faulty =>
    /\ mode # "dead" => \A p \in WP!Datasets : Len(rows[p]) = counter[p] - 1
    /\ mode = "closed" => todo = <<>> /\ \A p \in WP!Datasets : synced[p] = Len(rows[p])

FileInv == WP!RowsInv /\ Listed /\ Built /\ Numbered /\ Meant /\ Found /\ Complete

AllPlain == \A p \in Paras : Plain(p)

\* Datasets are paths.
LEMMA OfferedArePaths == ASSUME AllPlain, para \in Paras PROVE Offered \subseteq Path
<1>1. Created \in Seq(Path) /\ Lists(Created, own, Offered)
  BY CreatedLists DEF AllPlain
<1>2. \A k \in DOMAIN Created : own[Created[k]] \in Path
  BY <1>1 DEF own
<1>3. QED
  BY <1>1, <1>2 DEF Lists

\* What depends on the options only.
LEMMA SameOptions ==
  ASSUME UNCHANGED para
  PROVE  Offered' = Offered /\ target' = target /\ Pairs' = Pairs /\ own' = own
         /\ (WP!Faulty' <=> WP!Faulty)
<1>1. Offered' = Offered
  BY DEF Offered, Kinds, Where, AnPaths, ImagePaths
<1>2. QED
  BY <1>1 DEF target, Pairs, own, WP!Faulty

LEMMA InitFile == ASSUME AllPlain, Init PROVE FileInv
<1>1. para \in Paras /\ W!Init /\ todo = Created /\ saves = 0
  BY DEF Init
<1>2. WP!Init
  BY <1>1, SameWriter
<1>3. WP!RowsInv
  BY <1>2, WriterFits, WP!InitRows
<1>4. Created \in Seq(Path) /\ Lists(Created, own, Offered)
  BY <1>1, CreatedLists DEF AllPlain
<1>5. Left = Offered
  BY <1>1, <1>4 DEF Left, Lists
<1>6. Listed
  BY <1>1, <1>4, <1>5, WriterAssumption DEF Listed
<1>7. /\ nodes = [p \in {WP!Root} |-> [type |-> "file", ok |-> TRUE]]
      /\ counter = [p \in Path |-> 1] /\ rows = [p \in Path |-> <<>>] /\ mode = "open"
      /\ last.op = "create_file"
  BY <1>2 DEF WP!Init
<1>8. WP!Datasets = {}
  BY <1>7 DEF WP!Datasets
<1>9. Built
  BY <1>1, <1>5, <1>7, <1>8 DEF Built, Tree
<1>10. Numbered
  BY <1>1, <1>7, OfferedArePaths DEF Numbered
<1>11. Meant
  BY <1>7 DEF Meant
<1>12. Found /\ Complete
  BY <1>7, <1>8 DEF Found, Complete
<1>13. QED
  BY <1>3, <1>6, <1>9, <1>10, <1>11, <1>12 DEF FileInv

\* The next dataset is created, or never.
LEMMA CreateFile == ASSUME AllPlain, FileInv, CreateNext PROVE FileInv'
<1> DEFINE p == Head(todo)
           rest == IF Thrown' THEN Left ELSE Left \ {p}
<1>1. /\ saves = 0 /\ saves' = 0 /\ todo # <<>> /\ UNCHANGED para /\ W!CreateDataset(p)
      /\ todo' = IF Thrown' THEN todo ELSE Tail(todo)
  BY DEF CreateNext
<1>2. /\ WP!RowsInv /\ todo \in Seq(Path) /\ Lists(todo, own, Left) /\ Left \subseteq Offered
      /\ Tree /\ WP!Datasets = Offered \ Left /\ Offered \subseteq Path
  BY <1>1, OfferedArePaths DEF FileInv, Listed, Built
<1>3. p \in Path /\ p \in Left /\ Tail(todo) \in Seq(Path) /\ Lists(Tail(todo), own, Left \ {p})
  <2>1. /\ p \in Path /\ own[p] \in Left /\ Tail(todo) \in Seq(Path)
        /\ Lists(Tail(todo), own, Left \ {own[p]})
    BY <1>1, <1>2, TailLists
  <2>2. own[p] = p
    BY <2>1 DEF own
  <2>3. QED
    BY <2>1, <2>2
<1>r. todo' \in Seq(Path) /\ Lists(todo', own, rest)
  BY <1>1, <1>2, <1>3
<1>4. Left' = rest
  <2>1. Left' = {own[todo'[k]] : k \in DOMAIN todo'}
    BY <1>1, SameOptions DEF Left
  <2>2. QED
    BY <1>r, <2>1 DEF Lists
<1>5. /\ WP!RowsInv'
      /\ WP!Datasets' = IF Thrown' THEN WP!Datasets ELSE WP!Datasets \cup {p}
      /\ DOMAIN nodes' \ WP!Datasets' \subseteq Ways \cup {WP!Root}
      /\ ~WP!Faulty => \A q \in DOMAIN nodes' : nodes'[q].ok
      /\ mode = "open" /\ UNCHANGED <<counter, rows, synced, mode>>
      /\ last'.op = "create_dataset"
  BY <1>1, <1>2, <1>3, FileCreates
<1>m. Left' \subseteq Left /\ WP!Datasets' = Offered \ Left'
  BY <1>2, <1>3, <1>4, <1>5
<1> HIDE DEF p, rest
<1>6. Listed'
  <2>1. todo' \in Seq(Path) /\ Lists(todo', own', Left') /\ Left' \subseteq Offered'
    BY <1>2, <1>r, <1>4, <1>m, SameOptions, <1>1
  <2>2. para' \in Paras /\ saves' \in 0 .. MaxSaves
    BY <1>1 DEF FileInv, Listed
  <2>3. QED
    BY <1>1, <2>1, <2>2 DEF Listed
<1>7. Built'
  <2>1. WP!Datasets' = Offered' \ Left'
    BY <1>1, <1>m, SameOptions
  <2>2. Tree'
    BY <1>1, <1>5, <2>1, SameOptions DEF Tree, WP!Root
  <2>3. QED
    BY <1>1, <2>1, <2>2 DEF Built
<1>8. Numbered'
  BY <1>1, <1>5, SameOptions DEF Numbered, FileInv
<1>9. Meant'
  BY <1>1, <1>5, SameOptions DEF Meant, FileInv
<1>10. Found'
  BY <1>5 DEF Found
<1>11. Complete'
  <2>1. \A q \in WP!Datasets' : Len(rows'[q]) = counter'[q] - 1 \/ WP!Faulty
    <3>1. counter[p] = 1 /\ rows[p] = <<>>
      BY <1>2, <1>3 DEF WP!RowsInv, WP!Fresh
    <3>2. \A q \in WP!Datasets : WP!Faulty \/ Len(rows[q]) = counter[q] - 1
      BY <1>5 DEF FileInv, Complete
    <3>3. QED
      BY <1>5, <3>1, <3>2
  <2>2. QED
    BY <1>1, <1>5, <2>1, SameOptions DEF Complete
<1>12. QED
  BY <1>5, <1>6, <1>7, <1>8, <1>9, <1>10, <1>11 DEF FileInv

\* save() is entered.
LEMMA SaveFile == ASSUME AllPlain, FileInv, Save PROVE FileInv'
<1>1. /\ mode = "open" /\ todo = <<>> /\ saves < MaxSaves /\ saves' = saves + 1 /\ todo' = Pushed
      /\ UNCHANGED <<para, nodes, counter, rows, synced, mode, last>>
  BY DEF Save
<1>2. /\ WP!RowsInv /\ para \in Paras
      /\ saves \in 0 .. MaxSaves /\ saves' \in 0 .. MaxSaves /\ saves' # 0
  BY <1>1, WriterAssumption DEF FileInv, Listed
<1>3. Left = {}
  BY <1>1 DEF Left
<1>4. Pushed \in Seq(Pairs) /\ Lists(Pushed, target, Offered)
  BY <1>2, PushedLists DEF AllPlain
<1>5. Left' = Offered
  <2>1. Left' = {target'[todo'[k]] : k \in DOMAIN todo'}
    BY <1>2 DEF Left
  <2>2. QED
    BY <1>1, <1>4, <2>1, SameOptions DEF Lists
<1>6. Listed'
  BY <1>1, <1>2, <1>4, <1>5, SameOptions DEF Listed
<1>7. Built'
  <2>1. WP!Datasets' = Offered'
    BY <1>1, <1>3, SameOptions DEF FileInv, Built, WP!Datasets
  <2>2. Tree'
    BY <1>1, <2>1, SameOptions DEF FileInv, Built, Tree, WP!Root
  <2>3. QED
    BY <1>2, <2>1, <2>2 DEF Built
<1>8. Numbered'
  BY <1>1, <1>2, <1>3, <1>5, SameOptions DEF Numbered, FileInv
<1>9. WP!RowsInv' /\ Meant' /\ Found'
  <2>1. WP!RowsInv'
    BY <1>1 DEF FileInv, WP!RowsInv, WP!NodesType, WP!RowsType, WP!Counted, WP!Fresh,
                WP!Datasets, WP!Cell, WP!Root
  <2>2. QED
    BY <1>1, <2>1, SameOptions DEF FileInv, Meant, Found
<1>10. Complete'
  <2>1. WP!Datasets' = WP!Datasets
    BY <1>1 DEF WP!Datasets
  <2>2. QED
    BY <1>1, <2>1, SameOptions DEF FileInv, Complete
<1>11. QED
  BY <1>6, <1>7, <1>8, <1>9, <1>10 DEF FileInv

\* The next push finds its dataset one row behind.
LEMMA NextPush ==
  ASSUME FileInv, PushNext
  PROVE  /\ saves # 0 /\ saves \in 1 .. MaxSaves /\ UNCHANGED <<para, saves>>
         /\ todo # <<>> /\ todo' = Tail(todo)
         /\ Head(todo) \in Pairs
         /\ Head(todo)[1] \in Left /\ Head(todo)[1] \in Offered
         /\ Left' = Left \ {Head(todo)[1]} /\ Listed'
         /\ W!Push(Head(todo)[1], [step |-> saves, of |-> Head(todo)[2]])
         /\ [step |-> saves, of |-> Head(todo)[2]] \in Row
<1> DEFINE q == Head(todo)
<1>1. /\ saves > 0 /\ UNCHANGED <<para, saves>> /\ todo # <<>> /\ todo' = Tail(todo)
      /\ \/ W!Push(q[1], [step |-> saves, of |-> q[2]])
         \/ q[1] \notin W!Datasets
  BY DEF PushNext
<1>2. saves # 0 /\ saves \in 1 .. MaxSaves
  BY <1>1, WriterAssumption DEF FileInv, Listed
<1>3. /\ todo \in Seq(Pairs) /\ Lists(todo, target, Left) /\ Left \subseteq Offered
      /\ WP!Datasets = Offered
  BY <1>2 DEF FileInv, Listed, Built
<1>4. /\ q \in Pairs /\ Tail(todo) \in Seq(Pairs) /\ q[1] \in Left
      /\ Lists(Tail(todo), target, Left \ {q[1]})
  <2>1. /\ q \in Pairs /\ Tail(todo) \in Seq(Pairs) /\ target[q] \in Left
        /\ Lists(Tail(todo), target, Left \ {target[q]})
    BY <1>1, <1>3, TailLists
  <2>2. target[q] = q[1]
    BY <2>1 DEF target
  <2>3. QED
    BY <2>1, <2>2
<1> HIDE DEF q
<1>5. Left' = Left \ {q[1]}
  <2>1. Left' = {target'[todo'[k]] : k \in DOMAIN todo'}
    BY <1>1, <1>2 DEF Left
  <2>2. QED
    BY <1>1, <1>4, <2>1, SameOptions DEF Lists
<1>6. Listed'
  <2>1. todo' \in Seq(Pairs') /\ Lists(todo', target', Left') /\ Left' \subseteq Offered'
    BY <1>1, <1>3, <1>4, <1>5, SameOptions
  <2>2. para' \in Paras /\ saves' \in 0 .. MaxSaves
    BY <1>1 DEF FileInv, Listed
  <2>3. QED
    BY <1>1, <1>2, <2>1, <2>2 DEF Listed
<1>7. W!Push(q[1], [step |-> saves, of |-> q[2]])
  BY <1>1, <1>3, <1>4, SameWriter
<1>8. [step |-> saves, of |-> q[2]] \in Row
  BY <1>2, <1>4 DEF Row, Pairs
<1>9. QED
  BY <1>1, <1>2, <1>3, <1>4, <1>5, <1>6, <1>7, <1>8 DEF q

LEMMA PushFile == ASSUME AllPlain, FileInv, PushNext PROVE FileInv'
<1> DEFINE p == Head(todo)[1]
           of == Head(todo)[2]
           v == [step |-> saves, of |-> of]
<1>1. /\ saves # 0 /\ saves \in 1 .. MaxSaves /\ UNCHANGED <<para, saves>>
      /\ todo # <<>> /\ Head(todo) \in Pairs
      /\ p \in Left /\ p \in Offered /\ Left' = Left \ {p} /\ Listed'
      /\ W!Push(p, v) /\ v \in Row
  BY NextPush
<1>2. /\ WP!RowsInv /\ Tree /\ WP!Datasets = Offered /\ Offered \subseteq Path /\ p \in Path
      /\ <<p, of>> \in Pairs
  BY <1>1, OfferedArePaths DEF FileInv, Listed, Built, Pairs
<1>3. v.step = saves /\ v.of = of
  OBVIOUS
<1> HIDE DEF p, of, v
<1>4. /\ WP!RowsInv' /\ mode = "open" /\ UNCHANGED <<nodes, mode>>
      /\ \A q \in Path \ {p} : rows'[q] = rows[q] /\ counter'[q] = counter[q]
      /\ counter'[p] = counter[p] + 1
      /\ \A k \in DOMAIN rows[p] : rows'[p][k] = rows[p][k]
      /\ \A k \in DOMAIN rows'[p] \ DOMAIN rows[p] :
           rows'[p][k] = Fill \/ (k = counter[p] /\ rows'[p][k] = v)
  BY <1>1, <1>2, FilePushes
<1>5. last'.cell # "none" /\ (~WP!Faulty /\ nodes[p].ok => Len(rows'[p]) = counter[p])
  BY <1>1, <1>2, FilePushExtends
<1>6. counter[p] = saves /\ counter[p] \in Nat
  BY <1>1 DEF FileInv, Numbered
<1>7. WP!Datasets' = WP!Datasets
  BY <1>4 DEF WP!Datasets
<1>8. Built'
  BY <1>1, <1>2, <1>4, <1>7, SameOptions DEF FileInv, Built, Tree, WP!Root
<1>9. Numbered'
  <2>1. ASSUME NEW q \in Offered
        PROVE  counter'[q] = IF saves' # 0 /\ q \in Left' THEN saves' ELSE saves' + 1
    <3>1. counter[q] = IF saves # 0 /\ q \in Left THEN saves ELSE saves + 1
      BY DEF FileInv, Numbered
    <3>2. CASE q = p
      BY <1>1, <1>4, <1>6, <3>2
    <3>3. CASE q # p
      BY <1>1, <1>2, <1>4, <3>1, <3>3
    <3>4. QED
      BY <3>2, <3>3
  <2>2. QED
    BY <1>1, <2>1, SameOptions DEF Numbered
<1>10. Meant'
  <2>1. ASSUME NEW q \in Path, NEW k \in DOMAIN rows'[q]
        PROVE  \/ rows'[q][k] = Fill
               \/ rows'[q][k].step = k /\ <<q, rows'[q][k].of>> \in Pairs
    <3>1. k \in DOMAIN rows[q] =>
            \/ rows[q][k] = Fill
            \/ rows[q][k].step = k /\ <<q, rows[q][k].of>> \in Pairs
      BY DEF FileInv, Meant
    <3>2. CASE q # p
      BY <1>4, <2>1, <3>1, <3>2
    <3>3. CASE q = p /\ k \in DOMAIN rows[p]
      BY <1>4, <3>1, <3>3
    <3>4. CASE q = p /\ k \notin DOMAIN rows[p]
      BY <1>2, <1>3, <1>4, <1>6, <2>1, <3>4
    <3>5. QED
      BY <3>2, <3>3, <3>4
  <2>2. QED
    BY <1>1, <2>1, SameOptions DEF Meant
<1>11. Found'
  BY <1>5 DEF Found
<1>12. Complete'
  <2>1. ASSUME ~WP!Faulty, NEW q \in WP!Datasets
        PROVE  Len(rows'[q]) = counter'[q] - 1
    <3>1. Len(rows[q]) = counter[q] - 1 /\ nodes[q].ok
      BY <1>2, <1>4, <2>1 DEF FileInv, Complete, Tree, WP!Datasets
    <3>2. CASE q = p
      BY <1>4, <1>5, <1>6, <2>1, <3>1, <3>2
    <3>3. CASE q # p
      BY <1>2, <1>4, <3>1, <3>3
    <3>4. QED
      BY <3>2, <3>3
  <2>2. QED
    BY <1>1, <1>4, <1>7, <2>1, SameOptions DEF Complete
<1>13. QED
  BY <1>1, <1>4, <1>8, <1>9, <1>10, <1>11, <1>12 DEF FileInv

\* The monitor is destroyed, or the process dies.
LEMMA CloseFile == ASSUME FileInv, Close PROVE FileInv'
<1>1. todo = <<>> /\ UNCHANGED <<para, todo, saves>> /\ W!Destroy
  BY DEF Close
<1>2. /\ WP!RowsInv' /\ mode = "open" /\ mode' = "closed" /\ UNCHANGED <<nodes, counter, rows>>
      /\ ~WP!Faulty => \A p \in Path : synced'[p] = Len(rows[p])
      /\ last'.op = "destroy"
  BY <1>1, FileCloses DEF FileInv
<1>3. WP!Datasets' = WP!Datasets /\ Left' = Left
  BY <1>1, <1>2, SameOptions DEF WP!Datasets, Left
<1>4. Listed' /\ Built' /\ Numbered'
  BY <1>1, <1>2, <1>3, SameOptions DEF FileInv, Listed, Built, Tree, Numbered, WP!Root
<1>5. Meant' /\ Found'
  BY <1>1, <1>2, SameOptions DEF FileInv, Meant, Found
<1>6. Complete'
  <2>1. WP!Datasets \subseteq Path
    BY WriterFits, WP!DatasetsArePaths DEF FileInv, WP!RowsInv
  <2>2. QED
    BY <1>1, <1>2, <1>3, <2>1, SameOptions DEF FileInv, Complete
<1>7. QED
  BY <1>2, <1>4, <1>5, <1>6 DEF FileInv

LEMMA DieFile == ASSUME FileInv, Crash PROVE FileInv'
<1>1. UNCHANGED <<para, todo, saves>> /\ W!Crash
  BY DEF Crash
<1>2. /\ WP!RowsInv' /\ mode' = "dead" /\ UNCHANGED <<nodes, counter>>
      /\ \A p \in Path : \A k \in DOMAIN rows'[p] :
           k \in DOMAIN rows[p] /\ rows'[p][k] = rows[p][k]
      /\ last'.op = "crash"
  BY <1>1, FileDies DEF FileInv
<1>3. WP!Datasets' = WP!Datasets /\ Left' = Left
  BY <1>1, <1>2, SameOptions DEF WP!Datasets, Left
<1>4. Listed' /\ Built' /\ Numbered'
  BY <1>1, <1>2, <1>3, SameOptions DEF FileInv, Listed, Built, Tree, Numbered, WP!Root
<1>5. Meant'
  BY <1>1, <1>2, SameOptions DEF FileInv, Meant
<1>6. Found' /\ Complete'
  BY <1>2 DEF Found, Complete
<1>7. QED
  BY <1>2, <1>4, <1>5, <1>6 DEF FileInv

LEMMA StayFile == ASSUME FileInv, UNCHANGED vars PROVE FileInv'
<1>1. UNCHANGED <<para, todo, saves, nodes, counter, rows, synced, mode, last>>
  BY DEF vars
<1>2. WP!Datasets' = WP!Datasets /\ Left' = Left
  BY <1>1, SameOptions DEF WP!Datasets, Left
<1>3. WP!RowsInv'
  BY <1>1, <1>2 DEF FileInv, WP!RowsInv, WP!NodesType, WP!RowsType, WP!Counted, WP!Fresh,
                    WP!Cell, WP!Root
<1>4. Listed' /\ Built' /\ Numbered'
  BY <1>1, <1>2, SameOptions DEF FileInv, Listed, Built, Tree, Numbered, WP!Root
<1>5. Meant' /\ Found' /\ Complete'
  BY <1>1, <1>2, SameOptions DEF FileInv, Meant, Found, Complete
<1>6. QED
  BY <1>3, <1>4, <1>5 DEF FileInv

\* No dataset of plain options gets another number of rows than one per step.
LEMMA OneRowOffered == ASSUME NEW p \in Offered PROVE RowsPerSave(p) = 1
<1>1. ASSUME NEW c, NEW n, NEW plane
      PROVE  p # Axis(c, n, plane)
  <2>1. \A name : Top(name) # Axis(c, n, plane)
    BY DEF Top, Axis
  <2>2. \A x : << <<"Bar">>, x >> # Axis(c, n, plane)
    BY DEF Axis
  <2>3. ASSUME NEW x, p = << <<"Image">>, x >>
        PROVE  \E color, which : p = Image(color, which)
    <3>1. KindOf(p) = 8
      BY <2>3 DEF KindOf
    <3>2. PICK k \in 1 .. 10 : p \in Kinds[k]
      BY DEF Offered
    <3>3. k = 8
      BY <3>1, <3>2, KindsAre
    <3>4. p \in ImagePaths
      BY <3>2, <3>3 DEF Kinds, Where
    <3>5. QED
      BY <3>4 DEF ImagePaths
  <2>4. \A color, which : Image(color, which) # Axis(c, n, plane)
    BY DEF Image, Axis
  <2>5. QED
    BY <2>1, <2>2, <2>3, <2>4, Shapes
<1>2. QED
  BY <1>1, Zenon DEF RowsPerSave

LEMMA FileInvariance == ASSUME AllPlain PROVE Spec => []FileInv
<1>1. Init => FileInv
  BY InitFile
<1>2. FileInv /\ [Next]_vars => FileInv'
  <2>1. ASSUME FileInv, [Next]_vars
        PROVE  FileInv'
    BY <2>1, CreateFile, SaveFile, PushFile, CloseFile, DieFile, StayFile DEF Next, Ended
  <2>2. QED
    BY <2>1
<1>3. QED
  BY <1>1, <1>2, PTL DEF Spec

-----------------------------------------------------------------------------
(***************************************************************************)
(* The theorems.                                                           *)
(***************************************************************************)

\* As soon as save() is over all datasets have a row per analysis step, with
\* any plain options, and whatever the library did to the rows (monitor.cpp
\* 179-305 against 308-409).
THEOREM RowPerSave == ASSUME AllPlain PROVE Spec => []OneRowPerSave
<1>1. FileInv => OneRowPerSave
  <2>1. ASSUME FileInv, todo = <<>>, NEW p \in W!Datasets
        PROVE  counter[p] = RowsPerSave(p) * saves + 1
    <3>1. Left = {} /\ p \in Offered
      BY <2>1, SameWriter DEF Left, FileInv, Built, Tree
    <3>2. saves \in Nat /\ RowsPerSave(p) = 1
      BY <2>1, <3>1, WriterAssumption, OneRowOffered DEF FileInv, Listed
    <3>3. counter[p] = saves + 1
      BY <2>1, <3>1 DEF FileInv, Numbered
    <3>4. QED
      BY <3>2, <3>3
  <2>2. QED
    BY <2>1 DEF OneRowPerSave
<1>2. QED
  BY <1>1, FileInvariance, PTL

\* Row k of every dataset is of analysis step k or was never written, in the
\* file of a running monitor as in what a crash leaves.
THEOREM StepsNumberRows == ASSUME AllPlain PROVE Spec => []RowsNumberSteps
<1>1. FileInv => RowsNumberSteps
  <2>1. ASSUME FileInv, NEW p \in Path, NEW k \in DOMAIN rows[p]
        PROVE  rows[p][k] = Fill \/ (RowsPerSave(p) = 1 /\ rows[p][k].step = k)
    <3>1. p \in WP!Datasets
      <4>1. DOMAIN <<>> = {}
        OBVIOUS
      <4>2. QED
        BY <2>1, <4>1 DEF FileInv, WP!RowsInv, WP!Fresh
    <3>2. RowsPerSave(p) = 1
      BY <2>1, <3>1, OneRowOffered DEF FileInv, Built, Tree
    <3>3. QED
      BY <2>1, <3>2 DEF FileInv, Meant
  <2>2. QED
    BY <2>1 DEF RowsNumberSteps
<1>2. QED
  BY <1>1, FileInvariance, PTL

\* save() never pushes into a dataset that was not created, with any plain
\* options.
THEOREM PushesFind == ASSUME AllPlain PROVE Spec => []EveryPushFindsItsDataset
<1>1. FileInv => EveryPushFindsItsDataset
  BY DEF FileInv, Found, EveryPushFindsItsDataset
<1>2. QED
  BY <1>1, FileInvariance, PTL

\* The destructor leaves a complete file if the library does what it is told:
\* it is never called with half of a save() done.
THEOREM ClosedIsComplete == ASSUME AllPlain PROVE Spec => []ClosedFileIsComplete
<1>1. FileInv => ClosedFileIsComplete
  <2>1. ASSUME FileInv, mode = "closed", ~W!Faulty, NEW p \in W!Datasets
        PROVE  synced[p] = RowsPerSave(p) * saves /\ Len(rows[p]) = RowsPerSave(p) * saves
    <3>1. /\ p \in WP!Datasets /\ ~WP!Faulty /\ p \in Offered
      BY <2>1, SameWriter DEF FileInv, Built, Tree
    <3>2. todo = <<>> /\ synced[p] = Len(rows[p]) /\ Len(rows[p]) = counter[p] - 1
      BY <2>1, <3>1 DEF FileInv, Complete
    <3>3. Left = {} /\ saves \in Nat
      BY <2>1, <3>2, WriterAssumption DEF Left, FileInv, Listed
    <3>4. counter[p] = saves + 1
      BY <2>1, <3>1, <3>3 DEF FileInv, Numbered
    <3>5. RowsPerSave(p) = 1
      BY <3>1, OneRowOffered
    <3>6. QED
      BY <3>2, <3>3, <3>4, <3>5
  <2>2. QED
    BY <2>1 DEF ClosedFileIsComplete
<1>2. QED
  BY <1>1, FileInvariance, PTL

-----------------------------------------------------------------------------
(***************************************************************************)
(* With any options: the monitor uses the writer as its specification      *)
(* says, and a row holds what its dataset may hold.                        *)
(***************************************************************************)

\* A path of which the own quantity may be stored; a push that is meant.
Plainly == Path \ Imaginary
Entries == {q \in Path \X Path : Holds(q[1], q[2])}

LEMMA OwnsEntries == ASSUME NEW paths \in Seq(Plainly) PROVE Owns(paths) \in Seq(Entries)
<1>1. \A p \in Plainly : Own(p) \in Entries
  BY DEF Plainly, Own, Entries, Holds
<1>2. QED
  BY <1>1 DEF Owns

\* Only an order of An has an imaginary part.
LEMMA NotImaginary ==
  /\ \A name : Top(name) \notin Imaginary
  /\ \A name : Bar(name) \notin Imaginary
  /\ \A color, plane : Image(color, plane) \notin Imaginary
  /\ \A color, n, plane : Axis(color, n, plane) \notin Imaginary
<1>1. \A name, m : Top(name) # An(m, "imag")
  BY DEF Top, An
<1>2. \A name, m : Bar(name) # An(m, "imag")
  BY DEF Bar, An
<1>3. \A color, plane, m : Image(color, plane) # An(m, "imag")
  BY DEF Image, An
<1>4. \A color, n, plane, m : Axis(color, n, plane) # An(m, "imag")
  BY DEF Axis, An
<1>5. QED
  BY <1>1, <1>2, <1>3, <1>4 DEF Imaginary

LEMMA WhenIn ==
  ASSUME NEW S, NEW seq \in Seq(S), NEW switch PROVE When(switch, seq) \in Seq(S)
BY DEF When

LEMMA JoinIn ==
  ASSUME NEW S, NEW s \in Seq(S), NEW t \in Seq(S) PROVE s \o t \in Seq(S)
OBVIOUS

\* Datasets that a switch puts in.
LEMMA SinglesIn ==
  /\ \A name \in Tops : << Top(name) >> \in Seq(Plainly)
  /\ \A name \in Bars : << Bar(name) >> \in Seq(Plainly)
  /\ Radii \in Seq(Plainly)
<1>1. \A name \in Tops : Top(name) \in Plainly
  BY PathsAssumption, NotImaginary DEF Plainly
<1>2. \A name \in Bars : Bar(name) \in Plainly
  BY PathsAssumption, NotImaginary DEF Plainly
<1>3. "Radius1" \in Bars /\ "Radius2" \in Bars /\ "Radius3" \in Bars
  BY DEF Bars
<1>4. Radii \in Seq(Plainly)
  BY <1>2, <1>3 DEF Radii
<1>5. QED
  BY <1>1, <1>2, <1>4

\* The images of a colour, and what is pushed for them.
LEMMA ImagesIn ==
  ASSUME para \in Paras, NEW k \in DOMAIN para.colors
  PROVE  /\ ImagesOf(para.colors[k]) \in Seq(Plainly)
         /\ ImagePushes(para.colors[k]) \in Seq(Entries)
<1> DEFINE c == para.colors[k]
<1>1. /\ DOMAIN Planes = 1 .. 3 /\ \A j \in 1 .. 3 : Planes[j] \in {"xy", "xz", "yz"}
      /\ DOMAIN Axes = 1 .. 3 /\ \A j \in 1 .. 3 : Axes[j] \in {"1", "2", "3"}
  BY DEF Planes, Axes
<1>2. CASE c \notin Vectors
  <2> DEFINE seqs == [j \in DOMAIN Planes |-> << Image(c, Planes[j]) >>]
  <2>1. \A plane \in {"xy", "xz", "yz"} : Image(c, plane) \in Plainly
    BY <1>2, PathsAssumption, NotImaginary DEF Plainly
  <2>2. seqs \in Seq(Seq(Plainly))
    BY <1>1, <2>1
  <2>3. ImagesOf(c) = FlattenSeq(seqs)
    BY <1>2 DEF ImagesOf, Each
  <2>4. ImagePushes(c) = Owns(ImagesOf(c))
    BY <1>2 DEF ImagePushes
  <2> HIDE DEF seqs, c
  <2>5. ImagesOf(c) \in Seq(Plainly)
    BY <2>2, <2>3, FlattenIn
  <2>6. QED
    BY <2>4, <2>5, OwnsEntries DEF c
<1>3. CASE c \in Vectors
  <2> DEFINE inner(i) == [j \in DOMAIN Planes |-> << Axis(c, Axes[i], Planes[j]) >>]
             seqs == [i \in DOMAIN Axes |-> FlattenSeq(inner(i))]
             pushes == [i \in DOMAIN Axes |->
                          << Own(Axis(c, Axes[i], "xy")),
                             Into(Axis(c, Axes[i], "yz"), Axis(c, Axes[i], "xz")),
                             Own(Axis(c, Axes[i], "yz")) >>]
  <2>1. \A n \in {"1", "2", "3"} : \A plane \in {"xy", "xz", "yz"} :
          Axis(c, n, plane) \in Plainly
    BY <1>3, PathsAssumption, NotImaginary DEF Plainly
  <2>2. ASSUME NEW i \in 1 .. 3
        PROVE  inner(i) \in Seq(Seq(Plainly))
    BY <1>1, <2>1
  <2>3. ASSUME NEW i \in 1 .. 3
        PROVE  pushes[i] \in Seq(Entries)
    <3> DEFINE n == Axes[i]
    <3>1. n \in {"1", "2", "3"}
      BY <1>1
    <3>2. /\ Axis(c, n, "xy") \in Plainly /\ Axis(c, n, "xz") \in Plainly
          /\ Axis(c, n, "yz") \in Plainly
      BY <2>1, <3>1
    <3>3. Holds(Axis(c, n, "yz"), Axis(c, n, "xz"))
      BY <1>3, <3>1 DEF Holds
    <3>4. pushes[i] = << Own(Axis(c, n, "xy")), Into(Axis(c, n, "yz"), Axis(c, n, "xz")),
                         Own(Axis(c, n, "yz")) >>
      BY <1>1
    <3> HIDE DEF n, pushes, c
    <3>5. /\ Own(Axis(c, n, "xy")) \in Entries /\ Own(Axis(c, n, "yz")) \in Entries
          /\ Into(Axis(c, n, "yz"), Axis(c, n, "xz")) \in Entries
      BY <3>2, <3>3 DEF Own, Into, Entries, Holds, Plainly
    <3>6. QED
      BY <3>4, <3>5
  <2>4. ImagesOf(c) = FlattenSeq(seqs)
    BY <1>3 DEF ImagesOf, Each
  <2>5. ImagePushes(c) = FlattenSeq(pushes)
    BY <1>3 DEF ImagePushes, Each
  <2> HIDE DEF inner, c
  <2>6. \A i \in 1 .. 3 : FlattenSeq(inner(i)) \in Seq(Plainly)
    BY <2>2, FlattenIn
  <2>7. seqs \in Seq(Seq(Plainly))
    BY <1>1, <2>6
  <2>8. pushes \in Seq(Seq(Entries))
    <3>1. pushes = [i \in 1 .. 3 |-> pushes[i]]
      BY <1>1
    <3> HIDE DEF pushes
    <3>2. QED
      BY <2>3, <3>1
  <2> HIDE DEF seqs, pushes
  <2>9. QED
    BY <2>4, <2>5, <2>7, <2>8, FlattenIn DEF c
<1>4. QED
  BY <1>2, <1>3

\* The orders of An, and what is pushed for them.
LEMMA OrdersIn ==
  ASSUME para \in Paras
  PROVE  /\ Each(para.an, LAMBDA m : << An(m, "real"), An(m, "imag") >>) \in Seq(Path)
         /\ Each(para.an, AnPushes) \in Seq(Entries)
<1> DEFINE an == para.an
           created == [k \in DOMAIN an |-> << An(an[k], "real"), An(an[k], "imag") >>]
           pushed == [k \in DOMAIN an |-> AnPushes(an[k])]
<1>1. DOMAIN an = 1 .. Len(an) /\ Len(an) \in Nat
  BY ParasAssumption
<1>2. ASSUME NEW k \in DOMAIN an
      PROVE  created[k] \in Seq(Path) /\ pushed[k] \in Seq(Entries)
  <2> DEFINE real == An(an[k], "real")
             imag == An(an[k], "imag")
  <2>1. real \in Path /\ imag \in Path
    BY PathsAssumption
  <2>2. real \notin Imaginary
    BY DEF Imaginary, An
  <2>3. Holds(real, real) /\ Holds(imag, real)
    BY <2>2 DEF Holds
  <2>4. created[k] = <<real, imag>> /\ pushed[k] = << <<real, real>>, <<imag, real>> >>
    BY DEF AnPushes, Own, Into
  <2> HIDE DEF real, imag, created, pushed, an
  <2>5. <<real, real>> \in Entries /\ <<imag, real>> \in Entries
    BY <2>1, <2>3 DEF Entries
  <2>6. QED
    BY <2>1, <2>4, <2>5
<1>3. /\ Each(an, LAMBDA m : << An(m, "real"), An(m, "imag") >>) = FlattenSeq(created)
      /\ Each(an, AnPushes) = FlattenSeq(pushed)
  BY DEF Each
<1>4. created \in Seq(Seq(Path)) /\ pushed \in Seq(Seq(Entries))
  <2>1. /\ created = [k \in 1 .. Len(an) |-> created[k]]
        /\ pushed = [k \in 1 .. Len(an) |-> pushed[k]]
    BY <1>1
  <2> HIDE DEF created, pushed
  <2>2. QED
    BY <1>1, <1>2, <2>1, SequenceOf
<1> HIDE DEF created, pushed, an
<1>5. QED
  BY <1>3, <1>4, FlattenIn, Zenon DEF an

LEMMA ColorsIn ==
  ASSUME para \in Paras
  PROVE  /\ Each(para.colors, ImagesOf) \in Seq(Plainly)
         /\ Each(para.colors, ImagePushes) \in Seq(Entries)
<1> DEFINE colors == para.colors
           created == [k \in DOMAIN colors |-> ImagesOf(colors[k])]
           pushed == [k \in DOMAIN colors |-> ImagePushes(colors[k])]
<1>1. DOMAIN colors = 1 .. Len(colors) /\ Len(colors) \in Nat
  BY ParasAssumption
<1>2. ASSUME NEW k \in DOMAIN colors
      PROVE  created[k] \in Seq(Plainly) /\ pushed[k] \in Seq(Entries)
  BY ImagesIn
<1>3. Each(colors, ImagesOf) = FlattenSeq(created) /\ Each(colors, ImagePushes) = FlattenSeq(pushed)
  BY DEF Each
<1>4. created \in Seq(Seq(Plainly)) /\ pushed \in Seq(Seq(Entries))
  <2>1. /\ created = [k \in 1 .. Len(colors) |-> created[k]]
        /\ pushed = [k \in 1 .. Len(colors) |-> pushed[k]]
    BY <1>1
  <2> HIDE DEF created, pushed
  <2>2. QED
    BY <1>1, <1>2, <2>1, SequenceOf
<1> HIDE DEF created, pushed, colors
<1>5. QED
  BY <1>3, <1>4, FlattenIn, Zenon DEF colors

\* The two lists, with any options.
LEMMA CreatedIn == ASSUME para \in Paras PROVE Created \in Seq(Path)
<1> DEFINE one(switch, path) == When(switch, << path >>)
           images == When("image", Each(para.colors, ImagesOf))
           orders == Each(para.an, LAMBDA m : << An(m, "real"), An(m, "imag") >>)
           radii == When("bar_radius", Radii)
<1>1. /\ Top("Times") \in Path /\ Top("Center") \in Path /\ Bar("MajorAxis") \in Path
      /\ Bar("SBar") \in Path /\ Bar("SBuckle") \in Path
      /\ Top("DispersionTensor") \in Path /\ Top("InertiaTensor") \in Path
  BY SinglePaths
<1>2. /\ << Top("Times") >> \in Seq(Path) /\ one("recenter", Top("Center")) \in Seq(Path)
      /\ one("bar_major_axis", Bar("MajorAxis")) \in Seq(Path)
      /\ one("sbar", Bar("SBar")) \in Seq(Path) /\ one("sbuckle", Bar("SBuckle")) \in Seq(Path)
      /\ one("dispersion_tensor", Top("DispersionTensor")) \in Seq(Path)
      /\ one("inertia_tensor", Top("InertiaTensor")) \in Seq(Path)
  <2>1. ASSUME NEW switch, NEW path \in Path
        PROVE  << path >> \in Seq(Path) /\ one(switch, path) \in Seq(Path)
    <3>1. << path >> \in Seq(Path)
      OBVIOUS
    <3>2. When(switch, << path >>) \in Seq(Path)
      BY <3>1, WhenIn, Zenon
    <3>3. QED
      BY <3>1, <3>2
  <2> HIDE DEF one
  <2>2. QED
    BY <1>1, <2>1
<1>3. Plainly \subseteq Path
  BY DEF Plainly
<1>4. radii \in Seq(Path)
  BY <1>3, RadiiLists, WhenIn
<1>5. images \in Seq(Path)
  <2>1. images \in Seq(Plainly)
    BY ColorsIn, WhenIn
  <2> HIDE DEF images
  <2>2. QED
    BY <1>3, <2>1
<1>6. orders \in Seq(Path)
  BY OrdersIn
<1>7. Created = << Top("Times") >> \o one("recenter", Top("Center"))
                \o one("bar_major_axis", Bar("MajorAxis")) \o radii
                \o one("sbar", Bar("SBar")) \o one("sbuckle", Bar("SBuckle"))
                \o orders \o images
                \o one("dispersion_tensor", Top("DispersionTensor"))
                \o one("inertia_tensor", Top("InertiaTensor"))
  BY Zenon DEF Created
<1> HIDE DEF one, images, orders, radii
<1>8. QED
  BY <1>2, <1>4, <1>5, <1>6, <1>7, JoinIn

LEMMA PushedIn == ASSUME para \in Paras PROVE Pushed \in Seq(Entries)
<1> DEFINE bar == << Top("Times") >>
                  \o When("recenter", << Top("Center") >>)
                  \o When("bar_major_axis", << Bar("MajorAxis") >>)
                  \o When("sbar", << Bar("SBar") >>)
                  \o When("sbuckle", << Bar("SBuckle") >>)
           orders == Each(para.an, AnPushes)
           radii == When("bar_radius", Owns(Radii))
           images == When("image", Each(para.colors, ImagePushes))
           dispersion == When("dispersion_tensor", Owns(<< Top("DispersionTensor") >>))
           inertia == When("inertia_tensor", Owns(<< Top("InertiaTensor") >>))
<1>1. /\ << Top("Times") >> \in Seq(Plainly) /\ << Top("Center") >> \in Seq(Plainly)
      /\ << Bar("MajorAxis") >> \in Seq(Plainly) /\ << Bar("SBar") >> \in Seq(Plainly)
      /\ << Bar("SBuckle") >> \in Seq(Plainly)
      /\ << Top("DispersionTensor") >> \in Seq(Plainly)
      /\ << Top("InertiaTensor") >> \in Seq(Plainly)
  BY SinglesIn DEF Tops, Bars
<1>2. bar \in Seq(Plainly)
  <2>1. /\ When("recenter", << Top("Center") >>) \in Seq(Plainly)
        /\ When("bar_major_axis", << Bar("MajorAxis") >>) \in Seq(Plainly)
        /\ When("sbar", << Bar("SBar") >>) \in Seq(Plainly)
        /\ When("sbuckle", << Bar("SBuckle") >>) \in Seq(Plainly)
    BY <1>1, WhenIn
  <2>2. QED
    BY <1>1, <2>1, JoinIn
<1>3. Owns(bar) \in Seq(Entries) /\ radii \in Seq(Entries)
  <2> HIDE DEF bar
  <2>1. QED
    BY <1>2, SinglesIn, OwnsEntries, WhenIn
<1>4. dispersion \in Seq(Entries) /\ inertia \in Seq(Entries)
  BY <1>1, OwnsEntries, WhenIn
<1>5. orders \in Seq(Entries) /\ images \in Seq(Entries)
  BY OrdersIn, ColorsIn, WhenIn
<1>6. Pushed = Owns(bar) \o orders \o radii \o images \o dispersion \o inertia
  BY Zenon DEF Pushed
<1> HIDE DEF bar, orders, radii, images, dispersion, inertia
<1>7. QED
  BY <1>3, <1>4, <1>5, <1>6, JoinIn

\* The functions list paths and meant pushes, and rows hold what was meant.
Marked ==
  /\ para \in Paras /\ saves \in 0 .. MaxSaves
  /\ saves = 0 => todo \in Seq(Path)
  /\ saves # 0 => todo \in Seq(Entries)
Kept == \A p \in Path : \A k \in DOMAIN rows[p] : rows[p][k] = Fill \/ Holds(p, rows[p][k].of)
AnyInv == WP!RowsInv /\ Marked /\ Kept

LEMMA SameHolds ==
  ASSUME UNCHANGED para
  PROVE  Entries' = Entries /\ \A p, q : Holds(p, q)' = Holds(p, q)
<1>1. \A p, q : Holds(p, q)' = Holds(p, q)
  BY DEF Holds, Imaginary
<1>2. QED
  BY <1>1 DEF Entries

LEMMA InitAny == ASSUME Init PROVE AnyInv
<1>1. para \in Paras /\ W!Init /\ todo = Created /\ saves = 0
  BY DEF Init
<1>2. WP!Init
  BY <1>1, SameWriter
<1>3. WP!RowsInv
  BY <1>2, WriterFits, WP!InitRows
<1>4. Marked
  BY <1>1, CreatedIn, WriterAssumption DEF Marked
<1>5. Kept
  BY <1>2 DEF WP!Init, Kept
<1>6. QED
  BY <1>3, <1>4, <1>5 DEF AnyInv

\* What a step does: one of the writer, or none.
LEMMA StepAny ==
  ASSUME AnyInv, [Next]_vars
  PROVE  AnyInv' /\ [WP!Next]_(WP!vars)
<1>1. WP!RowsInv /\ Marked /\ Kept
  BY DEF AnyInv
<1>2. ASSUME CreateNext
      PROVE  AnyInv' /\ WP!Next
  <2>1. /\ saves = 0 /\ todo # <<>> /\ UNCHANGED <<para, saves>> /\ W!CreateDataset(Head(todo))
        /\ todo' = todo \/ todo' = Tail(todo)
    BY <1>2 DEF CreateNext
  <2>2. todo \in Seq(Path) /\ Head(todo) \in Path /\ Tail(todo) \in Seq(Path)
    BY <1>1, <2>1 DEF Marked
  <2>3. WP!CreateDataset(Head(todo))
    BY <2>1, <2>2, SameWriter
  <2>4. WP!Next
    BY <2>2, <2>3 DEF WP!Next
  <2>5. UNCHANGED <<counter, rows, synced, mode>>
    BY <2>3 DEF WP!CreateDataset
  <2>6. WP!RowsInv'
    <3>1. WP!NodesType' /\ WP!Datasets \subseteq WP!Datasets'
      BY <1>1, <2>2, <2>3, WriterFits, WP!CreatesDataset DEF WP!RowsInv
    <3>2. QED
      BY <1>1, <2>5, <3>1, WriterFits, WP!CreateRows
  <2>7. Marked' /\ Kept'
    BY <1>1, <2>1, <2>2, <2>5, SameHolds DEF Marked, Kept
  <2>8. QED
    BY <2>4, <2>6, <2>7 DEF AnyInv
<1>3. ASSUME Save
      PROVE  AnyInv' /\ UNCHANGED WP!vars
  <2>1. /\ saves < MaxSaves /\ saves' = saves + 1 /\ todo' = Pushed
        /\ UNCHANGED <<para, nodes, counter, rows, synced, mode, last>>
    BY <1>3 DEF Save
  <2>2. WP!Datasets' = WP!Datasets
    BY <2>1 DEF WP!Datasets
  <2>3. WP!RowsInv'
    BY <1>1, <2>1, <2>2 DEF WP!RowsInv, WP!NodesType, WP!RowsType, WP!Counted, WP!Fresh,
                            WP!Cell, WP!Root
  <2>4. Marked'
    BY <1>1, <2>1, PushedIn, SameHolds, WriterAssumption DEF Marked
  <2>5. Kept'
    BY <1>1, <2>1, SameHolds DEF Kept
  <2>6. QED
    BY <2>1, <2>3, <2>4, <2>5 DEF AnyInv, WP!vars
<1>4. ASSUME PushNext
      PROVE  AnyInv' /\ WP!Next
  <2> DEFINE p == Head(todo)[1]
             of == Head(todo)[2]
             v == [step |-> saves, of |-> of]
  <2>1. /\ saves > 0 /\ todo # <<>> /\ UNCHANGED <<para, saves>> /\ todo' = Tail(todo)
        /\ W!Push(p, v) \/ W!RefusePush(p)
    BY <1>4 DEF PushNext
  <2>2. /\ saves # 0 /\ saves \in 1 .. MaxSaves /\ todo \in Seq(Entries)
        /\ Head(todo) \in Entries /\ Tail(todo) \in Seq(Entries)
    BY <1>1, <2>1, WriterAssumption DEF Marked
  <2>3. p \in Path /\ of \in Path /\ Holds(p, of) /\ v \in Row /\ v.of = of
    BY <2>2 DEF Entries, Row
  <2>4. Marked'
    BY <1>1, <2>1, <2>2, SameHolds DEF Marked
  <2> HIDE DEF p, of, v
  <2>5. CASE W!Push(p, v)
    <3>1. WP!Push(p, v)
      BY <2>3, <2>5, SameWriter
    <3>2. WP!Next
      BY <2>3, <3>1 DEF WP!Next
    <3>3. /\ WP!RowsInv'
          /\ \A q \in Path \ {p} : rows'[q] = rows[q]
          /\ \A k \in DOMAIN rows[p] : rows'[p][k] = rows[p][k]
          /\ \A k \in DOMAIN rows'[p] \ DOMAIN rows[p] : rows'[p][k] = Fill \/ rows'[p][k] = v
      BY <1>1, <2>3, <2>5, FilePushes
    <3>4. \A q \in Path : \A k \in DOMAIN rows'[q] :
            rows'[q][k] = Fill \/ Holds(q, rows'[q][k].of)
      BY <1>1, <2>3, <3>3 DEF Kept
    <3>5. Kept'
      BY <2>1, <3>4, SameHolds DEF Kept
    <3>6. QED
      BY <2>4, <3>2, <3>3, <3>5 DEF AnyInv
  <2>6. CASE W!RefusePush(p)
    <3>1. WP!RefusePush(p)
      BY <2>3, <2>6, SameWriter
    <3>2. WP!Next
      BY <2>3, <3>1 DEF WP!Next
    <3>3. UNCHANGED <<nodes, counter, rows, synced, mode>>
      BY <3>1 DEF WP!RefusePush
    <3>4. WP!Datasets' = WP!Datasets
      BY <3>3 DEF WP!Datasets
    <3>5. WP!RowsInv'
      BY <1>1, <3>3, <3>4 DEF WP!RowsInv, WP!NodesType, WP!RowsType, WP!Counted, WP!Fresh,
                              WP!Cell, WP!Root
    <3>6. Kept'
      BY <1>1, <2>1, <3>3, SameHolds DEF Kept
    <3>7. QED
      BY <2>4, <3>2, <3>5, <3>6 DEF AnyInv
  <2>7. QED
    BY <2>1, <2>5, <2>6
<1>5. ASSUME Close
      PROVE  AnyInv' /\ WP!Next
  <2>1. UNCHANGED <<para, todo, saves>> /\ W!Destroy
    BY <1>5 DEF Close
  <2>2. WP!RowsInv' /\ UNCHANGED rows
    BY <1>1, <2>1, FileCloses
  <2>3. Marked' /\ Kept'
    BY <1>1, <2>1, <2>2, SameHolds DEF Marked, Kept
  <2>4. QED
    BY <2>1, <2>2, <2>3, SameWriter DEF AnyInv, WP!Next
<1>6. ASSUME Crash
      PROVE  AnyInv' /\ WP!Next
  <2>1. UNCHANGED <<para, todo, saves>> /\ W!Crash
    BY <1>6 DEF Crash
  <2>2. /\ WP!RowsInv'
        /\ \A p \in Path : \A k \in DOMAIN rows'[p] :
             k \in DOMAIN rows[p] /\ rows'[p][k] = rows[p][k]
    BY <1>1, <2>1, FileDies
  <2>3. Marked' /\ Kept'
    BY <1>1, <2>1, <2>2, SameHolds DEF Marked, Kept
  <2>4. QED
    BY <2>1, <2>2, <2>3, SameWriter DEF AnyInv, WP!Next
<1>7. ASSUME UNCHANGED vars
      PROVE  AnyInv' /\ UNCHANGED WP!vars
  <2>1. UNCHANGED <<para, todo, saves, nodes, counter, rows, synced, mode, last>>
    BY <1>7 DEF vars
  <2>2. WP!Datasets' = WP!Datasets
    BY <2>1 DEF WP!Datasets
  <2>3. WP!RowsInv'
    BY <1>1, <2>1, <2>2 DEF WP!RowsInv, WP!NodesType, WP!RowsType, WP!Counted, WP!Fresh,
                            WP!Cell, WP!Root
  <2>4. Marked' /\ Kept'
    BY <1>1, <2>1, SameHolds DEF Marked, Kept
  <2>5. QED
    BY <2>1, <2>3, <2>4 DEF AnyInv, WP!vars
<1>8. QED
  BY <1>2, <1>3, <1>4, <1>5, <1>6, <1>7 DEF Next, Ended

LEMMA AnyInvariance == Spec => []AnyInv
<1>1. Init => AnyInv
  BY InitAny
<1>2. AnyInv /\ [Next]_vars => AnyInv'
  BY StepAny
<1>3. QED
  BY <1>1, <1>2, PTL DEF Spec

\* With any options, orders of An and images of vectors included, a row holds
\* what its dataset is named after, the real part in place of the imaginary
\* one, or an x-z image of a vector in place of a y-z one (monitor.cpp 179-305).
THEOREM QuantitiesHold == Spec => []RowsHoldTheirQuantity
<1>1. AnyInv => RowsHoldTheirQuantity
  BY DEF AnyInv, Kept, RowsHoldTheirQuantity
<1>2. QED
  BY <1>1, AnyInvariance, PTL

\* The monitor uses the file as the writer's specification says, so that all
\* that is proved about the writer holds of a model file.
THEOREM FileIsAWriters == Spec => WP!Spec
<1>1. Init => WP!Init
  BY SameWriter DEF Init
<1>2. AnyInv /\ [Next]_vars => [WP!Next]_(WP!vars)
  BY StepAny
<1>3. QED
  BY <1>1, <1>2, AnyInvariance, PTL DEF Spec, WP!Spec

\* A row of a model file that reached the disk stays there, through the later
\* steps, the end of the run and a crash.
THEOREM FileStands == Spec => WP!FlushedRowsStand
<1>1. WP!Spec => WP!FlushedRowsStand
  BY WriterFits, WP!DiskStands
<1>2. QED
  BY <1>1, FileIsAWriters, PTL

-----------------------------------------------------------------------------
(***************************************************************************)
(* The nodes under a file: its inductive invariant.                        *)
(***************************************************************************)

Frame == [node : Node, next : Nat \ {0}]

Types ==
  /\ phase \in {"open", "cleaning"} /\ (phase = "open" => stack = <<>>)
  /\ inMap \subseteq Node /\ (phase = "open" => \A n \in inMap : handle[n] = "open")
  /\ handle \in [Node -> {"none", "open", "closed"}]
  /\ parent \in [Node -> Node \cup {Null}] /\ below \in [Node -> Node \cup {Null}]
  /\ children \in [Node -> Seq(Node \cup {Null})]
  /\ stack \in Seq(Frame)

\* An object that was never allocated is nowhere; one that is open is in the map
\* and linked to the one it was created below, which is open.
Allocated ==
  \A n \in Node :
    /\ handle[n] = "none" =>
         n \notin inMap /\ children[n] = <<>> /\ \A m \in Node : below[m] # n
    /\ handle[n] = "open" => n \in inMap
    /\ handle[n] = "open" /\ below[n] # Null => parent[n] = below[n]

\* The pointers to the parent and to the children agree, between open objects.
Linked ==
  /\ \A n \in Node :
       parent[n] # Null =>
         /\ parent[n] = below[n] /\ handle[n] = "open" /\ handle[parent[n]] = "open"
         /\ \E k \in DOMAIN children[parent[n]] : children[parent[n]][k] = n
  /\ \A m \in Node : \A k \in DOMAIN children[m] :
       children[m][k] # Null => parent[children[m][k]] = m

\* A running close() has emptied the slots before its index, but for the one of
\* the child that it is closing: that is the next call on the stack.
Frames ==
  \A d \in 1 .. Len(stack) :
    /\ stack[d].node \in inMap
    /\ \A k \in DOMAIN children[stack[d].node] :
         k < stack[d].next =>
           \/ children[stack[d].node][k] = Null
           \/ d < Len(stack) /\ k = stack[d].next - 1
    /\ d < Len(stack) =>
         /\ stack[d].next - 1 \in DOMAIN children[stack[d].node]
         /\ children[stack[d].node][stack[d].next - 1] = stack[d + 1].node

\* The nodes are a forest, and the running calls go down in it.
Ranks(rank) ==
  /\ rank \in [Node -> Nat]
  /\ \A n \in Node : below[n] # Null => rank[below[n]] < rank[n]
  /\ \A d, e \in 1 .. Len(stack) : d < e => rank[stack[d].node] < rank[stack[e].node]
Ranked == \E rank : Ranks(rank)

TreeInv == Types /\ Allocated /\ Linked /\ Frames /\ Ranked

-----------------------------------------------------------------------------
(* The stack.                                                              *)

\* The frames and the slots are of their types.
LEMMA TreeShapes ==
  ASSUME Types
  PROVE  /\ Len(stack) \in Nat /\ DOMAIN stack = 1 .. Len(stack)
         /\ \A d \in 1 .. Len(stack) : stack[d].node \in Node /\ stack[d].next \in Nat \ {0}
         /\ \A n \in Node : /\ Len(children[n]) \in Nat
                            /\ DOMAIN children[n] = 1 .. Len(children[n])
                            /\ \A k \in DOMAIN children[n] : children[n][k] \in Node \cup {Null}
<1>1. /\ Len(stack) \in Nat /\ DOMAIN stack = 1 .. Len(stack)
      /\ \A d \in 1 .. Len(stack) : stack[d] \in Frame
  BY LenProperties DEF Types
<1>2. ASSUME NEW n \in Node
      PROVE  /\ Len(children[n]) \in Nat /\ DOMAIN children[n] = 1 .. Len(children[n])
             /\ \A k \in DOMAIN children[n] : children[n][k] \in Node \cup {Null}
  <2>1. children[n] \in Seq(Node \cup {Null})
    BY DEF Types
  <2>. QED
    BY <2>1, LenProperties
<1>. QED
  BY <1>1, <1>2 DEF Frame

\* What is left of the stack without the running call.
LEMMA CallerFrames ==
  ASSUME Types, stack # <<>>
  PROVE  /\ Len(stack) \in Nat \ {0}
         /\ Caller \in Seq(Frame) /\ Len(Caller) = Len(stack) - 1
         /\ \A d \in 1 .. Len(stack) - 1 : Caller[d] = stack[d]
<1>1. stack \in Seq(Frame) /\ Len(stack) \in Nat \ {0}
  BY EmptySeq DEF Types
<1>2. \A d \in 1 .. Len(stack) - 1 : stack[d] \in Frame
  BY <1>1, LenProperties
<1> DEFINE n == Len(stack) - 1
<1>3. 1 \in Int /\ n \in Int /\ n - 1 + 1 = n /\ n >= 0
  BY <1>1
<1>4. \A d \in 1 .. n : stack[d] \in Frame
  BY <1>2
<1> HIDE DEF n
<1>5. /\ SubSeq(stack, 1, n) \in Seq(Frame)
      /\ Len(SubSeq(stack, 1, n)) = IF 1 <= n THEN n - 1 + 1 ELSE 0
      /\ \A i \in 1 .. n - 1 + 1 : SubSeq(stack, 1, n)[i] = stack[1 + i - 1]
  BY <1>3, <1>4, SubSeqProperties
<1>6. Len(SubSeq(stack, 1, n)) = n /\ \A i \in 1 .. n : SubSeq(stack, 1, n)[i] = stack[i]
  BY <1>3, <1>5
<1>. QED
  BY <1>1, <1>5, <1>6 DEF Caller, n

\* The stack after a turn of the loop.
LEMMA TurnFrames ==
  ASSUME Types, stack # <<>>, NEW c \in Node \cup {Null}, Turn(c)
  PROVE  /\ stack' \in Seq(Frame)
         /\ Len(stack') = IF c = Null THEN Len(stack) ELSE Len(stack) + 1
         /\ \A d \in 1 .. Len(stack) - 1 : stack'[d] = stack[d]
         /\ stack'[Len(stack)].node = Running.node
         /\ stack'[Len(stack)].next = Running.next + 1
         /\ c # Null => stack'[Len(stack) + 1] = [node |-> c, next |-> 1]
<1> DEFINE top == [Running EXCEPT !.next = Running.next + 1]
           turned == Append(Caller, top)
           rest == IF c = Null THEN <<>> ELSE << [node |-> c, next |-> 1] >>
<1>1. Running \in Frame /\ Len(stack) \in Nat \ {0}
  BY CallerFrames, LenProperties DEF Types, Running
<1>2. top \in Frame /\ top.node = Running.node /\ top.next = Running.next + 1
  BY <1>1 DEF Frame
<1> HIDE DEF top
<1>3. /\ turned \in Seq(Frame) /\ Len(turned) = Len(stack) /\ turned[Len(stack)] = top
      /\ \A d \in 1 .. Len(stack) - 1 : turned[d] = stack[d]
  BY <1>1, <1>2, CallerFrames, AppendProperties
<1>4. stack' = turned \o rest
  BY DEF Turn, top
<1> HIDE DEF turned
<1>5. CASE c = Null
  <2>1. stack' = turned
    BY <1>3, <1>4, <1>5, ConcatEmptySeq
  <2>. QED
    BY <1>2, <1>3, <1>5, <2>1
<1>6. CASE c # Null
  <2>1. [node |-> c, next |-> 1] \in Frame
    BY <1>6 DEF Frame
  <2>2. stack' = turned \o << [node |-> c, next |-> 1] >>
    BY <1>4, <1>6
  <2>3. stack' = Append(turned, [node |-> c, next |-> 1])
    BY <1>3, <2>1, <2>2, AppendIsConcat
  <2>4. /\ stack' \in Seq(Frame) /\ Len(stack') = Len(stack) + 1
        /\ stack'[Len(stack) + 1] = [node |-> c, next |-> 1]
        /\ \A d \in 1 .. Len(stack) : stack'[d] = turned[d]
    BY <1>3, <2>1, <2>3, AppendProperties
  <2>. QED
    BY <1>1, <1>2, <1>3, <1>6, <2>4
<1>. QED
  BY <1>5, <1>6

-----------------------------------------------------------------------------
(* The steps.                                                              *)

\* Nothing but the file is there at first.
LEMMA InitTreeInv == ASSUME TreeInit PROVE TreeInv
<1> USE NodeAssumption
<1>1. <<>> \in Seq(Frame) /\ <<>> \in Seq(Node \cup {Null}) /\ Len(<<>>) = 0 /\ DOMAIN <<>> = {}
  BY EmptySeq
<1>2. Types
  BY <1>1 DEF TreeInit, Types
<1>3. Allocated /\ Linked
  BY <1>1 DEF TreeInit, Allocated, Linked
<1>4. Frames
  BY <1>1 DEF TreeInit, Frames
<1>5. Ranked
  <2>1. Ranks([n \in Node |-> 0])
    BY <1>1 DEF TreeInit, Ranks
  <2>. QED
    BY <2>1 DEF Ranked
<1>. QED
  BY <1>2, <1>3, <1>4, <1>5 DEF TreeInv

\* A new object takes a slot of its own.
LEMMA InsertInv == ASSUME TreeInv, NEW p \in Node, NEW n \in Node, Insert(p, n) PROVE TreeInv'
<1> USE NodeAssumption
<1>1. /\ phase = "open" /\ p \in inMap /\ handle[n] = "none"
      /\ inMap' = inMap \cup {n} /\ UNCHANGED <<phase, stack>>
      /\ handle' = [handle EXCEPT ![n] = "open"]
      /\ parent' = [parent EXCEPT ![n] = p] /\ below' = [below EXCEPT ![n] = p]
      /\ children' = [children EXCEPT ![p] = Append(children[p], n)]
  BY DEF Insert
<1>2. stack = <<>> /\ Len(stack) = 0
  BY <1>1, EmptySeq DEF TreeInv, Types
<1>3. p # n /\ handle[p] # "none" /\ \A m \in Node : below[m] # n
  BY <1>1 DEF TreeInv, Allocated
<1>4. /\ children[p] \in Seq(Node \cup {Null}) /\ Len(children[p]) \in Nat
      /\ Append(children[p], n) \in Seq(Node \cup {Null})
      /\ DOMAIN Append(children[p], n) = 1 .. Len(children[p]) + 1
      /\ DOMAIN children[p] = 1 .. Len(children[p])
      /\ Append(children[p], n)[Len(children[p]) + 1] = n
      /\ \A k \in 1 .. Len(children[p]) : Append(children[p], n)[k] = children[p][k]
  <2>1. children[p] \in Seq(Node \cup {Null})
    BY DEF TreeInv, Types
  <2>2. Append(children[p], n) \in Seq(Node \cup {Null})
        /\ Len(Append(children[p], n)) = Len(children[p]) + 1
    BY <2>1, AppendProperties
  <2>. QED
    BY <2>1, <2>2, AppendProperties, LenProperties
<1>5. handle[p] = "open"
  BY <1>1 DEF TreeInv, Types
<1>6. Types'
  BY <1>1, <1>4 DEF TreeInv, Types
<1>7. Allocated'
  BY <1>1, <1>3 DEF TreeInv, Types, Allocated
<1>8. parent[n] = Null /\ below[n] # n /\ children[n] = <<>>
  <2>1. parent[n] = Null
    BY <1>1 DEF TreeInv, Linked
  <2>. QED
    BY <1>1, <1>3, <2>1 DEF TreeInv, Allocated
<1>9. Linked'
  <2>1. children'[p] = Append(children[p], n) /\ \A m \in Node \ {p} : children'[m] = children[m]
    BY <1>1 DEF TreeInv, Types
  <2>2. parent'[n] = p /\ below'[n] = p /\ handle'[n] = "open" /\ handle'[p] = "open"
        /\ \A m \in Node \ {n} : parent'[m] = parent[m] /\ below'[m] = below[m]
                                  /\ handle'[m] = handle[m]
    BY <1>1, <1>3, <1>5 DEF TreeInv, Types
  <2>3. ASSUME NEW m \in Node, parent'[m] # Null
        PROVE  /\ parent'[m] = below'[m] /\ handle'[m] = "open" /\ handle'[parent'[m]] = "open"
               /\ \E k \in DOMAIN children'[parent'[m]] : children'[parent'[m]][k] = m
    <3>1. CASE m = n
      BY <1>4, <2>1, <2>2, <3>1
    <3>2. CASE m # n
      <4>1. /\ parent[m] # Null /\ parent'[m] = parent[m] /\ parent[m] \in Node
            /\ parent[m] = below[m] /\ handle[m] = "open" /\ handle[parent[m]] = "open"
        BY <2>2, <2>3, <3>2 DEF TreeInv, Types, Linked
      <4>2. PICK k \in DOMAIN children[parent[m]] : children[parent[m]][k] = m
        BY <4>1 DEF TreeInv, Linked
      <4>3. k \in DOMAIN children'[parent[m]] /\ children'[parent[m]][k] = m
        BY <1>4, <2>1, <4>1, <4>2
      <4>. QED
        BY <1>1, <2>2, <3>2, <4>1, <4>3
    <3>. QED
      BY <3>1, <3>2
  <2>4. ASSUME NEW m \in Node, NEW k \in DOMAIN children'[m], children'[m][k] # Null
        PROVE  parent'[children'[m][k]] = m
    <3>1. ASSUME k \in DOMAIN children[m], children'[m][k] = children[m][k]
          PROVE  parent'[children'[m][k]] = m
      <4>1. parent[children[m][k]] = m /\ children[m][k] \in Node
        BY <2>4, <3>1, TreeShapes DEF TreeInv, Linked
      <4>. QED
        BY <1>8, <2>2, <3>1, <4>1
    <3>2. CASE m = p /\ k = Len(children[p]) + 1
      BY <1>4, <2>1, <2>2, <3>2
    <3>. QED
      BY <1>4, <2>1, <3>1, <3>2
  <2>. QED
    BY <2>3, <2>4 DEF Linked
<1>10. Frames'
  BY <1>1, <1>2 DEF Frames
<1>11. Ranked'
  <2>1. PICK rank : Ranks(rank)
    BY DEF TreeInv, Ranked
  <2> DEFINE new == [rank EXCEPT ![n] = rank[p] + 1]
  <2>2. new \in [Node -> Nat] /\ new[n] = rank[p] + 1 /\ \A m \in Node \ {n} : new[m] = rank[m]
    BY <2>1 DEF Ranks
  <2>3. ASSUME NEW m \in Node, below'[m] # Null PROVE new[below'[m]] < new[m]
    <3>1. CASE m = n
      <4>1. below'[m] = p /\ new[p] = rank[p]
        BY <1>1, <1>3, <2>2, <3>1 DEF TreeInv, Types
      <4>2. rank[p] \in Nat
        BY <2>1 DEF Ranks
      <4>. QED
        BY <2>2, <3>1, <4>1, <4>2
    <3>2. CASE m # n
      BY <1>1, <1>3, <2>1, <2>2, <2>3, <3>2 DEF TreeInv, Types, Ranks
    <3>. QED
      BY <3>1, <3>2
  <2> HIDE DEF new
  <2>4. Ranks(new)'
    BY <1>1, <1>2, <2>2, <2>3 DEF Ranks
  <2>. QED
    BY <2>4 DEF Ranked
<1>. QED
  BY <1>6, <1>7, <1>9, <1>10, <1>11 DEF TreeInv

\* A delete begins with the call for its node.
LEMMA DeleteInv == ASSUME TreeInv, NEW n \in Node, Delete(n) PROVE TreeInv'
<1>1. /\ phase = "cleaning" /\ n \in inMap /\ stack' = << [node |-> n, next |-> 1] >>
      /\ UNCHANGED <<phase, inMap, handle, parent, children, below>>
  BY DEF Delete
<1>2. [node |-> n, next |-> 1] \in Frame
  BY DEF Frame
<1>3. stack' \in Seq(Frame) /\ Len(stack') = 1 /\ stack'[1] = [node |-> n, next |-> 1]
  BY <1>1, <1>2
<1>4. Types' /\ Allocated' /\ Linked'
  BY <1>1, <1>3 DEF TreeInv, Types, Allocated, Linked
<1>5. Frames'
  <2>1. stack'[1].node = n /\ stack'[1].next = 1
    BY <1>3
  <2>2. \A k \in DOMAIN children[n] : k \in Nat /\ ~(k < 1)
    BY TreeShapes DEF TreeInv
  <2>. QED
    BY <1>1, <1>3, <2>1, <2>2 DEF Frames
<1>6. Ranked'
  <2>1. PICK rank : Ranks(rank)
    BY DEF TreeInv, Ranked
  <2>2. Ranks(rank)'
    BY <1>1, <1>3, <2>1 DEF Ranks
  <2>. QED
    BY <2>2 DEF Ranked
<1>. QED
  BY <1>4, <1>5, <1>6 DEF TreeInv

\* A turn of the loop: the running call goes on to the next slot, and the call
\* for the child of this slot is on top.
LEMMA DescendInv == ASSUME TreeInv, Descend PROVE TreeInv'
<1> DEFINE top == Len(stack)
           c == children[Running.node][Running.next]
<1>1. /\ stack # <<>> /\ ~AtEnd /\ Turn(c)
      /\ UNCHANGED <<phase, inMap, handle, parent, children, below>>
  BY DEF Descend, Turn
<1>2. /\ top \in Nat \ {0} /\ top \in 1 .. top /\ Running = stack[top]
      /\ Running.node \in Node /\ Running.next \in Nat \ {0}
  BY <1>1, CallerFrames, TreeShapes DEF TreeInv, Running
<1>3. /\ DOMAIN children[Running.node] = 1 .. Len(children[Running.node])
      /\ Len(children[Running.node]) \in Nat
      /\ Running.next \in DOMAIN children[Running.node] /\ c \in Node \cup {Null}
  BY <1>1, <1>2, TreeShapes DEF TreeInv, AtEnd
<1> HIDE DEF c
<1>4. /\ stack' \in Seq(Frame)
      /\ Len(stack') = IF c = Null THEN top ELSE top + 1
      /\ \A d \in 1 .. top - 1 : stack'[d] = stack[d]
      /\ stack'[top].node = Running.node /\ stack'[top].next = Running.next + 1
      /\ c # Null => stack'[top + 1] = [node |-> c, next |-> 1]
  BY <1>1, <1>3, TurnFrames DEF TreeInv
<1>5. Types'
  <2>1. phase # "open"
    BY <1>1 DEF TreeInv, Types
  <2>. QED
    BY <1>1, <1>4, <2>1 DEF TreeInv, Types
<1>6. Allocated' /\ Linked'
  BY <1>1 DEF TreeInv, Allocated, Linked
<1>7. c # Null => /\ parent[c] = Running.node /\ below[c] = Running.node /\ c \in inMap
                  /\ c \in Node
  <2>1. SUFFICES ASSUME c # Null
                 PROVE  /\ parent[c] = Running.node /\ below[c] = Running.node /\ c \in inMap
                        /\ c \in Node
    OBVIOUS
  <2>2. parent[c] = Running.node /\ c \in Node
    BY <1>2, <1>3, <2>1 DEF c, TreeInv, Linked
  <2>3. below[c] = parent[c] /\ handle[c] = "open"
    BY <1>2, <2>2, NodeAssumption DEF TreeInv, Linked
  <2>. QED
    BY <2>2, <2>3 DEF TreeInv, Allocated
<1>8. Frames'
  <2>1. ASSUME NEW d \in 1 .. Len(stack')
        PROVE  /\ stack'[d].node \in inMap
               /\ \A k \in DOMAIN children[stack'[d].node] :
                    k < stack'[d].next =>
                      \/ children[stack'[d].node][k] = Null
                      \/ d < Len(stack') /\ k = stack'[d].next - 1
               /\ d < Len(stack') =>
                    /\ stack'[d].next - 1 \in DOMAIN children[stack'[d].node]
                    /\ children[stack'[d].node][stack'[d].next - 1] = stack'[d + 1].node
    <3>1. d < top \/ d = top \/ (d = top + 1 /\ c # Null)
      BY <1>2, <1>4, <2>1
    <3>2. CASE d < top
      <4>1. d \in 1 .. top - 1 /\ d \in 1 .. top /\ stack'[d] = stack[d] /\ d < Len(stack')
        BY <1>2, <1>4, <3>2
      <4>2. stack'[d + 1].node = stack[d + 1].node
        <5>1. CASE d + 1 = top
          BY <1>2, <1>4, <5>1
        <5>2. CASE d + 1 # top
          BY <1>2, <1>4, <4>1, <5>2
        <5>. QED
          BY <5>1, <5>2
      <4>. QED
        BY <3>2, <4>1, <4>2 DEF TreeInv, Frames
    <3>3. CASE d = top
      <4>1. ASSUME NEW k \in DOMAIN children[Running.node], k < Running.next + 1,
                   k # Running.next
            PROVE  children[Running.node][k] = Null
        <5>1. k < Running.next
          BY <1>2, <1>3, <4>1
        <5>. QED
          BY <1>2, <4>1, <5>1 DEF TreeInv, Frames
      <4>2. Running.next + 1 - 1 = Running.next
        BY <1>2
      <4>3. c = children[Running.node][Running.next]
        BY DEF c
      <4>4. c # Null => stack'[d + 1].node = c
        BY <1>4, <3>3
      <4>5. Running.node \in inMap
        BY <1>2 DEF TreeInv, Frames
      <4>6. d < Len(stack') <=> c # Null
        BY <1>2, <1>4, <3>3
      <4>7. stack'[d].node = Running.node /\ stack'[d].next = Running.next + 1
        BY <1>4, <3>3
      <4>8. ASSUME NEW k \in DOMAIN children[stack'[d].node], k < stack'[d].next
            PROVE  \/ children[stack'[d].node][k] = Null
                   \/ d < Len(stack') /\ k = stack'[d].next - 1
        <5>1. CASE k = Running.next
          <6>1. children[stack'[d].node][k] = c /\ k = stack'[d].next - 1
            BY <1>2, <4>2, <4>3, <4>7, <5>1
          <6>. QED
            BY <4>6, <6>1
        <5>2. CASE k # Running.next
          BY <4>1, <4>7, <4>8, <5>2
        <5>. QED
          BY <5>1, <5>2
      <4>9. ASSUME d < Len(stack')
            PROVE  /\ stack'[d].next - 1 \in DOMAIN children[stack'[d].node]
                   /\ children[stack'[d].node][stack'[d].next - 1] = stack'[d + 1].node
        BY <1>3, <4>2, <4>3, <4>4, <4>6, <4>7, <4>9
      <4>. QED
        BY <4>5, <4>7, <4>8, <4>9
    <3>4. CASE d = top + 1 /\ c # Null
      <4>1. stack'[d].node = c /\ stack'[d].next = 1 /\ ~(d < Len(stack'))
        BY <1>2, <1>4, <3>4
      <4>2. \A k \in DOMAIN children[c] : k \in Nat /\ ~(k < 1)
        BY <1>7, <3>4, TreeShapes DEF TreeInv
      <4>. QED
        BY <1>7, <3>4, <4>1, <4>2
    <3>. QED
      BY <3>1, <3>2, <3>3, <3>4
  <2>. QED
    BY <1>1, <2>1 DEF Frames
<1>9. Ranked'
  <2>1. PICK rank : Ranks(rank)
    BY DEF TreeInv, Ranked
  <2>2. \A d \in 1 .. top : stack'[d].node = stack[d].node
    <3>1. \A d \in 1 .. top : d = top \/ d \in 1 .. top - 1
      BY <1>2
    <3>. QED
      BY <1>2, <1>4, <3>1
  <2>3. \A d \in 1 .. top : stack[d].node \in Node /\ rank[stack[d].node] \in Nat
    BY <2>1, TreeShapes DEF TreeInv, Ranks
  <2>4. ASSUME NEW d \in 1 .. Len(stack'), NEW e \in 1 .. Len(stack'), d < e
        PROVE  rank[stack'[d].node] < rank[stack'[e].node]
    <3>1. CASE e \in 1 .. top
      <4>1. d \in 1 .. top
        BY <1>2, <2>4, <3>1
      <4>. QED
        BY <2>1, <2>2, <2>4, <3>1, <4>1 DEF Ranks
    <3>2. CASE e \notin 1 .. top
      <4>1. c # Null /\ e = top + 1 /\ d \in 1 .. top
        BY <1>2, <1>4, <2>4, <3>2
      <4>2. stack'[e].node = c /\ rank[Running.node] < rank[c]
        BY <1>2, <1>4, <1>7, <2>1, <4>1, NodeAssumption DEF Ranks
      <4>3. rank[stack[d].node] <= rank[Running.node]
        <5>1. CASE d = top
          BY <1>2, <2>3, <4>1, <5>1
        <5>2. CASE d # top
          <6>1. d < top
            BY <1>2, <4>1, <5>2
          <6>. QED
            BY <1>2, <2>1, <2>3, <4>1, <6>1 DEF Ranks
        <5>. QED
          BY <5>1, <5>2
      <4>4. rank[c] \in Nat /\ rank[Running.node] \in Nat
        BY <1>2, <1>7, <2>1, <4>1 DEF Ranks
      <4>. QED
        BY <2>2, <2>3, <4>1, <4>2, <4>3, <4>4
    <3>. QED
      BY <3>1, <3>2
  <2>5. Ranks(rank)'
    BY <1>1, <2>1, <2>4 DEF Ranks
  <2>. QED
    BY <2>5 DEF Ranked
<1>. QED
  BY <1>5, <1>6, <1>8, <1>9 DEF TreeInv

\* The slots of a call that comes to its end are empty.
LEMMA EmptySlots ==
  ASSUME TreeInv, stack # <<>>, AtEnd
  PROVE  \A k \in DOMAIN children[Running.node] : children[Running.node][k] = Null
<1>1. Len(stack) \in 1 .. Len(stack) /\ Len(stack) \in Nat
  BY CallerFrames DEF TreeInv
<1>2. Running.node \in Node /\ Running.next \in Nat \ {0}
  BY <1>1, TreeShapes DEF TreeInv, Running
<1>3. /\ DOMAIN children[Running.node] = 1 .. Len(children[Running.node])
      /\ Len(children[Running.node]) \in Nat
  BY <1>2, TreeShapes DEF TreeInv
<1>4. ASSUME NEW k \in DOMAIN children[Running.node] PROVE k < Running.next
  BY <1>2, <1>3, <1>4 DEF AtEnd
<1>. QED
  BY <1>1, <1>4 DEF TreeInv, Frames, Running

\* The node of a call that comes to its end is cut out of the tree, where it
\* was a leaf.
LEMMA FinishInv == ASSUME TreeInv, Finish PROVE TreeInv'
<1> USE NodeAssumption
<1> DEFINE top == Len(stack)
           n == Running.node
<1>1. /\ stack # <<>> /\ AtEnd /\ stack' = Caller /\ UNCHANGED <<phase, below>>
      /\ children' = WithoutChild(n) /\ parent' = [parent EXCEPT ![n] = Null]
      /\ handle' = [handle EXCEPT ![n] = "closed"] /\ inMap' = inMap \ Freed(n)
  BY DEF Finish
<1>2. /\ top \in Nat \ {0} /\ top \in 1 .. top /\ n = stack[top].node /\ n \in Node
      /\ n \in inMap
  <2>1. top \in Nat \ {0} /\ top \in 1 .. top /\ n = stack[top].node
    BY <1>1, CallerFrames DEF TreeInv, Running
  <2>. QED
    BY <2>1, TreeShapes DEF TreeInv, Frames
<1>3. \A k \in DOMAIN children[n] : children[n][k] = Null
  BY <1>1, EmptySlots
<1>4. /\ Caller \in Seq(Frame) /\ Len(Caller) = top - 1
      /\ \A d \in 1 .. top - 1 : Caller[d] = stack[d]
  BY <1>1, CallerFrames DEF TreeInv
<1> HIDE DEF n
<1>5. \A m \in Node : parent[m] # n
  <2>1. ASSUME NEW m \in Node, parent[m] = n PROVE FALSE
    <3>1. PICK k \in DOMAIN children[n] : children[n][k] = m
      BY <1>2, <2>1 DEF TreeInv, Linked
    <3>. QED
      BY <1>3, <3>1
  <2>. QED
    BY <2>1
<1>6. /\ handle'[n] = "closed" /\ parent'[n] = Null
      /\ \A m \in Node \ {n} : handle'[m] = handle[m] /\ parent'[m] = parent[m]
  BY <1>1, <1>2 DEF TreeInv, Types
<1>7. /\ DOMAIN children' = Node /\ children'[n] = <<>>
      /\ \A m \in Node \ {n} :
           /\ DOMAIN children'[m] = DOMAIN children[m]
           /\ \A k \in DOMAIN children[m] :
                children'[m][k] = IF m = parent[n] /\ children[m][k] = n THEN Null
                                  ELSE children[m][k]
  BY <1>1, <1>2 DEF WithoutChild
<1>8. \A m \in Node \ {n} : \A k \in DOMAIN children[m] : children'[m][k] # n
  BY <1>2, <1>7 DEF TreeInv, Linked
<1>9. Types'
  <2>1. ASSUME NEW m \in Node PROVE children'[m] \in Seq(Node \cup {Null})
    <3>1. CASE m = n
      BY <1>7, <3>1
    <3>2. CASE m # n
      <4>1. children[m] \in Seq(Node \cup {Null})
        BY DEF TreeInv, Types
      <4>2. CASE m = parent[n]
        <5>1. children'[m] = [k \in DOMAIN children[m] |->
                               IF children[m][k] = n THEN Null ELSE children[m][k]]
          BY <1>1, <3>2, <4>2 DEF WithoutChild
        <5>2. /\ DOMAIN children[m] = 1 .. Len(children[m]) /\ Len(children[m]) \in Nat
              /\ \A k \in DOMAIN children[m] : children[m][k] \in Node \cup {Null}
          BY TreeShapes DEF TreeInv
        <5>3. children'[m] \in [1 .. Len(children[m]) -> Node \cup {Null}]
          BY <5>1, <5>2
        <5>. QED
          BY <5>2, <5>3, SeqDef
      <4>3. CASE m # parent[n]
        BY <1>1, <3>2, <4>1, <4>3 DEF WithoutChild
      <4>. QED
        BY <4>2, <4>3
    <3>. QED
      BY <3>1, <3>2
  <2>2. children' \in [Node -> Seq(Node \cup {Null})]
    BY <1>1, <2>1 DEF WithoutChild
  <2>3. phase # "open"
    BY <1>1 DEF TreeInv, Types
  <2>. QED
    BY <1>1, <1>4, <2>2, <2>3 DEF TreeInv, Types
<1>10. handle[n] # "none"
  BY <1>2 DEF TreeInv, Allocated
<1>11. Allocated'
  <2>1. ASSUME NEW m \in Node, m # n
        PROVE  /\ handle'[m] = "none" =>
                    m \notin inMap' /\ children'[m] = <<>> /\ \A l \in Node : below'[l] # m
               /\ handle'[m] = "open" => m \in inMap'
               /\ handle'[m] = "open" /\ below'[m] # Null => parent'[m] = below'[m]
    <3>1. ASSUME handle[m] = "none" PROVE children'[m] = <<>>
      <4>1. children[m] = <<>>
        BY <3>1 DEF TreeInv, Allocated
      <4>2. CASE m = parent[n]
        BY <3>1, <4>2, <1>2 DEF TreeInv, Linked
      <4>3. CASE m # parent[n]
        BY <1>1, <2>1, <4>1, <4>3 DEF WithoutChild
      <4>. QED
        BY <4>2, <4>3
    <3>2. m \in inMap' <=> m \in inMap
      BY <1>1, <2>1 DEF Freed
    <3>. QED
      BY <1>1, <1>6, <2>1, <3>1, <3>2 DEF TreeInv, Allocated
  <2>. QED
    BY <1>6, <2>1 DEF Allocated
<1>12. Linked'
  <2>1. ASSUME NEW m \in Node, parent'[m] # Null
        PROVE  /\ parent'[m] = below'[m] /\ handle'[m] = "open" /\ handle'[parent'[m]] = "open"
               /\ \E k \in DOMAIN children'[parent'[m]] : children'[parent'[m]][k] = m
    <3>1. m # n /\ parent'[m] = parent[m] /\ parent[m] # n /\ parent[m] \in Node
      BY <1>5, <1>6, <2>1 DEF TreeInv, Types
    <3>2. /\ parent[m] = below[m] /\ handle[m] = "open" /\ handle[parent[m]] = "open"
      BY <2>1, <3>1 DEF TreeInv, Linked
    <3>3. PICK k \in DOMAIN children[parent[m]] : children[parent[m]][k] = m
      BY <2>1, <3>1 DEF TreeInv, Linked
    <3>. QED
      BY <1>1, <1>6, <1>7, <3>1, <3>2, <3>3
  <2>2. ASSUME NEW m \in Node, NEW k \in DOMAIN children'[m], children'[m][k] # Null
        PROVE  parent'[children'[m][k]] = m
    <3>1. m # n
      BY <1>7, EmptySeq
    <3>2. k \in DOMAIN children[m] /\ children'[m][k] = children[m][k] /\ children[m][k] # n
      BY <1>7, <1>8, <2>2, <3>1
    <3>3. children[m][k] \in Node /\ parent[children[m][k]] = m
      BY <2>2, <3>2, TreeShapes DEF TreeInv, Linked
    <3>. QED
      BY <1>6, <3>2, <3>3
  <2>. QED
    BY <2>1, <2>2 DEF Linked
<1>13. PICK rank : Ranks(rank)
  BY DEF TreeInv, Ranked
<1>14. \A d \in 1 .. top - 1 : stack[d].node # n /\ stack[d].node \in Node
  <2>1. ASSUME NEW d \in 1 .. top - 1 PROVE stack[d].node # n /\ stack[d].node \in Node
    <3>1. d \in 1 .. top /\ d < top
      BY <1>2
    <3>2. stack[d].node \in Node /\ rank[n] \in Nat /\ rank[stack[d].node] < rank[n]
      BY <1>2, <1>13, <3>1, TreeShapes DEF TreeInv, Ranks
    <3>. QED
      BY <3>2
  <2>. QED
    BY <2>1
<1>15. Frames'
  <2>1. ASSUME NEW d \in 1 .. top - 1
        PROVE  /\ stack[d].node \in inMap'
               /\ \A k \in DOMAIN children'[stack[d].node] :
                    k < stack[d].next =>
                      \/ children'[stack[d].node][k] = Null
                      \/ d < top - 1 /\ k = stack[d].next - 1
               /\ d < top - 1 =>
                    /\ stack[d].next - 1 \in DOMAIN children'[stack[d].node]
                    /\ children'[stack[d].node][stack[d].next - 1] = stack[d + 1].node
    <3>1. d \in 1 .. top /\ d < top
      BY <1>2
    <3>2. /\ stack[d].node \in inMap /\ stack[d].node # n /\ stack[d].node \in Node
          /\ stack[d].next - 1 \in DOMAIN children[stack[d].node]
          /\ children[stack[d].node][stack[d].next - 1] = stack[d + 1].node
      BY <3>1, <1>14 DEF TreeInv, Frames
    <3>3. DOMAIN children'[stack[d].node] = DOMAIN children[stack[d].node]
      BY <1>7, <3>2
    <3>4. ASSUME NEW k \in DOMAIN children[stack[d].node], k < stack[d].next
          PROVE  \/ children'[stack[d].node][k] = Null
                 \/ d < top - 1 /\ k = stack[d].next - 1
      <4>1. CASE children[stack[d].node][k] = Null
        BY <1>7, <3>2, <4>1
      <4>2. CASE children[stack[d].node][k] # Null
        <5>1. k = stack[d].next - 1
          BY <3>1, <3>4, <4>2 DEF TreeInv, Frames
        <5>2. children[stack[d].node][k] = stack[d + 1].node
          BY <3>2, <5>1
        <5>3. CASE d = top - 1
          <6>1. children[stack[d].node][k] = n
            BY <1>2, <5>2, <5>3
          <6>2. parent[n] = stack[d].node
            BY <3>2, <4>2, <6>1 DEF TreeInv, Linked
          <6>. QED
            BY <1>7, <3>2, <6>1, <6>2
        <5>4. CASE d # top - 1
          BY <1>2, <5>1, <5>4
        <5>. QED
          BY <5>3, <5>4
      <4>. QED
        BY <4>1, <4>2
    <3>5. ASSUME d < top - 1
          PROVE  children'[stack[d].node][stack[d].next - 1] = stack[d + 1].node
      <4>1. d + 1 \in 1 .. top - 1
        BY <1>2, <3>5
      <4>2. stack[d + 1].node # n
        BY <1>14, <4>1
      <4>. QED
        BY <1>7, <3>2, <4>2
    <3>6. stack[d].node \in inMap'
      BY <1>1, <3>2 DEF Freed
    <3>. QED
      BY <3>2, <3>3, <3>4, <3>5, <3>6
  <2>2. Len(stack') = top - 1 /\ \A d \in 1 .. top - 1 : stack'[d] = stack[d]
    BY <1>1, <1>4
  <2>3. \A d \in 1 .. top - 1 : d < top - 1 => d + 1 \in 1 .. top - 1
    BY <1>2
  <2>. QED
    BY <2>1, <2>2, <2>3 DEF Frames
<1>16. Ranked'
  <2>1. \A d \in 1 .. top - 1 : d \in 1 .. top
    BY <1>2
  <2>2. Ranks(rank)'
    BY <1>1, <1>4, <1>13, <2>1 DEF Ranks
  <2>. QED
    BY <2>2 DEF Ranked
<1>. QED
  BY <1>9, <1>11, <1>12, <1>15, <1>16 DEF TreeInv

\* Every step keeps the invariant.
LEMMA StepTreeInv == ASSUME TreeInv, [TreeNext]_treeVars PROVE TreeInv'
<1>1. CASE Clean
  BY <1>1 DEF Clean, TreeInv, Types, Allocated, Linked, Frames, Ranked, Ranks
<1>2. CASE Emptied \/ UNCHANGED treeVars
  <2>1. UNCHANGED treeVars
    BY <1>2 DEF Emptied
  <2>2. Types' /\ Allocated' /\ Linked'
    BY <2>1 DEF treeVars, TreeInv, Types, Allocated, Linked
  <2>3. Frames' /\ Ranked'
    BY <2>1 DEF treeVars, TreeInv, Frames, Ranked, Ranks
  <2>. QED
    BY <2>2, <2>3 DEF TreeInv
<1>. QED
  BY <1>1, <1>2, InsertInv, DeleteInv, DescendInv, FinishInv DEF TreeNext

LEMMA TreeInvariance == TreeSpec => []TreeInv
<1>1. TreeInit => TreeInv
  BY InitTreeInv
<1>2. TreeInv /\ [TreeNext]_treeVars => TreeInv'
  BY StepTreeInv
<1>. QED
  BY <1>1, <1>2, PTL DEF TreeSpec

-----------------------------------------------------------------------------
(* The theorems.                                                           *)

\* No pointer leads to a freed object and close() runs on none, in whatever
\* order the nodes are deleted.
THEOREM NothingDangles == TreeSpec => []NoDanglingPointer
<1>1. ASSUME TreeInv PROVE NoDanglingPointer
  <2>1. ASSUME NEW n \in inMap PROVE parent[n] \in inMap \cup {Null}
    BY <1>1 DEF TreeInv, Types, Allocated, Linked
  <2>2. ASSUME NEW n \in inMap, NEW k \in DOMAIN children[n], children[n][k] # Null
        PROVE  children[n][k] \in inMap
    <3>1. n \in Node /\ children[n][k] \in Node
      BY <1>1, <2>2, TreeShapes DEF TreeInv, Types
    <3>2. parent[children[n][k]] = n /\ n # Null
      BY <1>1, <2>2, <3>1, NodeAssumption DEF TreeInv, Linked
    <3>. QED
      BY <1>1, <3>1, <3>2 DEF TreeInv, Linked, Allocated
  <2>3. \A d \in DOMAIN stack : stack[d].node \in inMap
    BY <1>1, TreeShapes DEF TreeInv, Frames
  <2>. QED
    BY <2>1, <2>2, <2>3 DEF NoDanglingPointer
<1>. QED
  BY <1>1, TreeInvariance, PTL

\* An HDF5 object is closed before the one it was created below.
THEOREM LeavesCloseFirst == TreeSpec => []ClosedFromTheLeaves
<1>1. ASSUME TreeInv PROVE ClosedFromTheLeaves
  BY <1>1 DEF TreeInv, Allocated, Linked, ClosedFromTheLeaves
<1>. QED
  BY <1>1, TreeInvariance, PTL

\* Every handle is closed once the map is empty.
THEOREM HandlesClose == TreeSpec => []NothingLeaks
<1>1. ASSUME TreeInv PROVE NothingLeaks
  BY <1>1 DEF TreeInv, Allocated, NothingLeaks
<1>. QED
  BY <1>1, TreeInvariance, PTL
=============================================================================
