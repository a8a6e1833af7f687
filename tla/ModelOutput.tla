----------------------------- MODULE ModelOutput -----------------------------
(***************************************************************************)
(* One model file of the monitor: create_model_file_datasets() fills it    *)
(* with datasets, save() pushes one row per analysis step into them        *)
(* (src/src/engine/monitor.cpp), both through the writer of H5Writer.      *)
(* The two functions list the datasets separately, by hand, under the same *)
(* options; this module puts them side by side, one writer call per step.  *)
(* Every target set has such a file, and the files do not interact.        *)
(***************************************************************************)
EXTENDS Naturals, Sequences, SequencesExt

CONSTANTS
  Paras,     \* the parameter sets considered, see Options
  MaxSaves,  \* bound: analysis steps saved
  Name, Path, Fill, Chunk  \* of the writer

VARIABLES
  para,      \* the parameters of this run
  todo,      \* the writer calls still to make in the running function
  saves,     \* how often save() was entered
  nodes, counter, rows, synced, mode, last  \* of the writer

fileVars == <<nodes, counter, rows, synced, mode, last>>
vars == <<para, todo, saves, nodes, counter, rows, synced, mode, last>>

\* What one row holds: the quantity that is meant for some dataset, as
\* computed in some step.
Row == [step : 1 .. MaxSaves, of : Path]

W == INSTANCE H5Writer WITH
  Value <- Row, MaxRows <- 2 * MaxSaves,
  Faults <- {p.faults : p \in Paras}, faults <- para.faults

\* para: the switches that are on, the orders of An, the colours of images, and
\* the faults the writer meets.
Switches == {"recenter", "bar_major_axis", "bar_radius", "sbar", "sbuckle",
             "image", "dispersion_tensor", "inertia_tensor"}

\* para::check switches on what the bar radius needs and wants a colour for
\* the images.
ASSUME ParasAssumption ==
  \A p \in Paras :
    /\ p.on \subseteq Switches
    /\ p.an \in Seq(STRING) /\ p.colors \in Seq(STRING)
    /\ "bar_radius" \in p.on => {"bar_major_axis", "sbar"} \subseteq p.on
    /\ "image" \in p.on => p.colors # <<>>

-----------------------------------------------------------------------------
Top(name) == << <<name>> >>
Bar(name) == << <<"Bar">>, <<name>> >>
An(m, part) == << <<"Bar">>, <<"A", m, part>> >>
Image(color, plane) == << <<"Image">>, <<color, plane>> >>
Axis(color, n, plane) == << <<"Image">>, <<color, n, plane>> >>

Vectors == {"mean_velocity", "velocity_dispersion"}
Planes == <<"xy", "xz", "yz">>
Axes == <<"1", "2", "3">>

When(switch, paths) == IF switch \in para.on THEN paths ELSE <<>>

\* Path has what the options ask for, and the ways to it; the rest is what the
\* writer takes.
Tops == {"Times", "Center", "DispersionTensor", "InertiaTensor"}
Bars == {"MajorAxis", "SBar", "SBuckle", "Radius1", "Radius2", "Radius3"}
ASSUME PathsAssumption ==
  /\ \A name \in Tops : Top(name) \in Path
  /\ \A name \in Bars : Bar(name) \in Path
  /\ \A p \in Paras :
       /\ \A k \in DOMAIN p.an : \A part \in {"real", "imag"} : An(p.an[k], part) \in Path
       /\ \A k \in DOMAIN p.colors : \A plane \in {"xy", "xz", "yz"} :
            IF p.colors[k] \in Vectors
              THEN \A n \in {"1", "2", "3"} : Axis(p.colors[k], n, plane) \in Path
              ELSE Image(p.colors[k], plane) \in Path
ASSUME WriterAssumption ==
  /\ Path \subseteq Seq(Name) /\ <<>> \notin Path
  /\ \A p \in Path : W!Prefixes(p) \subseteq Path
  /\ Chunk \in [Path -> Nat \ {0}]
  /\ MaxSaves \in Nat
  /\ Fill \notin Row
  /\ \A p \in Paras : p.faults \subseteq {"library", "death"}

\* The concatenation of what every member of a sequence contributes.
Each(seq, Contribution(_)) ==
  FlattenSeq([k \in DOMAIN seq |-> Contribution(seq[k])])

Radii == << Bar("Radius1"), Bar("Radius2"), Bar("Radius3") >>

ImagesOf(color) ==
  IF color \in Vectors
    THEN Each(Axes, LAMBDA n : Each(Planes, LAMBDA p : << Axis(color, n, p) >>))
    ELSE Each(Planes, LAMBDA p : << Image(color, p) >>)

\* The datasets that create_model_file_datasets() creates, in its order.
Created ==
  << Top("Times") >>
  \o When("recenter", << Top("Center") >>)
  \o When("bar_major_axis", << Bar("MajorAxis") >>)
  \o When("bar_radius", Radii)
  \o When("sbar", << Bar("SBar") >>)
  \o When("sbuckle", << Bar("SBuckle") >>)
  \o Each(para.an, LAMBDA m : << An(m, "real"), An(m, "imag") >>)
  \o When("image", Each(para.colors, ImagesOf))
  \o When("dispersion_tensor", << Top("DispersionTensor") >>)
  \o When("inertia_tensor", << Top("InertiaTensor") >>)

\* A push of the quantity into the dataset meant for it, and into another.
Own(path) == <<path, path>>
Into(path, quantity) == <<path, quantity>>
Owns(paths) == [k \in DOMAIN paths |-> Own(paths[k])]

\* The image in the x-z plane of a vector quantity goes where the one in the
\* y-z plane goes.
ImagePushes(color) ==
  IF color \in Vectors
    THEN Each(Axes, LAMBDA n :
           << Own(Axis(color, n, "xy")),
              Into(Axis(color, n, "yz"), Axis(color, n, "xz")),
              Own(Axis(color, n, "yz")) >>)
    ELSE Owns(ImagesOf(color))

\* The real part is pushed for the imaginary one as well.
AnPushes(m) ==
  << Own(An(m, "real")), Into(An(m, "imag"), An(m, "real")) >>

\* Mutated form of Pushed: the third radius is forgotten.
PushedWithoutRadius3 ==
  Owns(<< Top("Times") >>
       \o When("recenter", << Top("Center") >>)
       \o When("bar_major_axis", << Bar("MajorAxis") >>)
       \o When("sbar", << Bar("SBar") >>)
       \o When("bar_radius", SubSeq(Radii, 1, 2)))

\* Mutated form of Pushed: the two radii are exchanged.
PushedRadiiExchanged ==
  Owns(<< Top("Times") >>)
  \o When("bar_radius", << Into(Bar("Radius1"), Bar("Radius2")),
                           Into(Bar("Radius2"), Bar("Radius1")) >>)

\* Mutated form of Pushed: the centre is pushed whatever the switch says.
PushedCenterAlways == Owns(<< Top("Times"), Top("Center") >>)

\* The pushes of save(), in its order.
Pushed ==
  Owns(<< Top("Times") >>
       \o When("recenter", << Top("Center") >>)
       \o When("bar_major_axis", << Bar("MajorAxis") >>)
       \o When("sbar", << Bar("SBar") >>)
       \o When("sbuckle", << Bar("SBuckle") >>))
  \o Each(para.an, AnPushes)
  \o When("bar_radius", Owns(Radii))
  \o When("image", Each(para.colors, ImagePushes))
  \o When("dispersion_tensor", Owns(<< Top("DispersionTensor") >>))
  \o When("inertia_tensor", Owns(<< Top("InertiaTensor") >>))

-----------------------------------------------------------------------------
Init ==
  /\ para \in Paras
  /\ W!Init
  /\ todo = Created
  /\ saves = 0

\* Nobody catches what create_dataset() throws: the program ends.
Thrown == last.ret = "throw"

\* The next create_dataset() of the constructor.
CreateNext ==
  /\ saves = 0
  /\ todo # <<>> /\ ~Thrown
  /\ UNCHANGED <<para, saves>>
  /\ W!CreateDataset(Head(todo))
  /\ todo' = IF Thrown' THEN todo ELSE Tail(todo)

\* save() is entered in a step of the model analysis.
Save ==
  /\ mode = "open"
  /\ todo = <<>>
  /\ saves < MaxSaves
  /\ saves' = saves + 1
  /\ todo' = Pushed
  /\ UNCHANGED <<para, nodes, counter, rows, synced, mode, last>>

\* The next push() of save(), whose return value nobody looks at.
PushNext ==
  /\ saves > 0
  /\ todo # <<>>
  /\ UNCHANGED <<para, saves>>
  /\ LET path == Head(todo)[1]
     IN  \/ W!Push(path, [step |-> saves, of |-> Head(todo)[2]])
         \/ path \notin W!Datasets /\ W!RefusePush(path)
  /\ todo' = Tail(todo)

\* The destructor of the monitor, between two calls.
Close ==
  /\ todo = <<>>
  /\ UNCHANGED <<para, todo, saves>>
  /\ W!Destroy

\* The simulation dies, in the middle of a save() or not.
Crash ==
  /\ UNCHANGED <<para, todo, saves>>
  /\ W!Crash

Ended == (mode # "open" \/ Thrown) /\ UNCHANGED vars

Next == CreateNext \/ Save \/ PushNext \/ Close \/ Crash \/ Ended

Spec == Init /\ [][Next]_vars
-----------------------------------------------------------------------------
\* The image of a vector quantity in the x-z plane goes into the dataset of the
\* one in the y-z plane (monitor.cpp 256-258, 274-276).
RowsPerSave(p) ==
  IF \E c \in Vectors, n \in {"1", "2", "3"} : p = Axis(c, n, "xz") THEN 0
  ELSE IF \E c \in Vectors, n \in {"1", "2", "3"} : p = Axis(c, n, "yz") THEN 2
  ELSE 1

\* Every dataset has one row per analysis step as soon as save() is over, but
\* for two in the y-z images of a vector quantity and none in the x-z ones: the
\* rows of /Times number those of all the others (monitor.cpp 179-305 against
\* 308-409; README.md:422 has three planes for every image).
OneRowPerSave ==
  mode = "open" /\ todo = <<>> =>
    \A p \in W!Datasets : counter[p] = RowsPerSave(p) * saves + 1

\* Row k is of analysis step k or was never written, in every dataset, even
\* after writes that failed and in what a crash leaves behind; rows 2k - 1 and
\* 2k are where a step has two.
RowsNumberSteps ==
  \A p \in Path : \A k \in DOMAIN rows[p] :
    \/ rows[p][k] = Fill
    \/ RowsPerSave(p) = 1 /\ rows[p][k].step = k
    \/ RowsPerSave(p) = 2 /\ rows[p][k].step = (k + 1) \div 2

\* save() pushes into datasets that create_model_file_datasets() created, with
\* every combination of options.
EveryPushFindsItsDataset == last.op = "push" => last.cell # "none"

\* What dataset p may hold: the quantity it is named after, except that the
\* imaginary part of an order of An is never stored, the real part is in its
\* place, and that the y-z image of a vector shares its dataset with the x-z one.
Imaginary == {An(para.an[k], "imag") : k \in DOMAIN para.an}
Holds(p, quantity) ==
  \/ quantity = p /\ p \notin Imaginary
  \/ \E k \in DOMAIN para.an :
       p = An(para.an[k], "imag") /\ quantity = An(para.an[k], "real")
  \/ \E c \in Vectors, n \in {"1", "2", "3"} :
       p = Axis(c, n, "yz") /\ quantity = Axis(c, n, "xz")

\* A row of a dataset holds what its name says with exactly two exceptions,
\* where the code contradicts README.md:470 and README.md:422: the imaginary
\* parts of An and the y-z images of vectors (monitor.cpp 200-211, 256-258,
\* 274-276); with any options, failures and crash, no other row is misplaced.
RowsHoldTheirQuantity ==
  \A p \in Path : \A k \in DOMAIN rows[p] :
    rows[p][k] # Fill => Holds(p, rows[p][k].of)

\* The file that a run leaves behind is complete when the library does what it
\* is told: all datasets have their row on the disk for every analysis step.
ClosedFileIsComplete ==
  mode = "closed" /\ ~W!Faulty =>
    \A p \in W!Datasets :
      synced[p] = RowsPerSave(p) * saves /\ Len(rows[p]) = RowsPerSave(p) * saves
=============================================================================
