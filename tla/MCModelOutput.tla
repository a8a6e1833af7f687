---------------------------- MODULE MCModelOutput ----------------------------
(***************************************************************************)
(* Instances of ModelOutput for TLC.                                       *)
(***************************************************************************)
EXTENDS ModelOutput

\* Every combination of switches that para::check lets through, with the
\* scalar images.
Plain ==
  {[on |-> on, an |-> <<>>, colors |-> <<"number_density", "surface_density">>,
    faults |-> {}]
     : on \in {s \in SUBSET Switches :
                 "bar_radius" \in s => {"bar_major_axis", "sbar"} \subseteq s}}

\* Orders of An and an image of a vector quantity.
Parted ==
  {[on |-> on, an |-> an, colors |-> <<"mean_velocity", "number_density">>, faults |-> {}]
     : on \in SUBSET {"recenter", "image"}, an \in {<<"2">>, <<"0", "2">>}}

\* Two datasets, or those of one order, when the library may fail and the
\* simulation die.
Failing ==
  {[on |-> {switch}, an |-> <<>>, colors |-> <<>>, faults |-> {"library", "death"}]
     : switch \in {"recenter", "dispersion_tensor"}}
FailingParts ==
  {[on |-> {}, an |-> <<"2">>, colors |-> <<>>, faults |-> {"death"}]}
MCParas == Plain \cup Parted \cup Failing \cup FailingParts
Colors == {"number_density", "surface_density"} \cup Vectors
AllPaths ==
  {Top(n) : n \in Tops}
  \cup {Bar(n) : n \in Bars}
  \cup {An(m, part) : m \in {"0", "2"}, part \in {"real", "imag"}}
  \cup {Image(c, p) : c \in Colors \ Vectors, p \in {"xy", "xz", "yz"}}
  \cup {Axis(c, n, p) : c \in {"mean_velocity"}, n \in {"1", "2", "3"}, p \in {"xy", "xz", "yz"}}

WithGroup(paths) == paths \cup {SubSeq(p, 1, 1) : p \in paths}
MCPath == WithGroup(AllPaths)
MCName == UNION {{p[k] : k \in DOMAIN p} : p \in MCPath}

\* /DispersionTensor has a chunk of its own.
MCChunk == [p \in Path |-> IF p = Top("DispersionTensor") THEN 1 ELSE 2]
=============================================================================
