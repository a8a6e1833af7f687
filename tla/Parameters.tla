----------------------------- MODULE Parameters ------------------------------
(***************************************************************************)
(* The parameters of a run: galotfa::para (src/src/parameter/para.cpp),    *)
(* whose constructor takes what the ini file gives and defaults for the    *)
(* rest, parses the target sets, and has check() accept or refuse them.    *)
(* check() also CHANGES parameters, between its tests: the calculator and  *)
(* the output rely on what it switches on by itself.                       *)
(*                                                                         *)
(* Floating-point values are integers here.  Lengths and thresholds keep   *)
(* their order only, equal_threshold being the smallest positive one; the  *)
(* axis ratios are in halves and bar_threshold is in hundredths.           *)
(***************************************************************************)
EXTENDS Integers, IniParser

CONSTANTS
  Inis,    \* the ini files considered: sequences of lines
  Garbled  \* a subset of the classification whose text is no integer list

\* The sections, their keys and the defaults (without what no code reads).
Default == [
  Global |-> [
    switch_on |-> TRUE, convergence_type |-> "absolute", convergence_threshold |-> 10,
    sim_type |-> "galaxy", max_iter |-> 25, equal_threshold |-> 1],
  Pre |-> [
    recenter |-> TRUE, recenter_anchors |-> {}, recenter_method |-> "density",
    region_shape |-> "cylinder", region_size |-> 20, axis_ratio |-> 2],
  Model |-> [
    switch_on |-> FALSE, period |-> 10, multiple |-> FALSE, particle_types |-> {},
    classification |-> <<>>, region_shape |-> "cylinder", region_size |-> 20,
    axis_ratio |-> 2, align_bar |-> TRUE, bar_major_axis |-> FALSE,
    bar_radius |-> FALSE, sbar |-> FALSE, bar_threshold |-> 15, sbuckle |-> FALSE,
    an |-> <<>>, rmin |-> 0, rmax |-> 0, rbins |-> 20, deg |-> 3, percentage |-> 70,
    image |-> FALSE, image_bins |-> 100, colors |-> <<>>,
    inertia_tensor |-> FALSE, dispersion_tensor |-> FALSE],
  Particle |-> [switch_on |-> FALSE, period |-> 10000, particle_types |-> {}],
  Orbit |-> [switch_on |-> FALSE, period |-> 1, idfile |-> ""],
  Group |-> [
    switch_on |-> FALSE, period |-> 10, group_types |-> {},
    ellipticity |-> FALSE, rmg |-> FALSE, vmg |-> FALSE],
  Post |-> [switch_on |-> FALSE] ]

\* The members of para, named after section and key.
Alias == [Global |-> "glb", Pre |-> "pre", Model |-> "md", Particle |-> "ptc",
          Orbit |-> "orb", Group |-> "grp", Post |-> "post"]
Member(section, key) == Alias[section] \o "_" \o key
Keys == UNION {{s} \X DOMAIN Default[s] : s \in DOMAIN Default}
KeyOf == [m \in {Member(sk[1], sk[2]) : sk \in Keys} |->
            CHOOSE sk \in Keys : Member(sk[1], sk[2]) = m]

VARIABLES
  ini,       \* the lines of the ini file
  para,      \* the members of para
  sets,      \* para::md_target_sets
  verdict    \* "reading", "read", "accepted", or "refused" by an exception

paraVars == <<ini, para, sets, verdict>>

-----------------------------------------------------------------------------
Colors == {"number_density", "surface_density", "mean_velocity",
           "velocity_dispersion"}
Shapes == {"sphere", "cylinder", "box"}

\* update(): what the table has, or the default.
Updated(table) ==
  [m \in DOMAIN KeyOf |->
     LET section == KeyOf[m][1]
         key == KeyOf[m][2]
     IN  IF Has(table, section, key) THEN table[Hash(section, key)]
         ELSE Default[section][key]]

\* The getters that update() calls by the type of the member.
Flags == {"glb_switch_on", "pre_recenter", "md_switch_on", "md_multiple", "md_align_bar",
          "md_bar_major_axis", "md_bar_radius", "md_sbar", "md_sbuckle", "md_image",
          "md_dispersion_tensor", "md_inertia_tensor", "ptc_switch_on", "orb_switch_on",
          "grp_switch_on", "post_switch_on"}
Numbers == {"glb_max_iter", "glb_equal_threshold", "pre_region_size", "pre_axis_ratio",
            "md_period", "md_region_size", "md_axis_ratio", "md_rmin", "md_rmax", "md_rbins",
            "md_image_bins", "ptc_period", "orb_period", "grp_period"}
Others == {"md_an", "md_colors", "md_classification", "md_particle_types",
           "pre_recenter_method"}

Typed(p) ==
  /\ Flags \cup Numbers \cup Others \subseteq DOMAIN p
  /\ \A m \in Flags : p[m] \in BOOLEAN
  /\ \A m \in Numbers : p[m] \in Int
  /\ p.md_an \in Seq(Int)
  /\ p.md_colors \in Seq(STRING)
  /\ DOMAIN p.md_classification = 1 .. Len(p.md_classification)

\* A file is a sequence of lines, no two members of para have one name, and a
\* value is of the type of its key: what cannot be converted is an error of
\* the getter.
ASSUME FilesAssumption ==
  \A file \in Inis : Len(file) \in Nat /\ DOMAIN file = 1 .. Len(file)
ASSUME NamesAssumption ==
  \A a, b \in Keys : Member(a[1], a[2]) = Member(b[1], b[2]) => a = b
ASSUME ValuesAssumption == \A file \in Inis : Typed(Updated(Table(file)))

\* The target sets, <<>> when the classification cannot be parsed.
TargetSets(p) ==
  IF p.md_multiple THEN p.md_classification ELSE <<p.md_particle_types>>
Parsable(p) ==
  p.md_multiple => \A k \in DOMAIN p.md_classification : p.md_classification[k] # Garbled

\* Tests on the Global section.
GlobalWrong(p) ==
  \/ ~(p.md_switch_on \/ p.ptc_switch_on \/ p.orb_switch_on \/ p.grp_switch_on
       \/ p.post_switch_on)
  \/ p.glb_convergence_type \notin {"relative", "absolute"}
  \/ p.glb_convergence_threshold <= 0
  \/ p.glb_max_iter <= 0
  \/ p.glb_equal_threshold <= 0
  \/ p.glb_sim_type \notin {"galaxy", "cluster"}

\* Tests on the Pre section.
PreWrong(p) ==
  /\ p.pre_recenter
  /\ \/ p.pre_recenter_anchors = {}
     \/ p.pre_region_shape \notin Shapes
     \/ p.pre_region_size <= 0
     \/ p.pre_axis_ratio <= 0
     \/ p.pre_recenter_method \notin {"com", "density", "potential"}

\* The method by potential falls back on the centre of mass.
WithMethod(p) ==
  IF p.pre_recenter /\ p.pre_recenter_method = "potential"
    THEN [p EXCEPT !.pre_recenter_method = "com"] ELSE p

\* What the alignment with the bar needs.
WithBar(p) ==
  IF p.md_switch_on /\ p.md_align_bar
    THEN [p EXCEPT !.md_bar_major_axis = TRUE, !.md_sbar = TRUE] ELSE p

\* Mutated form of WithRadius: the bar itself is not switched on.
WithRadiusOnly(p) ==
  IF p.md_switch_on /\ p.md_bar_radius
    THEN [p EXCEPT !.md_rmax =
            IF @ < p.glb_equal_threshold \/ @ > p.md_region_size
              THEN p.md_region_size ELSE @]
    ELSE p

\* What the bar radius needs: an outer radius within the region, the bar.
WithRadius(p) ==
  IF p.md_switch_on /\ p.md_bar_radius
    THEN [p EXCEPT !.md_rmax =
            IF @ < p.glb_equal_threshold \/ @ > p.md_region_size
              THEN p.md_region_size ELSE @,
                   !.md_bar_major_axis = TRUE, !.md_sbar = TRUE]
    ELSE p

\* The parameters as check() leaves them.
Adjusted(p) == WithRadius(WithBar(WithMethod(p)))

\* Tests on the images, and with them on the orders of An.
ImageWrong(p) ==
  /\ p.md_image
  /\ \/ p.md_image_bins <= 0
     \/ p.md_colors = <<>>
     \/ \E k \in DOMAIN p.md_colors : p.md_colors[k] \notin Colors
     \/ \E k \in DOMAIN p.md_an : p.md_an[k] <= 0

\* Mutated form of RadiusWrong: the radii are compared before rmax is set.
RadiusWrongEarly(p) ==
  /\ p.md_bar_radius
  /\ \/ p.md_rmin < 0
     \/ p.md_rmax < 0
     \/ p.md_rmax # 0 /\ p.md_rmax <= p.md_rmin
     \/ p.md_rbins <= 0
     \/ p.md_deg \notin 1 .. 89
     \/ p.md_percentage \notin 1 .. 99

\* Tests on the bar radius, some before and some after rmax is set.
RadiusWrong(p) ==
  /\ p.md_bar_radius
  /\ \/ p.md_rmin < 0
     \/ p.md_rmax < 0
     \/ Adjusted(p).md_rmax <= p.md_rmin
     \/ p.md_rbins <= 0
     \/ p.md_deg \notin 1 .. 89
     \/ p.md_percentage \notin 1 .. 99

\* Tests on the Model section.
ModelWrong(p, targets) ==
  /\ p.md_switch_on
  /\ \/ p.md_align_bar /\ ~p.pre_recenter
     \/ p.md_period <= 0
     \/ p.md_particle_types = {}
     \/ p.md_multiple /\ p.md_classification = <<>>
     \/ \E k \in DOMAIN targets : ~(targets[k] \subseteq p.md_particle_types)
     \/ p.md_region_shape \notin Shapes
     \/ p.md_region_size <= 0
     \/ p.md_axis_ratio <= 0
     \/ p.md_bar_threshold \notin 1 .. 99
     \/ ImageWrong(p)
     \/ RadiusWrong(p)

\* Tests on the Particle, Orbit and Group sections.
OthersWrong(p) ==
  \/ p.ptc_switch_on /\ (p.ptc_period <= 0 \/ p.ptc_particle_types = {})
  \/ p.orb_switch_on /\ (p.orb_period <= 0 \/ p.orb_idfile = "")
  \/ /\ p.grp_switch_on
     /\ \/ p.grp_period <= 0
        \/ p.grp_group_types = {}
        \/ p.grp_ellipticity \/ p.grp_rmg \/ p.grp_vmg

\* check() returns 0.
Accepts(p, targets) ==
  ~p.glb_switch_on
  \/ ~(GlobalWrong(p) \/ PreWrong(p) \/ ModelWrong(p, targets) \/ OthersWrong(p))

-----------------------------------------------------------------------------
ParaInit ==
  /\ ini \in Inis
  /\ para = Updated(<<>>)
  /\ sets = <<>>
  /\ verdict = "reading"

\* ini_parser() and the constructor up to check(): update() on every key, the
\* target sets.  Both throw when they cannot read something.
Read ==
  /\ verdict = "reading"
  /\ IF \E k \in DOMAIN ini : Rejected(ini[k])
       THEN verdict' = "refused" /\ UNCHANGED <<para, sets>>
       ELSE LET p == Updated(Table(ini))
            IN  /\ para' = p
                /\ IF Parsable(p)
                     THEN sets' = TargetSets(p) /\ verdict' = "read"
                     ELSE sets' = <<>> /\ verdict' = "refused"
  /\ UNCHANGED ini

\* check(); the constructor throws when it complains.
Check ==
  /\ verdict = "read"
  /\ para' = IF para.glb_switch_on THEN Adjusted(para) ELSE para
  /\ verdict' = IF Accepts(para, sets) THEN "accepted" ELSE "refused"
  /\ UNCHANGED <<ini, sets>>

-----------------------------------------------------------------------------
\* The header that line n of a file stands under.
Under(file, n) ==
  LET headers == {k \in 1 .. n : file[k].kind = "section"}
  IN  IF headers = {} THEN "" ELSE file[Max(headers)].name

\* Whatever the order of the sections and however often one is opened again,
\* a parameter has the value of the last line with its key below a header of
\* its section, or its default: keys of the same name in other sections,
\* unknown sections and lines above all headers do not disturb it
\* (ini_parser.cpp 65-85: the section is remembered from line to line; para.cpp
\* 56-135).  README.md:219 makes the case of section names matter, not of keys.
SettingsAsWritten ==
  verdict = "read" =>
    \A sk \in Keys :
      LET given == {n \in DOMAIN ini : /\ ini[n].kind = "entry"
                                      /\ ini[n].key = sk[2]
                                      /\ Under(ini, n) = sk[1]}
      IN  para[Member(sk[1], sk[2])]
            = IF given = {} THEN Default[sk[1]][sk[2]] ELSE ini[Max(given)].value

\* What the engine needs of its parameters, and check() tests: rounds and a
\* method for the recentring, periods to divide by, target sets within the
\* particle types, rings between two radii of the region, colours.
HasTheTested(p, targets) ==
  /\ p.glb_max_iter > 0
  /\ p.pre_recenter => p.pre_recenter_method \in {"com", "density"} /\ p.pre_region_size > 0
  /\ p.md_switch_on =>
       /\ p.md_period > 0
       /\ p.md_region_size > 0
       /\ targets # <<>>
       /\ \A k \in DOMAIN targets : targets[k] \subseteq p.md_particle_types
       /\ p.md_image => p.md_image_bins > 0 /\ p.md_colors # <<>>
       /\ p.md_bar_radius =>
            /\ 0 <= p.md_rmin
            /\ p.md_rmin < p.md_rmax
            /\ p.md_rmax <= p.md_region_size
            /\ p.md_rbins > 0
       /\ p.md_align_bar => p.pre_recenter
  /\ p.ptc_switch_on => p.ptc_period > 0
  /\ p.orb_switch_on => p.orb_period > 0
  /\ p.grp_switch_on => p.grp_period > 0

\* Every analysis recentres, by any method but com on the densest pixel, also
\* with recenter off; the images and the tensor are laid on the same bins.
OnPixels(p) == p.pre_recenter_method # "com"
OnCells(p) == p.md_switch_on /\ (p.md_image \/ p.md_dispersion_tensor)

\* ( unsigned int )bins * axis_ratio, truncated.
Along(bins, ratio) == (bins * ratio) \div 2

\* A particle of the window has a pixel or cell on every axis.
HasPixels(p) ==
  OnPixels(p) => p.md_image_bins > 0 /\ Along(p.md_image_bins, p.pre_axis_ratio) > 0
HasCells(p) ==
  OnCells(p) => p.md_image_bins > 0 /\ Along(p.md_image_bins, p.md_axis_ratio) > 0

\* Ans has seven orders.
HasOrders(p) == p.md_switch_on => \A k \in DOMAIN p.md_an : p.md_an[k] \in 0 .. 6

CanRun(p, targets) ==
  HasTheTested(p, targets) /\ HasPixels(p) /\ HasCells(p) /\ HasOrders(p)

\* What check() never looks at: the bins unless there are images, the pixels of
\* an axis that is shorter than the others, an order that is too large and,
\* unless there are images, one that is negative.
UntestedBins(p, ratio) ==
  \/ p.md_image_bins <= 0 /\ ~(p.md_switch_on /\ p.md_image)
  \/ p.md_image_bins > 0 /\ Along(p.md_image_bins, ratio) <= 0
UntestedOrders(p) ==
  \E k \in DOMAIN p.md_an : p.md_an[k] > 6 \/ (p.md_an[k] < 0 /\ ~p.md_image)

\* What check() accepts can run, unless it lacks what check() never looks at:
\* stated on the parameters as check() LEFT them, its tests and its changes
\* being interleaved (para.cpp 202-454).  What it never looks at is needed all
\* the same: the recentring by density divides by image_bins (calculator.cpp
\* 304, with the method that is the default), the dispersion tensor is
\* allocated from it (214-221, 551), Ans is indexed by the orders (133).
AcceptedRunsUnlessUntested ==
  verdict = "accepted" /\ para.glb_switch_on =>
    /\ HasTheTested(para, sets)
    /\ HasPixels(para) \/ UntestedBins(para, para.pre_axis_ratio)
    /\ HasCells(para) \/ UntestedBins(para, para.md_axis_ratio)
    /\ HasOrders(para) \/ UntestedOrders(para)
=============================================================================
