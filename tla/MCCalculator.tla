---------------------------- MODULE MCCalculator -----------------------------
(***************************************************************************)
(* Instances of Calculator for TLC: families of ini files.                 *)
(***************************************************************************)
EXTENDS Calculator

\* The file that sets the given members of para, section after section.
SectionOrder == <<"Global", "Pre", "Model", "Particle", "Orbit", "Group", "Post">>
Part(section, settings) ==
  FoldSet(LAMBDA key, file : Append(file, Entry(key, settings[Member(section, key)])),
          <<Header(section, FALSE)>>,
          {k \in DOMAIN Default[section] : Member(section, k) \in DOMAIN settings})
FileOf(settings) == FlattenSeq([n \in 1 .. 7 |-> Part(SectionOrder[n], settings)])

NumberAndMean == <<"number_density", "mean_velocity">>
AllColors == <<"velocity_dispersion", "surface_density", "mean_velocity", "number_density">>

\* Bars, radii, alignment and orders of An; some are refused.
Bars ==
  [md_switch_on : {TRUE}, md_particle_types : {{1, 2}}, md_align_bar : BOOLEAN,
   pre_recenter : BOOLEAN, pre_recenter_anchors : {{1}},
   pre_recenter_method : {"com", "potential"},
   md_bar_radius : BOOLEAN, md_rmin : {0, 15, 25}, md_rmax : {-1, 0, 10, 30},
   md_sbuckle : BOOLEAN, md_an : {<<>>, <<2, 6>>}]

\* Target sets and images, the third axis as long as the others.
Images ==
  [md_switch_on : {TRUE}, md_particle_types : {{1, 2}}, pre_recenter_anchors : {{1}},
   md_image : BOOLEAN, md_image_bins : {0, 2}, md_axis_ratio : {2},
   md_colors : {<<>>, NumberAndMean, AllColors}, md_an : {<<0>>, <<2>>},
   md_multiple : BOOLEAN,
   md_classification : {<<{1}, {1, 2}>>, <<{1}, {3}>>, <<{1}, Garbled>>, <<>>},
   md_dispersion_tensor : BOOLEAN, md_inertia_tensor : BOOLEAN]

\* What check() never looks at: bins that only the recentring and the tensor
\* use, an axis that is shorter than a pixel, orders that Ans has not.
Untested ==
  [md_switch_on : {TRUE}, md_particle_types : {{1}}, pre_recenter_anchors : {{1}},
   pre_recenter_method : {"com", "density"}, pre_axis_ratio : {1, 2},
   md_image : {FALSE}, md_image_bins : {-1, 0, 1, 2}, md_axis_ratio : {1, 2},
   md_dispersion_tensor : BOOLEAN, md_an : {<<0>>, <<7>>, <<2, -1>>}]
 \cup
  [md_switch_on : {TRUE}, md_particle_types : {{1}}, pre_recenter_anchors : {{1}},
   md_image : {TRUE}, md_image_bins : {-1, 1}, md_colors : {NumberAndMean},
   md_an : {<<-1>>, <<1, 7>>}]

\* The modules that are on and their periods.
Modules ==
  [glb_switch_on : BOOLEAN, glb_max_iter : {0, 3}, pre_recenter_anchors : {{}, {1}},
   md_switch_on : BOOLEAN, md_particle_types : {{}, {1}}, md_period : {0, 2},
   ptc_switch_on : BOOLEAN, ptc_particle_types : {{1}}, ptc_period : {0, 3},
   orb_switch_on : BOOLEAN, orb_idfile : {"", "ids"}]

\* Short files of any lines, sections opened twice and unknown ones among them.
Lines ==
  {Header(s, FALSE) : s \in {"Model", "Orbit", "Extra"}} \cup {Header("Model", TRUE)}
  \cup {Entry("switch_on", TRUE), Entry("period", 2), Entry("period", 3), Blank, Other}
Loose == UNION {[1 .. n -> Lines] : n \in 0 .. 4}

RoundInis == {FileOf(f) : f \in Bars \cup Images \cup Untested \cup Modules} \cup Loose

\* A third axis that is shorter or longer than the others.
FlatInis == {FileOf(f) : f \in
  [md_switch_on : {TRUE}, md_particle_types : {{1, 2}}, pre_recenter_anchors : {{1}},
   md_image : {TRUE}, md_image_bins : {2}, md_axis_ratio : {1, 2, 3},
   md_colors : {NumberAndMean}]}
=============================================================================
