----------------------------- MODULE Calculator ------------------------------
(***************************************************************************)
(* The result buffers of the calculator on the root (src/src/engine/       *)
(* calculator.cpp): setup_res() sizes them from the parameters that        *)
(* para::check let through, call_md_module() fills them set by set in      *)
(* every analysis step, monitor::save() pushes them, the destructor frees  *)
(* them.  Each of the four lists the buffers by hand, and each computes    *)
(* sizes and indices for itself from image_bins and axis_ratio.            *)
(***************************************************************************)
EXTENDS Parameters, FiniteSets

CONSTANT
  MaxSteps   \* bound: analysis steps

ASSUME MaxStepsAssumption == MaxSteps \in Nat

VARIABLES
  place,   \* "start", "idle", "analyse", "save" or "gone"
  i,       \* the target set that call_md_module() or save() is at
  step,    \* analysis steps begun
  sized,   \* the vectors of results resized to the number of target sets
  image,   \* analysis_result::images: the buffer that each slot points to
  heap,    \* the cells of every buffer: the step they were last written in
  frees,   \* how often each buffer was given to delete[]
  stray,   \* what was accessed outside of its vector or buffer, ever
  stale    \* the slots that were pushed with a cell of another step, ever

vars == <<ini, para, sets, verdict,
          place, i, step, sized, image, heap, frees, stray, stale>>

-----------------------------------------------------------------------------
Bins == para.md_image_bins
Third == Along(Bins, para.md_axis_ratio)

\* A slot is <<layer, plane, set>>: the layers of images are 0 .. 7; 8 and 9
\* stand for the dispersion and the inertia tensor, taken as one cell, or
\* none when the dispersion has no bins.
Slot == (0 .. 9) \X (0 .. 2) \X DOMAIN sets
Layers(color) ==
  CASE color = "number_density" -> {0}
    [] color = "surface_density" -> {1}
    [] color = "mean_velocity" -> 2 .. 4
    [] OTHER -> 5 .. 7
ColorSlots(color) == Layers(color) \X (0 .. 2) \X DOMAIN sets
TensorSlots(layer) == {layer} \X {0} \X DOMAIN sets

When(option, groups) == IF option THEN groups ELSE <<>>

\* The buffers that setup_res() allocates, one group after the other.
Groups ==
  When(para.md_image,
       [k \in DOMAIN para.md_colors |-> ColorSlots(para.md_colors[k])])
  \o When(para.md_dispersion_tensor, <<TensorSlots(8)>>)
  \o When(para.md_inertia_tensor, <<TensorSlots(9)>>)

\* The images of the x-y plane are bins x bins, the others bins x third.
Size(slot) ==
  CASE slot[1] = 8 -> IF Bins > 0 /\ Third > 0 THEN 1 ELSE 0
    [] slot[1] = 9 -> 1
    [] slot[1] \in 0 .. 7 /\ slot[2] = 0 -> Bins * Bins
    [] OTHER -> Bins * Third

\* The vectors that setup_res() resizes, the orders of An among them.
An(n) == <<"Ans", n>>
Orders == {An(para.md_an[k]) : k \in DOMAIN para.md_an}
Vector(name) == <<name, 0>>
If(option, names) == IF option THEN {Vector(n) : n \in names} ELSE {}
Resized ==
  If(para.md_bar_major_axis, {"bar_major_axis"})
  \cup If(para.md_bar_radius, {"bar_radius"})
  \cup If(para.md_sbar, {"s_bar"})
  \cup If(para.md_sbuckle, {"s_buckle"})
  \cup Orders

\* Ans has seven orders; the other names are vectors of their own.
IsVector(v) == v[1] = "Ans" => v[2] \in 0 .. 6

\* The vectors read or written in the analysis of one set; the bar radius and
\* the alignment read the axis of a strong bar only.
Touched(strong) ==
  Resized
  \cup If(para.md_bar_radius \/ para.md_align_bar, {"s_bar"})
  \cup If((para.md_bar_radius \/ para.md_align_bar) /\ strong, {"bar_major_axis"})

Outside(vectors) == {v \in vectors : v \notin sized \/ ~IsVector(v)}

\* Mutated form of Written: the last row of pixels is left out.
WrittenButLast(slot) ==
  IF slot[1] \in {8, 9} THEN {0}
  ELSE {k * Bins + m : k \in 0 .. Bins - 2, m \in 0 .. Third - 1}

\* The cells that the copy loops write, with the same stride in all planes.
Written(slot) ==
  IF slot[1] \in {8, 9} THEN {0}
  ELSE {k * Bins + m : k \in 0 .. Bins - 1, m \in 0 .. Third - 1}

\* The cells that save() pushes: bins x bins whatever the plane.
PushedCells(slot) ==
  IF slot[1] \in {8, 9} THEN {0} ELSE 0 .. Bins * Bins - 1

\* The slots of set j that are in use.
SlotsOf(j) == {s \in UNION {Groups[k] : k \in DOMAIN Groups} : s[3] = j}

\* Mutated form of FreedLayers: the dispersion is freed like the mean.
FreedLayersOfMean(color) ==
  CASE color = "number_density" -> {0}
    [] color = "surface_density" -> {1}
    [] OTHER -> 2 .. 4

\* The layers that the destructor frees for a colour.
FreedLayers(color) ==
  CASE color = "number_density" -> {0}
    [] color = "surface_density" -> {1}
    [] color = "mean_velocity" -> 2 .. 4
    [] OTHER -> 5 .. 7

\* The slots whose buffers the destructor frees, in its order.
FreedSlots ==
  When(para.md_image,
       [k \in DOMAIN para.md_colors |->
          FreedLayers(para.md_colors[k]) \X (0 .. 2) \X DOMAIN sets])
  \o When(para.md_dispersion_tensor, <<TensorSlots(8)>>)
  \o When(para.md_inertia_tensor, <<TensorSlots(9)>>)

-----------------------------------------------------------------------------
Null == <<>>

Init ==
  /\ ParaInit
  /\ place = "start"
  /\ i = 0
  /\ step = 0
  /\ sized = {}
  /\ image = <<>>
  /\ heap = <<>>
  /\ frees = <<>>
  /\ stray = {}
  /\ stale = {}

rest == <<place, i, step, sized, image, heap, frees, stray, stale>>

Parse == Read /\ UNCHANGED rest
Verify == Check /\ UNCHANGED rest

\* calculator(): setup_res(), once the parameters are accepted.  Each group
\* overwrites the pointers of its slots.
Setup ==
  /\ verdict = "accepted"
  /\ para.glb_switch_on
  /\ para.md_switch_on
  /\ place = "start"
  /\ place' = "idle"
  /\ sized' = {v \in Resized : IsVector(v)}
  /\ stray' = stray \cup {v \in Resized : ~IsVector(v)}
  /\ heap' = [b \in UNION {Groups[k] \X {k} : k \in DOMAIN Groups} |->
                [cell \in 0 .. Size(b[1]) - 1 |-> 0]]
  /\ frees' = [b \in DOMAIN heap' |-> 0]
  /\ image' = [s \in Slot |->
                 LET of == {k \in DOMAIN Groups : s \in Groups[k]}
                 IN  IF of = {} THEN Null
                     ELSE <<s, CHOOSE k \in of : \A l \in of : l <= k>>]
  /\ UNCHANGED <<ini, para, sets, verdict, i, step, stale>>

\* An analysis step is due; call_pre_module(), where the search for the densest
\* pixel counts its particles in images that may have none.
Begin ==
  /\ place = "idle"
  /\ step < MaxSteps
  /\ place' = "analyse"
  /\ step' = step + 1
  /\ i' = 1
  /\ stray' = stray \cup (IF HasPixels(para) THEN {} ELSE {<<"image_xy", 0>>})
  /\ UNCHANGED <<ini, para, sets, verdict, sized, image, heap, frees, stale>>

\* The next target set, or the next function.
After(p, q) ==
  IF i < Len(sets) THEN place' = p /\ i' = i + 1 ELSE place' = q /\ i' = 1

\* The images of plane 0 are read from a matrix that is bins wide.
Overread(slot) == slot[1] \in 0 .. 7 /\ slot[2] = 0 /\ Third > Bins

\* One turn of the loop of call_md_module() over the target sets.
Analyse ==
  /\ place = "analyse"
  /\ \E strong \in BOOLEAN :
       stray' = stray \cup Outside(Touched(strong))
                \cup {s \in SlotsOf(i) :
                        Overread(s) \/ ~(Written(s) \subseteq DOMAIN heap[image[s]])}
  /\ heap' = [b \in DOMAIN heap |->
                [cell \in DOMAIN heap[b] |->
                   IF b[1] \in SlotsOf(i) /\ image[b[1]] = b /\ cell \in Written(b[1])
                     THEN step ELSE heap[b][cell]]]
  /\ After("analyse", "save")
  /\ UNCHANGED <<ini, para, sets, verdict, step, sized, image, frees, stale>>

\* The pushes of save() for one target set.
Save ==
  /\ place = "save"
  /\ LET cells(s) == PushedCells(s) \cap DOMAIN heap[image[s]]
     IN  /\ stray' = stray \cup Outside(Resized)
                     \cup {s \in SlotsOf(i) : cells(s) # PushedCells(s)}
         /\ stale' = stale \cup
                     {s \in SlotsOf(i) : \E c \in cells(s) : heap[image[s]][c] # step}
  /\ After("save", "idle")
  /\ UNCHANGED <<ini, para, sets, verdict, step, sized, image, heap, frees>>

\* ~calculator(), when the simulation is over.
Destroy ==
  /\ place = "idle"
  /\ place' = "gone"
  /\ frees' = [b \in DOMAIN heap |->
                 Cardinality({k \in DOMAIN FreedSlots :
                                b[1] \in FreedSlots[k] /\ image[b[1]] = b})]
  /\ UNCHANGED <<ini, para, sets, verdict, i, step, sized, image, heap, stray, stale>>

\* The program is over, or there is nothing to analyse, or para threw.
Ended ==
  /\ \/ place = "gone"
     \/ verdict = "refused"
     \/ verdict = "accepted" /\ ~(para.glb_switch_on /\ para.md_switch_on)
  /\ UNCHANGED vars

Next == Parse \/ Verify \/ Setup \/ Begin \/ Analyse \/ Save \/ Destroy \/ Ended

Spec == Init /\ [][Next]_vars
-----------------------------------------------------------------------------
\* README.md:426-427: "how many bins of the image matrices in each dimension.
\* For the axis that may be stretched, the number of bins in such axis is
\* axis_ratio x image_bins": what call_md_module() and save() index lies in
\* what setup_res() allocated from those numbers, and no vector is indexed
\* that the options left empty: check() must have switched on what the bar
\* radius and the alignment read (calculator.cpp 124, 392, 411, 453).  For
\* every file that CanRun: what that asks is all there is to ask.
AccessesInside == CanRun(para, sets) => stray = {}

\* Every value that save() pushes was computed in the step it is pushed for,
\* in all pixels of all planes, in every step after the first too
\* (calculator.cpp 440-540 against monitor.cpp 212-286).
RowsAreFresh == CanRun(para, sets) => stale = {}

\* The destructor gives every buffer to delete[] exactly once: its lists
\* agree with those of setup_res() (calculator.cpp 38-105 against 131-233).
FreedOnce ==
  place = "gone" /\ CanRun(para, sets) => \A b \in DOMAIN heap : frees[b] = 1
=============================================================================
