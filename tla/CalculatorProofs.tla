-------------------------- MODULE CalculatorProofs ---------------------------
(***************************************************************************)
(* Proofs about Calculator and the parameters it is sized from, for any    *)
(* ini files, any target sets and any number of analysis steps.            *)
(***************************************************************************)
EXTENDS Calculator, Recursion, SequenceTheorems

-----------------------------------------------------------------------------
(***************************************************************************)
(* What check() leaves.                                                    *)
(***************************************************************************)

\* check() changes what is of no other type, and switches on what it needs.
LEMMA AdjustedIsTyped ==
  ASSUME NEW p, Typed(p)
  PROVE  /\ Typed(Adjusted(p))
         /\ \A m \in (Flags \cup Numbers \cup Others)
                       \ {"md_rmax", "md_sbar", "md_bar_major_axis", "pre_recenter_method"} :
              Adjusted(p)[m] = p[m]
<1> DEFINE a == WithMethod(p)
           b == WithBar(a)
           c == WithRadius(b)
<1>1. /\ Typed(a)
      /\ \A m \in (Flags \cup Numbers \cup Others) \ {"pre_recenter_method"} : a[m] = p[m]
  BY DEF Typed, WithMethod, Flags, Numbers, Others
<1> HIDE DEF a
<1>2. /\ Typed(b)
      /\ \A m \in (Flags \cup Numbers \cup Others) \ {"md_sbar", "md_bar_major_axis"} :
           b[m] = a[m]
  BY <1>1 DEF Typed, WithBar, Flags, Numbers, Others
<1> HIDE DEF b
<1>3. /\ Typed(c)
      /\ \A m \in (Flags \cup Numbers \cup Others)
                    \ {"md_rmax", "md_sbar", "md_bar_major_axis"} : c[m] = b[m]
  <2>1. CASE ~(b.md_switch_on /\ b.md_bar_radius)
    BY <1>2, <2>1 DEF WithRadius
  <2>2. CASE b.md_switch_on /\ b.md_bar_radius
    <3> DEFINE outer == IF \/ b.md_rmax < b.glb_equal_threshold
                           \/ b.md_rmax > b.md_region_size
                          THEN b.md_region_size ELSE b.md_rmax
    <3>1. c = [b EXCEPT !.md_rmax = outer, !.md_bar_major_axis = TRUE, !.md_sbar = TRUE]
      BY <2>2 DEF WithRadius
    <3>2. outer \in Int
      BY <1>2 DEF Typed, Numbers
    <3> HIDE DEF c, outer
    <3>3. DOMAIN c = DOMAIN b
      BY <3>1
    <3>4. \A m \in DOMAIN b \ {"md_rmax", "md_sbar", "md_bar_major_axis"} : c[m] = b[m]
      BY <3>1
    <3>5. /\ {"md_rmax", "md_sbar", "md_bar_major_axis"} \subseteq DOMAIN b
          /\ Flags \cup Numbers \cup Others \subseteq DOMAIN b
      BY <1>2 DEF Typed, Flags, Numbers
    <3>6. c.md_rmax \in Int /\ c.md_sbar \in BOOLEAN /\ c.md_bar_major_axis \in BOOLEAN
      BY <3>1, <3>2, <3>5
    <3>7. /\ c.md_an = b.md_an /\ c.md_colors = b.md_colors
          /\ c.md_classification = b.md_classification
      BY <3>4, <3>5 DEF Others
    <3>8. \A m \in Flags : c[m] \in BOOLEAN
      BY <1>2, <3>4, <3>5, <3>6 DEF Typed, Flags
    <3>9. \A m \in Numbers : c[m] \in Int
      BY <1>2, <3>4, <3>5, <3>6 DEF Typed, Numbers
    <3>10. Typed(c)
      BY <1>2, <3>3, <3>5, <3>7, <3>8, <3>9 DEF Typed
    <3>11. QED
      BY <3>4, <3>5, <3>10
  <2>3. QED
    BY <2>1, <2>2
<1>4. c = Adjusted(p)
  BY DEF a, b, Adjusted
<1> HIDE DEF c
<1>5. QED
  BY <1>1, <1>2, <1>3, <1>4

\* No method by potential is left.
LEMMA AdjustedMethod ==
  ASSUME NEW p, Typed(p), p.pre_recenter
  PROVE  Adjusted(p).pre_recenter_method
           = IF p.pre_recenter_method = "potential" THEN "com" ELSE p.pre_recenter_method
<1> DEFINE a == WithMethod(p)
           b == WithBar(a)
           c == WithRadius(b)
<1>1. a.pre_recenter_method
        = IF p.pre_recenter_method = "potential" THEN "com" ELSE p.pre_recenter_method
  BY DEF Typed, WithMethod, Others
<1> HIDE DEF a
<1>2. b.pre_recenter_method = a.pre_recenter_method
  BY DEF WithBar
<1> HIDE DEF b
<1>3. c.pre_recenter_method = b.pre_recenter_method
  BY DEF WithRadius
<1>4. c = Adjusted(p)
  BY DEF a, b, Adjusted
<1> HIDE DEF c
<1>5. QED
  BY <1>1, <1>2, <1>3, <1>4

\* What the alignment and the bar radius rely on is on.
LEMMA AdjustedHasTheBar ==
  ASSUME NEW p, Typed(p), p.md_switch_on
  PROVE  /\ p.md_align_bar \/ p.md_bar_radius =>
              Adjusted(p).md_bar_major_axis /\ Adjusted(p).md_sbar
         /\ p.md_bar_radius => Adjusted(p).md_rmax <= Adjusted(p).md_region_size
<1> DEFINE a == WithMethod(p)
           b == WithBar(a)
           c == WithRadius(b)
           used == {"md_switch_on", "md_align_bar", "md_bar_radius", "md_bar_major_axis",
                    "md_sbar", "md_rmax", "md_region_size", "glb_equal_threshold"}
<1>1. /\ used \subseteq DOMAIN a
      /\ \A m \in used : a[m] = p[m]
      /\ {a.md_rmax, a.md_region_size, a.glb_equal_threshold} \subseteq Int
  BY DEF Typed, WithMethod, Flags, Numbers, Others
<1> HIDE DEF a
<1>2. /\ used \subseteq DOMAIN b
      /\ \A m \in used \ {"md_sbar", "md_bar_major_axis"} : b[m] = a[m]
      /\ p.md_align_bar => b.md_bar_major_axis /\ b.md_sbar
  BY <1>1 DEF WithBar
<1> HIDE DEF b
<1>3. /\ c.md_region_size = b.md_region_size
      /\ b.md_bar_radius => /\ c.md_bar_major_axis /\ c.md_sbar
                            /\ c.md_rmax <= c.md_region_size
      /\ ~b.md_bar_radius => c.md_bar_major_axis = b.md_bar_major_axis
                             /\ c.md_sbar = b.md_sbar
  <2>1. /\ b.md_switch_on
        /\ {b.md_rmax, b.md_region_size, b.glb_equal_threshold} \subseteq Int
    BY <1>1, <1>2
  <2>2. CASE ~b.md_bar_radius
    BY <2>2 DEF WithRadius
  <2>3. CASE b.md_bar_radius
    <3> DEFINE outer == IF \/ b.md_rmax < b.glb_equal_threshold
                           \/ b.md_rmax > b.md_region_size
                          THEN b.md_region_size ELSE b.md_rmax
    <3>1. c = [b EXCEPT !.md_rmax = outer, !.md_bar_major_axis = TRUE, !.md_sbar = TRUE]
      BY <2>1, <2>3 DEF WithRadius
    <3>2. outer <= b.md_region_size
      BY <2>1
    <3> HIDE DEF outer, c
    <3>3. QED
      BY <1>2, <2>3, <3>1, <3>2
  <2>4. QED
    BY <2>2, <2>3
<1>4. c = Adjusted(p)
  BY DEF a, b, Adjusted
<1> HIDE DEF c
<1>5. QED
  BY <1>1, <1>2, <1>3, <1>4

-----------------------------------------------------------------------------
(***************************************************************************)
(* The parameters of a run.                                                *)
(***************************************************************************)

\* What check() has tested and switched on when the engine runs, besides what
\* CanRun names: the names of colours, and the bar.
Ready ==
  /\ Typed(para)
  /\ DOMAIN sets = 1 .. Len(sets)
  /\ para.glb_switch_on /\ para.md_switch_on =>
       /\ para.md_image => \A k \in DOMAIN para.md_colors : para.md_colors[k] \in Colors
       /\ para.md_align_bar \/ para.md_bar_radius =>
            para.md_bar_major_axis /\ para.md_sbar

\* The options that the indices of the calculator are right for, and that no
\* test looks at: axes of equal length where images are taken, no colour twice.
Sound(p) ==
  /\ p.md_image => p.md_axis_ratio = 2
  /\ \A k, l \in DOMAIN p.md_colors : p.md_colors[k] = p.md_colors[l] => k = l

SoundInis == \A file \in Inis : Sound(Updated(Table(file)))

\* The parameters on their way from the file to the engine.
Settings ==
  /\ ini \in Inis
  /\ verdict \in {"reading", "read", "accepted", "refused"}
  /\ verdict = "read" =>
       /\ Typed(para)
       /\ sets = TargetSets(para) /\ DOMAIN sets = 1 .. Len(sets)
  /\ verdict = "accepted" => Ready /\ AcceptedRunsUnlessUntested
  /\ verdict \in {"read", "accepted"} /\ SoundInis => Sound(para)

LEMMA ReadSettings ==
  ASSUME Settings, Read
  PROVE  Settings'
<1> DEFINE p == Updated(Table(ini))
<1>1. ini' = ini /\ ini \in Inis /\ verdict' \in {"read", "refused"}
  BY DEF Settings, Read
<1>2. CASE verdict' = "refused"
  BY <1>1, <1>2 DEF Settings
<1>3. CASE verdict' = "read"
  <2>1. para' = p /\ sets' = TargetSets(p)
    BY <1>3 DEF Read
  <2>2. Typed(p) /\ (SoundInis => Sound(p))
    BY <1>1, ValuesAssumption DEF SoundInis
  <2> HIDE DEF p
  <2>3. DOMAIN TargetSets(p) = 1 .. Len(TargetSets(p))
    <3>1. CASE p.md_multiple
      BY <2>2, <3>1 DEF TargetSets, Typed
    <3>2. CASE ~p.md_multiple
      <4> DEFINE types == p.md_particle_types
      <4>1. TargetSets(p) = <<types>>
        BY <3>2 DEF TargetSets
      <4> HIDE DEF types
      <4>2. DOMAIN <<types>> = 1 .. Len(<<types>>)
        OBVIOUS
      <4>3. QED
        BY <4>1, <4>2
    <3>3. QED
      BY <3>1, <3>2
  <2>4. QED
    BY <1>1, <1>3, <2>1, <2>2, <2>3 DEF Settings, SoundInis
<1>4. QED
  BY <1>1, <1>2, <1>3

\* The tests hold of the parameters as they were; what is changed in between
\* keeps them true.
LEMMA CheckSettings ==
  ASSUME Settings, Check
  PROVE  Settings'
<1>1. /\ ini' = ini /\ sets' = sets /\ ini \in Inis
      /\ verdict' \in {"accepted", "refused"}
      /\ Typed(para) /\ sets = TargetSets(para) /\ DOMAIN sets = 1 .. Len(sets)
      /\ SoundInis => Sound(para)
  BY DEF Settings, Check
<1>2. CASE verdict' = "refused"
  BY <1>1, <1>2 DEF Settings
<1>3. CASE verdict' = "accepted" /\ ~para.glb_switch_on
  <2>1. para' = para
    BY <1>3 DEF Check
  <2>2. QED
    BY <1>1, <1>3, <2>1 DEF Settings, Ready, AcceptedRunsUnlessUntested, SoundInis
<1>4. CASE verdict' = "accepted" /\ para.glb_switch_on
  <2> DEFINE p == Adjusted(para)
  <2>1. para' = p
    BY <1>4 DEF Check
  <2>2. /\ ~GlobalWrong(para) /\ ~PreWrong(para) /\ ~ModelWrong(para, sets)
        /\ ~OthersWrong(para)
    BY <1>4 DEF Check, Accepts
  <2>3. /\ Typed(p)
        /\ \A m \in (Flags \cup Numbers \cup Others)
                      \ {"md_rmax", "md_sbar", "md_bar_major_axis", "pre_recenter_method"} :
             p[m] = para[m]
    BY <1>1, AdjustedIsTyped
  <2>4. para.md_switch_on =>
           /\ p.md_align_bar \/ p.md_bar_radius => p.md_bar_major_axis /\ p.md_sbar
           /\ p.md_bar_radius => p.md_rmax <= p.md_region_size
    <3>1. p.md_align_bar = para.md_align_bar /\ p.md_bar_radius = para.md_bar_radius
      BY <2>3 DEF Flags
    <3>2. QED
      BY <1>1, <3>1, AdjustedHasTheBar
  <2>5. para.pre_recenter =>
           p.pre_recenter_method
             = IF para.pre_recenter_method = "potential" THEN "com"
               ELSE para.pre_recenter_method
    BY <1>1, AdjustedMethod
  <2>6. p = Adjusted(para)
    OBVIOUS
  <2> HIDE DEF p
  <2>7. SoundInis => Sound(p)
    BY <1>1, <2>3 DEF Sound, Flags, Numbers, Others
  <2>8. p.md_switch_on =>
          /\ p.md_align_bar \/ p.md_bar_radius => p.md_bar_major_axis /\ p.md_sbar
          /\ p.md_bar_radius => p.md_rmax <= p.md_region_size
          /\ p.md_bar_radius => p.md_rmin < p.md_rmax /\ 0 <= p.md_rmin /\ p.md_rbins > 0
    <3>1. /\ p.md_switch_on = para.md_switch_on /\ p.md_bar_radius = para.md_bar_radius
          /\ p.md_rmin = para.md_rmin /\ p.md_rbins = para.md_rbins
          /\ {p.md_rmin, p.md_rmax, p.md_rbins} \subseteq Int
      BY <2>3 DEF Typed, Flags, Numbers
    <3>2. para.md_switch_on /\ para.md_bar_radius =>
            ~(para.md_rmin < 0) /\ ~(p.md_rmax <= para.md_rmin) /\ ~(para.md_rbins <= 0)
      BY <2>2, <2>6 DEF ModelWrong, RadiusWrong
    <3>3. QED
      BY <2>4, <3>1, <3>2
  <2>9. p.pre_recenter =>
           p.pre_recenter_method \in {"com", "density"} /\ p.pre_region_size > 0
    <3>1. /\ p.pre_recenter = para.pre_recenter
          /\ p.pre_region_size = para.pre_region_size /\ p.pre_region_size \in Int
      BY <2>3 DEF Typed, Flags, Numbers
    <3>2. para.pre_recenter => /\ para.pre_recenter_method \in {"com", "density", "potential"}
                               /\ ~(para.pre_region_size <= 0)
      BY <2>2 DEF PreWrong
    <3>3. QED
      BY <2>5, <3>1, <3>2
  <2>10. p.md_switch_on =>
          /\ p.md_period > 0 /\ p.md_region_size > 0
          /\ sets # <<>>
          /\ \A k \in DOMAIN sets : sets[k] \subseteq p.md_particle_types
          /\ p.md_image => /\ p.md_image_bins > 0 /\ p.md_colors # <<>>
                           /\ \A k \in DOMAIN p.md_colors : p.md_colors[k] \in Colors
          /\ p.md_align_bar => p.pre_recenter
    <3>1. /\ \A m \in {"md_switch_on", "md_period", "md_particle_types", "md_image",
                       "md_image_bins", "md_colors", "md_align_bar", "pre_recenter",
                       "md_region_size"} : p[m] = para[m]
          /\ {p.md_period, p.md_image_bins, p.md_region_size} \subseteq Int
      BY <2>3 DEF Typed, Flags, Numbers, Others
    <3>2. para.md_switch_on =>
            /\ ~(para.md_period <= 0) /\ ~(para.md_region_size <= 0)
            /\ \A k \in DOMAIN sets : sets[k] \subseteq para.md_particle_types
            /\ para.md_image =>
                 /\ ~(para.md_image_bins <= 0) /\ para.md_colors # <<>>
                 /\ \A k \in DOMAIN para.md_colors : para.md_colors[k] \in Colors
            /\ para.md_align_bar => para.pre_recenter
      BY <2>2 DEF ModelWrong, ImageWrong
    <3>3. para.md_switch_on => sets # <<>>
      BY <1>1, <2>2 DEF ModelWrong, TargetSets
    <3>4. QED
      BY <3>1, <3>2, <3>3
  <2>11. /\ p.glb_max_iter > 0
         /\ p.ptc_switch_on => p.ptc_period > 0
         /\ p.orb_switch_on => p.orb_period > 0
         /\ p.grp_switch_on => p.grp_period > 0
    <3>1. /\ \A m \in {"glb_max_iter", "ptc_switch_on", "ptc_period", "orb_switch_on",
                       "orb_period", "grp_switch_on", "grp_period"} : p[m] = para[m]
          /\ {p.glb_max_iter, p.ptc_period, p.orb_period, p.grp_period} \subseteq Int
      BY <2>3 DEF Typed, Flags, Numbers
    <3>2. /\ ~(para.glb_max_iter <= 0)
          /\ para.ptc_switch_on => ~(para.ptc_period <= 0)
          /\ para.orb_switch_on => ~(para.orb_period <= 0)
          /\ para.grp_switch_on => ~(para.grp_period <= 0)
      BY <2>2 DEF GlobalWrong, OthersWrong
    <3>3. QED
      BY <3>1, <3>2
  <2>12. /\ HasPixels(p) \/ UntestedBins(p, p.pre_axis_ratio)
         /\ HasCells(p) \/ UntestedBins(p, p.md_axis_ratio)
    <3>1. p.md_image_bins \in Int /\ p.pre_axis_ratio \in Int /\ p.md_axis_ratio \in Int
      BY <2>3 DEF Typed, Numbers
    <3>2. \A n \in Int, m \in Int : Along(n, m) \in Int
      BY DEF Along
    <3>3. p.md_switch_on /\ p.md_image => p.md_image_bins > 0
      BY <2>10
    <3>4. ASSUME NEW ratio, Along(p.md_image_bins, ratio) \in Int,
                 ~UntestedBins(p, ratio)
          PROVE  p.md_image_bins > 0 /\ Along(p.md_image_bins, ratio) > 0
      BY <3>1, <3>3, <3>4 DEF UntestedBins
    <3>5. QED
      BY <3>1, <3>2, <3>4 DEF HasPixels, HasCells
  <2>13. HasOrders(p) \/ UntestedOrders(p)
    <3>1. /\ p.md_an = para.md_an /\ p.md_an \in Seq(Int)
          /\ p.md_switch_on = para.md_switch_on /\ p.md_image = para.md_image
      BY <2>3 DEF Typed, Flags, Others
    <3>2. para.md_switch_on /\ para.md_image =>
            \A k \in DOMAIN para.md_an : ~(para.md_an[k] <= 0)
      BY <2>2 DEF ModelWrong, ImageWrong
    <3>3. ASSUME NEW k \in DOMAIN p.md_an, p.md_switch_on, p.md_an[k] \notin 0 .. 6
          PROVE  UntestedOrders(p)
      <4>1. p.md_an[k] \in Int
        BY <3>1
      <4>2. p.md_an[k] > 6 \/ p.md_an[k] < 0
        BY <3>3, <4>1
      <4>3. p.md_an[k] < 0 => ~p.md_image
        BY <3>1, <3>2, <3>3, <4>1
      <4>4. QED
        BY <4>2, <4>3 DEF UntestedOrders
    <3>4. QED
      BY <3>3 DEF HasOrders
  <2>14. Ready' /\ AcceptedRunsUnlessUntested'
    <3>1. Ready'
      BY <1>1, <2>1, <2>3, <2>8, <2>10 DEF Ready
    <3>2. HasTheTested(p, sets)
      BY <2>8, <2>9, <2>10, <2>11 DEF HasTheTested
    <3>3. AcceptedRunsUnlessUntested'
      BY <1>1, <2>1, <2>12, <2>13, <3>2 DEF AcceptedRunsUnlessUntested
    <3>4. QED
      BY <3>1, <3>3
  <2>15. QED
    BY <1>1, <1>4, <2>1, <2>7, <2>14 DEF Settings, SoundInis
<1>5. QED
  BY <1>1, <1>2, <1>3, <1>4 DEF Settings

\* The engine leaves the parameters alone.
LEMMA SettingsStep ==
  ASSUME Settings, [Next]_vars
  PROVE  Settings'
<1>1. CASE Parse
  BY <1>1, ReadSettings DEF Parse
<1>2. CASE Verify
  BY <1>2, CheckSettings DEF Verify
<1>3. CASE UNCHANGED <<ini, para, sets, verdict>>
  BY <1>3 DEF Settings, Ready, AcceptedRunsUnlessUntested, SoundInis
<1>4. QED
  BY <1>1, <1>2, <1>3 DEF Next, Setup, Begin, Analyse, Save, Destroy, Ended, vars

LEMMA SettingsHold == Spec => []Settings
<1>1. Init => Settings
  BY DEF Init, ParaInit, Settings
<1>2. QED
  BY <1>1, SettingsStep, PTL DEF Spec

\* What check() accepts lacks nothing but what check() never looks at, the two
\* of which are named: of the parameters as it leaves them, whatever is in the
\* ini file.  CanRun, from which InsideTheBuffers follows, then fails for no
\* other reason.
THEOREM AcceptedRuns == Spec => []AcceptedRunsUnlessUntested
<1>1. Settings => AcceptedRunsUnlessUntested
  BY DEF Settings, AcceptedRunsUnlessUntested
<1>2. QED
  BY <1>1, SettingsHold, PTL

-----------------------------------------------------------------------------
(***************************************************************************)
(* The table of an ini file.                                               *)
(***************************************************************************)

\* What the lines before the first leave.
Start == [section |-> "", table |-> <<>>]

\* it[s] is what the lines of a set leave, read in their order.
Reads(it, file, n) ==
  it = [s \in SUBSET (1 .. n) |->
          IF s = {} THEN Start ELSE Inserted(it[s \ {Max(s)}], file[Max(s)])]

LEMMA ReadsExist ==
  ASSUME NEW file, NEW n \in Nat
  PROVE  \E it : Reads(it, file, n)
<1> DEFINE T == {m \in Nat : \E it : Reads(it, file, m)}
<1>1. 0 \in T
  <2> DEFINE it == [s \in SUBSET (1 .. 0) |-> Start]
  <2>1. \A s \in SUBSET (1 .. 0) : s = {}
    OBVIOUS
  <2>2. it = [s \in SUBSET (1 .. 0) |->
                IF s = {} THEN Start ELSE Inserted(it[s \ {Max(s)}], file[Max(s)])]
    BY <2>1
  <2>3. QED
    BY <2>2 DEF Reads
<1>2. ASSUME NEW m \in Nat, m \in T
      PROVE  m + 1 \in T
  <2>1. PICK it : Reads(it, file, m)
    BY <1>2
  <2> DEFINE jt == [s \in SUBSET (1 .. m + 1) |->
                      IF m + 1 \in s THEN Inserted(it[s \ {m + 1}], file[m + 1]) ELSE it[s]]
  <2>2. ASSUME NEW s \in SUBSET (1 .. m + 1)
        PROVE  jt[s] = IF s = {} THEN Start
                       ELSE Inserted(jt[s \ {Max(s)}], file[Max(s)])
    <3>1. CASE m + 1 \in s
      <4>1. Max(s) = m + 1
        <5>1. m + 1 \in Nat /\ \A k \in s : k <= m + 1
          OBVIOUS
        <5>2. QED
          BY <3>1, <5>1, LastOf
      <4>2. jt[s \ {m + 1}] = it[s \ {m + 1}] /\ jt[s] = Inserted(it[s \ {m + 1}], file[m + 1])
        BY <3>1
      <4> HIDE DEF jt
      <4>3. QED
        BY <3>1, <4>1, <4>2
    <3>2. CASE m + 1 \notin s
      <4>1. s \in SUBSET (1 .. m) /\ s \ {Max(s)} \in SUBSET (1 .. m + 1)
        <5>1. \A k \in s : k \in 1 .. m + 1 /\ k # m + 1
          BY <3>2
        <5>2. \A k \in s : k \in 1 .. m
          BY <5>1
        <5> HIDE DEF jt
        <5>3. QED
          BY <5>2
      <4>2. jt[s] = it[s] /\ jt[s \ {Max(s)}] = it[s \ {Max(s)}]
        BY <3>2, <4>1
      <4> HIDE DEF jt
      <4>3. it[s] = IF s = {} THEN Start
                    ELSE Inserted(it[s \ {Max(s)}], file[Max(s)])
        BY <2>1, <4>1, Zenon DEF Reads
      <4>4. QED
        BY <4>2, <4>3, Zenon
    <3>3. QED
      BY <3>1, <3>2
  <2>3. jt = [s \in SUBSET (1 .. m + 1) |-> jt[s]]
    OBVIOUS
  <2> HIDE DEF jt
  <2>4. Reads(jt, file, m + 1)
    BY <2>2, <2>3 DEF Reads
  <2>5. QED
    BY <2>4
<1>3. Nat \subseteq T
  <2> HIDE DEF T
  <2>1. QED
    BY <1>1, <1>2, Peano
<1>4. QED
  BY <1>3

\* Table() is what all lines leave.
LEMMA TableReads ==
  ASSUME NEW file, NEW n \in Nat, DOMAIN file = 1 .. n
  PROVE  \E it : Reads(it, file, n) /\ Table(file) = it[1 .. n].table
<1> DEFINE it == CHOOSE g : g = [s \in SUBSET DOMAIN file |->
                     IF s = {} THEN [section |-> "", table |-> <<>>]
                     ELSE Inserted(g[s \ {Max(s)}], file[Max(s)])]
<1>1. it = [s \in SUBSET DOMAIN file |->
              IF s = {} THEN [section |-> "", table |-> <<>>]
              ELSE Inserted(it[s \ {Max(s)}], file[Max(s)])]
  <2>1. \E g : g = [s \in SUBSET DOMAIN file |->
                     IF s = {} THEN [section |-> "", table |-> <<>>]
                     ELSE Inserted(g[s \ {Max(s)}], file[Max(s)])]
    <3>1. \E g : Reads(g, file, n)
      BY ReadsExist
    <3>2. QED
      BY <3>1 DEF Reads, Start
  <2>2. QED
    BY <2>1, Zenon
<1>2. Table(file) = it[DOMAIN file].table
  BY DEF Table, FoldLeft, MapThenFoldSet
<1> HIDE DEF it
<1>3. Reads(it, file, n)
  BY <1>1 DEF Reads, Start
<1>4. QED
  BY <1>2, <1>3

\* ... and one line after the other is how they come about.
LEMMA ReadsByLine ==
  ASSUME NEW file, NEW n \in Nat, NEW it, Reads(it, file, n)
  PROVE  /\ it[1 .. 0] = Start
         /\ \A k \in 1 .. n : it[1 .. k] = Inserted(it[1 .. (k - 1)], file[k])
<1>1. \A s \in SUBSET (1 .. n) :
        it[s] = IF s = {} THEN Start ELSE Inserted(it[s \ {Max(s)}], file[Max(s)])
  BY Zenon DEF Reads
<1>2. it[1 .. 0] = Start
  <2>1. 1 .. 0 = {} /\ 1 .. 0 \in SUBSET (1 .. n)
    OBVIOUS
  <2>2. QED
    BY <1>1, <2>1
<1>3. ASSUME NEW k \in 1 .. n
      PROVE  it[1 .. k] = Inserted(it[1 .. (k - 1)], file[k])
  <2>1. 1 .. k \in SUBSET (1 .. n) /\ 1 .. k # {} /\ (1 .. k) \ {k} = 1 .. (k - 1)
    OBVIOUS
  <2>2. Max(1 .. k) = k
    <3>1. k \in 1 .. k /\ \A l \in 1 .. k : l <= k
      OBVIOUS
    <3>2. QED
      BY <2>1, <3>1, LastOf
  <2>3. QED
    BY <1>1, <2>1, <2>2
<1>4. QED
  BY <1>2, <1>3

\* The lines up to k that give a parameter its value.
Given(file, sk, k) ==
  {n \in 1 .. k : /\ file[n].kind = "entry"
                  /\ file[n].key = sk[2]
                  /\ Under(file, n) = sk[1]}

\* The key of the table under which an entry is stored tells section and key.
Unambiguous(file) ==
  \A n \in DOMAIN file : file[n].kind = "entry" =>
    \A sk \in Keys :
      Hash(Under(file, n), file[n].key) = Hash(sk[1], sk[2])
        => Under(file, n) = sk[1] /\ file[n].key = sk[2]

\* The table has of a parameter what the first k lines give.
Recorded(file, table, sk, k) ==
  /\ Given(file, sk, k) = {} => Hash(sk[1], sk[2]) \notin DOMAIN table
  /\ Given(file, sk, k) # {} =>
       /\ Hash(sk[1], sk[2]) \in DOMAIN table
       /\ table[Hash(sk[1], sk[2])] = file[Max(Given(file, sk, k))].value

LineInv(file, state, k) ==
  /\ state = [section |-> Under(file, k), table |-> state.table]
  /\ \A sk \in Keys : Recorded(file, state.table, sk, k)

LEMMA StartLines == ASSUME NEW file PROVE LineInv(file, Start, 0)
<1>1. 1 .. 0 = {}
  OBVIOUS
<1>2. Under(file, 0) = ""
  BY <1>1 DEF Under
<1>3. \A sk \in Keys : Given(file, sk, 0) = {}
  BY <1>1 DEF Given
<1>4. Start.table = <<>> /\ Start = [section |-> "", table |-> Start.table] /\ DOMAIN <<>> = {}
  BY DEF Start
<1>5. QED
  BY <1>2, <1>3, <1>4 DEF LineInv, Recorded

\* A line that is no header stands under that of the line before.
LEMMA UnderBefore ==
  ASSUME NEW file, NEW k \in Nat \ {0}
  PROVE  /\ file[k].kind = "section" => Under(file, k) = file[k].name
         /\ file[k].kind # "section" => Under(file, k) = Under(file, k - 1)
<1> DEFINE headers(n) == {l \in 1 .. n : file[l].kind = "section"}
<1>1. CASE file[k].kind = "section"
  <2>1. /\ headers(k) \in SUBSET (1 .. k) /\ k \in headers(k)
        /\ \A l \in headers(k) : l <= k
    BY <1>1
  <2>2. Max(headers(k)) = k
    <3> HIDE DEF headers
    <3>1. QED
      BY <2>1, LastOf
  <2>3. headers(k) # {}
    BY <2>1
  <2>4. Under(file, k) = IF headers(k) = {} THEN "" ELSE file[Max(headers(k))].name
    BY DEF Under
  <2> HIDE DEF headers
  <2>5. QED
    BY <1>1, <2>2, <2>3, <2>4
<1>2. CASE file[k].kind # "section"
  <2> DEFINE name(S) == IF S = {} THEN "" ELSE file[Max(S)].name
  <2>1. headers(k) = headers(k - 1)
    BY <1>2
  <2>2. Under(file, k) = name(headers(k)) /\ Under(file, k - 1) = name(headers(k - 1))
    BY DEF Under
  <2> HIDE DEF headers, name
  <2>3. Under(file, k) = Under(file, k - 1)
    BY <2>1, <2>2
  <2>4. QED
    BY <1>2, <2>3
<1>3. QED
  BY <1>1, <1>2

LEMMA NextLine ==
  ASSUME NEW file, NEW n \in Nat, DOMAIN file = 1 .. n, Unambiguous(file),
         NEW k \in 1 .. n, NEW state, LineInv(file, state, k - 1)
  PROVE  LineInv(file, Inserted(state, file[k]), k)
<1> DEFINE next == Inserted(state, file[k])
<1>1. state = [section |-> Under(file, k - 1), table |-> state.table]
  BY DEF LineInv
<1>2. 1 .. k = (1 .. (k - 1)) \cup {k} /\ k \notin 1 .. (k - 1)
  OBVIOUS
<1>3. CASE file[k].kind # "entry"
  <2>1. next = [section |-> Under(file, k), table |-> state.table]
    <3>1. CASE file[k].kind = "section"
      <4>1. next = [state EXCEPT !.section = file[k].name]
        BY <3>1 DEF Inserted
      <4>2. Under(file, k) = file[k].name
        BY <3>1, UnderBefore
      <4>3. QED
        BY <1>1, <4>1, <4>2
    <3>2. CASE file[k].kind # "section"
      <4>1. next = state
        BY <1>3, <3>2 DEF Inserted
      <4>2. Under(file, k) = Under(file, k - 1)
        BY <3>2, UnderBefore
      <4>3. QED
        BY <1>1, <4>1, <4>2
    <3>3. QED
      BY <3>1, <3>2
  <2>2. \A sk \in Keys : Given(file, sk, k) = Given(file, sk, k - 1)
    BY <1>2, <1>3 DEF Given
  <2> HIDE DEF next
  <2>3. next.table = state.table
    BY <2>1
  <2>4. \A sk \in Keys : Recorded(file, next.table, sk, k)
    BY <2>2, <2>3 DEF LineInv, Recorded
  <2>5. QED
    BY <2>1, <2>3, <2>4 DEF LineInv, next
<1>4. CASE file[k].kind = "entry"
  <2> DEFINE h == Hash(Under(file, k), file[k].key)
             t == With(state.table, h, file[k].value)
  <2>1. Under(file, k) = Under(file, k - 1)
    BY <1>4, UnderBefore
  <2>2. next = [state EXCEPT !.table =
                               With(@, Hash(state.section, file[k].key), file[k].value)]
    BY <1>1, <1>4 DEF Inserted
  <2>3. state.section = Under(file, k)
    BY <1>1, <2>1
  <2>4. next = [state EXCEPT !.table = t]
    BY <2>2, <2>3
  <2>5. /\ DOMAIN t = {h} \cup DOMAIN state.table
        /\ t[h] = file[k].value
        /\ \A g \in DOMAIN state.table : g # h => t[g] = state.table[g]
    BY DEF With
  <2> HIDE DEF h, t, next
  <2>6. next = [section |-> Under(file, k), table |-> t] /\ next.table = t
    BY <1>1, <2>1, <2>4
  <2>7. ASSUME NEW sk \in Keys
        PROVE  Recorded(file, t, sk, k)
    <3>1. Recorded(file, state.table, sk, k - 1)
      BY DEF LineInv
    <3>2. CASE h = Hash(sk[1], sk[2])
      <4>1. Under(file, k) = sk[1] /\ file[k].key = sk[2]
        BY <1>4, <2>7, <3>2 DEF Unambiguous, h
      <4>2. k \in Given(file, sk, k)
        BY <1>2, <1>4, <4>1 DEF Given
      <4>3. Given(file, sk, k) \in SUBSET (1 .. k) /\ \A l \in Given(file, sk, k) : l <= k
        BY DEF Given
      <4>4. Max(Given(file, sk, k)) = k
        <5>1. k \in Nat
          OBVIOUS
        <5>2. QED
          BY <4>2, <4>3, <5>1, LastOf
      <4>5. QED
        BY <2>5, <3>2, <4>2, <4>4 DEF Recorded
    <3>3. CASE h # Hash(sk[1], sk[2])
      <4>1. ~(Under(file, k) = sk[1] /\ file[k].key = sk[2])
        BY <3>3 DEF h
      <4>2. Given(file, sk, k) = Given(file, sk, k - 1)
        BY <1>2, <4>1 DEF Given
      <4>3. QED
        BY <2>5, <3>1, <3>3, <4>2 DEF Recorded
    <3>4. QED
      BY <3>2, <3>3
  <2>8. QED
    BY <2>6, <2>7 DEF LineInv, next
<1>5. QED
  BY <1>3, <1>4

\* The table has of every parameter what the file gives.
LEMMA TableRecords ==
  ASSUME NEW file, NEW n \in Nat, DOMAIN file = 1 .. n, Unambiguous(file)
  PROVE  \A sk \in Keys : Recorded(file, Table(file), sk, n)
<1>1. PICK it : Reads(it, file, n) /\ Table(file) = it[1 .. n].table
  BY TableReads
<1>2. /\ it[1 .. 0] = Start
      /\ \A k \in 1 .. n : it[1 .. k] = Inserted(it[1 .. (k - 1)], file[k])
  BY <1>1, ReadsByLine
<1> DEFINE T == {k \in Nat : k <= n => LineInv(file, it[1 .. k], k)}
<1>3. 0 \in T
  BY <1>2, StartLines
<1>4. ASSUME NEW k \in Nat, k \in T
      PROVE  k + 1 \in T
  <2>1. SUFFICES ASSUME k + 1 <= n
                 PROVE  LineInv(file, it[1 .. (k + 1)], k + 1)
    OBVIOUS
  <2>2. k + 1 \in 1 .. n /\ (k + 1) - 1 = k
    BY <2>1
  <2>3. LineInv(file, it[1 .. k], k)
    BY <1>4, <2>1
  <2>4. LineInv(file, Inserted(it[1 .. k], file[k + 1]), k + 1)
    BY <2>2, <2>3, NextLine
  <2>5. it[1 .. (k + 1)] = Inserted(it[1 .. k], file[k + 1])
    BY <1>2, <2>2
  <2>6. QED
    BY <2>4, <2>5, Zenon
<1>5. Nat \subseteq T
  <2> HIDE DEF T
  <2>1. QED
    BY <1>3, <1>4, Peano
<1>6. LineInv(file, it[1 .. n], n)
  BY <1>5
<1>7. QED
  BY <1>1, <1>6 DEF LineInv

\* Every parameter has the value that is meant for it.
LEMMA UpdatedAsWritten ==
  ASSUME NEW file, NEW n \in Nat, DOMAIN file = 1 .. n, Unambiguous(file), NEW sk \in Keys
  PROVE  Updated(Table(file))[Member(sk[1], sk[2])]
           = IF Given(file, sk, n) = {} THEN Default[sk[1]][sk[2]]
             ELSE file[Max(Given(file, sk, n))].value
<1> DEFINE m == Member(sk[1], sk[2])
<1>1. m \in DOMAIN KeyOf /\ KeyOf[m] = sk
  <2>1. DOMAIN KeyOf = {Member(s[1], s[2]) : s \in Keys}
    BY DEF KeyOf
  <2>2. m \in DOMAIN KeyOf
    BY <2>1
  <2>3. KeyOf[m] = CHOOSE s \in Keys : Member(s[1], s[2]) = m
    BY <2>1, <2>2 DEF KeyOf
  <2>4. \A s \in Keys : Member(s[1], s[2]) = m <=> s = sk
    BY NamesAssumption
  <2> HIDE DEF m
  <2>5. QED
    BY <2>2, <2>3, <2>4
<1> HIDE DEF m
<1>2. Recorded(file, Table(file), sk, n)
  BY TableRecords
<1>3. Updated(Table(file))[m]
        = IF Has(Table(file), sk[1], sk[2]) THEN Table(file)[Hash(sk[1], sk[2])]
          ELSE Default[sk[1]][sk[2]]
  BY <1>1 DEF Updated
<1>4. QED
  BY <1>2, <1>3 DEF Recorded, Has, m

\* Keys that are pasted together from section and key (ini_parser.cpp 75-85) are
\* those of one section and key only: no entry of a file is taken for another,
\* as "radius" under [Model_bar] would be for "bar_radius" under [Model].
UnambiguousInis == \A file \in Inis : Unambiguous(file)

\* What has been read is in the members of para.
Filled == ini \in Inis /\ (verdict = "read" => para = Updated(Table(ini)))

LEMMA FilledHolds == Spec => []Filled
<1>1. Init => Filled
  BY DEF Init, ParaInit, Filled
<1>2. ASSUME Filled, [Next]_vars
      PROVE  Filled'
  <2>1. CASE Parse
    BY <1>2, <2>1 DEF Parse, Read, Filled
  <2>2. CASE Verify
    BY <1>2, <2>2 DEF Verify, Check, Filled
  <2>3. CASE UNCHANGED <<ini, para, sets, verdict>>
    BY <1>2, <2>3 DEF Filled
  <2>4. QED
    BY <1>2, <2>1, <2>2, <2>3 DEF Next, Setup, Begin, Analyse, Save, Destroy, Ended, vars
<1>3. QED
  BY <1>1, <1>2, PTL DEF Spec

\* Every parameter has the value of the last line that is meant for it, or its
\* default: for files of any length with sections in any order, opened any
\* number of times.  By induction over the lines.
THEOREM SettingsStand == ASSUME UnambiguousInis PROVE Spec => []SettingsAsWritten
<1>1. ASSUME Filled
      PROVE  SettingsAsWritten
  <2>1. SUFFICES ASSUME verdict = "read", NEW sk \in Keys
                 PROVE  para[Member(sk[1], sk[2])]
                          = IF Given(ini, sk, Len(ini)) = {} THEN Default[sk[1]][sk[2]]
                            ELSE ini[Max(Given(ini, sk, Len(ini)))].value
    <3>1. DOMAIN ini = 1 .. Len(ini)
      BY <1>1, FilesAssumption DEF Filled
    <3>2. \A sk \in Keys :
            Given(ini, sk, Len(ini)) = {n \in DOMAIN ini : /\ ini[n].kind = "entry"
                                                          /\ ini[n].key = sk[2]
                                                          /\ Under(ini, n) = sk[1]}
      BY <3>1 DEF Given
    <3>3. QED
      BY <3>2 DEF SettingsAsWritten
  <2>2. para = Updated(Table(ini))
    BY <1>1, <2>1 DEF Filled
  <2>3. DOMAIN ini = 1 .. Len(ini) /\ Len(ini) \in Nat /\ Unambiguous(ini)
    BY <1>1, FilesAssumption DEF Filled, UnambiguousInis
  <2>4. QED
    BY <2>2, <2>3, UpdatedAsWritten
<1>2. QED
  BY <1>1, FilledHolds, PTL

-----------------------------------------------------------------------------
(***************************************************************************)
(* The groups of buffers.                                                  *)
(***************************************************************************)

\* The engine runs, with options that its indices are right for.
Running == Ready /\ CanRun(para, sets) /\ Sound(para) /\ verdict = "accepted"
           /\ para.glb_switch_on /\ para.md_switch_on

\* The k-th member of three sequences, one behind the other.
LEMMA ThreeParts ==
  ASSUME NEW S, NEW a \in Seq(S), NEW b \in Seq(S), NEW c \in Seq(S)
  PROVE  /\ a \o b \o c \in Seq(S)
         /\ \A k \in DOMAIN (a \o b \o c) :
              \/ k \in DOMAIN a /\ (a \o b \o c)[k] = a[k]
              \/ /\ k - Len(a) \in DOMAIN b
                 /\ (a \o b \o c)[k] = b[k - Len(a)]
              \/ /\ k - Len(a) - Len(b) \in DOMAIN c
                 /\ (a \o b \o c)[k] = c[k - Len(a) - Len(b)]
OBVIOUS

\* A group that is allocated when an option is on.
LEMMA Optional ==
  ASSUME NEW S, NEW x \in S, NEW option \in BOOLEAN
  PROVE  /\ When(option, <<x>>) \in Seq(S)
         /\ \A k \in DOMAIN When(option, <<x>>) : k = 1 /\ When(option, <<x>>)[k] = x
<1>1. CASE option
  BY <1>1 DEF When
<1>2. CASE ~option
  BY <1>2 DEF When
<1>3. QED
  BY <1>1, <1>2

\* The buffers of the colours, of the dispersion and of the inertia tensor are
\* of different layers.
LEMMA GroupsApart ==
  ASSUME Running
  PROVE  /\ Groups \in Seq(SUBSET Slot)
         /\ FreedSlots = Groups
         /\ \A k, l \in DOMAIN Groups : Groups[k] \cap Groups[l] # {} => k = l
         /\ \A k \in DOMAIN Groups : \A s \in Groups[k] :
              \/ s[1] \in 0 .. 7 /\ para.md_image
              \/ s[1] = 8 /\ para.md_dispersion_tensor
              \/ s[1] = 9
<1> DEFINE images == When(para.md_image,
                          [k \in DOMAIN para.md_colors |-> ColorSlots(para.md_colors[k])])
           dispersion == When(para.md_dispersion_tensor, <<TensorSlots(8)>>)
           inertia == When(para.md_inertia_tensor, <<TensorSlots(9)>>)
<1>1. /\ para.md_colors \in Seq(STRING)
      /\ para.md_image \in BOOLEAN /\ para.md_dispersion_tensor \in BOOLEAN
      /\ para.md_inertia_tensor \in BOOLEAN
      /\ para.md_image => \A k \in DOMAIN para.md_colors : para.md_colors[k] \in Colors
      /\ \A k, l \in DOMAIN para.md_colors : para.md_colors[k] = para.md_colors[l] => k = l
  BY DEF Running, Ready, Sound, Typed, Flags
<1>2. /\ images \in Seq(SUBSET Slot)
      /\ \A k \in DOMAIN images : /\ para.md_image /\ k \in DOMAIN para.md_colors
                                  /\ images[k] = ColorSlots(para.md_colors[k])
  <2>1. ASSUME NEW color
        PROVE  ColorSlots(color) \subseteq Slot
    BY DEF ColorSlots, Layers, Slot
  <2>2. CASE para.md_image
    BY <1>1, <2>1, <2>2 DEF When
  <2>3. CASE ~para.md_image
    BY <2>3 DEF When
  <2>4. QED
    BY <1>1, <2>2, <2>3
<1>3. /\ dispersion \in Seq(SUBSET Slot)
      /\ \A k \in DOMAIN dispersion : /\ k = 1 /\ dispersion[k] = TensorSlots(8)
                                      /\ para.md_dispersion_tensor
      /\ inertia \in Seq(SUBSET Slot)
      /\ \A k \in DOMAIN inertia : k = 1 /\ inertia[k] = TensorSlots(9)
  <2>1. TensorSlots(8) \in SUBSET Slot /\ TensorSlots(9) \in SUBSET Slot
    BY DEF TensorSlots, Slot
  <2>2. \A k \in DOMAIN dispersion : para.md_dispersion_tensor
    BY DEF When
  <2> HIDE DEF TensorSlots, Slot
  <2>3. /\ dispersion \in Seq(SUBSET Slot)
        /\ \A k \in DOMAIN dispersion : k = 1 /\ dispersion[k] = TensorSlots(8)
        /\ inertia \in Seq(SUBSET Slot)
        /\ \A k \in DOMAIN inertia : k = 1 /\ inertia[k] = TensorSlots(9)
    BY <1>1, <2>1, Optional
  <2>4. QED
    BY <2>2, <2>3
<1>4. Groups = images \o dispersion \o inertia
  BY DEF Groups
<1>5. FreedSlots = Groups
  BY DEF FreedSlots, Groups, ColorSlots, Layers, FreedLayers
<1> HIDE DEF images, dispersion, inertia
<1>6. ASSUME NEW k \in DOMAIN Groups
      PROVE  \/ /\ k \in DOMAIN para.md_colors /\ para.md_image
                /\ Groups[k] = ColorSlots(para.md_colors[k])
             \/ /\ k = Len(images) + 1 /\ Groups[k] = TensorSlots(8)
                /\ para.md_dispersion_tensor
             \/ k = Len(images) + Len(dispersion) + 1 /\ Groups[k] = TensorSlots(9)
  <2>1. Len(images) \in Nat /\ Len(dispersion) \in Nat
    BY <1>2, <1>3
  <2>2. \/ k \in DOMAIN images /\ Groups[k] = images[k]
        \/ /\ k - Len(images) \in DOMAIN dispersion
           /\ Groups[k] = dispersion[k - Len(images)]
        \/ /\ k - Len(images) - Len(dispersion) \in DOMAIN inertia
           /\ Groups[k] = inertia[k - Len(images) - Len(dispersion)]
    BY <1>2, <1>3, <1>4, ThreeParts
  <2>3. k \in Nat
    BY <1>2, <1>3, <1>4, ThreeParts
  <2>4. QED
    <3>1. CASE k \in DOMAIN images /\ Groups[k] = images[k]
      BY <1>2, <3>1
    <3>2. CASE /\ k - Len(images) \in DOMAIN dispersion
               /\ Groups[k] = dispersion[k - Len(images)]
      <4>1. k - Len(images) = 1 /\ Groups[k] = TensorSlots(8) /\ para.md_dispersion_tensor
        BY <1>3, <3>2
      <4>2. QED
        BY <2>1, <2>3, <4>1
    <3>3. CASE /\ k - Len(images) - Len(dispersion) \in DOMAIN inertia
               /\ Groups[k] = inertia[k - Len(images) - Len(dispersion)]
      <4>1. k - Len(images) - Len(dispersion) = 1 /\ Groups[k] = TensorSlots(9)
        BY <1>3, <3>3
      <4>2. QED
        BY <2>1, <2>3, <4>1
    <3>4. QED
      BY <2>2, <3>1, <3>2, <3>3
<1>7. ASSUME NEW color, NEW s \in ColorSlots(color)
      PROVE  s[1] \in Layers(color) /\ s[1] \in 0 .. 7
  BY DEF ColorSlots, Layers
<1>8. \A n : \A s \in TensorSlots(n) : s[1] = n
  BY DEF TensorSlots
<1>9. ASSUME NEW x \in Colors, NEW y \in Colors, Layers(x) \cap Layers(y) # {}
      PROVE  x = y
  BY <1>9 DEF Layers, Colors
<1>10. ASSUME NEW k \in DOMAIN Groups, NEW l \in DOMAIN Groups,
              Groups[k] \cap Groups[l] # {}
       PROVE  k = l
  <2>1. PICK s : s \in Groups[k] /\ s \in Groups[l]
    BY <1>10
  <2>2. CASE s[1] \in 0 .. 7
    <3>1. /\ k \in DOMAIN para.md_colors /\ l \in DOMAIN para.md_colors /\ para.md_image
          /\ s \in ColorSlots(para.md_colors[k]) /\ s \in ColorSlots(para.md_colors[l])
      BY <1>6, <1>8, <2>1, <2>2
    <3>2. s[1] \in Layers(para.md_colors[k]) \cap Layers(para.md_colors[l])
      BY <1>7, <3>1
    <3>3. QED
      BY <1>1, <1>9, <3>1, <3>2
  <2>3. CASE s[1] \notin 0 .. 7
    BY <1>6, <1>7, <1>8, <2>1, <2>3
  <2>4. QED
    BY <2>2, <2>3
<1>11. \A k \in DOMAIN Groups : \A s \in Groups[k] :
         \/ s[1] \in 0 .. 7 /\ para.md_image
         \/ s[1] = 8 /\ para.md_dispersion_tensor
         \/ s[1] = 9
  BY <1>6, <1>7, <1>8
<1>12. QED
  BY <1>2, <1>3, <1>4, <1>5, <1>10, <1>11, ThreeParts

-----------------------------------------------------------------------------
(***************************************************************************)
(* The cells of a buffer.                                                  *)
(***************************************************************************)

LEMMA ProductsGrow ==
  ASSUME NEW a \in Nat, NEW b \in Nat, NEW n \in Nat, a <= b
  PROVE  a * n <= b * n /\ a * n \in Nat
<1>1. b - a \in Nat /\ (b - a) * n \in Nat /\ a * n \in Nat
  OBVIOUS
<1>2. b * n = a * n + (b - a) * n
  OBVIOUS
<1>3. QED
  BY <1>1, <1>2

\* The first w cells of the n rows of a matrix, n cells apart.
Cells(n, w) == {k * n + m : k \in 0 .. n - 1, m \in 0 .. w - 1}

\* The rows of a square matrix, one behind the other, are all of its cells.
LEMMA Square ==
  ASSUME NEW n \in Nat \ {0}
  PROVE  Cells(n, n) = 0 .. n * n - 1
<1>1. n * n \in Nat /\ (n - 1) * n = n * n - n
  OBVIOUS
<1>2. ASSUME NEW k \in 0 .. n - 1, NEW m \in 0 .. n - 1
      PROVE  k * n + m \in 0 .. n * n - 1
  <2>1. k * n \in Nat /\ k * n <= (n - 1) * n
    BY ProductsGrow
  <2> DEFINE kn == k * n
             nn == n * n
  <2>2. kn \in Nat /\ kn <= nn - n /\ nn \in Nat
    BY <1>1, <2>1
  <2> HIDE DEF kn, nn
  <2>3. kn + m \in 0 .. nn - 1
    BY <2>2
  <2>4. QED
    BY <2>3 DEF kn, nn
<1>3. ASSUME NEW c \in 0 .. n * n - 1
      PROVE  \E k \in 0 .. n - 1, m \in 0 .. n - 1 : c = k * n + m
  <2> DEFINE k == c \div n
             m == c % n
  <2>1. k \in Nat /\ m \in 0 .. n - 1 /\ c = k * n + m
    BY <1>1
  <2> HIDE DEF k, m
  <2>2. SUFFICES ASSUME k >= n PROVE FALSE
    <3>1. k \in 0 .. n - 1
      BY <2>1, <2>2
    <3>2. QED
      BY <2>1, <3>1
  <2>3. n * n <= k * n /\ k * n \in Nat
    BY <2>1, <2>2, ProductsGrow
  <2> DEFINE kn == k * n
             nn == n * n
  <2>4. nn <= kn /\ kn \in Nat /\ nn \in Nat /\ c = kn + m /\ c < nn /\ c \in Int
    BY <1>1, <2>1, <2>3
  <2> HIDE DEF kn, nn
  <2>5. QED
    BY <2>1, <2>4
<1>4. \A c \in Cells(n, n) : c \in 0 .. n * n - 1
  BY <1>2 DEF Cells
<1>5. ASSUME NEW c \in 0 .. n * n - 1
      PROVE  c \in Cells(n, n)
  <2>1. PICK k \in 0 .. n - 1, m \in 0 .. n - 1 : c = k * n + m
    BY <1>3
  <2>2. k * n + m \in Cells(n, n)
    BY DEF Cells
  <2>3. QED
    BY <2>1, <2>2, Zenon
<1>6. QED
  BY <1>4, <1>5

\* What is allocated for a slot, what is written and what is pushed are the
\* same cells, as long as all axes are equally long.
LEMMA AllCells ==
  ASSUME Running, NEW k \in DOMAIN Groups, NEW s \in Groups[k]
  PROVE  /\ Written(s) = 0 .. Size(s) - 1
         /\ PushedCells(s) = 0 .. Size(s) - 1
         /\ ~Overread(s)
<1>1. CASE s[1] \in {8, 9}
  <2>1. s[1] = 8 => para.md_dispersion_tensor
    BY GroupsApart
  <2>2. s[1] = 8 => Bins > 0 /\ Third > 0
    BY <2>1 DEF Running, CanRun, HasCells, OnCells, Bins, Third
  <2> HIDE DEF Bins, Third
  <2>3. Size(s) = 1
    BY <1>1, <2>2 DEF Size
  <2>4. QED
    BY <1>1, <2>3 DEF Written, PushedCells, Overread
<1>2. CASE s[1] \notin {8, 9}
  <2>1. para.md_image /\ s[1] \in 0 .. 7
    BY <1>2, GroupsApart
  <2>2. Bins \in Nat \ {0} /\ Third = Bins
    <3>1. Bins \in Int /\ Bins > 0 /\ para.md_axis_ratio = 2
      BY <2>1 DEF Running, Ready, Sound, Typed, Numbers, Bins, CanRun, HasTheTested
    <3> HIDE DEF Bins
    <3>2. (Bins * 2) \div 2 = Bins
      BY <3>1
    <3>3. QED
      BY <3>1, <3>2 DEF Third, Along
  <2> HIDE DEF Bins, Third
  <2>3. Size(s) = Bins * Bins
    BY <2>1, <2>2 DEF Size
  <2>4. Written(s) = 0 .. Bins * Bins - 1
    <3>1. Written(s) = Cells(Bins, Third)
      BY <1>2 DEF Written, Cells
    <3>2. QED
      BY <2>2, <3>1, Square
  <2>5. QED
    BY <1>2, <2>2, <2>3, <2>4 DEF PushedCells, Overread
<1>3. QED
  BY <1>1, <1>2

-----------------------------------------------------------------------------
(***************************************************************************)
(* The inductive invariant of the engine.                                  *)
(***************************************************************************)

\* What setup_res() leaves for the life of the calculator: every slot in use
\* points to the one buffer that was allocated for it.
Allocated ==
  /\ Running
  /\ Resized \subseteq sized
  /\ DOMAIN heap = UNION {Groups[k] \X {k} : k \in DOMAIN Groups}
  /\ \A b \in DOMAIN heap : DOMAIN heap[b] = 0 .. Size(b[1]) - 1
  /\ \A k \in DOMAIN Groups : \A s \in Groups[k] : image[s] = <<s, k>>

\* The sets that call_md_module() is through with have the values of this step.
Fresh ==
  \A k \in DOMAIN Groups : \A s \in Groups[k] :
    place = "save" \/ (place = "analyse" /\ s[3] < i) =>
      \A c \in DOMAIN heap[<<s, k>>] : heap[<<s, k>>][c] = step

\* With everything that it needs, nothing goes astray.
Works ==
  /\ place \in {"start", "idle", "analyse", "save", "gone"}
  /\ place # "start" => Allocated
  /\ place \in {"analyse", "save"} => i \in 1 .. Len(sets) /\ Fresh
  /\ stray = {} /\ stale = {}
  /\ FreedOnce

\* The parameters are accepted and stay what they are from the set-up on.
Engine ==
  /\ place = "start" => stray = {} /\ stale = {}
  /\ place # "start" => verdict = "accepted"
  /\ CanRun(para, sets) => Works

\* An engine at work leaves the parameters and the list of buffers alone.
LEMMA SameGroups ==
  ASSUME UNCHANGED <<ini, para, sets, verdict>>
  PROVE  /\ (Running <=> Running') /\ Groups' = Groups /\ Resized' = Resized
         /\ \A s : Size(s)' = Size(s)
<1>1. Running <=> Running'
  BY DEF Running, Ready
<1>2. Groups' = Groups
  BY DEF Groups, ColorSlots, TensorSlots
<1>3. Resized' = Resized
  BY DEF Resized, If, Orders
<1>4. \A s : Size(s)' = Size(s)
  BY DEF Size, Bins, Third
<1>5. QED
  BY <1>1, <1>2, <1>3, <1>4

\* A step that reallocates nothing.
LEMMA StillAllocated ==
  ASSUME Allocated, UNCHANGED <<ini, para, sets, verdict, sized, image>>,
         DOMAIN heap' = DOMAIN heap,
         \A b \in DOMAIN heap : DOMAIN heap'[b] = DOMAIN heap[b]
  PROVE  Allocated'
<1>1. /\ (Running <=> Running') /\ Groups' = Groups /\ Resized' = Resized
      /\ \A s : Size(s)' = Size(s)
  BY SameGroups
<1>2. /\ Running' /\ Resized' \subseteq sized'
      /\ DOMAIN heap' = UNION {Groups'[k] \X {k} : k \in DOMAIN Groups'}
      /\ \A k \in DOMAIN Groups' : \A s \in Groups'[k] : image'[s] = <<s, k>>
  BY <1>1 DEF Allocated
<1>3. \A b \in DOMAIN heap' : DOMAIN heap'[b] = 0 .. Size(b[1])' - 1
  BY <1>1 DEF Allocated
<1>4. QED
  BY <1>2, <1>3 DEF Allocated

\* Nothing the options left empty is looked at: check() has switched on what
\* the bar radius and the alignment need.
LEMMA TouchedIsSized ==
  ASSUME Running, NEW strong \in BOOLEAN
  PROVE  /\ Touched(strong) \subseteq Resized
         /\ \A v \in Resized : IsVector(v)
<1>1. para.md_bar_radius \/ para.md_align_bar =>
        Vector("s_bar") \in Resized /\ Vector("bar_major_axis") \in Resized
  BY DEF Running, Ready, Resized, If
<1>2. Touched(strong) \subseteq Resized
  BY <1>1 DEF Touched, If
<1>3. ASSUME NEW v \in Orders
      PROVE  IsVector(v)
  BY DEF Orders, Running, CanRun, HasOrders, An, IsVector
<1>4. \A option \in BOOLEAN, names \in SUBSET {"bar_major_axis", "bar_radius", "s_bar",
                                             "s_buckle"} :
        \A v \in If(option, names) : IsVector(v)
  BY DEF If, Vector, IsVector
<1>5. \A v \in Resized : IsVector(v)
  BY <1>3, <1>4 DEF Resized, Running, Ready, Typed, Flags
<1>6. QED
  BY <1>2, <1>5

-----------------------------------------------------------------------------
(***************************************************************************)
(* The steps of the engine.                                                *)
(***************************************************************************)

LEMMA SetupWorks ==
  ASSUME SoundInis, Settings, CanRun(para, sets), Works, Setup
  PROVE  Works'
<1>1. /\ Running /\ UNCHANGED <<ini, para, sets, verdict>>
      /\ place' = "idle" /\ stale' = stale
      /\ sized' = {v \in Resized : IsVector(v)}
      /\ stray' = stray \cup {v \in Resized : ~IsVector(v)}
      /\ heap' = [b \in UNION {Groups[k] \X {k} : k \in DOMAIN Groups} |->
                    [cell \in 0 .. Size(b[1]) - 1 |-> 0]]
  BY DEF Setup, Settings, Running
<1>2. /\ Groups \in Seq(SUBSET Slot)
      /\ \A k, l \in DOMAIN Groups : Groups[k] \cap Groups[l] # {} => k = l
  BY <1>1, GroupsApart
<1>3. \A v \in Resized : IsVector(v)
  BY <1>1, TouchedIsSized
<1>4. /\ Running' /\ Groups' = Groups /\ Resized' = Resized
      /\ \A s : Size(s)' = Size(s)
  BY <1>1, SameGroups
<1>5. ASSUME NEW k \in DOMAIN Groups, NEW s \in Groups[k]
      PROVE  image'[s] = <<s, k>>
  <2> DEFINE of == {l \in DOMAIN Groups : s \in Groups[l]}
  <2>1. s \in Slot /\ k \in Nat
    BY <1>2
  <2>2. of = {k}
    BY <1>2
  <2>3. image'[s] = IF of = {} THEN Null
                    ELSE <<s, CHOOSE l \in of : \A m \in of : m <= l>>
    BY <2>1 DEF Setup
  <2> HIDE DEF of
  <2>4. (CHOOSE l \in of : \A m \in of : m <= l) = k
    BY <2>1, <2>2
  <2>5. QED
    BY <2>2, <2>3, <2>4
<1>6. /\ DOMAIN heap' = UNION {Groups[k] \X {k} : k \in DOMAIN Groups}
      /\ \A b \in DOMAIN heap' : DOMAIN heap'[b] = 0 .. Size(b[1]) - 1
  BY <1>1
<1>7. Resized' \subseteq sized' /\ stray' = {} /\ stale' = {}
  BY <1>1, <1>3, <1>4 DEF Works
<1>8. Allocated'
  BY <1>4, <1>5, <1>6, <1>7 DEF Allocated
<1>9. QED
  BY <1>1, <1>7, <1>8 DEF Works, FreedOnce

LEMMA BeginWorks ==
  ASSUME Works, Begin
  PROVE  Works'
<1>1. /\ UNCHANGED <<ini, para, sets, verdict, sized, image, heap, stale>>
      /\ place = "idle" /\ place' = "analyse" /\ i' = 1
  BY DEF Begin
<1>2. Allocated /\ stray = {} /\ stale = {}
  BY <1>1 DEF Works
<1>10. stray' = {}
  BY <1>2 DEF Begin, Allocated, Running, CanRun
<1>3. Allocated'
  BY <1>1, <1>2, StillAllocated
<1>4. DOMAIN sets = 1 .. Len(sets) /\ sets # <<>>
  BY <1>2 DEF Allocated, Running, Ready, CanRun, HasTheTested
<1>5. Groups \in Seq(SUBSET Slot) /\ Groups' = Groups
  BY <1>1, <1>2, GroupsApart, SameGroups DEF Allocated
<1>6. ASSUME NEW k \in DOMAIN Groups, NEW s \in Groups[k]
      PROVE  ~(s[3] < 1)
  <2>1. s \in Slot
    BY <1>5
  <2>2. s[3] \in 1 .. Len(sets)
    BY <1>4, <2>1 DEF Slot
  <2>3. QED
    BY <2>2
<1>7. Fresh'
  BY <1>1, <1>5, <1>6 DEF Fresh
<1>8. 1 \in 1 .. Len(sets)
  BY <1>4
<1>9. QED
  BY <1>1, <1>2, <1>3, <1>7, <1>8, <1>10 DEF Works, FreedOnce

\* Every slot in use has its buffer, with the cells that are written and pushed.
LEMMA SlotCells ==
  ASSUME Allocated, NEW k \in DOMAIN Groups, NEW s \in Groups[k]
  PROVE  /\ s \in Slot /\ s[3] \in DOMAIN sets /\ s \in SlotsOf(s[3])
         /\ image[s] = <<s, k>> /\ <<s, k>> \in DOMAIN heap
         /\ Written(s) = DOMAIN heap[<<s, k>>]
         /\ PushedCells(s) = DOMAIN heap[<<s, k>>]
         /\ ~Overread(s)
<1>1. s \in Slot
  BY GroupsApart DEF Allocated
<1>2. s[3] \in DOMAIN sets
  BY <1>1 DEF Slot
<1>3. s \in SlotsOf(s[3])
  BY DEF SlotsOf
<1>4. image[s] = <<s, k>> /\ <<s, k>> \in DOMAIN heap
  BY DEF Allocated
<1>5. DOMAIN heap[<<s, k>>] = 0 .. Size(s) - 1
  <2> DEFINE b == <<s, k>>
  <2>1. b[1] = s
    OBVIOUS
  <2>2. DOMAIN heap[b] = 0 .. Size(b[1]) - 1
    BY <1>4 DEF Allocated
  <2> HIDE DEF b
  <2>3. DOMAIN heap[b] = 0 .. Size(s) - 1
    BY <2>1, <2>2, Zenon
  <2>4. QED
    BY <2>3 DEF b
<1>6. /\ Written(s) = 0 .. Size(s) - 1
      /\ PushedCells(s) = 0 .. Size(s) - 1
      /\ ~Overread(s)
  BY AllCells DEF Allocated
<1>7. QED
  BY <1>1, <1>2, <1>3, <1>4, <1>5, <1>6

\* One turn of the loop writes all cells of the slots of its set and no other.
LEMMA AnalysedCells ==
  ASSUME Allocated, Analyse, NEW k \in DOMAIN Groups, NEW s \in Groups[k],
         NEW c \in DOMAIN heap[<<s, k>>]
  PROVE  heap'[<<s, k>>][c] = IF s[3] = i THEN step ELSE heap[<<s, k>>][c]
<1> DEFINE b == <<s, k>>
<1>1. /\ image[s] = b /\ b \in DOMAIN heap /\ s \in SlotsOf(s[3])
      /\ c \in Written(s)
  BY SlotCells
<1>2. b[1] = s
  OBVIOUS
<1> HIDE DEF b
<1>3. c \in DOMAIN heap[b]
  BY DEF b
<1>4. heap' = [x \in DOMAIN heap |->
                 [cell \in DOMAIN heap[x] |->
                    IF x[1] \in SlotsOf(i) /\ image[x[1]] = x /\ cell \in Written(x[1])
                      THEN step ELSE heap[x][cell]]]
  BY DEF Analyse
<1>5. heap'[b][c] = IF b[1] \in SlotsOf(i) /\ image[b[1]] = b /\ c \in Written(b[1])
                      THEN step ELSE heap[b][c]
  BY <1>1, <1>3, <1>4
<1>6. s \in SlotsOf(i) <=> s[3] = i
  BY <1>1 DEF SlotsOf
<1>7. QED
  BY <1>1, <1>2, <1>5, <1>6 DEF b

LEMMA AnalyseWorks ==
  ASSUME Works, Analyse
  PROVE  Works'
<1>1. /\ UNCHANGED <<ini, para, sets, verdict, step, sized, image, stale>>
      /\ place = "analyse" /\ After("analyse", "save")
      /\ heap' = [b \in DOMAIN heap |->
                    [cell \in DOMAIN heap[b] |->
                       IF b[1] \in SlotsOf(i) /\ image[b[1]] = b /\ cell \in Written(b[1])
                         THEN step ELSE heap[b][cell]]]
  BY DEF Analyse
<1>2. Allocated /\ i \in 1 .. Len(sets) /\ Fresh /\ stray = {} /\ stale = {}
  BY <1>1 DEF Works
<1>3. DOMAIN heap' = DOMAIN heap /\ \A b \in DOMAIN heap : DOMAIN heap'[b] = DOMAIN heap[b]
  BY <1>1
<1>4. Allocated'
  BY <1>1, <1>2, <1>3, StillAllocated
<1>5. stray' = {}
  <2>1. PICK strong \in BOOLEAN :
          stray' = stray \cup Outside(Touched(strong))
                   \cup {s \in SlotsOf(i) :
                           Overread(s) \/ ~(Written(s) \subseteq DOMAIN heap[image[s]])}
    BY DEF Analyse
  <2>2. Outside(Touched(strong)) = {}
    BY <1>2, TouchedIsSized DEF Outside, Allocated
  <2>3. ASSUME NEW s \in SlotsOf(i)
        PROVE  ~Overread(s) /\ Written(s) \subseteq DOMAIN heap[image[s]]
    <3>1. PICK k \in DOMAIN Groups : s \in Groups[k]
      BY DEF SlotsOf
    <3>2. ~Overread(s) /\ image[s] = <<s, k>> /\ Written(s) = DOMAIN heap[<<s, k>>]
      BY <1>2, <3>1, SlotCells
    <3>3. QED
      BY <3>2
  <2>4. QED
    BY <1>2, <2>1, <2>2, <2>3
<1>6. Groups' = Groups
  BY <1>1, SameGroups
<1>7. Len(sets) \in Nat /\ DOMAIN sets = 1 .. Len(sets)
  BY <1>2 DEF Allocated, Running, Ready
<1>8. ASSUME NEW k \in DOMAIN Groups, NEW s \in Groups[k],
             place' = "save" \/ (place' = "analyse" /\ s[3] < i'),
             NEW c \in DOMAIN heap'[<<s, k>>]
      PROVE  heap'[<<s, k>>][c] = step'
  <2>1. s[3] \in 1 .. Len(sets) /\ <<s, k>> \in DOMAIN heap
    BY <1>2, <1>7, SlotCells
  <2>2. c \in DOMAIN heap[<<s, k>>]
    BY <1>3, <2>1
  <2>3. s[3] <= i
    BY <1>1, <1>2, <1>7, <1>8, <2>1 DEF After
  <2>4. s[3] < i => heap[<<s, k>>][c] = step
    BY <1>1, <1>2, <2>2 DEF Fresh
  <2>5. heap'[<<s, k>>][c] = IF s[3] = i THEN step ELSE heap[<<s, k>>][c]
    BY <1>2, <2>2, AnalysedCells
  <2>6. QED
    BY <1>1, <1>2, <2>1, <2>3, <2>4, <2>5
<1>9. Fresh'
  BY <1>6, <1>8 DEF Fresh
<1>10. place' \in {"analyse", "save"} /\ i' \in 1 .. Len(sets')
  BY <1>1, <1>2, <1>7 DEF After
<1>11. QED
  BY <1>1, <1>2, <1>4, <1>5, <1>9, <1>10 DEF Works, FreedOnce

LEMMA SaveWorks ==
  ASSUME Works, Save
  PROVE  Works'
<1> DEFINE cells(s) == PushedCells(s) \cap DOMAIN heap[image[s]]
<1>1. /\ UNCHANGED <<ini, para, sets, verdict, step, sized, image, heap>>
      /\ place = "save" /\ After("save", "idle")
      /\ stray' = stray \cup Outside(Resized)
                  \cup {s \in SlotsOf(i) : cells(s) # PushedCells(s)}
      /\ stale' = stale \cup
                  {s \in SlotsOf(i) : \E c \in cells(s) : heap[image[s]][c] # step}
  BY DEF Save
<1>2. Allocated /\ i \in 1 .. Len(sets) /\ Fresh /\ stray = {} /\ stale = {}
  BY <1>1 DEF Works
<1>3. Allocated'
  BY <1>1, <1>2, StillAllocated
<1>4. Outside(Resized) = {}
  BY <1>2, TouchedIsSized DEF Outside, Allocated
<1>5. ASSUME NEW s \in SlotsOf(i)
      PROVE  /\ cells(s) = PushedCells(s)
             /\ \A c \in cells(s) : heap[image[s]][c] = step
  <2>1. PICK k \in DOMAIN Groups : s \in Groups[k]
    BY DEF SlotsOf
  <2>2. image[s] = <<s, k>> /\ PushedCells(s) = DOMAIN heap[<<s, k>>]
    BY <1>2, <2>1, SlotCells
  <2>3. \A c \in DOMAIN heap[<<s, k>>] : heap[<<s, k>>][c] = step
    BY <1>1, <1>2, <2>1 DEF Fresh
  <2>4. QED
    BY <2>2, <2>3
<1>6. stray' = {} /\ stale' = {}
  BY <1>1, <1>2, <1>4, <1>5
<1> HIDE DEF cells
<1>7. Groups' = Groups
  BY <1>1, SameGroups
<1>8. Len(sets) \in Nat
  BY <1>2 DEF Allocated, Running, Ready
<1>9. place' \in {"save", "idle"} /\ (place' = "save" => i' \in 1 .. Len(sets') /\ Fresh')
  BY <1>1, <1>2, <1>7, <1>8 DEF After, Fresh
<1>10. QED
  BY <1>1, <1>3, <1>6, <1>9 DEF Works, FreedOnce

\* The destructor finds every buffer in one of its lists.
LEMMA DestroyWorks ==
  ASSUME Works, Destroy
  PROVE  Works'
<1>1. /\ UNCHANGED <<ini, para, sets, verdict, sized, image, heap, stray, stale>>
      /\ place = "idle" /\ place' = "gone"
      /\ frees' = [b \in DOMAIN heap |->
                     Cardinality({k \in DOMAIN FreedSlots :
                                    b[1] \in FreedSlots[k] /\ image[b[1]] = b})]
  BY DEF Destroy
<1>2. Allocated /\ stray = {} /\ stale = {}
  BY <1>1 DEF Works
<1>3. Allocated'
  BY <1>1, <1>2, StillAllocated
<1>4. /\ FreedSlots = Groups
      /\ \A k, l \in DOMAIN Groups : Groups[k] \cap Groups[l] # {} => k = l
  BY <1>2, GroupsApart DEF Allocated
<1>5. ASSUME NEW b \in DOMAIN heap
      PROVE  Cardinality({k \in DOMAIN FreedSlots :
                            b[1] \in FreedSlots[k] /\ image[b[1]] = b}) = 1
  <2>1. PICK l \in DOMAIN Groups : b \in Groups[l] \X {l}
    BY <1>2 DEF Allocated
  <2>2. PICK s \in Groups[l] : b = <<s, l>>
    BY <2>1
  <2>3. image[s] = b /\ b[1] = s
    BY <1>2, <2>2 DEF Allocated
  <2>4. {k \in DOMAIN FreedSlots : b[1] \in FreedSlots[k] /\ image[b[1]] = b} = {l}
    BY <1>4, <2>1, <2>2, <2>3
  <2>5. QED
    BY <2>4, FS_Singleton
<1>6. FreedOnce'
  BY <1>1, <1>5 DEF FreedOnce
<1>7. QED
  BY <1>1, <1>2, <1>3, <1>6 DEF Works

\* An engine at work has what it needs before the step and after it.
LEMMA WorksOn ==
  ASSUME Engine, UNCHANGED <<para, sets>>, verdict' = "accepted",
         CanRun(para, sets) /\ Works => Works', place' # "start"
  PROVE  Engine'
<1>1. CanRun(para, sets)' => CanRun(para, sets)
  OBVIOUS
<1>2. QED
  BY <1>1 DEF Engine

\* Before the engine is set up, only the parameters change; afterwards they
\* are accepted and never read again.
LEMMA EngineStep ==
  ASSUME SoundInis, Settings, Engine, [Next]_vars
  PROVE  Engine'
<1>1. CASE Parse \/ Verify
  <2>1. UNCHANGED rest /\ verdict # "accepted"
    BY <1>1 DEF Parse, Verify, Read, Check
  <2>2. place = "start" /\ place' = "start" /\ stray' = {} /\ stale' = {}
    BY <2>1 DEF Engine, rest
  <2>3. QED
    BY <2>2 DEF Engine, Works, FreedOnce
<1>2. CASE Setup
  <2>1. UNCHANGED <<para, sets>> /\ verdict' = "accepted" /\ place' # "start"
    BY <1>2 DEF Setup
  <2>2. CanRun(para, sets) /\ Works => Works'
    BY <1>2, SetupWorks
  <2>3. QED
    BY <2>1, <2>2, WorksOn
<1>3. CASE Begin \/ Analyse \/ Save \/ Destroy
  <2>1. UNCHANGED <<para, sets, verdict>> /\ place # "start" /\ place' # "start"
    BY <1>3 DEF Begin, Analyse, Save, Destroy, After
  <2>2. verdict' = "accepted"
    BY <2>1 DEF Engine
  <2>3. Works => Works'
    BY <1>3, BeginWorks, AnalyseWorks, SaveWorks, DestroyWorks
  <2>4. QED
    BY <2>1, <2>2, <2>3, WorksOn
<1>4. CASE UNCHANGED vars
  <2>1. UNCHANGED <<ini, para, sets, verdict, place, i, step, sized, image, heap, frees,
                    stray, stale>>
    BY <1>4 DEF vars
  <2>2. Allocated => Allocated'
    BY <2>1, StillAllocated
  <2>3. Groups' = Groups
    BY <2>1, SameGroups
  <2>4. Fresh => Fresh'
    BY <2>1, <2>3 DEF Fresh
  <2>5. Works => Works'
    BY <2>1, <2>2, <2>4 DEF Works, FreedOnce
  <2>6. CanRun(para, sets)' => CanRun(para, sets)
    BY <2>1
  <2>7. QED
    BY <2>1, <2>5, <2>6 DEF Engine
<1>5. QED
  BY <1>1, <1>2, <1>3, <1>4 DEF Next, Ended

LEMMA EngineHolds == ASSUME SoundInis PROVE Spec => []Engine
<1>1. Init => Engine
  BY DEF Init, Engine, Works, FreedOnce
<1>2. Engine /\ Settings /\ [Next]_vars => Engine'
  BY EngineStep
<1>3. QED
  BY <1>1, <1>2, SettingsHold, PTL DEF Spec

-----------------------------------------------------------------------------
(***************************************************************************)
(* What the engine promises.  SoundInis is what no test of para::check     *)
(* looks at; without its first part the run of flat images refutes         *)
(* AccessesInside, without the second the first buffers of a colour are    *)
(* lost and the last freed twice.  That a file CanRun is asked by the      *)
(* properties themselves.                                                  *)
(***************************************************************************)

\* No analysis and no push reads or writes outside of what the constructor
\* sized, in any step, for any target sets and any selection of analyses.
THEOREM InsideTheBuffers == ASSUME SoundInis PROVE Spec => []AccessesInside
<1>1. Engine => AccessesInside
  BY DEF Engine, Works, AccessesInside
<1>2. QED
  BY <1>1, EngineHolds, PTL

\* Every cell that is pushed was computed in the step it is pushed for.
THEOREM PushesAreFresh == ASSUME SoundInis PROVE Spec => []RowsAreFresh
<1>1. Engine => RowsAreFresh
  BY DEF Engine, Works, RowsAreFresh
<1>2. QED
  BY <1>1, EngineHolds, PTL

\* The destructor frees what the constructor allocated, each buffer once.
THEOREM BuffersAreFreed == ASSUME SoundInis PROVE Spec => []FreedOnce
<1>1. Engine => FreedOnce
  BY DEF Engine, Works, FreedOnce
<1>2. QED
  BY <1>1, EngineHolds, PTL

=============================================================================
