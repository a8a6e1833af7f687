------------------------------ MODULE MCH5Writer -----------------------------
(***************************************************************************)
(* Instances of H5Writer for TLC.                                          *)
(***************************************************************************)
EXTENDS H5Writer

\* A dataset at the root, one below a group, and a chain deep enough for a
\* group to be created below a dataset.
Chain == {<<"a">>, <<"a", "b">>, <<"a", "b", "c">>}
Fork == {<<"a">>, <<"a", "b">>, <<"a", "c">>}

Names == {"a", "b", "c"}
Pairs == [p \in Path |-> 2]
Both == {{"library", "death"}}
=============================================================================
