--------------------------- MODULE MCFamilyParallel ---------------------------
(***************************************************************************)
(* A family and a tiling of a few branches, sorted by their number of      *)
(* candidates; the memory suffices in some behaviours and not in others.   *)
(***************************************************************************)
EXTENDS FamilyParallel

Search(kind, count, order, cap) == [kind |-> kind, count |-> count, order |-> order, cap |-> cap]

MCSearches ==
    {Search("family", <<1, 2, 1, 1>>, <<1, 3, 4, 2>>, 9), Search("tiling", <<1, 2>>, <<1, 2>>, 5)}
================================================================================
