--------------------------- MODULE MCVmdescViews ---------------------------
(***************************************************************************)
(* VmdescViews on a range of three subblocks of two pages: a region of one *)
(* group of two subblocks and a tail region of groups of one, the largest  *)
(* region first as set_gpadesc_regions() sorts them.                       *)
(***************************************************************************)
EXTENDS VmdescViews

Geometry == <<[start |-> 0, end |-> 2, step |-> 2],
              [start |-> 2, end |-> 3, step |-> 1]>>
=============================================================================
