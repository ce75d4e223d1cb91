--------------------------- MODULE MCPagedListing ---------------------------
(***************************************************************************)
(* Pages of two entries and a ceiling of two pages: lists of up to four    *)
(* entries fit under it, longer ones do not.                               *)
(***************************************************************************)
EXTENDS PagedListing

MCLimits == 0..3
=============================================================================
