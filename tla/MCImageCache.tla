--------------------------- MODULE MCImageCache ----------------------------
(***************************************************************************)
(* An instance of ImageCache for model checking.                           *)
(***************************************************************************)
EXTENDS ImageCache
=============================================================================
