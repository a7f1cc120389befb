------------------------- MODULE MC_CminusfBuilder -------------------------
(* The bounded instance of CminusfBuilder: the bounds are in the cfg.      *)
EXTENDS CminusfBuilder
=============================================================================
