------------------------------- MODULE MCMpls --------------------------------
(* HalMpls for TLC: the contents of routes are interchangeable.             *)
EXTENDS HalMpls, TLC

RouteSymmetry == Permutations(Routes)
=============================================================================
