-------------------------- MODULE MCPoolLifecycle --------------------------
(***************************************************************************)
(* The lifecycle with a threshold of three and raises up to twice that.    *)
(***************************************************************************)
EXTENDS PoolLifecycle

SmallRaises == 0 .. 6

=============================================================================
