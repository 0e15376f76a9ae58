---------------------------- MODULE MCRateLimiter ----------------------------
(***************************************************************************)
(* Three requests that may overlap on one key with a limit of two.  They   *)
(* are not interchangeable for liveness, so no symmetry is used.           *)
(***************************************************************************)
EXTENDS RateLimiter

=============================================================================
