---------------------------- MODULE MCRateFetch ----------------------------
(***************************************************************************)
(* RateFetch for TLC.                                                      *)
(***************************************************************************)
EXTENDS RateFetch

(* Inside a schedule of three attempts that takes 18 at most.              *)
Tight == 10
=============================================================================
