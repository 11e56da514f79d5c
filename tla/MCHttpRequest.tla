--------------------------- MODULE MCHttpRequest ---------------------------
(***************************************************************************)
(* QuoteRequest for TLC.                                                   *)
(***************************************************************************)
EXTENDS QuoteRequest
=============================================================================
