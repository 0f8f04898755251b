------------------------------ MODULE MCLiveHub ------------------------------
(* LiveHub for TLC with a poll that reads fewer ids than its look-back spans, *)
(* as 500 of 2000 do in lib/livehub.ts.                                       *)
EXTENDS LiveHub
=============================================================================
