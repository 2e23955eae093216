---------------------------- MODULE MCStreamQueue ----------------------------
(* The ring with two slots more than one element needs: it wraps, fills and *)
(* empties in every order.                                                  *)
EXTENDS StreamQueue

CONSTANTS s1, s2, s3
MCStream == {s1, s2, s3}
=============================================================================
