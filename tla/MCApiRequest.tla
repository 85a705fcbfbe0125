---------------------------- MODULE MCApiRequest ----------------------------
(***************************************************************************)
(* Small instances of ApiRequest for TLC: reads or ordinary writes a and b *)
(* and the custom-field mutation m.                                        *)
(***************************************************************************)
EXTENDS ApiRequest

CONSTANTS a, b, m
=============================================================================
