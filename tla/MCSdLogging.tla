---------------------------- MODULE MCSdLogging ----------------------------
(***************************************************************************)
(* Small instances of SdLogging: two cards, so that the one that comes     *)
(* back may not be the one that was pulled.                                *)
(***************************************************************************)
EXTENDS SdLogging

TwoCards == {"A", "B"}
=============================================================================
