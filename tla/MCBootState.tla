---------------------------- MODULE MCBootState ----------------------------
(***************************************************************************)
(* Small instances of BootState: two pieces of text in a buffer of two, so *)
(* that a message can be short, full, or overwrite part of an older one.   *)
(***************************************************************************)
EXTENDS BootState

BootTexts == {"fault", "reason"}
=============================================================================
