---------------------------- MODULE MCFrameTool -----------------------------
(***************************************************************************)
(* A deposit and a spend, both run again and again.  Needs are in units of *)
(* which the default gas is 11: 12 is a need it does not cover, less than  *)
(* a quarter above 11, and 11 is more than a quarter above 8.              *)
(***************************************************************************)
EXTENDS FrameTool, TLC

CONSTANTS a, s, n1, n2

MCNoteOf == a :> n1 @@ s :> n2

=============================================================================
