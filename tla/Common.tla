-------------------------------- MODULE Common --------------------------------
(***************************************************************************)
(* What the parts of the service are made of.  Each part is a module of    *)
(* its own, with x1 to x11 for its variables; Actors are what runs at a    *)
(* time, handlers, operators or requests; Owners are whom they act for;    *)
(* Things are what there are three of.  The parts share no state, so that  *)
(* MCServices explores them side by side: those of Parts, those of         *)
(* Dialogues, and the others it adds.                                      *)
(***************************************************************************)
EXTENDS Integers, Sequences

CONSTANTS Actors, Owners, Things, Nobody

VARIABLES x1, x2, x3, x4, x5, x6, x7, x8, x9, x10, x11
=============================================================================
