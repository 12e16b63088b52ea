------------------------------- MODULE MCGsmd -------------------------------
(* Values for model checking. *)
EXTENDS GsmdService, TLC

NoKinds      == <<>>
OneSimple    == <<"simple">>
OneSet       == <<"set">>
OneReg       == <<"regset">>
UserSymmetry == Permutations(Users)

=============================================================================
