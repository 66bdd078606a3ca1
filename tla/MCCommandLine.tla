---------------------------- MODULE MCCommandLine ----------------------------
(***************************************************************************)
(* All lines of up to six characters, with one that means nothing.         *)
(***************************************************************************)
EXTENDS CommandLine

Plain == {"x"}
=============================================================================
