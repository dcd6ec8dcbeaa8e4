---------------------------- MODULE MCExceptions ----------------------------
(* Functions that return from within a try, for TLC.                       *)
EXTENDS Exceptions

ReturningPrograms == {{"return"}}
=============================================================================
