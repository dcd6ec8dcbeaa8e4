--------------------------- MODULE MCContinuations ---------------------------
(* The continuations of a task in which an exception may be caught or not. *)
EXTENDS Continuations

AbortingPrograms == {{"call", "try", "throw", "abort"}}
=============================================================================
