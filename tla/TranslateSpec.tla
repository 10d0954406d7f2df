---------------------------- MODULE TranslateSpec ----------------------------
(***************************************************************************)
(* What the translator of Translate promises: it implements the            *)
(* AtomicTranslator, and the context pool it works on keeps its word.      *)
(***************************************************************************)
EXTENDS Translate

\* A translation in progress is an address asked for.
Atomic == INSTANCE AtomicTranslator WITH
    asked <- IF job = Idle THEN None ELSE job.addr

-----------------------------------------------------------------------------
(* Properties *)

\* The cache is invisible: whatever was translated before, and whichever
\* contexts were recycled, the translator does what AtomicTranslator does.
\* An instruction that is asked for is answered in the end, with a failure
\* exactly when its code cannot be translated, and otherwise with the ops of
\* its template, each lowered in the addresses of its own instruction and each
\* branch going to the label of its own template, and with the address behind
\* its delay slots (TranslateInstructionAt in engine.go).
CacheTransparent == Atomic!Spec
=============================================================================
