--------------------------- MODULE MCExamSession ---------------------------
(* One ruleset with a color, one value of the data that stands for           *)
(* Uninitialized and one that no ruleset has; press-to-test with two flags.  *)
EXTENDS ExamSession

CONSTANTS First, Second

MCPreset == {{First}}
MCUninitialized == {Second}

=============================================================================
