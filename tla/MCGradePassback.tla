--------------------------- MODULE MCGradePassback ---------------------------
(* A student of a section, two workers that may create its column, and one *)
(* more address than the creations that go astray.                         *)
EXTENDS GradePassback

CONSTANTS s1, j1, j2, c1, c2, c3, c4

=============================================================================
