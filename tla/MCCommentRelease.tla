-------------------------- MODULE MCCommentRelease --------------------------
(* Three students, two weeks, two streams, a threshold of two: the course  *)
(* stream of week 1 can reach the threshold with or without its third      *)
(* author; the instructor stream is thin in each week and reaches it over  *)
(* both.  A slot nobody answers leaves smaller worlds of the same kind.    *)
EXTENDS CommentRelease, TLC

CONSTANTS ann, bob, cat, c1, c2, c3, i1, i2, i3, course, instructor, k1, k2, w1, w2

MCAuthorOf == [c \in Comments |-> IF c \in {c1, i1} THEN ann
                                  ELSE IF c \in {c2, i2} THEN bob ELSE cat]

MCWeekOf == [c \in Comments |-> IF c = i2 THEN 2 ELSE IF c = i3 THEN 3 ELSE 1]

MCStreamOf == [c \in Comments |-> IF c \in {i1, i2, i3} THEN instructor ELSE course]

(* Bound: revisions are explored in the classes without the third student  *)
(* of week 1's course stream.                                              *)
RevisedOrLarge ==
  \/ \A c \in Comments : text[c] <= 1
  \/ text[c3] = 0 /\ c3 \notin pending[AuthorOf[c3]]

(* Two runs of the sweep are interchangeable. *)
SweeperSymmetry == Permutations(Sweepers)

=============================================================================
