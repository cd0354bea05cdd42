-------------------------- MODULE MCSubmissionGate --------------------------
(* Two comments of one response: a first submission, a revision of it or a *)
(* race for the row, and a walk of the sweep over more than one comment.   *)
EXTENDS SubmissionGate, TLC

CONSTANTS q1, q2, r1, r2, w1, w2

RequestSymmetry == Permutations(Requests)

=============================================================================
