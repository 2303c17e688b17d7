---------------------------- MODULE FeedbackMC ----------------------------
(* Constants for the runs of Feedback: two submissions of one pair (a       *)
(* double tap or a correction), and one of another pair.                    *)
EXTENDS Feedback

CONSTANTS pair, otherPair, first, second, third

TargetMC == [r \in Submissions |-> IF r = third THEN otherPair ELSE pair]
=============================================================================
