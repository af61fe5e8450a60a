------------------------------- MODULE Sums -------------------------------
(* Sums over sequences, for the queues and windows of the other modules.   *)
EXTENDS Integers, Sequences, SequencesExt

\* The sum of a sequence of numbers.
SumSeq(s) == FoldLeft(LAMBDA a, b : a + b, 0, s)
=============================================================================
