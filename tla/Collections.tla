----------------------------- MODULE Collections -----------------------------
(***************************************************************************)
(* What Python and Kotlin do with a list as a whole: sum() and filter().   *)
(***************************************************************************)
EXTENDS Integers, SequencesExt

\* The sum of the values of f, whatever the order they are added in.
SumOf(f) == FoldFunction(+, 0, f)

\* The elements of s that are in keep, in their order.
Filtered(s, keep) == FlattenSeq([k \in DOMAIN s |-> IF s[k] \in keep THEN <<s[k]>> ELSE <<>>])
=============================================================================
