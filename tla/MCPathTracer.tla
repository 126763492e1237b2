---------------------------- MODULE MCPathTracer ----------------------------
(* Small instances of PathTracer for TLC. *)
EXTENDS PathTracer, TLC

CONSTANTS t1, t2

TwoThreads == {t1, t2}
ThreadSymmetry == Permutations(TwoThreads)

TwoNames == {Plain(1), Plain(2)}
\* Two names with one number: the http-server's end in "ms".
Twins == {Plain(1), [num |-> 1, unit |-> "ms"]}
\* ... and others besides, the last out of std::stoi's range.
MixedNames == Twins \cup {Plain(2), Plain(3)}
=============================================================================
