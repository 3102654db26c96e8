----------------------------- MODULE MCMetadata -----------------------------
(* An instance of Metadata for TLC.                                         *)
EXTENDS Metadata, TLC

Failure(l, t) == [line |-> l, symbol |-> "s", type |-> t]

\* No failure; a gap, and a row whose time and id both went back, which the
\* validator reports with two failures of one type.
FailureLists ==
    {<<>>, <<Failure(2, "sequence_gap"), Failure(3, "ordering"),
             Failure(3, "sequence_gap"), Failure(3, "ordering")>>}

ClientSymmetry == Permutations(Clients)
=============================================================================
