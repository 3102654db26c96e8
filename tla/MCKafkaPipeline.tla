--------------------------- MODULE MCKafkaPipeline --------------------------
(* An instance of KafkaPipeline for TLC.                                    *)
EXTENDS KafkaPipeline

D(t, a, b) ==
    [type |-> "depth", symbol |-> "s", time |-> t, first |-> a, final |-> b, trade |-> 0,
     priced |-> TRUE]
T(t, i) ==
    [type |-> "trade", symbol |-> "s", time |-> t, first |-> 0, final |-> 0, trade |-> i,
     priced |-> TRUE]

\* A clean file of both types, one with gaps and a repeated row, one with a
\* zero id that does not parse to its end, and one that a file-level
\* validation finds clean although a level has no price.
SmallFiles ==
    {<<D(1, 1, 2), T(2, 1), D(3, 3, 4)>>,
     <<D(1, 1, 1), D(2, 3, 5), D(2, 3, 5)>>,
     <<T(2, 1), D(1, 0, 0), D(1, 2, 1)>>,
     <<D(1, 1, 1), [D(2, 2, 2) EXCEPT !.priced = FALSE]>>}

SmallForeign == {D(1, 7, 7)}
=============================================================================
