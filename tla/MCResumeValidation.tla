------------------------- MODULE MCResumeValidation -------------------------
(* Small files for ResumeValidation: two symbols, ids and times 1..2, plus  *)
(* a row that does not decode and one whose shape is rejected.              *)
EXTENDS ResumeValidation

Row(type, s, time, first, final, trade) ==
    [type |-> type, symbol |-> s, time |-> time,
     first |-> first, final |-> final, trade |-> trade, priced |-> TRUE]

BadRows(s) == {Row("garbage", s, 0, 0, 0, 0), Row("depth", s, 0, 1, 1, 0)}

PositiveRows ==
    UNION {BadRows(s)
             \cup {Row("depth", s, t, i[1], i[2], 0) :
                     t \in 1 .. 2, i \in {<<1, 1>>, <<1, 2>>, <<2, 2>>}}
             \cup {Row("trade", s, t, 0, 0, n) : t \in 1 .. 2, n \in 1 .. 2}
             : s \in Symbols}

\* Depth ids as the parser accepts them: zero and negative ids included.
AcceptedRows ==
    {Row("depth", s, 1, i[1], i[2], 0) :
        s \in Symbols, i \in {<<-1, 0>>, <<0, 0>>, <<1, 1>>, <<2, 2>>}}

=============================================================================
