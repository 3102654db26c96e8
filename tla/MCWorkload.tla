----------------------------- MODULE MCWorkload -----------------------------
(* Source files of up to three lines for Workload: depth updates by update  *)
(* ids and by legacy fields, trades, both together, and broken lines.       *)
EXTENDS Workload, TLC

Line(type, s) ==
    [type |-> type, symbol |-> s, event_time |-> Absent, trade_time |-> Absent,
     first_update_id |-> Absent, final_update_id |-> Absent,
     prev_sequence |-> Absent, sequence |-> Absent, trade_id |-> Absent,
     priced |-> TRUE]

Depth(s, first, final, time) ==
    [Line("depth", s) EXCEPT !.first_update_id = first, !.final_update_id = final,
                             !.event_time = time]
Legacy(s, prev, seq, time) ==
    [Line("depth", s) EXCEPT !.prev_sequence = prev, !.sequence = seq, !.event_time = time]
Trade(s, id, time) == [Line("trade", s) EXCEPT !.trade_id = id, !.trade_time = time]

CommonLines ==
    {Depth("a", 1, 2, 1), Depth("a", 3, 3, 1), Depth("a", 3, 4, 3), Depth("a", 4, 4, 3),
     Depth("a", 0, 0, 2), Depth("a", 3, 2, 2), Depth("b", 1, 2, 2), Legacy("a", 0, 2, 1),
     Trade("a", 1, 2), Trade("a", 2, 2), Trade("a", 3, 4), Trade("a", 2, 0), Trade("b", 7, 1),
     Trade("b", 8, 4), Line("garbage", "a")}

\* Both forms of the ids, which the two formats resolve differently; a
\* trade with both times.
BothForms ==
    {[Depth("a", 3, 4, 3) EXCEPT !.prev_sequence = 0, !.sequence = 2],
     [Trade("a", 2, 3) EXCEPT !.event_time = 2]}

UpTo3(S) == UNION {[1 .. n -> S] : n \in 1 .. 3}
AllColumns == {"trade_id", "trade_time"}

AllSources ==
    {[format |-> "jsonl", columns |-> {}, rows |-> f] : f \in UpTo3(CommonLines \cup BothForms)}
    \cup {[format |-> "csv", columns |-> AllColumns, rows |-> f] :
              f \in UpTo3(CommonLines \cup BothForms)}

\* Trades of one symbol in JSONL.
JsonlTrades ==
    {[format |-> "jsonl", columns |-> {}, rows |-> f] :
        f \in UpTo3({Trade("a", 1, 2), Trade("a", 2, 2), Trade("a", 3, 4)})}
=============================================================================
