------------------------------- MODULE Parser -------------------------------
(***************************************************************************)
(* How a line of a JSONL or CSV file becomes a row of Validate.  A line    *)
(* has the fields that decide this, each an integer or Absent; type        *)
(* "garbage" stands for a line that does not decode, has an unknown type,  *)
(* or lacks a price level, a price or a side.  The type is in event_type.  *)
(***************************************************************************)
EXTENDS Validate

CONSTANT Absent   \* a key that is missing or null, a CSV cell that is empty

TextLines(Values) ==
    [type : {"depth", "trade", "garbage"}, symbol : Symbols,
     event_time : Values, trade_time : Values, first_update_id : Values,
     final_update_id : Values, prev_sequence : Values, sequence : Values,
     trade_id : Values, priced : BOOLEAN]

Or(x, default) == IF x = Absent THEN default ELSE x
Successor(x) == IF x = Absent THEN Absent ELSE x + 1

Garbage(line) ==
    [type |-> "garbage", symbol |-> line.symbol, time |-> 0, first |-> 0, final |-> 0, trade |-> 0,
     priced |-> line.priced]

EventTimeMillis(eventTime, tradeTime) == IF eventTime > 0 THEN eventTime ELSE tradeTime

\* A depth event is checked on its event_time, a trade on its trade_time.
Event(line, eventTime, tradeTime, first, final) ==
    [type   |-> line.type, symbol |-> line.symbol,
     time   |-> IF (IF line.type = "depth" THEN eventTime ELSE tradeTime) <= 0 THEN 0
                ELSE EventTimeMillis(eventTime, tradeTime),
     first  |-> IF line.type = "depth" THEN first ELSE 0,
     final  |-> IF line.type = "depth" THEN final ELSE 0,
     trade  |-> IF line.type = "trade" THEN line.trade_id ELSE 0,
     priced |-> line.priced]

\* The legacy sequence fields win over the update ids; a missing time is 0.
ParseJSONLine(line) ==
    LET first == Or(Successor(line.prev_sequence), line.first_update_id)
        final == Or(line.sequence, line.final_update_id)
    IN  IF \/ line.type = "garbage"
           \/ line.type = "depth" /\ Absent \in {first, final}
           \/ line.type = "trade" /\ line.trade_id = Absent
        THEN Garbage(line)
        ELSE Event(line, Or(line.event_time, 0), Or(line.trade_time, 0), first, final)

\* The update ids win over the legacy columns, event_time over trade_time,
\* and a first_update_id of zero counts as missing.
parseCSV(line) ==
    LET time == Or(line.event_time, line.trade_time)
        first == Or(line.first_update_id, Successor(line.prev_sequence))
        final == Or(line.final_update_id, line.sequence)
    IN  IF \/ line.type = "garbage" \/ time = Absent
           \/ line.type = "depth" /\ (Absent \in {first, final} \/ first = 0)
           \/ line.type = "trade" /\ line.trade_id = Absent
        THEN Garbage(line)
        ELSE IF line.type = "depth" THEN Event(line, time, 0, first, final)
        ELSE Event(line, 0, time, 0, 0)

\* Stream.Next on a file of the given format.
Parse(format, line) == IF format = "csv" THEN parseCSV(line) ELSE ParseJSONLine(line)
=============================================================================
