------------------------------ MODULE Workload ------------------------------
(***************************************************************************)
(* `market-replay generate-workload` expands a source file by repeating    *)
(* it, and `market-replay replay` validates and paces the result.          *)
(*                                                                         *)
(* The target size is counted in rows.  A sleep is counted in tenths of a  *)
(* millisecond.  The loop of Runner.Stream is also that of validate.Stream *)
(* and of the benchmark, which do not sleep.                               *)
(***************************************************************************)
EXTENDS Parser, Sequences, FiniteSetsExt

CONSTANTS
    Sources,   \* source files: [format, columns of a CSV header, rows]
    Targets    \* target sizes

\* GenerateFile refuses a source without rows.
ASSUME SourcesAssumption ==
    /\ Absent \notin Int
    /\ \A s \in Sources : s.rows \in Seq(TextLines({Absent} \cup Int)) \ {<<>>}

VARIABLES
    source, target, speed,   \* the arguments of the two commands
    output,     \* the lines generated
    pos,        \* how many of them the replay has read
    state,      \* its validate.Validator
    previous,   \* previousEventTime
    slept       \* history: the sum of the sleeps

vars == <<source, target, speed, output, pos, state, previous, slept>>

Init ==
    /\ source \in Sources
    /\ target \in Targets
    /\ speed \in {"max", "1x", "10x"}
    /\ output = <<>>
    /\ pos = 0
    /\ state = NewValidator
    /\ previous = 0
    /\ slept = 0

-----------------------------------------------------------------------------
(* GenerateFile *)

\* newJSONLNormalizer: only for depth updates with all three numbers.
jsonlEnabled ==
    \A l \in DOMAIN source.rows :
        /\ source.rows[l].type = "depth"
        /\ Absent \notin {source.rows[l].first_update_id, source.rows[l].final_update_id,
                          source.rows[l].event_time}

\* newCSVNormalizer: only with both columns, and a number in every cell.
csvEnabled ==
    /\ {"trade_id", "trade_time"} \subseteq source.columns
    /\ \A l \in DOMAIN source.rows :
          Absent \notin {source.rows[l].trade_id, source.rows[l].trade_time}

Base == source.rows[1]
Final == source.rows[Len(source.rows)]

jsonlNormalize(line, cycle) ==
    LET sequenceSpan == Final.final_update_id - Base.first_update_id + 1
        timeSpan == Final.event_time - Base.event_time + 1
    IN  IF ~jsonlEnabled \/ sequenceSpan <= 0 \/ timeSpan <= 0 THEN line
        ELSE [line EXCEPT !.first_update_id = @ + cycle * sequenceSpan,
                          !.final_update_id = @ + cycle * sequenceSpan,
                          !.event_time = @ + cycle * timeSpan]

csvNormalize(line, cycle) ==
    LET idSpan == Final.trade_id - Base.trade_id + 1
        timeSpan == Final.trade_time - Base.trade_time + 1
    IN  IF ~csvEnabled THEN line
        ELSE [line EXCEPT !.trade_id = @ + cycle * idSpan,
                          !.trade_time = @ + cycle * timeSpan]

normalize(line, cycle) ==
    IF source.format = "csv" THEN csvNormalize(line, cycle) ELSE jsonlNormalize(line, cycle)

\* Mutant: the rows are counted from one.
WriteRowFromOne ==
    /\ Len(output) < target
    /\ LET row == Len(output)
       IN  output' = Append(output, normalize(source.rows[(row % Len(source.rows)) + 1],
                                              (row + 1) \div Len(source.rows)))
    /\ UNCHANGED <<source, target, speed, pos, state, previous, slept>>

\* The next row of the source, again from the first one after the last.
WriteRow ==
    /\ Len(output) < target
    /\ LET row == Len(output)
       IN  output' = Append(output, normalize(source.rows[(row % Len(source.rows)) + 1],
                                              row \div Len(source.rows)))
    /\ UNCHANGED <<source, target, speed, pos, state, previous, slept>>

-----------------------------------------------------------------------------
(* Runner.Stream *)

Number(line) == IF source.format = "csv" THEN line + 1 ELSE line

\* Mutant: the clock is not advanced after a sleep.
sleepKeepsClock(time) ==
    LET delta == time - previous IN
    /\ previous' = IF speed # "max" /\ previous # 0 /\ delta > 0 THEN previous ELSE time
    /\ slept' = IF speed = "max" \/ previous = 0 \/ delta <= 0 THEN slept
                ELSE slept + (IF speed = "10x" THEN 1 ELSE 10) * delta

sleepForEvent(time) ==
    LET delta == time - previous IN
    /\ previous' = time
    /\ slept' = IF speed = "max" \/ time <= 0 \/ previous = 0 \/ delta <= 0 THEN slept
                ELSE slept + (IF speed = "10x" THEN 1 ELSE 10) * delta

ReplayRow ==
    LET row == Parse(source.format, output[pos + 1]) IN
    /\ Len(output) = target /\ pos < target
    /\ pos' = pos + 1
    /\ state' = Process(state, Number(pos + 1), row)
    /\ IF InScope(row) THEN sleepForEvent(row.time) ELSE UNCHANGED <<previous, slept>>
    /\ UNCHANGED <<source, target, speed, output>>

-----------------------------------------------------------------------------
Next == WriteRow \/ ReplayRow
Spec == Init /\ [][Next]_vars

-----------------------------------------------------------------------------
\* The validator after each line of a file: the source passes validation.
Validated(format, rows) ==
    LET v[l \in 0 .. Len(rows)] ==
            IF l = 0 THEN NewValidator ELSE Process(v[l - 1], 0, Parse(format, rows[l]))
    IN  v

CleanSource == Validated(source.format, source.rows)[Len(source.rows)].failures = {}

(***************************************************************************)
(* What the generator is written for: depth updates of one symbol in JSONL *)
(* by their update ids, or trades of one symbol in CSV by trade_time, that *)
(* the validation does not filter out (it calls a file clean whatever the  *)
(* order of the rows it skips, and a span of theirs may be negative).      *)
(***************************************************************************)
Expandable ==
    /\ \A l, n \in DOMAIN source.rows : source.rows[l].symbol = source.rows[n].symbol
    /\ OptSymbol \in {AnySymbol, Base.symbol}
    /\ \/ /\ source.format = "jsonl" /\ jsonlEnabled
          /\ \A l \in DOMAIN source.rows :
                source.rows[l].sequence = Absent /\ source.rows[l].prev_sequence = Absent
       \/ /\ source.format = "csv" /\ csvEnabled
          /\ \A l \in DOMAIN source.rows :
                source.rows[l].type = "trade" /\ source.rows[l].event_time = Absent

\* An expanded workload raises no failure in any cycle: ids stay consecutive
\* and times in order over every seam (jsonlNormalizer and csvNormalizer).
ExpandedStaysClean == CleanSource /\ Expandable => state.failures = {}

\* The rows replayed so far that the pacing looks at, and their times.
Row(k) == Parse(source.format, output[k])
Due == {k \in 1 .. pos : InScope(Row(k))}
InOrder == \A k, l \in Due : k < l => Row(k).time <= Row(l).time

Factor == CASE speed = "max" -> 0 [] speed = "10x" -> 1 [] OTHER -> 10

(***************************************************************************)
(* A paced replay never runs ahead of the recording: when a row is due at  *)
(* a time, the sleeps before it add up to at least the recorded span, and  *)
(* to exactly that span while the rows in scope come in time order,        *)
(* malformed and filtered rows between them notwithstanding.               *)
(***************************************************************************)
PacedByRecording ==
    Due # {} =>
        LET start == Row(Min(Due)).time IN
        /\ \A k \in Due : slept >= Factor * (Row(k).time - start)
        /\ InOrder => slept = Factor * (Row(Max(Due)).time - start)

-----------------------------------------------------------------------------
(***************************************************************************)
(* BENCHMARK.md:115, "The workload generator advances depth update ids,    *)
(* aggregate trade ids, and timestamps across repeated fixture cycles so   *)
(* valid source fixtures remain valid after expansion."                    *)
(***************************************************************************)
ValidStaysValid == CleanSource => state.failures = {}
=============================================================================
