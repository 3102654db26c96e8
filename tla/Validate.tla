------------------------------ MODULE Validate ------------------------------
(***************************************************************************)
(* The streaming validator of internal/validate and the row checks of      *)
(* internal/parser it depends on, as operators on one validator value.     *)
(*                                                                         *)
(* A raw row is either garbage (it does not decode, or lacks a field its   *)
(* type requires) or carries the fields the checks read; time is what      *)
(* EventTimeMillis returns.  A Go map lookup `last, ok := m[s]` is an      *)
(* entry [ok, last]; the entry of an absent key has last = 0, which is     *)
(* what the one-value form `m[s]` in Prime reads.                          *)
(*                                                                         *)
(* priced says that no price level has an empty price or quantity.  No     *)
(* check reads it, but an event encoded again needs it (PriceLevel).       *)
(***************************************************************************)
EXTENDS Integers, FiniteSets

CONSTANTS
    Symbols,    \* market symbols that occur in a file
    OptSymbol,  \* Options.Symbol: the symbol filter, or AnySymbol
    AnySymbol   \* the empty Options.Symbol

RawRows ==
    [type : {"depth", "trade", "garbage"}, symbol : Symbols, time : Int,
     first : Int, final : Int, trade : Int, priced : BOOLEAN]

Entry == [ok : BOOLEAN, last : Int]
Missing == [ok |-> FALSE, last |-> 0]
Present(x) == [ok |-> TRUE, last |-> x]

FailureKinds == {"malformed", "time", "depth_gap", "depth_order",
                 "trade_gap", "trade_order"}

Trackings == [time : [Symbols -> Entry], depth : [Symbols -> Entry],
              trade : [Symbols -> Entry]]

(***************************************************************************)
(* validateEventShape: the conditions under which a decoded row becomes an *)
(* event; any other row becomes a Record with Err set.                     *)
(***************************************************************************)
validateEventShape(row) ==
    \/ row.type = "depth" /\ row.time > 0 /\ row.final >= row.first
    \/ row.type = "trade" /\ row.time > 0 /\ row.trade > 0

\* The early returns shared by Process and Prime.
InScope(row) ==
    validateEventShape(row) /\ (OptSymbol = AnySymbol \/ row.symbol = OptSymbol)

\* checkTime / checkDepthSequence / checkTradeSequence: `if !ok || x > last`.
Checked(e, x) == IF ~e.ok \/ x > e.last THEN Present(x) ELSE e

\* Prime: `if x > m[symbol]`, where an absent key reads as 0.
Raised(e, x) == IF x > e.last THEN Present(x) ELSE e

checkTime(t, row) ==
    IF t.time[row.symbol].ok /\ row.time < t.time[row.symbol].last
    THEN {"time"} ELSE {}

checkDepthSequence(t, row) ==
    LET e == t.depth[row.symbol] IN
    (IF e.ok /\ row.first # e.last + 1 THEN {"depth_gap"} ELSE {})
        \cup (IF e.ok /\ row.final <= e.last THEN {"depth_order"} ELSE {})

checkTradeSequence(t, row) ==
    LET e == t.trade[row.symbol] IN
    (IF e.ok /\ row.trade # e.last + 1 THEN {"trade_gap"} ELSE {})
        \cup (IF e.ok /\ row.trade <= e.last THEN {"trade_order"} ELSE {})

\* The failures Process adds for one row, read against the tracking maps.
RowFailures(t, row) ==
    IF ~validateEventShape(row) THEN {"malformed"}
    ELSE IF ~InScope(row) THEN {}
    ELSE checkTime(t, row)
         \cup (IF row.type = "depth" THEN checkDepthSequence(t, row)
                                     ELSE checkTradeSequence(t, row))

\* The tracking maps after a row, given how one entry absorbs a value.
Track(t, row, Absorb(_, _)) ==
    IF ~InScope(row) THEN t
    ELSE [time  |-> [t.time EXCEPT ![row.symbol] = Absorb(@, row.time)],
          depth |-> IF row.type = "depth"
                    THEN [t.depth EXCEPT ![row.symbol] = Absorb(@, row.final)]
                    ELSE t.depth,
          trade |-> IF row.type = "trade"
                    THEN [t.trade EXCEPT ![row.symbol] = Absorb(@, row.trade)]
                    ELSE t.trade]

(***************************************************************************)
(* A validator: the tracking maps, the row and event counters and the      *)
(* failures as <<line, kind>> pairs.                                       *)
(***************************************************************************)
NewValidator ==
    [track |-> [time  |-> [s \in Symbols |-> Missing],
                depth |-> [s \in Symbols |-> Missing],
                trade |-> [s \in Symbols |-> Missing]],
     rows |-> 0, events |-> 0, failures |-> {}]

Validators == [track : Trackings, rows : Int, events : Int,
               failures : SUBSET (Int \X FailureKinds)]

Process(v, line, row) ==
    [track    |-> Track(v.track, row, Checked),
     rows     |-> v.rows + 1,
     events   |-> IF InScope(row) THEN v.events + 1 ELSE v.events,
     failures |-> v.failures \cup ({line} \X RowFailures(v.track, row))]

\* Mutant: priming leaves the last event time of the symbol alone.
PrimeWithoutTime(v, row) ==
    [v EXCEPT !.track = [Track(v.track, row, Raised) EXCEPT !.time = v.track.time]]

\* Mutant: primed rows are counted again.
PrimeCounted(v, row) ==
    [v EXCEPT !.track = Track(v.track, row, Raised), !.rows = @ + 1]

Prime(v, row) == [v EXCEPT !.track = Track(v.track, row, Raised)]
=============================================================================
