--------------------------- MODULE KafkaPipeline ----------------------------
(***************************************************************************)
(* The Kafka data plane: `kafka-replay produce` publishes a file to the    *)
(* raw topics, `kafka-replay validate` consumes them in a group and routes *)
(* every record to market.replay.validated or market.replay.errors.        *)
(*                                                                         *)
(* A topic is one log: messages are keyed by symbol, so the records of a   *)
(* symbol stay in order also when a topic has more partitions.  Offsets    *)
(* count from 1; "up to o" includes o.                                     *)
(*                                                                         *)
(* The broker and franz-go are external.  PollFetches returns, per topic,  *)
(* the next records not returned before, one topic after the other in any  *)
(* order.  Autocommit and the commit on leaving the group store what       *)
(* earlier polls returned, never the records of the latest poll.  A group  *)
(* without a commit starts at the beginning.                               *)
(***************************************************************************)
EXTENDS Validate, Sequences

CONSTANTS
    Files,        \* the files that may be published, as sequences of rows
    ForeignRows,  \* what another producer may write to a raw topic
    MaxTrouble    \* bound: publications, foreign messages and stops together

ASSUME KafkaAssumption ==
    /\ Files \subseteq Seq(RawRows) /\ ForeignRows \subseteq RawRows
    /\ MaxTrouble \in Nat
    /\ OptSymbol = AnySymbol   \* NewValidator passes no options on

Topics == {"depth", "trade"}

VARIABLES
    file,       \* the file of this deployment
    pub,        \* the publisher: runs begun, whether one is under way, its line
    log,        \* log[t]: the rows of raw topic t
    foreign,    \* how many foreign messages were written
    committed,  \* committed[t]: the group's offset at the broker
    up,         \* whether a consumer is running
    safe,       \* safe[t]: up to where earlier polls of this consumer went
    head,       \* head[t]: up to where its latest poll went
    done,       \* done[t]: up to where its records have been routed
    first,      \* the topic the latest poll returned first
    state,      \* its validate.Validator
    stops,      \* how often a consumer has stopped
    routed,     \* history: <<t, offset, kinds>>, no kinds for the validated topic
    starts      \* history: starts[t]: the offsets consumers started after

consumerVars == <<committed, up, safe, head, done, first, state, stops, routed, starts>>
vars == <<file, pub, log, foreign, consumerVars>>

CanHappen == pub.runs + foreign + stops < MaxTrouble

Nowhere == [t \in Topics |-> 0]

\* Mutant: the validator of the consumer that stopped is used again.
StartKnowing(at) ==
    /\ safe' = at /\ head' = at /\ done' = at
    /\ first' = "depth"
    /\ state' = state
    /\ starts' = [t \in Topics |-> starts[t] \cup {at[t]}]

\* NewKgoConsumer and NewValidator: at the committed offset, knowing nothing.
Start(at) ==
    /\ safe' = at /\ head' = at /\ done' = at
    /\ first' = "depth"
    /\ state' = NewValidator
    /\ starts' = [t \in Topics |-> starts[t] \cup {at[t]}]

Init ==
    /\ file \in Files
    /\ pub = [runs |-> 0, active |-> FALSE, line |-> 0]
    /\ log = [t \in Topics |-> <<>>]
    /\ foreign = 0
    /\ committed = Nowhere
    /\ up = TRUE
    /\ safe = Nowhere /\ head = Nowhere /\ done = Nowhere
    /\ first = "depth"
    /\ state = NewValidator
    /\ stops = 0
    /\ routed = {}
    /\ starts = [t \in Topics |-> {0}]

-----------------------------------------------------------------------------
(* PublishStreamWithTopics *)

\* RawTopicForEventType, for the two types of events there are.
RawTopic(row) == row.type

\* json.Marshal of a MarketEvent, as the consumer reads it back: omitempty
\* drops an update id of zero, which a depth event requires; a price level
\* is written in its object form, which refuses an empty price or quantity.
Marshal(row) ==
    IF \/ ~row.priced
       \/ row.type = "depth" /\ (row.first = 0 \/ row.final = 0)
    THEN [row EXCEPT !.type = "garbage"] ELSE row

BeginPublish ==
    /\ ~pub.active /\ CanHappen
    /\ pub' = [runs |-> pub.runs + 1, active |-> TRUE, line |-> 0]
    /\ UNCHANGED <<file, log, foreign, consumerVars>>

\* The next record is written to the topic of its type.
Publish ==
    LET row == file[pub.line + 1] IN
    /\ pub.active /\ pub.line < Len(file)
    /\ validateEventShape(row)
    /\ log' = [log EXCEPT ![RawTopic(row)] = Append(@, Marshal(row))]
    /\ pub' = [pub EXCEPT !.line = @ + 1]
    /\ UNCHANGED <<file, foreign, consumerVars>>

\* End of file, a row that does not parse, or an error of Produce, whose
\* message may have reached the broker: the command ends.
EndPublish ==
    /\ pub.active
    /\ \/ UNCHANGED log
       \/ /\ pub.line < Len(file) /\ validateEventShape(file[pub.line + 1])
          /\ log' = [log EXCEPT ![RawTopic(file[pub.line + 1])] =
                        Append(@, Marshal(file[pub.line + 1]))]
    /\ pub' = [pub EXCEPT !.active = FALSE]
    /\ UNCHANGED <<file, foreign, consumerVars>>

\* Another producer writes to a raw topic.
Foreign(t, row) ==
    /\ CanHappen
    /\ foreign' = foreign + 1
    /\ log' = [log EXCEPT ![t] = Append(@, row)]
    /\ UNCHANGED <<file, pub, consumerVars>>

-----------------------------------------------------------------------------
(* KgoConsumer.Poll and Validator.Run *)

\* Mutant: the client is polled while records of the last poll are pending.
PollFetchesEarly ==
    /\ up
    /\ safe' = head
    /\ \E n \in [Topics -> 0 .. (Len(log["depth"]) + Len(log["trade"]))] :
          /\ \A t \in Topics : n[t] >= head[t] /\ n[t] <= Len(log[t])
          /\ head' = n
    /\ first' \in {first} \cup {t \in Topics : head'[t] > head[t]}
    /\ UNCHANGED <<file, pub, log, foreign, committed, up, done, state, stops, routed, starts>>

\* Poll asks the client only when every pending record has been handed out,
\* and Run asks for the next one only when it has been routed.  The client
\* marks what it returned before as it begins to wait, so a poll without new
\* records is one that still waits for them.
PollFetches ==
    /\ up
    /\ \A t \in Topics : done[t] = head[t]
    /\ safe' = head
    /\ \E n \in [Topics -> 0 .. (Len(log["depth"]) + Len(log["trade"]))] :
          /\ \A t \in Topics : n[t] >= head[t] /\ n[t] <= Len(log[t])
          /\ head' = n
    /\ first' \in {first} \cup {t \in Topics : head'[t] > head[t]}
    /\ UNCHANGED <<file, pub, log, foreign, committed, up, done, state, stops, routed, starts>>

\* The pending record Poll hands out next is one of topic t.
Pending(t) ==
    /\ up /\ done[t] < head[t]
    /\ t = first \/ done[first] = head[first]

(***************************************************************************)
(* Validator.Process up to its Produce: a message that does not parse or   *)
(* is on the topic of the other type never reaches the validator state.    *)
(***************************************************************************)
Rejected(t, row) ==
    (IF validateEventShape(row) THEN {} ELSE {"undecodable"})
        \cup (IF validateEventShape(row) /\ RawTopic(row) # t THEN {"topic"} ELSE {})

\* Mutant: a record on the wrong topic is tracked before it is rejected.
ProcessedAlways(t, o) == Process(state, o, log[t][o])

Processed(t, o) ==
    IF Rejected(t, log[t][o]) = {} THEN Process(state, o, log[t][o]) ELSE state

\* The failures a record is routed for; the envelope names the last of them.
Kinds(t, o) ==
    IF Rejected(t, log[t][o]) = {} THEN RowFailures(state.track, log[t][o])
    ELSE Rejected(t, log[t][o])

\* The verdict is produced, and Run goes on.
Route(t) ==
    LET o == done[t] + 1 IN
    /\ Pending(t)
    /\ routed' = routed \cup {<<t, o, Kinds(t, o)>>}
    /\ state' = Processed(t, o)
    /\ done' = [done EXCEPT ![t] = o]
    /\ UNCHANGED <<file, pub, log, foreign, committed, up, safe, head, first, stops, starts>>

AutoCommit ==
    /\ up
    /\ committed' = safe
    /\ UNCHANGED <<file, pub, log, foreign, up, safe, head, done, first, state, stops, routed,
                   starts>>

\* The consumer ends: it is killed, Poll fails, or a Produce fails, whose
\* message may have reached the broker.  One that closes commits once more.
StopConsumer ==
    /\ up /\ CanHappen
    /\ stops' = stops + 1
    /\ up' = FALSE
    /\ committed' \in {committed, safe}
    /\ \/ UNCHANGED routed
       \/ \E t \in Topics :
             /\ Pending(t)
             /\ routed' = routed \cup {<<t, done[t] + 1, Kinds(t, done[t] + 1)>>}
    /\ UNCHANGED <<file, pub, log, foreign, safe, head, done, first, state, starts>>

StartConsumer ==
    /\ ~up
    /\ up' = TRUE
    /\ Start(committed)
    /\ UNCHANGED <<file, pub, log, foreign, committed, stops, routed>>

-----------------------------------------------------------------------------
Next ==
    \/ BeginPublish \/ Publish \/ EndPublish
    \/ \E t \in Topics, row \in ForeignRows : Foreign(t, row)
    \/ PollFetches \/ AutoCommit \/ StopConsumer \/ StartConsumer
    \/ \E t \in Topics : Route(t)

Spec == Init /\ [][Next]_vars

-----------------------------------------------------------------------------
Offsets(t) == 1 .. Len(log[t])

(***************************************************************************)
(* No record is lost: what the group's committed offset passes over has    *)
(* been routed, however consumers stop between a poll, a Produce and a     *)
(* commit (Poll fetches only when nothing is pending, Run polls only after *)
(* Process).                                                               *)
(***************************************************************************)
NothingLost ==
    \A t \in Topics : \A o \in 1 .. committed[t] :
        \E r \in routed : r[1] = t /\ r[2] = o

\* The records of topic t after s and before o that the validator tracks
\* together with the one at o.
Earlier(t, s, o) ==
    {i \in (s + 1) .. (o - 1) : Rejected(t, log[t][i]) = {}
                                /\ log[t][i].symbol = log[t][o].symbol}

IdOf(row) == IF row.type = "depth" THEN row.final ELSE row.trade
FirstIdOf(row) == IF row.type = "depth" THEN row.first ELSE row.trade

(***************************************************************************)
(* The sequence verdict on a record depends on its own topic and on where  *)
(* the consumer started, and on nothing else: it has a gap exactly if the  *)
(* greatest earlier id that consumer saw for the symbol is not its         *)
(* predecessor.  So a gap is missed, or a record reported, only because of *)
(* a restart right after it, whatever the batches, the other topic and     *)
(* foreign messages do (Process 71-100 over checkDepthSequence and         *)
(* checkTradeSequence).                                                    *)
(***************************************************************************)
SequenceVerdicts ==
    \A r \in routed :
        LET t == r[1]
            o == r[2]
            row == log[t][o]
        IN  Rejected(t, row) = {} =>
            \E s \in starts[t] :
                LET before == Earlier(t, s, o) IN
                /\ s < o
                /\ r[3] \cap {"depth_gap", "trade_gap"} # {} <=>
                      /\ before # {}
                      /\ ~\E i \in before :
                            /\ IdOf(log[t][i]) = FirstIdOf(row) - 1
                            /\ \A k \in before : IdOf(log[t][k]) <= IdOf(log[t][i])

\* A file a file-level validation finds nothing in.
Clean(rows) ==
    /\ \A l \in DOMAIN rows : validateEventShape(rows[l])
    /\ \A l, n \in DOMAIN rows :
          /\ l < n
          /\ rows[l].symbol = rows[n].symbol
          => /\ rows[l].time <= rows[n].time
             /\ rows[l].type = rows[n].type
                /\ (\A k \in (l + 1) .. (n - 1) : rows[k].symbol = rows[l].symbol
                                                    => rows[k].type # rows[l].type)
                => FirstIdOf(rows[n]) = IdOf(rows[l]) + 1

\* No row becomes another one by being published: the update ids are not
\* zero and every price level has a price and a quantity.
Encodable(rows) == \A l \in DOMAIN rows : Marshal(rows[l]) = rows[l]

(***************************************************************************)
(* A clean and encodable file published once raises no false alarm through *)
(* restarts and redeliveries, but for one kind: a depth and a trade record *)
(* of a symbol may arrive in either order, and the later one is then       *)
(* reported for its time (the two topics share lastTime, validator.go 85). *)
(* A clean file that is not encodable does raise one: its row is routed to *)
(* the errors topic as undecodable.                                        *)
(***************************************************************************)
NoFalseAlarm ==
    Clean(file) /\ Encodable(file) /\ pub.runs <= 1 /\ foreign = 0 =>
        \A r \in routed :
            /\ r[3] \subseteq {"time"}
            /\ r[3] # {} => \E l, n \in DOMAIN file : RawTopic(file[l]) # RawTopic(file[n])
=============================================================================
