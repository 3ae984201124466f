-------------------------------- MODULE Flows --------------------------------
(***************************************************************************)
(* The flows of a scraper that write what they extract to a sink: batch,   *)
(* stream, export and crawl, src/src/Sengkrep.js:661.  The sink is the     *)
(* caller's, or is made for the flow and owned by it; export of URLs calls *)
(* batch with the same options, and so makes two or writes to one twice.   *)
(*                                                                         *)
(* Of the sink, modelled in Sink, there is here that a write that fills    *)
(* the buffer has it stored, or given up after the last attempt, in which  *)
(* case the write throws.  A row is the number of its URL.                 *)
(***************************************************************************)
EXTENDS Naturals, Sequences, FiniteSets

CONSTANTS
    Pages,          \* how many URLs
    ChunkSize,      \* options.concurrency
    SinkBatch,
    MaxFlowPauses   \* bound: calls of pause() in a crawl

ASSUME FlowsAssumption == Pages \in Nat /\ ChunkSize \in Nat /\ SinkBatch \in Nat \ {0}

VARIABLES
    flow,      \* its kind, and whether it owns its sinks
    phase,     \* "extracting", "writing", "yielded", "exporting"; then how it ended
    begun,     \* how many URLs were extracted, or failed to be
    due,       \* the rows of the chunk that are not written yet
    read,      \* the rows extracted so far
    passed,    \* those the flow has written, or yielded
    sinks,     \* of each sink its buffer, the rows it stored and gave up, and _closed
    turnedAway,\* history: rows the closed sink did not take
    flowPauses

flowVars == <<flow, phase, begun, due, read, passed, sinks, turnedAway, flowPauses>>

Kinds == {"batch", "stream", "export", "crawl"}
NewSink == [buffer |-> <<>>, stored |-> <<>>, givenUp |-> <<>>, closed |-> FALSE]
Ended == {"resolved", "rejected", "left"}

\* _resolveSink, by the flow and by the batch in an export.
Target == IF flow.owned /\ flow.kind = "export" THEN "inner" ELSE "outer"

FlowInit ==
    /\ flow \in [kind: Kinds, owned: BOOLEAN]
    /\ phase = "extracting" /\ begun = 0 /\ due = <<>> /\ read = {} /\ passed = {}
    /\ sinks = [s \in {"inner", "outer"} |-> NewSink]
    /\ turnedAway = {} /\ flowPauses = 0

-----------------------------------------------------------------------------
FlushedOut(sink) == [sink EXCEPT !.buffer = <<>>, !.stored = @ \o sink.buffer]
FlushGivenUp(sink) == [sink EXCEPT !.buffer = <<>>, !.givenUp = @ \o sink.buffer]

\* sink.write(rows), with what follows, in phase, if it returns or if it throws.
WriteTo(s, list, returned, thrown) ==
    LET filled == [sinks[s] EXCEPT !.buffer = @ \o list]
    IN  IF sinks[s].closed
        THEN thrown /\ UNCHANGED sinks /\ turnedAway' = turnedAway \union {list[k] : k \in DOMAIN list}
        ELSE /\ UNCHANGED turnedAway
             /\ IF Len(filled.buffer) < SinkBatch THEN returned /\ sinks' = [sinks EXCEPT ![s] = filled]
                ELSE \/ returned /\ sinks' = [sinks EXCEPT ![s] = FlushedOut(filled)]
                     \/ thrown /\ sinks' = [sinks EXCEPT ![s] = FlushGivenUp(filled)]

Closed(sink) == [sink EXCEPT !.closed = flow.owned \/ @]

\* _sinkFinish: flush, and close, also when flush threw, if the sink is owned.
Finish(s, returned, thrown) ==
    \/ returned /\ sinks' = [sinks EXCEPT ![s] = Closed(FlushedOut(@))]
    \/ sinks[s].buffer # <<>> /\ thrown /\ sinks' = [sinks EXCEPT ![s] = Closed(FlushGivenUp(@))]

\* Some of the rows, in the order of their URLs.
InOrder(extracted) ==
    LET taken[k \in 0..Pages] ==
            IF k = 0 THEN <<>> ELSE IF k \in extracted THEN Append(taken[k - 1], k) ELSE taken[k - 1]
    IN  taken[Pages]

\* A chunk is extracted, each URL of it with success or not.
ChunkSettles ==
    /\ phase = "extracting" /\ begun < Pages
    /\ LET last == IF begun + ChunkSize < Pages THEN begun + ChunkSize ELSE Pages
       IN  /\ begun' = last
           /\ \E ok \in SUBSET (begun + 1..last) :
                 /\ read' = read \union ok
                 /\ due' = InOrder(ok)
    /\ phase' = "writing"
    /\ UNCHANGED <<flow, passed, sinks, turnedAway, flowPauses>>

\* The next row of a chunk.  A throw ends a batch at once, a stream by its finally, and of a
\* crawl nothing but the visit.
RowWritten ==
    /\ phase = "writing" /\ due # <<>>
    /\ due' = Tail(due)
    /\ WriteTo(Target, <<Head(due)>>,
               phase' = (IF flow.kind = "stream" THEN "yielded" ELSE "writing") /\ passed' = passed \union {Head(due)},
               phase' = (CASE flow.kind = "stream" -> "rejecting" [] flow.kind = "crawl" -> "writing"
                           [] OTHER -> "rejected") /\ UNCHANGED passed)
    /\ UNCHANGED <<flow, begun, read, flowPauses>>

\* The caller of a stream goes on, or leaves it, by a break or a return; and the stream
\* yields what failed to be extracted, too.
Consumed ==
    /\ \/ phase = "yielded" /\ phase' \in {"writing", "leaving"}
       \/ /\ flow.kind = "stream" /\ phase = "writing" /\ Cardinality(read) < begun
          /\ phase' = "leaving"
    /\ UNCHANGED <<flow, begun, due, read, passed, sinks, turnedAway, flowPauses>>

ChunkDone ==
    /\ phase = "writing" /\ due = <<>>
    /\ phase' = IF begun < Pages THEN "extracting" ELSE "finishing"
    /\ UNCHANGED <<flow, begun, due, read, passed, sinks, turnedAway, flowPauses>>

\* pause() lets the crawl end behind the chunk under way, and resume() goes on where it was.
PauseCrawl ==
    /\ flow.kind = "crawl" /\ phase = "extracting" /\ flowPauses < MaxFlowPauses
    /\ phase' = "finishing" /\ flowPauses' = flowPauses + 1
    /\ UNCHANGED <<flow, begun, due, read, passed, sinks, turnedAway>>

ResumeCrawl ==
    /\ flow.kind = "crawl" /\ phase \in {"resolved", "rejected"} /\ begun < Pages
    /\ phase' = "extracting"
    /\ UNCHANGED <<flow, begun, due, read, passed, sinks, turnedAway, flowPauses>>

\* The end of the loop, or the finally of a stream.
FlowFinishes ==
    /\ phase \in {"finishing", "leaving", "rejecting"}
    /\ Finish(Target,
              phase' = (CASE phase = "leaving" -> "left" [] phase = "rejecting" -> "rejected"
                          [] flow.kind = "export" -> "exporting" [] OTHER -> "resolved"),
              phase' = "rejected")
    /\ UNCHANGED <<flow, begun, due, read, passed, turnedAway, flowPauses>>

\* export writes the data of the batch that is done, all of them in one call, and finishes.
Exported ==
    /\ phase = "exporting"
    /\ WriteTo("outer", InOrder(read), phase' = "exported", phase' = "rejected")
    /\ UNCHANGED <<flow, begun, due, read, passed, flowPauses>>

ExportFinishes ==
    /\ phase = "exported"
    /\ Finish("outer", phase' = "resolved", phase' = "rejected")
    /\ UNCHANGED <<flow, begun, due, read, passed, turnedAway, flowPauses>>

FlowStep ==
    ChunkSettles \/ RowWritten \/ Consumed \/ ChunkDone \/ FlowFinishes \/ Exported \/ ExportFinishes

FlowNext == FlowStep \/ PauseCrawl \/ ResumeCrawl

-----------------------------------------------------------------------------
Times(list, row) == Cardinality({k \in DOMAIN list : list[k] = row})
Handled(row) ==
    LET of(sink) == Times(sink.stored, row) + Times(sink.givenUp, row)
    IN  of(sinks["inner"]) + of(sinks["outer"])

\* A flow that resolves has had every row it extracted stored or given up by the driver,
\* once (twice in an export, by its batch and by itself), and leaves no row in a buffer and
\* no sink of its own open.  The same goes for what a stream has yielded however it ends.
\* Only a driver that gave up a batch makes a flow reject; and only the crawl that was
\* resumed, whose sink its first end has closed, has rows the sink does not take.
FlowKeeps ==
    LET times == IF flow.kind = "export" THEN 2 ELSE 1
        settled(s) == sinks[s].buffer = <<>> /\ (flow.owned => sinks[s].closed)
    IN  /\ phase = "resolved" =>
              /\ \A r \in read \ turnedAway : Handled(r) = times
              /\ settled(Target) /\ settled("outer")
        /\ flow.kind = "stream" /\ phase \in Ended =>
              /\ \A r \in passed : Handled(r) = 1
              /\ settled(Target)
        /\ phase = "rejected" => \E s \in DOMAIN sinks : sinks[s].givenUp # <<>>
        /\ turnedAway # {} => flow.kind = "crawl" /\ flow.owned /\ flowPauses > 0
=============================================================================
