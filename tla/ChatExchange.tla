---------------------------- MODULE ChatExchange ----------------------------
(***************************************************************************)
(* One POST /api/chat exchange (internal/proxy/proxy.go): the handler      *)
(* goroutine that forwards the request, relays the answer and hands an     *)
(* event to a detached recording goroutine; the client, which may hang up  *)
(* at any moment; and the upstream server, which may refuse, answer in     *)
(* lines, stop half-way or stay silent for ever.                           *)
(*                                                                         *)
(* The body of an answer is a sequence of lines, each of which is          *)
(*   "part"  a JSON object without "done": true,                           *)
(*   "done"  a JSON object with "done": true, carrying the usage, or       *)
(*   "junk"  bytes that do not parse (also the torn last line of a         *)
(*           connection that broke).                                       *)
(***************************************************************************)
EXTENDS Naturals, Sequences

CONSTANT MaxLines      \* bound on the lines one answer has

ASSUME MaxLinesAssumption == MaxLines \in Nat

VARIABLES
  pc,          \* where the handler is
  request,     \* what ParseChatRequest makes of the request body
  conn,        \* the client's connection: "open" or "left"
  cancelled,   \* the server has noticed the hang-up: r.Context() is done
  up,          \* the upstream connection
  resp,        \* status, content type and framing of the upstream's answer
  sent,        \* the lines the upstream has sent
  seen,        \* how many of them the handler has read
  finalUsage,  \* index of the last "done" line read, 0 for nil
  event,       \* the event being filled in
  handed,      \* how many times persistAsync was called
  job,         \* the recording goroutine
  view         \* what the client has received

vars == <<pc, request, conn, cancelled, up, resp, sent, seen, finalUsage,
          event, handed, job, view>>

clientVars   == <<conn, cancelled>>
upstreamVars == <<up, resp, sent>>

Line     == {"part", "done", "junk"}
Requests == {"stream", "whole", "unparsable"}
Answers  == [status : {"ok", "error"}, ctype : {"ndjson", "events", "json"},
             framing : {"length", "chunked"}]

NoAnswer == [status |-> "none", ctype |-> "none", framing |-> "none"]
NoEvent  == [status |-> "none", stream |-> FALSE, aborted |-> FALSE,
             failed |-> FALSE, success |-> FALSE, usage |-> 0]
NoView   == [status |-> "none", lines |-> <<>>, end |-> "open"]

ChatEvents  == [status : {"none", "ok", "error", "502"}, stream : BOOLEAN,
                aborted : BOOLEAN, failed : BOOLEAN, success : BOOLEAN,
                usage : Nat]
ClientViews == [status : {"none", "ok", "error", "400", "500", "502"},
                lines : Seq(Line), end : {"open", "clean", "cut"}]

Init ==
  /\ pc = "reading" /\ request \in Requests
  /\ conn = "open" /\ cancelled = FALSE
  /\ up = "idle" /\ resp = NoAnswer /\ sent = <<>>
  /\ seen = 0 /\ finalUsage = 0
  /\ event = NoEvent /\ handed = 0 /\ job = "none"
  /\ view = NoView

-----------------------------------------------------------------------------
(* The client and the server's watch on its connection *)

ClientLeaves ==
  /\ conn = "open" /\ view.end = "open"
  /\ conn' = "left"
  /\ UNCHANGED <<pc, request, cancelled, upstreamVars, seen, finalUsage,
                 event, handed, job, view>>

(* net/http watches the connection once the request body has been read. *)
NoticeHangUp ==
  /\ conn = "left" /\ ~cancelled /\ pc # "reading"
  /\ cancelled' = TRUE
  /\ UNCHANGED <<pc, request, conn, upstreamVars, seen, finalUsage, event,
                 handed, job, view>>

(* Bytes written to a connection the client has left may still be accepted. *)
WriteOutcomes == IF conn = "open" THEN {TRUE} ELSE {TRUE, FALSE}

Received(lines) == IF conn = "open"
                   THEN [view EXCEPT !.lines = @ \o lines]
                   ELSE view

-----------------------------------------------------------------------------
(* The upstream server *)

UpstreamRefuses ==
  /\ pc = "dialing" /\ up = "idle"
  /\ up' = "refused"
  /\ UNCHANGED <<pc, request, clientVars, resp, sent, seen, finalUsage,
                 event, handed, job, view>>

UpstreamAnswers ==
  /\ pc = "dialing" /\ up = "idle"
  /\ up' = "open" /\ resp' \in Answers
  /\ UNCHANGED <<pc, request, clientVars, sent, seen, finalUsage, event,
                 handed, job, view>>

UpstreamSends ==
  /\ up = "open" /\ Len(sent) < MaxLines
  /\ \E line \in Line : sent' = Append(sent, line)
  /\ UNCHANGED <<pc, request, clientVars, up, resp, seen, finalUsage,
                 event, handed, job, view>>

(* The answer is complete, or the connection breaks before it is. *)
UpstreamStops ==
  /\ up = "open"
  /\ up' \in {"ended", "broken"}
  /\ UNCHANGED <<pc, request, clientVars, resp, sent, seen, finalUsage,
                 event, handed, job, view>>

-----------------------------------------------------------------------------
(* handleChat *)

(* http.Error: nothing was written before, so the answer is this status. *)
Refuse(status) == IF conn = "open" THEN [view EXCEPT !.status = status]
                                   ELSE view

(* The request body cannot be read, or no upstream request can be built    *)
(* from it: the exchange ends without an event.                            *)
RejectRequest ==
  /\ pc = "reading"
  /\ \E status \in {"400", "500"} : view' = Refuse(status)
  /\ pc' = "returning"
  /\ UNCHANGED <<request, clientVars, upstreamVars, seen, finalUsage, event,
                 handed, job>>

ForwardRequest ==
  /\ pc = "reading"
  /\ pc' = "dialing"
  /\ UNCHANGED <<request, clientVars, upstreamVars, seen, finalUsage, event,
                 handed, job, view>>

(* Fault: an exchange that fails before an answer is not recorded *)
DialFailsUnrecorded ==
  /\ pc = "dialing"
  /\ up = "refused" \/ cancelled
  /\ event' = [event EXCEPT !.status = "502", !.failed = TRUE]
  /\ view' = Refuse("502")
  /\ pc' = "returning"
  /\ UNCHANGED <<request, clientVars, upstreamVars, seen, finalUsage, handed,
                 job>>

(* client.Do failed: refused, lost before the headers, or cancelled *)
DialFails ==
  /\ pc = "dialing"
  /\ up = "refused" \/ cancelled
  /\ event' = [event EXCEPT !.status = "502", !.failed = TRUE]
  /\ view' = Refuse("502")
  /\ handed' = handed + 1 /\ job' = "running"
  /\ pc' = "returning"
  /\ UNCHANGED <<request, clientVars, upstreamVars, seen, finalUsage>>

(* IsStreamingResponse, and the correction for an unparsable request *)
Streaming ==
  /\ resp.status = "ok"
  /\ resp.ctype # "json" \/ request = "stream"
  /\ request # "unparsable" \/ resp.ctype = "ndjson"

StartRelay ==
  /\ pc = "dialing" /\ resp # NoAnswer
  /\ IF Streaming
     THEN pc' = "streaming" /\ event' = [event EXCEPT !.stream = TRUE]
     ELSE pc' = "buffering" /\ UNCHANGED event
  /\ view' = IF conn = "open" THEN [view EXCEPT !.status = resp.status]
                              ELSE view
  /\ UNCHANGED <<request, clientVars, upstreamVars, seen, finalUsage, handed,
                 job>>

(* The tail of handleChat: Success, then persistAsync *)
Record ==
  /\ pc = "recording"
  /\ event' = [event EXCEPT !.success = /\ event.status = "ok"
                                        /\ ~event.aborted
                                        /\ ~event.failed]
  /\ handed' = handed + 1 /\ job' = "running"
  /\ pc' = "returning"
  /\ UNCHANGED <<request, clientVars, upstreamVars, seen, finalUsage, view>>

-----------------------------------------------------------------------------
(* handleStreamingResponse *)

(* Fault: the upstream request is not bound to the client's context *)
ReadFailsUnbound == up = "broken"

ReadFails == up = "broken" \/ cancelled

(* Fault: the relay stops at the final chunk *)
RelayLineStopsAtDone ==
  /\ pc = "streaming" /\ seen < Len(sent)
  /\ seen' = seen + 1
  /\ view' = Received(<<sent[seen + 1]>>)
  /\ finalUsage' = IF sent[seen + 1] = "done" THEN seen + 1 ELSE finalUsage
  /\ pc' = IF sent[seen + 1] = "done" THEN "recording" ELSE pc
  /\ event' = IF sent[seen + 1] = "done"
              THEN [event EXCEPT !.status = resp.status, !.usage = seen + 1]
              ELSE event
  /\ UNCHANGED <<request, clientVars, upstreamVars, handed, job>>

(* Fault: the first final chunk wins *)
RelayLineKeepsFirst ==
  /\ pc = "streaming" /\ seen < Len(sent)
  /\ seen' = seen + 1
  /\ view' = Received(<<sent[seen + 1]>>)
  /\ finalUsage' = IF sent[seen + 1] = "done" /\ finalUsage = 0
                   THEN seen + 1 ELSE finalUsage
  /\ UNCHANGED <<pc, request, clientVars, upstreamVars, event, handed, job>>

(* One line is read, written on and flushed, then searched for usage. *)
RelayLine ==
  /\ pc = "streaming" /\ seen < Len(sent)
  /\ seen' = seen + 1
  /\ view' = Received(<<sent[seen + 1]>>)
  /\ finalUsage' = IF sent[seen + 1] = "done" THEN seen + 1 ELSE finalUsage
  /\ UNCHANGED <<pc, request, clientVars, upstreamVars, event, handed, job>>

(* The write fails: usage already seen is dropped. *)
RelayLineFails ==
  /\ pc = "streaming" /\ seen < Len(sent) /\ FALSE \in WriteOutcomes
  /\ seen' = seen + 1
  /\ event' = [event EXCEPT !.status = resp.status, !.aborted = TRUE,
                            !.failed = TRUE]
  /\ pc' = "recording"
  /\ UNCHANGED <<request, clientVars, upstreamVars, finalUsage, handed, job,
                 view>>

(* Fault: a read error after the loop is forgotten *)
StreamEventForgetsError(readFailed) ==
  [event EXCEPT !.status = resp.status, !.aborted = (finalUsage = 0),
                !.usage = finalUsage]

(* Fault: only a read error marks an abort *)
StreamEventTrustsEnd(readFailed) ==
  [event EXCEPT !.status = resp.status, !.failed = readFailed,
                !.aborted = readFailed /\ finalUsage = 0,
                !.usage = finalUsage]

(* After the loop: no final chunk means an abort; else its usage applies,   *)
(* also when the loop ended in a read error.                                *)
StreamEvent(readFailed) ==
  [event EXCEPT !.status = resp.status, !.failed = readFailed,
                !.aborted = (finalUsage = 0), !.usage = finalUsage]

StreamEnds ==
  /\ pc = "streaming" /\ up = "ended" /\ seen = Len(sent)
  /\ event' = StreamEvent(FALSE)
  /\ pc' = "recording"
  /\ UNCHANGED <<request, clientVars, upstreamVars, seen, finalUsage, handed,
                 job, view>>

StreamFails ==
  /\ pc = "streaming" /\ ReadFails
  /\ event' = StreamEvent(TRUE)
  /\ pc' = "recording"
  /\ UNCHANGED <<request, clientVars, upstreamVars, seen, finalUsage, handed,
                 job, view>>

-----------------------------------------------------------------------------
(* handleBufferedResponse *)

(* io.ReadAll fails: the event says so, the client gets no body at all. *)
BufferFails ==
  /\ pc = "buffering" /\ ReadFails
  /\ event' = [event EXCEPT !.status = resp.status, !.failed = TRUE]
  /\ pc' = "recording"
  /\ UNCHANGED <<request, clientVars, upstreamVars, seen, finalUsage, handed,
                 job, view>>

(* Fault: an empty body counts as parsed *)
ParsedUsageOfNothing == IF Len(sent) = 0 \/ sent[1] # "junk" THEN 1 ELSE 0

(* ExtractNonStream accepts exactly one JSON object. *)
ParsedUsage == IF Len(sent) = 1 /\ sent[1] # "junk" THEN 1 ELSE 0

BufferRelays ==
  /\ pc = "buffering" /\ up = "ended"
  /\ seen' = Len(sent)
  /\ \E written \in WriteOutcomes :
       IF written
       THEN /\ view' = Received(sent)
            /\ event' = [event EXCEPT !.status = resp.status,
                 !.usage = IF resp.status = "ok" THEN ParsedUsage ELSE 0]
       ELSE /\ event' = [event EXCEPT !.status = resp.status,
                                     !.aborted = TRUE, !.failed = TRUE]
            /\ UNCHANGED view
  /\ pc' = "recording"
  /\ UNCHANGED <<request, clientVars, upstreamVars, finalUsage, handed, job>>

-----------------------------------------------------------------------------
(* The handler has returned: net/http ends the response. A declared length *)
(* that was not written closes the connection; a chunked body just ends.   *)

Relayed == up = "ended" /\ seen = Len(sent)

Return ==
  /\ pc = "returning"
  /\ pc' = "returned"
  /\ view' = IF conn = "left" THEN view
             ELSE [view EXCEPT !.end =
                     IF view.status = resp.status /\ resp.framing = "length"
                        /\ ~Relayed
                     THEN "cut" ELSE "clean"]
  /\ UNCHANGED <<request, clientVars, upstreamVars, seen, finalUsage, event,
                 handed, job>>

(* persistAsync's goroutine: InsertRequest succeeds, or fails and is logged *)
Persist ==
  /\ job = "running"
  /\ job' \in {"stored", "lost"}
  /\ UNCHANGED <<pc, request, clientVars, upstreamVars, seen, finalUsage,
                 event, handed, view>>

Done == pc = "returned" /\ job # "running" /\ UNCHANGED vars

Handler ==
  \/ RejectRequest \/ ForwardRequest \/ DialFails \/ StartRelay \/ Record
  \/ RelayLine \/ RelayLineFails \/ StreamEnds \/ StreamFails
  \/ BufferFails \/ BufferRelays \/ Return

Environment ==
  \/ ClientLeaves \/ UpstreamRefuses \/ UpstreamAnswers \/ UpstreamSends
  \/ UpstreamStops

Next == Handler \/ Environment \/ NoticeHangUp \/ Persist \/ Done

Spec == Init /\ [][Next]_vars

(* Where the handler has bytes for a client that is connected: a line, a    *)
(* body, or what http.Error and the end of the response leave to flush.    *)
(* No WriteTimeout is set, so only the client's reading, or its leaving,   *)
(* ends such a write; nothing else does, not even a broken upstream.       *)
Writing ==
  /\ conn = "open"
  /\ \/ pc = "streaming" /\ seen < Len(sent)
     \/ pc = "buffering" /\ up = "ended"
     \/ pc = "returning"

(* Goroutines run. The client and the upstream owe nothing: a request body *)
(* that does not come (no ReadTimeout is set) and a client that does not   *)
(* read each hold the handler until the client hangs up.                   *)
FairSpec ==
  /\ Spec
  /\ WF_vars((pc # "reading" \/ conn = "left") /\ ~Writing /\ Handler)
  /\ WF_vars(NoticeHangUp)
  /\ WF_vars(Persist)

-----------------------------------------------------------------------------
(* Properties *)

(* Every variable stays in its range: the states of the handler, of the    *)
(* two connections and of the event handleChat fills in.                   *)
TypeOK ==
  /\ pc \in {"reading", "dialing", "streaming", "buffering", "recording",
             "returning", "returned"}
  /\ request \in Requests
  /\ conn \in {"open", "left"} /\ cancelled \in BOOLEAN
  /\ up \in {"idle", "refused", "open", "ended", "broken"}
  /\ resp \in Answers \cup {NoAnswer}
  /\ sent \in Seq(Line) /\ seen \in 0 .. Len(sent)
  /\ finalUsage \in 0 .. Len(sent)
  /\ event \in ChatEvents /\ event.usage <= Len(sent)
  /\ handed \in Nat
  /\ job \in {"none", "running", "stored", "lost"}
  /\ view \in ClientViews

Recorded == handed > 0

(* An event counted as a success (handleChat's Success) stands for an      *)
(* answer the upstream finished, with a status below 400, that was read    *)
(* to its end and written on whole: no cut, cancelled or half-relayed      *)
(* answer is ever counted, on either of the two relay paths.               *)
SuccessMeansComplete ==
  event.success =>
    /\ resp.status = "ok" /\ Relayed
    /\ conn = "open" => view.lines = sent

(* A client that stays gets a finished answer unchanged: its status, all   *)
(* its lines in order, also those after the final chunk, and a clean end   *)
(* (handleStreamingResponse, handleBufferedResponse).                      *)
FinishedAnswerIsTransparent ==
  (pc = "returned" /\ conn = "open" /\ up = "ended") =>
    view = [status |-> resp.status, lines |-> sent, end |-> "clean"]

(* A stream whose completion data never arrived is recorded as aborted and *)
(* as no success, whether the upstream broke, the client left or the       *)
(* stream just ended (handleStreamingResponse's finalUsage == nil).        *)
IncompleteStreamIsAborted ==
  (Recorded /\ event.stream /\ \A i \in 1 .. seen : sent[i] # "done") =>
    event.aborted /\ ~event.success

(* Usage is recorded for a stream exactly when it was not aborted, and it  *)
(* is that of the last final chunk that was read (the finalUsage variable  *)
(* against usage.Apply).                                                   *)
StreamUsageIsLastDone ==
  (Recorded /\ event.stream) =>
    IF event.aborted
    THEN event.usage = 0
    ELSE /\ event.usage \in 1 .. seen /\ sent[event.usage] = "done"
         /\ \A i \in event.usage + 1 .. seen : sent[i] # "done"

(* An exchange that reached the upstream hands exactly one event to        *)
(* persistAsync by the time its handler returns, on every error path, and  *)
(* never a second one.                                                     *)
RecordedExactlyOnce ==
  /\ handed <= 1
  /\ (pc = "returned" /\ up # "idle") => handed = 1

(* Once the upstream has refused, finished or broken off, or the client    *)
(* has hung up, the handler returns and the recording goroutine ends: no   *)
(* exchange stays in flight behind a silent upstream (the upstream request *)
(* is bound to r.Context()). The one exception is a client that stays      *)
(* connected and never again reads what the handler writes.                *)
EndedExchangeReturns ==
  \/ <>[]Writing
  \/ (up \in {"refused", "ended", "broken"} \/ conn = "left") ~>
       (pc = "returned" /\ job # "running")
=============================================================================
