------------------------- MODULE ChatExchangeProofs -------------------------
(***************************************************************************)
(* One exchange, for answers of any length: what its event says about the  *)
(* answer and about what the client has received.                          *)
(***************************************************************************)
EXTENDS ChatExchange, SequenceTheorems, TLAPS

(* The connection to the upstream, seen from the handler *)
UpstreamFacts ==
  /\ up \in {"idle", "refused"} <=> resp = NoAnswer
  /\ resp = NoAnswer => sent = <<>>
  /\ pc = "reading" => up = "idle"
  /\ pc \in {"streaming", "buffering", "recording"} => resp # NoAnswer
  /\ cancelled => conn = "left"

(* Nothing is recorded before the answer is over, and the event is empty   *)
(* until then but for its stream flag.                                     *)
EventFacts ==
  /\ pc \in {"reading", "dialing"} =>
       event = NoEvent /\ seen = 0 /\ finalUsage = 0 /\ view = NoView
  /\ pc = "buffering" => event = NoEvent /\ seen = 0 /\ finalUsage = 0
  /\ pc = "streaming" => event = [NoEvent EXCEPT !.stream = TRUE]
  /\ pc \in {"recording", "returning", "returned"} \/ ~event.success
  /\ pc = "recording" => ~event.success

(* persistAsync has been called once, or the exchange is still under way   *)
(* or was rejected before the upstream was dialled.                        *)
HandedFacts ==
  /\ pc \notin {"returning", "returned"} => handed = 0
  /\ pc \in {"returning", "returned"} =>
       handed = 1 \/ (handed = 0 /\ up = "idle" /\ event = NoEvent)

(* finalUsage is the last final chunk among the lines read. *)
UsageFacts ==
  pc = "streaming" =>
    /\ finalUsage \in 0 .. seen
    /\ finalUsage # 0 => sent[finalUsage] = "done"
    /\ \A i \in finalUsage + 1 .. seen : sent[i] # "done"

(* A client that has stayed has received the lines read so far. *)
ViewFacts ==
  (pc \in {"streaming", "buffering"} /\ conn = "open") =>
    /\ view.status = resp.status /\ view.end = "open"
    /\ Len(view.lines) = seen
    /\ \A i \in 1 .. seen : view.lines[i] = sent[i]

(* How an answer can be over while the client is there: it was finished    *)
(* and relayed whole, or it broke, or there was none.                      *)
AnswerIsOver ==
  (pc \in {"recording", "returning", "returned"} /\ conn = "open") =>
    \/ /\ up = "ended" /\ seen = Len(sent)
       /\ view.lines = sent /\ view.status = resp.status
    \/ up \in {"idle", "refused", "broken"}

(* A flawless event stands for a whole answer. *)
Flawless == event.status = "ok" /\ ~event.aborted /\ ~event.failed

FlawlessMeansWhole ==
  pc \in {"recording", "returning", "returned"} =>
    /\ Flawless => resp.status = "ok" /\ Relayed
    /\ event.success => Flawless

(* What an event says of a stream once the answer is over *)
StreamFacts ==
  (pc \in {"recording", "returning", "returned"} /\ event.stream) =>
    IF event.aborted
    THEN event.usage = 0
    ELSE /\ event.usage \in 1 .. seen /\ sent[event.usage] = "done"
         /\ \A i \in event.usage + 1 .. seen : sent[i] # "done"

CleanEnd ==
  (pc = "returned" /\ conn = "open" /\ up = "ended") => view.end = "clean"

ExchangeInv ==
  /\ TypeOK
  /\ UpstreamFacts /\ EventFacts /\ HandedFacts
  /\ UsageFacts /\ ViewFacts
  /\ AnswerIsOver /\ FlawlessMeansWhole /\ StreamFacts /\ CleanEnd

-----------------------------------------------------------------------------
(* The environment's steps *)

(* The client, the upstream and the recording goroutine change nothing the
   parts of the invariant depend on but what they may. *)
LEMMA EnvironmentKeepsInv ==
  ExchangeInv /\ (Environment \/ NoticeHangUp \/ Persist) => ExchangeInv'
<1>. SUFFICES ASSUME ExchangeInv, Environment \/ NoticeHangUp \/ Persist
     PROVE  ExchangeInv'
  OBVIOUS
<1>. USE DEF ExchangeInv, clientVars, upstreamVars
<1>1. CASE ClientLeaves
  <2>1. TypeOK'
    BY <1>1 DEF ClientLeaves, TypeOK, Answers, Line
  <2>2. UpstreamFacts' /\ EventFacts' /\ HandedFacts' /\ UsageFacts' /\ ViewFacts'
    BY <1>1 DEF ClientLeaves, TypeOK, Answers, NoAnswer, UpstreamFacts,
           EventFacts, HandedFacts, UsageFacts, ViewFacts
  <2>3. AnswerIsOver' /\ FlawlessMeansWhole' /\ StreamFacts' /\ CleanEnd'
    BY <1>1 DEF ClientLeaves, TypeOK, UpstreamFacts, Flawless, Relayed,
           AnswerIsOver, FlawlessMeansWhole, StreamFacts, CleanEnd
  <2>. QED BY <2>1, <2>2, <2>3
<1>2. CASE NoticeHangUp
  <2>1. TypeOK'
    BY <1>2 DEF NoticeHangUp, TypeOK, Answers, Line
  <2>2. UpstreamFacts' /\ EventFacts' /\ HandedFacts' /\ UsageFacts' /\ ViewFacts'
    BY <1>2 DEF NoticeHangUp, TypeOK, Answers, NoAnswer, UpstreamFacts,
           EventFacts, HandedFacts, UsageFacts, ViewFacts
  <2>3. AnswerIsOver' /\ FlawlessMeansWhole' /\ StreamFacts' /\ CleanEnd'
    BY <1>2 DEF NoticeHangUp, TypeOK, UpstreamFacts, Flawless, Relayed,
           AnswerIsOver, FlawlessMeansWhole, StreamFacts, CleanEnd
  <2>. QED BY <2>1, <2>2, <2>3
<1>3. CASE Persist
  <2>1. TypeOK'
    BY <1>3 DEF Persist, TypeOK, Answers, Line
  <2>2. UpstreamFacts' /\ EventFacts' /\ HandedFacts' /\ UsageFacts' /\ ViewFacts'
    BY <1>3 DEF Persist, TypeOK, Answers, NoAnswer, UpstreamFacts,
           EventFacts, HandedFacts, UsageFacts, ViewFacts
  <2>3. AnswerIsOver' /\ FlawlessMeansWhole' /\ StreamFacts' /\ CleanEnd'
    BY <1>3 DEF Persist, TypeOK, UpstreamFacts, Flawless, Relayed,
           AnswerIsOver, FlawlessMeansWhole, StreamFacts, CleanEnd
  <2>. QED BY <2>1, <2>2, <2>3
<1>4. CASE UpstreamRefuses
  <2>1. TypeOK'
    BY <1>4 DEF UpstreamRefuses, TypeOK, Answers, Line
  <2>2. UpstreamFacts' /\ EventFacts' /\ HandedFacts' /\ UsageFacts' /\ ViewFacts'
    BY <1>4 DEF UpstreamRefuses, TypeOK, Answers, NoAnswer, UpstreamFacts,
           EventFacts, HandedFacts, UsageFacts, ViewFacts
  <2>3. AnswerIsOver' /\ FlawlessMeansWhole' /\ StreamFacts' /\ CleanEnd'
    BY <1>4 DEF UpstreamRefuses, TypeOK, UpstreamFacts, Flawless, Relayed,
           AnswerIsOver, FlawlessMeansWhole, StreamFacts, CleanEnd
  <2>. QED BY <2>1, <2>2, <2>3
<1>5. CASE UpstreamAnswers
  <2>1. TypeOK'
    BY <1>5 DEF UpstreamAnswers, TypeOK, Answers, Line
  <2>2. UpstreamFacts' /\ EventFacts' /\ HandedFacts' /\ UsageFacts' /\ ViewFacts'
    BY <1>5 DEF UpstreamAnswers, TypeOK, Answers, NoAnswer, UpstreamFacts,
           EventFacts, HandedFacts, UsageFacts, ViewFacts
  <2>3. AnswerIsOver' /\ FlawlessMeansWhole' /\ StreamFacts' /\ CleanEnd'
    BY <1>5 DEF UpstreamAnswers, TypeOK, UpstreamFacts, Flawless, Relayed,
           AnswerIsOver, FlawlessMeansWhole, StreamFacts, CleanEnd
  <2>. QED BY <2>1, <2>2, <2>3
<1>6. CASE UpstreamStops
  <2>1. TypeOK'
    BY <1>6 DEF UpstreamStops, TypeOK, Answers, Line
  <2>2. UpstreamFacts' /\ EventFacts' /\ HandedFacts' /\ UsageFacts' /\ ViewFacts'
    BY <1>6 DEF UpstreamStops, TypeOK, Answers, NoAnswer, UpstreamFacts,
           EventFacts, HandedFacts, UsageFacts, ViewFacts
  <2>3. AnswerIsOver' /\ FlawlessMeansWhole' /\ StreamFacts' /\ CleanEnd'
    BY <1>6 DEF UpstreamStops, TypeOK, UpstreamFacts, Flawless, Relayed,
           AnswerIsOver, FlawlessMeansWhole, StreamFacts, CleanEnd
  <2>. QED BY <2>1, <2>2, <2>3
<1>7. CASE UpstreamSends
  <2>1. TypeOK'
    <3>1. sent' \in Seq(Line) /\ Len(sent') = Len(sent) + 1
      BY <1>7 DEF UpstreamSends, TypeOK
    <3>. QED BY <1>7, <3>1 DEF UpstreamSends, TypeOK, ChatEvents
  <2>2. UpstreamFacts' /\ EventFacts' /\ HandedFacts' /\ UsageFacts' /\ ViewFacts'
    BY <1>7 DEF UpstreamSends, TypeOK, Answers, NoAnswer, UpstreamFacts,
           EventFacts, HandedFacts, UsageFacts, ViewFacts
  <2>3. AnswerIsOver' /\ FlawlessMeansWhole' /\ StreamFacts' /\ CleanEnd'
    BY <1>7 DEF UpstreamSends, TypeOK, UpstreamFacts, Flawless, Relayed,
           AnswerIsOver, FlawlessMeansWhole, StreamFacts, CleanEnd
  <2>. QED BY <2>1, <2>2, <2>3
<1>. QED BY <1>1, <1>2, <1>3, <1>4, <1>5, <1>6, <1>7 DEF Environment
-----------------------------------------------------------------------------
(* The handler's steps *)

(* 400 and 500: no upstream, no event *)
LEMMA RejectRequestKeepsInv == ExchangeInv /\ RejectRequest => ExchangeInv'
<1>. SUFFICES ASSUME ExchangeInv, RejectRequest PROVE ExchangeInv'
  OBVIOUS
<1>. USE DEF ExchangeInv, clientVars, upstreamVars
<1>1. TypeOK'
  <2>1. view' \in ClientViews
    BY DEF RejectRequest, TypeOK, ClientViews, Refuse
  <2>. QED BY <2>1 DEF RejectRequest, TypeOK
<1>2. UpstreamFacts' /\ EventFacts' /\ HandedFacts' /\ UsageFacts' /\ ViewFacts'
  BY DEF RejectRequest, TypeOK, Answers, NoAnswer, NoEvent, NoView, Refuse,
         UpstreamFacts, EventFacts, HandedFacts, UsageFacts, ViewFacts
<1>3. AnswerIsOver'
  BY DEF RejectRequest, TypeOK, Refuse, UpstreamFacts, EventFacts,
         ViewFacts, NoView, AnswerIsOver
<1>4. FlawlessMeansWhole'
  BY DEF RejectRequest, TypeOK, Refuse, UpstreamFacts, EventFacts, Flawless,
         Relayed, NoEvent, FlawlessMeansWhole
<1>5. StreamFacts'
  BY DEF RejectRequest, TypeOK, Refuse, EventFacts, UsageFacts, NoEvent,
         StreamFacts
<1>6. CleanEnd'
  BY DEF RejectRequest, TypeOK, Refuse, UpstreamFacts, AnswerIsOver,
         Relayed, CleanEnd
<1>. QED BY <1>1, <1>2, <1>3, <1>4, <1>5, <1>6

(* The request body is read; nothing else changes. *)
LEMMA ForwardRequestKeepsInv == ExchangeInv /\ ForwardRequest => ExchangeInv'
<1>. SUFFICES ASSUME ExchangeInv, ForwardRequest PROVE ExchangeInv'
  OBVIOUS
<1>. USE DEF ExchangeInv, clientVars, upstreamVars
<1>1. TypeOK'
  BY DEF ForwardRequest, TypeOK
<1>2. UpstreamFacts' /\ EventFacts' /\ HandedFacts' /\ UsageFacts' /\ ViewFacts'
  BY DEF ForwardRequest, TypeOK, Answers, NoAnswer, NoEvent, NoView,
         UpstreamFacts, EventFacts, HandedFacts, UsageFacts, ViewFacts
<1>3. AnswerIsOver'
  BY DEF ForwardRequest, TypeOK, UpstreamFacts, EventFacts, ViewFacts,
         NoView, AnswerIsOver
<1>4. FlawlessMeansWhole'
  BY DEF ForwardRequest, TypeOK, UpstreamFacts, EventFacts, Flawless,
         Relayed, NoEvent, FlawlessMeansWhole
<1>5. StreamFacts'
  BY DEF ForwardRequest, TypeOK, EventFacts, UsageFacts, NoEvent,
         StreamFacts
<1>6. CleanEnd'
  BY DEF ForwardRequest, TypeOK, UpstreamFacts, AnswerIsOver, Relayed,
         CleanEnd
<1>. QED BY <1>1, <1>2, <1>3, <1>4, <1>5, <1>6

(* 502: the event is handed over with nothing relayed. *)
LEMMA DialFailsKeepsInv == ExchangeInv /\ DialFails => ExchangeInv'
<1>. SUFFICES ASSUME ExchangeInv, DialFails PROVE ExchangeInv'
  OBVIOUS
<1>. USE DEF ExchangeInv, clientVars, upstreamVars
<1>1. TypeOK'
  <2>1. event' \in ChatEvents /\ event'.usage <= Len(sent)
    BY DEF DialFails, TypeOK, ChatEvents
  <2>2. view' \in ClientViews
    BY <2>1 DEF DialFails, TypeOK, ClientViews, Refuse
  <2>. QED BY <2>1, <2>2 DEF DialFails, TypeOK
<1>2. UpstreamFacts' /\ EventFacts' /\ HandedFacts' /\ UsageFacts' /\ ViewFacts'
  BY DEF DialFails, TypeOK, Answers, NoAnswer, NoEvent, NoView, Refuse,
         UpstreamFacts, EventFacts, HandedFacts, UsageFacts, ViewFacts
<1>3. AnswerIsOver'
  BY DEF DialFails, TypeOK, Refuse, UpstreamFacts, EventFacts, ViewFacts,
         NoView, AnswerIsOver
<1>4. FlawlessMeansWhole'
  BY DEF DialFails, TypeOK, Refuse, UpstreamFacts, EventFacts, Flawless,
         Relayed, NoEvent, FlawlessMeansWhole
<1>5. StreamFacts'
  BY DEF DialFails, TypeOK, Refuse, EventFacts, UsageFacts, NoEvent,
         StreamFacts
<1>6. CleanEnd'
  BY DEF DialFails, TypeOK, Refuse, UpstreamFacts, AnswerIsOver, Relayed,
         CleanEnd
<1>. QED BY <1>1, <1>2, <1>3, <1>4, <1>5, <1>6

(* The answer's headers choose the relay path. *)
LEMMA StartRelayKeepsInv == ExchangeInv /\ StartRelay => ExchangeInv'
<1>. SUFFICES ASSUME ExchangeInv, StartRelay PROVE ExchangeInv'
  OBVIOUS
<1>. USE DEF ExchangeInv, clientVars, upstreamVars
<1>1. TypeOK'
  <2>1. event' \in ChatEvents /\ event'.usage <= Len(sent)
    BY DEF StartRelay, TypeOK, ChatEvents, Streaming
  <2>2. view' \in ClientViews
    BY <2>1 DEF StartRelay, TypeOK, ClientViews, Answers, NoAnswer,
           UpstreamFacts
  <2>. QED BY <2>1, <2>2 DEF StartRelay, TypeOK
<1>2. UpstreamFacts' /\ HandedFacts' /\ UsageFacts' /\ ViewFacts'
  BY DEF StartRelay, TypeOK, NoView, UpstreamFacts, EventFacts, HandedFacts,
         UsageFacts, ViewFacts
<1>7. EventFacts'
  BY DEF StartRelay, EventFacts, NoEvent
<1>3. AnswerIsOver'
  BY DEF StartRelay, TypeOK, Streaming, UpstreamFacts, EventFacts,
         ViewFacts, NoView, AnswerIsOver
<1>4. FlawlessMeansWhole'
  BY DEF StartRelay, TypeOK, Streaming, UpstreamFacts, EventFacts, Flawless,
         Relayed, NoEvent, FlawlessMeansWhole
<1>5. StreamFacts'
  BY DEF StartRelay, TypeOK, Streaming, EventFacts, UsageFacts, NoEvent,
         StreamFacts
<1>6. CleanEnd'
  BY DEF StartRelay, TypeOK, Streaming, UpstreamFacts, AnswerIsOver,
         Relayed, CleanEnd
<1>. QED BY <1>1, <1>2, <1>3, <1>4, <1>5, <1>6, <1>7

(* Success follows from the event's other fields. *)
LEMMA RecordKeepsInv == ExchangeInv /\ Record => ExchangeInv'
<1>. SUFFICES ASSUME ExchangeInv, Record PROVE ExchangeInv'
  OBVIOUS
<1>. USE DEF ExchangeInv, clientVars, upstreamVars
<1>1. TypeOK'
  <2>1. event' \in ChatEvents /\ event'.usage <= Len(sent)
    BY DEF Record, TypeOK, ChatEvents
  <2>. QED BY <2>1 DEF Record, TypeOK
<1>2. UpstreamFacts' /\ EventFacts' /\ HandedFacts' /\ UsageFacts' /\ ViewFacts'
  BY DEF Record, TypeOK, Answers, NoAnswer, NoEvent, NoView, UpstreamFacts,
         EventFacts, HandedFacts, UsageFacts, ViewFacts
<1>3. AnswerIsOver'
  BY DEF Record, TypeOK, UpstreamFacts, EventFacts, ViewFacts, NoView,
         AnswerIsOver
<1>4. FlawlessMeansWhole'
  BY DEF Record, TypeOK, UpstreamFacts, EventFacts, Flawless, Relayed,
         NoEvent, FlawlessMeansWhole
<1>5. StreamFacts'
  BY DEF Record, TypeOK, EventFacts, UsageFacts, NoEvent, StreamFacts
<1>6. CleanEnd'
  BY DEF Record, TypeOK, UpstreamFacts, AnswerIsOver, Relayed, CleanEnd
<1>. QED BY <1>1, <1>2, <1>3, <1>4, <1>5, <1>6

(* One more line is read, and it is the last one the client holds. *)
LEMMA RelayLineKeepsInv == ExchangeInv /\ RelayLine => ExchangeInv'
<1>. SUFFICES ASSUME ExchangeInv, RelayLine PROVE ExchangeInv'
  OBVIOUS
<1>. USE DEF ExchangeInv, clientVars, upstreamVars
<1>1. TypeOK'
  <2>1. sent[seen + 1] \in Line /\ seen + 1 \in 1 .. Len(sent)
    BY DEF RelayLine, TypeOK
  <2>2. view.lines \o <<sent[seen + 1]>> \in Seq(Line)
    BY <2>1 DEF RelayLine, TypeOK, ClientViews
  <2>3. view' \in ClientViews
    BY <2>2 DEF RelayLine, TypeOK, ClientViews, Received
  <2>. QED BY <2>1, <2>2, <2>3 DEF RelayLine, TypeOK
<1>2. UpstreamFacts' /\ EventFacts' /\ HandedFacts' /\ UsageFacts' /\ ViewFacts'
  BY DEF RelayLine, TypeOK, Answers, NoAnswer, NoEvent, NoView, Received,
         UpstreamFacts, EventFacts, HandedFacts, UsageFacts, ViewFacts
<1>3. AnswerIsOver'
  BY DEF RelayLine, TypeOK, Received, UpstreamFacts, EventFacts, ViewFacts,
         NoView, AnswerIsOver
<1>4. FlawlessMeansWhole'
  BY DEF RelayLine, TypeOK, Received, UpstreamFacts, EventFacts, Flawless,
         Relayed, NoEvent, FlawlessMeansWhole
<1>5. StreamFacts'
  BY DEF RelayLine, TypeOK, Received, EventFacts, UsageFacts, NoEvent,
         StreamFacts
<1>6. CleanEnd'
  BY DEF RelayLine, TypeOK, Received, UpstreamFacts, AnswerIsOver, Relayed,
         CleanEnd
<1>. QED BY <1>1, <1>2, <1>3, <1>4, <1>5, <1>6

(* A write can fail only once the client has left. *)
LEMMA RelayLineFailsKeepsInv == ExchangeInv /\ RelayLineFails => ExchangeInv'
<1>. SUFFICES ASSUME ExchangeInv, RelayLineFails PROVE ExchangeInv'
  OBVIOUS
<1>. USE DEF ExchangeInv, clientVars, upstreamVars
<1>1. TypeOK'
  <2>1. event' \in ChatEvents /\ event'.usage <= Len(sent)
    BY DEF RelayLineFails, TypeOK, ChatEvents, Answers, NoAnswer,
           UpstreamFacts
  <2>. QED BY <2>1 DEF RelayLineFails, TypeOK
<1>2. UpstreamFacts' /\ EventFacts' /\ HandedFacts' /\ UsageFacts' /\ ViewFacts'
  BY DEF RelayLineFails, TypeOK, Answers, NoAnswer, NoEvent, NoView,
         WriteOutcomes, UpstreamFacts, EventFacts, HandedFacts, UsageFacts,
         ViewFacts
<1>3. AnswerIsOver'
  BY DEF RelayLineFails, TypeOK, WriteOutcomes, UpstreamFacts, EventFacts,
         ViewFacts, NoView, AnswerIsOver
<1>4. FlawlessMeansWhole'
  BY DEF RelayLineFails, TypeOK, WriteOutcomes, UpstreamFacts, EventFacts,
         Flawless, Relayed, NoEvent, FlawlessMeansWhole
<1>5. StreamFacts'
  BY DEF RelayLineFails, TypeOK, WriteOutcomes, EventFacts, UsageFacts,
         NoEvent, StreamFacts
<1>6. CleanEnd'
  BY DEF RelayLineFails, TypeOK, WriteOutcomes, UpstreamFacts, AnswerIsOver,
         Relayed, CleanEnd
<1>. QED BY <1>1, <1>2, <1>3, <1>4, <1>5, <1>6

(* The event after the loop of handleStreamingResponse *)
LEMMA StreamEventIs ==
  ASSUME TypeOK, NEW readFailed \in BOOLEAN, resp # NoAnswer
  PROVE  /\ StreamEvent(readFailed) \in ChatEvents
         /\ StreamEvent(readFailed).usage = finalUsage
         /\ StreamEvent(readFailed).status = resp.status
         /\ StreamEvent(readFailed).aborted <=> finalUsage = 0
         /\ StreamEvent(readFailed).failed = readFailed
         /\ StreamEvent(readFailed).stream = event.stream
         /\ StreamEvent(readFailed).success = event.success
<1>. DEFINE cut == finalUsage = 0
<1>1. cut \in BOOLEAN
  OBVIOUS
<1>2. StreamEvent(readFailed) =
        [event EXCEPT !.status = resp.status, !.failed = readFailed,
                      !.aborted = cut, !.usage = finalUsage]
  BY DEF StreamEvent
<1>3. finalUsage \in Nat
  BY DEF TypeOK
<1>4. cut <=> finalUsage = 0
  OBVIOUS
<1>. HIDE DEF cut
<1>. QED BY <1>1, <1>2, <1>3, <1>4 DEF TypeOK, ChatEvents, Answers, NoAnswer

(* The stream ended: every line was relayed. *)
LEMMA StreamEndsKeepsInv == ExchangeInv /\ StreamEnds => ExchangeInv'
<1>. SUFFICES ASSUME ExchangeInv, StreamEnds PROVE ExchangeInv'
  OBVIOUS
<1>. USE DEF ExchangeInv, clientVars, upstreamVars
<1>0. /\ event' \in ChatEvents /\ event'.usage = finalUsage
      /\ event'.status = resp.status
      /\ event'.aborted <=> finalUsage = 0
      /\ event'.failed = FALSE
      /\ event'.stream = event.stream
      /\ event'.success = event.success
  <2>1. event' = StreamEvent(FALSE) /\ resp # NoAnswer
    BY DEF StreamEnds, UpstreamFacts
  <2>. QED BY <2>1, StreamEventIs
<1>1. TypeOK'
  <2>1. event' \in ChatEvents /\ event'.usage <= Len(sent)
    BY <1>0 DEF TypeOK
  <2>. QED BY <2>1 DEF StreamEnds, TypeOK
<1>2. UpstreamFacts' /\ EventFacts' /\ HandedFacts' /\ UsageFacts' /\ ViewFacts'
  BY <1>0 DEF StreamEnds, TypeOK, Answers, NoAnswer, NoEvent, NoView,
         UpstreamFacts, EventFacts, HandedFacts, UsageFacts,
         ViewFacts
<1>3. AnswerIsOver'
  <2>. SUFFICES ASSUME conn = "open"
       PROVE  view.lines = sent /\ view.status = resp.status
    BY DEF StreamEnds, AnswerIsOver
  <2>1. /\ view.status = resp.status /\ Len(view.lines) = Len(sent)
        /\ \A i \in 1 .. Len(sent) : view.lines[i] = sent[i]
    BY DEF StreamEnds, ViewFacts
  <2>2. view.lines \in Seq(Line) /\ sent \in Seq(Line)
    BY DEF TypeOK, ClientViews
  <2>. QED BY <2>1, <2>2, SeqEqual
<1>4. FlawlessMeansWhole'
  BY <1>0 DEF StreamEnds, TypeOK, UpstreamFacts, EventFacts,
         Flawless, Relayed, NoEvent, FlawlessMeansWhole
<1>5. StreamFacts'
  <2>. SUFFICES IF event'.aborted
                THEN event'.usage = 0
                ELSE /\ event'.usage \in 1 .. seen
                     /\ sent[event'.usage] = "done"
                     /\ \A i \in event'.usage + 1 .. seen : sent[i] # "done"
    BY DEF StreamEnds, StreamFacts
  <2>1. CASE finalUsage = 0
    BY <1>0, <2>1
  <2>2. CASE finalUsage # 0
    <3>1. ~event'.aborted
      BY <1>0, <2>2
    <3>2. /\ finalUsage \in 1 .. seen /\ sent[finalUsage] = "done"
          /\ \A i \in finalUsage + 1 .. seen : sent[i] # "done"
      BY <2>2 DEF StreamEnds, UsageFacts, TypeOK
    <3>. QED BY <1>0, <3>1, <3>2
  <2>. QED BY <2>1, <2>2
<1>6. CleanEnd'
  BY <1>0 DEF StreamEnds, TypeOK, UpstreamFacts, AnswerIsOver,
         Relayed, CleanEnd
<1>. QED BY <1>1, <1>2, <1>3, <1>4, <1>5, <1>6

(* The stream broke or was cancelled: the event is marked as failed. *)
LEMMA StreamFailsKeepsInv == ExchangeInv /\ StreamFails => ExchangeInv'
<1>. SUFFICES ASSUME ExchangeInv, StreamFails PROVE ExchangeInv'
  OBVIOUS
<1>. USE DEF ExchangeInv, clientVars, upstreamVars
<1>0. /\ event' \in ChatEvents /\ event'.usage = finalUsage
      /\ event'.status = resp.status
      /\ event'.aborted <=> finalUsage = 0
      /\ event'.failed = TRUE
      /\ event'.stream = event.stream
      /\ event'.success = event.success
  <2>1. event' = StreamEvent(TRUE) /\ resp # NoAnswer
    BY DEF StreamFails, UpstreamFacts
  <2>. QED BY <2>1, StreamEventIs
<1>1. TypeOK'
  <2>1. event' \in ChatEvents /\ event'.usage <= Len(sent)
    BY <1>0 DEF TypeOK
  <2>. QED BY <2>1 DEF StreamFails, TypeOK
<1>2. UpstreamFacts' /\ EventFacts' /\ HandedFacts' /\ UsageFacts' /\ ViewFacts'
  BY <1>0 DEF StreamFails, TypeOK, Answers, NoAnswer, NoEvent, NoView,
         ReadFails, UpstreamFacts, EventFacts, HandedFacts,
         UsageFacts, ViewFacts
<1>3. AnswerIsOver'
  BY <1>0 DEF StreamFails, TypeOK, ReadFails, UpstreamFacts,
         EventFacts, ViewFacts, NoView, AnswerIsOver
<1>4. FlawlessMeansWhole'
  BY <1>0 DEF StreamFails, TypeOK, ReadFails, UpstreamFacts,
         EventFacts, Flawless, Relayed, NoEvent, FlawlessMeansWhole
<1>5. StreamFacts'
  <2>. SUFFICES IF event'.aborted
                THEN event'.usage = 0
                ELSE /\ event'.usage \in 1 .. seen
                     /\ sent[event'.usage] = "done"
                     /\ \A i \in event'.usage + 1 .. seen : sent[i] # "done"
    BY DEF StreamFails, StreamFacts
  <2>1. CASE finalUsage = 0
    BY <1>0, <2>1
  <2>2. CASE finalUsage # 0
    <3>1. ~event'.aborted
      BY <1>0, <2>2
    <3>2. /\ finalUsage \in 1 .. seen /\ sent[finalUsage] = "done"
          /\ \A i \in finalUsage + 1 .. seen : sent[i] # "done"
      BY <2>2 DEF StreamFails, UsageFacts, TypeOK
    <3>. QED BY <1>0, <3>1, <3>2
  <2>. QED BY <2>1, <2>2
<1>6. CleanEnd'
  BY <1>0 DEF StreamFails, TypeOK, ReadFails, UpstreamFacts,
         AnswerIsOver, Relayed, CleanEnd
<1>. QED BY <1>1, <1>2, <1>3, <1>4, <1>5, <1>6

(* The body could not be read: the event is marked as failed. *)
LEMMA BufferFailsKeepsInv == ExchangeInv /\ BufferFails => ExchangeInv'
<1>. SUFFICES ASSUME ExchangeInv, BufferFails PROVE ExchangeInv'
  OBVIOUS
<1>. USE DEF ExchangeInv, clientVars, upstreamVars
<1>1. TypeOK'
  <2>1. event' \in ChatEvents /\ event'.usage <= Len(sent)
    BY DEF BufferFails, TypeOK, ChatEvents, Answers, NoAnswer, UpstreamFacts
  <2>. QED BY <2>1 DEF BufferFails, TypeOK
<1>2. UpstreamFacts' /\ EventFacts' /\ HandedFacts' /\ UsageFacts' /\ ViewFacts'
  BY DEF BufferFails, TypeOK, Answers, NoAnswer, NoEvent, NoView, ReadFails,
         UpstreamFacts, EventFacts, HandedFacts, UsageFacts, ViewFacts
<1>3. AnswerIsOver'
  BY DEF BufferFails, TypeOK, ReadFails, UpstreamFacts, EventFacts,
         ViewFacts, NoView, AnswerIsOver
<1>4. FlawlessMeansWhole'
  BY DEF BufferFails, TypeOK, ReadFails, UpstreamFacts, EventFacts,
         Flawless, Relayed, NoEvent, FlawlessMeansWhole
<1>5. StreamFacts'
  BY DEF BufferFails, TypeOK, ReadFails, EventFacts, UsageFacts, NoEvent,
         StreamFacts
<1>6. CleanEnd'
  BY DEF BufferFails, TypeOK, ReadFails, UpstreamFacts, AnswerIsOver,
         Relayed, CleanEnd
<1>. QED BY <1>1, <1>2, <1>3, <1>4, <1>5, <1>6

(* The body was read whole and written in one piece. *)
LEMMA BufferRelaysKeepsInv == ExchangeInv /\ BufferRelays => ExchangeInv'
<1>. SUFFICES ASSUME ExchangeInv, BufferRelays PROVE ExchangeInv'
  OBVIOUS
<1>. USE DEF ExchangeInv, clientVars, upstreamVars
<1>1. TypeOK'
  <2>1. event' \in ChatEvents /\ event'.usage <= Len(sent)
    <3>2. ParsedUsage \in Nat /\ ParsedUsage <= Len(sent)
      BY DEF TypeOK, ParsedUsage
    <3>3. resp.status \in {"ok", "error"}
      BY DEF BufferRelays, UpstreamFacts, TypeOK, Answers
    <3>4. event' = [event EXCEPT !.status = resp.status,
                      !.usage = IF resp.status = "ok" THEN ParsedUsage ELSE 0]
          \/ event' = [event EXCEPT !.status = resp.status,
                                    !.aborted = TRUE, !.failed = TRUE]
      BY DEF BufferRelays, WriteOutcomes
    <3>5. (IF resp.status = "ok" THEN ParsedUsage ELSE 0) \in 0 .. Len(sent)
      BY <3>2 DEF TypeOK
    <3>6. CASE event' = [event EXCEPT !.status = resp.status,
                     !.usage = IF resp.status = "ok" THEN ParsedUsage ELSE 0]
      <4>. DEFINE usage == IF resp.status = "ok" THEN ParsedUsage ELSE 0
      <4>1. usage \in Nat /\ usage <= Len(sent)
        BY <3>5 DEF TypeOK
      <4>2. event' = [event EXCEPT !.status = resp.status, !.usage = usage]
        BY <3>6
      <4>. HIDE DEF usage
      <4>. QED BY <4>1, <4>2, <3>3 DEF TypeOK, ChatEvents
    <3>7. CASE event' = [event EXCEPT !.status = resp.status,
                                      !.aborted = TRUE, !.failed = TRUE]
      BY <3>3, <3>7 DEF TypeOK, ChatEvents
    <3>. QED BY <3>4, <3>6, <3>7
  <2>2. view.lines \o sent \in Seq(Line)
    BY <2>1 DEF BufferRelays, TypeOK, ClientViews
  <2>3. view' \in ClientViews
    BY <2>2 DEF BufferRelays, TypeOK, ClientViews, Received, WriteOutcomes
  <2>. QED BY <2>1, <2>2, <2>3 DEF BufferRelays, TypeOK
<1>2. UpstreamFacts' /\ EventFacts' /\ HandedFacts' /\ UsageFacts' /\ ViewFacts'
  BY DEF BufferRelays, TypeOK, Answers, NoAnswer, NoEvent, NoView,
         WriteOutcomes, Received, ParsedUsage, UpstreamFacts, EventFacts,
         HandedFacts, UsageFacts, ViewFacts
<1>3. AnswerIsOver'
  <2>. SUFFICES ASSUME conn = "open"
       PROVE  view'.lines = sent /\ view'.status = resp.status
    BY DEF BufferRelays, TypeOK, AnswerIsOver
  <2>1. view.lines \in Seq(Line) /\ Len(view.lines) = 0
    BY DEF BufferRelays, TypeOK, ClientViews, ViewFacts, EventFacts
  <2>2. view.lines \o sent = sent
    BY <2>1, ConcatEqualIffEmpty, EmptySeq DEF TypeOK
  <2>3. view' = [view EXCEPT !.lines = view.lines \o sent]
    BY DEF BufferRelays, WriteOutcomes, Received
  <2>. QED BY <2>2, <2>3 DEF BufferRelays, TypeOK, ClientViews, ViewFacts
<1>4. FlawlessMeansWhole'
  BY DEF BufferRelays, TypeOK, WriteOutcomes, Received, ParsedUsage,
         UpstreamFacts, EventFacts, Flawless, Relayed, NoEvent,
         FlawlessMeansWhole
<1>5. StreamFacts'
  <2>1. event.stream = FALSE
    BY DEF BufferRelays, EventFacts, NoEvent
  <2>2. event'.stream = event.stream
    BY DEF BufferRelays, WriteOutcomes, TypeOK, ChatEvents
  <2>. QED BY <2>1, <2>2 DEF StreamFacts
<1>6. CleanEnd'
  BY DEF BufferRelays, TypeOK, WriteOutcomes, Received, ParsedUsage,
         UpstreamFacts, AnswerIsOver, Relayed, CleanEnd
<1>. QED BY <1>1, <1>2, <1>3, <1>4, <1>5, <1>6

(* The handler returns: only the client's view of the end changes. *)
LEMMA ReturnKeepsInv == ExchangeInv /\ Return => ExchangeInv'
<1>. SUFFICES ASSUME ExchangeInv, Return PROVE ExchangeInv'
  OBVIOUS
<1>. USE DEF ExchangeInv, clientVars, upstreamVars
<1>1. TypeOK'
  <2>1. view' \in ClientViews
    BY DEF Return, TypeOK, ClientViews
  <2>. QED BY <2>1 DEF Return, TypeOK
<1>2. UpstreamFacts' /\ EventFacts' /\ HandedFacts' /\ UsageFacts' /\ ViewFacts'
  BY DEF Return, TypeOK, Answers, NoAnswer, NoEvent, NoView, Relayed,
         UpstreamFacts, EventFacts, HandedFacts, UsageFacts, ViewFacts
<1>3. AnswerIsOver'
  BY DEF Return, TypeOK, Relayed, UpstreamFacts, EventFacts, ViewFacts,
         NoView, AnswerIsOver
<1>4. FlawlessMeansWhole'
  BY DEF Return, TypeOK, Relayed, UpstreamFacts, EventFacts, Flawless,
         Relayed, NoEvent, FlawlessMeansWhole
<1>5. StreamFacts'
  BY DEF Return, TypeOK, Relayed, EventFacts, UsageFacts, NoEvent,
         StreamFacts
<1>6. CleanEnd'
  BY DEF Return, TypeOK, Relayed, UpstreamFacts, AnswerIsOver, Relayed,
         CleanEnd
<1>. QED BY <1>1, <1>2, <1>3, <1>4, <1>5, <1>6

-----------------------------------------------------------------------------
(* The exchange's invariant *)

(* The parts of ExchangeInv hold together in every reachable state: the    *)
(* inductive invariant the theorems below rest on.                         *)
THEOREM ExchangeInvariant == Spec => []ExchangeInv
<1>1. Init => ExchangeInv
  <2>. SUFFICES ASSUME Init PROVE ExchangeInv
    OBVIOUS
  <2>1. TypeOK
    <3>1. sent \in Seq(Line) /\ Len(sent) = 0
      BY DEF Init
    <3>2. NoEvent \in ChatEvents /\ NoEvent.usage = 0
      BY DEF NoEvent, ChatEvents
    <3>3. NoView \in ClientViews
      BY DEF NoView, ClientViews
    <3>4. /\ seen \in 0 .. Len(sent) /\ finalUsage \in 0 .. Len(sent)
          /\ handed \in Nat
      BY <3>1 DEF Init
    <3>5. /\ event \in ChatEvents /\ event.usage <= Len(sent)
          /\ view \in ClientViews
      BY <3>1, <3>2, <3>3 DEF Init
    <3>. QED BY <3>1, <3>4, <3>5 DEF Init, TypeOK
  <2>2. UpstreamFacts /\ EventFacts /\ HandedFacts /\ UsageFacts /\ ViewFacts
    BY DEF Init, UpstreamFacts, EventFacts, HandedFacts, UsageFacts, ViewFacts,
           NoEvent
  <2>3. AnswerIsOver /\ FlawlessMeansWhole /\ StreamFacts /\ CleanEnd
    BY DEF Init, AnswerIsOver, FlawlessMeansWhole, StreamFacts, CleanEnd
  <2>. QED BY <2>1, <2>2, <2>3 DEF ExchangeInv
<1>2. ExchangeInv /\ [Next]_vars => ExchangeInv'
  <2>. SUFFICES ASSUME ExchangeInv, [Next]_vars PROVE ExchangeInv'
    OBVIOUS
  <2>1. CASE Environment \/ NoticeHangUp \/ Persist
    BY <2>1, EnvironmentKeepsInv
  <2>2. CASE Handler
    BY <2>2, RejectRequestKeepsInv, ForwardRequestKeepsInv, DialFailsKeepsInv,
       StartRelayKeepsInv, RecordKeepsInv, RelayLineKeepsInv,
       RelayLineFailsKeepsInv, StreamEndsKeepsInv, StreamFailsKeepsInv,
       BufferFailsKeepsInv, BufferRelaysKeepsInv, ReturnKeepsInv DEF Handler
  <2>3. CASE UNCHANGED vars
    <3>1. TypeOK'
      BY <2>3 DEF ExchangeInv, vars, TypeOK
    <3>2. /\ UpstreamFacts' /\ EventFacts' /\ HandedFacts' /\ UsageFacts'
          /\ ViewFacts'
      BY <2>3 DEF ExchangeInv, vars, UpstreamFacts, EventFacts, HandedFacts,
             UsageFacts, ViewFacts
    <3>3. AnswerIsOver' /\ FlawlessMeansWhole' /\ StreamFacts' /\ CleanEnd'
      BY <2>3 DEF ExchangeInv, vars, AnswerIsOver, FlawlessMeansWhole,
             Flawless, Relayed, StreamFacts, CleanEnd
    <3>. QED BY <3>1, <3>2, <3>3 DEF ExchangeInv
  <2>. QED BY <2>1, <2>2, <2>3 DEF Next, Done
<1>. QED BY <1>1, <1>2, PTL DEF Spec

(* Every variable of an exchange stays in its range (handleChat and what   *)
(* it calls), for answers of any length.                                   *)
THEOREM ExchangeTypeCorrect == Spec => []TypeOK
<1>1. ExchangeInv => TypeOK
  BY DEF ExchangeInv
<1>. QED BY <1>1, ExchangeInvariant, PTL

(* Nothing but a finished answer, read and written on whole, is counted a  *)
(* success (the Success that handleChat computes before persistAsync).     *)
THEOREM SuccessIsEarned == Spec => []SuccessMeansComplete
<1>1. ExchangeInv => SuccessMeansComplete
  <2>. SUFFICES ASSUME ExchangeInv, event.success
       PROVE  /\ resp.status = "ok" /\ Relayed
              /\ conn = "open" => view.lines = sent
    BY DEF SuccessMeansComplete
  <2>1. pc \in {"recording", "returning", "returned"}
    BY DEF ExchangeInv, EventFacts
  <2>2. resp.status = "ok" /\ Relayed
    BY <2>1 DEF ExchangeInv, FlawlessMeansWhole
  <2>3. conn = "open" => view.lines = sent
    BY <2>1, <2>2 DEF ExchangeInv, AnswerIsOver, Relayed
  <2>. QED BY <2>2, <2>3
<1>. QED BY <1>1, ExchangeInvariant, PTL

(* A client that stays gets a finished answer unchanged: its status, every *)
(* line in order, and a clean end, by either of the two relay paths.       *)
THEOREM RelayIsTransparent == Spec => []FinishedAnswerIsTransparent
<1>1. ExchangeInv => FinishedAnswerIsTransparent
  <2>. SUFFICES ASSUME ExchangeInv, pc = "returned", conn = "open",
                       up = "ended"
       PROVE  view = [status |-> resp.status, lines |-> sent, end |-> "clean"]
    BY DEF FinishedAnswerIsTransparent
  <2>1. view.lines = sent /\ view.status = resp.status
    BY DEF ExchangeInv, AnswerIsOver
  <2>2. view.end = "clean"
    BY DEF ExchangeInv, CleanEnd
  <2>3. view \in ClientViews
    BY DEF ExchangeInv, TypeOK
  <2>. QED BY <2>1, <2>2, <2>3 DEF ClientViews
<1>. QED BY <1>1, ExchangeInvariant, PTL

(* The usage recorded for a stream is that of the last final chunk read,   *)
(* and only a stream without one is aborted (finalUsage in                 *)
(* handleStreamingResponse).                                               *)
THEOREM StreamUsageIsRight == Spec => []StreamUsageIsLastDone
<1>1. ExchangeInv => StreamUsageIsLastDone
  BY DEF ExchangeInv, HandedFacts, StreamFacts, StreamUsageIsLastDone,
         Recorded
<1>. QED BY <1>1, ExchangeInvariant, PTL

(* A stream whose final chunk never came is an abort and no success,       *)
(* however it ended.                                                       *)
THEOREM IncompleteStreamsAbort == Spec => []IncompleteStreamIsAborted
<1>1. ExchangeInv => IncompleteStreamIsAborted
  <2>. SUFFICES ASSUME ExchangeInv, Recorded, event.stream,
                       \A i \in 1 .. seen : sent[i] # "done"
       PROVE  event.aborted /\ ~event.success
    BY DEF IncompleteStreamIsAborted
  <2>1. pc \in {"recording", "returning", "returned"}
    BY DEF ExchangeInv, HandedFacts, Recorded, TypeOK
  <2>2. event.aborted
    BY <2>1 DEF ExchangeInv, StreamFacts
  <2>3. event.success => ~event.aborted
    BY <2>1 DEF ExchangeInv, FlawlessMeansWhole, Flawless
  <2>. QED BY <2>2, <2>3
<1>. QED BY <1>1, ExchangeInvariant, PTL

(* Every exchange that reached the upstream hands exactly one event to     *)
(* persistAsync before its handler returns, whichever way it ends.         *)
THEOREM ExchangeIsRecordedOnce == Spec => []RecordedExactlyOnce
<1>1. ExchangeInv => RecordedExactlyOnce
  BY DEF ExchangeInv, HandedFacts, RecordedExactlyOnce, TypeOK
<1>. QED BY <1>1, ExchangeInvariant, PTL
=============================================================================
