------------------------------ MODULE LlmStream ------------------------------
(* One streamed request to a model endpoint (ta-provider-llm, client/): the     *)
(* route with its token, one retry after a 401 with a refreshed token, and the  *)
(* reader that turns chunks of bytes into events.  A line of the stream is one   *)
(* string naming what it carries, and "nl" is a line break of either form; where *)
(* chunks begin and end is up to the network.                                    *)
EXTENDS Integers, Sequences, SequencesExt

CONSTANTS
  MaxFrames,    \* bound on the frames of one answer
  MaxPieces     \* bound on the pieces that are on the wire

VARIABLES
  llm,          \* [pc, family, subscription, hasSystem, tries, end]
  wire,         \* the body: [open |-> "open"|"closed"|"broken", pieces, frames |-> the whole frames sent]
  bytes,        \* HttpLlmStream::buffered_bytes
  queue,        \* buffered_events
  out,          \* history: the events handed out
  llmCancelled  \* the cancellation token

llmVars == <<llm, wire, bytes, queue, out, llmCancelled>>

Families == {"responses", "messages", "chat"}

-----------------------------------------------------------------------------
(* formats/: what one frame means, per family.  An error ends the stream.      *)
Malformed == {"garbage"}
ResponsesEvents(data) ==
  CASE data = "textDelta" -> <<"text">>
    [] data = "callAdded" -> <<"toolStarted">>
    [] data = "argumentsDelta" -> <<"toolInput">>
    [] data = "callDone" -> <<"toolCompleted">>
    [] data = "completed" -> <<"usage", "turnCompleted">>
    [] OTHER -> <<>>
ResponsesFails(data) == data \in Malformed \union {"failed", "incomplete", "error"}
MessagesEvents(data) ==
  CASE data = "textDelta" -> <<"text">>
    [] data = "callAdded" -> <<"toolStarted">>
    [] data = "argumentsDelta" -> <<"toolInput">>
    [] data = "callDone" -> <<"toolCompleted">>
    [] data = "completed" -> <<"turnCompleted">>
    [] OTHER -> <<>>
\* The first chunk of a call may carry its name and arguments; the reason at the end
\* says whether calls or the turn are complete.
ChatEvents(data) ==
  CASE data = "textDelta" -> <<"text">>
    [] data = "callAdded" -> <<"toolStarted", "toolInput">>
    [] data = "argumentsDelta" -> <<"toolInput">>
    [] data = "callDone" -> <<"batchCompleted">>
    [] data = "completed" -> <<"turnCompleted">>
    [] OTHER -> <<>>
Parse(data) ==
  CASE llm.family = "responses" -> ResponsesEvents(data)
    [] llm.family = "messages" -> MessagesEvents(data)
    [] llm.family = "chat" -> ChatEvents(data)
ParseFails(data) == IF llm.family = "responses" THEN ResponsesFails(data) ELSE data \in Malformed
Frames == {"textDelta", "callAdded", "argumentsDelta", "callDone", "completed", "failed", "incomplete", "garbage", "done", "comment"}
\* sse_data: a comment has no data line, and [DONE] means nothing.
HasData(data) == data \notin {"comment", "done"}

-----------------------------------------------------------------------------
LlmEnds(how) == llm' = [llm EXCEPT !.pc = "ended", !.end = how]

\* start_stream: nothing is sent for a run that is cancelled.
StartStream ==
  /\ llm.pc = "start"
  /\ IF llmCancelled THEN LlmEnds("cancelled") ELSE llm' = [llm EXCEPT !.pc = IF llm.family = "responses" THEN "routing" ELSE "sending"]
  /\ UNCHANGED <<wire, bytes, queue, out, llmCancelled>>
\* route and force_refresh_route: the token manager may refuse; a chatgpt route without a
\* system prompt is refused before it is sent.  Neither looks at the cancellation.
Routed(try) ==
  /\ \/ llm' = [llm EXCEPT !.pc = "sending"]
     \/ llm.subscription /\ LlmEnds("auth")
     \/ llm.subscription /\ ~llm.hasSystem /\ LlmEnds("config")
  /\ UNCHANGED <<wire, bytes, queue, out, llmCancelled>>
Route == llm.pc = "routing" /\ Routed(1)
ForceRefreshRoute == llm.pc = "refreshing" /\ Routed(2)
\* send_request races the cancellation, which wins when both are ready.
SendCancelled ==
  /\ llm.pc \in {"sending", "refused"} /\ llmCancelled /\ LlmEnds("cancelled")
  /\ UNCHANGED <<wire, bytes, queue, out, llmCancelled>>
SendFails ==
  /\ llm.pc = "sending" /\ ~llmCancelled /\ LlmEnds("network")
  /\ UNCHANGED <<wire, bytes, queue, out, llmCancelled>>
Accepted ==
  /\ llm.pc = "sending" /\ llm' = [llm EXCEPT !.pc = "streaming", !.tries = @ + 1]
  /\ wire' = [wire EXCEPT !.open = "open"]
  /\ UNCHANGED <<bytes, queue, out, llmCancelled>>
\* Only the first answer may be a 401 that is tried again.
Retries == llm.subscription /\ llm.tries = 0
Unauthorized ==
  /\ llm.pc = "sending" /\ llm.tries < 3
  /\ IF Retries THEN llm' = [llm EXCEPT !.pc = "refreshing", !.tries = @ + 1]
     ELSE llm' = [llm EXCEPT !.pc = "refused", !.tries = @ + 1, !.end = "auth"]
  /\ UNCHANGED <<wire, bytes, queue, out, llmCancelled>>
\* require_stream_response: the status and the words of the body make the error.
ErrorOf == {"auth", "rateLimited", "contextLength", "config", "server", "network"}
Refused ==
  /\ llm.pc = "sending"
  /\ \E how \in ErrorOf : llm' = [llm EXCEPT !.pc = "refused", !.tries = @ + 1, !.end = how]
  /\ UNCHANGED <<wire, bytes, queue, out, llmCancelled>>
ErrorRead ==
  /\ llm.pc = "refused" /\ ~llmCancelled /\ LlmEnds(llm.end)
  /\ UNCHANGED <<wire, bytes, queue, out, llmCancelled>>

-----------------------------------------------------------------------------
(* The endpoint, and the reader.                                              *)
EndpointWrites ==
  /\ wire.open = "open" /\ Len(wire.frames) < MaxFrames /\ Len(wire.pieces) < MaxPieces
  /\ \E data \in Frames :
       wire' = [wire EXCEPT !.frames = Append(@, data), !.pieces = @ \o <<data, "nl", "nl">>]
  /\ UNCHANGED <<llm, bytes, queue, out, llmCancelled>>
\* The connection ends in order, or breaks with a part of what was written.
EndpointCloses ==
  /\ wire.open = "open"
  /\ \/ wire' = [wire EXCEPT !.open = "closed"]
     \/ \E n \in 0 .. Len(wire.pieces), how \in {"closed", "broken"} :
          wire' = [open |-> how, pieces |-> SubSeq(wire.pieces, 1, n),
                   frames |-> SubSeq(wire.frames, 1, Len(wire.frames) - (Len(wire.pieces) - n + 2) \div 3)]
  /\ UNCHANGED <<llm, bytes, queue, out, llmCancelled>>

\* Mutant: each chunk is taken for whole frames.
FrameEndAtEnd(piece) == IF piece # <<>> /\ \E i \in DOMAIN piece : piece[i] = "nl" THEN Len(piece) ELSE 0
\* sse_frame_end: the place of the first empty line, 0 without one.
SseFrameEnd(piece) ==
  LET ends == {i \in 1 .. Len(piece) - 1 : piece[i] = "nl" /\ piece[i + 1] = "nl"} IN
  IF ends = {} THEN 0 ELSE CHOOSE i \in ends : \A j \in ends : i <= j
FrameData(piece) == SelectSeq(SubSeq(piece, 1, SseFrameEnd(piece) - 1), LAMBDA p : p # "nl")
HandsOut ==
  /\ llm.pc = "streaming" /\ queue # <<>>
  /\ out' = Append(out, Head(queue)) /\ queue' = Tail(queue)
  /\ UNCHANGED <<llm, wire, bytes, llmCancelled>>
ReadsFrame ==
  /\ llm.pc = "streaming" /\ queue = <<>> /\ SseFrameEnd(bytes) > 0
  /\ LET data == FrameData(bytes) IN
     IF data = <<>> \/ ~HasData(data[1]) THEN UNCHANGED <<llm, queue>>
     ELSE IF ParseFails(data[1]) THEN LlmEnds("parse") /\ UNCHANGED queue
     ELSE queue' = Parse(data[1]) /\ UNCHANGED llm
  /\ bytes' = SubSeq(bytes, SseFrameEnd(bytes) + 2, Len(bytes))
  /\ UNCHANGED <<wire, out, llmCancelled>>
Starved == llm.pc = "streaming" /\ queue = <<>> /\ SseFrameEnd(bytes) = 0
\* What is buffered is handed out first; then the cancellation wins.
SeesCancelled == Starved /\ llmCancelled
StreamCancelled ==
  /\ SeesCancelled /\ LlmEnds("cancelled")
  /\ UNCHANGED <<wire, bytes, queue, out, llmCancelled>>
ReadsChunk ==
  /\ Starved /\ ~llmCancelled /\ wire.pieces # <<>>
  /\ \E n \in 1 .. Len(wire.pieces) :
       /\ bytes' = bytes \o SubSeq(wire.pieces, 1, n)
       /\ wire' = [wire EXCEPT !.pieces = SubSeq(@, n + 1, Len(@))]
  /\ UNCHANGED <<llm, queue, out, llmCancelled>>
\* Only the Responses stream has to say that the turn is complete.
EndOf == IF llm.family = "responses" /\ ~Contains(out, "turnCompleted") THEN "network" ELSE "ok"
BodyEnds ==
  /\ Starved /\ ~llmCancelled /\ wire.pieces = <<>> /\ wire.open # "open"
  /\ LlmEnds(IF wire.open = "broken" THEN "network" ELSE EndOf)
  /\ UNCHANGED <<wire, bytes, queue, out, llmCancelled>>

CancelStream ==
  /\ ~llmCancelled /\ llmCancelled' = TRUE
  /\ UNCHANGED <<llm, wire, bytes, queue, out>>

LlmInit ==
  /\ \E family \in Families, subscription \in BOOLEAN, hasSystem \in BOOLEAN :
       /\ (subscription \/ ~hasSystem) => family = "responses"
       /\ llm = [pc |-> "start", family |-> family, subscription |-> subscription, hasSystem |-> hasSystem, tries |-> 0, end |-> "none"]
  /\ wire = [open |-> "idle", pieces |-> <<>>, frames |-> <<>>]
  /\ bytes = <<>> /\ queue = <<>> /\ out = <<>> /\ llmCancelled = FALSE
LlmReader == HandsOut \/ ReadsFrame \/ StreamCancelled \/ ReadsChunk \/ BodyEnds
LlmSender == StartStream \/ SendCancelled \/ ErrorRead
LlmNext ==
  \/ LlmReader \/ LlmSender \/ Route \/ ForceRefreshRoute \/ SendFails \/ Accepted \/ Unauthorized \/ Refused
  \/ EndpointWrites \/ EndpointCloses \/ CancelStream
\* The reader and the sender run as soon as they can; the endpoint owes nothing.
LlmFairness == WF_llmVars(LlmReader) /\ WF_llmVars(LlmSender)
LlmSpec == LlmInit /\ [][LlmNext]_llmVars /\ LlmFairness

-----------------------------------------------------------------------------
\* What the frames sent say; behind one that is an error nothing is read.
Said == FoldLeft(LAMBDA acc, data : acc \o Parse(data), <<>>, SelectSeq(wire.frames, LAMBDA d : HasData(d) /\ ~ParseFails(d)))
\* However the network cuts the body, the events handed out are a prefix of what the
\* endpoint said, in order and each once, and a stream that ends well has handed out all
\* of the frames that arrived whole; a Responses stream ends well only with its turn
\* completed.
StreamFaithful ==
  /\ IsPrefix(out, Said)
  /\ llm.end = "ok" => out = Said
  /\ llm.end = "ok" /\ llm.family = "responses" => Contains(out, "turnCompleted")
\* A request is sent at most twice, the second time after the first was refused for its
\* token, and only a first 401 asks for another refresh.
OneAuthRetry == llm.tries <= 2 /\ (llm.tries = 2 => llm.subscription)
\* What a model request promises: a faithful stream and one retry.
StreamSound == StreamFaithful /\ OneAuthRetry
\* A cancelled request ends, whatever the endpoint does, once its token is resolved: the
\* wait for the token manager does not look at the cancellation.
CancelEndsStream == llmCancelled ~> llm.pc \in {"ended", "routing", "refreshing"}
=============================================================================
