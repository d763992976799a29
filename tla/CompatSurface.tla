---------------------------- MODULE CompatSurface ----------------------------
(***************************************************************************)
(* The OpenAI-compatible chat endpoint: the per-user limiter               *)
(* (server/compat_rate_limit.go), the handler and the translation of the   *)
(* request (compat_openai_chat.go, _claude.go, _gemini.go, _utils.go), and *)
(* the stream writers that turn the relay's SSE lines into OpenAI chunks   *)
(* (compat_openai_stream.go).                                              *)
(*                                                                         *)
(* The relay (module RelayFlow) is what answers: with an error status, a   *)
(* JSON body, or one Write per line of the provider's stream, which may be *)
(* cut anywhere.  Any write to the client may fail.  A frame sent to the   *)
(* client is its one interesting part: "role", a text, a finish reason,    *)
(* "ping", "[DONE]" or "error".                                            *)
(***************************************************************************)
EXTENDS Integers, Sequences, FiniteSets

CONSTANTS
  Chats, Keys,     \* requests, and the users' keys
  KeyOf,           \* request -> its key, "" for an admin's, which is not limited
  MaxPerMinute, MaxConcurrent,  \* CompatMaxPerMinute, CompatMaxConcurrent; 0 is no limit
  Minute,          \* ticks of the limiter's window
  CatalogDrivers,  \* providers with a driver
  ChatRequests,    \* request -> what it may ask
  Answer,          \* the texts of the provider's answer
  MaxCompatNow     \* bound: the clock

Finishes == {"stop", "length", "tool_calls", "content_filter"}

\* A request as decoded: a stop or format that cannot be used is "bad", content that is
\* not text only is "image".
ChatRequest ==
  [model : [prefix : STRING, family : STRING],
   messages : Seq([role : STRING, content : STRING]), tools : BOOLEAN, stop : STRING,
   format : {"none", "text", "json_object", "json_schema", "bad"}, stream : BOOLEAN]

\* The texts of the answer are not empty, and frames of different kinds are different.
ASSUME CompatAssumption ==
  /\ MaxPerMinute \in Nat /\ MaxConcurrent \in Nat /\ Minute \in Nat /\ MaxCompatNow \in Nat
  /\ IsFiniteSet(Chats) /\ "" \notin Keys /\ KeyOf \in [Chats -> Keys \cup {""}]
  /\ ChatRequests \in [Chats -> SUBSET ChatRequest]
  /\ Answer \in Seq(STRING) /\ Answer # <<>>
  /\ \A i \in DOMAIN Answer : Answer[i] \notin {"", "role", "ping", "[DONE]", "error"} \cup Finishes

VARIABLES
  compatNow,
  limiter,  \* key -> [started, inflight]; an entry that was deleted is empty.  A start is
            \* the request that made it, at its stamp
  chats     \* request -> where its handler is, and its stream writer

compatVars == <<compatNow, limiter, chats>>

NotSent == [turns |-> <<>>]
NewChat ==
  [at |-> "idle", stamp |-> 0, late |-> FALSE, admitted |-> FALSE,
   prov |-> "", stream |-> FALSE, asked |-> NotSent, sent |-> NotSent, lines |-> <<>>,
   roleSent |-> FALSE, terminalSignalSeen |-> FALSE, doneSent |-> FALSE,
   downstreamErr |-> FALSE, ended |-> "", got |-> <<>>, status |-> 0, outcome |-> ""]

CompatInit ==
  /\ compatNow = 0
  /\ limiter = [k \in Keys |-> [started |-> {}, inflight |-> 0]]
  /\ chats = [q \in Chats |-> NewChat]

-----------------------------------------------------------------------------
(* The translation of a request.  A model is its prefix, its family ("claude-",
   "gemini-", ...) and its name. *)
ResolvesTo(prov, prefixes, m) ==
  (m.prefix \in prefixes \/ (m.prefix = "" /\ m.family = prov)) /\ m.family = prov

resolveCompatModel(m) ==
  IF ResolvesTo("claude", {"claude", "anthropic"}, m) THEN "claude"
  ELSE IF ResolvesTo("gemini", {"gemini", "google"}, m) THEN "gemini" ELSE ""

\* The elements of s at the positions S, in their order: the n-th is at the position that
\* has n of S up to it.
Picked(s, S) ==
  [n \in 1 .. Cardinality(S) |->
     s[CHOOSE i \in S : Cardinality({j \in S : j <= i}) = n]]

Turn(m) == m.role \in {"user", "assistant"}
SystemPart(m) == m.role \in {"system", "developer"} /\ m.content # ""

\* A missing content counts as "image".
Translatable(r) ==
  /\ ~r.tools /\ resolveCompatModel(r.model) # ""
  /\ r.stop # "bad" /\ r.format # "bad"
  /\ \A i \in DOMAIN r.messages :
       /\ r.messages[i].content # "image"
       /\ r.messages[i].role \in {"user", "assistant", "system", "developer"}
  /\ \E i \in DOMAIN r.messages : Turn(r.messages[i])

TurnsOf(r, assistant) ==
  LET said == Picked(r.messages, {i \in DOMAIN r.messages : Turn(r.messages[i])})
  IN  [i \in DOMAIN said |->
        [said[i] EXCEPT !.role = IF @ = "assistant" THEN assistant ELSE @]]

SystemOf(r) ==
  LET parts == Picked(r.messages, {i \in DOMAIN r.messages : SystemPart(r.messages[i])})
  IN  [i \in DOMAIN parts |-> parts[i].content]

\* The response format is an instruction in the system prompt.
compatOpenAIChatToClaudeRequest(r) ==
  [turns |-> TurnsOf(r, "assistant"), json |-> "",
   system |-> SystemOf(r) \o
     IF r.format \in {"json_object", "json_schema"} THEN <<r.format>> ELSE <<>>]

compatOpenAIChatToGeminiRequest(r) ==
  [turns |-> TurnsOf(r, "model"), system |-> SystemOf(r),
   json |-> IF r.format \in {"json_object", "json_schema"} THEN r.format ELSE ""]

buildCompatTarget(r) ==
  IF resolveCompatModel(r.model) = "claude" THEN compatOpenAIChatToClaudeRequest(r)
  ELSE compatOpenAIChatToGeminiRequest(r)

compatClaudeFinishReason(reason) ==
  CASE reason = "max_tokens" -> "length" [] reason = "tool_use" -> "tool_calls"
    [] OTHER -> "stop"

compatGeminiFinishReason(reason) ==
  CASE reason = "MAX_TOKENS" -> "length" [] reason = "SAFETY" -> "content_filter"
    [] OTHER -> "stop"

FinishReasons(prov) ==
  IF prov = "claude" THEN {compatClaudeFinishReason(r) : r \in {"end_turn", "max_tokens"}}
  ELSE {compatGeminiFinishReason(r) : r \in {"STOP", "SAFETY"}}

-----------------------------------------------------------------------------
(* The limiter. *)
\* A mutant of Kept: a start exactly a minute ago no longer counts.
KeptAfter(started, now) ==
  {q \in started : chats[q].stamp > now - Minute}

\* The starts that are not before the cutoff.
Kept(started, now) ==
  {q \in started : chats[q].stamp >= now - Minute}

\* The request comes in, and the handler reads the clock for Acquire.
Arrive(q) ==
  /\ chats[q].at = "idle"
  /\ chats' = [chats EXCEPT ![q].at = IF KeyOf[q] = "" THEN "open" ELSE "stamped",
                            ![q].stamp = IF KeyOf[q] = "" THEN 0 ELSE compatNow]
  /\ UNCHANGED <<compatNow, limiter>>

\* A response written by the handler itself; "return" is the deferred release.
Respond(q, status, outcome) ==
  chats' = [chats EXCEPT ![q].at = "return", ![q].status = status, ![q].outcome = outcome,
                         ![q].asked = NotSent, ![q].sent = NotSent]

\* What is left of a request: its admission, for the history.
Returned(q) ==
  LET c == chats[q]
  IN  [NewChat EXCEPT !.at = "done", !.stamp = IF c.admitted THEN c.stamp ELSE 0,
                      !.late = c.late, !.admitted = c.admitted]

Limited(q) ==
  LET e == limiter[KeyOf[q]]
  IN  \/ MaxConcurrent > 0 /\ e.inflight >= MaxConcurrent
      \/ MaxPerMinute > 0 /\ Cardinality(Kept(e.started, chats[q].stamp)) >= MaxPerMinute

AcquireRefused(q) ==
  /\ chats[q].at = "stamped" /\ Limited(q)
  /\ limiter' = [limiter EXCEPT ![KeyOf[q]].started = Kept(@, chats[q].stamp)]
  /\ chats' = [chats EXCEPT ![q] = [Returned(q) EXCEPT !.status = 429, !.outcome = "error"]]
  /\ UNCHANGED compatNow

Acquire(q) ==
  LET c == chats[q]
      kept == Kept(limiter[KeyOf[q]].started, c.stamp)
  IN  /\ c.at = "stamped" /\ ~Limited(q)
      /\ limiter' = [limiter EXCEPT ![KeyOf[q]] =
           [inflight |-> @.inflight + 1,
            started |-> IF MaxPerMinute > 0 THEN kept \cup {q} ELSE kept]]
      /\ chats' = [chats EXCEPT ![q].at = "open", ![q].admitted = TRUE,
                                ![q].late = c.stamp # compatNow]
      /\ UNCHANGED compatNow

\* The function Acquire returns, deferred to the handler's return.
release(q) ==
  LET k == KeyOf[q]
  IN  /\ chats[q].at = "return"
      /\ chats' = [chats EXCEPT ![q] = Returned(q)]
      /\ limiter' =
           IF ~chats[q].admitted THEN limiter
           ELSE [limiter EXCEPT
                  ![k].inflight = IF @ > 0 THEN @ - 1 ELSE @,
                  ![k].started = IF MaxPerMinute > 0 THEN Kept(@, compatNow) ELSE @]
      /\ UNCHANGED compatNow

-----------------------------------------------------------------------------
(* The handler up to the relay. *)
\* The body cannot be read or decoded, or the request is refused.
BadRequest(q) ==
  /\ chats[q].at = "open"
  /\ \/ Respond(q, 400, "error")
     \/ \E r \in ChatRequests[q] :
          /\ Translatable(r) => resolveCompatModel(r.model) \notin CatalogDrivers
          /\ Respond(q, IF Translatable(r) THEN 503 ELSE 400, "error")
  /\ UNCHANGED <<compatNow, limiter>>

Translate(q) ==
  /\ chats[q].at = "open"
  /\ \E r \in ChatRequests[q] :
       /\ Translatable(r) /\ resolveCompatModel(r.model) \in CatalogDrivers
       /\ chats' = [chats EXCEPT ![q].at = "relay", ![q].stream = r.stream, ![q].asked = r,
            ![q].prov = resolveCompatModel(r.model), ![q].sent = buildCompatTarget(r)]
  /\ UNCHANGED <<compatNow, limiter>>

\* The relay answers with an error status.  A stream's writer keeps the body for
\* finalize, which leaves the outcome "ok"; otherwise the handler passes it on.
RelayFails(q) ==
  /\ chats[q].at = "relay"
  /\ Respond(q, 500, IF chats[q].stream THEN "ok" ELSE "error")
  /\ UNCHANGED <<compatNow, limiter>>

\* A JSON answer: converted to one OpenAI message, or not convertible.  The message is one
\* write; if it fails the client has no answer it could decode, and the handler logs "ok"
\* all the same: writeJSON keeps the error to itself.
RelayAnswers(q) ==
  LET c == chats[q]
  IN  /\ c.at = "relay" /\ ~c.stream
      /\ \/ Respond(q, 502, "error")
         \/ chats' = [chats EXCEPT ![q] =
              [c EXCEPT !.at = "return", !.status = 200, !.outcome = "ok",
                        !.asked = NotSent, !.sent = NotSent, !.downstreamErr = TRUE]]
         \/ \E f \in FinishReasons(c.prov) :
              chats' = [chats EXCEPT ![q] =
                [c EXCEPT !.at = "return", !.status = 200, !.outcome = "ok",
                          !.asked = NotSent, !.sent = NotSent,
                          !.got = <<"role">> \o Answer \o <<f>>]]
      /\ UNCHANGED <<compatNow, limiter>>

-----------------------------------------------------------------------------
(* Streams. *)
Line(kind) == [kind |-> kind, text |-> ""]
Text(t) == [kind |-> "text", text |-> t]
Texts == [i \in DOMAIN Answer |-> Text(Answer[i])]

\* The data lines of a provider's stream.  Claude: events by their type, "other" for
\* those that carry nothing for the client.  Gemini: chunks, the last text with the
\* finish reason or the reason on its own, then usage or a [DONE] line.
Scripts(prov) ==
  IF prov = "claude"
  THEN {<<Line("message_start"), Line("ping")>> \o Texts \o
        <<Line("other"), Line("message_delta"), Line("message_stop")>>}
  ELSE {SubSeq(Texts, 1, Len(Texts) - 1) \o
          <<[kind |-> "last", text |-> Answer[Len(Answer)]], Line("other")>>,
        Texts \o <<Line("last"), Line("[DONE]")>>}

\* The relay's 200 (newCompatOpenAIStreamWriter, newCompatGeminiStreamWriter, WriteHeader).
RelayStreams(q) ==
  /\ chats[q].at = "relay" /\ chats[q].stream
  /\ \E s \in Scripts(chats[q].prov) :
       chats' = [chats EXCEPT ![q].at = "stream", ![q].status = 200, ![q].lines = s,
                              ![q].asked = NotSent, ![q].sent = NotSent]
  /\ UNCHANGED <<compatNow, limiter>>

\* emitChunk and emitComment for each frame in turn; a failed write ends it.
Emit(c, frames) ==
  {[c EXCEPT !.got = @ \o SubSeq(frames, 1, n), !.downstreamErr = n < Len(frames)] :
     n \in 0 .. Len(frames)}

\* A mutant of emitDone: it does not look at doneSent.
emitDoneAgain(c) ==
  {[d EXCEPT !.doneSent = ~d.downstreamErr] : d \in Emit(c, <<"[DONE]">>)}

\* doneSent is set once the frame is written.
emitDone(c) ==
  IF c.doneSent THEN {c}
  ELSE {[d EXCEPT !.doneSent = ~d.downstreamErr] : d \in Emit(c, <<"[DONE]">>)}

Role(c) == IF c.roleSent THEN <<>> ELSE <<"role">>
Terminal(c) == [c EXCEPT !.terminalSignalSeen = TRUE]

handleClaudeStreamLine(c, l) ==
  CASE l.kind = "message_start" -> Emit([c EXCEPT !.roleSent = TRUE], Role(c))
    [] l.kind = "text"          -> Emit(c, <<l.text>>)
    [] l.kind = "message_delta" -> UNION {Emit(c, <<f>>) : f \in FinishReasons("claude")}
    [] l.kind = "message_stop"  -> emitDone(Terminal(c))
    [] l.kind = "ping"          -> Emit(c, <<"ping">>)
    [] OTHER                    -> {c}

\* The writer notes the terminal signal before it writes the finish reason, after the
\* text of the same chunk.
handleGeminiStreamLine(c, l) ==
  LET text == IF l.text = "" THEN <<>> ELSE <<l.text>>
      said == Emit([c EXCEPT !.roleSent = TRUE], Role(c) \o text)
  IN  CASE l.kind = "text"   -> said
        [] l.kind = "last"   -> UNION {IF d.downstreamErr THEN {d} ELSE
             UNION {Emit(Terminal(d), <<f>>) : f \in FinishReasons("gemini")} : d \in said}
        [] l.kind \in {"[DONE]", "bare"} -> emitDone(Terminal(c))
        [] OTHER             -> {c}

handleStreamLine(c, l) ==
  IF c.prov = "claude" THEN handleClaudeStreamLine(c, l) ELSE handleGeminiStreamLine(c, l)

\* StreamResponse passes on one line.  After a failed write the writer ignores what
\* comes; Claude's StreamResponse stops by itself, Gemini's reads on.
Write(q) ==
  LET c == chats[q]
      rest == [c EXCEPT !.lines = Tail(@)]
  IN  /\ c.at = "stream" /\ c.lines # <<>>
      /\ c.downstreamErr => c.prov = "gemini"
      /\ \E d \in IF c.downstreamErr THEN {rest} ELSE handleStreamLine(rest, Head(c.lines)) :
           chats' = [chats EXCEPT ![q] = d]
      /\ UNCHANGED <<compatNow, limiter>>

\* The provider's connection breaks inside a data line: the scanner passes on what it
\* has.  Claude's writer needs no payload for a start, a ping or a stop; Gemini's reads
\* "data: " with nothing after it as the end of the stream.
Torn(c) ==
  IF c.prov = "gemini" THEN {Line("other"), Line("bare")}
  ELSE {IF Head(c.lines).kind \in {"message_start", "ping", "message_stop"}
        THEN Head(c.lines) ELSE Line("other")}

Cut(q) ==
  LET c == chats[q]
  IN  /\ c.at = "stream" /\ c.lines # <<>> /\ ~c.downstreamErr
      /\ \E l \in Torn(c) : \E d \in handleStreamLine([c EXCEPT !.lines = <<>>], l) :
           chats' = [chats EXCEPT ![q] = [d EXCEPT !.at = "final", !.ended = l.kind]]
      /\ UNCHANGED <<compatNow, limiter>>

\* StreamResponse returns: the upstream is over (wherever), or the client is gone.
StreamEnds(q) ==
  /\ chats[q].at = "stream"
  /\ chats' = [chats EXCEPT ![q].at = "final", ![q].lines = <<>>,
                            ![q].ended = IF chats[q].lines = <<>> THEN "whole" ELSE "cut"]
  /\ UNCHANGED <<compatNow, limiter>>

completed(c) == ~c.downstreamErr /\ c.terminalSignalSeen /\ c.doneSent

\* finalize, and the outcome the handler logs: "compat_stream_incomplete" is an error.
finalize(q) ==
  LET c == chats[q]
  IN  /\ c.at = "final"
      /\ \E d \in IF c.downstreamErr THEN {c} ELSE emitDone(c) :
           chats' = [chats EXCEPT ![q] =
             [d EXCEPT !.at = "return", !.outcome = IF completed(d) THEN "ok" ELSE "error"]]
      /\ UNCHANGED <<compatNow, limiter>>

CompatTick ==
  /\ compatNow < MaxCompatNow /\ compatNow' = compatNow + 1
  /\ UNCHANGED <<limiter, chats>>

CompatNext ==
  \/ CompatTick
  \/ \E q \in Chats :
       \/ Arrive(q) \/ AcquireRefused(q) \/ Acquire(q) \/ release(q)
       \/ BadRequest(q) \/ Translate(q) \/ RelayFails(q) \/ RelayAnswers(q)
       \/ RelayStreams(q) \/ Write(q) \/ Cut(q) \/ StreamEnds(q) \/ finalize(q)

CompatSpec == CompatInit /\ [][CompatNext]_compatVars

-----------------------------------------------------------------------------
CompatTypeOK ==
  /\ compatNow \in 0 .. MaxCompatNow
  /\ \A k \in Keys : limiter[k].inflight \in Nat /\ limiter[k].started \subseteq Chats
  /\ \A q \in Chats : /\ chats[q].at \in {"idle", "stamped", "open", "relay", "stream", "final",
                                           "return", "done"}
                      /\ chats[q].outcome \in {"", "ok", "error"}

\* The limits of Acquire hold for what really runs: inflight is the number of admitted
\* requests that have not returned, whichever way each of them ends, and is within
\* the limit; and no closed interval of a minute has more admissions than
\* the limit (leaving aside a request that was held up between reading the clock and
\* the limiter's lock, whose stamp is older than its admission).
LimitsHold ==
  \A k \in Keys :
    LET mine == {q \in Chats : KeyOf[q] = k /\ chats[q].admitted}
        running == {q \in mine : chats[q].at # "done"}
    IN  /\ limiter[k].inflight = Cardinality(running)
        /\ MaxConcurrent > 0 => Cardinality(running) <= MaxConcurrent
        /\ MaxPerMinute > 0 => \A t \in 0 .. MaxCompatNow :
             Cardinality({q \in mine : ~chats[q].late /\ chats[q].stamp \in t .. t + Minute})
               <= MaxPerMinute

\* The texts among the frames of a chat, and how often a frame occurs.
TextsOf(c) ==
  Picked(c.got, {i \in DOMAIN c.got : c.got[i] \in {Answer[j] : j \in DOMAIN Answer}})
Count(c, frames) == Cardinality({i \in DOMAIN c.got : c.got[i] \in frames})
LastFrame(c) == IF c.got = <<>> THEN "" ELSE c.got[Len(c.got)]

\* What the writers promise a client, wherever the provider's stream is cut and
\* whichever write fails: the role comes first, the texts are the answer's in order,
\* [DONE] comes at most once and nothing follows it, a stream that could be written
\* to the end ends with it, and an error status comes with no part of an answer.
\* The request is logged as a success when nothing failed on either side.  When it is
\* logged as one, the whole answer, its finish reason and a stream's [DONE] went out,
\* with three exceptions that the code has: a stream that the relay answered with an
\* error status (the handler logs a stream as failed only under a 200), a JSON answer
\* whose write failed, and Gemini's stream cut right behind "data: ".
\* What was sent upstream holds every message of the client that has a text, and the
\* format it asked for.
ChatFaithful ==
  \A q \in Chats :
    LET c == chats[q]
        whole == /\ TextsOf(c) = Answer /\ Count(c, Finishes) = 1
                 /\ c.stream => LastFrame(c) = "[DONE]"
    IN  /\ \A i \in DOMAIN c.got : c.got[i] = "role" => \A j \in 1 .. i - 1 : c.got[j] = "ping"
        /\ TextsOf(c) # <<>> => Count(c, {"role"}) = 1
        /\ TextsOf(c) = SubSeq(Answer, 1, Len(TextsOf(c)))
        /\ Count(c, {"[DONE]"}) <= 1 /\ Count(c, Finishes) <= 1
        /\ Count(c, {"[DONE]"}) = 1 => LastFrame(c) = "[DONE]"
        /\ c.at = "return" =>
             /\ c.status # 200 => c.got = <<>>
             /\ c.stream /\ c.status = 200 /\ ~c.downstreamErr => LastFrame(c) = "[DONE]"
             /\ c.status = 200 /\ (c.stream => c.ended = "whole") /\ ~c.downstreamErr =>
                  c.outcome = "ok"
             /\ c.outcome = "ok" => \/ whole
                                    \/ c.stream /\ c.status # 200
                                    \/ ~c.stream /\ c.status = 200 /\ c.downstreamErr
                                    \/ c.ended = "bare"
        /\ c.sent # NotSent =>
             /\ Len(c.sent.turns) + Len(c.sent.system) >=
                  Cardinality({i \in DOMAIN c.asked.messages :
                                 c.asked.messages[i].content # ""})
             /\ c.asked.format \notin {"none", "text"} =>
                  c.asked.format \in {c.sent.json} \cup
                    {c.sent.system[i] : i \in DOMAIN c.sent.system}
=============================================================================
