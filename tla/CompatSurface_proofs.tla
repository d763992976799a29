------------------------ MODULE CompatSurface_proofs ------------------------
(***************************************************************************)
(* Proofs about CompatSurface, for any number of requests and keys, any    *)
(* limits, any answer of the provider and any requests.                    *)
(***************************************************************************)
EXTENDS CompatSurface, FiniteSetTheorems, FunctionTheorems, SequenceTheorems, TLAPS

\* The assumption, part by part.
LEMMA Numbers ==
  MaxPerMinute \in Nat /\ MaxConcurrent \in Nat /\ Minute \in Nat /\ MaxCompatNow \in Nat
  BY CompatAssumption

\* A finite number of requests, each with a key.
LEMMA KeysOfChats ==
  IsFiniteSet(Chats) /\ "" \notin Keys /\ KeyOf \in [Chats -> Keys \cup {""}]
  BY CompatAssumption

Places == {"idle", "stamped", "open", "relay", "stream", "final", "return", "done"}
Messages == Seq([role : STRING, content : STRING])
SentRequests == {buildCompatTarget(r) : r \in {x \in ChatRequest : Translatable(x)}}
AnswerTexts == {Answer[i] : i \in DOMAIN Answer}
Frames == {"role", "ping", "[DONE]"} \cup Finishes \cup AnswerTexts
Kinds == {"message_start", "ping", "text", "other", "message_delta", "message_stop", "last",
          "[DONE]", "bare"}
LineRec == [kind : Kinds, text : AnswerTexts \cup {""}]
ChatRec ==
  [at : Places, stamp : 0 .. MaxCompatNow, late : BOOLEAN, admitted : BOOLEAN,
   prov : {"", "claude", "gemini"}, stream : BOOLEAN, asked : ChatRequest \cup {NotSent},
   sent : SentRequests \cup {NotSent}, lines : Seq(LineRec),
   roleSent : BOOLEAN, terminalSignalSeen : BOOLEAN, doneSent : BOOLEAN,
   downstreamErr : BOOLEAN, ended : {"", "whole", "cut"} \cup Kinds, got : Seq(Frames), status : Nat,
   outcome : {"", "ok", "error"}]

CompatTyped ==
  /\ compatNow \in 0 .. MaxCompatNow
  /\ limiter \in [Keys -> [started : SUBSET Chats, inflight : Nat]]
  /\ chats \in [Chats -> ChatRec]

-----------------------------------------------------------------------------
(* The inductive invariants.                                               *)

\* What was admitted under a key, and what of it has not returned.
Mine(k) == {q \in Chats : KeyOf[q] = k /\ chats[q].admitted}
Running(k) == {q \in Mine(k) : chats[q].at # "done"}

\* The admissions of k that are not late, in the minute that begins at t.
Within(k, t) == {q \in Mine(k) : ~chats[q].late /\ chats[q].stamp \in t .. t + Minute}

\* A request has read the clock, is admitted after that, and only under a key.
Stamped(q) ==
  /\ chats[q].stamp <= compatNow
  /\ chats[q].at \in {"idle", "stamped"} => ~chats[q].admitted
  /\ chats[q].at = "stamped" \/ chats[q].admitted => KeyOf[q] \in Keys

\* The limiter forgets no admission before its minute is over, whoever prunes its list with
\* however old a reading of the clock.
Listed(k) ==
  /\ limiter[k].started \subseteq Mine(k)
  /\ MaxPerMinute > 0 => \A q \in Mine(k) :
       chats[q].stamp >= compatNow - Minute => q \in limiter[k].started

\* Its counter is exact and within the limit.
Counted(k) ==
  /\ limiter[k].inflight = Cardinality(Running(k))
  /\ MaxConcurrent > 0 => Cardinality(Running(k)) <= MaxConcurrent

\* No minute has too many admissions.
Rated(k) ==
  MaxPerMinute > 0 => \A t \in 0 .. MaxCompatNow : Cardinality(Within(k, t)) <= MaxPerMinute

LimitInv ==
  /\ \A q \in Chats : Stamped(q)
  /\ \A k \in Keys : Listed(k) /\ Counted(k) /\ Rated(k)

N == Len(Answer)

\* The i-th frame of an answer that is told in full, with p frames before the texts and
\* f for the finish reason.
Frame(p, f, i) ==
  IF i = 1 THEN "role" ELSE IF i <= p THEN "ping"
  ELSE IF i <= p + N THEN Answer[i - p] ELSE f

\* The client got the first m frames, and then [DONE] if doneSent says so.
Told(c, p, m) ==
  /\ m \in 0 .. p + N + 1
  /\ Len(c.got) = m + IF c.doneSent THEN 1 ELSE 0
  /\ \E f \in Finishes : \A i \in 1 .. m : c.got[i] = Frame(p, f, i)
  /\ c.doneSent => c.got[m + 1] = "[DONE]"

\* The i-th line of a stream of n lines.
ClaudeLine(i) ==
  IF i = 1 THEN Line("message_start") ELSE IF i = 2 THEN Line("ping")
  ELSE IF i <= N + 2 THEN Text(Answer[i - 2]) ELSE IF i = N + 3 THEN Line("other")
  ELSE IF i = N + 4 THEN Line("message_delta") ELSE Line("message_stop")
GeminiLine(n, i) ==
  IF i < n - 1 THEN Text(Answer[i])
  ELSE IF i = n - 1 THEN [kind |-> "last", text |-> IF n = N + 1 THEN Answer[N] ELSE ""]
  ELSE Line(IF n = N + 1 THEN "other" ELSE "[DONE]")

\* What the client has after the k-th line, while no write failed.
ClaudeSaid(c, k) ==
  /\ Told(c, 2, IF k <= N + 2 THEN k ELSE IF k = N + 3 THEN N + 2 ELSE N + 3)
  /\ c.roleSent <=> k >= 1
  /\ c.terminalSignalSeen <=> k = N + 5
  /\ c.doneSent <=> k = N + 5
GeminiSaid(c, n, k) ==
  /\ Told(c, 1, IF k = 0 THEN 0 ELSE IF k < n - 1 THEN k + 1 ELSE N + 2)
  /\ c.roleSent <=> k >= 1
  /\ c.terminalSignalSeen <=> k >= n - 1
  /\ c.doneSent <=> n = N + 2 /\ k = n

\* The stream has come to its k-th line, and so has the client unless a write failed.
ClaudeAt(c, k) ==
  /\ Len(c.lines) = N + 5 - k /\ \A i \in 1 .. N + 5 - k : c.lines[i] = ClaudeLine(k + i)
  /\ ~c.downstreamErr => ClaudeSaid(c, k)
GeminiAt(c, n, k) ==
  /\ Len(c.lines) = n - k /\ \A i \in 1 .. n - k : c.lines[i] = GeminiLine(n, k + i)
  /\ ~c.downstreamErr => GeminiSaid(c, n, k)

\* A write has failed, and nothing was written since.
Failed(c) ==
  c.downstreamErr /\ ~c.doneSent /\ \E p \in {1, 2} : \E m \in 0 .. p + N + 1 : Told(c, p, m)

\* A stream under way.
Streaming(c) ==
  /\ c.stream /\ c.status = 200 /\ c.ended = ""
  /\ c.downstreamErr => Failed(c)
  /\ \/ c.prov = "claude" /\ \E k \in 0 .. N + 5 : ClaudeAt(c, k)
     \/ c.prov = "gemini" /\ \E n \in {N + 1, N + 2} : \E k \in 0 .. n : GeminiAt(c, n, k)

\* What the client has when a stream stops: all of it if the end was seen, unless it was torn
\* right behind "data: ".
Halted(c, ended) ==
  /\ c.downstreamErr => ~c.doneSent
  /\ \E p \in {1, 2} : \E m \in 0 .. p + N + 1 :
       /\ Told(c, p, m)
       /\ c.terminalSignalSeen /\ ~c.downstreamErr => m = p + N + 1 \/ ended = "bare"

\* A stream that has ended, before and after finalize.
Ended(c) ==
  /\ c.stream /\ c.status = 200 /\ Halted(c, c.ended)
  /\ c.ended = "whole" /\ ~c.downstreamErr => c.terminalSignalSeen

\* What was sent upstream has everything that was asked.
SentRight(c) ==
  /\ Len(c.sent.turns) + Len(c.sent.system) >=
       Cardinality({i \in DOMAIN c.asked.messages : c.asked.messages[i].content # ""})
  /\ c.asked.format \notin {"none", "text"} =>
       c.asked.format \in {c.sent.json} \cup {c.sent.system[i] : i \in DOMAIN c.sent.system}

\* Nothing has been written to the client.
Silent(c) ==
  /\ c.got = <<>> /\ c.lines = <<>> /\ c.ended = ""
  /\ ~c.roleSent /\ ~c.terminalSignalSeen /\ ~c.doneSent /\ ~c.downstreamErr

\* A JSON answer has been written, or its write has failed.
Answered(c) ==
  /\ ~c.stream /\ c.status = 200 /\ c.outcome = "ok" /\ c.ended = ""
  /\ \/ ~c.doneSent /\ Told(c, 1, N + 2)
     \/ c.downstreamErr /\ c.got = <<>>

\* A chat in each place of its handler.
ChatAt(c) ==
  /\ c.at # "relay" => c.sent = NotSent
  /\ c.at \in {"idle", "stamped", "open", "relay", "done"} => Silent(c) /\ c.status # 200
  /\ c.at = "relay" => /\ c.prov \in {"claude", "gemini"}
                       /\ c.asked \in ChatRequest /\ c.sent \in SentRequests /\ SentRight(c)
  /\ c.at = "stream" => Streaming(c)
  /\ c.at = "final" => Ended(c)
  /\ c.at = "return" =>
       \/ Silent(c) /\ c.status # 200 /\ (c.outcome = "ok" => c.stream)
       \/ Answered(c)
       \/ /\ Ended(c) /\ (c.downstreamErr \/ c.doneSent)
          /\ c.outcome = IF completed(c) THEN "ok" ELSE "error"

ChatInv == \A q \in Chats : ChatAt(chats[q])

-----------------------------------------------------------------------------
(* Picked.                                                                 *)

\* How many of S are up to i.
Rank(S, i) == Cardinality({j \in S : j <= i})

\* Of two positions the later one has more of S up to it.
LEMMA RankGrows ==
  ASSUME NEW S \in SUBSET Nat, IsFiniteSet(S), NEW i \in S, NEW k \in S, i < k
  PROVE  Rank(S, i) < Rank(S, k)
<1> DEFINE A == {j \in S : j <= i}
           B == {j \in S : j <= k}
<1>1. A \in SUBSET B /\ k \in B /\ k \notin A
  <2>1. \A j \in S : j <= i => j <= k
    OBVIOUS
  <2>2. A \subseteq B
    BY <2>1
  <2>3. k <= k /\ ~(k <= i)
    OBVIOUS
  <2> QED
    BY <2>2, <2>3
<1>2. IsFiniteSet(B)
  BY FS_Subset
<1>3. Cardinality(A) <= Cardinality(B) /\ (Cardinality(B) = Cardinality(A) => B = A)
  BY <1>1, <1>2, FS_Subset
<1>4. IsFiniteSet(A)
  BY <1>1, <1>2, FS_Subset
<1>5. Cardinality(A) \in Nat /\ Cardinality(B) \in Nat
  BY <1>2, <1>4, FS_CardinalityType
<1>6. Cardinality(B) # Cardinality(A)
  BY <1>1, <1>3
<1>7. Cardinality(A) < Cardinality(B)
  BY <1>3, <1>5, <1>6
<1> QED
  BY <1>7 DEF Rank

\* Every number up to the size of S is the rank of one position.
LEMMA RankOnto ==
  ASSUME NEW S \in SUBSET Nat, IsFiniteSet(S), NEW n \in 1 .. Cardinality(S)
  PROVE  \E i \in S : Rank(S, i) = n
<1> DEFINE f == [i \in S |-> Rank(S, i)]
           T == 1 .. Cardinality(S)
<1>1. Cardinality(S) \in Nat
  BY FS_CardinalityType
<1>2. ASSUME NEW i \in S PROVE Rank(S, i) \in T
  <2> DEFINE A == {j \in S : j <= i}
  <2>1. A \in SUBSET S /\ i \in A
    OBVIOUS
  <2>2. IsFiniteSet(A) /\ Cardinality(A) <= Cardinality(S)
    BY <2>1, FS_Subset
  <2>3. Cardinality(A) \in Nat /\ Cardinality(A) # 0
    BY <2>1, <2>2, FS_CardinalityType, FS_EmptySet
  <2>4. Cardinality(A) \in T
    BY <1>1, <2>2, <2>3
  <2> QED
    BY <2>4 DEF Rank
<1>3. \A i, k \in S : f[i] = f[k] => i = k
  <2> SUFFICES ASSUME NEW i \in S, NEW k \in S, Rank(S, i) = Rank(S, k), i # k PROVE FALSE
    OBVIOUS
  <2>1. Rank(S, i) \in Nat
    BY <1>1, <1>2
  <2>2. i < k \/ k < i
    OBVIOUS
  <2> QED
    BY <2>1, <2>2, RankGrows
<1>4. f \in Injection(S, T)
  BY <1>2, <1>3, Fun_IsInj
<1>5. IsFiniteSet(T) /\ Cardinality(T) = Cardinality(S)
  BY <1>1, FS_Interval
<1>6. f \in Surjection(S, T)
  BY <1>4, <1>5, FS_Injection
<1>7. \A t \in T : \E i \in S : f[i] = t
  <2> HIDE DEF f, T
  <2> QED
    BY <1>6, Fun_SurjectionProperties
<1> QED
  BY <1>7

\* As many elements as positions, each the element of s at one of them.
LEMMA PickedElements ==
  ASSUME NEW s, NEW S \in SUBSET Nat, IsFiniteSet(S)
  PROVE  /\ Cardinality(S) \in Nat
         /\ DOMAIN Picked(s, S) = 1 .. Cardinality(S)
         /\ \A n \in 1 .. Cardinality(S) : \E i \in S : Picked(s, S)[n] = s[i]
<1> DEFINE Pick(n) == CHOOSE i \in S : Rank(S, i) = n
<1>1. \A n \in 1 .. Cardinality(S) : Pick(n) \in S
  BY RankOnto
<1>2. Picked(s, S) = [n \in 1 .. Cardinality(S) |-> s[Pick(n)]]
  BY DEF Picked, Rank
<1> HIDE DEF Pick
<1> QED
  BY <1>1, <1>2, FS_CardinalityType

\* On an interval it is the sub-sequence.
LEMMA PickedInterval ==
  ASSUME NEW s, NEW a \in Nat, NEW n \in Nat
  PROVE  Picked(s, a + 1 .. a + n) = [k \in 1 .. n |-> s[a + k]]
<1> DEFINE S == a + 1 .. a + n
           Pick(k) == CHOOSE i \in S : Rank(S, i) = k
<1>1. Cardinality(S) = n
  BY FS_Interval
<1>2. \A i \in S : Rank(S, i) = i - a
  <2> TAKE i \in S
  <2>1. {j \in S : j <= i} = a + 1 .. i
    OBVIOUS
  <2>2. Cardinality(a + 1 .. i) = i - a
    BY FS_Interval
  <2> QED
    BY <2>1, <2>2 DEF Rank
<1>3. ASSUME NEW k \in 1 .. n
      PROVE  Pick(k) = a + k
  <2>1. a + k \in S /\ Rank(S, a + k) = k
    BY <1>2
  <2>2. \A i \in S : Rank(S, i) = k => i = a + k
    BY <1>2
  <2> HIDE DEF S
  <2> QED
    BY <2>1, <2>2
<1>4. Picked(s, S) = [k \in 1 .. Cardinality(S) |-> s[Pick(k)]]
  BY DEF Picked, Rank
<1> HIDE DEF Pick
<1>5. [k \in 1 .. n |-> s[Pick(k)]] = [k \in 1 .. n |-> s[a + k]]
  BY <1>3
<1> QED
  BY <1>1, <1>4, <1>5

-----------------------------------------------------------------------------
(* The translation.                                                        *)

\* The positions of a list of messages, and what is made of those picked.
LEMMA PickedMessages ==
  ASSUME NEW msgs \in Messages, NEW S \in SUBSET DOMAIN msgs
  PROVE  /\ IsFiniteSet(S) /\ Cardinality(S) \in Nat
         /\ DOMAIN Picked(msgs, S) = 1 .. Cardinality(S)
<1>1. DOMAIN msgs = 1 .. Len(msgs) /\ Len(msgs) \in Nat
  BY DEF Messages
<1>2. IsFiniteSet(DOMAIN msgs)
  BY <1>1, FS_Interval
<1>3. IsFiniteSet(S) /\ S \in SUBSET Nat
  BY <1>1, <1>2, FS_Subset
<1> QED
  BY <1>3, PickedElements

\* A function on 1 .. n is a sequence of length n.
LEMMA FunctionIsSequence ==
  ASSUME NEW n \in Nat, NEW f, f = [i \in 1 .. n |-> f[i]]
  PROVE  f \in Seq({f[i] : i \in 1 .. n}) /\ Len(f) = n /\ DOMAIN f = 1 .. n
<1> DEFINE R == {f[i] : i \in 1 .. n}
<1>1. \A i \in 1 .. n : f[i] \in R
  OBVIOUS
<1> HIDE DEF R
<1>2. f \in [1 .. n -> R]
  BY <1>1
<1>3. f \in Seq(R) /\ Len(f) = n
  BY <1>2
<1>4. DOMAIN f = 1 .. n
  BY <1>2
<1> QED
  BY <1>3, <1>4 DEF R

\* A turn for every message of the user or the assistant.
LEMMA TurnsLen ==
  ASSUME NEW r \in ChatRequest, NEW a
  PROVE  Len(TurnsOf(r, a)) = Cardinality({i \in DOMAIN r.messages : Turn(r.messages[i])})
<1> DEFINE S == {i \in DOMAIN r.messages : Turn(r.messages[i])}
           said == Picked(r.messages, S)
           Turned(i) == [said[i] EXCEPT !.role = IF @ = "assistant" THEN a ELSE @]
           f == [i \in 1 .. Cardinality(S) |-> Turned(i)]
<1>1. r.messages \in Messages /\ S \in SUBSET DOMAIN r.messages
  BY DEF ChatRequest, Messages
<1>2. Cardinality(S) \in Nat /\ DOMAIN said = 1 .. Cardinality(S)
  BY <1>1, PickedMessages
<1>3. TurnsOf(r, a) = f
  BY <1>2 DEF TurnsOf
<1> HIDE DEF S, Turned
<1>4. f = [i \in 1 .. Cardinality(S) |-> f[i]]
  OBVIOUS
<1> HIDE DEF f
<1>5. Len(f) = Cardinality(S)
  BY <1>2, <1>4, FunctionIsSequence
<1> QED
  BY <1>3, <1>5 DEF S

\* A part for every instruction that is not empty.
LEMMA SystemLen ==
  ASSUME NEW r \in ChatRequest
  PROVE  /\ \E R : SystemOf(r) \in Seq(R)
         /\ Len(SystemOf(r)) = Cardinality({i \in DOMAIN r.messages : SystemPart(r.messages[i])})
<1> DEFINE S == {i \in DOMAIN r.messages : SystemPart(r.messages[i])}
           parts == Picked(r.messages, S)
           f == [i \in 1 .. Cardinality(S) |-> parts[i].content]
<1>1. r.messages \in Messages /\ S \in SUBSET DOMAIN r.messages
  BY DEF ChatRequest, Messages
<1>2. Cardinality(S) \in Nat /\ DOMAIN parts = 1 .. Cardinality(S)
  BY <1>1, PickedMessages
<1>3. SystemOf(r) = f
  BY <1>2 DEF SystemOf
<1> HIDE DEF S, parts
<1>4. f = [i \in 1 .. Cardinality(S) |-> f[i]]
  OBVIOUS
<1> HIDE DEF f
<1>5. Len(f) = Cardinality(S) /\ \E R : f \in Seq(R)
  BY <1>2, <1>4, FunctionIsSequence
<1> QED
  BY <1>3, <1>5 DEF S

\* A message that has a text is a turn or a part of the system prompt, so that there are
\* no fewer of these than of those.
LEMMA TextsCounted ==
  ASSUME NEW r \in ChatRequest, Translatable(r), NEW a
  PROVE  /\ Len(TurnsOf(r, a)) \in Nat /\ Len(SystemOf(r)) \in Nat
         /\ Len(TurnsOf(r, a)) + Len(SystemOf(r)) >=
              Cardinality({i \in DOMAIN r.messages : r.messages[i].content # ""})
         /\ Cardinality({i \in DOMAIN r.messages : r.messages[i].content # ""}) \in Nat
<1> DEFINE D == DOMAIN r.messages
           S == {i \in D : Turn(r.messages[i])}
           T == {i \in D : SystemPart(r.messages[i])}
           C == {i \in D : r.messages[i].content # ""}
<1>1. r.messages \in Messages /\ S \in SUBSET D /\ T \in SUBSET D /\ C \in SUBSET D
  BY DEF ChatRequest, Messages
<1>2. /\ IsFiniteSet(S) /\ IsFiniteSet(T) /\ IsFiniteSet(C)
      /\ Cardinality(S) \in Nat /\ Cardinality(T) \in Nat /\ Cardinality(C) \in Nat
  BY <1>1, PickedMessages
<1>3. C \in SUBSET (S \cup T)
  BY DEF Translatable, Turn, SystemPart
<1>4. S \cap T = {}
  BY DEF Turn, SystemPart
<1>5. IsFiniteSet(S \cup T) /\ Cardinality(S \cup T) = Cardinality(S) + Cardinality(T)
  <2> HIDE DEF S, T
  <2>1. /\ IsFiniteSet(S \cup T)
        /\ Cardinality(S \cup T) = Cardinality(S) + Cardinality(T) - Cardinality(S \cap T)
    BY <1>2, FS_Union
  <2>2. Cardinality(S \cap T) = 0
    BY <1>4, FS_EmptySet
  <2>3. Cardinality(S) \in Nat /\ Cardinality(T) \in Nat
    BY <1>2
  <2> QED
    BY <2>1, <2>2, <2>3
<1>6. Cardinality(C) <= Cardinality(S) + Cardinality(T)
  BY <1>3, <1>5, FS_Subset
<1>7. Len(TurnsOf(r, a)) = Cardinality(S) /\ Len(SystemOf(r)) = Cardinality(T)
  BY TurnsLen, SystemLen
<1> QED
  BY <1>2, <1>6, <1>7

\* One more at the end of a sequence.
LEMMA OneMore ==
  ASSUME NEW R, NEW v \in Seq(R), NEW e
  PROVE  LET w == v \o <<e>>
         IN  Len(w) = Len(v) + 1 /\ DOMAIN w = 1 .. Len(v) + 1 /\ w[Len(v) + 1] = e
<1> DEFINE Q == R \cup {e}
<1>1. v \in Seq(Q) /\ <<e>> \in Seq(Q)
  OBVIOUS
<1> HIDE DEF Q
<1> QED
  BY <1>1, ConcatProperties

\* What is sent upstream for r has the texts, and says the format.
LEMMA TranslationKeeps ==
  ASSUME NEW r \in ChatRequest, Translatable(r)
  PROVE  LET t == buildCompatTarget(r)
         IN  /\ Len(t.turns) + Len(t.system) >=
                  Cardinality({i \in DOMAIN r.messages : r.messages[i].content # ""})
             /\ r.format \notin {"none", "text"} =>
                  r.format \in {t.json} \cup {t.system[i] : i \in DOMAIN t.system}
<1> DEFINE t == buildCompatTarget(r)
           json == r.format \in {"json_object", "json_schema"}
           count == Cardinality({i \in DOMAIN r.messages : r.messages[i].content # ""})
           v == SystemOf(r)
           w == v \o <<r.format>>
<1>1. r.format \notin {"none", "text"} => json
  BY DEF ChatRequest, Translatable
<1>2. PICK R : v \in Seq(R)
  BY SystemLen
<1>3. Len(v) \in Nat
  BY TextsCounted
<1>4. CASE resolveCompatModel(r.model) = "claude" /\ json
  <2> DEFINE u == TurnsOf(r, "assistant")
  <2>1. Len(u) \in Nat /\ Len(u) + Len(v) >= count /\ count \in Nat
    BY TextsCounted
  <2>2. t.turns = u /\ t.system = w
    BY <1>4 DEF buildCompatTarget, compatOpenAIChatToClaudeRequest
  <2> HIDE DEF u, v, count, t
  <2>3. Len(w) = Len(v) + 1 /\ DOMAIN w = 1 .. Len(v) + 1 /\ w[Len(v) + 1] = r.format
    BY <1>2, OneMore
  <2> HIDE DEF w
  <2>4. Len(t.turns) + Len(t.system) >= count
    BY <1>3, <2>1, <2>2, <2>3
  <2>5. Len(v) + 1 \in DOMAIN w
    BY <1>3, <2>3
  <2>6. r.format \in {t.system[i] : i \in DOMAIN t.system}
    BY <2>2, <2>3, <2>5
  <2> QED
    BY <2>4, <2>6 DEF t, count
<1>5. CASE resolveCompatModel(r.model) = "claude" /\ ~json
  <2> DEFINE u == TurnsOf(r, "assistant")
  <2>1. Len(u) + Len(v) >= count
    BY TextsCounted
  <2>2. t.turns = u /\ t.system = v \o <<>>
    BY <1>5 DEF buildCompatTarget, compatOpenAIChatToClaudeRequest
  <2>3. v \o <<>> = v
    BY <1>2, ConcatEmptySeq
  <2> HIDE DEF u, v, count, t
  <2>4. Len(t.turns) + Len(t.system) >= count
    BY <2>1, <2>2, <2>3
  <2> QED
    BY <1>1, <1>5, <2>4 DEF t, count
<1>6. CASE resolveCompatModel(r.model) # "claude"
  <2> DEFINE u == TurnsOf(r, "model")
  <2>1. Len(u) + Len(v) >= count
    BY TextsCounted
  <2>2. t.turns = u /\ t.system = v /\ (json => t.json = r.format)
    BY <1>6 DEF buildCompatTarget, compatOpenAIChatToGeminiRequest
  <2> HIDE DEF u, v, t, json, count
  <2>3. Len(t.turns) + Len(t.system) >= count
    BY <2>1, <2>2
  <2> QED
    BY <1>1, <2>2, <2>3 DEF t, count
<1> QED
  BY <1>4, <1>5, <1>6

-----------------------------------------------------------------------------
(* The limiter.                                                            *)

Inside == {"open", "relay", "stream", "final", "return"}

\* A step inside the handler of q, between the limiter's Acquire and its release: the
\* limiter does not see it.
Moves(q) ==
  /\ UNCHANGED <<compatNow, limiter>>
  /\ chats[q].at \in Inside
  /\ \E d \in ChatRec :
       /\ chats' = [chats EXCEPT ![q] = d]
       /\ d.stamp = chats[q].stamp /\ d.late = chats[q].late /\ d.admitted = chats[q].admitted
       /\ d.at \in Inside
       /\ ChatAt(d)

\* The fields of a chat that the limiter depends on.
LEMMA ChatStamp == ASSUME NEW c \in ChatRec PROVE c.stamp \in Nat /\ c.stamp <= MaxCompatNow
<1>1. c.stamp \in 0 .. MaxCompatNow
  BY DEF ChatRec
<1> QED
  BY <1>1, Numbers

\* Clock and chats.
LEMMA CompatTypes ==
  ASSUME CompatTyped
  PROVE  /\ compatNow \in Nat
         /\ \A x \in Chats : chats[x] \in ChatRec /\ chats[x].stamp \in Nat
  BY ChatStamp, Numbers DEF CompatTyped

\* The sets of a key are finite.
LEMMA SetsFinite ==
  ASSUME CompatTyped, NEW k \in Keys
  PROVE  /\ IsFiniteSet(Mine(k)) /\ IsFiniteSet(Running(k))
         /\ \A t \in Int : IsFiniteSet(Within(k, t))
         /\ IsFiniteSet(limiter[k].started)
<1>1. /\ Mine(k) \in SUBSET Chats /\ Running(k) \in SUBSET Chats
      /\ \A t \in Int : Within(k, t) \in SUBSET Chats
      /\ limiter[k].started \in SUBSET Chats
  BY DEF Mine, Running, Within, CompatTyped
<1> QED
  BY <1>1, KeysOfChats, FS_Subset

\* What an admitted request leaves as it is: all that the limits are about.
Unseen ==
  \A x \in Chats :
    /\ chats'[x].admitted = chats[x].admitted
    /\ chats[x].admitted => /\ chats'[x].stamp = chats[x].stamp
                            /\ chats'[x].late = chats[x].late
                            /\ chats'[x].at = "done" <=> chats[x].at = "done"

\* Then the sets are the same,
LEMMA SameSets ==
  ASSUME Unseen, NEW k \in Keys
  PROVE  /\ Mine(k)' = Mine(k) /\ Running(k)' = Running(k)
         /\ \A t \in 0 .. MaxCompatNow : Within(k, t)' = Within(k, t)
  BY DEF Unseen, Mine, Running, Within

\* and so are the limits, if the limiter is and the clock does not go back.
LEMMA UnseenKeepsLimits ==
  ASSUME CompatTyped, LimitInv, Unseen, limiter' = limiter,
         compatNow' \in Nat, compatNow' >= compatNow, \A x \in Chats : Stamped(x)'
  PROVE  LimitInv'
<1> SUFFICES ASSUME NEW k \in Keys PROVE Listed(k)' /\ Counted(k)' /\ Rated(k)'
  BY DEF LimitInv
<1>1. /\ Mine(k)' = Mine(k) /\ Running(k)' = Running(k)
      /\ \A t \in 0 .. MaxCompatNow : Within(k, t)' = Within(k, t)
  BY SameSets
<1>2. Counted(k)' /\ Rated(k)'
  BY <1>1 DEF LimitInv, Counted, Rated
<1>3. \A x \in Mine(k) : chats'[x].stamp = chats[x].stamp /\ chats[x].stamp \in Nat
  BY CompatTypes DEF Mine, Unseen
<1>4. \A x \in Mine(k) : chats'[x].stamp >= compatNow' - Minute => chats[x].stamp >= compatNow - Minute
  BY <1>3, Numbers DEF CompatTyped
<1>5. Listed(k)'
  BY <1>1, <1>4 DEF LimitInv, Listed
<1> QED
  BY <1>2, <1>5

\* A step inside a handler.
LEMMA MoveKeepsLimits ==
  ASSUME CompatTyped, LimitInv, NEW q \in Chats, Moves(q)
  PROVE  LimitInv'
<1>1. PICK d \in ChatRec :
       /\ chats' = [chats EXCEPT ![q] = d]
       /\ d.stamp = chats[q].stamp /\ d.late = chats[q].late /\ d.admitted = chats[q].admitted
       /\ d.at \in Inside
  BY DEF Moves
<1>2. chats'[q] = d /\ \A x \in Chats : x # q => chats'[x] = chats[x]
  BY <1>1 DEF CompatTyped
<1>3. chats[q].at \in Inside /\ limiter' = limiter /\ compatNow' = compatNow
  BY DEF Moves
<1>4. Unseen
  BY <1>1, <1>2, <1>3 DEF Unseen, Inside
<1>5. \A x \in Chats : Stamped(x)'
  BY <1>1, <1>2, <1>3 DEF LimitInv, Stamped, Inside
<1>6. compatNow \in Nat
  BY DEF CompatTyped
<1> QED
  BY <1>3, <1>4, <1>5, <1>6, UnseenKeepsLimits

\* The clock.
LEMMA TickKeepsLimits ==
  ASSUME CompatTyped, LimitInv, CompatTick
  PROVE  LimitInv'
<1>1. /\ limiter' = limiter /\ chats' = chats /\ compatNow' = compatNow + 1
      /\ compatNow \in Nat
  BY DEF CompatTick, CompatTyped
<1>2. Unseen
  BY <1>1 DEF Unseen
<1>3. \A x \in Chats : chats[x].stamp \in Nat
  BY CompatTypes
<1>4. \A x \in Chats : Stamped(x)'
  BY <1>1, <1>3 DEF LimitInv, Stamped
<1> QED
  BY <1>1, <1>2, <1>4, UnseenKeepsLimits

\* A request that comes in.
LEMMA ArriveKeepsLimits ==
  ASSUME CompatTyped, LimitInv, NEW q \in Chats, Arrive(q)
  PROVE  LimitInv'
<1>1. limiter' = limiter /\ compatNow' = compatNow /\ compatNow \in Nat /\ chats[q].at = "idle"
  BY CompatTypes DEF Arrive
<1>2. chats[q] \in ChatRec /\ chats \in [Chats -> ChatRec] /\ ~chats[q].admitted
  BY <1>1 DEF CompatTyped, LimitInv, Stamped
<1>3. /\ chats'[q].admitted = chats[q].admitted
      /\ chats'[q].at = IF KeyOf[q] = "" THEN "open" ELSE "stamped"
      /\ chats'[q].stamp = IF KeyOf[q] = "" THEN 0 ELSE compatNow
      /\ \A x \in Chats : x # q => chats'[x] = chats[x]
  BY <1>2 DEF Arrive, ChatRec
<1>4. Unseen
  BY <1>2, <1>3 DEF Unseen
<1>5. KeyOf[q] # "" => KeyOf[q] \in Keys
  BY KeysOfChats
<1>6. Stamped(q)'
  <2>1. ~chats'[q].admitted /\ (chats'[q].at = "stamped" => KeyOf[q] \in Keys)
    BY <1>2, <1>3, <1>5
  <2>2. chats'[q].stamp <= compatNow
    <3>1. chats'[q].stamp = 0 \/ chats'[q].stamp = compatNow
      BY <1>3
    <3> QED
      BY <1>1, <3>1
  <2> QED
    BY <1>1, <2>1, <2>2 DEF Stamped
<1>7. \A x \in Chats : Stamped(x)'
  BY <1>1, <1>3, <1>6 DEF LimitInv, Stamped
<1>8. limiter' = limiter /\ compatNow' \in Nat /\ compatNow' >= compatNow
  BY <1>1
<1> QED
  BY <1>4, <1>7, <1>8, UnseenKeepsLimits

\* A request that is refused is forgotten; the list is pruned by its reading of the clock.
LEMMA RefusedKeepsLimits ==
  ASSUME CompatTyped, LimitInv, NEW q \in Chats, AcquireRefused(q)
  PROVE  LimitInv'
<1> DEFINE c == chats[q]
           j == KeyOf[q]
           d == [Returned(q) EXCEPT !.status = 429, !.outcome = "error"]
<1>1. /\ compatNow' = compatNow /\ c.at = "stamped" /\ ~c.admitted /\ j \in Keys
      /\ c.stamp <= compatNow
  BY DEF AcquireRefused, LimitInv, Stamped
<1>2. chats'[q] = d /\ \A x \in Chats : x # q => chats'[x] = chats[x]
  BY DEF AcquireRefused, CompatTyped
<1>3. d.admitted = c.admitted /\ d.at = "done" /\ d.stamp = 0
  BY <1>1 DEF Returned, NewChat
<1> HIDE DEF d
<1>4. Unseen
  BY <1>1, <1>2, <1>3 DEF Unseen
<1>5. \A x \in Chats : Stamped(x)'
  BY <1>1, <1>2, <1>3, CompatTypes DEF LimitInv, Stamped
<1>6. /\ limiter'[j].inflight = limiter[j].inflight
      /\ limiter'[j].started = Kept(limiter[j].started, c.stamp)
      /\ \A k \in Keys : k # j => limiter'[k] = limiter[k]
  BY <1>1 DEF AcquireRefused, CompatTyped
<1>7. ASSUME NEW k \in Keys PROVE Listed(k)' /\ Counted(k)' /\ Rated(k)'
  <2>1. /\ Mine(k)' = Mine(k) /\ Running(k)' = Running(k)
        /\ \A t \in 0 .. MaxCompatNow : Within(k, t)' = Within(k, t)
    BY <1>4, SameSets
  <2>2. Counted(k)' /\ Rated(k)'
    BY <1>6, <2>1 DEF LimitInv, Counted, Rated
  <2>3. \A x \in Mine(k) : x \in Chats /\ chats'[x].stamp = chats[x].stamp
    BY <1>4 DEF Mine, Unseen
  <2>4. \A x \in Chats : chats[x].stamp >= compatNow - Minute => chats[x].stamp >= c.stamp - Minute
    BY <1>1, CompatTypes, Numbers
  <2>5. Listed(k)'
    BY <1>1, <1>6, <2>1, <2>3, <2>4 DEF LimitInv, Listed, Kept
  <2> QED
    BY <2>2, <2>5
<1> QED
  BY <1>5, <1>7 DEF LimitInv

\* An admission that is not late counts all of its minute: the list still has everything
\* that was stamped in it.
LEMMA AdmissionRated ==
  ASSUME CompatTyped, LimitInv, NEW k \in Keys, MaxPerMinute > 0,
         Cardinality(Kept(limiter[k].started, compatNow)) < MaxPerMinute,
         NEW q, NEW t \in Nat, compatNow <= t + Minute
  PROVE  Cardinality(Within(k, t) \cup {q}) <= MaxPerMinute
<1> DEFINE K == Kept(limiter[k].started, compatNow)
<1>1. Within(k, t) \in SUBSET K
  <2> SUFFICES ASSUME NEW x \in Within(k, t) PROVE x \in K
    OBVIOUS
  <2>1. x \in Mine(k) /\ x \in Chats /\ chats[x].stamp \in t .. t + Minute
    BY DEF Within, Mine
  <2>2. chats[x].stamp >= compatNow - Minute
    BY <2>1, CompatTypes, Numbers
  <2> QED
    BY <2>1, <2>2 DEF Kept, LimitInv, Listed
<1>2. IsFiniteSet(K)
  <2>1. K \in SUBSET limiter[k].started
    BY DEF Kept
  <2> QED
    BY <2>1, SetsFinite, FS_Subset
<1> HIDE DEF K
<1>3. IsFiniteSet(K \cup {q}) /\ Cardinality(K \cup {q}) <= Cardinality(K) + 1
  <2>1. Cardinality(K) \in Nat
    BY <1>2, FS_CardinalityType
  <2>2. /\ IsFiniteSet(K \cup {q})
        /\ Cardinality(K \cup {q}) = IF q \in K THEN Cardinality(K) ELSE Cardinality(K) + 1
    BY <1>2, FS_AddElement
  <2> QED
    BY <2>1, <2>2
<1>4. Within(k, t) \cup {q} \in SUBSET (K \cup {q})
  BY <1>1
<1>5. Cardinality(Within(k, t) \cup {q}) <= Cardinality(K \cup {q})
  BY <1>3, <1>4, FS_Subset
<1>6. IsFiniteSet(Within(k, t) \cup {q})
  BY <1>3, <1>4, FS_Subset
<1>7. /\ Cardinality(Within(k, t) \cup {q}) \in Nat /\ Cardinality(K) \in Nat
      /\ Cardinality(K \cup {q}) \in Nat
  BY <1>2, <1>3, <1>6, FS_CardinalityType
<1>8. Cardinality(K) < MaxPerMinute
  BY DEF K
<1> QED
  BY <1>3, <1>5, <1>7, <1>8, Numbers

\* A request that is admitted: one more is running, and one more in its minute unless it
\* is late.
LEMMA AcquireKeepsLimits ==
  ASSUME CompatTyped, LimitInv, NEW q \in Chats, Acquire(q)
  PROVE  LimitInv'
<1> DEFINE c == chats[q]
           j == KeyOf[q]
           kept == Kept(limiter[j].started, c.stamp)
<1>1. /\ compatNow' = compatNow /\ c.at = "stamped" /\ ~c.admitted /\ j \in Keys
      /\ c.stamp <= compatNow /\ ~Limited(q)
  BY DEF Acquire, LimitInv, Stamped
<1>2. /\ chats'[q].at = "open" /\ chats'[q].admitted = TRUE /\ chats'[q].stamp = c.stamp
      /\ chats'[q].late = (c.stamp # compatNow)
      /\ \A x \in Chats : x # q => chats'[x] = chats[x]
  <2> DEFINE d == [[[c EXCEPT !.at = "open"] EXCEPT !.admitted = TRUE]
                     EXCEPT !.late = (c.stamp # compatNow)]
  <2>1. DOMAIN chats = Chats /\ c \in ChatRec
    BY DEF CompatTyped
  <2>2. chats' = [chats EXCEPT ![q] = d]
    BY <2>1 DEF Acquire
  <2>3. d.at = "open" /\ d.admitted = TRUE /\ d.stamp = c.stamp /\ d.late = (c.stamp # compatNow)
    BY <2>1 DEF ChatRec
  <2> HIDE DEF d
  <2> QED
    BY <2>1, <2>2, <2>3
<1>3. /\ limiter'[j].inflight = limiter[j].inflight + 1
      /\ limiter'[j].started = IF MaxPerMinute > 0 THEN kept \cup {q} ELSE kept
      /\ \A k \in Keys : k # j => limiter'[k] = limiter[k]
  BY <1>1 DEF Acquire, CompatTyped
<1>4. compatNow \in Nat /\ c.stamp \in Nat /\ limiter[j].inflight \in Nat
  BY <1>1, CompatTypes DEF CompatTyped
<1>5. \A x \in Chats : Stamped(x)'
  BY <1>1, <1>2 DEF LimitInv, Stamped
<1>6. ASSUME NEW k \in Keys, k # j PROVE Listed(k)' /\ Counted(k)' /\ Rated(k)'
  <2>1. /\ Mine(k)' = Mine(k) /\ Running(k)' = Running(k)
        /\ \A t \in 0 .. MaxCompatNow : Within(k, t)' = Within(k, t)
    BY <1>2, <1>6 DEF Mine, Running, Within
  <2>2. \A x \in Mine(k) : chats'[x] = chats[x]
    BY <1>2, <1>6 DEF Mine
  <2>3. limiter'[k] = limiter[k]
    BY <1>3, <1>6
  <2>4. Counted(k)' /\ Rated(k)'
    BY <2>1, <2>3 DEF LimitInv, Counted, Rated
  <2>5. Listed(k)'
    BY <1>1, <2>1, <2>2, <2>3 DEF LimitInv, Listed
  <2> QED
    BY <2>4, <2>5
<1>7. /\ Mine(j)' = Mine(j) \cup {q} /\ Running(j)' = Running(j) \cup {q}
      /\ q \notin Mine(j) /\ q \notin Running(j)
  BY <1>1, <1>2 DEF Mine, Running
<1>8. Listed(j)'
  <2>1. \A x \in Mine(j) : x \in Chats /\ x # q /\ chats'[x] = chats[x]
    BY <1>2, <1>7 DEF Mine
  <2>2. \A x \in Chats : chats[x].stamp >= compatNow - Minute => chats[x].stamp >= c.stamp - Minute
    BY <1>1, CompatTypes, Numbers
  <2>3. limiter[j].started \subseteq Mine(j)
    BY <1>1 DEF LimitInv, Listed
  <2>4. limiter'[j].started \subseteq Mine(j)'
    BY <1>3, <1>7, <2>3 DEF Kept
  <2>5. ASSUME MaxPerMinute > 0, NEW x \in Mine(j), chats[x].stamp >= compatNow - Minute
        PROVE  x \in kept
    BY <1>1, <2>1, <2>2, <2>5 DEF LimitInv, Listed, Kept
  <2> QED
    BY <1>1, <1>3, <1>7, <2>1, <2>4, <2>5 DEF Listed
<1>9. Counted(j)'
  <2>1. IsFiniteSet(Running(j))
    BY <1>1, SetsFinite
  <2>2. Cardinality(Running(j) \cup {q}) = Cardinality(Running(j)) + 1
    BY <1>7, <2>1, FS_AddElement
  <2>3. limiter[j].inflight = Cardinality(Running(j))
    BY <1>1 DEF LimitInv, Counted
  <2>4. MaxConcurrent > 0 => limiter[j].inflight < MaxConcurrent
    BY <1>1, <1>4, Numbers DEF Limited
  <2>5. MaxConcurrent > 0 => limiter[j].inflight + 1 <= MaxConcurrent
    BY <1>4, <2>4, Numbers
  <2> QED
    BY <1>3, <1>7, <2>2, <2>3, <2>5 DEF Counted
<1>10. Rated(j)'
  <2> SUFFICES ASSUME MaxPerMinute > 0, NEW t \in 0 .. MaxCompatNow
               PROVE  Cardinality(Within(j, t)') <= MaxPerMinute
    BY DEF Rated
  <2>1. Cardinality(Within(j, t)) <= MaxPerMinute
    BY <1>1 DEF LimitInv, Rated
  <2>2. \A x \in Mine(j) : chats'[x] = chats[x]
    BY <1>2, <1>7 DEF Mine
  <2>3. CASE c.stamp = compatNow /\ c.stamp \in t .. t + Minute
    <3>1. Within(j, t)' = Within(j, t) \cup {q}
      BY <1>2, <1>7, <2>2, <2>3 DEF Within
    <3>2. Cardinality(kept) < MaxPerMinute
      <4>1. kept \in SUBSET limiter[j].started
        BY DEF Kept
      <4>2. Cardinality(kept) \in Nat
        BY <1>1, <4>1, SetsFinite, FS_Subset, FS_CardinalityType
      <4>3. ~(Cardinality(kept) >= MaxPerMinute)
        BY <1>1 DEF Limited
      <4> QED
        BY <4>2, <4>3, Numbers
    <3>3. t \in Nat /\ compatNow <= t + Minute
      BY <2>3, Numbers
    <3>4. Cardinality(Within(j, t) \cup {q}) <= MaxPerMinute
      BY <1>1, <2>3, <3>2, <3>3, AdmissionRated
    <3> QED
      BY <3>1, <3>4
  <2>4. CASE ~(c.stamp = compatNow /\ c.stamp \in t .. t + Minute)
    <3>1. Within(j, t)' = Within(j, t)
      BY <1>2, <1>7, <2>2, <2>4 DEF Within
    <3> QED
      BY <2>1, <3>1
  <2> QED
    BY <2>3, <2>4
<1> QED
  BY <1>1, <1>5, <1>6, <1>8, <1>9, <1>10 DEF LimitInv

\* A request that returns: the deferred release takes it off the counter.
LEMMA ReleaseKeepsLimits ==
  ASSUME CompatTyped, LimitInv, NEW q \in Chats, release(q)
  PROVE  LimitInv'
<1> DEFINE c == chats[q]
           j == KeyOf[q]
           d == Returned(q)
<1>1. compatNow' = compatNow /\ c.at = "return" /\ compatNow \in Nat /\ c.stamp <= compatNow
  BY CompatTypes DEF release, LimitInv, Stamped
<1>2. chats'[q] = d /\ \A x \in Chats : x # q => chats'[x] = chats[x]
  BY DEF release, CompatTyped
<1>3. /\ d.at = "done" /\ d.late = c.late /\ d.admitted = c.admitted
      /\ d.stamp = IF c.admitted THEN c.stamp ELSE 0
  BY DEF Returned, NewChat
<1> HIDE DEF d
<1>4. \A x \in Chats : Stamped(x)'
  BY <1>1, <1>2, <1>3 DEF LimitInv, Stamped
<1>5. CASE ~c.admitted
  <2>1. Unseen
    BY <1>2, <1>3, <1>5 DEF Unseen
  <2>2. limiter' = limiter /\ compatNow' \in Nat /\ compatNow' >= compatNow
    BY <1>1, <1>5 DEF release
  <2> QED
    BY <1>4, <2>1, <2>2, UnseenKeepsLimits
<1>6. CASE c.admitted
  <2>1. j \in Keys
    BY <1>6 DEF LimitInv, Stamped
  <2>2. /\ limiter'[j].inflight = IF limiter[j].inflight > 0 THEN limiter[j].inflight - 1
                                  ELSE limiter[j].inflight
        /\ limiter'[j].started = IF MaxPerMinute > 0 THEN Kept(limiter[j].started, compatNow)
                                 ELSE limiter[j].started
        /\ \A k \in Keys : k # j => limiter'[k] = limiter[k]
    BY <1>6, <2>1 DEF release, CompatTyped
  <2>3. \A k \in Keys : /\ Mine(k)' = Mine(k)
                        /\ \A t \in 0 .. MaxCompatNow : Within(k, t)' = Within(k, t)
    BY <1>2, <1>3, <1>6 DEF Mine, Within
  <2>4. \A k \in Keys : \A x \in Mine(k) : x \in Chats /\ chats'[x].stamp = chats[x].stamp
    BY <1>2, <1>3, <1>6 DEF Mine
  <2>5. \A k \in Keys : Rated(k)'
    BY <2>3 DEF LimitInv, Rated
  <2>6. \A k \in Keys : Listed(k)'
    BY <1>1, <2>1, <2>2, <2>3, <2>4 DEF LimitInv, Listed, Kept
  <2>7. ASSUME NEW k \in Keys, k # j PROVE Counted(k)'
    <3>1. Running(k)' = Running(k)
      BY <1>2, <1>3, <2>7 DEF Running, Mine
    <3> QED
      BY <2>2, <2>7, <3>1 DEF LimitInv, Counted
  <2>8. Counted(j)'
    <3>1. Running(j)' = Running(j) \ {q} /\ q \in Running(j)
      BY <1>1, <1>2, <1>3, <1>6 DEF Running, Mine
    <3>2. IsFiniteSet(Running(j)) /\ Cardinality(Running(j)) \in Nat
      BY <2>1, SetsFinite, FS_CardinalityType
    <3>3. /\ Cardinality(Running(j) \ {q}) = Cardinality(Running(j)) - 1
          /\ IsFiniteSet(Running(j) \ {q})
      BY <3>1, <3>2, FS_RemoveElement
    <3>4. Cardinality(Running(j) \ {q}) \in Nat
      BY <3>3, FS_CardinalityType
    <3>5. /\ limiter[j].inflight = Cardinality(Running(j))
          /\ MaxConcurrent > 0 => Cardinality(Running(j)) <= MaxConcurrent
      BY <2>1 DEF LimitInv, Counted
    <3>6. limiter'[j].inflight = Cardinality(Running(j) \ {q})
      BY <2>2, <3>2, <3>3, <3>4, <3>5
    <3>7. MaxConcurrent > 0 => Cardinality(Running(j) \ {q}) <= MaxConcurrent
      BY <3>2, <3>3, <3>5, Numbers
    <3> QED
      BY <3>1, <3>6, <3>7 DEF Counted
  <2> QED
    BY <1>4, <2>5, <2>6, <2>7, <2>8 DEF LimitInv
<1> QED
  BY <1>5, <1>6

-----------------------------------------------------------------------------
(* The answer.                                                             *)

\* There is a text.
LEMMA SomeText == N \in Nat /\ N >= 1 /\ DOMAIN Answer = 1 .. N
<1>1. Answer \in Seq(STRING) /\ Answer # <<>>
  BY CompatAssumption
<1>2. N \in Nat /\ N # 0 /\ DOMAIN Answer = 1 .. N
  BY <1>1 DEF N
<1> QED
  BY <1>2

\* The texts are no other frame.
LEMMA TextIsText ==
  ASSUME NEW i \in 1 .. N
  PROVE  /\ Answer[i] \in AnswerTexts /\ Answer[i] \in Frames
         /\ Answer[i] \notin {"", "role", "ping", "[DONE]"} /\ Answer[i] \notin Finishes
<1>1. \A k \in DOMAIN Answer : Answer[k] \notin {"", "role", "ping", "[DONE]", "error"} \cup Finishes
  BY CompatAssumption
<1>2. \A k \in DOMAIN Answer : Answer[k] \in AnswerTexts
  BY DEF AnswerTexts
<1>3. i \in DOMAIN Answer
  BY SomeText
<1> QED
  BY <1>1, <1>2, <1>3 DEF Frames

\* Every position of an answer has a frame.
LEMMA FrameType ==
  ASSUME NEW p \in {1, 2}, NEW f \in Finishes, NEW i \in 1 .. p + N + 1
  PROVE  Frame(p, f, i) \in Frames
<1>1. i > p /\ i <= p + N => i - p \in 1 .. N
  BY SomeText
<1>2. i > p /\ i <= p + N => Answer[i - p] \in Frames
  BY <1>1, TextIsText
<1>3. i <= p \/ i > p
  BY SomeText
<1> QED
  BY <1>2, <1>3 DEF Frame, Frames

\* A chat has the fields of its record.
LEMMA ChatFields ==
  ASSUME NEW c \in ChatRec
  PROVE  /\ c.got \in Seq(Frames) /\ c.lines \in Seq(LineRec)
         /\ c.doneSent \in BOOLEAN /\ c.downstreamErr \in BOOLEAN /\ c.roleSent \in BOOLEAN
         /\ c.terminalSignalSeen \in BOOLEAN /\ c.stream \in BOOLEAN
  BY DEF ChatRec

\* The fields that the writer leaves alone.
SameCall(c, d) ==
  /\ d.at = c.at /\ d.stamp = c.stamp /\ d.late = c.late /\ d.admitted = c.admitted
  /\ d.prov = c.prov /\ d.stream = c.stream /\ d.asked = c.asked /\ d.sent = c.sent
  /\ d.lines = c.lines /\ d.ended = c.ended /\ d.status = c.status /\ d.outcome = c.outcome

\* The client got the first n frames, and a write failed if these are not all.
Added(c, d, frames, n) ==
  /\ d.downstreamErr <=> n < Len(frames)
  /\ Len(d.got) = Len(c.got) + n
  /\ \A i \in 1 .. Len(c.got) : d.got[i] = c.got[i]
  /\ \A i \in 1 .. n : d.got[Len(c.got) + i] = frames[i]

\* The frames that Emit adds are the first n, and it fails if these are not all.
LEMMA EmitForm ==
  ASSUME NEW c \in ChatRec, NEW frames \in Seq(Frames), NEW d \in Emit(c, frames)
  PROVE  /\ d \in ChatRec /\ SameCall(c, d) /\ d.roleSent = c.roleSent
         /\ d.terminalSignalSeen = c.terminalSignalSeen /\ d.doneSent = c.doneSent
         /\ \E n \in 0 .. Len(frames) : Added(c, d, frames, n)
<1>1. PICK n \in 0 .. Len(frames) :
        d = [c EXCEPT !.got = @ \o SubSeq(frames, 1, n), !.downstreamErr = n < Len(frames)]
  BY DEF Emit
<1> DEFINE t == SubSeq(frames, 1, n)
<1>2. t \in Seq(Frames) /\ Len(t) = n /\ \A i \in 1 .. n : t[i] = frames[i]
  BY SubSeqProperties
<1>3. c.got \in Seq(Frames)
  BY ChatFields
<1>4. /\ c.got \o t \in Seq(Frames) /\ Len(c.got \o t) = Len(c.got) + n
      /\ \A i \in 1 .. Len(c.got) + n :
           (c.got \o t)[i] = IF i <= Len(c.got) THEN c.got[i] ELSE t[i - Len(c.got)]
  <2> HIDE DEF t
  <2> QED
    BY <1>2, <1>3, ConcatProperties
<1> DEFINE g == c.got \o t
           b == n < Len(frames)
<1>5. d = [c EXCEPT !.got = g, !.downstreamErr = b] /\ b \in BOOLEAN /\ g \in Seq(Frames)
  BY <1>1, <1>4
<1> HIDE DEF t, g, b
<1>6. d.got = g /\ d.downstreamErr = b
  BY <1>5 DEF ChatRec
<1>7. d \in ChatRec
  BY <1>5 DEF ChatRec
<1>8. /\ SameCall(c, d) /\ d.roleSent = c.roleSent
      /\ d.terminalSignalSeen = c.terminalSignalSeen /\ d.doneSent = c.doneSent
  BY <1>5 DEF ChatRec, SameCall
<1>9. Len(c.got) \in Nat
  BY <1>3
<1>10. \A i \in 1 .. Len(c.got) : (c.got \o t)[i] = c.got[i]
  BY <1>4, <1>9
<1>11. \A i \in 1 .. n : (c.got \o t)[Len(c.got) + i] = frames[i]
  BY <1>2, <1>4, <1>9
<1>12. Added(c, d, frames, n)
  BY <1>4, <1>6, <1>10, <1>11 DEF g, b, Added
<1> QED
  BY <1>7, <1>8, <1>12

\* Before the finish reason the frames do not depend on it.
LEMMA FrameEarly ==
  ASSUME NEW p \in {1, 2}, NEW f, NEW g, NEW i \in 1 .. p + N
  PROVE  Frame(p, f, i) = Frame(p, g, i)
  BY SomeText DEF Frame

\* Emitting the frames that come next: all are told, or the write failed.
LEMMA EmitTold ==
  ASSUME NEW c \in ChatRec, ~c.doneSent, NEW p \in {1, 2}, NEW m \in 0 .. p + N, Told(c, p, m),
         NEW g \in Finishes, NEW frames \in Seq(Frames), m + Len(frames) <= p + N + 1,
         \A j \in 1 .. Len(frames) : frames[j] = Frame(p, g, m + j),
         NEW d \in Emit(c, frames)
  PROVE  /\ d \in ChatRec /\ SameCall(c, d) /\ d.roleSent = c.roleSent
         /\ d.terminalSignalSeen = c.terminalSignalSeen /\ d.doneSent = FALSE
         /\ ~d.downstreamErr => Told(d, p, m + Len(frames))
         /\ d.downstreamErr => Failed(d)
<1>1. /\ d \in ChatRec /\ SameCall(c, d) /\ d.roleSent = c.roleSent
      /\ d.terminalSignalSeen = c.terminalSignalSeen /\ d.doneSent = c.doneSent
  BY EmitForm
<1>2. c.doneSent = FALSE
  BY ChatFields
<1>3. PICK n \in 0 .. Len(frames) : Added(c, d, frames, n)
  BY EmitForm
<1>4. /\ d.downstreamErr <=> n < Len(frames)
      /\ Len(d.got) = Len(c.got) + n
      /\ \A i \in 1 .. Len(c.got) : d.got[i] = c.got[i]
      /\ \A i \in 1 .. n : d.got[Len(c.got) + i] = frames[i]
  BY <1>3 DEF Added
<1>5. Len(frames) \in Nat /\ n \in Nat /\ n <= Len(frames)
  OBVIOUS
<1>6. PICK f \in Finishes : \A i \in 1 .. m : c.got[i] = Frame(p, f, i)
  BY DEF Told
<1>7. Len(c.got) = m
  BY <1>2 DEF Told
<1>8. \A i \in 1 .. m : d.got[i] = Frame(p, g, i)
  <2> TAKE i \in 1 .. m
  <2>1. i \in 1 .. p + N
    BY SomeText
  <2>2. Frame(p, f, i) = Frame(p, g, i)
    BY <2>1, FrameEarly
  <2>3. c.got[i] = Frame(p, f, i)
    BY <1>6
  <2>4. d.got[i] = c.got[i]
    BY <1>4, <1>7
  <2> QED
    BY <2>2, <2>3, <2>4
<1>9. \A i \in 1 .. m + n : d.got[i] = Frame(p, g, i)
  <2> TAKE i \in 1 .. m + n
  <2>1. CASE i <= m
    BY <1>8, <2>1
  <2>2. CASE i > m
    <3> DEFINE j == i - m
    <3>1. j \in 1 .. n /\ j \in 1 .. Len(frames) /\ m + j = i
      BY <1>5, <2>2
    <3> HIDE DEF j
    <3>2. d.got[m + j] = frames[j]
      BY <1>4, <1>7, <3>1
    <3>3. frames[j] = Frame(p, g, m + j)
      BY <3>1
    <3> QED
      BY <3>1, <3>2, <3>3
  <2> QED
    BY <2>1, <2>2
<1>10. m + n \in 0 .. p + N + 1
  BY <1>5, SomeText
<1>11. Told(d, p, m + n)
  BY <1>1, <1>2, <1>4, <1>7, <1>9, <1>10 DEF Told
<1>12. d.downstreamErr => Failed(d)
  BY <1>1, <1>2, <1>10, <1>11 DEF Failed
<1>13. ~d.downstreamErr => n = Len(frames)
  BY <1>4, <1>5
<1> QED
  BY <1>1, <1>2, <1>11, <1>12, <1>13

\* emitDone: [DONE] is there, or the write failed.
LEMMA DoneTold ==
  ASSUME NEW c \in ChatRec, c.downstreamErr = FALSE, NEW p \in {1, 2}, NEW m \in 0 .. p + N + 1,
         Told(c, p, m), NEW d \in emitDone(c)
  PROVE  /\ d \in ChatRec /\ SameCall(c, d) /\ d.roleSent = c.roleSent
         /\ d.terminalSignalSeen = c.terminalSignalSeen
         /\ Told(d, p, m) /\ (d.doneSent <=> ~d.downstreamErr)
         /\ d.downstreamErr => Failed(d)
<1>1. CASE c.doneSent
  <2>1. d = c /\ c.doneSent = TRUE
    BY <1>1, ChatFields DEF emitDone
  <2> QED
    BY <2>1 DEF SameCall
<1>2. CASE ~c.doneSent
  <2>1. PICK e \in Emit(c, <<"[DONE]">>) : d = [e EXCEPT !.doneSent = ~e.downstreamErr]
    BY <1>2 DEF emitDone
  <2> DEFINE frames == <<"[DONE]">>
  <2>2. frames \in Seq(Frames) /\ Len(frames) = 1 /\ frames[1] = "[DONE]"
    BY DEF Frames
  <2>3. e \in Emit(c, frames)
    BY <2>1
  <2> HIDE DEF frames
  <2>4. /\ e \in ChatRec /\ SameCall(c, e) /\ e.roleSent = c.roleSent
        /\ e.terminalSignalSeen = c.terminalSignalSeen
    BY <2>3, <2>2, EmitForm
  <2>5. PICK n \in 0 .. Len(frames) : Added(c, e, frames, n)
    BY <2>3, <2>2, EmitForm
  <2>6. /\ e.downstreamErr <=> n < Len(frames)
        /\ Len(e.got) = Len(c.got) + n
        /\ \A i \in 1 .. Len(c.got) : e.got[i] = c.got[i]
        /\ \A i \in 1 .. n : e.got[Len(c.got) + i] = frames[i]
    BY <2>5 DEF Added
  <2>7. n \in {0, 1} /\ (e.downstreamErr <=> n = 0)
    BY <2>2, <2>6
  <2>8. e.downstreamErr \in BOOLEAN /\ (~e.downstreamErr) \in BOOLEAN
    BY <2>4, ChatFields
  <2> DEFINE b == ~e.downstreamErr
  <2>9. d = [e EXCEPT !.doneSent = b] /\ b \in BOOLEAN
    BY <2>1, <2>8
  <2> HIDE DEF b
  <2>10. /\ d \in ChatRec /\ d.doneSent = b /\ d.downstreamErr = e.downstreamErr
        /\ d.got = e.got /\ d.roleSent = e.roleSent /\ d.terminalSignalSeen = e.terminalSignalSeen
    BY <2>9, <2>4 DEF ChatRec
  <2>11. SameCall(c, d)
    BY <2>9, <2>4 DEF SameCall, ChatRec
  <2>12. c.doneSent = FALSE /\ Len(c.got) = m
    BY <1>2, ChatFields DEF Told
  <2>13. PICK f \in Finishes : \A i \in 1 .. m : c.got[i] = Frame(p, f, i)
    BY DEF Told
  <2>14. \A i \in 1 .. m : d.got[i] = Frame(p, f, i)
    BY <2>6, <2>10, <2>12, <2>13
  <2>15. CASE e.downstreamErr = TRUE
    <3>1. n = 0
      BY <2>7, <2>15
    <3>2. Len(d.got) = m
      BY <2>6, <2>10, <2>12, <3>1
    <3>3. d.doneSent = FALSE
      BY <2>10, <2>15 DEF b
    <3>4. Len(d.got) = m /\ d.doneSent = FALSE
      BY <3>2, <3>3
    <3>5. Told(d, p, m)
      BY <2>14, <3>4, SomeText DEF Told
    <3>6. Failed(d)
      BY <2>10, <2>15, <3>4, <3>5 DEF Failed
    <3>7. d.downstreamErr = TRUE /\ (d.doneSent <=> ~d.downstreamErr)
      BY <2>10, <2>15, <3>3
    <3> QED
      BY <2>4, <2>10, <2>11, <3>5, <3>6, <3>7
  <2>16. CASE e.downstreamErr = FALSE
    <3>1. n = 1 /\ 1 \in 1 .. n
      BY <2>7, <2>16
    <3>2. d.doneSent = TRUE
      BY <2>10, <2>16 DEF b
    <3>3. Len(d.got) = m + 1 /\ d.doneSent = TRUE
      BY <2>6, <2>10, <2>12, <3>1, <3>2
    <3>4. d.got[m + 1] = "[DONE]"
      BY <2>2, <2>6, <2>10, <2>12, <3>1
    <3>5. Told(d, p, m)
      BY <2>14, <3>3, <3>4, SomeText DEF Told
    <3>6. d.downstreamErr = FALSE /\ (d.doneSent <=> ~d.downstreamErr)
      BY <2>10, <2>16, <3>2
    <3> QED
      BY <2>4, <2>10, <2>11, <3>5, <3>6
  <2> QED
    BY <2>8, <2>15, <2>16
<1> QED
  BY <1>1, <1>2

\* A frame that comes next.
LEMMA EmitOne ==
  ASSUME NEW c \in ChatRec, ~c.doneSent, NEW p \in {1, 2}, NEW m \in 0 .. p + N, Told(c, p, m),
         NEW g \in Finishes, NEW d \in Emit(c, <<Frame(p, g, m + 1)>>)
  PROVE  /\ d \in ChatRec /\ SameCall(c, d) /\ d.roleSent = c.roleSent
         /\ d.terminalSignalSeen = c.terminalSignalSeen /\ d.doneSent = FALSE
         /\ ~d.downstreamErr => Told(d, p, m + 1)
         /\ d.downstreamErr => Failed(d)
<1> DEFINE fr == Frame(p, g, m + 1)
           frames == <<fr>>
<1>1. fr \in Frames
  BY SomeText, FrameType
<1>2. d \in Emit(c, frames)
  OBVIOUS
<1> HIDE DEF fr
<1>3. frames \in Seq(Frames) /\ Len(frames) = 1 /\ frames[1] = fr
  BY <1>1
<1> HIDE DEF frames
<1>4. \A j \in 1 .. Len(frames) : frames[j] = Frame(p, g, m + j)
  <2>1. \A j \in 1 .. Len(frames) : j = 1
    BY <1>3
  <2> QED
    BY <1>3, <2>1 DEF fr
<1>5. m + Len(frames) <= p + N + 1
  BY <1>3, SomeText
<1>6. /\ d \in ChatRec /\ SameCall(c, d) /\ d.roleSent = c.roleSent
      /\ d.terminalSignalSeen = c.terminalSignalSeen /\ d.doneSent = FALSE
      /\ ~d.downstreamErr => Told(d, p, m + Len(frames))
      /\ d.downstreamErr => Failed(d)
  BY <1>2, <1>3, <1>4, <1>5, EmitTold
<1> QED
  BY <1>3, <1>6

\* Noting that the role is sent, or that the terminal signal was seen, is no frame.
LEMMA RoleNoted ==
  ASSUME NEW c \in ChatRec, NEW e, e = [c EXCEPT !.roleSent = TRUE]
  PROVE  /\ e \in ChatRec /\ SameCall(c, e) /\ e.roleSent = TRUE
         /\ e.terminalSignalSeen = c.terminalSignalSeen /\ e.doneSent = c.doneSent
         /\ e.downstreamErr = c.downstreamErr
         /\ \A p, m : Told(c, p, m) => Told(e, p, m)
<1>1. /\ e.doneSent = c.doneSent /\ e.got = c.got /\ e.terminalSignalSeen = c.terminalSignalSeen
      /\ e.downstreamErr = c.downstreamErr /\ e.roleSent = TRUE
  BY DEF ChatRec
<1>2. e \in ChatRec
  BY DEF ChatRec
<1>3. SameCall(c, e)
  BY DEF ChatRec, SameCall
<1>4. \A p, m : Told(c, p, m) => Told(e, p, m)
  BY <1>1 DEF Told
<1> QED
  BY <1>1, <1>2, <1>3, <1>4

\* The same for the terminal signal.
LEMMA TerminalNoted ==
  ASSUME NEW c \in ChatRec, NEW e, e = Terminal(c)
  PROVE  /\ e \in ChatRec /\ SameCall(c, e) /\ e.terminalSignalSeen = TRUE
         /\ e.roleSent = c.roleSent /\ e.doneSent = c.doneSent
         /\ e.downstreamErr = c.downstreamErr
         /\ \A p, m : Told(c, p, m) => Told(e, p, m)
<1>1. /\ e.doneSent = c.doneSent /\ e.got = c.got /\ e.terminalSignalSeen = TRUE
      /\ e.downstreamErr = c.downstreamErr /\ e.roleSent = c.roleSent
  BY DEF ChatRec, Terminal
<1>2. e \in ChatRec
  BY DEF ChatRec, Terminal
<1>3. SameCall(c, e)
  BY DEF ChatRec, SameCall, Terminal
<1>4. \A p, m : Told(c, p, m) => Told(e, p, m)
  BY <1>1 DEF Told
<1> QED
  BY <1>1, <1>2, <1>3, <1>4

\* The writer leaves the call alone, step after step.
LEMMA SameCallTwice ==
  ASSUME NEW c, NEW d, NEW e, SameCall(c, d), SameCall(d, e)
  PROVE  SameCall(c, e)
  BY DEF SameCall

\* A line is its kind and its text.
LEMMA ClaudeLines ==
  ASSUME NEW k \in 0 .. N + 4
  PROVE  /\ k = 0 => ClaudeLine(k + 1) = Line("message_start")
         /\ k = 1 => ClaudeLine(k + 1) = Line("ping")
         /\ k \in 2 .. N + 1 => ClaudeLine(k + 1) = Text(Answer[k - 1])
         /\ k = N + 2 => ClaudeLine(k + 1) = Line("other")
         /\ k = N + 3 => ClaudeLine(k + 1) = Line("message_delta")
         /\ k = N + 4 => ClaudeLine(k + 1) = Line("message_stop")
<1>1. (k + 1) - 2 = k - 1 /\ k \in Nat
  BY SomeText
<1>2. k = 0 => ClaudeLine(k + 1) = Line("message_start")
  BY DEF ClaudeLine
<1>3. k = 1 => ClaudeLine(k + 1) = Line("ping")
  BY DEF ClaudeLine
<1>4. ASSUME k \in 2 .. N + 1 PROVE ClaudeLine(k + 1) = Text(Answer[k - 1])
  <2>1. k + 1 # 1 /\ k + 1 # 2 /\ k + 1 <= N + 2
    BY <1>4, SomeText
  <2> QED
    BY <1>1, <2>1 DEF ClaudeLine
<1>5. ASSUME k = N + 2 PROVE ClaudeLine(k + 1) = Line("other")
  <2>1. k + 1 # 1 /\ k + 1 # 2 /\ ~(k + 1 <= N + 2) /\ k + 1 = N + 3
    BY <1>5, SomeText
  <2> QED
    BY <2>1 DEF ClaudeLine
<1>6. ASSUME k = N + 3 PROVE ClaudeLine(k + 1) = Line("message_delta")
  <2>1. k + 1 # 1 /\ k + 1 # 2 /\ ~(k + 1 <= N + 2) /\ k + 1 # N + 3 /\ k + 1 = N + 4
    BY <1>6, SomeText
  <2> QED
    BY <2>1 DEF ClaudeLine
<1>7. ASSUME k = N + 4 PROVE ClaudeLine(k + 1) = Line("message_stop")
  <2>1. k + 1 # 1 /\ k + 1 # 2 /\ ~(k + 1 <= N + 2) /\ k + 1 # N + 3 /\ k + 1 # N + 4
    BY <1>7, SomeText
  <2> QED
    BY <2>1 DEF ClaudeLine
<1> QED
  BY <1>2, <1>3, <1>4, <1>5, <1>6, <1>7

\* What the writer does with a line of each kind.
LEMMA ClaudeHandler ==
  ASSUME NEW c, NEW l
  PROVE  /\ l.kind = "message_start" =>
              handleClaudeStreamLine(c, l) = Emit([c EXCEPT !.roleSent = TRUE], Role(c))
         /\ l.kind = "ping" => handleClaudeStreamLine(c, l) = Emit(c, <<"ping">>)
         /\ l.kind = "text" => handleClaudeStreamLine(c, l) = Emit(c, <<l.text>>)
         /\ l.kind = "other" => handleClaudeStreamLine(c, l) = {c}
         /\ l.kind = "message_delta" => \A d \in handleClaudeStreamLine(c, l) :
              \E f \in FinishReasons("claude") : d \in Emit(c, <<f>>)
         /\ l.kind = "message_stop" => handleClaudeStreamLine(c, l) = emitDone(Terminal(c))
<1>1. l.kind = "message_start" =>
        handleClaudeStreamLine(c, l) = Emit([c EXCEPT !.roleSent = TRUE], Role(c))
  BY DEF handleClaudeStreamLine
<1>2. l.kind = "ping" => handleClaudeStreamLine(c, l) = Emit(c, <<"ping">>)
  BY DEF handleClaudeStreamLine
<1>3. l.kind = "text" => handleClaudeStreamLine(c, l) = Emit(c, <<l.text>>)
  BY DEF handleClaudeStreamLine
<1>4. l.kind = "other" => handleClaudeStreamLine(c, l) = {c}
  BY DEF handleClaudeStreamLine
<1>5. ASSUME l.kind = "message_delta", NEW d \in handleClaudeStreamLine(c, l)
      PROVE  \E f \in FinishReasons("claude") : d \in Emit(c, <<f>>)
  <2>1. handleClaudeStreamLine(c, l) = UNION {Emit(c, <<f>>) : f \in FinishReasons("claude")}
    BY <1>5 DEF handleClaudeStreamLine
  <2> QED
    BY <1>5, <2>1
<1>6. l.kind = "message_stop" => handleClaudeStreamLine(c, l) = emitDone(Terminal(c))
  BY DEF handleClaudeStreamLine
<1> QED
  BY <1>1, <1>2, <1>3, <1>4, <1>5, <1>6

\* What a line makes of a chat: it is the next line that was handled, or a write failed.
LEMMA ClaudeStep ==
  ASSUME NEW c \in ChatRec, ~c.downstreamErr, NEW k \in 0 .. N + 4, ClaudeSaid(c, k),
         NEW d \in handleClaudeStreamLine(c, ClaudeLine(k + 1))
  PROVE  /\ d \in ChatRec /\ SameCall(c, d)
         /\ ~d.downstreamErr => ClaudeSaid(d, k + 1)
         /\ d.downstreamErr => Failed(d)
<1> DEFINE l == ClaudeLine(k + 1)
<1>1. d \in handleClaudeStreamLine(c, l)
  OBVIOUS
<1> HIDE DEF l
<1>2. PICK g \in Finishes : TRUE
  BY DEF Finishes
<1>3. ~c.doneSent /\ ~c.terminalSignalSeen /\ (c.roleSent <=> k >= 1)
  BY SomeText DEF ClaudeSaid
<1>4. CASE k = 0
  <2>1. l = Line("message_start")
    BY <1>4, ClaudeLines DEF l
  <2>2. l.kind = "message_start"
    BY <2>1 DEF Line
  <2> DEFINE e == [c EXCEPT !.roleSent = TRUE]
  <2>3. d \in Emit(e, Role(c))
    BY <1>1, <2>2, ClaudeHandler
  <2> HIDE DEF e
  <2>4. Role(c) = <<"role">> /\ Frame(2, g, 0 + 1) = "role"
    BY <1>3, <1>4 DEF Role, Frame
  <2>5. d \in Emit(e, <<Frame(2, g, 0 + 1)>>)
    BY <2>3, <2>4
  <2>6. /\ e \in ChatRec /\ SameCall(c, e) /\ e.roleSent = TRUE
        /\ e.terminalSignalSeen = c.terminalSignalSeen /\ e.doneSent = c.doneSent
        /\ \A p, m : Told(c, p, m) => Told(e, p, m)
    BY RoleNoted DEF e
  <2>7. Told(c, 2, 0)
    BY <1>4, SomeText DEF ClaudeSaid
  <2>8. 0 \in 0 .. 2 + N
    BY SomeText
  <2>9. /\ d \in ChatRec /\ SameCall(e, d) /\ d.roleSent = e.roleSent
        /\ d.terminalSignalSeen = e.terminalSignalSeen /\ d.doneSent = FALSE
        /\ ~d.downstreamErr => Told(d, 2, 0 + 1)
        /\ d.downstreamErr => Failed(d)
    BY <1>3, <2>5, <2>6, <2>7, <2>8, EmitOne
  <2>10. k + 1 = 1 /\ 1 <= N + 2 /\ 1 >= 1 /\ 1 # N + 5
    BY <1>4, SomeText
  <2>11. ~d.downstreamErr => ClaudeSaid(d, k + 1)
    BY <1>3, <2>6, <2>9, <2>10 DEF ClaudeSaid
  <2> QED
    BY <2>6, <2>9, <2>11, SameCallTwice
<1>5. CASE k = 1 \/ k \in 2 .. N + 1
  <2>1. d \in Emit(c, <<Frame(2, g, k + 1)>>)
    <3>1. CASE k = 1
      <4>1. l = Line("ping")
        BY <3>1, ClaudeLines DEF l
      <4>2. Frame(2, g, k + 1) = "ping"
        BY <3>1 DEF Frame
      <4>3. l.kind = "ping"
        BY <4>1 DEF Line
      <4>4. d \in Emit(c, <<"ping">>)
        BY <1>1, <4>3, ClaudeHandler
      <4> QED
        BY <4>2, <4>4
    <3>2. CASE k \in 2 .. N + 1
      <4>1. l = Text(Answer[k - 1])
        BY <3>2, ClaudeLines DEF l
      <4>2. k + 1 # 1 /\ ~(k + 1 <= 2) /\ k + 1 <= 2 + N /\ (k + 1) - 2 = k - 1
        BY <3>2, SomeText
      <4>3. Frame(2, g, k + 1) = Answer[k - 1]
        BY <4>2 DEF Frame
      <4>4. d \in Emit(c, <<Answer[k - 1]>>)
        <5>1. l.kind = "text" /\ l.text = Answer[k - 1]
          BY <4>1 DEF Text
        <5>2. d \in Emit(c, <<l.text>>)
          BY <1>1, <5>1, ClaudeHandler
        <5> QED
          BY <5>1, <5>2
      <4> QED
        BY <4>3, <4>4
    <3> QED
      BY <1>5, <3>1, <3>2
  <2>2. k \in 0 .. 2 + N /\ k <= N + 2 /\ k + 1 <= N + 2 /\ k + 1 >= 1 /\ k >= 1 /\ k + 1 # N + 5
    BY <1>5, SomeText
  <2>3. Told(c, 2, k)
    BY <2>2 DEF ClaudeSaid
  <2>4. /\ d \in ChatRec /\ SameCall(c, d) /\ d.roleSent = c.roleSent
        /\ d.terminalSignalSeen = c.terminalSignalSeen /\ d.doneSent = FALSE
        /\ ~d.downstreamErr => Told(d, 2, k + 1)
        /\ d.downstreamErr => Failed(d)
    BY <1>3, <2>1, <2>2, <2>3, EmitOne
  <2>5. ~d.downstreamErr => ClaudeSaid(d, k + 1)
    BY <1>3, <2>2, <2>4 DEF ClaudeSaid
  <2> QED
    BY <2>4, <2>5
<1>6. CASE k = N + 2
  <2>1. l = Line("other")
    BY <1>6, ClaudeLines DEF l
  <2>2. l.kind = "other"
    BY <2>1 DEF Line
  <2>3. d = c
    BY <1>1, <2>2, ClaudeHandler
  <2>4. /\ k <= N + 2 /\ ~(k + 1 <= N + 2) /\ k + 1 = N + 3 /\ k + 1 # N + 5 /\ k + 1 >= 1 /\ k >= 1
    BY <1>6, SomeText
  <2>5. Told(c, 2, N + 2)
    BY <1>6, <2>4 DEF ClaudeSaid
  <2>6. ClaudeSaid(c, k + 1)
    BY <1>3, <2>4, <2>5 DEF ClaudeSaid
  <2> QED
    BY <2>3, <2>6 DEF SameCall
<1>7. CASE k = N + 3
  <2>1. l = Line("message_delta")
    BY <1>7, ClaudeLines DEF l
  <2>2. l.kind = "message_delta"
    BY <2>1 DEF Line
  <2>3. PICK f \in FinishReasons("claude") : d \in Emit(c, <<f>>)
    BY <1>1, <2>2, ClaudeHandler
  <2>4. f \in Finishes
    BY DEF FinishReasons, Finishes, compatClaudeFinishReason
  <2>5. /\ N + 2 \in 0 .. 2 + N /\ ~(k <= N + 2) /\ k + 1 >= 1 /\ k >= 1
        /\ ~(k + 1 <= N + 2) /\ k + 1 # N + 3 /\ k + 1 # N + 5
        /\ N + 2 + 1 # 1 /\ ~(N + 2 + 1 <= 2) /\ ~(N + 2 + 1 <= 2 + N) /\ N + 2 + 1 = N + 3
    BY <1>7, SomeText
  <2>6. Frame(2, f, N + 2 + 1) = f
    BY <2>5 DEF Frame
  <2>7. Told(c, 2, N + 2)
    BY <1>7, <2>5 DEF ClaudeSaid
  <2>8. d \in Emit(c, <<Frame(2, f, N + 2 + 1)>>)
    BY <2>3, <2>6
  <2>9. /\ d \in ChatRec /\ SameCall(c, d) /\ d.roleSent = c.roleSent
        /\ d.terminalSignalSeen = c.terminalSignalSeen /\ d.doneSent = FALSE
        /\ ~d.downstreamErr => Told(d, 2, N + 2 + 1)
        /\ d.downstreamErr => Failed(d)
    BY <1>3, <2>4, <2>5, <2>7, <2>8, EmitOne
  <2>10. ~d.downstreamErr => ClaudeSaid(d, k + 1)
    BY <1>3, <2>5, <2>9 DEF ClaudeSaid
  <2> QED
    BY <2>9, <2>10
<1>8. CASE k = N + 4
  <2>1. l = Line("message_stop")
    BY <1>8, ClaudeLines DEF l
  <2>2. l.kind = "message_stop"
    BY <2>1 DEF Line
  <2> DEFINE e == Terminal(c)
  <2>3. d \in emitDone(e)
    BY <1>1, <2>2, ClaudeHandler
  <2> HIDE DEF e
  <2>4. /\ e \in ChatRec /\ SameCall(c, e) /\ e.terminalSignalSeen = TRUE
        /\ e.roleSent = c.roleSent /\ e.downstreamErr = c.downstreamErr
        /\ \A p, m : Told(c, p, m) => Told(e, p, m)
    BY TerminalNoted DEF e
  <2>5. /\ N + 3 \in 0 .. 2 + N + 1 /\ ~(k <= N + 2) /\ k + 1 >= 1 /\ k >= 1 /\ k # N + 3
        /\ ~(k + 1 <= N + 2) /\ k + 1 # N + 3 /\ k + 1 = N + 5
    BY <1>8, SomeText
  <2>6. Told(e, 2, N + 3)
    BY <2>4, <2>5 DEF ClaudeSaid
  <2>7. e.downstreamErr = FALSE
    BY <2>4, ChatFields
  <2>8. /\ d \in ChatRec /\ SameCall(e, d) /\ d.roleSent = e.roleSent
        /\ d.terminalSignalSeen = e.terminalSignalSeen
        /\ Told(d, 2, N + 3) /\ (d.doneSent <=> ~d.downstreamErr)
        /\ d.downstreamErr => Failed(d)
    BY <2>3, <2>4, <2>5, <2>6, <2>7, DoneTold
  <2>9. ~d.downstreamErr => ClaudeSaid(d, k + 1)
    BY <1>3, <2>4, <2>5, <2>8 DEF ClaudeSaid
  <2> QED
    BY <2>4, <2>8, <2>9, SameCallTwice
<1>9. k = 0 \/ k = 1 \/ k \in 2 .. N + 1 \/ k = N + 2 \/ k = N + 3 \/ k = N + 4
  BY SomeText
<1> QED
  BY <1>4, <1>5, <1>6, <1>7, <1>8, <1>9

\* The lines of Gemini's stream.
LEMMA GeminiLines ==
  ASSUME NEW n \in {N + 1, N + 2}, NEW k \in 0 .. n - 1
  PROVE  LET l == GeminiLine(n, k + 1)
         IN  /\ k < n - 2 => k \in 0 .. N - 1 /\ l = Text(Answer[k + 1])
             /\ k = n - 2 /\ n = N + 1 =>
                  k = N - 1 /\ l = [kind |-> "last", text |-> Answer[k + 1]]
             /\ k = n - 2 /\ n = N + 2 => k = N /\ l = [kind |-> "last", text |-> ""]
             /\ k = n - 1 => l = Line(IF n = N + 1 THEN "other" ELSE "[DONE]")
<1>1. ASSUME k < n - 2 PROVE k \in 0 .. N - 1 /\ GeminiLine(n, k + 1) = Text(Answer[k + 1])
  <2>1. k + 1 < n - 1 /\ k \in 0 .. N - 1
    BY <1>1, SomeText
  <2> QED
    BY <2>1 DEF GeminiLine
<1>2. ASSUME k = n - 2, n = N + 1
      PROVE  k = N - 1 /\ GeminiLine(n, k + 1) = [kind |-> "last", text |-> Answer[k + 1]]
  <2>1. ~(k + 1 < n - 1) /\ k + 1 = n - 1 /\ k = N - 1 /\ k + 1 = N
    BY <1>2, SomeText
  <2> QED
    BY <1>2, <2>1 DEF GeminiLine
<1>3. ASSUME k = n - 2, n = N + 2
      PROVE  k = N /\ GeminiLine(n, k + 1) = [kind |-> "last", text |-> ""]
  <2>1. ~(k + 1 < n - 1) /\ k + 1 = n - 1 /\ k = N /\ n # N + 1
    BY <1>3, SomeText
  <2> QED
    BY <1>3, <2>1 DEF GeminiLine
<1>4. ASSUME k = n - 1
      PROVE  GeminiLine(n, k + 1) = Line(IF n = N + 1 THEN "other" ELSE "[DONE]")
  <2>1. ~(k + 1 < n - 1) /\ k + 1 # n - 1
    BY <1>4, SomeText
  <2> QED
    BY <2>1 DEF GeminiLine
<1> QED
  BY <1>1, <1>2, <1>3, <1>4

\* The frames that a chunk's text adds.
Said(c, t) == Emit([c EXCEPT !.roleSent = TRUE], Role(c) \o (IF t = "" THEN <<>> ELSE <<t>>))

\* What the writer does with a line of each kind.
LEMMA GeminiHandler ==
  ASSUME NEW c, NEW l
  PROVE  /\ l.kind = "text" => handleGeminiStreamLine(c, l) = Said(c, l.text)
         /\ l.kind = "last" => \A d \in handleGeminiStreamLine(c, l) :
              \E e \in Said(c, l.text) :
                \/ e.downstreamErr /\ d = e
                \/ /\ ~e.downstreamErr
                   /\ \E f \in FinishReasons("gemini") : d \in Emit(Terminal(e), <<f>>)
         /\ l.kind \in {"[DONE]", "bare"} => handleGeminiStreamLine(c, l) = emitDone(Terminal(c))
         /\ l.kind = "other" => handleGeminiStreamLine(c, l) = {c}
<1>1. l.kind = "text" => handleGeminiStreamLine(c, l) = Said(c, l.text)
  BY DEF handleGeminiStreamLine, Said
<1>2. ASSUME l.kind = "last", NEW d \in handleGeminiStreamLine(c, l)
      PROVE  \E e \in Said(c, l.text) :
                \/ e.downstreamErr /\ d = e
                \/ /\ ~e.downstreamErr
                   /\ \E f \in FinishReasons("gemini") : d \in Emit(Terminal(e), <<f>>)
  <2> DEFINE After(e) == IF e.downstreamErr THEN {e}
                         ELSE UNION {Emit(Terminal(e), <<f>>) : f \in FinishReasons("gemini")}
  <2>1. handleGeminiStreamLine(c, l) = UNION {After(e) : e \in Said(c, l.text)}
    BY <1>2 DEF handleGeminiStreamLine, Said
  <2> HIDE DEF After
  <2>2. PICK e \in Said(c, l.text) : d \in After(e)
    BY <1>2, <2>1
  <2>3. CASE e.downstreamErr
    BY <2>2, <2>3 DEF After
  <2>4. CASE ~e.downstreamErr
    BY <2>2, <2>4 DEF After
  <2> QED
    BY <2>3, <2>4
<1>3. l.kind \in {"[DONE]", "bare"} => handleGeminiStreamLine(c, l) = emitDone(Terminal(c))
  BY DEF handleGeminiStreamLine
<1>4. l.kind = "other" => handleGeminiStreamLine(c, l) = {c}
  BY DEF handleGeminiStreamLine
<1> QED
  BY <1>1, <1>2, <1>3, <1>4

\* A frame on its own, and one behind another.
LEMMA FramesInRow ==
  ASSUME NEW t \in Frames, NEW u \in Frames
  PROVE  /\ <<>> \o <<t>> = <<t>>
         /\ <<t>> \in Seq(Frames) /\ Len(<<t>>) = 1 /\ <<t>>[1] = t
         /\ <<u>> \o <<t>> \in Seq(Frames) /\ Len(<<u>> \o <<t>>) = 2
         /\ (<<u>> \o <<t>>)[1] = u /\ (<<u>> \o <<t>>)[2] = t
<1>1. <<>> \o <<t>> = <<t>>
  OBVIOUS
<1>2. <<t>> \in Seq(Frames) /\ Len(<<t>>) = 1 /\ <<t>>[1] = t
  OBVIOUS
<1>3. <<u>> \in Seq(Frames) /\ Len(<<u>>) = 1 /\ <<u>>[1] = u
  OBVIOUS
<1> DEFINE v == <<u>>
           w == <<t>>
<1> HIDE DEF v, w
<1>4. /\ v \o w \in Seq(Frames) /\ Len(v \o w) = Len(v) + Len(w)
      /\ \A i \in 1 .. Len(v) + Len(w) :
           (v \o w)[i] = IF i <= Len(v) THEN v[i] ELSE w[i - Len(v)]
  BY <1>2, <1>3, ConcatProperties DEF v, w
<1>5. Len(v) = 1 /\ Len(w) = 1 /\ v[1] = u /\ w[1] = t
  BY <1>2, <1>3 DEF v, w
<1>6. (v \o w)[1] = u /\ (v \o w)[2] = t
  BY <1>4, <1>5
<1>7. v \o w \in Seq(Frames) /\ Len(v \o w) = 2
  BY <1>4, <1>5
<1>8. /\ <<u>> \o <<t>> \in Seq(Frames) /\ Len(<<u>> \o <<t>>) = 2
      /\ (<<u>> \o <<t>>)[1] = u /\ (<<u>> \o <<t>>)[2] = t
  BY <1>6, <1>7, Zenon DEF v, w
<1> QED
  BY <1>1, <1>2, <1>8, Zenon

\* How much of the answer a client has after k chunks with a text.
Heard(k) == IF k = 0 THEN 0 ELSE k + 1

\* A chunk with the next text: the role goes out before the first.
LEMMA GeminiText ==
  ASSUME NEW c \in ChatRec, ~c.doneSent, NEW k \in 0 .. N - 1, Told(c, 1, Heard(k)),
         c.roleSent <=> k >= 1, NEW d \in Said(c, Answer[k + 1])
  PROVE  /\ d \in ChatRec /\ SameCall(c, d) /\ d.roleSent = TRUE
         /\ d.terminalSignalSeen = c.terminalSignalSeen /\ d.doneSent = FALSE
         /\ ~d.downstreamErr => Told(d, 1, k + 2)
         /\ d.downstreamErr => Failed(d)
<1> DEFINE t == Answer[k + 1]
           e == [c EXCEPT !.roleSent = TRUE]
           frames == Role(c) \o <<t>>
<1>1. k \in Nat /\ k + 1 \in 1 .. N
  BY SomeText
<1>2. t # "" /\ t \in Frames /\ "role" \in Frames
  BY <1>1, TextIsText DEF Frames
<1>3. d \in Emit(e, frames)
  BY <1>2 DEF Said
<1>4. /\ e \in ChatRec /\ SameCall(c, e) /\ e.roleSent = TRUE
      /\ e.terminalSignalSeen = c.terminalSignalSeen /\ e.doneSent = c.doneSent
      /\ \A p, m : Told(c, p, m) => Told(e, p, m)
  BY RoleNoted
<1> HIDE DEF t, e
<1>5. PICK g \in Finishes : TRUE
  BY DEF Finishes
<1>6. Frame(1, g, k + 2) = t
  <2>1. k + 2 # 1 /\ ~(k + 2 <= 1) /\ k + 2 <= 1 + N /\ (k + 2) - 1 = k + 1
    BY <1>1, SomeText
  <2> QED
    BY <2>1 DEF Frame, t
<1>7. /\ frames \in Seq(Frames) /\ Heard(k) + Len(frames) = k + 2
      /\ \A j \in 1 .. Len(frames) : frames[j] = Frame(1, g, Heard(k) + j)
  <2>1. CASE k = 0
    <3>1. Role(c) = <<"role">>
      BY <2>1 DEF Role
    <3>2. frames = <<"role">> \o <<t>>
      BY <3>1
    <3> HIDE DEF frames
    <3>3. frames \in Seq(Frames) /\ Len(frames) = 2 /\ frames[1] = "role" /\ frames[2] = t
      BY <1>2, <3>2, FramesInRow
    <3>4. Heard(k) = 0 /\ Heard(k) + Len(frames) = k + 2
      BY <2>1, <3>3 DEF Heard
    <3>5. Frame(1, g, 0 + 1) = "role" /\ Frame(1, g, 0 + 2) = t
      BY <1>6, <2>1 DEF Frame
    <3>6. \A j \in 1 .. Len(frames) : j = 1 \/ j = 2
      BY <3>3
    <3> QED
      BY <3>3, <3>4, <3>5, <3>6
  <2>2. CASE k # 0
    <3>1. Role(c) = <<>>
      BY <1>1, <2>2 DEF Role
    <3>2. frames = <<t>>
      BY <1>2, <3>1, FramesInRow, ZenonT(60)
    <3> HIDE DEF frames
    <3>3. frames \in Seq(Frames) /\ Len(frames) = 1 /\ frames[1] = t
      BY <1>2, <3>2, FramesInRow
    <3>4. Heard(k) = k + 1 /\ Heard(k) + Len(frames) = k + 2 /\ Heard(k) + 1 = k + 2
      BY <1>1, <2>2, <3>3 DEF Heard
    <3>5. \A j \in 1 .. Len(frames) : j = 1
      BY <3>3
    <3> QED
      BY <1>6, <3>3, <3>4, <3>5
  <2> QED
    BY <2>1, <2>2
<1> HIDE DEF frames
<1>8. Heard(k) \in 0 .. 1 + N /\ Heard(k) + Len(frames) <= 1 + N + 1
  BY <1>1, <1>7, SomeText DEF Heard
<1>9. ~e.doneSent /\ Told(e, 1, Heard(k))
  BY <1>4
<1>10. /\ d \in ChatRec /\ SameCall(e, d) /\ d.roleSent = e.roleSent
       /\ d.terminalSignalSeen = e.terminalSignalSeen /\ d.doneSent = FALSE
       /\ ~d.downstreamErr => Told(d, 1, Heard(k) + Len(frames))
       /\ d.downstreamErr => Failed(d)
  BY <1>3, <1>4, <1>7, <1>8, <1>9, EmitTold
<1> QED
  BY <1>4, <1>7, <1>10, SameCallTwice

\* A finish reason is the last frame before [DONE].
LEMMA GeminiFinish ==
  ASSUME NEW e \in ChatRec, ~e.doneSent, Told(e, 1, N + 1), NEW f \in FinishReasons("gemini"),
         NEW d \in Emit(Terminal(e), <<f>>)
  PROVE  /\ d \in ChatRec /\ SameCall(e, d) /\ d.roleSent = e.roleSent
         /\ d.terminalSignalSeen = TRUE /\ d.doneSent = FALSE
         /\ ~d.downstreamErr => Told(d, 1, N + 2)
         /\ d.downstreamErr => Failed(d)
<1> DEFINE x == Terminal(e)
<1>1. /\ x \in ChatRec /\ SameCall(e, x) /\ x.terminalSignalSeen = TRUE
      /\ x.roleSent = e.roleSent /\ x.doneSent = e.doneSent
      /\ \A p, m : Told(e, p, m) => Told(x, p, m)
  BY TerminalNoted
<1>2. f \in Finishes
  BY DEF FinishReasons, Finishes, compatGeminiFinishReason
<1>3. /\ N + 1 \in 0 .. 1 + N /\ N + 1 + 1 # 1 /\ ~(N + 1 + 1 <= 1) /\ ~(N + 1 + 1 <= 1 + N)
      /\ N + 1 + 1 = N + 2
  BY SomeText
<1>4. Frame(1, f, N + 1 + 1) = f
  BY <1>3 DEF Frame
<1>5. d \in Emit(x, <<Frame(1, f, N + 1 + 1)>>)
  BY <1>4
<1> HIDE DEF x
<1>6. /\ d \in ChatRec /\ SameCall(x, d) /\ d.roleSent = x.roleSent
      /\ d.terminalSignalSeen = x.terminalSignalSeen /\ d.doneSent = FALSE
      /\ ~d.downstreamErr => Told(d, 1, N + 1 + 1)
      /\ d.downstreamErr => Failed(d)
  BY <1>1, <1>2, <1>3, <1>5, EmitOne
<1> QED
  BY <1>1, <1>3, <1>6, SameCallTwice

\* No frames.
LEMMA NoFrames == <<>> \in Seq(Frames) /\ Len(<<>>) = 0
  OBVIOUS

\* The last chunk has no text of its own: nothing but the finish reason is written.
LEMMA NoText ==
  ASSUME NEW c \in ChatRec, NEW e \in Emit([c EXCEPT !.roleSent = TRUE], <<>>)
  PROVE  /\ e \in ChatRec /\ SameCall(c, e) /\ e.roleSent = TRUE /\ e.doneSent = c.doneSent
         /\ ~e.downstreamErr
         /\ \A p, m : Told(c, p, m) => Told(e, p, m)
<1> DEFINE x == [c EXCEPT !.roleSent = TRUE]
           frames == <<>>
<1>1. e \in Emit(x, frames)
  OBVIOUS
<1>2. /\ x \in ChatRec /\ SameCall(c, x) /\ x.roleSent = TRUE /\ x.doneSent = c.doneSent
      /\ \A p, m : Told(c, p, m) => Told(x, p, m)
  BY RoleNoted
<1>3. frames \in Seq(Frames) /\ Len(frames) = 0
  BY NoFrames, Zenon
<1> HIDE DEF x, frames
<1>4. /\ e \in ChatRec /\ SameCall(x, e) /\ e.roleSent = x.roleSent /\ e.doneSent = x.doneSent
      /\ \E n \in 0 .. Len(frames) : Added(x, e, frames, n)
  BY <1>1, <1>2, <1>3, EmitForm
<1>5. Added(x, e, frames, 0)
  <2>1. PICK n \in 0 .. Len(frames) : Added(x, e, frames, n)
    BY <1>4
  <2>2. n = 0
    BY <1>3
  <2> QED
    BY <2>1, <2>2
<1>6. x.got \in Seq(Frames) /\ e.got \in Seq(Frames)
  BY <1>2, <1>4, ChatFields
<1>7. /\ ~e.downstreamErr /\ Len(e.got) = Len(x.got)
      /\ \A i \in 1 .. Len(x.got) : e.got[i] = x.got[i]
  <2>1. Len(x.got) \in Nat
    BY <1>6
  <2>2. /\ e.downstreamErr <=> 0 < Len(frames)
        /\ Len(e.got) = Len(x.got) + 0
        /\ \A i \in 1 .. Len(x.got) : e.got[i] = x.got[i]
    BY <1>5 DEF Added
  <2> QED
    BY <1>3, <2>1, <2>2
<1>8. e.got = x.got
  BY <1>6, <1>7, SeqEqual
<1>9. \A p, m : Told(x, p, m) => Told(e, p, m)
  BY <1>4, <1>8 DEF Told
<1> QED
  BY <1>2, <1>4, <1>7, <1>9, SameCallTwice

\* What a line makes of a chat: it is the next line that was handled, or a write failed.
LEMMA GeminiStep ==
  ASSUME NEW c \in ChatRec, ~c.downstreamErr, NEW n \in {N + 1, N + 2}, NEW k \in 0 .. n - 1,
         GeminiSaid(c, n, k), NEW d \in handleGeminiStreamLine(c, GeminiLine(n, k + 1))
  PROVE  /\ d \in ChatRec /\ SameCall(c, d)
         /\ ~d.downstreamErr => GeminiSaid(d, n, k + 1)
         /\ d.downstreamErr => Failed(d)
<1> DEFINE l == GeminiLine(n, k + 1)
<1>1. d \in handleGeminiStreamLine(c, l)
  OBVIOUS
<1> HIDE DEF l
<1>2. k \in Nat /\ n \in Nat /\ k + 1 >= 1 /\ k + 1 # 0
  BY SomeText
<1>3. ~c.doneSent /\ (c.terminalSignalSeen <=> k = n - 1) /\ (c.roleSent <=> k >= 1)
  BY <1>2, SomeText DEF GeminiSaid
<1>4. k <= n - 2 => Told(c, 1, Heard(k))
  BY <1>2 DEF GeminiSaid, Heard
<1>5. CASE k < n - 2
  <2>1. k \in 0 .. N - 1 /\ l = Text(Answer[k + 1])
    BY <1>5, GeminiLines DEF l
  <2>2. l.kind = "text" /\ l.text = Answer[k + 1]
    BY <2>1 DEF Text
  <2>3. d \in Said(c, l.text)
    BY <1>1, <2>2, GeminiHandler
  <2>4. d \in Said(c, Answer[k + 1])
    BY <2>2, <2>3
  <2>5. Told(c, 1, Heard(k))
    BY <1>2, <1>4, <1>5
  <2>6. /\ d \in ChatRec /\ SameCall(c, d) /\ d.roleSent = TRUE
        /\ d.terminalSignalSeen = c.terminalSignalSeen /\ d.doneSent = FALSE
        /\ ~d.downstreamErr => Told(d, 1, k + 2)
        /\ d.downstreamErr => Failed(d)
    BY <1>3, <2>1, <2>4, <2>5, GeminiText
  <2>7. /\ k + 1 < n - 1 /\ k + 1 # n /\ ~(k + 1 >= n - 1) /\ k # n - 1 /\ (k + 1) + 1 = k + 2
    BY <1>2, <1>5
  <2>8. ~d.downstreamErr => GeminiSaid(d, n, k + 1)
    BY <1>2, <1>3, <2>6, <2>7 DEF GeminiSaid
  <2> QED
    BY <2>6, <2>8
<1>6. CASE k = n - 2
  <2>1. l.kind = "last"
    <3>1. CASE n = N + 1
      <4>1. l = [kind |-> "last", text |-> Answer[k + 1]]
        BY <1>6, <3>1, GeminiLines DEF l
      <4> QED
        BY <4>1
    <3>2. CASE n = N + 2
      <4>1. l = [kind |-> "last", text |-> ""]
        BY <1>6, <3>2, GeminiLines DEF l
      <4> QED
        BY <4>1
    <3> QED
      BY <3>1, <3>2
  <2>2. PICK e \in Said(c, l.text) :
                \/ e.downstreamErr /\ d = e
                \/ /\ ~e.downstreamErr
                   /\ \E f \in FinishReasons("gemini") : d \in Emit(Terminal(e), <<f>>)
    BY <1>1, <2>1, GeminiHandler
  <2>3. Told(c, 1, Heard(k))
    BY <1>2, <1>4, <1>6
  <2>4. /\ e \in ChatRec /\ SameCall(c, e) /\ e.roleSent = TRUE /\ e.doneSent = FALSE
        /\ ~e.downstreamErr => Told(e, 1, N + 1)
        /\ e.downstreamErr => Failed(e)
    <3>1. CASE n = N + 1
      <4>1. k = N - 1 /\ l = [kind |-> "last", text |-> Answer[k + 1]]
        BY <1>6, <3>1, GeminiLines DEF l
      <4>2. k \in 0 .. N - 1 /\ k + 2 = N + 1 /\ l.text = Answer[k + 1]
        BY <1>2, <4>1, SomeText
      <4>3. e \in Said(c, Answer[k + 1])
        BY <2>2, <4>2
      <4>4. /\ e \in ChatRec /\ SameCall(c, e) /\ e.roleSent = TRUE /\ e.doneSent = FALSE
            /\ ~e.downstreamErr => Told(e, 1, k + 2)
            /\ e.downstreamErr => Failed(e)
        BY <1>3, <2>3, <4>2, <4>3, GeminiText
      <4> QED
        BY <4>2, <4>4
    <3>2. CASE n = N + 2
      <4>1. k = N /\ l = [kind |-> "last", text |-> ""]
        BY <1>6, <3>2, GeminiLines DEF l
      <4>2. k = N
        BY <4>1
      <4>3. k >= 1 /\ k # 0
        BY <4>2, SomeText
      <4>4. k >= 1 /\ Heard(k) = N + 1
        BY <4>2, <4>3 DEF Heard
      <4>5. Role(c) = <<>>
        BY <1>3, <4>3 DEF Role
      <4>6. <<>> \o <<>> = <<>>
        OBVIOUS
      <4>7. l.text = ""
        BY <4>1
      <4>8. e \in Emit([c EXCEPT !.roleSent = TRUE], <<>>)
        BY <2>2, <4>5, <4>6, <4>7, Zenon DEF Said
      <4>9. /\ e \in ChatRec /\ SameCall(c, e) /\ e.roleSent = TRUE /\ e.doneSent = c.doneSent
            /\ ~e.downstreamErr
            /\ \A p, m : Told(c, p, m) => Told(e, p, m)
        BY <1>3, <4>4, <4>8, NoText
      <4>10. e.doneSent = FALSE
        BY <1>3, <4>9, ChatFields
      <4> QED
        BY <2>3, <4>4, <4>9, <4>10
    <3> QED
      BY <3>1, <3>2
  <2>5. CASE e.downstreamErr /\ d = e
    BY <2>4, <2>5
  <2>6. CASE ~e.downstreamErr /\ \E f \in FinishReasons("gemini") : d \in Emit(Terminal(e), <<f>>)
    <3>1. PICK f \in FinishReasons("gemini") : d \in Emit(Terminal(e), <<f>>)
      BY <2>6
    <3>2. /\ d \in ChatRec /\ SameCall(e, d) /\ d.roleSent = e.roleSent
          /\ d.terminalSignalSeen = TRUE /\ d.doneSent = FALSE
          /\ ~d.downstreamErr => Told(d, 1, N + 2)
          /\ d.downstreamErr => Failed(d)
      BY <2>4, <2>6, <3>1, GeminiFinish
    <3>3. k + 1 = n - 1 /\ ~(k + 1 < n - 1) /\ k + 1 # n /\ k + 1 >= n - 1
      BY <1>2, <1>6
    <3>4. ~d.downstreamErr => GeminiSaid(d, n, k + 1)
      BY <1>2, <2>4, <3>2, <3>3 DEF GeminiSaid
    <3> QED
      BY <2>4, <3>2, <3>4, SameCallTwice
  <2> QED
    BY <2>2, <2>5, <2>6
<1>7. CASE k = n - 1
  <2>1. l = Line(IF n = N + 1 THEN "other" ELSE "[DONE]")
    BY <1>7, GeminiLines DEF l
  <2>2. k + 1 = n /\ ~(k + 1 < n - 1) /\ ~(k < n - 1) /\ k + 1 >= n - 1 /\ k >= 1 /\ k # 0
    BY <1>2, <1>7, SomeText
  <2>3. Told(c, 1, N + 2)
    BY <2>2 DEF GeminiSaid
  <2>4. CASE n = N + 1
    <3>1. n # N + 2
      BY <2>4, SomeText
    <3>2. l.kind = "other"
      BY <2>1, <2>4 DEF Line
    <3>3. d = c
      BY <1>1, <3>2, GeminiHandler
    <3>4. GeminiSaid(c, n, k + 1)
      BY <1>2, <1>3, <1>7, <2>2, <2>3, <3>1 DEF GeminiSaid
    <3> QED
      BY <3>3, <3>4 DEF SameCall
  <2>5. CASE n = N + 2
    <3> DEFINE e == Terminal(c)
    <3>1. n # N + 1
      BY <2>5, SomeText
    <3>2. l.kind = "[DONE]"
      BY <2>1, <3>1 DEF Line
    <3>3. d \in emitDone(e)
      BY <1>1, <3>2, GeminiHandler
    <3> HIDE DEF e
    <3>4. /\ e \in ChatRec /\ SameCall(c, e) /\ e.terminalSignalSeen = TRUE
          /\ e.roleSent = c.roleSent /\ e.downstreamErr = c.downstreamErr
          /\ \A p, m : Told(c, p, m) => Told(e, p, m)
      BY TerminalNoted DEF e
    <3>5. N + 2 \in 0 .. 1 + N + 1 /\ e.downstreamErr = FALSE
      BY <3>4, SomeText, ChatFields
    <3>6. Told(e, 1, N + 2)
      BY <2>3, <3>4
    <3>7. /\ d \in ChatRec /\ SameCall(e, d) /\ d.roleSent = e.roleSent
          /\ d.terminalSignalSeen = e.terminalSignalSeen
          /\ Told(d, 1, N + 2) /\ (d.doneSent <=> ~d.downstreamErr)
          /\ d.downstreamErr => Failed(d)
      BY <3>3, <3>4, <3>5, <3>6, DoneTold
    <3>8. ~d.downstreamErr => GeminiSaid(d, n, k + 1)
      BY <1>2, <1>3, <2>2, <2>5, <3>4, <3>7 DEF GeminiSaid
    <3> QED
      BY <3>4, <3>7, <3>8, SameCallTwice
  <2> QED
    BY <2>4, <2>5
<1>8. k < n - 2 \/ k = n - 2 \/ k = n - 1
  BY <1>2
<1> QED
  BY <1>5, <1>6, <1>7, <1>8

-----------------------------------------------------------------------------
(* The provider's lines.                                                   *)

\* A line without a text, a text, and the texts of the answer.
LEMMA LineTypes ==
  /\ \A kd \in Kinds : Line(kd) \in LineRec
  /\ \A i \in 1 .. N : /\ Text(Answer[i]) \in LineRec
                       /\ [kind |-> "last", text |-> Answer[i]] \in LineRec
  /\ Texts \in Seq(LineRec) /\ Len(Texts) = N
  /\ \A i \in 1 .. N : Texts[i] = Text(Answer[i])
<1>1. \A kd \in Kinds : Line(kd) \in LineRec
  <2> DEFINE none == ""
  <2>1. none \in AnswerTexts \cup {none}
    OBVIOUS
  <2>2. LineRec = [kind : Kinds, text : AnswerTexts \cup {none}]
    BY DEF LineRec
  <2>3. \A kd : Line(kd) = [kind |-> kd, text |-> none]
    BY DEF Line
  <2> HIDE DEF none
  <2> QED
    BY <2>1, <2>2, <2>3
<1>2. ASSUME NEW i \in 1 .. N
      PROVE  /\ Text(Answer[i]) \in LineRec
             /\ [kind |-> "last", text |-> Answer[i]] \in LineRec
  <2> DEFINE none == ""
             t == Answer[i]
  <2>1. t \in AnswerTexts
    BY TextIsText
  <2>2. LineRec = [kind : Kinds, text : AnswerTexts \cup {none}]
    BY DEF LineRec
  <2> HIDE DEF none, t
  <2>3. "text" \in Kinds /\ "last" \in Kinds
    BY DEF Kinds
  <2>4. [kind |-> "text", text |-> t] \in LineRec /\ [kind |-> "last", text |-> t] \in LineRec
    BY <2>1, <2>2, <2>3
  <2> QED
    BY <2>4 DEF Text, t
<1>3. Texts = [i \in 1 .. N |-> Text(Answer[i])]
  BY SomeText DEF Texts
<1>4. Texts \in [1 .. N -> LineRec] /\ \A i \in 1 .. N : Texts[i] = Text(Answer[i])
  BY <1>2, <1>3
<1>5. Texts \in Seq(LineRec) /\ Len(Texts) = N
  BY <1>4, SomeText
<1> QED
  BY <1>1, <1>2, <1>4, <1>5

\* A sequence of two and of three.
LEMMA ShortSeqs ==
  ASSUME NEW R, NEW x \in R, NEW y \in R, NEW z \in R
  PROVE  /\ <<x, y>> \in Seq(R) /\ Len(<<x, y>>) = 2 /\ <<x, y>>[1] = x /\ <<x, y>>[2] = y
         /\ <<x, y, z>> \in Seq(R) /\ Len(<<x, y, z>>) = 3
         /\ <<x, y, z>>[1] = x /\ <<x, y, z>>[2] = y /\ <<x, y, z>>[3] = z
  OBVIOUS

\* One sequence behind another.
Behind(r, R, v, w, a, b) ==
  /\ r \in Seq(R) /\ Len(r) = a + b
  /\ \A i \in 1 .. a + b : r[i] = IF i <= a THEN v[i] ELSE w[i - a]

\* That is what concatenation makes.
LEMMA Joined ==
  ASSUME NEW R, NEW v \in Seq(R), NEW w \in Seq(R), NEW a \in Nat, NEW b \in Nat,
         Len(v) = a, Len(w) = b
  PROVE  Behind(v \o w, R, v, w, a, b)
  BY ConcatProperties DEF Behind

\* Claude's stream line by line.
LEMMA ClaudeScript ==
  ASSUME NEW s \in Scripts("claude")
  PROVE  s \in Seq(LineRec) /\ Len(s) = N + 5 /\ \A i \in 1 .. N + 5 : s[i] = ClaudeLine(i)
<1> DEFINE a == <<Line("message_start"), Line("ping")>>
           z == <<Line("other"), Line("message_delta"), Line("message_stop")>>
           at == a \o Texts
<1>1. s = at \o z
  BY DEF Scripts
<1>2. /\ Line("message_start") \in LineRec /\ Line("ping") \in LineRec /\ Line("other") \in LineRec
      /\ Line("message_delta") \in LineRec /\ Line("message_stop") \in LineRec
  BY LineTypes DEF Kinds
<1>3. /\ a \in Seq(LineRec) /\ Len(a) = 2
      /\ a[1] = Line("message_start") /\ a[2] = Line("ping")
  BY <1>2, ShortSeqs
<1>4. /\ z \in Seq(LineRec) /\ Len(z) = 3
      /\ z[1] = Line("other") /\ z[2] = Line("message_delta") /\ z[3] = Line("message_stop")
  BY <1>2, ShortSeqs
<1>5. /\ Texts \in Seq(LineRec) /\ Len(Texts) = N
      /\ \A i \in 1 .. N : Texts[i] = Text(Answer[i])
  BY LineTypes
<1> HIDE DEF a, z
<1>6. /\ at \in Seq(LineRec) /\ Len(at) = 2 + N
      /\ \A i \in 1 .. 2 + N : at[i] = IF i <= 2 THEN a[i] ELSE Texts[i - 2]
  <2>1. Behind(at, LineRec, a, Texts, 2, N)
    BY <1>3, <1>5, SomeText, Joined
  <2> HIDE DEF at
  <2> QED
    BY <2>1 DEF Behind
<1> HIDE DEF at
<1>7. 2 + N \in Nat
  BY SomeText
<1>8. /\ at \o z \in Seq(LineRec) /\ Len(at \o z) = 2 + N + 3
      /\ \A i \in 1 .. 2 + N + 3 : (at \o z)[i] = IF i <= 2 + N THEN at[i] ELSE z[i - (2 + N)]
  <2>1. Behind(at \o z, LineRec, at, z, 2 + N, 3)
    BY <1>4, <1>6, <1>7, Joined
  <2> QED
    BY <2>1 DEF Behind
<1>9. s \in Seq(LineRec) /\ Len(s) = N + 5
  BY <1>1, <1>8, SomeText
<1>10. ASSUME NEW i \in 1 .. N + 5 PROVE s[i] = ClaudeLine(i)
  <2>1. i \in 1 .. 2 + N + 3 /\ i \in Nat
    BY SomeText
  <2>2. CASE i \in {1, 2}
    <3>1. i <= 2 + N /\ i <= 2 /\ i \in 1 .. 2 + N
      BY <2>2, SomeText
    <3>2. s[i] = a[i]
      BY <1>1, <1>6, <1>8, <2>1, <3>1
    <3> QED
      BY <1>3, <2>2, <3>2 DEF ClaudeLine
  <2>3. CASE i > 2 /\ i <= N + 2
    <3>1. i <= 2 + N /\ ~(i <= 2) /\ i \in 1 .. 2 + N /\ i - 2 \in 1 .. N /\ i # 1 /\ i # 2
      BY <2>1, <2>3, SomeText
    <3>2. s[i] = Texts[i - 2]
      BY <1>1, <1>6, <1>8, <2>1, <3>1
    <3>3. Texts[i - 2] = Text(Answer[i - 2])
      BY <1>5, <3>1
    <3>4. ClaudeLine(i) = Text(Answer[i - 2])
      BY <2>3, <3>1 DEF ClaudeLine
    <3> QED
      BY <3>2, <3>3, <3>4
  <2>4. CASE i > N + 2
    <3>1. ~(i <= 2 + N) /\ ~(i <= N + 2) /\ i # 1 /\ i # 2
      BY <2>1, <2>4, SomeText
    <3>2. s[i] = z[i - (2 + N)]
      BY <1>1, <1>8, <2>1, <3>1
    <3>3. CASE i = N + 3
      <4>1. i - (2 + N) = 1
        BY <3>3, SomeText
      <4> QED
        BY <1>4, <3>1, <3>2, <3>3, <4>1 DEF ClaudeLine
    <3>4. CASE i = N + 4
      <4>1. i - (2 + N) = 2 /\ i # N + 3
        BY <3>4, SomeText
      <4> QED
        BY <1>4, <3>1, <3>2, <3>4, <4>1 DEF ClaudeLine
    <3>5. CASE i = N + 5
      <4>1. i - (2 + N) = 3 /\ i # N + 3 /\ i # N + 4
        BY <3>5, SomeText
      <4> QED
        BY <1>4, <3>1, <3>2, <3>5, <4>1 DEF ClaudeLine
    <3> QED
      BY <2>4, <3>3, <3>4, <3>5, SomeText
  <2> QED
    BY <2>1, <2>2, <2>3, <2>4, SomeText
<1> QED
  BY <1>9, <1>10

\* The lines of the two forms.
LEMMA GeminiLineIs ==
  ASSUME NEW i \in Int
  PROVE  /\ i < N => GeminiLine(N + 1, i) = Text(Answer[i])
         /\ i = N => GeminiLine(N + 1, i) = [kind |-> "last", text |-> Answer[N]]
         /\ i = N + 1 => GeminiLine(N + 1, i) = Line("other")
         /\ i < N + 1 => GeminiLine(N + 2, i) = Text(Answer[i])
         /\ i = N + 1 => GeminiLine(N + 2, i) = Line("last")
         /\ i = N + 2 => GeminiLine(N + 2, i) = Line("[DONE]")
<1>1. N + 1 - 1 = N /\ N + 2 - 1 = N + 1 /\ N + 2 # N + 1 /\ ~(N < N) /\ ~(N + 1 < N)
      /\ ~(N + 1 < N + 1) /\ ~(N + 2 < N + 1) /\ N + 1 # N
  BY SomeText
<1>2. ASSUME NEW n, n - 1 = N + 1, n # N + 1, ~(n < N + 1)
      PROVE  /\ i < N + 1 => GeminiLine(n, i) = Text(Answer[i])
             /\ i = N + 1 => GeminiLine(n, i) = Line("last")
             /\ i = n => GeminiLine(n, i) = Line("[DONE]")
  <2>1. i < N + 1 => GeminiLine(n, i) = Text(Answer[i])
    BY <1>2, Zenon DEF GeminiLine
  <2>2. i = N + 1 => GeminiLine(n, i) = Line("last")
    BY <1>1, <1>2, Zenon DEF GeminiLine, Line
  <2>3. i = n => GeminiLine(n, i) = Line("[DONE]")
    BY <1>2, Zenon DEF GeminiLine
  <2> QED
    BY <2>1, <2>2, <2>3
<1>3. ASSUME NEW n, n - 1 = N
      PROVE  i < N => GeminiLine(n, i) = Text(Answer[i])
  BY <1>3, Zenon DEF GeminiLine
<1>4. i < N => GeminiLine(N + 1, i) = Text(Answer[i])
  <2> DEFINE n == N + 1
  <2>1. n - 1 = N
    BY SomeText
  <2> HIDE DEF n
  <2>2. i < N => GeminiLine(n, i) = Text(Answer[i])
    BY <2>1, <1>3, Zenon
  <2> QED
    BY <2>2 DEF n
<1>5. i = N => GeminiLine(N + 1, i) = [kind |-> "last", text |-> Answer[N]]
  BY <1>1 DEF GeminiLine
<1>6. i = N + 1 => GeminiLine(N + 1, i) = Line("other")
  BY <1>1 DEF GeminiLine
<1>7. /\ i < N + 1 => GeminiLine(N + 2, i) = Text(Answer[i])
      /\ i = N + 1 => GeminiLine(N + 2, i) = Line("last")
      /\ i = N + 2 => GeminiLine(N + 2, i) = Line("[DONE]")
  <2> DEFINE n == N + 2
  <2>1. n - 1 = N + 1 /\ n # N + 1 /\ ~(n < N + 1)
    BY SomeText
  <2> HIDE DEF n
  <2>2. /\ i < N + 1 => GeminiLine(n, i) = Text(Answer[i])
        /\ i = N + 1 => GeminiLine(n, i) = Line("last")
        /\ i = n => GeminiLine(n, i) = Line("[DONE]")
    BY <2>1, <1>2, Zenon
  <2> QED
    BY <2>2 DEF n
<1> QED
  BY <1>4, <1>5, <1>6, <1>7

\* Gemini's stream line by line, in its two forms.
LEMMA GeminiScript ==
  ASSUME NEW s \in Scripts("gemini")
  PROVE  /\ s \in Seq(LineRec)
         /\ \E n \in {N + 1, N + 2} : Len(s) = n /\ \A i \in 1 .. n : s[i] = GeminiLine(n, i)
<1> DEFINE u == SubSeq(Texts, 1, Len(Texts) - 1)
           y == <<[kind |-> "last", text |-> Answer[N]], Line("other")>>
           z == <<Line("last"), Line("[DONE]")>>
<1>1. s = u \o y \/ s = Texts \o z
  BY DEF Scripts, N
<1>2. /\ [kind |-> "last", text |-> Answer[N]] \in LineRec /\ Line("other") \in LineRec
      /\ Line("last") \in LineRec /\ Line("[DONE]") \in LineRec
  BY LineTypes, SomeText DEF Kinds
<1>3. /\ y \in Seq(LineRec) /\ Len(y) = 2
      /\ y[1] = [kind |-> "last", text |-> Answer[N]] /\ y[2] = Line("other")
  BY <1>2, ShortSeqs
<1>4. z \in Seq(LineRec) /\ Len(z) = 2 /\ z[1] = Line("last") /\ z[2] = Line("[DONE]")
  BY <1>2, ShortSeqs
<1>5. /\ Texts \in Seq(LineRec) /\ Len(Texts) = N
      /\ \A i \in 1 .. N : Texts[i] = Text(Answer[i])
  BY LineTypes
<1>6. u = SubSeq(Texts, 1, N - 1)
  BY <1>5
<1> HIDE DEF u, y, z
<1>7. u \in Seq(LineRec) /\ Len(u) = N - 1 /\ \A i \in 1 .. N - 1 : u[i] = Text(Answer[i])
  <2>1. 1 \in 1 .. N + 1 /\ N - 1 \in 0 .. N
    BY SomeText
  <2>2. /\ u \in Seq(LineRec) /\ Len(u) = N - 1
        /\ \A i \in 1 .. N - 1 : u[i] = Texts[i]
    BY <1>5, <1>6, SomeText, SubSeqProperties
  <2>3. \A i \in 1 .. N - 1 : i \in 1 .. N
    BY SomeText
  <2> QED
    BY <1>5, <2>2, <2>3
<1>8. N \in Nat /\ N - 1 \in Nat /\ 2 \in Nat
  BY SomeText
<1>9. CASE s = u \o y
  <2>1. /\ s \in Seq(LineRec) /\ Len(s) = N - 1 + 2
        /\ \A i \in 1 .. N - 1 + 2 : s[i] = IF i <= N - 1 THEN u[i] ELSE y[i - (N - 1)]
    <3>1. Behind(s, LineRec, u, y, N - 1, 2)
      BY <1>3, <1>7, <1>9, <1>8, Joined
    <3> QED
      BY <3>1 DEF Behind
  <2>2. ASSUME NEW i \in 1 .. N + 1 PROVE s[i] = GeminiLine(N + 1, i)
    <3>1. i \in 1 .. N - 1 + 2 /\ i \in Int
      BY SomeText
    <3>2. CASE i <= N - 1
      <4>1. i < N /\ i \in 1 .. N - 1
        BY <3>2, SomeText
      <4>2. s[i] = Text(Answer[i])
        BY <1>7, <2>1, <3>1, <3>2, <4>1
      <4> QED
        BY <3>1, <4>1, <4>2, GeminiLineIs
    <3>3. CASE i = N
      <4>1. ~(i <= N - 1) /\ i - (N - 1) = 1
        BY <3>3, SomeText
      <4>2. s[i] = y[1]
        BY <2>1, <3>1, <4>1
      <4> QED
        BY <1>3, <3>1, <3>3, <4>2, GeminiLineIs
    <3>4. CASE i = N + 1
      <4>1. ~(i <= N - 1) /\ i - (N - 1) = 2
        BY <3>4, SomeText
      <4>2. s[i] = y[2]
        BY <2>1, <3>1, <4>1
      <4> QED
        BY <1>3, <3>1, <3>4, <4>2, GeminiLineIs
    <3> QED
      BY <3>2, <3>3, <3>4, SomeText
  <2>3. Len(s) = N + 1
    BY <2>1, SomeText
  <2> QED
    BY <2>1, <2>2, <2>3
<1>10. CASE s = Texts \o z
  <2>1. /\ s \in Seq(LineRec) /\ Len(s) = N + 2
        /\ \A i \in 1 .. N + 2 : s[i] = IF i <= N THEN Texts[i] ELSE z[i - N]
    <3>1. Behind(s, LineRec, Texts, z, N, 2)
      BY <1>4, <1>5, <1>10, <1>8, Joined
    <3> QED
      BY <3>1 DEF Behind
  <2>2. ASSUME NEW i \in 1 .. N + 2 PROVE s[i] = GeminiLine(N + 2, i)
    <3>1. i \in Int
      OBVIOUS
    <3>2. CASE i <= N
      <4>1. i < N + 1 /\ i \in 1 .. N
        BY <3>2, SomeText
      <4>2. s[i] = Text(Answer[i])
        BY <1>5, <2>1, <3>2, <4>1
      <4> QED
        BY <3>1, <4>1, <4>2, GeminiLineIs
    <3>3. CASE i = N + 1
      <4>1. ~(i <= N) /\ i - N = 1
        BY <3>3, SomeText
      <4>2. s[i] = z[1]
        BY <2>1, <4>1
      <4> QED
        BY <1>4, <3>1, <3>3, <4>1, <4>2, GeminiLineIs
    <3>4. CASE i = N + 2
      <4>1. ~(i <= N) /\ i - N = 2
        BY <3>4, SomeText
      <4>2. s[i] = z[2]
        BY <2>1, <4>1
      <4> QED
        BY <1>4, <3>1, <3>4, <4>2, GeminiLineIs
    <3> QED
      BY <3>2, <3>3, <3>4, SomeText
  <2> QED
    BY <2>1, <2>2
<1> QED
  BY <1>1, <1>9, <1>10

-----------------------------------------------------------------------------
(* The handler between Acquire and release.                                *)

\* A response.
LEMMA ResponseType ==
  ASSUME NEW c \in ChatRec, NEW status \in Nat, NEW outcome \in {"ok", "error"}
  PROVE  [c EXCEPT !.at = "return", !.status = status, !.outcome = outcome,
                   !.asked = NotSent, !.sent = NotSent] \in ChatRec
  BY DEF ChatRec, Places

\* The handler writes a response of its own.
LEMMA RespondMoves ==
  ASSUME CompatTyped, NEW q \in Chats, chats[q].at \in {"open", "relay"}, ChatAt(chats[q]),
         NEW status \in Nat, status # 200, NEW outcome \in {"ok", "error"},
         outcome = "ok" => chats[q].stream,
         Respond(q, status, outcome), UNCHANGED <<compatNow, limiter>>
  PROVE  Moves(q)
<1> DEFINE c == chats[q]
           d == [c EXCEPT !.at = "return", !.status = status, !.outcome = outcome,
                          !.asked = NotSent, !.sent = NotSent]
<1>1. c \in ChatRec
  BY DEF CompatTyped
<1>2. chats' = [chats EXCEPT ![q] = d]
  BY DEF Respond, CompatTyped
<1>3. Silent(c) /\ (outcome = "ok" => c.stream)
  BY DEF ChatAt
<1>4. c.at \in Inside
  BY DEF Inside
<1> HIDE DEF c
<1>5. d \in ChatRec
  BY <1>1 DEF ChatRec, Places
<1>6. /\ d.at = "return" /\ d.status = status /\ d.sent = NotSent
      /\ d.outcome = outcome /\ d.stream = c.stream
      /\ d.stamp = c.stamp /\ d.late = c.late /\ d.admitted = c.admitted
      /\ d.got = c.got /\ d.lines = c.lines /\ d.ended = c.ended /\ d.roleSent = c.roleSent
      /\ d.terminalSignalSeen = c.terminalSignalSeen /\ d.doneSent = c.doneSent
      /\ d.downstreamErr = c.downstreamErr
  BY <1>1 DEF ChatRec
<1> HIDE DEF d
<1>7. Silent(d)
  BY <1>3, <1>6, ZenonT(60) DEF Silent
<1>8. ChatAt(d)
  BY <1>3, <1>6, <1>7 DEF ChatAt
<1> QED
  BY <1>2, <1>4, <1>5, <1>6, <1>8 DEF Moves, Inside, c

\* A refused request.
LEMMA BadRequestMoves ==
  ASSUME CompatTyped, NEW q \in Chats, ChatAt(chats[q]), BadRequest(q)
  PROVE  Moves(q)
<1>1. PICK status \in {400, 503} : Respond(q, status, "error")
  BY DEF BadRequest
<1>2. chats[q].at \in {"open", "relay"} /\ UNCHANGED <<compatNow, limiter>>
  BY DEF BadRequest
<1>3. status \in Nat /\ status # 200
  BY <1>1
<1> QED
  BY <1>1, <1>2, <1>3, RespondMoves

\* An error of the relay.
LEMMA RelayFailsMoves ==
  ASSUME CompatTyped, NEW q \in Chats, ChatAt(chats[q]), RelayFails(q)
  PROVE  Moves(q)
<1>1. PICK outcome \in {"ok", "error"} :
        Respond(q, 500, outcome) /\ (outcome = "ok" => chats[q].stream)
  BY DEF RelayFails
<1>2. chats[q].at \in {"open", "relay"} /\ UNCHANGED <<compatNow, limiter>>
  BY DEF RelayFails
<1> QED
  BY <1>1, <1>2, RespondMoves

\* What is sent to the relay has everything that was asked.
LEMMA TranslateMoves ==
  ASSUME CompatTyped, NEW q \in Chats, ChatAt(chats[q]), Translate(q)
  PROVE  Moves(q)
<1> DEFINE c == chats[q]
<1>1. PICK r \in ChatRequests[q] :
        /\ Translatable(r) /\ resolveCompatModel(r.model) \in CatalogDrivers
        /\ chats' = [chats EXCEPT ![q].at = "relay", ![q].stream = r.stream, ![q].asked = r,
             ![q].prov = resolveCompatModel(r.model), ![q].sent = buildCompatTarget(r)]
  BY DEF Translate
<1> DEFINE v == resolveCompatModel(r.model)
           t == buildCompatTarget(r)
           b == r.stream
<1>2. r \in ChatRequest
  <2>1. ChatRequests \in [Chats -> SUBSET ChatRequest]
    BY CompatAssumption
  <2> QED
    BY <2>1
<1>3. v \in {"claude", "gemini"}
  BY <1>1 DEF Translatable, resolveCompatModel
<1>4. t \in SentRequests /\ b \in BOOLEAN
  BY <1>1, <1>2 DEF SentRequests, ChatRequest
<1>5. c \in ChatRec
  BY DEF CompatTyped
<1> HIDE DEF v, t, b
<1> DEFINE d == [c EXCEPT !.at = "relay", !.stream = b, !.asked = r, !.prov = v, !.sent = t]
<1>6. chats' = [chats EXCEPT ![q] = d]
  BY <1>1 DEF CompatTyped, v, t, b
<1>7. Silent(c) /\ c.status # 200 /\ c.at \in Inside
  BY DEF ChatAt, Translate, Inside
<1>8. UNCHANGED <<compatNow, limiter>>
  BY DEF Translate
<1> HIDE DEF c
<1>9. d \in ChatRec
  BY <1>2, <1>3, <1>4, <1>5 DEF ChatRec, Places
<1>10. /\ d.at = "relay" /\ d.status = c.status /\ d.sent = t /\ d.asked = r /\ d.prov = v
       /\ d.stamp = c.stamp /\ d.late = c.late /\ d.admitted = c.admitted
       /\ d.got = c.got /\ d.lines = c.lines /\ d.ended = c.ended /\ d.roleSent = c.roleSent
       /\ d.terminalSignalSeen = c.terminalSignalSeen /\ d.doneSent = c.doneSent
       /\ d.downstreamErr = c.downstreamErr
  BY <1>5 DEF ChatRec
<1> HIDE DEF d
<1>11. Silent(d)
  BY <1>7, <1>10, ZenonT(60) DEF Silent
<1>12. SentRight(d)
  <2>1. /\ Len(t.turns) + Len(t.system) >=
             Cardinality({i \in DOMAIN r.messages : r.messages[i].content # ""})
        /\ r.format \notin {"none", "text"} =>
             r.format \in {t.json} \cup {t.system[i] : i \in DOMAIN t.system}
    BY <1>1, <1>2, TranslationKeeps, Zenon DEF t
  <2> QED
    BY <1>10, <2>1, Zenon DEF SentRight
<1>13. ChatAt(d)
  BY <1>2, <1>3, <1>4, <1>7, <1>10, <1>11, <1>12 DEF ChatAt
<1> QED
  BY <1>6, <1>7, <1>8, <1>9, <1>10, <1>13 DEF Moves, Inside, c

\* The stream begins.
LEMMA RelayStreamsMoves ==
  ASSUME CompatTyped, NEW q \in Chats, ChatAt(chats[q]), RelayStreams(q)
  PROVE  Moves(q)
<1> DEFINE c == chats[q]
<1>1. PICK s \in Scripts(c.prov) :
        chats' = [chats EXCEPT ![q].at = "stream", ![q].status = 200, ![q].lines = s,
                               ![q].asked = NotSent, ![q].sent = NotSent]
  BY DEF RelayStreams
<1> DEFINE d == [c EXCEPT !.at = "stream", !.status = 200, !.lines = s,
                          !.asked = NotSent, !.sent = NotSent]
<1>2. c \in ChatRec
  BY DEF CompatTyped
<1>3. chats' = [chats EXCEPT ![q] = d]
  BY <1>1, ZenonT(60) DEF CompatTyped
<1>4. /\ Silent(c) /\ c.at \in Inside /\ c.stream /\ c.prov \in {"claude", "gemini"}
      /\ UNCHANGED <<compatNow, limiter>>
  BY DEF ChatAt, RelayStreams, Inside
<1> HIDE DEF c
<1>5. s \in Seq(LineRec)
  BY <1>1, <1>4, ClaudeScript, GeminiScript
<1>6. d \in ChatRec
  BY <1>2, <1>5, ZenonT(60) DEF ChatRec, Places
<1>7. /\ d.at = "stream" /\ d.status = 200 /\ d.sent = NotSent /\ d.lines = s /\ d.prov = c.prov
      /\ d.stamp = c.stamp /\ d.late = c.late /\ d.admitted = c.admitted
      /\ d.got = c.got /\ d.stream = c.stream /\ d.ended = c.ended /\ d.roleSent = c.roleSent
      /\ d.terminalSignalSeen = c.terminalSignalSeen /\ d.doneSent = c.doneSent
      /\ d.downstreamErr = c.downstreamErr
  BY <1>2, ZenonT(60) DEF ChatRec
<1> HIDE DEF d
<1>8. /\ d.got = <<>> /\ ~d.doneSent /\ ~d.downstreamErr /\ ~d.roleSent /\ ~d.terminalSignalSeen
      /\ d.stream
  BY <1>4, <1>7, ZenonT(60) DEF Silent
<1>9. d.ended = ""
  BY <1>4, <1>7 DEF Silent
<1>10. ASSUME NEW p \in {1, 2} PROVE Told(d, p, 0)
  <2>1. Len(d.got) = 0
    BY <1>8, NoFrames
  <2>2. 0 \in 0 .. p + N + 1
    BY SomeText
  <2>3. \E f \in Finishes : \A i \in 1 .. 0 : d.got[i] = Frame(p, f, i)
    BY DEF Finishes
  <2>4. Len(d.got) = 0 + IF d.doneSent THEN 1 ELSE 0
    BY <1>8, <2>1
  <2> QED
    BY <1>8, <2>2, <2>3, <2>4 DEF Told
<1>11. ASSUME c.prov = "claude" PROVE Streaming(d)
  <2>1. Len(s) = N + 5 /\ \A i \in 1 .. N + 5 : s[i] = ClaudeLine(i)
    BY <1>1, <1>11, ClaudeScript
  <2>2. /\ N + 5 - 0 = N + 5 /\ 0 \in 0 .. N + 5 /\ 0 <= N + 2 /\ ~(0 >= 1) /\ 0 # N + 5
        /\ \A i \in 1 .. N + 5 : 0 + i = i
    BY SomeText
  <2>3. ClaudeSaid(d, 0)
    BY <1>8, <1>10, <2>2 DEF ClaudeSaid
  <2>4. ClaudeAt(d, 0)
    BY <1>7, <2>1, <2>2, <2>3 DEF ClaudeAt
  <2> QED
    BY <1>7, <1>8, <1>9, <1>11, <2>2, <2>4 DEF Streaming
<1>12. ASSUME c.prov = "gemini" PROVE Streaming(d)
  <2>1. PICK n \in {N + 1, N + 2} : Len(s) = n /\ \A i \in 1 .. n : s[i] = GeminiLine(n, i)
    BY <1>1, <1>12, GeminiScript
  <2>2. /\ n - 0 = n /\ 0 \in 0 .. n /\ ~(0 >= 1) /\ ~(0 >= n - 1) /\ 0 # n
        /\ \A i \in 1 .. n : 0 + i = i
    BY SomeText
  <2>3. GeminiSaid(d, n, 0)
    BY <1>8, <1>10, <2>2 DEF GeminiSaid
  <2>4. GeminiAt(d, n, 0)
    BY <1>7, <2>1, <2>2, <2>3 DEF GeminiAt
  <2> QED
    BY <1>7, <1>8, <1>9, <1>12, <2>2, <2>4 DEF Streaming
<1>13. ChatAt(d)
  BY <1>4, <1>7, <1>11, <1>12 DEF ChatAt
<1> QED
  BY <1>3, <1>4, <1>6, <1>7, <1>13 DEF Moves, Inside, c

\* A whole answer: the role, the texts, the finish reason.
LEMMA WholeAnswer ==
  ASSUME NEW f \in Finishes, NEW s, s = <<"role">> \o Answer \o <<f>>
  PROVE  s \in Seq(Frames) /\ Len(s) = N + 2 /\ \A i \in 1 .. N + 2 : s[i] = Frame(1, f, i)
<1> DEFINE a == <<"role">>
           z == <<f>>
           h == a \o Answer
<1>1. f \in Frames /\ "role" \in Frames
  BY DEF Frames
<1>2. /\ a \in Seq(Frames) /\ Len(a) = 1 /\ a[1] = "role"
      /\ z \in Seq(Frames) /\ Len(z) = 1 /\ z[1] = f
  BY <1>1, FramesInRow
<1>3. Answer \in Seq(Frames) /\ Len(Answer) = N
  <2>1. Answer \in [1 .. N -> STRING]
    <3>1. Answer \in Seq(STRING)
      BY CompatAssumption
    <3> QED
      BY <3>1 DEF N
  <2>2. Answer \in [1 .. N -> Frames]
    BY <2>1, TextIsText
  <2> QED
    BY <2>2, SomeText
<1>4. s = h \o z
  OBVIOUS
<1> HIDE DEF a, z
<1>5. Behind(h, Frames, a, Answer, 1, N)
  BY <1>2, <1>3, SomeText, Joined
<1> HIDE DEF h
<1>6. /\ h \in Seq(Frames) /\ Len(h) = 1 + N /\ 1 + N \in Nat
      /\ \A i \in 1 .. 1 + N : h[i] = IF i <= 1 THEN a[i] ELSE Answer[i - 1]
  BY <1>5, SomeText DEF Behind
<1>7. Behind(s, Frames, h, z, 1 + N, 1)
  BY <1>2, <1>4, <1>6, Joined
<1>8. /\ s \in Seq(Frames) /\ Len(s) = 1 + N + 1
      /\ \A i \in 1 .. 1 + N + 1 : s[i] = IF i <= 1 + N THEN h[i] ELSE z[i - (1 + N)]
  BY <1>7 DEF Behind
<1>9. ASSUME NEW i \in 1 .. N + 2 PROVE s[i] = Frame(1, f, i)
  <2>1. i \in 1 .. 1 + N + 1 /\ i \in Nat
    BY SomeText
  <2>2. CASE i = 1
    <3>1. i <= 1 + N /\ i \in 1 .. 1 + N /\ i <= 1
      BY <2>2, SomeText
    <3>2. s[i] = a[i]
      BY <1>6, <1>8, <2>1, <3>1
    <3> QED
      BY <1>2, <2>2, <3>2 DEF Frame
  <2>3. CASE i > 1 /\ i <= 1 + N
    <3>1. i \in 1 .. 1 + N /\ ~(i <= 1) /\ i # 1
      BY <2>1, <2>3, SomeText
    <3>2. s[i] = Answer[i - 1]
      BY <1>6, <1>8, <2>1, <2>3, <3>1
    <3> QED
      BY <2>3, <3>1, <3>2 DEF Frame
  <2>4. CASE i = N + 2
    <3>1. ~(i <= 1 + N) /\ i - (1 + N) = 1 /\ ~(i <= 1) /\ i # 1
      BY <2>4, SomeText
    <3>2. s[i] = z[1]
      BY <1>8, <2>1, <3>1
    <3> QED
      BY <1>2, <3>1, <3>2 DEF Frame
  <2> QED
    BY <2>1, <2>2, <2>3, <2>4, SomeText
<1>10. Len(s) = N + 2
  BY <1>8, SomeText
<1> QED
  BY <1>8, <1>9, <1>10

\* A JSON answer.
LEMMA RelayAnswersMoves ==
  ASSUME CompatTyped, NEW q \in Chats, ChatAt(chats[q]), RelayAnswers(q)
  PROVE  Moves(q)
<1> DEFINE c == chats[q]
<1>1. chats[q].at \in {"open", "relay"} /\ UNCHANGED <<compatNow, limiter>> /\ ~c.stream
  BY DEF RelayAnswers
<1>2. CASE Respond(q, 502, "error")
  BY <1>1, <1>2, RespondMoves
<1>3. CASE \E f \in FinishReasons(c.prov) :
             chats' = [chats EXCEPT ![q] =
               [c EXCEPT !.at = "return", !.status = 200, !.outcome = "ok",
                         !.asked = NotSent, !.sent = NotSent,
                         !.got = <<"role">> \o Answer \o <<f>>]]
  <2>1. PICK f \in FinishReasons(c.prov) :
             chats' = [chats EXCEPT ![q] =
               [c EXCEPT !.at = "return", !.status = 200, !.outcome = "ok",
                         !.asked = NotSent, !.sent = NotSent,
                         !.got = <<"role">> \o Answer \o <<f>>]]
    BY <1>3
  <2> DEFINE s == <<"role">> \o Answer \o <<f>>
  <2>2. f \in Finishes
    BY <2>1 DEF FinishReasons, Finishes, compatClaudeFinishReason, compatGeminiFinishReason
  <2>3. s \in Seq(Frames) /\ Len(s) = N + 2 /\ \A i \in 1 .. N + 2 : s[i] = Frame(1, f, i)
    BY <2>2, WholeAnswer
  <2> DEFINE ok == "ok"
  <2>4. ok \in {"ok", "error"}
    OBVIOUS
  <2> HIDE DEF s, ok
  <2> DEFINE d == [c EXCEPT !.at = "return", !.status = 200, !.outcome = ok,
                            !.asked = NotSent, !.sent = NotSent, !.got = s]
  <2>5. c \in ChatRec
    BY DEF CompatTyped
  <2>6. chats' = [chats EXCEPT ![q] = d]
    BY <2>1 DEF s, ok
  <2>7. s \in Seq(Frames)
    BY <2>3
  <2>8. Silent(c) /\ c.at \in Inside
    BY <1>1 DEF ChatAt, Inside
  <2> HIDE DEF c
  <2>9. d \in ChatRec
    <3> DEFINE e == [c EXCEPT !.at = "return", !.status = 200, !.outcome = ok,
                              !.asked = NotSent, !.sent = NotSent]
    <3>1. e \in ChatRec
      BY <2>4, <2>5, ResponseType, ZenonT(60)
    <3>2. d = [e EXCEPT !.got = s]
      OBVIOUS
    <3> HIDE DEF e, d
    <3> QED
      BY <2>7, <3>1, <3>2 DEF ChatRec
  <2>10. /\ d.at = "return" /\ d.status = 200 /\ d.sent = NotSent /\ d.got = s
        /\ d.outcome = ok /\ d.stream = c.stream
        /\ d.stamp = c.stamp /\ d.late = c.late /\ d.admitted = c.admitted
        /\ d.doneSent = c.doneSent /\ d.ended = c.ended
    BY <2>5 DEF ChatRec
  <2> HIDE DEF d
  <2>11. ~d.doneSent /\ ~d.stream
    BY <1>1, <2>8, <2>10 DEF Silent, c
  <2>12. d.ended = ""
    BY <2>8, <2>10 DEF Silent
  <2>13. Told(d, 1, N + 2)
    <3>1. N + 2 \in 0 .. 1 + N + 1
      BY SomeText
    <3>2. Len(d.got) = N + 2 + IF d.doneSent THEN 1 ELSE 0
      BY <2>3, <2>10, <2>11, SomeText
    <3>3. \A i \in 1 .. N + 2 : d.got[i] = Frame(1, f, i)
      BY <2>3, <2>10
    <3> QED
      BY <2>2, <2>11, <3>1, <3>2, <3>3 DEF Told
  <2>14. Answered(d)
    BY <2>10, <2>11, <2>12, <2>13 DEF Answered, ok
  <2>15. ChatAt(d)
    BY <2>10, <2>14 DEF ChatAt
  <2> QED
    BY <1>1, <2>6, <2>8, <2>9, <2>10, <2>15 DEF Moves, Inside, c
<1>4. CASE chats' = [chats EXCEPT ![q] =
             [c EXCEPT !.at = "return", !.status = 200, !.outcome = "ok",
                       !.asked = NotSent, !.sent = NotSent, !.downstreamErr = TRUE]]
  <2> DEFINE ok == "ok"
  <2>1. ok \in {"ok", "error"}
    OBVIOUS
  <2> HIDE DEF ok
  <2> DEFINE d == [c EXCEPT !.at = "return", !.status = 200, !.outcome = ok,
                            !.asked = NotSent, !.sent = NotSent, !.downstreamErr = TRUE]
  <2>2. c \in ChatRec
    BY DEF CompatTyped
  <2>3. chats' = [chats EXCEPT ![q] = d]
    BY <1>4 DEF ok
  <2>4. Silent(c) /\ c.at \in Inside
    BY <1>1 DEF ChatAt, Inside
  <2> HIDE DEF c
  <2>5. d \in ChatRec
    <3> DEFINE e == [c EXCEPT !.at = "return", !.status = 200, !.outcome = ok,
                              !.asked = NotSent, !.sent = NotSent]
    <3>1. e \in ChatRec
      BY <2>1, <2>2, ResponseType, ZenonT(60)
    <3>2. d = [e EXCEPT !.downstreamErr = TRUE]
      OBVIOUS
    <3> HIDE DEF e, d
    <3> QED
      BY <3>1, <3>2 DEF ChatRec
  <2>6. /\ d.at = "return" /\ d.status = 200 /\ d.sent = NotSent /\ d.got = c.got
        /\ d.outcome = ok /\ d.stream = c.stream /\ d.downstreamErr
        /\ d.stamp = c.stamp /\ d.late = c.late /\ d.admitted = c.admitted
        /\ d.ended = c.ended
    BY <2>2 DEF ChatRec
  <2> HIDE DEF d
  <2>7. ~d.stream /\ d.got = <<>>
    BY <1>1, <2>4, <2>6 DEF Silent, c
  <2>8. d.ended = ""
    BY <2>4, <2>6 DEF Silent
  <2>9. Answered(d)
    BY <2>6, <2>7, <2>8 DEF Answered, ok
  <2>10. ChatAt(d)
    BY <2>6, <2>9 DEF ChatAt
  <2> QED
    BY <1>1, <2>3, <2>4, <2>5, <2>6, <2>10 DEF Moves, Inside, c
<1> QED
  BY <1>2, <1>3, <1>4 DEF RelayAnswers

\* What is left of the lines.
LEMMA TailLines ==
  ASSUME NEW s \in Seq(LineRec), NEW n \in Nat, Len(s) = n
  PROVE  /\ s # <<>> => /\ n >= 1 /\ Tail(s) \in Seq(LineRec) /\ Len(Tail(s)) = n - 1
                        /\ Head(s) = s[1] /\ \A i \in 1 .. n - 1 : Tail(s)[i] = s[i + 1]
         /\ s = <<>> => n = 0
<1>1. ASSUME s # <<>> PROVE n >= 1
  BY <1>1, EmptySeq
<1>2. ASSUME s # <<>>
      PROVE  /\ Tail(s) \in Seq(LineRec) /\ Len(Tail(s)) = n - 1
             /\ Head(s) = s[1] /\ \A i \in 1 .. n - 1 : Tail(s)[i] = s[i + 1]
  BY <1>2, HeadTailProperties
<1>3. s = <<>> => n = 0
  OBVIOUS
<1> QED
  BY <1>1, <1>2, <1>3

\* The lines say nothing of what the client has.
OtherLines(c, e, s) ==
  /\ e \in ChatRec /\ e.lines = s
  /\ e.at = c.at /\ e.stamp = c.stamp /\ e.late = c.late /\ e.admitted = c.admitted
  /\ e.prov = c.prov /\ e.stream = c.stream /\ e.asked = c.asked /\ e.sent = c.sent
  /\ e.ended = c.ended /\ e.status = c.status /\ e.outcome = c.outcome
  /\ e.downstreamErr = c.downstreamErr
  /\ \A k : ClaudeSaid(c, k) => ClaudeSaid(e, k)
  /\ \A n, k : GeminiSaid(c, n, k) => GeminiSaid(e, n, k)
  /\ Failed(c) => Failed(e)

\* Another list of lines changes nothing that was told.
LEMMA LinesUnsaid ==
  ASSUME NEW c \in ChatRec, NEW s \in Seq(LineRec)
  PROVE  OtherLines(c, [c EXCEPT !.lines = s], s)
<1> DEFINE e == [c EXCEPT !.lines = s]
<1>1. e \in ChatRec
  BY DEF ChatRec
<1>2. /\ e.lines = s
      /\ e.at = c.at /\ e.stamp = c.stamp /\ e.late = c.late /\ e.admitted = c.admitted
      /\ e.prov = c.prov /\ e.stream = c.stream /\ e.asked = c.asked /\ e.sent = c.sent
      /\ e.ended = c.ended /\ e.status = c.status /\ e.outcome = c.outcome
  BY DEF ChatRec
<1>3. /\ e.got = c.got /\ e.doneSent = c.doneSent /\ e.roleSent = c.roleSent
      /\ e.terminalSignalSeen = c.terminalSignalSeen /\ e.downstreamErr = c.downstreamErr
  BY DEF ChatRec
<1>4. \A p, m : Told(c, p, m) => Told(e, p, m)
  BY <1>3 DEF Told
<1>5. \A k : ClaudeSaid(c, k) => ClaudeSaid(e, k)
  BY <1>3, <1>4 DEF ClaudeSaid
<1>6. \A n, k : GeminiSaid(c, n, k) => GeminiSaid(e, n, k)
  BY <1>3, <1>4 DEF GeminiSaid
<1>7. Failed(c) => Failed(e)
  BY <1>3, <1>4 DEF Failed
<1> HIDE DEF e
<1>8. OtherLines(c, e, s)
  BY <1>1, <1>2, <1>3, <1>5, <1>6, <1>7 DEF OtherLines
<1> QED
  BY <1>8 DEF e

\* One line of Claude's stream.
LEMMA ClaudeWrite ==
  ASSUME NEW c \in ChatRec, NEW k \in 0 .. N + 5, ClaudeAt(c, k), c.lines # <<>>,
         ~c.downstreamErr, NEW s, s = Tail(c.lines),
         NEW d \in handleClaudeStreamLine([c EXCEPT !.lines = s], Head(c.lines))
  PROVE  /\ d \in ChatRec /\ SameCall([c EXCEPT !.lines = s], d)
         /\ d.downstreamErr => Failed(d)
         /\ k + 1 \in 0 .. N + 5 /\ ClaudeAt(d, k + 1)
<1> DEFINE e == [c EXCEPT !.lines = s]
           n == N + 5 - k
           l == ClaudeLine(k + 1)
<1>1. n \in Nat
  BY SomeText
<1>2. c.lines \in Seq(LineRec)
  BY ChatFields
<1>3. Len(c.lines) = n /\ \A i \in 1 .. n : c.lines[i] = ClaudeLine(k + i)
  BY DEF ClaudeAt
<1> HIDE DEF n
<1>4. /\ n >= 1 /\ s \in Seq(LineRec) /\ Len(s) = n - 1
      /\ Head(c.lines) = c.lines[1] /\ \A i \in 1 .. n - 1 : s[i] = c.lines[i + 1]
  BY <1>1, <1>2, <1>3, TailLines
<1>5. Head(c.lines) = l
  <2>1. 1 \in 1 .. n
    BY <1>1, <1>4
  <2> QED
    BY <1>3, <1>4, <2>1
<1>6. k \in 0 .. N + 4 /\ n - 1 = N + 5 - (k + 1) /\ k + 1 \in 0 .. N + 5
  <2>1. n >= 1
    BY <1>4
  <2> QED
    BY <2>1, SomeText DEF n
<1>7. /\ e \in ChatRec /\ e.lines = s /\ e.downstreamErr = c.downstreamErr
      /\ \A j : ClaudeSaid(c, j) => ClaudeSaid(e, j)
  <2>1. s \in Seq(LineRec)
    BY <1>4
  <2>2. OtherLines(c, e, s)
    BY <2>1, LinesUnsaid
  <2> HIDE DEF e
  <2> QED
    BY <2>2 DEF OtherLines
<1>8. ClaudeSaid(e, k) /\ ~e.downstreamErr
  BY <1>7 DEF ClaudeAt
<1>9. d \in handleClaudeStreamLine(e, l)
  BY <1>5
<1> HIDE DEF e
<1>10. /\ d \in ChatRec /\ SameCall(e, d)
       /\ ~d.downstreamErr => ClaudeSaid(d, k + 1)
       /\ d.downstreamErr => Failed(d)
  BY <1>6, <1>7, <1>8, <1>9, ClaudeStep
<1>11. d.lines = s
  BY <1>7, <1>10 DEF SameCall
<1>12. \A i \in 1 .. n - 1 : s[i] = ClaudeLine(k + 1 + i)
  <2> TAKE i \in 1 .. n - 1
  <2>1. i + 1 \in 1 .. n /\ k + (i + 1) = k + 1 + i
    BY <1>1
  <2>2. s[i] = c.lines[i + 1]
    BY <1>4
  <2>3. c.lines[i + 1] = ClaudeLine(k + (i + 1))
    BY <1>3, <2>1
  <2> QED
    BY <2>1, <2>2, <2>3
<1>13. ClaudeAt(d, k + 1)
  BY <1>4, <1>6, <1>10, <1>11, <1>12 DEF ClaudeAt
<1> QED
  BY <1>6, <1>10, <1>13 DEF e

\* One line of Gemini's stream; after a failed write it is only read.
LEMMA GeminiWrite ==
  ASSUME NEW c \in ChatRec, NEW n \in {N + 1, N + 2}, NEW k \in 0 .. n, GeminiAt(c, n, k),
         c.lines # <<>>, c.downstreamErr => Failed(c), NEW s, s = Tail(c.lines),
         NEW d, c.downstreamErr => d = [c EXCEPT !.lines = s],
         ~c.downstreamErr => d \in handleGeminiStreamLine([c EXCEPT !.lines = s], Head(c.lines))
  PROVE  /\ d \in ChatRec /\ SameCall([c EXCEPT !.lines = s], d)
         /\ d.downstreamErr => Failed(d)
         /\ k + 1 \in 0 .. n /\ GeminiAt(d, n, k + 1)
<1> DEFINE e == [c EXCEPT !.lines = s]
           r == n - k
           l == GeminiLine(n, k + 1)
<1>1. r \in Nat
  BY SomeText
<1>2. c.lines \in Seq(LineRec)
  BY ChatFields
<1>3. Len(c.lines) = r /\ \A i \in 1 .. r : c.lines[i] = GeminiLine(n, k + i)
  BY DEF GeminiAt
<1> HIDE DEF r
<1>4. /\ r >= 1 /\ s \in Seq(LineRec) /\ Len(s) = r - 1
      /\ Head(c.lines) = c.lines[1] /\ \A i \in 1 .. r - 1 : s[i] = c.lines[i + 1]
  BY <1>1, <1>2, <1>3, TailLines
<1>5. Head(c.lines) = l
  <2>1. 1 \in 1 .. r
    BY <1>1, <1>4
  <2> QED
    BY <1>3, <1>4, <2>1
<1>6. k \in 0 .. n - 1 /\ r - 1 = n - (k + 1) /\ k + 1 \in 0 .. n
  <2>1. r >= 1
    BY <1>4
  <2> QED
    BY <2>1, SomeText DEF r
<1>7. /\ e \in ChatRec /\ e.lines = s /\ e.downstreamErr = c.downstreamErr
      /\ \A j, i : GeminiSaid(c, j, i) => GeminiSaid(e, j, i)
      /\ Failed(c) => Failed(e)
  <2>1. s \in Seq(LineRec)
    BY <1>4
  <2>2. OtherLines(c, e, s)
    BY <2>1, LinesUnsaid
  <2> HIDE DEF e
  <2> QED
    BY <2>2 DEF OtherLines
<1>8. \A i \in 1 .. r - 1 : s[i] = GeminiLine(n, k + 1 + i)
  <2> TAKE i \in 1 .. r - 1
  <2>1. i + 1 \in 1 .. r /\ k + (i + 1) = k + 1 + i
    BY <1>1, SMTT(30)
  <2>2. s[i] = c.lines[i + 1]
    BY <1>4
  <2>3. c.lines[i + 1] = GeminiLine(n, k + (i + 1))
    BY <1>3, <2>1
  <2> QED
    BY <2>1, <2>2, <2>3
<1>9. ASSUME c.downstreamErr
      PROVE  /\ d \in ChatRec /\ SameCall(e, d) /\ (d.downstreamErr => Failed(d))
             /\ ~d.downstreamErr => GeminiSaid(d, n, k + 1)
  <2>1. d = e
    BY <1>9
  <2> HIDE DEF e
  <2> QED
    BY <1>7, <1>9, <2>1 DEF SameCall
<1>10. ASSUME ~c.downstreamErr
       PROVE  /\ d \in ChatRec /\ SameCall(e, d) /\ (d.downstreamErr => Failed(d))
              /\ ~d.downstreamErr => GeminiSaid(d, n, k + 1)
  <2>1. GeminiSaid(e, n, k) /\ ~e.downstreamErr
    BY <1>7, <1>10 DEF GeminiAt
  <2>2. d \in handleGeminiStreamLine(e, l)
    BY <1>5, <1>10
  <2> HIDE DEF e
  <2> QED
    BY <1>6, <1>7, <2>1, <2>2, GeminiStep
<1>11. /\ d \in ChatRec /\ SameCall(e, d) /\ (d.downstreamErr => Failed(d))
       /\ ~d.downstreamErr => GeminiSaid(d, n, k + 1)
  BY <1>9, <1>10
<1> HIDE DEF e
<1>12. d.lines = s
  BY <1>7, <1>11 DEF SameCall
<1>13. GeminiAt(d, n, k + 1)
  BY <1>4, <1>6, <1>8, <1>11, <1>12 DEF GeminiAt
<1> QED
  BY <1>6, <1>11, <1>13 DEF e

\* A chat in its stream.
LEMMA InStream ==
  ASSUME CompatTyped, NEW q \in Chats, ChatAt(chats[q]), chats[q].at = "stream"
  PROVE  /\ chats[q] \in ChatRec /\ chats[q].at \in Inside /\ chats[q].sent = NotSent
         /\ Streaming(chats[q])
  BY DEF CompatTyped, ChatAt, Inside

\* A step that stays in the stream.
LEMMA StaysMoves ==
  ASSUME CompatTyped, NEW q \in Chats, ChatAt(chats[q]), chats[q].at = "stream",
         NEW s \in Seq(LineRec), NEW d \in ChatRec, SameCall([chats[q] EXCEPT !.lines = s], d),
         chats' = [chats EXCEPT ![q] = d], UNCHANGED <<compatNow, limiter>>, Streaming(d)
  PROVE  Moves(q)
<1> DEFINE c == chats[q]
           e == [c EXCEPT !.lines = s]
<1>1. c \in ChatRec /\ c.at \in Inside /\ c.at = "stream" /\ c.sent = NotSent
  BY InStream
<1>2. OtherLines(c, e, s)
  BY <1>1, LinesUnsaid
<1>3. SameCall(e, d)
  OBVIOUS
<1> HIDE DEF c, e
<1>4. /\ e.at = c.at /\ e.stamp = c.stamp /\ e.late = c.late /\ e.admitted = c.admitted
      /\ e.sent = c.sent
  BY <1>2 DEF OtherLines
<1>5. /\ d.at = "stream" /\ d.stamp = c.stamp /\ d.late = c.late /\ d.admitted = c.admitted
      /\ d.sent = NotSent
  BY <1>1, <1>3, <1>4 DEF SameCall
<1>6. ChatAt(d)
  BY <1>5 DEF ChatAt
<1> QED
  BY <1>1, <1>5, <1>6 DEF Moves, Inside, c

\* A line is passed on.
LEMMA WriteMoves ==
  ASSUME CompatTyped, NEW q \in Chats, ChatAt(chats[q]), Write(q)
  PROVE  Moves(q)
<1> DEFINE c == chats[q]
           s == Tail(c.lines)
           e == [c EXCEPT !.lines = s]
<1>1. /\ c.at = "stream" /\ c.lines # <<>> /\ (c.downstreamErr => c.prov = "gemini")
      /\ UNCHANGED <<compatNow, limiter>>
  BY DEF Write
<1>2. PICK d \in IF c.downstreamErr THEN {e} ELSE handleStreamLine(e, Head(c.lines)) :
        chats' = [chats EXCEPT ![q] = d]
  BY DEF Write
<1>3. c \in ChatRec /\ Streaming(c)
  BY <1>1, InStream
<1>4. s \in Seq(LineRec)
  BY <1>1, <1>3, ChatFields, TailLines
<1>5. OtherLines(c, e, s)
  BY <1>3, <1>4, LinesUnsaid
<1>6. /\ e.prov = c.prov /\ e.stream = c.stream /\ e.ended = c.ended /\ e.status = c.status
  BY <1>5 DEF OtherLines
<1>7. c.stream /\ c.status = 200 /\ c.ended = "" /\ (c.downstreamErr => Failed(c))
  BY <1>3 DEF Streaming
<1>8. ASSUME c.prov = "claude" PROVE d \in ChatRec /\ SameCall(e, d) /\ Streaming(d)
  <2>1. PICK k \in 0 .. N + 5 : ClaudeAt(c, k)
    BY <1>3, <1>8 DEF Streaming
  <2>2. ~c.downstreamErr /\ d \in handleClaudeStreamLine(e, Head(c.lines))
    BY <1>1, <1>2, <1>6, <1>8 DEF handleStreamLine
  <2> HIDE DEF c, s
  <2>3. /\ d \in ChatRec /\ SameCall(e, d) /\ (d.downstreamErr => Failed(d))
        /\ k + 1 \in 0 .. N + 5 /\ ClaudeAt(d, k + 1)
    BY <1>1, <1>3, <2>1, <2>2, ClaudeWrite DEF s
  <2> HIDE DEF e
  <2>4. d.stream /\ d.status = 200 /\ d.ended = "" /\ d.prov = "claude"
    BY <1>6, <1>7, <1>8, <2>3 DEF SameCall
  <2> QED
    BY <2>3, <2>4 DEF Streaming
<1>9. ASSUME c.prov = "gemini" PROVE d \in ChatRec /\ SameCall(e, d) /\ Streaming(d)
  <2>1. PICK n \in {N + 1, N + 2} : \E k \in 0 .. n : GeminiAt(c, n, k)
    BY <1>3, <1>9 DEF Streaming
  <2>2. PICK k \in 0 .. n : GeminiAt(c, n, k)
    BY <2>1
  <2>3. /\ c.downstreamErr => d = e
        /\ ~c.downstreamErr => d \in handleGeminiStreamLine(e, Head(c.lines))
    BY <1>2, <1>6, <1>9 DEF handleStreamLine
  <2>4. (c.downstreamErr => Failed(c)) /\ c.lines # <<>>
    BY <1>1, <1>7
  <2> HIDE DEF c, s
  <2>5. /\ d \in ChatRec /\ SameCall(e, d) /\ (d.downstreamErr => Failed(d))
        /\ k + 1 \in 0 .. n /\ GeminiAt(d, n, k + 1)
    BY <1>3, <2>2, <2>3, <2>4, GeminiWrite DEF s
  <2> HIDE DEF e
  <2>6. d.stream /\ d.status = 200 /\ d.ended = "" /\ d.prov = "gemini"
    BY <1>6, <1>7, <1>9, <2>5 DEF SameCall
  <2> QED
    BY <2>5, <2>6 DEF Streaming
<1>10. c.prov = "claude" \/ c.prov = "gemini"
  BY <1>3 DEF Streaming
<1> HIDE DEF s
<1> QED
  BY <1>1, <1>2, <1>4, <1>8, <1>9, <1>10, StaysMoves

\* However a stream of Claude stops, the end was seen only if all is told.
LEMMA ClaudeHalts ==
  ASSUME NEW c \in ChatRec, NEW k \in 0 .. N + 5, ~c.downstreamErr => ClaudeSaid(c, k),
         c.downstreamErr => Failed(c)
  PROVE  \A ended : Halted(c, ended)
<1>1. CASE c.downstreamErr
  BY <1>1 DEF Failed, Halted
<1>2. CASE ~c.downstreamErr
  <2> DEFINE m == IF k <= N + 2 THEN k ELSE IF k = N + 3 THEN N + 2 ELSE N + 3
  <2>1. m \in 0 .. 2 + N + 1 /\ (k = N + 5 => m = 2 + N + 1)
    BY SomeText
  <2>2. Told(c, 2, m) /\ (c.terminalSignalSeen <=> k = N + 5)
    BY <1>2 DEF ClaudeSaid
  <2> HIDE DEF m
  <2> QED
    BY <1>2, <2>1, <2>2 DEF Halted
<1> QED
  BY <1>1, <1>2

\* The same for Gemini.
LEMMA GeminiHalts ==
  ASSUME NEW c \in ChatRec, NEW n \in {N + 1, N + 2}, NEW k \in 0 .. n,
         ~c.downstreamErr => GeminiSaid(c, n, k), c.downstreamErr => Failed(c)
  PROVE  \A ended : Halted(c, ended)
<1>1. CASE c.downstreamErr
  BY <1>1 DEF Failed, Halted
<1>2. CASE ~c.downstreamErr
  <2> DEFINE m == IF k = 0 THEN 0 ELSE IF k < n - 1 THEN k + 1 ELSE N + 2
  <2>1. m \in 0 .. 1 + N + 1 /\ (k >= n - 1 => m = 1 + N + 1)
    BY SomeText
  <2>2. Told(c, 1, m) /\ (c.terminalSignalSeen <=> k >= n - 1)
    BY <1>2 DEF GeminiSaid
  <2> HIDE DEF m
  <2> QED
    BY <1>2, <2>1, <2>2 DEF Halted
<1> QED
  BY <1>1, <1>2

\* So does a stream that is under way, whatever is recorded as its end.
LEMMA StreamHalts ==
  ASSUME NEW c \in ChatRec, Streaming(c)
  PROVE  /\ \A ended : Halted(c, ended)
         /\ c.lines = <<>> /\ ~c.downstreamErr => c.terminalSignalSeen
<1>1. c.downstreamErr => Failed(c)
  BY DEF Streaming
<1>2. c.lines \in Seq(LineRec)
  BY ChatFields
<1>3. CASE c.prov = "claude"
  <2>1. PICK k \in 0 .. N + 5 : ClaudeAt(c, k)
    BY <1>3 DEF Streaming
  <2>2. \A ended : Halted(c, ended)
    BY <1>1, <2>1, ClaudeHalts DEF ClaudeAt
  <2>3. ASSUME c.lines = <<>>, ~c.downstreamErr PROVE c.terminalSignalSeen
    <3>1. N + 5 - k \in Nat /\ Len(c.lines) = N + 5 - k
      BY <2>1, SomeText DEF ClaudeAt
    <3>2. N + 5 - k = 0
      BY <1>2, <2>3, <3>1, TailLines
    <3>3. k = N + 5
      BY <3>2, SomeText
    <3> QED
      BY <2>1, <2>3, <3>3 DEF ClaudeAt, ClaudeSaid
  <2> QED
    BY <2>2, <2>3
<1>4. CASE c.prov = "gemini"
  <2>1. PICK n \in {N + 1, N + 2} : \E k \in 0 .. n : GeminiAt(c, n, k)
    BY <1>4 DEF Streaming
  <2>2. PICK k \in 0 .. n : GeminiAt(c, n, k)
    BY <2>1
  <2>3. \A ended : Halted(c, ended)
    BY <1>1, <2>2, GeminiHalts DEF GeminiAt
  <2>4. ASSUME c.lines = <<>>, ~c.downstreamErr PROVE c.terminalSignalSeen
    <3>1. n - k \in Nat /\ Len(c.lines) = n - k
      BY <2>2, SomeText DEF GeminiAt
    <3>2. n - k = 0
      BY <1>2, <2>4, <3>1, TailLines
    <3>3. k >= n - 1
      BY <3>2, SomeText
    <3> QED
      BY <2>2, <2>4, <3>3 DEF GeminiAt, GeminiSaid
  <2> QED
    BY <2>3, <2>4
<1> QED
  BY <1>3, <1>4 DEF Streaming

\* What Halted says depends on the writer's fields alone.
LEMMA HaltedSame ==
  ASSUME NEW c, NEW d, NEW ended, Halted(c, ended), d.got = c.got, d.doneSent = c.doneSent,
         d.terminalSignalSeen = c.terminalSignalSeen, d.downstreamErr = c.downstreamErr
  PROVE  Halted(d, ended)
<1>1. \A p, m : Told(c, p, m) => Told(d, p, m)
  BY DEF Told
<1> QED
  BY <1>1 DEF Halted

\* A step to the end of the stream.
LEMMA EndsMoves ==
  ASSUME CompatTyped, NEW q \in Chats, ChatAt(chats[q]), chats[q].at = "stream",
         NEW e \in ChatRec, e.stamp = chats[q].stamp, e.late = chats[q].late,
         e.admitted = chats[q].admitted, e.sent = chats[q].sent, e.stream = chats[q].stream,
         e.status = chats[q].status,
         NEW ended \in {"whole", "cut"} \cup Kinds, Halted(e, ended),
         ended = "whole" /\ ~e.downstreamErr => e.terminalSignalSeen,
         chats' = [chats EXCEPT ![q] = [e EXCEPT !.at = "final", !.ended = ended]],
         UNCHANGED <<compatNow, limiter>>
  PROVE  Moves(q)
<1> DEFINE c == chats[q]
           d == [e EXCEPT !.at = "final", !.ended = ended]
<1>1. c.at \in Inside /\ c.sent = NotSent /\ c.stream /\ c.status = 200
  BY InStream DEF Streaming
<1>2. chats' = [chats EXCEPT ![q] = d] /\ UNCHANGED <<compatNow, limiter>>
  OBVIOUS
<1>3. /\ e.stamp = c.stamp /\ e.late = c.late /\ e.admitted = c.admitted
      /\ e.sent = NotSent /\ e.stream /\ e.status = 200
  BY <1>1
<1> HIDE DEF c
<1>4. d \in ChatRec
  BY DEF ChatRec, Places
<1>5. /\ d.at = "final" /\ d.ended = ended /\ d.got = e.got /\ d.doneSent = e.doneSent
      /\ d.terminalSignalSeen = e.terminalSignalSeen /\ d.downstreamErr = e.downstreamErr
      /\ d.stamp = e.stamp /\ d.late = e.late /\ d.admitted = e.admitted /\ d.sent = e.sent
      /\ d.stream = e.stream /\ d.status = e.status
  BY DEF ChatRec
<1> HIDE DEF d
<1>6. Halted(d, d.ended)
  BY <1>5, HaltedSame
<1>7. Ended(d)
  BY <1>3, <1>5, <1>6 DEF Ended
<1>8. ChatAt(d)
  BY <1>3, <1>5, <1>7 DEF ChatAt
<1> QED
  BY <1>1, <1>2, <1>3, <1>4, <1>5, <1>8 DEF Moves, Inside, c

\* The upstream is over, or the client is gone.
LEMMA StreamEndsMoves ==
  ASSUME CompatTyped, NEW q \in Chats, ChatAt(chats[q]), StreamEnds(q)
  PROVE  Moves(q)
<1> DEFINE c == chats[q]
           none == <<>>
           e == [c EXCEPT !.lines = none]
<1>1. chats[q].at = "stream" /\ UNCHANGED <<compatNow, limiter>>
  BY DEF StreamEnds
<1>2. PICK ended \in {"whole", "cut"} :
        /\ ended = "whole" => c.lines = <<>>
        /\ chats' = [chats EXCEPT ![q].at = "final", ![q].lines = <<>>, ![q].ended = ended]
  BY DEF StreamEnds
<1>3. c \in ChatRec /\ Streaming(c)
  BY <1>1, InStream
<1>4. none \in Seq(LineRec)
  BY EmptySeq
<1>5. \A x : Halted(c, x)
  BY <1>3, StreamHalts
<1>6. ended = "whole" /\ ~c.downstreamErr => c.terminalSignalSeen
  BY <1>2, <1>3, StreamHalts
<1>7. chats' = [chats EXCEPT ![q] = [e EXCEPT !.at = "final", !.ended = ended]]
  <2>1. chats \in [Chats -> ChatRec]
    BY DEF CompatTyped
  <2>2. [c EXCEPT !.at = "final", !.lines = none, !.ended = ended]
        = [e EXCEPT !.at = "final", !.ended = ended]
    BY <1>3 DEF ChatRec
  <2>3. chats' = [chats EXCEPT ![q] = [c EXCEPT !.at = "final", !.lines = none, !.ended = ended]]
    BY <1>2, <2>1
  <2> QED
    BY <2>2, <2>3
<1> HIDE DEF none
<1>8. /\ e \in ChatRec /\ e.stamp = c.stamp /\ e.late = c.late /\ e.admitted = c.admitted
      /\ e.sent = c.sent /\ e.stream = c.stream /\ e.status = c.status
  <2>1. OtherLines(c, e, none)
    BY <1>3, <1>4, LinesUnsaid
  <2> QED
    BY <2>1 DEF OtherLines
<1>9. /\ e.got = c.got /\ e.doneSent = c.doneSent
      /\ e.terminalSignalSeen = c.terminalSignalSeen /\ e.downstreamErr = c.downstreamErr
  BY <1>3 DEF ChatRec
<1>10. Halted(e, ended)
  BY <1>5, <1>9, HaltedSame
<1> HIDE DEF e
<1> QED
  BY <1>1, <1>2, <1>6, <1>7, <1>8, <1>9, <1>10, EndsMoves

\* The kind of a line.
LEMMA LineKind == \A kd : Line(kd).kind = kd
  BY DEF Line

\* Claude's stream breaks inside a line.
LEMMA ClaudeCut ==
  ASSUME NEW c \in ChatRec, NEW k \in 0 .. N + 5, ClaudeAt(c, k), c.lines # <<>>,
         ~c.downstreamErr, c.prov = "claude", NEW e \in ChatRec, ~e.downstreamErr,
         ClaudeSaid(e, k), NEW l \in Torn(c), NEW d \in handleClaudeStreamLine(e, l)
  PROVE  /\ d \in ChatRec /\ SameCall(e, d) /\ l.kind \in Kinds
         /\ \A ended : Halted(d, ended)
<1> DEFINE h == Head(c.lines)
           n == N + 5 - k
<1>1. c.lines \in Seq(LineRec)
  BY ChatFields
<1>2. n \in Nat
  BY SomeText
<1>3. Len(c.lines) = n /\ \A i \in 1 .. n : c.lines[i] = ClaudeLine(k + i)
  BY DEF ClaudeAt
<1>4. n >= 1 /\ h = c.lines[1]
  BY <1>1, <1>2, <1>3, TailLines
<1>5. 1 \in 1 .. n /\ k \in 0 .. N + 4 /\ k + 1 \in 0 .. N + 5
  BY <1>2, <1>4, SomeText
<1>6. h = ClaudeLine(k + 1)
  BY <1>3, <1>4, <1>5
<1> HIDE DEF h, n
<1>7. (l = h /\ h.kind \in {"message_start", "ping", "message_stop"}) \/ l = Line("other")
  BY DEF Torn, h
<1>8. CASE l = h /\ h.kind \in {"message_start", "ping", "message_stop"}
  <2>1. d \in handleClaudeStreamLine(e, ClaudeLine(k + 1))
    BY <1>6, <1>8
  <2>2. /\ d \in ChatRec /\ SameCall(e, d)
        /\ ~d.downstreamErr => ClaudeSaid(d, k + 1)
        /\ d.downstreamErr => Failed(d)
    BY <1>5, <2>1, ClaudeStep
  <2>3. \A ended : Halted(d, ended)
    BY <1>5, <2>2, ClaudeHalts
  <2>4. l.kind \in Kinds
    BY <1>8 DEF Kinds
  <2> QED
    BY <2>2, <2>3, <2>4
<1>9. CASE l = Line("other")
  <2>1. l.kind = "other"
    BY <1>9, LineKind
  <2>2. handleClaudeStreamLine(e, l) = {e}
    BY <2>1, ClaudeHandler, Zenon
  <2>3. d = e
    BY <2>2
  <2>4. \A ended : Halted(e, ended)
    BY ClaudeHalts
  <2>5. SameCall(e, e)
    BY DEF SameCall
  <2> QED
    BY <2>1, <2>3, <2>4, <2>5 DEF Kinds
<1> QED
  BY <1>7, <1>8, <1>9

\* Gemini's stream breaks inside a line: what is left of it says nothing, or ends the stream.
LEMMA GeminiCut ==
  ASSUME NEW n \in {N + 1, N + 2}, NEW k \in 0 .. n, NEW e \in ChatRec, ~e.downstreamErr,
         GeminiSaid(e, n, k), NEW l \in {Line("other"), Line("bare")},
         NEW d \in handleGeminiStreamLine(e, l)
  PROVE  /\ d \in ChatRec /\ SameCall(e, d) /\ l.kind \in Kinds /\ Halted(d, l.kind)
<1>1. CASE l = Line("other")
  <2>1. l.kind = "other"
    BY <1>1, LineKind
  <2>2. handleGeminiStreamLine(e, l) = {e}
    BY <2>1, GeminiHandler, Zenon
  <2>3. d = e
    BY <2>2
  <2>4. Halted(e, l.kind)
    BY GeminiHalts
  <2>5. SameCall(e, e)
    BY DEF SameCall
  <2> QED
    BY <2>1, <2>3, <2>4, <2>5 DEF Kinds
<1>2. CASE l = Line("bare")
  <2> DEFINE x == Terminal(e)
             m == IF k = 0 THEN 0 ELSE IF k < n - 1 THEN k + 1 ELSE N + 2
  <2>1. l.kind = "bare"
    BY <1>2, LineKind
  <2>2. d \in emitDone(x)
    BY <2>1, GeminiHandler
  <2> HIDE DEF x
  <2>3. /\ x \in ChatRec /\ SameCall(e, x) /\ x.downstreamErr = e.downstreamErr
        /\ \A i, j : Told(e, i, j) => Told(x, i, j)
    BY TerminalNoted DEF x
  <2>4. m \in 0 .. 1 + N + 1
    BY SomeText
  <2>5. Told(e, 1, m)
    BY DEF GeminiSaid
  <2> HIDE DEF m
  <2>6. x.downstreamErr = FALSE
    BY <2>3, ChatFields
  <2>7. /\ d \in ChatRec /\ SameCall(x, d) /\ Told(d, 1, m) /\ (d.doneSent <=> ~d.downstreamErr)
    BY <2>2, <2>3, <2>4, <2>5, <2>6, DoneTold
  <2>8. Halted(d, l.kind)
    BY <2>1, <2>4, <2>7 DEF Halted
  <2>9. SameCall(e, d)
    BY <2>3, <2>7, SameCallTwice
  <2> QED
    BY <2>1, <2>7, <2>8, <2>9 DEF Kinds
<1> QED
  BY <1>1, <1>2

\* The provider's connection breaks.
LEMMA CutMoves ==
  ASSUME CompatTyped, NEW q \in Chats, ChatAt(chats[q]), Cut(q)
  PROVE  Moves(q)
<1> DEFINE c == chats[q]
           none == <<>>
           e == [c EXCEPT !.lines = none]
<1>1. c.at = "stream" /\ c.lines # <<>> /\ ~c.downstreamErr /\ UNCHANGED <<compatNow, limiter>>
  BY DEF Cut
<1>2. PICK l \in Torn(c) : \E d \in handleStreamLine(e, l) :
        chats' = [chats EXCEPT ![q] = [d EXCEPT !.at = "final", !.ended = l.kind]]
  BY DEF Cut
<1>3. PICK d \in handleStreamLine(e, l) :
        chats' = [chats EXCEPT ![q] = [d EXCEPT !.at = "final", !.ended = l.kind]]
  BY <1>2
<1>4. c \in ChatRec /\ Streaming(c)
  BY <1>1, InStream
<1>5. none \in Seq(LineRec)
  BY EmptySeq
<1>6. OtherLines(c, e, none)
  BY <1>4, <1>5, LinesUnsaid
<1> HIDE DEF none, e, c
<1>7. /\ e \in ChatRec /\ e.stamp = c.stamp /\ e.late = c.late /\ e.admitted = c.admitted
      /\ e.sent = c.sent /\ e.stream = c.stream /\ e.status = c.status /\ e.prov = c.prov
      /\ e.downstreamErr = c.downstreamErr
      /\ \A k : ClaudeSaid(c, k) => ClaudeSaid(e, k)
      /\ \A n, k : GeminiSaid(c, n, k) => GeminiSaid(e, n, k)
  BY <1>6 DEF OtherLines
<1>8. ASSUME c.prov = "claude"
      PROVE  d \in ChatRec /\ SameCall(e, d) /\ l.kind \in Kinds /\ Halted(d, l.kind)
  <2>1. PICK k \in 0 .. N + 5 : ClaudeAt(c, k)
    BY <1>4, <1>8 DEF Streaming
  <2>2. ClaudeSaid(e, k) /\ ~e.downstreamErr
    BY <1>1, <1>7, <2>1 DEF ClaudeAt
  <2>3. d \in handleClaudeStreamLine(e, l)
    BY <1>3, <1>7, <1>8 DEF handleStreamLine
  <2> QED
    BY <1>1, <1>2, <1>4, <1>7, <1>8, <2>1, <2>2, <2>3, ClaudeCut
<1>9. ASSUME c.prov = "gemini"
      PROVE  d \in ChatRec /\ SameCall(e, d) /\ l.kind \in Kinds /\ Halted(d, l.kind)
  <2>1. PICK n \in {N + 1, N + 2} : \E k \in 0 .. n : GeminiAt(c, n, k)
    BY <1>4, <1>9 DEF Streaming
  <2>2. PICK k \in 0 .. n : GeminiAt(c, n, k)
    BY <2>1
  <2>3. GeminiSaid(e, n, k) /\ ~e.downstreamErr
    BY <1>1, <1>7, <2>2 DEF GeminiAt
  <2>4. d \in handleGeminiStreamLine(e, l) /\ l \in {Line("other"), Line("bare")}
    BY <1>2, <1>3, <1>7, <1>9 DEF handleStreamLine, Torn
  <2> QED
    BY <1>7, <2>2, <2>3, <2>4, GeminiCut
<1>10. d \in ChatRec /\ SameCall(e, d) /\ l.kind \in Kinds /\ Halted(d, l.kind)
  BY <1>4, <1>8, <1>9 DEF Streaming
<1>11. /\ d.stamp = c.stamp /\ d.late = c.late /\ d.admitted = c.admitted
       /\ d.sent = c.sent /\ d.stream = c.stream /\ d.status = c.status
  BY <1>7, <1>10 DEF SameCall
<1>12. l.kind # "whole"
  BY <1>10 DEF Kinds
<1>13. l.kind \in {"whole", "cut"} \cup Kinds
  BY <1>10
<1>14. ChatAt(c)
  BY DEF c
<1> DEFINE ended == l.kind
<1>15. chats' = [chats EXCEPT ![q] = [d EXCEPT !.at = "final", !.ended = ended]]
  BY <1>3
<1> HIDE DEF ended
<1> QED
  BY <1>1, <1>10, <1>11, <1>12, <1>13, <1>15, EndsMoves DEF c, ended

\* The last [DONE], if there was none.
LEMMA LastDone ==
  ASSUME NEW c \in ChatRec, ~c.downstreamErr, NEW ended, Halted(c, ended), NEW e \in emitDone(c)
  PROVE  /\ e \in ChatRec /\ SameCall(c, e) /\ e.terminalSignalSeen = c.terminalSignalSeen
         /\ Halted(e, ended) /\ (e.downstreamErr \/ e.doneSent)
<1>1. PICK p \in {1, 2} : \E m \in 0 .. p + N + 1 :
        /\ Told(c, p, m)
        /\ c.terminalSignalSeen /\ ~c.downstreamErr => m = p + N + 1 \/ ended = "bare"
  BY DEF Halted
<1>2. PICK m \in 0 .. p + N + 1 :
        /\ Told(c, p, m)
        /\ c.terminalSignalSeen /\ ~c.downstreamErr => m = p + N + 1 \/ ended = "bare"
  BY <1>1
<1>3. c.downstreamErr = FALSE /\ Told(c, p, m)
  BY <1>2, ChatFields
<1>4. /\ e \in ChatRec /\ SameCall(c, e) /\ e.terminalSignalSeen = c.terminalSignalSeen
      /\ Told(e, p, m) /\ (e.doneSent <=> ~e.downstreamErr)
  <2>1. CASE p = 1
    <3>1. m \in 0 .. 1 + N + 1 /\ Told(c, 1, m) /\ c.downstreamErr = FALSE
      BY <1>3, <2>1
    <3>2. /\ e \in ChatRec /\ SameCall(c, e) /\ e.terminalSignalSeen = c.terminalSignalSeen
          /\ Told(e, 1, m) /\ (e.doneSent <=> ~e.downstreamErr)
      BY <3>1, DoneTold
    <3> QED
      BY <2>1, <3>2
  <2>2. CASE p = 2
    <3>1. m \in 0 .. 2 + N + 1 /\ Told(c, 2, m) /\ c.downstreamErr = FALSE
      BY <1>3, <2>2
    <3>2. /\ e \in ChatRec /\ SameCall(c, e) /\ e.terminalSignalSeen = c.terminalSignalSeen
          /\ Told(e, 2, m) /\ (e.doneSent <=> ~e.downstreamErr)
      BY <3>1, DoneTold
    <3> QED
      BY <2>2, <3>2
  <2> QED
    BY <2>1, <2>2
<1>5. Halted(e, ended)
  BY <1>2, <1>4 DEF Halted
<1> QED
  BY <1>4, <1>5

\* finalize writes the [DONE] that is missing.
LEMMA finalizeMoves ==
  ASSUME CompatTyped, NEW q \in Chats, ChatAt(chats[q]), finalize(q)
  PROVE  Moves(q)
<1> DEFINE c == chats[q]
<1>1. c.at = "final" /\ UNCHANGED <<compatNow, limiter>>
  BY DEF finalize
<1>2. PICK e \in IF c.downstreamErr THEN {c} ELSE emitDone(c) :
        chats' = [chats EXCEPT ![q] =
          [e EXCEPT !.at = "return", !.outcome = IF completed(e) THEN "ok" ELSE "error"]]
  BY DEF finalize
<1>3. c \in ChatRec /\ Ended(c) /\ c.sent = NotSent /\ c.at \in Inside
  BY <1>1 DEF CompatTyped, ChatAt, Inside
<1> HIDE DEF c
<1>4. /\ e \in ChatRec /\ SameCall(c, e) /\ e.terminalSignalSeen = c.terminalSignalSeen
      /\ Halted(e, c.ended) /\ (e.downstreamErr \/ e.doneSent)
      /\ ~e.downstreamErr => ~c.downstreamErr
  <2>1. CASE c.downstreamErr
    <3>1. e = c
      BY <1>2, <2>1
    <3>2. SameCall(c, c)
      BY DEF SameCall
    <3>3. Halted(c, c.ended)
      BY <1>3 DEF Ended
    <3> QED
      BY <1>3, <2>1, <3>1, <3>2, <3>3
  <2>2. CASE ~c.downstreamErr
    <3>1. e \in emitDone(c)
      BY <1>2, <2>2
    <3>2. Halted(c, c.ended)
      BY <1>3 DEF Ended
    <3>3. /\ e \in ChatRec /\ SameCall(c, e) /\ e.terminalSignalSeen = c.terminalSignalSeen
          /\ Halted(e, c.ended) /\ (e.downstreamErr \/ e.doneSent)
      BY <1>3, <2>2, <3>1, <3>2, LastDone
    <3> QED
      BY <2>2, <3>3
  <2> QED
    BY <2>1, <2>2
<1> DEFINE o == IF completed(e) THEN "ok" ELSE "error"
           d == [e EXCEPT !.at = "return", !.outcome = o]
<1>5. chats' = [chats EXCEPT ![q] = d] /\ o \in {"ok", "error"}
  BY <1>2
<1> HIDE DEF o
<1>6. d \in ChatRec
  BY <1>4, <1>5 DEF ChatRec, Places
<1>7. /\ d.at = "return" /\ d.outcome = o /\ d.ended = e.ended /\ d.got = e.got
      /\ d.doneSent = e.doneSent
      /\ d.terminalSignalSeen = e.terminalSignalSeen /\ d.downstreamErr = e.downstreamErr
      /\ d.stamp = e.stamp /\ d.late = e.late /\ d.admitted = e.admitted /\ d.sent = e.sent
      /\ d.stream = e.stream /\ d.status = e.status
  BY <1>4 DEF ChatRec
<1> HIDE DEF d
<1>8. /\ e.ended = c.ended /\ e.stamp = c.stamp /\ e.late = c.late /\ e.admitted = c.admitted
      /\ e.sent = c.sent /\ e.stream = c.stream /\ e.status = c.status
  BY <1>4 DEF SameCall
<1>9. Halted(d, d.ended)
  BY <1>4, <1>7, <1>8, HaltedSame
<1>10. /\ d.stream /\ d.status = 200 /\ d.sent = NotSent
       /\ d.ended = "whole" /\ ~d.downstreamErr => d.terminalSignalSeen
  BY <1>3, <1>4, <1>7, <1>8 DEF Ended
<1>11. Ended(d)
  BY <1>9, <1>10 DEF Ended
<1>12. d.outcome = IF completed(d) THEN "ok" ELSE "error"
  BY <1>7 DEF o, completed
<1>13. ChatAt(d)
  BY <1>4, <1>7, <1>10, <1>11, <1>12 DEF ChatAt
<1> QED
  BY <1>1, <1>3, <1>5, <1>6, <1>7, <1>8, <1>13 DEF Moves, Inside, c

-----------------------------------------------------------------------------
(* The invariants of the specification.                                    *)

\* The chat of one request changes.
LEMMA OneChat ==
  ASSUME CompatTyped, ChatInv, NEW q \in Chats, NEW d \in ChatRec, ChatAt(d),
         chats' = [chats EXCEPT ![q] = d]
  PROVE  chats' \in [Chats -> ChatRec] /\ ChatInv'
<1>1. chats \in [Chats -> ChatRec]
  BY DEF CompatTyped
<1>2. chats' \in [Chats -> ChatRec]
  BY <1>1
<1>3. \A x \in Chats : chats'[x] = IF x = q THEN d ELSE chats[x]
  BY <1>1
<1>4. \A x \in Chats : ChatAt(chats'[x])
  BY <1>3 DEF ChatInv
<1>5. ChatInv'
  BY <1>4 DEF ChatInv
<1> QED
  BY <1>2, <1>5

\* A step inside a handler.
LEMMA MoveKeepsChats ==
  ASSUME CompatTyped, ChatInv, NEW q \in Chats, Moves(q)
  PROVE  CompatTyped' /\ ChatInv'
<1>1. PICK d \in ChatRec : chats' = [chats EXCEPT ![q] = d] /\ ChatAt(d)
  BY DEF Moves
<1>2. chats' \in [Chats -> ChatRec] /\ ChatInv'
  BY <1>1, OneChat
<1>3. limiter' = limiter /\ compatNow' = compatNow
  BY DEF Moves
<1> QED
  BY <1>2, <1>3 DEF CompatTyped

\* A chat in which nothing has happened.
LEMMA NewChatFresh ==
  /\ NewChat \in ChatRec /\ Silent(NewChat) /\ NewChat.status # 200 /\ NewChat.sent = NotSent
  /\ NewChat.at = "idle" /\ NewChat.stamp = 0 /\ ~NewChat.admitted /\ ~NewChat.late
<1>1. <<>> \in Seq(LineRec) /\ <<>> \in Seq(Frames)
  BY EmptySeq
<1>2. 0 \in 0 .. MaxCompatNow
  BY Numbers
<1>3. NewChat \in ChatRec
  BY <1>1, <1>2 DEF NewChat, ChatRec, Places
<1>4. Silent(NewChat)
  BY DEF Silent, NewChat
<1>5. NewChat.status # 200
  BY DEF NewChat
<1> QED
  BY <1>3, <1>4, <1>5 DEF NewChat

\* What is left of a request.
LEMMA ReturnedFresh ==
  ASSUME CompatTyped, NEW q \in Chats
  PROVE  LET d == Returned(q)
         IN  /\ d \in ChatRec /\ Silent(d) /\ d.status # 200 /\ d.sent = NotSent /\ d.at = "done"
<1> DEFINE c == chats[q]
           stamp == IF c.admitted THEN c.stamp ELSE 0
           d == [NewChat EXCEPT !.at = "done", !.stamp = stamp,
                                !.late = c.late, !.admitted = c.admitted]
<1>1. Returned(q) = d
  BY DEF Returned
<1>2. c \in ChatRec
  BY DEF CompatTyped
<1>3. c.stamp \in 0 .. MaxCompatNow /\ c.late \in BOOLEAN /\ c.admitted \in BOOLEAN
  BY <1>2 DEF ChatRec
<1>4. 0 \in 0 .. MaxCompatNow
  BY Numbers
<1>5. stamp \in 0 .. MaxCompatNow /\ c.late \in BOOLEAN /\ c.admitted \in BOOLEAN
  BY <1>3, <1>4
<1> HIDE DEF c, stamp
<1>6. NewChat \in ChatRec /\ Silent(NewChat) /\ NewChat.status # 200 /\ NewChat.sent = NotSent
  BY NewChatFresh
<1>7. d \in ChatRec
  BY <1>5, <1>6, ZenonT(60) DEF ChatRec, Places
<1>8. /\ d.at = "done" /\ d.status = NewChat.status /\ d.sent = NewChat.sent
      /\ d.got = NewChat.got /\ d.lines = NewChat.lines /\ d.ended = NewChat.ended
      /\ d.roleSent = NewChat.roleSent /\ d.terminalSignalSeen = NewChat.terminalSignalSeen
      /\ d.doneSent = NewChat.doneSent /\ d.downstreamErr = NewChat.downstreamErr
  BY <1>6 DEF ChatRec
<1> HIDE DEF d
<1>9. Silent(d)
  BY <1>6, <1>8, ZenonT(60) DEF Silent
<1> QED
  BY <1>1, <1>6, <1>7, <1>8, <1>9

\* The beginning.
LEMMA InitCompat == CompatInit => CompatTyped /\ LimitInv /\ ChatInv
<1> SUFFICES ASSUME CompatInit PROVE CompatTyped /\ LimitInv /\ ChatInv
  OBVIOUS
<1>1. /\ compatNow = 0 /\ limiter = [k \in Keys |-> [started |-> {}, inflight |-> 0]]
      /\ \A q \in Chats : chats[q] = NewChat
  BY DEF CompatInit
<1>2. CompatTyped
  <2>1. chats \in [Chats -> ChatRec]
    BY NewChatFresh DEF CompatInit
  <2>2. limiter \in [Keys -> [started : SUBSET Chats, inflight : Nat]]
    BY <1>1
  <2> QED
    BY <1>1, <2>1, <2>2, Numbers DEF CompatTyped
<1>3. ChatAt(NewChat)
  BY NewChatFresh DEF ChatAt
<1>4. ChatInv
  BY <1>1, <1>3 DEF ChatInv
<1>5. \A k \in Keys : /\ Mine(k) = {} /\ Running(k) = {}
                      /\ \A t \in 0 .. MaxCompatNow : Within(k, t) = {}
  BY <1>1, NewChatFresh DEF Mine, Running, Within
<1>6. Cardinality({}) = 0
  BY FS_EmptySet
<1>7. ASSUME NEW q \in Chats PROVE Stamped(q)
  <2>1. /\ chats[q].stamp = 0 /\ chats[q].at = "idle" /\ ~chats[q].admitted
    BY <1>1, NewChatFresh
  <2> QED
    BY <1>1, <2>1 DEF Stamped
<1>8. ASSUME NEW k \in Keys PROVE Listed(k) /\ Counted(k) /\ Rated(k)
  <2>1. limiter[k].started = {} /\ limiter[k].inflight = 0
    BY <1>1
  <2>2. Listed(k)
    BY <1>5, <2>1 DEF Listed
  <2>3. Counted(k)
    BY <1>5, <1>6, <2>1, Numbers DEF Counted
  <2>4. Rated(k)
    BY <1>5, <1>6, Numbers DEF Rated
  <2> QED
    BY <2>2, <2>3, <2>4
<1> QED
  BY <1>2, <1>4, <1>7, <1>8 DEF LimitInv

\* The clock, and a step that changes nothing.
LEMMA TickKeepsChats ==
  ASSUME CompatTyped, ChatInv, CompatTick
  PROVE  CompatTyped' /\ ChatInv'
  BY Numbers DEF CompatTyped, ChatInv, CompatTick

\* A request comes in.
LEMMA ArriveKeepsChats ==
  ASSUME CompatTyped, ChatInv, NEW q \in Chats, Arrive(q)
  PROVE  CompatTyped' /\ ChatInv'
<1> DEFINE c == chats[q]
<1>1. PICK at \in {"open", "stamped"} : \E stamp \in 0 .. MaxCompatNow :
        chats' = [chats EXCEPT ![q].at = at, ![q].stamp = stamp]
  <2>1. 0 \in 0 .. MaxCompatNow /\ compatNow \in 0 .. MaxCompatNow
    BY Numbers DEF CompatTyped
  <2>2. CASE KeyOf[q] = ""
    BY <2>1, <2>2 DEF Arrive
  <2>3. CASE KeyOf[q] # ""
    BY <2>1, <2>3 DEF Arrive
  <2> QED
    BY <2>2, <2>3
<1>2. PICK stamp \in 0 .. MaxCompatNow : chats' = [chats EXCEPT ![q].at = at, ![q].stamp = stamp]
  BY <1>1
<1> DEFINE d == [c EXCEPT !.at = at, !.stamp = stamp]
<1>3. c \in ChatRec /\ ChatAt(c) /\ c.at = "idle"
  BY DEF CompatTyped, ChatInv, Arrive
<1>4. chats' = [chats EXCEPT ![q] = d]
  BY <1>2 DEF CompatTyped
<1> HIDE DEF c
<1>5. d \in ChatRec
  BY <1>3 DEF ChatRec, Places
<1>6. /\ d.at = at /\ d.status = c.status /\ d.sent = c.sent
      /\ d.got = c.got /\ d.lines = c.lines /\ d.ended = c.ended /\ d.roleSent = c.roleSent
      /\ d.terminalSignalSeen = c.terminalSignalSeen /\ d.doneSent = c.doneSent
      /\ d.downstreamErr = c.downstreamErr
  BY <1>3 DEF ChatRec
<1> HIDE DEF d
<1>7. Silent(c) /\ c.status # 200 /\ c.sent = NotSent
  BY <1>3 DEF ChatAt
<1>8. Silent(d)
  BY <1>6, <1>7, ZenonT(60) DEF Silent
<1>9. ChatAt(d)
  BY <1>6, <1>7, <1>8 DEF ChatAt
<1>10. chats' \in [Chats -> ChatRec] /\ ChatInv'
  BY <1>4, <1>5, <1>9, OneChat
<1>11. limiter' = limiter /\ compatNow' = compatNow
  BY DEF Arrive
<1> QED
  BY <1>10, <1>11 DEF CompatTyped

\* A refusal.
LEMMA RefusalType ==
  ASSUME NEW r \in ChatRec, NEW status \in Nat, NEW outcome \in {"ok", "error"}
  PROVE  [r EXCEPT !.status = status, !.outcome = outcome] \in ChatRec
  BY DEF ChatRec

\* The limiter refuses it.
LEMMA RefusedKeepsChats ==
  ASSUME CompatTyped, LimitInv, ChatInv, NEW q \in Chats, AcquireRefused(q)
  PROVE  CompatTyped' /\ ChatInv'
<1> DEFINE r == Returned(q)
           status == 429
           outcome == "error"
           d == [r EXCEPT !.status = status, !.outcome = outcome]
<1>1. chats' = [chats EXCEPT ![q] = d] /\ compatNow' = compatNow
  BY DEF AcquireRefused
<1>2. r \in ChatRec /\ Silent(r) /\ r.sent = NotSent /\ r.at = "done"
  BY ReturnedFresh
<1>3. status \in Nat /\ status # 200 /\ outcome \in {"ok", "error"}
  OBVIOUS
<1>4. r \in ChatRec
  BY <1>2
<1> HIDE DEF r, outcome, status
<1>5. d \in ChatRec
  BY <1>3, <1>4, RefusalType
<1>6. /\ d.at = r.at /\ d.status = status /\ d.sent = r.sent
      /\ d.got = r.got /\ d.lines = r.lines /\ d.ended = r.ended /\ d.roleSent = r.roleSent
      /\ d.terminalSignalSeen = r.terminalSignalSeen /\ d.doneSent = r.doneSent
      /\ d.downstreamErr = r.downstreamErr
  BY <1>4 DEF ChatRec
<1> HIDE DEF d
<1>7. Silent(d)
  BY <1>2, <1>6 DEF Silent
<1>8. ChatAt(d)
  BY <1>2, <1>3, <1>6, <1>7 DEF ChatAt
<1>9. chats' \in [Chats -> ChatRec] /\ ChatInv'
  BY <1>1, <1>5, <1>8, OneChat
<1>10. limiter' \in [Keys -> [started : SUBSET Chats, inflight : Nat]]
  BY DEF AcquireRefused, CompatTyped, Kept
<1> QED
  BY <1>1, <1>9, <1>10 DEF CompatTyped

\* The limiter admits it.
LEMMA AcquireKeepsChats ==
  ASSUME CompatTyped, LimitInv, ChatInv, NEW q \in Chats, Acquire(q)
  PROVE  CompatTyped' /\ ChatInv'
<1> DEFINE c == chats[q]
           late == c.stamp # compatNow
           d == [c EXCEPT !.at = "open", !.admitted = TRUE, !.late = late]
           k == KeyOf[q]
           kept == Kept(limiter[k].started, c.stamp)
           started == IF MaxPerMinute > 0 THEN kept \cup {q} ELSE kept
<1>1. c \in ChatRec /\ ChatAt(c) /\ c.at = "stamped" /\ compatNow' = compatNow
  BY DEF CompatTyped, ChatInv, Acquire
<1>2. chats' = [chats EXCEPT ![q] = d]
  BY DEF Acquire, CompatTyped
<1>3. late \in BOOLEAN
  OBVIOUS
<1>4. limiter' = [limiter EXCEPT ![k] = [inflight |-> @.inflight + 1, started |-> started]]
  BY DEF Acquire
<1>5. k \in Keys
  BY <1>1 DEF LimitInv, Stamped
<1>6. limiter \in [Keys -> [started : SUBSET Chats, inflight : Nat]]
  BY DEF CompatTyped
<1>7. kept \in SUBSET Chats
  BY <1>5, <1>6 DEF Kept
<1>8. started \in SUBSET Chats
  <2> HIDE DEF kept
  <2> QED
    BY <1>7
<1> HIDE DEF started, k, late, c
<1>9. limiter' \in [Keys -> [started : SUBSET Chats, inflight : Nat]]
  <2>1. [inflight |-> limiter[k].inflight + 1, started |-> started]
        \in [started : SUBSET Chats, inflight : Nat]
    BY <1>5, <1>6, <1>8
  <2> QED
    BY <1>4, <1>5, <1>6, <2>1
<1>10. d \in ChatRec
  BY <1>1, <1>3 DEF ChatRec, Places
<1>11. /\ d.at = "open" /\ d.status = c.status /\ d.sent = c.sent
       /\ d.got = c.got /\ d.lines = c.lines /\ d.ended = c.ended /\ d.roleSent = c.roleSent
       /\ d.terminalSignalSeen = c.terminalSignalSeen /\ d.doneSent = c.doneSent
       /\ d.downstreamErr = c.downstreamErr
  BY <1>1 DEF ChatRec
<1> HIDE DEF d
<1>12. Silent(c) /\ c.status # 200 /\ c.sent = NotSent
  BY <1>1 DEF ChatAt
<1>13. Silent(d)
  BY <1>11, <1>12, ZenonT(60) DEF Silent
<1>14. ChatAt(d)
  BY <1>11, <1>12, <1>13 DEF ChatAt
<1>15. chats' \in [Chats -> ChatRec] /\ ChatInv'
  BY <1>2, <1>10, <1>14, OneChat
<1> QED
  BY <1>1, <1>9, <1>15 DEF CompatTyped

\* The handler returns.
LEMMA ReleaseKeepsChats ==
  ASSUME CompatTyped, LimitInv, ChatInv, NEW q \in Chats, release(q)
  PROVE  CompatTyped' /\ ChatInv'
<1> DEFINE r == Returned(q)
           k == KeyOf[q]
<1>1. chats' = [chats EXCEPT ![q] = r] /\ compatNow' = compatNow
  BY DEF release
<1>2. r \in ChatRec /\ Silent(r) /\ r.status # 200 /\ r.sent = NotSent /\ r.at = "done"
  BY ReturnedFresh
<1> HIDE DEF r
<1>3. ChatAt(r)
  BY <1>2 DEF ChatAt
<1>4. chats' \in [Chats -> ChatRec] /\ ChatInv'
  BY <1>1, <1>2, <1>3, OneChat
<1>5. limiter \in [Keys -> [started : SUBSET Chats, inflight : Nat]]
  BY DEF CompatTyped
<1>6. limiter' \in [Keys -> [started : SUBSET Chats, inflight : Nat]]
  <2>1. CASE ~chats[q].admitted
    BY <1>5, <2>1 DEF release
  <2>2. CASE chats[q].admitted
    <3>1. k \in Keys
      BY <2>2 DEF LimitInv, Stamped
    <3> DEFINE n == limiter[k].inflight
               inflight == IF n > 0 THEN n - 1 ELSE n
               s == limiter[k].started
               started == IF MaxPerMinute > 0 THEN Kept(s, compatNow) ELSE s
    <3>2. limiter' = [limiter EXCEPT ![k].inflight = inflight, ![k].started = started]
      BY <1>5, <2>2, <3>1 DEF release
    <3>3. n \in Nat /\ s \in SUBSET Chats
      BY <1>5, <3>1
    <3> HIDE DEF n, s
    <3>4. inflight \in Nat /\ started \in SUBSET Chats
      BY <3>3 DEF Kept
    <3> HIDE DEF inflight, started
    <3> QED
      BY <1>5, <3>1, <3>2, <3>4
  <2> QED
    BY <2>1, <2>2
<1> QED
  BY <1>1, <1>4, <1>6 DEF CompatTyped

\* Every step keeps the invariants.
LEMMA StepCompat ==
  CompatTyped /\ LimitInv /\ ChatInv /\ [CompatNext]_compatVars
    => CompatTyped' /\ LimitInv' /\ ChatInv'
<1> SUFFICES ASSUME CompatTyped, LimitInv, ChatInv, [CompatNext]_compatVars
             PROVE  CompatTyped' /\ LimitInv' /\ ChatInv'
  OBVIOUS
<1>1. CASE CompatTick
  BY <1>1, TickKeepsLimits, TickKeepsChats
<1>2. ASSUME NEW q \in Chats, Moves(q)
      PROVE  CompatTyped' /\ LimitInv' /\ ChatInv'
  BY <1>2, MoveKeepsLimits, MoveKeepsChats
<1>3. ASSUME NEW q \in Chats PROVE ChatAt(chats[q])
  BY DEF ChatInv
<1>4. ASSUME NEW q \in Chats, Arrive(q)
      PROVE  CompatTyped' /\ LimitInv' /\ ChatInv'
  BY <1>4, ArriveKeepsLimits, ArriveKeepsChats
<1>5. ASSUME NEW q \in Chats, AcquireRefused(q)
      PROVE  CompatTyped' /\ LimitInv' /\ ChatInv'
  BY <1>5, RefusedKeepsLimits, RefusedKeepsChats
<1>6. ASSUME NEW q \in Chats, Acquire(q)
      PROVE  CompatTyped' /\ LimitInv' /\ ChatInv'
  BY <1>6, AcquireKeepsLimits, AcquireKeepsChats
<1>7. ASSUME NEW q \in Chats, release(q)
      PROVE  CompatTyped' /\ LimitInv' /\ ChatInv'
  BY <1>7, ReleaseKeepsLimits, ReleaseKeepsChats
<1>8. ASSUME NEW q \in Chats, BadRequest(q) PROVE Moves(q)
  BY <1>3, <1>8, BadRequestMoves
<1>9. ASSUME NEW q \in Chats, Translate(q) PROVE Moves(q)
  BY <1>3, <1>9, TranslateMoves
<1>10. ASSUME NEW q \in Chats, RelayFails(q) PROVE Moves(q)
  BY <1>3, <1>10, RelayFailsMoves
<1>11. ASSUME NEW q \in Chats, RelayAnswers(q) PROVE Moves(q)
  BY <1>3, <1>11, RelayAnswersMoves
<1>12. ASSUME NEW q \in Chats, RelayStreams(q) PROVE Moves(q)
  BY <1>3, <1>12, RelayStreamsMoves
<1>13. ASSUME NEW q \in Chats, Write(q) PROVE Moves(q)
  BY <1>3, <1>13, WriteMoves
<1>14. ASSUME NEW q \in Chats, Cut(q) PROVE Moves(q)
  BY <1>3, <1>14, CutMoves
<1>15. ASSUME NEW q \in Chats, StreamEnds(q) PROVE Moves(q)
  BY <1>3, <1>15, StreamEndsMoves
<1>16. ASSUME NEW q \in Chats, finalize(q) PROVE Moves(q)
  BY <1>3, <1>16, finalizeMoves
<1>17. CASE UNCHANGED compatVars
  <2>1. compatNow' = compatNow /\ limiter' = limiter /\ chats' = chats
    BY <1>17 DEF compatVars
  <2>2. CompatTyped' /\ ChatInv'
    BY <2>1 DEF CompatTyped, ChatInv
  <2>3. LimitInv'
    BY <2>1 DEF LimitInv, Stamped, Listed, Counted, Rated, Running, Within, Mine
  <2> QED
    BY <2>2, <2>3
<1> QED
  BY <1>1, <1>2, <1>4, <1>5, <1>6, <1>7, <1>8, <1>9, <1>10, <1>11, <1>12, <1>13, <1>14, <1>15,
     <1>16, <1>17 DEF CompatNext

\* The limits follow.
LEMMA LimitsFollow == LimitInv => LimitsHold
  BY DEF LimitInv, LimitsHold, Counted, Rated, Running, Within, Mine

-----------------------------------------------------------------------------
(* What the invariants say of a client.                                    *)

\* What the frames of a client are, by their place.
LEMMA GotKinds ==
  ASSUME NEW c \in ChatRec, NEW p \in {1, 2}, NEW m \in 0 .. p + N + 1, Told(c, p, m)
  PROVE  /\ DOMAIN c.got = 1 .. Len(c.got) /\ Len(c.got) \in Nat
         /\ \A i \in DOMAIN c.got :
              /\ c.got[i] = "role" <=> i = 1 /\ i <= m
              /\ c.got[i] \in AnswerTexts <=> i > p /\ i <= m /\ i <= p + N
              /\ c.got[i] \in Finishes <=> i = p + N + 1 /\ i <= m
              /\ c.got[i] = "[DONE]" <=> i = m + 1
<1>1. c.got \in Seq(Frames)
  BY ChatFields
<1>2. DOMAIN c.got = 1 .. Len(c.got) /\ Len(c.got) \in Nat
  BY <1>1
<1>3. PICK f \in Finishes : \A i \in 1 .. m : c.got[i] = Frame(p, f, i)
  BY DEF Told
<1>4. Len(c.got) = m + (IF c.doneSent THEN 1 ELSE 0) /\ (c.doneSent => c.got[m + 1] = "[DONE]")
  BY DEF Told
<1>5. N \in Nat /\ N >= 1
  BY SomeText
<1>6. \A t \in AnswerTexts : t \notin {"role", "ping", "[DONE]"} /\ t \notin Finishes
  <2>1. \A i \in DOMAIN Answer : i \in 1 .. N
    BY SomeText
  <2> QED
    BY <2>1, TextIsText DEF AnswerTexts
<1>7. \A t \in Finishes : t \notin {"role", "ping", "[DONE]"} /\ t \notin AnswerTexts
  BY <1>6 DEF Finishes
<1>8. ASSUME NEW i \in DOMAIN c.got
      PROVE  /\ c.got[i] = "role" <=> i = 1 /\ i <= m
             /\ c.got[i] \in AnswerTexts <=> i > p /\ i <= m /\ i <= p + N
             /\ c.got[i] \in Finishes <=> i = p + N + 1 /\ i <= m
             /\ c.got[i] = "[DONE]" <=> i = m + 1
  <2> DEFINE x == c.got[i]
  <2>1. i \in 1 .. Len(c.got)
    BY <1>2
  <2>2. i \in Nat /\ i >= 1 /\ (i <= m \/ (i = m + 1 /\ x = "[DONE]"))
    BY <1>4, <2>1
  <2>3. CASE i = m + 1 /\ x = "[DONE]"
    <3>1. x # "role" /\ x \notin AnswerTexts /\ x \notin Finishes
      BY <1>6, <2>3 DEF Finishes
    <3>2. ~(i <= m)
      BY <2>3
    <3> HIDE DEF x
    <3> QED
      BY <2>3, <3>1, <3>2 DEF x
  <2>4. CASE i <= m
    <3>1. i \in 1 .. m
      BY <2>2, <2>4
    <3>2. x = Frame(p, f, i) /\ i # m + 1
      BY <1>3, <3>1
    <3>3. CASE i = 1
      <4>1. x = "role"
        BY <3>2, <3>3 DEF Frame
      <4>2. x # "[DONE]" /\ x \notin AnswerTexts /\ x \notin Finishes
        BY <1>6, <4>1 DEF Finishes
      <4>3. ~(i > p) /\ i # p + N + 1
        BY <1>5, <3>3
      <4> HIDE DEF x
      <4> QED
        BY <2>4, <3>2, <3>3, <4>1, <4>2, <4>3 DEF x
    <3>4. CASE i # 1 /\ i <= p
      <4>1. x = "ping"
        BY <3>2, <3>4 DEF Frame
      <4>2. x # "[DONE]" /\ x # "role" /\ x \notin AnswerTexts /\ x \notin Finishes
        BY <1>6, <4>1 DEF Finishes
      <4>3. ~(i > p) /\ i # p + N + 1
        BY <1>5, <2>2, <3>4
      <4> HIDE DEF x
      <4> QED
        BY <2>4, <3>2, <3>4, <4>2, <4>3 DEF x
    <3>5. CASE i > p /\ i <= p + N
      <4>1. i # 1 /\ i # p + N + 1 /\ ~(i <= p) /\ i - p \in 1 .. N
        BY <1>5, <2>2, <3>5
      <4>2. x = Answer[i - p]
        BY <3>2, <3>5, <4>1 DEF Frame
      <4>3. x \in AnswerTexts
        BY <4>1, <4>2, TextIsText
      <4>4. x # "[DONE]" /\ x # "role" /\ x \notin Finishes
        BY <1>6, <4>3
      <4> HIDE DEF x
      <4> QED
        BY <2>4, <3>2, <3>5, <4>1, <4>3, <4>4 DEF x
    <3>6. CASE i > p + N
      <4>1. i = p + N + 1 /\ i # 1 /\ ~(i <= p) /\ ~(i <= p + N)
        BY <1>5, <2>2, <2>4, <3>6
      <4>2. x = f
        BY <3>2, <4>1 DEF Frame
      <4>3. x # "[DONE]" /\ x # "role" /\ x \in Finishes /\ x \notin AnswerTexts
        BY <1>7, <4>2
      <4> HIDE DEF x
      <4> QED
        BY <2>4, <3>2, <4>1, <4>3 DEF x
    <3> QED
      BY <1>5, <2>2, <3>3, <3>4, <3>5, <3>6
  <2> QED
    BY <2>2, <2>3, <2>4
<1> QED
  BY <1>2, <1>8

\* What a client may have got, at any time.
GotRight(c) ==
  /\ \A i \in DOMAIN c.got : c.got[i] = "role" => \A j \in 1 .. i - 1 : c.got[j] = "ping"
  /\ TextsOf(c) # <<>> => Count(c, {"role"}) = 1
  /\ TextsOf(c) = SubSeq(Answer, 1, Len(TextsOf(c)))
  /\ Count(c, {"[DONE]"}) <= 1 /\ Count(c, Finishes) <= 1
  /\ Count(c, {"[DONE]"}) = 1 => LastFrame(c) = "[DONE]"

\* None of the answer.
LEMMA NoTexts == SubSeq(Answer, 1, 0) = <<>>
<1>1. Answer \in Seq(STRING)
  BY CompatAssumption
<1>2. SubSeq(Answer, 1, 0) \in Seq(STRING) /\ Len(SubSeq(Answer, 1, 0)) = 0
  BY <1>1
<1> QED
  BY <1>2

\* The texts of a client that has m frames.
LEMMA TextsTold ==
  ASSUME NEW c \in ChatRec, NEW p \in {1, 2}, NEW m \in 0 .. p + N + 1, Told(c, p, m)
  PROVE  \E n \in 0 .. N : /\ TextsOf(c) = SubSeq(Answer, 1, n) /\ Len(TextsOf(c)) = n
                           /\ TextsOf(c) = [k \in 1 .. n |-> Answer[k]]
                           /\ n > 0 => m > p
                           /\ m = p + N + 1 => n = N
<1> DEFINE n == IF m <= p THEN 0 ELSE IF m <= p + N THEN m - p ELSE N
           S == {i \in DOMAIN c.got : c.got[i] \in AnswerTexts}
<1>1. N \in Nat /\ N >= 1 /\ DOMAIN Answer = 1 .. N
  BY SomeText
<1>2. n \in 0 .. N /\ n \in Nat /\ (n > 0 => m > p) /\ (m = p + N + 1 => n = N) /\ p \in Nat
  BY <1>1
<1>3. DOMAIN c.got = 1 .. Len(c.got) /\ Len(c.got) \in Nat /\ m <= Len(c.got)
  <2>1. DOMAIN c.got = 1 .. Len(c.got) /\ Len(c.got) \in Nat
    BY GotKinds
  <2>2. Len(c.got) = m + IF c.doneSent THEN 1 ELSE 0
    BY DEF Told
  <2> QED
    BY <2>1, <2>2
<1>4. \A i \in DOMAIN c.got : c.got[i] \in AnswerTexts <=> i > p /\ i <= m /\ i <= p + N
  BY GotKinds
<1>5. \A i \in Nat : i > p /\ i <= m /\ i <= p + N <=> i >= p + 1 /\ i <= p + n
  BY <1>1, <1>2
<1>6. S = p + 1 .. p + n
  <2>1. ASSUME NEW i \in S PROVE i \in p + 1 .. p + n
    BY <1>2, <1>3, <1>4, <1>5
  <2>2. ASSUME NEW i \in p + 1 .. p + n PROVE i \in S
    <3>1. i \in Nat /\ i >= 1 /\ i <= m /\ i > p /\ i <= p + N
      BY <1>2, <1>5
    <3>2. i \in DOMAIN c.got
      BY <1>3, <3>1
    <3> QED
      BY <1>4, <3>1, <3>2
  <2> HIDE DEF S, n
  <2> QED
    BY <2>1, <2>2
<1>7. TextsOf(c) = Picked(c.got, S)
  BY DEF TextsOf, AnswerTexts
<1> HIDE DEF S
<1>8. TextsOf(c) = [k \in 1 .. n |-> c.got[p + k]]
  <2> HIDE DEF n
  <2>1. p \in Nat /\ n \in Nat
    BY <1>2
  <2>2. \A s : Picked(s, p + 1 .. p + n) = [k \in 1 .. n |-> s[p + k]]
    BY <2>1, PickedInterval, Zenon
  <2> QED
    BY <1>6, <1>7, <2>2
<1>9. PICK f \in Finishes : \A i \in 1 .. m : c.got[i] = Frame(p, f, i)
  BY DEF Told
<1>10. ASSUME NEW k \in 1 .. n PROVE c.got[p + k] = Answer[k]
  <2>1. p + k \in 1 .. m /\ p + k # 1 /\ ~(p + k <= p) /\ p + k <= p + N /\ p + k - p = k
    BY <1>1, <1>2
  <2>2. c.got[p + k] = Frame(p, f, p + k)
    BY <1>9, <2>1
  <2> QED
    BY <2>1, <2>2 DEF Frame
<1>11. TextsOf(c) = [k \in 1 .. n |-> Answer[k]]
  <2> HIDE DEF n
  <2> QED
    BY <1>8, <1>10
<1> HIDE DEF n
<1>12. SubSeq(Answer, 1, n) = [k \in 1 .. n |-> Answer[k]] /\ Len(SubSeq(Answer, 1, n)) = n
  <2>1. Answer \in Seq(STRING) /\ Len(Answer) = N
    BY CompatAssumption DEF N
  <2>2. \A k \in 1 .. n : Answer[k] \in STRING
    BY <1>1, <1>2, <2>1
  <2>3. SubSeq(Answer, 1, n) \in Seq(STRING) /\ Len(SubSeq(Answer, 1, n)) = n
        /\ \A k \in 1 .. n : SubSeq(Answer, 1, n)[k] = Answer[k]
    BY <1>1, <1>2, <2>1
  <2> QED
    BY <2>3
<1> QED
  BY <1>2, <1>11, <1>12

\* How often a frame occurs that has at most one place.
LEMMA CountOne ==
  ASSUME NEW c, NEW frames, NEW i,
         \A j \in DOMAIN c.got : c.got[j] \in frames => j = i
  PROVE  /\ Count(c, frames) <= 1
         /\ i \in DOMAIN c.got /\ c.got[i] \in frames => Count(c, frames) = 1
         /\ Count(c, frames) = 1 => i \in DOMAIN c.got /\ c.got[i] \in frames
<1> DEFINE S == {j \in DOMAIN c.got : c.got[j] \in frames}
<1>1. S = {} \/ S = {i}
  OBVIOUS
<1>2. Cardinality({}) = 0 /\ Cardinality({i}) = 1
  BY FS_EmptySet, FS_Singleton
<1>3. i \in S <=> i \in DOMAIN c.got /\ c.got[i] \in frames
  OBVIOUS
<1>4. Count(c, frames) = Cardinality(S)
  BY DEF Count
<1> HIDE DEF S
<1>5. CASE S = {}
  BY <1>2, <1>3, <1>4, <1>5
<1>6. CASE S = {i}
  BY <1>2, <1>3, <1>4, <1>6
<1> QED
  BY <1>1, <1>5, <1>6

\* What was told is right, and complete when all of it was.
LEMMA ToldRight ==
  ASSUME NEW c \in ChatRec, NEW p \in {1, 2}, NEW m \in 0 .. p + N + 1, Told(c, p, m)
  PROVE  /\ GotRight(c)
         /\ c.doneSent => LastFrame(c) = "[DONE]"
         /\ m = p + N + 1 => TextsOf(c) = Answer /\ Count(c, Finishes) = 1
<1>1. DOMAIN c.got = 1 .. Len(c.got) /\ Len(c.got) \in Nat
  BY GotKinds
<1>2. ASSUME NEW i \in DOMAIN c.got
      PROVE  /\ c.got[i] = "role" <=> i = 1 /\ i <= m
             /\ c.got[i] \in Finishes <=> i = p + N + 1 /\ i <= m
             /\ c.got[i] = "[DONE]" <=> i = m + 1
  BY GotKinds
<1>3. Len(c.got) = m + (IF c.doneSent THEN 1 ELSE 0) /\ m \in Nat
  BY SomeText DEF Told
<1>4. N \in Nat /\ N >= 1
  BY SomeText
<1>5. \A i \in DOMAIN c.got : c.got[i] = "role" => \A j \in 1 .. i - 1 : c.got[j] = "ping"
  <2> SUFFICES ASSUME NEW i \in DOMAIN c.got, c.got[i] = "role", NEW j \in 1 .. i - 1
               PROVE  FALSE
    OBVIOUS
  <2>1. i = 1
    BY <1>2
  <2> QED
    BY <2>1
<1>6. /\ Count(c, Finishes) <= 1
      /\ m = p + N + 1 => Count(c, Finishes) = 1
  <2>1. \A j \in DOMAIN c.got : c.got[j] \in Finishes => j = p + N + 1
    BY <1>2
  <2>2. m = p + N + 1 => p + N + 1 \in DOMAIN c.got
    BY <1>1, <1>3, <1>4
  <2>3. m = p + N + 1 => c.got[p + N + 1] \in Finishes
    <3> SUFFICES ASSUME m = p + N + 1 PROVE c.got[m] \in Finishes
      OBVIOUS
    <3>1. m \in DOMAIN c.got /\ m <= m
      BY <1>3, <2>2
    <3> QED
      BY <1>2, <3>1
  <2> DEFINE i == p + N + 1
  <2> HIDE DEF i
  <2>4. \A j \in DOMAIN c.got : c.got[j] \in Finishes => j = i
    BY <2>1 DEF i
  <2>5. /\ Count(c, Finishes) <= 1
        /\ i \in DOMAIN c.got /\ c.got[i] \in Finishes => Count(c, Finishes) = 1
    BY <2>4, CountOne
  <2> QED
    BY <2>2, <2>3, <2>5 DEF i
<1>7. /\ Count(c, {"[DONE]"}) <= 1
      /\ Count(c, {"[DONE]"}) = 1 => LastFrame(c) = "[DONE]"
      /\ c.doneSent => LastFrame(c) = "[DONE]"
  <2> DEFINE i == m + 1
             frames == {"[DONE]"}
  <2>1. \A j \in DOMAIN c.got : c.got[j] \in frames => j = i
    BY <1>2
  <2>2. i \in DOMAIN c.got => i = Len(c.got) /\ c.got # <<>>
    BY <1>1, <1>3
  <2>3. c.doneSent => i \in DOMAIN c.got
    BY <1>1, <1>3
  <2>4. i \in DOMAIN c.got => c.got[i] = "[DONE]"
    BY <1>2
  <2> HIDE DEF i
  <2>5. i \in DOMAIN c.got => LastFrame(c) = "[DONE]"
    BY <2>2, <2>4 DEF LastFrame
  <2> HIDE DEF frames
  <2>6. Count(c, frames) <= 1 /\ (Count(c, frames) = 1 => i \in DOMAIN c.got)
    BY <2>1, CountOne
  <2> QED
    BY <2>3, <2>5, <2>6 DEF frames
<1>8. m >= 1 => Count(c, {"role"}) = 1
  <2> DEFINE i == 1
             frames == {"role"}
  <2>1. \A j \in DOMAIN c.got : c.got[j] \in frames => j = i
    BY <1>2
  <2>2. m >= 1 => i \in DOMAIN c.got
    BY <1>1, <1>3
  <2>3. m >= 1 => c.got[i] \in frames
    BY <1>2, <2>2
  <2> HIDE DEF i, frames
  <2>4. i \in DOMAIN c.got /\ c.got[i] \in frames => Count(c, frames) = 1
    BY <2>1, CountOne
  <2> QED
    BY <2>2, <2>3, <2>4 DEF frames
<1>9. PICK n \in 0 .. N : /\ TextsOf(c) = SubSeq(Answer, 1, n) /\ Len(TextsOf(c)) = n
                          /\ TextsOf(c) = [k \in 1 .. n |-> Answer[k]]
                          /\ n > 0 => m > p
                          /\ m = p + N + 1 => n = N
  BY TextsTold
<1>10. TextsOf(c) = SubSeq(Answer, 1, Len(TextsOf(c)))
  BY <1>9
<1>11. TextsOf(c) # <<>> => m >= 1
  <2>1. n = 0 => TextsOf(c) = <<>>
    <3>1. SubSeq(Answer, 1, 0) = <<>>
      BY NoTexts
    <3> QED
      BY <1>9, <3>1
  <2>2. n > 0 => m >= 1
    BY <1>3, <1>9
  <2> QED
    BY <1>4, <2>1, <2>2
<1>12. m = p + N + 1 => TextsOf(c) = Answer
  <2>1. Answer = [k \in 1 .. N |-> Answer[k]]
    <3>1. Answer \in Seq(STRING)
      BY CompatAssumption
    <3> QED
      BY <3>1 DEF N
  <2> QED
    BY <1>9, <2>1
<1>13. GotRight(c)
  BY <1>5, <1>6, <1>7, <1>8, <1>10, <1>11 DEF GotRight
<1> QED
  BY <1>6, <1>7, <1>12, <1>13

\* A client that got nothing.
LEMMA SilentRight ==
  ASSUME NEW c, c.got = <<>> PROVE GotRight(c)
<1>1. DOMAIN c.got = {}
  OBVIOUS
<1>2. \A frames : Count(c, frames) = 0
  BY <1>1, FS_EmptySet DEF Count
<1>3. TextsOf(c) = <<>> /\ Len(<<>>) = 0
  <2>1. {i \in DOMAIN c.got : c.got[i] \in {Answer[j] : j \in DOMAIN Answer}} = {}
    BY <1>1
  <2>2. TextsOf(c) = [n \in 1 .. 0 |-> c.got[CHOOSE i \in {} : Cardinality({j \in {} : j <= i}) = n]]
    BY <2>1, FS_EmptySet DEF TextsOf, Picked
  <2> QED
    BY <2>2
<1>4. SubSeq(Answer, 1, 0) = <<>>
  BY NoTexts
<1> QED
  BY <1>1, <1>2, <1>3, <1>4 DEF GotRight

\* Whatever was told is right.
LEMMA SomeToldRight ==
  ASSUME NEW c \in ChatRec, \E p \in {1, 2} : \E m \in 0 .. p + N + 1 : Told(c, p, m)
  PROVE  GotRight(c)
  BY ToldRight

\* At any time of its handler a client has got what is right.
LEMMA ChatRight == ASSUME NEW c \in ChatRec, ChatAt(c) PROVE GotRight(c)
<1>1. ASSUME Silent(c) PROVE GotRight(c)
  BY <1>1, SilentRight DEF Silent
<1>2. ASSUME NEW ended, Halted(c, ended) PROVE GotRight(c)
  BY <1>2, SomeToldRight DEF Halted
<1>3. ASSUME Streaming(c) PROVE GotRight(c)
  <2>1. ASSUME NEW m, Told(c, 1, m) PROVE GotRight(c)
    <3>1. m \in 0 .. 1 + N + 1
      BY <2>1 DEF Told
    <3> QED
      BY <2>1, <3>1, SomeToldRight
  <2>2. ASSUME NEW m, Told(c, 2, m) PROVE GotRight(c)
    <3>1. m \in 0 .. 2 + N + 1
      BY <2>2 DEF Told
    <3> QED
      BY <2>2, <3>1, SomeToldRight
  <2>3. CASE c.downstreamErr
    <3>1. Failed(c)
      BY <1>3, <2>3 DEF Streaming
    <3> QED
      BY <3>1, SomeToldRight DEF Failed
  <2>4. CASE ~c.downstreamErr
    <3>1. (\E k : ClaudeSaid(c, k)) \/ (\E n, k : GeminiSaid(c, n, k))
      BY <1>3, <2>4 DEF Streaming, ClaudeAt, GeminiAt
    <3>2. ASSUME NEW k, ClaudeSaid(c, k) PROVE GotRight(c)
      BY <2>2, <3>2 DEF ClaudeSaid
    <3>3. ASSUME NEW n, NEW k, GeminiSaid(c, n, k) PROVE GotRight(c)
      BY <2>1, <3>3 DEF GeminiSaid
    <3> QED
      BY <3>1, <3>2, <3>3
  <2> QED
    BY <2>3, <2>4
<1>4. ASSUME Told(c, 1, N + 2) PROVE GotRight(c)
  <2>1. N + 2 \in 0 .. 1 + N + 1
    BY <1>4 DEF Told
  <2> QED
    BY <1>4, <2>1, SomeToldRight
<1>5. ASSUME Ended(c) PROVE GotRight(c)
  BY <1>2, <1>5 DEF Ended
<1>6. c.at \in Places
  BY DEF ChatRec
<1>7. CASE c.at = "return"
  <2>1. Silent(c) \/ Told(c, 1, N + 2) \/ c.got = <<>> \/ Ended(c)
    BY <1>7 DEF ChatAt, Answered
  <2> QED
    BY <1>1, <1>4, <1>5, <2>1, SilentRight
<1>8. CASE c.at # "return"
  <2>1. Silent(c) \/ Streaming(c) \/ Ended(c)
    BY <1>6, <1>8 DEF ChatAt, Places
  <2> QED
    BY <1>1, <1>3, <1>5, <2>1
<1> QED
  BY <1>7, <1>8

\* The whole answer.
Whole(c) ==
  /\ TextsOf(c) = Answer /\ Count(c, Finishes) = 1
  /\ c.stream => LastFrame(c) = "[DONE]"

\* What a client has, and what is logged, when its handler has answered.
Logged(c) ==
  /\ c.status # 200 => c.got = <<>>
  /\ c.stream /\ c.status = 200 /\ ~c.downstreamErr => LastFrame(c) = "[DONE]"
  /\ c.status = 200 /\ (c.stream => c.ended = "whole") /\ ~c.downstreamErr =>
       c.outcome = "ok"
  /\ c.outcome = "ok" => \/ Whole(c)
                         \/ c.stream /\ c.status # 200
                         \/ ~c.stream /\ c.status = 200 /\ c.downstreamErr
                         \/ c.ended = "bare"

\* A handler that has answered leaves the client and the log so.
LEMMA ReturnRight ==
  ASSUME NEW c \in ChatRec, ChatAt(c), c.at = "return"
  PROVE  Logged(c)
<1>1. CASE Silent(c) /\ c.status # 200 /\ (c.outcome = "ok" => c.stream)
  BY <1>1 DEF Silent, Logged
<1>2. CASE Answered(c)
  <2>1. CASE Told(c, 1, N + 2)
    <3>1. N + 2 \in 0 .. 1 + N + 1
      BY <2>1 DEF Told
    <3>2. N + 2 = 1 + N + 1
      BY SomeText
    <3>3. TextsOf(c) = Answer /\ Count(c, Finishes) = 1
      BY <2>1, <3>1, <3>2, ToldRight
    <3>4. Whole(c)
      BY <1>2, <3>3 DEF Whole, Answered
    <3> QED
      BY <1>2, <3>4 DEF Answered, Logged
  <2>2. CASE c.downstreamErr
    BY <1>2, <2>2 DEF Answered, Logged
  <2> QED
    BY <1>2, <2>1, <2>2 DEF Answered
<1>3. CASE /\ Ended(c) /\ (c.downstreamErr \/ c.doneSent)
           /\ c.outcome = IF completed(c) THEN "ok" ELSE "error"
  <2>1. PICK p \in {1, 2} : \E m \in 0 .. p + N + 1 :
       /\ Told(c, p, m)
       /\ c.terminalSignalSeen /\ ~c.downstreamErr => m = p + N + 1 \/ c.ended = "bare"
    BY <1>3 DEF Ended, Halted
  <2>2. PICK m \in 0 .. p + N + 1 :
       /\ Told(c, p, m)
       /\ c.terminalSignalSeen /\ ~c.downstreamErr => m = p + N + 1 \/ c.ended = "bare"
    BY <2>1
  <2>3. /\ c.doneSent => LastFrame(c) = "[DONE]"
        /\ m = p + N + 1 => TextsOf(c) = Answer /\ Count(c, Finishes) = 1
    BY <2>2, ToldRight
  <2>4. c.downstreamErr \/ LastFrame(c) = "[DONE]"
    BY <1>3, <2>3
  <2>5. c.outcome = "ok" <=> completed(c)
    BY <1>3
  <2>6. ASSUME c.outcome = "ok", c.ended # "bare" PROVE Whole(c)
    <3>1. ~c.downstreamErr /\ c.terminalSignalSeen /\ c.doneSent
      BY <2>5, <2>6 DEF completed
    <3>2. m = p + N + 1
      BY <2>2, <2>6, <3>1
    <3> QED
      BY <2>3, <3>1, <3>2 DEF Whole
  <2>7. ASSUME c.ended = "whole", ~c.downstreamErr PROVE c.outcome = "ok"
    <3>1. c.terminalSignalSeen
      BY <1>3, <2>7 DEF Ended
    <3>2. completed(c)
      BY <1>3, <2>7, <3>1 DEF completed
    <3> QED
      BY <2>5, <3>2
  <2>8. c.stream /\ c.status = 200
    BY <1>3 DEF Ended
  <2> QED
    BY <2>4, <2>6, <2>7, <2>8 DEF Logged
<1> QED
  BY <1>1, <1>2, <1>3 DEF ChatAt

\* What the writers promise follows.
LEMMA FaithfulFollows == CompatTyped /\ ChatInv => ChatFaithful
<1> SUFFICES ASSUME CompatTyped, ChatInv PROVE ChatFaithful
  OBVIOUS
<1>1. ASSUME NEW q \in Chats
      PROVE  /\ GotRight(chats[q])
             /\ chats[q].at = "return" => Logged(chats[q])
             /\ chats[q].sent # NotSent => SentRight(chats[q])
  <2> DEFINE c == chats[q]
  <2>1. c \in ChatRec /\ ChatAt(c)
    BY DEF CompatTyped, ChatInv
  <2> HIDE DEF c
  <2>2. c.sent # NotSent => SentRight(c)
    BY <2>1 DEF ChatAt
  <2>3. GotRight(c)
    BY <2>1, ChatRight
  <2>4. c.at = "return" => Logged(c)
    BY <2>1, ReturnRight
  <2> QED
    BY <2>2, <2>3, <2>4 DEF c
<1> QED
  BY <1>1 DEF ChatFaithful, GotRight, Logged, Whole, SentRight

\* The types follow.
LEMMA TypesFollow == CompatTyped => CompatTypeOK
<1> SUFFICES ASSUME CompatTyped PROVE CompatTypeOK
  OBVIOUS
<1>1. ASSUME NEW q \in Chats PROVE chats[q].at \in Places /\ chats[q].outcome \in {"", "ok", "error"}
  <2>1. chats[q] \in ChatRec
    BY DEF CompatTyped
  <2> QED
    BY <2>1 DEF ChatRec
<1>2. ASSUME NEW k \in Keys PROVE limiter[k].inflight \in Nat /\ limiter[k].started \subseteq Chats
  BY DEF CompatTyped
<1> QED
  BY <1>1, <1>2 DEF CompatTyped, CompatTypeOK, Places

-----------------------------------------------------------------------------
(* The theorems.                                                           *)

\* The invariants hold together.
LEMMA CompatInvariants == CompatSpec => [](CompatTyped /\ LimitInv /\ ChatInv)
  BY InitCompat, StepCompat, PTL DEF CompatSpec

\* The handler's place, the outcome it logs and the limiter's counters have their types.
THEOREM CompatTypesCorrect == CompatSpec => []CompatTypeOK
  BY CompatInvariants, TypesFollow, PTL

\* compatLimiter, for any number of keys, requests and clock readings: the counter of a key is
\* the number of its requests that run, within CompatMaxConcurrent, and no minute has more than
\* CompatMaxPerMinute admissions.
THEOREM LimitsCorrect == CompatSpec => []LimitsHold
  BY CompatInvariants, LimitsFollow, PTL

\* The stream writers and the translation, for any answer of the provider, any requests, any
\* place where the stream is cut and any write that fails: the client gets a prefix of the
\* answer, [DONE] once and last and nothing of it under an error status; a success is logged
\* when nothing failed, and otherwise only for a stream answered with an error status, a JSON
\* answer whose write failed and Gemini's stream cut behind "data: "; and what goes upstream
\* has every message.
THEOREM ChatsFaithful == CompatSpec => []ChatFaithful
  BY CompatInvariants, FaithfulFollows, PTL

=============================================================================
