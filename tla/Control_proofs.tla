--------------------------- MODULE Control_proofs ---------------------------
(***************************************************************************)
(* What a bucket keeps of its provider's answers, for any number of        *)
(* requests that overlap and any headers: a reading is lost only to a      *)
(* request leased before it (ReadingsKept), and the cooldown computed from *)
(* the state is exactly the time nothing can be served                     *)
(* (ExhaustedUntilServable).  At the end the parts are put together: every *)
(* invariant checked of the composition holds of it, for any constants.    *)
(***************************************************************************)
EXTENDS MCControl, EgressCells_proofs, CompatSurface_proofs, FiniteSetTheorems, TLAPS

Windows == [util : 0 .. 100, reset : Nat]
ClaudeStates == [five : Windows, seven : Windows, opus : Nat]
CodexFamilies == [primary : Windows, secondary : Windows]
GeminiStates == [project : {"", "p"}, fraction : {0, 1}, reset : Nat, updated : Nat]

\* A state of the bucket's provider.
StateOK(s) ==
  /\ prov = "claude" => s \in ClaudeStates
  /\ prov = "codex" => DOMAIN s \subseteq Families /\ \A f \in DOMAIN s : s[f] \in CodexFamilies
  /\ prov = "gemini" => s \in GeminiStates

\* The values, and what a reading counts: no reading and no lease is from an answer to
\* come.
QuotaInv ==
  /\ qNow \in Nat /\ answers \in Nat
  /\ prov \in {"claude", "codex", "gemini"}
  /\ StateOK(quota)
  /\ DOMAIN req = Reqs
  /\ \A r \in Reqs : req[r] # NotLeased =>
       req[r].leased \in Nat /\ req[r].leased <= answers /\ StateOK(req[r].prev)
  /\ \A k \in DOMAIN told : told[k].at \in Nat /\ told[k].at <= answers
  /\ prov = "claude" => \A k \in DOMAIN told : k = "opus" /\ told[k].value \in Nat
  /\ prov = "gemini" => DOMAIN told \subseteq {"project", "quota"}

\* State s of provider p has, at time t, the reading v of k.
Says(p, t, s, k, v) ==
  CASE p = "claude" -> t < v => s.opus = v
    [] p = "codex"  -> k \in DOMAIN s /\ s[k] = v
    [] p = "gemini" -> IF k = "project" THEN s.project = "p"
                       ELSE <<s.fraction, s.reset>> = v

\* The bucket has every reading that is not lost, and so has the copy a request took
\* after the reading was told.
KeepInv ==
  \A k \in DOMAIN told \ lost :
    /\ Says(prov, qNow, quota, k, told[k].value)
    /\ \A r \in Reqs : req[r] # NotLeased /\ told[k].at <= req[r].leased =>
         Says(prov, qNow, req[r].prev, k, told[k].value)

\* pool.Observe with a state that has the readings of the answer and carries over the
\* others from the copy the request took.
LEMMA ObserveKeeps ==
  ASSUME QuotaInv, KeepInv, NEW r \in Reqs, req[r] # NotLeased, NEW state, NEW readings,
         Observe(r, state, readings), StateOK(state),
         \A k \in DOMAIN readings : Says(prov, qNow, state, k, readings[k]),
         \A k \in DOMAIN told \ DOMAIN readings :
           Says(prov, qNow, req[r].prev, k, told[k].value) => Says(prov, qNow, state, k, told[k].value),
         prov = "claude" => \A k \in DOMAIN readings : k = "opus" /\ readings[k] \in Nat,
         prov = "gemini" => DOMAIN readings \subseteq {"project", "quota"}
  PROVE  QuotaInv' /\ KeepInv'
<1>1. /\ quota' = state /\ answers' = answers + 1 /\ UNCHANGED <<qNow, prov>>
      /\ req' = [req EXCEPT ![r] = NotLeased]
  BY DEF Observe
<1>2. told' = [k \in DOMAIN told \cup DOMAIN readings |->
        IF k \in DOMAIN readings THEN [value |-> readings[k], at |-> answers'] ELSE told[k]]
  BY DEF Observe
<1>3. lost' = {k \in DOMAIN told \ DOMAIN readings : k \in lost \/ told[k].at > req[r].leased}
  BY DEF Observe
<1>4. \A k \in DOMAIN readings : k \in DOMAIN told' /\ told'[k].value = readings[k]
                                 /\ told'[k].at = answers + 1
  BY <1>1, <1>2
<1>5. \A k \in DOMAIN told \ DOMAIN readings : k \in DOMAIN told' /\ told'[k] = told[k]
  BY <1>2
<1>6. DOMAIN told' = DOMAIN told \cup DOMAIN readings
  BY <1>2
<1>7. \A q \in Reqs : req'[q] # NotLeased => q # r /\ req[q] # NotLeased /\ req'[q] = req[q]
  BY <1>1 DEF QuotaInv
<1>8. DOMAIN req' = Reqs
  BY <1>1 DEF QuotaInv
<1>9. QuotaInv'
  <2>1. qNow' \in Nat /\ answers' \in Nat /\ answers <= answers' /\ prov' \in {"claude", "codex", "gemini"}
    BY <1>1 DEF QuotaInv
  <2>2. StateOK(quota)'
    BY <1>1 DEF StateOK
  <2>3. \A q \in Reqs : req'[q] # NotLeased =>
          /\ req'[q].leased \in Nat /\ req'[q].leased <= answers'
          /\ StateOK(req'[q].prev)
    BY <1>1, <1>7 DEF QuotaInv
  <2>4. \A q \in Reqs : req'[q] # NotLeased => StateOK(req[q].prev)'
    BY <1>1, <2>3 DEF StateOK
  <2>5. \A k \in DOMAIN told' : told'[k].at \in Nat /\ told'[k].at <= answers'
    BY <1>1, <1>4, <1>5, <1>6 DEF QuotaInv
  <2>6. prov' = "claude" => \A k \in DOMAIN told' : k = "opus" /\ told'[k].value \in Nat
    BY <1>1, <1>4, <1>5, <1>6 DEF QuotaInv
  <2>7. prov' = "gemini" => DOMAIN told' \subseteq {"project", "quota"}
    BY <1>1, <1>6 DEF QuotaInv
  <2> QED
    BY <1>8, <2>1, <2>2, <2>3, <2>4, <2>5, <2>6, <2>7 DEF QuotaInv
<1>10. ASSUME NEW k \in DOMAIN told' \ lost'
       PROVE  /\ Says(prov, qNow, state, k, told'[k].value)
              /\ \A q \in Reqs : req'[q] # NotLeased /\ told'[k].at <= req'[q].leased =>
                   Says(prov, qNow, req[q].prev, k, told'[k].value)
  <2>1. CASE k \in DOMAIN readings
    <3>1. \A q \in Reqs : req'[q] # NotLeased => ~(told'[k].at <= req'[q].leased)
      BY <1>4, <1>7, <2>1 DEF QuotaInv
    <3> QED
      BY <1>4, <2>1, <3>1
  <2>2. CASE k \notin DOMAIN readings
    <3>1. k \in DOMAIN told \ lost /\ told'[k] = told[k] /\ ~(told[k].at > req[r].leased)
      BY <1>3, <1>5, <1>6, <1>10, <2>2
    <3>2. told[k].at <= req[r].leased
      BY <3>1 DEF QuotaInv
    <3>3. Says(prov, qNow, req[r].prev, k, told[k].value)
      BY <3>1, <3>2 DEF KeepInv
    <3>4. \A q \in Reqs : req'[q] # NotLeased /\ told[k].at <= req'[q].leased =>
            Says(prov, qNow, req[q].prev, k, told[k].value)
      BY <1>7, <3>1 DEF KeepInv
    <3> QED
      BY <2>2, <3>1, <3>3, <3>4
  <2> QED
    BY <2>1, <2>2
<1>11. ASSUME NEW k \in DOMAIN told' \ lost' PROVE Says(prov, qNow, quota, k, told[k].value)'
  <2>1. Says(prov, qNow, state, k, told'[k].value)
    BY <1>10
  <2> QED
    BY <1>1, <2>1 DEF Says
<1>12. ASSUME NEW k \in DOMAIN told' \ lost', NEW q \in Reqs,
              req'[q] # NotLeased, told'[k].at <= req'[q].leased
       PROVE  Says(prov, qNow, req[q].prev, k, told[k].value)'
  <2>1. Says(prov, qNow, req[q].prev, k, told'[k].value) /\ req'[q] = req[q]
    BY <1>7, <1>10, <1>12
  <2> QED
    BY <1>1, <2>1 DEF Says
<1>13. KeepInv'
  BY <1>11, <1>12 DEF KeepInv, NotLeased
<1> QED
  BY <1>9, <1>13

\* A window made from a header is one.
LEMMA WindowType ==
  ASSUME qNow \in Nat, NEW h \in [util : 0 .. 100, after : Nat]
  PROVE  Window(h) \in Windows
BY DEF Window, Windows

\* An answer of Claude carries the Opus cooldown over as long as it runs.
LEMMA ClaudeKeeps ==
  ASSUME QuotaInv, KeepInv, NEW r \in Reqs, ClaudeAnswers(r)
  PROVE  QuotaInv' /\ KeepInv'
<1>1. prov = "claude" /\ req[r] # NotLeased
  BY DEF ClaudeAnswers
<1>2. PICK windows \in WindowPairs, opusReset \in {0} \cup (qNow + 1) .. (MaxQNow + 1) :
        Observe(r, ClaudeState(windows[1], windows[2], req[r].prev, opusReset),
                [k \in (IF opusReset = 0 THEN {} ELSE {"opus"}) |-> opusReset])
  BY DEF ClaudeAnswers
<1> DEFINE prev == req[r].prev
           state == ClaudeState(windows[1], windows[2], prev, opusReset)
           readings == [k \in (IF opusReset = 0 THEN {} ELSE {"opus"}) |-> opusReset]
<1>3. prev \in ClaudeStates /\ qNow \in Nat
  BY <1>1 DEF QuotaInv, StateOK
<1>4. opusReset \in Nat
  BY <1>2, <1>3, QuotaAssumption
<1>5. /\ windows[1] \in [util : 0 .. 100, after : Nat]
      /\ windows[2] \in [util : 0 .. 100, after : Nat]
  BY <1>2, QuotaAssumption
<1>6. Window(windows[1]) \in Windows /\ Window(windows[2]) \in Windows
  BY <1>3, <1>5, WindowType
<1>7. state = [five |-> Window(windows[1]), seven |-> Window(windows[2]),
               opus |-> IF opusReset # 0 THEN opusReset
                        ELSE IF prev.opus <= qNow THEN 0 ELSE prev.opus]
  BY DEF ClaudeState, captureState
<1>8. prev.opus \in Nat
  BY <1>3 DEF ClaudeStates
<1> HIDE DEF prev, state
<1>9. state \in ClaudeStates
  BY <1>4, <1>6, <1>7, <1>8 DEF ClaudeStates
<1>10. StateOK(state)
  BY <1>1, <1>9 DEF StateOK
<1>11. \A k \in DOMAIN readings : k = "opus" /\ readings[k] = opusReset /\ opusReset # 0
  OBVIOUS
<1>12. \A k \in DOMAIN readings : Says(prov, qNow, state, k, readings[k])
  BY <1>1, <1>7, <1>11 DEF Says
<1>13. \A k \in DOMAIN told \ DOMAIN readings : opusReset = 0 /\ told[k].value \in Nat
  BY <1>1 DEF QuotaInv
<1>14. \A k \in DOMAIN told \ DOMAIN readings :
         Says(prov, qNow, prev, k, told[k].value) => Says(prov, qNow, state, k, told[k].value)
  BY <1>1, <1>3, <1>7, <1>8, <1>13 DEF Says
<1>15. Observe(r, state, readings)
  BY <1>2 DEF state, prev
<1> HIDE DEF readings
<1> QED
  BY <1>1, <1>4, <1>10, <1>11, <1>12, <1>14, <1>15, ObserveKeeps DEF prev

\* An answer of Codex carries over the families its headers do not name.
LEMMA CodexKeeps ==
  ASSUME QuotaInv, KeepInv, NEW r \in Reqs, CodexAnswers(r)
  PROVE  QuotaInv' /\ KeepInv'
<1>1. prov = "codex" /\ req[r] # NotLeased
  BY DEF CodexAnswers
<1>2. PICK named \in SUBSET Families : \E headers \in [named -> WindowPairs] :
        Observe(r, captureHeaders(headers, req[r].prev),
                [f \in named |-> CodexWindows(headers[f])])
  BY DEF CodexAnswers
<1>3. PICK headers \in [named -> WindowPairs] :
        Observe(r, captureHeaders(headers, req[r].prev),
                [f \in named |-> CodexWindows(headers[f])])
  BY <1>2
<1> DEFINE prev == req[r].prev
           state == captureHeaders(headers, prev)
           readings == [f \in named |-> CodexWindows(headers[f])]
<1>4. /\ DOMAIN prev \subseteq Families /\ \A f \in DOMAIN prev : prev[f] \in CodexFamilies
      /\ qNow \in Nat
  BY <1>1 DEF QuotaInv, StateOK
<1>5. \A f \in named : readings[f] \in CodexFamilies
  <2> TAKE f \in named
  <2>1. headers[f] \in WindowPairs
    BY <1>3
  <2>2. /\ headers[f][1] \in [util : 0 .. 100, after : Nat]
        /\ headers[f][2] \in [util : 0 .. 100, after : Nat]
    BY <2>1, QuotaAssumption
  <2>3. Window(headers[f][1]) \in Windows /\ Window(headers[f][2]) \in Windows
    BY <1>4, <2>2, WindowType
  <2> QED
    BY <2>3 DEF CodexWindows, CodexFamilies
<1>6. DOMAIN readings = named /\ DOMAIN headers = named
  BY <1>3
<1>7. DOMAIN state = named \cup DOMAIN prev
  BY <1>6 DEF captureHeaders
<1>8. \A f \in named : state[f] = readings[f]
  BY <1>6 DEF captureHeaders
<1>9. \A f \in DOMAIN prev \ named : state[f] = prev[f]
  BY <1>6 DEF captureHeaders
<1>10. Observe(r, state, readings)
  BY <1>3
<1> HIDE DEF prev, state, readings
<1>11. StateOK(state)
  BY <1>1, <1>2, <1>4, <1>5, <1>7, <1>8, <1>9 DEF StateOK
<1>12. \A k \in DOMAIN readings : Says(prov, qNow, state, k, readings[k])
  BY <1>1, <1>6, <1>7, <1>8 DEF Says
<1>13. \A k \in DOMAIN told \ DOMAIN readings :
         Says(prov, qNow, prev, k, told[k].value) => Says(prov, qNow, state, k, told[k].value)
  BY <1>1, <1>6, <1>7, <1>9 DEF Says
<1> QED
  BY <1>1, <1>10, <1>11, <1>12, <1>13, ObserveKeeps DEF prev

\* A relayed answer of Gemini keeps the quota, and the project once it is known.
LEMMA GeminiKeeps ==
  ASSUME QuotaInv, KeepInv, NEW r \in Reqs, GeminiAnswers(r)
  PROVE  QuotaInv' /\ KeepInv'
<1>1. prov = "gemini" /\ req[r] # NotLeased
  BY DEF GeminiAnswers
<1>2. PICK load \in BOOLEAN :
        Observe(r, IF load THEN [req[r].prev EXCEPT !.project = "p"] ELSE req[r].prev,
                [k \in (IF load THEN {"project"} ELSE {}) |-> "p"])
  BY DEF GeminiAnswers
<1> DEFINE prev == req[r].prev
           state == IF load THEN [prev EXCEPT !.project = "p"] ELSE prev
           readings == [k \in (IF load THEN {"project"} ELSE {}) |-> "p"]
<1>3. prev \in GeminiStates
  BY <1>1 DEF QuotaInv, StateOK
<1>4. Observe(r, state, readings)
  BY <1>2
<1> HIDE DEF prev
<1>5. state \in GeminiStates
  BY <1>3 DEF GeminiStates
<1>6. state.fraction = prev.fraction /\ state.reset = prev.reset
      /\ (load \/ prev.project = "p" => state.project = "p")
  BY <1>3 DEF GeminiStates
<1>7. \A k \in DOMAIN readings : k = "project" /\ load
  OBVIOUS
<1> HIDE DEF state, readings
<1>8. StateOK(state)
  BY <1>1, <1>5 DEF StateOK
<1>9. \A k \in DOMAIN readings : Says(prov, qNow, state, k, readings[k])
  BY <1>1, <1>6, <1>7 DEF Says
<1>10. \A k \in DOMAIN told \ DOMAIN readings :
         Says(prov, qNow, prev, k, told[k].value) => Says(prov, qNow, state, k, told[k].value)
  BY <1>1, <1>6 DEF Says
<1> QED
  BY <1>1, <1>4, <1>7, <1>8, <1>9, <1>10, ObserveKeeps DEF prev

\* What applyQuota makes of a state.
LEMMA ApplyQuotaForm ==
  ASSUME NEW p, NEW f, NEW x, NEW u, NEW fraction, NEW reset
  PROVE  applyQuota([project |-> p, fraction |-> f, reset |-> x, updated |-> u], fraction, reset)
           = [project |-> p, fraction |-> fraction, reset |-> reset, updated |-> qNow + 1]
<1> DEFINE s == [project |-> p, fraction |-> f, reset |-> x, updated |-> u]
           once == [project |-> p, fraction |-> fraction, reset |-> x, updated |-> u]
           twice == [project |-> p, fraction |-> fraction, reset |-> reset, updated |-> u]
           done == [project |-> p, fraction |-> fraction, reset |-> reset, updated |-> qNow + 1]
<1>1. [s EXCEPT !.fraction = fraction] = once
  OBVIOUS
<1>2. [once EXCEPT !.reset = reset] = twice
  OBVIOUS
<1>3. [twice EXCEPT !.updated = qNow + 1] = done
  OBVIOUS
<1> HIDE DEF s, once, twice, done
<1>4. applyQuota(s, fraction, reset)
        = [[[s EXCEPT !.fraction = fraction] EXCEPT !.reset = reset] EXCEPT !.updated = qNow + 1]
  BY DEF applyQuota
<1>5. applyQuota(s, fraction, reset) = done
  BY <1>1, <1>2, <1>3, <1>4
<1> QED
  BY <1>5 DEF s, done

\* A probe of Gemini keeps the project it does not load and the quota it does not read.
LEMMA ProbeKeeps ==
  ASSUME QuotaInv, KeepInv, NEW r \in Reqs, GeminiProbed(r)
  PROVE  QuotaInv' /\ KeepInv'
<1>1. prov = "gemini" /\ req[r] # NotLeased
  BY DEF GeminiProbed
<1> DEFINE prev == req[r].prev
<1>2. prev \in GeminiStates /\ qNow \in Nat
  BY <1>1 DEF QuotaInv, StateOK
<1>3. PICK loaded \in SUBSET {"project"} :
        LET base == IF loaded = {} THEN prev ELSE [prev EXCEPT !.project = "p"]
        IN  \/ Observe(r, base, [k \in loaded |-> "p"])
            \/ \E fraction \in {0, 1}, after \in 1 .. 2 :
                 Observe(r, applyQuota(base, fraction, qNow + after),
                         [k \in loaded \cup {"quota"} |->
                            IF k = "quota" THEN <<fraction, qNow + after>> ELSE "p"])
  BY DEF GeminiProbed
<1> DEFINE base == IF loaded = {} THEN prev ELSE [prev EXCEPT !.project = "p"]
<1> HIDE DEF prev
<1>4. /\ base \in GeminiStates /\ base.fraction = prev.fraction /\ base.reset = prev.reset
      /\ loaded # {} \/ prev.project = "p" => base.project = "p"
  BY <1>2 DEF GeminiStates
<1>5. loaded \subseteq {"project"}
  OBVIOUS
<1>6. \/ Observe(r, base, [k \in loaded |-> "p"])
      \/ \E fraction \in {0, 1}, after \in 1 .. 2 :
           Observe(r, applyQuota(base, fraction, qNow + after),
                   [k \in loaded \cup {"quota"} |->
                      IF k = "quota" THEN <<fraction, qNow + after>> ELSE "p"])
  BY <1>3
<1> HIDE DEF base
<1>7. CASE Observe(r, base, [k \in loaded |-> "p"])
  <2> DEFINE readings == [k \in loaded |-> "p"]
  <2>1. StateOK(base)
    BY <1>1, <1>4 DEF StateOK
  <2>2. \A k \in DOMAIN readings : k = "project" /\ loaded # {}
    BY <1>5
  <2> HIDE DEF readings
  <2>3. \A k \in DOMAIN readings : Says(prov, qNow, base, k, readings[k])
    BY <1>1, <1>4, <2>2 DEF Says
  <2>4. \A k \in DOMAIN told \ DOMAIN readings :
          Says(prov, qNow, prev, k, told[k].value) => Says(prov, qNow, base, k, told[k].value)
    BY <1>1, <1>4 DEF Says
  <2>5. Observe(r, base, readings)
    BY <1>7 DEF readings
  <2> QED
    BY <1>1, <2>1, <2>2, <2>3, <2>4, <2>5, ObserveKeeps DEF prev
<1>8. ASSUME NEW fraction \in {0, 1}, NEW after \in 1 .. 2,
             Observe(r, applyQuota(base, fraction, qNow + after),
                     [k \in loaded \cup {"quota"} |->
                        IF k = "quota" THEN <<fraction, qNow + after>> ELSE "p"])
      PROVE  QuotaInv' /\ KeepInv'
  <2> DEFINE state == applyQuota(base, fraction, qNow + after)
             readings == [k \in loaded \cup {"quota"} |->
                            IF k = "quota" THEN <<fraction, qNow + after>> ELSE "p"]
  <2>1. state \in GeminiStates /\ state.project = base.project /\ state.fraction = fraction
        /\ state.reset = qNow + after
    <3>1. state = [project |-> base.project, fraction |-> fraction, reset |-> qNow + after,
                   updated |-> qNow + 1]
      <4>1. base = [project |-> base.project, fraction |-> base.fraction,
                    reset |-> base.reset, updated |-> base.updated]
        BY <1>4 DEF GeminiStates
      <4> QED
        BY <4>1, ApplyQuotaForm
    <3>2. qNow + after \in Nat /\ qNow + 1 \in Nat
      BY <1>2
    <3> HIDE DEF state
    <3> QED
      BY <1>4, <3>1, <3>2 DEF GeminiStates
  <2>2. \A k \in DOMAIN readings :
          (k = "project" /\ loaded # {}) \/ (k = "quota" /\ readings[k] = <<fraction, qNow + after>>)
    BY <1>5
  <2>3. "quota" \in DOMAIN readings
    OBVIOUS
  <2>4. Observe(r, state, readings)
    BY <1>8
  <2> HIDE DEF state, readings
  <2>5. StateOK(state)
    BY <1>1, <2>1 DEF StateOK
  <2>6. \A k \in DOMAIN readings : Says(prov, qNow, state, k, readings[k])
    BY <1>1, <1>4, <2>1, <2>2 DEF Says
  <2>7. \A k \in DOMAIN told \ DOMAIN readings :
          Says(prov, qNow, prev, k, told[k].value) => Says(prov, qNow, state, k, told[k].value)
    BY <1>1, <1>4, <2>1, <2>3 DEF Says, QuotaInv
  <2> QED
    BY <1>1, <2>2, <2>4, <2>5, <2>6, <2>7, ObserveKeeps DEF prev
<1> QED
  BY <1>6, <1>7, <1>8

\* The empty state has no reading, and no request is leased.
LEMMA QuotaBegins == QuotaInit => QuotaInv /\ KeepInv
<1> SUFFICES ASSUME QuotaInit PROVE QuotaInv /\ KeepInv
  OBVIOUS
<1>1. /\ qNow = 0 /\ answers = 0 /\ prov \in {"claude", "codex", "gemini"}
      /\ req = [r \in Reqs |-> NotLeased] /\ DOMAIN told = {}
  BY DEF QuotaInit
<1>2. StateOK(quota)
  <2>1. CASE prov = "claude"
    BY <2>1 DEF QuotaInit, StateOK, ClaudeEmpty, ClaudeStates, Windows
  <2>2. CASE prov = "codex"
    BY <2>2 DEF QuotaInit, StateOK, CodexEmpty
  <2>3. CASE prov = "gemini"
    BY <2>3 DEF QuotaInit, StateOK, GeminiEmpty, GeminiStates
  <2> QED
    BY <1>1, <2>1, <2>2, <2>3
<1> QED
  BY <1>1, <1>2 DEF QuotaInv, KeepInv

\* A request takes a copy of the state that has what the state has.
LEMMA CopyKeeps ==
  ASSUME QuotaInv, KeepInv, NEW r \in Reqs, NEW model,
         req' = [req EXCEPT ![r] = [model |-> model, prev |-> quota, leased |-> answers]],
         UNCHANGED <<qNow, prov, quota, answers, told, lost>>
  PROVE  QuotaInv' /\ KeepInv'
<1>1. DOMAIN req' = Reqs /\ req'[r].prev = quota /\ req'[r].leased = answers
  BY DEF QuotaInv
<1>2. \A q \in Reqs : q # r => req'[q] = req[q]
  BY DEF QuotaInv
<1>3. ASSUME NEW q \in Reqs, req'[q] # NotLeased
      PROVE  req'[q].leased \in Nat /\ req'[q].leased <= answers /\ StateOK(req'[q].prev)
  <2>1. CASE q = r
    BY <1>1, <2>1 DEF QuotaInv
  <2>2. CASE q # r
    BY <1>2, <1>3, <2>2 DEF QuotaInv
  <2> QED
    BY <2>1, <2>2
<1>4. QuotaInv'
  BY <1>1, <1>3 DEF QuotaInv, StateOK
<1>5. ASSUME NEW k \in DOMAIN told \ lost, NEW q \in Reqs, req'[q] # NotLeased,
             told[k].at <= req'[q].leased
      PROVE  Says(prov, qNow, req'[q].prev, k, told[k].value)
  <2>1. CASE q = r
    BY <1>1, <2>1 DEF KeepInv
  <2>2. CASE q # r
    BY <1>2, <1>5, <2>2 DEF KeepInv
  <2> QED
    BY <2>1, <2>2
<1>6. ASSUME NEW k \in DOMAIN told' \ lost', NEW q \in Reqs, req'[q] # NotLeased,
             told'[k].at <= req'[q].leased
      PROVE  Says(prov, qNow, req[q].prev, k, told[k].value)'
  <2>1. Says(prov, qNow, req'[q].prev, k, told[k].value)
    BY <1>5, <1>6
  <2> QED
    BY <2>1
<1>7. ASSUME NEW k \in DOMAIN told' \ lost' PROVE Says(prov, qNow, quota, k, told[k].value)'
  BY DEF KeepInv, Says
<1>8. KeepInv'
  BY <1>6, <1>7 DEF KeepInv, NotLeased
<1> QED
  BY <1>4, <1>8

\* Requests that end without telling anything, and time, which ends Opus cooldowns.
LEMMA QuietKeeps ==
  ASSUME QuotaInv, KeepInv, DOMAIN req' = Reqs,
         \A q \in Reqs : req'[q] # NotLeased => req[q] # NotLeased /\ req'[q] = req[q],
         answers' \in Nat, answers <= answers', qNow' \in Nat, qNow <= qNow',
         UNCHANGED <<prov, quota, told, lost>>
  PROVE  QuotaInv' /\ KeepInv'
<1>1. QuotaInv'
  <2>1. StateOK(quota)'
    BY DEF QuotaInv, StateOK
  <2>2. \A q \in Reqs : req'[q] # NotLeased =>
          req'[q].leased \in Nat /\ req'[q].leased <= answers' /\ StateOK(req[q].prev)
    BY DEF QuotaInv
  <2>3. \A q \in Reqs : req'[q] # NotLeased => StateOK(req[q].prev)'
    BY <2>2 DEF StateOK
  <2>4. \A k \in DOMAIN told' : told'[k].at \in Nat /\ told'[k].at <= answers'
    BY DEF QuotaInv
  <2> QED
    BY <2>1, <2>2, <2>3, <2>4 DEF QuotaInv
<1>2. ASSUME NEW s, NEW k \in DOMAIN told, Says(prov, qNow, s, k, told[k].value)
      PROVE  Says(prov, qNow', s, k, told[k].value)
  <2>1. CASE prov = "claude"
    <3>1. told[k].value \in Nat /\ qNow \in Nat
      BY <2>1 DEF QuotaInv
    <3> QED
      BY <1>2, <2>1, <3>1 DEF Says
  <2>2. CASE prov \in {"codex", "gemini"}
    BY <1>2, <2>2 DEF Says
  <2> QED
    BY <2>1, <2>2 DEF QuotaInv
<1>3. ASSUME NEW k \in DOMAIN told' \ lost' PROVE Says(prov, qNow, quota, k, told[k].value)'
  BY <1>2 DEF KeepInv
<1>4. ASSUME NEW k \in DOMAIN told' \ lost', NEW q \in Reqs,
             req'[q] # NotLeased, told'[k].at <= req'[q].leased
      PROVE  Says(prov, qNow, req[q].prev, k, told[k].value)'
  BY <1>2, <1>4 DEF KeepInv
<1>5. KeepInv'
  BY <1>3, <1>4 DEF KeepInv, NotLeased
<1> QED
  BY <1>1, <1>5

\* Every step keeps the readings.
LEMMA QuotaStep ==
  QuotaInv /\ KeepInv /\ [QuotaNext]_quotaVars => QuotaInv' /\ KeepInv'
<1> SUFFICES ASSUME QuotaInv, KeepInv, [QuotaNext]_quotaVars PROVE QuotaInv' /\ KeepInv'
  OBVIOUS
<1>1. CASE QuotaTick
  <2>1. qNow' = qNow + 1 /\ UNCHANGED <<prov, quota, req, answers, told, lost>>
    BY <1>1 DEF QuotaTick
  <2> QED
    BY <2>1, QuietKeeps DEF QuotaInv
<1>2. ASSUME NEW r \in Reqs, Lease(r) PROVE QuotaInv' /\ KeepInv'
  BY <1>2, CopyKeeps DEF Lease
<1>3. ASSUME NEW r \in Reqs, NEW forced \in BOOLEAN, StartProbe(r, forced)
      PROVE  QuotaInv' /\ KeepInv'
  BY <1>3, CopyKeeps DEF StartProbe
<1>4. ASSUME NEW r \in Reqs, CodexAnswersWithoutState(r) PROVE QuotaInv' /\ KeepInv'
  BY <1>4, QuietKeeps DEF CodexAnswersWithoutState, QuotaInv
<1>5. ASSUME NEW r \in Reqs, NoAnswer(r) PROVE QuotaInv' /\ KeepInv'
  BY <1>5, QuietKeeps DEF NoAnswer, QuotaInv
<1>6. CASE UNCHANGED quotaVars
  BY <1>6, QuietKeeps DEF quotaVars, QuotaInv
<1> QED
  BY <1>1, <1>2, <1>3, <1>4, <1>5, <1>6, ClaudeKeeps, CodexKeeps, GeminiKeeps, ProbeKeeps
     DEF QuotaNext

\* The invariants hold.
LEMMA QuotaHolds == QuotaSpec => [](QuotaInv /\ KeepInv)
BY QuotaBegins, QuotaStep, PTL DEF QuotaSpec

\* Whatever requests overlap, in whatever order their answers arrive, what an answer
\* said about Opus, a Codex family or the Gemini project and quota is in the bucket
\* until an answer to a request leased before it replaces it.
THEOREM ReadingsSafe == QuotaSpec => []ReadingsKept
<1>1. QuotaInv /\ KeepInv => ReadingsKept
  BY DEF KeepInv, ReadingsKept, Has, Says
<1> QED
  BY <1>1, QuotaHolds, PTL

-----------------------------------------------------------------------------
(* The cooldown of an exhausted bucket.                                    *)

\* The cooldown computed from two windows: the later of the resets of those that are
\* full, 0 when neither is.
Later(w, x, t) ==
  LET first == IF WindowFull(w, t) THEN w.reset ELSE 0
  IN  IF WindowFull(x, t) /\ x.reset > first THEN x.reset ELSE first

\* Two windows are full together with their cooldown: from t until then one of them is
\* full, and at that time neither is.
LEMMA LaterExact ==
  ASSUME NEW w \in Windows, NEW x \in Windows, NEW t \in Nat
  PROVE  /\ Later(w, x, t) \in Nat
         /\ Later(w, x, t) = 0 => ~WindowFull(w, t) /\ ~WindowFull(x, t)
         /\ Later(w, x, t) # 0 => Later(w, x, t) > t
         /\ \A u \in Nat : Later(w, x, t) # 0 /\ t <= u /\ u < Later(w, x, t) =>
              WindowFull(w, u) \/ WindowFull(x, u)
         /\ \A u \in Nat : Later(w, x, t) # 0 /\ Later(w, x, t) <= u =>
              ~WindowFull(w, u) /\ ~WindowFull(x, u)
<1>1. w.util \in 0 .. 100 /\ w.reset \in Nat /\ x.util \in 0 .. 100 /\ x.reset \in Nat
  BY DEF Windows
<1> QED
  BY <1>1 DEF Later, WindowFull, Full

\* Claude: a bucket is exhausted while one of its windows is full.
LEMMA ClaudeExact == QuotaInv /\ prov = "claude" => ExhaustedUntilServable
<1> SUFFICES ASSUME QuotaInv, prov = "claude" PROVE ExhaustedUntilServable
  OBVIOUS
<1> DEFINE until == Later(quota.five, quota.seven, qNow)
<1>1. quota.five \in Windows /\ quota.seven \in Windows /\ qNow \in Nat
  BY DEF QuotaInv, StateOK, ClaudeStates
<1>2. ComputeExhaustedCooldown(quota, qNow) = until
  BY DEF ComputeExhaustedCooldown, ClaudeExhausted, Later
<1>3. \A t : Servable(t) <=> ~WindowFull(quota.five, t) /\ ~WindowFull(quota.seven, t)
  BY DEF Servable
<1>4. /\ until \in Nat
      /\ until = 0 => ~WindowFull(quota.five, qNow) /\ ~WindowFull(quota.seven, qNow)
      /\ \A u \in Nat : until # 0 /\ qNow <= u /\ u < until =>
           WindowFull(quota.five, u) \/ WindowFull(quota.seven, u)
      /\ \A u \in Nat : until # 0 /\ until <= u =>
           ~WindowFull(quota.five, u) /\ ~WindowFull(quota.seven, u)
  BY <1>1, LaterExact
<1> HIDE DEF until
<1>5. until # 0 => Servable(until)
  BY <1>3, <1>4
<1>6. until # 0 => \A t \in qNow .. (until - 1) : ~Servable(t)
  BY <1>1, <1>3, <1>4
<1> QED
  BY <1>2, <1>3, <1>4, <1>5, <1>6 DEF ExhaustedUntilServable

\* Of the cooldowns of the known families one is the first.
LEMMA FirstFamily ==
  ASSUME NEW D \in SUBSET Families, D # {}, NEW cd, \A f \in D : cd[f] \in Nat
  PROVE  \E f \in D : \A g \in D : cd[f] <= cd[g]
<1>1. CASE "" \in D /\ "bengalfox" \in D
  <2>1. D = {"", "bengalfox"}
    BY <1>1 DEF Families
  <2> DEFINE x == cd[""]
             y == cd["bengalfox"]
  <2>2. x \in Nat /\ y \in Nat
    BY <1>1
  <2> HIDE DEF x, y
  <2>3. x <= x /\ y <= y /\ (x <= y \/ y <= x)
    BY <2>2
  <2>4. CASE x <= y
    <3>1. \A g \in D : cd[""] <= cd[g]
      BY <2>1, <2>3, <2>4 DEF x, y
    <3> QED
      BY <1>1, <3>1
  <2>5. CASE y <= x
    <3>1. \A g \in D : cd["bengalfox"] <= cd[g]
      BY <2>1, <2>3, <2>5 DEF x, y
    <3> QED
      BY <1>1, <3>1
  <2> QED
    BY <2>3, <2>4, <2>5
<1>2. CASE ~("" \in D /\ "bengalfox" \in D)
  <2>1. PICK f \in D : D = {f}
    BY <1>2 DEF Families
  <2> QED
    BY <2>1
<1> QED
  BY <1>1, <1>2

\* Codex: a bucket is exhausted until the first known family has capacity again.
LEMMA CodexExact == QuotaInv /\ prov = "codex" => ExhaustedUntilServable
<1> SUFFICES ASSUME QuotaInv, prov = "codex" PROVE ExhaustedUntilServable
  OBVIOUS
<1> DEFINE D == DOMAIN quota
           cd == [f \in D |-> Later(quota[f].primary, quota[f].secondary, qNow)]
           cds == {computeFamilyCooldown(quota[f], qNow) : f \in D}
           until == ComputeExhaustedCooldown(quota, qNow)
<1>1. D \in SUBSET Families /\ qNow \in Nat
  BY DEF QuotaInv, StateOK
<1>2. \A f \in D : quota[f].primary \in Windows /\ quota[f].secondary \in Windows
  BY DEF QuotaInv, StateOK, CodexFamilies
<1>3. \A f \in D : computeFamilyCooldown(quota[f], qNow) = cd[f]
  BY DEF computeFamilyCooldown, Later
<1>4. cds = {cd[f] : f \in D}
  BY <1>3
<1>5. until = IF cds = {} \/ 0 \in cds THEN 0 ELSE CHOOSE c \in cds : \A d \in cds : c <= d
  BY DEF ComputeExhaustedCooldown, CodexExhausted
<1>6. \A f \in D, t \in Nat : CodexCanServe(quota, f, t) <=>
        ~WindowFull(quota[f].primary, t) /\ ~WindowFull(quota[f].secondary, t)
  BY DEF CodexCanServe
<1>7. ASSUME NEW f \in D
      PROVE  /\ cd[f] \in Nat
             /\ cd[f] = 0 => CodexCanServe(quota, f, qNow)
             /\ \A u \in Nat : cd[f] # 0 /\ qNow <= u /\ u < cd[f] => ~CodexCanServe(quota, f, u)
             /\ cd[f] # 0 => CodexCanServe(quota, f, cd[f])
  <2>1. cd[f] = Later(quota[f].primary, quota[f].secondary, qNow)
    BY <1>7
  <2> HIDE DEF cd
  <2>2. /\ cd[f] \in Nat
        /\ cd[f] = 0 => ~WindowFull(quota[f].primary, qNow) /\ ~WindowFull(quota[f].secondary, qNow)
        /\ \A u \in Nat : cd[f] # 0 /\ qNow <= u /\ u < cd[f] =>
             WindowFull(quota[f].primary, u) \/ WindowFull(quota[f].secondary, u)
        /\ \A u \in Nat : cd[f] # 0 /\ cd[f] <= u =>
             ~WindowFull(quota[f].primary, u) /\ ~WindowFull(quota[f].secondary, u)
    BY <1>1, <1>2, <2>1, LaterExact
  <2> QED
    BY <1>1, <1>6, <2>2
<1>8. \A t : Servable(t) <=> D = {} \/ \E f \in D : CodexCanServe(quota, f, t)
  BY DEF Servable
<1> HIDE DEF cd, cds, until, D
<1>9. CASE D = {}
  <2>1. until = 0
    BY <1>4, <1>5, <1>9
  <2> QED
    BY <1>8, <1>9, <2>1 DEF ExhaustedUntilServable, until
<1>10. CASE D # {} /\ 0 \in cds
  <2>1. until = 0
    BY <1>5, <1>10
  <2>2. PICK f \in D : cd[f] = 0
    BY <1>4, <1>10
  <2>3. Servable(qNow)
    BY <1>7, <1>8, <2>2
  <2> QED
    BY <2>1, <2>3 DEF ExhaustedUntilServable, until
<1>11. CASE D # {} /\ 0 \notin cds
  <2>1. PICK f \in D : \A g \in D : cd[f] <= cd[g]
    BY <1>1, <1>7, <1>11, FirstFamily
  <2>2. cd[f] \in cds /\ \A d \in cds : cd[f] <= d
    BY <1>4, <2>1
  <2>3. until \in cds /\ \A d \in cds : until <= d
    BY <1>5, <1>11, <2>2
  <2>4. PICK g \in D : until = cd[g]
    BY <1>4, <2>3
  <2>5. until \in Nat /\ until # 0
    BY <1>7, <1>11, <2>3, <2>4
  <2>6. Servable(until)
    BY <1>7, <1>8, <2>4, <2>5
  <2>7. \A h \in D : cd[h] \in Nat /\ cd[h] # 0 /\ until <= cd[h]
    BY <1>4, <1>7, <1>11, <2>3
  <2>8. ASSUME NEW t \in qNow .. (until - 1) PROVE ~Servable(t)
    <3>1. t \in Nat /\ qNow <= t /\ t < until
      BY <1>1, <2>5
    <3>2. \A h \in D : ~CodexCanServe(quota, h, t)
      BY <1>7, <2>5, <2>7, <3>1
    <3> QED
      BY <1>8, <1>11, <3>2
  <2> QED
    BY <2>5, <2>6, <2>8 DEF ExhaustedUntilServable, until
<1> QED
  BY <1>9, <1>10, <1>11

\* Gemini: a bucket is exhausted while its quota is used up and has a reset to come.
LEMMA GeminiExact == QuotaInv /\ prov = "gemini" => ExhaustedUntilServable
<1> SUFFICES ASSUME QuotaInv, prov = "gemini" PROVE ExhaustedUntilServable
  OBVIOUS
<1> DEFINE reset == quota.reset
           fraction == quota.fraction
<1>1. reset \in Nat /\ fraction \in {0, 1} /\ qNow \in Nat
  BY DEF QuotaInv, StateOK, GeminiStates
<1>2. ComputeExhaustedCooldown(quota, qNow) =
        IF reset > qNow /\ fraction <= 0 THEN reset ELSE 0
  BY DEF ComputeExhaustedCooldown, GeminiExhausted
<1>3. \A t : Servable(t) <=> (reset = 0 \/ reset <= t \/ fraction > 0)
  BY DEF Servable, GeminiHasQuota
<1> HIDE DEF reset, fraction
<1>4. CASE reset > qNow /\ fraction <= 0
  <2>1. reset # 0 /\ ~(fraction > 0)
    BY <1>1, <1>4
  <2>2. Servable(reset)
    BY <1>1, <1>3
  <2>3. ASSUME NEW t \in qNow .. (reset - 1) PROVE ~Servable(t)
    <3>1. ~(reset <= t)
      BY <1>1
    <3> QED
      BY <1>3, <2>1, <3>1
  <2> QED
    BY <1>2, <1>4, <2>1, <2>2, <2>3 DEF ExhaustedUntilServable
<1>5. CASE ~(reset > qNow /\ fraction <= 0)
  <2>1. reset <= qNow \/ fraction > 0
    BY <1>1, <1>5
  <2>2. Servable(qNow)
    BY <1>3, <2>1
  <2> QED
    BY <1>2, <1>5, <2>2 DEF ExhaustedUntilServable
<1> QED
  BY <1>4, <1>5

\* The cooldown cleanup gives a bucket is exact for every provider and every state its
\* answers can leave it in: nothing known of it can be served before, and something can
\* when it is over; of a Gemini state, with its project or still without, that is the quota.
THEOREM CooldownExact == QuotaSpec => []ExhaustedUntilServable
<1>1. QuotaInv => ExhaustedUntilServable
  BY ClaudeExact, CodexExact, GeminiExact DEF QuotaInv
<1> QED
  BY <1>1, QuotaHolds, PTL

-----------------------------------------------------------------------------
(* The bounds.  A request is leased only while answers are left, so the     *)
(* answers still to come are at most those of the requests in flight.       *)

Leased == {r \in Reqs : req[r] # NotLeased}

BoundInv ==
  /\ qNow <= MaxQNow
  /\ answers + Cardinality(Leased) <= MaxAnswers + Cardinality(Reqs) - 1
  /\ lost \subseteq DOMAIN told

\* The requests in flight can be counted.
LEMMA LeasedCount ==
  /\ IsFiniteSet(Leased) /\ Cardinality(Leased) \in Nat
  /\ Cardinality(Reqs) \in Nat /\ Cardinality(Reqs) >= 1
  /\ Cardinality(Leased) <= Cardinality(Reqs)
<1>1. IsFiniteSet(Reqs) /\ Reqs # {} /\ Leased \subseteq Reqs
  BY QuotaAssumption DEF Leased
<1>2. IsFiniteSet(Leased) /\ Cardinality(Leased) <= Cardinality(Reqs)
  BY <1>1, FS_Subset
<1>3. Cardinality(Leased) \in Nat /\ Cardinality(Reqs) \in Nat /\ Cardinality(Reqs) # 0
  BY <1>1, <1>2, FS_CardinalityType, FS_EmptySet
<1> QED
  BY <1>2, <1>3

\* A request that ends is one less in flight.
LEMMA OneLess ==
  ASSUME QuotaInv, NEW r \in Reqs, req[r] # NotLeased, req' = [req EXCEPT ![r] = NotLeased]
  PROVE  Cardinality(Leased') = Cardinality(Leased) - 1
<1>1. Leased' = Leased \ {r} /\ r \in Leased
  BY DEF Leased, QuotaInv
<1> QED
  BY <1>1, LeasedCount, FS_RemoveElement

\* An answer takes the place of the request it ends.
LEMMA AnswerBound ==
  ASSUME QuotaInv, BoundInv, NEW r \in Reqs, req[r] # NotLeased,
         req' = [req EXCEPT ![r] = NotLeased], answers' \in {answers, answers + 1},
         qNow' = qNow, lost' \subseteq DOMAIN told'
  PROVE  BoundInv'
<1> DEFINE n == Cardinality(Leased)
           m == Cardinality(Leased')
           all == Cardinality(Reqs)
<1>1. m = n - 1 /\ n \in Nat /\ all \in Nat /\ answers \in Nat /\ MaxAnswers \in Nat
  BY OneLess, LeasedCount, QuotaAssumption DEF QuotaInv
<1>2. answers + n <= MaxAnswers + all - 1
  BY DEF BoundInv
<1> HIDE DEF n, m, all
<1>3. answers' \in Nat /\ answers' <= answers + 1
  BY <1>1
<1>4. \A a, b \in Nat : b <= a + 1 /\ a + n <= MaxAnswers + all - 1
                          => b + (n - 1) <= MaxAnswers + all - 1
  BY <1>1
<1>5. answers' + m <= MaxAnswers + all - 1
  BY <1>1, <1>2, <1>3, <1>4
<1> QED
  BY <1>5 DEF BoundInv, m, all

\* pool.Observe loses readings only.
LEMMA ObserveBound ==
  ASSUME QuotaInv, BoundInv, NEW r \in Reqs, req[r] # NotLeased, NEW state, NEW readings,
         Observe(r, state, readings)
  PROVE  BoundInv'
<1>1. DOMAIN told' = DOMAIN told \cup DOMAIN readings
  BY DEF Observe
<1>2. lost' \subseteq DOMAIN told
  BY DEF Observe
<1> QED
  BY <1>1, <1>2, AnswerBound DEF Observe

\* A request is leased only while answers are left.
LEMMA LeaseBound ==
  ASSUME QuotaInv, BoundInv, answers < MaxAnswers, UNCHANGED <<qNow, answers, told, lost>>
  PROVE  BoundInv'
<1> DEFINE m == Cardinality(Leased')
           all == Cardinality(Reqs)
<1>1. Leased' \subseteq Reqs
  BY DEF Leased
<1>2. m <= all /\ IsFiniteSet(Leased')
  BY <1>1, FS_Subset, QuotaAssumption
<1>3. m \in Nat /\ all \in Nat /\ answers \in Nat /\ MaxAnswers \in Nat
  BY <1>2, LeasedCount, FS_CardinalityType, QuotaAssumption DEF QuotaInv
<1> HIDE DEF m, all
<1>4. answers' + m <= MaxAnswers + all - 1
  BY <1>2, <1>3
<1> QED
  BY <1>4 DEF BoundInv, m, all

\* Every step keeps the bounds.
LEMMA BoundStep == QuotaInv /\ BoundInv /\ [QuotaNext]_quotaVars => BoundInv'
<1> SUFFICES ASSUME QuotaInv, BoundInv, [QuotaNext]_quotaVars PROVE BoundInv'
  OBVIOUS
<1>1. CASE QuotaTick
  <2>1. qNow' <= MaxQNow
    BY <1>1, QuotaAssumption DEF QuotaTick, QuotaInv
  <2>2. Leased' = Leased
    BY <1>1 DEF QuotaTick, Leased
  <2> QED
    BY <1>1, <2>1, <2>2 DEF QuotaTick, BoundInv
<1>2. ASSUME NEW r \in Reqs, Lease(r) \/ \E forced \in BOOLEAN : StartProbe(r, forced)
      PROVE  BoundInv'
  BY <1>2, LeaseBound DEF Lease, StartProbe
<1>3. ASSUME NEW r \in Reqs, CodexAnswersWithoutState(r) \/ NoAnswer(r) PROVE BoundInv'
  <2>1. lost' \subseteq DOMAIN told'
    BY <1>3 DEF CodexAnswersWithoutState, NoAnswer, BoundInv
  <2> QED
    BY <1>3, <2>1, AnswerBound DEF CodexAnswersWithoutState, NoAnswer
<1>4. ASSUME NEW r \in Reqs, ClaudeAnswers(r) \/ CodexAnswers(r) PROVE BoundInv'
  <2>1. req[r] # NotLeased /\ \E state, readings : Observe(r, state, readings)
    BY <1>4 DEF ClaudeAnswers, CodexAnswers
  <2> QED
    BY <2>1, ObserveBound
<1>5. ASSUME NEW r \in Reqs, GeminiAnswers(r) \/ GeminiProbed(r) PROVE BoundInv'
  <2>1. req[r] # NotLeased /\ \E state, readings : Observe(r, state, readings)
    BY <1>5 DEF GeminiAnswers, GeminiProbed
  <2> QED
    BY <2>1, ObserveBound
<1>6. CASE UNCHANGED quotaVars
  BY <1>6 DEF quotaVars, BoundInv, Leased
<1> QED
  BY <1>1, <1>2, <1>3, <1>4, <1>5, <1>6 DEF QuotaNext

\* No request is in flight and no answer observed.
LEMMA BoundBegins == QuotaInit => BoundInv
<1> SUFFICES ASSUME QuotaInit PROVE BoundInv
  OBVIOUS
<1>1. Leased = {}
  BY DEF QuotaInit, Leased
<1>2. Cardinality(Leased) = 0
  BY <1>1, FS_EmptySet
<1>3. qNow = 0 /\ answers = 0 /\ lost = {}
  BY DEF QuotaInit
<1> QED
  BY <1>2, <1>3, LeasedCount, QuotaAssumption DEF BoundInv

\* The types follow from the invariants.
LEMMA QuotaTypesFollow == QuotaInv /\ BoundInv => QuotaTypeOK
<1> SUFFICES ASSUME QuotaInv, BoundInv PROVE QuotaTypeOK
  OBVIOUS
<1>1. qNow \in 0 .. MaxQNow
  BY QuotaAssumption DEF QuotaInv, BoundInv
<1> DEFINE n == Cardinality(Leased)
           all == Cardinality(Reqs)
<1>2. n \in Nat /\ all \in Nat /\ answers \in Nat /\ MaxAnswers \in Nat
      /\ answers + n <= MaxAnswers + all - 1
  BY LeasedCount, QuotaAssumption DEF QuotaInv, BoundInv
<1> HIDE DEF n, all
<1>3. answers \in 0 .. (MaxAnswers + all - 1)
  BY <1>2
<1>4. prov = "claude" => DOMAIN quota = {"five", "seven", "opus"}
  BY DEF QuotaInv, StateOK, ClaudeStates
<1>5. prov = "codex" => DOMAIN quota \subseteq Families
  BY DEF QuotaInv, StateOK
<1>6. prov = "gemini" => quota.fraction \in {0, 1}
  BY DEF QuotaInv, StateOK, GeminiStates
<1> QED
  BY <1>1, <1>3, <1>4, <1>5, <1>6 DEF QuotaTypeOK, BoundInv, all

\* The bucket's state has the shape of its provider's, and the answers observed never exceed
\* the limit by more than the other requests in flight.
THEOREM QuotaTypesCorrect == QuotaSpec => []QuotaTypeOK
  BY QuotaBegins, QuotaStep, BoundBegins, BoundStep, QuotaTypesFollow, PTL DEF QuotaSpec

-----------------------------------------------------------------------------
(* The composition.  Quota and compat surface share no variable with the    *)
(* others; cells and watchdog share the cells, so their invariants hold     *)
(* together.                                                                *)

CellsAndWatchdog == CellsTyped /\ LoginInv /\ SharedOnlyByRace /\ WatchTyped /\ WatchInv

\* Cells and watchdog begin with their invariants.
LEMMA CellsAndWatchdogBegin == Init => CellsAndWatchdog
  BY CellsTypeInit, LoginInit, SharingInit, WatchTypeBegins, WatchBegins DEF Init, CellsAndWatchdog

\* A step of the composition is one of the cells alone, one of cells and watchdog, or neither.
LEMMA CellsAndWatchdogStep == CellsAndWatchdog /\ [Next]_controlVars => CellsAndWatchdog'
<1> SUFFICES ASSUME CellsAndWatchdog, [Next]_controlVars PROVE CellsAndWatchdog'
  OBVIOUS
<1>1. \/ CellsNext /\ UNCHANGED watchVars
      \/ [WatchdogNext]_<<cellVars, watchVars>>
  BY DEF Next, controlVars
<1>2. CASE CellsNext /\ UNCHANGED watchVars
  <2>1. CellsTyped' /\ LoginInv' /\ SharedOnlyByRace'
    BY <1>2, CellsTypeStep, LoginStep, SharingStep DEF CellsAndWatchdog
  <2>2. WatchTyped' /\ WatchInv'
    BY <1>2 DEF CellsAndWatchdog, WatchTyped, WatchdogTypeOK, WatchInv, watchVars
  <2> QED
    BY <2>1, <2>2 DEF CellsAndWatchdog
<1>3. CASE [WatchdogNext]_<<cellVars, watchVars>>
  BY <1>3, WatchdogKeepsCells, WatchTypeStep, WatchStep DEF CellsAndWatchdog
<1> QED
  BY <1>1, <1>2, <1>3

\* The composition implements the specifications of the quota state and of the compat surface:
\* a step of another part is a stutter of theirs.
THEOREM QuotaAndCompatRefined == Spec => QuotaSpec /\ CompatSpec
<1>1. Init => QuotaInit /\ CompatInit
  BY DEF Init
<1>2. [Next]_controlVars => [QuotaNext]_quotaVars
  BY DEF Next, controlVars
<1>3. [Next]_controlVars => [CompatNext]_compatVars
  BY DEF Next, controlVars
<1> QED
  BY <1>1, <1>2, <1>3, PTL DEF Spec, QuotaSpec, CompatSpec

\* Every part of the composition has its types, for any constants the assumptions allow.
THEOREM TypesCorrect == Spec => []TypesOK
<1>1. CellsAndWatchdog => CellsTypeOK /\ WatchdogTypeOK
  BY CellsTypesFollow DEF CellsAndWatchdog, WatchTyped
<1>2. CellsTypeOK /\ WatchdogTypeOK /\ QuotaTypeOK /\ CompatTypeOK => TypesOK
  BY DEF TypesOK
<1> QED
  BY <1>1, <1>2, CellsAndWatchdogBegin, CellsAndWatchdogStep, QuotaAndCompatRefined,
     QuotaTypesCorrect, CompatTypesCorrect, PTL DEF Spec

\* With the watchdog clearing cooldowns beside the handlers, cells are still shared only by a
\* race, logins keep their refresh token, and every target is probed.
THEOREM CellsSafeBesideWatchdog ==
  Spec => [](SharedOnlyByRace /\ LoginKeepsRefreshToken /\ EveryTargetProbed)
<1>1. CellsAndWatchdog => SharedOnlyByRace /\ LoginKeepsRefreshToken /\ EveryTargetProbed
  BY DEF CellsAndWatchdog, LoginInv, WatchInv, EveryTargetProbed
<1> QED
  BY <1>1, CellsAndWatchdogBegin, CellsAndWatchdogStep, PTL DEF Spec
=============================================================================
