------------------------------ MODULE QuotaState ------------------------------
(***************************************************************************)
(* What the drivers keep of a provider's quota and how it reaches the      *)
(* bucket: captureState (driver/claude_support.go), captureHeaders         *)
(* (codex_support.go), the Gemini state (gemini_support.go), the capacity  *)
(* rules of the *_admin.go files, the probes, and the background refresh   *)
(* (server/admin_probe.go).                                                *)
(*                                                                         *)
(* A request reads the bucket's state when it is leased.  The answer is    *)
(* interpreted on top of that copy, and Observe stores the result over     *)
(* whatever the bucket holds by then.  Which status has which effect on    *)
(* health is module DriverPolicy; here a status only decides which part of *)
(* the state is written.  Utilisation is in percent, time in seconds.      *)
(***************************************************************************)
EXTENDS Naturals, FiniteSets

CONSTANTS
  Reqs,           \* requests and probes that may overlap
  WindowPairs,    \* what the headers may say of the two windows: pairs of [util, after],
                  \* where after 0 is no reset
  MaxQNow,        \* bound: the clock
  MaxAnswers      \* bound: answers observed

ASSUME QuotaAssumption ==
  /\ WindowPairs \subseteq [util : 0 .. 100, after : Nat] \X [util : 0 .. 100, after : Nat]
  /\ MaxQNow \in Nat /\ MaxAnswers \in Nat
  /\ IsFiniteSet(Reqs) /\ Reqs # {}

VARIABLES
  qNow,
  prov,    \* the provider of the bucket
  quota,   \* the bucket's state
  req,     \* request -> [model, prev, leased], or NotLeased
  answers, \* answers observed so far
  told,    \* history: reading -> [value, at]: what the last answer said, and when
  lost     \* history: readings overwritten by an answer leased before they were told

quotaVars == <<qNow, prov, quota, req, answers, told, lost>>

NotLeased == [model |-> "none"]
Full == 99

\* A window as the state keeps it.
Window(h) == [util |-> h.util, reset |-> IF h.after = 0 THEN 0 ELSE qNow + h.after]
WindowFull(w, t) == w.util >= Full /\ w.reset > t

-----------------------------------------------------------------------------
(* Claude: two windows, and a cooldown of the Opus models. *)
ClaudeEmpty == [five |-> [util |-> 0, reset |-> 0], seven |-> [util |-> 0, reset |-> 0], opus |-> 0]

\* A mutant of captureState: it starts from an empty state.
captureStateFresh(five, seven, prev) == [five |-> Window(five), seven |-> Window(seven), opus |-> 0]

\* Only the Opus cooldown is taken from the earlier state.
captureState(five, seven, prev) ==
  [five |-> Window(five), seven |-> Window(seven), opus |-> prev.opus]

\* Interpret: an Opus cooldown that is over is dropped; a 429 for an Opus model with a
\* reset header sets it.
ClaudeState(five, seven, prev, opusReset) ==
  LET s == captureState(five, seven, prev)
      kept == IF s.opus <= qNow THEN 0 ELSE s.opus
  IN  [s EXCEPT !.opus = IF opusReset # 0 THEN opusReset ELSE kept]

ClaudeCanServe(s, model, t) == model = "opus" => (s.opus = 0 \/ t >= s.opus)

ClaudeExhausted(s, t) ==
  LET five == IF WindowFull(s.five, t) THEN s.five.reset ELSE 0
  IN  IF WindowFull(s.seven, t) /\ s.seven.reset > five THEN s.seven.reset ELSE five

WindowStale(w, t) == (w.reset > 0 /\ w.reset < t) \/ (w.util > 0 /\ w.reset = 0)
ClaudeIsStale(s, t) == WindowStale(s.five, t) \/ WindowStale(s.seven, t)

-----------------------------------------------------------------------------
(* Codex: two windows for each quota family the headers have named so far. *)
Families == {"", "bengalfox"}
CodexEmpty == [f \in {} |-> 0]

CodexWindows(pair) == [primary |-> Window(pair[1]), secondary |-> Window(pair[2])]

\* The families the headers name replace the stored ones, the others stay.
captureHeaders(headers, prev) ==
  [f \in DOMAIN headers \cup DOMAIN prev |->
     IF f \in DOMAIN headers THEN CodexWindows(headers[f]) ELSE prev[f]]

computeFamilyCooldown(f, t) ==
  LET primary == IF WindowFull(f.primary, t) THEN f.primary.reset ELSE 0
  IN  IF WindowFull(f.secondary, t) /\ f.secondary.reset > primary THEN f.secondary.reset
      ELSE primary

CodexCanServe(s, family, t) ==
  family \in DOMAIN s => ~WindowFull(s[family].primary, t) /\ ~WindowFull(s[family].secondary, t)

\* A mutant of CodexExhausted: the bucket waits for the last family.
CodexExhaustedLatest(s, t) ==
  LET cds == {computeFamilyCooldown(s[f], t) : f \in DOMAIN s}
  IN  IF cds = {} \/ 0 \in cds THEN 0 ELSE CHOOSE c \in cds : \A d \in cds : d <= c

\* Zero as long as one known family has capacity, else the first of them to be back.
CodexExhausted(s, t) ==
  LET cds == {computeFamilyCooldown(s[f], t) : f \in DOMAIN s}
  IN  IF cds = {} \/ 0 \in cds THEN 0 ELSE CHOOSE c \in cds : \A d \in cds : c <= d

CodexIsStale(s, t) ==
  \E f \in DOMAIN s : WindowStale(s[f].primary, t) \/ WindowStale(s[f].secondary, t)

-----------------------------------------------------------------------------
(* Gemini: a project, without which nothing is served, and a daily quota.    *)
(* updated is when the quota was read, plus 1; 0 is never.                   *)
GeminiEmpty == [project |-> "", fraction |-> 0, reset |-> 0, updated |-> 0]

applyQuota(s, fraction, reset) ==
  [s EXCEPT !.fraction = fraction, !.reset = reset, !.updated = qNow + 1]

GeminiHasQuota(s, t) == s.reset = 0 \/ s.reset <= t \/ s.fraction > 0
GeminiCanServe(s, t) == s.project # "" /\ GeminiHasQuota(s, t)
GeminiExhausted(s, t) == IF s.reset > t /\ s.fraction <= 0 THEN s.reset ELSE 0

\* The refresh interval of ten minutes is longer than the model's clock runs.
GeminiIsStale(s, t) == s.project = "" \/ s.updated = 0 \/ s.reset <= t

-----------------------------------------------------------------------------
CanServe(s, model, t) ==
  CASE prov = "claude" -> ClaudeCanServe(s, model, t)
    [] prov = "codex"  -> CodexCanServe(s, model, t)
    [] prov = "gemini" -> GeminiCanServe(s, t)

ComputeExhaustedCooldown(s, t) ==
  CASE prov = "claude" -> ClaudeExhausted(s, t)
    [] prov = "codex"  -> CodexExhausted(s, t)
    [] prov = "gemini" -> GeminiExhausted(s, t)

IsStale(s, t) ==
  CASE prov = "claude" -> ClaudeIsStale(s, t)
    [] prov = "codex"  -> CodexIsStale(s, t)
    [] prov = "gemini" -> GeminiIsStale(s, t)

Models == CASE prov = "claude" -> {"opus", "sonnet"}
            [] prov = "codex"  -> Families
            [] prov = "gemini" -> {"flash"}

QuotaInit ==
  /\ qNow = 0 /\ answers = 0
  /\ prov \in {"claude", "codex", "gemini"}
  /\ quota = CASE prov = "claude" -> ClaudeEmpty
               [] prov = "codex"  -> CodexEmpty
               [] prov = "gemini" -> GeminiEmpty
  /\ req = [r \in Reqs |-> NotLeased]
  /\ told = [k \in {} |-> 0] /\ lost = {}

\* A relay request is leased: acquireLocked asked CanServe.
Lease(r) ==
  /\ req[r] = NotLeased /\ answers < MaxAnswers
  /\ \E model \in Models :
       /\ CanServe(quota, model, qNow)
       /\ req' = [req EXCEPT ![r] = [model |-> model, prev |-> quota, leased |-> answers]]
  /\ UNCHANGED <<qNow, prov, quota, answers, told, lost>>

\* refreshStaleAccounts, or an administrator's test: a probe is a request without model.
StartProbe(r, forced) ==
  /\ req[r] = NotLeased /\ answers < MaxAnswers
  /\ IsStale(quota, qNow) \/ forced
  /\ req' = [req EXCEPT ![r] = [model |-> "", prev |-> quota, leased |-> answers]]
  /\ UNCHANGED <<qNow, prov, quota, answers, told, lost>>

\* pool.Observe stores UpdatedState; the answer told the given readings.
Observe(r, state, readings) ==
  /\ quota' = state
  /\ answers' = answers + 1
  /\ req' = [req EXCEPT ![r] = NotLeased]
  /\ told' = [k \in DOMAIN told \cup DOMAIN readings |->
       IF k \in DOMAIN readings THEN [value |-> readings[k], at |-> answers'] ELSE told[k]]
  /\ lost' = {k \in DOMAIN told \ DOMAIN readings :
                k \in lost \/ told[k].at > req[r].leased}
  /\ UNCHANGED <<qNow, prov>>

\* Every answer of Claude carries the state; opusReset is 0 unless it is a 429 for an
\* Opus model with a reset header.
ClaudeAnswers(r) ==
  /\ prov = "claude" /\ req[r] # NotLeased
  /\ \E windows \in WindowPairs, opusReset \in {0} \cup (qNow + 1) .. (MaxQNow + 1) :
       /\ opusReset # 0 => req[r].model = "opus"
       /\ Observe(r, ClaudeState(windows[1], windows[2], req[r].prev, opusReset),
                  [k \in (IF opusReset = 0 THEN {} ELSE {"opus"}) |-> opusReset])

\* 200, 429 and a stream at capacity capture the headers.
CodexAnswers(r) ==
  /\ prov = "codex" /\ req[r] # NotLeased
  /\ \E named \in SUBSET Families :
       \E headers \in [named -> WindowPairs] :
         Observe(r, captureHeaders(headers, req[r].prev),
                 [f \in named |-> CodexWindows(headers[f])])

\* The other statuses of Codex carry no state: Observe leaves the bucket's alone.
CodexAnswersWithoutState(r) ==
  /\ prov = "codex" /\ req[r] # NotLeased
  /\ req' = [req EXCEPT ![r] = NotLeased] /\ answers' = answers + 1
  /\ UNCHANGED <<qNow, prov, quota, told, lost>>

\* A relayed answer changes the state only if its body names the project.
GeminiAnswers(r) ==
  /\ prov = "gemini" /\ req[r] # NotLeased /\ req[r].model # ""
  /\ \E load \in BOOLEAN :
       Observe(r, IF load THEN [req[r].prev EXCEPT !.project = "p"] ELSE req[r].prev,
               [k \in (IF load THEN {"project"} ELSE {}) |-> "p"])

\* Probe: a missing project is loaded, and loadCodeAssist may name none; the quota is
\* read if that works.  Both are observed, also where the probe ends in an error because
\* the project is still missing.
GeminiProbed(r) ==
  /\ prov = "gemini" /\ req[r] # NotLeased /\ req[r].model = ""
  /\ \E loaded \in SUBSET {"project"} :
       /\ req[r].prev.project # "" => loaded = {}
       /\ LET base == IF loaded = {} THEN req[r].prev
                      ELSE [req[r].prev EXCEPT !.project = "p"]
          IN  \/ Observe(r, base, [k \in loaded |-> "p"])
              \/ \E fraction \in {0, 1}, after \in 1 .. 2 :
                   Observe(r, applyQuota(base, fraction, qNow + after),
                           [k \in loaded \cup {"quota"} |->
                              IF k = "quota" THEN <<fraction, qNow + after>> ELSE "p"])

\* The transport fails, or so does loadCodeAssist: nothing is observed.
NoAnswer(r) ==
  /\ req[r] # NotLeased
  /\ req' = [req EXCEPT ![r] = NotLeased]
  /\ UNCHANGED <<qNow, prov, quota, answers, told, lost>>

QuotaTick ==
  /\ qNow < MaxQNow /\ qNow' = qNow + 1
  /\ UNCHANGED <<prov, quota, req, answers, told, lost>>

QuotaNext ==
  \/ QuotaTick
  \/ \E r \in Reqs :
       \/ Lease(r) \/ \E forced \in BOOLEAN : StartProbe(r, forced)
       \/ ClaudeAnswers(r) \/ CodexAnswers(r) \/ CodexAnswersWithoutState(r)
       \/ GeminiAnswers(r) \/ GeminiProbed(r) \/ NoAnswer(r)

QuotaSpec == QuotaInit /\ [][QuotaNext]_quotaVars

-----------------------------------------------------------------------------
QuotaTypeOK ==
  /\ qNow \in 0 .. MaxQNow /\ answers \in 0 .. (MaxAnswers + Cardinality(Reqs) - 1)
  /\ prov = "claude" => DOMAIN quota = {"five", "seven", "opus"}
  /\ prov = "codex" => DOMAIN quota \subseteq Families
  /\ prov = "gemini" => quota.fraction \in {0, 1}
  /\ lost \subseteq DOMAIN told

\* The state has the reading k.
Has(k) ==
  CASE prov = "claude" -> qNow < told[k].value => quota.opus = told[k].value
    [] prov = "codex"  -> k \in DOMAIN quota /\ quota[k] = told[k].value
    [] prov = "gemini" -> IF k = "project" THEN quota.project = "p"
                          ELSE <<quota.fraction, quota.reset>> = told[k].value

\* Answers arrive in any order, and each replaces the whole state.  What an answer said
\* about Opus, about a Codex family or about the Gemini project and quota is forgotten
\* only by an answer to a request that was leased before it was said: an answer that
\* does not mention it carries it over, so an Opus 429 keeps Opus requests away until
\* its reset.
ReadingsKept == \A k \in DOMAIN told \ lost : Has(k)

\* Some model can be served at t as far as the windows, families and daily quota known
\* tell.  A Gemini account without a project is not served either way, and is found
\* one by a probe, not by waiting.
Servable(t) ==
  CASE prov = "claude" -> ~WindowFull(quota.five, t) /\ ~WindowFull(quota.seven, t)
    [] prov = "codex"  -> DOMAIN quota = {} \/ \E f \in DOMAIN quota : CodexCanServe(quota, f, t)
    [] prov = "gemini" -> GeminiHasQuota(quota, t)

\* cleanup cools a bucket until ComputeExhaustedCooldown: the bucket waits exactly as
\* long as nothing known of it can be served, not a second less (requests would run
\* into 429) and not a second more (capacity would lie idle).
ExhaustedUntilServable ==
  LET until == ComputeExhaustedCooldown(quota, qNow)
  IN  IF until = 0 THEN Servable(qNow)
      ELSE Servable(until) /\ \A t \in qNow .. (until - 1) : ~Servable(t)
=============================================================================
