---------------------------- MODULE DriverPolicy ----------------------------
(***************************************************************************)
(* What the provider drivers decide about a request and about an upstream  *)
(* answer (internal/driver): the plan of a request, whether an answer may  *)
(* be retried, and the Effect the pool is told of.  An answer is its HTTP  *)
(* status and what the driver looks for in its body: a ban signal, the     *)
(* "Extra usage is required" text, or neither.                             *)
(***************************************************************************)
EXTENDS Integers

Providers == {"claude", "codex", "gemini"}
Statuses == 200..599
Bodies == {"plain", "ban", "extraUsage"}
Answers == [status : Statuses, body : Bodies]
EffectKinds == {"success", "cooldown", "reject", "overload", "block",
                "authFail", "serverError"}
EffectScopes == {"account", "bucket"}

Effect(kind, scope) == [kind |-> kind, scope |-> scope]

\* Plan: the affinity and the endpoint a provider's request may have.  Only
\* Codex requires continuity; only Claude has count_tokens.
Plan(provider) ==
  CASE provider = "claude" ->
         [count : {"yes", "no"}, keyed : {"yes", "no"}, continuity : {"prefer"}]
    [] provider = "codex" ->
         [count : {"no"}, keyed : {"yes", "no"}, continuity : {"prefer", "require"}]
    [] provider = "gemini" ->
         [count : {"no"}, keyed : {"no"}, continuity : {"prefer"}]

\* The three drivers agree.
ShouldRetry(status) == status \in {401, 403, 429, 529}

\* A mutant of RetrySameAccount: off by one.
RetrySameAccountOnceMore(provider, ans, prior) ==
  provider = "claude" /\ ans.status = 403 /\ ans.body # "ban" /\ prior <= 2

\* A mutant of RetrySameAccount: the ban signal is not looked for.
RetrySameAccountIfBanned(provider, ans, prior) ==
  provider = "claude" /\ ans.status = 403 /\ prior < 2

\* Only Claude retries a 403 on the account that got it, twice, and not when
\* the body bans the account.
RetrySameAccount(provider, ans, prior) ==
  /\ provider = "claude"
  /\ ans.status = 403
  /\ ans.body # "ban"
  /\ prior < 2

ParseNonRetriable(provider, ans) ==
  /\ provider \in {"claude", "codex"}
  /\ ans.status = 429
  /\ ans.body = "extraUsage"

\* The body says the account or its organization is disabled, on a status
\* where the driver looks for it.
Bans(ans, statuses) == ans.status \in statuses /\ ans.body = "ban"

ClaudeInterpret(ans) ==
  Effect(CASE ans.status = 529 -> "overload"
           [] ans.status = 429 -> "cooldown"
           [] ans.status = 401 -> "authFail"
           [] Bans(ans, {400, 403}) -> "block"
           [] ans.status \in (400..499) \ {401, 429} /\ ~Bans(ans, {400, 403}) ->
                "reject"
           [] ans.status \in (500..599) \ {529} -> "serverError"
           [] OTHER -> "success",
         "bucket")

\* Statuses Codex does not name, 500 included, are its success default.
CodexInterpret(ans) ==
  Effect(CASE ans.status = 529 -> "overload"
           [] ans.status = 429 -> "cooldown"
           [] ans.status = 401 -> "authFail"
           [] ans.status = 400 -> "reject"
           [] Bans(ans, {403}) -> "block"
           [] ans.status = 403 /\ ~Bans(ans, {403}) -> "cooldown"
           [] OTHER -> "success",
         "bucket")

\* Likewise Gemini.  A 401 or a 403 concerns one Gemini credential, any other
\* answer its bucket.
GeminiInterpret(ans) ==
  Effect(CASE ans.status = 529 -> "overload"
           [] ans.status = 429 -> "cooldown"
           [] ans.status = 401 -> "authFail"
           [] Bans(ans, {403}) -> "block"
           [] ans.status = 403 /\ ~Bans(ans, {403}) -> "cooldown"
           [] OTHER -> "success",
         IF ans.status \in {401, 403} THEN "account" ELSE "bucket")

Interpret(provider, ans) ==
  CASE provider = "claude" -> ClaudeInterpret(ans)
    [] provider = "codex" -> CodexInterpret(ans)
    [] provider = "gemini" -> GeminiInterpret(ans)

\* What PreflightStream makes of a Codex stream whose first event says that
\* the model is at capacity: a 429 that cools its bucket.
AtCapacity == [status |-> 429, body |-> "plain"]

=============================================================================
