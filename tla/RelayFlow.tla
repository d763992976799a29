----------------------------- MODULE RelayFlow ------------------------------
(***************************************************************************)
(* One client request through the relay (internal/relay): preparation, the *)
(* attempt loop of handleWithDriver with its exclusions and same-account   *)
(* retries, the success and failure endings, and the count_tokens path.    *)
(*                                                                         *)
(* The pool, the token manager, the upstream and the store are the         *)
(* environment: AcquireRoute grants any account its request allows         *)
(* (RouteLease has the scheduler itself), and every call may fail.  The    *)
(* client may disconnect at any moment, which the code notices only where  *)
(* it looks at ctx.Err() or a call returns an error.  A Gemini account may *)
(* be re-keyed to another bucket between two steps.                        *)
(***************************************************************************)
EXTENDS DriverPolicy, Sequences, FiniteSets

CONSTANTS
  Accounts,          \* accounts of the request's provider
  Buckets,           \* quota bucket keys
  HomeBucket,        \* [Accounts -> Buckets]
  Rekeyed,           \* bound: the accounts whose bucket key changes
  SomeAnswers,       \* bound: the answers upstream gives
  MaxRetryAccounts,  \* cfg.MaxRetryAccounts
  NoAccount,         \* ""
  Foreign            \* a user pin to an account of another provider

ASSUME RelayAssumption ==
  /\ HomeBucket \in [Accounts -> Buckets]
  /\ Rekeyed \subseteq Accounts
  /\ SomeAnswers \subseteq Answers
  /\ MaxRetryAccounts \in Nat
  /\ NoAccount \notin Accounts
  /\ Foreign \notin Accounts \union {NoAccount}

VARIABLES
  req,               \* the request, its plan and its user's pin
  pc,                \* where the handler is
  attempt,           \* the loop variable
  exAccounts,        \* state.exclusions, by account ID
  exBuckets,         \* state.exclusions, by bucket key
  forbiddenRetries,  \* same-account retries so far
  retryAccountID,
  lease,             \* the attempt's account, with the bucket key it had then
  answer,            \* the upstream answer in hand
  lastUpstream,      \* lastUpstreamStatus when lastUpstreamBody is set, or 0
  out,               \* responses written to the client
  gone,              \* the client disconnected
  bucketOf,          \* the pool's bucket key of every account
  told,              \* what Pool.Observe and CooldownCell were told
  outcomes,          \* history: how each attempt went for its account
  tries,             \* history: requests built for upstream
  rows               \* request log rows handed to logRequestAsync

vars == <<req, pc, attempt, exAccounts, exBuckets, forbiddenRetries,
          retryAccountID, lease, answer, lastUpstream, out, gone, bucketOf,
          told, outcomes, tries, rows>>
loopVars == <<exAccounts, exBuckets, forbiddenRetries, retryAccountID, lastUpstream>>
historyVars == <<told, outcomes, tries, rows>>
\* What no step of the handler changes.
fixedVars == <<req, gone, bucketOf>>

NoLease == [acct |-> NoAccount, bucket |-> NoAccount]
NoAnswer == [status |-> 200, body |-> "plain"]
Response(kind, status) == [kind |-> kind, status |-> status]
Requests ==
  UNION {{[provider |-> p, plan |-> l, pin |-> a, stream |-> s] :
            l \in Plan(p), a \in Accounts \union {NoAccount, Foreign},
            s \in {"yes", "no"}} : p \in Providers}

Outside == {"prepare", "acquire", "countAcquire", "fail", "done"}
Inside == {"token", "build", "send", "answered", "open", "accept", "write",
           "countToken", "countBuild", "countSend", "countAccept", "countWrite"}

-----------------------------------------------------------------------------
(* How an attempt returns.  Each runs the deferred lease.Abort().          *)

\* A mutant of Continue: the lease of the failed attempt is not aborted.
ContinueHolding ==
  /\ attempt' = attempt + 1
  /\ pc' = IF attempt < MaxRetryAccounts THEN "acquire" ELSE "fail"
  /\ answer' = NoAnswer
  /\ UNCHANGED <<lease, out>>

\* relayAttemptContinue: attempt++, and the failure ending when it was the last.
Continue ==
  /\ attempt' = attempt + 1
  /\ pc' = IF attempt < MaxRetryAccounts THEN "acquire" ELSE "fail"
  /\ lease' = NoLease
  /\ answer' = NoAnswer
  /\ UNCHANGED out

\* relayAttemptStop: finishRelayFailure is next.
Stop ==
  /\ pc' = "fail"
  /\ lease' = NoLease
  /\ answer' = NoAnswer
  /\ UNCHANGED <<attempt, out>>

\* relayAttemptDone, after writing response r.
Done(r) ==
  /\ out' = Append(out, r)
  /\ pc' = "done"
  /\ lease' = NoLease
  /\ answer' = NoAnswer
  /\ UNCHANGED attempt

GoOn(next) == pc' = next /\ UNCHANGED <<attempt, lease, out>>

\* A mutant of exclude: the scope of the effect is ignored.
excludeAccountOnly(scope) ==
  /\ exAccounts' = exAccounts \union {lease.acct}
  /\ UNCHANGED exBuckets

\* state.exclude: by the bucket key the account had when it was leased.
exclude(scope) ==
  IF scope = "bucket"
  THEN exBuckets' = exBuckets \union {lease.bucket} /\ UNCHANGED exAccounts
  ELSE exAccounts' = exAccounts \union {lease.acct} /\ UNCHANGED exBuckets

\* r.pool.Observe(acct.ID, effect)
Observe(kind) == told' = told \union {[acct |-> lease.acct, kind |-> kind]}

\* A mutant of logRequest: a client that left is not logged.
logRequestIfThere == rows' = IF gone = "no" THEN rows + 1 ELSE rows

\* r.logRequestAsync
logRequest == rows' = rows + 1

\* A mutant of Remember: the first error is kept, not the last.
RememberFirst(status) ==
  lastUpstream' = IF lastUpstream = 0 THEN status ELSE lastUpstream

\* state.lastUpstreamStatus and lastUpstreamBody
Remember(status) == lastUpstream' = status

\* How an attempt went for its account: an answer, or none at all (an invalid
\* token, a failed call, a stream that broke off).
NoReply == [status |-> 0, body |-> "plain"]
Outcome(ans) == outcomes' = Append(outcomes, [acct |-> lease.acct, ans |-> ans])

-----------------------------------------------------------------------------
Init ==
  /\ req \in Requests
  /\ pc = "prepare"
  /\ attempt = 0
  /\ exAccounts = {} /\ exBuckets = {}
  /\ forbiddenRetries = [a \in Accounts |-> 0]
  /\ retryAccountID = NoAccount
  /\ lease = NoLease
  /\ answer = NoAnswer
  /\ lastUpstream = 0
  /\ out = <<>>
  /\ gone = "no"
  /\ bucketOf = HomeBucket
  /\ told = {} /\ outcomes = <<>> /\ tries = 0 /\ rows = 0

\* Continuity is required and nothing names the owner.
Unresolvable ==
  /\ req.plan.count = "no"
  /\ req.plan.continuity = "require"
  /\ req.plan.keyed = "no"
  /\ req.pin = NoAccount

\* prepareRelayRequest answers itself: no key, an unreadable, oversized or
\* malformed body, an intercepted warm-up, or continuity it cannot resolve.
PrepareRefuses ==
  /\ pc = "prepare"
  /\ Done(Response("local", 0))
  /\ UNCHANGED <<loopVars, fixedVars, historyVars>>

Prepare ==
  /\ pc = "prepare"
  /\ ~Unresolvable
  /\ GoOn(IF req.plan.count = "yes" THEN "countAcquire" ELSE "acquire")
  /\ UNCHANGED <<answer, loopVars, fixedVars, historyVars>>

\* The check at the top of the loop: nobody is there to answer.
Abandon ==
  /\ pc = "acquire"
  /\ gone = "yes"
  /\ pc' = "done"
  /\ UNCHANGED <<attempt, lease, out, answer, loopVars, fixedVars, historyVars>>

-----------------------------------------------------------------------------
(* executeRelayAttempt                                                     *)

HardAccountID == IF retryAccountID # NoAccount THEN retryAccountID ELSE req.pin

\* The accounts AcquireRoute may grant (external to the relay): the hard
\* account when there is one of this provider, else any; never one that the
\* exclusions name by ID or by its present bucket key.
Routes(hard) ==
  {a \in Accounts : /\ hard \in Accounts => a = hard
                    /\ a \notin exAccounts
                    /\ bucketOf[a] \notin exBuckets}

\* Required continuity without a key only goes to the user's own pin.
Routable(hard) ==
  req.plan.continuity = "require" /\ req.plan.keyed = "no" => hard \in Accounts

AcquireRoute ==
  /\ pc = "acquire"
  /\ gone = "no"
  /\ Routable(HardAccountID)
  /\ \E a \in Routes(HardAccountID) :
       lease' = [acct |-> a, bucket |-> bucketOf[a]]
  /\ retryAccountID' = NoAccount
  /\ pc' = "token"
  /\ UNCHANGED <<attempt, exAccounts, exBuckets, forbiddenRetries, answer,
                 lastUpstream, out, fixedVars, historyVars>>

\* ErrAffinityOwnerMissing or ErrAffinityOwnerUnavailable: a 400 that tells
\* the client to start a new conversation.
OwnerGone ==
  /\ pc = "acquire"
  /\ gone = "no"
  /\ req.plan.continuity = "require"
  /\ req.plan.keyed = "yes" => HardAccountID = NoAccount
  /\ Done(Response("conversation", 400))
  /\ UNCHANGED <<loopVars, fixedVars, historyVars>>

\* Any other error of AcquireRoute: no route, or the store or ctx failed.
AcquireFails ==
  /\ pc = "acquire"
  /\ gone = "no"
  /\ Stop
  /\ UNCHANGED <<loopVars, fixedVars, historyVars>>

EnsureValidToken ==
  /\ pc = "token"
  /\ GoOn("build")
  /\ UNCHANGED <<answer, loopVars, fixedVars, historyVars>>

TokenInvalid ==
  /\ pc = "token"
  /\ Outcome(NoReply)
  /\ exclude("account")
  /\ Continue
  /\ UNCHANGED <<forbiddenRetries, retryAccountID, lastUpstream, fixedVars,
                 told, tries, rows>>

BuildRequest ==
  /\ pc = "build"
  /\ tries' = tries + 1
  /\ GoOn("send")
  /\ UNCHANGED <<answer, loopVars, fixedVars, told, outcomes, rows>>

\* A RequestValidationError, which only Claude's model check returns.
BuildInvalid ==
  /\ pc = "build"
  /\ req.provider = "claude"
  /\ tries' = tries + 1
  /\ logRequest
  /\ Done(Response("validation", 400))
  /\ UNCHANGED <<loopVars, fixedVars, told, outcomes>>

BuildFails ==
  /\ pc = "build"
  /\ Stop
  /\ UNCHANGED <<loopVars, fixedVars, historyVars>>

Send ==
  /\ pc = "send"
  /\ \E ans \in SomeAnswers : answer' = ans /\ Outcome(ans)
  /\ GoOn("answered")
  /\ UNCHANGED <<loopVars, fixedVars, told, tries, rows>>

\* The client's Do returns an error.  A transport error cools the account's
\* egress cell; a cancelled request, which neterr.IsTransport leaves out, or
\* an account without a cell does not.
SendFails ==
  /\ pc = "send"
  /\ told' \in {told, told \union {[acct |-> lease.acct, kind |-> "cell"]}}
  /\ Outcome(NoReply)
  /\ logRequest
  /\ exclude("account")
  /\ Continue
  /\ UNCHANGED <<forbiddenRetries, retryAccountID, lastUpstream, fixedVars, tries>>

Retriable == ShouldRetry(answer.status) /\ attempt < MaxRetryAccounts
Prior == forbiddenRetries[lease.acct]

\* "Extra usage is required": the client's own limit, passed on as it is.
NonRetriable ==
  /\ pc = "answered"
  /\ Retriable
  /\ ParseNonRetriable(req.provider, answer)
  /\ Remember(answer.status)
  /\ logRequest
  /\ Done(Response("upstream", answer.status))
  /\ UNCHANGED <<exAccounts, exBuckets, forbiddenRetries, retryAccountID,
                 fixedVars, told, outcomes, tries>>

RetrySame ==
  /\ pc = "answered"
  /\ Retriable
  /\ ~ParseNonRetriable(req.provider, answer)
  /\ RetrySameAccount(req.provider, answer, Prior)
  /\ Remember(answer.status)
  /\ logRequest
  /\ forbiddenRetries' = [forbiddenRetries EXCEPT ![lease.acct] = @ + 1]
  /\ retryAccountID' = lease.acct
  /\ Continue
  /\ UNCHANGED <<exAccounts, exBuckets, fixedVars, told, outcomes, tries>>

RetryOther ==
  /\ pc = "answered"
  /\ Retriable
  /\ ~ParseNonRetriable(req.provider, answer)
  /\ ~RetrySameAccount(req.provider, answer, Prior)
  /\ Remember(answer.status)
  /\ logRequest
  /\ LET e == Interpret(req.provider, answer)
     IN Observe(e.kind) /\ exclude(e.scope)
  /\ Continue
  /\ UNCHANGED <<forbiddenRetries, retryAccountID, fixedVars, outcomes, tries>>

\* Any other status than 200, or a retriable one at the last attempt.
Reject ==
  /\ pc = "answered"
  /\ ~Retriable
  /\ answer.status # 200
  /\ logRequest
  /\ Observe(Interpret(req.provider, answer).kind)
  /\ Done(Response("upstream", answer.status))
  /\ UNCHANGED <<loopVars, fixedVars, outcomes, tries>>

Succeed ==
  /\ pc = "answered"
  /\ answer.status = 200
  /\ GoOn("open")
  /\ UNCHANGED <<answer, loopVars, fixedVars, historyVars>>

-----------------------------------------------------------------------------
(* finishRelaySuccess                                                      *)

Preflighted == req.provider = "codex" /\ req.stream = "yes"

PreflightFails ==
  /\ pc = "open"
  /\ Preflighted
  /\ Outcome(NoReply)
  /\ logRequest
  /\ exclude("account")
  /\ Continue
  /\ UNCHANGED <<forbiddenRetries, retryAccountID, lastUpstream, fixedVars,
                 told, tries>>

\* An error inside the HTTP 200, found before a byte went to the client.
PreflightRefuses ==
  /\ pc = "open"
  /\ Preflighted
  /\ Remember(AtCapacity.status)
  /\ Outcome(AtCapacity)
  /\ logRequest
  /\ LET e == Interpret("codex", AtCapacity)
     IN Observe(e.kind) /\ exclude(e.scope)
  /\ Continue
  /\ UNCHANGED <<forbiddenRetries, retryAccountID, fixedVars, tries>>

\* The stream is open, or the whole body is read.
ObserveSuccess ==
  /\ pc = "open"
  /\ Observe(Interpret(req.provider, answer).kind)
  /\ GoOn("accept")
  /\ UNCHANGED <<answer, loopVars, fixedVars, outcomes, tries, rows>>

\* io.ReadAll of a body that is not streamed fails.
ReadFails ==
  /\ pc = "open"
  /\ req.stream = "no"
  /\ Stop
  /\ UNCHANGED <<loopVars, fixedVars, historyVars>>

Accept ==
  /\ pc = "accept"
  /\ GoOn("write")
  /\ UNCHANGED <<answer, loopVars, fixedVars, historyVars>>

\* Only a call with an affinity key writes a binding that may fail to save.
AcceptFails ==
  /\ pc = "accept"
  /\ req.plan.keyed = "yes"
  /\ Stop
  /\ UNCHANGED <<loopVars, fixedVars, historyVars>>

\* The response is streamed or written, the lease finished, the row logged.
Write ==
  /\ pc = "write"
  /\ logRequest
  /\ Done(Response("ok", 200))
  /\ UNCHANGED <<loopVars, fixedVars, told, outcomes, tries>>

\* A mutant of finishRelayFailure: it only answers with an upstream error.
finishRelayFailureSilent ==
  /\ pc = "fail"
  /\ IF lastUpstream # 0
     THEN Done(Response("upstream", lastUpstream))
     ELSE pc' = "done" /\ UNCHANGED <<attempt, lease, answer, out>>
  /\ UNCHANGED <<loopVars, fixedVars, historyVars>>

finishRelayFailure ==
  /\ pc = "fail"
  /\ Done(IF lastUpstream # 0
          THEN Response("upstream", lastUpstream)
          ELSE Response("unavailable", 503))
  /\ UNCHANGED <<loopVars, fixedVars, historyVars>>

-----------------------------------------------------------------------------
(* handleCountTokens: one attempt, no affinity, no Observe, no log row.    *)

CountAcquire ==
  /\ pc = "countAcquire"
  /\ \E a \in Routes(req.pin) : lease' = [acct |-> a, bucket |-> bucketOf[a]]
  /\ pc' = "countToken"
  /\ UNCHANGED <<attempt, answer, out, loopVars, fixedVars, historyVars>>

CountStep(here, next) ==
  /\ pc = here
  /\ GoOn(next)
  /\ UNCHANGED <<answer, loopVars, fixedVars, historyVars>>

CountEnsureToken == CountStep("countToken", "countBuild")
CountBuild == CountStep("countBuild", "countSend")
CountSend == CountStep("countSend", "countAccept")
\* There is no affinity key: Accept saves nothing and cannot fail.
CountAccept == CountStep("countAccept", "countWrite")

\* The account, the token, the build or the send fails: answered at once.
CountFails ==
  /\ pc \in {"countAcquire", "countToken", "countBuild", "countSend"}
  /\ Done(Response("local", 0))
  /\ UNCHANGED <<loopVars, fixedVars, historyVars>>

CountWrite ==
  /\ pc = "countWrite"
  /\ Done(Response("count", 0))
  /\ UNCHANGED <<loopVars, fixedVars, historyVars>>

-----------------------------------------------------------------------------
(* The environment.                                                        *)

Disconnect ==
  /\ pc # "done"
  /\ gone = "no"
  /\ gone' = "yes"
  /\ UNCHANGED <<req, pc, attempt, loopVars, lease, answer, out, bucketOf, historyVars>>

\* The pool learns a Gemini account's project and re-keys it.
Rekey ==
  /\ pc # "done"
  /\ req.provider = "gemini"
  /\ \E a \in Rekeyed, b \in Buckets : bucketOf' = [bucketOf EXCEPT ![a] = b]
  /\ UNCHANGED <<req, pc, attempt, loopVars, lease, answer, out, gone, historyVars>>

Handler ==
  \/ PrepareRefuses \/ Prepare \/ Abandon
  \/ AcquireRoute \/ OwnerGone \/ AcquireFails
  \/ EnsureValidToken \/ TokenInvalid
  \/ BuildRequest \/ BuildInvalid \/ BuildFails
  \/ Send \/ SendFails
  \/ NonRetriable \/ RetrySame \/ RetryOther \/ Reject \/ Succeed
  \/ PreflightFails \/ PreflightRefuses \/ ObserveSuccess \/ ReadFails
  \/ Accept \/ AcceptFails \/ Write \/ finishRelayFailure
  \/ CountAcquire \/ CountEnsureToken \/ CountBuild \/ CountSend
  \/ CountAccept \/ CountFails \/ CountWrite

\* The handler has returned.  Before that it is never stuck: TLC's deadlock
\* check is on.
Returned == pc = "done" /\ UNCHANGED vars

Next == Handler \/ Disconnect \/ Rekey \/ Returned

Spec == Init /\ [][Next]_vars

-----------------------------------------------------------------------------
(* Correctness.                                                            *)

TypeOK ==
  /\ req \in Requests
  /\ pc \in Inside \union Outside
  /\ attempt \in 0..(MaxRetryAccounts + 1)
  /\ exAccounts \subseteq Accounts
  /\ exBuckets \subseteq Buckets
  /\ forbiddenRetries \in [Accounts -> 0..2]
  /\ retryAccountID \in Accounts \union {NoAccount}
  /\ lease \in [acct : Accounts, bucket : Buckets] \union {NoLease}
  /\ answer \in Answers
  /\ lastUpstream \in {0} \union Statuses
  /\ gone \in {"no", "yes"}
  /\ bucketOf \in [Accounts -> Buckets]
  /\ told \subseteq [acct : Accounts, kind : EffectKinds \union {"cell"}]
  /\ tries \in Nat /\ rows \in Nat

\* However the attempts end, the client gets exactly one response; none only
\* when it had disconnected (handleWithDriver, finishRelayFailure).
OneAnswer ==
  /\ Len(out) <= 1
  /\ pc = "done" => Len(out) = 1 \/ gone = "yes"

\* A lease is held inside an attempt and never outlives it, so that a bucket's
\* inflight count goes down again (defer lease.Abort(), lease.Finish()).
NoLeaseLeftBehind == lease = NoLease <=> pc \in Outside

\* A Claude 403 that bans nobody.
Forbidden(r) ==
  req.provider = "claude" /\ r.ans.status = 403 /\ r.ans.body # "ban"

\* The outcome rules its account out for the rest of the request.
Spends(r) == r.ans.status # 200 /\ ~Forbidden(r)

\* It rules out the other accounts of the bucket too.
SpendsBucket(r) ==
  r.ans.status # 0 /\ Interpret(req.provider, r.ans).scope = "bucket"

\* Whatever else goes wrong in the request, an account that failed is not asked
\* again, nor is any account of a bucket whose quota upstream refused; only a
\* Claude 403 that bans nobody is asked for again, three times in all
\* (exclude, RetrySameAccount).  Accounts whose bucket key may change on the way
\* (Rekeyed) are left aside: the exclusion names the bucket of lease time, and the
\* code may ask such an account again under its new key.
NoReturnToSpent ==
  /\ \A i, j \in DOMAIN outcomes :
       LET a == outcomes[i].acct
           b == outcomes[j].acct
       IN i < j /\ Spends(outcomes[i]) =>
            /\ a = b => a \in Rekeyed
            /\ SpendsBucket(outcomes[i]) /\ HomeBucket[a] = HomeBucket[b] =>
                 {a, b} \intersect Rekeyed # {}
  /\ \A a \in Accounts \ Rekeyed :
       Cardinality({i \in DOMAIN outcomes : /\ outcomes[i].acct = a
                                           /\ outcomes[i].ans.status = 403}) <= 3

\* Between attempts and once the request is over the pool has been told the
\* effect of every failing answer, so that a ban, a cooldown or a failed
\* authentication is never lost; except that "Extra usage" is the client's own
\* limit, and a 403 that bans nobody may end in a retry (executeRelayAttempt).
FailuresAreTold ==
  pc \in {"acquire", "fail", "done"} =>
    \A i \in DOMAIN outcomes :
      LET r == outcomes[i]
      IN \/ r.ans.status \in {0, 200}
         \/ r.ans.status = 429 /\ r.ans.body = "extraUsage"
         \/ Forbidden(r)
         \/ [acct |-> r.acct, kind |-> Interpret(req.provider, r.ans).kind] \in told

\* Upstream answered, and with an error.
Failed(i) == outcomes[i].ans.status \notin {0, 200}

\* "no available accounts" is said only when upstream never answered with an
\* error; and an error passed on is the latest one (finishRelayFailure).
FailureShowsUpstream ==
  pc = "done" /\ Len(out) = 1 =>
    /\ out[1].kind = "unavailable" => \A i \in DOMAIN outcomes : ~Failed(i)
    /\ out[1].kind = "upstream" =>
         \E i \in DOMAIN outcomes :
           /\ Failed(i) /\ outcomes[i].ans.status = out[1].status
           /\ \A j \in DOMAIN outcomes : Failed(j) => j <= i

\* Every request built for upstream has its log row before the next attempt
\* and before the response, but for one that the failure ending cut short.
LogsMatchTries ==
  /\ rows <= tries /\ tries <= rows + 1
  /\ pc = "acquire" => rows = tries
  /\ pc = "done" /\ Len(out) = 1 /\ out[1].kind \in {"ok", "validation", "conversation"} =>
       rows = tries

\* Pool.Observe counts upstream 500s and says "Reset circuit breaker counter on
\* any non-500 outcome": so a 500 is not told to it as a success.
ServerErrorIsNoSuccess ==
  \A i \in DOMAIN outcomes :
    outcomes[i].ans.status = 500 =>
      [acct |-> outcomes[i].acct, kind |-> "success"] \notin told
=============================================================================
