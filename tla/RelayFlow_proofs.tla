-------------------------- MODULE RelayFlow_proofs --------------------------
(***************************************************************************)
(* Proofs about RelayFlow, for any number of accounts, buckets and         *)
(* attempts, any answers of upstream and any assignment of accounts to     *)
(* buckets.                                                                *)
(***************************************************************************)
EXTENDS RelayFlow, SequenceTheorems, FiniteSetTheorems, TLAPS

USE RelayAssumption

\* Where the lease is out in an attempt of the loop, and in the count_tokens path.
LoopInside == {"token", "build", "send", "answered", "open", "accept", "write"}
CountInside == {"countToken", "countBuild", "countSend", "countAccept", "countWrite"}

OutcomeRecord == [acct : Accounts, ans : Answers \union {NoReply}]

\* Where the handler is, what it holds and what it has written.  The attempt bound is
\* strict before the last attempt ends; nothing is written before the handler returns.
Control ==
  /\ pc \in Inside \union Outside
  /\ attempt \in 0 .. MaxRetryAccounts + 1
  /\ pc \notin {"fail", "done"} => attempt <= MaxRetryAccounts
  /\ lease \in [acct : Accounts, bucket : Buckets] \union {NoLease}
  /\ NoLeaseLeftBehind
  /\ answer \in Answers
  /\ gone \in {"no", "yes"}
  /\ pc # "done" => out = <<>>
  /\ pc = "done" => Len(out) = 1 \/ (out = <<>> /\ gone = "yes")

\* What the request has gathered.
Data ==
  /\ req \in Requests
  /\ exAccounts \subseteq Accounts
  /\ exBuckets \subseteq Buckets
  /\ forbiddenRetries \in [Accounts -> 0 .. 2]
  /\ retryAccountID \in Accounts \union {NoAccount}
  /\ lastUpstream \in {0} \union Statuses
  /\ bucketOf \in [Accounts -> Buckets]
  /\ told \subseteq [acct : Accounts, kind : EffectKinds \union {"cell"}]
  /\ tries \in Nat /\ rows \in Nat
  /\ outcomes \in Seq(OutcomeRecord)

-----------------------------------------------------------------------------
(* The operators.                                                          *)

\* Every driver names an effect the pool knows.
LEMMA InterpretType ==
  ASSUME NEW p \in Providers, NEW ans \in Answers
  PROVE  Interpret(p, ans).kind \in EffectKinds /\ Interpret(p, ans).scope \in EffectScopes
<1>1. CASE p = "claude"
  BY <1>1 DEF Interpret, ClaudeInterpret, Effect, EffectKinds, EffectScopes
<1>2. CASE p = "codex"
  BY <1>2 DEF Interpret, CodexInterpret, Effect, EffectKinds, EffectScopes
<1>3. CASE p = "gemini"
  BY <1>3 DEF Interpret, GeminiInterpret, Effect, EffectKinds, EffectScopes
<1> QED
  BY <1>1, <1>2, <1>3 DEF Providers

\* A request names a provider.
LEMMA ProviderType == ASSUME req \in Requests PROVE req.provider \in Providers
BY DEF Requests

\* The response of a handler that had written none.
LEMMA FirstResponse ==
  ASSUME NEW r PROVE Len(Append(<<>>, r)) = 1 /\ Append(<<>>, r)[1] = r
BY AppendProperties

\* The log of outcomes grows by one.
LEMMA OutcomeAdded ==
  ASSUME outcomes \in Seq(OutcomeRecord), lease.acct \in Accounts,
         NEW ans \in Answers \union {NoReply}, Outcome(ans)
  PROVE  /\ outcomes' \in Seq(OutcomeRecord)
         /\ Len(outcomes) \in Nat /\ Len(outcomes') = Len(outcomes) + 1
         /\ DOMAIN outcomes = 1 .. Len(outcomes) /\ DOMAIN outcomes' = 1 .. Len(outcomes) + 1
         /\ \A i \in 1 .. Len(outcomes) : outcomes'[i] = outcomes[i]
         /\ outcomes'[Len(outcomes) + 1] = [acct |-> lease.acct, ans |-> ans]
<1> DEFINE r == [acct |-> lease.acct, ans |-> ans]
<1>1. r \in OutcomeRecord /\ outcomes' = Append(outcomes, r)
  BY DEF OutcomeRecord, Outcome
<1> HIDE DEF r
<1>2. /\ outcomes' \in Seq(OutcomeRecord) /\ Len(outcomes') = Len(outcomes) + 1
      /\ \A i \in 1 .. Len(outcomes) : outcomes'[i] = outcomes[i]
      /\ outcomes'[Len(outcomes) + 1] = r
  BY <1>1, AppendProperties
<1>3. /\ Len(outcomes) \in Nat /\ DOMAIN outcomes = 1 .. Len(outcomes)
      /\ DOMAIN outcomes' = 1 .. Len(outcomes')
  BY <1>2, LenProperties
<1> QED
  BY <1>2, <1>3 DEF r

-----------------------------------------------------------------------------
(* Types.                                                                  *)

\* How a step of the handler moves: into a lease, on within an attempt or to the next
\* one, to the failure ending, or out with a response; or away from a client that left.
Enters == /\ pc \in {"acquire", "countAcquire"} /\ pc' \in {"token", "countToken"}
          /\ \E a \in Accounts : lease' = [acct |-> a, bucket |-> bucketOf[a]]
          /\ UNCHANGED <<attempt, answer, out>>
Moves == /\ \/ pc \in Inside /\ pc' \in Inside
            \/ pc = "prepare" /\ pc' \in {"acquire", "countAcquire"}
         /\ answer' \in Answers
         /\ UNCHANGED <<attempt, lease, out>>
Returns == \/ pc \in LoopInside /\ Continue
           \/ pc \in LoopInside \union {"acquire"} /\ Stop
           \/ pc # "done" /\ \E r : Done(r)
Leaves == pc = "acquire" /\ gone = "yes" /\ pc' = "done" /\ UNCHANGED <<attempt, lease, answer, out>>

\* Every step of the handler is one of four moves: it enters the loop with a
\* lease, goes on inside, returns with one response, or leaves because the
\* client is gone.
LEMMA HandlerMoves ==
  ASSUME Control, Data, Handler
  PROVE  (Enters \/ Moves \/ Returns \/ Leaves) /\ UNCHANGED fixedVars
<1> USE DEF Control, Data, Enters, Moves, Returns, Leaves, Inside, LoopInside, GoOn,
            fixedVars, loopVars
<1>1. CASE AcquireRoute \/ CountAcquire
  BY <1>1 DEF AcquireRoute, CountAcquire, Routes
<1>2. CASE Prepare \/ EnsureValidToken \/ BuildRequest \/ Send \/ Succeed \/
          ObserveSuccess \/ Accept
  BY <1>2 DEF Prepare, EnsureValidToken, BuildRequest, Send, Succeed, ObserveSuccess,
     Accept
<1>3. CASE CountEnsureToken \/ CountBuild \/ CountSend \/ CountAccept
  BY <1>3 DEF CountEnsureToken, CountBuild, CountSend, CountAccept, CountStep
<1>4. CASE TokenInvalid \/ SendFails \/ RetrySame \/ RetryOther \/ PreflightFails \/
          PreflightRefuses
  BY <1>4 DEF TokenInvalid, SendFails, RetrySame, RetryOther, PreflightFails,
     PreflightRefuses
<1>5. CASE AcquireFails \/ BuildFails \/ ReadFails \/ AcceptFails
  BY <1>5 DEF AcquireFails, BuildFails, ReadFails, AcceptFails
<1>6. CASE PrepareRefuses \/ OwnerGone \/ BuildInvalid \/ NonRetriable \/ Reject \/
          Write \/ finishRelayFailure
  BY <1>6 DEF PrepareRefuses, OwnerGone, BuildInvalid, NonRetriable, Reject, Write,
     finishRelayFailure
<1>7. CASE CountFails \/ CountWrite
  BY <1>7 DEF CountFails, CountWrite
<1>8. CASE Abandon
  BY <1>8 DEF Abandon
<1> QED
  BY <1>1, <1>2, <1>3, <1>4, <1>5, <1>6, <1>7, <1>8 DEF Handler

\* A step of the handler keeps the control state.
LEMMA ControlStep ==
  ASSUME Control, Data, Handler
  PROVE  Control'
<1> USE DEF Control, NoLeaseLeftBehind, Inside, Outside, fixedVars
<1>1. UNCHANGED gone
  BY HandlerMoves
<1>2. CASE Enters
  BY <1>1, <1>2 DEF Enters, Data, NoLease
<1>3. CASE Moves
  BY <1>1, <1>3 DEF Moves
<1>4. CASE Leaves
  BY <1>1, <1>4 DEF Leaves
<1>5. NoAnswer \in Answers
  BY DEF NoAnswer, Answers, Statuses, Bodies
<1>6. CASE pc \in LoopInside /\ Continue
  BY <1>1, <1>5, <1>6 DEF Continue, LoopInside
<1>7. CASE pc \in LoopInside \union {"acquire"} /\ Stop
  BY <1>1, <1>5, <1>7 DEF Stop, LoopInside
<1>8. ASSUME NEW r, pc # "done", Done(r) PROVE Control'
  <2>1. Len(out') = 1
    BY <1>8, FirstResponse DEF Done
  <2>2. pc' = "done" /\ lease' = NoLease /\ answer' = NoAnswer /\ attempt' = attempt
    BY <1>8 DEF Done
  <2>3. attempt' \in 0 .. MaxRetryAccounts + 1 /\ answer' \in Answers /\ gone' \in {"no", "yes"}
    BY <1>1, <1>5, <2>2
  <2>4. NoLeaseLeftBehind'
    BY <2>2
  <2> QED
    BY <2>1, <2>2, <2>3, <2>4
<1> QED
  BY <1>2, <1>3, <1>4, <1>6, <1>7, <1>8, HandlerMoves DEF Returns

\* Inside an attempt the account is one of the pool's.
LEMMA LeaseType ==
  ASSUME Control, pc \in Inside PROVE lease.acct \in Accounts /\ lease.bucket \in Buckets
BY DEF Control, NoLeaseLeftBehind, Inside, Outside, NoLease

\* A step of the handler keeps the types of what it gathers.
LEMMA DataStep ==
  ASSUME Control, Data, Handler
  PROVE  Data'
<1>1. /\ UNCHANGED <<req, bucketOf>> /\ req.provider \in Providers
      /\ AtCapacity \in Answers /\ answer \in Answers
  BY HandlerMoves, ProviderType DEF fixedVars, Data, Control, AtCapacity, Answers, Statuses, Bodies
<1> USE DEF Data, loopVars, historyVars, fixedVars
<1>2. CASE \/ Prepare \/ EnsureValidToken \/ Succeed \/ Accept \/ Abandon
           \/ AcquireFails \/ BuildFails \/ ReadFails \/ AcceptFails
           \/ PrepareRefuses \/ OwnerGone \/ finishRelayFailure
           \/ CountAcquire \/ CountEnsureToken \/ CountBuild \/ CountSend \/ CountAccept
           \/ CountFails \/ CountWrite
  BY <1>2 DEF Prepare, EnsureValidToken, Succeed, Accept, Abandon,
              AcquireFails, BuildFails, ReadFails, AcceptFails, PrepareRefuses, OwnerGone,
              finishRelayFailure, CountAcquire, CountEnsureToken, CountBuild, CountSend,
              CountAccept, CountFails, CountWrite, CountStep
<1>3. CASE AcquireRoute \/ BuildRequest \/ BuildInvalid \/ Write
  BY <1>3 DEF AcquireRoute, BuildRequest, BuildInvalid, Write, logRequest
<1>4. ASSUME pc \in Inside
      PROVE  lease.acct \in Accounts /\ lease.bucket \in Buckets
  BY <1>4, LeaseType
<1>5. CASE TokenInvalid \/ SendFails \/ PreflightFails \/ PreflightRefuses
  <2>1. lease.acct \in Accounts /\ lease.bucket \in Buckets
    BY <1>4, <1>5 DEF TokenInvalid, SendFails, PreflightFails, PreflightRefuses, Inside
  <2>2. outcomes' \in Seq(OutcomeRecord)
    BY <1>1, <1>5, <2>1, OutcomeAdded
       DEF TokenInvalid, SendFails, PreflightFails, PreflightRefuses
  <2>3. Interpret("codex", AtCapacity).kind \in EffectKinds
    BY <1>1, InterpretType DEF Providers
  <2>4. told' \subseteq [acct : Accounts, kind : EffectKinds \union {"cell"}]
    BY <1>5, <2>1, <2>3 DEF TokenInvalid, SendFails, PreflightFails, PreflightRefuses, Observe
  <2>5. /\ exAccounts' \subseteq Accounts /\ exBuckets' \subseteq Buckets
        /\ UNCHANGED <<forbiddenRetries, retryAccountID, tries>>
    BY <1>5, <2>1 DEF TokenInvalid, SendFails, PreflightFails, PreflightRefuses, exclude
  <2>6. rows' \in Nat
    BY <1>5 DEF TokenInvalid, SendFails, PreflightFails, PreflightRefuses, logRequest
  <2>7. lastUpstream' \in {0} \union Statuses
    <3>1. AtCapacity.status \in Statuses
      BY DEF AtCapacity, Statuses
    <3> QED
      BY <1>5, <3>1 DEF TokenInvalid, SendFails, PreflightFails, PreflightRefuses, Remember
  <2> QED
    BY <1>1, <2>2, <2>4, <2>5, <2>6, <2>7
<1>6. CASE Send
  <2>1. outcomes' \in Seq(OutcomeRecord)
    BY <1>4, <1>6, OutcomeAdded DEF Send, Inside
  <2> QED
    BY <1>6, <2>1 DEF Send
<1>7. CASE NonRetriable \/ RetrySame \/ RetryOther \/ Reject \/ ObserveSuccess
  <2>1. lease.acct \in Accounts /\ lease.bucket \in Buckets
    BY <1>4, <1>7 DEF NonRetriable, RetrySame, RetryOther, Reject, ObserveSuccess, Inside
  <2>2. Interpret(req.provider, answer).kind \in EffectKinds /\ answer.status \in Statuses
    BY <1>1, InterpretType DEF Answers
  <2>3. told' \subseteq [acct : Accounts, kind : EffectKinds \union {"cell"}]
    BY <1>7, <2>1, <2>2 DEF NonRetriable, RetrySame, RetryOther, Reject, ObserveSuccess, Observe
  <2>4. /\ exAccounts' \subseteq Accounts /\ exBuckets' \subseteq Buckets
        /\ UNCHANGED <<outcomes, tries>>
    BY <1>7, <2>1 DEF NonRetriable, RetrySame, RetryOther, Reject, ObserveSuccess, exclude
  <2>5. rows' \in Nat /\ lastUpstream' \in {0} \union Statuses
    BY <1>7, <2>2 DEF NonRetriable, RetrySame, RetryOther, Reject, ObserveSuccess, Remember,
                      logRequest
  <2>6. forbiddenRetries' \in [Accounts -> 0 .. 2] /\ retryAccountID' \in Accounts \union {NoAccount}
    BY <1>7, <2>1 DEF NonRetriable, RetrySame, RetryOther, Reject, ObserveSuccess,
                      RetrySameAccount, Prior
  <2> QED
    BY <1>1, <2>3, <2>4, <2>5, <2>6
<1> QED
  BY <1>2, <1>3, <1>5, <1>6, <1>7 DEF Handler

\* The environment's steps keep both.
LEMMA EnvironmentStep ==
  ASSUME Control, Data, Disconnect \/ Rekey \/ UNCHANGED vars
  PROVE  Control' /\ Data'
<1>1. CASE Disconnect
  BY <1>1 DEF Disconnect, Control, Data, NoLeaseLeftBehind, loopVars, historyVars
<1>2. CASE Rekey
  BY <1>2 DEF Rekey, Control, Data, NoLeaseLeftBehind, loopVars, historyVars
<1>3. CASE UNCHANGED vars
  BY <1>3 DEF vars, Control, Data, NoLeaseLeftBehind
<1> QED
  BY <1>1, <1>2, <1>3

\* Every step keeps the types and the control state.
LEMMA TypeStep == Control /\ Data /\ [Next]_vars => Control' /\ Data'
<1> SUFFICES ASSUME Control, Data, [Next]_vars PROVE Control' /\ Data'
  OBVIOUS
<1>1. CASE Handler
  BY <1>1, ControlStep, DataStep
<1>2. CASE Disconnect \/ Rekey \/ UNCHANGED vars
  BY <1>2, EnvironmentStep
<1> QED
  BY <1>1, <1>2 DEF Next, Returned

\* A request begins outside the loop, with nothing leased and nothing sent.
LEMMA TypeInit == Init => Control /\ Data
<1> SUFFICES ASSUME Init PROVE Control /\ Data
  OBVIOUS
<1>1. Control
  BY DEF Init, Control, Inside, Outside, NoLeaseLeftBehind, NoAnswer, Answers, Statuses, Bodies
<1>2. outcomes \in Seq(OutcomeRecord)
  BY EmptySeq DEF Init
<1>3. Data
  BY <1>2 DEF Init, Data
<1> QED
  BY <1>1, <1>3

\* The types and the control state hold throughout.
LEMMA TypesHold == Spec => [](Control /\ Data)
BY TypeInit, TypeStep, PTL DEF Spec

\* The relay's variables keep their types.
THEOREM TypeCorrect == Spec => []TypeOK
<1>1. Control /\ Data => TypeOK
  BY DEF Control, Data, TypeOK
<1> QED
  BY <1>1, TypesHold, PTL

\* The client gets exactly one response, and none only when it had disconnected: however
\* many accounts are tried and whatever fails on the way.
THEOREM OneAnswerGiven == Spec => []OneAnswer
<1>1. Len(<<>>) = 0
  OBVIOUS
<1>2. Control => OneAnswer
  <2> SUFFICES ASSUME Control PROVE OneAnswer
    OBVIOUS
  <2>1. Len(out) = 0 \/ Len(out) = 1
    BY <1>1 DEF Control
  <2>2. \A n \in {0, 1} : n <= 1
    OBVIOUS
  <2>3. Len(out) <= 1
    BY <2>1, <2>2, Zenon
  <2> QED
    BY <2>3 DEF Control, OneAnswer
<1> QED
  BY <1>2, TypesHold, PTL

\* No attempt leaves its lease behind, whichever way it returns.
THEOREM LeaseReturned == Spec => []NoLeaseLeftBehind
<1>1. Control => NoLeaseLeftBehind
  BY DEF Control
<1> QED
  BY <1>1, TypesHold, PTL

-----------------------------------------------------------------------------
(* The request log.                                                        *)

\* A request was built and its row is still to be logged.
Unlogged == {"send", "answered", "open", "accept", "write"}

\* The inductive invariant: LogsMatchTries and, between its states, whose turn it is.
LogInv ==
  /\ tries = rows \/ tries = rows + 1
  /\ pc \in Unlogged => tries = rows + 1
  /\ pc \notin Unlogged \union {"fail", "done"} => tries = rows
  /\ pc = "done" /\ Len(out) = 1 /\ out[1].kind \in {"ok", "validation", "conversation"} =>
       rows = tries

\* A response has the kind it was given.
LEMMA ResponseKind ==
  ASSUME Control, pc # "done", NEW k, NEW st, Done(Response(k, st))
  PROVE  /\ pc' = "done" /\ Len(out') = 1
         /\ out'[1].kind = k /\ out'[1].status = st
BY FirstResponse DEF Control, Done, Response

\* Every step keeps the count of log rows in step with the tries.
LEMMA LogStep ==
  ASSUME Control, Data, LogInv, [Next]_vars
  PROVE  LogInv'
<1> USE DEF LogInv, Unlogged, loopVars, fixedVars, historyVars, logRequest
<1>1. tries \in Nat /\ rows \in Nat
  BY DEF Data
<1>2. CASE AcquireRoute \/ CountAcquire
  BY <1>2 DEF AcquireRoute, CountAcquire
<1>3. CASE Prepare \/ EnsureValidToken \/ BuildRequest \/ Send \/ Succeed \/ ObserveSuccess \/ Accept
  BY <1>1, <1>3 DEF Prepare, EnsureValidToken, BuildRequest, Send, Succeed, ObserveSuccess, Accept, GoOn
<1>4. CASE CountEnsureToken \/ CountBuild \/ CountSend \/ CountAccept
  BY <1>4 DEF CountEnsureToken, CountBuild, CountSend, CountAccept, CountStep, GoOn
<1>5. CASE TokenInvalid \/ SendFails \/ RetrySame \/ RetryOther \/ PreflightFails \/ PreflightRefuses
  BY <1>1, <1>5 DEF TokenInvalid, SendFails, RetrySame, RetryOther, PreflightFails,
                    PreflightRefuses, Continue
<1>6. CASE AcquireFails \/ BuildFails \/ ReadFails \/ AcceptFails
  BY <1>6 DEF AcquireFails, BuildFails, ReadFails, AcceptFails, Stop
<1>7. CASE PrepareRefuses \/ CountFails \/ CountWrite
  BY <1>7 DEF PrepareRefuses, CountFails, CountWrite, Done
<1>8. CASE finishRelayFailure
  <2>1. CASE lastUpstream # 0
    BY <1>8, <2>1, ResponseKind DEF finishRelayFailure
  <2>2. CASE lastUpstream = 0
    BY <1>8, <2>2, ResponseKind DEF finishRelayFailure
  <2> QED
    BY <2>1, <2>2
<1>9. CASE NonRetriable \/ Reject
  BY <1>1, <1>9, ResponseKind DEF NonRetriable, Reject
<1>10. CASE OwnerGone
  BY <1>10 DEF OwnerGone, Done
<1>11. CASE BuildInvalid \/ Write
  BY <1>1, <1>11 DEF BuildInvalid, Write, Done
<1>12. CASE Abandon
  BY <1>12 DEF Abandon
<1>13. CASE Disconnect \/ Rekey \/ Returned \/ UNCHANGED vars
  BY <1>13 DEF Disconnect, Rekey, Returned, vars
<1> QED
  BY <1>2, <1>3, <1>4, <1>5, <1>6, <1>7, <1>8, <1>9, <1>10, <1>11, <1>12, <1>13
     DEF Next, Handler

\* Every request built for upstream has its log row before the next attempt and before
\* the response, but for the one a failure ending cut short.
THEOREM LogsComplete == Spec => []LogsMatchTries
<1>1. Init => LogInv
  BY DEF Init, LogInv, Unlogged
<1>2. Control /\ Data /\ LogInv /\ [Next]_vars => LogInv'
  BY LogStep
<1>3. Data /\ LogInv => LogsMatchTries
  BY DEF Data, LogInv, LogsMatchTries, Unlogged
<1> QED
  BY <1>1, <1>2, <1>3, TypesHold, PTL DEF Spec

-----------------------------------------------------------------------------
(* What happens to the outcomes.                                           *)

\* The outcomes dealt with: all but the one of an answer that is in hand.
Dealt == IF pc = "answered" THEN 1 .. Len(outcomes) - 1 ELSE 1 .. Len(outcomes)

\* The answer in hand is the latest outcome; a stream is opened on a 200 only.
InHand ==
  /\ pc = "answered" => /\ Len(outcomes) >= 1
                        /\ outcomes[Len(outcomes)] = [acct |-> lease.acct, ans |-> answer]

\* The pool knows of the outcome, or need not.
Reported(i) ==
  LET r == outcomes[i]
  IN \/ r.ans.status \in {0, 200}
     \/ r.ans.status = 429 /\ r.ans.body = "extraUsage"
     \/ Forbidden(r)
     \/ [acct |-> r.acct, kind |-> Interpret(req.provider, r.ans).kind] \in told

\* The status is that of the latest failure among the first n outcomes, or 0.
Latest(st, n) ==
  /\ st = 0 => \A i \in 1 .. n : ~Failed(i)
  /\ st # 0 => \E i \in 1 .. n : /\ Failed(i) /\ outcomes[i].ans.status = st
                               /\ \A j \in 1 .. n : Failed(j) => j <= i

\* The inductive invariant of FailuresAreTold and FailureShowsUpstream.
TellInv ==
  /\ InHand
  /\ \A i \in Dealt : Reported(i)
  /\ pc = "answered" => Latest(lastUpstream, Len(outcomes) - 1)
  /\ pc \notin {"answered", "done"} => Latest(lastUpstream, Len(outcomes))
  /\ FailureShowsUpstream

\* Outcomes are typed.
LEMMA OutcomesType ==
  ASSUME Data
  PROVE  /\ Len(outcomes) \in Nat /\ DOMAIN outcomes = 1 .. Len(outcomes)
         /\ \A i \in 1 .. Len(outcomes) :
              /\ outcomes[i] \in OutcomeRecord
              /\ outcomes[i].ans.status \in {0} \union Statuses
<1>1. outcomes \in Seq(OutcomeRecord)
  BY DEF Data
<1>2. Len(outcomes) \in Nat /\ DOMAIN outcomes = 1 .. Len(outcomes)
  BY <1>1, LenProperties
<1>3. \A i \in 1 .. Len(outcomes) : outcomes[i] \in OutcomeRecord
  BY <1>1, ElementOfSeq
<1>4. \A r \in OutcomeRecord : r.ans.status \in {0} \union Statuses
  BY DEF OutcomeRecord, Answers, NoReply
<1> QED
  BY <1>2, <1>3, <1>4

\* Outcomes that stay stay as they were reported: the pool is never untold.
LEMMA ReportedStays ==
  ASSUME NEW i, Reported(i), outcomes'[i] = outcomes[i], req' = req, told \subseteq told'
  PROVE  Reported(i)'
BY DEF Reported, Forbidden

\* A new outcome becomes the latest one, and the failure to be shown if it is one.
LEMMA LatestAdded ==
  ASSUME NEW st, NEW n \in Nat, Latest(st, n),
         \A i \in 1 .. n : outcomes'[i] = outcomes[i],
         NEW t, t = IF Failed(n + 1)' THEN outcomes'[n + 1].ans.status ELSE st
  PROVE  Latest(t, n + 1)'
<1>1. \A i \in 1 .. n : Failed(i)' <=> Failed(i)
  BY DEF Failed
<1>2. CASE Failed(n + 1)'
  <2>1. t # 0
    BY <1>2 DEF Failed
  <2> QED
    BY <1>2, <2>1 DEF Latest
<1>3. CASE ~Failed(n + 1)'
  <2>1. \A i \in 1 .. n + 1 : i \in 1 .. n \/ i = n + 1
    OBVIOUS
  <2> QED
    BY <1>1, <1>3, <2>1 DEF Latest
<1> QED
  BY <1>2, <1>3

\* A step that adds no outcome, with no answer in hand before or after it.
LEMMA QuietTells ==
  ASSUME Data, TellInv, UNCHANGED <<req, outcomes, lastUpstream>>, told \subseteq told',
         pc # "answered", pc # "done", pc' # "answered", pc' = "done" => FailureShowsUpstream'
  PROVE  TellInv'
<1>1. Dealt' = Dealt
  BY DEF Dealt
<1>2. \A i \in Dealt' : Reported(i)'
  BY <1>1, ReportedStays DEF TellInv
<1>3. pc' # "done" => Latest(lastUpstream, Len(outcomes))'
  BY DEF TellInv, Latest, Failed
<1>4. FailureShowsUpstream'
  BY DEF FailureShowsUpstream
<1> QED
  BY <1>2, <1>3, <1>4 DEF TellInv, InHand

\* An outcome added and dealt with in the same step.
LEMMA AddedTells ==
  ASSUME Data, TellInv, pc \notin {"answered", "done"}, pc' \notin {"answered", "done"},
         lease.acct \in Accounts, NEW ans \in Answers \union {NoReply}, Outcome(ans),
         req' = req, told \subseteq told',
         \/ ans.status \in {0, 200} /\ lastUpstream' = lastUpstream
         \/ /\ ans.status \notin {0, 200} /\ lastUpstream' = ans.status
            /\ [acct |-> lease.acct, kind |-> Interpret(req.provider, ans).kind] \in told'
  PROVE  TellInv'
<1>0. PICK n : n = Len(outcomes)
  OBVIOUS
<1>1. /\ n \in Nat /\ Len(outcomes') = n + 1
      /\ \A i \in 1 .. n : outcomes'[i] = outcomes[i]
      /\ outcomes'[n + 1] = [acct |-> lease.acct, ans |-> ans]
  BY <1>0, OutcomeAdded DEF Data
<1>2. Dealt' = 1 .. n + 1 /\ Dealt = 1 .. n
  BY <1>0, <1>1 DEF Dealt
<1>3. Reported(n + 1)'
  BY <1>1 DEF Reported
<1>4. \A i \in 1 .. n : Reported(i)'
  BY <1>1, <1>2, ReportedStays DEF TellInv
<1>5. \A i \in Dealt' : Reported(i)'
  <2>1. \A i \in 1 .. n + 1 : i \in 1 .. n \/ i = n + 1
    BY <1>1
  <2> QED
    BY <1>2, <1>3, <1>4, <2>1
<1>6. Latest(lastUpstream, Len(outcomes))'
  <2>1. Latest(lastUpstream, n)
    BY <1>0 DEF TellInv
  <2>2. lastUpstream' = IF Failed(n + 1)' THEN outcomes'[n + 1].ans.status ELSE lastUpstream
    BY <1>1 DEF Failed
  <2>3. ASSUME NEW t, t = lastUpstream' PROVE Latest(t, n + 1)'
    BY <1>1, <2>1, <2>2, <2>3, LatestAdded
  <2> QED
    BY <1>1, <2>3 DEF Latest
<1> QED
  BY <1>5, <1>6 DEF TellInv, InHand, FailureShowsUpstream

\* Send: the answer in hand is the one outcome not yet dealt with.
LEMMA SendTells ==
  ASSUME Control, Data, TellInv, Send
  PROVE  TellInv'
<1>0. PICK n : n = Len(outcomes)
  OBVIOUS
<1>1. PICK ans \in SomeAnswers : answer' = ans /\ Outcome(ans)
  BY DEF Send
<1>2. /\ pc = "send" /\ pc' = "answered"
      /\ UNCHANGED <<req, told, lease, lastUpstream>>
  BY DEF Send, GoOn, loopVars, fixedVars
<1>3. lease.acct \in Accounts
  BY <1>2, LeaseType DEF Inside
<1>4. /\ n \in Nat /\ Len(outcomes') = n + 1
      /\ \A i \in 1 .. n : outcomes'[i] = outcomes[i]
      /\ outcomes'[n + 1] = [acct |-> lease.acct, ans |-> ans]
  BY <1>0, <1>1, <1>3, OutcomeAdded DEF Data
<1>5. Dealt' = 1 .. n /\ Dealt = 1 .. n
  BY <1>0, <1>2, <1>4 DEF Dealt
<1>6. \A i \in Dealt' : Reported(i)'
  BY <1>2, <1>4, <1>5, ReportedStays DEF TellInv
<1>7. InHand'
  BY <1>1, <1>2, <1>4 DEF InHand
<1>8. Latest(lastUpstream, Len(outcomes) - 1)'
  <2>1. Latest(lastUpstream, n)
    BY <1>0, <1>2 DEF TellInv
  <2>2. Len(outcomes') - 1 = n
    BY <1>4
  <2>3. \A i \in 1 .. n : Failed(i)' <=> Failed(i)
    BY <1>4 DEF Failed
  <2> QED
    BY <1>2, <1>4, <2>1, <2>2, <2>3 DEF Latest
<1> QED
  BY <1>2, <1>6, <1>7, <1>8 DEF TellInv, FailureShowsUpstream

\* The answer in hand is dealt with.
LEMMA AnswerTells ==
  ASSUME Control, Data, TellInv,
         NonRetriable \/ RetrySame \/ RetryOther \/ Reject \/ Succeed
  PROVE  TellInv'
<1> USE DEF NonRetriable, RetrySame, RetryOther, Reject, Succeed
<1>0. PICK n : n = Len(outcomes) - 1
  OBVIOUS
<1>1. pc = "answered" /\ pc' # "answered" /\ UNCHANGED <<req, outcomes>> /\ told \subseteq told'
  BY DEF Continue, Done, GoOn, loopVars, fixedVars, historyVars, Observe
<1>2. /\ n \in Nat /\ Len(outcomes) = n + 1
      /\ outcomes[n + 1] = [acct |-> lease.acct, ans |-> answer]
      /\ answer.status \in Statuses
  BY <1>0, <1>1, OutcomesType DEF TellInv, InHand, Control, Answers
<1>3. Dealt = 1 .. n /\ Dealt' = 1 .. n + 1
  BY <1>0, <1>1, <1>2 DEF Dealt
<1>4. Reported(n + 1)'
  <2>1. CASE NonRetriable
    BY <1>1, <1>2, <2>1 DEF Reported, ParseNonRetriable
  <2>2. CASE RetrySame
    BY <1>1, <1>2, <2>2 DEF Reported, Forbidden, RetrySameAccount
  <2>3. CASE RetryOther \/ Reject
    BY <1>1, <1>2, <2>3 DEF Reported, Observe
  <2>4. CASE Succeed
    BY <1>1, <1>2, <2>4 DEF Reported
  <2> QED
    BY <2>1, <2>2, <2>3, <2>4
<1>5. \A i \in Dealt' : Reported(i)'
  <2>1. \A i \in 1 .. n : Reported(i)'
    BY <1>1, <1>3, ReportedStays DEF TellInv
  <2>2. \A i \in 1 .. n + 1 : i \in 1 .. n \/ i = n + 1
    BY <1>2
  <2> QED
    BY <1>3, <1>4, <2>1, <2>2
<1>6. Latest(lastUpstream, n)
  BY <1>0, <1>1 DEF TellInv
<1>7. ASSUME NEW t, t = IF Failed(n + 1)' THEN answer.status ELSE lastUpstream
      PROVE  Latest(t, n + 1)'
  BY <1>1, <1>2, <1>6, <1>7, LatestAdded
<1>8. Failed(n + 1)' <=> answer.status # 200
  <2>1. 0 \notin Statuses
    BY DEF Statuses
  <2>2. outcomes'[n + 1].ans.status = answer.status
    BY <1>1, <1>2
  <2> QED
    BY <1>2, <2>1, <2>2 DEF Failed
<1>9. CASE RetrySame \/ RetryOther \/ Succeed
  <2>1. lastUpstream' = IF Failed(n + 1)' THEN answer.status ELSE lastUpstream
    BY <1>8, <1>9 DEF Remember, Retriable, ShouldRetry, loopVars
  <2>2. Latest(lastUpstream, Len(outcomes))'
    BY <1>1, <1>2, <1>7, <2>1 DEF Latest
  <2>3. pc' # "done"
    BY <1>9 DEF Continue, GoOn
  <2> QED
    BY <1>1, <1>5, <2>2, <2>3 DEF TellInv, InHand, FailureShowsUpstream
<1>10. CASE NonRetriable \/ Reject
  <2>1. /\ pc' = "done" /\ out'[1].kind = "upstream" /\ out'[1].status = answer.status
        /\ answer.status # 200
    BY <1>1, <1>10, ResponseKind DEF Retriable, ShouldRetry
  <2>2. FailureShowsUpstream'
    <3>1. \E i \in 1 .. n + 1 : /\ Failed(i)' /\ outcomes'[i].ans.status = answer.status
                                /\ \A j \in 1 .. n + 1 : Failed(j)' => j <= i
      <4>1. n + 1 \in 1 .. n + 1 /\ \A j \in 1 .. n + 1 : j <= n + 1
        BY <1>2
      <4> QED
        BY <1>1, <1>2, <1>8, <2>1, <4>1
    <3>2. DOMAIN outcomes' = 1 .. n + 1
      BY <1>1, <1>2, OutcomesType
    <3> QED
      BY <2>1, <3>1, <3>2 DEF FailureShowsUpstream
  <2> QED
    BY <1>1, <1>5, <2>1, <2>2 DEF TellInv, InHand
<1> QED
  BY <1>9, <1>10

\* Every step keeps the invariant.
LEMMA TellStep ==
  ASSUME Control, Data, TellInv, [Next]_vars
  PROVE  TellInv'
<1> USE DEF loopVars, fixedVars, historyVars
<1>1. CASE \/ AcquireRoute \/ CountAcquire
           \/ Prepare \/ EnsureValidToken \/ BuildRequest \/ ObserveSuccess \/ Accept
           \/ CountEnsureToken \/ CountBuild \/ CountSend \/ CountAccept
           \/ AcquireFails \/ BuildFails \/ ReadFails \/ AcceptFails
  <2>1. /\ UNCHANGED <<req, outcomes, lastUpstream>> /\ told \subseteq told'
        /\ pc \notin {"answered", "done"} /\ pc' \notin {"answered", "done"}
    BY <1>1 DEF AcquireRoute, CountAcquire, Prepare, EnsureValidToken, BuildRequest,
                ObserveSuccess, Accept, CountEnsureToken, CountBuild, CountSend, CountAccept,
                CountStep, AcquireFails, BuildFails, ReadFails, AcceptFails, GoOn, Stop, Observe
  <2> QED
    BY <2>1, QuietTells
<1>2. CASE \/ PrepareRefuses \/ OwnerGone \/ BuildInvalid \/ Write
           \/ CountFails \/ CountWrite
  <2>1. /\ UNCHANGED <<req, outcomes, lastUpstream, told>>
        /\ pc \notin {"answered", "done"} /\ pc' = "done"
        /\ out'[1].kind \in {"local", "conversation", "validation", "ok", "count"}
    BY <1>2, ResponseKind
       DEF PrepareRefuses, OwnerGone, BuildInvalid, Write, CountFails, CountWrite
  <2>2. FailureShowsUpstream'
    BY <2>1 DEF FailureShowsUpstream
  <2> QED
    BY <2>1, <2>2, QuietTells
<1>3. CASE Abandon
  <2>1. /\ UNCHANGED <<req, outcomes, lastUpstream, told>>
        /\ pc = "acquire" /\ pc' = "done" /\ out' = <<>>
    BY <1>3 DEF Abandon, Control
  <2>2. Len(<<>>) # 1
    OBVIOUS
  <2>3. FailureShowsUpstream'
    BY <2>1, <2>2 DEF FailureShowsUpstream
  <2> QED
    BY <2>1, <2>3, QuietTells
<1>4. CASE finishRelayFailure
  <2>1. /\ UNCHANGED <<req, outcomes, lastUpstream, told>>
        /\ pc = "fail" /\ pc' = "done"
    BY <1>4 DEF finishRelayFailure, Done
  <2>2. Latest(lastUpstream, Len(outcomes)) /\ DOMAIN outcomes = 1 .. Len(outcomes)
    BY <2>1, OutcomesType DEF TellInv
  <2>3. CASE lastUpstream # 0
    <3>1. out'[1].kind = "upstream" /\ out'[1].status = lastUpstream
      BY <1>4, <2>1, <2>3, ResponseKind DEF finishRelayFailure
    <3> QED
      BY <2>1, <2>2, <2>3, <3>1, QuietTells DEF Latest, FailureShowsUpstream, Failed
  <2>4. CASE lastUpstream = 0
    <3>1. out'[1].kind = "unavailable"
      BY <1>4, <2>1, <2>4, ResponseKind DEF finishRelayFailure
    <3> QED
      BY <2>1, <2>2, <2>4, <3>1, QuietTells DEF Latest, FailureShowsUpstream, Failed
  <2> QED
    BY <2>3, <2>4
<1>5. CASE TokenInvalid \/ SendFails \/ PreflightFails
  <2>1. /\ pc \notin {"answered", "done"} /\ pc' \notin {"answered", "done"} /\ pc \in Inside
        /\ Outcome(NoReply) /\ UNCHANGED <<req, lastUpstream>> /\ told \subseteq told'
    BY <1>5 DEF TokenInvalid, SendFails, PreflightFails, Continue, Inside
  <2>2. NoReply.status = 0
    BY DEF NoReply
  <2> QED
    BY <2>1, <2>2, LeaseType, AddedTells
<1>6. CASE PreflightRefuses
  <2>1. /\ pc \notin {"answered", "done"} /\ pc' \notin {"answered", "done"} /\ pc \in Inside
        /\ Outcome(AtCapacity) /\ req' = req /\ req.provider = "codex"
        /\ told' = told \union {[acct |-> lease.acct, kind |-> Interpret("codex", AtCapacity).kind]}
        /\ lastUpstream' = AtCapacity.status
    BY <1>6 DEF PreflightRefuses, Preflighted, Continue, Inside, Observe, Remember
  <2>2. AtCapacity \in Answers /\ AtCapacity.status \notin {0, 200}
    BY DEF AtCapacity, Answers, Statuses, Bodies
  <2> QED
    BY <2>1, <2>2, LeaseType, AddedTells
<1>7. CASE Send
  BY <1>7, SendTells
<1>8. CASE NonRetriable \/ RetrySame \/ RetryOther \/ Reject \/ Succeed
  BY <1>8, AnswerTells
<1>9. CASE Disconnect \/ Rekey \/ Returned \/ UNCHANGED vars
  <2>1. UNCHANGED <<req, pc, lease, answer, lastUpstream, out, told, outcomes>>
    BY <1>9 DEF Disconnect, Rekey, Returned, vars
  <2> QED
    BY <2>1 DEF TellInv, InHand, Dealt, Reported, Latest, Failed, Forbidden, FailureShowsUpstream
<1> QED
  BY <1>1, <1>2, <1>3, <1>4, <1>5, <1>6, <1>7, <1>8, <1>9 DEF Next, Handler

\* The invariant about what the pool is told holds throughout.
LEMMA TellHolds == Spec => []TellInv
<1>1. Init => TellInv
  <2> SUFFICES ASSUME Init PROVE TellInv
    OBVIOUS
  <2>1. Len(outcomes) = 0 /\ pc = "prepare" /\ lastUpstream = 0
    BY DEF Init
  <2> QED
    BY <2>1 DEF TellInv, InHand, Dealt, Latest, FailureShowsUpstream
<1>2. Control /\ Data /\ TellInv /\ [Next]_vars => TellInv'
  BY TellStep
<1> QED
  BY <1>1, <1>2, TypesHold, PTL DEF Spec

\* Pool.Observe hears of every failing answer, whatever comes after it in the request and
\* however the request ends.
THEOREM FailuresTold == Spec => []FailuresAreTold
<1>1. Data /\ TellInv => FailuresAreTold
  <2> SUFFICES ASSUME Data, TellInv, pc \in {"acquire", "fail", "done"}, NEW i \in DOMAIN outcomes
               PROVE  Reported(i)
    BY DEF FailuresAreTold, Reported
  <2>1. DOMAIN outcomes = 1 .. Len(outcomes)
    BY OutcomesType
  <2> QED
    BY <2>1 DEF TellInv, Dealt
<1> QED
  BY <1>1, TypesHold, TellHolds, PTL

\* finishRelayFailure and the direct answers show the client the latest error of upstream,
\* and "no available accounts" only when there was none.
THEOREM UpstreamShown == Spec => []FailureShowsUpstream
<1>1. TellInv => FailureShowsUpstream
  BY DEF TellInv
<1> QED
  BY <1>1, TellHolds, PTL

-----------------------------------------------------------------------------
(* No return to what is spent.                                             *)

\* The exclusions keep the account out, as long as it keeps its bucket.
Barred(a) == a \in exAccounts \/ HomeBucket[a] \in exBuckets

\* An outcome that spends its account has led to the exclusion it calls for.
Fenced(i) ==
  LET r == outcomes[i]
  IN  Spends(r) /\ r.acct \notin Rekeyed =>
        /\ Barred(r.acct)
        /\ SpendsBucket(r) => HomeBucket[r.acct] \in exBuckets

\* The first half of NoReturnToSpent, for one pair of outcomes.
Apart(i, j) ==
  LET a == outcomes[i].acct
      b == outcomes[j].acct
  IN i < j /\ Spends(outcomes[i]) =>
       /\ a = b => a \in Rekeyed
       /\ SpendsBucket(outcomes[i]) /\ HomeBucket[a] = HomeBucket[b] =>
            {a, b} \intersect Rekeyed # {}

\* The lease was granted by the exclusions, which grow only when it is returned.
Admitted ==
  /\ \A a \in Accounts \ Rekeyed : bucketOf[a] = HomeBucket[a]
  /\ pc \in Inside => /\ lease.acct \notin exAccounts /\ lease.bucket \notin exBuckets
                      /\ lease.acct \notin Rekeyed => lease.bucket = HomeBucket[lease.acct]

\* The inductive invariant.
SpentInv ==
  /\ Admitted
  /\ pc # "done" => \A i \in Dealt : Fenced(i)
  /\ \A i, j \in 1 .. Len(outcomes) : Apart(i, j)

\* Steps of the handler keep Admitted.
LEMMA AdmittedStep ==
  ASSUME Control, Data, Admitted, [Next]_vars
  PROVE  Admitted'
<1>1. CASE Handler
  <2>1. UNCHANGED bucketOf
    BY <1>1, HandlerMoves DEF fixedVars
  <2>2. CASE AcquireRoute
    BY <2>1, <2>2 DEF Admitted, AcquireRoute, Routes, Data
  <2>3. CASE CountAcquire
    BY <2>1, <2>3 DEF Admitted, CountAcquire, Routes, Data, loopVars
  <2>4. CASE \/ Prepare \/ EnsureValidToken \/ BuildRequest \/ Send \/ Succeed \/ ObserveSuccess
             \/ Accept \/ CountEnsureToken \/ CountBuild \/ CountSend \/ CountAccept
    BY <2>1, <2>4
       DEF Admitted, Prepare, EnsureValidToken, BuildRequest, Send, Succeed, ObserveSuccess,
           Accept, CountEnsureToken, CountBuild, CountSend, CountAccept, CountStep, GoOn, loopVars,
           Inside
  <2>5. CASE pc' \notin Inside
    BY <2>1, <2>5 DEF Admitted
  <2>6. CASE \/ TokenInvalid \/ SendFails \/ RetrySame \/ RetryOther \/ PreflightFails
             \/ PreflightRefuses \/ AcquireFails \/ BuildFails \/ ReadFails \/ AcceptFails
             \/ PrepareRefuses \/ OwnerGone \/ BuildInvalid \/ NonRetriable \/ Reject \/ Write
             \/ finishRelayFailure \/ CountFails \/ CountWrite \/ Abandon
    BY <2>5, <2>6
       DEF TokenInvalid, SendFails, RetrySame, RetryOther, PreflightFails, PreflightRefuses,
           AcquireFails, BuildFails, ReadFails, AcceptFails, PrepareRefuses, OwnerGone,
           BuildInvalid, NonRetriable, Reject, Write, finishRelayFailure, CountFails,
           CountWrite, Abandon, Continue, Stop, Done, Inside
  <2> QED
    BY <1>1, <2>2, <2>3, <2>4, <2>6 DEF Handler
<1>2. CASE Rekey
  BY <1>2 DEF Rekey, Admitted, Data, loopVars
<1>3. CASE Disconnect \/ Returned \/ UNCHANGED vars
  BY <1>3 DEF Disconnect, Returned, vars, Admitted, loopVars
<1> QED
  BY <1>1, <1>2, <1>3 DEF Next

\* Exclusions are never taken back.
LEMMA FencedStays ==
  ASSUME NEW i, Fenced(i), outcomes'[i] = outcomes[i], req' = req,
         exAccounts \subseteq exAccounts', exBuckets \subseteq exBuckets'
  PROVE  Fenced(i)'
BY DEF Fenced, Spends, SpendsBucket, Forbidden, Barred

\* Two outcomes that are apart stay so while neither changes.
LEMMA ApartStays ==
  ASSUME NEW i, NEW j, Apart(i, j), outcomes'[i] = outcomes[i], outcomes'[j] = outcomes[j],
         req' = req
  PROVE  Apart(i, j)'
BY DEF Apart, Spends, SpendsBucket, Forbidden

\* A lease is apart from everything that is fenced off.
LEMMA NewApart ==
  ASSUME Control, Data, Admitted, pc \in Inside, NEW ans \in Answers \union {NoReply}, Outcome(ans),
         req' = req, \A i \in 1 .. Len(outcomes) : Fenced(i),
         \A i, j \in 1 .. Len(outcomes) : Apart(i, j)
  PROVE  \A i, j \in 1 .. Len(outcomes') : Apart(i, j)'
<1>0. PICK n : n = Len(outcomes)
  OBVIOUS
<1>1. lease.acct \in Accounts
  BY LeaseType
<1>2. /\ n \in Nat /\ Len(outcomes') = n + 1
      /\ \A i \in 1 .. n : outcomes'[i] = outcomes[i]
      /\ outcomes'[n + 1] = [acct |-> lease.acct, ans |-> ans]
  BY <1>0, <1>1, OutcomeAdded DEF Data
<1> SUFFICES ASSUME NEW i \in 1 .. n + 1, NEW j \in 1 .. n + 1, i < j PROVE Apart(i, j)'
  BY <1>2 DEF Apart
<1>3. i \in 1 .. n
  BY <1>2
<1>4. CASE j \in 1 .. n
  BY <1>0, <1>2, <1>3, <1>4, ApartStays
<1>5. CASE j = n + 1
  <2>1. Fenced(i) /\ outcomes'[i] = outcomes[i]
    BY <1>0, <1>2, <1>3
  <2>2. outcomes'[j].acct = lease.acct
    BY <1>2, <1>5
  <2> QED
    BY <2>1, <2>2 DEF Apart, Fenced, Barred, Admitted, Spends, SpendsBucket, Forbidden
<1> QED
  BY <1>2, <1>4, <1>5

\* What an attempt that is given up excludes.
LEMMA ExcludeGrows ==
  ASSUME Admitted, pc \in Inside, NEW scope, exclude(scope)
  PROVE  /\ exAccounts \subseteq exAccounts' /\ exBuckets \subseteq exBuckets'
         /\ lease.acct \notin Rekeyed =>
              /\ lease.acct \in exAccounts' \/ HomeBucket[lease.acct] \in exBuckets'
              /\ scope = "bucket" => HomeBucket[lease.acct] \in exBuckets'
BY DEF exclude, Admitted

\* An attempt that ends with an outcome of its own.
LEMMA AddedSpent ==
  ASSUME Control, Data, SpentInv, Admitted', pc \in Inside \ {"answered"}, pc' # "answered",
         NEW ans \in Answers \union {NoReply}, Outcome(ans), req' = req,
         NEW scope, exclude(scope),
         ans.status # 0 => scope = Interpret(req.provider, ans).scope
  PROVE  SpentInv'
<1>0. PICK n : n = Len(outcomes)
  OBVIOUS
<1>1. lease.acct \in Accounts /\ Dealt = 1 .. Len(outcomes) /\ pc # "done"
  BY LeaseType DEF Dealt, Inside
<1>2. /\ n \in Nat /\ Len(outcomes') = n + 1
      /\ \A i \in 1 .. n : outcomes'[i] = outcomes[i]
      /\ outcomes'[n + 1] = [acct |-> lease.acct, ans |-> ans]
  BY <1>0, <1>1, OutcomeAdded DEF Data
<1>3. \A i, j \in 1 .. Len(outcomes') : Apart(i, j)'
  BY <1>1, NewApart DEF SpentInv
<1>4. /\ exAccounts \subseteq exAccounts' /\ exBuckets \subseteq exBuckets'
      /\ lease.acct \notin Rekeyed =>
           /\ lease.acct \in exAccounts' \/ HomeBucket[lease.acct] \in exBuckets'
           /\ scope = "bucket" => HomeBucket[lease.acct] \in exBuckets'
  BY ExcludeGrows DEF SpentInv
<1>5. \A i \in 1 .. n : Fenced(i)'
  BY <1>0, <1>1, <1>2, <1>4, FencedStays DEF SpentInv
<1>6. Fenced(n + 1)'
  <2>1. outcomes'[n + 1].acct = lease.acct /\ outcomes'[n + 1].ans = ans
    BY <1>2
  <2> QED
    BY <1>4, <2>1 DEF Fenced, Barred, SpendsBucket
<1>7. Dealt' = 1 .. n + 1 /\ \A i \in 1 .. n + 1 : i \in 1 .. n \/ i = n + 1
  BY <1>2 DEF Dealt
<1> QED
  BY <1>3, <1>5, <1>6, <1>7 DEF SpentInv

\* An answer just received is not dealt with yet.
LEMMA SendSpent ==
  ASSUME Control, Data, SpentInv, Admitted', Send
  PROVE  SpentInv'
<1>0. PICK n : n = Len(outcomes)
  OBVIOUS
<1>1. PICK ans \in SomeAnswers : Outcome(ans)
  BY DEF Send
<1>2. /\ pc = "send" /\ pc' = "answered" /\ pc \in Inside
      /\ UNCHANGED <<req, exAccounts, exBuckets>>
  BY DEF Send, GoOn, loopVars, fixedVars, Inside
<1>3. lease.acct \in Accounts
  BY <1>2, LeaseType
<1>4. /\ n \in Nat /\ Len(outcomes') = n + 1
      /\ \A i \in 1 .. n : outcomes'[i] = outcomes[i]
  BY <1>0, <1>1, <1>3, OutcomeAdded DEF Data
<1>5. Dealt = 1 .. n /\ Dealt' = 1 .. n
  BY <1>0, <1>2, <1>4 DEF Dealt
<1>6. \A i, j \in 1 .. Len(outcomes') : Apart(i, j)'
  BY <1>0, <1>1, <1>2, <1>5, NewApart DEF SpentInv
<1>7. \A i \in 1 .. n : Fenced(i)'
  BY <1>2, <1>4, <1>5, FencedStays DEF SpentInv
<1> QED
  BY <1>5, <1>6, <1>7 DEF SpentInv

\* The answer in hand is dealt with: by an exclusion, unless it does not spend its account.
LEMMA AnswerSpent ==
  ASSUME Control, Data, TellInv, SpentInv, Admitted',
         NonRetriable \/ RetrySame \/ RetryOther \/ Reject \/ Succeed
  PROVE  SpentInv'
<1> USE DEF NonRetriable, RetrySame, RetryOther, Reject, Succeed
<1>0. PICK n : n = Len(outcomes) - 1
  OBVIOUS
<1>1. pc = "answered" /\ pc \in Inside /\ pc' # "answered" /\ UNCHANGED <<req, outcomes>>
  BY DEF Continue, Done, GoOn, loopVars, fixedVars, historyVars, Inside
<1>2. /\ n \in Nat /\ Len(outcomes) = n + 1
      /\ outcomes[n + 1] = [acct |-> lease.acct, ans |-> answer]
  BY <1>0, <1>1, OutcomesType DEF TellInv, InHand
<1>3. Dealt = 1 .. n /\ Dealt' = 1 .. n + 1
  BY <1>0, <1>1, <1>2 DEF Dealt
<1>4. \A i, j \in 1 .. Len(outcomes') : Apart(i, j)'
  BY <1>1, ApartStays DEF SpentInv
<1>5. CASE NonRetriable \/ Reject
  <2>1. pc' = "done"
    BY <1>5 DEF Done
  <2> QED
    BY <1>4, <2>1 DEF SpentInv
<1>6. CASE RetrySame \/ Succeed
  <2>1. UNCHANGED <<exAccounts, exBuckets>>
    BY <1>6 DEF loopVars
  <2>2. \A i \in 1 .. n : Fenced(i)'
    BY <1>1, <1>3, <2>1, FencedStays DEF SpentInv
  <2>3. Fenced(n + 1)'
    BY <1>1, <1>2, <1>6 DEF Fenced, Spends, Forbidden, RetrySameAccount
  <2>4. \A i \in 1 .. n + 1 : i \in 1 .. n \/ i = n + 1
    BY <1>2
  <2> QED
    BY <1>3, <1>4, <2>2, <2>3, <2>4 DEF SpentInv
<1>7. CASE RetryOther
  <2> DEFINE scope == Interpret(req.provider, answer).scope
  <2>1. exclude(scope)
    BY <1>7
  <2> HIDE DEF scope
  <2>2. /\ exAccounts \subseteq exAccounts' /\ exBuckets \subseteq exBuckets'
        /\ lease.acct \notin Rekeyed =>
             /\ lease.acct \in exAccounts' \/ HomeBucket[lease.acct] \in exBuckets'
             /\ scope = "bucket" => HomeBucket[lease.acct] \in exBuckets'
    BY <1>1, <2>1, ExcludeGrows DEF SpentInv
  <2>3. \A i \in 1 .. n : Fenced(i)'
    BY <1>1, <1>3, <2>2, FencedStays DEF SpentInv
  <2>4. Fenced(n + 1)'
    BY <1>1, <1>2, <2>2 DEF Fenced, Barred, SpendsBucket, scope
  <2>5. \A i \in 1 .. n + 1 : i \in 1 .. n \/ i = n + 1
    BY <1>2
  <2> QED
    BY <1>3, <1>4, <2>3, <2>4, <2>5 DEF SpentInv
<1> QED
  BY <1>5, <1>6, <1>7

\* Steps that neither add an outcome nor exclude anything.
LEMMA QuietSpent ==
  ASSUME SpentInv, Admitted', UNCHANGED <<req, outcomes, exAccounts, exBuckets>>,
         \/ pc' = "done" \/ pc' = pc \/ {pc, pc'} \intersect {"answered", "done"} = {}
  PROVE  SpentInv'
<1>1. \A i, j \in 1 .. Len(outcomes') : Apart(i, j)'
  BY ApartStays DEF SpentInv
<1>2. CASE pc' = "done"
  BY <1>1, <1>2 DEF SpentInv
<1>3. CASE pc' # "done"
  <2>1. Dealt' = Dealt /\ pc # "done"
    BY <1>3 DEF Dealt
  <2>2. \A i \in Dealt : Fenced(i)'
    BY <2>1, FencedStays DEF SpentInv
  <2> QED
    BY <1>1, <2>1, <2>2 DEF SpentInv
<1> QED
  BY <1>2, <1>3

\* Every step keeps the invariant.
LEMMA SpentStep ==
  ASSUME Control, Data, TellInv, SpentInv, [Next]_vars
  PROVE  SpentInv'
<1>0. Admitted'
  BY AdmittedStep DEF SpentInv
<1>1. CASE \/ AcquireRoute \/ CountAcquire
           \/ Prepare \/ EnsureValidToken \/ BuildRequest \/ ObserveSuccess \/ Accept
           \/ CountEnsureToken \/ CountBuild \/ CountSend \/ CountAccept
           \/ AcquireFails \/ BuildFails \/ ReadFails \/ AcceptFails
  <2>1. /\ UNCHANGED <<req, outcomes, exAccounts, exBuckets>>
        /\ pc \notin {"answered", "done"} /\ pc' \notin {"answered", "done"}
    BY <1>1 DEF AcquireRoute, CountAcquire, Prepare, EnsureValidToken, BuildRequest,
                ObserveSuccess, Accept, CountEnsureToken, CountBuild, CountSend, CountAccept,
                CountStep, AcquireFails, BuildFails, ReadFails, AcceptFails, GoOn, Stop,
                loopVars, fixedVars, historyVars
  <2> QED
    BY <1>0, <2>1, QuietSpent
<1>2. CASE \/ PrepareRefuses \/ OwnerGone \/ BuildInvalid \/ Write \/ Abandon
           \/ finishRelayFailure \/ CountFails \/ CountWrite
  <2>1. UNCHANGED <<req, outcomes, exAccounts, exBuckets>> /\ pc' = "done"
    BY <1>2 DEF PrepareRefuses, OwnerGone, BuildInvalid, Write, Abandon, finishRelayFailure,
                CountFails, CountWrite, Done, loopVars, fixedVars, historyVars
  <2> QED
    BY <1>0, <2>1, QuietSpent
<1>3. CASE TokenInvalid \/ SendFails \/ PreflightFails
  <2>1. /\ pc \in Inside \ {"answered"} /\ pc' # "answered"
        /\ Outcome(NoReply) /\ req' = req /\ exclude("account")
    BY <1>3 DEF TokenInvalid, SendFails, PreflightFails, Continue, Inside, fixedVars
  <2>2. NoReply.status = 0
    BY DEF NoReply
  <2> QED
    BY <1>0, <2>1, <2>2, AddedSpent
<1>4. CASE PreflightRefuses
  <2>1. /\ pc \in Inside \ {"answered"} /\ pc' # "answered"
        /\ Outcome(AtCapacity) /\ req' = req /\ req.provider = "codex"
        /\ exclude(Interpret("codex", AtCapacity).scope)
    BY <1>4 DEF PreflightRefuses, Preflighted, Continue, Inside, fixedVars
  <2>2. AtCapacity \in Answers
    BY DEF AtCapacity, Answers, Statuses, Bodies
  <2> QED
    BY <1>0, <2>1, <2>2, AddedSpent
<1>5. CASE Send
  BY <1>0, <1>5, SendSpent
<1>6. CASE NonRetriable \/ RetrySame \/ RetryOther \/ Reject \/ Succeed
  BY <1>0, <1>6, AnswerSpent
<1>7. CASE Disconnect \/ Rekey \/ Returned \/ UNCHANGED vars
  <2>1. UNCHANGED <<req, pc, outcomes, exAccounts, exBuckets>>
    BY <1>7 DEF Disconnect, Rekey, Returned, vars, loopVars, historyVars
  <2> QED
    BY <1>0, <2>1, QuietSpent
<1> QED
  BY <1>1, <1>2, <1>3, <1>4, <1>5, <1>6, <1>7 DEF Next, Handler

\* The invariant holds from the start.
LEMMA SpentHolds == Spec => []SpentInv
<1>1. Init => SpentInv
  <2> SUFFICES ASSUME Init PROVE SpentInv
    OBVIOUS
  <2>1. Len(outcomes) = 0 /\ pc = "prepare" /\ bucketOf = HomeBucket
    BY DEF Init
  <2> QED
    BY <2>1 DEF SpentInv, Admitted, Dealt, Inside
<1>2. Control /\ Data /\ TellInv /\ SpentInv /\ [Next]_vars => SpentInv'
  BY SpentStep
<1> QED
  BY <1>1, <1>2, TypesHold, TellHolds, PTL DEF Spec

\* The 403s an account has answered with.
Forbids(a) == {i \in DOMAIN outcomes : /\ outcomes[i].acct = a
                                       /\ outcomes[i].ans.status = 403}

\* One 403 more than the same-account retries: the one in hand, or the one that led to
\* the account's exclusion.
OneMore(a) == \/ pc = "answered" /\ lease.acct = a /\ answer.status = 403
              \/ Barred(a)

\* Every 403 but one is paid for by a same-account retry.
CountInv ==
  \A a \in Accounts \ Rekeyed :
    IF pc = "done" THEN Cardinality(Forbids(a)) <= 3
    ELSE Cardinality(Forbids(a)) <= forbiddenRetries[a] + (IF OneMore(a) THEN 1 ELSE 0)

\* There are finitely many.
LEMMA ForbidsFinite ==
  ASSUME Data, NEW a
  PROVE  IsFiniteSet(Forbids(a)) /\ Cardinality(Forbids(a)) \in Nat
<1>1. Len(outcomes) \in Nat /\ DOMAIN outcomes = 1 .. Len(outcomes)
  BY OutcomesType
<1>2. IsFiniteSet(1 .. Len(outcomes))
  BY <1>1, FS_Interval
<1>3. Forbids(a) \subseteq 1 .. Len(outcomes)
  BY <1>1 DEF Forbids
<1>4. IsFiniteSet(Forbids(a))
  BY <1>2, <1>3, FS_Subset
<1> QED
  BY <1>4, FS_CardinalityType

\* A new outcome is one more if it is a 403 of the account.
LEMMA ForbidsAdded ==
  ASSUME Data, lease.acct \in Accounts, NEW ans \in Answers \union {NoReply}, Outcome(ans), NEW a
  PROVE  Cardinality(Forbids(a)') = Cardinality(Forbids(a))
            + (IF lease.acct = a /\ ans.status = 403 THEN 1 ELSE 0)
<1>0. PICK n : n = Len(outcomes)
  OBVIOUS
<1>1. /\ n \in Nat /\ Len(outcomes') = n + 1
      /\ DOMAIN outcomes = 1 .. n /\ DOMAIN outcomes' = 1 .. n + 1
      /\ \A i \in 1 .. n : outcomes'[i] = outcomes[i]
      /\ outcomes'[n + 1] = [acct |-> lease.acct, ans |-> ans]
  BY <1>0, OutcomeAdded, OutcomesType DEF Data
<1>2. IsFiniteSet(Forbids(a)) /\ Cardinality(Forbids(a)) \in Nat
  BY ForbidsFinite
<1>3. n + 1 \notin Forbids(a) /\ \A i : i \in 1 .. n + 1 <=> i \in 1 .. n \/ i = n + 1
  BY <1>1 DEF Forbids
<1>4. outcomes'[n + 1].acct = lease.acct /\ outcomes'[n + 1].ans.status = ans.status
  BY <1>1
<1>5. CASE lease.acct = a /\ ans.status = 403
  <2>1. Forbids(a)' = Forbids(a) \union {n + 1}
    BY <1>1, <1>3, <1>4, <1>5 DEF Forbids
  <2>2. Cardinality(Forbids(a) \union {n + 1}) = Cardinality(Forbids(a)) + 1
    BY <1>2, <1>3, FS_AddElement
  <2> QED
    BY <1>5, <2>1, <2>2
<1>6. CASE ~(lease.acct = a /\ ans.status = 403)
  <2>1. Forbids(a)' = Forbids(a)
    BY <1>1, <1>3, <1>4, <1>6 DEF Forbids
  <2> QED
    BY <1>2, <1>6, <2>1
<1> QED
  BY <1>5, <1>6

\* No account answers with more than three 403s: the invariant bounds them.
LEMMA CountBound ==
  ASSUME Data, CountInv, NEW a \in Accounts \ Rekeyed
  PROVE  Cardinality(Forbids(a)) <= 3
<1>1. Cardinality(Forbids(a)) \in Nat /\ forbiddenRetries[a] \in 0 .. 2
  BY ForbidsFinite DEF Data
<1> QED
  BY <1>1 DEF CountInv

\* Steps that add no 403.
LEMMA QuietCounts ==
  ASSUME Data, CountInv, UNCHANGED forbiddenRetries,
         \A a \in Accounts \ Rekeyed : Cardinality(Forbids(a)') = Cardinality(Forbids(a)),
         exAccounts \subseteq exAccounts', exBuckets \subseteq exBuckets',
         \/ pc' = "done" \/ UNCHANGED <<pc, lease, answer>>
         \/ pc \notin {"answered", "done"} /\ pc' \notin {"answered", "done"}
  PROVE  CountInv'
<1> SUFFICES ASSUME NEW a \in Accounts \ Rekeyed
             PROVE IF pc' = "done" THEN Cardinality(Forbids(a)') <= 3
                   ELSE Cardinality(Forbids(a)') <= forbiddenRetries'[a] + (IF OneMore(a)' THEN 1 ELSE 0)
  BY DEF CountInv
<1>1. Cardinality(Forbids(a)) \in Nat /\ forbiddenRetries[a] \in 0 .. 2
  BY ForbidsFinite DEF Data
<1>2. CASE pc' = "done"
  BY <1>2, CountBound
<1>3. CASE pc' # "done"
  <2>1. pc # "done"
    BY <1>3
  <2>2. Barred(a) => Barred(a)'
    BY DEF Barred
  <2>3. OneMore(a) => OneMore(a)'
    BY <1>3, <2>2 DEF OneMore
  <2> QED
    BY <1>1, <1>3, <2>1, <2>3 DEF CountInv
<1> QED
  BY <1>2, <1>3

\* A 403 just received comes from an account that was not barred.
LEMMA SendCounts ==
  ASSUME Control, Data, Admitted, CountInv, Send
  PROVE  CountInv'
<1>1. PICK ans \in SomeAnswers : answer' = ans /\ Outcome(ans)
  BY DEF Send
<1>2. /\ pc = "send" /\ pc' = "answered" /\ pc \in Inside
      /\ UNCHANGED <<lease, exAccounts, exBuckets, forbiddenRetries>>
  BY DEF Send, GoOn, loopVars, Inside
<1>3. lease.acct \in Accounts
  BY <1>2, LeaseType
<1> SUFFICES ASSUME NEW a \in Accounts \ Rekeyed
             PROVE Cardinality(Forbids(a)') <= forbiddenRetries'[a] + (IF OneMore(a)' THEN 1 ELSE 0)
  BY <1>2 DEF CountInv
<1>4. Cardinality(Forbids(a)) \in Nat /\ forbiddenRetries[a] \in 0 .. 2
  BY ForbidsFinite DEF Data
<1>5. Cardinality(Forbids(a)) <= forbiddenRetries[a] + (IF OneMore(a) THEN 1 ELSE 0)
  BY <1>2 DEF CountInv
<1>6. Cardinality(Forbids(a)') = Cardinality(Forbids(a))
         + (IF lease.acct = a /\ ans.status = 403 THEN 1 ELSE 0)
  BY <1>1, <1>3, ForbidsAdded
<1>7. Barred(a)' <=> Barred(a)
  BY <1>2 DEF Barred
<1>8. CASE lease.acct = a /\ ans.status = 403
  <2>1. ~OneMore(a) /\ OneMore(a)'
    BY <1>1, <1>2, <1>8 DEF OneMore, Admitted, Barred
  <2> QED
    BY <1>2, <1>4, <1>5, <1>6, <1>8, <2>1
<1>9. CASE ~(lease.acct = a /\ ans.status = 403)
  <2>1. OneMore(a)' <=> OneMore(a)
    BY <1>1, <1>2, <1>7, <1>9 DEF OneMore
  <2> QED
    BY <1>2, <1>4, <1>5, <1>6, <1>9, <2>1
<1> QED
  BY <1>8, <1>9

\* The 403 in hand is paid for by a retry, or the account is excluded.
LEMMA AnswerCounts ==
  ASSUME Control, Data, Admitted, CountInv,
         NonRetriable \/ RetrySame \/ RetryOther \/ Reject \/ Succeed
  PROVE  CountInv'
<1> USE DEF NonRetriable, RetrySame, RetryOther, Reject, Succeed
<1>1. pc = "answered" /\ pc \in Inside /\ pc' # "answered" /\ outcomes' = outcomes
  BY DEF Continue, Done, GoOn, historyVars, Inside
<1>2. lease.acct \in Accounts
  BY <1>1, LeaseType
<1>3. \A a : Forbids(a)' = Forbids(a)
  BY <1>1 DEF Forbids
<1>4. \A a \in Accounts \ Rekeyed :
        /\ Cardinality(Forbids(a)) \in Nat /\ forbiddenRetries[a] \in 0 .. 2
        /\ Cardinality(Forbids(a)) <= forbiddenRetries[a] + (IF OneMore(a) THEN 1 ELSE 0)
  BY <1>1, ForbidsFinite DEF Data, CountInv
<1>5. CASE NonRetriable \/ Reject
  <2>1. pc' = "done"
    BY <1>5 DEF Done
  <2> QED
    BY <1>3, <2>1, CountBound DEF CountInv
<1>6. CASE Succeed
  <2>1. /\ UNCHANGED <<exAccounts, exBuckets, forbiddenRetries>> /\ pc' = "open"
        /\ answer.status # 403
    BY <1>6 DEF loopVars, GoOn
  <2>2. \A a : OneMore(a) <=> OneMore(a)'
    BY <1>1, <2>1 DEF OneMore, Barred
  <2> QED
    BY <1>3, <1>4, <2>1, <2>2 DEF CountInv
<1>7. CASE RetrySame
  <2>1. /\ UNCHANGED <<exAccounts, exBuckets>> /\ pc' # "done" /\ answer.status = 403
        /\ forbiddenRetries' = [forbiddenRetries EXCEPT ![lease.acct] = @ + 1]
    BY <1>7 DEF Continue, RetrySameAccount
  <2> SUFFICES ASSUME NEW a \in Accounts \ Rekeyed
               PROVE Cardinality(Forbids(a)) <= forbiddenRetries'[a] + (IF OneMore(a)' THEN 1 ELSE 0)
    BY <1>3, <2>1 DEF CountInv
  <2>2. CASE a = lease.acct
    <3>1. forbiddenRetries'[a] = forbiddenRetries[a] + 1
      BY <1>2, <2>1, <2>2 DEF Data
    <3> QED
      BY <1>4, <3>1
  <2>3. CASE a # lease.acct
    <3>1. forbiddenRetries'[a] = forbiddenRetries[a]
      BY <1>2, <2>1, <2>3 DEF Data
    <3>2. OneMore(a) <=> OneMore(a)'
      BY <1>1, <2>1, <2>3 DEF OneMore, Barred
    <3> QED
      BY <1>4, <3>1, <3>2
  <2> QED
    BY <2>2, <2>3
<1>8. CASE RetryOther
  <2>1. /\ exclude(Interpret(req.provider, answer).scope)
        /\ pc' # "done" /\ UNCHANGED forbiddenRetries
    BY <1>8 DEF Continue
  <2>2. /\ exAccounts \subseteq exAccounts' /\ exBuckets \subseteq exBuckets'
        /\ lease.acct \notin Rekeyed =>
             lease.acct \in exAccounts' \/ HomeBucket[lease.acct] \in exBuckets'
    BY <1>1, <2>1, ExcludeGrows
  <2>3. \A a \in Accounts \ Rekeyed : OneMore(a) => OneMore(a)'
    BY <1>1, <2>2 DEF OneMore, Barred
  <2> QED
    BY <1>3, <1>4, <2>1, <2>3 DEF CountInv
<1> QED
  BY <1>5, <1>6, <1>7, <1>8

\* Every step keeps the count.
LEMMA CountStepKept ==
  ASSUME Control, Data, SpentInv, CountInv, [Next]_vars
  PROVE  CountInv'
<1>0. Admitted
  BY DEF SpentInv
<1>1. CASE \/ AcquireRoute \/ CountAcquire
           \/ Prepare \/ EnsureValidToken \/ BuildRequest \/ ObserveSuccess \/ Accept
           \/ CountEnsureToken \/ CountBuild \/ CountSend \/ CountAccept
           \/ AcquireFails \/ BuildFails \/ ReadFails \/ AcceptFails
  <2>1. /\ UNCHANGED <<outcomes, exAccounts, exBuckets, forbiddenRetries>>
        /\ pc \notin {"answered", "done"} /\ pc' \notin {"answered", "done"}
    BY <1>1 DEF AcquireRoute, CountAcquire, Prepare, EnsureValidToken, BuildRequest,
                ObserveSuccess, Accept, CountEnsureToken, CountBuild, CountSend, CountAccept,
                CountStep, AcquireFails, BuildFails, ReadFails, AcceptFails, GoOn, Stop,
                loopVars, historyVars
  <2>2. \A a : Forbids(a)' = Forbids(a)
    BY <2>1 DEF Forbids
  <2> QED
    BY <2>1, <2>2, QuietCounts
<1>2. CASE \/ PrepareRefuses \/ OwnerGone \/ BuildInvalid \/ Write \/ Abandon
           \/ finishRelayFailure \/ CountFails \/ CountWrite
  <2>1. UNCHANGED <<outcomes, exAccounts, exBuckets, forbiddenRetries>> /\ pc' = "done"
    BY <1>2 DEF PrepareRefuses, OwnerGone, BuildInvalid, Write, Abandon, finishRelayFailure,
                CountFails, CountWrite, Done, loopVars, historyVars
  <2>2. \A a : Forbids(a)' = Forbids(a)
    BY <2>1 DEF Forbids
  <2> QED
    BY <2>1, <2>2, QuietCounts
<1>3. CASE TokenInvalid \/ SendFails \/ PreflightFails \/ PreflightRefuses
  <2>1. /\ pc \in Inside \ {"answered", "done"} /\ pc' \notin {"answered", "done"}
        /\ UNCHANGED forbiddenRetries
        /\ \E ans \in {NoReply, AtCapacity}, scope \in {"account", Interpret("codex", AtCapacity).scope} :
             Outcome(ans) /\ exclude(scope)
    BY <1>3 DEF TokenInvalid, SendFails, PreflightFails, PreflightRefuses, Continue, Inside
  <2>2. PICK ans \in {NoReply, AtCapacity}, scope \in {"account", Interpret("codex", AtCapacity).scope} :
          Outcome(ans) /\ exclude(scope)
    BY <2>1
  <2>3. ans \in Answers \union {NoReply} /\ ans.status # 403
    BY DEF AtCapacity, Answers, Statuses, Bodies, NoReply
  <2>4. \A a : Cardinality(Forbids(a)') = Cardinality(Forbids(a)) + 0
    BY <2>1, <2>2, <2>3, ForbidsAdded, LeaseType
  <2>5. \A a : Cardinality(Forbids(a)') = Cardinality(Forbids(a))
    BY <2>4, ForbidsFinite
  <2>6. exAccounts \subseteq exAccounts' /\ exBuckets \subseteq exBuckets'
    BY <1>0, <2>1, <2>2, ExcludeGrows
  <2> QED
    BY <2>1, <2>5, <2>6, QuietCounts
<1>4. CASE Send
  BY <1>0, <1>4, SendCounts
<1>5. CASE NonRetriable \/ RetrySame \/ RetryOther \/ Reject \/ Succeed
  BY <1>0, <1>5, AnswerCounts
<1>6. CASE Disconnect \/ Rekey \/ Returned \/ UNCHANGED vars
  <2>1. UNCHANGED <<pc, lease, answer, outcomes, exAccounts, exBuckets, forbiddenRetries>>
    BY <1>6 DEF Disconnect, Rekey, Returned, vars, loopVars, historyVars
  <2>2. \A a : Forbids(a)' = Forbids(a)
    BY <2>1 DEF Forbids
  <2> QED
    BY <2>1, <2>2, QuietCounts
<1> QED
  BY <1>1, <1>2, <1>3, <1>4, <1>5, <1>6 DEF Next, Handler

\* However the attempts go, an account that failed, and any account of a bucket whose
\* quota upstream refused, is not asked again in the same request, and no account is
\* asked again after its third 403; all this of the accounts that are not re-keyed.  As
\* it holds for every set Rekeyed, it says so of any account that was not in fact re-keyed.
THEOREM SpentNotAsked == Spec => []NoReturnToSpent
<1>1. Init => CountInv
  <2> SUFFICES ASSUME Init, NEW a \in Accounts \ Rekeyed
               PROVE  pc # "done" /\ Cardinality(Forbids(a)) <= forbiddenRetries[a] + (IF OneMore(a) THEN 1 ELSE 0)
    BY DEF CountInv
  <2>1. pc = "prepare" /\ outcomes = <<>> /\ forbiddenRetries[a] = 0
    BY DEF Init
  <2>2. Forbids(a) = {}
    BY <2>1 DEF Forbids
  <2>3. Cardinality(Forbids(a)) = 0
    BY <2>2, FS_EmptySet
  <2> QED
    BY <2>1, <2>3
<1>2. Control /\ Data /\ SpentInv /\ CountInv /\ [Next]_vars => CountInv'
  BY CountStepKept
<1>3. Data /\ SpentInv /\ CountInv => NoReturnToSpent
  <2> SUFFICES ASSUME Data, SpentInv, CountInv PROVE NoReturnToSpent
    OBVIOUS
  <2>1. \A i, j \in DOMAIN outcomes : Apart(i, j)
    BY OutcomesType DEF SpentInv
  <2>2. \A a \in Accounts \ Rekeyed : Cardinality(Forbids(a)) <= 3
    BY CountBound
  <2> QED
    BY <2>1, <2>2 DEF NoReturnToSpent, Apart, Forbids
<1> QED
  BY <1>1, <1>2, <1>3, TypesHold, SpentHolds, PTL DEF Spec
=============================================================================
