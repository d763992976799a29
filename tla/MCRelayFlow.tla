---------------------------- MODULE MCRelayFlow -----------------------------
(* An instance of RelayFlow for TLC: two accounts that share a bucket and a   *)
(* third alone, which Gemini may re-key; one answer for every case of the     *)
(* drivers' policies.                                                         *)
EXTENDS RelayFlow, TLC

CONSTANTS a1, a2, a3, b1, b2

mcHomeBucket == (a1 :> b1) @@ (a2 :> b1) @@ (a3 :> b2)
Plainly(statuses) == [status : statuses, body : {"plain"}]
mcAnswers ==
  Plainly({200, 400, 401, 403, 429, 500, 529})
    \union {[status |-> 400, body |-> "ban"], [status |-> 403, body |-> "ban"],
            [status |-> 429, body |-> "extraUsage"]}
=============================================================================
