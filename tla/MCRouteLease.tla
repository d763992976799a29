---------------------------- MODULE MCRouteLease ----------------------------
(* Small instances of RouteLease: two accounts of provider p1 (a1 may move *)
(* between two buckets), and one of provider p2 that only serves as a pin  *)
(* of the wrong provider.                                                  *)
EXTENDS RouteLease, TLC

CONSTANTS a1, a2, a3, i1, i2, i3, p1, p2, k1, r1, r2, r3, std

mcIdent == (a1 :> i1) @@ (a2 :> i2) @@ (a3 :> i3)
mcProviderOf == (i1 :> p1) @@ (i2 :> p1) @@ (i3 :> p2)
mcHomeBuckets == (a1 :> {1, 2}) @@ (a2 :> {2}) @@ (a3 :> {3})
mcFixedBuckets == (a1 :> {1}) @@ (a2 :> {2}) @@ (a3 :> {3})
mcWeight == (a1 :> 1) @@ (a2 :> 2) @@ (a3 :> 1)

\* A RouteRequest for a p1 model without pin, key or exclusions.
Plain == [hard |-> NoAccount, key |-> NoKey, require |-> FALSE, provider |-> p1,
          class |-> std, exAccounts |-> {}, exBuckets |-> {}]
Prefer == [Plain EXCEPT !.key = k1]
Require == [Prefer EXCEPT !.require = TRUE]

\* What the relay sends: plain calls, first attempts, retries that exclude an
\* account or a bucket, retries pinned to the same account, calls of a user
\* pinned to another provider's account, and stateless continuations.
mcCalls ==
  {Plain, Prefer, Require,
   [Prefer EXCEPT !.hard = a1],
   [Prefer EXCEPT !.hard = a3],
   [Prefer EXCEPT !.hard = a1, !.exAccounts = {a1}],
   [Prefer EXCEPT !.exAccounts = {a1}],
   [Plain EXCEPT !.exBuckets = {2}],
   [Plain EXCEPT !.require = TRUE]}

mcPinnedCalls == {Prefer, Require, [Require EXCEPT !.hard = a3]}
mcPreferCalls == {Prefer}

Symmetry == Permutations(Requests)
=============================================================================
