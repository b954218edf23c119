----------------------------- MODULE MCDataPath -----------------------------
(* A small instance of DataPath for TLC: two domains, one of which begins with
   the name of the other, and three buckets, one of them with two pairs. *)
EXTENDS DataPath, SequencesExt

dA  == <<97>>
dAB == <<97, 98>>

MCDomains == {dA, dAB}

one   == <<<<<<97>>, <<98>>>>>>
other == <<<<<<98, 97>>, <<98>>>>>>
both  == <<<<<<97>>, <<98>>>>, <<<<97, 98>>, <<98>>>>>>

MCBucketIds == {one, other, both, Reverse(both)}

MCPatterns == {{dA}, {dA, dAB}}

Policy(d, b, tokens, rps, ttl, strategy) ==
  [domainPattern |-> d, bucketKeyPattern |-> b, tokens |-> tokens, rps |-> rps, ttl |-> ttl,
   strategy |-> strategy, perUnit |-> 7, unit |-> "FORTNIGHT"]

ForA   == Policy({dA}, NoPattern, Uint32 + 1, 2, 0, "token_bucket")
ForOne == Policy(NoPattern, {BucketKeyFromProto(one)}, Unset, 3, Unset, "deny")
ForAll == Policy({dA, dAB}, NoPattern, Unset, Unset, 9, "requests_per_time_unit")
Broken == Policy(NoPattern, CHOOSE p \in Uncompilable : TRUE, 1, Unset, Unset, "allow")

File(tokens, rps, interval, maxDomains, policies) ==
  [tokens |-> tokens, rps |-> rps, interval |-> interval, maxDomains |-> maxDomains,
   policies |-> policies, storage |-> Unset, poolSize |-> Unset, tracing |-> Unset]

\* Files without policies differ in the default tokens, files with policies in
\* what the policies match and in the cap on domains.  Six times the interval of 20
\* is no int64.
MCFiles ==
  {File(Unset, Unset, Unset, 1, <<>>), File(2, 3, Unset, 1, <<>>), File(0, 3, 20, 1, <<>>),
   File(Uint32, Unset, 0, 1, <<>>),
   File(2, Unset, Unset, 1, <<ForA, ForOne>>), File(2, Unset, 4, 1, <<ForOne, ForAll>>),
   File(2, Unset, 4, 0, <<ForA, ForAll>>),
   File(5, Unset, 4, Unset, <<ForA, Broken>>), Garbled}

Environment(tokens, rps, interval) ==
  [tokens |-> tokens, rps |-> rps, interval |-> interval,
   storage |-> "redis", poolSize |-> Garbled, tracing |-> "yes"]

MCEnvs ==
  {Environment(Unset, Unset, Unset), Environment(3, 6, Garbled),
   Environment(Garbled, 6, 3), Environment(Unset, 6, 3)}

Symmetry == Permutations(Binders)

=============================================================================
