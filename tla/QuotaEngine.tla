---------------------------- MODULE QuotaEngine ----------------------------
(***************************************************************************)
(* The two quota engines (internal/quota, internal/policy) and their       *)
(* construction from a configuration (cmd/rlqs-server).                    *)
(*                                                                         *)
(* A pattern is the set of strings that it matches, EmptyPattern, or a     *)
(* member of Uncompilable: invalid, or longer than MaxPatternLength.  The  *)
(* width of the token fields is Uint32 (2^32 in the code).                 *)
(***************************************************************************)
EXTENDS Configuration, BucketKeys, FiniteSetsExt

CONSTANTS
  NoPattern,      \* the empty pattern
  Uncompilable,   \* patterns that compilePatterns rejects
  Uint32          \* one more than the largest uint32

ASSUME EngineAssumption == Uint32 \in Nat \ {0}

TokenBucket(tokens, interval) ==
  [rule |-> "token_bucket", maxTokens |-> tokens % Uint32,
   tokensPerFill |-> tokens % Uint32, fillInterval |-> interval]

\* The name of a unit, in upper case after ToUpper; any other is a second.
ParseTimeUnit(s) ==
  IF s \in {"SECOND", "MINUTE", "HOUR", "DAY", "MONTH", "YEAR"} THEN s ELSE "SECOND"

BuildStrategy(pc, interval) ==
  CASE pc.strategy = "deny"  -> [rule |-> "deny_all"]
    [] pc.strategy = "allow" -> [rule |-> "allow_all"]
    [] pc.strategy = "requests_per_time_unit" ->
         [rule |-> "per_unit", requests |-> pc.perUnit, unit |-> ParseTimeUnit(pc.unit)]
    [] OTHER -> TokenBucket(pc.tokens, interval)

\* Mutant of DefaultPolicy: no TTL.
DefaultPolicyNoTTL(cfg) ==
  [strategy |-> TokenBucket(cfg.tokens, cfg.interval), ttl |-> Unset]

\* The strategy and the TTL of buckets that no policy matches.
DefaultPolicy(cfg) ==
  [strategy |-> TokenBucket(cfg.tokens, cfg.interval), ttl |-> Wrapped(cfg.interval * 2)]

BuildPolicy(cfg, pc) ==
  [domain   |-> pc.domainPattern,
   bucket   |-> pc.bucketKeyPattern,
   strategy |-> BuildStrategy(pc, cfg.interval),
   ttl      |-> Given(pc.ttl, Wrapped(cfg.interval * 2))]

\* compilePatterns, for all policies; the default policy has no patterns.
Compiles(cfg) ==
  \A i \in DOMAIN cfg.policies :
    {cfg.policies[i].domainPattern, cfg.policies[i].bucketKeyPattern} \cap Uncompilable = {}

\* A DefaultEngine without policies, an Engine with them.
BuildEngine(cfg) ==
  IF cfg.policies = <<>>
  THEN [kind     |-> "default",
        policies |-> <<>>,
        default  |-> [strategy |-> TokenBucket(cfg.tokens, cfg.interval),
                      ttl      |-> Wrapped(cfg.interval * 2)]]
  ELSE [kind     |-> "policy",
        policies |-> [i \in DOMAIN cfg.policies |-> BuildPolicy(cfg, cfg.policies[i])],
        default  |-> DefaultPolicy(cfg)]

-----------------------------------------------------------------------------
(* ProcessUsage.                                                           *)

MatchString(p, s) == p = NoPattern \/ s \in p

Matches(policy, domain, key) == MatchString(policy.domain, domain) /\ MatchString(policy.bucket, key)

\* Mutant of Selected: the last match wins.
SelectedLast(engine, domain, key) ==
  LET hits == {i \in DOMAIN engine.policies : Matches(engine.policies[i], domain, key)}
  IN  IF hits = {} THEN engine.default ELSE engine.policies[Max(hits)]

\* The first match, or the default policy.
Selected(engine, domain, key) ==
  LET hits == {i \in DOMAIN engine.policies : Matches(engine.policies[i], domain, key)}
  IN  IF hits = {} THEN engine.default ELSE engine.policies[Min(hits)]

\* The assignment for one report; the DefaultEngine has no policies to select.
Assignment(engine, domain, id) ==
  LET p == Selected(engine, domain, BucketKeyFromProto(id))
  IN  [bucket |-> id, strategy |-> p.strategy, ttl |-> p.ttl]

\* One assignment per report with a bucket, in order.
ProcessUsage(engine, domain, reports) ==
  Concat([i \in DOMAIN reports |->
    IF reports[i] = <<>> THEN <<>> ELSE <<Assignment(engine, domain, reports[i])>>])

=============================================================================
