--------------------------- MODULE Configuration ---------------------------
(***************************************************************************)
(* config.Load: defaults, the YAML file, deprecated names and environment  *)
(* variables, in that order.                                               *)
(*                                                                         *)
(* A setting the file leaves out is Unset; so is an empty environment      *)
(* variable.  Garbled stands for a value that does not parse: in the file  *)
(* it fails the whole load, in the environment it is passed over.          *)
(* A duration is an int64 (time.Duration), in a unit of the instance; its  *)
(* range is given by Int64 (2^63 in the code).  The textual settings       *)
(* (addresses, TLS files, storage type, tracing endpoint) all follow one   *)
(* rule and are represented by the storage type; numbers by the pool size, *)
(* switches by tracing.                                                    *)
(***************************************************************************)
EXTENDS Integers, Sequences

CONSTANTS
  Unset, Garbled,     \* see above
  DefaultTokens,      \* resolveDeprecated: 100
  DefaultInterval,    \* Load: 10 seconds
  DefaultDomains,     \* Load: 100
  Int64               \* one more than the largest int64

Duration == -Int64 .. Int64 - 1

ASSUME ConfigurationAssumption ==
  /\ Int64 \in Nat \ {0}
  /\ Unset \notin Int /\ Garbled \notin Int /\ Unset # Garbled
  /\ DefaultTokens \in Nat \ {0} /\ DefaultInterval \in Duration /\ DefaultDomains \in Int

\* A file is a record [tokens, rps, interval, maxDomains, policies, storage,
\* poolSize, tracing], or Garbled when it can not be read or decoded.  A policy
\* is a record [domainPattern, bucketKeyPattern, tokens, rps, ttl, strategy,
\* perUnit, unit].  The environment is a record [tokens, rps, interval, storage,
\* poolSize, tracing].

\* The int64 that a product of durations and numbers comes out as.
Wrapped(n) == ((n + Int64) % (2 * Int64)) - Int64

Given(v, default) == IF v = Unset THEN default ELSE v

\* A number that a policy leaves out is zero.
UnmarshalPolicy(p) == [p EXCEPT !.tokens = Given(@, 0), !.rps = Given(@, 0)]

\* yaml.Unmarshal into the defaults.
Unmarshal(file) ==
  [file EXCEPT
    !.tokens     = Given(@, 0),
    !.rps        = Given(@, 0),
    !.interval   = Given(@, DefaultInterval),
    !.maxDomains = Given(@, DefaultDomains),
    !.storage    = Given(@, ""),
    !.poolSize   = Given(@, 0),
    !.tracing    = Given(@, FALSE),
    !.policies   = [i \in DOMAIN @ |-> UnmarshalPolicy(@[i])]]

\* The new name is preferred if both are set.
Renamed(tokens, rps) == IF tokens = 0 /\ rps > 0 THEN rps ELSE tokens

\* Policies get no default: a policy without tokens fills nothing.
ResolvePolicy(p) == [p EXCEPT !.tokens = Renamed(@, p.rps)]

ResolveDeprecated(cfg) ==
  LET tokens == Renamed(cfg.tokens, cfg.rps)
  IN  [cfg EXCEPT
        !.tokens   = IF tokens = 0 THEN DefaultTokens ELSE tokens,
        !.policies = [i \in DOMAIN @ |-> ResolvePolicy(@[i])]]

\* An environment variable that is set and parses.
Parsed(v, otherwise) == IF v \in {Unset, Garbled} THEN otherwise ELSE v

\* Mutant of EnvTokens: the deprecated variable is consulted last.
EnvTokensDeprecatedWins(env, tokens) == Parsed(env.rps, Parsed(env.tokens, tokens))

\* RLQS_DEFAULT_RPS counts only while RLQS_DEFAULT_TOKENS_PER_FILL is empty: a
\* garbled value of the latter hides it.
EnvTokens(env, tokens) ==
  IF env.tokens # Unset THEN Parsed(env.tokens, tokens) ELSE Parsed(env.rps, tokens)

Overridden(cfg, env) ==
  [cfg EXCEPT
    !.tokens   = EnvTokens(env, @),
    !.interval = Parsed(env.interval, @),
    !.storage  = Given(env.storage, @),
    !.poolSize = Parsed(env.poolSize, @),
    !.tracing  = IF env.tracing = Unset THEN @ ELSE env.tracing \in {"true", "1"}]

Loadable(file) == file # Garbled

Load(file, env) == Overridden(ResolveDeprecated(Unmarshal(file)), env)

=============================================================================
