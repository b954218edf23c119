------------------------------ MODULE DataPath ------------------------------
(***************************************************************************)
(* What one process does with a domain and a bucket, from the settings to  *)
(* the answer: the configuration it loaded, the engine and the classifier  *)
(* built from it, and the bucket state under its encoded keys.             *)
(*                                                                         *)
(* Composes Configuration, QuotaEngine, BucketKeys and DomainClassifier.   *)
(* A reload replaces the engine and then the classifier, in two steps; the *)
(* environment of a process does not change.                               *)
(***************************************************************************)
EXTENDS DomainClassifier, QuotaEngine

CONSTANTS
  Files,         \* contents of the configuration file
  Envs,          \* environments the process may be started in
  BucketIds,     \* bucket ids, in each order of iteration
  Uint64,        \* one more than the largest uint64
  DefaultKeyTTL, \* of NewRedisStorage: 60 seconds
  MaxMessages    \* bound on the messages a process handles

ASSUME DataPathAssumption ==
  /\ NoPattern = EmptyPattern
  /\ Uint64 \in Nat \ {0} /\ DefaultKeyTTL \in 1 .. Int64 - 1
  /\ MaxMessages \in Nat

\* What the decoder accepts: the tokens are unsigned, durations and the cap on
\* domains may be negative.
PolicyType ==
  [domainPattern : Patterns \cup {NoPattern} \cup Uncompilable,
   bucketKeyPattern : SUBSET Seq(Byte) \cup {NoPattern} \cup Uncompilable,
   tokens : Nat \cup {Unset}, rps : Nat \cup {Unset}, ttl : Duration \cup {Unset},
   strategy : STRING, perUnit : Nat, unit : STRING]

FileType ==
  [tokens : Nat \cup {Unset}, rps : Nat \cup {Unset}, interval : Duration \cup {Unset},
   maxDomains : Int \cup {Unset}, policies : Seq(PolicyType), storage : STRING \cup {Unset},
   poolSize : Int \cup {Unset}, tracing : BOOLEAN \cup {Unset}]

EnvType ==
  [tokens : Nat \cup {Unset, Garbled}, rps : Nat \cup {Unset, Garbled},
   interval : Duration \cup {Unset, Garbled}, storage : STRING \cup {Unset},
   poolSize : Int \cup {Unset, Garbled}, tracing : STRING \cup {Unset}]

ASSUME SettingsAssumption ==
  /\ Files \subseteq FileType \cup {Garbled} /\ Envs \subseteq EnvType

\* The separators of the encoded keys do not occur in domains and buckets.
ASSUME PlainNamesAssumption ==
  /\ Domains \subseteq PlainDomain
  /\ BucketIds \subseteq PlainBucketId

VARIABLES
  env,       \* the environment
  file,      \* the file the engine was built from
  engine,    \* RLQSServer.engine
  keyTTL,    \* RedisStorage.keyTTL
  swapping,  \* SwapEngine is done, SwapDomainClassifier is not
  buckets,   \* MemoryStorage.buckets: scoped key to usage counter
  recorded,  \* history: usage of each <<domain, set of pairs>> since its removal
  messages   \* messages handled

storeVars  == <<buckets, recorded>>
configVars == <<env, file, engine, keyTTL, swapping>>
vars       == <<classifierVars, configVars, storeVars, messages>>

cfg == Load(file, env)

\* Mutant of BuildDomainClassifier: the policies' patterns are left out.
BuildDomainClassifierBlind(c) == NewDomainClassifier({}, c.maxDomains)

BuildDomainClassifier(c) ==
  NewDomainClassifier({c.policies[i].domainPattern : i \in DOMAIN c.policies} \ {NoPattern},
                      c.maxDomains)

\* Mutant of BuildStore: there is no default.
BuildStoreUnchecked(c) == Wrapped(c.interval * 6)

\* buildStore and NewRedisStorage: how long a key lives after a report.
BuildStore(c) ==
  LET ttl == Wrapped(c.interval * 6) IN IF ttl <= 0 THEN DefaultKeyTTL ELSE ttl

\* A process is started with a file that loads and compiles; otherwise main
\* exits.
Init ==
  /\ env \in Envs
  /\ file \in {f \in Files : Loadable(f) /\ Compiles(Load(f, env))}
  /\ engine = BuildEngine(cfg)
  /\ keyTTL = BuildStore(cfg)
  /\ swapping = FALSE
  /\ ClassifierInit(BuildDomainClassifier(cfg))
  /\ buckets = <<>> /\ recorded = <<>>
  /\ messages = 0

-----------------------------------------------------------------------------
(* The store.                                                              *)

ScopedKey(d, id) == DomainScopedKey(d, BucketKeyFromProto(id))

\* f with v more under k, a missing entry counting as nothing.
Added(f, k, v) ==
  [x \in DOMAIN f \cup {k} |->
    (IF x \in DOMAIN f THEN f[x] ELSE 0) + (IF x = k THEN v ELSE 0)]

Without(f, k) == [x \in DOMAIN f \ {k} |-> f[x]]

Update(k, n) ==
  buckets' = [Added(buckets, k, n) EXCEPT ![k] = @ % Uint64]

\* handleMessage records a report under the stream's domain.
RecordUsage(d, id) ==
  /\ messages < MaxMessages
  /\ messages' = messages + 1
  /\ Update(ScopedKey(d, id), 1)
  /\ recorded' = Added(recorded, <<d, Range(id)>>, 1)
  /\ UNCHANGED <<classifierVars, configVars>>

\* Reset of the scoped key, when the last reference is gone.
RemoveBucket(d, id) ==
  /\ ScopedKey(d, id) \in DOMAIN buckets
  /\ buckets' = Without(buckets, ScopedKey(d, id))
  /\ recorded' = Without(recorded, <<d, Range(id)>>)
  /\ UNCHANGED <<classifierVars, configVars, messages>>

-----------------------------------------------------------------------------
(* Streams, reloads and restarts.                                          *)

\* A stream is bound to its domain by its first message.
BindDomain(b) ==
  /\ \/ /\ messages < MaxMessages
        /\ messages' = messages + 1
        /\ \E d \in Domains : Classify(b, d)
     \/ (FastPath(b) \/ Admit(b)) /\ UNCHANGED messages
  /\ UNCHANGED <<configVars, storeVars>>

\* The file was rewritten with f.  A file that does not load, changes nothing
\* or has a pattern that does not compile leaves the process as it is.
SwapEngine(f) ==
  /\ ~swapping /\ current < MaxSwaps
  /\ Loadable(f)
  /\ LET new == Load(f, env)
     IN  /\ new # cfg /\ Compiles(new)
         /\ BuildEngine(new).kind = engine.kind
         /\ engine' = BuildEngine(new)
  /\ file' = f
  /\ swapping' = TRUE
  /\ UNCHANGED <<classifierVars, env, keyTTL, storeVars, messages>>

SwapClassifier ==
  /\ swapping
  /\ SwapDomainClassifier(BuildDomainClassifier(cfg))
  /\ swapping' = FALSE
  /\ UNCHANGED <<env, file, engine, keyTTL, storeVars, messages>>

\* The process ends, by a signal or because SwapEngine panicked on an engine of
\* the other type, and a new one starts with what the file holds then.
Restart(f) ==
  /\ Loadable(f) /\ Compiles(Load(f, env))
  /\ file' = f
  /\ engine' = BuildEngine(Load(f, env))
  /\ keyTTL' = BuildStore(Load(f, env))
  /\ swapping' = FALSE
  /\ current' = 0
  /\ rules' = [c \in Classifiers |-> BuildDomainClassifier(Load(f, env))]
  /\ known' = [c \in Classifiers |-> {}]
  /\ at' = [b \in Binders |-> "idle"]
  /\ name' = [b \in Binders |-> NoDomain]
  /\ used' = [b \in Binders |-> 0]
  /\ labels' = {}
  /\ buckets' = <<>> /\ recorded' = <<>>
  /\ messages' = 0
  /\ UNCHANGED env

Next ==
  \/ \E b \in Binders : BindDomain(b)
  \/ \E d \in Domains, id \in BucketIds : RecordUsage(d, id) \/ RemoveBucket(d, id)
  \/ \E f \in Files : SwapEngine(f) \/ Restart(f)
  \/ SwapClassifier

Spec == Init /\ [][Next]_vars

-----------------------------------------------------------------------------
(* Properties.                                                             *)

\* Also: keys in Redis never get a TTL of zero or less, which would delete them at
\* once, whatever the interval (NewRedisStorage).
TypeOK ==
  /\ ClassifierTypeOK
  /\ env \in Envs /\ file \in Files /\ swapping \in BOOLEAN
  /\ \A k \in DOMAIN buckets : buckets[k] \in 0 .. Uint64 - 1
  /\ keyTTL \in 1 .. Int64 - 1 /\ messages \in 0 .. MaxMessages

\* The store holds for every bucket what was reported for it since it was last
\* removed: no two buckets share a key, and a bucket has one key whatever the
\* order in which Go iterates over its map (BucketKeyFromProto).
StoreKeepsApart ==
  /\ Cardinality(DOMAIN buckets) = Cardinality(DOMAIN recorded)
  /\ \A d \in Domains, id \in BucketIds :
       LET b == <<d, Range(id)>>
       IN  IF b \in DOMAIN recorded
           THEN /\ ScopedKey(d, id) \in DOMAIN buckets
                /\ buckets[ScopedKey(d, id)] = recorded[b] % Uint64
           ELSE ScopedKey(d, id) \notin DOMAIN buckets

\* /debug/buckets lists for a domain exactly the buckets that hold usage of it,
\* also when another domain begins with its name (handleDebugBuckets).
DebugListsDomain ==
  \A d \in Domains :
    DebugBuckets(DOMAIN buckets, d) =
      {BucketKeyFromProto(id) : id \in {i \in BucketIds : <<d, Range(i)>> \in DOMAIN recorded}}

\* The settings for the default number of tokens, the strongest first.  A
\* variable that is set but garbled counts for nothing and still hides the
\* deprecated one; a zero in the file counts as not set.
TokenSettings ==
  <<env.tokens, IF env.tokens = Unset THEN env.rps ELSE Unset,
    IF file.tokens = 0 THEN Unset ELSE file.tokens,
    IF file.rps = 0 THEN Unset ELSE file.rps, DefaultTokens>>

StrongestTokens ==
  TokenSettings[Min({i \in DOMAIN TokenSettings : TokenSettings[i] \notin {Unset, Garbled}})]

\* After any sequence of reloads and restarts buckets without a policy get the
\* tokens of the strongest setting, cut to 32 bits (Load, buildEngine); a value
\* from 2^32 on is not the one that was configured.
SettingsPrecedence ==
  engine.default.strategy = TokenBucket(StrongestTokens, cfg.interval)

\* Policies concern the buckets they match and no others: a bucket that no policy
\* matches is answered by the Engine as the DefaultEngine of the same
\* configuration without policies would answer it (buildEngine).
UnmatchedUnaffected ==
  \A d \in Domains, id \in BucketIds :
    (\A i \in DOMAIN engine.policies : ~Matches(engine.policies[i], d, BucketKeyFromProto(id)))
      => ProcessUsage(engine, d, <<id>>) =
           ProcessUsage(BuildEngine([cfg EXCEPT !.policies = <<>>]), d, <<id>>)

\* Policies are in priority order: what follows a policy that matches can be
\* taken out of the configuration without changing an assignment.
EarlierPoliciesWin ==
  \A d \in Domains, id \in BucketIds, i \in DOMAIN engine.policies :
    Matches(engine.policies[i], d, BucketKeyFromProto(id))
      => ProcessUsage(engine, d, <<id>>) =
           ProcessUsage(BuildEngine([cfg EXCEPT !.policies = SubSeq(@, 1, i)]), d, <<id>>)

\* Once a reload is complete the labels of the current classifier follow the
\* policies of the engine: a domain that a policy names keeps its name until
\* the cap is reached, and one that none of the domain patterns matches never
\* shows (buildDomainClassifier, SwapDomainClassifier).
LabelsFollowPolicies ==
  LET named(d) == \E i \in DOMAIN engine.policies :
                    engine.policies[i].domain # NoPattern /\ d \in engine.policies[i].domain
      anyNamed == \E i \in DOMAIN engine.policies : engine.policies[i].domain # NoPattern
  IN  ~swapping => \A d \in Domains :
        /\ <<current, d, UnknownDomain>> \in labels /\ named(d) => Full(current)
        /\ <<current, d, d>> \in labels => named(d) \/ ~anyNamed

=============================================================================
