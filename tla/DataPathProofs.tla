--------------------------- MODULE DataPathProofs ---------------------------
(***************************************************************************)
(* What one process does with a domain and a bucket, for every set of      *)
(* files, environments, domains and bucket ids: the settings, the engine,  *)
(* the labels and the store.                                               *)
(***************************************************************************)
EXTENDS DataPath, DomainClassifierProofs, BucketKeysProofs, TLAPS

-----------------------------------------------------------------------------
(* Configuration.                                                          *)

\* The fields of a file and of a configuration.
ConfigFields ==
  {"tokens", "rps", "interval", "maxDomains", "policies", "storage", "poolSize", "tracing"}

\* The settings that the properties depend on.
ConfigTypeOK(c) ==
  /\ DOMAIN c = ConfigFields
  /\ c.tokens \in Nat /\ c.rps \in Nat /\ c.interval \in Duration /\ c.maxDomains \in Int
  /\ c.policies \in Seq(PolicyType)

\* What a file is.
LEMMA FileFacts ==
  ASSUME NEW f \in FileType
  PROVE  /\ DOMAIN f = ConfigFields
         /\ f.tokens \in Nat \cup {Unset} /\ f.rps \in Nat \cup {Unset}
         /\ f.interval \in Duration \cup {Unset} /\ f.maxDomains \in Int \cup {Unset}
         /\ f.policies \in Seq(PolicyType) /\ DOMAIN f.policies = 1 .. Len(f.policies)
<1>1. /\ f.tokens \in Nat \cup {Unset} /\ f.rps \in Nat \cup {Unset}
      /\ f.interval \in Duration \cup {Unset} /\ f.maxDomains \in Int \cup {Unset}
      /\ f.policies \in Seq(PolicyType)
  BY Zenon DEF FileType
<1>2. DOMAIN f = ConfigFields
  BY DEF FileType, ConfigFields
<1>3. DOMAIN f.policies = 1 .. Len(f.policies)
  BY <1>1
<1> QED
  BY <1>1, <1>2, <1>3, Zenon

\* The decoding steps keep a policy a policy with the same patterns.
LEMMA PolicyFacts ==
  ASSUME NEW p \in PolicyType
  PROVE  LET q == UnmarshalPolicy(p) IN
         /\ q \in PolicyType /\ q.tokens \in Nat /\ q.rps \in Nat
         /\ q.domainPattern = p.domainPattern /\ q.bucketKeyPattern = p.bucketKeyPattern
<1> DEFINE q == UnmarshalPolicy(p)
<1>1. Given(p.tokens, 0) \in Nat /\ Given(p.rps, 0) \in Nat
  BY DEF PolicyType, Given
<1>2. q = [p EXCEPT !.tokens = Given(p.tokens, 0), !.rps = Given(p.rps, 0)]
  BY DEF UnmarshalPolicy
<1> HIDE DEF q
<1>3. /\ q.tokens = Given(p.tokens, 0) /\ q.rps = Given(p.rps, 0)
      /\ q.domainPattern = p.domainPattern /\ q.bucketKeyPattern = p.bucketKeyPattern
  BY <1>2 DEF PolicyType
<1>4. q \in PolicyType
  BY <1>1, <1>2 DEF PolicyType
<1> QED
  BY <1>1, <1>3, <1>4, Zenon DEF q

\* The policies of ps, with the numbers that a decoding step gives them.
SamePatterns(ps, qs) ==
  /\ qs \in Seq(PolicyType) /\ Len(qs) = Len(ps)
  /\ \A i \in 1 .. Len(ps) : /\ qs[i].domainPattern = ps[i].domainPattern
                             /\ qs[i].bucketKeyPattern = ps[i].bucketKeyPattern

\* What Unmarshal makes of the settings of a file.
LEMMA UnmarshalFacts ==
  ASSUME NEW f \in FileType
  PROVE  LET u == Unmarshal(f) IN
         /\ ConfigTypeOK(u) /\ SamePatterns(f.policies, u.policies)
         /\ u.tokens = Given(f.tokens, 0) /\ u.rps = Given(f.rps, 0)
<1> USE ConfigurationAssumption
<1> DEFINE u    == Unmarshal(f)
           P(i) == UnmarshalPolicy(f.policies[i])
<1>1. /\ DOMAIN f = ConfigFields
      /\ f.tokens \in Nat \cup {Unset} /\ f.rps \in Nat \cup {Unset}
      /\ f.interval \in Duration \cup {Unset} /\ f.maxDomains \in Int \cup {Unset}
      /\ f.policies \in Seq(PolicyType) /\ DOMAIN f.policies = 1 .. Len(f.policies)
  BY FileFacts
<1>2. /\ u.tokens = Given(f.tokens, 0) /\ u.rps = Given(f.rps, 0)
      /\ u.interval = Given(f.interval, DefaultInterval)
      /\ u.maxDomains = Given(f.maxDomains, DefaultDomains)
      /\ DOMAIN u = ConfigFields
  BY <1>1 DEF Unmarshal, ConfigFields
<1>3. u.policies = [i \in DOMAIN f.policies |-> P(i)]
  BY <1>1 DEF Unmarshal, ConfigFields
<1> HIDE DEF u
<1>4. u.tokens \in Nat /\ u.rps \in Nat /\ u.interval \in Duration /\ u.maxDomains \in Int
  BY <1>1, <1>2 DEF Given
<1>5. \A i \in 1 .. Len(f.policies) :
        /\ P(i) \in PolicyType /\ P(i).domainPattern = f.policies[i].domainPattern
        /\ P(i).bucketKeyPattern = f.policies[i].bucketKeyPattern
  <2> SUFFICES ASSUME NEW i \in 1 .. Len(f.policies)
               PROVE  /\ P(i) \in PolicyType /\ P(i).domainPattern = f.policies[i].domainPattern
                      /\ P(i).bucketKeyPattern = f.policies[i].bucketKeyPattern
    OBVIOUS
  <2>1. f.policies[i] \in PolicyType
    BY <1>1
  <2> QED
    BY <2>1, PolicyFacts
<1> HIDE DEF P
<1>6. SamePatterns(f.policies, u.policies)
  <2>0. Len(f.policies) \in Nat
    BY <1>1
  <2>1. u.policies = [i \in 1 .. Len(f.policies) |-> P(i)]
    BY <1>1, <1>3
  <2>2. u.policies \in Seq(PolicyType) /\ Len(u.policies) = Len(f.policies)
    BY <1>5, <2>0, <2>1
  <2>3. \A i \in 1 .. Len(f.policies) : u.policies[i] = P(i)
    BY <2>1
  <2> QED
    BY <1>5, <2>2, <2>3, Zenon DEF SamePatterns
<1> QED
  BY <1>2, <1>4, <1>6, Zenon DEF u, ConfigTypeOK, SamePatterns

\* Resolving the deprecated name of a policy keeps its patterns.
LEMMA ResolvePolicyFacts ==
  ASSUME NEW p \in PolicyType
  PROVE  LET q == ResolvePolicy(p) IN
         /\ q \in PolicyType
         /\ q.domainPattern = p.domainPattern /\ q.bucketKeyPattern = p.bucketKeyPattern
<1> DEFINE q == ResolvePolicy(p)
<1>1. Renamed(p.tokens, p.rps) \in Nat \cup {Unset}
  BY DEF PolicyType, Renamed
<1>2. q = [p EXCEPT !.tokens = Renamed(p.tokens, p.rps)]
  BY DEF ResolvePolicy
<1> HIDE DEF q
<1>3. q.domainPattern = p.domainPattern /\ q.bucketKeyPattern = p.bucketKeyPattern
  BY <1>2 DEF PolicyType
<1>4. q \in PolicyType
  BY <1>1, <1>2 DEF PolicyType
<1> QED
  BY <1>3, <1>4, Zenon DEF q

\* What ResolveDeprecated makes of a configuration.
LEMMA ResolveFacts ==
  ASSUME NEW c, ConfigTypeOK(c)
  PROVE  LET u == ResolveDeprecated(c) IN
         /\ ConfigTypeOK(u) /\ SamePatterns(c.policies, u.policies)
         /\ u.tokens = IF c.tokens # 0 THEN c.tokens
                       ELSE IF c.rps # 0 THEN c.rps ELSE DefaultTokens
<1> DEFINE u == ResolveDeprecated(c)
           t == Renamed(c.tokens, c.rps)
<1>1. /\ DOMAIN c = ConfigFields
      /\ c.tokens \in Nat /\ c.rps \in Nat /\ c.interval \in Duration /\ c.maxDomains \in Int
      /\ c.policies \in Seq(PolicyType)
  BY DEF ConfigTypeOK
<1>2. /\ u.tokens = IF t = 0 THEN DefaultTokens ELSE t
      /\ u.rps = c.rps /\ u.interval = c.interval /\ u.maxDomains = c.maxDomains
      /\ DOMAIN u = ConfigFields
  BY <1>1 DEF ResolveDeprecated, ConfigFields
<1>3. u.policies = [i \in DOMAIN c.policies |-> ResolvePolicy(c.policies[i])]
  BY <1>1 DEF ResolveDeprecated, ConfigFields
<1> HIDE DEF u
<1>4. /\ u.tokens = IF c.tokens # 0 THEN c.tokens
                    ELSE IF c.rps # 0 THEN c.rps ELSE DefaultTokens
      /\ u.tokens \in Nat
  BY <1>1, <1>2, ConfigurationAssumption DEF Renamed
<1>5. SamePatterns(c.policies, u.policies)
  <2>0. Len(c.policies) \in Nat /\ DOMAIN c.policies = 1 .. Len(c.policies)
    BY <1>1
  <2>1. \A i \in 1 .. Len(c.policies) :
          /\ ResolvePolicy(c.policies[i]) \in PolicyType
          /\ ResolvePolicy(c.policies[i]).domainPattern = c.policies[i].domainPattern
          /\ ResolvePolicy(c.policies[i]).bucketKeyPattern = c.policies[i].bucketKeyPattern
    BY <1>1, ResolvePolicyFacts
  <2>2. u.policies \in Seq(PolicyType) /\ Len(u.policies) = Len(c.policies)
    BY <1>3, <2>0, <2>1
  <2>3. \A i \in 1 .. Len(c.policies) : u.policies[i] = ResolvePolicy(c.policies[i])
    BY <1>3, <2>0
  <2> QED
    BY <2>1, <2>2, <2>3, Zenon DEF SamePatterns
<1>6. ConfigTypeOK(u)
  BY <1>1, <1>2, <1>4, <1>5, Zenon DEF ConfigTypeOK, SamePatterns
<1> QED
  BY <1>4, <1>5, <1>6, Zenon DEF u

\* The number of tokens that a file gives buckets without a policy.
FileTokens(f) ==
  IF f.tokens \notin {Unset, 0} THEN f.tokens
  ELSE IF f.rps \notin {Unset, 0} THEN f.rps ELSE DefaultTokens

\* What Load makes of a file and an environment: the types of the settings, the
\* policies' patterns, and the tokens in the order of precedence.
LEMMA LoadFacts ==
  ASSUME NEW f \in FileType, NEW e \in EnvType
  PROVE  LET c == Load(f, e) IN
         /\ ConfigTypeOK(c) /\ SamePatterns(f.policies, c.policies)
         /\ c.tokens = EnvTokens(e, FileTokens(f))
<1> DEFINE a == Unmarshal(f)
           b == ResolveDeprecated(a)
           c == Overridden(b, e)
<1>0. /\ f.tokens \in Nat \cup {Unset} /\ f.rps \in Nat \cup {Unset}
      /\ f.policies \in Seq(PolicyType)
  BY FileFacts
<1>1. /\ ConfigTypeOK(a) /\ SamePatterns(f.policies, a.policies)
      /\ a.tokens = Given(f.tokens, 0) /\ a.rps = Given(f.rps, 0)
  BY UnmarshalFacts
<1> HIDE DEF a
<1>2. /\ ConfigTypeOK(b) /\ SamePatterns(a.policies, b.policies)
      /\ b.tokens = IF a.tokens # 0 THEN a.tokens
                    ELSE IF a.rps # 0 THEN a.rps ELSE DefaultTokens
  BY <1>1, ResolveFacts
<1> HIDE DEF b
<1>3. b.tokens = FileTokens(f)
  BY <1>0, <1>1, <1>2, ConfigurationAssumption DEF FileTokens, Given
<1>4. /\ DOMAIN b = ConfigFields
      /\ b.tokens \in Nat /\ b.rps \in Nat /\ b.interval \in Duration /\ b.maxDomains \in Int
      /\ b.policies \in Seq(PolicyType)
  BY <1>2 DEF ConfigTypeOK
<1>5. /\ c.tokens = EnvTokens(e, b.tokens)
      /\ c.interval = Parsed(e.interval, b.interval)
      /\ c.rps = b.rps /\ c.maxDomains = b.maxDomains /\ c.policies = b.policies
      /\ DOMAIN c = ConfigFields
  BY <1>4 DEF Overridden, ConfigFields
<1> HIDE DEF c
<1>6. c.tokens \in Nat /\ c.interval \in Duration
  <2>1. /\ e.tokens \in Nat \cup {Unset, Garbled} /\ e.rps \in Nat \cup {Unset, Garbled}
        /\ e.interval \in Duration \cup {Unset, Garbled}
    BY Zenon DEF EnvType
  <2> QED
    BY <1>4, <1>5, <2>1 DEF EnvTokens, Parsed
<1>7. ConfigTypeOK(c)
  BY <1>4, <1>5, <1>6, Zenon DEF ConfigTypeOK
<1>8. SamePatterns(f.policies, b.policies)
  BY <1>1, <1>2, Zenon DEF SamePatterns
<1> QED
  BY <1>3, <1>5, <1>7, <1>8, Zenon DEF Load, c, b, a

-----------------------------------------------------------------------------
(* The first place of a sequence that passes a test.                       *)

\* The least element of a non-empty set of natural numbers.
LEMMA MinFacts ==
  ASSUME NEW I \in SUBSET Nat, I # {}
  PROVE  Min(I) \in I /\ \A j \in I : Min(I) <= j
<1>1. \E m \in I : \A j \in I : m <= j
  BY LeastNatural
<1> QED
  BY <1>1, Zenon DEF Min

\* It is the same for a set that only lacks greater elements.
LEMMA SameMin ==
  ASSUME NEW I \in SUBSET Nat, NEW J \in SUBSET I, NEW k \in J,
         \A i \in I : i <= k => i \in J
  PROVE  Min(I) = Min(J)
<1>1. Min(I) \in I /\ \A j \in I : Min(I) <= j
  BY MinFacts
<1>2. Min(J) \in J /\ \A j \in J : Min(J) <= j
  BY MinFacts
<1>3. Min(J) \in I /\ k \in I /\ I \subseteq Nat
  BY <1>2
<1>4. Min(I) \in J
  BY <1>1, <1>3, Zenon
<1>5. Min(I) <= Min(J) /\ Min(J) <= Min(I) /\ Min(I) \in Nat /\ Min(J) \in Nat
  BY <1>1, <1>2, <1>3, <1>4, Zenon
<1> QED
  BY <1>5

-----------------------------------------------------------------------------
(* The settings.                                                           *)

\* The strongest setting is the one that Load ends up with.
LEMMA StrongestIsLoaded ==
  ASSUME file \in FileType, env \in EnvType
  PROVE  StrongestTokens = cfg.tokens
<1> DEFINE s == TokenSettings
           I == {i \in 1 .. 5 : s[i] \notin {Unset, Garbled}}
           m == Min(I)
<1>1. cfg.tokens = EnvTokens(env, FileTokens(file))
  BY LoadFacts DEF cfg
<1>2. /\ s[1] = env.tokens
      /\ s[2] = IF env.tokens = Unset THEN env.rps ELSE Unset
      /\ s[3] = IF file.tokens = 0 THEN Unset ELSE file.tokens
      /\ s[4] = IF file.rps = 0 THEN Unset ELSE file.rps
      /\ s[5] = DefaultTokens /\ Len(s) = 5
  BY DEF TokenSettings
<1>3. file.tokens \in Nat \cup {Unset} /\ file.rps \in Nat \cup {Unset}
  BY FileFacts
<1> HIDE DEF s
<1>4. 5 \in I
  BY <1>2, ConfigurationAssumption
<1>5. m \in I /\ \A j \in I : m <= j
  <2>1. I \in SUBSET Nat /\ I # {}
    BY <1>4
  <2> HIDE DEF I
  <2> QED
    BY <2>1, MinFacts
<1>6. StrongestTokens = s[m]
  <2>1. DOMAIN s = 1 .. 5
    BY DEF s, TokenSettings
  <2>2. I = {i \in DOMAIN s : s[i] \notin {Unset, Garbled}}
    BY <2>1
  <2> HIDE DEF I
  <2> QED
    BY <2>2 DEF StrongestTokens, s
<1> HIDE DEF m
<1>7. m \in 1 .. 5 /\ s[m] \notin {Unset, Garbled} /\ \A j \in 1 .. 5 : j < m => s[j] \in {Unset, Garbled}
  BY <1>5
<1> HIDE DEF I
<1>8. s[m] = EnvTokens(env, FileTokens(file))
  <2> USE <1>2, <1>3, <1>7, ConfigurationAssumption DEF EnvTokens, FileTokens, Parsed
  <2>1. CASE m = 1
    BY <2>1
  <2>2. CASE m = 2
    BY <2>2
  <2>3. CASE m = 3
    BY <2>3
  <2>4. CASE m = 4
    BY <2>4
  <2>5. CASE m = 5
    BY <2>5
  <2> QED
    BY <2>1, <2>2, <2>3, <2>4, <2>5
<1> QED
  BY <1>1, <1>6, <1>8

-----------------------------------------------------------------------------
(* The engine.                                                             *)

\* What buildEngine makes of a configuration, with policies or without.
LEMMA EngineFacts ==
  ASSUME NEW c, c.policies \in Seq(PolicyType)
  PROVE  LET e == BuildEngine(c) IN
         /\ e.default = DefaultPolicy(c)
         /\ Len(e.policies) = Len(c.policies) /\ Len(c.policies) \in Nat
         /\ DOMAIN e.policies = 1 .. Len(c.policies)
         /\ \A i \in 1 .. Len(c.policies) : e.policies[i] = BuildPolicy(c, c.policies[i])
<1> DEFINE e == BuildEngine(c)
<1>0. Len(c.policies) \in Nat /\ DOMAIN c.policies = 1 .. Len(c.policies)
  OBVIOUS
<1>1. CASE c.policies = <<>>
  <2>1. e.default = DefaultPolicy(c) /\ e.policies = <<>>
    BY <1>1 DEF BuildEngine, DefaultPolicy
  <2>2. Len(c.policies) = 0 /\ 1 .. 0 = {}
    BY <1>1
  <2> HIDE DEF e
  <2> QED
    BY <1>0, <2>1, <2>2 DEF e
<1>2. CASE c.policies # <<>>
  <2>1. /\ e.default = DefaultPolicy(c)
        /\ e.policies = [i \in DOMAIN c.policies |-> BuildPolicy(c, c.policies[i])]
    BY <1>2 DEF BuildEngine
  <2> HIDE DEF e
  <2>2. e.policies = [i \in 1 .. Len(c.policies) |-> BuildPolicy(c, c.policies[i])]
    BY <1>0, <2>1
  <2>3. Len(e.policies) = Len(c.policies) /\ DOMAIN e.policies = 1 .. Len(c.policies)
    BY <1>0, <2>2
  <2>4. \A i \in 1 .. Len(c.policies) : e.policies[i] = BuildPolicy(c, c.policies[i])
    BY <2>2
  <2> QED
    BY <1>0, <2>1, <2>3, <2>4, Zenon DEF e
<1> QED
  BY <1>1, <1>2

\* The places of the policies that match.
Hits(e, d, k) == {i \in DOMAIN e.policies : Matches(e.policies[i], d, k)}

\* Selected takes the first one.
LEMMA SelectedFacts ==
  ASSUME NEW e, NEW d, NEW k
  PROVE  Selected(e, d, k) =
           IF Hits(e, d, k) = {} THEN e.default ELSE e.policies[Min(Hits(e, d, k))]
BY DEF Selected, Hits

\* Engines that select the same policy for every report answer the same.
LEMMA SameAnswer ==
  ASSUME NEW e, NEW g, NEW d, NEW id,
         Selected(e, d, BucketKeyFromProto(id)) = Selected(g, d, BucketKeyFromProto(id))
  PROVE  ProcessUsage(e, d, <<id>>) = ProcessUsage(g, d, <<id>>)
<1>1. Assignment(e, d, id) = Assignment(g, d, id)
  BY DEF Assignment
<1> DEFINE answer(x) == [i \in DOMAIN <<id>> |->
                           IF <<id>>[i] = <<>> THEN <<>> ELSE <<Assignment(x, d, <<id>>[i])>>]
<1>2. answer(e) = answer(g)
  <2>1. \A i \in DOMAIN <<id>> : <<id>>[i] = id
    OBVIOUS
  <2>2. \A i \in DOMAIN <<id>> : Assignment(e, d, <<id>>[i]) = Assignment(g, d, <<id>>[i])
    BY <1>1, <2>1, Zenon
  <2> QED
    BY <2>2
<1> HIDE DEF answer
<1>3. Concat(answer(e)) = Concat(answer(g))
  BY <1>2
<1> QED
  BY <1>3 DEF ProcessUsage, answer

\* buildEngine keeps apart what policies match: without a match the answer is
\* that of the configuration without policies.
LEMMA UnmatchedFacts ==
  ASSUME NEW c, ConfigTypeOK(c), NEW d, NEW id,
         \A i \in DOMAIN BuildEngine(c).policies :
           ~Matches(BuildEngine(c).policies[i], d, BucketKeyFromProto(id))
  PROVE  ProcessUsage(BuildEngine(c), d, <<id>>) =
           ProcessUsage(BuildEngine([c EXCEPT !.policies = <<>>]), d, <<id>>)
<1> DEFINE e == BuildEngine(c)
           b == [c EXCEPT !.policies = <<>>]
           g == BuildEngine(b)
           k == BucketKeyFromProto(id)
<1>1. b.policies = <<>> /\ b.tokens = c.tokens /\ b.interval = c.interval
  BY DEF ConfigTypeOK, ConfigFields
<1>2. c.policies \in Seq(PolicyType) /\ b.policies \in Seq(PolicyType) /\ Len(b.policies) = 0
  BY <1>1 DEF ConfigTypeOK
<1> HIDE DEF b
<1>3. DefaultPolicy(b) = DefaultPolicy(c)
  BY <1>1 DEF DefaultPolicy
<1>4. e.default = DefaultPolicy(c)
  BY <1>2, EngineFacts
<1>5. g.default = DefaultPolicy(b) /\ DOMAIN g.policies = {}
  BY <1>2, EngineFacts
<1>6. Hits(e, d, k) = {} /\ Hits(g, d, k) = {}
  <2> HIDE DEF e, g, k
  <2>1. \A i \in DOMAIN e.policies : ~Matches(e.policies[i], d, k)
    BY DEF e, k
  <2> QED
    BY <1>5, <2>1, Zenon DEF Hits
<1> HIDE DEF e, g, k
<1>7. Selected(e, d, k) = e.default /\ Selected(g, d, k) = g.default
  BY <1>6, SelectedFacts
<1>8. Selected(e, d, k) = Selected(g, d, k)
  BY <1>3, <1>4, <1>5, <1>7
<1>9. ProcessUsage(e, d, <<id>>) = ProcessUsage(g, d, <<id>>)
  BY <1>8, SameAnswer DEF k
<1> QED
  BY <1>9 DEF e, g, b

\* What follows a policy that matches makes no difference.
LEMMA EarlierFacts ==
  ASSUME NEW c, ConfigTypeOK(c), NEW d, NEW id, NEW n \in DOMAIN BuildEngine(c).policies,
         Matches(BuildEngine(c).policies[n], d, BucketKeyFromProto(id))
  PROVE  ProcessUsage(BuildEngine(c), d, <<id>>) =
           ProcessUsage(BuildEngine([c EXCEPT !.policies = SubSeq(@, 1, n)]), d, <<id>>)
<1> DEFINE e == BuildEngine(c)
           b == [c EXCEPT !.policies = SubSeq(@, 1, n)]
           g == BuildEngine(b)
           k == BucketKeyFromProto(id)
           H == Hits(e, d, k)
           J == Hits(g, d, k)
<1>1. b.policies = SubSeq(c.policies, 1, n) /\ b.tokens = c.tokens /\ b.interval = c.interval
  BY DEF ConfigTypeOK, ConfigFields
<1>2. c.policies \in Seq(PolicyType)
  BY DEF ConfigTypeOK
<1>3. /\ DOMAIN e.policies = 1 .. Len(c.policies) /\ Len(c.policies) \in Nat
      /\ n \in 1 .. Len(c.policies)
      /\ \A i \in 1 .. Len(c.policies) : e.policies[i] = BuildPolicy(c, c.policies[i])
  BY <1>2, EngineFacts
<1> HIDE DEF b
<1>4. /\ b.policies \in Seq(PolicyType) /\ Len(b.policies) = n
      /\ \A i \in 1 .. n : b.policies[i] = c.policies[i]
  BY <1>1, <1>2, <1>3
<1>5. /\ DOMAIN g.policies = 1 .. n /\ \A i \in 1 .. n : g.policies[i] = BuildPolicy(b, b.policies[i])
  BY <1>4, EngineFacts
<1>6. \A i \in 1 .. n : g.policies[i] = e.policies[i]
  <2> SUFFICES ASSUME NEW i \in 1 .. n PROVE BuildPolicy(b, b.policies[i]) = e.policies[i]
    BY <1>5
  <2>1. i \in 1 .. Len(c.policies)
    BY <1>3
  <2>2. b.policies[i] = c.policies[i]
    BY <1>4
  <2>3. BuildPolicy(b, c.policies[i]) = BuildPolicy(c, c.policies[i])
    BY <1>1 DEF BuildPolicy
  <2> QED
    BY <1>3, <2>1, <2>2, <2>3
<1>7. Matches(e.policies[n], d, k)
  OBVIOUS
<1> HIDE DEF e, g, k
<1>8. /\ H = {i \in 1 .. Len(c.policies) : Matches(e.policies[i], d, k)}
      /\ J = {i \in 1 .. n : Matches(e.policies[i], d, k)}
  BY <1>3, <1>5, <1>6 DEF Hits
<1> HIDE DEF H, J
<1>9. /\ H \in SUBSET Nat /\ J \in SUBSET H /\ n \in J /\ J \in SUBSET (1 .. n)
      /\ \A i \in H : i <= n => i \in J
  BY <1>3, <1>7, <1>8
<1>10. Min(H) = Min(J) /\ Min(J) \in J
  BY <1>9, SameMin, MinFacts
<1>11. e.policies[Min(H)] = g.policies[Min(J)]
  BY <1>6, <1>9, <1>10
<1>12. Selected(e, d, k) = e.policies[Min(H)] /\ Selected(g, d, k) = g.policies[Min(J)]
  BY <1>9, SelectedFacts DEF H, J
<1>13. ProcessUsage(e, d, <<id>>) = ProcessUsage(g, d, <<id>>)
  BY <1>11, <1>12, SameAnswer DEF k
<1> QED
  BY <1>13 DEF e, g, b

-----------------------------------------------------------------------------
(* The classifier that is built from a configuration.                      *)

\* Its patterns are compiled ones and its cap is positive.
LEMMA BuiltRules ==
  ASSUME NEW c, ConfigTypeOK(c), Compiles(c)
  PROVE  /\ BuildDomainClassifier(c) \in Rules
         /\ BuildDomainClassifier(c).patterns =
              {c.policies[i].domainPattern : i \in 1 .. Len(c.policies)} \ {NoPattern}
<1> DEFINE P == {c.policies[i].domainPattern : i \in 1 .. Len(c.policies)} \ {NoPattern}
           m == IF c.maxDomains <= 0 THEN DefaultMaxDomains ELSE c.maxDomains
<1>1. c.policies \in Seq(PolicyType) /\ c.maxDomains \in Int
  BY DEF ConfigTypeOK
<1>2. DOMAIN c.policies = 1 .. Len(c.policies)
  BY <1>1
<1>3. BuildDomainClassifier(c) = [patterns |-> P, maxDomains |-> m]
  BY <1>2, DataPathAssumption DEF BuildDomainClassifier, NewDomainClassifier
<1>4. P \in SUBSET Patterns
  <2> SUFFICES ASSUME NEW i \in 1 .. Len(c.policies), c.policies[i].domainPattern # NoPattern
               PROVE  c.policies[i].domainPattern \in Patterns
    OBVIOUS
  <2>1. c.policies[i] \in PolicyType
    BY <1>1
  <2>2. c.policies[i].domainPattern \in Patterns \cup {NoPattern} \cup Uncompilable
    BY <2>1, Zenon DEF PolicyType
  <2>3. c.policies[i].domainPattern \notin Uncompilable
    BY <1>2, Zenon DEF Compiles
  <2> QED
    BY <2>2, <2>3
<1>5. m \in Nat \ {0}
  BY <1>1, ClassifierAssumption
<1> HIDE DEF P, m
<1> QED
  BY <1>3, <1>4, <1>5 DEF Rules, P

\* What a configuration's policies match is what its classifier's patterns match.
LEMMA MatchedByPolicies ==
  ASSUME NEW c, ConfigTypeOK(c), Compiles(c), NEW d
  PROVE  LET e     == BuildEngine(c)
             named == \E i \in DOMAIN e.policies :
                        e.policies[i].domain # NoPattern /\ d \in e.policies[i].domain
             any   == \E i \in DOMAIN e.policies : e.policies[i].domain # NoPattern
         IN  Matched(BuildDomainClassifier(c), d) <=> named \/ ~any
<1> DEFINE e == BuildEngine(c)
           r == BuildDomainClassifier(c)
<1>1. c.policies \in Seq(PolicyType)
  BY DEF ConfigTypeOK
<1>2. r.patterns = {c.policies[i].domainPattern : i \in 1 .. Len(c.policies)} \ {NoPattern}
  BY BuiltRules
<1>3. /\ DOMAIN e.policies = 1 .. Len(c.policies)
      /\ \A i \in 1 .. Len(c.policies) : e.policies[i].domain = c.policies[i].domainPattern
  <2>1. /\ DOMAIN e.policies = 1 .. Len(c.policies)
        /\ \A i \in 1 .. Len(c.policies) : e.policies[i] = BuildPolicy(c, c.policies[i])
    BY <1>1, EngineFacts
  <2>2. \A p : BuildPolicy(c, p).domain = p.domainPattern
    BY DEF BuildPolicy
  <2> HIDE DEF e
  <2> QED
    BY <2>1, <2>2
<1> HIDE DEF e, r
<1>4. \A p : p \in r.patterns <=>
             p # NoPattern /\ \E i \in DOMAIN e.policies : p = e.policies[i].domain
  BY <1>2, <1>3, Zenon
<1>5. r.patterns = {} <=> ~\E i \in DOMAIN e.policies : e.policies[i].domain # NoPattern
  BY <1>4
<1>6. (\E p \in r.patterns : d \in p) <=>
        \E i \in DOMAIN e.policies : e.policies[i].domain # NoPattern /\ d \in e.policies[i].domain
  BY <1>4
<1> QED
  BY <1>5, <1>6, Zenon DEF Matched, e, r

-----------------------------------------------------------------------------
(* Counters that wrap.                                                     *)

\* Division with remainder.
LEMMA Division ==
  ASSUME NEW u \in Nat \ {0}, NEW a \in Nat
  PROVE  a % u \in 0 .. u - 1 /\ a \div u \in Nat /\ a = u * (a \div u) + (a % u)
<1> DEFINE q == a \div u
           r == a % u
<1>1. r \in 0 .. u - 1 /\ q \in Int
  OBVIOUS
<1>2. r = a - u * q
  OBVIOUS
<1> HIDE DEF q, r
<1>3. u * q \in Int
  BY <1>1
<1>4. a = u * q + r
  BY <1>1, <1>2, <1>3
<1>5. q >= 0
  <2> SUFFICES ASSUME q < 0 PROVE FALSE
    BY <1>1
  <2>1. u * q <= -u
    BY <1>1
  <2> QED
    BY <1>1, <1>3, <1>4, <2>1
<1>6. q \in Nat
  BY <1>1, <1>5
<1> QED
  BY <1>1, <1>4, <1>6, Zenon DEF q, r

\* A greater quotient is greater by at least the divisor.
LEMMA Multiples ==
  ASSUME NEW u \in Nat \ {0}, NEW p \in Nat, NEW q \in Nat, p < q
  PROVE  u * p + u <= u * q
OBVIOUS

\* The remainder is unique.
LEMMA Remainder ==
  ASSUME NEW u \in Nat \ {0}, NEW a \in Nat, NEW q \in Nat, NEW r \in 0 .. u - 1, a = u * q + r
  PROVE  a % u = r
<1> DEFINE p == a \div u
           s == a % u
<1>1. s \in 0 .. u - 1 /\ p \in Nat /\ a = u * p + s
  BY Division
<1> HIDE DEF p, s
<1>2. u * p \in Nat /\ u * q \in Nat
  BY <1>1
<1>3. ~(p < q)
  <2>1. p < q => u * p + u <= u * q
    BY <1>1, Multiples
  <2> QED
    BY <1>1, <1>2, <2>1
<1>4. ~(q < p)
  <2>1. q < p => u * q + u <= u * p
    BY <1>1, Multiples
  <2> QED
    BY <1>1, <1>2, <2>1
<1>5. p = q
  BY <1>1, <1>3, <1>4
<1> QED
  BY <1>1, <1>2, <1>5 DEF s

\* Counting on from a wrapped counter wraps to the same value.
LEMMA WrappedIncrement ==
  ASSUME NEW u \in Nat \ {0}, NEW a \in Nat
  PROVE  ((a % u) + 1) % u = (a + 1) % u
<1> DEFINE p == a \div u
           s == a % u
<1>1. s \in 0 .. u - 1 /\ p \in Nat /\ a = u * p + s
  BY Division
<1> HIDE DEF p, s
<1>2. u * p \in Nat
  BY <1>1
<1>3. CASE s + 1 < u
  <2>1. a + 1 = u * p + (s + 1) /\ s + 1 = u * 0 + (s + 1) /\ s + 1 \in 0 .. u - 1
    BY <1>1, <1>2, <1>3
  <2>2. (a + 1) % u = s + 1 /\ (s + 1) % u = s + 1
    BY <1>1, <2>1, Remainder
  <2> QED
    BY <2>2 DEF s
<1>4. CASE s + 1 = u
  <2>1. a + 1 = u * (p + 1) + 0 /\ s + 1 = u * 1 + 0 /\ 0 \in 0 .. u - 1
    BY <1>1, <1>2, <1>4
  <2>2. (a + 1) % u = 0 /\ (s + 1) % u = 0
    BY <1>1, <2>1, Remainder
  <2> QED
    BY <2>2 DEF s
<1> QED
  BY <1>1, <1>3, <1>4

-----------------------------------------------------------------------------
(* The store.                                                              *)

\* A bucket of a domain, with its pairs in some order, its name whatever the
\* order, and its key in the store.
Ids     == Domains \X BucketIds
Name(p) == <<p[1], Range(p[2])>>
Key(p)  == ScopedKey(p[1], p[2])

\* Keys stand for names (DomainScopedKey, BucketKeyFromProto).
LEMMA KeyNamesBucket ==
  ASSUME NEW p \in Ids, NEW q \in Ids
  PROVE  Key(p) = Key(q) <=> Name(p) = Name(q)
<1> DEFINE k == BucketKeyFromProto(p[2])
           l == BucketKeyFromProto(q[2])
<1>1. /\ p[1] \in PlainDomain /\ p[2] \in PlainBucketId
      /\ q[1] \in PlainDomain /\ q[2] \in PlainBucketId
  BY PlainNamesAssumption, Zenon DEF Ids
<1>2. k \in Seq(Byte) /\ l \in Seq(Byte) /\ (k = l <=> Range(p[2]) = Range(q[2]))
  BY <1>1, BucketKeyCanonical
<1> HIDE DEF k, l
<1>3. DomainScopedKey(p[1], k) = DomainScopedKey(q[1], l) => p[1] = q[1] /\ k = l
  BY <1>1, <1>2, ScopedKeysDistinct, Zenon
<1>4. Name(p) = Name(q) <=> p[1] = q[1] /\ Range(p[2]) = Range(q[2])
  BY DEF Name
<1>5. Key(p) = DomainScopedKey(p[1], k) /\ Key(q) = DomainScopedKey(q[1], l)
  BY Zenon DEF Key, ScopedKey, k, l
<1> QED
  BY <1>2, <1>3, <1>4, <1>5, Zenon

\* What the store holds is what was recorded.
Stored == {p \in Ids : Name(p) \in DOMAIN recorded}

StoreInv ==
  /\ IsFiniteSet(DOMAIN recorded)
  /\ DOMAIN recorded \subseteq {Name(p) : p \in Ids}
  /\ \A b \in DOMAIN recorded : recorded[b] \in Nat
  /\ DOMAIN buckets = {Key(p) : p \in Stored}
  /\ \A p \in Stored : buckets[Key(p)] = recorded[Name(p)] % Uint64

\* A bucket has a key in the store exactly when usage of it is recorded.
LEMMA KeyStored ==
  ASSUME StoreInv, NEW p \in Ids
  PROVE  Key(p) \in DOMAIN buckets <=> Name(p) \in DOMAIN recorded
<1>1. Key(p) \in DOMAIN buckets <=> \E q \in Stored : Key(p) = Key(q)
  BY DEF StoreInv
<1> QED
  BY <1>1, KeyNamesBucket, Zenon DEF Stored

\* The counters are in range.
LEMMA CountersInRange ==
  ASSUME StoreInv, NEW k \in DOMAIN buckets
  PROVE  buckets[k] \in 0 .. Uint64 - 1
<1>1. PICK p \in Stored : k = Key(p)
  BY DEF StoreInv
<1>2. buckets[k] = recorded[Name(p)] % Uint64 /\ recorded[Name(p)] \in Nat
  BY <1>1, Zenon DEF StoreInv, Stored
<1> QED
  BY <1>2, Division, DataPathAssumption

\* What Added does to a function with natural values.
LEMMA AddedFacts ==
  ASSUME NEW f, NEW k, \A x \in DOMAIN f : f[x] \in Nat
  PROVE  LET g == Added(f, k, 1) IN
         /\ g = [x \in DOMAIN f \cup {k} |-> g[x]]
         /\ DOMAIN g = DOMAIN f \cup {k}
         /\ g[k] = (IF k \in DOMAIN f THEN f[k] ELSE 0) + 1
         /\ \A x \in DOMAIN f : x # k => g[x] = f[x]
         /\ \A x \in DOMAIN g : g[x] \in Nat
BY DEF Added

\* RecordUsage counts one report under the key of its bucket.
LEMMA RecordKeeps ==
  ASSUME StoreInv, NEW d \in Domains, NEW id \in BucketIds, RecordUsage(d, id)
  PROVE  StoreInv'
<1> DEFINE p == <<d, id>>
           k == Key(p)
           n == Name(p)
           f == Added(recorded, n, 1)
           g == Added(buckets, k, 1)
<1>0. p \in Ids
  BY DEF Ids
<1>1. /\ recorded' = f /\ buckets' = [g EXCEPT ![k] = @ % Uint64]
  BY DEF RecordUsage, Update, Key, Name
<1>2. /\ DOMAIN f = DOMAIN recorded \cup {n}
      /\ f[n] = (IF n \in DOMAIN recorded THEN recorded[n] ELSE 0) + 1
      /\ \A x \in DOMAIN recorded : x # n => f[x] = recorded[x]
      /\ \A x \in DOMAIN f : f[x] \in Nat
  BY AddedFacts DEF StoreInv
<1>3. /\ DOMAIN g = DOMAIN buckets \cup {k}
      /\ g[k] = (IF k \in DOMAIN buckets THEN buckets[k] ELSE 0) + 1
      /\ \A x \in DOMAIN buckets : x # k => g[x] = buckets[x]
  <2>1. \A x \in DOMAIN buckets : buckets[x] \in Nat
    BY CountersInRange, DataPathAssumption
  <2> QED
    BY <2>1, AddedFacts
<1>4. k \in DOMAIN buckets <=> n \in DOMAIN recorded
  BY <1>0, KeyStored
<1>5. \A q \in Ids : Key(q) = k <=> Name(q) = n
  BY <1>0, KeyNamesBucket
<1> HIDE DEF p, k, n, f, g
<1>6. /\ DOMAIN buckets' = DOMAIN buckets \cup {k}
      /\ buckets'[k] = g[k] % Uint64
      /\ \A x \in DOMAIN buckets : x # k => buckets'[x] = buckets[x]
  BY <1>1, <1>3
<1>7. buckets'[k] = f[n] % Uint64
  <2>1. CASE n \in DOMAIN recorded
    <3>1. p \in Stored
      BY <1>0, <2>1 DEF Stored, n
    <3>2. buckets[k] = recorded[n] % Uint64 /\ recorded[n] \in Nat
      BY <3>1, <2>1, Zenon DEF StoreInv, k, n
    <3>3. g[k] = buckets[k] + 1 /\ f[n] = recorded[n] + 1
      BY <1>2, <1>3, <1>4, <2>1
    <3>4. ((recorded[n] % Uint64) + 1) % Uint64 = (recorded[n] + 1) % Uint64
      BY <3>2, WrappedIncrement, DataPathAssumption
    <3> QED
      BY <1>6, <3>2, <3>3, <3>4, Zenon
  <2>2. CASE n \notin DOMAIN recorded
    BY <1>2, <1>3, <1>4, <1>6, <2>2
  <2> QED
    BY <2>1, <2>2
<1>8. Stored' = Stored \cup {q \in Ids : Name(q) = n}
  BY <1>1, <1>2 DEF Stored
<1>9. IsFiniteSet(DOMAIN recorded')
  BY <1>1, <1>2, FS_AddElement DEF StoreInv
<1>10. DOMAIN recorded' \subseteq {Name(q) : q \in Ids}
  BY <1>0, <1>1, <1>2 DEF StoreInv, n
<1>11. DOMAIN buckets' = {Key(q) : q \in Stored'}
  <2>1. DOMAIN buckets = {Key(q) : q \in Stored}
    BY DEF StoreInv
  <2>2. p \in Stored' /\ k = Key(p)
    BY <1>0, <1>8 DEF k, n
  <2> QED
    BY <1>5, <1>6, <1>8, <2>1, <2>2
<1>12. \A q \in Stored' : buckets'[Key(q)] = recorded'[Name(q)] % Uint64
  <2> SUFFICES ASSUME NEW q \in Stored' PROVE buckets'[Key(q)] = recorded'[Name(q)] % Uint64
    OBVIOUS
  <2>0. q \in Ids
    BY <1>8 DEF Stored
  <2>1. CASE Name(q) = n
    BY SMTT(30), <1>1, <1>5, <1>7, <2>0, <2>1
  <2>2. CASE Name(q) # n
    <3>1. q \in Stored /\ Key(q) # k
      BY <1>5, <1>8, <2>0, <2>2
    <3>2. /\ buckets[Key(q)] = recorded[Name(q)] % Uint64
          /\ Key(q) \in DOMAIN buckets /\ Name(q) \in DOMAIN recorded
      BY <3>1 DEF StoreInv, Stored
    <3> QED
      BY <1>1, <1>2, <1>6, <2>2, <3>1, <3>2
  <2> QED
    BY <2>1, <2>2
<1> QED
  BY <1>1, <1>2, <1>9, <1>10, <1>11, <1>12 DEF StoreInv

\* Reset takes out the key of one bucket.
LEMMA RemoveKeeps ==
  ASSUME StoreInv, NEW d \in Domains, NEW id \in BucketIds, RemoveBucket(d, id)
  PROVE  StoreInv'
<1> DEFINE p == <<d, id>>
           k == Key(p)
           n == Name(p)
<1>0. p \in Ids
  BY DEF Ids
<1>1. recorded' = Without(recorded, n) /\ buckets' = Without(buckets, k)
  BY DEF RemoveBucket, Key, Name
<1>2. \A q \in Ids : Key(q) = k <=> Name(q) = n
  BY <1>0, KeyNamesBucket
<1> HIDE DEF p, k, n
<1>3. /\ DOMAIN recorded' = DOMAIN recorded \ {n}
      /\ \A x \in DOMAIN recorded' : recorded'[x] = recorded[x]
      /\ DOMAIN buckets' = DOMAIN buckets \ {k}
      /\ \A x \in DOMAIN buckets' : buckets'[x] = buckets[x]
  BY <1>1 DEF Without
<1>4. Stored' = {q \in Stored : Name(q) # n}
  BY <1>3 DEF Stored
<1>5. IsFiniteSet(DOMAIN recorded')
  BY <1>3, FS_RemoveElement DEF StoreInv
<1>6. DOMAIN buckets' = {Key(q) : q \in Stored'}
  <2>1. DOMAIN buckets = {Key(q) : q \in Stored} /\ Stored \subseteq Ids
    BY DEF StoreInv, Stored
  <2> QED
    BY <1>2, <1>3, <1>4, <2>1
<1>7. \A q \in Stored' : buckets'[Key(q)] = recorded'[Name(q)] % Uint64
  <2> SUFFICES ASSUME NEW q \in Stored' PROVE buckets'[Key(q)] = recorded'[Name(q)] % Uint64
    OBVIOUS
  <2>1. /\ q \in Stored /\ Key(q) \in DOMAIN buckets' /\ Name(q) \in DOMAIN recorded'
    BY <1>4, <1>6 DEF Stored
  <2>2. buckets[Key(q)] = recorded[Name(q)] % Uint64
    BY <2>1 DEF StoreInv
  <2> QED
    BY <1>3, <2>1, <2>2
<1> QED
  BY <1>3, <1>5, <1>6, <1>7 DEF StoreInv

\* As many keys as buckets, and every bucket under its own.
LEMMA InvStoreKeepsApart ==
  ASSUME StoreInv
  PROVE  StoreKeepsApart
<1> DEFINE R    == DOMAIN recorded
           B    == DOMAIN buckets
           q(x) == CHOOSE p \in Ids : Name(p) = x
           h    == [x \in R |-> Key(q(x))]
<1>1. \A x \in R : q(x) \in Ids /\ Name(q(x)) = x
  BY DEF StoreInv
<1> HIDE DEF q
<1>2. h \in [R -> B]
  <2>1. \A x \in R : Key(q(x)) \in B
    BY <1>1, KeyStored
  <2> QED
    BY <2>1
<1>3. \A x, y \in R : h[x] = h[y] => x = y
  <2> SUFFICES ASSUME NEW x \in R, NEW y \in R, Key(q(x)) = Key(q(y)) PROVE x = y
    OBVIOUS
  <2> QED
    BY <1>1, KeyNamesBucket
<1>4. \A k \in B : \E x \in R : h[x] = k
  <2> SUFFICES ASSUME NEW k \in B PROVE \E x \in R : Key(q(x)) = k
    OBVIOUS
  <2>1. PICK p \in Stored : k = Key(p)
    BY DEF StoreInv
  <2>2. p \in Ids /\ Name(p) \in R
    BY DEF Stored
  <2>3. Key(q(Name(p))) = Key(p)
    BY <1>1, <2>2, KeyNamesBucket
  <2> QED
    BY <2>1, <2>2, <2>3
<1>5. IsFiniteSet(R)
  BY DEF StoreInv
<1> HIDE DEF h, R, B
<1>6. Cardinality(B) = Cardinality(R)
  <2>1. h \in Bijection(R, B)
    BY SMTT(30), <1>2, <1>3, <1>4, Fun_IsBij
  <2> QED
    BY <1>5, <2>1, FS_Bijection, Fun_ExistsBij
<1>7. ASSUME NEW d \in Domains, NEW id \in BucketIds
      PROVE  LET b == <<d, Range(id)>>
             IN  IF b \in DOMAIN recorded
                 THEN /\ ScopedKey(d, id) \in DOMAIN buckets
                      /\ buckets[ScopedKey(d, id)] = recorded[b] % Uint64
                 ELSE ScopedKey(d, id) \notin DOMAIN buckets
  <2> DEFINE p == <<d, id>>
  <2>1. p \in Ids /\ Name(p) = <<d, Range(id)>> /\ Key(p) = ScopedKey(d, id)
    BY DEF Ids, Name, Key
  <2> HIDE DEF p
  <2>2. Key(p) \in DOMAIN buckets <=> Name(p) \in DOMAIN recorded
    BY <2>1, KeyStored
  <2>3. Name(p) \in DOMAIN recorded => buckets[Key(p)] = recorded[Name(p)] % Uint64
    BY <2>1 DEF StoreInv, Stored
  <2> QED
    BY <2>1, <2>2, <2>3
<1> QED
  BY <1>6, <1>7 DEF StoreKeepsApart, R, B

\* The filter on the keys finds the buckets of one domain.
LEMMA InvDebugListsDomain ==
  ASSUME StoreInv
  PROVE  DebugListsDomain
<1> SUFFICES ASSUME NEW d \in Domains
             PROVE  DebugBuckets(DOMAIN buckets, d) =
                      {BucketKeyFromProto(id) : id \in {i \in BucketIds : <<d, Range(i)>> \in DOMAIN recorded}}
  BY DEF DebugListsDomain
<1> DEFINE K(id) == BucketKeyFromProto(id)
           S     == {<<p[1], K(p[2])>> : p \in Stored}
<1>1. \A p \in Ids : p[1] \in PlainDomain /\ K(p[2]) \in Seq(Byte) \ {<<>>}
  BY PlainNamesAssumption, BucketKeyCanonical DEF Ids
<1>2. Stored \subseteq Ids
  BY DEF Stored
<1>3. S \in SUBSET (PlainDomain \X (Seq(Byte) \ {<<>>})) /\ d \in PlainDomain
  BY <1>1, <1>2, PlainNamesAssumption
<1>4. DOMAIN buckets = {DomainScopedKey(p[1], p[2]) : p \in S}
  <2>1. DOMAIN buckets = {Key(p) : p \in Stored}
    BY DEF StoreInv
  <2>2. \A p \in Stored : Key(p) = DomainScopedKey(p[1], K(p[2]))
    BY DEF Key, ScopedKey
  <2> HIDE DEF K
  <2>3. ASSUME NEW p \in Stored PROVE \E x \in S : Key(p) = DomainScopedKey(x[1], x[2])
    <3>1. <<p[1], K(p[2])>> \in S
      OBVIOUS
    <3> QED
      BY <2>2, <3>1
  <2>4. ASSUME NEW x \in S PROVE \E p \in Stored : DomainScopedKey(x[1], x[2]) = Key(p)
    <3>1. PICK p \in Stored : x = <<p[1], K(p[2])>>
      OBVIOUS
    <3> QED
      BY <2>2, <3>1
  <2> HIDE DEF S
  <2> QED
    BY <2>1, <2>3, <2>4
<1> HIDE DEF K
<1>5. {p[2] : p \in {q \in S : q[1] = d}} =
        {K(id) : id \in {i \in BucketIds : <<d, Range(i)>> \in DOMAIN recorded}}
  <2>1. \A id \in BucketIds : <<d, Range(id)>> \in DOMAIN recorded <=> <<d, id>> \in Stored
    BY DEF Stored, Name, Ids
  <2>2. \A p \in Stored : p = <<p[1], p[2]>> /\ p[2] \in BucketIds
    BY <1>2 DEF Ids
  <2>3. ASSUME NEW id \in BucketIds, <<d, Range(id)>> \in DOMAIN recorded
        PROVE  \E x \in S : x[1] = d /\ x[2] = K(id)
    <3>1. <<d, id>> \in Stored
      BY <2>1, <2>3
    <3>2. <<d, K(id)>> \in S
      BY <3>1
    <3> QED
      BY <3>2
  <2>4. ASSUME NEW x \in S, x[1] = d
        PROVE  \E id \in BucketIds : <<d, Range(id)>> \in DOMAIN recorded /\ x[2] = K(id)
    <3>1. PICK p \in Stored : x = <<p[1], K(p[2])>>
      OBVIOUS
    <3>2. p = <<d, p[2]>> /\ p[2] \in BucketIds /\ x[2] = K(p[2])
      BY <2>2, <2>4, <3>1
    <3>3. <<d, Range(p[2])>> \in DOMAIN recorded
      BY <2>1, <3>2
    <3> QED
      BY <3>2, <3>3
  <2> HIDE DEF S
  <2> DEFINE L == {p[2] : p \in {q \in S : q[1] = d}}
             R == {K(id) : id \in {i \in BucketIds : <<d, Range(i)>> \in DOMAIN recorded}}
  <2>5. ASSUME NEW k \in L PROVE k \in R
    <3>1. PICK x \in S : x[1] = d /\ k = x[2]
      OBVIOUS
    <3>2. PICK id \in BucketIds : <<d, Range(id)>> \in DOMAIN recorded /\ x[2] = K(id)
      BY <2>4, <3>1
    <3> QED
      BY <3>1, <3>2
  <2>6. ASSUME NEW k \in R PROVE k \in L
    <3>1. PICK id \in BucketIds : <<d, Range(id)>> \in DOMAIN recorded /\ k = K(id)
      OBVIOUS
    <3>2. PICK x \in S : x[1] = d /\ x[2] = K(id)
      BY <2>3, <3>1
    <3> QED
      BY <3>1, <3>2
  <2> HIDE DEF L, R
  <2>7. L = R
    BY <2>5, <2>6
  <2> QED
    BY <2>7 DEF L, R
<1> HIDE DEF S
<1> QED
  BY <1>3, <1>4, <1>5, DebugListsExactly DEF K

-----------------------------------------------------------------------------
(* The inductive invariant.                                                *)

\* The engine follows the file at once, the classifier after the second step of a
\* reload.
ConfigInv ==
  /\ env \in Envs /\ file \in Files /\ Loadable(file) /\ Compiles(cfg)
  /\ engine = BuildEngine(cfg)
  /\ swapping \in BOOLEAN /\ keyTTL \in 1 .. Int64 - 1 /\ messages \in 0 .. MaxMessages
  /\ ~swapping => rules[current] = BuildDomainClassifier(cfg)

DataPathInv == ClassifierInv /\ Grounded /\ ConfigInv /\ StoreInv

\* A file that loads has the types of the decoder.
LEMMA LoadedTypes ==
  ASSUME NEW f \in Files, NEW e \in Envs, Loadable(f)
  PROVE  f \in FileType /\ e \in EnvType /\ ConfigTypeOK(Load(f, e))
<1>1. f \in FileType /\ e \in EnvType
  BY SettingsAssumption DEF Loadable
<1> QED
  BY <1>1, LoadFacts

\* buildStore always finds a lifetime.
LEMMA StoreLifetime ==
  ASSUME NEW c, ConfigTypeOK(c)
  PROVE  BuildStore(c) \in 1 .. Int64 - 1
<1> DEFINE n == c.interval * 6
           u == 2 * Int64
           m == (n + Int64) % u
<1>1. c.interval \in Int
  BY DEF ConfigTypeOK, Duration
<1>2. Int64 \in Nat \ {0} /\ DefaultKeyTTL \in 1 .. Int64 - 1
  BY ConfigurationAssumption, DataPathAssumption
<1>3. u \in Nat \ {0} /\ n + Int64 \in Int
  BY <1>1, <1>2
<1>4. Wrapped(n) = m - Int64
  BY DEF Wrapped
<1> HIDE DEF n
<1>5. m \in 0 .. u - 1
  <2> HIDE DEF u
  <2> QED
    BY <1>3
<1> HIDE DEF m
<1>6. BuildStore(c) = IF Wrapped(n) <= 0 THEN DefaultKeyTTL ELSE Wrapped(n)
  BY DEF BuildStore, n
<1> QED
  BY <1>2, <1>4, <1>5, <1>6

\* The process starts with everything built from one configuration.
LEMMA DataPathInitial ==
  ASSUME Init
  PROVE  DataPathInv
<1>1. /\ env \in Envs /\ file \in Files /\ Loadable(file) /\ Compiles(cfg)
      /\ engine = BuildEngine(cfg) /\ keyTTL = BuildStore(cfg) /\ swapping = FALSE /\ messages = 0
      /\ ClassifierInit(BuildDomainClassifier(cfg))
      /\ buckets = <<>> /\ recorded = <<>>
  BY DEF Init, cfg
<1>2. ConfigTypeOK(cfg)
  BY <1>1, LoadedTypes DEF cfg
<1>3. BuildDomainClassifier(cfg) \in Rules
  BY <1>1, <1>2, BuiltRules
<1>4. ClassifierInv
  BY <1>1, <1>3, ClassifierInitial
<1>5. Grounded
  BY <1>1 DEF ClassifierInit, Grounded
<1>6. rules[current] = BuildDomainClassifier(cfg)
  BY <1>1, ClassifierAssumption DEF ClassifierInit, Classifiers
<1>7. ConfigInv
  <2>1. BuildStore(cfg) \in 1 .. Int64 - 1 /\ 0 \in 0 .. MaxMessages
    BY <1>2, StoreLifetime, DataPathAssumption
  <2> QED
    BY <1>1, <1>6, <2>1, Zenon DEF ConfigInv
<1>8. StoreInv
  <2>1. DOMAIN buckets = {} /\ DOMAIN recorded = {}
    BY <1>1
  <2> QED
    BY <2>1, FS_EmptySet DEF StoreInv, Stored
<1> QED
  BY SMTT(30), <1>4, <1>5, <1>7, <1>8 DEF DataPathInv

\* So does the process after a restart.
LEMMA RestartKeeps ==
  ASSUME DataPathInv, NEW f \in Files, Restart(f)
  PROVE  DataPathInv'
<1> DEFINE c == Load(f, env)
           r == BuildDomainClassifier(c)
<1>1. /\ env' = env /\ env \in Envs /\ file' = f /\ Loadable(f) /\ Compiles(c)
      /\ engine' = BuildEngine(c) /\ keyTTL' = BuildStore(c) /\ swapping' = FALSE /\ messages' = 0
      /\ buckets' = <<>> /\ recorded' = <<>>
  BY DEF Restart, DataPathInv, ConfigInv
<1>2. ConfigTypeOK(c) /\ cfg' = c
  BY SMTT(30), <1>1, LoadedTypes DEF cfg
<1>3. r \in Rules
  BY <1>1, <1>2, BuiltRules
<1>4. /\ current' = 0 /\ labels' = {}
      /\ rules' = [x \in Classifiers |-> r]
      /\ known' = [x \in Classifiers |-> {}]
      /\ at' = [b \in Binders |-> "idle"]
      /\ name' = [b \in Binders |-> NoDomain]
      /\ used' = [b \in Binders |-> 0]
  BY DEF Restart
<1> HIDE DEF c, r
<1>5. ClassifierInv'
  <2>1. ClassifierTypeOK'
    BY <1>3, <1>4, ClassifierAssumption DEF ClassifierTypeOK, Classifiers
  <2>2. CapRespected'
    BY <1>3, <1>4, FS_EmptySet DEF CapRespected, Rules
  <2>3. LabelsStable' /\ FutureUntouched' /\ BinderState'
    BY <1>4, ClassifierAssumption DEF LabelsStable, FutureUntouched, BinderState, Classifiers
  <2> QED
    BY SMTT(30), <2>1, <2>2, <2>3 DEF ClassifierInv
<1>6. Grounded'
  BY <1>4 DEF Grounded
<1>7. rules'[current'] = r
  BY <1>4, ClassifierAssumption DEF Classifiers
<1>8. ConfigInv'
  <2>1. BuildStore(c) \in 1 .. Int64 - 1 /\ 0 \in 0 .. MaxMessages
    BY SMTT(30), <1>2, StoreLifetime, DataPathAssumption
  <2> QED
    BY <1>1, <1>2, <1>7, <2>1, Zenon DEF ConfigInv, r
<1>9. StoreInv'
  <2>1. DOMAIN buckets' = {} /\ DOMAIN recorded' = {}
    BY <1>1
  <2> QED
    BY <2>1, FS_EmptySet DEF StoreInv, Stored
<1> QED
  BY SMTT(30), <1>5, <1>6, <1>8, <1>9 DEF DataPathInv

\* A step that leaves the classifier alone.
LEMMA ClassifierUntouched ==
  ASSUME ClassifierInv, Grounded, UNCHANGED classifierVars
  PROVE  ClassifierInv' /\ Grounded'
<1> USE DEF classifierVars
<1>1. ClassifierTypeOK' /\ CapRespected' /\ FutureUntouched'
  BY DEF ClassifierInv, ClassifierTypeOK, CapRespected, FutureUntouched
<1>2. LabelsStable' /\ BinderState'
  BY DEF ClassifierInv, LabelsStable, BinderState, Full, Matched
<1>3. Grounded'
  BY DEF Grounded, Matched
<1> QED
  BY <1>1, <1>2, <1>3 DEF ClassifierInv

\* A step of a goroutine in Classify.
LEMMA BindDomainKeeps ==
  ASSUME DataPathInv, NEW b \in Binders, BindDomain(b)
  PROVE  DataPathInv'
<1>1. Bind(b) /\ UNCHANGED <<configVars, storeVars>>
  BY DEF BindDomain, Bind
<1>2. ClassifierInv' /\ Grounded'
  BY SMTT(30), <1>1, BindKeeps, BindGrounded DEF DataPathInv
<1>3. UNCHANGED <<current, rules>>
  BY <1>1 DEF Bind, Classify, FastPath, Admit
<1>4. messages' \in 0 .. MaxMessages
  <2>1. messages \in 0 .. MaxMessages /\ MaxMessages \in Nat
    BY DataPathAssumption DEF DataPathInv, ConfigInv
  <2>2. messages' = messages \/ (messages < MaxMessages /\ messages' = messages + 1)
    BY DEF BindDomain
  <2> QED
    BY <2>1, <2>2
<1>5. ConfigInv'
  BY SMTT(30), <1>1, <1>3, <1>4 DEF DataPathInv, ConfigInv, configVars, cfg
<1>6. StoreInv'
  BY <1>1 DEF DataPathInv, StoreInv, storeVars, Stored
<1> QED
  BY <1>2, <1>5, <1>6 DEF DataPathInv

\* The steps on the store leave the classifier and the configuration alone.
LEMMA StoreStepKeeps ==
  ASSUME DataPathInv, NEW d \in Domains, NEW id \in BucketIds,
         RecordUsage(d, id) \/ RemoveBucket(d, id)
  PROVE  DataPathInv'
<1>1. UNCHANGED <<classifierVars, configVars>>
  BY DEF RecordUsage, RemoveBucket
<1>2. ClassifierInv' /\ Grounded'
  BY <1>1, ClassifierUntouched DEF DataPathInv
<1>3. messages' \in 0 .. MaxMessages
  <2>1. messages \in 0 .. MaxMessages /\ MaxMessages \in Nat
    BY SMTT(30), DataPathAssumption DEF DataPathInv, ConfigInv
  <2>2. messages' = messages \/ (messages < MaxMessages /\ messages' = messages + 1)
    BY DEF RecordUsage, RemoveBucket
  <2> QED
    BY <2>1, <2>2
<1>4. ConfigInv'
  BY <1>1, <1>3 DEF DataPathInv, ConfigInv, configVars, classifierVars, cfg
<1>5. StoreInv'
  BY RecordKeeps, RemoveKeeps DEF DataPathInv
<1> QED
  BY SMTT(30), <1>2, <1>4, <1>5 DEF DataPathInv

\* The first step of a reload.
LEMMA SwapEngineKeeps ==
  ASSUME DataPathInv, NEW f \in Files, SwapEngine(f)
  PROVE  DataPathInv'
<1>1. /\ UNCHANGED <<classifierVars, env, keyTTL, storeVars, messages>>
      /\ file' = f /\ swapping' = TRUE /\ Loadable(f)
      /\ Compiles(Load(f, env)) /\ engine' = BuildEngine(Load(f, env))
  BY DEF SwapEngine
<1>2. ClassifierInv' /\ Grounded'
  BY SMTT(30), <1>1, ClassifierUntouched DEF DataPathInv
<1>3. ConfigInv'
  BY <1>1 DEF DataPathInv, ConfigInv, cfg
<1>4. StoreInv'
  BY <1>1 DEF DataPathInv, StoreInv, storeVars, Stored
<1> QED
  BY <1>2, <1>3, <1>4 DEF DataPathInv

\* The second step of a reload.
LEMMA SwapClassifierKeeps ==
  ASSUME DataPathInv, SwapClassifier
  PROVE  DataPathInv'
<1>1. /\ UNCHANGED <<env, file, engine, keyTTL, storeVars, messages>>
      /\ swapping' = FALSE /\ SwapDomainClassifier(BuildDomainClassifier(cfg))
  BY DEF SwapClassifier
<1>2. BuildDomainClassifier(cfg) \in Rules
  <2>1. ConfigTypeOK(cfg)
    BY LoadedTypes DEF DataPathInv, ConfigInv, cfg
  <2> QED
    BY <2>1, BuiltRules DEF DataPathInv, ConfigInv
<1>3. ClassifierInv' /\ Grounded'
  BY <1>1, <1>2, SwapKeeps, SwapGrounded DEF DataPathInv
<1>4. current' # 0 /\ rules'[current'] = BuildDomainClassifier(cfg)
  <2>1. /\ current \in Nat /\ current + 1 \in Classifiers /\ current' = current + 1
        /\ rules \in [Classifiers -> Rules]
        /\ rules' = [rules EXCEPT ![current + 1] = BuildDomainClassifier(cfg)]
    BY SMTT(30), <1>1, ClassifierAssumption
    DEF SwapDomainClassifier, DataPathInv, ClassifierInv, ClassifierTypeOK, Classifiers
  <2> QED
    BY <2>1
<1>5. ConfigInv'
  BY <1>1, <1>4 DEF DataPathInv, ConfigInv, cfg
<1>6. StoreInv'
  BY <1>1 DEF DataPathInv, StoreInv, storeVars, Stored
<1> QED
  BY <1>3, <1>5, <1>6 DEF DataPathInv

\* The inductive invariant of a process and its restarts.
THEOREM DataPathInvariance == Spec => []DataPathInv
<1>1. Init => DataPathInv
  BY DataPathInitial
<1>2. DataPathInv /\ [Next]_vars => DataPathInv'
  <2> SUFFICES ASSUME DataPathInv, [Next]_vars PROVE DataPathInv'
    OBVIOUS
  <2>1. CASE \E b \in Binders : BindDomain(b)
    BY <2>1, BindDomainKeeps
  <2>2. CASE \E d \in Domains, id \in BucketIds : RecordUsage(d, id) \/ RemoveBucket(d, id)
    BY <2>2, StoreStepKeeps
  <2>3. CASE \E f \in Files : SwapEngine(f)
    BY <2>3, SwapEngineKeeps
  <2>4. CASE \E f \in Files : Restart(f)
    BY <2>4, RestartKeeps
  <2>5. CASE SwapClassifier
    BY <2>5, SwapClassifierKeeps
  <2>6. CASE UNCHANGED vars
    <3>1. ClassifierInv' /\ Grounded'
      BY <2>6, ClassifierUntouched DEF DataPathInv, vars
    <3>2. ConfigInv'
      BY SMTT(30), <2>6 DEF DataPathInv, ConfigInv, vars, configVars, classifierVars, cfg
    <3>3. StoreInv'
      BY <2>6 DEF DataPathInv, StoreInv, vars, storeVars, Stored
    <3> QED
      BY <3>1, <3>2, <3>3 DEF DataPathInv
  <2> QED
    BY <2>1, <2>2, <2>3, <2>4, <2>5, <2>6 DEF Next
<1> QED
  BY <1>1, <1>2, PTL DEF Spec

-----------------------------------------------------------------------------
(* The properties.                                                         *)

\* What the invariant says of the current configuration.
LEMMA CurrentConfig ==
  ASSUME DataPathInv
  PROVE  /\ file \in FileType /\ env \in EnvType
         /\ ConfigTypeOK(cfg) /\ Compiles(cfg) /\ engine = BuildEngine(cfg)
         /\ engine.default = DefaultPolicy(cfg)
<1>1. file \in Files /\ env \in Envs /\ Loadable(file) /\ Compiles(cfg) /\ engine = BuildEngine(cfg)
  BY DEF DataPathInv, ConfigInv
<1>2. file \in FileType /\ env \in EnvType /\ ConfigTypeOK(cfg)
  BY <1>1, LoadedTypes DEF cfg
<1>3. cfg.policies \in Seq(PolicyType)
  BY <1>2 DEF ConfigTypeOK
<1>4. BuildEngine(cfg).default = DefaultPolicy(cfg)
  BY <1>3, EngineFacts
<1> QED
  BY <1>1, <1>2, <1>4

\* The variables have their types; the counters of MemoryStorage stay in 64 bits.
THEOREM DataPathTypes == Spec => []TypeOK
<1>1. DataPathInv => TypeOK
  BY CountersInRange DEF DataPathInv, ClassifierInv, ConfigInv, TypeOK
<1> QED
  BY <1>1, DataPathInvariance, PTL

\* With the classifiers that are built from configurations, through reloads and
\* restarts, the cap, the one label per domain and the bound on all labels hold.
THEOREM ProcessLabels == Spec => [](CapRespected /\ OneLabelPerDomain /\ LabelsBounded)
<1>1. DataPathInv => CapRespected
  BY DEF DataPathInv, ClassifierInv
<1>2. DataPathInv => OneLabelPerDomain
  BY Zenon DEF DataPathInv, ClassifierInv, LabelsStable, OneLabelPerDomain
<1>3. DataPathInv => LabelsBounded
  BY InvLabelsBounded DEF DataPathInv
<1> QED
  BY <1>1, <1>2, <1>3, DataPathInvariance, PTL

\* The store holds for every bucket what was reported for it, under one key
\* whatever the order of Go's iteration (BucketKeyFromProto, MemoryStorage).
THEOREM StoreIsExact == Spec => []StoreKeepsApart
<1>1. DataPathInv => StoreKeepsApart
  BY InvStoreKeepsApart DEF DataPathInv
<1> QED
  BY <1>1, DataPathInvariance, PTL

\* /debug/buckets lists exactly the buckets with usage of the domain, in every
\* reachable state (handleDebugBuckets).
THEOREM DebugIsExact == Spec => []DebugListsDomain
<1>1. DataPathInv => DebugListsDomain
  BY InvDebugListsDomain DEF DataPathInv
<1> QED
  BY <1>1, DataPathInvariance, PTL

\* The default tokens are those of the strongest setting (Load, buildEngine).
THEOREM SettingsInOrder == Spec => []SettingsPrecedence
<1>1. DataPathInv => SettingsPrecedence
  <2> SUFFICES ASSUME DataPathInv PROVE SettingsPrecedence
    OBVIOUS
  <2>1. StrongestTokens = cfg.tokens
    BY CurrentConfig, StrongestIsLoaded
  <2>2. engine.default.strategy = TokenBucket(cfg.tokens, cfg.interval)
    BY CurrentConfig DEF DefaultPolicy
  <2> QED
    BY <2>1, <2>2 DEF SettingsPrecedence
<1> QED
  BY <1>1, DataPathInvariance, PTL

\* A bucket that no policy matches is answered as without policies (buildEngine).
THEOREM PoliciesAreLocal == Spec => []UnmatchedUnaffected
<1>1. DataPathInv => UnmatchedUnaffected
  BY CurrentConfig, UnmatchedFacts DEF UnmatchedUnaffected
<1> QED
  BY <1>1, DataPathInvariance, PTL

\* The first policy that matches decides (ProcessUsage of the policy engine).
THEOREM PriorityOrder == Spec => []EarlierPoliciesWin
<1>1. DataPathInv => EarlierPoliciesWin
  BY CurrentConfig, EarlierFacts DEF EarlierPoliciesWin
<1> QED
  BY <1>1, DataPathInvariance, PTL

\* After a reload the labels follow the policies of the engine
\* (buildDomainClassifier, SwapDomainClassifier).
THEOREM LabelsMatchPolicies == Spec => []LabelsFollowPolicies
<1>1. DataPathInv => LabelsFollowPolicies
  <2> SUFFICES ASSUME DataPathInv PROVE LabelsFollowPolicies
    OBVIOUS
  <2> DEFINE named(d) == \E i \in DOMAIN engine.policies :
                           engine.policies[i].domain # NoPattern /\ d \in engine.policies[i].domain
             anyNamed == \E i \in DOMAIN engine.policies : engine.policies[i].domain # NoPattern
  <2>1. SUFFICES ASSUME ~swapping, NEW d \in Domains
                 PROVE  /\ <<current, d, UnknownDomain>> \in labels /\ named(d) => Full(current)
                        /\ <<current, d, d>> \in labels => named(d) \/ ~anyNamed
    BY Zenon DEF LabelsFollowPolicies
  <2>2. current \in Classifiers /\ rules[current] = BuildDomainClassifier(cfg)
    BY SMTT(30), <2>1 DEF DataPathInv, ConfigInv, ClassifierInv, ClassifierTypeOK
  <2>3. Matched(BuildDomainClassifier(cfg), d) <=> named(d) \/ ~anyNamed
    BY CurrentConfig, MatchedByPolicies
  <2> HIDE DEF named, anyNamed
  <2>4. /\ <<current, d, d>> \in labels => d \in known[current]
        /\ <<current, d, UnknownDomain>> \in labels => Full(current) \/ ~Matched(rules[current], d)
    BY <2>2, Zenon DEF DataPathInv, ClassifierInv, LabelsStable
  <2>5. d \in known[current] => Matched(rules[current], d)
    BY <2>2, Zenon DEF DataPathInv, Grounded
  <2> QED
    BY <2>2, <2>3, <2>4, <2>5, Zenon
<1> QED
  BY <1>1, DataPathInvariance, PTL

=============================================================================
