-------------------------- MODULE DomainClassifier --------------------------
(***************************************************************************)
(* metrics.DomainClassifier and its use by RLQSServer: goroutines that     *)
(* bind a stream to its domain ask the current classifier for the metrics  *)
(* label, while reloads replace the classifier.  A goroutine that has      *)
(* loaded the pointer goes on with the classifier it got.                  *)
(*                                                                         *)
(* Classifiers are numbered in the order they were stored.  A compiled     *)
(* pattern is the set of strings it matches.                               *)
(***************************************************************************)
EXTENDS Integers, FiniteSets

CONSTANTS
  Domains,            \* non-empty domain names
  Binders,            \* goroutines in handleMessage that bind a domain
  Patterns,           \* compiled patterns
  EmptyPattern,       \* the empty pattern string
  UnknownDomain,      \* the overflow label
  DefaultMaxDomains,  \* the cap when none is configured
  NoDomain,           \* the domain of a goroutine that is in no call
  MaxSwaps            \* bound on the classifiers stored after the first

ASSUME ClassifierAssumption ==
  /\ IsFiniteSet(Domains)
  /\ UnknownDomain \notin Domains /\ NoDomain \notin Domains
  /\ EmptyPattern \notin Patterns
  /\ DefaultMaxDomains \in Nat \ {0}
  /\ MaxSwaps \in Nat

VARIABLES
  current,   \* the classifier in RLQSServer.domainClassifier
  rules,     \* patterns and maxDomains of each classifier
  known,     \* DomainClassifier.known of each classifier
  at, name,  \* where a goroutine is in Classify, and for which domain
  used,      \* the classifier it uses
  labels     \* history: the answers, as <<classifier, domain, label>>

classifierVars == <<current, rules, known, at, name, used, labels>>

Classifiers == 0 .. MaxSwaps
Rules       == [patterns : SUBSET Patterns, maxDomains : Nat \ {0}]

ClassifierTypeOK ==
  /\ current \in Classifiers
  /\ rules \in [Classifiers -> Rules]
  /\ known \in [Classifiers -> SUBSET Domains]
  /\ at \in [Binders -> {"idle", "fast", "admit"}]
  /\ name \in [Binders -> Domains \cup {NoDomain}]
  /\ used \in [Binders -> Classifiers]
  /\ labels \subseteq Classifiers \X Domains \X (Domains \cup {UnknownDomain})

\* The cap has a default and empty patterns are skipped.
NewDomainClassifier(patterns, maxDomains) ==
  [patterns   |-> patterns \ {EmptyPattern},
   maxDomains |-> IF maxDomains <= 0 THEN DefaultMaxDomains ELSE maxDomains]

\* The server starts with classifier r; the later ones are not stored yet.
ClassifierInit(r) ==
  /\ current = 0
  /\ rules = [c \in Classifiers |-> r]
  /\ known = [c \in Classifiers |-> {}]
  /\ at = [b \in Binders |-> "idle"]
  /\ name = [b \in Binders |-> NoDomain]
  /\ used = [b \in Binders |-> 0]
  /\ labels = {}

-----------------------------------------------------------------------------

\* Without patterns every domain matches.
Matched(r, d) == r.patterns = {} \/ \E p \in r.patterns : d \in p

\* classifyDomain loads the pointer.
Classify(b, d) ==
  /\ at[b] = "idle"
  /\ at' = [at EXCEPT ![b] = "fast"]
  /\ name' = [name EXCEPT ![b] = d]
  /\ used' = [used EXCEPT ![b] = current]
  /\ UNCHANGED <<current, rules, known, labels>>

Answer(b, l) ==
  /\ labels' = labels \cup {<<used[b], name[b], l>>}
  /\ at' = [at EXCEPT ![b] = "idle"]
  /\ name' = [name EXCEPT ![b] = NoDomain]
  /\ used' = [used EXCEPT ![b] = 0]

\* The critical section on the read lock, and the patterns.
FastPath(b) ==
  /\ at[b] = "fast"
  /\ \/ /\ name[b] \in known[used[b]]
        /\ Answer(b, name[b])
     \/ /\ name[b] \notin known[used[b]]
        /\ ~Matched(rules[used[b]], name[b])
        /\ Answer(b, UnknownDomain)
     \/ /\ name[b] \notin known[used[b]]
        /\ Matched(rules[used[b]], name[b])
        /\ at' = [at EXCEPT ![b] = "admit"]
        /\ UNCHANGED <<name, used, labels>>
  /\ UNCHANGED <<current, rules, known>>

\* Mutant of Full: one domain too many.
FullLate(c) == Cardinality(known[c]) > rules[c].maxDomains

Full(c) == Cardinality(known[c]) >= rules[c].maxDomains

\* Mutant of Admit: the domain is not looked up again under the write lock.
AdmitUnchecked(b) ==
  /\ at[b] = "admit"
  /\ \/ /\ Full(used[b])
        /\ Answer(b, UnknownDomain)
        /\ UNCHANGED known
     \/ /\ ~Full(used[b])
        /\ Answer(b, name[b])
        /\ known' = [known EXCEPT ![used[b]] = @ \cup {name[b]}]
  /\ UNCHANGED <<current, rules>>

\* Mutant of Admit: a domain over the cap keeps its name.
AdmitOverflow(b) ==
  /\ at[b] = "admit"
  /\ Answer(b, name[b])
  /\ \/ Full(used[b]) /\ UNCHANGED known
     \/ ~Full(used[b]) /\ known' = [known EXCEPT ![used[b]] = @ \cup {name[b]}]
  /\ UNCHANGED <<current, rules>>

\* The critical section on the write lock: another goroutine may have admitted
\* the domain, or the last one there was room for, since the fast path.
Admit(b) ==
  /\ at[b] = "admit"
  /\ \/ /\ name[b] \in known[used[b]]
        /\ Answer(b, name[b])
        /\ UNCHANGED known
     \/ /\ name[b] \notin known[used[b]]
        /\ Full(used[b])
        /\ Answer(b, UnknownDomain)
        /\ UNCHANGED known
     \/ /\ name[b] \notin known[used[b]]
        /\ ~Full(used[b])
        /\ Answer(b, name[b])
        /\ known' = [known EXCEPT ![used[b]] = @ \cup {name[b]}]
  /\ UNCHANGED <<current, rules>>

\* SwapDomainClassifier stores a classifier that knows no domain yet.
SwapDomainClassifier(r) ==
  /\ current < MaxSwaps
  /\ current' = current + 1
  /\ rules' = [rules EXCEPT ![current + 1] = r]
  /\ UNCHANGED <<known, at, name, used, labels>>

Bind(b) == (\E d \in Domains : Classify(b, d)) \/ FastPath(b) \/ Admit(b)

ClassifierNext == (\E b \in Binders : Bind(b)) \/ \E r \in Rules : SwapDomainClassifier(r)

ClassifierSpec == (\E r \in Rules : ClassifierInit(r)) /\ [][ClassifierNext]_classifierVars

-----------------------------------------------------------------------------
(* Properties.                                                             *)

\* No classifier ever admits more domains than its cap, however many
\* goroutines pass the fast path before the last free place is taken.
CapRespected == \A c \in Classifiers : Cardinality(known[c]) <= rules[c].maxDomains

\* A classifier gives a domain one label for good: no stream counts under the
\* name and another one under the overflow label, whatever the order in which
\* goroutines pass the two critical sections of Classify.
OneLabelPerDomain ==
  \A c \in Classifiers, d \in Domains :
    ~(<<c, d, d>> \in labels /\ <<c, d, UnknownDomain>> \in labels)

\* The labels the process has ever exported.  Prometheus keeps them, and each
\* stored classifier starts without known domains (NewDomainClassifier): the cap
\* holds for every classifier, and for the process once per classifier.
LabelsBounded ==
  LET places == UNION {{c} \X (1 .. rules[c].maxDomains) : c \in 0 .. current}
  IN  Cardinality({l[3] : l \in labels} \ {UnknownDomain}) <= Cardinality(places)

=============================================================================
