----------------------- MODULE DomainClassifierProofs -----------------------
(***************************************************************************)
(* The cap of a classifier and the stability of its labels, for every set  *)
(* of domains, every set of goroutines and every cap.                      *)
(***************************************************************************)
EXTENDS DomainClassifier, FiniteSetTheorems, FunctionTheorems, TLAPS

\* What a classifier has answered agrees with what it knows: a domain answered
\* by name is known, and one that got the overflow label can not be admitted.
LabelsStable ==
  \A c \in Classifiers, d \in Domains :
    /\ <<c, d, d>> \in labels => d \in known[c]
    /\ <<c, d, UnknownDomain>> \in labels =>
         d \notin known[c] /\ (Full(c) \/ ~Matched(rules[c], d))

\* Classifiers that are not stored yet have no user, no domain and no answer.
FutureUntouched ==
  /\ \A b \in Binders : used[b] <= current
  /\ \A l \in labels : l[1] <= current
  /\ \A c \in Classifiers : c > current => known[c] = {}

\* A goroutine in Classify has a domain, and the write lock is only taken for
\* a domain that the patterns match.
BinderState ==
  \A b \in Binders :
    /\ at[b] # "idle" => name[b] \in Domains
    /\ at[b] = "admit" => Matched(rules[used[b]], name[b])

ClassifierInv ==
  ClassifierTypeOK /\ CapRespected /\ LabelsStable /\ FutureUntouched /\ BinderState

-----------------------------------------------------------------------------

\* The domains a classifier knows are finitely many.
LEMMA KnownFinite ==
  ASSUME ClassifierTypeOK, NEW c \in Classifiers
  PROVE  IsFiniteSet(known[c]) /\ Cardinality(known[c]) \in Nat
<1>1. known[c] \subseteq Domains
  BY DEF ClassifierTypeOK
<1>2. IsFiniteSet(known[c])
  BY <1>1, ClassifierAssumption, FS_Subset
<1> QED
  BY <1>2, FS_CardinalityType

\* A new classifier knows nothing and its cap is positive.
LEMMA ClassifierInitial ==
  ASSUME NEW r \in Rules, ClassifierInit(r)
  PROVE  ClassifierInv
<1>1. ClassifierTypeOK
  BY ClassifierAssumption DEF ClassifierInit, ClassifierTypeOK, Classifiers, Rules
<1>2. CapRespected
  BY FS_EmptySet DEF ClassifierInit, CapRespected, Classifiers, Rules
<1>3. LabelsStable /\ FutureUntouched /\ BinderState
  BY ClassifierAssumption
  DEF ClassifierInit, LabelsStable, FutureUntouched, BinderState, Classifiers
<1> QED
  BY <1>1, <1>2, <1>3 DEF ClassifierInv

\* Loading the pointer changes only the goroutine.
LEMMA ClassifyKeeps ==
  ASSUME ClassifierInv, NEW b \in Binders, NEW d \in Domains, Classify(b, d)
  PROVE  ClassifierInv'
<1> USE DEF ClassifierInv, Classify
<1>1. ClassifierTypeOK'
  BY DEF ClassifierTypeOK
<1>2. CapRespected' /\ LabelsStable'
  BY DEF CapRespected, LabelsStable, Full
<1>3. FutureUntouched'
  BY DEF FutureUntouched, ClassifierTypeOK, Classifiers
<1>4. BinderState'
  BY DEF BinderState, ClassifierTypeOK
<1> QED
  BY <1>1, <1>2, <1>3, <1>4

\* An answer keeps the types and the goroutine's state.
LEMMA AnswerKeeps ==
  ASSUME ClassifierInv, NEW b \in Binders, at[b] # "idle",
         NEW l \in {name[b], UnknownDomain}, Answer(b, l),
         UNCHANGED <<current, rules>>,
         known' \in [Classifiers -> SUBSET Domains],
         \A c \in Classifiers : c > current => known'[c] = {}
  PROVE  ClassifierTypeOK' /\ FutureUntouched' /\ BinderState'
<1> USE DEF ClassifierInv
<1>1. name[b] \in Domains
  BY DEF BinderState
<1>2. <<used[b], name[b], l>> \in Classifiers \X Domains \X (Domains \cup {UnknownDomain})
  BY <1>1 DEF ClassifierTypeOK
<1>3. 0 \in Classifiers
  BY ClassifierAssumption DEF Classifiers
<1>4. ClassifierTypeOK'
  BY <1>2, <1>3 DEF ClassifierTypeOK, Answer
<1>5. FutureUntouched'
  <2>1. \A x \in Binders : used'[x] <= current
    BY DEF FutureUntouched, Answer, ClassifierTypeOK, Classifiers
  <2>2. \A x \in labels' : x[1] <= current
    BY DEF FutureUntouched, Answer
  <2> QED
    BY <2>1, <2>2 DEF FutureUntouched
<1>6. BinderState'
  BY DEF BinderState, Answer, ClassifierTypeOK
<1> QED
  BY <1>4, <1>5, <1>6

\* An answer under the name of a domain that is known.
LEMMA KnownAnswerKeeps ==
  ASSUME ClassifierInv, NEW b \in Binders, at[b] # "idle",
         name[b] \in known[used[b]], Answer(b, name[b]), UNCHANGED <<current, rules, known>>
  PROVE  ClassifierInv'
<1> USE DEF ClassifierInv
<1>0. name[b] \in Domains /\ used[b] \in Classifiers
  BY DEF BinderState, ClassifierTypeOK
<1>1. ClassifierTypeOK' /\ FutureUntouched' /\ BinderState'
  <2>1. known' \in [Classifiers -> SUBSET Domains] /\ \A c \in Classifiers : c > current => known'[c] = {}
    BY DEF ClassifierTypeOK, FutureUntouched
  <2> QED
    BY <2>1, AnswerKeeps
<1>2. CapRespected'
  BY DEF CapRespected
<1>3. LabelsStable'
  BY <1>0, ClassifierAssumption, ZenonT(60) DEF LabelsStable, Answer, Full
<1> QED
  BY <1>1, <1>2, <1>3

\* The overflow label, for a domain that no later call of the classifier admits.
LEMMA OverflowKeeps ==
  ASSUME ClassifierInv, NEW b \in Binders, at[b] # "idle",
         name[b] \notin known[used[b]],
         Full(used[b]) \/ ~Matched(rules[used[b]], name[b]),
         Answer(b, UnknownDomain), UNCHANGED <<current, rules, known>>
  PROVE  ClassifierInv'
<1> USE DEF ClassifierInv
<1>0. name[b] \in Domains /\ used[b] \in Classifiers
  BY DEF BinderState, ClassifierTypeOK
<1>1. ClassifierTypeOK' /\ FutureUntouched' /\ BinderState'
  <2>1. known' \in [Classifiers -> SUBSET Domains] /\ \A c \in Classifiers : c > current => known'[c] = {}
    BY DEF ClassifierTypeOK, FutureUntouched
  <2> QED
    BY <2>1, AnswerKeeps
<1>2. CapRespected'
  BY DEF CapRespected
<1>3. LabelsStable'
  <2> SUFFICES ASSUME NEW c \in Classifiers, NEW d \in Domains
               PROVE  /\ <<c, d, d>> \in labels' => d \in known[c]
                      /\ <<c, d, UnknownDomain>> \in labels' =>
                           d \notin known[c] /\ (Full(c) \/ ~Matched(rules[c], d))
    BY Zenon DEF LabelsStable, Full
  <2>1. <<c, d, d>> \in labels' => <<c, d, d>> \in labels
    BY ClassifierAssumption DEF Answer
  <2>2. <<c, d, UnknownDomain>> \in labels' =>
          <<c, d, UnknownDomain>> \in labels \/ (c = used[b] /\ d = name[b])
    BY DEF Answer
  <2> QED
    BY <2>1, <2>2 DEF LabelsStable
<1> QED
  BY <1>1, <1>2, <1>3

\* An answer under a name that is admitted in the same critical section.
LEMMA AdmissionKeeps ==
  ASSUME ClassifierInv, NEW b \in Binders, at[b] = "admit",
         name[b] \notin known[used[b]], ~Full(used[b]), Answer(b, name[b]),
         known' = [known EXCEPT ![used[b]] = @ \cup {name[b]}],
         UNCHANGED <<current, rules>>
  PROVE  ClassifierInv'
<1> USE DEF ClassifierInv
<1>0. name[b] \in Domains /\ used[b] \in Classifiers /\ used[b] <= current
      /\ current \in Nat /\ Matched(rules[used[b]], name[b])
  BY DEF BinderState, ClassifierTypeOK, FutureUntouched, Classifiers
<1>1. ClassifierTypeOK' /\ FutureUntouched' /\ BinderState'
  <2>1. known' \in [Classifiers -> SUBSET Domains]
    BY <1>0, Zenon DEF ClassifierTypeOK
  <2>2. \A c \in Classifiers : c > current => known'[c] = {}
    BY <1>0 DEF FutureUntouched, ClassifierTypeOK, Classifiers
  <2> QED
    BY <2>1, <2>2, AnswerKeeps
<1>2. \A c \in Classifiers : known[c] \subseteq known'[c] /\ (c # used[b] => known'[c] = known[c])
  BY <1>0 DEF ClassifierTypeOK
<1>3. known'[used[b]] = known[used[b]] \cup {name[b]}
  BY <1>0 DEF ClassifierTypeOK
<1>4. Cardinality(known'[used[b]]) = Cardinality(known[used[b]]) + 1
  BY <1>0, <1>3, KnownFinite, FS_AddElement, Zenon
<1>5. CapRespected'
  <2>1. Cardinality(known[used[b]]) < rules[used[b]].maxDomains
    <3>1. Cardinality(known[used[b]]) \in Nat
      BY <1>0, KnownFinite, Zenon
    <3>2. rules[used[b]].maxDomains \in Nat
      BY <1>0, Zenon DEF ClassifierTypeOK, Rules
    <3> QED
      BY <3>1, <3>2 DEF Full
  <2> QED
    BY <1>0, <1>2, <1>4, <2>1, KnownFinite DEF CapRespected, ClassifierTypeOK, Rules
<1>6. LabelsStable'
  <2> SUFFICES ASSUME NEW c \in Classifiers, NEW d \in Domains
               PROVE  /\ <<c, d, d>> \in labels' => d \in known'[c]
                      /\ <<c, d, UnknownDomain>> \in labels' =>
                           d \notin known'[c] /\ (Full(c)' \/ ~Matched(rules[c], d))
    BY Zenon DEF LabelsStable, Matched
  <2>1. <<c, d, d>> \in labels' => <<c, d, d>> \in labels \/ (c = used[b] /\ d = name[b])
    BY DEF Answer
  <2>2. <<c, d, UnknownDomain>> \in labels' => <<c, d, UnknownDomain>> \in labels
    BY <1>0, ClassifierAssumption DEF Answer
  <2>3. <<c, d, d>> \in labels' => d \in known'[c]
    BY <1>2, <1>3, <2>1, Zenon DEF LabelsStable
  <2>4. ASSUME <<c, d, UnknownDomain>> \in labels'
        PROVE  d \notin known'[c] /\ (Full(c)' \/ ~Matched(rules[c], d))
    <3>1. d \notin known[c] /\ (Full(c) \/ ~Matched(rules[c], d))
      BY <2>2, <2>4, Zenon DEF LabelsStable
    <3>2. CASE c = used[b]
      BY <3>1, <3>2, <1>0, <1>3
    <3>3. CASE c # used[b]
      BY <3>1, <3>3, <1>2 DEF Full
    <3> QED
      BY <3>2, <3>3
  <2> QED
    BY <2>3, <2>4
<1> QED
  BY <1>1, <1>5, <1>6

\* A new classifier has a number that nothing refers to yet.
LEMMA SwapKeeps ==
  ASSUME ClassifierInv, NEW r \in Rules, SwapDomainClassifier(r)
  PROVE  ClassifierInv'
<1> USE DEF ClassifierInv
<1>0. current \in Nat /\ current + 1 \in Classifiers
  BY ClassifierAssumption DEF SwapDomainClassifier, ClassifierTypeOK, Classifiers
<1>1. \A c \in Classifiers : c <= current => rules'[c] = rules[c]
  BY <1>0 DEF SwapDomainClassifier, ClassifierTypeOK, Classifiers
<1>2. rules' \in [Classifiers -> Rules]
  BY <1>0 DEF SwapDomainClassifier, ClassifierTypeOK
<1>3. ClassifierTypeOK'
  BY <1>0, <1>2 DEF SwapDomainClassifier, ClassifierTypeOK
<1>4. FutureUntouched'
  <2>1. \A b \in Binders : used[b] <= current + 1
    BY <1>0 DEF FutureUntouched, ClassifierTypeOK, Classifiers
  <2>2. \A l \in labels : l[1] <= current + 1
    BY <1>0 DEF FutureUntouched, ClassifierTypeOK, Classifiers
  <2>3. \A c \in Classifiers : c > current + 1 => known[c] = {}
    BY <1>0 DEF FutureUntouched, Classifiers
  <2> QED
    BY <2>1, <2>2, <2>3 DEF SwapDomainClassifier, FutureUntouched
<1>5. CapRespected'
  <2> SUFFICES ASSUME NEW c \in Classifiers
               PROVE  Cardinality(known[c]) <= rules'[c].maxDomains
    BY DEF CapRespected, SwapDomainClassifier
  <2>1. CASE c <= current
    BY <2>1, <1>1 DEF CapRespected
  <2>2. CASE c > current
    <3>1. Cardinality(known[c]) = 0
      BY <2>2, FS_EmptySet DEF FutureUntouched
    <3> QED
      BY <3>1, <1>2 DEF Rules
  <2> QED
    BY <1>0, <2>1, <2>2 DEF Classifiers
<1>6. LabelsStable'
  <2> SUFFICES ASSUME NEW c \in Classifiers, NEW d \in Domains,
                      NEW l \in {d, UnknownDomain}, <<c, d, l>> \in labels
               PROVE  rules'[c] = rules[c]
    BY Zenon DEF LabelsStable, SwapDomainClassifier, Full
  <2>1. c <= current
    BY DEF FutureUntouched
  <2> QED
    BY <2>1, <1>1
<1>7. BinderState'
  <2>1. \A b \in Binders : rules'[used[b]] = rules[used[b]]
    BY <1>1 DEF FutureUntouched, ClassifierTypeOK
  <2> QED
    BY <2>1 DEF BinderState, SwapDomainClassifier
<1> QED
  BY <1>3, <1>4, <1>5, <1>6, <1>7

\* One step of a goroutine in Classify.
LEMMA BindKeeps ==
  ASSUME ClassifierInv, NEW b \in Binders, Bind(b)
  PROVE  ClassifierInv'
<1>1. CASE \E d \in Domains : Classify(b, d)
  BY <1>1, ClassifyKeeps
<1>2. CASE FastPath(b)
  <2>1. CASE name[b] \in known[used[b]] /\ Answer(b, name[b])
    BY <1>2, <2>1, KnownAnswerKeeps DEF FastPath
  <2>2. CASE name[b] \notin known[used[b]] /\ ~Matched(rules[used[b]], name[b]) /\ Answer(b, UnknownDomain)
    BY <1>2, <2>2, OverflowKeeps DEF FastPath
  <2>3. CASE /\ Matched(rules[used[b]], name[b])
             /\ at' = [at EXCEPT ![b] = "admit"]
             /\ UNCHANGED <<name, used, labels>>
    <3> USE <1>2, <2>3 DEF ClassifierInv, FastPath
    <3>1. ClassifierTypeOK'
      BY DEF ClassifierTypeOK
    <3>2. CapRespected' /\ LabelsStable' /\ FutureUntouched'
      BY DEF CapRespected, LabelsStable, FutureUntouched, Full
    <3>3. BinderState'
      BY DEF BinderState, ClassifierTypeOK, Matched
    <3> QED
      BY <3>1, <3>2, <3>3
  <2> QED
    BY <1>2, <2>1, <2>2, <2>3 DEF FastPath
<1>3. CASE Admit(b)
  <2>1. CASE name[b] \in known[used[b]] /\ Answer(b, name[b]) /\ UNCHANGED known
    BY <1>3, <2>1, KnownAnswerKeeps DEF Admit
  <2>2. CASE name[b] \notin known[used[b]] /\ Full(used[b]) /\ Answer(b, UnknownDomain) /\ UNCHANGED known
    BY <1>3, <2>2, OverflowKeeps DEF Admit
  <2>3. CASE /\ name[b] \notin known[used[b]] /\ ~Full(used[b]) /\ Answer(b, name[b])
             /\ known' = [known EXCEPT ![used[b]] = @ \cup {name[b]}]
    BY <1>3, <2>3, AdmissionKeeps, Zenon DEF Admit
  <2> QED
    BY <1>3, <2>1, <2>2, <2>3 DEF Admit
<1> QED
  BY <1>1, <1>2, <1>3 DEF Bind

-----------------------------------------------------------------------------
(* Where the labels and the known domains come from.                       *)

\* A label is the domain's own name or the overflow label, and a classifier knows
\* only domains that its patterns match.
Grounded ==
  /\ \A l \in labels : l[3] \in {l[2], UnknownDomain}
  /\ \A c \in Classifiers : \A d \in known[c] : Matched(rules[c], d)

\* Answers and admissions are for the domain of the goroutine.
LEMMA BindGrounded ==
  ASSUME ClassifierInv, Grounded, NEW b \in Binders, Bind(b)
  PROVE  Grounded'
<1>0. /\ used[b] \in Classifiers /\ rules' = rules
      /\ known \in [Classifiers -> SUBSET Domains]
      /\ at[b] = "admit" => Matched(rules[used[b]], name[b])
  BY DEF ClassifierInv, ClassifierTypeOK, BinderState, Bind, Classify, FastPath, Admit
<1>1. \/ labels' = labels
      \/ \E l \in {name[b], UnknownDomain} : labels' = labels \cup {<<used[b], name[b], l>>}
  BY Zenon DEF Bind, Classify, FastPath, Admit, Answer
<1>2. \/ known' = known
      \/ at[b] = "admit" /\ known' = [known EXCEPT ![used[b]] = @ \cup {name[b]}]
  BY Zenon DEF Bind, Classify, FastPath, Admit
<1>3. \A l \in labels' : l[3] \in {l[2], UnknownDomain}
  BY <1>1 DEF Grounded
<1>4. \A c \in Classifiers : \A d \in known'[c] : Matched(rules[c], d)
  <2>1. CASE known' = known
    BY <2>1, Zenon DEF Grounded
  <2>2. CASE at[b] = "admit" /\ known' = [known EXCEPT ![used[b]] = @ \cup {name[b]}]
    <3>1. \A c \in Classifiers : \A d \in known'[c] :
            d \in known[c] \/ (c = used[b] /\ d = name[b])
      BY <1>0, <2>2
    <3> QED
      BY <1>0, <2>2, <3>1, Zenon DEF Grounded
  <2> QED
    BY <1>2, <2>1, <2>2
<1> QED
  BY <1>0, <1>3, <1>4, Zenon DEF Grounded, Matched

\* The new classifier knows nothing.
LEMMA SwapGrounded ==
  ASSUME ClassifierInv, Grounded, NEW r \in Rules, SwapDomainClassifier(r)
  PROVE  Grounded'
<1>0. current \in Nat /\ current + 1 \in Classifiers
  BY ClassifierAssumption DEF SwapDomainClassifier, ClassifierInv, ClassifierTypeOK, Classifiers
<1>1. \A c \in Classifiers : c <= current => rules'[c] = rules[c]
  BY <1>0 DEF SwapDomainClassifier, ClassifierInv, ClassifierTypeOK, Classifiers
<1>2. \A c \in Classifiers : c <= current \/ known[c] = {}
  BY <1>0 DEF ClassifierInv, FutureUntouched, Classifiers
<1>3. known' = known /\ labels' = labels
  BY DEF SwapDomainClassifier
<1>4. \A c \in Classifiers : \A d \in known[c] : Matched(rules'[c], d)
  <2> SUFFICES ASSUME NEW c \in Classifiers, NEW d \in known[c] PROVE Matched(rules'[c], d)
    OBVIOUS
  <2>1. rules'[c] = rules[c]
    BY <1>1, <1>2
  <2>2. Matched(rules[c], d)
    BY Zenon DEF Grounded
  <2> QED
    BY <2>1, <2>2
<1> QED
  BY <1>3, <1>4, Zenon DEF Grounded, Matched

-----------------------------------------------------------------------------
(* The labels of all classifiers together.                                 *)

\* A label other than the overflow label is known to a stored classifier.
LEMMA LabelKnown ==
  ASSUME ClassifierInv, Grounded, NEW l \in labels, l[3] # UnknownDomain
  PROVE  \E c \in 0 .. current : l[3] \in known[c]
<1>1. l \in Classifiers \X Domains \X (Domains \cup {UnknownDomain})
  BY DEF ClassifierInv, ClassifierTypeOK
<1>2. l[1] \in Classifiers /\ l[2] \in Domains /\ l[3] = l[2] /\ l = <<l[1], l[2], l[3]>>
  BY <1>1 DEF Grounded
<1>3. l[1] <= current /\ current \in Nat
  BY DEF ClassifierInv, FutureUntouched, ClassifierTypeOK, Classifiers
<1>4. <<l[1], l[2], l[2]>> \in labels
  BY <1>2, Zenon
<1>5. l[3] \in known[l[1]]
  BY <1>2, <1>4, Zenon DEF ClassifierInv, LabelsStable
<1>6. l[1] \in 0 .. current
  BY <1>2, <1>3 DEF Classifiers
<1> QED
  BY <1>5, <1>6

\* The known domains of a classifier have a place each under its cap.
LEMMA KnownPlaces ==
  ASSUME ClassifierInv, NEW c \in Classifiers
  PROVE  Injection(known[c], 1 .. rules[c].maxDomains) # {}
<1> DEFINE n == Cardinality(known[c])
           m == rules[c].maxDomains
<1>1. n \in Nat /\ ExistsBijection(1 .. n, known[c])
  BY KnownFinite, FS_CardinalityType DEF ClassifierInv
<1>2. n <= m /\ m \in Nat
  BY DEF ClassifierInv, CapRespected, ClassifierTypeOK, Rules
<1> HIDE DEF n, m
<1>3. PICK f \in Bijection(known[c], 1 .. n) : TRUE
  BY <1>1, Fun_ExistsBijSymmetric, Fun_ExistsBij
<1>4. f \in [known[c] -> 1 .. n] /\ \A x, y \in known[c] : f[x] = f[y] => x = y
  <2>1. f \in [known[c] -> 1 .. n] /\ IsInjective(f)
    BY <1>3 DEF Bijection, Injection
  <2>2. DOMAIN f = known[c]
    BY <2>1
  <2> QED
    BY <2>1, <2>2, Zenon DEF IsInjective
<1>5. 1 .. n \subseteq 1 .. m
  BY <1>1, <1>2
<1>6. f \in [known[c] -> 1 .. m]
  BY <1>4, <1>5
<1>7. f \in Injection(known[c], 1 .. m)
  BY <1>4, <1>6, Fun_IsInj, Zenon
<1> QED
  BY <1>7 DEF m

\* The labels are at most the places of all classifiers.
LEMMA InvLabelsBounded ==
  ASSUME ClassifierInv, Grounded
  PROVE  LabelsBounded
<1> DEFINE S        == {l[3] : l \in labels} \ {UnknownDomain}
           Place(c) == {c} \X (1 .. rules[c].maxDomains)
           T        == UNION {Place(c) : c \in 0 .. current}
           own(d)   == CHOOSE c \in 0 .. current : d \in known[c]
           pos(c)   == CHOOSE f \in Injection(known[c], 1 .. rules[c].maxDomains) : TRUE
           g        == [d \in S |-> <<own(d), pos(own(d))[d]>>]
<1>0. current \in Nat /\ 0 .. current \subseteq Classifiers
  BY ClassifierAssumption DEF ClassifierInv, ClassifierTypeOK, Classifiers
<1>1. \A d \in S : own(d) \in 0 .. current /\ d \in known[own(d)]
  BY LabelKnown
<1>2. \A c \in 0 .. current :
        /\ pos(c) \in [known[c] -> 1 .. rules[c].maxDomains]
        /\ \A x, y \in known[c] : pos(c)[x] = pos(c)[y] => x = y
  <2> SUFFICES ASSUME NEW c \in 0 .. current
               PROVE  /\ pos(c) \in [known[c] -> 1 .. rules[c].maxDomains]
                      /\ \A x, y \in known[c] : pos(c)[x] = pos(c)[y] => x = y
    OBVIOUS
  <2>1. pos(c) \in Injection(known[c], 1 .. rules[c].maxDomains)
    BY <1>0, KnownPlaces, Zenon
  <2> HIDE DEF pos
  <2>2. pos(c) \in [known[c] -> 1 .. rules[c].maxDomains] /\ IsInjective(pos(c))
    BY <2>1 DEF Injection
  <2>3. DOMAIN pos(c) = known[c]
    BY <2>2
  <2> QED
    BY <2>2, <2>3, Zenon DEF IsInjective
<1>3. IsFiniteSet(T)
  <2> DEFINE h == [c \in 0 .. current |-> Place(c)]
             R == {Place(c) : c \in 0 .. current}
  <2>1. h \in Surjection(0 .. current, R)
    BY Fun_IsSurj
  <2>2. IsFiniteSet(0 .. current)
    BY <1>0, FS_Interval
  <2>3. IsFiniteSet(R)
    <3> HIDE DEF h, R
    <3> QED
      BY <2>1, <2>2, FS_Surjection
  <2>4. \A X \in R : IsFiniteSet(X)
    <3> SUFFICES ASSUME NEW c \in 0 .. current PROVE IsFiniteSet(Place(c))
      OBVIOUS
    <3>1. rules[c].maxDomains \in Int
      BY <1>0 DEF ClassifierInv, ClassifierTypeOK, Rules
    <3>2. IsFiniteSet(1 .. rules[c].maxDomains) /\ IsFiniteSet({c})
      BY <3>1, FS_Interval, FS_Singleton, 1 \in Int
    <3> QED
      BY <3>2, FS_Product
  <2> HIDE DEF h, R
  <2>5. IsFiniteSet(UNION R)
    BY <2>3, <2>4, FS_UNION
  <2> QED
    BY <2>5 DEF R
<1> HIDE DEF own, pos
<1>4. g \in [S -> T]
  <2> SUFFICES ASSUME NEW d \in S PROVE <<own(d), pos(own(d))[d]>> \in T
    OBVIOUS
  <2>1. pos(own(d))[d] \in 1 .. rules[own(d)].maxDomains
    <3>1. d \in known[own(d)] /\ pos(own(d)) \in [known[own(d)] -> 1 .. rules[own(d)].maxDomains]
      BY <1>1, <1>2, Zenon
    <3> QED
      BY <3>1
  <2>2. <<own(d), pos(own(d))[d]>> \in Place(own(d))
    BY <2>1
  <2> HIDE DEF Place
  <2> QED
    BY <1>1, <2>2
<1>5. \A x, y \in S : g[x] = g[y] => x = y
  <2> SUFFICES ASSUME NEW x \in S, NEW y \in S, g[x] = g[y] PROVE x = y
    OBVIOUS
  <2>1. own(x) = own(y) /\ pos(own(x))[x] = pos(own(x))[y]
    <3> HIDE DEF S
    <3> QED
      OBVIOUS
  <2> HIDE DEF S
  <2> QED
    BY <1>1, <1>2, <2>1, Zenon
<1> HIDE DEF g, S, T
<1>6. Cardinality(S) <= Cardinality(T)
  <2>1. g \in Injection(S, T)
    BY <1>4, <1>5, Fun_IsInj, Zenon
  <2> QED
    BY <1>3, <2>1, FS_Injection
<1> QED
  BY <1>6 DEF LabelsBounded, S, T

\* The inductive invariant of Classify and SwapDomainClassifier.
THEOREM ClassifierInvariance == ClassifierSpec => []ClassifierInv
<1>1. (\E r \in Rules : ClassifierInit(r)) => ClassifierInv
  BY ClassifierInitial
<1>2. ClassifierInv /\ [ClassifierNext]_classifierVars => ClassifierInv'
  <2> SUFFICES ASSUME ClassifierInv, [ClassifierNext]_classifierVars
               PROVE  ClassifierInv'
    OBVIOUS
  <2>1. CASE \E b \in Binders : Bind(b)
    BY <2>1, BindKeeps
  <2>2. CASE \E r \in Rules : SwapDomainClassifier(r)
    BY <2>2, SwapKeeps
  <2>3. CASE UNCHANGED classifierVars
    BY <2>3
    DEF classifierVars, ClassifierInv, ClassifierTypeOK, CapRespected, LabelsStable,
        FutureUntouched, BinderState, Full, Matched
  <2> QED
    BY <2>1, <2>2, <2>3 DEF ClassifierNext
<1> QED
  BY <1>1, <1>2, PTL DEF ClassifierSpec

\* No classifier admits more domains than its cap.
THEOREM CapHolds == ClassifierSpec => []CapRespected
<1>1. ClassifierInv => CapRespected
  BY DEF ClassifierInv
<1> QED
  BY <1>1, ClassifierInvariance, PTL

\* A classifier never gives a domain both its name and the overflow label.
THEOREM LabelsAreStable == ClassifierSpec => []OneLabelPerDomain
<1>1. ClassifierInv => OneLabelPerDomain
  BY Zenon DEF ClassifierInv, LabelsStable, OneLabelPerDomain
<1> QED
  BY <1>1, ClassifierInvariance, PTL

\* The labels come from the answers of the classifier, and those from its
\* patterns.
THEOREM LabelsAreGrounded == ClassifierSpec => []Grounded
<1>1. (\E r \in Rules : ClassifierInit(r)) => Grounded
  BY DEF ClassifierInit, Grounded
<1>2. ClassifierInv /\ Grounded /\ [ClassifierNext]_classifierVars => Grounded'
  <2> SUFFICES ASSUME ClassifierInv, Grounded, [ClassifierNext]_classifierVars
               PROVE  Grounded'
    OBVIOUS
  <2>1. CASE \E b \in Binders : Bind(b)
    BY <2>1, BindGrounded
  <2>2. CASE \E r \in Rules : SwapDomainClassifier(r)
    BY <2>2, SwapGrounded
  <2>3. CASE UNCHANGED classifierVars
    BY <2>3 DEF classifierVars, Grounded, Matched
  <2> QED
    BY <2>1, <2>2, <2>3 DEF ClassifierNext
<1> QED
  BY <1>1, <1>2, ClassifierInvariance, PTL DEF ClassifierSpec

\* Prometheus never holds more domain labels than the caps of the classifiers
\* allow together.
THEOREM LabelsStayBounded == ClassifierSpec => []LabelsBounded
<1>1. ClassifierInv /\ Grounded => LabelsBounded
  BY InvLabelsBounded
<1> QED
  BY <1>1, ClassifierInvariance, LabelsAreGrounded, PTL

=============================================================================
