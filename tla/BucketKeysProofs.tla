-------------------------- MODULE BucketKeysProofs --------------------------
(***************************************************************************)
(* Domains without the unit separator have disjoint sets of scoped keys,   *)
(* and a bucket key says exactly which pairs the bucket has, whatever the  *)
(* order of the map: for strings of every length and any number of pairs.  *)
(***************************************************************************)
EXTENDS BucketKeys, FiniteSetTheorems, FunctionTheorems, SequenceTheorems, TLAPS

\* Where the bytes of a scoped key come from.
LEMMA ScopedKeyBytes ==
  ASSUME NEW d \in PlainDomain, NEW k \in Seq(Byte)
  PROVE  LET s == DomainScopedKey(d, k) IN
         /\ s \in Seq(Byte)
         /\ Len(s) = Len(d) + 1 + Len(k)
         /\ \A i \in 1 .. Len(d) : s[i] = d[i]
         /\ s[Len(d) + 1] = US
         /\ \A i \in 1 .. Len(k) : s[Len(d) + 1 + i] = k[i]
<1>1. US \in Byte
  BY DEF US, Byte
<1>2. DomainScopedKey(d, k) = d \o <<US>> \o k
  BY DEF DomainScopedKey, PlainDomain
<1> QED
  BY <1>1, <1>2 DEF PlainDomain

\* Two sequences with the same length and the same elements are equal.
LEMMA SameBytes ==
  ASSUME NEW s \in Seq(Byte), NEW t \in Seq(Byte), Len(s) = Len(t),
         \A i \in 1 .. Len(s) : s[i] = t[i]
  PROVE  s = t
  OBVIOUS

\* What the proofs use of a domain.
LEMMA PlainDomainFacts ==
  ASSUME NEW d \in PlainDomain
  PROVE  /\ d \in Seq(Byte) /\ d # <<>> /\ Len(d) \in Nat
         /\ \A i \in 1 .. Len(d) : d[i] # US
  BY DEF PlainDomain

\* A scoped key has one domain: the first unit separator ends it.
LEMMA DomainsNotNested ==
  ASSUME NEW d \in PlainDomain, NEW e \in PlainDomain, NEW k \in Seq(Byte), NEW l \in Seq(Byte),
         DomainScopedKey(d, k) = DomainScopedKey(e, l)
  PROVE  Len(d) >= Len(e)
<1>0. Len(d) \in Nat /\ Len(e) \in Nat
  BY PlainDomainFacts
<1> SUFFICES ASSUME Len(d) < Len(e) PROVE FALSE
  BY <1>0
<1>1. Len(d) + 1 \in 1 .. Len(e)
  BY <1>0
<1>2. DomainScopedKey(d, k)[Len(d) + 1] = US
  BY ScopedKeyBytes
<1>3. DomainScopedKey(e, l)[Len(d) + 1] = e[Len(d) + 1]
  BY <1>1, ScopedKeyBytes, Zenon
<1>4. e[Len(d) + 1] # US
  BY <1>1, PlainDomainFacts, Zenon
<1> QED
  BY <1>2, <1>3, <1>4

\* The store never mixes two domains or two buckets of a domain: equal scoped
\* keys have the same domain and the same bucket key (DomainScopedKey).
THEOREM ScopedKeysDistinct ==
  ASSUME NEW d \in PlainDomain, NEW e \in PlainDomain, NEW k \in Seq(Byte), NEW l \in Seq(Byte),
         DomainScopedKey(d, k) = DomainScopedKey(e, l)
  PROVE  d = e /\ k = l
<1> DEFINE s == DomainScopedKey(d, k)
           t == DomainScopedKey(e, l)
<1>0. /\ d \in Seq(Byte) /\ Len(d) \in Nat /\ e \in Seq(Byte) /\ Len(e) \in Nat
      /\ Len(k) \in Nat /\ Len(l) \in Nat
  BY PlainDomainFacts
<1>a. /\ Len(s) = Len(d) + 1 + Len(k)
      /\ \A i \in 1 .. Len(d) : s[i] = d[i]
      /\ \A i \in 1 .. Len(k) : s[Len(d) + 1 + i] = k[i]
  BY ScopedKeyBytes, Zenon
<1>b. /\ Len(t) = Len(e) + 1 + Len(l)
      /\ \A i \in 1 .. Len(e) : t[i] = e[i]
      /\ \A i \in 1 .. Len(l) : t[Len(e) + 1 + i] = l[i]
  BY ScopedKeyBytes, Zenon
<1>c. s = t
  OBVIOUS
<1>1. Len(d) = Len(e)
  <2>1. Len(d) >= Len(e) /\ Len(e) >= Len(d)
    BY DomainsNotNested
  <2> QED
    BY <2>1, <1>0
<1> HIDE DEF s, t
<1>2. d = e
  <2>1. \A i \in 1 .. Len(d) : d[i] = e[i]
    BY <1>a, <1>b, <1>c, <1>1, Zenon
  <2> QED
    BY <1>0, <1>1, <2>1, SameBytes
<1>3. Len(k) = Len(l)
  BY <1>0, <1>a, <1>b, <1>c, <1>1
<1>4. \A i \in 1 .. Len(k) : k[i] = l[i]
  BY <1>a, <1>b, <1>c, <1>1, <1>3, Zenon
<1> QED
  BY <1>2, <1>3, <1>4, SameBytes

\* A stored key has the prefix of a domain only if it is a key of the domain.
LEMMA PrefixNamesDomain ==
  ASSUME NEW d \in PlainDomain, NEW e \in PlainDomain, NEW k \in Seq(Byte),
         Len(DomainScopedKey(e, k)) > Len(d \o <<US>>),
         SubSeq(DomainScopedKey(e, k), 1, Len(d \o <<US>>)) = d \o <<US>>
  PROVE  e = d
<1> DEFINE prefix == d \o <<US>>
           x      == DomainScopedKey(e, k)
<1>0. /\ d \in Seq(Byte) /\ Len(d) \in Nat /\ e \in Seq(Byte) /\ Len(e) \in Nat
      /\ Len(k) \in Nat
      /\ \A i \in 1 .. Len(d) : d[i] # US
      /\ \A i \in 1 .. Len(e) : e[i] # US
  BY PlainDomainFacts
<1>1. /\ prefix \in Seq(Byte) /\ Len(prefix) = Len(d) + 1
      /\ \A i \in 1 .. Len(d) : prefix[i] = d[i]
      /\ prefix[Len(d) + 1] = US
  <2>1. US \in Byte
    BY DEF US, Byte
  <2> QED
    BY <2>1, <1>0
<1>2. /\ x \in Seq(Byte)
      /\ \A i \in 1 .. Len(e) : x[i] = e[i]
      /\ x[Len(e) + 1] = US
  BY ScopedKeyBytes, Zenon
<1>p. Len(x) > Len(prefix) /\ SubSeq(x, 1, Len(prefix)) = prefix
  OBVIOUS
<1> HIDE DEF x, prefix
<1>3. \A i \in 1 .. Len(d) + 1 : x[i] = prefix[i]
  <2> SUFFICES ASSUME NEW i \in 1 .. Len(d) + 1 PROVE x[i] = prefix[i]
    OBVIOUS
  <2>1. SubSeq(x, 1, Len(d) + 1)[i] = x[i]
    BY <1>0, <1>1, <1>2, <1>p
  <2> QED
    BY <2>1, <1>1, <1>p
<1>4. ~(Len(e) < Len(d))
  <2> SUFFICES ASSUME Len(e) < Len(d) PROVE FALSE
    OBVIOUS
  <2>1. Len(e) + 1 \in 1 .. Len(d) /\ Len(e) + 1 \in 1 .. Len(d) + 1
    BY <1>0
  <2> QED
    BY <2>1, <1>0, <1>1, <1>2, <1>3, Zenon
<1>5. ~(Len(d) < Len(e))
  <2> SUFFICES ASSUME Len(d) < Len(e) PROVE FALSE
    OBVIOUS
  <2>1. Len(d) + 1 \in 1 .. Len(e) /\ Len(d) + 1 \in 1 .. Len(d) + 1
    BY <1>0
  <2> QED
    BY <2>1, <1>0, <1>1, <1>2, <1>3, Zenon
<1>6. Len(d) = Len(e)
  BY <1>0, <1>4, <1>5
<1>7. \A i \in 1 .. Len(d) : e[i] = d[i]
  <2> SUFFICES ASSUME NEW i \in 1 .. Len(d) PROVE e[i] = d[i]
    OBVIOUS
  <2>1. i \in 1 .. Len(d) + 1
    BY <1>0
  <2> QED
    BY <2>1, <1>1, <1>2, <1>3, <1>6, Zenon
<1> QED
  BY <1>0, <1>6, <1>7, SameBytes

\* A key of the domain has the prefix, and its bucket key is what follows.
LEMMA PrefixTakenOff ==
  ASSUME NEW d \in PlainDomain, NEW k \in Seq(Byte), k # <<>>,
         NEW prefix, prefix = d \o <<US>>
  PROVE  LET x == DomainScopedKey(d, k) IN
         /\ Len(x) > Len(prefix) /\ SubSeq(x, 1, Len(prefix)) = prefix
         /\ SubSeq(x, Len(prefix) + 1, Len(x)) = k
<1> DEFINE x == DomainScopedKey(d, k)
<1>0. d \in Seq(Byte) /\ Len(d) \in Nat /\ d # <<>> /\ Len(k) \in Nat /\ Len(k) > 0
  BY PlainDomainFacts
<1>1. prefix \in Seq(Byte) /\ Len(prefix) = Len(d) + 1
  <2>1. US \in Byte
    BY DEF US, Byte
  <2> QED
    BY <2>1, <1>0
<1>2. x = prefix \o k
  BY <1>0 DEF DomainScopedKey
<1> HIDE DEF x
<1>3. x \in Seq(Byte) /\ Len(x) = Len(prefix) + Len(k)
  BY <1>1, <1>2
<1>4. SubSeq(x, 1, Len(prefix)) = prefix
  <2>1. SubSeq(x, 1, Len(prefix)) \in Seq(Byte) /\ Len(SubSeq(x, 1, Len(prefix))) = Len(prefix)
    BY <1>0, <1>1, <1>3
  <2>2. \A i \in 1 .. Len(prefix) : SubSeq(x, 1, Len(prefix))[i] = prefix[i]
    BY <1>0, <1>1, <1>2, <1>3
  <2> QED
    BY <1>1, <2>1, <2>2, SameBytes
<1>5. SubSeq(x, Len(prefix) + 1, Len(x)) = k
  <2>1. /\ SubSeq(x, Len(prefix) + 1, Len(x)) \in Seq(Byte)
        /\ Len(SubSeq(x, Len(prefix) + 1, Len(x))) = Len(k)
    BY <1>0, <1>1, <1>3
  <2>2. \A i \in 1 .. Len(k) : SubSeq(x, Len(prefix) + 1, Len(x))[i] = k[i]
    BY <1>0, <1>1, <1>2, <1>3
  <2> QED
    BY <2>1, <2>2, SameBytes, Zenon
<1>6. Len(x) > Len(prefix)
  BY <1>0, <1>1, <1>3
<1> QED
  BY <1>4, <1>5, <1>6 DEF x

\* /debug/buckets of a domain lists exactly the buckets stored for it, under
\* their bucket keys, whatever other domains are stored (handleDebugBuckets).
THEOREM DebugListsExactly ==
  ASSUME NEW S \in SUBSET (PlainDomain \X (Seq(Byte) \ {<<>>})), NEW d \in PlainDomain
  PROVE  DebugBuckets({DomainScopedKey(p[1], p[2]) : p \in S}, d) = {p[2] : p \in {q \in S : q[1] = d}}
<1> DEFINE all     == {DomainScopedKey(p[1], p[2]) : p \in S}
           prefix  == d \o <<US>>
           Hit(x)  == Len(x) > Len(prefix) /\ SubSeq(x, 1, Len(prefix)) = prefix
           Rest(x) == SubSeq(x, Len(prefix) + 1, Len(x))
<1>0. \A p \in S : p[1] \in PlainDomain /\ p[2] \in Seq(Byte) /\ p[2] # <<>>
  OBVIOUS
<1>1. d # <<>>
  BY PlainDomainFacts
<1>2. DebugBuckets(all, d) = {Rest(x) : x \in {y \in all : Hit(y)}}
  BY <1>1, Zenon DEF DebugBuckets
<1>3. \A p \in S : Hit(DomainScopedKey(p[1], p[2])) => p[1] = d
  <2> SUFFICES ASSUME NEW p \in S, Hit(DomainScopedKey(p[1], p[2])) PROVE p[1] = d
    OBVIOUS
  <2>1. p[1] \in PlainDomain /\ p[2] \in Seq(Byte)
    BY <1>0
  <2> QED
    BY <2>1, PrefixNamesDomain
<1>4. \A p \in S : p[1] = d => /\ Hit(DomainScopedKey(p[1], p[2]))
                               /\ Rest(DomainScopedKey(p[1], p[2])) = p[2]
  <2> SUFFICES ASSUME NEW p \in S, p[1] = d
               PROVE  /\ Hit(DomainScopedKey(d, p[2]))
                      /\ Rest(DomainScopedKey(d, p[2])) = p[2]
    BY Zenon
  <2>1. p[2] \in Seq(Byte) /\ p[2] # <<>>
    BY <1>0
  <2> QED
    BY <2>1, PrefixTakenOff, Zenon
<1> HIDE DEF Hit, Rest
<1> QED
  BY <1>2, <1>3, <1>4, Zenon

-----------------------------------------------------------------------------
(* Induction over natural numbers, for sets of numbers.                    *)

\* A set of natural numbers that is not empty has a least element.
LEMMA LeastNatural ==
  ASSUME NEW T \in SUBSET Nat, T # {}
  PROVE  \E m \in T : \A k \in T : m <= k
<1>1. PICK R : R = {ss \in Nat \X Nat : ss[1] < ss[2]} /\ IsWellFoundedOn(R, Nat)
  <2>1. OpToRel(<, Nat) = {ss \in Nat \X Nat : ss[1] < ss[2]}
    BY Zenon DEF OpToRel
  <2> QED
    BY <2>1, NatLessThanWellFounded, Zenon
<1>2. PICK m \in T : \A k \in T : ~ (<<k, m>> \in R)
  BY <1>1, WFMin
<1>3. \A x, y \in Nat : x < y => <<x, y>> \in R
  BY <1>1
<1>4. ASSUME NEW k \in T PROVE m <= k
  <2>1. m \in Nat /\ k \in Nat
    OBVIOUS
  <2>2. ~(k < m)
    BY <1>2, <1>3, <2>1, Zenon
  <2> QED
    BY <2>1, <2>2
<1> QED
  BY <1>4, Zenon

\* A set with zero and every successor has all natural numbers.
LEMMA SetInduction ==
  ASSUME NEW P \in SUBSET Nat, 0 \in P, \A n \in P : n + 1 \in P
  PROVE  P = Nat
<1> SUFFICES ASSUME Nat \ P # {} PROVE FALSE
  OBVIOUS
<1>1. PICK m \in Nat \ P : \A k \in Nat \ P : m <= k
  BY LeastNatural
<1> QED
  BY <1>1

-----------------------------------------------------------------------------
(* The order of the keys (Before) is a strict total order.                 *)

\* The bytes of a string are numbers.
LEMMA BytesAreNumbers ==
  ASSUME NEW s \in Seq(Byte), NEW i \in 1 .. Len(s)
  PROVE  s[i] \in Int
<1>1. s[i] \in Byte
  OBVIOUS
<1>2. Byte \subseteq Int
  BY DEF Byte
<1> QED
  BY <1>1, <1>2, Zenon

\* No string is before itself.
LEMMA BeforeIrreflexive ==
  ASSUME NEW s \in Seq(Byte)
  PROVE  ~Before(s, s)
<1> SUFFICES ASSUME NEW i \in 1 .. Len(s), i > Len(s) \/ s[i] < s[i] PROVE FALSE
  BY DEF Before
<1> QED
  BY BytesAreNumbers

\* Where two strings differ first decides; the order is transitive.
LEMMA BeforeTransitive ==
  ASSUME NEW s \in Seq(Byte), NEW t \in Seq(Byte), NEW u \in Seq(Byte),
         Before(s, t), Before(t, u)
  PROVE  Before(s, u)
<1>1. PICK i \in 1 .. Len(t) : /\ i <= Len(s) + 1
                               /\ \A j \in 1 .. i - 1 : s[j] = t[j]
                               /\ i > Len(s) \/ s[i] < t[i]
  BY DEF Before
<1>2. PICK k \in 1 .. Len(u) : /\ k <= Len(t) + 1
                               /\ \A j \in 1 .. k - 1 : t[j] = u[j]
                               /\ k > Len(t) \/ t[k] < u[k]
  BY DEF Before
<1>3. CASE i < k
  <2>1. i \in 1 .. Len(u) /\ t[i] = u[i] /\ \A j \in 1 .. i - 1 : s[j] = u[j]
    BY <1>1, <1>2, <1>3
  <2> QED
    BY <1>1, <2>1 DEF Before
<1>4. CASE k < i
  <2>1. s[k] = t[k] /\ t[k] < u[k] /\ k <= Len(s) + 1 /\ \A j \in 1 .. k - 1 : s[j] = u[j]
    BY <1>1, <1>2, <1>4
  <2> QED
    BY <2>1, <1>2 DEF Before
<1>5. CASE i = k
  <2>1. t[i] < u[i] /\ \A j \in 1 .. i - 1 : s[j] = u[j]
    BY <1>1, <1>2, <1>5
  <2>2. i > Len(s) \/ s[i] < u[i]
    <3>1. CASE i > Len(s)
      BY <3>1
    <3>2. CASE ~(i > Len(s))
      <4>1. s[i] \in Int /\ t[i] \in Int /\ u[i] \in Int
        <5>1. i \in 1 .. Len(s) /\ i \in 1 .. Len(u)
          BY <3>2, <1>5
        <5> QED
          BY <5>1, BytesAreNumbers, Zenon
      <4> QED
        BY <4>1, <2>1, <1>1, <3>2
    <3> QED
      BY <3>1, <3>2
  <2> QED
    BY <2>1, <2>2, <1>1, <1>2, <1>5 DEF Before
<1> QED
  BY <1>3, <1>4, <1>5

\* Of two different strings one is before the other.
LEMMA BeforeTotal ==
  ASSUME NEW s \in Seq(Byte), NEW t \in Seq(Byte), s # t
  PROVE  Before(s, t) \/ Before(t, s)
<1> DEFINE D == {j \in Nat : j \in 1 .. Len(s) /\ j \in 1 .. Len(t) /\ s[j] # t[j]}
<1>0. Len(s) \in Nat /\ Len(t) \in Nat
  OBVIOUS
<1>1. CASE D # {}
  <2>1. PICK m \in D : \A k \in D : m <= k
    BY <1>1, LeastNatural
  <2>2. m \in Nat /\ m \in 1 .. Len(s) /\ m \in 1 .. Len(t) /\ s[m] # t[m]
    OBVIOUS
  <2>3. \A j \in 1 .. m - 1 : s[j] = t[j]
    BY <2>1, <2>2, <1>0
  <2>4. s[m] \in Int /\ t[m] \in Int
    BY <2>2, BytesAreNumbers, Zenon
  <2>5. s[m] < t[m] \/ t[m] < s[m]
    BY <2>2, <2>4
  <2> QED
    BY <2>2, <2>3, <2>5, <1>0 DEF Before
<1>2. CASE D = {}
  <2>1. \A j \in 1 .. Len(s) : j \in 1 .. Len(t) => s[j] = t[j]
    BY <1>2, <1>0
  <2>2. Len(s) # Len(t)
    BY <2>1, SameBytes
  <2>3. CASE Len(s) < Len(t)
    BY <2>1, <2>3, <1>0 DEF Before
  <2>4. CASE Len(t) < Len(s)
    BY <2>1, <2>4, <1>0 DEF Before
  <2> QED
    BY <2>2, <2>3, <2>4, <1>0
<1> QED
  BY <1>1, <1>2

-----------------------------------------------------------------------------
(* Sorting gives the pairs of a bucket id one order.                       *)

\* What the proofs use of a bucket id.
LEMMA PlainIdFacts ==
  ASSUME NEW id \in PlainBucketId
  PROVE  /\ id \in Seq(PlainKey \X PlainValue) /\ Len(id) \in Nat /\ Len(id) > 0
         /\ \A i \in 1 .. Len(id) : /\ id[i] \in PlainKey \X PlainValue
                                    /\ id[i][1] \in Seq(Byte) /\ id[i][2] \in Seq(Byte)
         /\ \A i, j \in 1 .. Len(id) : id[i][1] = id[j][1] => i = j
<1>1. /\ id \in Seq(PlainKey \X PlainValue) /\ id # <<>>
      /\ \A i, j \in 1 .. Len(id) : id[i][1] = id[j][1] => i = j
  BY Zenon DEF PlainBucketId
<1>2. \A i \in 1 .. Len(id) : id[i] \in PlainKey \X PlainValue
  BY <1>1
<1>3. \A p \in PlainKey \X PlainValue : p[1] \in Seq(Byte) /\ p[2] \in Seq(Byte)
  BY DEF PlainKey, PlainValue
<1>4. Len(id) \in Nat /\ Len(id) > 0
  BY <1>1
<1> QED
  BY <1>1, <1>2, <1>3, <1>4, Zenon

\* Distinct keys can be put in order: a key's place is the number of keys that
\* are not after it.
LEMMA OrderExists ==
  ASSUME NEW n \in Nat, NEW key, \A i \in 1 .. n : key[i] \in Seq(Byte),
         \A i, j \in 1 .. n : key[i] = key[j] => i = j
  PROVE  \E q \in Bijection(1 .. n, 1 .. n) :
           \A i, j \in 1 .. n : i < j => Before(key[q[i]], key[q[j]])
<1> DEFINE I        == 1 .. n
           Upto(i)  == {j \in I : j = i \/ Before(key[j], key[i])}
           rank     == [i \in I |-> Cardinality(Upto(i))]
<1>1. IsFiniteSet(I) /\ Cardinality(I) = n
  BY FS_Interval
<1>2. \A i \in I : IsFiniteSet(Upto(i)) /\ Cardinality(Upto(i)) \in 1 .. n
  <2> SUFFICES ASSUME NEW i \in I
               PROVE  IsFiniteSet(Upto(i)) /\ Cardinality(Upto(i)) \in 1 .. n
    BY Zenon
  <2>1. Upto(i) \in SUBSET I /\ i \in Upto(i)
    OBVIOUS
  <2> HIDE DEF Upto
  <2>2. IsFiniteSet(Upto(i)) /\ Cardinality(Upto(i)) <= n
    BY <2>1, <1>1, FS_Subset
  <2>3. Cardinality(Upto(i)) \in Nat /\ Cardinality(Upto(i)) # 0
    BY <2>1, <2>2, FS_CardinalityType, FS_EmptySet
  <2> QED
    BY <2>2, <2>3
<1>3. \A i, j \in I : Before(key[i], key[j]) => rank[i] < rank[j]
  <2> SUFFICES ASSUME NEW i \in I, NEW j \in I, Before(key[i], key[j])
               PROVE  Cardinality(Upto(i)) < Cardinality(Upto(j))
    OBVIOUS
  <2>1. Upto(i) \in SUBSET Upto(j)
    BY BeforeTransitive
  <2>2. j \in Upto(j) /\ j \notin Upto(i)
    <3>1. ~Before(key[j], key[i])
      BY BeforeTransitive, BeforeIrreflexive
    <3>2. i # j
      BY BeforeIrreflexive
    <3> QED
      BY <3>1, <3>2
  <2> HIDE DEF Upto
  <2>3. /\ Cardinality(Upto(i)) <= Cardinality(Upto(j))
        /\ Cardinality(Upto(j)) = Cardinality(Upto(i)) => Upto(j) = Upto(i)
    BY <2>1, <1>2, FS_Subset
  <2>4. Cardinality(Upto(i)) \in Int /\ Cardinality(Upto(j)) \in Int
    BY <1>2
  <2> QED
    BY <2>2, <2>3, <2>4
<1>4. rank \in [I -> I]
  BY <1>2
<1> HIDE DEF rank
<1>5. \A i, j \in I : rank[i] = rank[j] => i = j
  <2> SUFFICES ASSUME NEW i \in I, NEW j \in I, i # j, rank[i] = rank[j] PROVE FALSE
    OBVIOUS
  <2>1. Before(key[i], key[j]) \/ Before(key[j], key[i])
    BY BeforeTotal
  <2>2. rank[i] \in Int /\ rank[j] \in Int
    BY <1>4
  <2> QED
    BY <2>1, <2>2, <1>3
<1>6. rank \in Injection(I, I)
  BY <1>4, <1>5, Fun_IsInj
<1>7. rank \in Surjection(I, I)
  BY <1>1, <1>6, FS_Injection
<1>8. rank \in Bijection(I, I)
  BY <1>6, <1>7 DEF Bijection
<1> DEFINE q == Inverse(rank, I, I)
<1>9. q \in Bijection(I, I)
  BY <1>8, Fun_BijInverse
<1>10. \A i \in I : q[i] \in I /\ rank[q[i]] = i
  <2>1. q \in [I -> I]
    BY <1>9 DEF Bijection, Injection
  <2>2. \A s \in I : q[rank[s]] = s
    BY <1>8, Fun_BijInverse
  <2>3. \A i \in I : \E s \in I : rank[s] = i
    BY <1>8 DEF Bijection, Surjection
  <2> HIDE DEF q
  <2> QED
    BY <2>1, <2>2, <2>3
<1> HIDE DEF q
<1>11. ASSUME NEW i \in I, NEW j \in I, i < j
       PROVE  Before(key[q[i]], key[q[j]])
  <2>1. q[i] \in I /\ q[j] \in I /\ rank[q[i]] = i /\ rank[q[j]] = j
    BY <1>10
  <2>2. q[i] # q[j]
    BY <2>1, <1>11
  <2>3. ~Before(key[q[j]], key[q[i]])
    BY <2>1, <1>3, <1>11
  <2>4. key[q[i]] # key[q[j]] /\ key[q[i]] \in Seq(Byte) /\ key[q[j]] \in Seq(Byte)
    BY <2>1, <2>2
  <2> QED
    BY <2>3, <2>4, BeforeTotal
<1> QED
  BY <1>9, <1>11

\* A function on an initial interval is a sequence.
LEMMA FunctionIsSeq ==
  ASSUME NEW S, NEW n \in Nat, NEW f \in [1 .. n -> S]
  PROVE  f \in Seq(S) /\ Len(f) = n
  OBVIOUS

\* The elements of a sequence.
LEMMA ElementsOfSeq ==
  ASSUME NEW S, NEW s \in Seq(S)
  PROVE  Range(s) = {s[i] : i \in 1 .. Len(s)}
<1>1. DOMAIN s = 1 .. Len(s)
  OBVIOUS
<1> QED
  BY <1>1, Zenon DEF Range

\* Sorted puts the pairs of an id in the order of their keys.
LEMMA SortedFacts ==
  ASSUME NEW id \in PlainBucketId
  PROVE  LET s == Sorted(id) IN
         /\ s \in Seq(PlainKey \X PlainValue) /\ Len(s) = Len(id)
         /\ Range(s) = Range(id)
         /\ \A i, j \in 1 .. Len(s) : i < j => Before(s[i][1], s[j][1])
<1> DEFINE n        == Len(id)
           key      == [i \in 1 .. n |-> id[i][1]]
           Order(q) == \A i, j \in 1 .. n : i < j => Before(id[q[i]][1], id[q[j]][1])
           p        == CHOOSE q \in Bijection(1 .. n, 1 .. n) : Order(q)
           s        == [i \in 1 .. n |-> id[p[i]]]
<1>0. /\ n \in Nat /\ n > 0 /\ id \in Seq(PlainKey \X PlainValue)
      /\ \A i \in 1 .. n : id[i] \in PlainKey \X PlainValue /\ id[i][1] \in Seq(Byte)
      /\ \A i, j \in 1 .. n : id[i][1] = id[j][1] => i = j
  BY PlainIdFacts
<1>1. Sorted(id) = s
  BY Zenon DEF Sorted
<1> HIDE DEF n
<1>2. PICK q \in Bijection(1 .. n, 1 .. n) :
        \A i, j \in 1 .. n : i < j => Before(key[q[i]], key[q[j]])
  <2>1. /\ \A i \in 1 .. n : key[i] \in Seq(Byte)
        /\ \A i, j \in 1 .. n : key[i] = key[j] => i = j
    BY <1>0
  <2> HIDE DEF key
  <2> QED
    BY <1>0, <2>1, OrderExists
<1>3. Order(q)
  <2>1. \A i \in 1 .. n : q[i] \in 1 .. n
    BY DEF Bijection, Injection
  <2> QED
    BY <1>2, <2>1
<1>4. p \in Bijection(1 .. n, 1 .. n) /\ Order(p)
  <2> HIDE DEF Order
  <2> QED
    BY <1>3
<1> HIDE DEF p
<1>5. /\ \A i \in 1 .. n : p[i] \in 1 .. n
      /\ \A j \in 1 .. n : \E i \in 1 .. n : p[i] = j
  BY <1>4 DEF Bijection, Injection, Surjection
<1>6. s \in Seq(PlainKey \X PlainValue) /\ Len(s) = n
  <2>1. s \in [1 .. n -> PlainKey \X PlainValue]
    BY <1>0, <1>5, Zenon
  <2> HIDE DEF s
  <2> QED
    BY <1>0, <2>1, FunctionIsSeq
<1>7. Range(s) = Range(id)
  <2>1. Range(id) = {id[j] : j \in 1 .. n} /\ Range(s) = {s[i] : i \in 1 .. n}
    <3>1. Range(id) = {id[j] : j \in 1 .. n}
      BY <1>0, ElementsOfSeq, Zenon DEF n
    <3>2. Range(s) = {s[i] : i \in 1 .. n}
      BY <1>6, ElementsOfSeq, Zenon
    <3> QED
      BY <3>1, <3>2, Zenon
  <2>2. \A i \in 1 .. n : s[i] = id[p[i]]
    OBVIOUS
  <2> HIDE DEF s
  <2>3. \A i \in 1 .. n : \E j \in 1 .. n : s[i] = id[j]
    BY <2>2, <1>5, Zenon
  <2>4. ASSUME NEW j \in 1 .. n PROVE \E i \in 1 .. n : id[j] = s[i]
    <3>1. PICK i \in 1 .. n : p[i] = j
      BY <1>5, Zenon
    <3> QED
      BY <3>1, <2>2, Zenon
  <2> QED
    BY <2>1, <2>3, <2>4, Zenon
<1>8. \A i, j \in 1 .. Len(s) : i < j => Before(s[i][1], s[j][1])
  BY <1>4, <1>6
<1> QED
  BY <1>1, <1>6, <1>7, <1>8 DEF n

\* Sequences of pairs in the order of their keys.
Ordered ==
  {s \in Seq(PlainKey \X PlainValue) :
     \A i, j \in 1 .. Len(s) : i < j => Before(s[i][1], s[j][1])}

\* Their keys are distinct.
LEMMA OrderedFacts ==
  ASSUME NEW s \in Ordered
  PROVE  /\ s \in Seq(PlainKey \X PlainValue) /\ Len(s) \in Nat
         /\ \A i, j \in 1 .. Len(s) : i < j => Before(s[i][1], s[j][1])
         /\ \A i \in 1 .. Len(s) : s[i] \in PlainKey \X PlainValue /\ s[i][1] \in Seq(Byte)
         /\ \A i, j \in 1 .. Len(s) : s[i][1] = s[j][1] => i = j
<1>1. /\ s \in Seq(PlainKey \X PlainValue)
      /\ \A i, j \in 1 .. Len(s) : i < j => Before(s[i][1], s[j][1])
  BY Zenon DEF Ordered
<1>2. Len(s) \in Nat /\ \A i \in 1 .. Len(s) : s[i] \in PlainKey \X PlainValue
  BY <1>1
<1>3. \A p \in PlainKey \X PlainValue : p[1] \in Seq(Byte)
  BY DEF PlainKey
<1>4. \A i \in 1 .. Len(s) : s[i][1] \in Seq(Byte)
  BY <1>2, <1>3, Zenon
<1>5. ASSUME NEW i \in 1 .. Len(s), NEW j \in 1 .. Len(s), s[i][1] = s[j][1]
      PROVE  i = j
  <2>1. ~Before(s[i][1], s[j][1]) /\ ~Before(s[j][1], s[i][1])
    BY <1>4, <1>5, BeforeIrreflexive, Zenon
  <2>2. ~(i < j) /\ ~(j < i)
    BY <2>1, <1>1, Zenon
  <2> QED
    BY <2>2
<1> QED
  BY <1>1, <1>2, <1>4, <1>5, Zenon

\* An ordered sequence is as long as its set of pairs is large.
LEMMA OrderedLength ==
  ASSUME NEW s \in Ordered
  PROVE  Cardinality(Range(s)) = Len(s)
<1> DEFINE I == 1 .. Len(s)
<1>1. /\ s \in Seq(PlainKey \X PlainValue) /\ Len(s) \in Nat
      /\ \A i, j \in I : s[i][1] = s[j][1] => i = j
  BY OrderedFacts
<1>2. IsFiniteSet(I) /\ Cardinality(I) = Len(s)
  <2>1. /\ IsFiniteSet(1 .. Len(s))
        /\ Cardinality(1 .. Len(s)) = IF 1 > Len(s) THEN 0 ELSE Len(s) - 1 + 1
    BY <1>1, FS_Interval
  <2> QED
    BY <1>1, <2>1
<1>3. Range(s) = {s[i] : i \in I}
  BY <1>1, ElementsOfSeq, Zenon
<1> DEFINE f == [i \in I |-> s[i]]
<1>4. f \in [I -> Range(s)] /\ \A x \in Range(s) : \E i \in I : f[i] = x
  BY <1>3, Zenon
<1>5. \A i, j \in I : f[i] = f[j] => i = j
  BY <1>1, Zenon
<1> HIDE DEF f, I
<1>6. f \in Bijection(I, Range(s))
  BY <1>4, <1>5, Fun_IsBij
<1>7. ExistsBijection(I, Range(s))
  BY <1>6, Zenon DEF ExistsBijection
<1> QED
  BY <1>2, <1>7, FS_Bijection

\* Where two orders of the same pairs differ first, each has the smaller key.
LEMMA FirstDifference ==
  ASSUME NEW s \in Ordered, NEW t \in Ordered, Range(s) = Range(t),
         NEW m \in 1 .. Len(s), m \in 1 .. Len(t), s[m] # t[m],
         \A j \in 1 .. m - 1 : s[j] = t[j]
  PROVE  Before(t[m][1], s[m][1])
<1>1. s[m] \in Range(s)
  <2>1. Range(s) = {s[i] : i \in 1 .. Len(s)}
    <3>1. s \in Seq(PlainKey \X PlainValue)
      BY OrderedFacts
    <3> QED
      BY <3>1, ElementsOfSeq, Zenon
  <2> QED
    BY <2>1, Zenon
<1>2. PICK k \in 1 .. Len(t) : t[k] = s[m]
  <2>1. Range(t) = {t[i] : i \in 1 .. Len(t)}
    <3>1. t \in Seq(PlainKey \X PlainValue)
      BY OrderedFacts
    <3> QED
      BY <3>1, ElementsOfSeq, Zenon
  <2> QED
    BY <1>1, <2>1, Zenon
<1>3. ~(k < m)
  <2> SUFFICES ASSUME k < m PROVE FALSE
    OBVIOUS
  <2>1. k \in 1 .. m - 1 /\ k \in 1 .. Len(s) /\ k # m
    OBVIOUS
  <2>2. s[k][1] = s[m][1]
    BY <1>2, <2>1, Zenon
  <2> QED
    BY <2>1, <2>2, OrderedFacts, Zenon
<1>4. m < k
  BY <1>2, <1>3
<1>5. Before(t[m][1], t[k][1])
  BY <1>4, OrderedFacts, Zenon
<1> QED
  BY <1>2, <1>5, Zenon

\* Pairs have one order.
LEMMA OrderUnique ==
  ASSUME NEW s \in Ordered, NEW t \in Ordered, Range(s) = Range(t)
  PROVE  s = t
<1>0. /\ s \in Seq(PlainKey \X PlainValue) /\ t \in Seq(PlainKey \X PlainValue)
      /\ Len(s) \in Nat /\ Len(t) \in Nat
  BY OrderedFacts
<1>1. Len(s) = Len(t)
  BY OrderedLength, Zenon
<1> DEFINE D == {j \in Nat : j \in 1 .. Len(s) /\ s[j] # t[j]}
<1>2. CASE D = {}
  <2>1. \A j \in 1 .. Len(s) : s[j] = t[j]
    BY <1>0, <1>2
  <2> QED
    BY <1>0, <1>1, <2>1, SeqEqual
<1>3. CASE D # {}
  <2>1. PICK m \in D : \A k \in D : m <= k
    BY <1>3, LeastNatural
  <2>2. m \in 1 .. Len(s) /\ m \in 1 .. Len(t) /\ s[m] # t[m]
    BY <1>1
  <2>3. \A j \in 1 .. m - 1 : s[j] = t[j]
    BY <2>1, <2>2, <1>0
  <2>4. Before(t[m][1], s[m][1]) /\ Before(s[m][1], t[m][1])
    <3>1. Before(t[m][1], s[m][1])
      BY <2>2, <2>3, FirstDifference, Zenon
    <3>2. \A j \in 1 .. m - 1 : t[j] = s[j]
      BY <2>3, Zenon
    <3>3. Before(s[m][1], t[m][1])
      BY <2>2, <3>2, FirstDifference, Zenon
    <3> QED
      BY <3>1, <3>3, Zenon
  <2>5. s[m][1] \in Seq(Byte) /\ t[m][1] \in Seq(Byte)
    BY <2>2, OrderedFacts, Zenon
  <2> QED
    BY <2>4, <2>5, BeforeTransitive, BeforeIrreflexive, Zenon
<1> QED
  BY <1>2, <1>3

\* The pairs of an id have the same order however Go iterates over the map.
LEMMA SortedCanonical ==
  ASSUME NEW id \in PlainBucketId, NEW jd \in PlainBucketId
  PROVE  /\ Sorted(id) \in Ordered
         /\ Sorted(id) = Sorted(jd) <=> Range(id) = Range(jd)
<1>1. /\ Sorted(id) \in Ordered /\ Range(Sorted(id)) = Range(id)
      /\ Sorted(jd) \in Ordered /\ Range(Sorted(jd)) = Range(jd)
  BY SortedFacts, Zenon DEF Ordered
<1> QED
  BY <1>1, OrderUnique, Zenon

-----------------------------------------------------------------------------
(* What Concat computes.                                                   *)

\* The concatenations of the first sequences.
Joined(S, s) ==
  {F \in [0 .. Len(s) -> Seq(S)] : F[0] = <<>> /\ \A i \in 1 .. Len(s) : F[i] = F[i - 1] \o s[i]}

\* The recursion of Concat has a solution for every length.
LEMMA ConcatRecursion ==
  ASSUME NEW S, NEW s \in Seq(Seq(S))
  PROVE  Joined(S, s) # {}
<1> DEFINE Solves(f, n) == f[0] = <<>> /\ \A i \in 1 .. n : f[i] = f[i - 1] \o s[i]
           P == {n \in Nat : n <= Len(s) => \E f \in [0 .. n -> Seq(S)] : Solves(f, n)}
<1>0. Len(s) \in Nat /\ \A i \in 1 .. Len(s) : s[i] \in Seq(S)
  OBVIOUS
<1>1. 0 \in P
  <2> DEFINE f == [i \in 0 .. 0 |-> <<>>]
  <2>1. f \in [0 .. 0 -> Seq(S)] /\ Solves(f, 0)
    OBVIOUS
  <2> HIDE DEF f, Solves
  <2> QED
    BY <2>1
<1>2. ASSUME NEW n \in P PROVE n + 1 \in P
  <2> SUFFICES ASSUME n + 1 <= Len(s)
               PROVE  \E g \in [0 .. n + 1 -> Seq(S)] : Solves(g, n + 1)
    <3> HIDE DEF Solves
    <3> QED
      OBVIOUS
  <2>1. PICK f \in [0 .. n -> Seq(S)] : Solves(f, n)
    <3> HIDE DEF Solves
    <3> QED
      BY <1>0
  <2> DEFINE g == [i \in 0 .. n + 1 |-> IF i = n + 1 THEN f[n] \o s[n + 1] ELSE f[i]]
  <2>2. f[n] \in Seq(S) /\ s[n + 1] \in Seq(S)
    BY <1>0
  <2>3. f[n] \o s[n + 1] \in Seq(S)
    BY <2>2, ConcatProperties
  <2>4. g \in [0 .. n + 1 -> Seq(S)]
    BY <2>3
  <2>5. Solves(g, n + 1)
    <3>1. g[0] = <<>>
      BY <2>1
    <3> SUFFICES ASSUME NEW i \in 1 .. n + 1
                 PROVE  g[i] = g[i - 1] \o s[i]
      BY <3>1
    <3>2. CASE i = n + 1
      <4>1. n \in Nat /\ i - 1 = n /\ n + 1 \in 0 .. n + 1 /\ n \in 0 .. n + 1 /\ n # n + 1
        BY <3>2
      <4>2. g[n + 1] = f[n] \o s[n + 1] /\ g[n] = f[n]
        BY <4>1, Zenon
      <4> HIDE DEF g
      <4> QED
        BY <3>2, <4>1, <4>2, Zenon
    <3>3. CASE i # n + 1
      <4>1. i \in 1 .. n /\ g[i] = f[i] /\ g[i - 1] = f[i - 1]
        BY <3>3
      <4> HIDE DEF g
      <4> QED
        BY <2>1, <4>1, Zenon
    <3> QED
      BY <3>2, <3>3
  <2> HIDE DEF g, Solves
  <2> QED
    BY <2>4, <2>5
<1>3. P = Nat
  <2> HIDE DEF Solves
  <2>1. P \in SUBSET Nat
    OBVIOUS
  <2> HIDE DEF P
  <2> QED
    BY <2>1, <1>1, <1>2, SetInduction
<1> HIDE DEF Solves, P
<1>4. \E f \in [0 .. Len(s) -> Seq(S)] : Solves(f, Len(s))
  BY <1>0, <1>3 DEF P
<1> QED
  BY <1>4 DEF Solves, Joined

\* Concat is the last of the concatenations.
LEMMA ConcatIsJoined ==
  ASSUME NEW S, NEW s \in Seq(Seq(S))
  PROVE  \E F \in Joined(S, s) : Concat(s) = F[Len(s)]
<1> DEFINE n       == Len(s)
           Body(f) == [i \in 0 .. n |-> IF i = 0 THEN <<>> ELSE f[i - 1] \o s[i]]
           upTo    == CHOOSE f : f = Body(f)
<1>0. n \in Nat /\ \A i \in 1 .. n : s[i] \in Seq(S)
  OBVIOUS
<1>1. Concat(s) = upTo[n]
  BY DEF Concat
<1>2. PICK g \in [0 .. n -> Seq(S)] : g = Body(g)
  <2>1. PICK g \in [0 .. n -> Seq(S)] : g[0] = <<>> /\ \A i \in 1 .. n : g[i] = g[i - 1] \o s[i]
    BY ConcatRecursion DEF Joined
  <2> HIDE DEF n
  <2>2. \A i \in 0 .. n : i # 0 => i \in 1 .. n
    BY <1>0
  <2>3. ASSUME NEW i \in 0 .. n
        PROVE  g[i] = IF i = 0 THEN <<>> ELSE g[i - 1] \o s[i]
    <3>1. CASE i = 0
      BY <2>1, <3>1, Zenon
    <3>2. CASE i # 0
      <4>1. i \in 1 .. n
        BY <2>2, <3>2
      <4> QED
        BY <2>1, <3>2, <4>1, Zenon
    <3> QED
      BY <3>1, <3>2
  <2> QED
    BY <2>3
<1>3. upTo = Body(upTo)
  <2> HIDE DEF Body
  <2> QED
    BY <1>2
<1> HIDE DEF upTo, n
<1>4. upTo[0] = <<>> /\ \A i \in 1 .. n : upTo[i] = upTo[i - 1] \o s[i]
  <2>1. \A i \in 0 .. n : upTo[i] = IF i = 0 THEN <<>> ELSE upTo[i - 1] \o s[i]
    BY <1>3
  <2>2. 0 \in 0 .. n /\ \A i \in 1 .. n : i \in 0 .. n /\ i # 0
    BY <1>0
  <2> QED
    BY <2>1, <2>2, Zenon
<1> DEFINE P == {m \in Nat : m <= n => upTo[m] \in Seq(S)}
<1>5. P = Nat
  <2>1. 0 \in P
    <3>1. upTo[0] \in Seq(S)
      <4>1. <<>> \in Seq(S)
        OBVIOUS
      <4> QED
        BY <1>4, <4>1, Zenon
    <3> QED
      BY <3>1
  <2>2. ASSUME NEW m \in P PROVE m + 1 \in P
    <3> SUFFICES ASSUME m + 1 <= n PROVE upTo[m + 1] \in Seq(S)
      OBVIOUS
    <3>1. m + 1 \in 1 .. n /\ (m + 1) - 1 = m
      BY <1>0
    <3>2. upTo[m + 1] = upTo[m] \o s[m + 1]
      BY <1>4, <3>1, Zenon
    <3>3. upTo[m] \in Seq(S) /\ s[m + 1] \in Seq(S)
      BY <1>0, <3>1
    <3> QED
      BY <3>2, <3>3, ConcatProperties
  <2>3. P \in SUBSET Nat
    OBVIOUS
  <2> HIDE DEF P
  <2> QED
    BY <2>1, <2>2, <2>3, SetInduction
<1>6. \A i \in 0 .. n : upTo[i] \in Seq(S)
  <2> SUFFICES ASSUME NEW i \in 0 .. n PROVE upTo[i] \in Seq(S)
    OBVIOUS
  <2>1. i \in Nat /\ i <= n
    BY <1>0
  <2>2. i \in P
    BY <1>5, <2>1, Zenon
  <2> QED
    BY <2>1, <2>2, Zenon
<1>7. upTo \in [0 .. n -> Seq(S)]
  <2>1. upTo = [i \in 0 .. n |-> upTo[i]]
    BY <1>3, Zenon
  <2> QED
    BY <1>6, <2>1, Zenon
<1> QED
  BY <1>1, <1>4, <1>7 DEF Joined, n

\* c has the elements of a and then those of b.
IsConcat(c, a, b) ==
  /\ Len(c) = Len(a) + Len(b)
  /\ \A j \in 1 .. Len(a) : c[j] = a[j]
  /\ \A j \in 1 .. Len(b) : c[Len(a) + j] = b[j]

\* The elements of a concatenation.
LEMMA ConcatElements ==
  ASSUME NEW S, NEW a \in Seq(S), NEW b \in Seq(S)
  PROVE  /\ a \o b \in Seq(S) /\ Len(a) \in Nat /\ Len(b) \in Nat
         /\ IsConcat(a \o b, a, b)
  BY DEF IsConcat

\* Each concatenation begins with the earlier ones.
LEMMA PrefixesNested ==
  ASSUME NEW S, NEW s \in Seq(Seq(S)), NEW F \in Joined(S, s), NEW i \in 0 .. Len(s)
  PROVE  /\ Len(F[i]) <= Len(F[Len(s)])
         /\ \A j \in 1 .. Len(F[i]) : F[Len(s)][j] = F[i][j]
<1> DEFINE n == Len(s)
           Nested(m) == Len(F[i]) <= Len(F[m]) /\ \A j \in 1 .. Len(F[i]) : F[m][j] = F[i][j]
           P == {m \in Nat : i + m <= n => Nested(i + m)}
<1>0. /\ n \in Nat /\ F \in [0 .. n -> Seq(S)]
      /\ \A m \in 1 .. n : F[m] = F[m - 1] \o s[m] /\ s[m] \in Seq(S)
      /\ \A m \in 0 .. n : F[m] \in Seq(S) /\ Len(F[m]) \in Nat
  <2>1. F \in [0 .. n -> Seq(S)] /\ \A m \in 1 .. n : F[m] = F[m - 1] \o s[m]
    BY Zenon DEF Joined
  <2>2. n \in Nat /\ \A m \in 1 .. n : s[m] \in Seq(S)
    OBVIOUS
  <2>3. \A m \in 0 .. n : F[m] \in Seq(S)
    BY <2>1, Zenon
  <2>4. \A x \in Seq(S) : Len(x) \in Nat
    OBVIOUS
  <2> QED
    BY <2>1, <2>2, <2>3, <2>4, Zenon
<1> HIDE DEF n
<1>i. i \in 0 .. n
  BY DEF n
<1>1. 0 \in P
  <2>1. Nested(i) /\ i + 0 = i
    BY <1>0, <1>i
  <2> HIDE DEF Nested
  <2> QED
    BY <2>1
<1>2. ASSUME NEW m \in P PROVE m + 1 \in P
  <2> SUFFICES ASSUME i + m + 1 <= n PROVE Nested(i + m + 1)
    <3>1. m \in Nat /\ i + (m + 1) = i + m + 1
      BY <1>i
    <3> HIDE DEF Nested
    <3> QED
      BY <3>1
  <2>0. m \in Nat /\ i + m \in 0 .. n /\ i + m + 1 \in 1 .. n /\ (i + m + 1) - 1 = i + m /\ i + m <= n
    BY <1>0, <1>i
  <2>1. Nested(i + m)
    <3> HIDE DEF Nested
    <3> QED
      BY <2>0
  <2>2. F[i + m + 1] = F[i + m] \o s[i + m + 1]
    BY <1>0, <2>0, Zenon
  <2>3. F[i + m] \in Seq(S) /\ s[i + m + 1] \in Seq(S) /\ Len(F[i]) \in Nat
    BY <1>0, <1>i, <2>0, Zenon
  <2>4. /\ Len(F[i + m + 1]) = Len(F[i + m]) + Len(s[i + m + 1])
        /\ \A j \in 1 .. Len(F[i + m]) : F[i + m + 1][j] = F[i + m][j]
    <3>1. IsConcat(F[i + m + 1], F[i + m], s[i + m + 1])
      BY <2>2, <2>3, ConcatElements, Zenon
    <3> QED
      BY <3>1, Zenon DEF IsConcat
  <2>5. Len(F[i + m]) \in Nat /\ Len(s[i + m + 1]) \in Nat
    BY <2>3
  <2>6. Len(F[i]) <= Len(F[i + m]) /\ Len(F[i]) <= Len(F[i + m + 1])
    <3>1. Len(F[i]) <= Len(F[i + m]) /\ Len(F[i + m + 1]) = Len(F[i + m]) + Len(s[i + m + 1])
      BY <2>1, <2>4, Zenon
    <3>2. Len(F[i]) \in Nat
      BY <2>3, Zenon
    <3>3. \A a, b, c \in Nat : a <= b => a <= b + c
      OBVIOUS
    <3> QED
      BY <3>1, <3>2, <3>3, <2>5, Zenon
  <2>7. \A j \in 1 .. Len(F[i]) : j \in 1 .. Len(F[i + m])
    BY <2>3, <2>5, <2>6
  <2> QED
    BY <2>1, <2>4, <2>6, <2>7, Zenon
<1>3. P = Nat
  <2>1. P \in SUBSET Nat
    OBVIOUS
  <2> HIDE DEF P
  <2> QED
    BY <1>1, <1>2, <2>1, SetInduction
<1>4. Nested(n)
  <2> HIDE DEF P, Nested
  <2>1. n - i \in P /\ i + (n - i) = n /\ i + (n - i) <= n
    BY <1>0, <1>i, <1>3
  <2> QED
    BY <2>1, Zenon DEF P
<1> QED
  BY <1>4 DEF n

-----------------------------------------------------------------------------
(* Where the pairs of a bucket id are in its key.                          *)

\* q has the bytes of one pair, after those of sep.
IsPair(q, sep, k, v) ==
  /\ q \in Seq(Byte)
  /\ Len(q) = Len(sep) + Len(k) + 1 + Len(v)
  /\ \A j \in 1 .. Len(sep) : q[j] = sep[j]
  /\ \A j \in 1 .. Len(k) : q[Len(sep) + j] = k[j]
  /\ q[Len(sep) + Len(k) + 1] = NUL
  /\ \A j \in 1 .. Len(v) : q[Len(sep) + Len(k) + 1 + j] = v[j]

\* The bytes of one pair, after the separator if there is one.
LEMMA PairBytes ==
  ASSUME NEW sep \in Seq(Byte), NEW k \in Seq(Byte), NEW v \in Seq(Byte),
         NEW q, q = sep \o k \o <<NUL>> \o v
  PROVE  IsPair(q, sep, k, v)
<1>1. <<NUL>> \in Seq(Byte) /\ Len(<<NUL>>) = 1 /\ <<NUL>>[1] = NUL
  <2>1. NUL \in Byte
    BY DEF NUL, Byte
  <2> QED
    BY <2>1
<1> DEFINE u == sep \o k
           w == u \o <<NUL>>
<1>2. /\ u \in Seq(Byte) /\ Len(sep) \in Nat /\ Len(k) \in Nat /\ Len(u) = Len(sep) + Len(k)
      /\ \A j \in 1 .. Len(sep) : u[j] = sep[j]
      /\ \A j \in 1 .. Len(k) : u[Len(sep) + j] = k[j]
  <2>1. u \in Seq(Byte) /\ Len(sep) \in Nat /\ Len(k) \in Nat /\ IsConcat(u, sep, k)
    BY ConcatElements, Zenon
  <2> QED
    BY <2>1, Zenon DEF IsConcat
<1> HIDE DEF u
<1>3. /\ w \in Seq(Byte) /\ Len(w) = Len(u) + 1
      /\ \A j \in 1 .. Len(u) : w[j] = u[j]
      /\ w[Len(u) + 1] = NUL
  <2>1. /\ w \in Seq(Byte) /\ Len(w) = Len(u) + Len(<<NUL>>)
        /\ \A j \in 1 .. Len(u) : w[j] = u[j]
        /\ \A j \in 1 .. Len(<<NUL>>) : w[Len(u) + j] = <<NUL>>[j]
    <3>1. w \in Seq(Byte) /\ IsConcat(w, u, <<NUL>>)
      BY <1>1, <1>2, ConcatElements, Zenon
    <3> QED
      BY <3>1, Zenon DEF IsConcat
  <2>2. 1 \in 1 .. Len(<<NUL>>)
    BY <1>1
  <2>3. w[Len(u) + 1] = NUL
    BY <1>1, <2>1, <2>2, Zenon
  <2> QED
    BY <1>1, <2>1, <2>3, Zenon
<1> HIDE DEF w
<1>4. /\ q \in Seq(Byte) /\ Len(v) \in Nat /\ Len(q) = Len(w) + Len(v)
      /\ \A j \in 1 .. Len(w) : q[j] = w[j]
      /\ \A j \in 1 .. Len(v) : q[Len(w) + j] = v[j]
  <2>1. q = w \o v
    BY DEF w, u
  <2>2. q \in Seq(Byte) /\ Len(v) \in Nat /\ IsConcat(q, w, v)
    BY <1>3, <2>1, ConcatElements, Zenon
  <2> QED
    BY <2>2, Zenon DEF IsConcat
<1>5. Len(w) = Len(sep) + Len(k) + 1
  BY <1>2, <1>3
<1>6. \A j \in 1 .. Len(sep) : j \in 1 .. Len(u) /\ j \in 1 .. Len(w)
  BY <1>2, <1>5
<1>7. \A j \in 1 .. Len(k) : Len(sep) + j \in 1 .. Len(u) /\ Len(sep) + j \in 1 .. Len(w)
  BY <1>2, <1>5
<1>8. Len(u) + 1 \in 1 .. Len(w) /\ Len(u) + 1 = Len(sep) + Len(k) + 1
  BY <1>2, <1>5
<1>9. Len(q) = Len(sep) + Len(k) + 1 + Len(v)
  BY <1>4, <1>5, Zenon
<1>10. \A j \in 1 .. Len(sep) : q[j] = sep[j]
  BY <1>2, <1>3, <1>4, <1>6, Zenon
<1>11. \A j \in 1 .. Len(k) : q[Len(sep) + j] = k[j]
  BY <1>2, <1>3, <1>4, <1>7, Zenon
<1>12. q[Len(sep) + Len(k) + 1] = NUL
  BY <1>3, <1>4, <1>8, Zenon
<1>13. \A j \in 1 .. Len(v) : q[Len(sep) + Len(k) + 1 + j] = v[j]
  BY <1>4, <1>5, Zenon
<1> QED
  BY <1>4, <1>9, <1>10, <1>11, <1>12, <1>13, Zenon DEF IsPair

\* Where the key of the pair begins, if E[i] is where pair i ends.
KeyStart(E, i) == IF i = 1 THEN 0 ELSE E[i - 1] + 1

\* E is where the pairs of s end in the string X.
Layout(s, X) ==
  {E \in [0 .. Len(s) -> Nat] :
    /\ E[0] = 0 /\ E[Len(s)] = Len(X)
    /\ \A i \in 1 .. Len(s) :
         /\ E[i] = KeyStart(E, i) + Len(s[i][1]) + 1 + Len(s[i][2]) /\ E[i] <= Len(X)
         /\ i > 1 => X[E[i - 1] + 1] = RS
         /\ \A j \in 1 .. Len(s[i][1]) : X[KeyStart(E, i) + j] = s[i][1][j]
         /\ X[KeyStart(E, i) + Len(s[i][1]) + 1] = NUL
         /\ \A j \in 1 .. Len(s[i][2]) : X[KeyStart(E, i) + Len(s[i][1]) + 1 + j] = s[i][2][j]}

\* Join lays out its pairs one after the other.
LEMMA JoinLayout ==
  ASSUME NEW s \in Seq(PlainKey \X PlainValue), Len(s) > 0
  PROVE  Join(s) \in Seq(Byte) /\ Layout(s, Join(s)) # {}
<1> DEFINE n       == Len(s)
           sep(i)  == IF i > 1 THEN <<RS>> ELSE <<>>
           part(i) == sep(i) \o s[i][1] \o <<NUL>> \o s[i][2]
           parts   == [i \in 1 .. n |-> part(i)]
<1>0. /\ n \in Nat /\ n > 0
      /\ \A i \in 1 .. n : s[i][1] \in Seq(Byte) /\ s[i][2] \in Seq(Byte)
  <2>1. \A i \in 1 .. n : s[i] \in PlainKey \X PlainValue
    OBVIOUS
  <2>2. \A q \in PlainKey \X PlainValue : q[1] \in Seq(Byte) /\ q[2] \in Seq(Byte)
    BY DEF PlainKey, PlainValue
  <2> QED
    BY <2>1, <2>2
<1>1. Join(s) = Concat(parts)
  BY Zenon DEF Join
<1> HIDE DEF n
<1>2. \A i \in 1 .. n :
        /\ part(i) \in Seq(Byte) /\ Len(sep(i)) = IF i > 1 THEN 1 ELSE 0
        /\ Len(part(i)) = Len(sep(i)) + Len(s[i][1]) + 1 + Len(s[i][2])
        /\ \A j \in 1 .. Len(sep(i)) : part(i)[j] = RS
        /\ \A j \in 1 .. Len(s[i][1]) : part(i)[Len(sep(i)) + j] = s[i][1][j]
        /\ part(i)[Len(sep(i)) + Len(s[i][1]) + 1] = NUL
        /\ \A j \in 1 .. Len(s[i][2]) : part(i)[Len(sep(i)) + Len(s[i][1]) + 1 + j] = s[i][2][j]
  <2> SUFFICES ASSUME NEW i \in 1 .. n
               PROVE
        /\ part(i) \in Seq(Byte) /\ Len(sep(i)) = IF i > 1 THEN 1 ELSE 0
        /\ Len(part(i)) = Len(sep(i)) + Len(s[i][1]) + 1 + Len(s[i][2])
        /\ \A j \in 1 .. Len(sep(i)) : part(i)[j] = RS
        /\ \A j \in 1 .. Len(s[i][1]) : part(i)[Len(sep(i)) + j] = s[i][1][j]
        /\ part(i)[Len(sep(i)) + Len(s[i][1]) + 1] = NUL
        /\ \A j \in 1 .. Len(s[i][2]) : part(i)[Len(sep(i)) + Len(s[i][1]) + 1 + j] = s[i][2][j]
    BY Zenon
  <2>1. /\ sep(i) \in Seq(Byte) /\ Len(sep(i)) = IF i > 1 THEN 1 ELSE 0
        /\ \A j \in 1 .. Len(sep(i)) : sep(i)[j] = RS
    <3>1. RS \in Byte
      BY DEF RS, Byte
    <3>2. CASE i > 1
      BY <3>1, <3>2
    <3>3. CASE ~(i > 1)
      BY <3>3
    <3> QED
      BY <3>2, <3>3
  <2>2. s[i][1] \in Seq(Byte) /\ s[i][2] \in Seq(Byte)
    BY <1>0, Zenon
  <2> HIDE DEF sep
  <2>3. part(i) = sep(i) \o s[i][1] \o <<NUL>> \o s[i][2]
    OBVIOUS
  <2> HIDE DEF part
  <2>4. /\ part(i) \in Seq(Byte)
        /\ Len(part(i)) = Len(sep(i)) + Len(s[i][1]) + 1 + Len(s[i][2])
        /\ \A j \in 1 .. Len(sep(i)) : part(i)[j] = sep(i)[j]
        /\ \A j \in 1 .. Len(s[i][1]) : part(i)[Len(sep(i)) + j] = s[i][1][j]
        /\ part(i)[Len(sep(i)) + Len(s[i][1]) + 1] = NUL
        /\ \A j \in 1 .. Len(s[i][2]) : part(i)[Len(sep(i)) + Len(s[i][1]) + 1 + j] = s[i][2][j]
    <3>1. IsPair(part(i), sep(i), s[i][1], s[i][2])
      BY <2>1, <2>2, <2>3, PairBytes, Zenon
    <3> QED
      BY <3>1, Zenon DEF IsPair
  <2> QED
    BY <2>1, <2>4, Zenon
<1> HIDE DEF part
<1>3. parts \in Seq(Seq(Byte)) /\ Len(parts) = n /\ \A i \in 1 .. n : parts[i] = part(i)
  <2>1. parts \in [1 .. n -> Seq(Byte)] /\ \A i \in 1 .. n : parts[i] = part(i)
    BY <1>2, Zenon
  <2> HIDE DEF parts
  <2> QED
    BY <1>0, <2>1, FunctionIsSeq
<1> HIDE DEF parts
<1>4. PICK F \in Joined(Byte, parts) : Concat(parts) = F[n]
  BY <1>3, ConcatIsJoined
<1> DEFINE X == F[n]
           E == [i \in 0 .. n |-> Len(F[i])]
<1>5. /\ F \in [0 .. n -> Seq(Byte)] /\ F[0] = <<>>
      /\ \A i \in 1 .. n : F[i] = F[i - 1] \o part(i)
  BY <1>3, Zenon DEF Joined
<1>6. \A i \in 0 .. n : /\ F[i] \in Seq(Byte) /\ Len(F[i]) \in Nat /\ Len(F[i]) <= Len(X)
                        /\ \A j \in 1 .. Len(F[i]) : X[j] = F[i][j]
  <2>1. \A i \in 0 .. n : F[i] \in Seq(Byte) /\ Len(F[i]) \in Nat
    BY <1>5
  <2>2. \A i \in 0 .. n : Len(F[i]) <= Len(X) /\ \A j \in 1 .. Len(F[i]) : X[j] = F[i][j]
    BY <1>3, PrefixesNested
  <2> QED
    BY <2>1, <2>2, Zenon
<1>7. ASSUME NEW i \in 1 .. n
      PROVE  /\ Len(F[i]) = Len(F[i - 1]) + Len(part(i))
             /\ \A j \in 1 .. Len(part(i)) : X[Len(F[i - 1]) + j] = part(i)[j]
  <2>1. i \in 0 .. n /\ i - 1 \in 0 .. n
    BY <1>0
  <2>2. F[i] = F[i - 1] \o part(i) /\ F[i - 1] \in Seq(Byte) /\ part(i) \in Seq(Byte)
    BY <1>2, <1>5, <1>6, <2>1, Zenon
  <2>3. /\ Len(F[i]) = Len(F[i - 1]) + Len(part(i))
        /\ \A j \in 1 .. Len(part(i)) : F[i][Len(F[i - 1]) + j] = part(i)[j]
    BY <2>2, ConcatProperties
  <2>4. \A j \in 1 .. Len(part(i)) : Len(F[i - 1]) + j \in 1 .. Len(F[i])
    BY <2>2, <2>3
  <2>5. \A j \in 1 .. Len(part(i)) : X[Len(F[i - 1]) + j] = F[i][Len(F[i - 1]) + j]
    BY <1>6, <2>1, <2>4, Zenon
  <2> QED
    BY <2>3, <2>5, Zenon
<1>8. E \in [0 .. n -> Nat] /\ E[0] = 0 /\ E[n] = Len(X) /\ \A i \in 0 .. n : E[i] = Len(F[i])
  BY <1>0, <1>5, <1>6
<1> HIDE DEF E, sep
<1>9. ASSUME NEW i \in 1 .. n
      PROVE  /\ KeyStart(E, i) = Len(F[i - 1]) + Len(sep(i))
             /\ E[i] = Len(F[i]) /\ E[i - 1] = Len(F[i - 1]) /\ Len(F[i - 1]) \in Nat
             /\ Len(sep(i)) \in {0, 1} /\ (i > 1 => Len(sep(i)) = 1)
  <2>1. i \in 0 .. n /\ i - 1 \in 0 .. n /\ (i = 1 => i - 1 = 0) /\ (i # 1 => i > 1)
    BY <1>0
  <2>2. E[i] = Len(F[i]) /\ E[i - 1] = Len(F[i - 1]) /\ Len(F[i - 1]) \in Nat
    BY <1>6, <1>8, <2>1, Zenon
  <2>3. Len(sep(i)) = IF i > 1 THEN 1 ELSE 0
    BY <1>2, Zenon
  <2>4. CASE i = 1
    BY <1>8, <2>1, <2>2, <2>3, <2>4 DEF KeyStart
  <2>5. CASE i # 1
    BY <2>1, <2>2, <2>3, <2>5 DEF KeyStart
  <2> QED
    BY <2>4, <2>5
<1>10. ASSUME NEW i \in 1 .. n
       PROVE
         /\ E[i] = KeyStart(E, i) + Len(s[i][1]) + 1 + Len(s[i][2]) /\ E[i] <= Len(X)
         /\ i > 1 => X[E[i - 1] + 1] = RS
         /\ \A j \in 1 .. Len(s[i][1]) : X[KeyStart(E, i) + j] = s[i][1][j]
         /\ X[KeyStart(E, i) + Len(s[i][1]) + 1] = NUL
         /\ \A j \in 1 .. Len(s[i][2]) : X[KeyStart(E, i) + Len(s[i][1]) + 1 + j] = s[i][2][j]
  <2> DEFINE b == Len(F[i - 1])
             c == Len(sep(i))
             k == s[i][1]
             v == s[i][2]
             q == part(i)
  <2>1. /\ KeyStart(E, i) = b + c /\ E[i] = Len(F[i]) /\ E[i - 1] = b /\ b \in Nat
        /\ c \in Nat /\ (i > 1 => c = 1)
    BY <1>9
  <2>2. /\ Len(q) = c + Len(k) + 1 + Len(v)
        /\ \A j \in 1 .. c : q[j] = RS
        /\ \A j \in 1 .. Len(k) : q[c + j] = k[j]
        /\ q[c + Len(k) + 1] = NUL
        /\ \A j \in 1 .. Len(v) : q[c + Len(k) + 1 + j] = v[j]
    BY <1>2, Zenon
  <2>3. Len(F[i]) = b + Len(q) /\ \A j \in 1 .. Len(q) : X[b + j] = q[j]
    BY <1>7, Zenon
  <2>4. k \in Seq(Byte) /\ v \in Seq(Byte) /\ Len(k) \in Nat /\ Len(v) \in Nat
    BY <1>0
  <2>5. Len(F[i]) <= Len(X)
    <3>1. i \in 0 .. n
      BY <1>0
    <3> QED
      BY <3>1, <1>6, Zenon
  <2> HIDE DEF b, c, k, v, q, X
  <2>6. E[i] = KeyStart(E, i) + Len(k) + 1 + Len(v) /\ E[i] <= Len(X)
    BY <2>1, <2>2, <2>3, <2>4, <2>5
  <2>7. i > 1 => X[E[i - 1] + 1] = RS
    BY <2>1, <2>2, <2>3, <2>4
  <2>8. \A j \in 1 .. Len(k) : X[KeyStart(E, i) + j] = k[j]
    <3> SUFFICES ASSUME NEW j \in 1 .. Len(k) PROVE X[KeyStart(E, i) + j] = k[j]
      OBVIOUS
    <3>1. c + j \in 1 .. Len(q) /\ KeyStart(E, i) + j = b + (c + j)
      BY <2>1, <2>2, <2>4
    <3> QED
      BY <2>2, <2>3, <3>1, Zenon
  <2>9. X[KeyStart(E, i) + Len(k) + 1] = NUL
    <3>1. /\ c + Len(k) + 1 \in 1 .. Len(q)
          /\ KeyStart(E, i) + Len(k) + 1 = b + (c + Len(k) + 1)
      BY <2>1, <2>2, <2>4
    <3>2. X[b + (c + Len(k) + 1)] = q[c + Len(k) + 1]
      BY <2>3, <3>1, Zenon
    <3> QED
      BY <2>2, <3>1, <3>2, Zenon
  <2>10. \A j \in 1 .. Len(v) : X[KeyStart(E, i) + Len(k) + 1 + j] = v[j]
    <3> SUFFICES ASSUME NEW j \in 1 .. Len(v) PROVE X[KeyStart(E, i) + Len(k) + 1 + j] = v[j]
      OBVIOUS
    <3>1. /\ c + Len(k) + 1 + j \in 1 .. Len(q)
          /\ KeyStart(E, i) + Len(k) + 1 + j = b + (c + Len(k) + 1 + j)
      BY <2>1, <2>2, <2>4
    <3>2. q[c + Len(k) + 1 + j] = v[j]
      BY <2>2, Zenon
    <3>3. X[b + (c + Len(k) + 1 + j)] = q[c + Len(k) + 1 + j]
      BY <2>3, <3>1, Zenon
    <3> QED
      BY <3>1, <3>2, <3>3, Zenon
  <2> QED
    BY <2>6, <2>7, <2>8, <2>9, <2>10 DEF k, v
<1>11. Join(s) = X /\ X \in Seq(Byte)
  BY <1>0, <1>1, <1>4, <1>6
<1>12. E \in Layout(s, X)
  BY <1>8, <1>10, Zenon DEF Layout, n
<1> QED
  BY <1>11, <1>12

\* k stands in X after place a.
ReadAt(X, a, k) == \A j \in 1 .. Len(k) : X[a + j] = k[j]

\* The byte c does not occur in k.
Free(k, c) == \A j \in 1 .. Len(k) : k[j] # c

\* What the proofs use of the pairs of a sequence.
LEMMA PairFacts ==
  ASSUME NEW s \in Seq(PlainKey \X PlainValue), NEW i \in 1 .. Len(s)
  PROVE  /\ s[i] = <<s[i][1], s[i][2]>>
         /\ s[i][1] \in Seq(Byte) /\ Len(s[i][1]) \in Nat
         /\ s[i][2] \in Seq(Byte) /\ Len(s[i][2]) \in Nat
         /\ Free(s[i][1], NUL) /\ Free(s[i][2], RS)
<1>1. s[i] \in PlainKey \X PlainValue
  OBVIOUS
<1>2. s[i] = <<s[i][1], s[i][2]>> /\ s[i][1] \in PlainKey /\ s[i][2] \in PlainValue
  BY <1>1
<1>3. /\ s[i][1] \in Seq(Byte) /\ \A j \in 1 .. Len(s[i][1]) : s[i][1][j] # NUL
      /\ s[i][2] \in Seq(Byte) /\ \A j \in 1 .. Len(s[i][2]) : s[i][2][j] # RS
  BY <1>2, Zenon DEF PlainKey, PlainValue
<1>4. Len(s[i][1]) \in Nat /\ Len(s[i][2]) \in Nat
  BY <1>3
<1> QED
  BY <1>2, <1>3, <1>4, Zenon DEF Free

\* A string that is read from place a up to a terminator has one length.
LEMMA ReadOnce ==
  ASSUME NEW X, NEW a \in Nat, NEW c,
         NEW k \in Seq(Byte), NEW l \in Seq(Byte),
         ReadAt(X, a, k), ReadAt(X, a, l), Free(l, c),
         Len(k) < Len(l) => X[a + Len(k) + 1] = c
  PROVE  Len(k) >= Len(l)
<1>0. Len(k) \in Nat /\ Len(l) \in Nat
  OBVIOUS
<1> SUFFICES ASSUME Len(k) < Len(l) PROVE FALSE
  BY <1>0
<1>1. Len(k) + 1 \in 1 .. Len(l) /\ a + Len(k) + 1 = a + (Len(k) + 1)
  BY <1>0
<1>2. X[a + (Len(k) + 1)] = c
  BY <1>1, Zenon
<1> QED
  BY <1>1, <1>2, Zenon DEF ReadAt, Free

\* Strings of one length at one place are equal.
LEMMA SamePlace ==
  ASSUME NEW X, NEW a \in Nat, NEW k \in Seq(Byte), NEW l \in Seq(Byte), Len(k) = Len(l),
         ReadAt(X, a, k), ReadAt(X, a, l)
  PROVE  k = l
<1>1. \A j \in 1 .. Len(k) : k[j] = l[j]
  BY Zenon DEF ReadAt
<1> QED
  BY <1>1, SameBytes

\* What a layout says of one pair: k begins after a and v after its NUL.
LayoutAt(X, a, k, v, end) ==
  /\ end = a + Len(k) + 1 + Len(v) /\ end <= Len(X)
  /\ ReadAt(X, a, k)
  /\ X[a + Len(k) + 1] = NUL
  /\ ReadAt(X, a + Len(k) + 1, v)
  /\ end < Len(X) => X[end + 1] = RS

\* A layout says this of each of its pairs.
LEMMA LayoutFacts ==
  ASSUME NEW s \in Seq(PlainKey \X PlainValue), NEW X \in Seq(Byte), NEW E \in Layout(s, X),
         NEW i \in 1 .. Len(s)
  PROVE  /\ LayoutAt(X, KeyStart(E, i), s[i][1], s[i][2], E[i])
         /\ KeyStart(E, i) \in Nat /\ E[i] \in Nat /\ E[i - 1] \in Nat /\ E[i - 1] < E[i]
         /\ E[0] = 0 /\ E[Len(s)] = Len(X) /\ Len(X) \in Nat
<1> DEFINE n == Len(s)
<1>0. n \in Nat /\ Len(X) \in Nat
  OBVIOUS
<1>1. /\ E \in [0 .. n -> Nat] /\ E[0] = 0 /\ E[n] = Len(X)
      /\ \A m \in 1 .. n :
         /\ E[m] = KeyStart(E, m) + Len(s[m][1]) + 1 + Len(s[m][2]) /\ E[m] <= Len(X)
         /\ m > 1 => X[E[m - 1] + 1] = RS
         /\ \A j \in 1 .. Len(s[m][1]) : X[KeyStart(E, m) + j] = s[m][1][j]
         /\ X[KeyStart(E, m) + Len(s[m][1]) + 1] = NUL
         /\ \A j \in 1 .. Len(s[m][2]) : X[KeyStart(E, m) + Len(s[m][1]) + 1 + j] = s[m][2][j]
  BY Zenon DEF Layout
<1> HIDE DEF n
<1>i. i \in 1 .. n
  BY DEF n
<1>2. E[i] \in Nat /\ E[i - 1] \in Nat /\ i - 1 \in 0 .. n /\ i \in 0 .. n
  BY <1>0, <1>1, <1>i
<1>3. KeyStart(E, i) \in Nat /\ E[i - 1] <= KeyStart(E, i)
  BY <1>1, <1>2, <1>i DEF KeyStart
<1>4. Len(s[i][1]) \in Nat /\ Len(s[i][2]) \in Nat
  BY PairFacts
<1>5. E[i] = KeyStart(E, i) + Len(s[i][1]) + 1 + Len(s[i][2])
  BY <1>1, <1>i, Zenon
<1>6. E[i - 1] < E[i]
  BY <1>2, <1>3, <1>4, <1>5
<1>7. E[i] < Len(X) => X[E[i] + 1] = RS
  <2> SUFFICES ASSUME E[i] < Len(X) PROVE X[E[i] + 1] = RS
    OBVIOUS
  <2>1. i # n
    BY <1>0, <1>1, <1>2
  <2>2. i + 1 \in 1 .. n /\ i + 1 > 1 /\ (i + 1) - 1 = i
    BY <1>0, <1>i, <2>1
  <2>3. X[E[(i + 1) - 1] + 1] = RS
    BY <1>1, <2>2, Zenon
  <2> QED
    BY <2>2, <2>3, Zenon
<1>8. LayoutAt(X, KeyStart(E, i), s[i][1], s[i][2], E[i])
  BY <1>1, <1>5, <1>7, <1>i, Zenon DEF LayoutAt, ReadAt
<1> QED
  BY <1>0, <1>1, <1>2, <1>3, <1>6, <1>8, Zenon DEF n

\* The same, with a key and a value that have no separator.
PlainAt(X, a, k, v, end) ==
  /\ X \in Seq(Byte) /\ a \in Nat /\ end \in Nat /\ k \in Seq(Byte) /\ v \in Seq(Byte)
  /\ Free(k, NUL) /\ Free(v, RS)
  /\ LayoutAt(X, a, k, v, end)

\* The pair at a place of a string is determined, and so is where it ends.
LEMMA PairAtPlace ==
  ASSUME NEW X, NEW a, NEW e, NEW f, NEW k, NEW v, NEW l, NEW w,
         PlainAt(X, a, k, v, e), PlainAt(X, a, l, w, f)
  PROVE  k = l /\ v = w /\ e = f
<1>t. /\ X \in Seq(Byte) /\ a \in Nat /\ e \in Nat /\ f \in Nat
      /\ k \in Seq(Byte) /\ l \in Seq(Byte) /\ v \in Seq(Byte) /\ w \in Seq(Byte)
  BY Zenon DEF PlainAt
<1>p. /\ Free(k, NUL) /\ Free(l, NUL) /\ Free(v, RS) /\ Free(w, RS)
      /\ LayoutAt(X, a, k, v, e) /\ LayoutAt(X, a, l, w, f)
  BY Zenon DEF PlainAt
<1>0. /\ Len(k) \in Nat /\ Len(l) \in Nat /\ Len(v) \in Nat /\ Len(w) \in Nat /\ Len(X) \in Nat
  BY <1>t
<1>k. /\ e = a + Len(k) + 1 + Len(v) /\ e <= Len(X)
      /\ ReadAt(X, a, k)
      /\ X[a + Len(k) + 1] = NUL
      /\ ReadAt(X, a + Len(k) + 1, v)
      /\ e < Len(X) => X[e + 1] = RS
  BY <1>p, Zenon DEF LayoutAt
<1>l. /\ f = a + Len(l) + 1 + Len(w) /\ f <= Len(X)
      /\ ReadAt(X, a, l)
      /\ X[a + Len(l) + 1] = NUL
      /\ ReadAt(X, a + Len(l) + 1, w)
      /\ f < Len(X) => X[f + 1] = RS
  BY <1>p, Zenon DEF LayoutAt
<1>1. Len(k) = Len(l)
  <2>1. Len(k) >= Len(l)
    BY <1>k, <1>l, <1>t, <1>p, ReadOnce, Zenon
  <2>2. Len(l) >= Len(k)
    BY <1>k, <1>l, <1>t, <1>p, ReadOnce, Zenon
  <2> QED
    BY <1>0, <2>1, <2>2
<1>2. k = l
  BY <1>k, <1>l, <1>1, <1>t, SamePlace, Zenon
<1> DEFINE b == a + Len(k) + 1
<1>3. b \in Nat /\ e = b + Len(v) /\ f = b + Len(w)
  BY <1>t, <1>0, <1>k, <1>l, <1>1
<1>4. ReadAt(X, b, v) /\ ReadAt(X, b, w)
  BY <1>k, <1>l, <1>1, Zenon
<1> HIDE DEF b
<1>5. Len(v) < Len(w) => X[b + Len(v) + 1] = RS
  <2>1. Len(v) < Len(w) => e < Len(X) /\ b + Len(v) + 1 = e + 1
    BY <1>0, <1>3, <1>l
  <2> QED
    BY <2>1, <1>k, Zenon
<1>6. Len(w) < Len(v) => X[b + Len(w) + 1] = RS
  <2>1. Len(w) < Len(v) => f < Len(X) /\ b + Len(w) + 1 = f + 1
    BY <1>0, <1>3, <1>k
  <2> QED
    BY <2>1, <1>l, Zenon
<1>7. Len(v) = Len(w)
  <2>1. Len(v) >= Len(w)
    BY <1>3, <1>4, <1>5, <1>t, <1>p, ReadOnce, Zenon
  <2>2. Len(w) >= Len(v)
    BY <1>3, <1>4, <1>6, <1>t, <1>p, ReadOnce, Zenon
  <2> QED
    BY <1>0, <2>1, <2>2
<1>8. v = w
  BY <1>3, <1>4, <1>7, <1>t, SamePlace, Zenon
<1> QED
  BY <1>2, <1>3, <1>7, <1>8

\* s and t agree on their first i pairs, and these end at the same places.
Agree(s, t, E, D, i) ==
  /\ i <= Len(t) /\ E[i] = D[i]
  /\ \A j \in 1 .. i : s[j] = t[j]

\* Two layouts of one string have the same pairs, as far as the first one goes.
LEMMA LayoutsAgree ==
  ASSUME NEW s \in Seq(PlainKey \X PlainValue), NEW t \in Seq(PlainKey \X PlainValue),
         Len(s) > 0, Len(t) > 0,
         NEW X \in Seq(Byte), NEW E \in Layout(s, X), NEW D \in Layout(t, X)
  PROVE  Agree(s, t, E, D, Len(s))
<1> DEFINE P == {i \in Nat : i <= Len(s) => Agree(s, t, E, D, i)}
<1>0. Len(s) \in Nat /\ Len(t) \in Nat /\ 1 \in 1 .. Len(s) /\ 1 \in 1 .. Len(t)
  OBVIOUS
<1>1. 0 \in P
  <2>1. E[0] = 0 /\ D[0] = 0
    BY <1>0, LayoutFacts, Zenon
  <2>2. 0 <= Len(t) /\ \A j \in 1 .. 0 : s[j] = t[j]
    BY <1>0
  <2>3. Agree(s, t, E, D, 0)
    BY <2>1, <2>2, Zenon DEF Agree
  <2> QED
    BY <2>3
<1>2. ASSUME NEW i \in P PROVE i + 1 \in P
  <2>0. i \in Nat
    OBVIOUS
  <2> SUFFICES ASSUME i + 1 <= Len(s) PROVE Agree(s, t, E, D, i + 1)
    BY <2>0
  <2>1. i + 1 \in 1 .. Len(s) /\ i <= Len(s) /\ (i + 1) - 1 = i
    BY <1>0, <2>0
  <2>2. Agree(s, t, E, D, i)
    BY <2>1
  <2> HIDE DEF P
  <2>3. i <= Len(t) /\ E[i] = D[i] /\ \A j \in 1 .. i : s[j] = t[j]
    BY <2>2, Zenon DEF Agree
  <2>4. /\ LayoutAt(X, KeyStart(E, i + 1), s[i + 1][1], s[i + 1][2], E[i + 1])
        /\ KeyStart(E, i + 1) \in Nat /\ E[i + 1] \in Nat /\ E[i] \in Nat /\ E[i] < E[i + 1]
    <3>1. /\ LayoutAt(X, KeyStart(E, i + 1), s[i + 1][1], s[i + 1][2], E[i + 1])
          /\ KeyStart(E, i + 1) \in Nat /\ E[i + 1] \in Nat
          /\ E[(i + 1) - 1] \in Nat /\ E[(i + 1) - 1] < E[i + 1]
      BY <2>1, LayoutFacts, Zenon
    <3> QED
      BY <2>1, <3>1, Zenon
  <2>5. i + 1 \in 1 .. Len(t)
    <3>1. E[i + 1] <= Len(X) /\ Len(X) \in Nat
      <4>1. E[i + 1] <= Len(X)
        BY <2>4, Zenon DEF LayoutAt
      <4>2. Len(X) \in Nat
        OBVIOUS
      <4> QED
        BY <4>1, <4>2
    <3>2. D[Len(t)] = Len(X)
      BY <1>0, LayoutFacts, Zenon
    <3>3. i # Len(t)
      <4> SUFFICES ASSUME i = Len(t) PROVE FALSE
        OBVIOUS
      <4>1. E[i] = Len(X)
        BY <3>2, <2>3, Zenon
      <4> QED
        BY <4>1, <3>1, <2>4
    <3> QED
      BY <3>3, <2>3, <2>0, <1>0
  <2>6. /\ LayoutAt(X, KeyStart(D, i + 1), t[i + 1][1], t[i + 1][2], D[i + 1])
        /\ D[i + 1] \in Nat
    BY <2>5, LayoutFacts, Zenon
  <2>7. KeyStart(E, i + 1) = KeyStart(D, i + 1)
    BY <2>1, <2>3 DEF KeyStart
  <2>8. /\ s[i + 1] = <<s[i + 1][1], s[i + 1][2]>>
        /\ s[i + 1][1] \in Seq(Byte) /\ s[i + 1][2] \in Seq(Byte)
        /\ Free(s[i + 1][1], NUL) /\ Free(s[i + 1][2], RS)
    BY <2>1, PairFacts, Zenon
  <2>9. /\ t[i + 1] = <<t[i + 1][1], t[i + 1][2]>>
        /\ t[i + 1][1] \in Seq(Byte) /\ t[i + 1][2] \in Seq(Byte)
        /\ Free(t[i + 1][1], NUL) /\ Free(t[i + 1][2], RS)
    BY <2>5, PairFacts, Zenon
  <2>10. s[i + 1][1] = t[i + 1][1] /\ s[i + 1][2] = t[i + 1][2] /\ E[i + 1] = D[i + 1]
    <3>1. PlainAt(X, KeyStart(E, i + 1), s[i + 1][1], s[i + 1][2], E[i + 1])
      BY <2>4, <2>8, Zenon DEF PlainAt
    <3>2. PlainAt(X, KeyStart(E, i + 1), t[i + 1][1], t[i + 1][2], D[i + 1])
      BY <2>4, <2>6, <2>7, <2>9, Zenon DEF PlainAt
    <3> QED
      BY <3>1, <3>2, PairAtPlace
  <2>11. s[i + 1] = t[i + 1]
    BY <2>8, <2>9, <2>10, Zenon
  <2>12. \A j \in 1 .. i + 1 : j \in 1 .. i \/ j = i + 1
    BY <2>0
  <2>13. i + 1 <= Len(t)
    BY <2>5, <1>0
  <2> QED
    BY <2>3, <2>10, <2>11, <2>12, <2>13, Zenon DEF Agree
<1>3. P = Nat
  <2>1. P \in SUBSET Nat
    OBVIOUS
  <2> HIDE DEF P
  <2> QED
    BY <1>1, <1>2, <2>1, SetInduction
<1>4. Len(s) \in P /\ Len(s) <= Len(s)
  <2> HIDE DEF P
  <2> QED
    BY <1>0, <1>3
<1> QED
  BY <1>4, Zenon

\* The string has at least the NUL of its last pair.
LEMMA JoinNonEmpty ==
  ASSUME NEW s \in Seq(PlainKey \X PlainValue), Len(s) > 0
  PROVE  Join(s) \in Seq(Byte) \ {<<>>}
<1>1. Join(s) \in Seq(Byte) /\ Layout(s, Join(s)) # {}
  BY JoinLayout, Zenon
<1>2. PICK E \in Layout(s, Join(s)) : TRUE
  BY <1>1
<1>3. Len(s) \in 1 .. Len(s)
  OBVIOUS
<1>4. /\ E[Len(s)] \in Nat /\ E[Len(s) - 1] \in Nat /\ E[Len(s) - 1] < E[Len(s)]
      /\ E[Len(s)] = Len(Join(s))
  BY <1>1, <1>3, LayoutFacts, Zenon
<1>5. Len(Join(s)) > 0
  BY <1>4
<1>6. Join(s) # <<>>
  BY <1>5
<1> QED
  BY <1>1, <1>6

\* Pairs that are joined to one string are the same pairs in the same order:
\* a key ends at the first NUL, a value at the first RS or at the end.
LEMMA JoinInjective ==
  ASSUME NEW s \in Seq(PlainKey \X PlainValue), NEW t \in Seq(PlainKey \X PlainValue),
         Len(s) > 0, Len(t) > 0, Join(s) = Join(t)
  PROVE  s = t
<1>1. Join(s) \in Seq(Byte) /\ Layout(s, Join(s)) # {} /\ Layout(t, Join(s)) # {}
  BY JoinLayout, Zenon
<1>2. PICK E \in Layout(s, Join(s)) : TRUE
  BY <1>1
<1>3. PICK D \in Layout(t, Join(s)) : TRUE
  BY <1>1
<1>4. Agree(s, t, E, D, Len(s)) /\ Agree(t, s, D, E, Len(t))
  BY <1>1, LayoutsAgree, Zenon
<1>5. Len(s) <= Len(t) /\ Len(t) <= Len(s) /\ \A j \in 1 .. Len(s) : s[j] = t[j]
  BY <1>4, Zenon DEF Agree
<1>6. Len(s) = Len(t)
  BY <1>5
<1> QED
  BY <1>5, <1>6, SeqEqual, Zenon

\* The key of a bucket (BucketKeyFromProto) is canonical: two maps get the same
\* key exactly when they have the same pairs, in whatever order Go iterates over
\* them, as long as keys have no NUL and values no RS.
THEOREM BucketKeyCanonical ==
  ASSUME NEW id \in PlainBucketId, NEW jd \in PlainBucketId
  PROVE  /\ BucketKeyFromProto(id) \in Seq(Byte) \ {<<>>}
         /\ BucketKeyFromProto(id) = BucketKeyFromProto(jd) <=> Range(id) = Range(jd)
<1>1. /\ Sorted(id) \in Seq(PlainKey \X PlainValue) /\ Len(Sorted(id)) > 0
      /\ Sorted(jd) \in Seq(PlainKey \X PlainValue) /\ Len(Sorted(jd)) > 0
  BY SortedFacts, PlainIdFacts, Zenon
<1>2. Sorted(id) = Sorted(jd) <=> Range(id) = Range(jd)
  BY SortedCanonical, Zenon
<1>3. Join(Sorted(id)) \in Seq(Byte) \ {<<>>}
  BY <1>1, JoinNonEmpty, Zenon
<1>4. Join(Sorted(id)) = Join(Sorted(jd)) => Sorted(id) = Sorted(jd)
  BY <1>1, JoinInjective, Zenon
<1> QED
  BY <1>2, <1>3, <1>4, Zenon DEF BucketKeyFromProto

=============================================================================
