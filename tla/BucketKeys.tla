----------------------------- MODULE BucketKeys -----------------------------
(***************************************************************************)
(* The keys under which bucket state is stored (internal/storage) and the  *)
(* filter of /debug/buckets that takes them apart again.                   *)
(*                                                                         *)
(* A string is the sequence of its bytes.  A BucketId is the sequence of   *)
(* its <<key, value>> pairs in the order in which the map is iterated,     *)
(* which Go leaves open.                                                   *)
(***************************************************************************)
EXTENDS Integers, Sequences, Functions

Byte == 0 .. 255

NUL == 0    \* between a key and its value
RS  == 30   \* between pairs
US  == 31   \* between the domain and the bucket key

\* The strings for which the encoding is unambiguous: the code takes it that the
\* separators do not occur in real data.
PlainDomain == {d \in Seq(Byte) : d # <<>> /\ \A i \in 1 .. Len(d) : d[i] # US}
PlainKey    == {k \in Seq(Byte) : \A i \in 1 .. Len(k) : k[i] # NUL}
PlainValue  == {v \in Seq(Byte) : \A i \in 1 .. Len(v) : v[i] # RS}

\* A non-empty map with such keys and values, in some order.
PlainBucketId ==
  {id \in Seq(PlainKey \X PlainValue) :
     id # <<>> /\ \A i, j \in 1 .. Len(id) : id[i][1] = id[j][1] => i = j}

\* The order of sort.Strings.
Before(s, t) ==
  \E i \in 1 .. Len(t) :
    /\ i <= Len(s) + 1
    /\ \A j \in 1 .. i - 1 : s[j] = t[j]
    /\ i > Len(s) \/ s[i] < t[i]

\* sort.Strings on the keys, which are distinct.
Sorted(id) ==
  LET n == Len(id)
      p == CHOOSE q \in Bijection(1 .. n, 1 .. n) :
             \A i, j \in 1 .. n : i < j => Before(id[q[i]][1], id[q[j]][1])
  IN  [i \in 1 .. n |-> id[p[i]]]

\* What was written, one sequence after the other.
Concat(seqs) ==
  LET upTo[n \in 0 .. Len(seqs)] == IF n = 0 THEN <<>> ELSE upTo[n - 1] \o seqs[n]
  IN  upTo[Len(seqs)]

Join(id) ==
  Concat([i \in 1 .. Len(id) |->
    (IF i > 1 THEN <<RS>> ELSE <<>>) \o id[i][1] \o <<NUL>> \o id[i][2]])

\* Mutant of BucketKeyFromProto: pairs in the order of the map.
BucketKeyFromProtoUnsorted(id) == Join(id)

BucketKeyFromProto(id) == Join(Sorted(id))

DomainScopedKey(domain, key) == IF domain = <<>> THEN key ELSE domain \o <<US>> \o key

\* Mutant of DebugBuckets: the prefix is the bare domain.
DebugBucketsBare(all, domain) ==
  LET n == Len(domain)
  IN  {SubSeq(k, n + 1, Len(k)) : k \in {x \in all : Len(x) > n /\ SubSeq(x, 1, n) = domain}}

\* handleDebugBuckets: the keys it lists out of the keys in the store.
DebugBuckets(all, domain) ==
  LET prefix == IF domain = <<>> THEN <<>> ELSE domain \o <<US>>
      n == Len(prefix)
  IN  {SubSeq(k, n + 1, Len(k)) :
         k \in {x \in all : domain = <<>> \/ (Len(x) > n /\ SubSeq(x, 1, n) = prefix)}}

=============================================================================
