---------------------------- MODULE MCRlqsServer ----------------------------
(* Instances of RlqsServer for TLC.                                        *)
EXTENDS RlqsServer, TLC

CONSTANTS s1, s2, d1, d2, b1, b2, b3

\* Messages without usages, with a skipped and with an invalid usage, with the
\* domain left out, with another domain, with more than two reports, and such
\* that reach the limit of two buckets in their first or second usage.
MCMessages ==
  { [domain |-> d1, usages |-> <<>>],
    [domain |-> d1, usages |-> <<b1, b2>>],
    [domain |-> NoDomain, usages |-> <<NoBucket, b3>>],
    [domain |-> d2, usages |-> <<b1, BadBucket>>],
    [domain |-> d1, usages |-> <<b1, b1, b2>>] }

\* The smallest messages: one bucket.
OneBucketMessages == { [domain |-> d1, usages |-> <<b1>>] }

\* Streams are interchangeable.
StreamSymmetry == Permutations(Streams)

=============================================================================
