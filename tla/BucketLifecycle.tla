--------------------------- MODULE BucketLifecycle ---------------------------
(***************************************************************************)
(* What RLQSServer promises about the state of a bucket, without the       *)
(* streams' protocol: streams acquire and release references, usage is     *)
(* recorded only under a reference, and the stream that releases the last  *)
(* reference later removes the state.  The removal is a step of its own:   *)
(* the code calls the store after it has released the lock.                *)
(***************************************************************************)
CONSTANTS Streams, Keys

VARIABLES
  holders,   \* key -> streams that own a reference
  removers,  \* key -> streams that released the last one and have yet to remove
  state      \* keys the store has state for

lifecycleVars == <<holders, removers, state>>

LifecycleInit ==
  /\ holders = [k \in Keys |-> {}]
  /\ removers = [k \in Keys |-> {}]
  /\ state = {}

Acquire(s, k) ==
  /\ s \notin holders[k]
  /\ holders' = [holders EXCEPT ![k] = @ \cup {s}]
  /\ UNCHANGED <<removers, state>>

Record(s, k) ==
  /\ s \in holders[k]
  /\ state' = state \cup {k}
  /\ UNCHANGED <<holders, removers>>

\* Mutant of Release: nobody removes the state after the last release.
ReleaseOnly(s, k) ==
  /\ s \in holders[k]
  /\ holders' = [holders EXCEPT ![k] = @ \ {s}]
  /\ UNCHANGED <<removers, state>>

Release(s, k) ==
  /\ s \in holders[k]
  /\ holders' = [holders EXCEPT ![k] = @ \ {s}]
  /\ \/ /\ holders[k] = {s}
        /\ removers' = [removers EXCEPT ![k] = @ \cup {s}]
     \/ /\ holders[k] # {s}
        /\ UNCHANGED removers
  /\ UNCHANGED state

Remove(s, k) ==
  /\ s \in removers[k]
  /\ removers' = [removers EXCEPT ![k] = @ \ {s}]
  /\ state' = state \ {k}
  /\ UNCHANGED holders

LifecycleNext ==
  \E s \in Streams, k \in Keys :
    Acquire(s, k) \/ Record(s, k) \/ Release(s, k) \/ Remove(s, k)

LifecycleSpec == LifecycleInit /\ [][LifecycleNext]_lifecycleVars

=============================================================================
