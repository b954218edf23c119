---------------------------- MODULE MCHotReload ----------------------------
(* Small instances of HotReload for TLC. *)
EXTENDS HotReload

CONSTANTS r1, r2, e1, e2, withPolicies, bad

Config(e, srv) == [engine |-> e, server |-> srv, storage |-> 0, tracing |-> 0]

Start == Config(e1, 0)

\* A restart change, then an engine change on top of it, an engine of another
\* type, and a rejected engine.
AllConfigs ==
  {Start, Config(e1, 1), Config(e2, 1), Config(withPolicies, 0), Config(bad, 0)}

OneReload  == {r1}
TwoReloads == {r1, r2}
=============================================================================
