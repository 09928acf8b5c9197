------------------------------ MODULE MCDiscovery ------------------------------
(***************************************************************************)
(* Instances of Discovery.  Alone: one daemon whose configuration changes  *)
(* entities and device between restarts, so that a manifest may be too     *)
(* large with the stale topics and fit without them.  Shared: two daemons  *)
(* of different clients on one state file.                                 *)
(***************************************************************************)
EXTENDS Discovery

CONSTANTS d1, d2, c1, c2, v1, v2, v3, e1, e2, e3

\* A manifest with every entity of a device.
Full(c, v, es) == [owner |-> c, device |-> v, topics |-> {v} \X es]

Cfg(c, v, es) == [client |-> c, device |-> v, entities |-> es]

AloneConfigs ==
    [d \in {d1} |-> {Cfg(c1, v1, {e1}), Cfg(c1, v1, {e2}), Cfg(c1, v1, {e2, e3}),
                     Cfg(c1, v2, {e1}), Cfg(c1, v1, {})}]

AloneExisting == {Full(c1, v1, {e1, e2}), Full(c2, v1, {e1})}

SharedConfigs ==
    [d \in {d1, d2} |-> IF d = d1 THEN {Cfg(c1, v1, {e1}), Cfg(c1, v2, {e1})}
                                  ELSE {Cfg(c2, v3, {e1})}]

SharedExisting == {Full(c2, v3, {e1})}
=============================================================================
