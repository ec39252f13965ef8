---------------------------- MODULE MCAgentKeys -----------------------------
(***************************************************************************)
(* An instance of AgentKeys for TLC.  What the operator leaves standing is *)
(* explored by itself first, with every command and more writes under way. *)
(***************************************************************************)
EXTENDS AgentKeys, TLC

VARIABLE side

Init == KeysInit /\ side \in {"controls", "keys"}

Next ==
  /\ \/ side = "controls" /\ ControlsNext /\ UNCHANGED keysVars
     \/ side = "keys"     /\ KeysMove
  /\ UNCHANGED side

Spec == Init /\ [][Next]_<<side, controlsVars, keysVars>>

\* Where the keys move, two commands are written, one at a time, and their
\* writes are not lost.
FewWrites ==
  side = "keys" =>
    issued <= 2 /\ Cardinality(writes) <= 1 /\ (writes = {} => stored.number = issued)

\* Callers are alike.
Symmetric == Permutations(Operation)
=============================================================================
