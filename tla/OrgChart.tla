------------------------------ MODULE OrgChart ------------------------------
(***************************************************************************)
(* The organisation tree as its readers see it through getNode: accounts   *)
(* with a kind, a parent and an active flag.  This is what OrgRegistry     *)
(* promises (and is shown to implement), and what the router composes      *)
(* with: no child lists, no question of who may change the tree.           *)
(***************************************************************************)
EXTENDS Naturals, FiniteSets

CONSTANTS Account,   \* the addresses that can be nodes, Root among them
          Root,      \* the humanRoot the registry was constructed with
          Zero,      \* address(0)
          Kind       \* the NodeKinds in use

ASSUME RootAssumption == Root \in Account
ASSUME ZeroAssumption == Zero \notin Account
ASSUME KindAssumption == "HumanRoot" \in Kind /\ "None" \notin Kind

VARIABLE node   \* the struct of each account; kind NoKind if there is none

NoKind   == "None"
Address  == Account \cup {Zero}
Absent   == [kind |-> NoKind, parent |-> Zero, active |-> FALSE]
RootNode == [kind |-> "HumanRoot", parent |-> Zero, active |-> TRUE]
NodeType == [kind : Kind \cup {NoKind}, parent : Address, active : BOOLEAN]

Nodes     == {a \in Account : node[a].kind # NoKind}
Exists(a) == a \in Nodes
Parent(a) == node[a].parent

\* The walk of _isAncestor from n to the root visits the least set of
\* addresses that holds n and is closed under parent.
Above(n) == {a \in Address : \A S \in SUBSET Address :
               (n \in S /\ \A m \in S \cap Account : Parent(m) \in S) => a \in S}

\* A check of one level only would let a manager move under its own subtree.
IsParent(a, n)   == a # Zero /\ n \in Account /\ a \in {n, Parent(n)}
IsAncestor(a, n) == a # Zero /\ a \in Above(n)

ChartInit == node = [a \in Account |-> IF a = Root THEN RootNode ELSE Absent]

Hire(a, kind, parent) ==
  /\ a \in Account /\ ~Exists(a)
  /\ Exists(parent)
  /\ node' = [node EXCEPT ![a] = [kind |-> kind, parent |-> parent, active |-> TRUE]]

Toggle(a, active) ==
  /\ Exists(a) /\ a # Root
  /\ node' = [node EXCEPT ![a].active = active]

\* The reports of a fired node go to its own parent.
Fire(a) ==
  /\ Exists(a) /\ a # Root
  /\ node' = [b \in Account |->
                IF b = a THEN Absent
                ELSE IF Exists(b) /\ Parent(b) = a
                     THEN [node[b] EXCEPT !.parent = Parent(a)]
                     ELSE node[b]]

Move(a, parent) ==
  /\ Exists(a) /\ a # Root
  /\ Exists(parent) /\ ~IsAncestor(a, parent)
  /\ node' = [node EXCEPT ![a].parent = parent]

ChartNext ==
  \E a \in Account :
    \/ \E k \in Kind, p \in Account : Hire(a, k, p)
    \/ \E b \in BOOLEAN : Toggle(a, b)
    \/ Fire(a)
    \/ \E p \in Account : Move(a, p)

ChartSpec == ChartInit /\ [][ChartNext]_node

\* The tree has no cycle and no island: no non-empty set of non-root nodes is
\* closed under parent, so every walk upwards (_isAncestor, an escalation)
\* ends at the root.  Removal rewires and a move takes whole subtrees.
RootedTree ==
  /\ node[Root] = RootNode
  /\ \A a \in Nodes \ {Root} : Parent(a) \in Nodes
  /\ \A S \in SUBSET (Nodes \ {Root}) :
       S # {} => \E a \in S : Parent(a) \notin S
=============================================================================
