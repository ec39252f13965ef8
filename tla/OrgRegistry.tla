---------------------------- MODULE OrgRegistry ----------------------------
(***************************************************************************)
(* The organisation tree (contracts/src/OrgRegistry.sol): who reports to   *)
(* whom, and which single address may change it.                           *)
(*                                                                         *)
(* The struct _nodes[a] is the record node[a]; a record whose kind is      *)
(* NoKind is a deleted or never written struct (account field zero).       *)
(* children[a] is the dynamic array _children[a].  Zero is address(0):     *)
(* no operation refuses it as a new node's account, so it is an input; its *)
(* own slot _nodes[0] keeps a zero account field and is never read.        *)
(***************************************************************************)
EXTENDS OrgChart, Sequences

CONSTANTS Outsider,   \* addresses that are never nodes (governance contracts)
          MaxZeros    \* model bound on the entries address(0) in all lists

ASSUME OutsiderAssumption == Outsider \cap (Account \cup {Zero}) = {}
ASSUME MaxZerosAssumption == MaxZeros \in Nat

VARIABLES children,   \* _children
          governor    \* governor, Zero until bound

vars   == <<node, children, governor>>
Caller == Account \cup Outsider

\* The list surgery gone wrong: not removing at all.
RemoveNothing(list, child) == list

\* _removeFromParent: overwrite the first occurrence by the last, then pop.
RemoveChild(list, child) ==
  LET at == {i \in DOMAIN list : list[i] = child}
      n  == Len(list)
  IN  IF at = {} THEN list
      ELSE LET first == CHOOSE i \in at : \A j \in at : i <= j
           IN  [i \in 1..(n - 1) |-> IF i = first THEN list[n] ELSE list[i]]

Authorized(caller) == caller = IF governor # Zero THEN governor ELSE Root

Init ==
  /\ ChartInit
  /\ children = [a \in Account |-> <<>>]
  /\ governor = Zero

SetGovernor(caller, g) ==
  /\ Authorized(caller)
  /\ governor' = g
  /\ UNCHANGED <<node, children>>

Zeros == {e \in UNION {{p} \X DOMAIN children[p] : p \in Account} :
            children[e[1]][e[2]] = Zero}

\* Adding Zero writes a struct that still counts as missing (its account
\* field is zero) and pushes Zero on the parent's list.
AddNode(caller, account, kind, parent) ==
  /\ Authorized(caller)
  /\ ~Exists(account)
  /\ Exists(parent)
  /\ account = Zero => Cardinality(Zeros) < MaxZeros
  /\ node' = IF account = Zero THEN node
             ELSE [node EXCEPT ![account] =
                     [kind |-> kind, parent |-> parent, active |-> TRUE]]
  /\ children' = [children EXCEPT ![parent] = Append(@, account)]
  /\ UNCHANGED governor

SetActive(caller, account, active) ==
  /\ Authorized(caller)
  /\ Exists(account)
  /\ account # Root
  /\ node' = [node EXCEPT ![account].active = active]
  /\ UNCHANGED <<children, governor>>

\* The children the loop of removeNode rewires, and a loop that ends too early.
FirstReport(account) ==
  IF children[account] = <<>> THEN {} ELSE {children[account][1]}
Reports(account) == {children[account][i] : i \in DOMAIN children[account]}

\* Every listed child is rewired and pushed on the parent's list before the
\* node itself leaves that list.
RemoveNode(caller, account) ==
  /\ Authorized(caller)
  /\ Exists(account)
  /\ account # Root
  /\ LET parent == Parent(account)
     IN  /\ node' = [a \in Account |->
                       IF a = account THEN Absent
                       ELSE IF a \in Reports(account) THEN [node[a] EXCEPT !.parent = parent]
                       ELSE node[a]]
         /\ children' = [children EXCEPT
              ![parent]  = RemoveChild(@ \o children[account], account),
              ![account] = <<>>]
  /\ UNCHANGED governor

Reparent(caller, account, newParent) ==
  /\ Authorized(caller)
  /\ Exists(account)
  /\ account # Root
  /\ Exists(newParent)
  /\ newParent # account
  /\ ~IsAncestor(account, newParent)
  /\ Parent(account) # newParent        \* the same parent is an early return
  /\ node' = [node EXCEPT ![account].parent = newParent]
  /\ children' = [children EXCEPT
       ![Parent(account)] = RemoveChild(@, account),
       ![newParent]       = Append(@, account)]
  /\ UNCHANGED governor

Next ==
  \E caller \in Caller :
    \/ \E g \in Caller : SetGovernor(caller, g)
    \/ \E a \in Address, k \in Kind, p \in Account : AddNode(caller, a, k, p)
    \/ \E a \in Account, b \in BOOLEAN : SetActive(caller, a, b)
    \/ \E a \in Account : RemoveNode(caller, a)
    \/ \E a, p \in Account : Reparent(caller, a, p)

Spec == Init /\ [][Next]_vars

-----------------------------------------------------------------------------
\* Types of the three state variables.
TypeOK ==
  /\ node \in [Account -> NodeType]
  /\ children \in [Account -> Seq(Address)]
  /\ governor \in Caller \cup {Zero}

\* The two representations of the tree agree: a node is listed once, under
\* its parent and nowhere else, and a missing node lists nobody.  getChildren
\* and the rewiring of removeNode read the lists, everything else the structs.
ChildrenMatchParents ==
  /\ \A p, a \in Account :
       (\E i \in DOMAIN children[p] : children[p][i] = a)
         <=> (a \in Nodes \ {Root} /\ Parent(a) = p)
  /\ \A p \in Account : \A i, j \in DOMAIN children[p] :
       (children[p][i] = children[p][j] /\ children[p][i] # Zero) => i = j

\* Firing a node keeps everybody else's chain of command: each remaining node
\* answers to exactly its former ancestors without the one removed.
FiringKeepsChains ==
  [][\A gone \in Nodes \ Nodes' :
       \A a \in Nodes' : Above(a)' = Above(a) \ {gone}]_vars

\* A move takes the whole subtree along and nothing else: the descendants of
\* the moved node stay its descendants, and the node gains as ancestors only
\* its new parent and that parent's own.
MovingKeepsSubtree ==
  [][\A a \in Nodes \cap Nodes' : Parent(a)' # Parent(a) /\ Nodes' = Nodes =>
       /\ {b \in Nodes : IsAncestor(a, b)} = {b \in Nodes' : IsAncestor(a, b)'}
       /\ Above(a)' = {a} \cup Above(Parent(a)')]_vars

\* Whatever the lists go through, readers of the structs see the abstract
\* tree of module OrgChart: above all, firing a node through its list of
\* children rewires exactly the nodes whose parent it was.
ImplementsChart == ChartSpec
=============================================================================
