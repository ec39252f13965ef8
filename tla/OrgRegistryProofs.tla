------------------------- MODULE OrgRegistryProofs -------------------------
(***************************************************************************)
(* Theorems about the organisation tree, for any set of accounts.  First   *)
(* the abstract chart: its steps keep the tree rooted.  Then the registry: *)
(* its lists keep matching the parents, hence it implements the chart, and *)
(* inherits its rootedness.  Last, what a firing and a move do to chains   *)
(* of command, which are least closed sets.                                *)
(***************************************************************************)
EXTENDS OrgRegistry, SequenceTheorems, TLAPS

ChartInv == node \in [Account -> NodeType] /\ RootedTree

\* No node is its own parent.
LEMMA NotOwnParent ==
  ASSUME ChartInv, NEW a \in Nodes \ {Root}
  PROVE  Parent(a) \in Nodes /\ Parent(a) # a
<1>1. Parent(a) \in Nodes
  BY DEF ChartInv, RootedTree
<1>2. {a} \in SUBSET (Nodes \ {Root}) /\ {a} # {}
  OBVIOUS
<1>3. \E b \in {a} : Parent(b) \notin {a}
  BY <1>2 DEF ChartInv, RootedTree
<1> QED
  BY <1>1, <1>3

\* Hiring hangs a new leaf under an existing node: a closed set that held the
\* leaf would be closed without it.
LEMMA HireKeepsRooted ==
  ASSUME ChartInv, NEW a, NEW k \in Kind, NEW p \in Account, Hire(a, k, p)
  PROVE  ChartInv'
<1> USE RootAssumption, ZeroAssumption, KindAssumption DEF ChartInv
<1>1. /\ a \in Account \ Nodes /\ p \in Nodes
      /\ node' = [node EXCEPT ![a] = [kind |-> k, parent |-> p, active |-> TRUE]]
  BY DEF Hire, Exists
<1>2. node' \in [Account -> NodeType]
  BY <1>1 DEF NodeType, Address
<1>3. Root \in Nodes
  BY DEF RootedTree, Nodes, RootNode, NoKind
<1>4. Nodes' = Nodes \cup {a}
  BY <1>1 DEF Nodes, NoKind, NodeType
<1>5. \A b \in Nodes : b # a /\ node'[b] = node[b]
  BY <1>1 DEF Nodes
<1>6. \A b \in Nodes \ {Root} : Parent(b) \in Nodes
  BY DEF RootedTree
<1>7. ASSUME NEW S \in SUBSET (Nodes' \ {Root}), S # {},
             \A b \in S : Parent(b)' \in S
      PROVE  FALSE
  <2>1. \A b \in S \ {a} : b \in Nodes \ {Root} /\ Parent(b) = Parent(b)' /\ Parent(b) # a
    BY <1>1, <1>4, <1>5, <1>6, <1>7 DEF Parent
  <2>2. a \in S => p \in S \ {a}
    BY <1>1, <1>7, <1>5 DEF Parent, NodeType
  <2>3. S \ {a} # {} /\ S \ {a} \in SUBSET (Nodes \ {Root})
    BY <2>1, <2>2, <1>7
  <2>4. \A b \in S \ {a} : Parent(b) \in S \ {a}
    BY <2>1, <1>7
  <2> QED
    BY <2>3, <2>4 DEF RootedTree
<1>8. \A b \in Nodes' \ {Root} : Parent(b)' \in Nodes'
  BY <1>1, <1>4, <1>5, <1>6 DEF Parent, NodeType
<1>9. node'[Root] = RootNode
  BY <1>3, <1>5 DEF RootedTree
<1> QED
  BY <1>2, <1>7, <1>8, <1>9 DEF RootedTree

LEMMA ToggleKeepsRooted ==
  ASSUME ChartInv, NEW a, NEW b \in BOOLEAN, Toggle(a, b)
  PROVE  ChartInv'
<1> USE RootAssumption DEF ChartInv
<1>1. a \in Account /\ a # Root /\ node' = [node EXCEPT ![a].active = b]
  BY DEF Toggle, Exists, Nodes
<1>2. node' \in [Account -> NodeType]
  BY <1>1 DEF NodeType
<1>3. \A c \in Account : node'[c].kind = node[c].kind /\ node'[c].parent = node[c].parent
  BY <1>1 DEF NodeType
<1>4. Nodes' = Nodes /\ \A c \in Nodes : Parent(c)' = Parent(c)
  BY <1>3 DEF Nodes, Parent
<1>5. node'[Root] = RootNode
  BY <1>1 DEF RootedTree
<1>6. \A S \in SUBSET (Nodes' \ {Root}) :
        S # {} => \E c \in S : Parent(c)' \notin S
  BY <1>4 DEF RootedTree
<1>7. \A c \in Nodes' \ {Root} : Parent(c)' \in Nodes'
  BY <1>4 DEF RootedTree
<1> QED
  BY <1>2, <1>5, <1>6, <1>7 DEF RootedTree

\* A set closed after the removal was closed before it, with the removed node
\* put back when its parent is in the set.
LEMMA FireKeepsRooted ==
  ASSUME ChartInv, NEW a, Fire(a)
  PROVE  ChartInv'
<1> USE RootAssumption, ZeroAssumption DEF ChartInv
<1>1. a \in Nodes \ {Root} /\ a \in Account
  BY DEF Fire, Exists, Nodes
<1>2. Parent(a) \in Nodes /\ Parent(a) # a /\ Parent(a) \in Account
  BY <1>1, NotOwnParent DEF Nodes
<1>3. node' = [b \in Account |-> IF b = a THEN Absent
                                 ELSE IF b \in Nodes /\ Parent(b) = a
                                      THEN [node[b] EXCEPT !.parent = Parent(a)]
                                      ELSE node[b]]
  BY DEF Fire, Exists
<1>4. node' \in [Account -> NodeType]
  BY <1>2, <1>3 DEF NodeType, Address, Absent, NoKind
<1>5. Nodes' = Nodes \ {a}
  BY <1>3 DEF Nodes, Absent, NodeType
<1>6. \A b \in Nodes \ {a} :
        Parent(b)' = IF Parent(b) = a THEN Parent(a) ELSE Parent(b)
  BY <1>3 DEF Nodes, Parent, NodeType
<1>7. \A b \in Nodes \ {Root} : Parent(b) \in Nodes
  BY DEF RootedTree
<1>8. ASSUME NEW S \in SUBSET (Nodes' \ {Root}), S # {},
             \A b \in S : Parent(b)' \in S
      PROVE  FALSE
  <2>1. CASE Parent(a) \in S
    <3>1. S \cup {a} \in SUBSET (Nodes \ {Root}) /\ S \cup {a} # {}
      BY <1>1, <1>5, <1>8
    <3>2. \A b \in S \cup {a} : Parent(b) \in S \cup {a}
      BY <1>5, <1>6, <1>8, <2>1
    <3> QED
      BY <3>1, <3>2 DEF RootedTree
  <2>2. CASE Parent(a) \notin S
    <3>1. S \in SUBSET (Nodes \ {Root})
      BY <1>5, <1>8
    <3>2. \A b \in S : Parent(b) \in S
      BY <1>5, <1>6, <1>8, <2>2
    <3> QED
      BY <3>1, <3>2, <1>8 DEF RootedTree
  <2> QED
    BY <2>1, <2>2
<1>9. \A b \in Nodes' \ {Root} : Parent(b)' \in Nodes'
  BY <1>2, <1>5, <1>6, <1>7
<1>10. node'[Root] = RootNode
  <2>1. node[Root] = RootNode /\ Parent(Root) = Zero /\ Zero # a
    BY <1>1 DEF RootedTree, RootNode, Parent
  <2>2. node'[Root] = node[Root]
    BY <1>1, <1>3, <2>1
  <2> QED
    BY <2>1, <2>2
<1> QED
  BY <1>4, <1>8, <1>9, <1>10 DEF RootedTree

\* A cycle made by the move would pass through the new parent; the walk from
\* the new parent to the root would meet the moved node, which was refused.
LEMMA MoveKeepsRooted ==
  ASSUME ChartInv, NEW a, NEW p \in Account, Move(a, p)
  PROVE  ChartInv'
<1> USE RootAssumption, ZeroAssumption DEF ChartInv
<1>1. /\ a \in Nodes \ {Root} /\ a \in Account /\ a # Zero
      /\ p \in Nodes
      /\ node' = [node EXCEPT ![a].parent = p]
  BY DEF Move, Exists, Nodes
<1>2. PICK T \in SUBSET Address :
        p \in T /\ a \notin T /\ \A m \in T \cap Account : Parent(m) \in T
  BY <1>1 DEF Move, IsAncestor, Above, Address
<1>3. node' \in [Account -> NodeType]
  BY <1>1 DEF NodeType, Address
<1>4. /\ Nodes' = Nodes
      /\ Parent(a)' = p
      /\ \A b \in Account \ {a} : Parent(b)' = Parent(b)
  BY <1>1 DEF Nodes, Parent, NodeType
<1>5. ASSUME NEW S \in SUBSET (Nodes' \ {Root}), S # {},
             \A b \in S : Parent(b)' \in S
      PROVE  FALSE
  <2>1. CASE a \in S
    <3>1. S \cap T \in SUBSET (Nodes \ {Root}) /\ p \in S \cap T
      BY <1>2, <1>4, <1>5, <2>1
    <3>2. \A b \in S \cap T : Parent(b) \in S \cap T
      BY <1>2, <1>4, <1>5 DEF Nodes
    <3> QED
      BY <3>1, <3>2 DEF RootedTree
  <2>2. CASE a \notin S
    <3>1. S \in SUBSET (Nodes \ {Root})
      BY <1>4
    <3>2. \A b \in S : Parent(b) \in S
      BY <1>4, <1>5, <2>2 DEF Nodes
    <3> QED
      BY <3>1, <3>2, <1>5 DEF RootedTree
  <2> QED
    BY <2>1, <2>2
<1>6. \A b \in Nodes' \ {Root} : Parent(b)' \in Nodes'
  BY <1>1, <1>4 DEF RootedTree, Nodes
<1>7. node'[Root] = RootNode
  BY <1>1 DEF RootedTree
<1> QED
  BY <1>3, <1>5, <1>6, <1>7 DEF RootedTree

LEMMA ChartStep ==
  ASSUME ChartInv, [ChartNext]_node
  PROVE  ChartInv'
<1>1. CASE UNCHANGED node
  BY <1>1 DEF ChartInv, RootedTree, Nodes, Parent
<1>2. CASE ChartNext
  BY <1>2, HireKeepsRooted, ToggleKeepsRooted, FireKeepsRooted, MoveKeepsRooted
  DEF ChartNext
<1> QED
  BY <1>1, <1>2

LEMMA ChartStart ==
  ASSUME ChartInit
  PROVE  ChartInv
<1> USE RootAssumption, ZeroAssumption, KindAssumption
<1>1. Nodes = {Root}
  BY DEF ChartInit, Nodes, RootNode, Absent, NoKind
<1>2. node \in [Account -> NodeType]
  BY DEF ChartInit, NodeType, RootNode, Absent, Address
<1> QED
  BY <1>1, <1>2 DEF ChartInv, RootedTree, ChartInit

\* The organisation is a tree under its root after any hires, firings, moves
\* and toggles: _isAncestor and every escalation upwards terminate.
THEOREM ChartIsRooted == ChartSpec => []RootedTree
<1>1. ChartInv => RootedTree
  BY DEF ChartInv
<1> QED
  BY <1>1, ChartStart, ChartStep, PTL DEF ChartSpec

-----------------------------------------------------------------------------
(* The lists.  Distinct: no node is listed twice (Zero may be). *)
Listed(list)   == {list[i] : i \in DOMAIN list}
Distinct(list) == \A i, j \in DOMAIN list :
                    (list[i] = list[j] /\ list[i] # Zero) => i = j

\* Swap-and-pop removes the child and nothing else, whatever the order.
LEMMA RemoveChildRemoves ==
  ASSUME NEW list \in Seq(Address), Distinct(list), NEW child \in Account
  PROVE  /\ RemoveChild(list, child) \in Seq(Address)
         /\ Distinct(RemoveChild(list, child))
         /\ \A c \in Account : c \in Listed(RemoveChild(list, child))
                                 <=> c \in Listed(list) \ {child}
<1> USE ZeroAssumption
<1> DEFINE at == {i \in DOMAIN list : list[i] = child}
           n  == Len(list)
           R  == RemoveChild(list, child)
<1>0. n \in Nat /\ DOMAIN list = 1..n /\ \A i \in 1..n : list[i] \in Address
  BY LenProperties, ElementOfSeq
<1>1. CASE at = {}
  <2>1. R = list
    BY <1>1 DEF RemoveChild
  <2> QED
    BY <1>1, <2>1 DEF Listed
<1>2. CASE at # {}
  <2>1. PICK k \in 1..n : list[k] = child
    BY <1>0, <1>2
  <2>2. at = {k}
    BY <1>0, <2>1 DEF Distinct
  <2>3. (CHOOSE i \in at : \A j \in at : i <= j) = k
    BY <2>2
  <2>4. R = [i \in 1..(n - 1) |-> IF i = k THEN list[n] ELSE list[i]]
    BY <1>2, <2>3 DEF RemoveChild
  <2> HIDE DEF at, R, n
  <2>5. n \in 1..n /\ n - 1 \in Nat
    BY <1>0, <2>1
  <2>6. DOMAIN R = 1..(n - 1) /\ R \in [1..(n - 1) -> Address]
    BY <1>0, <2>4, <2>5
  <2>7. R \in Seq(Address)
    BY <2>5, <2>6
  <2>8. Distinct(R)
    <3> SUFFICES ASSUME NEW i \in 1..(n - 1), NEW j \in 1..(n - 1),
                        R[i] = R[j], R[i] # Zero
                 PROVE  i = j
      BY <2>6 DEF Distinct
    <3> QED
      BY <1>0, <2>4, <2>5 DEF Distinct
  <2>9. ASSUME NEW c \in Account, c \in Listed(R)
        PROVE  c \in Listed(list) \ {child}
    <3>1. PICK i \in 1..(n - 1) : R[i] = c
      BY <2>6, <2>9 DEF Listed
    <3>2. c \in Listed(list)
      BY <1>0, <2>4, <2>5, <3>1 DEF Listed
    <3>3. c = child => FALSE
      BY <1>0, <2>1, <2>4, <2>5, <3>1 DEF Distinct
    <3> QED
      BY <3>2, <3>3
  <2>10. ASSUME NEW c \in Account, c \in Listed(list), c # child
         PROVE  c \in Listed(R)
    <3>1. PICK i \in 1..n : list[i] = c
      BY <1>0, <2>10 DEF Listed
    <3>2. i # k
      BY <2>1, <2>10, <3>1
    <3>3. \E j \in 1..(n - 1) : R[j] = c
      <4>1. CASE i = n
        <5>1. k \in 1..(n - 1)
          BY <1>0, <2>1, <3>2, <4>1
        <5>2. R[k] = c
          BY <1>0, <2>1, <2>4, <3>1, <4>1, <5>1
        <5> QED
          BY <5>1, <5>2
      <4>2. CASE i # n
        <5>1. i \in 1..(n - 1)
          BY <1>0, <3>1, <4>2
        <5>2. R[i] = c
          BY <1>0, <2>4, <3>1, <3>2, <5>1
        <5> QED
          BY <5>1, <5>2
      <4> QED
        BY <4>1, <4>2
    <3> QED
      BY <2>6, <3>3 DEF Listed
  <2> QED
    BY <2>7, <2>8, <2>9, <2>10 DEF R
<1> QED
  BY <1>1, <1>2

LEMMA AppendLists ==
  ASSUME NEW list \in Seq(Address), NEW c \in Address
  PROVE  /\ Append(list, c) \in Seq(Address)
         /\ Listed(Append(list, c)) = Listed(list) \cup {c}
         /\ Distinct(list) /\ (c = Zero \/ c \notin Listed(list))
              => Distinct(Append(list, c))
<1> DEFINE n == Len(list)
           A == Append(list, c)
<1>1. /\ n \in Nat /\ DOMAIN list = 1..n
      /\ A \in Seq(Address) /\ DOMAIN A = 1..(n + 1)
      /\ A[n + 1] = c /\ \A i \in 1..n : A[i] = list[i]
  BY LenProperties
<1> HIDE DEF A
<1>2. Listed(A) = Listed(list) \cup {c}
  <2>1. ASSUME NEW x \in Listed(A) PROVE x \in Listed(list) \cup {c}
    BY <1>1 DEF Listed
  <2>2. ASSUME NEW x \in Listed(list) \cup {c} PROVE x \in Listed(A)
    BY <1>1 DEF Listed
  <2> QED
    BY <2>1, <2>2
<1>3. ASSUME Distinct(list), c = Zero \/ c \notin Listed(list)
      PROVE  Distinct(A)
  BY <1>1, <1>3 DEF Distinct, Listed
<1> QED
  BY <1>1, <1>2, <1>3 DEF A

LEMMA ConcatLists ==
  ASSUME NEW s \in Seq(Address), NEW t \in Seq(Address)
  PROVE  /\ s \o t \in Seq(Address)
         /\ Listed(s \o t) = Listed(s) \cup Listed(t)
         /\ Distinct(s) /\ Distinct(t) /\ Listed(s) \cap Listed(t) \subseteq {Zero}
              => Distinct(s \o t)
<1> DEFINE m == Len(s)
           n == Len(t)
           C == s \o t
<1>1. /\ m \in Nat /\ n \in Nat /\ DOMAIN s = 1..m /\ DOMAIN t = 1..n
      /\ C \in Seq(Address) /\ DOMAIN C = 1..(m + n)
      /\ \A i \in 1..m : C[i] = s[i]
      /\ \A i \in (m + 1)..(m + n) : C[i] = t[i - m]
  BY LenProperties, ConcatProperties
<1> HIDE DEF C, m, n
<1>2. Listed(C) = Listed(s) \cup Listed(t)
  <2>1. ASSUME NEW x \in Listed(C) PROVE x \in Listed(s) \cup Listed(t)
    <3>1. PICK i \in 1..(m + n) : C[i] = x
      BY <1>1, <2>1 DEF Listed
    <3>2. CASE i <= m
      BY <1>1, <3>1, <3>2 DEF Listed
    <3>3. CASE i > m
      <4>1. i \in (m + 1)..(m + n) /\ i - m \in 1..n
        BY <1>1, <3>3
      <4> QED
        BY <1>1, <3>1, <4>1 DEF Listed
    <3> QED
      BY <1>1, <3>2, <3>3
  <2>2. ASSUME NEW x \in Listed(s) PROVE x \in Listed(C)
    <3>1. PICK i \in 1..m : s[i] = x
      BY <1>1, <2>2 DEF Listed
    <3>2. i \in 1..(m + n) /\ C[i] = x
      BY <1>1, <3>1
    <3> QED
      BY <1>1, <3>2 DEF Listed
  <2>3. ASSUME NEW x \in Listed(t) PROVE x \in Listed(C)
    <3>1. PICK i \in 1..n : t[i] = x
      BY <1>1, <2>3 DEF Listed
    <3>2. i + m \in (m + 1)..(m + n) /\ (i + m) - m = i /\ i + m \in 1..(m + n)
      BY <1>1
    <3>3. C[i + m] = x
      BY <1>1, <3>1, <3>2
    <3> QED
      BY <1>1, <3>2, <3>3 DEF Listed
  <2> QED
    BY <2>1, <2>2, <2>3
<1>3. ASSUME Distinct(s), Distinct(t), Listed(s) \cap Listed(t) \subseteq {Zero},
             NEW i \in 1..(m + n), NEW j \in 1..(m + n), C[i] = C[j], C[i] # Zero
      PROVE  i = j
  <2>1. CASE i <= m /\ j <= m
    BY <1>1, <1>3, <2>1 DEF Distinct
  <2>2. CASE i > m /\ j > m
    <3>1. i - m \in 1..n /\ j - m \in 1..n /\ t[i - m] = t[j - m] /\ t[i - m] # Zero
      BY <1>1, <1>3, <2>2
    <3>2. i - m = j - m
      BY <1>1, <1>3, <3>1 DEF Distinct
    <3> QED
      BY <1>1, <3>2
  <2>3. ASSUME NEW p \in 1..m, NEW q \in (m + 1)..(m + n), C[p] = C[q], C[p] # Zero
        PROVE  FALSE
    <3>1. q - m \in 1..n /\ s[p] = t[q - m] /\ s[p] # Zero
      BY <1>1, <2>3
    <3> QED
      BY <1>1, <1>3, <3>1 DEF Listed
  <2> QED
    BY <1>1, <1>3, <2>1, <2>2, <2>3
<1>4. Distinct(s) /\ Distinct(t) /\ Listed(s) \cap Listed(t) \subseteq {Zero}
        => Distinct(C)
  BY <1>1, <1>3 DEF Distinct
<1> QED
  BY <1>1, <1>2, <1>4 DEF C

-----------------------------------------------------------------------------
(* The registry. *)
RegistryInv == ChartInv /\ TypeOK /\ ChildrenMatchParents

\* ChildrenMatchParents said with the sets that the lists hold.
ListsMatch ==
  \A p \in Account :
    /\ Distinct(children[p])
    /\ \A a \in Account : a \in Listed(children[p])
                            <=> a \in Nodes \ {Root} /\ Parent(a) = p

LEMMA MatchAsSets == ChildrenMatchParents <=> ListsMatch
  BY DEF ChildrenMatchParents, ListsMatch, Listed, Distinct

LEMMA ListTypes ==
  ASSUME TypeOK, NEW p \in Account
  PROVE  children[p] \in Seq(Address) /\ Listed(children[p]) \subseteq Address
<1>1. children[p] \in Seq(Address)
  BY DEF TypeOK
<1> QED
  BY <1>1, LenProperties, ElementOfSeq DEF Listed

LEMMA RegistryStart ==
  ASSUME Init
  PROVE  RegistryInv
<1> USE RootAssumption, ZeroAssumption
<1>1. ChartInv
  BY ChartStart DEF Init
<1>2. TypeOK
  BY <1>1 DEF Init, TypeOK, ChartInv
<1>3. Nodes = {Root}
  BY KindAssumption DEF Init, ChartInit, Nodes, RootNode, Absent, NoKind
<1>4. ChildrenMatchParents
  BY <1>3 DEF ChildrenMatchParents, Init
<1> QED
  BY <1>1, <1>2, <1>4 DEF RegistryInv

LEMMA AddNodeMatches ==
  ASSUME RegistryInv, NEW caller, NEW a \in Address, NEW k \in Kind,
         NEW p \in Account, AddNode(caller, a, k, p)
  PROVE  [ChartNext]_node /\ TypeOK' /\ ChildrenMatchParents'
<1> USE RootAssumption, ZeroAssumption, KindAssumption DEF RegistryInv
<1>1. /\ a \notin Nodes /\ p \in Nodes
      /\ children' = [children EXCEPT ![p] = Append(@, a)]
      /\ governor' = governor
      /\ node' = IF a = Zero THEN node
                 ELSE [node EXCEPT ![a] = [kind |-> k, parent |-> p, active |-> TRUE]]
  BY DEF AddNode, Exists
<1>2. [ChartNext]_node
  <2>1. CASE a = Zero
    BY <1>1, <2>1
  <2>2. CASE a # Zero
    <3>1. a \in Account /\ Hire(a, k, p)
      BY <1>1, <2>2 DEF Hire, Exists, Address
    <3> QED
      BY <3>1 DEF ChartNext
  <2> QED
    BY <2>1, <2>2
<1>3. \A q \in Account : children[q] \in Seq(Address)
  BY ListTypes
<1>4. /\ Append(children[p], a) \in Seq(Address)
      /\ Listed(Append(children[p], a)) = Listed(children[p]) \cup {a}
  BY <1>3, AppendLists
<1>5. TypeOK'
  <2>1. ChartInv'
    BY <1>2, ChartStep
  <2> QED
    BY <1>1, <1>4, <2>1 DEF TypeOK, ChartInv
<1>6. /\ \A q \in Account : children'[q] = IF q = p THEN Append(children[p], a)
                                           ELSE children[q]
      /\ ListsMatch
  BY <1>1, MatchAsSets DEF TypeOK
<1>7. a = Zero \/ a \notin Listed(children[p])
  BY <1>1, <1>6 DEF ListsMatch, Address
<1>8. Distinct(Append(children[p], a))
  BY <1>3, <1>6, <1>7, AppendLists DEF ListsMatch
<1>9. \A b \in Account :
        /\ b \in Nodes' \ {Root} <=> b \in Nodes \ {Root} \/ b = a
        /\ b \in Nodes => Parent(b)' = Parent(b)
        /\ b = a => Parent(b)' = p
  <2>1. Root \in Nodes
    BY DEF ChartInv, RootedTree, Nodes, RootNode, NoKind
  <2>2. CASE a = Zero
    BY <1>1, <2>2 DEF Nodes, Parent
  <2>3. CASE a # Zero
    BY <1>1, <2>1, <2>3 DEF Nodes, Parent, NoKind, ChartInv, NodeType, Address
  <2> QED
    BY <2>2, <2>3
<1>10. ListsMatch'
  <2> SUFFICES ASSUME NEW q \in Account
               PROVE  /\ Distinct(children'[q])
                      /\ \A b \in Account : b \in Listed(children'[q])
                           <=> b \in Nodes' \ {Root} /\ Parent(b)' = q
    BY DEF ListsMatch, Distinct, Listed
  <2>1. Distinct(children'[q])
    BY <1>6, <1>8 DEF ListsMatch
  <2>2. ASSUME NEW b \in Account
        PROVE  b \in Listed(children'[q]) <=> b \in Nodes' \ {Root} /\ Parent(b)' = q
    <3>1. b \in Listed(children'[q]) <=> b \in Listed(children[q]) \/ (q = p /\ b = a)
      BY <1>4, <1>6
    <3>2. b \in Listed(children[q]) <=> b \in Nodes \ {Root} /\ Parent(b) = q
      BY <1>6 DEF ListsMatch
    <3>3. b = a => b \notin Nodes
      BY <1>1
    <3> QED
      BY <1>9, <3>1, <3>2, <3>3
  <2> QED
    BY <2>1, <2>2
<1>11. ChildrenMatchParents'
  BY <1>10, MatchAsSets, PTL
<1> QED
  BY <1>2, <1>5, <1>11

LEMMA SetActiveMatches ==
  ASSUME RegistryInv, NEW caller, NEW a \in Account, NEW b \in BOOLEAN,
         SetActive(caller, a, b)
  PROVE  [ChartNext]_node /\ TypeOK' /\ ChildrenMatchParents'
<1> USE DEF RegistryInv
<1>1. Toggle(a, b)
  BY DEF SetActive, Toggle
<1>2. ChartNext
  BY <1>1 DEF ChartNext
<1>3. ChartInv'
  BY <1>2, ChartStep
<1>4. TypeOK'
  BY <1>3 DEF TypeOK, ChartInv, SetActive
<1>5. \A c \in Account : node'[c].kind = node[c].kind /\ node'[c].parent = node[c].parent
  BY DEF SetActive, ChartInv, NodeType
<1>6. Nodes' = Nodes /\ \A c \in Account : Parent(c)' = Parent(c)
  BY <1>5 DEF Nodes, Parent
<1>7. ChildrenMatchParents'
  BY <1>6 DEF ChildrenMatchParents, SetActive
<1> QED
  BY <1>2, <1>4, <1>7

\* The lists of the removed node and of its parent are disjoint, so joining
\* them lists nobody twice; what is left out is the removed node itself.
LEMMA RemoveNodeMatches ==
  ASSUME RegistryInv, NEW caller, NEW a \in Account, RemoveNode(caller, a)
  PROVE  [ChartNext]_node /\ TypeOK' /\ ChildrenMatchParents'
<1> USE RootAssumption, ZeroAssumption DEF RegistryInv
<1> DEFINE p == Parent(a)
           joined == children[p] \o children[a]
<1>1. /\ a \in Nodes \ {Root}
      /\ children' = [children EXCEPT ![p] = RemoveChild(@ \o children[a], a),
                                      ![a] = <<>>]
      /\ governor' = governor
      /\ node' = [b \in Account |->
                    IF b = a THEN Absent
                    ELSE IF b \in Listed(children[a]) THEN [node[b] EXCEPT !.parent = p]
                    ELSE node[b]]
  BY DEF RemoveNode, Reports, Exists, Listed
<1>2. p \in Account /\ p \in Nodes /\ p # a
  BY <1>1, NotOwnParent DEF Nodes
<1>3. ListsMatch
  BY MatchAsSets
<1>4. Root \in Nodes /\ Parent(Root) = Zero
  BY DEF ChartInv, RootedTree, Nodes, RootNode, NoKind, Parent
<1>5. \A b \in Account : b \in Listed(children[a]) <=> b \in Nodes /\ Parent(b) = a
  BY <1>3, <1>4 DEF ListsMatch
<1>6. Fire(a)
  BY <1>1, <1>5 DEF Fire, Exists
<1>7. ChartNext
  BY <1>6 DEF ChartNext
<1>8. \A q \in Account : children[q] \in Seq(Address) /\ Listed(children[q]) \subseteq Address
  BY ListTypes
<1>9. Listed(children[p]) \cap Listed(children[a]) \subseteq {Zero}
  <2> SUFFICES ASSUME NEW x \in Account,
                      x \in Listed(children[p]), x \in Listed(children[a])
               PROVE  FALSE
    BY <1>2, <1>8 DEF Address
  <2> QED
    BY <1>2, <1>3 DEF ListsMatch
<1>10. /\ joined \in Seq(Address) /\ Distinct(joined)
       /\ Listed(joined) = Listed(children[p]) \cup Listed(children[a])
  BY <1>2, <1>3, <1>8, <1>9, ConcatLists DEF ListsMatch
<1>11. /\ RemoveChild(joined, a) \in Seq(Address)
       /\ Distinct(RemoveChild(joined, a))
       /\ \A c \in Account : c \in Listed(RemoveChild(joined, a))
                               <=> c \in Listed(joined) \ {a}
  BY <1>10, RemoveChildRemoves
<1>12. children \in [Account -> Seq(Address)] /\ <<>> \in Seq(Address)
  BY DEF TypeOK
<1>13. \A q \in Account : children'[q] = IF q = a THEN <<>>
                                         ELSE IF q = p THEN RemoveChild(joined, a)
                                         ELSE children[q]
  BY <1>1, <1>2, <1>12
<1>14. TypeOK'
  <2>1. ChartInv'
    BY <1>7, ChartStep
  <2>2. children' \in [Account -> Seq(Address)]
    BY <1>1, <1>2, <1>11, <1>12
  <2> QED
    BY <1>1, <2>1, <2>2 DEF TypeOK, ChartInv
<1>15. /\ Nodes' = Nodes \ {a}
       /\ \A b \in Nodes' : Parent(b)' = IF Parent(b) = a THEN p ELSE Parent(b)
  <2>1. Nodes' = Nodes \ {a}
    BY <1>1 DEF Nodes, Absent, NoKind, ChartInv, NodeType
  <2>2. ASSUME NEW b \in Nodes \ {a}
        PROVE  Parent(b)' = IF Parent(b) = a THEN p ELSE Parent(b)
    BY <1>1, <1>5 DEF Nodes, Parent, ChartInv, NodeType
  <2> QED
    BY <2>1, <2>2
<1> HIDE DEF p, joined
<1>16. ListsMatch'
  <2> SUFFICES ASSUME NEW q \in Account
               PROVE  /\ Distinct(children'[q])
                      /\ \A b \in Account : b \in Listed(children'[q])
                           <=> b \in Nodes' \ {Root} /\ Parent(b)' = q
    BY DEF ListsMatch, Distinct, Listed
  <2>1. CASE q = a
    <3>1. children'[q] = <<>> /\ Listed(children'[q]) = {} /\ Distinct(children'[q])
      BY <1>13, <2>1 DEF Listed, Distinct
    <3> QED
      BY <1>2, <1>15, <2>1, <3>1
  <2>2. CASE q = p
    <3>1. children'[q] = RemoveChild(joined, a)
      BY <1>2, <1>13, <2>2
    <3>2. \A b \in Account : b \in Listed(children'[q]) <=>
            b # a /\ b \in Nodes \ {Root} /\ (Parent(b) = p \/ Parent(b) = a)
      BY <1>2, <1>3, <1>10, <1>11, <3>1 DEF ListsMatch
    <3> QED
      BY <1>11, <1>15, <2>2, <3>1, <3>2
  <2>3. CASE q # a /\ q # p
    <3>1. children'[q] = children[q]
      BY <1>13, <2>3
    <3>2. Parent(a) = p
      BY DEF p
    <3> QED
      BY <1>3, <1>15, <2>3, <3>1, <3>2 DEF ListsMatch
  <2> QED
    BY <2>1, <2>2, <2>3
<1>17. ChildrenMatchParents'
  BY <1>16, MatchAsSets, PTL
<1> QED
  BY <1>7, <1>14, <1>17

LEMMA ReparentMatches ==
  ASSUME RegistryInv, NEW caller, NEW a \in Account, NEW p \in Account,
         Reparent(caller, a, p)
  PROVE  [ChartNext]_node /\ TypeOK' /\ ChildrenMatchParents'
<1> USE RootAssumption, ZeroAssumption DEF RegistryInv
<1> DEFINE old == Parent(a)
<1>1. /\ a \in Nodes \ {Root} /\ p \in Nodes /\ p # old
      /\ node' = [node EXCEPT ![a].parent = p]
      /\ children' = [children EXCEPT ![old] = RemoveChild(@, a), ![p] = Append(@, a)]
      /\ governor' = governor
  BY DEF Reparent, Exists
<1>2. old \in Account
  BY <1>1, NotOwnParent DEF Nodes
<1>3. ListsMatch
  BY MatchAsSets
<1>4. Move(a, p)
  BY DEF Reparent, Move
<1>5. ChartNext
  BY <1>4 DEF ChartNext
<1>6. \A q \in Account : children[q] \in Seq(Address)
  BY ListTypes
<1>7. children \in [Account -> Seq(Address)] /\ a \in Address
  BY DEF TypeOK, Address
<1>8. a \notin Listed(children[p])
  BY <1>1, <1>3 DEF ListsMatch
<1>9. /\ RemoveChild(children[old], a) \in Seq(Address)
      /\ Distinct(RemoveChild(children[old], a))
      /\ \A c \in Account : c \in Listed(RemoveChild(children[old], a))
                              <=> c \in Listed(children[old]) \ {a}
  BY <1>2, <1>3, <1>6, RemoveChildRemoves DEF ListsMatch
<1>10. /\ Append(children[p], a) \in Seq(Address)
       /\ Distinct(Append(children[p], a))
       /\ Listed(Append(children[p], a)) = Listed(children[p]) \cup {a}
  BY <1>3, <1>6, <1>7, <1>8, AppendLists DEF ListsMatch
<1>11. \A q \in Account : children'[q] = IF q = p THEN Append(children[p], a)
                                         ELSE IF q = old THEN RemoveChild(children[old], a)
                                         ELSE children[q]
  BY <1>1, <1>2, <1>7
<1>12. TypeOK'
  <2>1. ChartInv'
    BY <1>5, ChartStep
  <2>2. children' \in [Account -> Seq(Address)]
    BY <1>1, <1>2, <1>7, <1>9, <1>10
  <2> QED
    BY <1>1, <2>1, <2>2 DEF TypeOK, ChartInv
<1>13. /\ Nodes' = Nodes
       /\ \A b \in Account : Parent(b)' = IF b = a THEN p ELSE Parent(b)
  BY <1>1 DEF Nodes, Parent, ChartInv, NodeType
<1>14. Parent(a) = old
  OBVIOUS
<1> HIDE DEF old
<1>15. ListsMatch'
  <2> SUFFICES ASSUME NEW q \in Account
               PROVE  /\ Distinct(children'[q])
                      /\ \A b \in Account : b \in Listed(children'[q])
                           <=> b \in Nodes' \ {Root} /\ Parent(b)' = q
    BY DEF ListsMatch, Distinct, Listed
  <2>1. CASE q = p
    <3>1. children'[q] = Append(children[p], a)
      BY <1>11, <2>1
    <3> QED
      BY <1>1, <1>3, <1>10, <1>13, <2>1, <3>1 DEF ListsMatch
  <2>2. CASE q = old
    <3>1. children'[q] = RemoveChild(children[old], a)
      BY <1>1, <1>11, <2>2
    <3> QED
      BY <1>1, <1>2, <1>3, <1>9, <1>13, <2>2, <3>1 DEF ListsMatch
  <2>3. CASE q # p /\ q # old
    <3>1. children'[q] = children[q]
      BY <1>11, <2>3
    <3> QED
      BY <1>3, <1>13, <1>14, <2>3, <3>1 DEF ListsMatch
  <2> QED
    BY <2>1, <2>2, <2>3
<1>16. ChildrenMatchParents'
  BY <1>15, MatchAsSets, PTL
<1> QED
  BY <1>5, <1>12, <1>16

LEMMA SetGovernorMatches ==
  ASSUME RegistryInv, NEW caller, NEW g \in Caller, SetGovernor(caller, g)
  PROVE  [ChartNext]_node /\ TypeOK' /\ ChildrenMatchParents'
<1>1. UNCHANGED <<node, children>> /\ governor' = g
  BY DEF SetGovernor
<1> QED
  BY <1>1 DEF RegistryInv, TypeOK, ChildrenMatchParents, Nodes, Parent

\* Every step of the registry is a step of the chart or leaves it alone.
LEMMA RegistryStep ==
  ASSUME RegistryInv, [Next]_vars
  PROVE  [ChartNext]_node /\ RegistryInv'
<1>1. [ChartNext]_node /\ TypeOK' /\ ChildrenMatchParents'
  <2>1. CASE UNCHANGED vars
    BY <2>1 DEF vars, RegistryInv, TypeOK, ChildrenMatchParents, Nodes, Parent
  <2>2. CASE Next
    <3>1. PICK caller \in Caller :
            \/ \E g \in Caller : SetGovernor(caller, g)
            \/ \E a \in Address, k \in Kind, p \in Account : AddNode(caller, a, k, p)
            \/ \E a \in Account, b \in BOOLEAN : SetActive(caller, a, b)
            \/ \E a \in Account : RemoveNode(caller, a)
            \/ \E a, p \in Account : Reparent(caller, a, p)
      BY <2>2 DEF Next
    <3> QED
      BY <3>1, SetGovernorMatches, AddNodeMatches, SetActiveMatches,
         RemoveNodeMatches, ReparentMatches
  <2> QED
    BY <2>1, <2>2
<1>2. ChartInv'
  BY <1>1, ChartStep DEF RegistryInv
<1> QED
  BY <1>1, <1>2 DEF RegistryInv

\* The structs and the lists of the registry never disagree.
THEOREM RegistryIsConsistent == Spec => [](TypeOK /\ ChildrenMatchParents)
<1>1. RegistryInv => TypeOK /\ ChildrenMatchParents
  BY DEF RegistryInv
<1> QED
  BY <1>1, RegistryStart, RegistryStep, PTL DEF Spec

\* What readers see through getNode behaves as the abstract chart.
THEOREM RegistryImplementsChart == Spec => ImplementsChart
<1>1. Init => ChartInit
  BY DEF Init
<1> QED
  BY <1>1, RegistryStart, RegistryStep, PTL DEF Spec, ImplementsChart, ChartSpec

\* Hence the deployed registry is a tree under its root for any number of
\* accounts and any sequence of changes.
THEOREM RegistryIsRooted == Spec => []RootedTree
<1> QED
  BY RegistryImplementsChart, ChartIsRooted, PTL DEF ImplementsChart

-----------------------------------------------------------------------------
(* Chains of command.  Above(n) is the least set that holds n and is       *)
(* closed under parent; so a set of one chart is compared with a set of    *)
(* the next by closing it in the other.  Up is Above of a given chart.     *)

Closed(ch, S) == \A m \in S \cap Account : ch[m].parent \in S
Up(ch, n) == {a \in Address : \A S \in SUBSET Address :
                (n \in S /\ \A m \in S \cap Account : ch[m].parent \in S) => a \in S}

LEMMA UpIsClosed ==
  ASSUME NEW ch \in [Account -> NodeType], NEW n \in Address
  PROVE  Up(ch, n) \in SUBSET Address /\ n \in Up(ch, n) /\ Closed(ch, Up(ch, n))
<1>1. Up(ch, n) \in SUBSET Address /\ n \in Up(ch, n)
  BY DEF Up
<1>2. ASSUME NEW m \in Up(ch, n) \cap Account PROVE ch[m].parent \in Up(ch, n)
  <2>1. ch[m].parent \in Address
    BY DEF NodeType
  <2>2. ASSUME NEW S \in SUBSET Address, n \in S, \A x \in S \cap Account : ch[x].parent \in S
        PROVE  ch[m].parent \in S
    <3>1. m \in S
      BY <2>2 DEF Up
    <3> QED
      BY <2>2, <3>1
  <2> QED
    BY <2>1, <2>2 DEF Up
<1> QED
  BY <1>1, <1>2 DEF Closed

LEMMA UpIsLeast ==
  ASSUME NEW ch, NEW n, NEW S \in SUBSET Address, n \in S, Closed(ch, S)
  PROVE  Up(ch, n) \subseteq S
  BY DEF Up, Closed

\* A node and nobody above it is outside the tree.
LEMMA UpInTree ==
  ASSUME NEW ch \in [Account -> NodeType], NEW In \in SUBSET Account, NEW n \in In,
         ch[Root].parent = Zero, \A a \in In \ {Root} : ch[a].parent \in In
  PROVE  Up(ch, n) \subseteq In \cup {Zero}
<1>1. In \cup {Zero} \in SUBSET Address /\ Closed(ch, In \cup {Zero})
  BY ZeroAssumption DEF Closed, Address
<1> QED
  BY <1>1, UpIsLeast

LEMMA FireKeepsChains ==
  ASSUME ChartInv, NEW g, Fire(g), NEW a \in Nodes'
  PROVE  Up(node', a) = Up(node, a) \ {g}
<1> USE ZeroAssumption
<1>1. ChartInv' /\ node \in [Account -> NodeType] /\ node' \in [Account -> NodeType]
  BY FireKeepsRooted DEF ChartInv
<1>2. /\ g \in Nodes \ {Root} /\ Parent(g) \in Nodes /\ Parent(g) # g
      /\ Nodes \subseteq Account /\ Nodes' = Nodes \ {g}
  <2>1. g \in Nodes \ {Root}
    BY DEF Fire, Exists
  <2>2. Nodes' = Nodes \ {g}
    BY <1>1 DEF Nodes, Fire, Exists, Absent, NodeType
  <2> QED
    BY <2>1, <2>2, NotOwnParent DEF Nodes
<1>3. \A m \in Nodes \ {g} :
        node'[m].parent = IF Parent(m) = g THEN Parent(g) ELSE Parent(m)
  BY <1>1 DEF Fire, Exists, Nodes, Parent, NodeType
<1>4. a \in Nodes /\ a # g /\ a \in Address
  BY <1>2 DEF Address
<1> DEFINE old == Up(node, a)
           new == Up(node', a)
<1>5. /\ old \in SUBSET Address /\ a \in old /\ Closed(node, old)
      /\ new \in SUBSET Address /\ a \in new /\ Closed(node', new)
  BY <1>1, <1>4, UpIsClosed
<1>6. old \subseteq Nodes \cup {Zero}
  <2>1. node[Root].parent = Zero /\ \A m \in Nodes \ {Root} : node[m].parent \in Nodes
    BY DEF ChartInv, RootedTree, RootNode, Parent
  <2> QED
    BY <1>1, <1>2, <1>4, <2>1, UpInTree
<1>7. new \subseteq (Nodes \ {g}) \cup {Zero}
  <2>1. node'[Root].parent = Zero /\ \A m \in Nodes' \ {Root} : node'[m].parent \in Nodes'
    BY <1>1 DEF ChartInv, RootedTree, RootNode, Parent
  <2>2. PICK In \in SUBSET Account : In = Nodes'
    BY <1>2
  <2>3. Up(node', a) \subseteq In \cup {Zero}
    BY <1>1, <2>1, <2>2, UpInTree
  <2> QED
    BY <1>2, <2>2, <2>3
<1>8. /\ \A m \in old \cap Account : m \in Nodes /\ Parent(m) \in old
      /\ \A m \in new \cap Account : m \in Nodes \ {g} /\ node'[m].parent \in new
  BY <1>5, <1>6, <1>7 DEF Closed, Parent
<1> HIDE DEF old, new
<1>9. Closed(node', old \ {g})
  <2> SUFFICES ASSUME NEW m \in (old \ {g}) \cap Account PROVE node'[m].parent \in old \ {g}
    BY DEF Closed
  <2>1. CASE Parent(m) = g
    <3>1. g \in old \cap Account
      BY <1>2, <1>8, <2>1
    <3> QED
      BY <1>2, <1>3, <1>8, <2>1, <3>1
  <2>2. CASE Parent(m) # g
    BY <1>3, <1>8, <2>2
  <2> QED
    BY <2>1, <2>2
<1>10. new \subseteq old \ {g}
  BY <1>4, <1>5, <1>9, UpIsLeast DEF new
<1>11. old \ {g} \subseteq new
  <2>1. CASE \E m \in new \cap Account : Parent(m) = g
    <3>1. Parent(g) \in new
      BY <1>3, <1>8, <2>1
    <3>2. Closed(node, new \cup {g})
      BY <1>3, <1>8, <3>1 DEF Closed, Parent
    <3>3. new \cup {g} \in SUBSET Address
      BY <1>2, <1>5 DEF Address
    <3> QED
      BY <1>5, <3>2, <3>3, UpIsLeast DEF old
  <2>2. CASE ~\E m \in new \cap Account : Parent(m) = g
    <3>1. Closed(node, new)
      BY <1>3, <1>8, <2>2 DEF Closed, Parent
    <3> QED
      BY <1>5, <3>1, UpIsLeast DEF old
  <2> QED
    BY <2>1, <2>2
<1> QED
  BY <1>10, <1>11 DEF old, new

LEMMA MoveKeepsChains ==
  ASSUME ChartInv, NEW a, NEW p \in Account, Move(a, p)
  PROVE  /\ \A b \in Nodes : a \in Up(node, b) <=> a \in Up(node', b)
         /\ Up(node', a) = {a} \cup Up(node, p)
<1> USE ZeroAssumption
<1>1. node \in [Account -> NodeType] /\ node' \in [Account -> NodeType]
  BY MoveKeepsRooted DEF ChartInv
<1>2. /\ a \in Account /\ a \in Address /\ p \in Address
      /\ a \notin Up(node, p)
      /\ node'[a].parent = p /\ \A m \in Account \ {a} : node'[m].parent = node[m].parent
  BY <1>1 DEF Move, Exists, Nodes, IsAncestor, Above, Up, Address, Parent, NodeType
<1>3. \A S : a \notin S => (Closed(node, S) <=> Closed(node', S))
  BY <1>2 DEF Closed
<1>4. ASSUME NEW n \in Address, a \notin Up(node, n) PROVE Up(node', n) \subseteq Up(node, n)
  BY <1>1, <1>3, <1>4, UpIsClosed, UpIsLeast
<1>5. ASSUME NEW n \in Address, a \notin Up(node', n) PROVE Up(node, n) \subseteq Up(node', n)
  BY <1>1, <1>3, <1>5, UpIsClosed, UpIsLeast
<1>6. \A b \in Nodes : a \in Up(node, b) <=> a \in Up(node', b)
  <2>1. Nodes \subseteq Address
    BY DEF Nodes, Address
  <2> QED
    BY <1>4, <1>5, <2>1
<1>7. Up(node', p) = Up(node, p)
  BY <1>2, <1>4, <1>5
<1>8. Up(node', a) \subseteq {a} \cup Up(node, p)
  <2>1. /\ {a} \cup Up(node, p) \in SUBSET Address
        /\ p \in Up(node, p) /\ Closed(node, Up(node, p))
    BY <1>1, <1>2, UpIsClosed
  <2>2. Closed(node', {a} \cup Up(node, p))
    BY <1>2, <2>1 DEF Closed
  <2> QED
    BY <2>1, <2>2, UpIsLeast
<1>9. {a} \cup Up(node', p) \subseteq Up(node', a)
  <2>1. Up(node', a) \in SUBSET Address /\ a \in Up(node', a) /\ Closed(node', Up(node', a))
    BY <1>1, <1>2, UpIsClosed
  <2>2. p \in Up(node', a)
    BY <1>2, <2>1 DEF Closed
  <2> QED
    BY <2>1, <2>2, UpIsLeast
<1> QED
  BY <1>6, <1>7, <1>8, <1>9

\* What a step of the chart may do to the set of nodes and to the parents.
LEMMA OnlyFireRemoves ==
  ASSUME ChartInv, [ChartNext]_node, NEW g \in Nodes \ Nodes'
  PROVE  Fire(g)
<1>1. node \in [Account -> NodeType] /\ g \in Account /\ g \in Nodes /\ g \notin Nodes'
  BY DEF ChartInv, Nodes
<1>2. ChartNext
  BY DEF Nodes
<1>3. ASSUME NEW a \in Account, NEW k \in Kind, NEW p \in Account, Hire(a, k, p) PROVE FALSE
  BY <1>1, <1>3, KindAssumption DEF Hire, Nodes, Exists, NoKind
<1>4. ASSUME NEW a \in Account, NEW b \in BOOLEAN, Toggle(a, b) PROVE FALSE
  BY <1>1, <1>4 DEF Toggle, Nodes, Exists, NodeType
<1>5. ASSUME NEW a \in Account, NEW p \in Account, Move(a, p) PROVE FALSE
  BY <1>1, <1>5 DEF Move, Nodes, Exists, NodeType
<1>6. ASSUME NEW a \in Account, Fire(a) PROVE Fire(g)
  <2>1. a = g
    BY <1>1, <1>6 DEF Fire, Nodes, Exists, NodeType
  <2> QED
    BY <1>6, <2>1
<1> QED
  BY <1>2, <1>3, <1>4, <1>5, <1>6 DEF ChartNext

LEMMA OnlyMoveRewires ==
  ASSUME ChartInv, [ChartNext]_node, Nodes' = Nodes,
         NEW a \in Nodes, Parent(a)' # Parent(a)
  PROVE  Move(a, Parent(a)') /\ Parent(a)' \in Account
<1>1. node \in [Account -> NodeType] /\ a \in Account
  BY DEF ChartInv, Nodes
<1>2. ChartNext
  BY DEF Parent
<1>3. ASSUME NEW c \in Account, NEW k \in Kind, NEW p \in Account, Hire(c, k, p) PROVE FALSE
  <2>1. c \in Nodes' /\ c \notin Nodes
    BY <1>1, <1>3, KindAssumption DEF Hire, Nodes, Exists, NoKind
  <2> QED
    BY <2>1
<1>4. ASSUME NEW c \in Account, NEW b \in BOOLEAN, Toggle(c, b) PROVE FALSE
  BY <1>1, <1>4 DEF Toggle, Parent, NodeType
<1>5. ASSUME NEW c \in Account, Fire(c) PROVE FALSE
  <2>1. c \in Nodes /\ c \notin Nodes'
    BY <1>1, <1>5 DEF Fire, Nodes, Exists, Absent, NoKind
  <2> QED
    BY <2>1
<1>6. ASSUME NEW c \in Account, NEW p \in Account, Move(c, p)
      PROVE  Move(a, Parent(a)') /\ Parent(a)' \in Account
  <2>1. a = c /\ Parent(a)' = p
    BY <1>1, <1>6 DEF Move, Parent, NodeType
  <2> QED
    BY <1>6, <2>1
<1> QED
  BY <1>2, <1>3, <1>4, <1>5, <1>6 DEF ChartNext

\* Firing a node takes it out of everybody's chain of command and changes no
\* chain otherwise (removeNode), for any chart.
THEOREM ChainsSurviveFiring == Spec => FiringKeepsChains
<1>1. RegistryInv /\ [Next]_vars =>
        [\A gone \in Nodes \ Nodes' : \A a \in Nodes' : Above(a)' = Above(a) \ {gone}]_vars
  <2> SUFFICES ASSUME RegistryInv, [Next]_vars, NEW gone \in Nodes \ Nodes', NEW a \in Nodes'
               PROVE  Above(a)' = Above(a) \ {gone}
    OBVIOUS
  <2>1. Fire(gone)
    BY RegistryStep, OnlyFireRemoves DEF RegistryInv
  <2>2. Up(node', a) = Up(node, a) \ {gone}
    BY <2>1, FireKeepsChains DEF RegistryInv
  <2> QED
    BY <2>2 DEF Up, Above, Parent
<1>2. RegistryInv /\ [Next]_vars => RegistryInv'
  BY RegistryStep
<1> QED
  BY <1>1, <1>2, RegistryStart, PTL DEF Spec, FiringKeepsChains

\* A move takes exactly the subtree along (reparent), for any chart.
THEOREM SubtreesMoveWhole == Spec => MovingKeepsSubtree
<1>1. RegistryInv /\ [Next]_vars =>
        [\A a \in Nodes \cap Nodes' : Parent(a)' # Parent(a) /\ Nodes' = Nodes =>
           /\ {b \in Nodes : IsAncestor(a, b)} = {b \in Nodes' : IsAncestor(a, b)'}
           /\ Above(a)' = {a} \cup Above(Parent(a)')]_vars
  <2> SUFFICES ASSUME RegistryInv, [Next]_vars, NEW a \in Nodes,
                      Parent(a)' # Parent(a), Nodes' = Nodes
               PROVE  /\ {b \in Nodes : IsAncestor(a, b)} = {b \in Nodes' : IsAncestor(a, b)'}
                      /\ Above(a)' = {a} \cup Above(Parent(a)')
    OBVIOUS
  <2>1. PICK p \in Account : p = Parent(a)' /\ Move(a, p)
    BY RegistryStep, OnlyMoveRewires DEF RegistryInv
  <2>2. /\ \A b \in Nodes : a \in Up(node, b) <=> a \in Up(node', b)
        /\ Up(node', a) = {a} \cup Up(node, p)
    BY <2>1, MoveKeepsChains DEF RegistryInv
  <2>3. {b \in Nodes : a # Zero /\ a \in Up(node, b)} = {b \in Nodes' : a # Zero /\ a \in Up(node', b)}
    BY <2>2
  <2>4. {b \in Nodes : IsAncestor(a, b)} = {b \in Nodes' : IsAncestor(a, b)'}
    BY <2>3 DEF IsAncestor, Above, Up, Parent
  <2>5. Above(a)' = {a} \cup Above(Parent(a)')
    BY <2>1, <2>2 DEF Above, Up, Parent
  <2> QED
    BY <2>4, <2>5
<1>2. RegistryInv /\ [Next]_vars => RegistryInv'
  BY RegistryStep
<1> QED
  BY <1>1, <1>2, RegistryStart, PTL DEF Spec, MovingKeepsSubtree
=============================================================================
