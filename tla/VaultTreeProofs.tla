--------------------------- MODULE VaultTreeProofs ---------------------------
(***************************************************************************)
(* Proofs about VaultTree, for every number of nodes, stamps, names and    *)
(* clients.                                                                *)
(*                                                                         *)
(* The validator's relations are about reachability, which no single       *)
(* transaction re-establishes.  The inductive invariant replaces them by   *)
(* local facts about one row and its parent, plus the absence of a set of  *)
(* rows closed under taking parents (NoLoop) and, for each trash root, a   *)
(* set that separates it from its origin (OriginOutside).                  *)
(***************************************************************************)
EXTENDS VaultTree, TLAPS

\* Every row but the root hangs in a directory; the root is a live directory.
Placed ==
    /\ kind[Root] = "dir" /\ parent[Root] = NoNode
    /\ trashed[Root] = Live /\ trashName[Root] = NoName
    /\ \A n \in nodes \ {Root} :
        /\ parent[n] \in nodes /\ kind[parent[n]] = "dir"
        /\ name[n] \in Name
        /\ trashed[n] = Live => trashed[parent[n]] = Live

\* Going up from a row never comes back to it.
NoLoop == Acyclic(nodes, parent)

\* A trash root hangs beneath the root; any other trashed row was trashed with
\* its parent.
Units ==
    \A n \in nodes :
        /\ trashName[n] # NoName => trashed[n] # Live /\ parent[n] = Root
        /\ trashName[n] = NoName => trashParent[n] = NoNode
        /\ trashName[n] = NoName /\ trashed[n] # Live => trashed[parent[n]] = trashed[n]
        /\ trashParent[n] # NoNode => kind[trashParent[n]] = "dir"

\* S holds trash root r and everything beneath it, only trashed rows, and not
\* the directory r came from.
Separates(S, r) ==
    /\ r \in S /\ trashParent[r] \notin S
    /\ \A x \in S : trashed[x] # Live
    /\ \A x \in nodes : parent[x] \in S => x \in S

OriginOutside == \A r \in TrashRoots : \E S \in SUBSET nodes : Separates(S, r)

\* Siblings that are not trash roots have different names, live or not.
Siblings ==
    \A x, y \in nodes \ {Root} :
        /\ trashName[x] = NoName /\ trashName[y] = NoName
        /\ parent[x] = parent[y] /\ name[x] = name[y]
        => x = y

\* A row not yet inserted, or destroyed, has neutral trash columns.
Vacant ==
    \A x \in NodeId \ nodes :
        trashed[x] = Live /\ trashName[x] = NoName /\ trashParent[x] = NoNode

\* No client holds an id that is still to be handed out.
HeldIssued == \A c \in Client : held[c] < nextId

Shape == TypeOK /\ Placed /\ NoLoop /\ Units /\ OriginOutside /\ Siblings /\ Vacant

IInv == Shape /\ HeldIssued /\ NoLostUpdate

-----------------------------------------------------------------------------
(***************************************************************************)
(* Names and subtrees.                                                     *)
(***************************************************************************)
LEMMA NoNameFresh == NoName \notin Name
  BY NamesAssumption DEF NoName, Name

\* A name a caller gives is a name.
LEMMA GivenIsName == GivenName \subseteq Name
<1>1. <<>> \in Seq(Nat) /\ <<2>> \in Seq(Nat)
  OBVIOUS
<1>2. {<<>>, <<2>>} \subseteq Seq(Nat)
  BY <1>1
<1> DEFINE Short == {<<>>, <<2>>}
<1> HIDE DEF Short
<1>3. ASSUME NEW g \in [base : BaseName, copies : Short], Short \subseteq Seq(Nat)
      PROVE  g \in [base : BaseName, copies : Seq(Nat)]
  BY <1>3
<1> QED
  BY <1>2, <1>3 DEF GivenName, Name, Short

\* A suffix on a given name makes a name.
LEMMA SuffixedIsName ==
  ASSUME NEW nm \in Name, NEW k \in Nat
  PROVE  suffixedName(nm, k) \in Name
<1>1. nm.base \in BaseName /\ nm.copies \in Seq(Nat)
  BY DEF Name
<1>2. Append(nm.copies, k) \in Seq(Nat)
  BY <1>1
<1> QED
  BY <1>1, <1>2 DEF suffixedName, Name

\* The root is a node id, and the sentinels are none.
LEMMA RootIsNode == Root \in NodeId /\ NoNode \notin NodeId /\ Live \notin Stamp
  BY BoundsAssumption DEF Root, NodeId, NoNode, Live, Stamp

\* Subtree(n, via) holds n, is closed under child links through via, and each
\* of its rows but n is in via and has its parent in it.
LEMMA SubtreeFacts ==
  ASSUME NEW n \in nodes, NEW via \in SUBSET nodes
  PROVE  /\ Subtree(n, via) \subseteq nodes
         /\ n \in Subtree(n, via)
         /\ \A x \in via : parent[x] \in Subtree(n, via) => x \in Subtree(n, via)
         /\ \A x \in Subtree(n, via) \ {n} : x \in via /\ parent[x] \in Subtree(n, via)
<1> DEFINE C == Subtree(n, via)
<1>1. C \subseteq nodes
  BY DEF Subtree
<1>2. n \in C
  BY DEF Subtree
<1>3. ASSUME NEW x \in via, parent[x] \in C
      PROVE  x \in C
  BY <1>3 DEF Subtree
<1>4. ASSUME NEW m \in C \ {n}, ~ (m \in via /\ parent[m] \in C)
      PROVE  FALSE
  <2> DEFINE S == C \ {m}
  <2>1. S \in SUBSET nodes /\ n \in S
    BY <1>1, <1>2
  <2>2. \A x \in via : parent[x] \in S => x \in S
    BY <1>3, <1>4
  <2>3. m \in S
    BY <2>1, <2>2 DEF Subtree
  <2> QED
    BY <2>3
<1> QED
  BY <1>1, <1>2, <1>3, <1>4

\* It is the least such set.
LEMMA SubtreeLeast ==
  ASSUME NEW n \in nodes, NEW via \in SUBSET nodes, NEW S \in SUBSET nodes,
         n \in S, \A x \in via : parent[x] \in S => x \in S
  PROVE  Subtree(n, via) \subseteq S
  BY DEF Subtree

-----------------------------------------------------------------------------
(***************************************************************************)
(* Revisions: a step keeps NoLostUpdate when the rows it does not bump     *)
(* look the same afterwards.                                               *)
(***************************************************************************)
LEMMA ViewSame ==
  ASSUME NEW m, parent'[m] = parent[m], name'[m] = name[m], trashed'[m] = trashed[m],
         \A x : (x \in LiveNodes' /\ parent'[x] = m) <=> (x \in LiveNodes /\ parent[x] = m)
  PROVE  View(m)' = View(m)
<1>1. {x \in LiveNodes' : parent'[x] = m} = {x \in LiveNodes : parent[x] = m}
  OBVIOUS
<1> QED
  BY <1>1 DEF View

\* The view of a client that has read nothing.
LEMMA NoViewIsView == NoView \in NodeView
  BY DEF NoView, NodeView, NoNode, Live

\* What a client reads is a well-formed view.
LEMMA ViewIsView ==
  ASSUME TypeOK, NEW n \in nodes
  PROVE  View(n) \in NodeView
<1>1. /\ parent[n] \in NodeId \cup {NoNode} /\ name[n] \in Name \cup {NoName}
      /\ trashed[n] \in Stamp \cup {Live}
  BY DEF TypeOK
<1>2. {m \in LiveNodes : parent[m] = n} \in SUBSET NodeId
  BY DEF TypeOK, LiveNodes
<1> QED
  BY <1>1, <1>2 DEF View, NodeView

\* bumpRevision keeps the clients' revisions honest: whoever saw a bumped row
\* before is stale after.
LEMMA BumpKeeps ==
  ASSUME NEW S \in SUBSET nodes, HeldIssued, NoLostUpdate, TypeOK, bumpRevision(S),
         nodes' \subseteq NodeId, nextId' \in Nat, nextId <= nextId',
         \A m \in nodes' : m < nextId /\ m \notin S => m \in nodes /\ View(m)' = View(m)
  PROVE  /\ HeldIssued' /\ NoLostUpdate'
         /\ ClientsOK'
<1> USE RootIsNode
<1>1. \A c \in Client : held[c] \in NodeId \cup {NoNode}
  BY DEF TypeOK, ClientsOK
<1>2. ClientsOK'
  <2>1. held' \in [Client -> NodeId \cup {NoNode}]
    BY <1>1 DEF bumpRevision
  <2>2. \A c \in Client : seen[c] \in NodeView
    BY DEF TypeOK, ClientsOK
  <2>3. seen' \in [Client -> NodeView]
    BY <2>2, NoViewIsView DEF bumpRevision
  <2> QED
    BY <2>1, <2>3 DEF ClientsOK
<1>3. ASSUME NEW c \in Client PROVE held'[c] < nextId'
  <2>1. nextId \in Nat /\ nextId >= 2
    BY BoundsAssumption DEF TypeOK
  <2>2. held[c] \in Nat /\ held[c] < nextId
    BY <1>1 DEF HeldIssued, NodeId, NoNode
  <2>3. held'[c] = NoNode \/ held'[c] = held[c]
    BY DEF bumpRevision
  <2> QED
    BY <2>1, <2>2, <2>3 DEF NoNode
<1>4. ASSUME NEW c \in Client, held'[c] \in nodes'
      PROVE  seen'[c] = View(held[c])'
  <2>1. held[c] \notin S
    BY <1>4 DEF bumpRevision
  <2>2. held'[c] = held[c] /\ seen'[c] = seen[c]
    BY <2>1 DEF bumpRevision
  <2>3. PICK m : m = held[c]
    OBVIOUS
  <2>4. m \in nodes /\ View(m)' = View(m)
    BY <1>4, <2>1, <2>2, <2>3 DEF HeldIssued
  <2>5. seen[c] = View(m)
    BY <2>3, <2>4 DEF NoLostUpdate
  <2>6. seen'[c] = View(m)'
    BY <2>2, <2>4, <2>5
  <2> QED
    BY <2>2, <2>3, <2>6 DEF View
<1> QED
  BY <1>2, <1>3, <1>4 DEF HeldIssued, NoLostUpdate

-----------------------------------------------------------------------------
(***************************************************************************)
(* The initial tree.                                                       *)
(***************************************************************************)
LEMMA InitIInv == Init => IInv
<1> SUFFICES ASSUME Init PROVE IInv
  OBVIOUS
<1> USE RootIsNode, BoundsAssumption
<1>1. TypeOK
  BY NoViewIsView DEF Init, TypeOK, ClientsOK, Root, NodeId
<1>2. Placed
  BY DEF Init, Placed
<1>3. NoLoop
  BY DEF Init, NoLoop, Acyclic
<1>4. Units /\ OriginOutside /\ Siblings /\ Vacant
  BY DEF Init, Units, OriginOutside, TrashRoots, Siblings, Vacant
<1>5. HeldIssued /\ NoLostUpdate
  BY DEF Init, HeldIssued, NoLostUpdate, NoNode, Root, NodeId
<1> QED
  BY <1>1, <1>2, <1>3, <1>4, <1>5 DEF IInv, Shape

-----------------------------------------------------------------------------
(***************************************************************************)
(* Creation.                                                               *)
(***************************************************************************)
LEMMA InsertKeepsIInv ==
  ASSUME IInv, NEW p \in nodes, NEW nm \in Name, NEW k \in {"dir", "file"},
         InsertNode(p, nm, k)
  PROVE  IInv'
<1> USE RootIsNode, BoundsAssumption
<1> DEFINE i == nextId
<1>1. /\ i \in NodeId /\ i \notin nodes /\ nextId \in Nat /\ i # Root
      /\ nodes \subseteq NodeId /\ p \in LiveNodes /\ kind[p] = "dir"
      /\ nodes' = nodes \cup {i} /\ p # i
  BY DEF IInv, Shape, TypeOK, InsertNode, liveDir, LiveNodes, Root, NodeId
<1>2. /\ nextId' = nextId + 1
      /\ kind' = [kind EXCEPT ![i] = k]
      /\ parent' = [parent EXCEPT ![i] = p]
      /\ name' = [name EXCEPT ![i] = nm]
      /\ UNCHANGED <<trashed, trashParent, trashName>>
      /\ bumpRevision({p}) /\ NameFree(p, nm)
  BY DEF InsertNode
<1>3. /\ kind \in [NodeId -> {"dir", "file"}]
      /\ parent \in [NodeId -> NodeId \cup {NoNode}]
      /\ name \in [NodeId -> Name \cup {NoName}]
      /\ trashed \in [NodeId -> Stamp \cup {Live}]
      /\ trashParent \in [NodeId -> NodeId \cup {NoNode}]
      /\ trashName \in [NodeId -> Name \cup {NoName}]
      /\ nextId \in 2..(MaxNode + 1) /\ Root \in nodes
      /\ \A n \in nodes : n < nextId
      /\ \A n \in nodes : trashParent[n] \in nodes \cup {NoNode}
  BY DEF IInv, Shape, TypeOK
<1>4. /\ trashed[i] = Live /\ trashName[i] = NoName /\ trashParent[i] = NoNode
  BY <1>1 DEF IInv, Shape, Vacant
<1>5. /\ parent'[i] = p /\ name'[i] = nm /\ kind'[i] = k
      /\ \A x \in nodes : parent'[x] = parent[x] /\ name'[x] = name[x] /\ kind'[x] = kind[x]
  BY <1>1, <1>2, <1>3
<1>6. \A x \in nodes \ {Root} : parent[x] \in nodes /\ parent[x] # i
  BY <1>1 DEF IInv, Shape, Placed
<1>7. LiveNodes' = LiveNodes \cup {i}
  BY <1>1, <1>2, <1>4 DEF LiveNodes
<1>8. HeldIssued' /\ NoLostUpdate' /\ ClientsOK'
  <2>1. ASSUME NEW m \in nodes', m < nextId, m \notin {p}
        PROVE  m \in nodes /\ View(m)' = View(m)
    <3>1. m \in nodes
      BY <2>1, <1>1, <1>3
    <3>2. \A x : (x \in LiveNodes' /\ parent'[x] = m) <=> (x \in LiveNodes /\ parent[x] = m)
      BY <2>1, <1>1, <1>5, <1>7 DEF LiveNodes
    <3> QED
      BY <3>1, <3>2, <1>2, <1>5, ViewSame
  <2>2. {p} \in SUBSET nodes /\ nodes' \subseteq NodeId /\ nextId' \in Nat /\ nextId <= nextId'
    BY <1>1, <1>2
  <2>3. HeldIssued /\ NoLostUpdate /\ TypeOK
    BY DEF IInv, Shape
  <2> QED
    BY <2>1, <2>2, <2>3, <1>2, BumpKeeps
<1>9. TypeOK'
  BY <1>1, <1>2, <1>3, <1>4, <1>8 DEF TypeOK, NodeId
<1>10. Placed'
  <2>1. ASSUME NEW n \in nodes' \ {Root}
        PROVE  /\ parent'[n] \in nodes' /\ kind'[parent'[n]] = "dir" /\ name'[n] \in Name
               /\ trashed'[n] = Live => trashed'[parent'[n]] = Live
    BY <1>1, <1>2, <1>5 DEF IInv, Shape, Placed, LiveNodes
  <2> QED
    BY <2>1, <1>1, <1>2, <1>3, <1>5 DEF IInv, Shape, Placed
<1>11. NoLoop'
  <2> SUFFICES ASSUME NEW T \in SUBSET (nodes' \ {Root}), T # {}, \A x \in T : parent'[x] \in T
               PROVE  FALSE
    BY DEF NoLoop, Acyclic
  <2>1. T \ {i} \in SUBSET (nodes \ {Root})
    BY <1>1
  <2>2. \A x \in T \ {i} : parent[x] \in T \ {i}
    BY <2>1, <1>5, <1>6
  <2>3. T \ {i} # {}
    BY <1>1, <1>5
  <2> QED
    BY <2>1, <2>2, <2>3 DEF IInv, Shape, NoLoop, Acyclic
<1>12. Units'
  BY <1>1, <1>2, <1>3, <1>4, <1>5 DEF IInv, Shape, Units, Placed
<1>13. OriginOutside'
  <2> SUFFICES ASSUME NEW r \in TrashRoots'
               PROVE  \E S \in SUBSET nodes' : Separates(S, r)'
    BY DEF OriginOutside
  <2>1. r \in TrashRoots
    BY <1>1, <1>2, <1>4 DEF TrashRoots
  <2>2. PICK S \in SUBSET nodes : Separates(S, r)
    BY <2>1 DEF IInv, Shape, OriginOutside
  <2>3. Separates(S, r)'
    BY <2>2, <1>1, <1>2, <1>5 DEF Separates, LiveNodes
  <2> QED
    BY <2>3, <1>1
<1>14. Siblings'
  <2> SUFFICES ASSUME NEW x \in nodes' \ {Root}, NEW y \in nodes' \ {Root},
                      trashName[x] = NoName, trashName[y] = NoName,
                      parent'[x] = parent'[y], name'[x] = name'[y]
               PROVE  x = y
    BY <1>2 DEF Siblings
  <2>1. ASSUME NEW z \in nodes \ {Root}, trashName[z] = NoName, parent[z] = p
        PROVE  name[z] # nm
    <3>1. trashed[z] = Live
      BY <2>1, <1>1 DEF IInv, Shape, Units, LiveNodes
    <3> QED
      BY <3>1, <2>1, <1>2 DEF NameFree, LiveNodes
  <2>2. CASE x \in nodes /\ y \in nodes
    BY <2>2, <1>5 DEF IInv, Shape, Siblings
  <2>3. ASSUME x = i, y \in nodes PROVE FALSE
    BY <2>1, <2>3, <1>5
  <2>4. ASSUME y = i, x \in nodes PROVE FALSE
    BY <2>1, <2>4, <1>5
  <2> QED
    BY <2>2, <2>3, <2>4, <1>1
<1>15. Vacant'
  BY <1>1, <1>2 DEF IInv, Shape, Vacant
<1> QED
  BY <1>8, <1>9, <1>10, <1>11, <1>12, <1>13, <1>14, <1>15 DEF IInv, Shape

-----------------------------------------------------------------------------
(***************************************************************************)
(* Moves.  Move and BatchMove both give a set M of live rows new parents   *)
(* and names and bump a set B of rows.                                     *)
(***************************************************************************)
LEMMA ReparentKeepsIInv ==
  ASSUME IInv,
         NEW M \in SUBSET (LiveNodes \ {Root}), NEW B \in SUBSET nodes,
         UNCHANGED <<nodes, nextId, kind, trashed, trashParent, trashName>>,
         parent' \in [NodeId -> NodeId \cup {NoNode}],
         name' \in [NodeId -> Name \cup {NoName}],
         \A x \in NodeId \ M : parent'[x] = parent[x] /\ name'[x] = name[x],
         \A m \in M : liveDir(parent'[m]) /\ name'[m] \in Name,
         \A m \in M : \/ parent'[m] = parent[m] /\ name'[m] = name[m]
                      \/ m \in B /\ parent[m] \in B /\ parent'[m] \in B,
         \A x, y \in LiveNodes : parent'[x] = parent'[y] /\ name'[x] = name'[y] => x = y,
         Acyclic(LiveNodes, parent'),
         bumpRevision(B)
  PROVE  IInv'
<1> USE RootIsNode
<1>1. nodes \subseteq NodeId /\ LiveNodes \subseteq nodes /\ M \subseteq LiveNodes /\ Root \notin M
  BY DEF IInv, Shape, TypeOK, LiveNodes
<1>2. LiveNodes' = LiveNodes /\ TrashRoots' = TrashRoots
  BY DEF LiveNodes, TrashRoots
<1>3. \A x \in nodes \ M : parent'[x] = parent[x] /\ name'[x] = name[x]
  BY <1>1
<1>4. \A m \in M : /\ parent'[m] \in LiveNodes /\ kind[parent'[m]] = "dir" /\ name'[m] \in Name
                   /\ trashName[m] = NoName /\ trashed[m] = Live
  BY <1>1 DEF liveDir, LiveNodes, IInv, Shape, Units
<1>5. HeldIssued' /\ NoLostUpdate' /\ ClientsOK'
  <2>1. ASSUME NEW m \in nodes', m < nextId, m \notin B
        PROVE  m \in nodes /\ View(m)' = View(m)
    <3>1. m \in nodes /\ parent'[m] = parent[m] /\ name'[m] = name[m]
      BY <2>1, <1>3
    <3>2. ASSUME NEW x
          PROVE (x \in LiveNodes' /\ parent'[x] = m) <=> (x \in LiveNodes /\ parent[x] = m)
      <4>1. CASE x \in LiveNodes /\ parent[x] \in B /\ parent'[x] \in B
        BY <4>1, <2>1, <1>2
      <4>2. CASE x \in LiveNodes /\ parent'[x] = parent[x]
        BY <4>2, <1>2
      <4>3. x \in LiveNodes => parent'[x] = parent[x] \/ (parent[x] \in B /\ parent'[x] \in B)
        BY <1>1, <1>3
      <4> QED
        BY <4>1, <4>2, <4>3, <1>2
    <3> QED
      BY <3>1, <3>2, ViewSame
  <2>2. nodes' \subseteq NodeId /\ nextId' \in Nat /\ nextId <= nextId'
    BY <1>1, BoundsAssumption DEF IInv, Shape, TypeOK
  <2>3. HeldIssued /\ NoLostUpdate /\ TypeOK
    BY DEF IInv, Shape
  <2> QED
    BY <2>1, <2>2, <2>3, BumpKeeps
<1>6. TypeOK'
  BY <1>5 DEF IInv, Shape, TypeOK
<1>7. Placed'
  <2>1. ASSUME NEW n \in nodes \ {Root}
        PROVE  /\ parent'[n] \in nodes /\ kind[parent'[n]] = "dir" /\ name'[n] \in Name
               /\ trashed[n] = Live => trashed[parent'[n]] = Live
    <3>1. CASE n \in M
      BY <3>1, <1>4 DEF LiveNodes
    <3>2. CASE n \notin M
      BY <3>2, <1>3 DEF IInv, Shape, Placed
    <3> QED
      BY <3>1, <3>2
  <2>2. parent'[Root] = NoNode
    BY <1>1 DEF IInv, Shape, Placed
  <2> QED
    BY <2>1, <2>2 DEF IInv, Shape, Placed
<1>8. NoLoop'
  <2> SUFFICES ASSUME NEW T \in SUBSET (nodes \ {Root}), T # {}, \A x \in T : parent'[x] \in T
               PROVE  FALSE
    BY DEF NoLoop, Acyclic
  <2>1. \A x \in T \cap LiveNodes : parent'[x] \in T \cap LiveNodes
    BY <1>2, <1>7 DEF Placed, LiveNodes
  <2>2. T \cap LiveNodes \in SUBSET (LiveNodes \ {Root})
    BY <1>1
  <2>3. T \cap LiveNodes = {}
    BY <2>1, <2>2 DEF Acyclic
  <2>4. \A x \in T : parent[x] \in T
    BY <2>3, <1>1, <1>3
  <2> QED
    BY <2>4 DEF IInv, Shape, NoLoop, Acyclic
<1>9. Units'
  <2>1. ASSUME NEW n \in nodes
        PROVE  /\ trashName[n] # NoName => trashed[n] # Live /\ parent'[n] = Root
               /\ trashName[n] = NoName /\ trashed[n] # Live => trashed[parent'[n]] = trashed[n]
    <3>1. CASE n \in M
      BY <3>1, <1>4
    <3>2. CASE n \notin M
      BY <3>2, <1>3 DEF IInv, Shape, Units
    <3> QED
      BY <3>1, <3>2
  <2> QED
    BY <2>1 DEF IInv, Shape, Units
<1>10. OriginOutside'
  <2> SUFFICES ASSUME NEW r \in TrashRoots PROVE \E S \in SUBSET nodes : Separates(S, r)'
    BY <1>2 DEF OriginOutside
  <2>1. PICK S \in SUBSET nodes : Separates(S, r)
    BY DEF IInv, Shape, OriginOutside
  <2>2. ASSUME NEW x \in nodes, parent'[x] \in S PROVE x \in S
    <3>1. x \notin M
      BY <2>1, <2>2, <1>4 DEF Separates, LiveNodes
    <3> QED
      BY <3>1, <2>1, <2>2, <1>3 DEF Separates
  <2> QED
    BY <2>1, <2>2 DEF Separates
<1>11. Siblings'
  <2> SUFFICES ASSUME NEW x \in nodes \ {Root}, NEW y \in nodes \ {Root},
                      trashName[x] = NoName, trashName[y] = NoName,
                      parent'[x] = parent'[y], name'[x] = name'[y]
               PROVE  x = y
    BY DEF Siblings
  <2>1. (x \in LiveNodes) <=> (trashed[parent'[x]] = Live)
    BY <1>7, <1>9 DEF Placed, Units, LiveNodes
  <2>2. (y \in LiveNodes) <=> (trashed[parent'[y]] = Live)
    BY <1>7, <1>9 DEF Placed, Units, LiveNodes
  <2>3. CASE x \in LiveNodes /\ y \in LiveNodes
    BY <2>3
  <2>4. CASE x \notin LiveNodes /\ y \notin LiveNodes
    BY <2>4, <1>1, <1>3 DEF IInv, Shape, Siblings
  <2> QED
    BY <2>1, <2>2, <2>3, <2>4
<1>12. Vacant'
  BY DEF IInv, Shape, Vacant
<1> QED
  BY <1>5, <1>6, <1>7, <1>8, <1>9, <1>10, <1>11, <1>12 DEF IInv, Shape

\* A move that passes the ancestor test leaves no loop among the live rows.
LEMMA MoveKeepsIInv ==
  ASSUME IInv, NEW n \in nodes, NEW p \in nodes, NEW nm \in Name, NEW r, Move(n, p, nm, r)
  PROVE  IInv'
<1> USE RootIsNode
<1> DEFINE B == MoveTouches(n, p)
<1>1. /\ n \in LiveNodes \ {Root} /\ liveDir(p) /\ n \in NodeId /\ p \in LiveNodes
      /\ parent' = [parent EXCEPT ![n] = p] /\ name' = [name EXCEPT ![n] = nm]
      /\ p \notin Subtree(n, nodes) /\ NameFree(p, nm)
      /\ bumpRevision(B)
      /\ UNCHANGED <<nodes, nextId, kind, trashed, trashParent, trashName>>
  BY DEF Move, isAncestor, liveDir, IInv, Shape, TypeOK
<1>2. /\ parent \in [NodeId -> NodeId \cup {NoNode}] /\ p \in NodeId
      /\ name \in [NodeId -> Name \cup {NoName}] /\ nodes \subseteq NodeId
      /\ LiveNodes \subseteq nodes
  BY DEF IInv, Shape, TypeOK, LiveNodes
<1>3. /\ parent'[n] = p /\ name'[n] = nm
      /\ \A x \in NodeId \ {n} : parent'[x] = parent[x] /\ name'[x] = name[x]
      /\ parent' \in [NodeId -> NodeId \cup {NoNode}]
      /\ name' \in [NodeId -> Name \cup {NoName}]
  BY <1>1, <1>2
<1>4. parent[n] \in nodes /\ B = {n, parent[n], p} /\ B \in SUBSET nodes
  BY <1>1 DEF MoveTouches, IInv, Shape, Placed
<1>5. \A x, y \in LiveNodes : parent'[x] = parent'[y] /\ name'[x] = name'[y] => x = y
  <2> SUFFICES ASSUME NEW x \in LiveNodes, NEW y \in LiveNodes,
                      parent'[x] = parent'[y], name'[x] = name'[y]
               PROVE  x = y
    OBVIOUS
  <2>1. \A z \in LiveNodes \ {n} : parent'[z] = parent[z] /\ name'[z] = name[z]
    BY <1>2, <1>3
  <2>2. ASSUME NEW z \in LiveNodes \ {n} PROVE ~ (parent'[z] = p /\ name'[z] = nm)
    BY <2>1, <1>1 DEF NameFree
  <2>3. CASE x # n /\ y # n
    <3>1. parent[x] = parent[y] /\ name[x] = name[y]
      BY <2>1, <2>3
    <3>2. trashName[x] = NoName /\ trashName[y] = NoName
      BY DEF IInv, Shape, Units, LiveNodes
    <3>3. ASSUME NEW z \in LiveNodes \ {Root}
          PROVE  parent[z] # NoNode
      BY <1>2 DEF IInv, Shape, Placed
    <3>4. parent[Root] = NoNode
      BY DEF IInv, Shape, Placed
    <3> QED
      BY <3>1, <3>2, <3>3, <3>4, <1>2 DEF IInv, Shape, Siblings
  <2>4. CASE x = n \/ y = n
    BY <2>2, <2>4, <1>3
  <2> QED
    BY <2>3, <2>4
<1>6. Acyclic(LiveNodes, parent')
  <2> SUFFICES ASSUME NEW T \in SUBSET (LiveNodes \ {Root}), T # {}, \A x \in T : parent'[x] \in T
               PROVE  FALSE
    BY DEF Acyclic
  <2> DEFINE U == T \ Subtree(n, nodes)
  <2>1. n \in Subtree(n, nodes) /\ \A x \in nodes : parent[x] \in Subtree(n, nodes) => x \in Subtree(n, nodes)
    BY SubtreeFacts
  <2>2. \A x \in T \ {n} : parent[x] \in T
    BY <1>2, <1>3
  <2>3. CASE n \notin T
    <3>1. T \in SUBSET (nodes \ {Root}) /\ \A x \in T : parent[x] \in T
      BY <2>2, <2>3, <1>2
    <3> QED
      BY <3>1 DEF IInv, Shape, NoLoop, Acyclic
  <2>4. CASE n \in T
    <3>1. p \in U
      BY <2>4, <1>1, <1>3
    <3>2. U \in SUBSET (nodes \ {Root}) /\ \A x \in U : parent[x] \in U
      BY <2>1, <2>2, <1>2
    <3> HIDE DEF U
    <3> QED
      BY <3>1, <3>2 DEF IInv, Shape, NoLoop, Acyclic
  <2> QED
    BY <2>3, <2>4
<1>7. \A m \in {n} : liveDir(parent'[m]) /\ name'[m] \in Name
  BY <1>1, <1>3
<1>8. \A m \in {n} : \/ parent'[m] = parent[m] /\ name'[m] = name[m]
                     \/ m \in B /\ parent[m] \in B /\ parent'[m] \in B
  BY <1>3, <1>4
<1>10. {n} \in SUBSET (LiveNodes \ {Root}) /\ B \in SUBSET nodes
  BY <1>1, <1>4
<1>11. bumpRevision(B) /\ UNCHANGED <<nodes, nextId, kind, trashed, trashParent, trashName>>
  BY <1>1
<1>12. \A x \in NodeId \ {n} : parent'[x] = parent[x] /\ name'[x] = name[x]
  BY <1>3
<1>13. parent' \in [NodeId -> NodeId \cup {NoNode}] /\ name' \in [NodeId -> Name \cup {NoName}]
  BY <1>3
<1> HIDE DEF B
<1> QED
  BY <1>5, <1>6, <1>7, <1>8, <1>10, <1>11, <1>12, <1>13, ReparentKeepsIInv

\* BatchMove keeps the invariant: the final topology was checked as a whole.
LEMMA BatchMoveKeepsIInv ==
  ASSUME IInv, NEW M \in Batches, NEW to \in [M -> nodes], NEW as \in [M -> GivenName],
         NEW r, BatchMove(M, to, as, r)
  PROVE  IInv'
<1> USE RootIsNode
<1> DEFINE moved == {m \in M : parent[m] # to[m] \/ name[m] # as[m]}
           B == UNION {MoveTouches(m, to[m]) : m \in moved}
<1>1. /\ M \in SUBSET (LiveNodes \ {Root})
      /\ nodes \subseteq NodeId /\ LiveNodes \subseteq nodes /\ M \subseteq NodeId
  BY DEF Batches, LiveNodes, IInv, Shape, TypeOK
<1>2. /\ parent' = [x \in NodeId |-> IF x \in M THEN to[x] ELSE parent[x]]
      /\ name' = [x \in NodeId |-> IF x \in M THEN as[x] ELSE name[x]]
      /\ \A m \in M : liveDir(to[m])
      /\ UNCHANGED <<nodes, nextId, kind, trashed, trashParent, trashName>>
  BY DEF BatchMove
<1>3. /\ finalTopologyValid(parent', name') /\ bumpRevision(B)
  BY <1>2 DEF BatchMove
<1>4. \A m \in M : parent'[m] = to[m] /\ name'[m] = as[m] /\ to[m] \in nodes /\ as[m] \in Name
  BY <1>1, <1>2, GivenIsName
<1>5. \A x \in NodeId \ M : parent'[x] = parent[x] /\ name'[x] = name[x]
  BY <1>2
<1>6. parent \in [NodeId -> NodeId \cup {NoNode}] /\ name \in [NodeId -> Name \cup {NoName}]
  BY DEF IInv, Shape, TypeOK
<1>7. parent' \in [NodeId -> NodeId \cup {NoNode}]
  BY <1>1, <1>2, <1>4, <1>6
<1>8. name' \in [NodeId -> Name \cup {NoName}]
  BY <1>2, <1>4, <1>6
<1>9. ASSUME NEW m \in moved
      PROVE  m \in B /\ parent[m] \in B /\ to[m] \in B
  <2>1. MoveTouches(m, to[m]) \subseteq B
    OBVIOUS
  <2>2. {m, parent[m], to[m]} \subseteq B
    BY <2>1 DEF MoveTouches
  <2> QED
    BY <2>2
<1>10. \A m \in M : \/ parent'[m] = parent[m] /\ name'[m] = name[m]
                    \/ m \in B /\ parent[m] \in B /\ parent'[m] \in B
  BY <1>4, <1>9
<1>11. B \in SUBSET nodes
  <2>1. ASSUME NEW m \in moved PROVE MoveTouches(m, to[m]) \subseteq nodes
    BY <1>1, <1>4 DEF MoveTouches, IInv, Shape, Placed
  <2> QED
    BY <2>1
<1>12. \A m \in M : liveDir(parent'[m]) /\ name'[m] \in Name
  BY <1>2, <1>4
<1>13. /\ \A x, y \in LiveNodes : parent'[x] = parent'[y] /\ name'[x] = name'[y] => x = y
       /\ Acyclic(LiveNodes, parent')
  BY <1>3 DEF finalTopologyValid
<1>14. bumpRevision(B) /\ UNCHANGED <<nodes, nextId, kind, trashed, trashParent, trashName>>
  BY <1>2, <1>3
<1> HIDE DEF B
<1> QED
  BY <1>1, <1>5, <1>7, <1>8, <1>10, <1>11, <1>12, <1>13, <1>14, ReparentKeepsIInv

-----------------------------------------------------------------------------
(***************************************************************************)
(* Trash.                                                                  *)
(***************************************************************************)
LEMMA TrashKeepsIInv ==
  ASSUME IInv, NEW n \in nodes, NEW r, NEW now \in Stamp, Trash(n, r, now)
  PROVE  IInv'
<1> USE RootIsNode
<1> DEFINE unit == Subtree(n, LiveNodes)
           d == parent[n]
<1>1. /\ nodes \subseteq NodeId /\ LiveNodes \subseteq nodes /\ n \in LiveNodes \ {Root}
      /\ parent \in [NodeId -> NodeId \cup {NoNode}]
      /\ trashed \in [NodeId -> Stamp \cup {Live}]
      /\ trashParent \in [NodeId -> NodeId \cup {NoNode}]
      /\ trashName \in [NodeId -> Name \cup {NoName}]
      /\ Root \in nodes /\ n \in NodeId
  BY DEF Trash, LiveNodes, IInv, Shape, TypeOK
<1>2. /\ trashed' = [x \in NodeId |-> IF x \in unit THEN now ELSE trashed[x]]
      /\ parent' = [parent EXCEPT ![n] = Root]
      /\ trashParent' = [trashParent EXCEPT ![n] = d]
      /\ trashName' = [trashName EXCEPT ![n] = name[n]]
      /\ bumpRevision(unit \cup {d})
      /\ UNCHANGED <<nodes, nextId, kind, name>>
  BY DEF Trash
<1>3. /\ unit \subseteq nodes /\ n \in unit
      /\ \A x \in LiveNodes : parent[x] \in unit => x \in unit
      /\ \A x \in unit \ {n} : x \in LiveNodes /\ parent[x] \in unit
  BY <1>1, SubtreeFacts
<1>4. /\ unit \subseteq LiveNodes
      /\ \A x \in unit : trashed[x] = Live
  BY <1>1, <1>3 DEF LiveNodes
<1>5. d \in LiveNodes /\ d \in nodes /\ kind[d] = "dir" /\ name[n] \in Name /\ name[n] # NoName
  BY <1>1, NoNameFresh DEF IInv, Shape, Placed, LiveNodes
<1>5a. Root \notin unit
  BY <1>1, <1>3 DEF IInv, Shape, Placed
<1>6. d \notin unit
  <2> SUFFICES ASSUME d \in unit PROVE FALSE
    OBVIOUS
  <2>2. unit \in SUBSET (nodes \ {Root}) /\ \A x \in unit : parent[x] \in unit
    BY <1>5a, <1>3
  <2> HIDE DEF unit
  <2> QED
    BY <2>2, <1>3 DEF IInv, Shape, NoLoop, Acyclic
<1>7. /\ parent'[n] = Root /\ trashName'[n] = name[n] /\ trashParent'[n] = d
      /\ \A x \in NodeId \ {n} : /\ parent'[x] = parent[x]
                                 /\ trashName'[x] = trashName[x]
                                 /\ trashParent'[x] = trashParent[x]
  BY <1>1, <1>2
<1>8. /\ \A x \in unit : trashed'[x] = now /\ now # Live
      /\ \A x \in NodeId \ unit : trashed'[x] = trashed[x]
  BY <1>1, <1>2, <1>3
<1>9. LiveNodes' = LiveNodes \ unit
  BY <1>1, <1>2, <1>3, <1>8 DEF LiveNodes
<1> HIDE DEF unit
<1>10. HeldIssued' /\ NoLostUpdate' /\ ClientsOK'
  <2>1. ASSUME NEW m \in nodes', m < nextId, m \notin unit \cup {d}
        PROVE  m \in nodes /\ View(m)' = View(m)
    <3>1. m \in nodes /\ parent'[m] = parent[m] /\ name'[m] = name[m] /\ trashed'[m] = trashed[m]
      BY <2>1, <1>1, <1>2, <1>3, <1>7, <1>8
    <3>2. ASSUME NEW x
          PROVE (x \in LiveNodes' /\ parent'[x] = m) <=> (x \in LiveNodes /\ parent[x] = m)
      <4>1. CASE x \in unit
        BY <4>1, <2>1, <1>3, <1>9
      <4>2. CASE x \notin unit /\ x \in LiveNodes
        BY <4>2, <1>1, <1>3, <1>7, <1>9
      <4> QED
        BY <4>1, <4>2, <1>9
    <3> QED
      BY <3>1, <3>2, ViewSame
  <2>2. nodes' \subseteq NodeId /\ nextId' \in Nat /\ nextId <= nextId'
    BY <1>1, <1>2, BoundsAssumption DEF IInv, Shape, TypeOK
  <2>3. HeldIssued /\ NoLostUpdate /\ TypeOK /\ unit \cup {d} \in SUBSET nodes
    BY <1>3, <1>5 DEF IInv, Shape
  <2> QED
    BY <2>1, <2>2, <2>3, <1>2, BumpKeeps
<1>11. TypeOK'
  <2>1. trashed' \in [NodeId -> Stamp \cup {Live}]
    BY <1>1, <1>2
  <2>2. parent' \in [NodeId -> NodeId \cup {NoNode}]
    BY <1>1, <1>2
  <2>3. trashParent' \in [NodeId -> NodeId \cup {NoNode}]
    BY <1>1, <1>2, <1>5
  <2>4. trashName' \in [NodeId -> Name \cup {NoName}]
    BY <1>1, <1>2, <1>5
  <2>5. \A x \in nodes : trashParent'[x] \in nodes \cup {NoNode}
    BY <1>1, <1>5, <1>7 DEF IInv, Shape, TypeOK
  <2> QED
    BY <2>1, <2>2, <2>3, <2>4, <2>5, <1>2, <1>10 DEF IInv, Shape, TypeOK
<1>12. Placed'
  <2>1. ASSUME NEW x \in nodes \ {Root}
        PROVE  /\ parent'[x] \in nodes /\ kind[parent'[x]] = "dir" /\ name[x] \in Name
               /\ trashed'[x] = Live => trashed'[parent'[x]] = Live
    <3>1. CASE x = n
      BY <3>1, <1>1, <1>3, <1>7, <1>8 DEF IInv, Shape, Placed
    <3>2. CASE x # n
      <4>1. parent'[x] = parent[x] /\ parent[x] \in nodes /\ kind[parent[x]] = "dir" /\ name[x] \in Name
        BY <3>2, <1>1, <1>7 DEF IInv, Shape, Placed
      <4>2. ASSUME trashed'[x] = Live PROVE trashed'[parent[x]] = Live
        <5>1. x \notin unit /\ x \in LiveNodes
          BY <4>2, <1>1, <1>8 DEF LiveNodes
        <5>2. parent[x] \notin unit
          BY <5>1, <1>3
        <5> QED
          BY <5>1, <5>2, <4>1, <1>1, <1>8 DEF IInv, Shape, Placed, LiveNodes
      <4> QED
        BY <4>1, <4>2
    <3> QED
      BY <3>1, <3>2
  <2> QED
    BY <2>1, <1>5a, <1>1, <1>2, <1>7, <1>8 DEF IInv, Shape, Placed
<1>13. NoLoop'
  <2> SUFFICES ASSUME NEW T \in SUBSET (nodes \ {Root}), T # {}, \A x \in T : parent'[x] \in T
               PROVE  FALSE
    BY <1>2 DEF NoLoop, Acyclic
  <2>1. \A x \in T : parent[x] \in T
    BY <1>1, <1>7
  <2> QED
    BY <2>1 DEF IInv, Shape, NoLoop, Acyclic
<1>14. Units'
  <2>1. ASSUME NEW x \in nodes
        PROVE  /\ trashName'[x] # NoName => trashed'[x] # Live /\ parent'[x] = Root
               /\ trashName'[x] = NoName => trashParent'[x] = NoNode
               /\ trashName'[x] = NoName /\ trashed'[x] # Live => trashed'[parent'[x]] = trashed'[x]
               /\ trashParent'[x] # NoNode => kind[trashParent'[x]] = "dir"
    <3>1. CASE x = n
      BY <3>1, <1>3, <1>5, <1>7, <1>8
    <3>2. CASE x # n /\ x \in unit
      <4>1. /\ trashName'[x] = trashName[x] /\ trashParent'[x] = trashParent[x]
            /\ parent'[x] = parent[x] /\ parent[x] \in unit /\ trashed[x] = Live
        BY <3>2, <1>1, <1>3, <1>4, <1>7
      <4> QED
        BY <3>2, <4>1, <1>8 DEF IInv, Shape, Units
    <3>3. CASE x # n /\ x \notin unit
      <4>1. /\ trashName'[x] = trashName[x] /\ trashParent'[x] = trashParent[x]
            /\ parent'[x] = parent[x] /\ trashed'[x] = trashed[x]
        BY <3>3, <1>1, <1>7, <1>8
      <4>2. ASSUME trashName[x] = NoName, trashed[x] # Live
            PROVE  trashed'[parent[x]] = trashed[x]
        <5>1. trashed[parent[x]] = trashed[x] /\ x # Root /\ parent[x] \in nodes
          BY <4>2 DEF IInv, Shape, Units, Placed
        <5>2. parent[x] \notin unit
          BY <5>1, <4>2, <1>4
        <5> QED
          BY <5>1, <5>2, <1>1, <1>8
      <4> QED
        BY <4>1, <4>2 DEF IInv, Shape, Units
    <3> QED
      BY <3>1, <3>2, <3>3
  <2> QED
    BY <2>1, <1>2 DEF Units
<1>15. OriginOutside'
  <2> SUFFICES ASSUME NEW q \in TrashRoots' PROVE \E S \in SUBSET nodes : Separates(S, q)'
    BY <1>2 DEF OriginOutside
  <2>1. CASE q = n
    <3>1. ASSUME NEW x \in nodes, parent'[x] \in unit PROVE x \in unit
      <4>1. x # n
        BY <3>1, <1>7, <1>5a
      <4>2. parent'[x] = parent[x]
        BY <4>1, <1>1, <1>7
      <4>3. trashed[parent[x]] = Live /\ parent[x] \in nodes
        BY <3>1, <4>2, <1>3, <1>4
      <4>4. CASE trashed[x] = Live
        BY <4>2, <4>4, <3>1, <1>3 DEF LiveNodes
      <4>5. CASE trashed[x] # Live
        <5>1. trashName[x] # NoName
          BY <4>3, <4>5 DEF IInv, Shape, Units
        <5>2. parent[x] = Root
          BY <5>1 DEF IInv, Shape, Units
        <5> QED
          BY <5>2, <4>2, <3>1, <1>5a
      <4> QED
        BY <4>4, <4>5
    <3>2. PICK S \in SUBSET nodes : S = unit
      BY <1>3
    <3>3. Separates(S, n)'
      BY <3>1, <3>2, <1>2, <1>3, <1>6, <1>7, <1>8 DEF Separates
    <3> QED
      BY <2>1, <3>3
  <2>2. CASE q # n
    <3>1. q \in TrashRoots /\ q \in NodeId
      BY <2>2, <1>1, <1>2, <1>7 DEF TrashRoots
    <3>2. PICK S \in SUBSET nodes : Separates(S, q)
      BY <3>1 DEF IInv, Shape, OriginOutside
    <3>3. S \cap unit = {}
      BY <3>2, <1>4 DEF Separates
    <3>4. \A x \in S : trashed'[x] # Live
      BY <3>2, <3>3, <1>1, <1>8 DEF Separates
    <3>5. ASSUME NEW x \in nodes, parent'[x] \in S PROVE x \in S
      <4>1. x # n
        BY <3>2, <3>5, <1>7 DEF Separates, IInv, Shape, Placed
      <4> QED
        BY <4>1, <3>2, <3>5, <1>1, <1>7 DEF Separates
    <3>6. trashParent'[q] = trashParent[q]
      BY <2>2, <3>1, <1>7
    <3> QED
      BY <3>2, <3>4, <3>5, <3>6, <1>2 DEF Separates
  <2> QED
    BY <2>1, <2>2
<1>16. Siblings'
  <2> SUFFICES ASSUME NEW x \in nodes \ {Root}, NEW y \in nodes \ {Root},
                      trashName'[x] = NoName, trashName'[y] = NoName,
                      parent'[x] = parent'[y], name[x] = name[y]
               PROVE  x = y
    BY <1>2 DEF Siblings
  <2>1. x # n /\ y # n
    BY <1>5, <1>7
  <2> QED
    BY <2>1, <1>1, <1>7 DEF IInv, Shape, Siblings
<1>17. Vacant'
  <2>1. ASSUME NEW x \in NodeId \ nodes PROVE x # n /\ x \notin unit
    BY <1>3
  <2> QED
    BY <2>1, <1>2, <1>7, <1>8 DEF IInv, Shape, Vacant
<1> QED
  BY <1>10, <1>11, <1>12, <1>13, <1>14, <1>15, <1>16, <1>17 DEF IInv, Shape

\* Restore keeps the invariant: it takes the unit out and finds it a live parent.
LEMMA RestoreKeepsIInv ==
  ASSUME IInv, NEW n \in nodes, NEW nm \in Name, NEW r, Restore(n, nm, r)
  PROVE  IInv'
<1> USE RootIsNode
<1> DEFINE same == {x \in nodes : trashed[x] = trashed[n]}
           unit == RestoreUnit(n)
           t == restoreTarget(n)
<1>1. /\ nodes \subseteq NodeId /\ LiveNodes \subseteq nodes /\ n \in NodeId /\ Root \in nodes
      /\ parent \in [NodeId -> NodeId \cup {NoNode}]
      /\ name \in [NodeId -> Name \cup {NoName}]
      /\ trashed \in [NodeId -> Stamp \cup {Live}]
      /\ trashParent \in [NodeId -> NodeId \cup {NoNode}]
      /\ trashName \in [NodeId -> Name \cup {NoName}]
      /\ n \in TrashRoots /\ trashed[n] # Live /\ n # Root
  BY DEF Restore, LiveNodes, TrashRoots, IInv, Shape, TypeOK, Units, Placed
<1>2. /\ parent' = [parent EXCEPT ![n] = t]
      /\ name' = [name EXCEPT ![n] = nm]
      /\ trashed' = [x \in NodeId |-> IF x \in unit THEN Live ELSE trashed[x]]
      /\ trashParent' = [trashParent EXCEPT ![n] = NoNode]
      /\ trashName' = [trashName EXCEPT ![n] = NoName]
      /\ bumpRevision(unit \cup {t})
      /\ UNCHANGED <<nodes, nextId, kind>>
      /\ NameFree(t, nm)
  BY DEF Restore, nextFreeName
<1>3. /\ unit \subseteq nodes /\ n \in unit
      /\ \A x \in same : parent[x] \in unit => x \in unit
      /\ \A x \in unit \ {n} : x \in same /\ parent[x] \in unit
  BY SubtreeFacts DEF RestoreUnit
<1>4. t \in LiveNodes /\ kind[t] = "dir"
  BY <1>1 DEF restoreTarget, liveDir, LiveNodes, IInv, Shape, Placed
<1> HIDE DEF unit, t
<1>5. \A x \in unit : trashed[x] = trashed[n] /\ trashed[x] # Live
  BY <1>1, <1>3
<1>6. Root \notin unit /\ t \notin unit
  BY <1>4, <1>5 DEF LiveNodes, IInv, Shape, Placed
<1>7. ASSUME NEW x \in nodes, parent[x] \in unit PROVE x \in unit
  <2>1. trashed[x] # Live
    <3>1. x # Root /\ trashed[parent[x]] # Live
      BY <1>1, <1>3, <1>5, <1>7 DEF IInv, Shape, Placed, TypeOK
    <3> QED
      BY <3>1 DEF IInv, Shape, Placed
  <2>2. trashName[x] = NoName
    BY <1>6, <1>7 DEF IInv, Shape, Units
  <2>3. x \in same
    BY <2>1, <2>2, <1>5, <1>7 DEF IInv, Shape, Units
  <2> QED
    BY <2>3, <1>3, <1>7
<1>8. \A x \in unit \ {n} : trashName[x] = NoName
  BY <1>3, <1>6 DEF IInv, Shape, Units
<1>9. /\ parent'[n] = t /\ name'[n] = nm /\ trashName'[n] = NoName /\ trashParent'[n] = NoNode
      /\ \A x \in NodeId \ {n} : /\ parent'[x] = parent[x] /\ name'[x] = name[x]
                                 /\ trashName'[x] = trashName[x]
                                 /\ trashParent'[x] = trashParent[x]
  BY <1>1, <1>2
<1>10. /\ \A x \in unit : trashed'[x] = Live
       /\ \A x \in NodeId \ unit : trashed'[x] = trashed[x]
  BY <1>1, <1>2, <1>3
<1>11. LiveNodes' = LiveNodes \cup unit
  BY <1>1, <1>2, <1>3, <1>10 DEF LiveNodes
<1>12. HeldIssued' /\ NoLostUpdate' /\ ClientsOK'
  <2>1. ASSUME NEW m \in nodes', m < nextId, m \notin unit \cup {t}
        PROVE  m \in nodes /\ View(m)' = View(m)
    <3>1. m \in nodes /\ parent'[m] = parent[m] /\ name'[m] = name[m] /\ trashed'[m] = trashed[m]
      BY <2>1, <1>1, <1>2, <1>3, <1>9, <1>10
    <3>2. ASSUME NEW x
          PROVE (x \in LiveNodes' /\ parent'[x] = m) <=> (x \in LiveNodes /\ parent[x] = m)
      <4>1. CASE x = n
        BY <4>1, <2>1, <1>1, <1>9 DEF LiveNodes
      <4>2. CASE x # n /\ x \in unit
        BY <4>2, <2>1, <1>1, <1>3, <1>5, <1>9 DEF LiveNodes
      <4>3. CASE x \notin unit /\ x \in LiveNodes
        BY <4>3, <1>1, <1>3, <1>9, <1>11
      <4> QED
        BY <4>1, <4>2, <4>3, <1>11
    <3> QED
      BY <3>1, <3>2, ViewSame
  <2>2. nodes' \subseteq NodeId /\ nextId' \in Nat /\ nextId <= nextId'
    BY <1>1, <1>2, BoundsAssumption DEF IInv, Shape, TypeOK
  <2>3. HeldIssued /\ NoLostUpdate /\ TypeOK /\ unit \cup {t} \in SUBSET nodes
    BY <1>1, <1>3, <1>4 DEF IInv, Shape
  <2> QED
    BY <2>1, <2>2, <2>3, <1>2, BumpKeeps
<1>13. TypeOK'
  <2>1. trashed' \in [NodeId -> Stamp \cup {Live}]
    BY <1>1, <1>2
  <2>2. parent' \in [NodeId -> NodeId \cup {NoNode}] /\ name' \in [NodeId -> Name \cup {NoName}]
    BY <1>1, <1>2, <1>4
  <2>3. trashParent' \in [NodeId -> NodeId \cup {NoNode}]
    BY <1>1, <1>2
  <2>4. trashName' \in [NodeId -> Name \cup {NoName}]
    BY <1>1, <1>2
  <2>5. \A x \in nodes : trashParent'[x] \in nodes \cup {NoNode}
    BY <1>1, <1>9 DEF IInv, Shape, TypeOK
  <2> QED
    BY <2>1, <2>2, <2>3, <2>4, <2>5, <1>2, <1>12 DEF IInv, Shape, TypeOK
<1>14. Placed'
  <2>1. ASSUME NEW x \in nodes \ {Root}
        PROVE  /\ parent'[x] \in nodes /\ kind[parent'[x]] = "dir" /\ name'[x] \in Name
               /\ trashed'[x] = Live => trashed'[parent'[x]] = Live
    <3>1. CASE x = n
      <4>1. t \in NodeId \ unit /\ t \in nodes /\ trashed[t] = Live
        BY <1>1, <1>4, <1>6 DEF LiveNodes
      <4> QED
        BY <3>1, <4>1, <1>4, <1>9, <1>10
    <3>2. CASE x # n
      <4>1. /\ parent'[x] = parent[x] /\ parent[x] \in nodes /\ kind[parent[x]] = "dir"
            /\ name'[x] \in Name
        BY <3>2, <1>1, <1>9 DEF IInv, Shape, Placed
      <4>2. ASSUME trashed'[x] = Live PROVE trashed'[parent[x]] = Live
        <5>1. CASE x \in unit
          BY <5>1, <3>2, <1>3, <1>10
        <5>2. CASE x \notin unit
          <6>1. trashed[parent[x]] = Live
            BY <5>2, <4>2, <1>1, <1>10 DEF IInv, Shape, Placed
          <6> QED
            BY <6>1, <4>1, <1>1, <1>10
        <5> QED
          BY <5>1, <5>2
      <4> QED
        BY <4>1, <4>2
    <3> QED
      BY <3>1, <3>2
  <2> QED
    BY <2>1, <1>1, <1>2, <1>6, <1>9, <1>10 DEF IInv, Shape, Placed
<1>15. NoLoop'
  <2> SUFFICES ASSUME NEW T \in SUBSET (nodes \ {Root}), T # {}, \A x \in T : parent'[x] \in T
               PROVE  FALSE
    BY <1>2 DEF NoLoop, Acyclic
  <2> DEFINE U == T \cap LiveNodes
  <2>1. ASSUME NEW x \in U PROVE parent[x] \in U
    <3>1. x # n /\ x \in nodes \ {Root} /\ trashed[x] = Live
      BY <1>1 DEF LiveNodes
    <3>2. parent[x] \in LiveNodes /\ parent'[x] = parent[x]
      BY <3>1, <1>1, <1>9 DEF IInv, Shape, Placed, LiveNodes
    <3> QED
      BY <3>2
  <2>2. U \in SUBSET (nodes \ {Root})
    OBVIOUS
  <2>3. U = {}
    <3> HIDE DEF U
    <3> QED
      BY <2>1, <2>2 DEF IInv, Shape, NoLoop, Acyclic
  <2>4. n \notin T
    BY <2>3, <1>4, <1>9
  <2>5. \A x \in T : parent[x] \in T
    BY <2>4, <1>1, <1>9
  <2> QED
    BY <2>5 DEF IInv, Shape, NoLoop, Acyclic
<1>16. Units'
  <2>1. ASSUME NEW x \in nodes
        PROVE  /\ trashName'[x] # NoName => trashed'[x] # Live /\ parent'[x] = Root
               /\ trashName'[x] = NoName => trashParent'[x] = NoNode
               /\ trashName'[x] = NoName /\ trashed'[x] # Live => trashed'[parent'[x]] = trashed'[x]
               /\ trashParent'[x] # NoNode => kind[trashParent'[x]] = "dir"
    <3>1. CASE x = n
      BY <3>1, <1>3, <1>9, <1>10
    <3>2. CASE x # n /\ x \in unit
      BY <3>2, <1>1, <1>8, <1>9, <1>10 DEF IInv, Shape, Units
    <3>3. CASE x # n /\ x \notin unit
      <4>1. /\ trashName'[x] = trashName[x] /\ trashParent'[x] = trashParent[x]
            /\ parent'[x] = parent[x] /\ trashed'[x] = trashed[x]
        BY <3>3, <1>1, <1>9, <1>10
      <4>2. ASSUME trashName[x] = NoName, trashed[x] # Live
            PROVE  trashed'[parent[x]] = trashed[x]
        <5>1. trashed[parent[x]] = trashed[x] /\ parent[x] \in nodes
          BY <4>2 DEF IInv, Shape, Units, Placed
        <5>2. parent[x] \notin unit
          BY <3>3, <1>7
        <5> QED
          BY <5>1, <5>2, <1>1, <1>10
      <4> QED
        BY <4>1, <4>2 DEF IInv, Shape, Units
    <3> QED
      BY <3>1, <3>2, <3>3
  <2> QED
    BY <2>1, <1>2 DEF Units
<1>17. OriginOutside'
  <2> SUFFICES ASSUME NEW q \in TrashRoots' PROVE \E S \in SUBSET nodes : Separates(S, q)'
    BY <1>2 DEF OriginOutside
  <2>1. q \in nodes /\ q # n /\ trashName[q] # NoName
    BY <1>1, <1>2, <1>9 DEF TrashRoots
  <2>2. q \in TrashRoots /\ q \notin unit /\ trashParent'[q] = trashParent[q]
    BY <2>1, <1>1, <1>8, <1>9 DEF TrashRoots
  <2>3. PICK S \in SUBSET nodes : Separates(S, q)
    BY <2>2 DEF IInv, Shape, OriginOutside
  <2>4. PICK R \in SUBSET nodes : R = S \ unit
    OBVIOUS
  <2>5. \A x \in R : trashed'[x] # Live
    BY <2>3, <2>4, <1>1, <1>10 DEF Separates
  <2>6. ASSUME NEW x \in nodes, parent'[x] \in R PROVE x \in R
    <3>1. x # n
      BY <2>3, <2>4, <2>6, <1>4, <1>9 DEF Separates, LiveNodes
    <3>2. parent'[x] = parent[x]
      BY <3>1, <1>1, <1>9
    <3> QED
      BY <3>1, <3>2, <2>3, <2>4, <2>6, <1>3 DEF Separates
  <2>7. q \in R /\ trashParent'[q] \notin R
    BY <2>2, <2>3, <2>4 DEF Separates
  <2> QED
    BY <2>5, <2>6, <2>7, <1>2 DEF Separates
<1>18. Siblings'
  <2> SUFFICES ASSUME NEW x \in nodes \ {Root}, NEW y \in nodes \ {Root},
                      trashName'[x] = NoName, trashName'[y] = NoName,
                      parent'[x] = parent'[y], name'[x] = name'[y]
               PROVE  x = y
    BY <1>2 DEF Siblings
  <2>1. ASSUME NEW z \in nodes \ {Root}, z # n, trashName'[z] = NoName, parent'[z] = t
        PROVE  name'[z] # nm
    <3>1. trashName[z] = NoName /\ parent[z] = t /\ name'[z] = name[z]
      BY <2>1, <1>1, <1>9
    <3>2. z \in LiveNodes
      BY <3>1, <1>4 DEF IInv, Shape, Units, LiveNodes
    <3> QED
      BY <3>1, <3>2, <1>2 DEF NameFree
  <2>2. CASE x # n /\ y # n
    BY <2>2, <1>1, <1>9 DEF IInv, Shape, Siblings
  <2>3. ASSUME x = n, y # n PROVE FALSE
    BY <2>1, <2>3, <1>9
  <2>4. ASSUME y = n, x # n PROVE FALSE
    BY <2>1, <2>4, <1>9
  <2> QED
    BY <2>2, <2>3, <2>4
<1>19. Vacant'
  <2>1. ASSUME NEW x \in NodeId \ nodes PROVE x # n /\ x \notin unit
    BY <1>3
  <2> QED
    BY <2>1, <1>2, <1>9, <1>10 DEF IInv, Shape, Vacant
<1> QED
  BY <1>12, <1>13, <1>14, <1>15, <1>16, <1>17, <1>18, <1>19 DEF IInv, Shape

\* Everything beneath a trash root is trashed, and destroying trash roots
\* takes whole subtrees: what is left is closed under taking parents.
LEMMA CascadeFacts ==
  ASSUME IInv, NEW S \in SUBSET TrashRoots
  PROVE  /\ Cascade(S) \subseteq nodes
         /\ \A x \in Cascade(S) : trashed[x] # Live
         /\ \A x \in nodes : parent[x] \in Cascade(S) => x \in Cascade(S)
<1>1. TrashRoots \subseteq nodes
  BY DEF TrashRoots
<1> DEFINE dead == {x \in nodes : trashed[x] # Live}
<1>2. \A x \in nodes : parent[x] \in dead => x \in dead
  BY RootIsNode DEF IInv, Shape, Placed, TypeOK
<1>3. ASSUME NEW r \in S
      PROVE  /\ Subtree(r, nodes) \subseteq nodes /\ Subtree(r, nodes) \subseteq dead
             /\ \A x \in nodes : parent[x] \in Subtree(r, nodes) => x \in Subtree(r, nodes)
  <2>1. r \in nodes /\ r \in dead
    BY <1>1 DEF IInv, Shape, Units, TrashRoots
  <2>2. dead \in SUBSET nodes
    OBVIOUS
  <2> HIDE DEF dead
  <2>3. Subtree(r, nodes) \subseteq dead
    BY <2>1, <2>2, <1>2, SubtreeLeast
  <2> QED
    BY <2>1, <2>3, SubtreeFacts
<1> QED
  BY <1>3 DEF Cascade

\* TrashEmpty keeps the invariant, origins of surviving rows included.
LEMMA TrashEmptyKeepsIInv ==
  ASSUME IInv, NEW S \in SUBSET nodes, NEW cutoff \in Stamp, TrashEmpty(S, cutoff)
  PROVE  IInv'
<1> USE RootIsNode
<1> DEFINE gone == Cascade(S)
           left == nodes \ gone
<1>1. /\ nodes \subseteq NodeId /\ Root \in nodes /\ LiveNodes \subseteq nodes
      /\ kind \in [NodeId -> {"dir", "file"}]
      /\ parent \in [NodeId -> NodeId \cup {NoNode}]
      /\ name \in [NodeId -> Name \cup {NoName}]
      /\ trashed \in [NodeId -> Stamp \cup {Live}]
      /\ trashParent \in [NodeId -> NodeId \cup {NoNode}]
      /\ trashName \in [NodeId -> Name \cup {NoName}]
  BY DEF LiveNodes, IInv, Shape, TypeOK
<1>2. /\ S \in SUBSET TrashRoots
      /\ nodes' = left
      /\ kind' = [x \in NodeId |-> IF x \in left THEN kind[x] ELSE "file"]
      /\ parent' = [x \in NodeId |-> IF x \in left THEN parent[x] ELSE NoNode]
      /\ name' = [x \in NodeId |-> IF x \in left THEN name[x] ELSE NoName]
      /\ trashed' = [x \in NodeId |-> IF x \in left THEN trashed[x] ELSE Live]
      /\ trashParent' = [x \in NodeId |-> IF x \in left THEN OriginAfter(x, gone) ELSE NoNode]
      /\ trashName' = [x \in NodeId |-> IF x \in left THEN trashName[x] ELSE NoName]
      /\ UNCHANGED <<nextId, held, seen>>
  BY DEF TrashEmpty
<1>3. /\ gone \subseteq nodes
      /\ \A x \in gone : trashed[x] # Live
      /\ \A x \in nodes : parent[x] \in gone => x \in gone
  BY <1>2, CascadeFacts
<1> HIDE DEF gone
<1>4. Root \in left /\ LiveNodes \subseteq left /\ left \subseteq nodes /\ left \subseteq NodeId
  BY <1>1, <1>3 DEF LiveNodes, IInv, Shape, Placed
<1> HIDE DEF left
<1>5. \A x \in left : /\ kind'[x] = kind[x] /\ parent'[x] = parent[x] /\ name'[x] = name[x]
                      /\ trashed'[x] = trashed[x] /\ trashName'[x] = trashName[x]
                      /\ trashParent'[x] = OriginAfter(x, gone)
  BY <1>2, <1>4
<1>6. \A x \in left : \/ trashParent'[x] = NoNode
                      \/ trashParent'[x] = trashParent[x] /\ trashParent[x] \in left
  BY <1>3, <1>4, <1>5 DEF OriginAfter, left, IInv, Shape, TypeOK
<1>7. \A x \in left \ {Root} : parent[x] \in left
  BY <1>3, <1>4 DEF left, IInv, Shape, Placed
<1>8. LiveNodes' = LiveNodes
  BY <1>1, <1>2, <1>4, <1>5 DEF LiveNodes
<1>9. NoLostUpdate'
  <2> SUFFICES ASSUME NEW c \in Client, held[c] \in left PROVE seen[c] = View(held[c])'
    BY <1>2 DEF NoLostUpdate
  <2>1. PICK m \in left : m = held[c]
    OBVIOUS
  <2>2. \A x : (x \in LiveNodes' /\ parent'[x] = m) <=> (x \in LiveNodes /\ parent[x] = m)
    BY <1>4, <1>5, <1>8
  <2>3. View(m)' = View(m)
    BY <2>2, <1>5, ViewSame
  <2>4. seen[c] = View(m)
    BY <2>1, <1>4 DEF IInv, NoLostUpdate
  <2>5. seen[c] = View(m)'
    BY <2>3, <2>4
  <2> QED
    BY <2>1, <2>5, <1>2 DEF View
<1>10. HeldIssued'
  BY <1>2 DEF IInv, HeldIssued
<1>11. TypeOK'
  <2>1. /\ kind' \in [NodeId -> {"dir", "file"}]
        /\ parent' \in [NodeId -> NodeId \cup {NoNode}]
    BY <1>1, <1>2
  <2>2. name' \in [NodeId -> Name \cup {NoName}] /\ trashName' \in [NodeId -> Name \cup {NoName}]
    BY <1>1, <1>2
  <2>3. trashed' \in [NodeId -> Stamp \cup {Live}]
    BY <1>1, <1>2
  <2>4. trashParent' \in [NodeId -> NodeId \cup {NoNode}]
    BY <1>1, <1>2 DEF OriginAfter
  <2>5. \A x \in left : trashParent'[x] \in left \cup {NoNode}
    BY <1>6
  <2>6. \A x \in left : x < nextId
    BY <1>4 DEF IInv, Shape, TypeOK
  <2> QED
    BY <2>1, <2>2, <2>3, <2>4, <2>5, <2>6, <1>2, <1>4 DEF IInv, Shape, TypeOK, ClientsOK
<1>12. Placed'
  <2>1. ASSUME NEW x \in left \ {Root}
        PROVE  /\ parent'[x] \in left /\ kind'[parent'[x]] = "dir" /\ name'[x] \in Name
               /\ trashed'[x] = Live => trashed'[parent'[x]] = Live
    BY <1>4, <1>5, <1>7 DEF IInv, Shape, Placed
  <2> QED
    BY <2>1, <1>2, <1>4, <1>5 DEF IInv, Shape, Placed
<1>13. NoLoop'
  <2> SUFFICES ASSUME NEW T \in SUBSET (left \ {Root}), T # {}, \A x \in T : parent'[x] \in T
               PROVE  FALSE
    BY <1>2 DEF NoLoop, Acyclic
  <2>1. T \in SUBSET (nodes \ {Root}) /\ \A x \in T : parent[x] \in T
    BY <1>4, <1>5
  <2> QED
    BY <2>1 DEF IInv, Shape, NoLoop, Acyclic
<1>14. Units'
  <2>1. ASSUME NEW x \in left
        PROVE  /\ trashName'[x] # NoName => trashed'[x] # Live /\ parent'[x] = Root
               /\ trashName'[x] = NoName => trashParent'[x] = NoNode
               /\ trashName'[x] = NoName /\ trashed'[x] # Live => trashed'[parent'[x]] = trashed'[x]
               /\ trashParent'[x] # NoNode => kind'[trashParent'[x]] = "dir"
    <3>1. /\ trashName[x] # NoName => trashed[x] # Live /\ parent[x] = Root
          /\ trashName[x] = NoName => trashParent[x] = NoNode
          /\ trashName[x] = NoName /\ trashed[x] # Live => trashed[parent[x]] = trashed[x]
          /\ trashParent[x] # NoNode => kind[trashParent[x]] = "dir"
      BY <1>4 DEF IInv, Shape, Units
    <3>2. trashed[x] # Live => parent[x] \in left
      BY <1>7 DEF IInv, Shape, Placed
    <3> QED
      BY <3>1, <3>2, <1>5, <1>6
  <2> QED
    BY <2>1, <1>2 DEF Units
<1>15. OriginOutside'
  <2> SUFFICES ASSUME NEW q \in TrashRoots' PROVE \E R \in SUBSET left : Separates(R, q)'
    BY <1>2 DEF OriginOutside
  <2>1. q \in left /\ q \in TrashRoots
    BY <1>2, <1>4, <1>5 DEF TrashRoots
  <2>2. PICK W \in SUBSET nodes : Separates(W, q)
    BY <2>1 DEF IInv, Shape, OriginOutside
  <2>3. PICK R \in SUBSET left : R = W \cap left
    OBVIOUS
  <2>4. q \in R /\ trashParent'[q] \notin R
    BY <2>1, <2>2, <2>3, <1>4, <1>6 DEF Separates
  <2>5. \A x \in R : trashed'[x] # Live
    BY <2>2, <2>3, <1>5 DEF Separates
  <2>6. \A x \in left : parent'[x] \in R => x \in R
    BY <2>2, <2>3, <1>4, <1>5 DEF Separates
  <2> QED
    BY <2>4, <2>5, <2>6, <1>2 DEF Separates
<1>16. Siblings'
  <2> SUFFICES ASSUME NEW x \in left \ {Root}, NEW y \in left \ {Root},
                      trashName'[x] = NoName, trashName'[y] = NoName,
                      parent'[x] = parent'[y], name'[x] = name'[y]
               PROVE  x = y
    BY <1>2 DEF Siblings
  <2>1. /\ trashName[x] = NoName /\ trashName[y] = NoName
        /\ parent[x] = parent[y] /\ name[x] = name[y]
    BY <1>5
  <2> QED
    BY <2>1, <1>4 DEF IInv, Shape, Siblings
<1>17. Vacant'
  BY <1>2 DEF Vacant
<1> QED
  BY <1>9, <1>10, <1>11, <1>12, <1>13, <1>14, <1>15, <1>16, <1>17 DEF IInv, Shape

\* A read changes nothing but its reader.
LEMMA ReadKeepsIInv ==
  ASSUME IInv, NEW c \in Client, NEW n \in nodes, NodeViewByID(c, n)
  PROVE  IInv'
<1>1. UNCHANGED <<nodes, nextId, kind, parent, name, trashed, trashParent, trashName>>
  BY DEF NodeViewByID, rows
<1>2. /\ held \in [Client -> NodeId \cup {NoNode}] /\ seen \in [Client -> NodeView]
      /\ nodes \subseteq NodeId /\ View(n) \in NodeView
  BY ViewIsView DEF IInv, Shape, TypeOK, ClientsOK
<1>3. /\ ClientsOK'
      /\ held'[c] = n /\ seen'[c] = View(n)
      /\ \A b \in Client \ {c} : held'[b] = held[b] /\ seen'[b] = seen[b]
  BY <1>2 DEF NodeViewByID, ClientsOK
<1>4. TypeOK'
  BY <1>1, <1>3 DEF IInv, Shape, TypeOK
<1>5. Placed' /\ Units' /\ Siblings' /\ Vacant' /\ NoLoop'
  BY <1>1 DEF IInv, Shape, Placed, Units, Siblings, Vacant, NoLoop, Acyclic
<1>6. OriginOutside'
  BY <1>1 DEF IInv, Shape, OriginOutside, TrashRoots, Separates
<1>7. HeldIssued'
  BY <1>1, <1>3 DEF IInv, Shape, TypeOK, HeldIssued
<1>8. NoLostUpdate'
  <2> SUFFICES ASSUME NEW b \in Client, held'[b] \in nodes' PROVE seen'[b] = View(held[b])'
    BY DEF NoLostUpdate
  <2>1. seen'[b] = View(held'[b])
    <3>1. CASE b = c
      BY <3>1, <1>3
    <3>2. CASE b # c
      <4>1. held'[b] = held[b] /\ seen'[b] = seen[b]
        BY <3>2, <1>3
      <4> QED
        BY <4>1, <1>1 DEF IInv, NoLostUpdate
    <3> QED
      BY <3>1, <3>2
  <2> QED
    BY <2>1, <1>1 DEF View, LiveNodes
<1> QED
  BY <1>4, <1>5, <1>6, <1>7, <1>8 DEF IInv, Shape

-----------------------------------------------------------------------------
(***************************************************************************)
(* The invariant is inductive.                                             *)
(***************************************************************************)
LEMMA StutterIInv == IInv /\ UNCHANGED vars => IInv'
<1> SUFFICES ASSUME IInv, UNCHANGED vars PROVE IInv'
  OBVIOUS
<1>1. UNCHANGED <<nodes, nextId, kind, parent, name, trashed, trashParent, trashName, held, seen>>
  BY DEF vars, rows
<1>2. TypeOK'
  BY <1>1 DEF IInv, Shape, TypeOK, ClientsOK
<1>3. Placed' /\ Units' /\ Siblings' /\ Vacant' /\ NoLoop'
  BY <1>1 DEF IInv, Shape, Placed, Units, Siblings, Vacant, NoLoop, Acyclic
<1>4. OriginOutside'
  BY <1>1 DEF IInv, Shape, OriginOutside, TrashRoots, Separates
<1>5. HeldIssued' /\ NoLostUpdate'
  BY <1>1 DEF IInv, HeldIssued, NoLostUpdate, View, LiveNodes
<1> QED
  BY <1>2, <1>3, <1>4, <1>5 DEF IInv, Shape

\* IInv is inductive.
LEMMA NextIInv == IInv /\ [Next]_vars => IInv'
<1> SUFFICES ASSUME IInv, [Next]_vars PROVE IInv'
  OBVIOUS
<1>1. CASE UNCHANGED vars
  BY <1>1, StutterIInv
<1>2. ASSUME NEW c \in Client, NEW n \in nodes, NodeViewByID(c, n) PROVE IInv'
  BY <1>2, ReadKeepsIInv
<1>3. ASSUME NEW p \in nodes, NEW nm \in GivenName, Mkdir(p, nm) PROVE IInv'
  BY <1>3, InsertKeepsIInv, GivenIsName DEF Mkdir
<1>4. ASSUME NEW p \in nodes, NEW nm \in GivenName, CreateFile(p, nm) PROVE IInv'
  BY <1>4, InsertKeepsIInv, GivenIsName DEF CreateFile
<1>5. ASSUME NEW p \in nodes, NEW nm \in GivenName, IngestFile(p, nm) PROVE IInv'
  <2>1. PICK k \in 1..MaxNode : InsertNode(p, suffixedName(nm, k), "file")
    BY <1>5 DEF IngestFile
  <2>2. k \in Nat /\ nm \in Name
    BY GivenIsName, BoundsAssumption
  <2>3. suffixedName(nm, k) \in Name
    BY <2>2, SuffixedIsName
  <2> QED
    BY <2>1, <2>3, InsertKeepsIInv
<1>6. ASSUME NEW n \in nodes, NEW p \in nodes, NEW nm \in GivenName, NEW r, Move(n, p, nm, r)
      PROVE  IInv'
  BY <1>6, MoveKeepsIInv, GivenIsName
<1>7. ASSUME NEW M \in Batches, NEW to \in [M -> nodes], NEW as \in [M -> GivenName],
             NEW r, BatchMove(M, to, as, r)
      PROVE  IInv'
  BY <1>7, BatchMoveKeepsIInv
<1>8. ASSUME NEW n \in nodes, NEW r, NEW now \in Stamp, Trash(n, r, now) PROVE IInv'
  BY <1>8, TrashKeepsIInv
<1>9. ASSUME NEW n \in nodes, NEW r, NEW k \in 1..MaxNode,
             Restore(n, suffixedName(trashName[n], k), r)
      PROVE  IInv'
  <2>1. k \in Nat /\ trashName[n] \in Name
    BY <1>9, BoundsAssumption DEF Restore, TrashRoots, IInv, Shape, TypeOK
  <2>2. PICK nm \in Name : nm = suffixedName(trashName[n], k)
    BY <2>1, SuffixedIsName
  <2>3. Restore(n, nm, r)
    BY <1>9, <2>2
  <2> QED
    BY <2>3, RestoreKeepsIInv
<1>10. ASSUME NEW S \in SUBSET nodes, NEW cutoff \in Stamp, TrashEmpty(S, cutoff) PROVE IInv'
  BY <1>10, TrashEmptyKeepsIInv
<1> QED
  BY <1>1, <1>2, <1>3, <1>4, <1>5, <1>6, <1>7, <1>8, <1>9, <1>10 DEF Next

\* The inductive invariant holds in every reachable state.
THEOREM SpecIInv == Spec => []IInv
<1>1. Init => IInv
  BY InitIInv
<1>2. IInv /\ [Next]_vars => IInv'
  BY NextIInv
<1> QED
  BY <1>1, <1>2, PTL DEF Spec

-----------------------------------------------------------------------------
(***************************************************************************)
(* From local facts back to reachability.                                  *)
(***************************************************************************)
\* Every row is below the root: the rows that are not would be a set closed
\* under taking parents.
LEMMA IInvTreeSound == IInv => TreeSound
<1> SUFFICES ASSUME IInv PROVE TreeSound
  OBVIOUS
<1> USE RootIsNode
<1>1. nodes \subseteq NodeId /\ Root \in nodes
  BY DEF IInv, Shape, TypeOK
<1>2. \A n \in nodes \ {Root} : parent[n] \in nodes /\ kind[parent[n]] = "dir"
  BY DEF IInv, Shape, Placed
<1>3. {n \in nodes : parent[n] = NoNode} = {Root}
  BY <1>1, <1>2 DEF IInv, Shape, Placed
<1>4. Subtree(Root, nodes) = nodes
  <2> DEFINE T == nodes \ Subtree(Root, nodes)
  <2>1. /\ Root \in Subtree(Root, nodes) /\ Subtree(Root, nodes) \subseteq nodes
        /\ \A x \in nodes : parent[x] \in Subtree(Root, nodes) => x \in Subtree(Root, nodes)
    BY <1>1, SubtreeFacts
  <2>2. T \in SUBSET (nodes \ {Root}) /\ \A x \in T : parent[x] \in T
    BY <2>1, <1>2
  <2> HIDE DEF T
  <2>3. T = {}
    BY <2>2 DEF IInv, Shape, NoLoop, Acyclic
  <2> QED
    BY <2>1, <2>3 DEF T
<1>5. \A n \in nodes : trashParent[n] # NoNode => kind[trashParent[n]] = "dir"
  BY DEF IInv, Shape, Units
<1>6. \A n \in LiveNodes \ {Root} : parent[n] \in LiveNodes
  BY DEF IInv, Shape, Placed, LiveNodes
<1> QED
  BY <1>2, <1>3, <1>4, <1>5, <1>6 DEF TreeSound

\* What is beneath a trash root carries its stamp, and two trash roots share
\* no row.
LEMMA TrashUnits ==
  ASSUME IInv
  PROVE  /\ \A r \in TrashRoots : \A x \in Subtree(r, nodes) :
                trashed[x] = trashed[r] /\ trashed[x] # Live
         /\ \A r, q \in TrashRoots : r # q => Subtree(r, nodes) \cap Subtree(q, nodes) = {}
<1> USE RootIsNode
<1>1. TrashRoots \subseteq nodes /\ Root \notin TrashRoots /\ nodes \subseteq NodeId
  BY DEF TrashRoots, IInv, Shape, Placed, TypeOK
<1>2. ASSUME NEW r \in TrashRoots, NEW x \in Subtree(r, nodes)
      PROVE  trashed[x] = trashed[r] /\ trashed[x] # Live
  <2> DEFINE W == {y \in nodes : trashed[y] = trashed[r]}
  <2>1. trashed[r] # Live /\ r \in W
    BY <1>1 DEF IInv, Shape, Units, TrashRoots
  <2>2. ASSUME NEW y \in nodes, parent[y] \in W PROVE y \in W
    <3>1. y # Root /\ trashed[y] # Live
      BY <1>1, <2>1, <2>2 DEF IInv, Shape, Placed
    <3>2. trashName[y] = NoName
      BY <2>1, <2>2 DEF IInv, Shape, Units, Placed
    <3> QED
      BY <3>1, <3>2, <2>2 DEF IInv, Shape, Units
  <2>3. W \in SUBSET nodes
    OBVIOUS
  <2> HIDE DEF W
  <2>4. x \in W
    BY <2>1, <2>2, <2>3, <1>1, SubtreeLeast
  <2> QED
    BY <2>1, <2>4 DEF W
<1>3. ASSUME NEW r \in TrashRoots, NEW q \in TrashRoots, r # q
      PROVE  r \notin Subtree(q, nodes)
  <2>1. parent[r] = Root
    BY DEF IInv, Shape, Units, TrashRoots
  <2>2. /\ \A x \in Subtree(q, nodes) \ {q} : parent[x] \in Subtree(q, nodes)
    BY <1>1, SubtreeFacts
  <2>3. Root \notin Subtree(q, nodes)
    BY <1>2 DEF IInv, Shape, Placed
  <2> QED
    BY <1>3, <2>1, <2>2, <2>3
<1>4. ASSUME NEW r \in TrashRoots, NEW q \in TrashRoots, r # q
      PROVE  Subtree(r, nodes) \cap Subtree(q, nodes) = {}
  <2> DEFINE T == Subtree(r, nodes) \cap Subtree(q, nodes)
  <2>1. /\ Subtree(r, nodes) \subseteq nodes
        /\ \A x \in Subtree(r, nodes) \ {r} : parent[x] \in Subtree(r, nodes)
        /\ \A x \in Subtree(q, nodes) \ {q} : parent[x] \in Subtree(q, nodes)
    BY <1>1, SubtreeFacts
  <2>2. r \notin T /\ q \notin T
    BY <1>3, <1>4
  <2>3. Root \notin T
    BY <1>2 DEF IInv, Shape, Placed
  <2>4. T \in SUBSET (nodes \ {Root}) /\ \A x \in T : parent[x] \in T
    BY <2>1, <2>2, <2>3
  <2> HIDE DEF T
  <2>5. T = {}
    BY <2>4 DEF IInv, Shape, NoLoop, Acyclic
  <2> QED
    BY <2>5 DEF T
<1> QED
  BY <1>2, <1>4

\* The inductive invariant gives the trash part of validateMetadataRelations.
LEMMA IInvTrashSound == IInv => TrashSound
<1> SUFFICES ASSUME IInv PROVE TrashSound
  OBVIOUS
<1> USE RootIsNode
<1>1. TrashRoots \subseteq nodes /\ Root \notin TrashRoots
  BY DEF TrashRoots, IInv, Shape, Placed
<1>2. ASSUME NEW r \in TrashRoots
      PROVE  parent[r] = Root /\ trashParent[r] \notin Subtree(r, nodes)
  <2>1. PICK W \in SUBSET nodes : Separates(W, r)
    BY DEF IInv, Shape, OriginOutside
  <2>2. Subtree(r, nodes) \subseteq W
    BY <2>1, <1>1, SubtreeLeast DEF Separates
  <2> QED
    BY <2>1, <2>2 DEF Separates, IInv, Shape, Units, TrashRoots
<1>3. ASSUME NEW n \in nodes \ LiveNodes
      PROVE  \E r \in TrashRoots : \A q \in TrashRoots : n \in Subtree(q, nodes) <=> q = r
  <2> DEFINE T == {x \in nodes \ LiveNodes : \A q \in TrashRoots : x \notin Subtree(q, nodes)}
  <2>1. ASSUME NEW x \in T PROVE parent[x] \in T
    <3>1. \A q \in TrashRoots : q \in Subtree(q, nodes)
      BY <1>1, SubtreeFacts
    <3>2. x \notin TrashRoots /\ trashed[x] # Live /\ x \in nodes
      BY <3>1 DEF LiveNodes
    <3>3. trashed[parent[x]] # Live /\ x # Root
      BY <3>2 DEF IInv, Shape, Units, TrashRoots, Placed
    <3>4. parent[x] \in nodes \ LiveNodes
      BY <3>2, <3>3 DEF IInv, Shape, Placed, LiveNodes
    <3>5. ASSUME NEW q \in TrashRoots PROVE parent[x] \notin Subtree(q, nodes)
      BY <3>2, <1>1, SubtreeFacts
    <3> QED
      BY <3>4, <3>5
  <2>2. T \in SUBSET (nodes \ {Root})
    BY DEF LiveNodes, IInv, Shape, Placed
  <2>3. n \notin T
    <3> HIDE DEF T
    <3> QED
      BY <2>1, <2>2 DEF IInv, Shape, NoLoop, Acyclic
  <2>4. PICK r \in TrashRoots : n \in Subtree(r, nodes)
    BY <2>3
  <2>5. \A q \in TrashRoots : n \in Subtree(q, nodes) <=> q = r
    BY <2>4, TrashUnits
  <2> QED
    BY <2>5
<1> QED
  BY <1>2, <1>3, TrashUnits DEF TrashSound

\* The inductive invariant gives the unique index on live siblings.
LEMMA IInvSiblings == IInv => LiveSiblingNamesUnique
<1> SUFFICES ASSUME IInv, NEW x \in LiveNodes, NEW y \in LiveNodes,
                    parent[x] = parent[y], name[x] = name[y]
             PROVE  x = y
  BY DEF LiveSiblingNamesUnique
<1>1. x \in nodes /\ y \in nodes /\ trashName[x] = NoName /\ trashName[y] = NoName
  BY DEF LiveNodes, IInv, Shape, Units
<1>2. \A z \in nodes \ {Root} : parent[z] # NoNode
  BY RootIsNode DEF IInv, Shape, Placed, TypeOK
<1>3. parent[Root] = NoNode
  BY DEF IInv, Shape, Placed
<1> QED
  BY <1>1, <1>2, <1>3 DEF IInv, Shape, Siblings

-----------------------------------------------------------------------------
\* Rows keep their types, references never dangle, and ids at or above the
\* allocator are never in use (schema.sql, table nodes).
THEOREM TreeTypeCorrect == Spec => []TypeOK
<1>1. IInv => TypeOK
  BY DEF IInv, Shape
<1> QED
  BY <1>1, SpecIInv, PTL

\* The tree part of validateMetadataRelations holds in every reachable state.
THEOREM TreeAlwaysSound == Spec => []TreeSound
  BY SpecIInv, IInvTreeSound, PTL

\* The trash part of validateMetadataRelations holds in every reachable state.
THEOREM TrashAlwaysSound == Spec => []TrashSound
  BY SpecIInv, IInvTrashSound, PTL

\* The comment in restoreNodeTx is right: a restored unit never collides with
\* a live sibling.
THEOREM NamesAlwaysUnique == Spec => []LiveSiblingNamesUnique
  BY SpecIInv, IInvSiblings, PTL

\* A matching revision is proof that the client's view is current.
THEOREM RevisionsGuardViews == Spec => []NoLostUpdate
<1>1. IInv => NoLostUpdate
  BY DEF IInv
<1> QED
  BY <1>1, SpecIInv, PTL

\* A step that deletes no row destroys no unit out of order.
LEMMA NothingDestroyed == ASSUME nodes \subseteq nodes' PROVE DestroysOldest
  BY DEF DestroysOldest

\* Every step destroys the oldest units first, and whole.
LEMMA NextDestroysOldest == IInv /\ [Next]_vars => [DestroysOldest]_vars
<1> SUFFICES ASSUME IInv, Next PROVE DestroysOldest
  OBVIOUS
<1>1. ASSUME NEW S \in SUBSET nodes, NEW cutoff \in Stamp, TrashEmpty(S, cutoff)
      PROVE  DestroysOldest
  <2>1. /\ nodes' = nodes \ Cascade(S) /\ S \in SUBSET TrashRoots
        /\ \A r \in S : trashed[r] <= cutoff
        /\ \A q \in TrashRoots \ S : trashed[q] <= cutoff => \A r \in S : TrashedBefore(r, q)
    BY <1>1 DEF TrashEmpty
  <2>2. Cascade(S) \subseteq nodes /\ \A x \in Cascade(S) : trashed[x] # Live
    BY <2>1, CascadeFacts
  <2>3. nodes \ nodes' = Cascade(S)
    BY <2>1, <2>2
  <2>4. TrashRoots \subseteq nodes /\ \A q \in TrashRoots : q \in Subtree(q, nodes)
    <3>1. TrashRoots \subseteq nodes
      BY DEF TrashRoots
    <3> QED
      BY <3>1, SubtreeFacts
  <2>5. ASSUME NEW q \in TrashRoots \ S
        PROVE  Subtree(q, nodes) \cap Cascade(S) = {}
    <3>1. \A r \in S : Subtree(q, nodes) \cap Subtree(r, nodes) = {}
      BY <2>1, TrashUnits
    <3> QED
      BY <3>1 DEF Cascade
  <2>6. S \subseteq Cascade(S)
    <3>1. \A r \in S : r \in Subtree(r, nodes)
      BY <2>1, <2>4
    <3> QED
      BY <3>1 DEF Cascade
  <2>7. \A q \in TrashRoots : q \in Cascade(S) <=> q \in S
    BY <2>4, <2>5, <2>6
  <2>8. ASSUME NEW q \in TrashRoots \ Cascade(S), NEW r \in TrashRoots \cap Cascade(S)
        PROVE  trashed[r] <= trashed[q]
    <3>1. q \in TrashRoots \ S /\ r \in S
      BY <2>7
    <3>2. trashed[q] \in Nat /\ trashed[r] \in Nat /\ cutoff \in Nat
      BY <2>4, BoundsAssumption DEF IInv, Shape, TypeOK, Stamp, Live
    <3>3. CASE trashed[q] <= cutoff
      BY <3>1, <3>2, <3>3, <2>1 DEF TrashedBefore
    <3>4. CASE ~ (trashed[q] <= cutoff)
      BY <3>1, <3>2, <3>4, <2>1
    <3> QED
      BY <3>3, <3>4
  <2>9. Cascade(S) \cap LiveNodes = {}
    BY <2>2 DEF LiveNodes
  <2> QED
    BY <2>3, <2>5, <2>7, <2>8, <2>9 DEF DestroysOldest
<1>2. CASE nodes \subseteq nodes'
  BY <1>2, NothingDestroyed
<1>3. \/ nodes \subseteq nodes'
      \/ \E S \in SUBSET nodes, cutoff \in Stamp : TrashEmpty(S, cutoff)
  BY DEF Next, NodeViewByID, Mkdir, CreateFile, IngestFile, InsertNode, Move, BatchMove,
         Trash, Restore
<1> QED
  BY <1>1, <1>2, <1>3

\* Emptying the trash destroys no live row, takes the oldest trash roots first
\* and never part of a unit (trashEmpty, with the detachment of trashNodeTx).
THEOREM TrashEmptySpares == Spec => DestroysOldestUnits
  BY SpecIInv, NextDestroysOldest, PTL DEF Spec, DestroysOldestUnits

=============================================================================
