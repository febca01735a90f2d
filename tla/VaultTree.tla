----------------------------- MODULE VaultTree -----------------------------
(***************************************************************************)
(* The virtual tree of internal/store: the rows of table nodes and the     *)
(* transactions that create, move, trash, restore and destroy them         *)
(* (write.go, batch_move.go, trash.go, ingest.go).                         *)
(*                                                                         *)
(* One action is one committed transaction; a transaction that returns an  *)
(* error is rolled back and is no step.  Revisions are only incremented    *)
(* and only compared for equality, so what counts is which clients hold    *)
(* the current revision of which node: bumping a node makes its holders    *)
(* stale.  Wall-clock stamps may repeat and go backwards.  A vault with    *)
(* active audit authority runs the same tree changes and refuses           *)
(* TrashEmpty; the audit log itself is not part of this module.            *)
(***************************************************************************)
EXTENDS Naturals, Sequences, FiniteSets

CONSTANTS
    MaxNode,       \* bound: node ids are 1..MaxNode, handed out in order
    MaxClock,      \* bound: stamps are 1..MaxClock
    MaxBatch,      \* bound: items of one batch move
    BaseName,      \* names without a collision suffix
    Client,        \* callers that remember a revision
    Unconditional  \* UnconditionalRev

ASSUME BoundsAssumption ==
    MaxNode \in Nat \ {0} /\ MaxClock \in Nat \ {0} /\ MaxBatch \in Nat \ {0}

ASSUME NamesAssumption == "" \notin BaseName /\ Unconditional \notin Client

NodeId == 1..MaxNode
NoNode == 0
Root == 1
Stamp == 1..MaxClock
Live == 0          \* trashed_at IS NULL

VARIABLES
    nodes,        \* ids of the rows present
    nextId,       \* AUTOINCREMENT: ids below it are never handed out again
    kind,         \* "dir" or "file"
    parent,       \* parent_id; NoNode for the root
    name,
    trashed,      \* trashed_at
    trashParent,  \* trash_parent
    trashName,    \* trash_name; NoName when NULL
    held,         \* held[c]: the node whose current revision client c holds
    seen          \* seen[c]: what the client saw at that revision

rows == <<kind, parent, name, trashed, trashParent, trashName>>
vars == <<nodes, nextId, rows, held, seen>>

-----------------------------------------------------------------------------
(***************************************************************************)
(* Names.  A collision suffix " (n)" goes before the extension; suffixing  *)
(* a suffixed name stacks another one on it.                               *)
(***************************************************************************)
Name == [base : BaseName, copies : Seq(Nat)]

\* NULL, and the name of the root: NormalizeName never lets a node have it.
NoName == [base |-> "", copies |-> <<>>]

\* Names a caller asks for: a plain one, or one that looks like a copy.
GivenName == [base : BaseName, copies : {<<>>, <<2>>}]

suffixedName(nm, n) ==
    IF n = 1 THEN nm ELSE [base |-> nm.base, copies |-> Append(nm.copies, n)]

-----------------------------------------------------------------------------
(***************************************************************************)
(* What the queries compute.                                               *)
(***************************************************************************)
LiveNodes == {n \in nodes : trashed[n] = Live}

liveDir(n) == n \in LiveNodes /\ kind[n] = "dir"

\* Rows reached from n by child links, following only the rows of via: the
\* least set that holds n and every row of via whose parent it holds.
Subtree(n, via) ==
    {m \in nodes : \A S \in SUBSET nodes :
        (n \in S /\ \A x \in via : parent[x] \in S => x \in S) => m \in S}

\* Mutant: only the node itself is refused as its own destination.
isAncestorSelf(maybeAncestor, candidate) == candidate = maybeAncestor

\* maybeAncestor is candidate itself or is met walking up its parents.
isAncestor(maybeAncestor, candidate) == candidate \in Subtree(maybeAncestor, nodes)

\* The unique index live_sibling_names lets a live nm in under p.
NameFree(p, nm) == \A m \in LiveNodes : ~ (parent[m] = p /\ name[m] = nm)

\* Mutant: the asked name is taken without probing the siblings.
nextFreeNameUnprobed(p, asked, nm) == nm = asked

\* nm is the smallest free candidate for asked under p.
nextFreeName(p, asked, nm) ==
    \E n \in 1..MaxNode :
        /\ nm = suffixedName(asked, n)
        /\ NameFree(p, nm)
        /\ \A k \in 1..(n - 1) : ~ NameFree(p, suffixedName(asked, k))

TrashRoots == {n \in nodes : trashName[n] # NoName}

\* What reading a node or listing its live children shows.
View(n) == [parent |-> parent[n], name |-> name[n], trashed |-> trashed[n],
            children |-> {m \in LiveNodes : parent[m] = n}]

NoView == [parent |-> NoNode, name |-> NoName, trashed |-> Live, children |-> {}]

-----------------------------------------------------------------------------
(***************************************************************************)
(* Revisions.                                                              *)
(***************************************************************************)
\* ifRev passes: unconditional, or the caller's revision is the current one.
Matches(ifRev, n) == ifRev # Unconditional => held[ifRev] = n

\* Every row of S gets a new revision, and its holders go stale.
bumpRevision(S) ==
    /\ held' = [c \in Client |-> IF held[c] \in S THEN NoNode ELSE held[c]]
    /\ seen' = [c \in Client |-> IF held[c] \in S THEN NoView ELSE seen[c]]

\* A client reads a node together with its revision.
NodeViewByID(c, n) ==
    /\ held' = [held EXCEPT ![c] = n]
    /\ seen' = [seen EXCEPT ![c] = View(n)]
    /\ UNCHANGED <<nodes, nextId, rows>>

-----------------------------------------------------------------------------
(***************************************************************************)
(* Creation.                                                               *)
(***************************************************************************)
InsertNode(p, nm, k) ==
    /\ nextId \in NodeId
    /\ liveDir(p)
    /\ NameFree(p, nm)
    /\ nodes' = nodes \cup {nextId}
    /\ nextId' = nextId + 1
    /\ kind' = [kind EXCEPT ![nextId] = k]
    /\ parent' = [parent EXCEPT ![nextId] = p]
    /\ name' = [name EXCEPT ![nextId] = nm]
    /\ bumpRevision({p})
    /\ UNCHANGED <<trashed, trashParent, trashName>>

Mkdir(p, nm) == InsertNode(p, nm, "dir")

\* Also IngestFileExact.
CreateFile(p, nm) == InsertNode(p, nm, "file")

\* Import under the smallest free candidate of the source's basename; finding
\* the file already imported changes no row.
IngestFile(p, asked) ==
    \E n \in 1..MaxNode :
        LET nm == suffixedName(asked, n)
        IN nextFreeName(p, asked, nm) /\ InsertNode(p, nm, "file")

-----------------------------------------------------------------------------
(***************************************************************************)
(* Moves.                                                                  *)
(***************************************************************************)
\* Mutant: the directory the node leaves keeps its revision.
MoveTouchesTarget(n, p) == {n, p}

\* The rows a move gives a new revision.
MoveTouches(n, p) == {n, parent[n], p}

Move(n, p, nm, ifRev) ==
    /\ n \in LiveNodes \ {Root}
    /\ Matches(ifRev, n)
    /\ liveDir(p)
    /\ ~ (parent[n] = p /\ name[n] = nm)
    /\ ~ isAncestor(n, p)
    /\ NameFree(p, nm)
    /\ parent' = [parent EXCEPT ![n] = p]
    /\ name' = [name EXCEPT ![n] = nm]
    /\ bumpRevision(MoveTouches(n, p))
    /\ UNCHANGED <<nodes, nextId, kind, trashed, trashParent, trashName>>

\* No nonempty set of rows of S is closed under taking parents.
Acyclic(S, up) ==
    \A T \in SUBSET (S \ {Root}) : T # {} => \E x \in T : up[x] \notin T

\* The plan's final tree: live parents are live directories, live sibling
\* names differ, nothing is its own ancestor.
finalTopologyValid(up, nm) ==
    /\ \A x, y \in LiveNodes : up[x] = up[y] /\ nm[x] = nm[y] => x = y
    /\ Acyclic(LiveNodes, up)

Batches == {M \in SUBSET (LiveNodes \ {Root}) : Cardinality(M) \in 1..MaxBatch}

\* Every node of M gets a new parent and name; the whole batch is validated
\* against the tree it leads to, then applied at once.
BatchMove(M, to, as, ifRev) ==
    LET moved == {m \in M : parent[m] # to[m] \/ name[m] # as[m]}
        up    == [x \in NodeId |-> IF x \in M THEN to[x] ELSE parent[x]]
        nm    == [x \in NodeId |-> IF x \in M THEN as[x] ELSE name[x]]
    IN /\ M \in Batches
       /\ \A m \in M : Matches(ifRev[m], m) /\ liveDir(to[m])
       /\ finalTopologyValid(up, nm)
       /\ moved # {}
       /\ parent' = up
       /\ name' = nm
       /\ bumpRevision(UNION {MoveTouches(m, to[m]) : m \in moved})
       /\ UNCHANGED <<nodes, nextId, kind, trashed, trashParent, trashName>>

-----------------------------------------------------------------------------
(***************************************************************************)
(* Trash.                                                                  *)
(***************************************************************************)
\* The live subtree of n gets one stamp; n itself moves under the root and
\* remembers where it was.
Trash(n, ifRev, now) ==
    LET unit == Subtree(n, LiveNodes)
    IN /\ n \in LiveNodes \ {Root}
       /\ Matches(ifRev, n)
       /\ trashed' = [x \in NodeId |-> IF x \in unit THEN now ELSE trashed[x]]
       /\ parent' = [parent EXCEPT ![n] = Root]
       /\ trashParent' = [trashParent EXCEPT ![n] = parent[n]]
       /\ trashName' = [trashName EXCEPT ![n] = name[n]]
       /\ bumpRevision(unit \cup {parent[n]})
       /\ UNCHANGED <<nodes, nextId, kind, name>>

\* The original directory when it is still live, the root otherwise.
restoreTarget(n) == IF liveDir(trashParent[n]) THEN trashParent[n] ELSE Root

\* Mutant: only the trash root comes back.
RestoreUnitTop(n) == {n}

\* The rows that come back with trash root n.
RestoreUnit(n) == Subtree(n, {x \in nodes : trashed[x] = trashed[n]})

\* The index is not consulted for the descendants: see LiveSiblingNamesUnique.
Restore(n, nm, ifRev) ==
    /\ n \in TrashRoots
    /\ Matches(ifRev, n)
    /\ nextFreeName(restoreTarget(n), trashName[n], nm)
    /\ parent' = [parent EXCEPT ![n] = restoreTarget(n)]
    /\ name' = [name EXCEPT ![n] = nm]
    /\ trashed' = [x \in NodeId |-> IF x \in RestoreUnit(n) THEN Live ELSE trashed[x]]
    /\ trashParent' = [trashParent EXCEPT ![n] = NoNode]
    /\ trashName' = [trashName EXCEPT ![n] = NoName]
    /\ bumpRevision(RestoreUnit(n) \cup {restoreTarget(n)})
    /\ UNCHANGED <<nodes, nextId, kind>>

\* Mutant: ORDER BY trashed_at DESC
TrashedBeforeDesc(r, q) == trashed[r] > trashed[q] \/ (trashed[r] = trashed[q] /\ r < q)

\* ORDER BY trashed_at, id
TrashedBefore(r, q) == trashed[r] < trashed[q] \/ (trashed[r] = trashed[q] /\ r < q)

\* ON DELETE CASCADE of parent_id.
Cascade(S) == UNION {Subtree(r, nodes) : r \in S}

\* ON DELETE SET NULL of trash_parent.
OriginAfter(x, gone) == IF trashParent[x] \in gone THEN NoNode ELSE trashParent[x]

\* Destroys the oldest trash roots no younger than the cutoff, as many as the
\* batch takes.  The columns of destroyed rows get neutral values.
TrashEmpty(S, cutoff) ==
    LET eligible == {r \in TrashRoots : trashed[r] <= cutoff}
        gone     == Cascade(S)
        left     == nodes \ gone
    IN /\ S # {} /\ S \subseteq eligible
       /\ \A r \in S, q \in eligible \ S : TrashedBefore(r, q)
       /\ nodes' = left
       /\ kind' = [x \in NodeId |-> IF x \in left THEN kind[x] ELSE "file"]
       /\ parent' = [x \in NodeId |-> IF x \in left THEN parent[x] ELSE NoNode]
       /\ name' = [x \in NodeId |-> IF x \in left THEN name[x] ELSE NoName]
       /\ trashed' = [x \in NodeId |-> IF x \in left THEN trashed[x] ELSE Live]
       /\ trashParent' = [x \in NodeId |-> IF x \in left THEN OriginAfter(x, gone) ELSE NoNode]
       /\ trashName' = [x \in NodeId |-> IF x \in left THEN trashName[x] ELSE NoName]
       /\ UNCHANGED <<nextId, held, seen>>

-----------------------------------------------------------------------------
Init ==
    /\ nodes = {Root}
    /\ nextId = Root + 1
    /\ kind = [x \in NodeId |-> IF x = Root THEN "dir" ELSE "file"]
    /\ parent = [x \in NodeId |-> NoNode]
    /\ name = [x \in NodeId |-> NoName]
    /\ trashed = [x \in NodeId |-> Live]
    /\ trashParent = [x \in NodeId |-> NoNode]
    /\ trashName = [x \in NodeId |-> NoName]
    /\ held = [c \in Client |-> NoNode]
    /\ seen = [c \in Client |-> NoView]

Revision == Client \cup {Unconditional}

Next ==
    \/ \E c \in Client, n \in nodes : NodeViewByID(c, n)
    \/ \E p \in nodes, nm \in GivenName : Mkdir(p, nm)
    \/ \E p \in nodes, nm \in GivenName : CreateFile(p, nm)
    \/ \E p \in nodes, nm \in GivenName : IngestFile(p, nm)
    \/ \E n, p \in nodes, nm \in GivenName, r \in Revision : Move(n, p, nm, r)
    \/ \E M \in Batches : \E to \in [M -> nodes], as \in [M -> GivenName],
            r \in [M -> Revision] : BatchMove(M, to, as, r)
    \/ \E n \in nodes, r \in Revision, now \in Stamp : Trash(n, r, now)
    \/ \E n \in nodes, r \in Revision : \E k \in 1..MaxNode :
            Restore(n, suffixedName(trashName[n], k), r)
    \/ \E S \in SUBSET nodes, cutoff \in Stamp : TrashEmpty(S, cutoff)

Spec == Init /\ [][Next]_vars

-----------------------------------------------------------------------------
(***************************************************************************)
(* Properties.  TreeSound and TrashSound are the relations that            *)
(* validateMetadataRelations (metadata.go) demands of a snapshot before it *)
(* is imported: that they always hold means a backup of any reachable tree *)
(* can be restored.                                                        *)
(***************************************************************************)
NodeView == [parent : NodeId \cup {NoNode}, name : Name \cup {NoName},
             trashed : Stamp \cup {Live}, children : SUBSET NodeId]

ClientsOK == held \in [Client -> NodeId \cup {NoNode}] /\ seen \in [Client -> NodeView]

\* Rows have the types of the schema; no reference names a row that is gone,
\* and no id at or above the allocator is in use.
TypeOK ==
    /\ nextId \in 2..(MaxNode + 1)
    /\ nodes \subseteq NodeId /\ Root \in nodes
    /\ \A n \in nodes : n < nextId
    /\ kind \in [NodeId -> {"dir", "file"}]
    /\ parent \in [NodeId -> NodeId \cup {NoNode}]
    /\ name \in [NodeId -> Name \cup {NoName}]
    /\ trashed \in [NodeId -> Stamp \cup {Live}]
    /\ trashParent \in [NodeId -> NodeId \cup {NoNode}]
    /\ trashName \in [NodeId -> Name \cup {NoName}]
    /\ ClientsOK
    /\ \A n \in nodes : trashParent[n] \in nodes \cup {NoNode}

\* Whatever moves, batch moves, trashes and restores interleave: there is one
\* root, every row is reachable from it (so no row is its own ancestor), and
\* every parent and every remembered trash origin is a directory.
TreeSound ==
    /\ {n \in nodes : parent[n] = NoNode} = {Root}
    /\ Subtree(Root, nodes) = nodes
    /\ \A n \in nodes \ {Root} : kind[parent[n]] = "dir"
    /\ \A n \in nodes : trashParent[n] # NoNode => kind[trashParent[n]] = "dir"
    /\ \A n \in LiveNodes \ {Root} : parent[n] \in LiveNodes

\* A trash root hangs beneath the tree root and its origin is not inside it;
\* each trashed row belongs to exactly one trash root, and everything beneath
\* a trash root was trashed with it: nothing is stranded in the trash, out of
\* reach of Restore.
TrashSound ==
    /\ \A r \in TrashRoots :
        /\ parent[r] = Root
        /\ trashParent[r] \notin Subtree(r, nodes)
        /\ \A x \in Subtree(r, nodes) : trashed[x] = trashed[r] /\ trashed[x] # Live
    /\ \A n \in nodes \ LiveNodes : \E r \in TrashRoots :
        \A q \in TrashRoots : n \in Subtree(q, nodes) <=> q = r

\* Live siblings have different names, although Restore brings a whole unit
\* back without consulting the index for its descendants ("nothing could be
\* created under a trashed directory in the interim").
LiveSiblingNamesUnique ==
    \A x, y \in LiveNodes : parent[x] = parent[y] /\ name[x] = name[y] => x = y

\* A client whose revision of a node still matches sees the node as it is:
\* every change of a node's place, name, trash state or list of live children
\* gave it a new revision, so a conditional mutation never acts on a stale view.
NoLostUpdate == \A c \in Client : held[c] \in nodes => seen[c] = View(held[c])

DestroysOldest ==
    LET gone == nodes \ nodes'
    IN /\ gone \cap LiveNodes = {}
       /\ \A q \in TrashRoots \ gone :
           /\ Subtree(q, nodes) \cap gone = {}
           /\ \A r \in TrashRoots \cap gone : trashed[r] <= trashed[q]

\* Only trashed rows are ever destroyed, the oldest trash roots first, and a
\* trash root that stays keeps every row trashed with it, even when the
\* directory it came from is destroyed.
DestroysOldestUnits == [][DestroysOldest]_vars

=============================================================================
