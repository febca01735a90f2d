----------------------- MODULE ContentVersionsProofs -----------------------
(***************************************************************************)
(* Proofs about ContentVersions, for any contents, clients and limits.     *)
(***************************************************************************)
EXTENDS ContentVersions, FiniteSetTheorems, TLAPS

\* The node's row and the rows that hang on it come and go together, and no
\* client is ahead of the node.
Rows ==
    /\ revision = NoRevision <=> cursor = NoBlob
    /\ revision = NoRevision => ~ trashed /\ current = NoRevision
    /\ \A c \in Client : held[c] <= revision

\* What the watcher has in hand is what the source held at the observed
\* change, and the cursor is what it held at the accepted one.
Watching ==
    /\ obs # NoStamp => obs <= stamp /\ content[obs] # NoBlob
    /\ watch \in {"reading", "submitting"} => obs # NoStamp
    /\ watch = "submitting" => pending = content[obs]
    /\ cursor # NoBlob => accepted # NoStamp /\ accepted <= stamp /\ content[accepted] = cursor

IInv == TypeOK /\ HistorySound /\ NoLostUpdate /\ Rows /\ Watching

-----------------------------------------------------------------------------
(***************************************************************************)
(* What the operators compute.                                             *)
(***************************************************************************)
Views == [trashed : BOOLEAN, current : 0..MaxRevision, version : History]

\* Keeping the newest k >= 1 versions never selects the newest one.
LEMMA HeadNotSelected ==
    ASSUME NodeOK, HistorySound, revision # NoRevision, NEW k \in Revision
    PROVE  current \notin keepNewest(k)
<1>1. {w \in Retained : w > current} = {}
  BY DEF HistorySound, NodeOK, Retained, Revision
<1>2. Cardinality({w \in Retained : w > current}) = 0
  BY <1>1, FS_EmptySet
<1>3. ~ (0 >= k)
  BY LimitsAssumption DEF Revision
<1> QED
  BY <1>2, <1>3 DEF keepNewest

\* What a prune keeps: some retained versions, the head among them, and with
\* every revert its source.
LEMMA KeptFacts ==
    ASSUME NodeOK, HistorySound, revision # NoRevision, NEW X \in Selections
    PROVE  kept(X) \subseteq Retained /\ current \in kept(X) /\ SourcesIn(kept(X))
<1>1. current \in Retained
  BY DEF HistorySound
<1>2. current \notin X
  BY HeadNotSelected, <1>1 DEF Selections
<1>3. current \in kept(X)
  BY <1>1, <1>2 DEF kept
<1>4. ASSUME NEW v \in kept(X), version[v].kind = "content_revert"
      PROVE  version[v].from \in kept(X)
  <2>1. v \in Retained
    BY <1>4 DEF kept
  <2>2. version[v].from \in Retained
    BY <2>1, <1>4 DEF HistorySound
  <2>3. ASSUME NEW S \in SUBSET Retained, Retained \ X \subseteq S, SourcesIn(S)
        PROVE  version[v].from \in S
    BY <1>4, <2>3 DEF kept, SourcesIn
  <2> QED
    BY <2>2, <2>3 DEF kept
<1> QED
  BY <1>3, <1>4 DEF kept, SourcesIn

\* A history of one create.
LEMMA CreatedFacts ==
    ASSUME NEW b \in Blob
    PROVE  /\ Created(b) \in History
           /\ Created(b)[1] = [kind |-> "content_create", blob |-> b, from |-> NoRevision]
           /\ \A v \in Revision \ {1} : Created(b)[v] = Absent
  BY LimitsAssumption DEF Created, History, Version, Absent, Revision, NoRevision

\* No versions at all are a history too, and its view is a view.
LEMMA NoViewFacts ==
    [v \in Revision |-> Absent] \in History /\ NoView \in Views
  BY LimitsAssumption DEF NoView, Views, History, Absent, Revision, NoRevision

\* What a client reads is a well-formed view.
LEMMA ViewFacts ==
    ASSUME NodeOK
    PROVE  View \in Views
  BY DEF NodeOK, View, Views

-----------------------------------------------------------------------------
(***************************************************************************)
(* The invariant holds initially.                                          *)
(***************************************************************************)
\* The history of a node that has just been created.
LEMMA CreatedSound ==
    ASSUME NEW b \in Blob, version = Created(b),
           revision = 1, trashed = FALSE, current = 1
    PROVE  NodeOK /\ HistorySound
<1>1. 1 \in Revision
  BY LimitsAssumption DEF Revision
<1>2. /\ version \in History
      /\ version[1] = [kind |-> "content_create", blob |-> b, from |-> NoRevision]
      /\ \A v \in Revision \ {1} : version[v] = Absent
  BY CreatedFacts
<1>3. version[1].kind = "content_create" /\ version[1].from = NoRevision
  BY <1>2
<1>4. \A v \in Revision \ {1} : version[v].kind = "absent"
  BY <1>2 DEF Absent
<1>5. Retained = {1}
  BY <1>1, <1>3, <1>4 DEF Retained
<1>6. NodeOK
  <2>1. revision \in 0..MaxRevision /\ current \in 0..MaxRevision
    BY LimitsAssumption
  <2> QED
    BY <2>1, <1>2, Zenon DEF NodeOK
<1>7. HistorySound
  BY <1>5, <1>3 DEF HistorySound, NoRevision
<1> QED
  BY <1>6, <1>7

\* A node that has just been created satisfies the invariant.
LEMMA InitIInv == Init => IInv
<1> SUFFICES ASSUME Init PROVE IInv
  OBVIOUS
<1>1. PICK b \in Blob : /\ version = Created(b)
                        /\ content = [s \in Stamp |-> IF s = 0 THEN b ELSE NoBlob]
                        /\ cursor = b
  BY DEF Init
<1>2. 0 \in Stamp
  BY LimitsAssumption DEF Stamp
<1>3. NodeOK /\ HistorySound
  BY <1>1, CreatedSound DEF Init
<1>4. ClientsOK
  BY NoViewFacts, LimitsAssumption DEF Init, ClientsOK, Views, NoRevision
<1>5. content \in [Stamp -> Blob \cup {NoBlob}]
  BY <1>1
<1>6. TypeOK
  BY <1>1, <1>2, <1>3, <1>4, <1>5 DEF Init, TypeOK
<1>7. NoLostUpdate
  BY DEF Init, NoLostUpdate, NoRevision
<1>8. Rows
  BY <1>1, BlobAssumption DEF Init, Rows, NoRevision
<1>9. Watching
  BY <1>1, <1>2, BlobAssumption DEF Init, Watching, NoStamp, Stamp
<1> QED
  BY <1>3, <1>6, <1>7, <1>8, <1>9 DEF IInv

-----------------------------------------------------------------------------
(***************************************************************************)
(* What several actions have in common.                                    *)
(***************************************************************************)
\* A new head leaves a sound history: what it needs is bytes and, if it is a
\* revert, a retained source with those bytes.
LEMMA InstallKeeps ==
    ASSUME NodeOK, HistorySound, revision # NoRevision, revision < MaxRevision,
           NEW b \in Blob, NEW kind \in {"content_replace", "content_revert"},
           NEW from \in 0..MaxRevision,
           kind = "content_revert" => from \in Retained /\ version[from].blob = b,
           kind = "content_replace" => from = NoRevision,
           installContentVersion(b, kind, from)
    PROVE  NodeOK' /\ HistorySound' /\ revision' = revision + 1
<1> DEFINE r == revision + 1
           e == [kind |-> kind, blob |-> b, from |-> from]
<1>1. r \in Revision /\ revision \in Revision
  BY LimitsAssumption DEF NodeOK, Revision, NoRevision
<1>2. e \in Version
  BY DEF Version
<1>3. version \in [Revision -> Version \cup {Absent}]
  BY DEF NodeOK, History
<1>4. /\ version' = [version EXCEPT ![r] = e] /\ current' = r /\ revision' = r
      /\ trashed' = trashed
  BY DEF installContentVersion
<1> HIDE DEF e
<1>5. version'[r] = e /\ \A v \in Revision \ {r} : version'[v] = version[v]
  BY <1>1, <1>3, <1>4
<1>6. NodeOK'
  BY <1>1, <1>2, <1>3, <1>4 DEF NodeOK, History, Revision
<1>7. e.kind = kind /\ e.blob = b /\ e.from = from
  BY DEF e
<1>8. Retained' = Retained \cup {r}
  BY <1>1, <1>5, <1>7 DEF Retained
<1>9. \A v \in Retained : v <= revision /\ v \in Revision
  BY <1>1 DEF HistorySound, Retained, NodeOK, Revision
<1>10. r \notin Retained /\ r # 1
  BY <1>1, <1>9 DEF Revision
<1>11. \A v \in Retained : version'[v] = version[v]
  BY <1>5, <1>9, <1>10
<1>12. \A v \in Retained' : v <= current'
  BY <1>1, <1>4, <1>8, <1>9 DEF Revision
<1>13. revision' # NoRevision /\ current' \in Retained' /\ current' <= revision'
  BY <1>1, <1>4, <1>8 DEF Revision, NoRevision
<1>14. ASSUME NEW v \in Retained
       PROVE  /\ version'[v].kind = "content_create" <=> v = 1
              /\ version'[v].kind = "content_revert" <=> version'[v].from # NoRevision
              /\ version'[v].kind = "content_revert" =>
                  /\ version'[v].from \in Retained'
                  /\ version'[v].from < v
                  /\ version'[version'[v].from].blob = version'[v].blob
  BY <1>8, <1>11 DEF HistorySound
<1>15. /\ version'[r].kind = "content_create" <=> r = 1
       /\ version'[r].kind = "content_revert" <=> version'[r].from # NoRevision
       /\ version'[r].kind = "content_revert" =>
           /\ version'[r].from \in Retained'
           /\ version'[r].from < r
           /\ version'[version'[r].from].blob = version'[r].blob
  <2>1. CASE kind = "content_replace"
    BY <2>1, <1>5, <1>7, <1>10
  <2>2. CASE kind = "content_revert"
    <3>1. from \in Retained /\ version[from].blob = b
      BY <2>2
    <3>2. version'[from] = version[from] /\ from < r /\ from # NoRevision
      BY <3>1, <1>1, <1>9, <1>11 DEF Revision, NoRevision
    <3> QED
      BY <2>2, <3>1, <3>2, <1>5, <1>7, <1>8, <1>10
  <2> QED
    BY <2>1, <2>2
<1>16. HistorySound'
  BY <1>8, <1>12, <1>13, <1>14, <1>15 DEF HistorySound
<1> QED
  BY <1>4, <1>6, <1>16

\* A receipt for the committed revision of a node that got a new one, or that
\* stayed as it was, is as good as a read.
LEMMA ReceiptKeeps ==
    ASSUME NodeOK, ClientsOK, NoLostUpdate, NodeOK', NEW c \in Client,
           \A d \in Client : held[d] <= revision,
           revision' = revision + 1 \/ UNCHANGED node,
           Receipt(c, revision')
    PROVE  ClientsOK' /\ NoLostUpdate' /\ \A d \in Client : held'[d] <= revision'
<1>1. View' \in Views
  BY DEF NodeOK, View, Views
<1>2. revision \in 0..MaxRevision /\ revision' \in 0..MaxRevision
  BY DEF NodeOK
<1>3. held \in [Client -> 0..MaxRevision] /\ seen \in [Client -> Views]
  BY DEF ClientsOK, Views
<1> DEFINE w == View'
<1>4. held' = [held EXCEPT ![c] = revision'] /\ seen' = [seen EXCEPT ![c] = w]
  BY DEF Receipt
<1>5. w = View'
  OBVIOUS
<1> HIDE DEF w
<1>6. ClientsOK'
  BY <1>1, <1>2, <1>3, <1>4, <1>5 DEF ClientsOK, Views
<1>7. held'[c] = revision' /\ seen'[c] = w
  BY <1>3, <1>4
<1>8. \A d \in Client \ {c} : held'[d] = held[d] /\ seen'[d] = seen[d]
  BY <1>3, <1>4
<1>9. \A d \in Client : held'[d] <= revision'
  BY <1>2, <1>3, <1>7, <1>8 DEF node
<1>10. ASSUME NEW d \in Client, held'[d] = revision'
       PROVE  seen'[d] = View'
  <2>1. CASE d = c
    BY <2>1, <1>5, <1>7
  <2>2. CASE d # c /\ revision' = revision + 1
    BY <2>2, <1>2, <1>3, <1>8, <1>10
  <2>3. CASE d # c /\ UNCHANGED node
    <3>1. held[d] = revision /\ View' = View
      BY <2>3, <1>8, <1>10 DEF node, View
    <3> QED
      BY <2>3, <3>1, <1>8 DEF NoLostUpdate
  <2> QED
    BY <2>1, <2>2, <2>3
<1> QED
  BY <1>6, <1>9, <1>10 DEF NoLostUpdate

\* Whoever else holds a revision is stale once the node has a new one.
LEMMA OthersStale ==
    ASSUME NodeOK, ClientsOK, \A d \in Client : held[d] <= revision,
           revision' = revision + 1, UNCHANGED clients
    PROVE  ClientsOK' /\ NoLostUpdate' /\ \A d \in Client : held'[d] <= revision'
<1>1. revision \in 0..MaxRevision /\ held \in [Client -> 0..MaxRevision] /\ held' = held
      /\ seen' = seen
  BY DEF NodeOK, ClientsOK, clients
<1>2. \A d \in Client : held'[d] < revision'
  BY <1>1
<1>3. NoLostUpdate'
  BY <1>1, <1>2 DEF NoLostUpdate
<1> QED
  BY <1>1, <1>2, <1>3 DEF ClientsOK

\* A step of a client, or of the tree, that leaves a sound node and consistent
\* clients keeps the rest: the source, the cursor and the watcher stand.
LEMMA NodeStepKeeps ==
    ASSUME IInv, NodeOK', HistorySound', ClientsOK', NoLostUpdate',
           revision # NoRevision, revision' = revision + 1,
           \A d \in Client : held'[d] <= revision',
           UNCHANGED <<source, row, watcher>>
    PROVE  IInv'
<1>1. TypeOK'
  BY DEF IInv, TypeOK, source, row, watcher
<1>2. revision' # NoRevision
  BY DEF IInv, TypeOK, NodeOK, NoRevision
<1>3. Rows'
  BY <1>2 DEF IInv, Rows, row
<1>4. Watching'
  BY DEF IInv, Watching, source, row, watcher
<1> QED
  BY <1>1, <1>3, <1>4 DEF IInv

-----------------------------------------------------------------------------
(***************************************************************************)
(* The actions of the clients and of the tree.                             *)
(***************************************************************************)
LEMMA ReadKeepsIInv ==
    ASSUME IInv, NEW c \in Client, Read(c)
    PROVE  IInv'
<1>1. UNCHANGED <<node, source, row, watcher>> /\ Receipt(c, revision')
  BY DEF Read, node
<1>2. NodeOK' /\ HistorySound'
  BY <1>1 DEF IInv, TypeOK, NodeOK, HistorySound, Retained, node, row
<1>3. ClientsOK' /\ NoLostUpdate' /\ \A d \in Client : held'[d] <= revision'
  BY <1>1, <1>2, ReceiptKeeps DEF IInv, TypeOK, Rows
<1>4. TypeOK'
  BY <1>1, <1>2, <1>3 DEF IInv, TypeOK, source, row, watcher
<1>5. Rows' /\ Watching'
  BY <1>1, <1>3 DEF IInv, Rows, Watching, node, source, row, watcher
<1> QED
  BY <1>2, <1>3, <1>4, <1>5 DEF IInv

\* ReplaceContent keeps the invariant.
LEMMA ReplaceKeepsIInv ==
    ASSUME IInv, NEW c \in Client, NEW ifRev, NEW b \in Blob, ReplaceContent(c, ifRev, b)
    PROVE  IInv'
<1>1. revision # NoRevision /\ revision < MaxRevision
  BY DEF ReplaceContent, validTarget
<1>2. NodeOK' /\ HistorySound' /\ revision' = revision + 1
  BY <1>1, InstallKeeps, LimitsAssumption DEF ReplaceContent, IInv, TypeOK, NoRevision
<1>3. Receipt(c, revision') /\ UNCHANGED <<source, row, watcher>>
  BY <1>2 DEF ReplaceContent
<1>4. ClientsOK' /\ NoLostUpdate' /\ \A d \in Client : held'[d] <= revision'
  BY <1>2, <1>3, ReceiptKeeps DEF IInv, TypeOK, Rows
<1> QED
  BY <1>1, <1>2, <1>3, <1>4, NodeStepKeeps

\* RevertContent keeps the invariant: its source is retained and has the bytes.
LEMMA RevertKeepsIInv ==
    ASSUME IInv, NEW c \in Client, NEW ifRev, NEW v \in Revision, RevertContent(c, ifRev, v)
    PROVE  IInv'
<1>1. revision # NoRevision /\ revision < MaxRevision /\ v \in Retained
  BY DEF RevertContent, validTarget
<1>2. version[v].blob \in Blob
  BY <1>1 DEF IInv, TypeOK, NodeOK, History, Version, Absent, Retained
<1>3. v \in 0..MaxRevision
  BY LimitsAssumption DEF Revision
<1>4. NodeOK' /\ HistorySound' /\ revision' = revision + 1
  BY <1>1, <1>2, <1>3, InstallKeeps DEF RevertContent, IInv, TypeOK
<1>5. Receipt(c, revision') /\ UNCHANGED <<source, row, watcher>>
  BY <1>4 DEF RevertContent
<1>6. ClientsOK' /\ NoLostUpdate' /\ \A d \in Client : held'[d] <= revision'
  BY <1>4, <1>5, ReceiptKeeps DEF IInv, TypeOK, Rows
<1> QED
  BY <1>1, <1>4, <1>5, <1>6, NodeStepKeeps

\* PruneContentVersions keeps the invariant: what is kept is closed under revert
\* sources and holds the head.
LEMMA PruneKeepsIInv ==
    ASSUME IInv, NEW c \in Client, NEW ifRev, NEW X \in Selections, PruneVersions(c, ifRev, X)
    PROVE  IInv'
<1> DEFINE K == kept(X)
<1>1. /\ revision # NoRevision /\ revision < MaxRevision /\ revision' = revision + 1
      /\ UNCHANGED <<trashed, current, source, row, watcher>>
      /\ version' = [v \in Revision |-> IF v \in K THEN version[v] ELSE Absent]
      /\ Receipt(c, revision')
  BY DEF PruneVersions, validTarget
<1>2. K \subseteq Retained /\ current \in K /\ SourcesIn(K)
  BY <1>1, KeptFacts DEF IInv, TypeOK
<1> HIDE DEF K
<1>3. NodeOK'
  BY <1>1, LimitsAssumption DEF IInv, TypeOK, NodeOK, History
<1>4. Retained \subseteq Revision
  BY DEF Retained
<1>5. /\ \A v \in K : version'[v] = version[v]
      /\ \A v \in Revision \ K : version'[v] = Absent
  BY <1>1, <1>2, <1>4
<1>6. Retained' = K
  <2>1. \A v \in Revision \ K : version'[v].kind = "absent"
    BY <1>5 DEF Absent
  <2>2. \A v \in K : version'[v].kind # "absent"
    BY <1>2, <1>5 DEF Retained
  <2> QED
    BY <2>1, <2>2, <1>2, <1>4 DEF Retained
<1>7. revision' # NoRevision /\ current' \in K /\ current' <= revision'
  BY <1>1, <1>2 DEF IInv, TypeOK, NodeOK, HistorySound, NoRevision
<1>8. \A v \in K : v <= current'
  BY <1>1, <1>2 DEF IInv, HistorySound
<1>9. ASSUME NEW v \in K
      PROVE  /\ version'[v].kind = "content_create" <=> v = 1
             /\ version'[v].kind = "content_revert" <=> version'[v].from # NoRevision
             /\ version'[v].kind = "content_revert" =>
                 /\ version'[v].from \in K
                 /\ version'[v].from < v
                 /\ version'[version'[v].from].blob = version'[v].blob
  <2>1. version'[v] = version[v] /\ v \in Retained
    BY <1>2, <1>5
  <2>2. version[v].kind = "content_revert" => version[v].from \in K
    BY <1>2 DEF SourcesIn
  <2> QED
    BY <2>1, <2>2, <1>5 DEF IInv, HistorySound
<1>10. HistorySound'
  BY <1>6, <1>7, <1>8, <1>9 DEF HistorySound
<1>11. ClientsOK' /\ NoLostUpdate' /\ \A d \in Client : held'[d] <= revision'
  BY <1>1, <1>3, ReceiptKeeps DEF IInv, TypeOK, Rows
<1> QED
  BY <1>1, <1>3, <1>10, <1>11, NodeStepKeeps

\* Pruning to a checkpoint keeps the invariant.
LEMMA CheckpointKeepsIInv ==
    ASSUME IInv, NEW c \in Client, NEW ifRev, PruneToCheckpoint(c, ifRev)
    PROVE  IInv'
<1> DEFINE r == revision + 1
           e == [kind |-> "content_replace", blob |-> version[current].blob, from |-> NoRevision]
<1>1. /\ revision # NoRevision /\ revision < MaxRevision
      /\ revision' = r /\ current' = r /\ trashed' = trashed
      /\ UNCHANGED <<source, row, watcher>>
      /\ version' = [v \in Revision |-> IF v = r THEN e ELSE Absent]
      /\ Receipt(c, revision')
  BY DEF PruneToCheckpoint, validTarget, checkpointBlob
<1>2. r \in Revision /\ r # 1 /\ r # NoRevision
  BY <1>1, LimitsAssumption DEF IInv, TypeOK, NodeOK, Revision, NoRevision
<1>3. version[current].blob \in Blob
  BY <1>1 DEF IInv, TypeOK, NodeOK, HistorySound, History, Version, Absent, Retained
<1>4. e \in Version /\ e.kind = "content_replace" /\ e.from = NoRevision
  BY <1>3, LimitsAssumption DEF Version, NoRevision
<1> HIDE DEF e
<1>5. version'[r] = e /\ \A v \in Revision \ {r} : version'[v] = Absent
  BY <1>1, <1>2
<1>6. version' \in History
  BY <1>1, <1>4 DEF History
<1>7. NodeOK'
  BY <1>1, <1>2, <1>6 DEF IInv, TypeOK, NodeOK, Revision
<1>8. Retained' = {r}
  <2>1. \A v \in Revision \ {r} : version'[v].kind = "absent"
    BY <1>5 DEF Absent
  <2> QED
    BY <2>1, <1>2, <1>4, <1>5 DEF Retained
<1>9. r <= r
  BY <1>2 DEF Revision
<1>10. HistorySound'
  BY <1>1, <1>2, <1>4, <1>5, <1>8, <1>9 DEF HistorySound
<1>11. ClientsOK' /\ NoLostUpdate' /\ \A d \in Client : held'[d] <= revision'
  BY <1>1, <1>7, ReceiptKeeps DEF IInv, TypeOK, Rows
<1> QED
  BY <1>1, <1>7, <1>10, <1>11, NodeStepKeeps

\* bumpRevision, which touches no version, keeps the invariant.
LEMMA BumpKeepsIInv ==
    ASSUME IInv, revision # NoRevision, NEW t \in BOOLEAN, bumpRevision(t)
    PROVE  IInv'
<1>1. /\ revision < MaxRevision /\ revision' = revision + 1 /\ trashed' = t
      /\ UNCHANGED <<current, version, clients, source, row, watcher>>
  BY DEF bumpRevision
<1>2. revision' \in 0..MaxRevision
  BY <1>1, LimitsAssumption DEF IInv, TypeOK, NodeOK
<1>3. NodeOK'
  BY <1>1, <1>2 DEF IInv, TypeOK, NodeOK
<1>4. Retained' = Retained
  BY <1>1 DEF Retained
<1>5. revision' # NoRevision /\ current \in Retained /\ current <= revision'
  BY <1>1 DEF IInv, TypeOK, NodeOK, HistorySound, NoRevision
<1>6. HistorySound'
  BY <1>1, <1>4, <1>5 DEF IInv, HistorySound
<1>7. ClientsOK' /\ NoLostUpdate' /\ \A d \in Client : held'[d] <= revision'
  BY <1>1, OthersStale DEF IInv, TypeOK, Rows
<1> QED
  BY <1>1, <1>3, <1>6, <1>7, NodeStepKeeps

\* Move, Trash and Restore keep the invariant.
LEMMA TreeStepKeepsIInv ==
    ASSUME IInv, Move \/ Trash \/ Restore
    PROVE  IInv'
<1>1. revision # NoRevision
  BY DEF Move, Trash, Restore, IInv, Rows
<1>2. \E t \in BOOLEAN : bumpRevision(t)
  BY DEF Move, Trash, Restore
<1> QED
  BY <1>1, <1>2, BumpKeepsIInv

\* TrashEmpty, which deletes the node and all its versions, keeps the invariant.
LEMMA TrashEmptyKeepsIInv ==
    ASSUME IInv, TrashEmpty
    PROVE  IInv'
<1> DEFINE none == [v \in Revision |-> Absent]
<1>1. /\ revision' = NoRevision /\ trashed' = FALSE /\ current' = NoRevision
      /\ version' = none
      /\ held' = [c \in Client |-> NoRevision] /\ seen' = [c \in Client |-> NoView]
      /\ cursor' = NoBlob /\ accepted' = NoStamp
      /\ UNCHANGED <<source, watcher>>
  BY DEF TrashEmpty
<1>2. none \in History /\ \A v \in Revision : none[v].kind = "absent"
  BY NoViewFacts DEF Absent
<1>3. NoView = [trashed |-> FALSE, current |-> NoRevision, version |-> none]
  BY DEF NoView
<1> HIDE DEF none
<1>4. NodeOK'
  <2>1. NoRevision \in 0..MaxRevision
    BY LimitsAssumption DEF NoRevision
  <2> QED
    BY <2>1, <1>1, <1>2, Zenon DEF NodeOK
<1>5. Retained' = {}
  BY <1>1, <1>2 DEF Retained
<1>6. HistorySound'
  BY <1>1, <1>5 DEF HistorySound
<1>7. ClientsOK'
  BY <1>1, NoViewFacts, LimitsAssumption DEF ClientsOK, Views, NoRevision
<1>8. NoLostUpdate'
  BY <1>1, <1>3 DEF NoLostUpdate, View
<1>9. TypeOK'
  BY <1>1, <1>4, <1>7 DEF IInv, TypeOK, source, watcher
<1>10. Rows'
  BY <1>1 DEF Rows, NoRevision
<1>11. Watching'
  BY <1>1 DEF IInv, Watching, source, watcher
<1> QED
  BY <1>6, <1>8, <1>9, <1>10, <1>11 DEF IInv

-----------------------------------------------------------------------------
(***************************************************************************)
(* The actions of the source file and of the watcher.                      *)
(***************************************************************************)
LEMMA SourceChangeKeepsIInv ==
    ASSUME IInv, NEW b \in Blob \cup {NoBlob}, SourceChange(b)
    PROVE  IInv'
<1>1. /\ stamp < MaxEdits /\ stamp' = stamp + 1
      /\ content' = [content EXCEPT ![stamp + 1] = b]
      /\ UNCHANGED <<node, clients, row, watcher>>
  BY DEF SourceChange
<1>2. content \in [Stamp -> Blob \cup {NoBlob}] /\ stamp \in Stamp
  BY DEF IInv, TypeOK
<1>3. stamp' \in Stamp /\ \A s \in Stamp : s <= stamp => s # stamp + 1
  BY <1>1, <1>2, LimitsAssumption DEF Stamp
<1>4. content' \in [Stamp -> Blob \cup {NoBlob}]
  BY <1>1, <1>2
<1>5. \A s \in Stamp : s <= stamp => content'[s] = content[s] /\ s <= stamp'
  BY <1>1, <1>2, <1>3 DEF Stamp
<1>6. TypeOK'
  BY <1>1, <1>3, <1>4
     DEF IInv, TypeOK, NodeOK, ClientsOK, node, clients, row, watcher
<1>7. HistorySound' /\ NoLostUpdate' /\ Rows'
  BY <1>1 DEF IInv, HistorySound, Retained, NoLostUpdate, View, Rows, node, clients, row
<1>8. Watching'
  <2>1. obs \in Stamp \cup {NoStamp} /\ accepted \in Stamp \cup {NoStamp}
    BY DEF IInv, TypeOK
  <2> QED
    BY <1>1, <1>5, <2>1 DEF IInv, Watching, row, watcher
<1> QED
  BY <1>6, <1>7, <1>8 DEF IInv

\* The watcher's own steps, up to the submission, touch nothing but its own
\* state.
LEMMA WatcherKeepsIInv ==
    ASSUME IInv,
           WatchStart \/ WatchStop \/ WatchObserve \/ WatchForget \/ WatchSettle
             \/ WatchRead \/ SyncRefused
    PROVE  IInv'
<1>1. UNCHANGED <<node, clients, source, row>>
  BY DEF WatchStart, WatchStop, WatchObserve, WatchForget, WatchSettle, WatchRead, SyncRefused
<1>2. HistorySound' /\ NoLostUpdate' /\ Rows' /\ NodeOK' /\ ClientsOK'
  BY <1>1 DEF IInv, TypeOK, NodeOK, ClientsOK, HistorySound, Retained, NoLostUpdate, View, Rows,
              node, clients, row
<1>3. /\ content \in [Stamp -> Blob \cup {NoBlob}] /\ stamp \in Stamp
      /\ obs \in Stamp \cup {NoStamp} /\ pending \in Blob \cup {NoBlob}
      /\ processed \in BOOLEAN
  BY DEF IInv, TypeOK
<1>4. /\ obs' \in Stamp \cup {NoStamp} /\ pending' \in Blob \cup {NoBlob}
      /\ processed' \in BOOLEAN
      /\ watch' \in {"stopped", "idle", "reading", "submitting"}
  BY <1>3 DEF WatchStart, WatchStop, WatchObserve, WatchForget, WatchSettle, WatchRead,
              SyncRefused, Stopped
<1>5. TypeOK'
  BY <1>1, <1>2, <1>4 DEF IInv, TypeOK, source, row
<1>6. stamp # NoStamp /\ stamp <= stamp
  BY <1>3, LimitsAssumption DEF Stamp, NoStamp
<1>7. Watching'
  <2>1. CASE WatchStart
    BY <1>1, <2>1 DEF IInv, Watching, WatchStart, source, row
  <2>2. CASE WatchStop \/ SyncRefused
    BY <1>1, <2>2 DEF IInv, Watching, WatchStop, SyncRefused, Stopped, source, row
  <2>3. CASE WatchObserve
    BY <1>1, <1>6, <2>3 DEF IInv, Watching, WatchObserve, source, row
  <2>4. CASE WatchForget
    BY <1>1, <2>4 DEF IInv, Watching, WatchForget, source, row
  <2>5. CASE WatchSettle
    BY <1>1, <1>6, <2>5 DEF IInv, Watching, WatchSettle, source, row
  <2>6. CASE WatchRead
    BY <1>1, <1>6, <2>6 DEF IInv, Watching, WatchRead, source, row
  <2> QED
    BY <2>1, <2>2, <2>3, <2>4, <2>5, <2>6
<1> QED
  BY <1>2, <1>5, <1>7 DEF IInv

\* What a submission commits beside the node: the cursor moves to the bytes
\* read, which are those of the observed change.
LEMMA AcceptKeeps ==
    ASSUME IInv, watch = "submitting", Accept, Submitted, UNCHANGED source,
           NodeOK', ClientsOK'
    PROVE  TypeOK' /\ Watching' /\ pending \in Blob /\ cursor' # NoBlob
<1>1. /\ cursor' = pending /\ accepted' = obs /\ obs' = obs /\ watch' = "idle"
      /\ processed' = TRUE /\ pending' = NoBlob /\ content' = content /\ stamp' = stamp
  BY DEF Accept, Submitted, source
<1>2. obs # NoStamp /\ obs <= stamp /\ content[obs] # NoBlob /\ pending = content[obs]
  BY DEF IInv, Watching
<1>3. pending \in Blob
  BY <1>2 DEF IInv, TypeOK
<1>4. TypeOK'
  BY <1>1, <1>3 DEF IInv, TypeOK
<1>5. Watching'
  BY <1>1, <1>2 DEF Watching
<1> QED
  BY <1>1, <1>3, <1>4, <1>5, BlobAssumption

\* SyncWatchedContent that finds nothing new keeps the invariant.
LEMMA SkippedKeepsIInv ==
    ASSUME IInv, SyncSkipped
    PROVE  IInv'
<1>1. /\ watch = "submitting" /\ Accept /\ Submitted /\ UNCHANGED <<node, clients, source>>
      /\ revision # NoRevision
  BY DEF SyncSkipped, validTarget
<1>2. NodeOK' /\ ClientsOK' /\ NoLostUpdate'
  BY <1>1 DEF IInv, TypeOK, NodeOK, ClientsOK, NoLostUpdate, View, node, clients
<1>3. TypeOK' /\ Watching' /\ cursor' # NoBlob
  BY <1>1, <1>2, AcceptKeeps DEF source
<1>4. HistorySound'
  BY <1>1 DEF IInv, HistorySound, Retained, node
<1>5. Rows'
  BY <1>1, <1>3 DEF IInv, Rows, node, clients
<1> QED
  BY <1>2, <1>3, <1>4, <1>5 DEF IInv

\* SyncWatchedContent that replaces the content keeps the invariant.
LEMMA UpdatedKeepsIInv ==
    ASSUME IInv, SyncUpdated
    PROVE  IInv'
<1>1. /\ watch = "submitting" /\ Accept /\ Submitted /\ UNCHANGED <<clients, source>>
      /\ revision # NoRevision /\ revision < MaxRevision
      /\ installContentVersion(pending, "content_replace", NoRevision)
  BY DEF SyncUpdated, validTarget
<1>2. pending \in Blob
  BY <1>1 DEF IInv, TypeOK, Watching
<1>3. NodeOK' /\ HistorySound' /\ revision' = revision + 1
  BY <1>1, <1>2, InstallKeeps, LimitsAssumption DEF IInv, TypeOK, NoRevision
<1>4. ClientsOK' /\ NoLostUpdate' /\ \A d \in Client : held'[d] <= revision'
  BY <1>1, <1>3, OthersStale DEF IInv, TypeOK, Rows
<1>5. TypeOK' /\ Watching' /\ cursor' # NoBlob
  BY <1>1, <1>3, <1>4, AcceptKeeps DEF source
<1>6. revision' # NoRevision
  BY <1>3 DEF IInv, TypeOK, NodeOK, NoRevision
<1>7. Rows'
  BY <1>4, <1>5, <1>6 DEF Rows
<1> QED
  BY <1>3, <1>4, <1>5, <1>7 DEF IInv

\* A watched file ingested for the first time keeps the invariant.
LEMMA AddedKeepsIInv ==
    ASSUME IInv, SyncAdded
    PROVE  IInv'
<1>1. /\ watch = "submitting" /\ Accept /\ Submitted /\ UNCHANGED <<clients, source>>
      /\ cursor = NoBlob
      /\ revision' = 1 /\ trashed' = FALSE /\ current' = 1 /\ version' = Created(pending)
  BY DEF SyncAdded
<1>2. pending \in Blob
  BY <1>1 DEF IInv, TypeOK, Watching
<1>3. 1 \in Revision
  BY LimitsAssumption DEF Revision
<1>4. /\ version' \in History
      /\ version'[1] = [kind |-> "content_create", blob |-> pending, from |-> NoRevision]
      /\ \A v \in Revision \ {1} : version'[v] = Absent
  BY <1>1, <1>2, CreatedFacts
<1>5. version'[1].kind = "content_create" /\ version'[1].from = NoRevision
  BY <1>4
<1>6. Retained' = {1}
  <2>1. \A v \in Revision \ {1} : version'[v].kind = "absent"
    BY <1>4 DEF Absent
  <2> QED
    BY <2>1, <1>3, <1>5 DEF Retained
<1>7. NodeOK'
  <2>1. revision' \in 0..MaxRevision /\ current' \in 0..MaxRevision
    BY <1>1, LimitsAssumption
  <2> QED
    BY <2>1, <1>1, <1>4, Zenon DEF NodeOK
<1>8. HistorySound'
  BY <1>1, <1>5, <1>6 DEF HistorySound, NoRevision
<1>9. revision = 0
  BY <1>1 DEF IInv, Rows, NoRevision
<1>10. ClientsOK' /\ NoLostUpdate' /\ \A d \in Client : held'[d] <= revision'
  BY <1>1, <1>9, OthersStale DEF IInv, TypeOK, Rows
<1>11. TypeOK' /\ Watching' /\ cursor' # NoBlob
  BY <1>1, <1>7, <1>10, AcceptKeeps DEF source
<1>12. Rows'
  BY <1>1, <1>10, <1>11 DEF Rows, NoRevision
<1> QED
  BY <1>8, <1>10, <1>11, <1>12 DEF IInv

\* A stuttering step keeps the invariant.
LEMMA StutterIInv ==
    ASSUME IInv, UNCHANGED vars
    PROVE  IInv'
<1>1. UNCHANGED <<revision, trashed, current, version, held, seen, content, stamp, cursor,
                  accepted, watch, obs, processed, pending>>
  BY DEF vars, node, clients, source, row, watcher
<1> QED
  BY <1>1 DEF IInv, TypeOK, NodeOK, ClientsOK, HistorySound, Retained, NoLostUpdate, View, Rows,
              Watching

\* IInv is inductive.
LEMMA NextIInv ==
    ASSUME IInv, [Next]_vars
    PROVE  IInv'
<1>1. ASSUME NEW c \in Client, ClientStep(c)
      PROVE  IInv'
  BY <1>1, ReadKeepsIInv, ReplaceKeepsIInv, RevertKeepsIInv, PruneKeepsIInv, CheckpointKeepsIInv
     DEF ClientStep
<1>2. CASE Move \/ Trash \/ Restore
  BY <1>2, TreeStepKeepsIInv
<1>3. CASE TrashEmpty
  BY <1>3, TrashEmptyKeepsIInv
<1>4. ASSUME NEW b \in Blob \cup {NoBlob}, SourceChange(b)
      PROVE  IInv'
  BY <1>4, SourceChangeKeepsIInv
<1>5. CASE WatchStart \/ WatchStop \/ WatchStep
  BY <1>5, WatcherKeepsIInv, SkippedKeepsIInv, UpdatedKeepsIInv, AddedKeepsIInv DEF WatchStep
<1>6. CASE UNCHANGED vars
  BY <1>6, StutterIInv
<1> QED
  BY <1>1, <1>2, <1>3, <1>4, <1>5, <1>6 DEF Next

-----------------------------------------------------------------------------
(***************************************************************************)
(* What no step does.                                                      *)
(***************************************************************************)
KeepsHead ==
    /\ (revision' # NoRevision /\ ~ Retained \subseteq Retained') => HeadBlob' = HeadBlob
    /\ \A v \in Retained \cap Retained' : version'[v] = version[v]

\* A new head is added beside the versions there are.
LEMMA InstallKeepsHead ==
    ASSUME IInv, revision # NoRevision, revision < MaxRevision,
           NEW b, NEW kind \in {"content_replace", "content_revert"}, NEW from,
           installContentVersion(b, kind, from)
    PROVE  KeepsHead
<1> DEFINE r == revision + 1
           e == [kind |-> kind, blob |-> b, from |-> from]
<1>1. version' = [version EXCEPT ![r] = e] /\ e.kind # "absent"
  BY DEF installContentVersion
<1>2. version \in [Revision -> Version \cup {Absent}]
  BY DEF IInv, TypeOK, NodeOK, History
<1>3. r \in Revision /\ \A v \in Retained : v \in Revision /\ v # r
  BY LimitsAssumption DEF IInv, TypeOK, NodeOK, HistorySound, Retained, Revision, NoRevision
<1> HIDE DEF e
<1>4. \A v \in Retained : version'[v] = version[v]
  BY <1>1, <1>2, <1>3
<1>5. Retained \subseteq Retained'
  BY <1>3, <1>4 DEF Retained
<1> QED
  BY <1>4, <1>5 DEF KeepsHead

\* A prune of selected versions leaves the head and rewrites nothing.
LEMMA PruneKeepsHeadStep ==
    ASSUME IInv, NEW c \in Client, NEW ifRev, NEW X \in Selections, PruneVersions(c, ifRev, X)
    PROVE  KeepsHead
<1>1. /\ revision # NoRevision /\ current' = current
      /\ version' = [v \in Revision |-> IF v \in kept(X) THEN version[v] ELSE Absent]
  BY DEF PruneVersions, validTarget
<1>2. current \in kept(X) /\ kept(X) \subseteq Retained
  BY <1>1, KeptFacts DEF IInv, TypeOK
<1>3. Retained \subseteq Revision
  BY DEF Retained
<1>4. \A v \in kept(X) : version'[v] = version[v]
  BY <1>1, <1>2, <1>3
<1>5. HeadBlob' = HeadBlob
  BY <1>1, <1>2, <1>4 DEF HeadBlob
<1>6. Retained' \subseteq kept(X)
  <2>1. \A v \in Revision \ kept(X) : version'[v].kind = "absent"
    BY <1>1 DEF Absent
  <2> QED
    BY <2>1 DEF Retained
<1> QED
  BY <1>4, <1>5, <1>6 DEF KeepsHead

\* A checkpoint carries the head's content over and rewrites nothing.
LEMMA CheckpointKeepsHead ==
    ASSUME IInv, NEW c \in Client, NEW ifRev, PruneToCheckpoint(c, ifRev)
    PROVE  KeepsHead
<1> DEFINE r == revision + 1
           e == [kind |-> "content_replace", blob |-> version[current].blob, from |-> NoRevision]
<1>1. /\ revision # NoRevision /\ revision < MaxRevision /\ current' = r
      /\ version' = [v \in Revision |-> IF v = r THEN e ELSE Absent]
      /\ e.blob = version[current].blob
  BY DEF PruneToCheckpoint, validTarget, checkpointBlob
<1>2. /\ r \in Revision /\ r # NoRevision /\ current \in Retained /\ current # NoRevision
      /\ \A v \in Retained : v # r
  BY <1>1, LimitsAssumption DEF IInv, TypeOK, NodeOK, HistorySound, Retained, Revision, NoRevision
<1> HIDE DEF e
<1>3. version'[r] = e /\ \A v \in Revision \ {r} : version'[v] = Absent
  BY <1>1, <1>2
<1>4. HeadBlob' = HeadBlob
  BY <1>1, <1>2, <1>3 DEF HeadBlob
<1>5. Retained' \subseteq {r}
  BY <1>3 DEF Retained, Absent
<1> QED
  BY <1>2, <1>4, <1>5 DEF KeepsHead

\* Every step that leaves the node in place leaves its head's content reachable.
LEMMA NextKeepsHead ==
    ASSUME IInv, [Next]_vars
    PROVE  KeepsHead
<1>1. CASE UNCHANGED version
  BY <1>1 DEF KeepsHead, Retained
<1>2. ASSUME NEW c \in Client, ClientStep(c)
      PROVE  KeepsHead
  <2>1. CASE Read(c)
    BY <2>1, <1>1 DEF Read, node
  <2>2. ASSUME NEW ifRev \in IfRev(c), NEW b \in Blob, ReplaceContent(c, ifRev, b)
        PROVE  KeepsHead
    BY <2>2, InstallKeepsHead DEF ReplaceContent, validTarget
  <2>3. ASSUME NEW ifRev \in IfRev(c), NEW v \in Revision, RevertContent(c, ifRev, v)
        PROVE  KeepsHead
    BY <2>3, InstallKeepsHead DEF RevertContent, validTarget
  <2> QED
    BY <1>2, <2>1, <2>2, <2>3, PruneKeepsHeadStep, CheckpointKeepsHead DEF ClientStep
<1>3. CASE Move \/ Trash \/ Restore
  BY <1>1, <1>3 DEF Move, Trash, Restore, bumpRevision
<1>4. CASE TrashEmpty
  <2>1. revision' = NoRevision /\ \A v \in Revision : version'[v] = Absent
    BY <1>4 DEF TrashEmpty
  <2>2. Retained' = {}
    BY <2>1 DEF Retained, Absent
  <2> QED
    BY <2>1, <2>2 DEF KeepsHead
<1>5. CASE \E b \in Blob \cup {NoBlob} : SourceChange(b)
  BY <1>1, <1>5 DEF SourceChange, node
<1>6. CASE WatchStart \/ WatchStop \/ WatchObserve \/ WatchForget \/ WatchSettle \/ WatchRead
             \/ SyncRefused \/ SyncSkipped
  BY <1>1, <1>6 DEF WatchStart, WatchStop, WatchObserve, WatchForget, WatchSettle, WatchRead,
                    SyncRefused, SyncSkipped, node
<1>7. CASE SyncUpdated
  BY <1>7, InstallKeepsHead DEF SyncUpdated, validTarget
<1>8. CASE SyncAdded
  <2>1. Retained = {}
    BY <1>8 DEF SyncAdded, IInv, Rows, HistorySound
  <2> QED
    BY <2>1 DEF KeepsHead
<1>9. CASE UNCHANGED vars
  BY <1>1, <1>9 DEF vars, node
<1> QED
  BY <1>2, <1>3, <1>4, <1>5, <1>6, <1>7, <1>8, <1>9 DEF Next, WatchStep

\* Only SyncUpdated is a submission that changes an existing head, and its
\* bytes differ from the accepted ones.
LEMMA NextEditSurvives ==
    ASSUME IInv, [Next]_vars,
           watch = "submitting", watch' # watch, revision # NoRevision, current' # current
    PROVE  obs # accepted
<1>1. SyncUpdated \/ SyncAdded
  <2>1. ASSUME NEW c \in Client, ClientStep(c)
        PROVE  watch' = watch
    BY <2>1 DEF ClientStep, Read, ReplaceContent, RevertContent, PruneVersions,
                PruneToCheckpoint, watcher
  <2>2. CASE Move \/ Trash \/ Restore \/ TrashEmpty
    BY <2>2 DEF Move, Trash, Restore, TrashEmpty, bumpRevision, watcher
  <2>3. CASE \E b \in Blob \cup {NoBlob} : SourceChange(b)
    BY <2>3 DEF SourceChange, watcher
  <2>4. CASE WatchStart \/ WatchStop \/ WatchObserve \/ WatchForget \/ WatchSettle \/ WatchRead
               \/ SyncRefused \/ SyncSkipped
    BY <2>4 DEF WatchStart, WatchStop, WatchObserve, WatchForget, WatchSettle, WatchRead,
                SyncRefused, SyncSkipped, node
  <2>5. CASE UNCHANGED vars
    BY <2>5 DEF vars, node
  <2> QED
    BY <2>1, <2>2, <2>3, <2>4, <2>5 DEF Next, WatchStep
<1>2. SyncUpdated
  BY <1>1 DEF SyncAdded, IInv, Rows
<1>3. pending # cursor /\ cursor # NoBlob
  BY <1>2 DEF SyncUpdated, sourceUnchanged
<1> QED
  BY <1>3 DEF IInv, Watching

-----------------------------------------------------------------------------
(***************************************************************************)
(* The theorems.                                                           *)
(***************************************************************************)
\* The strengthened invariant holds in every reachable state.
THEOREM SpecIInv == Spec => []IInv
  BY InitIInv, NextIInv, PTL DEF Spec

\* The rows of one file always have their types, up to the revision limit.
THEOREM VersionsTypeCorrect == Spec => []TypeOK
<1>1. IInv => TypeOK
  BY DEF IInv
<1> QED
  BY <1>1, SpecIInv, PTL

\* Any history reached by writes, reverts, prunes and watched syncs meets the
\* relations an import of its backup checks (HistorySound).
THEOREM HistoryAlwaysSound == Spec => []HistorySound
<1>1. IInv => HistorySound
  BY DEF IInv
<1> QED
  BY <1>1, SpecIInv, PTL

\* A revision that is still current stands for exactly what its holder saw.
THEOREM RevisionsNameHistories == Spec => []NoLostUpdate
<1>1. IInv => NoLostUpdate
  BY DEF IInv
<1> QED
  BY <1>1, SpecIInv, PTL

\* No prune, checkpoint or any other step changes the bytes of a head by
\* discarding versions, or rewrites a retained one.
THEOREM PruneSparesHead == Spec => PruneKeepsHead
<1>1. IInv /\ [Next]_vars => [KeepsHead]_vars
  BY NextKeepsHead
<1> QED
  BY <1>1, SpecIInv, PTL DEF Spec, PruneKeepsHead, KeepsHead

\* One change of the source file replaces the head at most once, so that a
\* later manual edit survives every restart of the watcher.
THEOREM WatcherSparesEdits == Spec => EditSurvives
<1>1. IInv /\ [Next]_vars =>
        [(watch = "submitting" /\ watch' # watch /\ revision # NoRevision /\ current' # current)
           => obs # accepted]_vars
  BY NextEditSurvives
<1> QED
  BY <1>1, SpecIInv, PTL DEF Spec, EditSurvives
=============================================================================
