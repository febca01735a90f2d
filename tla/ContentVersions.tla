-------------------------- MODULE ContentVersions --------------------------
(***************************************************************************)
(* The byte history of one file node, edited by clients and fed by a       *)
(* watched inbox: internal/store/version.go and version_prune.go, and the  *)
(* scan loop of internal/ingest/watcher.go.                                *)
(*                                                                         *)
(* A committed store transaction is one action; one that fails is rolled   *)
(* back and is a step only where its error stops the watcher.  A version   *)
(* is named by the node revision that introduced it (UNIQUE node_id,       *)
(* node_revision) instead of its UUID.  The deferred foreign key on        *)
(* source_version_id guards nothing here: HistorySound shows that it never *)
(* refuses a commit.                                                       *)
(***************************************************************************)
EXTENDS Integers, FiniteSets

CONSTANTS
    Blob,         \* file contents
    NoBlob,       \* no content
    Client,       \* callers that remember a revision
    MaxRevision,  \* bound: revisions of one node, standing for MaxInt64
    MaxEdits      \* bound: changes of the watched source file

ASSUME BlobAssumption == NoBlob \notin Blob

ASSUME LimitsAssumption == MaxRevision \in Nat \ {0} /\ MaxEdits \in Nat

Revision == 1..MaxRevision
NoRevision == 0
UnconditionalRev == -1
Stamp == 0..MaxEdits
NoStamp == -1

VARIABLES
    revision,   \* nodes.revision; NoRevision when there is no row
    trashed,    \* trashed_at IS NOT NULL
    current,    \* current_version_id
    version,    \* content_versions: the row each revision introduced
    held,       \* held[c]: the revision client c holds
    seen,       \* seen[c]: what the client saw at that revision
    content,    \* content[s]: what the source file held as of its change s
    stamp,      \* the source file's last change: what its fingerprint tells
    cursor,     \* watch_sources.blob_hash; NoBlob when there is no row
    accepted,   \* history: the change whose bytes the cursor stands for
    watch,      \* where the watcher's goroutine is
    obs,        \* fingerprint of the in-memory observation
    processed,  \* watchObservation.processed
    pending     \* bytes read from the source, not yet submitted

node == <<revision, trashed, current, version>>
clients == <<held, seen>>
source == <<content, stamp>>
row == <<cursor, accepted>>
watcher == <<watch, obs, processed, pending>>
vars == <<node, clients, source, row, watcher>>

-----------------------------------------------------------------------------
Absent == [kind |-> "absent", blob |-> NoBlob, from |-> NoRevision]

Version == [kind : {"content_create", "content_replace", "content_revert"},
            blob : Blob, from : 0..MaxRevision]

History == [Revision -> Version \cup {Absent}]

Retained == {v \in Revision : version[v].kind # "absent"}

HeadBlob == IF current = NoRevision THEN NoBlob ELSE version[current].blob

\* What a client learns of the node with its revision.
View == [trashed |-> trashed, current |-> current, version |-> version]

NoView == [trashed |-> FALSE, current |-> NoRevision,
           version |-> [v \in Revision |-> Absent]]

Created(b) == [v \in Revision |->
    IF v = 1 THEN [kind |-> "content_create", blob |-> b, from |-> NoRevision] ELSE Absent]

Init ==
    /\ \E b \in Blob :
        /\ version = Created(b)
        /\ content = [s \in Stamp |-> IF s = 0 THEN b ELSE NoBlob]
        /\ cursor = b
    /\ revision = 1 /\ trashed = FALSE /\ current = 1
    /\ held = [c \in Client |-> NoRevision]
    /\ seen = [c \in Client |-> NoView]
    /\ stamp = 0 /\ accepted = 0
    /\ watch = "stopped" /\ obs = NoStamp /\ processed = FALSE /\ pending = NoBlob

-----------------------------------------------------------------------------
(***************************************************************************)
(* Clients.                                                                *)
(***************************************************************************)
\* ifRev passes validateContentReplacementTarget.
validTarget(ifRev) ==
    /\ revision # NoRevision /\ ~ trashed
    /\ ifRev # UnconditionalRev => revision = ifRev
    /\ revision < MaxRevision

IfRev(c) == {UnconditionalRev, held[c]}

\* The row of a new head, with the revision that introduces it.
installContentVersion(b, kind, from) ==
    /\ version' = [version EXCEPT ![revision + 1] = [kind |-> kind, blob |-> b, from |-> from]]
    /\ current' = revision + 1
    /\ revision' = revision + 1
    /\ UNCHANGED trashed

\* c gets the committed node, with revision r, as its receipt.
Receipt(c, r) ==
    /\ held' = [held EXCEPT ![c] = r]
    /\ seen' = [seen EXCEPT ![c] = View']

Read(c) ==
    /\ revision # NoRevision
    /\ UNCHANGED <<node, source, row, watcher>>
    /\ Receipt(c, revision)

ReplaceContent(c, ifRev, b) ==
    /\ validTarget(ifRev)
    /\ installContentVersion(b, "content_replace", NoRevision)
    /\ UNCHANGED <<source, row, watcher>>
    /\ Receipt(c, revision + 1)

RevertContent(c, ifRev, v) ==
    /\ validTarget(ifRev)
    /\ v \in Retained \ {current}
    /\ installContentVersion(version[v].blob, "content_revert", v)
    /\ UNCHANGED <<source, row, watcher>>
    /\ Receipt(c, revision + 1)

\* Move, trash and restore, as far as the history sees them: a new revision.
bumpRevision(becomesTrashed) ==
    /\ revision < MaxRevision
    /\ revision' = revision + 1
    /\ trashed' = becomesTrashed
    /\ UNCHANGED <<current, version, clients, source, row, watcher>>

Move == revision # NoRevision /\ ~ trashed /\ bumpRevision(FALSE)

Trash == revision # NoRevision /\ ~ trashed /\ bumpRevision(TRUE)

Restore == trashed /\ bumpRevision(FALSE)

\* The cascades of the node's row: its versions and its watch cursor.  Its id
\* is never handed out again, so no revision held of it means anything.
TrashEmpty ==
    /\ trashed
    /\ revision' = NoRevision /\ trashed' = FALSE /\ current' = NoRevision
    /\ version' = [v \in Revision |-> Absent]
    /\ held' = [c \in Client |-> NoRevision] /\ seen' = [c \in Client |-> NoView]
    /\ cursor' = NoBlob /\ accepted' = NoStamp
    /\ UNCHANGED <<source, watcher>>

-----------------------------------------------------------------------------
(***************************************************************************)
(* PruneContentVersions.                                                   *)
(***************************************************************************)
keepNewest(k) == {v \in Retained : Cardinality({w \in Retained : w > v}) >= k}

\* Explicit ids and an age cutoff select any versions but the head: recorded
\* times need not follow the revisions.
Selections ==
    (SUBSET (Retained \ {current})) \cup {keepNewest(k) : k \in Revision}

SourcesIn(S) == \A v \in S : version[v].kind = "content_revert" => version[v].from \in S

\* Mutant: the sources of the unselected versions are not retained with them.
keptUnselected(X) == Retained \ X

\* The dependency loop: the unselected versions and every revert source they
\* lead to.
kept(X) ==
    {v \in Retained : \A S \in SUBSET Retained :
        (Retained \ X \subseteq S /\ SourcesIn(S)) => v \in S}

\* Mutant: a prune leaves the node's revision as it was.
PruneVersionsSilent(c, ifRev, X) ==
    /\ validTarget(ifRev)
    /\ kept(X) # Retained
    /\ version' = [v \in Revision |-> IF v \in kept(X) THEN version[v] ELSE Absent]
    /\ UNCHANGED <<revision, trashed, current, source, row, watcher>>
    /\ Receipt(c, revision)

\* The receipt's revision is counted up beside the row's, not read back.
PruneVersions(c, ifRev, X) ==
    /\ validTarget(ifRev)
    /\ kept(X) # Retained
    /\ version' = [v \in Revision |-> IF v \in kept(X) THEN version[v] ELSE Absent]
    /\ revision' = revision + 1
    /\ UNCHANGED <<trashed, current, source, row, watcher>>
    /\ Receipt(c, revision + 1)

\* Mutant: the checkpoint takes the bytes of the version before the head.
checkpointBlobPrior ==
    LET prior == Retained \ {current} IN version[CHOOSE v \in prior : \A w \in prior : w <= v].blob

checkpointBlob == version[current].blob

\* AllPrior under a revert head: a checkpoint with the same bytes and no
\* source becomes the head, and the whole earlier history goes.
PruneToCheckpoint(c, ifRev) ==
    /\ validTarget(ifRev)
    /\ version[current].kind = "content_revert"
    /\ version' = [v \in Revision |->
          IF v = revision + 1
          THEN [kind |-> "content_replace", blob |-> checkpointBlob, from |-> NoRevision]
          ELSE Absent]
    /\ current' = revision + 1
    /\ revision' = revision + 1
    /\ UNCHANGED <<trashed, source, row, watcher>>
    /\ Receipt(c, revision + 1)

-----------------------------------------------------------------------------
(***************************************************************************)
(* The watched inbox.  Whoever owns the source file writes and removes it  *)
(* at any time; each change shows in its fingerprint.                      *)
(***************************************************************************)
SourceChange(b) ==
    /\ stamp < MaxEdits
    /\ stamp' = stamp + 1
    /\ content' = [content EXCEPT ![stamp + 1] = b]
    /\ UNCHANGED <<node, clients, row, watcher>>

\* The daemon starts the job; observations are in memory only.
WatchStart ==
    /\ watch = "stopped"
    /\ watch' = "idle"
    /\ UNCHANGED <<node, clients, source, row, obs, processed, pending>>

Stopped ==
    watch' = "stopped" /\ obs' = NoStamp /\ processed' = FALSE /\ pending' = NoBlob

\* The daemon stops or dies, or the scan meets an error; the job stays down
\* until the daemon starts again.
WatchStop ==
    /\ watch # "stopped"
    /\ Stopped
    /\ UNCHANGED <<node, clients, source, row>>

\* Mutant: an observation is never replaced by that of a changed file.
WatchObserveOnce ==
    /\ watch = "idle"
    /\ content[stamp] # NoBlob
    /\ obs = NoStamp
    /\ obs' = stamp /\ processed' = FALSE
    /\ UNCHANGED <<node, clients, source, row, watch, pending>>

\* A scan meets a file whose fingerprint is new: the settle window starts.
WatchObserve ==
    /\ watch = "idle"
    /\ content[stamp] # NoBlob
    /\ obs # stamp
    /\ obs' = stamp /\ processed' = FALSE
    /\ UNCHANGED <<node, clients, source, row, watch, pending>>

\* A scan no longer meets the file.
WatchForget ==
    /\ watch = "idle"
    /\ content[stamp] = NoBlob /\ obs # NoStamp
    /\ obs' = NoStamp /\ processed' = FALSE
    /\ UNCHANGED <<node, clients, source, row, watch, pending>>

\* A later scan finds the fingerprint settled and submits the file.
WatchSettle ==
    /\ watch = "idle"
    /\ obs = stamp /\ ~ processed
    /\ watch' = "reading"
    /\ UNCHANGED <<node, clients, source, row, obs, processed, pending>>

\* The file is read between two checks of the settled fingerprint.
WatchRead ==
    /\ watch = "reading"
    /\ IF obs = stamp
       THEN watch' = "submitting" /\ pending' = content[stamp] /\ UNCHANGED <<obs, processed>>
       ELSE watch' = "idle" /\ obs' = NoStamp /\ processed' = FALSE /\ UNCHANGED pending
    /\ UNCHANGED <<node, clients, source, row>>

\* Mutant: what counts as unchanged is judged by the selected version.
sourceUnchangedHead == pending = HeadBlob

sourceUnchanged == pending = cursor

Submitted ==
    watch' = "idle" /\ processed' = TRUE /\ pending' = NoBlob /\ UNCHANGED obs

Accept == cursor' = pending /\ accepted' = obs

\* SyncWatchedContent refuses: the job fails and stays down.
SyncRefused ==
    /\ watch = "submitting"
    /\ cursor # NoBlob /\ ~ validTarget(UnconditionalRev)
    /\ Stopped
    /\ UNCHANGED <<node, clients, source, row>>

\* The source's bytes are the accepted ones, or else those of the head.
SyncSkipped ==
    /\ watch = "submitting"
    /\ cursor # NoBlob /\ validTarget(UnconditionalRev)
    /\ sourceUnchanged \/ HeadBlob = pending
    /\ Accept /\ Submitted
    /\ UNCHANGED <<node, clients, source>>

SyncUpdated ==
    /\ watch = "submitting"
    /\ cursor # NoBlob /\ validTarget(UnconditionalRev)
    /\ ~ sourceUnchanged /\ HeadBlob # pending
    /\ installContentVersion(pending, "content_replace", NoRevision)
    /\ Accept /\ Submitted
    /\ UNCHANGED <<clients, source>>

\* No cursor row: IngestFileExact creates the node and its cursor.  A name
\* that is taken fails the job, which WatchStop stands for.
SyncAdded ==
    /\ watch = "submitting"
    /\ cursor = NoBlob
    /\ revision' = 1 /\ trashed' = FALSE /\ current' = 1 /\ version' = Created(pending)
    /\ Accept /\ Submitted
    /\ UNCHANGED <<clients, source>>

WatchStep ==
    \/ WatchObserve \/ WatchForget \/ WatchSettle \/ WatchRead
    \/ SyncRefused \/ SyncSkipped \/ SyncUpdated \/ SyncAdded

ClientStep(c) ==
    \/ Read(c)
    \/ \E ifRev \in IfRev(c) :
        \/ \E b \in Blob : ReplaceContent(c, ifRev, b)
        \/ \E v \in Revision : RevertContent(c, ifRev, v)
        \/ \E X \in Selections : PruneVersions(c, ifRev, X)
        \/ PruneToCheckpoint(c, ifRev)

Next ==
    \/ \E c \in Client : ClientStep(c)
    \/ Move \/ Trash \/ Restore \/ TrashEmpty
    \/ \E b \in Blob \cup {NoBlob} : SourceChange(b)
    \/ WatchStart \/ WatchStop \/ WatchStep

Spec == Init /\ [][Next]_vars

\* A running watcher scans on a ticker, so its own next step is not put off
\* for ever; nobody has to start, stop or edit anything.
FairSpec == Spec /\ WF_vars(WatchStep)

-----------------------------------------------------------------------------
(***************************************************************************)
(* Properties.                                                             *)
(***************************************************************************)
NodeOK ==
    /\ revision \in 0..MaxRevision /\ trashed \in BOOLEAN /\ current \in 0..MaxRevision
    /\ version \in History

ClientsOK ==
    /\ held \in [Client -> 0..MaxRevision]
    /\ seen \in [Client -> [trashed : BOOLEAN, current : 0..MaxRevision, version : History]]

\* The state variables have their types; a row that exists holds real bytes.
TypeOK ==
    /\ NodeOK /\ ClientsOK
    /\ content \in [Stamp -> Blob \cup {NoBlob}] /\ stamp \in Stamp
    /\ cursor \in Blob \cup {NoBlob} /\ accepted \in Stamp \cup {NoStamp}
    /\ watch \in {"stopped", "idle", "reading", "submitting"}
    /\ obs \in Stamp \cup {NoStamp} /\ processed \in BOOLEAN
    /\ pending \in Blob \cup {NoBlob}

\* What validateMetadataRelations demands of a history when a backup is
\* imported, whatever was replaced, reverted, pruned or synced before: the
\* head is retained and is the newest version, no version is newer than the
\* node, only revision 1 is a create, and every revert still has its source,
\* older than itself and with its bytes.  A missing row has no history.
HistorySound ==
    /\ revision = NoRevision => Retained = {} /\ cursor = NoBlob
    /\ revision # NoRevision =>
        /\ current \in Retained /\ current <= revision
        /\ \A v \in Retained : v <= current
    /\ \A v \in Retained :
        /\ version[v].kind = "content_create" <=> v = 1
        /\ version[v].kind = "content_revert" <=> version[v].from # NoRevision
        /\ version[v].kind = "content_revert" =>
            /\ version[v].from \in Retained
            /\ version[v].from < v
            /\ version[version[v].from].blob = version[v].blob

\* A client whose revision is still the node's saw the very head, history and
\* trash state that are there now: what it changes or prunes under that
\* revision is what it looked at, also when the revision came from a receipt.
NoLostUpdate == \A c \in Client : held[c] = revision => seen[c] = View

\* A step that discards versions of a node that stays leaves its bytes alone,
\* and no step rewrites a version that is retained.
PruneKeepsHead ==
    [][/\ (revision' # NoRevision /\ ~ Retained \subseteq Retained') => HeadBlob' = HeadBlob
       /\ \A v \in Retained \cap Retained' : version'[v] = version[v]]_vars

\* The watcher replaces the head at most once for each change of the source
\* file, over any crashes and restarts: an edit or a revert made since then
\* stays (SyncWatchedContent, schema.sql watch_sources).
EditSurvives ==
    [][(watch = "submitting" /\ watch' # watch /\ revision # NoRevision /\ current' # current)
        => obs # accepted]_vars

\* A watcher that stays up ends with the cursor at the source's last bytes,
\* unless the file is gone, or its node was destroyed after it was processed.
WatchCatchesUp ==
    \/ []<>(watch = "stopped")
    \/ <>[](\/ content[stamp] \in {NoBlob, cursor}
            \/ cursor = NoBlob /\ processed /\ obs = stamp)
=============================================================================
