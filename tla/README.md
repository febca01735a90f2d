# Docbank in TLA+

Docbank keeps documents in a *vault*: a SQLite catalog (the source of truth for
names, versions and authority) beside content-addressed bytes in one or more
blob stores. A daemon owns the vault and serves HTTP clients, watches inboxes
and runs background jobs; the same store can also be embedded as a library.

This directory holds TLA+ modules of the parts that are hard to test, TLC
configurations that check them on small instances, and TLAPS proofs that carry
most of the properties to instances of every size. `PROJECT.json` lists the
components, the runs, the mutants, which source lines each definition models,
the findings, the hazards and the theorems. Paths below are relative to
`src/internal/`.

To repeat a check, in this directory:

    tlc -workers 2 -config OperationGate_gate.cfg OperationGate
    tlapm OperationGateProofs.tla

## What the checks found

1. **A refused mutation may wait** (no run of its own). `docs/architecture/http-api.md`
   (lines 560-562) says that a mutation fails immediately with `503
   maintenance_busy` once maintenance is running or queued. `mutate`
   (`api/gate.go:87`) keeps the admission read lock while it waits for `mu`. If a
   backup freeze is queued on `mu` behind a long mutation, an admitted route holds
   that lock; maintenance then waits for the write lock, and a waiting
   `sync.RWMutex` writer holds up every new route at `RLock` until the long
   mutation and the freeze are over. The actions `RouteAdmit` and `MaintLock` of
   `OperationGate` have this wait; nothing is lost and nothing deadlocks (`gate`).
2. **A clean-up may remove a file that is about to become authoritative**
   (`custody_race`). `cleanupLoose` (`ingest/ingest.go:213-230`) asks whether
   packed authority covers the hash and then removes its loose files. Placement
   commits run under `PhysicalMutate`, which does not exclude mutations. In the
   21-state trace one placement revokes the packed authority between the query and
   the removal, and another one, which has verified the loose file as its
   destination, authorises it after the removal. The catalog then names bytes that
   are gone; they still exist in the secondary store in this trace. The comment above
   the function promises the opposite. A second form of the race, with two
   writers, has the same cause.
3. **A provider call can be submitted twice** (`rendition_resubmit`).
   `reconcileRenditionJobsAfterWaiterDeletionTx` (`store/rendition_delete.go:104-115`)
   reconciles a job only while the waiter it selected is gone. Deleting the selected
   version first requeues the job without a selection; deleting the last version then
   passes by the reconciliation, and the row is removed with the durable handle of its
   provider call. The next enqueue of the same content starts the call again, which the
   function's comment and a test exclude.
4. **A staged build can lose its root** (no run of its own). A reused build is queued in
   phase `build_staged` without a selection. If the one waiter that waits is deleted
   before a worker selects it, while another row of the job remains, the roots go and
   the job stays. A purge may then collect the build that the job is about to publish.
   The comment on `RenewRenditionJobClaim` promises protection until a terminal state.
5. **A job restarted after its build was collected never runs**
   (`store/rendition_jobs.go:382-391`, no run of its own). The restart keeps the sealed
   execution snapshot of the first execution, and `BeginRenditionProvider` refuses every
   new one. In the model `SealFits` is false for such a row and only `Drop` follows.
6. **GC deletes rows before files.** The comment on `runGC` (`api/routes_ops.go:490-493`)
   says "files removed before rows"; the code deletes the rows, queues the objects in
   `gc_loose_retirements` in the same transaction, and removes the files afterwards.
   `custody_writers` shows that this order is safe and that a later GC finishes what a
   crash interrupted: the comment is out of date.
7. **A compatible daemon may be replaced** (`client/ensure.go:272-287`). The check for a
   compatible daemon and the search for one to stop are two queries, so a daemon that is
   started by hand between them is stopped although it would do. `SparesReadyDaemon`
   states what does hold: one that answered when the launch lock was taken is kept,
   unless it is too slow for the probe made under the lock (two seconds,
   `client/ensure.go:62-64`).
8. **A restore lets go of its target before it takes it**
   (`backupapp/restore_target.go:98-103`), against the comment at `home/lock.go:429-431`.
   `SoleOwner` holds all the same: the restore fails when somebody slips in.
9. **Jobs may outlive the vault's lock** (`src/cmd/docbank/daemon.go:202-209`). The drain
   of background jobs has a deadline after which storage is closed and the lock released,
   against the comment at lines 119-121.
10. **A salvage may authorise a copy that GC has removed** (`salvage`). `runRecovery`
    publishes the copy in the primary outside of the gate (`blob/placement.go:427`) and
    commits under it. In between a GC may list the primary, find no loose authority for
    the file and remove it (`api/routes_ops.go:587-602`): the lock on the location is not
    asked for. `CommitStorageRecovery` does not read the copy again, and the catalog then
    names bytes that are gone; the fenced store still has them. A placement re-verifies under the
    gate, and the comment at `blob/placement.go:670-673` says that this is why. A repair
    has no such window, because its destination is already authorised.
11. **An evacuation proves coverage by rows** (`store/store_registry.go:392-407`, no run of
    its own). `FinalizeBlobStoreEvacuation` "proves complete destination coverage" (line 307)
    by counting locations; bytes are read only for the blobs of the plan. Content that was placed in
    the source after the preview is revoked there if the primary has a location for it, without
    asking whether that copy verifies. It is why `ContentSurvives` assumes a sound primary.

Further observations, not contradicted by any document. A watched file whose
node is emptied from the trash after the file was processed is not added again
until the watcher restarts or the file changes; `WatchCatchesUp` names the
exception. A retirement queued by GC for one encoding is dropped when any location
of that content in that store is authoritative again; secondary stores have no
orphan sweep, so such a file stays. A completed rendition job whose build was
collected is a legal state of the database, but the validation of an imported backup
(`store/processing_metadata.go`, `validateProcessingMetadataState`) refuses it.
`BeginBlobStoreEvacuation` and `CreateStorageOperation` are two transactions; if the store
is detached, forgotten and registered again between them, the operation starts on an active
store and is deferred at its end until somebody cancels it.

## The system and its state

| Part | State | Operations | Hard parts |
|---|---|---|---|
| Operation gate (`api/gate.go`) | two weighted semaphores, an RWMutex, a counter | `mutate`, `MutateContext`, `maintainContext`, `capture`, `gateFreezer`, `PhysicalMutate` | lock order, FIFO queues, cancellation |
| Vault tree (`store/write.go`, `batch_move.go`, `trash.go`, `ingest.go`) | `nodes` | create, import, move, batch move, trash, restore, empty | cycles, nested trash units, suffix names, stale revisions |
| Content versions (`store/version*.go`) | `content_versions`, `nodes.revision` | replace, revert, prune, checkpoint | revert chains, receipts, revision limit |
| Watched inboxes (`ingest/watcher.go`) | observations in memory, `watch_sources` | observe, settle, read, submit, forget | file changes between steps, restarts |
| Blob catalog (`store/gc.go`, `blob_locations.go`, `pack_catalog.go`) | `blobs`, `blob_locations`, `blob_pack_entries`, `gc_loose_retirements`, files | publish, commit, clean up, GC, pack, repack | crash between any two steps |
| Placement (`store/placement.go`, `storage_operations.go`, `blob/placement.go`) | `storage_operations`, `storage_operation_cleanup` | plan, claim, copy, verify, commit, retire, resume | stale previews, resumed operations, races with writers |
| Stores (`store/store_registry.go`, `storage_recovery.go`) | `blob_stores`, `storage_operation_stores` | register, evacuate, detach, forget, repair, salvage | stale previews, adopted clean-ups, cancellation against finalisation |
| Backup (`backupapp`, `api/routes_backup.go`) | a pinned SQLite snapshot | freeze, capture, stream, restore | streaming while the vault changes, hand-off on restore |
| Processing (`store/rendition_jobs.go`, `rendition_delete.go`, `embedding_jobs.go`, `consent.go`, `vector_index.go`) | jobs, leases, waiters, grants, generations | claim, renew, provider call, stage, publish, revoke | expired leases, ambiguous provider calls, revocation |
| Ownership (`home/lock.go`, `client/ensure.go`, `jobs/supervisor.go`) | file locks, runtime record, jobs | start, discover, replace, stop, idle exit | two starters, dying owners |
| Audit (`audit`, `store/audit_*.go`) | a hash chain of events | append, enrol, verify | canonical encoding |
| Metadata export and upgrade (`store/metadata.go`, `upgrade.go`) | none of its own | export, import, migrate | the relations an import validates |
| Front ends (`api`, `cmd`, `tui`, `mcp`, `web`) | sessions, previews | requests | none of this kind |
| Codecs and providers (`document`, `extract`) | none | parse, encode, call | pure data |

Interaction. Every mutation of the daemon runs inside the operation gate's shared
side and under a mutation lease of Kit's coordinator (`blob.WithMutation`).
Maintenance (GC, pack, repack, trash empty, verify) has the gate to itself. A
backup holds the gate's preservation side for its whole length and its mutation
side only while it pins the snapshot. Placement runs as a job: copies outside of
every gate, commits under `PhysicalMutate`, and retires sources under a location
lock and the coordinator's maintenance lease. The store's transactions are
serialised by SQLite, so one committed transaction is one action of the models.

What makes each part correct is the list of hazards in `PROJECT.json`, each at its
line with the properties that would catch it.

## The modules

| Module | Models | Runs |
|---|---|---|
| `OperationGate` | `api/gate.go`, with the semaphore of `golang.org/x/sync` | `gate` |
| `VaultTree` | the `nodes` table and every operation on it | `tree` |
| `ContentVersions` | the history of one file and the watched file that feeds it | `versions` |
| `BlobCustody` | catalog authority, files, writers, GC, packing, placement, captures, crashes | `custody_writers`, `custody_placement`, `custody_race` |
| `RenditionJobs` | one shared build: job row, waiters, consent, claims, provider call, roots, deletion | `rendition_jobs`, `rendition_resubmit` |
| `RenditionPromise` | what such a build promises, without claims, phases or roots | as `KeepsPromise` of `rendition_jobs` |
| `VaultOwnership` | locks, daemons, embedding applications, restores, the hand-off of the primary marker, clients | `vault_owners` |
| `VectorIndex` | the index tables of one vector space, the worker that builds it, semantic searches | `vector_index` |
| `StoreLifecycle` | the registry of stores, evacuation, detachment, repair, salvage, beside placements and GC | `stores`, `salvage` |

Each but `RenditionPromise` has a `...Proofs` module, and all but it, `OperationGate`
and `ContentVersions` an `MC...` module with symmetry sets and values of constants.
`BlobCustody` uses the gate through the guards `GateIdle`, `NoMaintenance` and
`commitGate`, which state what the theorems of `OperationGateProofs` establish:
maintenance is alone (`GateMaintenanceExclusive`), and a capture excludes
mutations while it freezes and physical commits throughout
(`GateCaptureConsistent`).

Operators whose comment begins with "Mutant" are deliberately wrong variants of
the definition that follows them. Nothing uses them in the specifications; putting
one in the place of its original must break the property that `PROJECT.json` pairs
with it.

### OperationGate

A caller is a process with a program counter and one action for each lock
operation. The admission RWMutex has its Go semantics: a waiting writer holds up
new readers. `Acquire`, `Release` and `Abandon` model the semaphore: FIFO, a
request at the head blocks those behind it, a cancelled request leaves and may let
the next ones in. `Route` is an HTTP mutation (`mutate`), `Job` a daemon job
(`MutateContext`), `Maint` maintenance, `Capture` a backup with its freezer,
`Physical` a placement commit. Every wait with a context can be cancelled.

Left out: what the callbacks do (they end), and panics.

### VaultTree

A row per node id; ids are handed out in order and never again. A name is a base
with the stack of collision suffixes put on it, so `suffixedName` is a function of
names and a caller may itself ask for a name that looks suffixed. `Subtree` is the
recursive query, written as a least fixed point. A client holds the revision of one
node, as "the revision of `n` that is still current" or nothing: revisions only
ever grow, so more need not be kept. `Trash` takes any clock stamp, because the
wall clock may step back. Actions correspond one to one to the store's methods; the
transactions' audit events and the paths they report are left out, and failing
transactions are not steps.

### ContentVersions

One node, its versions named by the revision that introduced them, clients with
revisions and receipts, and the watched source file with a change counter as its
fingerprint. `MaxRevision` stands for the largest INTEGER, at which the code refuses
edits. `SourceChange` is the file's owner and is the environment's only action;
`WatchStop` is shutdown, a crash or a scan error, after which only a daemon start
brings the watcher back (`jobs/supervisor.go` keeps a failed job down).
`keepNewest` and `Selections` cover explicit ids, an age cutoff, keep-newest and
all-prior.

### BlobCustody

Two stores, of which the primary also holds packs. One action is one transaction or
one physical operation, and `Crash` may come between any two. `wr` is a writer
between publication, commit and clean-up; `maint` is the maintenance that holds the
gate; `run` is the runner of a storage operation, whose durable part is in `op` and
`cleanup`. `Reject` covers every failure of the commit. Kit's pack store is modelled
from how the code uses it: publication is durable and keeps an existing
representation, a move publishes a verified copy.

Abstractions: a location has no generation number; a pack is the set of blobs
mapped into it; a plan has one blob, since the runner takes the blobs of a plan one
after the other and keeps nothing between them but its cursor; references to a blob
are one bit; `retire` in `PlaceCommit` is chosen freely, which covers reference
drift and audit pins.

`Undisturbed` is the condition that no placement revokes the packed primary
authority of content that a writer has in flight. **Nothing in the code ensures it**
(finding 2); `custody_placement` and two of the theorems assume it to show that
this race is the only one: with it, everything holds.

### RenditionJobs and RenditionPromise

One content-addressed build that several waiters want. `job` is its row, `wk[k]` the
attempt of a worker that has or had the claim, `remote` what the provider really holds of
the latest submission, which the database cannot see. One action is one transaction of
`rendition_jobs.go`, `consent.go` or `rendition_delete.go`, one step of `runOne` between
two of them, or an answer of the provider. `Drop` is everything that ends an attempt
without a write: a lost lease, `ErrRenditionJobFenced`, an error that nothing classifies,
a crash. The daemon starts one worker (`src/cmd/docbank/daemon.go:456-460`), but the store
admits several and a restarted daemon meets its own former claims, so the run has two.

Abstractions: a lease has expired exactly when the job is claimed again; a waiter has a
content version of its own, which only this build renders; labels, classes and request
documents of a consent are one scope per waiter; expiry removes a grant; artifacts and
lexical rows are two bits. `StagedPhase`, `Reset` and `refreshedRoots` keep the fencing
tokens of the roots, because a token that is newer than its row blocks every later claim.

`RenditionPromise` has six variables: what each waiter was told, whose consent stands, how
often it was revoked, what is open at the provider, whether somebody attends to it, whose
content is being sent. `KeepsPromise` maps the detailed state to it (`consented`, `call`,
`attended`, `out`); the proof goes action by action. It allows a kept handle to go away
when the last waiter goes (finding 3 is about what the code's own comment promises
beyond that) and when a joining waiter finds the build already there: the second case came
to light in the proof.

### VaultOwnership

A process is a daemon of some version, an embedding application or a restore; `pc` is how
far it has come between two effects that another process, or the next one after a crash,
can see. `Crash` may happen at each of them, and it also stands for the error returns,
which leave the same files and give back the same locks. A client is a command that
ensures a daemon, stops one (`daemon stop`, without the launch lock) or updates the
executable. `db`, `marker` and `handoff` are the three files of the hand-off; a database
has an ownership, which is what its `blob_stores` row says, and a revision, which stands for
its digest. `ready` is a history variable that only `SparesReadyDaemon` reads.

Abstractions: one root, so the hierarchy of shared and exclusive locks over its ancestors
and the acquisition locks are one try-lock, and the ownership transition of a vault reset is
left out. Over a root that does not exist a restore may hold its ancestors only (`RootMissing`
in `Prepare`), which keeps nobody out. A probe has two seconds, so every query of a client may
miss a daemon that serves; the client then treats it as gone and goes on to its recorded
process. The runtime record is written with the listeners open, and `Serve` is both. A
record whose process is gone is recognised by PID and create time and left out; a PID is
used again only when no client has the old one in mind. Deadlines pass when they like.
`Launch` is free, so a daemon may be started at any moment without the launch lock. The
recovery inside `blob.NewWithOptions` never finds a record (part of `AtStage`, proved), so
`Attach` does not have it. Kit's `Restore` renames the database after the callback and is
taken to return an error only if it did not: external.
`Init` has every kind of vault a restore may meet: none, one in use, one without a marker as
older versions left it, and an unreadable file in the database's place.

### VectorIndex

One vector space. Every transaction of `vector_index.go` is one action, and so is every
step of the worker (`scan`, `refresh`, `rebuild`) and of a semantic search between two of
them; the heads, the tree and the payloads change in between. The source manifest is a
checksum over its members, so the set of members stands for it, and a generation is its
source with the payloads that were built into it. `Reclaim` is part of the transactions and
calls that end with one. `Fail` is a call that returns an error, with the deferred
abandonment and the count of failed scans after which `Run` ends.

A lease is the time that is left of it, which `Tick` runs down. Callers pass a time they
read before their transaction begins, so each of them sees the clock with a lag of up to
`MaxDelay`, and a worker with one no longer than since its last step. A release of a lease
that has expired is rolled back, so the row stays with nobody to care for it (`Orphans`)
until a reclaim. The owner's name is left out: the fencing token decides alone, which `Fenced`
(theorem `OneOwner`) justifies. `Init` is a new vault, or a restored one, which has
embedding heads and no index.

Abstractions: a stored generation that does not validate is built again, so `CheckActive`
may always go on to a claim; sharing one rebuild among callers of a process, `Restore` and
the leases a worker may take are not modelled on their own, because the daemon's worker
does not use them; the two queries of a search, its ranking and its rows are data.

### StoreLifecycle

One primary and any number of secondaries, each with the lifecycle of its `blob_stores` row.
`op[o]` is a storage operation of any kind from its preview on: the stores and blobs of its
plan (`todo`), those the source (`from`) and the destination (`to`) had when it was previewed,
a request for cancellation, and `fin` for the finalizing cursor. `run[o]` is its runner.
`PreviewPlace` to `CreateStorageOperation` are the requests, of which an evacuation has two
transactions; `PlaceOne` to `Complete` are the runner over its plan; `Finalize...` and
`Revoke` are the outcomes of `FinalizeBlobStoreEvacuation`, which runs once after the last blob
and again when the revoked objects are removed; then repair and salvage, GC and ingest.
`Finishes` resets the plan of an operation that has ended, which nothing reads again.

`BlobCustody` has packs, encodings, writers between two steps and captures; here content is
loose in one representation and a location is a pair of store and blob, without a generation.
What a handler does while it holds the gate is one step. Copies that do not verify (`bad`, in
the stores of `Rot`) and stores that another vault has taken over (`fenced`) are there from the
start. A registration may take such a namespace over or attach our own again: the marker
changes first, and the row follows unless a probe fails; the id of an unregistered store is used
again for the new one. `Ingest` is `EnsureBlobTx` for content that has no row or whose primary copy
is missing. `GcDelete` takes any row: references are not modelled.

`Undisturbed` says that GC spares the copy that a salvage has published and not yet
committed. **Nothing in the code ensures it** (finding 10).

## The runs

| Run | Instance | Distinct states | Shows |
|---|---|---|---|
| `gate` | 2 routes, 1 job, 2 maintainers, 1 capture, 1 commit, fair | 49 thousand | exclusion, order, every call returns |
| `tree` | 3 nodes, 3 stamps, 2 base names, batches of 2, 2 clients | 45 thousand | tree, trash and names stay sound, no lost update |
| `versions` | 4 revisions, 2 contents, 2 clients, 2 source changes, fair | 596 thousand | importable history, head kept, no lost update, edits survive, watcher catches up |
| `custody_writers` | 2 blobs, 2 encodings, 2 writers | 757 thousand | content kept, GC complete |
| `custody_placement` | 1 blob, 1 writer, 2 operations | 2.3 million | content kept under placement |
| `custody_race` | as above, without the condition | violation | finding 2 |
| `rendition_jobs` | 2 claim owners, 2 waiters, 3 epochs, 1 revocation, 1 grant each | 2.0 million | consent, fencing, no stranded waiter, the promise |
| `rendition_resubmit` | 1 worker, 2 waiters | violation | finding 3 |
| `vault_owners` | 2 processes, 2 clients of 2 versions, 3 databases or revisions, fair | 1.5 million | one owner, decidable hand-offs, launch lock comes back |
| `vector_index` | 2 members of one head key, 1 worker, 1 search, 3 tokens, 2 changes, 1 fault, fair | 1.7 million | generations kept, complete answers, head and claim respected, index catches up |
| `stores` | 1 evacuation and 1 operation of any kind, 1 secondary that may rot or be fenced, 1 blob, 1 fault | 1.4 million | content survives the stores' life cycle, detached stores are empty, cancellations hold, evacuations detach |
| `salvage` | as above, without the condition, rot and faults | violation | finding 10 |

Why these bounds are enough to be of use: three nodes give a directory in a directory with
a file, or a sibling, so nested trash units, a restore into a trashed or destroyed origin
and a two-step cycle all occur; two base names give names that collide and names that do
not; three stamps give equal and reversed trash times. Four revisions give a revert whose
source is pruned; longer chains of reverts are covered by the proof. Two operations on one
blob move it there and back. Two encodings make a writer replace another's representation.
Three epochs give a claim, a late worker of it, a second claim and a row that is deleted
and made again; two waiters give a selection that dies while another one waits. Two
processes are enough for every pair of roles to collide, because a process that has ended
comes back in another role; three numbers give a vault, a restore over it and a write or a
second restore after that. Two clients of different versions want to replace each other's
daemon. Two members with the same key replace each other, two changes give a source that
goes away and comes back; three tokens give a claim, one that supersedes or follows it,
and one after a crash; leases and lags of one give an expired lease that a slow caller
still takes for live. A daemon runs one worker (`src/cmd/docbank/daemon.go`), so the run
has one; the theorems are about any number. An evacuation beside one operation of every
kind gives each pair that can meet at a store, a second evacuation included, and one fault
a crash or an offline store at every step of it. The proofs then remove the bounds for
everything but liveness.

`tree` does not check for deadlock: with a bounded number of ids the last state may be an
empty root. Nor do the runs of `RenditionJobs`, `VaultOwnership`, `VectorIndex` and
`StoreLifecycle`, whose epochs, grants, databases, tokens and operations run out.
Everywhere else deadlock is checked.

Symmetry is used only in runs without liveness properties. In `rendition_jobs` it
permutes workers only: waiters are ordered by their number.

### Fairness

`gate`: weak fairness for each caller's own steps once it has called; a
callback ends and a goroutine that can proceed proceeds. Of two maintainers that wait
for the admission mutex each gets its turn, because Go's mutex hands over to a starving
waiter: strong fairness for `MaintLock`. Calling and cancelling are not fair.
`versions`: weak fairness for the running watcher's own steps, which its ticker
drives. Starting, stopping and editing are not fair, so `WatchCatchesUp` has the
escape "is stopped again and again".
`vault_owners`: weak fairness for the steps of whoever holds the launch lock
(`HolderStep`): one goroutine that polls, each of whose waits has a deadline
(`GracefulExitTimeout`, `ForcedExitTimeout`, `ensureTimeout`). Nothing is asked of daemons,
which may hang in any state, nor of cancellation.
`vector_index`: weak fairness for the worker's loop, which a timer drives, and for the
passing of time. Nothing is asked of searches, changes, failures or crashes, and
`IndexSettles` has the escapes "a payload cannot be read", "the worker has stopped" (after
three failed scans the code does not start it again) and "the bound on tokens is used up".
`rendition_jobs` and `stores` check safety only.

## What is proved

All theorems hold for every value of the constants. The assumptions are the named
`ASSUME`s of the modules: bounds are positive naturals, sentinels differ from data.

**OperationGate.** `IInv` says which callers hold and await which lock at each
program counter, that the holders of a semaphore fit its weight, and that the
maintenance counter is the number of maintainers between their two admission steps.
The last part gives `AdmissionTruthful`. A cancelled maintainer leaves no count behind, so a
counter above zero means that somebody still maintains or waits to; and a route waiting for
`mu` holds the read lock, so the counter stays at zero, so no maintainer can have queued.
`ServedIsPrefix`, `NotifyOK` and the `...Sound` lemmas say what the semaphore's
operations do for queues of every length. Theorems: `GateTypeCorrect`,
`GateMaintenanceExclusive`, `GateCaptureConsistent`, `GateAdmissionTruthful`.

**VaultTree.** `TreeSound` speaks of reachability and is not inductive as it stands;
`NoLoop` (no nonempty set of rows but the root is closed under parents) is, and implies
it. `Units` says that a trash root hangs beneath the root and any other trashed row was
trashed with its parent; `OriginOutside` gives for each trash root a set of trashed rows
that holds all that is beneath it and not the directory it came from, so that a restore
makes no loop; `Vacant` says that unused ids carry neutral values. `SubtreeFacts` and
`SubtreeLeast` replace induction over the tree. `LiveSiblingNamesUnique` needs `Siblings`:
rows that are not trash roots differ in name from their siblings, trashed or not, because
a restore consults the index for the top of the unit only. Theorems: `TreeTypeCorrect`,
`TreeAlwaysSound`, `TrashAlwaysSound`, `NamesAlwaysUnique`, `RevisionsGuardViews`,
`TrashEmptySpares`.

**ContentVersions.** `IInv` adds to `HistorySound` and `NoLostUpdate` that the cursor
holds the bytes of the accepted change and that the watcher's pending bytes are those
of its observation; `EditSurvives` follows. `KeptFacts` characterises the dependency
loop of a prune as the least set closed under sources. Theorems:
`VersionsTypeCorrect`, `HistoryAlwaysSound`, `RevisionsNameHistories`,
`PruneSparesHead`, `WatcherSparesEdits`.

**BlobCustody.** The invariant has two layers. `Ledger` (with `Locked`) is about the
tables, the gate and the location locks, and is inductive under every step: from it come
`CustodyTypeCorrect`, `PackIndexAlwaysAgrees` and `CleanupAlwaysOwned` for the code as it
is. `Bytes` says that every authority has its bytes, that a writer that may still adopt
its file has it, that a verified destination is there, and that nothing authorises what
somebody is about to remove; it is inductive only under `Undisturbed`, and gives
`UndisturbedCustody` and `UndisturbedCapture`. Without placement operations `Undisturbed`
always holds (`AloneUndisturbed`), hence `CustodyWithoutPlacement`: a vault with one store
never loses committed content. `CollectionExhausts` says of every vault that from the
listing of a GC to its end no row is unreachable and nothing is queued;
`CollectionComplete` adds the files (`GcReclaims`) for a vault without placement, because
an operation may put a file into the primary after the listing. `Passed` says that what
the sweep is through with is authorised; the gate part of `Ledger` keeps every writer out
of that stretch.

**RenditionJobs.** `IInv` is the conjunction of `TypeOK`, the four invariants of the run,
`OpenCallGuarded` (a provider call whose end nobody knows is guarded by the row: running,
or set aside for an operator) and what they need: `GrantIds` (a grant's number was
issued), `QueuedClean` and `RemoteKept` (what the row says of the provider is what the
provider holds), `OpenSelected`, `AtClaim` (what a worker carries at each step while its
claim stands) and `Carries` (what it carries when the claim is lost). `AtClaim` is about
the worker with the row's owner and epoch only; everybody else is fenced, and the proof of
each action begins with that split. Theorems: `TypeCorrect`, `OpenCallsGuarded`,
`EgressConsented`, `RowsSound`, `RootsFenced`, `NobodyStranded`, and `PromiseKept`: `Spec`
implies the specification of `RenditionPromise` under the mapping, for every number of
workers, waiters, grants and claims.

**VaultOwnership.** `IInv` adds to `TypeOK`: `AtStage`, which gives for each stage of a
process the lock it holds and the files it relies on; `Sided`, by which a record always has
marker and database on one of its sides; `Numbered`, by which ownerships and revisions are
never newer than `fresh`, so that a staged database differs from everything before it;
`TargetKnown`, `ReadyPast` and `Rechecked` for the clients. `Numbered` is why a digest decides: a
database that has been written since the record would match neither side, and `AtStage`
shows that nobody writes before the record is gone. Theorems: `TypeCorrect`, `OwnersApart`,
`MarkerOwned`, `AlwaysRecoverable`, `SettledTogether`, `ReadyDaemonSpared`.

**VectorIndex.** `IInv` is `TypeOK`, `AnswersComplete` and three parts. `Whole`: every
stored generation, the head and what a worker is about to stage hold all payloads of their
source, because one missing payload fails the build. `Held`: every lease names a stored
generation, and a search whose time has not run out has its row. `Fenced`: a worker that
builds has a token that was given out, and no two have the same. Theorems: `TypeCorrect`,
`KeepsGenerations`, `CompleteAnswers`, `OneOwner`, and the action properties
`KeepsCurrentHead` and `RespectsClaim`.

**StoreLifecycle.** `IInv` is `TypeOK`, `DetachedEmpty`, `CancelHonoured` and four parts.
`Planned`: no plan copies a store to itself, and an evacuation drains one secondary into
the primary. `Running`: what the row of an operation says at each stage of its runner.
`Filling`: the destination of an active operation is active, so no content comes to a
store that drains or is detached. `Closed`: once an evacuation is finalized its source has
no location, and nobody but the evacuation owes it a removal, so that the second
finalization detaches it; `EvacuatedDetached` is an action property because the runner
does not look at the answer. `CustodyInv` adds `Custody`, `Published` and `SoundPrimary`.
`Published` is where `Undisturbed` is needed: a salvage that has published has its copy. A
repair needs no such clause, because its destination was authorised when it was planned
and `asPlanned` asks for that again; `Repairs` is that argument, and with it
`ContentSurvivesWithoutSalvage` holds for the code as it is. Both theorems assume that the
primary holds no corrupt copies (`Primary \notin Rot`, finding 11); secondaries may rot as
they like. Theorems: `TypeCorrect`, `DetachedStoresEmpty`, `CancellationsHonoured`,
`EvacuationsDetach`, `ContentSurvives`, `ContentSurvivesWithoutSalvage`.

The type invariants and `OpenCallGuarded` are proved and not repeated in the runs.

### Only model-checked

Liveness (`EveryCallReturns`, `WatchCatchesUp`, `LaunchLockReturns`,
`IndexSettles`), which needs fairness and is out of
the prover's reach. Every safety property of every passing run is a theorem. That an evacuation ends
is neither checked nor proved: it waits for other operations and for stores that are offline.

## Not modelled, and why

Byte counts and budgets of GC pages, verification, MIME types, path strings, audit
rows and tags (data of transactions whose control is modelled); export formats and
schema upgrades (their relations are the invariants `TreeSound`, `TrashSound` and
`HistorySound`); lexical search, ranking, document codecs and vector arithmetic (pure data);
front ends. Most of the repository's lines are of these kinds: parsers and canonical
encodings (`src/document`), the HTTP client and routes, the serialisation of metadata,
query text, the terminal and web interfaces. They have no protocol state, and a model of
them would repeat the code. The component list in `PROJECT.json` gives the reason for each.

## Plan

Done: the nine modules above, in the order of what losing data, consent or the vault
itself would cost. Left, in this order:

1. `EmbeddingJobs`: embedding jobs, whose claims work like those of `RenditionJobs`, and
   their reconciliation (`store/embedding_jobs.go`), composed with `VectorIndex` through
   the embedding heads.
2. `PackFiles`: pack files, the compare-and-swap of `CommitRepack` and the deferred
   retirement of old packs, as a refinement of the pack actions of `BlobCustody`.
3. The ownership transition of a vault reset and nested roots, in `VaultOwnership`.
4. `AuditHistory`: append, enrolment and checkpoints of the chain.

Theorems to come: the refinement of 2; fencing of 1 from the lemmas of
`RenditionJobsProofs`; that the loose part of `BlobCustody` implements the placements of
`StoreLifecycle`.
