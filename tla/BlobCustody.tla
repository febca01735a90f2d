---------------------------- MODULE BlobCustody ----------------------------
(***************************************************************************)
(* Who keeps the bytes: the catalog's authority over physical content      *)
(* (blobs, blob_locations, blob_pack_entries), the writers that publish    *)
(* loose files and commit rows for them, garbage collection with its       *)
(* durable retirement queue, packing and repacking, placement operations   *)
(* that copy content between two stores and retire the source, and backup  *)
(* captures.  Sources: internal/store (write.go, gc.go, pack_catalog.go,   *)
(* placement.go, storage_operations.go), internal/blob/placement.go,       *)
(* internal/maintenance, internal/ingest.                                  *)
(*                                                                         *)
(* One action is one committed transaction or one physical operation; the  *)
(* process may crash between any two.  The exclusions are those of the     *)
(* operation gate (module OperationGate) and of Kit's coordinator: the     *)
(* guards GateIdle, NoMaintenance and NoRetirement name them.              *)
(*                                                                         *)
(* Abstractions: one secondary store, which holds loose content only; a    *)
(* pack is known by the blobs mapped into it; a location has no            *)
(* generation, so a location rewritten with the encoding it had counts as  *)
(* unchanged; a placement plan has one blob (the runner takes the blobs of *)
(* a plan one after the other); references of a blob are one bit.          *)
(***************************************************************************)
CONSTANTS
    Blob, Encoding,
    Primary, Secondary,
    Writer,         \* callers that ingest or replace content
    Op,             \* storage operations of kind "place"
    NoBlob

Store == {Primary, Secondary}
Kind == Encoding \cup {"packed", "none"}
Item == Store \X Blob \X Encoding

ASSUME StoresDiffer == Primary # Secondary
ASSUME KindsDiffer == Encoding \cap {"packed", "none"} = {} /\ NoBlob \notin Blob

VARIABLES
    rows,         \* blobs
    refs,         \* blobs that blobRootReferences name
    loc,          \* blob_locations: loc[s][h]
    mapped,       \* blob_pack_entries of the primary
    retirements,  \* gc_loose_retirements
    op,           \* storage_operations
    cleanup,      \* storage_operation_cleanup: cleanup[o]
    loose,        \* loose files of both stores
    packBytes,    \* blobs whose bytes are in a pack file
    wr,           \* each writer: where it is, and its write receipt
    run,          \* each operation's runner: where it is, its destination
    maint,        \* the maintenance that holds the gate
    item,         \* the loose object that it is about to remove
    sweep,        \* blobs left of the daemon's second listing
    capturing,    \* a backup capture is under way
    pinned        \* the blobs its snapshot names

catalog == <<rows, refs, loc, mapped>>
queues == <<retirements, op, cleanup>>
disk == <<loose, packBytes>>
upkeep == <<maint, item, sweep>>
backup == <<capturing, pinned>>
vars == <<catalog, queues, disk, wr, run, upkeep, backup>>

-----------------------------------------------------------------------------
NoItem == <<Primary, NoBlob, "none">>

IdleWriter == [at |-> "idle", blob |-> NoBlob, enc |-> "none", created |-> FALSE]
NoPlan == [state |-> "none", blob |-> NoBlob, src |-> Primary, dst |-> Primary,
           from |-> "none", to |-> "none"]
NoRun == [at |-> "off", dest |-> "none", item |-> NoItem]

\* The bytes that a location of kind k names are there.
Physical(s, h, k) ==
    IF k = "packed" THEN s = Primary /\ h \in packBytes ELSE <<s, h, k>> \in loose

\* requirePhysicalAuthorityTx: the catalog authorises bytes of h in s.
Authority(s, h) == loc[s][h] \in Encoding \/ (loc[s][h] = "packed" /\ h \in mapped)

Files(s, h) == {s} \X {h} \X Encoding

-----------------------------------------------------------------------------
(***************************************************************************)
(* Exclusion.  Mutations share the gate and hold a mutation lease;         *)
(* maintenance has the gate to itself; a placement commit excludes         *)
(* maintenance and captures; physical retirement by a placement runner     *)
(* and packing hold the maintenance lease, which excludes mutation leases. *)
(***************************************************************************)
NoMaintenance == maint = "idle"
NoRetirement == \A o \in Op : run[o].at \notin {"retiring", "retired"}
NoCommit == \A o \in Op : run[o].at # "verified"

\* Mutant: maintenance does not wait for captures.
GateIdleCaptures ==
    /\ NoMaintenance /\ NoCommit
    /\ \A w \in Writer : wr[w].at = "idle"

\* maintainContext, and a capture's freeze.
GateIdle ==
    /\ NoMaintenance /\ NoCommit /\ ~ capturing
    /\ \A w \in Writer : wr[w].at = "idle"

\* acquireLocation: the runners that hold the lock of (s, h).
Holders(s, h) ==
    {o \in Op :
        \/ run[o].at \in {"copying", "moved", "verified"} /\ op[o].dst = s /\ op[o].blob = h
        \/ run[o].at \in {"retiring", "retired"} /\ run[o].item[1] = s /\ run[o].item[2] = h}

-----------------------------------------------------------------------------
(***************************************************************************)
(* Writers: ReplaceContent, PreparedUpload, AddPaths and the watcher.      *)
(***************************************************************************)
\* Kit publishes the file durably; a representation that exists is kept.
Publish(w, h, e) ==
    /\ wr[w].at = "idle" /\ NoMaintenance /\ NoRetirement
    /\ wr' = [wr EXCEPT ![w] = [at |-> "published", blob |-> h, enc |-> e,
                                created |-> <<Primary, h, e>> \notin loose]]
    /\ loose' = loose \cup {<<Primary, h, e>>}
    /\ UNCHANGED <<catalog, queues, packBytes, run, upkeep, backup>>

\* EnsureBlobTx writes a loose location: the row is new, or the primary has no
\* authority or another encoding and this write made the file.
adopts(h, e, created) ==
    h \notin rows \/ (created /\ loc[Primary][h] \notin {"packed", e})

\* EnsureBlobTx leaves the row alone: its authority covers the content.
covers(h, e) ==
    /\ h \in rows
    /\ \/ loc[Primary][h] \in {"packed", e} /\ Authority(Primary, h)
       \/ loc[Primary][h] = "none" /\ \E s \in Store : Authority(s, h)

\* Mutant: the packed mapping outlives the packed authority.
writeLooseLocationOnly(h, e) ==
    /\ loc' = [loc EXCEPT ![Primary][h] = e]
    /\ UNCHANGED mapped

writeLooseLocation(h, e) ==
    /\ loc' = [loc EXCEPT ![Primary][h] = e]
    /\ mapped' = mapped \ {h}

\* The metadata transaction, with the reference that the caller commits.
Commit(w) ==
    LET h == wr[w].blob
        e == wr[w].enc
    IN /\ wr[w].at = "published"
       /\ \/ adopts(h, e, wr[w].created) /\ writeLooseLocation(h, e)
          \/ ~ adopts(h, e, wr[w].created) /\ covers(h, e) /\ UNCHANGED <<loc, mapped>>
       /\ rows' = rows \cup {h} /\ refs' = refs \cup {h}
       /\ wr' = [wr EXCEPT ![w].at = "cleaning"]
       /\ UNCHANGED <<queues, disk, run, upkeep, backup>>

\* The transaction fails, or the upload does not match what was declared.
Reject(w) ==
    /\ wr[w].at = "published"
    /\ wr' = [wr EXCEPT ![w].at = "cleaning"]
    /\ UNCHANGED <<catalog, queues, disk, run, upkeep, backup>>

Finished(w) == wr' = [wr EXCEPT ![w] = IdleWriter]

\* cleanupLoose keeps the file, or could not remove it.
CleanupKeep(w) ==
    /\ wr[w].at = "cleaning"
    /\ Finished(w)
    /\ UNCHANGED <<catalog, queues, disk, run, upkeep, backup>>

\* cleanupLoose finds packed authority over the content.
CleanupFind(w) ==
    /\ wr[w].at = "cleaning"
    /\ loc[Primary][wr[w].blob] = "packed" /\ Authority(Primary, wr[w].blob)
    /\ wr' = [wr EXCEPT ![w].at = "removing"]
    /\ UNCHANGED <<catalog, queues, disk, run, upkeep, backup>>

\* ... and removes every loose representation of it.
CleanupRemove(w) ==
    /\ wr[w].at = "removing"
    /\ Finished(w)
    /\ loose' = loose \ Files(Primary, wr[w].blob)
    /\ UNCHANGED <<catalog, queues, packBytes, run, upkeep, backup>>

\* The last version that named the content is pruned or emptied from the trash.
Unreference(h) ==
    /\ NoMaintenance
    /\ h \in refs
    /\ refs' = refs \ {h}
    /\ UNCHANGED <<rows, loc, mapped, queues, disk, wr, run, upkeep, backup>>

-----------------------------------------------------------------------------
(***************************************************************************)
(* Garbage collection: GarbageCollect's pages, then the daemon's sweep.    *)
(***************************************************************************)
Unreachable == rows \ refs

GcStart ==
    /\ GateIdle
    /\ maint' = "gc"
    /\ UNCHANGED <<catalog, queues, disk, wr, run, item, sweep, backup>>

\* The loose locations of H.
retirementsOf(H) == {x \in Store \X H \X Encoding : loc[x[1]][x[2]] = x[3]}

\* DeleteBlobRowsWithGCRetirements for one page; earlier retirements are
\* drained first.  The rows' locations go with them, pack mappings stay.
GcDelete(H) ==
    /\ maint = "gc" /\ retirements = {}
    /\ H # {} /\ H \subseteq Unreachable
    /\ retirements' = retirementsOf(H)
    /\ rows' = rows \ H
    /\ loc' = [s \in Store |-> [h \in Blob |-> IF h \in H THEN "none" ELSE loc[s][h]]]
    /\ UNCHANGED <<refs, mapped, op, cleanup, disk, wr, run, upkeep, backup>>

\* Mutant: a queued object is removed without looking at the catalog again.
reauthorizedNever(x) == FALSE

reauthorized(x) == loc[x[1]][x[2]] # "none"

\* PrepareGCLooseRetirement.
GcPrepare(x) ==
    /\ maint = "gc" /\ x \in retirements
    /\ IF reauthorized(x)
       THEN retirements' = retirements \ {x} /\ UNCHANGED <<maint, item>>
       ELSE maint' = "retiring" /\ item' = x /\ UNCHANGED retirements
    /\ UNCHANGED <<catalog, op, cleanup, disk, wr, run, sweep, backup>>

\* RemoveIfExists takes both representations, a backend the named one.
GcRetire ==
    /\ maint = "retiring"
    /\ maint' = "retired"
    /\ loose' = loose \ (IF item[1] = Primary THEN Files(Primary, item[2]) ELSE {item})
    /\ UNCHANGED <<catalog, queues, packBytes, wr, run, item, sweep, backup>>

GcComplete ==
    /\ maint = "retired"
    /\ maint' = "gc" /\ item' = NoItem
    /\ retirements' = retirements \ {item}
    /\ UNCHANGED <<catalog, op, cleanup, disk, wr, run, sweep, backup>>

\* runGC lists the loose files again once no page is left.
GcList ==
    /\ maint = "gc" /\ retirements = {} /\ Unreachable = {}
    /\ maint' = "sweep"
    /\ sweep' = {h \in Blob : \E e \in Encoding : <<Primary, h, e>> \in loose}
    /\ UNCHANGED <<catalog, queues, disk, wr, run, item, backup>>

\* Mutant: what has a row is kept, whatever holds its authority.
trackedRow(h) == h \in rows

\* HasPrimaryLooseAuthority
tracked(h) == loc[Primary][h] \in Encoding

GcSweep(h) ==
    /\ maint = "sweep" /\ h \in sweep
    /\ sweep' = sweep \ {h}
    /\ loose' = IF tracked(h) THEN loose ELSE loose \ Files(Primary, h)
    /\ UNCHANGED <<catalog, queues, packBytes, wr, run, maint, item, backup>>

\* Any maintenance is done, or returns an error.
MaintenanceEnd ==
    /\ maint # "idle"
    /\ maint' = "idle" /\ item' = NoItem /\ sweep' = {}
    /\ UNCHANGED <<catalog, queues, disk, wr, run, backup>>

-----------------------------------------------------------------------------
(***************************************************************************)
(* Packing.  Kit seals a pack, RecordPack moves the authority, and only    *)
(* then is the loose file removed.                                         *)
(***************************************************************************)
PackRecord(h) ==
    /\ GateIdle /\ NoRetirement
    /\ h \in rows /\ loc[Primary][h] \in Encoding /\ <<Primary, h, loc[Primary][h]>> \in loose
    /\ h \notin mapped
    /\ packBytes' = packBytes \cup {h}
    /\ loc' = [loc EXCEPT ![Primary][h] = "packed"]
    /\ mapped' = mapped \cup {h}
    /\ maint' = "pack" /\ item' = <<Primary, h, loc[Primary][h]>>
    /\ UNCHANGED <<rows, refs, queues, loose, wr, run, sweep, backup>>

PackUnlink ==
    /\ maint = "pack"
    /\ loose' = loose \ {item}
    /\ maint' = "idle" /\ item' = NoItem
    /\ UNCHANGED <<catalog, queues, packBytes, wr, run, sweep, backup>>

\* Repack drops the mappings of blobs that have no row ...
RepackPrune ==
    /\ GateIdle /\ NoRetirement
    /\ mapped' = mapped \cap rows
    /\ maint' = "repack"
    /\ UNCHANGED <<rows, refs, loc, queues, disk, wr, run, item, sweep, backup>>

\* ... and the bytes that no mapping names, by rewriting and retiring packs.
RepackRetire ==
    /\ maint = "repack"
    /\ packBytes' = packBytes \cap mapped
    /\ maint' = "idle"
    /\ UNCHANGED <<catalog, queues, loose, wr, run, item, sweep, backup>>

-----------------------------------------------------------------------------
(***************************************************************************)
(* Placement.  A plan is previewed, persisted and run by a job, which a    *)
(* stopped daemon resumes.                                                 *)
(***************************************************************************)
PlanPlacement(o, h, s, d) ==
    /\ op[o].state = "none" /\ s # d
    /\ h \in refs
    /\ loc[s][h] # "none" \/ loc[d][h] # "none"
    /\ op' = [op EXCEPT ![o] = [state |-> "active", blob |-> h, src |-> s, dst |-> d,
                                from |-> loc[s][h], to |-> loc[d][h]]]
    /\ UNCHANGED <<catalog, retirements, cleanup, disk, wr, run, upkeep, backup>>

\* ClaimStorageOperation; Run starts by retiring what is pending.
Claim(o) ==
    /\ op[o].state = "active" /\ run[o].at = "off"
    /\ run' = [run EXCEPT ![o].at = "pending"]
    /\ UNCHANGED <<catalog, queues, disk, wr, upkeep, backup>>

\* PrepareStorageOperationCleanup, under the location lock and the lease.
CleanupPrepare(o, x) ==
    /\ run[o].at = "pending" /\ x \in cleanup[o]
    /\ Holders(x[1], x[2]) = {}
    /\ NoRetirement /\ maint \notin {"pack", "repack"}
    /\ \A w \in Writer : wr[w].at = "idle"
    /\ IF loc[x[1]][x[2]] = x[3]
       THEN cleanup' = [cleanup EXCEPT ![o] = @ \ {x}] /\ UNCHANGED run
       ELSE run' = [run EXCEPT ![o].at = "retiring", ![o].item = x] /\ UNCHANGED cleanup
    /\ UNCHANGED <<catalog, retirements, op, disk, wr, upkeep, backup>>

CleanupRetire(o) ==
    /\ run[o].at = "retiring"
    /\ run' = [run EXCEPT ![o].at = "retired"]
    /\ loose' = loose \ {run[o].item}
    /\ UNCHANGED <<catalog, queues, packBytes, wr, upkeep, backup>>

CleanupComplete(o) ==
    /\ run[o].at = "retired"
    /\ run' = [run EXCEPT ![o].at = "pending", ![o].item = NoItem]
    /\ cleanup' = [cleanup EXCEPT ![o] = @ \ {run[o].item}]
    /\ UNCHANGED <<catalog, retirements, op, disk, wr, upkeep, backup>>

\* Mutant: a resumed operation does not look for pending cleanup.
drainedAlways(o) == TRUE

drained(o) == cleanup[o] = {}

\* placeOne locks the destination and looks for its authority.
PlaceLock(o) ==
    LET d == op[o].dst
        h == op[o].blob
    IN /\ run[o].at = "pending" /\ drained(o) /\ h # NoBlob
       /\ Holders(d, h) = {}
       /\ IF h \in rows /\ loc[d][h] # "none"
          THEN run' = [run EXCEPT ![o].at = "moved", ![o].dest = loc[d][h]]
          ELSE run' = [run EXCEPT ![o].at = "copying"]
       /\ UNCHANGED <<catalog, queues, disk, wr, upkeep, backup>>

\* packstore.Move publishes a verified copy, outside of every gate.
PlaceMove(o, e) ==
    LET d == op[o].dst
        h == op[o].blob
    IN /\ run[o].at = "copying"
       /\ op[o].from # "none" /\ Physical(op[o].src, h, op[o].from)
       /\ loose' = loose \cup {<<d, h, e>>}
       /\ run' = [run EXCEPT ![o].at = "moved", ![o].dest = e]
       /\ UNCHANGED <<catalog, queues, packBytes, wr, upkeep, backup>>

\* Mutant: the destination is not read again under the gate.
verifiedEarlier(o) == TRUE

\* verifyPlacementDestination
verified(o) == Physical(op[o].dst, op[o].blob, run[o].dest)

\* PhysicalMutate
commitGate == NoMaintenance /\ NoCommit /\ ~ capturing

PlaceVerify(o) ==
    /\ run[o].at = "moved" /\ commitGate
    /\ verified(o)
    /\ run' = [run EXCEPT ![o].at = "verified"]
    /\ UNCHANGED <<catalog, queues, disk, wr, upkeep, backup>>

\* CommitPlacement authorises the destination, if it is still what the preview
\* saw; a source that is still the planned one loses its authority if the plan
\* retires it, no reference drifted and audit does not pin it.
PlaceCommit(o, retire) ==
    LET p == op[o]
        h == p.blob
        revoke == retire /\ p.from # "none" /\ loc[p.src][h] = p.from
    IN /\ run[o].at = "verified"
       /\ h \in rows
       /\ p.to \in {"none", run[o].dest} \/ loc[p.src][h] = "none"
       /\ \/ loc[p.dst][h] = run[o].dest
          \/ loc[p.dst][h] = "none" /\ run[o].dest \in Encoding
       /\ loc' = [loc EXCEPT ![p.dst][h] = run[o].dest,
                             ![p.src][h] = IF revoke THEN "none" ELSE @]
       /\ mapped' = IF revoke /\ p.from = "packed" THEN mapped \ {h} ELSE mapped
       /\ cleanup' = [cleanup EXCEPT ![o] =
             IF revoke /\ p.from \in Encoding THEN @ \cup {<<p.src, h, p.from>>} ELSE @]
       /\ run' = [run EXCEPT ![o].at = "committed", ![o].dest = "none"]
       /\ UNCHANGED <<rows, refs, retirements, op, disk, wr, upkeep, backup>>

\* AdvanceStorageOperation moves the cursor past the blob: the plan is done.
Advance(o) ==
    /\ run[o].at = "committed"
    /\ op' = [op EXCEPT ![o] = [NoPlan EXCEPT !.state = "active"]]
    /\ run' = [run EXCEPT ![o].at = "pending"]
    /\ UNCHANGED <<catalog, retirements, cleanup, disk, wr, upkeep, backup>>

Finish(o) ==
    /\ run' = [run EXCEPT ![o] = NoRun]
    /\ op' = [op EXCEPT ![o] = [NoPlan EXCEPT !.state = "done"]]
    /\ UNCHANGED <<catalog, retirements, cleanup, disk, wr, upkeep, backup>>

\* Every blob is placed, or the cancellation of the operation is met.
Complete(o) == run[o].at = "pending" /\ drained(o) /\ Finish(o)

\* placeOne returns an error: something is stale, missing or offline.
Fail(o) == run[o].at \in {"copying", "moved", "verified"} /\ Finish(o)

\* The daemon shuts the job down, or a cleanup error defers it.
Defer(o) ==
    /\ run[o].at # "off"
    /\ run' = [run EXCEPT ![o] = NoRun]
    /\ UNCHANGED <<catalog, queues, disk, wr, upkeep, backup>>

-----------------------------------------------------------------------------
\* A capture copies the catalog while it freezes mutations; it streams the
\* content of the copy's blobs later, each from where the live catalog has it.
CaptureBegin ==
    /\ GateIdle
    /\ capturing' = TRUE
    /\ pinned' = rows
    /\ UNCHANGED <<catalog, queues, disk, wr, run, upkeep>>

CaptureEnd ==
    /\ capturing
    /\ capturing' = FALSE /\ pinned' = {}
    /\ UNCHANGED <<catalog, queues, disk, wr, run, upkeep>>

\* The process dies.
Crash ==
    /\ wr' = [w \in Writer |-> IdleWriter]
    /\ run' = [o \in Op |-> NoRun]
    /\ maint' = "idle" /\ item' = NoItem /\ sweep' = {}
    /\ capturing' = FALSE /\ pinned' = {}
    /\ UNCHANGED <<catalog, queues, disk>>

Init ==
    /\ rows = {} /\ refs = {} /\ mapped = {}
    /\ loc = [s \in Store |-> [h \in Blob |-> "none"]]
    /\ retirements = {}
    /\ op = [o \in Op |-> NoPlan] /\ cleanup = [o \in Op |-> {}]
    /\ loose = {} /\ packBytes = {}
    /\ wr = [w \in Writer |-> IdleWriter]
    /\ run = [o \in Op |-> NoRun]
    /\ maint = "idle" /\ item = NoItem /\ sweep = {}
    /\ capturing = FALSE /\ pinned = {}

WriterStep(w) ==
    \/ \E h \in Blob, e \in Encoding : Publish(w, h, e)
    \/ Commit(w) \/ Reject(w) \/ CleanupKeep(w) \/ CleanupFind(w) \/ CleanupRemove(w)

MaintenanceStep ==
    \/ GcStart \/ GcRetire \/ GcComplete \/ GcList \/ MaintenanceEnd
    \/ \E H \in SUBSET Blob : GcDelete(H)
    \/ \E x \in retirements : GcPrepare(x)
    \/ \E h \in Blob : GcSweep(h)
    \/ PackUnlink \/ RepackPrune \/ RepackRetire
    \/ \E h \in Blob : PackRecord(h)

PlacementStep(o) ==
    \/ \E h \in Blob, s, d \in Store : PlanPlacement(o, h, s, d)
    \/ Claim(o) \/ CleanupRetire(o) \/ CleanupComplete(o)
    \/ \E x \in cleanup[o] : CleanupPrepare(o, x)
    \/ PlaceLock(o) \/ PlaceVerify(o) \/ Advance(o)
    \/ \E e \in Encoding : PlaceMove(o, e)
    \/ \E retire \in BOOLEAN : PlaceCommit(o, retire)
    \/ Complete(o) \/ Fail(o) \/ Defer(o)

Next ==
    \/ \E w \in Writer : WriterStep(w)
    \/ \E h \in Blob : Unreference(h)
    \/ MaintenanceStep
    \/ \E o \in Op : PlacementStep(o)
    \/ CaptureBegin \/ CaptureEnd
    \/ Crash

Spec == Init /\ [][Next]_vars

\* No placement revokes the packed authority of content that a writer has in
\* flight.  Nothing in the code sees to this: PhysicalMutate lets writers go on.
Undisturbed ==
    \A w \in Writer :
        LET h == wr[w].blob
        IN wr[w].at # "idle" /\ loc[Primary][h] = "packed" => loc'[Primary][h] = "packed"

UndisturbedSpec == Init /\ [][Next /\ Undisturbed]_vars

-----------------------------------------------------------------------------
(***************************************************************************)
(* Properties.                                                             *)
(***************************************************************************)
Plan == [state : {"none", "active", "done"}, blob : Blob \cup {NoBlob}, src : Store, dst : Store,
         from : Kind, to : Kind]

CatalogOK ==
    /\ rows \subseteq Blob /\ refs \subseteq Blob /\ mapped \subseteq Blob
    /\ loc \in [Store -> [Blob -> Kind]]
    /\ \A h \in Blob : loc[Secondary][h] # "packed"
    /\ retirements \subseteq Item
    /\ op \in [Op -> Plan] /\ cleanup \in [Op -> SUBSET Item]

\* The tables, the files and the goroutines' local state have their types:
\* in particular only loose objects are ever queued for physical removal.
TypeOK ==
    /\ CatalogOK
    /\ loose \subseteq Item /\ packBytes \subseteq Blob
    /\ wr \in [Writer -> [at : {"idle", "published", "cleaning", "removing"},
                          blob : Blob \cup {NoBlob}, enc : Encoding \cup {"none"},
                          created : BOOLEAN]]
    /\ run \in [Op -> [at : {"off", "pending", "retiring", "retired", "copying", "moved",
                             "verified", "committed"},
                       dest : Kind, item : Item \cup {NoItem}]]
    /\ maint \in {"idle", "gc", "retiring", "retired", "sweep", "pack", "repack"}
    /\ item \in Item \cup {NoItem} /\ sweep \subseteq Blob
    /\ capturing \in BOOLEAN /\ pinned \subseteq Blob

\* cleanupLoose: "Existing loose authority and authority-free bytes are never
\* removed here".  Nobody else may remove an authorised loose file either.
LooseAuthorityKept ==
    \A s \in Store, h \in Blob : loc[s][h] \in Encoding => <<s, h, loc[s][h]>> \in loose

\* Committed content stays readable through every interleaving of writers,
\* GC, packing and placement, and through every crash: a reference has its
\* row, a row has authority somewhere, and every authority has its bytes.
Custody ==
    /\ refs \subseteq rows
    /\ \A h \in rows : \E s \in Store : Authority(s, h)
    /\ \A s \in Store, h \in Blob : loc[s][h] # "none" => h \in rows /\ Physical(s, h, loc[s][h])

\* The two tables that decide where bytes are read agree: a blob with a row is
\* mapped into a pack exactly when its primary location says packed.  Dead
\* mappings never resurface, and RecordPack never meets one it cannot insert.
PackIndexAgrees == \A h \in rows : h \in mapped <=> loc[Primary][h] = "packed"

\* A capture streams content long after its freeze; until it ends the live
\* catalog still leads to the bytes of every blob that its snapshot names.
CaptureReadable ==
    \A h \in pinned : \E s \in Store : Authority(s, h) /\ Physical(s, h, loc[s][h])

\* An operation that has reached a terminal state owes no physical cleanup:
\* nobody would resume it to remove the object.
CleanupOwned == \A o \in Op : op[o].state # "active" => cleanup[o] = {}

\* When the daemon's GC has run to its end nothing unreachable is left: no row,
\* no queued object, and no loose file without loose authority.  (For a vault
\* without placement: an operation may put a file there after the listing.)
GcReclaims ==
    maint = "sweep" /\ sweep = {} =>
        /\ Unreachable = {} /\ retirements = {}
        /\ \A h \in Blob : Files(Primary, h) \cap loose # {} => loc[Primary][h] \in Encoding
=============================================================================
