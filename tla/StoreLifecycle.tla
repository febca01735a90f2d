--------------------------- MODULE StoreLifecycle ---------------------------
(***************************************************************************)
(* The stores behind a vault: one primary, and secondaries that are        *)
(* registered, filled by placements, drained by an evacuation into the     *)
(* primary, detached and forgotten, while other storage operations (place, *)
(* repair, salvage) and garbage collection go on.  Sources:                *)
(* internal/store/store_registry.go, storage_operations.go,                *)
(* storage_recovery.go, placement.go, internal/blob/placement.go and       *)
(* internal/api/routes_storage_placement.go, routes_storage_registry.go.   *)
(*                                                                         *)
(* Module BlobCustody has the representations of one secondary's content,  *)
(* packs, writers and captures in detail.  Here content is loose in one    *)
(* representation, so a location is a pair of a store and a blob, and what *)
(* a handler does under the gate (read the destination back and commit) is *)
(* one step.  A location has no generation: one that is revoked and        *)
(* granted again counts as the one that was planned.                       *)
(*                                                                         *)
(* Corrupt copies and stores that another vault took over (fenced) are     *)
(* there from the start; a fenced one comes back only by being forgotten   *)
(* and registered again, which takes it over.  A blob that GC deletes is   *)
(* one that has lost its last reference.                                   *)
(***************************************************************************)
EXTENDS Naturals

CONSTANTS
    Blob,
    Primary, Secondary,   \* the built-in store, and the set of the others
    Op,                   \* storage operations
    Kinds,                \* bound: the kinds that each of them may be of
    Rot,                  \* stores that may hold corrupt copies
    Fencible,             \* secondaries that another vault may own
    NoBlob,
    MaxFault              \* bound on crashes and failing clean-ups

Store == {Primary} \cup Secondary
Location == Store \X Blob

ASSUME StoreAssumption ==
    Primary \notin Secondary /\ Rot \subseteq Store /\ Fencible \subseteq Secondary
ASSUME KindAssumption == Kinds \in [Op -> SUBSET {"place", "evacuate", "repair", "salvage"}]
ASSUME BlobAssumption == NoBlob \notin Blob
ASSUME BoundAssumption == MaxFault \in Nat

VARIABLES
    life,      \* blob_stores: the lifecycle of each, "none" without a row
    rows,      \* blobs
    loc,       \* blob_locations
    gcq,       \* gc_loose_retirements
    op,        \* storage_operations, their plans and their previews
    cleanup,   \* storage_operation_cleanup: cleanup[o]
    intact,    \* copies that verify
    bad,       \* copies that do not
    run,       \* each operation's runner: where it is, its blob and its clean-up
    gc,        \* the garbage collection that holds the gate
    fenced,
    faults

catalog == <<life, rows, loc>>
disk == <<intact, bad>>
vars == <<catalog, gcq, op, cleanup, disk, run, gc, fenced, faults>>

NoItem == <<Primary, NoBlob>>
NoRun == [at |-> "off", blob |-> NoBlob, item |-> NoItem]
NoGc == [at |-> "idle", item |-> NoItem, seen |-> {}]
NoOp == [kind |-> "place", srcs |-> {}, dst |-> Primary, todo |-> {}, from |-> {}, to |-> {},
         state |-> "none", cancel |-> FALSE, fin |-> FALSE]

-----------------------------------------------------------------------------
At(s) == {b \in Blob : <<s, b>> \in loc}
Active(o) == op[o].state \in {"queued", "running"}

\* storage_operation_stores
References(o) == op[o].srcs \cup {op[o].dst}

\* activeStorageOperationsForStoreTx
Users(s) == {o \in Op : Active(o) /\ s \in References(o)}

Recovery(o) == op[o].kind \in {"repair", "salvage"}

\* acquireLocation: the locks that a runner holds.
Locked(o) ==
    {run[o].item} \cup
    (IF run[o].at \in {"copying", "moved", "publishing", "published"}
     THEN {<<op[o].dst, run[o].blob>>} ELSE {})
Free(x) == \A o \in Op : x \notin Locked(o)

\* PhysicalMutate, and the gate's mutate: no garbage collection is under way.
Gate == gc.at = "idle"

Moves(o, at, blob) == run' = [run EXCEPT ![o].at = at, ![o].blob = blob]

\* FinishStorageOperation; the runner returns.  The plan is not read again.
Finishes(o, state) ==
    /\ op' = [op EXCEPT ![o] = [NoOp EXCEPT !.kind = op[o].kind, !.cancel = op[o].cancel,
                                           !.state = state]]
    /\ run' = [run EXCEPT ![o] = NoRun]

-----------------------------------------------------------------------------
(***************************************************************************)
(* The registry: handlers that hold the gate.                              *)
(***************************************************************************)
\* The marker of a namespace becomes ours: one that was ours is attached again
\* under its store's id, one of another vault is taken over, and s stands from
\* then on for the new store there.
ReplaceOwnership(s) == fenced' = fenced \ {s}

\* The marker first; the row follows unless a probe of the backend fails.
RegisterBlobStore(s) ==
    /\ Gate /\ s \in Secondary /\ life[s] = "none"
    /\ ReplaceOwnership(s)
    /\ life' \in {life, [life EXCEPT ![s] = "active"]}
    /\ UNCHANGED <<rows, loc, gcq, op, cleanup, disk, run, gc, faults>>

\* Neither an active operation nor content nor a pending clean-up names it.
detachable(s) ==
    /\ Users(s) = {} /\ At(s) = {}
    /\ \A b \in Blob : <<s, b>> \notin gcq /\ \A o \in Op : <<s, b>> \notin cleanup[o]

DetachBlobStore(s) ==
    /\ Gate /\ s \in Secondary /\ life[s] \in {"active", "draining"}
    /\ detachable(s)
    /\ life' = [life EXCEPT ![s] = "detached"]
    /\ UNCHANGED <<rows, loc, gcq, op, cleanup, disk, run, gc, fenced, faults>>

UnregisterBlobStore(s) ==
    /\ Gate /\ s \in Secondary /\ life[s] = "detached"
    /\ Users(s) = {}
    /\ life' = [life EXCEPT ![s] = "none"]
    /\ UNCHANGED <<rows, loc, gcq, op, cleanup, disk, run, gc, fenced, faults>>

-----------------------------------------------------------------------------
(***************************************************************************)
(* Previews and the requests that start them.                              *)
(***************************************************************************)
Preview(o, kind, srcs, dst, todo, from) ==
    /\ op[o].state = "none" /\ kind \in Kinds[o]
    /\ op' = [op EXCEPT ![o] = [kind |-> kind, srcs |-> srcs, dst |-> dst, todo |-> todo,
                                from |-> from, to |-> todo \cap At(dst),
                                state |-> "preview", cancel |-> FALSE, fin |-> FALSE]]
    /\ UNCHANGED <<catalog, gcq, cleanup, disk, run, gc, fenced, faults>>

Readable(s) == life[s] \in {"active", "draining"}

\* PlanPlacement of the blobs T of a subtree.
PreviewPlace(o, s, d, T) ==
    /\ s # d /\ Readable(s) /\ life[d] = "active"
    /\ T # {} /\ T \subseteq rows \cap (At(s) \cup At(d))
    /\ Preview(o, "place", {s}, d, T, T \cap At(s))

\* PlanPlacement of a whole store.
PreviewEvacuate(o, s) ==
    /\ s \in Secondary /\ Readable(s)
    /\ Preview(o, "evacuate", {s}, Primary, At(s), At(s))

\* PlanStorageRecovery: every other location is a source ...
PreviewRepair(o, s, b) ==
    LET sources == {t \in Store \ {s} : b \in At(t)}
    IN /\ life[s] = "active" /\ b \in rows \cap At(s) /\ sources # {}
       /\ Preview(o, "repair", sources, s, {b}, {b})

\* ... or the fenced one is.
PreviewSalvage(o, s, b) ==
    /\ s \in fenced /\ Readable(s) /\ b \in rows \cap At(s)
    /\ Preview(o, "salvage", {s}, Primary, {b}, {b})

\* A preview expires, or the request that took it is refused.
Drop(o) ==
    /\ op[o].state \in {"preview", "begun"}
    /\ op' = [op EXCEPT ![o] = NoOp]
    /\ UNCHANGED <<catalog, gcq, cleanup, disk, run, gc, fenced, faults>>

drainable(s) == life[s] = "draining" \/ (life[s] = "active" /\ Users(s) = {})

BeginBlobStoreEvacuation(o, s) ==
    /\ op[o].state = "preview" /\ op[o].kind = "evacuate" /\ s \in op[o].srcs
    /\ drainable(s)
    /\ life' = [life EXCEPT ![s] = "draining"]
    /\ op' = [op EXCEPT ![o].state = "begun"]
    /\ UNCHANGED <<rows, loc, gcq, cleanup, disk, run, gc, fenced, faults>>

\* Sources are active or draining, the destination is active, and nobody else
\* evacuates the source.
admissible(o) ==
    /\ \A s \in op[o].srcs : Readable(s)
    /\ life[op[o].dst] = "active"
    /\ op[o].kind = "evacuate" =>
           \A p \in Op : Active(p) /\ op[p].kind = "evacuate" => op[p].srcs # op[o].srcs

CreateStorageOperation(o) ==
    /\ op[o].state = IF op[o].kind = "evacuate" THEN "begun" ELSE "preview"
    /\ admissible(o)
    /\ op' = [op EXCEPT ![o].state = "queued"]
    /\ UNCHANGED <<catalog, gcq, cleanup, disk, run, gc, fenced, faults>>

\* Mutant: an operation that is finalizing can still be cancelled.
cancellableAlways(o) == Active(o)

cancellable(o) == Active(o) /\ ~ op[o].fin

RequestStorageOperationCancel(o) ==
    /\ cancellable(o) /\ ~ op[o].cancel
    /\ op' = [op EXCEPT ![o].cancel = TRUE]
    /\ UNCHANGED <<catalog, gcq, cleanup, disk, run, gc, fenced, faults>>

-----------------------------------------------------------------------------
(***************************************************************************)
(* The runner of a placement or an evacuation.                             *)
(***************************************************************************)
ClaimStorageOperation(o) ==
    /\ Active(o) /\ run[o].at = "off"
    /\ op' = [op EXCEPT ![o].state = "running"]
    /\ Moves(o, IF Recovery(o) THEN "recover" ELSE "retiring", NoBlob)
    /\ UNCHANGED <<catalog, gcq, cleanup, disk, gc, fenced, faults>>

\* retirePendingObject, under the location's lock and the maintenance lease:
\* PrepareStorageOperationCleanup, and the physical removal.
Retire(o, x) ==
    /\ run[o].at \in {"retiring", "closing"} /\ x \in cleanup[o]
    /\ Free(x) /\ \A p \in Op : run[p].item = NoItem
    /\ IF x \in loc
       THEN cleanup' = [cleanup EXCEPT ![o] = @ \ {x}] /\ UNCHANGED <<run, disk>>
       ELSE /\ x[1] \notin fenced
            /\ intact' = intact \ {x} /\ bad' = bad \ {x}
            /\ run' = [run EXCEPT ![o].item = x] /\ UNCHANGED cleanup
    /\ UNCHANGED <<catalog, gcq, op, gc, fenced, faults>>

CompleteStorageOperationCleanup(o) ==
    /\ run[o].item # NoItem
    /\ cleanup' = [cleanup EXCEPT ![o] = @ \ {run[o].item}]
    /\ run' = [run EXCEPT ![o].item = NoItem]
    /\ UNCHANGED <<catalog, gcq, op, disk, gc, fenced, faults>>

\* DeferStorageOperation: back to the queue, to be tried again.
Defers(o) ==
    /\ op' = [op EXCEPT ![o].state = "queued"]
    /\ run' = [run EXCEPT ![o] = NoRun]

\* A store is offline while its objects are to be removed.
CleanupFails(o) ==
    /\ run[o].at \in {"retiring", "closing"} /\ cleanup[o] # {} /\ faults < MaxFault
    /\ Defers(o)
    /\ faults' = faults + 1
    /\ UNCHANGED <<catalog, gcq, cleanup, disk, gc, fenced>>

Drained(o, at) == run[o].at = at /\ cleanup[o] = {} /\ run[o].item = NoItem

\* Run reads the request for cancellation before each blob ...
CancelPlacement(o) ==
    /\ Drained(o, "retiring") /\ op[o].todo # {} /\ op[o].cancel
    /\ Finishes(o, "cancelled")
    /\ UNCHANGED <<catalog, gcq, cleanup, disk, gc, fenced, faults>>

\* ... and placeOne locks the destination and looks for its authority.
PlaceOne(o, b) ==
    /\ Drained(o, "retiring") /\ b \in op[o].todo /\ ~ op[o].cancel
    /\ Free(<<op[o].dst, b>>)
    /\ Moves(o, IF b \in rows \cap At(op[o].dst) THEN "moved" ELSE "copying", b)
    /\ UNCHANGED <<catalog, gcq, op, cleanup, disk, gc, fenced, faults>>

\* packstore.Move publishes a verified copy, outside of the gate.
Copy(o, s) ==
    LET b == run[o].blob
    IN /\ run[o].at = "copying" /\ s \in op[o].srcs /\ b \in op[o].from
       /\ <<s, b>> \in intact /\ s \notin fenced
       /\ op[o].dst \notin fenced /\ <<op[o].dst, b>> \notin bad
       /\ intact' = intact \cup {<<op[o].dst, b>>}
       /\ Moves(o, "moved", b)
       /\ UNCHANGED <<catalog, gcq, op, cleanup, bad, gc, fenced, faults>>

\* verifyPlacementDestination
verified(o) == <<op[o].dst, run[o].blob>> \in intact /\ op[o].dst \notin fenced

\* CommitPlacement authorises the destination; a source that is still there is
\* revoked if the plan retires it, no reference drifted and audit lets it go.
CommitPlacement(o, s, retire) ==
    LET b == run[o].blob
        revoke == retire /\ b \in op[o].from /\ <<s, b>> \in loc
    IN /\ run[o].at = "moved" /\ Gate /\ s \in op[o].srcs
       /\ verified(o) /\ life[op[o].dst] = "active" /\ b \in rows
       /\ loc' = (loc \cup {<<op[o].dst, b>>}) \ (IF revoke THEN {<<s, b>>} ELSE {})
       /\ cleanup' = IF revoke THEN [cleanup EXCEPT ![o] = @ \cup {<<s, b>>}] ELSE cleanup
       /\ Moves(o, "committed", b)
       /\ UNCHANGED <<life, rows, gcq, op, disk, gc, fenced, faults>>

\* AdvanceStorageOperation, and retirePending before the next blob.
Advance(o) ==
    /\ run[o].at = "committed"
    /\ op' = [op EXCEPT ![o].todo = @ \ {run[o].blob}]
    /\ Moves(o, "retiring", NoBlob)
    /\ UNCHANGED <<catalog, gcq, cleanup, disk, gc, fenced, faults>>

\* Something is stale, missing or offline, or there is no scratch space.
Fail(o) ==
    /\ \/ run[o].at \in {"copying", "moved", "recover", "publishing", "published"}
       \/ Drained(o, "retiring")
    /\ Finishes(o, "failed")
    /\ UNCHANGED <<catalog, gcq, cleanup, disk, gc, fenced, faults>>

\* A placement is done with its last blob; an evacuation when it is finalized.
Complete(o) ==
    /\ \/ op[o].kind = "place" /\ Drained(o, "retiring") /\ op[o].todo = {}
       \/ run[o].at = "finishing"
    /\ Finishes(o, "completed")
    /\ UNCHANGED <<catalog, gcq, cleanup, disk, gc, fenced, faults>>

-----------------------------------------------------------------------------
(***************************************************************************)
(* FinalizeBlobStoreEvacuation: once when every blob is placed, and again  *)
(* when the objects it revoked are removed.                                *)
(***************************************************************************)
Finalizing(o, s) ==
    /\ op[o].kind = "evacuate" /\ s \in op[o].srcs /\ Gate
    /\ \/ Drained(o, "retiring") /\ op[o].todo = {}
       \/ run[o].at = "detaching"

FinalizeCancelled(o, s) ==
    /\ Finalizing(o, s) /\ op[o].cancel /\ ~ op[o].fin
    /\ Finishes(o, "cancelled")
    /\ UNCHANGED <<catalog, gcq, cleanup, disk, gc, fenced, faults>>

\* Mutant: other operations of the source are not waited for.
aloneAlways(o, s) == TRUE

alone(o, s) == Users(s) \subseteq {o}

\* Another operation uses the source, or a lifecycle is not the expected one.
FinalizeBusy(o, s) ==
    /\ Finalizing(o, s) /\ ~ (op[o].cancel /\ ~ op[o].fin)
    /\ \/ ~ alone(o, s)
       \/ life[s] = "active"
       \/ life[s] = "draining" /\ life[op[o].dst] # "active"
    /\ Defers(o)
    /\ UNCHANGED <<catalog, gcq, cleanup, disk, gc, fenced, faults>>

Ready(o, s) ==
    /\ Finalizing(o, s) /\ ~ (op[o].cancel /\ ~ op[o].fin)
    /\ alone(o, s) /\ life[s] = "draining" /\ life[op[o].dst] = "active"

\* Mutant: content that the plan did not name is taken for covered.
coveredPlanned(o, s) == TRUE

\* Every location of the source has one in the destination.
covered(o, s) == At(s) \subseteq At(op[o].dst)

FinalizeUncovered(o, s) ==
    /\ Ready(o, s) /\ ~ covered(o, s)
    /\ Finishes(o, "failed")
    /\ UNCHANGED <<catalog, gcq, cleanup, disk, gc, fenced, faults>>

\* adoptBlobStoreCleanupTx: every removal already authorised against s.
adopted(o, s) == {x \in gcq \cup UNION {cleanup[p] : p \in Op} : x[1] = s}

Revoke(o, s) ==
    LET owed == cleanup[o] \cup {x \in loc : x[1] = s} \cup adopted(o, s)
        done == \A x \in owed : x[1] # s
    IN /\ Ready(o, s) /\ covered(o, s)
       /\ cleanup' = [p \in Op |-> IF p = o THEN owed ELSE {x \in cleanup[p] : x[1] # s}]
       /\ gcq' = {x \in gcq : x[1] # s}
       /\ loc' = {x \in loc : x[1] # s}
       /\ life' = IF done THEN [life EXCEPT ![s] = "detached"] ELSE life
       /\ op' = [op EXCEPT ![o].fin = TRUE]
       /\ Moves(o, IF done \/ run[o].at = "detaching" THEN "finishing" ELSE "closing", NoBlob)
       /\ UNCHANGED <<rows, disk, gc, fenced, faults>>

\* The source was detached before the runner stopped.
FinalizeDetached(o, s) ==
    /\ Finalizing(o, s) /\ ~ (op[o].cancel /\ ~ op[o].fin)
    /\ alone(o, s) /\ life[s] = "detached"
    /\ op' = [op EXCEPT ![o].fin = TRUE]
    /\ Moves(o, "finishing", NoBlob)
    /\ UNCHANGED <<catalog, gcq, cleanup, disk, gc, fenced, faults>>

\* Mutant: the store is not finalized a second time.
CloseFinishing(o) ==
    /\ Drained(o, "closing")
    /\ Moves(o, "finishing", NoBlob)
    /\ UNCHANGED <<catalog, gcq, op, cleanup, disk, gc, fenced, faults>>

\* retirePending is through with what was revoked.
Close(o) ==
    /\ Drained(o, "closing")
    /\ Moves(o, "detaching", NoBlob)
    /\ UNCHANGED <<catalog, gcq, op, cleanup, disk, gc, fenced, faults>>

-----------------------------------------------------------------------------
(***************************************************************************)
(* Repair and salvage.                                                     *)
(***************************************************************************)
CancelRecovery(o) ==
    /\ run[o].at = "recover" /\ op[o].cancel
    /\ Finishes(o, "cancelled")
    /\ UNCHANGED <<catalog, gcq, cleanup, disk, gc, fenced, faults>>

\* validateStorageRecoveryPriorTx
asPlanned(o, b) == b \in op[o].to <=> b \in rows \cap At(op[o].dst)

BeginStorageRecoveryPublication(o, b) ==
    /\ run[o].at = "recover" /\ ~ op[o].cancel
    /\ b \in op[o].todo /\ Free(<<op[o].dst, b>>) /\ asPlanned(o, b)
    /\ op' = [op EXCEPT ![o].fin = TRUE]
    /\ Moves(o, "publishing", b)
    /\ UNCHANGED <<catalog, gcq, cleanup, disk, gc, fenced, faults>>

\* A repair reads its sources in turn, salvage its fenced one; what is
\* published is read back, and replaces a corrupt copy.
Publish(o, s) ==
    LET b == run[o].blob
        x == <<op[o].dst, b>>
    IN /\ run[o].at = "publishing" /\ s \in op[o].srcs
       /\ <<s, b>> \in intact /\ (s \in fenced <=> op[o].kind = "salvage")
       /\ op[o].dst \notin fenced
       /\ intact' = intact \cup {x} /\ bad' = bad \ {x}
       /\ Moves(o, "published", b)
       /\ UNCHANGED <<catalog, gcq, op, cleanup, gc, fenced, faults>>

\* The copy is not read again under the gate.
CommitStorageRecovery(o) ==
    LET b == run[o].blob
    IN /\ run[o].at = "published" /\ Gate
       /\ b \in rows /\ asPlanned(o, b)
       /\ loc' = loc \cup {<<op[o].dst, b>>}
       /\ Finishes(o, "completed")
       /\ UNCHANGED <<life, rows, gcq, cleanup, disk, gc, fenced, faults>>

-----------------------------------------------------------------------------
(***************************************************************************)
(* Garbage collection, which has the gate to itself, and ingest.           *)
(***************************************************************************)
GcStart ==
    /\ Gate
    /\ gc' = [NoGc EXCEPT !.at = "rows"]
    /\ UNCHANGED <<catalog, gcq, op, cleanup, disk, run, fenced, faults>>

\* DeleteBlobRowsWithGCRetirements
GcDelete(b) ==
    /\ gc = [NoGc EXCEPT !.at = "rows"] /\ b \in rows
    /\ rows' = rows \ {b}
    /\ gcq' = gcq \cup {x \in loc : x[2] = b}
    /\ loc' = {x \in loc : x[2] # b}
    /\ UNCHANGED <<life, op, cleanup, disk, run, gc, fenced, faults>>

\* PrepareGCLooseRetirement, and the physical removal.
GcRetire(x) ==
    /\ gc = [NoGc EXCEPT !.at = "rows"] /\ x \in gcq
    /\ IF x \in loc
       THEN gcq' = gcq \ {x} /\ UNCHANGED <<disk, gc>>
       ELSE /\ x[1] \notin fenced
            /\ intact' = intact \ {x} /\ bad' = bad \ {x}
            /\ gc' = [gc EXCEPT !.item = x] /\ UNCHANGED gcq
    /\ UNCHANGED <<catalog, op, cleanup, run, fenced, faults>>

CompleteGCLooseRetirement ==
    /\ gc.item # NoItem
    /\ gcq' = gcq \ {gc.item}
    /\ gc' = [gc EXCEPT !.item = NoItem]
    /\ UNCHANGED <<catalog, op, cleanup, disk, run, fenced, faults>>

\* runGC lists the primary's files again and removes those without authority.
GcList ==
    /\ gc = [NoGc EXCEPT !.at = "rows"] /\ gcq = {}
    /\ gc' = [gc EXCEPT !.at = "sweep", !.seen = {b \in Blob : <<Primary, b>> \in intact \cup bad}]
    /\ UNCHANGED <<catalog, gcq, op, cleanup, disk, run, fenced, faults>>

GcSweep(b) ==
    LET x == <<Primary, b>>
    IN /\ gc.at = "sweep" /\ b \in gc.seen /\ x \notin loc
       /\ intact' = intact \ {x} /\ bad' = bad \ {x}
       /\ gc' = [gc EXCEPT !.seen = @ \ {b}]
       /\ UNCHANGED <<catalog, gcq, op, cleanup, run, fenced, faults>>

\* It is done, or returns an error.
GcEnd ==
    /\ gc.at # "idle"
    /\ gc' = NoGc
    /\ UNCHANGED <<catalog, gcq, op, cleanup, disk, run, fenced, faults>>

\* A writer publishes a file in the primary and commits its row; its lease
\* excludes the removals of the runners.  EnsureBlobTx grants the primary a
\* location with a new row, and also where a secondary has the only one, if the
\* writer created the file.  It changes nothing for a row whose file was there.
Ingest(b) ==
    LET x == <<Primary, b>>
    IN /\ Gate /\ \A o \in Op : run[o].item = NoItem
       /\ x \notin bad /\ (b \notin rows \/ x \notin intact)
       /\ rows' = rows \cup {b}
       /\ loc' = loc \cup {x}
       /\ intact' = intact \cup {x}
       /\ UNCHANGED <<life, gcq, op, cleanup, bad, run, gc, fenced, faults>>

\* The daemon dies: previews and goroutines are gone.
Crash ==
    /\ faults < MaxFault
    /\ faults' = faults + 1
    /\ op' = [o \in Op |-> IF op[o].state \in {"preview", "begun"} THEN NoOp ELSE op[o]]
    /\ run' = [o \in Op |-> NoRun]
    /\ gc' = NoGc
    /\ UNCHANGED <<catalog, gcq, cleanup, disk, fenced>>

-----------------------------------------------------------------------------
Init ==
    /\ life = [s \in Store |-> "active"]
    /\ rows = Blob
    /\ loc \in SUBSET Location
    /\ bad \in SUBSET (loc \cap (Rot \X Blob))
    /\ intact = loc \ bad
    /\ \A b \in Blob : \E s \in Store : <<s, b>> \in intact
    /\ fenced \in SUBSET Fencible
    /\ gcq = {}
    /\ op = [o \in Op |-> NoOp] /\ cleanup = [o \in Op |-> {}]
    /\ run = [o \in Op |-> NoRun] /\ gc = NoGc /\ faults = 0

RegistryStep ==
    \E s \in Secondary : RegisterBlobStore(s) \/ DetachBlobStore(s) \/ UnregisterBlobStore(s)

RequestStep(o) ==
    \/ \E s, d \in Store, T \in SUBSET Blob : PreviewPlace(o, s, d, T)
    \/ \E s \in Secondary : PreviewEvacuate(o, s) \/ BeginBlobStoreEvacuation(o, s)
    \/ \E s \in Store, b \in Blob : PreviewRepair(o, s, b) \/ PreviewSalvage(o, s, b)
    \/ Drop(o) \/ CreateStorageOperation(o) \/ RequestStorageOperationCancel(o)

RunnerStep(o) ==
    \/ ClaimStorageOperation(o) \/ CompleteStorageOperationCleanup(o)
    \/ \E x \in cleanup[o] : Retire(o, x)
    \/ CancelPlacement(o) \/ Advance(o) \/ Fail(o) \/ Complete(o) \/ Close(o)
    \/ \E b \in op[o].todo : PlaceOne(o, b) \/ BeginStorageRecoveryPublication(o, b)
    \/ \E s \in op[o].srcs :
          \/ Copy(o, s) \/ \E retire \in BOOLEAN : CommitPlacement(o, s, retire)
          \/ FinalizeCancelled(o, s) \/ FinalizeBusy(o, s) \/ FinalizeUncovered(o, s)
          \/ Revoke(o, s) \/ FinalizeDetached(o, s) \/ Publish(o, s)
    \/ CancelRecovery(o) \/ CommitStorageRecovery(o)

GcStep ==
    \/ GcStart \/ CompleteGCLooseRetirement \/ GcList \/ GcEnd
    \/ \E b \in Blob : GcDelete(b) \/ GcSweep(b)
    \/ \E x \in gcq : GcRetire(x)

Next ==
    \/ RegistryStep \/ GcStep \/ Crash
    \/ \E o \in Op : RequestStep(o) \/ RunnerStep(o) \/ CleanupFails(o)
    \/ \E b \in Blob : Ingest(b)

Spec == Init /\ [][Next]_vars

\* Garbage collection spares the copy that a salvage has published and is about
\* to authorise.  Nothing in the code sees to this.
Undisturbed ==
    GcStep => \A o \in Op : LET x == <<op[o].dst, run[o].blob>>
                            IN op[o].kind = "salvage" /\ run[o].at = "published" /\ x \in intact =>
                                   x \in intact'

UndisturbedSpec == Init /\ [][Next /\ Undisturbed]_vars

-----------------------------------------------------------------------------
(***************************************************************************)
(* Properties.                                                             *)
(***************************************************************************)
Operation == [kind : {"place", "evacuate", "repair", "salvage"}, srcs : SUBSET Store, dst : Store,
              todo : SUBSET Blob, from : SUBSET Blob, to : SUBSET Blob,
              state : {"none", "preview", "begun", "queued", "running", "completed", "failed",
                       "cancelled"},
              cancel : BOOLEAN, fin : BOOLEAN]

Runner == [at : {"off", "retiring", "copying", "moved", "committed", "closing", "detaching",
                 "finishing", "recover", "publishing", "published"},
           blob : Blob \cup {NoBlob}, item : Location \cup {NoItem}]

\* The tables, the files and the runners' locals have their types.
TypeOK ==
    /\ life \in [Store -> {"active", "draining", "detached", "none"}]
    /\ rows \subseteq Blob /\ loc \subseteq Location /\ gcq \subseteq Location
    /\ op \in [Op -> Operation] /\ cleanup \in [Op -> SUBSET Location]
    /\ intact \subseteq Location /\ bad \subseteq Location
    /\ run \in [Op -> Runner]
    /\ gc \in [at : {"idle", "rows", "sweep"}, item : Location \cup {NoItem},
              seen : SUBSET Blob]
    /\ fenced \subseteq Secondary /\ faults \in 0..MaxFault

\* CommitStorageRecovery "grants the fully verified replacement generation",
\* as every other commit does: what the catalog names is there.
LocationsHaveBytes == loc \subseteq intact \cup bad

\* Content survives the life cycle of the stores that hold it: through every
\* interleaving of placements, evacuations, recoveries, GC and crashes a blob
\* has an authorised copy that verifies.
Custody == LocationsHaveBytes /\ \A b \in rows : \E s \in Store : <<s, b>> \in loc \cap intact

\* Nobody is left with business at a store that is detached or forgotten: no
\* location, no object to remove, no operation that may still touch it.
DetachedEmpty ==
    \A s \in Store : life[s] \in {"detached", "none"} =>
        /\ At(s) = {}
        /\ \A o \in Users(s) : op[o].kind = "evacuate" /\ op[o].fin
        /\ \A x \in gcq \cup UNION {cleanup[o] : o \in Op} : x[1] # s

\* A cancellation that was accepted holds: the evacuation revokes nothing as a
\* whole, the recovery publishes nothing, and neither ends as completed.
CancelHonoured ==
    \A o \in Op : op[o].cancel /\ op[o].kind # "place" =>
        ~ op[o].fin /\ op[o].state # "completed"

\* An evacuation that reports completion has detached its source, although the
\* runner does not look at the answer of its second finalization.
EvacuatedDetached ==
    [][\A o \in Op : op[o].kind = "evacuate" /\ Active(o) /\ op'[o].state = "completed" =>
          \A s \in op[o].srcs : life[s] = "detached"]_vars
=============================================================================
