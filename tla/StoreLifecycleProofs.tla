------------------------ MODULE StoreLifecycleProofs ------------------------
(***************************************************************************)
(* Proofs about the stores of a vault, for any number of secondaries,      *)
(* blobs, operations and faults.                                           *)
(*                                                                         *)
(* A store is empty when it is detached because nothing can be put there   *)
(* while it drains: whatever is to be filled is active (Filling), and a    *)
(* finalized evacuation has taken everything at its source for its own     *)
(* (Closed).  The same keeps the second finalization from finding anything *)
(* left, which is why an evacuation that completes has detached its source *)
(* (Running).  Custody needs the primary to be sound and, for recoveries,  *)
(* that garbage collection spares what they publish.                       *)
(***************************************************************************)
EXTENDS StoreLifecycle, TLAPS

\* Plans: an evacuation has one source, and nobody copies a store to itself.
PlannedOp(o) ==
    /\ op[o].dst \notin op[o].srcs
    /\ op[o].kind = "evacuate" =>
           /\ op[o].srcs \subseteq Secondary /\ op[o].dst = Primary
           /\ \A s, t \in op[o].srcs : s = t
    /\ op[o].state \in {"none", "preview", "begun"} => ~ op[o].fin /\ ~ op[o].cancel

Planned == \A o \in Op : PlannedOp(o)

\* Runners: what is known where they are.
RunningOp(o) ==
    /\ run[o].at # "off" => op[o].state = "running"
    /\ run[o].at \in {"recover", "publishing", "published"} => Recovery(o)
    /\ run[o].at \in {"publishing", "published", "closing", "detaching", "finishing"} => op[o].fin
    /\ run[o].at = "detaching" => cleanup[o] = {}
    /\ run[o].at = "finishing" => \A s \in op[o].srcs : life[s] = "detached"

Running == \A o \in Op : RunningOp(o)

\* What an operation fills is active, and the primary always is.
Filling ==
    /\ life[Primary] = "active"
    /\ \A o \in Op : Active(o) => life[op[o].dst] = "active"

\* Nothing else has anything at the source of a finalized evacuation.
Gone(s, o) ==
    /\ life[s] \in {"draining", "detached"} /\ At(s) = {}
    /\ \A x \in gcq : x[1] # s
    /\ \A p \in Op \ {o} : \A x \in cleanup[p] : x[1] # s

Closed ==
    \A o \in Op : Active(o) /\ op[o].kind = "evacuate" /\ op[o].fin =>
        \A s \in op[o].srcs : Gone(s, o)

IInv == TypeOK /\ Planned /\ Running /\ Filling /\ Closed /\ DetachedEmpty /\ CancelHonoured

\* What is salvaged and not yet authorised is there.
Published ==
    \A o \in Op : op[o].kind = "salvage" /\ run[o].at = "published" =>
                    <<op[o].dst, run[o].blob>> \in intact

\* The primary's copies verify.
SoundPrimary == \A b \in Blob : <<Primary, b>> \notin bad

CustodyInv == Custody /\ Published /\ SoundPrimary

\* A repair mends what was authorised when it was planned, and operations are of
\* the kinds they may be of.
RepairOp(o) ==
    /\ op[o].kind = "place" \/ op[o].kind \in Kinds[o]
    /\ op[o].kind = "repair" =>
           /\ op[o].todo \subseteq op[o].to
           /\ run[o].at \in {"publishing", "published"} => run[o].blob \in op[o].to

Repairs == \A o \in Op : RepairOp(o)

-----------------------------------------------------------------------------
(* What the helpers do to the operations and their runners.                *)

LEMMA NoneType == NoOp \in Operation /\ NoRun \in Runner /\ NoItem \in Location \cup {NoItem}
  BY DEF NoOp, NoRun, NoItem, Operation, Runner, Store

\* A runner that moves keeps its item, and the others keep all.
LEMMA MovesEffect ==
    ASSUME TypeOK, NEW o \in Op, NEW at, NEW b, Moves(o, at, b)
    PROVE  /\ run'[o] = [at |-> at, blob |-> b, item |-> run[o].item]
           /\ \A p \in Op \ {o} : run'[p] = run[p]
  BY DEF TypeOK, Moves, Runner

LEMMA MovesFields ==
    ASSUME TypeOK, NEW o \in Op, NEW at, NEW b, Moves(o, at, b)
    PROVE  /\ run'[o].at = at /\ run'[o].blob = b /\ run'[o].item = run[o].item
           /\ \A p \in Op \ {o} : run'[p] = run[p]
  <1>1. run'[o] = [at |-> at, blob |-> b, item |-> run[o].item]
    BY MovesEffect
  <1> QED BY <1>1, MovesEffect

LEMMA MovesType ==
    ASSUME TypeOK, NEW o \in Op, NEW at, NEW b \in Blob \cup {NoBlob}, Moves(o, at, b),
           at \in {"off", "retiring", "copying", "moved", "committed", "closing", "detaching",
                   "finishing", "recover", "publishing", "published"}
    PROVE  run' \in [Op -> Runner]
  <1>1. [at |-> at, blob |-> b, item |-> run[o].item] \in Runner
    BY DEF TypeOK, Runner
  <1>2. \A p \in Op : run'[p] \in Runner
    BY <1>1, MovesEffect DEF TypeOK
  <1>3. run' = [p \in Op |-> run'[p]]
    BY DEF TypeOK, Moves
  <1> QED BY <1>2, <1>3

\* An operation that finishes keeps its kind and whether it was cancelled.
LEMMA FinishesEffect ==
    ASSUME TypeOK, NEW o \in Op, NEW st, Finishes(o, st)
    PROVE  /\ op'[o] = [NoOp EXCEPT !.kind = op[o].kind, !.cancel = op[o].cancel, !.state = st]
           /\ run'[o] = NoRun
           /\ \A p \in Op \ {o} : op'[p] = op[p] /\ run'[p] = run[p]
  BY DEF TypeOK, Finishes

LEMMA FinishesFields ==
    ASSUME TypeOK, NEW o \in Op, NEW st, Finishes(o, st)
    PROVE  /\ op'[o].kind = op[o].kind /\ op'[o].cancel = op[o].cancel /\ op'[o].state = st
           /\ op'[o].fin = FALSE /\ op'[o].srcs = {} /\ op'[o].dst = Primary
           /\ run'[o].at = "off" /\ run'[o].item = NoItem /\ run'[o].blob = NoBlob
  <1>1. op'[o] = [NoOp EXCEPT !.kind = op[o].kind, !.cancel = op[o].cancel, !.state = st]
    BY FinishesEffect
  <1>2. run'[o] = NoRun
    BY FinishesEffect
  <1> QED BY <1>1, <1>2 DEF NoOp, NoRun

LEMMA FinishesType ==
    ASSUME TypeOK, NEW o \in Op, NEW st \in {"completed", "failed", "cancelled"}, Finishes(o, st)
    PROVE  op' \in [Op -> Operation] /\ run' \in [Op -> Runner]
  <1>1. [NoOp EXCEPT !.kind = op[o].kind, !.cancel = op[o].cancel, !.state = st] \in Operation
    BY DEF TypeOK, NoOp, Operation, Store
  <1> QED BY <1>1, NoneType DEF TypeOK, Finishes

\* One that is deferred only changes its state.
LEMMA DefersEffect ==
    ASSUME TypeOK, NEW o \in Op, Defers(o)
    PROVE  /\ op'[o] = [op[o] EXCEPT !.state = "queued"] /\ run'[o] = NoRun
           /\ \A p \in Op \ {o} : op'[p] = op[p] /\ run'[p] = run[p]
           /\ op' \in [Op -> Operation] /\ run' \in [Op -> Runner]
  BY ZenonT(60), NoneType DEF TypeOK, Defers, Operation

\* The single fields that steps write: an operation's state ...
LEMMA StateUpdate ==
    ASSUME TypeOK, NEW o \in Op, NEW v \in {"preview", "begun", "queued", "running"},
           op' = [op EXCEPT ![o].state = v]
    PROVE  /\ op'[o] = [op[o] EXCEPT !.state = v] /\ op' \in [Op -> Operation]
           /\ \A p \in Op \ {o} : op'[p] = op[p]
  <1>0. op[o] \in Operation
    BY DEF TypeOK
  <1>1. [op[o] EXCEPT !.state = v] \in Operation
    BY <1>0 DEF Operation
  <1>2. op' = [op EXCEPT ![o] = [op[o] EXCEPT !.state = v]]
    BY DEF TypeOK
  <1> QED BY <1>1, <1>2 DEF TypeOK

\* ... whether it is to be cancelled ...
LEMMA CancelUpdate ==
    ASSUME TypeOK, NEW o \in Op, NEW v \in BOOLEAN,
           op' = [op EXCEPT ![o].cancel = v]
    PROVE  /\ op'[o] = [op[o] EXCEPT !.cancel = v] /\ op' \in [Op -> Operation]
           /\ \A p \in Op \ {o} : op'[p] = op[p]
  <1>0. op[o] \in Operation
    BY DEF TypeOK
  <1>1. [op[o] EXCEPT !.cancel = v] \in Operation
    BY <1>0 DEF Operation
  <1>2. op' = [op EXCEPT ![o] = [op[o] EXCEPT !.cancel = v]]
    BY DEF TypeOK
  <1> QED BY <1>1, <1>2 DEF TypeOK

\* ... whether it is past cancellation ...
LEMMA FinUpdate ==
    ASSUME TypeOK, NEW o \in Op, NEW v \in BOOLEAN,
           op' = [op EXCEPT ![o].fin = v]
    PROVE  /\ op'[o] = [op[o] EXCEPT !.fin = v] /\ op' \in [Op -> Operation]
           /\ \A p \in Op \ {o} : op'[p] = op[p]
  <1>0. op[o] \in Operation
    BY DEF TypeOK
  <1>1. [op[o] EXCEPT !.fin = v] \in Operation
    BY <1>0 DEF Operation
  <1>2. op' = [op EXCEPT ![o] = [op[o] EXCEPT !.fin = v]]
    BY DEF TypeOK
  <1> QED BY <1>1, <1>2 DEF TypeOK

\* ... and what is left of its plan.
LEMMA TodoUpdate ==
    ASSUME TypeOK, NEW o \in Op, NEW v \in SUBSET Blob,
           op' = [op EXCEPT ![o].todo = v]
    PROVE  /\ op'[o] = [op[o] EXCEPT !.todo = v] /\ op' \in [Op -> Operation]
           /\ \A p \in Op \ {o} : op'[p] = op[p]
  <1>0. op[o] \in Operation
    BY DEF TypeOK
  <1>1. [op[o] EXCEPT !.todo = v] \in Operation
    BY <1>0 DEF Operation
  <1>2. op' = [op EXCEPT ![o] = [op[o] EXCEPT !.todo = v]]
    BY DEF TypeOK
  <1> QED BY <1>1, <1>2 DEF TypeOK

-----------------------------------------------------------------------------
(* Types.                                                                  *)

LEMMA InitType == Init => TypeOK
  BY NoneType, StoreAssumption, BoundAssumption
  DEF Init, TypeOK, NoGc, Location, Store

LEMMA RegistryType ==
    ASSUME TypeOK, RegistryStep PROVE TypeOK'
  BY DEF TypeOK, RegistryStep, RegisterBlobStore, ReplaceOwnership, DetachBlobStore,
         UnregisterBlobStore, disk, Store

\* A preview writes a plan.
LEMMA PreviewType ==
    ASSUME TypeOK, NEW o \in Op, NEW kind \in {"place", "evacuate", "repair", "salvage"},
           NEW srcs \in SUBSET Store, NEW dst \in Store,
           NEW todo \in SUBSET Blob, NEW from \in SUBSET Blob, Preview(o, kind, srcs, dst, todo, from)
    PROVE  TypeOK'
  <1>1. todo \cap At(dst) \in SUBSET Blob
    OBVIOUS
  <1>2. op' \in [Op -> Operation]
    BY <1>1 DEF TypeOK, Preview, Operation
  <1> QED BY <1>2 DEF TypeOK, Preview, catalog, disk

LEMMA RequestType ==
    ASSUME TypeOK, NEW o \in Op, RequestStep(o) PROVE TypeOK'
  <1>1. ASSUME NEW s \in Store, NEW d \in Store, NEW T \in SUBSET Blob, PreviewPlace(o, s, d, T)
        PROVE  TypeOK'
    BY <1>1, PreviewType DEF PreviewPlace
  <1>2. ASSUME NEW s \in Secondary, PreviewEvacuate(o, s) PROVE TypeOK'
    <2>1. Primary \in Store /\ {s} \in SUBSET Store /\ At(s) \in SUBSET Blob
      BY DEF Store, At
    <2> QED BY <1>2, <2>1, PreviewType DEF PreviewEvacuate
  <1>3. ASSUME NEW s \in Secondary, BeginBlobStoreEvacuation(o, s) PROVE TypeOK'
    <2>1. op' \in [Op -> Operation]
      BY <1>3, StateUpdate DEF BeginBlobStoreEvacuation
    <2> QED BY <1>3, <2>1 DEF TypeOK, BeginBlobStoreEvacuation, disk, Store
  <1>4. ASSUME NEW s \in Store, NEW b \in Blob, PreviewRepair(o, s, b) PROVE TypeOK'
    BY <1>4, PreviewType DEF PreviewRepair
  <1>5. ASSUME NEW s \in Store, NEW b \in Blob, PreviewSalvage(o, s, b) PROVE TypeOK'
    <2>1. Primary \in Store /\ {s} \in SUBSET Store
      BY DEF Store
    <2> QED BY <1>5, <2>1, PreviewType DEF PreviewSalvage
  <1>6. CASE Drop(o)
    BY <1>6, NoneType DEF TypeOK, Drop, catalog, disk
  <1>7. CASE CreateStorageOperation(o)
    <2>1. op' \in [Op -> Operation]
      BY <1>7, StateUpdate DEF CreateStorageOperation
    <2> QED BY <1>7, <2>1 DEF TypeOK, CreateStorageOperation, catalog, disk
  <1>8. CASE RequestStorageOperationCancel(o)
    <2>1. op' \in [Op -> Operation]
      BY <1>8, CancelUpdate DEF RequestStorageOperationCancel
    <2> QED BY <1>8, <2>1 DEF TypeOK, RequestStorageOperationCancel, catalog, disk
  <1> QED BY <1>1, <1>2, <1>3, <1>4, <1>5, <1>6, <1>7, <1>8 DEF RequestStep

\* A store, a blob and their location.
LEMMA PlanType ==
    ASSUME TypeOK, NEW o \in Op
    PROVE  /\ op[o].srcs \subseteq Store /\ op[o].dst \in Store /\ op[o].todo \subseteq Blob
           /\ op[o].from \subseteq Blob /\ cleanup[o] \subseteq Location
           /\ run[o].item \in Location \cup {NoItem} /\ run[o].blob \in Blob \cup {NoBlob}
           /\ op[o].cancel \in BOOLEAN /\ op[o].fin \in BOOLEAN
  BY DEF TypeOK, Operation, Runner

LEMMA RunnerType ==
    ASSUME TypeOK, NEW o \in Op, RunnerStep(o) PROVE TypeOK'
  <1> USE PlanType
  <1>1. CASE ClaimStorageOperation(o)
    <2>1. op' \in [Op -> Operation]
      BY <1>1, StateUpdate DEF ClaimStorageOperation
    <2>2. run' \in [Op -> Runner]
      BY <1>1, MovesType DEF ClaimStorageOperation
    <2> QED BY <1>1, <2>1, <2>2 DEF TypeOK, ClaimStorageOperation, catalog, disk
  <1>2. CASE CompleteStorageOperationCleanup(o)
    <2>1. run' \in [Op -> Runner]
      BY SMTT(30), <1>2 DEF TypeOK, CompleteStorageOperationCleanup, Runner
    <2>2. cleanup' \in [Op -> SUBSET Location]
      BY <1>2 DEF TypeOK, CompleteStorageOperationCleanup
    <2> QED BY <1>2, <2>1, <2>2 DEF TypeOK, CompleteStorageOperationCleanup, catalog, disk
  <1>3. ASSUME NEW x \in cleanup[o], Retire(o, x) PROVE TypeOK'
    <2>0. x \in Location
      OBVIOUS
    <2>1. [run[o] EXCEPT !.item = x] \in Runner
      BY <2>0 DEF TypeOK, Runner
    <2>2. run' \in [Op -> Runner]
      <3>1. run' \in {run, [run EXCEPT ![o] = [run[o] EXCEPT !.item = x]]}
        BY <1>3 DEF TypeOK, Retire
      <3> QED BY <2>1, <3>1 DEF TypeOK
    <2>3. cleanup' \in [Op -> SUBSET Location]
      BY <1>3 DEF TypeOK, Retire
    <2> QED BY <1>3, <2>2, <2>3 DEF TypeOK, Retire, catalog, disk
  <1>4. CASE CancelPlacement(o)
    BY <1>4, FinishesType DEF TypeOK, CancelPlacement, catalog, disk
  <1>5. CASE Advance(o)
    <2>0. op' = [op EXCEPT ![o].todo = op[o].todo \ {run[o].blob}]
      BY <1>5 DEF TypeOK, Advance
    <2>1. op' \in [Op -> Operation]
      <3>1. op[o].todo \ {run[o].blob} \in SUBSET Blob
        OBVIOUS
      <3> QED BY ONLY <2>0, <3>1, TodoUpdate, TypeOK, o \in Op
    <2>2. run' \in [Op -> Runner]
      BY <1>5, MovesType DEF Advance
    <2> QED BY <1>5, <2>1, <2>2 DEF TypeOK, Advance, catalog, disk
  <1>6. CASE Fail(o)
    BY <1>6, FinishesType DEF TypeOK, Fail, catalog, disk
  <1>7. CASE Complete(o)
    BY <1>7, FinishesType DEF TypeOK, Complete, catalog, disk
  <1>8. CASE Close(o)
    BY <1>8, MovesType DEF TypeOK, Close, catalog, disk
  <1>9. ASSUME NEW b \in op[o].todo, PlaceOne(o, b) PROVE TypeOK'
    <2>1. run' \in [Op -> Runner]
      BY <1>9, MovesType DEF PlaceOne
    <2> QED BY <1>9, <2>1 DEF TypeOK, PlaceOne, catalog, disk
  <1>10. ASSUME NEW b \in op[o].todo, BeginStorageRecoveryPublication(o, b) PROVE TypeOK'
    <2>1. op' \in [Op -> Operation]
      BY <1>10, FinUpdate DEF BeginStorageRecoveryPublication
    <2>2. run' \in [Op -> Runner]
      BY <1>10, MovesType DEF BeginStorageRecoveryPublication
    <2> QED BY <1>10, <2>1, <2>2 DEF TypeOK, BeginStorageRecoveryPublication, catalog, disk
  <1>11. ASSUME NEW s \in op[o].srcs, Copy(o, s) PROVE TypeOK'
    <2>1. run[o].blob \in Blob /\ <<op[o].dst, run[o].blob>> \in Location
      BY <1>11 DEF Copy, Location
    <2>2. run' \in [Op -> Runner]
      BY <1>11, MovesType DEF Copy
    <2> QED BY <1>11, <2>1, <2>2 DEF TypeOK, Copy, catalog
  <1>12. ASSUME NEW s \in op[o].srcs, NEW retire \in BOOLEAN, CommitPlacement(o, s, retire)
         PROVE  TypeOK'
    <2>1. /\ run[o].blob \in Blob /\ <<op[o].dst, run[o].blob>> \in Location
          /\ <<s, run[o].blob>> \in Location
      BY <1>12 DEF TypeOK, CommitPlacement, Location
    <2>2. run' \in [Op -> Runner]
      BY <1>12, <2>1, MovesType DEF CommitPlacement
    <2>3. loc' \subseteq Location /\ cleanup' \in [Op -> SUBSET Location]
      BY <1>12, <2>1 DEF TypeOK, CommitPlacement
    <2> QED BY <1>12, <2>2, <2>3 DEF TypeOK, CommitPlacement, disk
  <1>13. ASSUME NEW s \in op[o].srcs,
                FinalizeCancelled(o, s) \/ FinalizeBusy(o, s) \/ FinalizeUncovered(o, s)
         PROVE  TypeOK'
    BY <1>13, FinishesType, DefersEffect
    DEF TypeOK, FinalizeCancelled, FinalizeBusy, FinalizeUncovered, catalog, disk
  <1>14. ASSUME NEW s \in op[o].srcs, Revoke(o, s) PROVE TypeOK'
    <2>1. op' \in [Op -> Operation]
      BY <1>14, FinUpdate DEF Revoke
    <2>2. run' \in [Op -> Runner]
      BY <1>14, MovesType DEF Revoke
    <2>3. loc' \subseteq Location /\ gcq' \subseteq Location
      BY <1>14 DEF TypeOK, Revoke
    <2>4. cleanup' \in [Op -> SUBSET Location]
      BY <1>14 DEF TypeOK, Revoke, adopted
    <2>5. life' \in [Store -> {"active", "draining", "detached", "none"}]
      BY <1>14 DEF TypeOK, Revoke
    <2> QED BY <1>14, <2>1, <2>2, <2>3, <2>4, <2>5 DEF TypeOK, Revoke, disk
  <1>15. ASSUME NEW s \in op[o].srcs, FinalizeDetached(o, s) PROVE TypeOK'
    <2>1. op' \in [Op -> Operation]
      BY <1>15, FinUpdate DEF FinalizeDetached
    <2>2. run' \in [Op -> Runner]
      BY <1>15, MovesType DEF FinalizeDetached
    <2> QED BY <1>15, <2>1, <2>2 DEF TypeOK, FinalizeDetached, catalog, disk
  <1>16. ASSUME NEW s \in op[o].srcs, Publish(o, s) PROVE TypeOK'
    <2>1. run[o].blob \in Blob /\ <<op[o].dst, run[o].blob>> \in Location
      BY <1>16 DEF TypeOK, Publish, Location
    <2>2. run' \in [Op -> Runner]
      BY <1>16, MovesType DEF Publish
    <2> QED BY <1>16, <2>1, <2>2 DEF TypeOK, Publish, catalog
  <1>17. CASE CancelRecovery(o)
    BY <1>17, FinishesType DEF TypeOK, CancelRecovery, catalog, disk
  <1>18. CASE CommitStorageRecovery(o)
    <2>1. <<op[o].dst, run[o].blob>> \in Location
      BY <1>18 DEF TypeOK, CommitStorageRecovery, Location
    <2> QED BY <1>18, <2>1, FinishesType DEF TypeOK, CommitStorageRecovery, disk
  <1> QED BY <1>1, <1>2, <1>3, <1>4, <1>5, <1>6, <1>7, <1>8, <1>9, <1>10, <1>11, <1>12, <1>13,
             <1>14, <1>15, <1>16, <1>17, <1>18 DEF RunnerStep

LEMMA GcType ==
    ASSUME TypeOK, GcStep PROVE TypeOK'
  <1>1. CASE GcStart \/ CompleteGCLooseRetirement \/ GcList \/ GcEnd
    <2>1. gc' \in [at : {"idle", "rows", "sweep"}, item : Location \cup {NoItem}, seen : SUBSET Blob]
      <3> USE DEF TypeOK
      <3>1. CASE GcStart BY <3>1 DEF GcStart, NoGc
      <3>2. CASE CompleteGCLooseRetirement BY <3>2 DEF CompleteGCLooseRetirement
      <3>3. CASE GcList BY <3>3 DEF GcList
      <3>4. CASE GcEnd BY <3>4 DEF GcEnd, NoGc
      <3> QED BY <1>1, <3>1, <3>2, <3>3, <3>4
    <2>2. gcq' \subseteq gcq /\ UNCHANGED <<life, rows, loc, op, cleanup, intact, bad, run, fenced, faults>>
      BY <1>1 DEF GcStart, CompleteGCLooseRetirement, GcList, GcEnd, catalog, disk
    <2> QED BY <2>1, <2>2 DEF TypeOK
  <1>2. ASSUME NEW b \in Blob, GcDelete(b) \/ GcSweep(b) PROVE TypeOK'
    BY <1>2 DEF TypeOK, GcDelete, GcSweep, catalog, disk
  <1>3. ASSUME NEW x \in gcq, GcRetire(x) PROVE TypeOK'
    BY <1>3 DEF TypeOK, GcRetire, catalog, disk
  <1> QED BY <1>1, <1>2, <1>3 DEF GcStep

LEMMA FaultType ==
    ASSUME TypeOK, Crash \/ \E o \in Op : CleanupFails(o) PROVE TypeOK'
  <1>1. faults' \in 0..MaxFault
    BY BoundAssumption DEF TypeOK, Crash, CleanupFails
  <1>2. CASE Crash
    BY <1>1, <1>2, NoneType DEF TypeOK, Crash, NoGc, catalog, disk
  <1>3. ASSUME NEW o \in Op, CleanupFails(o) PROVE TypeOK'
    BY <1>1, <1>3, DefersEffect DEF TypeOK, CleanupFails, catalog, disk
  <1> QED BY <1>2, <1>3

LEMMA IngestType ==
    ASSUME TypeOK, NEW b \in Blob, Ingest(b) PROVE TypeOK'
  BY DEF TypeOK, Ingest, Location, Store

LEMMA NextType == ASSUME TypeOK, [Next]_vars PROVE TypeOK'
  <1>1. CASE UNCHANGED vars
    BY <1>1 DEF TypeOK, vars, catalog, disk
  <1> QED BY <1>1, RegistryType, RequestType, RunnerType, GcType, FaultType, IngestType DEF Next

\* The tables, the copies and the runners' locals have their types, whatever the
\* handlers, the runners, garbage collection and crashes do.
THEOREM TypeCorrect == Spec => []TypeOK
  BY InitType, NextType, PTL DEF Spec

-----------------------------------------------------------------------------
(* Steps that leave the stores' lives alone.                               *)

\* What concerns the other operations stays, or is taken off them.
Others(o) ==
    \A p \in Op \ {o} : op'[p] = op[p] /\ run'[p] = run[p] /\ cleanup'[p] \subseteq cleanup[p]

\* New locations are in active stores; what is to be removed was a location.
Tables ==
    /\ life' = life
    /\ \A x \in loc' \ loc : life[x[1]] = "active"
    /\ gcq' \subseteq gcq \cup loc
    /\ \A p \in Op : cleanup'[p] \subseteq cleanup[p] \cup loc

CancelledOp(o) == op[o].cancel /\ op[o].kind # "place" => ~ op[o].fin /\ op[o].state # "completed"

Evacuated(o) == Active(o) /\ op[o].kind = "evacuate" /\ op[o].fin

\* A store that is not active gets nothing.
LEMMA TablesKeep ==
    ASSUME TypeOK, Tables, NEW s \in Store, life[s] # "active", At(s) = {},
           \A x \in gcq : x[1] # s
    PROVE  At(s)' = {} /\ (\A x \in gcq' : x[1] # s)
           /\ \A p \in Op : (\A x \in cleanup[p] : x[1] # s) => \A x \in cleanup'[p] : x[1] # s
  <1>1. \A x \in loc : x[1] # s
    BY DEF At, TypeOK, Location
  <1>2. At(s)' = {}
    <2> SUFFICES ASSUME NEW b \in Blob, <<s, b>> \in loc' PROVE FALSE
      BY DEF At
    <2> QED BY <1>1 DEF Tables
  <1> QED BY <1>1, <1>2 DEF Tables

\* An operation's step keeps the invariant if what it does to its operation is
\* one of the things that the hypotheses allow.
LEMMA OperationFrame ==
    ASSUME IInv, TypeOK', NEW o \in Op, Others(o), Tables,
           PlannedOp(o)', RunningOp(o)', CancelledOp(o)',
           Active(o)' => /\ life[op'[o].dst] = "active"
                         /\ \/ \A s \in op'[o].srcs : Readable(s)
                            \/ /\ Active(o) /\ op'[o].kind = op[o].kind
                               /\ op'[o].srcs = op[o].srcs /\ (op[o].fin => op'[o].fin),
           Evacuated(o)' => Evacuated(o) /\ op'[o].srcs = op[o].srcs
    PROVE  IInv'
  <1>1. Planned'
    BY DEF IInv, Planned, PlannedOp, Others
  <1>2. Running'
    <2>1. ASSUME NEW p \in Op \ {o} PROVE RunningOp(p)'
      BY <2>1 DEF IInv, Running, RunningOp, Others, Tables, Recovery
    <2> QED BY <2>1 DEF Running
  <1>3. Filling'
    BY DEF IInv, Filling, Others, Tables, Active
  <1>4. CancelHonoured'
    BY DEF IInv, CancelHonoured, CancelledOp, Others
  <1>5. ASSUME NEW p \in Op, Evacuated(p)' PROVE Evacuated(p) /\ op'[p].srcs = op[p].srcs
    BY <1>5 DEF Others, Evacuated, Active
  <1>6. Closed'
    <2> SUFFICES ASSUME NEW p \in Op, Evacuated(p)', NEW s \in op'[p].srcs
                 PROVE  Gone(s, p)'
      BY DEF Closed, Evacuated
    <2>1. s \in Store /\ Gone(s, p)
      BY <1>5, PlanType DEF IInv, Closed, Evacuated
    <2> QED BY <2>1, TablesKeep DEF IInv, Gone, Tables
  <1>7. DetachedEmpty'
    <2> SUFFICES ASSUME NEW s \in Store, life[s] \in {"detached", "none"}
                 PROVE  /\ At(s)' = {}
                        /\ \A p \in Users(s)' : op'[p].kind = "evacuate" /\ op'[p].fin
                        /\ \A x \in gcq' \cup UNION {cleanup'[p] : p \in Op} : x[1] # s
      BY DEF DetachedEmpty, Tables
    <2>0. /\ At(s) = {} /\ \A p \in Users(s) : op[p].kind = "evacuate" /\ op[p].fin
          /\ \A x \in gcq : x[1] # s
          /\ \A p \in Op : \A x \in cleanup[p] : x[1] # s
      BY DEF IInv, DetachedEmpty
    <2>1. /\ At(s)' = {} /\ \A x \in gcq' : x[1] # s
          /\ \A p \in Op : \A x \in cleanup'[p] : x[1] # s
      BY <2>0, TablesKeep DEF IInv
    <2>2. ASSUME NEW p \in Users(s)' PROVE op'[p].kind = "evacuate" /\ op'[p].fin
      <3>0. p \in Op /\ Active(p)' /\ s \in op'[p].srcs \cup {op'[p].dst}
        BY <2>2 DEF Users, References
      <3>1. CASE p = o
        <4>1. s \in op'[o].srcs /\ ~ Readable(s)
          BY <3>0, <3>1 DEF Readable
        <4>2. o \in Users(s)
          BY <3>0, <3>1, <4>1 DEF Users, References
        <4> QED BY <2>0, <3>0, <3>1, <4>1, <4>2, PlanType DEF IInv
      <3>2. CASE p # o
        BY <2>0, <3>0, <3>2 DEF Others, Users, References, Active
      <3> QED BY <3>1, <3>2
    <2> QED BY <2>1, <2>2
  <1> QED BY <1>1, <1>2, <1>3, <1>4, <1>6, <1>7 DEF IInv

\* Nobody runs an operation that is not there.
LEMMA Idle == ASSUME IInv, NEW o \in Op, op[o].state # "running" PROVE run[o].at = "off"
  BY DEF IInv, Running, RunningOp

LEMMA PreviewInv ==
    ASSUME IInv, NEW o \in Op, NEW kind \in {"place", "evacuate", "repair", "salvage"},
           NEW srcs \in SUBSET Store, NEW dst \in Store,
           NEW todo \in SUBSET Blob, NEW from \in SUBSET Blob,
           Preview(o, kind, srcs, dst, todo, from),
           dst \notin srcs,
           kind = "evacuate" => srcs \subseteq Secondary /\ dst = Primary /\ \A s, t \in srcs : s = t
    PROVE  IInv'
  <1>1. TypeOK'
    BY PreviewType DEF IInv
  <1>2. /\ op'[o].kind = kind /\ op'[o].srcs = srcs /\ op'[o].dst = dst
        /\ op'[o].state = "preview" /\ op'[o].fin = FALSE /\ op'[o].cancel = FALSE
    BY DEF Preview, IInv, TypeOK
  <1>3. Others(o) /\ Tables
    BY DEF Preview, IInv, TypeOK, Others, Tables, catalog
  <1>4. PlannedOp(o)'
    BY <1>2 DEF PlannedOp
  <1>5. RunningOp(o)'
    BY Idle DEF Preview, RunningOp
  <1>6. CancelledOp(o)' /\ ~ Active(o)' /\ ~ Evacuated(o)'
    BY <1>2 DEF CancelledOp, Active, Evacuated
  <1> QED BY <1>1, <1>3, <1>4, <1>5, <1>6, OperationFrame

LEMMA DropInv ==
    ASSUME IInv, NEW o \in Op, Drop(o) PROVE IInv'
  <1>1. TypeOK'
    BY NoneType DEF IInv, TypeOK, Drop, catalog, disk
  <1>2. /\ op'[o].kind = "place" /\ op'[o].srcs = {} /\ op'[o].state = "none"
        /\ op'[o].fin = FALSE /\ op'[o].cancel = FALSE
    BY DEF Drop, IInv, TypeOK, NoOp
  <1>3. Others(o) /\ Tables
    BY DEF Drop, IInv, TypeOK, Others, Tables, catalog
  <1>4. PlannedOp(o)'
    BY <1>2 DEF PlannedOp
  <1>5. RunningOp(o)'
    BY Idle DEF Drop, RunningOp
  <1>6. CancelledOp(o)' /\ ~ Active(o)' /\ ~ Evacuated(o)'
    BY <1>2 DEF CancelledOp, Active, Evacuated
  <1> QED BY <1>1, <1>3, <1>4, <1>5, <1>6, OperationFrame

LEMMA CreateInv ==
    ASSUME IInv, NEW o \in Op, CreateStorageOperation(o) PROVE IInv'
  <1>1. TypeOK'
    BY RequestType DEF IInv, RequestStep
  <1>2. op'[o] = [op[o] EXCEPT !.state = "queued"] /\ \A p \in Op \ {o} : op'[p] = op[p]
    BY StateUpdate DEF CreateStorageOperation, IInv
  <1>3. /\ op'[o].kind = op[o].kind /\ op'[o].srcs = op[o].srcs /\ op'[o].dst = op[o].dst
        /\ op'[o].fin = op[o].fin /\ op'[o].cancel = op[o].cancel /\ op'[o].state = "queued"
    BY <1>2 DEF IInv, TypeOK, Operation
  <1>4. Others(o) /\ Tables
    BY <1>2 DEF CreateStorageOperation, Others, Tables, catalog
  <1>5. PlannedOp(o)'
    BY <1>3 DEF PlannedOp, IInv, Planned
  <1>6. RunningOp(o)'
    BY Idle DEF CreateStorageOperation, RunningOp
  <1>7. CancelledOp(o)' /\ ~ Evacuated(o)'
    BY <1>3 DEF CancelledOp, Evacuated, CreateStorageOperation, IInv, Planned, PlannedOp
  <1>8. life[op'[o].dst] = "active" /\ \A s \in op'[o].srcs : Readable(s)
    BY <1>3 DEF CreateStorageOperation, admissible
  <1> QED BY <1>1, <1>4, <1>5, <1>6, <1>7, <1>8, OperationFrame

LEMMA CancelInv ==
    ASSUME IInv, NEW o \in Op, RequestStorageOperationCancel(o) PROVE IInv'
  <1>1. TypeOK'
    BY RequestType DEF IInv, RequestStep
  <1>2. op'[o] = [op[o] EXCEPT !.cancel = TRUE] /\ \A p \in Op \ {o} : op'[p] = op[p]
    BY CancelUpdate DEF RequestStorageOperationCancel, IInv
  <1>3. /\ op'[o].kind = op[o].kind /\ op'[o].srcs = op[o].srcs /\ op'[o].dst = op[o].dst
        /\ op'[o].fin = op[o].fin /\ op'[o].state = op[o].state
    BY <1>2 DEF IInv, TypeOK, Operation
  <1>4. Others(o) /\ Tables
    BY <1>2 DEF RequestStorageOperationCancel, Others, Tables, catalog
  <1>5. PlannedOp(o)'
    BY <1>3 DEF PlannedOp, IInv, Planned, RequestStorageOperationCancel, cancellable, Active
  <1>6. RunningOp(o)'
    BY <1>3 DEF RequestStorageOperationCancel, IInv, Running, RunningOp, Recovery, catalog
  <1>7. CancelledOp(o)' /\ ~ Evacuated(o)'
    BY <1>3 DEF RequestStorageOperationCancel, cancellable, CancelledOp, Evacuated, Active
  <1>8. Active(o) /\ life[op'[o].dst] = "active"
    BY <1>3 DEF RequestStorageOperationCancel, cancellable, IInv, Filling
  <1> QED BY <1>1, <1>3, <1>4, <1>5, <1>6, <1>7, <1>8, OperationFrame

\* An operation that goes on: its runner moves, or it is put back.
Continues(o) ==
    /\ op'[o].kind = op[o].kind /\ op'[o].srcs = op[o].srcs /\ op'[o].dst = op[o].dst
    /\ op'[o].cancel = op[o].cancel /\ op'[o].fin = op[o].fin
    /\ Active(o) /\ Active(o)'

LEMMA ContinuesInv ==
    ASSUME IInv, TypeOK', NEW o \in Op, Continues(o), Others(o), Tables, RunningOp(o)'
    PROVE  IInv'
  <1>1. PlannedOp(o)'
    BY DEF Continues, PlannedOp, IInv, Planned, Active
  <1>2. CancelledOp(o)'
    BY DEF Continues, CancelledOp, IInv, CancelHonoured, Active
  <1>3. life[op'[o].dst] = "active"
    BY DEF Continues, IInv, Filling
  <1>4. Evacuated(o)' => Evacuated(o)
    BY DEF Continues, Evacuated
  <1> QED BY <1>1, <1>2, <1>3, <1>4, OperationFrame DEF Continues

\* An operation that is deferred.
LEMMA DefersInv ==
    ASSUME IInv, TypeOK', NEW o \in Op, Defers(o), Active(o), UNCHANGED <<life, loc, gcq, cleanup>>
    PROVE  IInv'
  <1>1. op'[o] = [op[o] EXCEPT !.state = "queued"] /\ run'[o].at = "off"
    BY DefersEffect DEF IInv, NoRun
  <1>2. Continues(o)
    BY <1>1 DEF IInv, TypeOK, Operation, Continues, Active
  <1>3. Others(o) /\ Tables
    BY DefersEffect DEF IInv, Others, Tables
  <1>4. RunningOp(o)'
    BY <1>1 DEF RunningOp
  <1> QED BY <1>2, <1>3, <1>4, ContinuesInv

\* An operation that ends: one that was cancelled is not completed.
LEMMA FinishesInv ==
    ASSUME IInv, TypeOK', NEW o \in Op, NEW st \in {"completed", "failed", "cancelled"},
           Finishes(o, st), Tables, cleanup' = cleanup,
           st = "completed" /\ op[o].kind # "place" => ~ op[o].cancel
    PROVE  IInv'
  <1>1. /\ op'[o].kind = op[o].kind /\ op'[o].cancel = op[o].cancel /\ op'[o].state = st
        /\ op'[o].fin = FALSE /\ op'[o].srcs = {} /\ op'[o].dst = Primary /\ run'[o].at = "off"
    BY FinishesFields DEF IInv
  <1>2. Others(o)
    BY FinishesEffect DEF IInv, Others
  <1>3. PlannedOp(o)'
    BY <1>1 DEF PlannedOp
  <1>4. RunningOp(o)'
    BY <1>1 DEF RunningOp
  <1>5. CancelledOp(o)' /\ ~ Active(o)' /\ ~ Evacuated(o)'
    BY <1>1 DEF CancelledOp, Active, Evacuated
  <1> QED BY <1>2, <1>3, <1>4, <1>5, OperationFrame

\* A runner's move that leaves the operation itself alone.
LEMMA MovesInv ==
    ASSUME IInv, TypeOK', NEW o \in Op, NEW at, NEW b, Moves(o, at, b), UNCHANGED <<op>>, Tables,
           \A p \in Op \ {o} : cleanup'[p] \subseteq cleanup[p],
           run[o].at # "off",
           at \in {"copying", "moved", "committed", "retiring", "published", "detaching"},
           at = "published" => run[o].at = "publishing",
           at = "detaching" => run[o].at = "closing" /\ cleanup'[o] = {}
    PROVE  IInv'
  <1>1. run'[o].at = at /\ \A p \in Op \ {o} : run'[p] = run[p]
    BY MovesFields DEF IInv
  <1>2. RunningOp(o)
    BY DEF IInv, Running
  <1>3. Continues(o)
    BY <1>2 DEF Continues, RunningOp, Active
  <1>4. Others(o)
    BY <1>1 DEF Others
  <1>5. RunningOp(o)'
    BY <1>1, <1>2 DEF RunningOp, Recovery
  <1> QED BY <1>3, <1>4, <1>5, ContinuesInv

LEMMA ClaimInv ==
    ASSUME IInv, NEW o \in Op, ClaimStorageOperation(o) PROVE IInv'
  <1>1. TypeOK'
    BY RunnerType DEF IInv, RunnerStep
  <1>2. op'[o] = [op[o] EXCEPT !.state = "running"] /\ \A p \in Op \ {o} : op'[p] = op[p]
    BY StateUpdate DEF ClaimStorageOperation, IInv
  <1>3. op'[o].state = "running" /\ Continues(o)
    BY <1>2 DEF ClaimStorageOperation, IInv, TypeOK, Operation, Continues, Active
  <1>4. /\ run'[o].at = (IF Recovery(o) THEN "recover" ELSE "retiring")
        /\ \A p \in Op \ {o} : run'[p] = run[p]
    BY MovesFields DEF ClaimStorageOperation, IInv
  <1>5. Others(o) /\ Tables
    BY <1>2, <1>4 DEF ClaimStorageOperation, Others, Tables, catalog
  <1>6. RunningOp(o)'
    BY <1>3, <1>4 DEF RunningOp, Recovery, Continues
  <1> QED BY <1>1, <1>3, <1>5, <1>6, ContinuesInv

\* Removing an object, and forgetting that it is owed.
LEMMA RetireInv ==
    ASSUME IInv, NEW o \in Op,
           CompleteStorageOperationCleanup(o) \/ \E x \in cleanup[o] : Retire(o, x)
    PROVE  IInv'
  <1>1. TypeOK'
    BY RunnerType DEF IInv, RunnerStep
  <1>2. /\ UNCHANGED <<life, loc, gcq, op>> /\ run'[o].at = run[o].at
        /\ \A p \in Op \ {o} : run'[p] = run[p]
    BY DEF IInv, TypeOK, CompleteStorageOperationCleanup, Retire, catalog, Runner
  <1>3. \A p \in Op : cleanup'[p] \subseteq cleanup[p]
    BY DEF IInv, TypeOK, CompleteStorageOperationCleanup, Retire
  <1>4. run[o].at # "off" \/ run[o].item # NoItem
    BY DEF CompleteStorageOperationCleanup, Retire
  <1>5. Others(o) /\ Tables
    BY <1>2, <1>3 DEF Others, Tables
  <1>6. RunningOp(o) /\ RunningOp(o)'
    BY <1>2, <1>3 DEF IInv, Running, RunningOp, Recovery
  <1>7. CASE run[o].at # "off"
    BY <1>1, <1>2, <1>5, <1>6, <1>7, ContinuesInv DEF Continues, RunningOp, Active
  <1>8. CASE run[o].at = "off"
    BY <1>1, <1>2, <1>5, <1>6, OperationFrame
    DEF IInv, Planned, PlannedOp, CancelHonoured, CancelledOp, Filling, Evacuated, Active
  <1> QED BY <1>7, <1>8

LEMMA CommitPlacementInv ==
    ASSUME IInv, NEW o \in Op, NEW s \in op[o].srcs, NEW retire \in BOOLEAN,
           CommitPlacement(o, s, retire)
    PROVE  IInv'
  <1>1. TypeOK'
    BY RunnerType DEF IInv, RunnerStep
  <1>2. \A x \in loc' \ loc : life[x[1]] = "active"
    BY DEF CommitPlacement
  <1>3. \A p \in Op : cleanup'[p] \subseteq cleanup[p] \cup (IF p = o THEN loc ELSE {})
    BY DEF CommitPlacement, IInv, TypeOK
  <1>4. Tables /\ \A p \in Op \ {o} : cleanup'[p] \subseteq cleanup[p]
    BY <1>2, <1>3 DEF CommitPlacement, Tables
  <1>5. Moves(o, "committed", run[o].blob) /\ UNCHANGED <<op>> /\ run[o].at # "off"
    BY DEF CommitPlacement
  <1> QED BY <1>1, <1>4, <1>5, MovesInv

LEMMA AdvanceInv ==
    ASSUME IInv, NEW o \in Op, Advance(o) PROVE IInv'
  <1>1. TypeOK'
    BY RunnerType DEF IInv, RunnerStep
  <1>2. op'[o] = [op[o] EXCEPT !.todo = op[o].todo \ {run[o].blob}]
        /\ \A p \in Op \ {o} : op'[p] = op[p]
    BY DEF Advance, IInv, TypeOK
  <1>3. RunningOp(o) /\ run[o].at # "off"
    BY DEF Advance, IInv, Running
  <1>4. Continues(o) /\ op'[o].state = op[o].state
    BY <1>2, <1>3 DEF IInv, TypeOK, Operation, Continues, RunningOp, Active
  <1>5. run'[o].at = "retiring" /\ \A p \in Op \ {o} : run'[p] = run[p]
    BY MovesFields DEF Advance, IInv
  <1>6. Others(o) /\ Tables
    BY <1>2, <1>5 DEF Advance, Others, Tables, catalog
  <1>7. RunningOp(o)'
    BY <1>3, <1>4, <1>5 DEF RunningOp
  <1> QED BY <1>1, <1>4, <1>6, <1>7, ContinuesInv

LEMMA BeginPublicationInv ==
    ASSUME IInv, NEW o \in Op, NEW b \in op[o].todo, BeginStorageRecoveryPublication(o, b)
    PROVE  IInv'
  <1>1. TypeOK'
    BY RunnerType DEF IInv, RunnerStep
  <1>2. op'[o] = [op[o] EXCEPT !.fin = TRUE] /\ \A p \in Op \ {o} : op'[p] = op[p]
    BY FinUpdate DEF BeginStorageRecoveryPublication, IInv
  <1>3. /\ op'[o].kind = op[o].kind /\ op'[o].srcs = op[o].srcs /\ op'[o].dst = op[o].dst
        /\ op'[o].fin = TRUE /\ op'[o].cancel = op[o].cancel /\ op'[o].state = op[o].state
    BY <1>2 DEF IInv, TypeOK, Operation
  <1>4. run'[o].at = "publishing" /\ \A p \in Op \ {o} : run'[p] = run[p]
    BY MovesFields DEF BeginStorageRecoveryPublication, IInv
  <1>5. RunningOp(o) /\ run[o].at = "recover" /\ ~ op[o].cancel
    BY DEF BeginStorageRecoveryPublication, IInv, Running
  <1>6. Others(o) /\ Tables
    BY <1>2, <1>4 DEF BeginStorageRecoveryPublication, Others, Tables, catalog
  <1>7. PlannedOp(o)'
    BY <1>3, <1>5 DEF PlannedOp, IInv, Planned, RunningOp
  <1>8. RunningOp(o)'
    BY <1>3, <1>4, <1>5 DEF RunningOp, Recovery
  <1>9. CancelledOp(o)' /\ ~ Evacuated(o)'
    BY <1>3, <1>5 DEF CancelledOp, Evacuated, RunningOp, Recovery
  <1>10. Active(o) /\ life[op'[o].dst] = "active"
    BY <1>3, <1>5 DEF RunningOp, Active, IInv, Filling
  <1> QED BY <1>1, <1>3, <1>6, <1>7, <1>8, <1>9, <1>10, OperationFrame

\* The runner's steps that change neither a store's life nor what is final.
LEMMA PlainRunnerInv ==
    ASSUME IInv, NEW o \in Op, RunnerStep(o),
           ~ \E s \in op[o].srcs : Revoke(o, s) \/ FinalizeDetached(o, s)
    PROVE  IInv'
  <1>0. TypeOK'
    BY RunnerType DEF IInv
  <1>r. RunningOp(o) /\ (run[o].at # "off" => Active(o))
    BY DEF IInv, Running, RunningOp, Active
  <1>1. ASSUME UNCHANGED <<life, loc, gcq, cleanup>>
        PROVE  Tables /\ \A p \in Op \ {o} : cleanup'[p] \subseteq cleanup[p]
    BY <1>1 DEF Tables
  <1>2. CASE CancelPlacement(o)
    BY <1>0, <1>1, <1>2, FinishesInv DEF CancelPlacement, catalog
  <1>3. CASE Fail(o)
    BY <1>0, <1>1, <1>3, FinishesInv DEF Fail, catalog
  <1>4. CASE Complete(o)
    <2>1. op[o].kind # "place" => ~ op[o].cancel
      BY <1>4, <1>r DEF Complete, RunningOp, IInv, CancelHonoured
    <2> QED BY <1>0, <1>1, <1>4, <2>1, FinishesInv DEF Complete, catalog
  <1>5. CASE Close(o)
    BY <1>0, <1>1, <1>5, MovesInv DEF Close, Drained, catalog
  <1>6. ASSUME NEW b \in op[o].todo, PlaceOne(o, b) PROVE IInv'
    <2> DEFINE at == IF b \in rows \cap At(op[o].dst) THEN "moved" ELSE "copying"
    <2>1. Moves(o, at, b) /\ UNCHANGED <<op, life, loc, gcq, cleanup>> /\ run[o].at # "off"
      BY <1>6 DEF PlaceOne, Drained, catalog
    <2>2. at \in {"copying", "moved"}
      OBVIOUS
    <2> HIDE DEF at
    <2> QED BY <1>0, <1>1, <2>1, <2>2, MovesInv
  <1>7. ASSUME NEW s \in op[o].srcs, Copy(o, s) PROVE IInv'
    BY <1>0, <1>1, <1>7, MovesInv DEF Copy, catalog
  <1>8. ASSUME NEW s \in op[o].srcs, Publish(o, s) PROVE IInv'
    BY <1>0, <1>1, <1>8, MovesInv DEF Publish, catalog
  <1>9. ASSUME NEW s \in op[o].srcs, FinalizeCancelled(o, s) \/ FinalizeUncovered(o, s)
        PROVE  IInv'
    BY <1>0, <1>1, <1>9, FinishesInv DEF FinalizeCancelled, FinalizeUncovered, catalog
  <1>10. ASSUME NEW s \in op[o].srcs, FinalizeBusy(o, s) PROVE IInv'
    <2>1. Active(o)
      BY <1>10, <1>r DEF FinalizeBusy, Finalizing, Drained
    <2> QED BY <1>0, <1>10, <2>1, DefersInv DEF FinalizeBusy, catalog
  <1>11. CASE CancelRecovery(o)
    BY <1>0, <1>1, <1>11, FinishesInv DEF CancelRecovery, catalog
  <1>12. CASE CommitStorageRecovery(o)
    <2>1. life[op[o].dst] = "active"
      BY <1>12, <1>r DEF CommitStorageRecovery, IInv, Filling
    <2>2. Tables
      BY <1>12, <2>1 DEF CommitStorageRecovery, Tables
    <2>3. op[o].kind # "place" => ~ op[o].cancel
      BY <1>12, <1>r DEF CommitStorageRecovery, RunningOp, IInv, CancelHonoured
    <2> QED BY <1>0, <1>12, <2>2, <2>3, FinishesInv DEF CommitStorageRecovery
  <1> QED
    BY <1>2, <1>3, <1>4, <1>5, <1>6, <1>7, <1>8, <1>9, <1>10, <1>11, <1>12, ClaimInv, RetireInv,
       CommitPlacementInv, AdvanceInv, BeginPublicationInv
    DEF RunnerStep

\* A source that is detached has been finalized before.
LEMMA FinalizeDetachedInv ==
    ASSUME IInv, NEW o \in Op, NEW s \in op[o].srcs, FinalizeDetached(o, s) PROVE IInv'
  <1>0. TypeOK'
    BY RunnerType DEF IInv, RunnerStep
  <1>1. op'[o] = [op[o] EXCEPT !.fin = TRUE] /\ \A p \in Op \ {o} : op'[p] = op[p]
    BY FinUpdate DEF FinalizeDetached, IInv
  <1>2. run[o].at # "off" /\ op[o].kind = "evacuate" /\ life[s] = "detached"
    BY DEF FinalizeDetached, Finalizing, Drained
  <1>3. o \in Users(s) /\ s \in Store
    BY <1>2, PlanType DEF IInv, Running, RunningOp, Users, References, Active
  <1>4. op[o].fin
    BY <1>2, <1>3 DEF IInv, DetachedEmpty
  <1>5. Continues(o) /\ op'[o].state = op[o].state
    BY <1>1, <1>3, <1>4 DEF IInv, TypeOK, Operation, Continues, Users, Active
  <1>6. run'[o].at = "finishing" /\ \A p \in Op \ {o} : run'[p] = run[p]
    BY MovesFields DEF FinalizeDetached, IInv
  <1>7. Others(o) /\ Tables
    BY <1>1, <1>6 DEF FinalizeDetached, Others, Tables, catalog
  <1>8. RunningOp(o)'
    <2>1. \A t \in op[o].srcs : t = s
      BY <1>2 DEF IInv, Planned, PlannedOp
    <2>2. life' = life /\ op'[o].srcs = op[o].srcs /\ op'[o].fin
      BY <1>4, <1>5 DEF FinalizeDetached, catalog, Continues
    <2> QED BY <1>2, <1>5, <1>6, <2>1, <2>2 DEF RunningOp, IInv, Running
  <1> QED BY <1>0, <1>5, <1>7, <1>8, ContinuesInv

-----------------------------------------------------------------------------
(* Steps that change the life of a store.                                  *)

\* Finalizing takes everything that is at the source.
LEMMA RevokeInv ==
    ASSUME IInv, NEW o \in Op, NEW s \in op[o].srcs, Revoke(o, s) PROVE IInv'
  <1> DEFINE owed == cleanup[o] \cup {x \in loc : x[1] = s} \cup adopted(o, s)
             done == \A x \in owed : x[1] # s
             at == IF done \/ run[o].at = "detaching" THEN "finishing" ELSE "closing"
  <1>0. TypeOK'
    BY RunnerType DEF IInv, RunnerStep
  <1>1. /\ op[o].kind = "evacuate" /\ run[o].at # "off" /\ ~ (op[o].cancel /\ ~ op[o].fin)
        /\ Users(s) \subseteq {o} /\ life[s] = "draining"
    BY DEF Revoke, Ready, Finalizing, Drained, alone
  <1>2. s \in Secondary /\ s \in Store /\ s # Primary /\ \A t \in op[o].srcs : t = s
    BY <1>1, StoreAssumption DEF IInv, Planned, PlannedOp, Store
  <1>3. RunningOp(o) /\ Active(o)
    BY <1>1 DEF IInv, Running, RunningOp, Active
  <1>4. op'[o] = [op[o] EXCEPT !.fin = TRUE] /\ \A p \in Op \ {o} : op'[p] = op[p]
    BY FinUpdate DEF Revoke, IInv
  <1>5. /\ op'[o].kind = op[o].kind /\ op'[o].srcs = op[o].srcs /\ op'[o].dst = op[o].dst
        /\ op'[o].fin = TRUE /\ op'[o].cancel = op[o].cancel /\ op'[o].state = op[o].state
    BY <1>4 DEF IInv, TypeOK, Operation
  <1>6. /\ loc' = {x \in loc : x[1] # s} /\ gcq' = {x \in gcq : x[1] # s}
        /\ cleanup'[o] = owed
        /\ \A p \in Op \ {o} : cleanup'[p] = {x \in cleanup[p] : x[1] # s}
    BY DEF Revoke
  <1>7. \A x \in owed : x[1] # s => x \in cleanup[o]
    BY DEF adopted
  <1>8. /\ \A t \in Store \ {s} : life'[t] = life[t]
        /\ life'[s] = IF done THEN "detached" ELSE "draining"
    BY <1>1, <1>2 DEF Revoke, IInv, TypeOK
  <1>9. run'[o].at = at /\ \A p \in Op \ {o} : run'[p] = run[p]
    BY MovesFields DEF Revoke, IInv
  <1>10. run[o].at = "detaching" => done
    <2> SUFFICES ASSUME run[o].at = "detaching", NEW x \in owed, x[1] = s PROVE FALSE
      OBVIOUS
    <2>1. cleanup[o] = {} /\ Evacuated(o)
      BY <1>1, <1>3 DEF RunningOp, Evacuated
    <2>2. Gone(s, o)
      BY <2>1 DEF IInv, Closed, Evacuated
    <2>3. x \notin loc
      BY <2>2 DEF Gone, At, IInv, TypeOK, Location
    <2>4. x \in gcq \/ \E p \in Op : x \in cleanup[p]
      BY <2>1, <2>3 DEF adopted
    <2> QED BY <2>1, <2>2, <2>4 DEF Gone
  <1> HIDE DEF owed, done
  <1>11. Planned'
    <2>1. PlannedOp(o)'
      BY <1>5, <1>3 DEF IInv, Planned, PlannedOp, Active
    <2>2. ASSUME NEW p \in Op \ {o} PROVE PlannedOp(p)'
      BY <1>4 DEF IInv, Planned, PlannedOp
    <2> QED BY <2>1, <2>2 DEF Planned
  <1>12. Running'
    <2>1. RunningOp(o)'
      <3>1. at = "finishing" => done
        BY <1>10
      <3> QED BY <1>2, <1>3, <1>5, <1>8, <1>9, <1>1, <3>1 DEF RunningOp, Recovery, IInv, Running
    <2>2. ASSUME NEW p \in Op \ {o} PROVE RunningOp(p)'
      <3>1. RunningOp(p) /\ op'[p] = op[p] /\ run'[p] = run[p] /\ cleanup'[p] \subseteq cleanup[p]
        BY <1>4, <1>6, <1>9 DEF IInv, Running
      <3>2. \A t \in op[p].srcs : life[t] = "detached" => life'[t] = "detached"
        BY <1>1, <1>8, PlanType DEF IInv
      <3> QED BY <3>1, <3>2 DEF RunningOp, Recovery
    <2> QED BY <2>1, <2>2 DEF Running
  <1>13. Filling'
    <2>1. life'[Primary] = "active"
      BY <1>2, <1>8 DEF IInv, Filling, Store
    <2>2. ASSUME NEW p \in Op, Active(p)' PROVE life'[op'[p].dst] = "active"
      <3>1. Active(p) /\ op'[p].dst = op[p].dst
        BY <1>4, <1>5, <2>2 DEF Active
      <3>2. life[op[p].dst] = "active"
        BY <3>1 DEF IInv, Filling
      <3> QED BY <1>1, <1>8, <3>1, <3>2, PlanType DEF IInv
    <2> QED BY <2>1, <2>2 DEF Filling
  <1>14. CancelHonoured'
    <2>1. ~ op[o].cancel
      BY <1>1 DEF IInv, CancelHonoured
    <2> QED BY <1>4, <1>5, <2>1 DEF IInv, CancelHonoured
  <1>15. Closed'
    <2> SUFFICES ASSUME NEW p \in Op, Evacuated(p)', NEW t \in op'[p].srcs PROVE Gone(t, p)'
      BY DEF Closed, Evacuated
    <2>1. CASE p = o
      <3>1. t = s
        BY <1>2, <1>5, <2>1
      <3>2. At(s)' = {}
        BY <1>6 DEF At
      <3>3. \A q \in Op \ {o} : \A x \in cleanup'[q] : x[1] # s
        BY <1>6
      <3> QED BY <1>6, <1>8, <2>1, <3>1, <3>2, <3>3 DEF Gone
    <2>2. CASE p # o
      <3>1. Evacuated(p) /\ t \in op[p].srcs /\ t \in Store
        BY <1>4, <2>2, PlanType DEF Evacuated, Active, IInv
      <3>2. t # s
        BY <1>1, <2>2, <3>1 DEF Users, References, Evacuated
      <3>3. Gone(t, p)
        BY <3>1 DEF IInv, Closed, Evacuated
      <3>4. At(t)' = {} /\ \A x \in gcq' : x[1] # t
        BY <1>6, <3>3 DEF Gone, At
      <3>5. ASSUME NEW q \in Op \ {p}, NEW x \in cleanup'[q] PROVE x[1] # t
        <4>1. x[1] = s \/ x \in cleanup[q]
          BY <1>6, <1>7 DEF owed
        <4> QED BY <3>2, <3>3, <4>1 DEF Gone
      <3>6. life'[t] = life[t]
        BY <1>8, <3>1, <3>2
      <3> QED BY <3>3, <3>4, <3>5, <3>6 DEF Gone
    <2> QED BY <2>1, <2>2
  <1>16. DetachedEmpty'
    <2> SUFFICES ASSUME NEW t \in Store, life'[t] \in {"detached", "none"}
                 PROVE  /\ At(t)' = {}
                        /\ \A p \in Users(t)' : op'[p].kind = "evacuate" /\ op'[p].fin
                        /\ \A x \in gcq' : x[1] # t
                        /\ \A p \in Op : \A x \in cleanup'[p] : x[1] # t
      BY DEF DetachedEmpty
    <2>1. ASSUME NEW p \in Users(t)' PROVE p \in Users(t) /\ (p # o => op'[p] = op[p])
      BY <1>3, <1>4, <1>5, <2>1 DEF Users, References, Active
    <2>2. CASE t = s
      <3>1. done
        BY <1>8, <2>2
      <3>2. At(s)' = {}
        BY <1>6 DEF At
      <3>3. \A p \in Op : \A x \in cleanup'[p] : x[1] # s
        BY <1>6, <3>1 DEF done
      <3>4. \A p \in Users(s)' : p = o
        BY <1>1, <2>1, <2>2
      <3> QED BY <1>1, <1>5, <1>6, <2>2, <3>2, <3>3, <3>4
    <2>3. CASE t # s
      <3>1. life[t] \in {"detached", "none"}
        BY <1>8, <2>3
      <3>2. /\ At(t) = {} /\ \A p \in Users(t) : op[p].kind = "evacuate" /\ op[p].fin
            /\ \A x \in gcq : x[1] # t
            /\ \A p \in Op : \A x \in cleanup[p] : x[1] # t
        BY <3>1 DEF IInv, DetachedEmpty
      <3>3. At(t)' = {} /\ \A x \in gcq' : x[1] # t
        BY <1>6, <3>2 DEF At
      <3>4. ASSUME NEW p \in Op, NEW x \in cleanup'[p] PROVE x[1] # t
        <4>1. x[1] = s \/ x \in cleanup[p]
          BY <1>6, <1>7 DEF owed
        <4> QED BY <2>3, <3>2, <4>1
      <3> QED BY <1>1, <1>5, <2>1, <3>2, <3>3, <3>4
    <2> QED BY <2>2, <2>3
  <1> QED BY <1>0, <1>11, <1>12, <1>13, <1>14, <1>15, <1>16 DEF IInv

\* Plans stay what they are, except that a preview's evacuation may begin.
SamePlans ==
    \A o \in Op :
        /\ op'[o].kind = op[o].kind /\ op'[o].srcs = op[o].srcs /\ op'[o].dst = op[o].dst
        /\ op'[o].cancel = op[o].cancel /\ op'[o].fin = op[o].fin
        /\ \/ op'[o].state = op[o].state
           \/ op[o].state = "preview" /\ op'[o].state = "begun"

\* A change in the life of a store that nobody uses, or that drains on.
LEMMA LifeInv ==
    ASSUME IInv, TypeOK', SamePlans, UNCHANGED <<loc, gcq, cleanup, run>>,
           NEW s \in Secondary, NEW l, life' = [life EXCEPT ![s] = l],
           \/ l = life[s]
           \/ life[s] = "none" /\ l = "active"
           \/ /\ Users(s) = {} /\ l \in {"draining", "detached", "none"}
              /\ l = "detached" => At(s) = {} /\ (\A x \in gcq : x[1] # s)
                                   /\ \A p \in Op : \A x \in cleanup[p] : x[1] # s
              /\ l = "none" => life[s] = "detached"
    PROVE  IInv'
  <1>1. /\ s \in Store /\ s # Primary /\ life'[s] = l
        /\ \A t \in Store \ {s} : life'[t] = life[t]
    BY StoreAssumption DEF Store, IInv, TypeOK
  <1>2. \A o \in Op : (Active(o)' <=> Active(o)) /\ (Evacuated(o)' <=> Evacuated(o))
    BY DEF SamePlans, Active, Evacuated
  <1>3. \A t \in Store : Users(t)' = Users(t)
    BY <1>2 DEF Users, References, SamePlans
  <1>4. Planned'
    BY DEF SamePlans, IInv, Planned, PlannedOp
  <1>5. Running'
    <2> SUFFICES ASSUME NEW o \in Op PROVE RunningOp(o)'
      BY DEF Running
    <2>1. RunningOp(o)
      BY DEF IInv, Running
    <2>2. ASSUME run[o].at = "finishing", NEW t \in op[o].srcs PROVE life'[t] = "detached"
      <3>1. life[t] = "detached" /\ o \in Users(t) /\ t \in Store
        BY <2>1, <2>2, PlanType DEF RunningOp, Users, References, Active, IInv
      <3> QED BY <1>1, <3>1
    <2> QED BY <2>1, <2>2 DEF SamePlans, RunningOp, Recovery
  <1>6. Filling'
    <2>1. life'[Primary] = "active"
      BY <1>1 DEF IInv, Filling, Store
    <2>2. ASSUME NEW o \in Op, Active(o) PROVE life'[op[o].dst] = "active"
      <3>1. life[op[o].dst] = "active" /\ o \in Users(op[o].dst) /\ op[o].dst \in Store
        BY <2>2, PlanType DEF IInv, Filling, Users, References
      <3> QED BY <1>1, <3>1
    <2> QED BY <1>2, <2>1, <2>2 DEF Filling, SamePlans
  <1>7. Closed'
    <2> SUFFICES ASSUME NEW o \in Op, Evacuated(o), NEW t \in op[o].srcs PROVE Gone(t, o)'
      BY <1>2 DEF Closed, Evacuated, SamePlans
    <2>1. Gone(t, o) /\ o \in Users(t) /\ t \in Store
      BY PlanType DEF IInv, Closed, Evacuated, Users, References
    <2>2. life'[t] = life[t]
      BY <1>1, <2>1 DEF Gone
    <2> QED BY <2>1, <2>2 DEF Gone, At
  <1>8. CancelHonoured'
    BY DEF IInv, CancelHonoured, SamePlans
  <1>9. DetachedEmpty'
    <2> SUFFICES ASSUME NEW t \in Store, life'[t] \in {"detached", "none"}
                 PROVE  /\ At(t) = {}
                        /\ \A p \in Users(t) : op[p].kind = "evacuate" /\ op[p].fin
                        /\ \A x \in gcq : x[1] # t
                        /\ \A p \in Op : \A x \in cleanup[p] : x[1] # t
      <3>1. \A t \in Store : At(t)' = At(t) /\ Users(t) \subseteq Op
        BY DEF At, Users
      <3> QED BY <1>3, <3>1 DEF DetachedEmpty, SamePlans
    <2>1. CASE life[t] \in {"detached", "none"}
      BY <2>1 DEF IInv, DetachedEmpty
    <2>2. CASE life[t] \notin {"detached", "none"}
      BY <1>1, <2>2
    <2> QED BY <2>1, <2>2
  <1> QED BY <1>4, <1>5, <1>6, <1>7, <1>8, <1>9 DEF IInv

LEMMA RegistryInv ==
    ASSUME IInv, RegistryStep PROVE IInv'
  <1>0. TypeOK' /\ SamePlans /\ UNCHANGED <<loc, gcq, cleanup, run>>
    BY RegistryType
    DEF IInv, SamePlans, RegistryStep, RegisterBlobStore, DetachBlobStore, UnregisterBlobStore
  <1>1. ASSUME NEW s \in Secondary, RegisterBlobStore(s) PROVE IInv'
    <2>1. life' = [life EXCEPT ![s] = life[s]] \/ life' = [life EXCEPT ![s] = "active"]
      BY <1>1 DEF RegisterBlobStore, IInv, TypeOK
    <2>2. life[s] = "none"
      BY <1>1 DEF RegisterBlobStore
    <2> QED BY <1>0, <2>1, <2>2, LifeInv
  <1>2. ASSUME NEW s \in Secondary, DetachBlobStore(s) PROVE IInv'
    <2>1. /\ life' = [life EXCEPT ![s] = "detached"] /\ Users(s) = {} /\ At(s) = {}
          /\ \A x \in gcq : x[1] # s
          /\ \A p \in Op : \A x \in cleanup[p] : x[1] # s
      <3>1. \A x \in Location : x = <<x[1], x[2]>> /\ x[2] \in Blob
        BY DEF Location
      <3> QED BY <1>2, <3>1 DEF DetachBlobStore, detachable, IInv, TypeOK
    <2> QED BY <1>0, <2>1, LifeInv
  <1>3. ASSUME NEW s \in Secondary, UnregisterBlobStore(s) PROVE IInv'
    BY <1>0, <1>3, LifeInv DEF UnregisterBlobStore
  <1> QED BY <1>1, <1>2, <1>3 DEF RegistryStep

LEMMA BeginInv ==
    ASSUME IInv, NEW o \in Op, NEW s \in Secondary, BeginBlobStoreEvacuation(o, s) PROVE IInv'
  <1>0. TypeOK' /\ UNCHANGED <<loc, gcq, cleanup, run>>
    BY RequestType DEF IInv, RequestStep, BeginBlobStoreEvacuation
  <1>1. op'[o] = [op[o] EXCEPT !.state = "begun"] /\ \A p \in Op \ {o} : op'[p] = op[p]
    BY StateUpdate DEF BeginBlobStoreEvacuation, IInv
  <1>2. SamePlans
    <2>1. /\ op'[o].kind = op[o].kind /\ op'[o].srcs = op[o].srcs /\ op'[o].dst = op[o].dst
          /\ op'[o].cancel = op[o].cancel /\ op'[o].fin = op[o].fin /\ op'[o].state = "begun"
      BY <1>1 DEF IInv, TypeOK, Operation
    <2> QED BY <1>1, <2>1 DEF SamePlans, BeginBlobStoreEvacuation
  <1> QED BY <1>0, <1>2, LifeInv DEF BeginBlobStoreEvacuation, drainable

LEMMA RequestInv ==
    ASSUME IInv, NEW o \in Op, RequestStep(o) PROVE IInv'
  <1>1. ASSUME NEW s \in Store, NEW d \in Store, NEW T \in SUBSET Blob, PreviewPlace(o, s, d, T)
        PROVE  IInv'
    BY <1>1, PreviewInv DEF PreviewPlace
  <1>2. ASSUME NEW s \in Secondary, PreviewEvacuate(o, s) PROVE IInv'
    <2>1. /\ Primary \in Store /\ {s} \in SUBSET Store /\ At(s) \in SUBSET Blob
          /\ Primary \notin {s} /\ {s} \subseteq Secondary
      BY StoreAssumption DEF Store, At
    <2> QED BY <1>2, <2>1, PreviewInv DEF PreviewEvacuate
  <1>3. ASSUME NEW s \in Store, NEW b \in Blob, PreviewRepair(o, s, b) PROVE IInv'
    BY <1>3, PreviewInv DEF PreviewRepair
  <1>4. ASSUME NEW s \in Store, NEW b \in Blob, PreviewSalvage(o, s, b) PROVE IInv'
    <2>1. Primary \in Store /\ {s} \in SUBSET Store /\ Primary \notin {s}
      BY <1>4, StoreAssumption DEF Store, PreviewSalvage, IInv, TypeOK
    <2> QED BY <1>4, <2>1, PreviewInv DEF PreviewSalvage
  <1> QED BY <1>1, <1>2, <1>3, <1>4, BeginInv, DropInv, CreateInv, CancelInv DEF RequestStep

-----------------------------------------------------------------------------
(* Garbage collection, ingest and crashes.                                 *)

\* The operations and their runners are left alone.
LEMMA QuietInv ==
    ASSUME IInv, TypeOK', UNCHANGED <<op, run, cleanup>>, Tables PROVE IInv'
  <1>1. CASE Op = {}
    <2>1. ASSUME NEW s \in Store, life[s] \in {"detached", "none"}
          PROVE  At(s)' = {} /\ \A x \in gcq' : x[1] # s
      BY <2>1, TablesKeep DEF IInv, DetachedEmpty
    <2> QED BY <1>1, <2>1
            DEF IInv, Planned, Running, Filling, Closed, CancelHonoured, DetachedEmpty, Users, Tables
  <1>2. ASSUME NEW o \in Op PROVE IInv'
    BY OperationFrame
    DEF IInv, Others, Tables, Planned, PlannedOp, Running, RunningOp, Recovery, CancelHonoured,
        CancelledOp, Filling, Evacuated, Active
  <1> QED BY <1>1, <1>2

LEMMA GcInv ==
    ASSUME IInv, GcStep PROVE IInv'
  <1>1. TypeOK' /\ UNCHANGED <<op, run, cleanup>>
    BY GcType DEF IInv, GcStep, GcStart, CompleteGCLooseRetirement, GcList, GcEnd, GcDelete, GcSweep,
                  GcRetire
  <1>2. Tables
    BY DEF Tables, GcStep, GcStart, CompleteGCLooseRetirement, GcList, GcEnd, GcDelete, GcSweep,
           GcRetire, catalog
  <1> QED BY <1>1, <1>2, QuietInv

LEMMA IngestInv ==
    ASSUME IInv, NEW b \in Blob, Ingest(b) PROVE IInv'
  <1>1. TypeOK' /\ UNCHANGED <<op, run, cleanup>>
    BY IngestType DEF IInv, Ingest
  <1>2. Tables
    BY DEF Tables, Ingest, IInv, Filling
  <1> QED BY <1>1, <1>2, QuietInv

\* The runners are gone; operations stay where their rows say they are.
LEMMA CrashInv == ASSUME IInv, Crash PROVE IInv'
  <1>0. TypeOK' /\ UNCHANGED <<life, loc, gcq, cleanup>>
    BY FaultType DEF IInv, Crash, catalog
  <1>1. \A o \in Op : run'[o].at = "off"
    BY DEF Crash, NoRun
  <1>2. \A o \in Op :
           \/ op'[o] = op[o] /\ op[o].state \notin {"preview", "begun"}
           \/ /\ op'[o].kind = "place" /\ op'[o].srcs = {} /\ op'[o].dst = Primary
              /\ op'[o].state = "none" /\ op'[o].cancel = FALSE /\ op'[o].fin = FALSE
    BY DEF Crash, NoOp
  <1>3. \A o \in Op : Active(o)' => op'[o] = op[o] /\ Active(o)
    BY <1>2 DEF Active
  <1>4. Planned'
    <2> SUFFICES ASSUME NEW o \in Op PROVE PlannedOp(o)'
      BY DEF Planned
    <2> QED BY <1>2 DEF IInv, Planned, PlannedOp
  <1>5. Running'
    BY <1>1 DEF Running, RunningOp
  <1>6. Filling'
    BY <1>0, <1>3 DEF IInv, Filling
  <1>7. Closed'
    <2> SUFFICES ASSUME NEW o \in Op, Evacuated(o)', NEW s \in op'[o].srcs PROVE Gone(s, o)'
      BY DEF Closed, Evacuated
    <2>1. Evacuated(o) /\ s \in op[o].srcs
      BY <1>3 DEF Evacuated
    <2> QED BY <1>0, <2>1 DEF IInv, Closed, Evacuated, Gone, At
  <1>8. CancelHonoured'
    BY <1>2 DEF IInv, CancelHonoured
  <1>9. DetachedEmpty'
    <2> SUFFICES ASSUME NEW s \in Store, life[s] \in {"detached", "none"}
                 PROVE  /\ At(s)' = {}
                        /\ \A p \in Users(s)' : op'[p].kind = "evacuate" /\ op'[p].fin
                        /\ \A x \in gcq \cup UNION {cleanup[p] : p \in Op} : x[1] # s
      BY <1>0 DEF DetachedEmpty
    <2>1. \A p \in Users(s)' : p \in Users(s) /\ op'[p] = op[p]
      BY <1>3 DEF Users, References
    <2> QED BY <1>0, <2>1 DEF IInv, DetachedEmpty, At
  <1> QED BY <1>0, <1>4, <1>5, <1>6, <1>7, <1>8, <1>9 DEF IInv

LEMMA CleanupFailsInv ==
    ASSUME IInv, NEW o \in Op, CleanupFails(o) PROVE IInv'
  <1>1. TypeOK'
    BY FaultType DEF IInv
  <1>2. Active(o)
    BY DEF CleanupFails, IInv, Running, RunningOp, Active
  <1> QED BY <1>1, <1>2, DefersInv DEF CleanupFails, catalog

-----------------------------------------------------------------------------
(* The invariant, and what it is for.                                      *)

LEMMA InitInv == Init => IInv
  <1> SUFFICES ASSUME Init PROVE IInv
    OBVIOUS
  <1>1. TypeOK
    BY InitType
  <1>2. \A o \in Op : /\ op[o].kind = "place" /\ op[o].srcs = {} /\ op[o].dst = Primary
                      /\ op[o].state = "none" /\ op[o].cancel = FALSE /\ op[o].fin = FALSE
                      /\ run[o].at = "off"
    BY DEF Init, NoOp, NoRun
  <1>3. \A s \in Store : life[s] = "active"
    BY DEF Init
  <1>4. Planned /\ Running /\ Closed /\ CancelHonoured
    BY <1>2 DEF Planned, PlannedOp, Running, RunningOp, Closed, Active, CancelHonoured
  <1>5. Filling /\ DetachedEmpty
    BY <1>2, <1>3 DEF Filling, DetachedEmpty, Active, Store
  <1> QED BY <1>1, <1>4, <1>5 DEF IInv

LEMMA NextInv == ASSUME IInv, [Next]_vars PROVE IInv'
  <1>1. CASE UNCHANGED vars
    <2>1. TypeOK' /\ UNCHANGED <<op, run, cleanup>> /\ Tables
      BY <1>1, NextType DEF IInv, Tables, vars, catalog
    <2> QED BY <2>1, QuietInv
  <1>2. ASSUME NEW o \in Op, RunnerStep(o) PROVE IInv'
    BY <1>2, PlainRunnerInv, RevokeInv, FinalizeDetachedInv
  <1> QED BY <1>1, <1>2, RegistryInv, RequestInv, GcInv, IngestInv, CrashInv, CleanupFailsInv
          DEF Next

LEMMA Invariant == Spec => []IInv
  BY InitInv, NextInv, PTL DEF Spec

\* Nobody has business at a store that is detached or forgotten: no location, no
\* object to remove, no operation except the evacuation that emptied it.  This is
\* what DetachBlobStore, UnregisterBlobStore and FinalizeBlobStoreEvacuation are
\* to guarantee against requests, runners and GC.
THEOREM DetachedStoresEmpty == Spec => []DetachedEmpty
  <1>1. IInv => DetachedEmpty
    BY DEF IInv
  <1> QED BY <1>1, Invariant, PTL

\* A cancellation that RequestStorageOperationCancel accepted holds: an evacuation
\* is not finalized, a recovery publishes nothing, and neither completes.
THEOREM CancellationsHonoured == Spec => []CancelHonoured
  <1>1. IInv => CancelHonoured
    BY DEF IInv
  <1> QED BY <1>1, Invariant, PTL

\* Only a runner completes an operation, and an evacuation's only after its source
\* was detached.
LEMMA CompletionStep ==
    ASSUME IInv, Next, NEW o \in Op, op[o].kind = "evacuate", Active(o),
           op'[o].state = "completed"
    PROVE  \A s \in op[o].srcs : life[s] = "detached"
  <1>1. op[o].state # "completed" /\ RunningOp(o)
    BY DEF Active, IInv, Running
  <1>2. ASSUME op' = op PROVE FALSE
    BY <1>1, <1>2
  <1>3. ~ (RegistryStep \/ GcStep \/ \E b \in Blob : Ingest(b))
    BY <1>2 DEF RegistryStep, RegisterBlobStore, DetachBlobStore, UnregisterBlobStore,
                GcStep, GcStart, CompleteGCLooseRetirement, GcList, GcEnd, GcDelete, GcSweep, GcRetire,
                Ingest
  <1>4. ~ Crash
    BY <1>1 DEF Crash, NoOp
  <1>5. PICK p \in Op : RequestStep(p) \/ RunnerStep(p) \/ CleanupFails(p)
    BY <1>3, <1>4 DEF Next
  <1>6. ASSUME NEW q \in Op, Defers(q) PROVE FALSE
    <2>1. op'[q] = [op[q] EXCEPT !.state = "queued"] /\ \A r \in Op \ {q} : op'[r] = op[r]
      BY <1>6, DefersEffect DEF IInv
    <2>2. op'[q].state = "queued"
      BY <2>1 DEF IInv, TypeOK, Operation
    <2> QED BY <1>1, <2>1, <2>2
  <1>7. ASSUME NEW q \in Op, NEW st, Finishes(q, st) PROVE q = o /\ st = "completed"
    <2>1. op'[q].state = st
      BY <1>7, FinishesFields DEF IInv
    <2>2. \A r \in Op \ {q} : op'[r] = op[r]
      BY <1>7, FinishesEffect DEF IInv
    <2> QED BY <1>1, <2>1, <2>2
  <1>8. ASSUME NEW q \in Op, op'[q].state \in {op[q].state, "none", "preview", "begun", "queued", "running"},
               \A r \in Op \ {q} : op'[r] = op[r]
        PROVE  FALSE
    BY <1>1, <1>8
  <1>9. ~ RequestStep(p)
    <2>1. ASSUME NEW k, NEW S, NEW d, NEW T, NEW F, Preview(p, k, S, d, T, F) PROVE FALSE
      <3>1. op'[p].state = "preview" /\ \A r \in Op \ {p} : op'[r] = op[r]
        BY <2>1 DEF Preview, IInv, TypeOK
      <3> QED BY <1>8, <3>1
    <2>2. ASSUME NEW v \in {"begun", "queued"}, op' = [op EXCEPT ![p].state = v] PROVE FALSE
      <3>1. op'[p].state = v /\ \A r \in Op \ {p} : op'[r] = op[r]
        BY <2>2, StateUpdate DEF IInv, TypeOK, Operation
      <3> QED BY <1>8, <3>1
    <2>3. ~ Drop(p)
      <3> SUFFICES ASSUME Drop(p) PROVE FALSE
        OBVIOUS
      <3>1. op'[p].state = "none" /\ \A r \in Op \ {p} : op'[r] = op[r]
        BY DEF Drop, NoOp, IInv, TypeOK
      <3> QED BY <1>8, <3>1
    <2>4. ~ RequestStorageOperationCancel(p)
      <3> SUFFICES ASSUME RequestStorageOperationCancel(p) PROVE FALSE
        OBVIOUS
      <3>1. op'[p].state = op[p].state /\ \A r \in Op \ {p} : op'[r] = op[r]
        BY CancelUpdate DEF RequestStorageOperationCancel, IInv, TypeOK, Operation
      <3> QED BY <1>8, <3>1
    <2>5. ~ CreateStorageOperation(p) /\ \A s \in Secondary : ~ BeginBlobStoreEvacuation(p, s)
      BY <2>2 DEF CreateStorageOperation, BeginBlobStoreEvacuation
    <2>6. \A s, d \in Store, T \in SUBSET Blob : ~ PreviewPlace(p, s, d, T)
      BY <2>1 DEF PreviewPlace
    <2>7. \A s \in Secondary : ~ PreviewEvacuate(p, s)
      BY <2>1 DEF PreviewEvacuate
    <2>8. \A s \in Store, b \in Blob : ~ PreviewRepair(p, s, b) /\ ~ PreviewSalvage(p, s, b)
      BY <2>1 DEF PreviewRepair, PreviewSalvage
    <2> QED BY <2>3, <2>4, <2>5, <2>6, <2>7, <2>8 DEF RequestStep
  <1>10. RunnerStep(p)
    BY <1>5, <1>6, <1>9 DEF CleanupFails
  <1>11. ~ ClaimStorageOperation(p)
    <2> SUFFICES ASSUME ClaimStorageOperation(p) PROVE FALSE
      OBVIOUS
    <2>1. op'[p].state = "running" /\ \A r \in Op \ {p} : op'[r] = op[r]
      BY StateUpdate DEF ClaimStorageOperation, IInv, TypeOK, Operation
    <2> QED BY <1>8, <2>1
  <1>12. ~ Advance(p)
    <2> SUFFICES ASSUME Advance(p) PROVE FALSE
      OBVIOUS
    <2>1. op'[p].state = op[p].state /\ \A r \in Op \ {p} : op'[r] = op[r]
      BY DEF Advance, IInv, TypeOK, Operation
    <2> QED BY <1>8, <2>1
  <1>13. ASSUME op' = [op EXCEPT ![p].fin = TRUE] PROVE FALSE
    <2>1. op'[p].state = op[p].state /\ \A r \in Op \ {p} : op'[r] = op[r]
      BY <1>13, FinUpdate DEF IInv, TypeOK, Operation
    <2> QED BY <1>8, <2>1
  <1>14. Complete(p) \/ CommitStorageRecovery(p)
    <2>1. ~ Close(p) /\ ~ CompleteStorageOperationCleanup(p) /\ \A x \in cleanup[p] : ~ Retire(p, x)
      BY <1>2 DEF Close, CompleteStorageOperationCleanup, Retire
    <2>2. ~ CancelPlacement(p) /\ ~ Fail(p) /\ ~ CancelRecovery(p)
      BY <1>7 DEF CancelPlacement, Fail, CancelRecovery
    <2>3. \A b \in op[p].todo : ~ PlaceOne(p, b) /\ ~ BeginStorageRecoveryPublication(p, b)
      BY <1>2, <1>13 DEF PlaceOne, BeginStorageRecoveryPublication
    <2>4. \A s \in op[p].srcs :
             /\ ~ Copy(p, s) /\ ~ Publish(p, s) /\ ~ Revoke(p, s) /\ ~ FinalizeDetached(p, s)
             /\ \A retire \in BOOLEAN : ~ CommitPlacement(p, s, retire)
      BY <1>2, <1>13 DEF Copy, Publish, Revoke, FinalizeDetached, CommitPlacement
    <2>5. \A s \in op[p].srcs :
             ~ FinalizeCancelled(p, s) /\ ~ FinalizeBusy(p, s) /\ ~ FinalizeUncovered(p, s)
      BY <1>6, <1>7 DEF FinalizeCancelled, FinalizeBusy, FinalizeUncovered
    <2> QED BY <1>10, <1>11, <1>12, <2>1, <2>2, <2>3, <2>4, <2>5 DEF RunnerStep
  <1>15. p = o
    BY <1>7, <1>14 DEF Complete, CommitStorageRecovery
  <1>16. run[o].at = "finishing"
    BY <1>1, <1>14, <1>15 DEF Complete, CommitStorageRecovery, RunningOp, Recovery
  <1> QED BY <1>1, <1>16 DEF RunningOp

\* An evacuation that reports completion has detached its source, although Run does
\* not look at what the second FinalizeBlobStoreEvacuation answers.
THEOREM EvacuationsDetach == Spec => EvacuatedDetached
  <1>1. ASSUME IInv, [Next]_vars
        PROVE  [\A o \in Op : op[o].kind = "evacuate" /\ Active(o) /\ op'[o].state = "completed" =>
                  \A s \in op[o].srcs : life[s] = "detached"]_vars
    <2>1. CASE Next
      BY <1>1, <2>1, CompletionStep
    <2>2. CASE UNCHANGED vars
      BY <2>2
    <2> QED BY <1>1, <2>1, <2>2
  <1> QED BY <1>1, Invariant, PTL DEF Spec, EvacuatedDetached

-----------------------------------------------------------------------------
(* Custody.                                                                *)

\* What a step may do to the copies: authorised ones stay what they are or are
\* mended, only intact ones are authorised, a blob that loses a location has an
\* intact one left, and nothing is corrupted.
LEMMA CustodyFrame ==
    ASSUME CustodyInv,
           \A x \in loc : (x \in intact => x \in intact') /\ (x \in bad => x \in intact' \cup bad'),
           \A x \in loc' \ loc : x \in intact',
           \A b \in rows' :
              \/ b \in rows /\ \A s \in Store : <<s, b>> \in loc => <<s, b>> \in loc'
              \/ \E s \in Store : <<s, b>> \in loc' \cap intact',
           bad' \subseteq bad,
           Published'
    PROVE  CustodyInv'
  <1>1. LocationsHaveBytes'
    BY DEF CustodyInv, Custody, LocationsHaveBytes
  <1>2. SoundPrimary'
    BY DEF CustodyInv, SoundPrimary
  <1>3. ASSUME NEW b \in rows' PROVE \E s \in Store : <<s, b>> \in loc' \cap intact'
    <2>1. CASE b \in rows /\ \A s \in Store : <<s, b>> \in loc => <<s, b>> \in loc'
      <3>1. PICK s \in Store : <<s, b>> \in loc \cap intact
        BY <2>1 DEF CustodyInv, Custody
      <3> QED BY <2>1, <3>1
    <2> QED BY <2>1
  <1> QED BY <1>1, <1>2, <1>3 DEF CustodyInv, Custody

\* Nobody comes to have published, and what was published is kept.
StillPublished ==
    \A o \in Op : op'[o].kind = "salvage" /\ run'[o].at = "published" =>
        /\ op[o].kind = "salvage" /\ run[o].at = "published"
        /\ run'[o].blob = run[o].blob /\ op'[o].dst = op[o].dst
        /\ <<op[o].dst, run[o].blob>> \in intact => <<op[o].dst, run[o].blob>> \in intact'

LEMMA PublishedKept == ASSUME CustodyInv, StillPublished PROVE Published'
  BY DEF CustodyInv, Published, StillPublished

\* Steps that leave the catalog's blobs and locations and the disk alone.
LEMMA QuietCustody ==
    ASSUME CustodyInv, UNCHANGED <<rows, loc, intact, bad>>, StillPublished PROVE CustodyInv'
  <1>1. Published'
    BY PublishedKept
  <1> QED BY <1>1, CustodyFrame

\* Steps that remove an object that is not authorised.
LEMMA RemovalCustody ==
    ASSUME CustodyInv, NEW x, x \notin loc, intact' = intact \ {x}, bad' = bad \ {x},
           UNCHANGED <<rows, loc>>, StillPublished
    PROVE  CustodyInv'
  <1>1. Published'
    BY PublishedKept
  <1> QED BY <1>1, CustodyFrame

\* A step of one operation that publishes nothing.
LEMMA OwnStep ==
    ASSUME NEW o \in Op, \A p \in Op \ {o} : op'[p] = op[p] /\ run'[p] = run[p],
           \/ run'[o].at # "published"
           \/ /\ run'[o].at = run[o].at /\ run'[o].blob = run[o].blob
              /\ op'[o].kind = op[o].kind /\ op'[o].dst = op[o].dst,
           \A p \in Op : run[p].at = "published" /\ <<op[p].dst, run[p].blob>> \in intact =>
                             <<op[p].dst, run[p].blob>> \in intact'
    PROVE  StillPublished
  BY DEF StillPublished

LEMMA RegistryCustody == ASSUME CustodyInv, RegistryStep PROVE CustodyInv'
  <1>1. UNCHANGED <<rows, loc, intact, bad, op, run>>
    BY DEF RegistryStep, RegisterBlobStore, DetachBlobStore, UnregisterBlobStore, disk
  <1>2. StillPublished
    BY <1>1 DEF StillPublished
  <1> QED BY <1>1, <1>2, QuietCustody

LEMMA RequestCustody ==
    ASSUME IInv, CustodyInv, NEW o \in Op, RequestStep(o) PROVE CustodyInv'
  <1>1. UNCHANGED <<rows, loc, intact, bad, run>>
    BY DEF RequestStep, PreviewPlace, PreviewEvacuate, PreviewRepair, PreviewSalvage, Preview,
           BeginBlobStoreEvacuation, Drop, CreateStorageOperation, RequestStorageOperationCancel,
           catalog, disk
  <1>2. op[o].state # "running" \/ RequestStorageOperationCancel(o)
    BY DEF RequestStep, PreviewPlace, PreviewEvacuate, PreviewRepair, PreviewSalvage, Preview,
           BeginBlobStoreEvacuation, Drop, CreateStorageOperation
  <1>3. \A p \in Op \ {o} : op'[p] = op[p]
    BY DEF RequestStep, PreviewPlace, PreviewEvacuate, PreviewRepair, PreviewSalvage, Preview,
           BeginBlobStoreEvacuation, Drop, CreateStorageOperation, RequestStorageOperationCancel,
           IInv, TypeOK
  <1>4. run'[o].at # "published" \/ (op'[o].kind = op[o].kind /\ op'[o].dst = op[o].dst)
    <2>1. CASE op[o].state # "running"
      <3>1. run[o].at = "off"
        BY <2>1, Idle
      <3> QED BY <1>1, <3>1
    <2>2. CASE RequestStorageOperationCancel(o)
      <3>1. op'[o] = [op[o] EXCEPT !.cancel = TRUE]
        BY <2>2, CancelUpdate DEF RequestStorageOperationCancel, IInv
      <3> QED BY <3>1 DEF IInv, TypeOK, Operation
    <2> QED BY <1>2, <2>1, <2>2
  <1>5. StillPublished
    BY <1>1, <1>3, <1>4 DEF StillPublished
  <1> QED BY <1>1, <1>5, QuietCustody

\* Steps of a runner that leave the catalog's blobs and locations and the disk alone.
LEMMA QuietRunnerCustody ==
    ASSUME IInv, CustodyInv, NEW o \in Op, UNCHANGED <<rows, loc, intact, bad>>,
           \/ \E st \in {"completed", "failed", "cancelled"} : Finishes(o, st)
           \/ Defers(o)
           \/ /\ \A p \in Op \ {o} : op'[p] = op[p]
              /\ \E at, b : Moves(o, at, b) /\ at # "published"
    PROVE  CustodyInv'
  <1>1. CASE \E st \in {"completed", "failed", "cancelled"} : Finishes(o, st)
    <2>1. run'[o] = NoRun /\ \A p \in Op \ {o} : op'[p] = op[p] /\ run'[p] = run[p]
      BY <1>1, FinishesEffect DEF IInv
    <2>2. run'[o].at # "published"
      BY <2>1 DEF NoRun
    <2> QED BY <2>1, <2>2, OwnStep, QuietCustody
  <1>2. CASE Defers(o)
    <2>1. run'[o] = NoRun /\ \A p \in Op \ {o} : op'[p] = op[p] /\ run'[p] = run[p]
      BY <1>2, DefersEffect DEF IInv
    <2>2. run'[o].at # "published"
      BY <2>1 DEF NoRun
    <2> QED BY <2>1, <2>2, OwnStep, QuietCustody
  <1>3. ASSUME \A p \in Op \ {o} : op'[p] = op[p],
               NEW at, NEW b, Moves(o, at, b), at # "published"
        PROVE  CustodyInv'
    <2>1. run'[o].at = at /\ \A p \in Op \ {o} : run'[p] = run[p]
      BY <1>3, MovesFields DEF IInv
    <2> QED BY <1>3, <2>1, OwnStep, QuietCustody
  <1> QED BY <1>1, <1>2, <1>3

\* A removal holds the lock of its location, so it is not what a recovery has
\* published; and it is removed only without authority.
LEMMA RetireCustody ==
    ASSUME IInv, CustodyInv, NEW o \in Op,
           CompleteStorageOperationCleanup(o) \/ \E x \in cleanup[o] : Retire(o, x)
    PROVE  CustodyInv'
  <1>1. /\ UNCHANGED <<rows, loc, op>> /\ \A p \in Op \ {o} : run'[p] = run[p]
        /\ run'[o].at = run[o].at /\ run'[o].blob = run[o].blob
    BY DEF IInv, TypeOK, CompleteStorageOperationCleanup, Retire, catalog, Runner
  <1>2. CASE UNCHANGED <<intact, bad>>
    BY <1>1, <1>2, OwnStep, QuietCustody
  <1>3. ASSUME NEW x \in cleanup[o], Retire(o, x), x \notin loc PROVE CustodyInv'
    <2>1. intact' = intact \ {x} /\ bad' = bad \ {x}
      BY <1>3 DEF Retire
    <2>2. \A p \in Op : run[p].at = "published" => x # <<op[p].dst, run[p].blob>>
      BY <1>3 DEF Retire, Free, Locked
    <2>3. StillPublished
      BY <1>1, <2>1, <2>2 DEF StillPublished
    <2> QED BY <1>1, <1>3, <2>1, <2>3, RemovalCustody
  <1> QED BY <1>2, <1>3 DEF CompleteStorageOperationCleanup, Retire, disk

\* A placement commits what it has read back, and what it revokes is elsewhere.
LEMMA CommitPlacementCustody ==
    ASSUME IInv, CustodyInv, NEW o \in Op, NEW s \in op[o].srcs, NEW retire \in BOOLEAN,
           CommitPlacement(o, s, retire)
    PROVE  CustodyInv'
  <1> DEFINE y == <<op[o].dst, run[o].blob>>
  <1>1. /\ y \in intact /\ op[o].dst \in Store /\ op[o].dst # s /\ UNCHANGED <<rows, op, intact, bad>>
    BY PlanType DEF CommitPlacement, verified, disk, IInv, Planned, PlannedOp
  <1>2. y \in loc' /\ loc' \subseteq loc \cup {y} /\ \A x \in loc \ loc' : x = <<s, run[o].blob>>
    BY <1>1 DEF CommitPlacement
  <1>3. Published'
    <2>1. run'[o].at = "committed" /\ \A p \in Op \ {o} : run'[p] = run[p]
      BY MovesFields DEF CommitPlacement, IInv
    <2> QED BY <1>1, <2>1, OwnStep, PublishedKept
  <1>4. \A b \in rows' :
           \/ b \in rows /\ \A t \in Store : <<t, b>> \in loc => <<t, b>> \in loc'
           \/ \E t \in Store : <<t, b>> \in loc' \cap intact'
    <2> SUFFICES ASSUME NEW b \in rows'
                 PROVE  \/ b \in rows /\ \A t \in Store : <<t, b>> \in loc => <<t, b>> \in loc'
                        \/ \E t \in Store : <<t, b>> \in loc' \cap intact'
      OBVIOUS
    <2>1. CASE b = run[o].blob
      BY <1>1, <1>2, <2>1
    <2>2. CASE b # run[o].blob
      BY <1>1, <1>2, <2>2
    <2> QED BY <2>1, <2>2
  <1> QED BY <1>1, <1>2, <1>3, <1>4, CustodyFrame

\* Copying and publishing only add copies that verify, or mend one.
LEMMA CopyCustody ==
    ASSUME IInv, CustodyInv, NEW o \in Op, NEW s \in op[o].srcs, Copy(o, s) \/ Publish(o, s)
    PROVE  CustodyInv'
  <1> DEFINE y == <<op[o].dst, run[o].blob>>
  <1>1. /\ UNCHANGED <<rows, loc, op>> /\ intact' = intact \cup {y}
        /\ bad' \subseteq bad /\ bad \subseteq bad' \cup {y}
    BY DEF Copy, Publish, catalog
  <1>2. run'[o].blob = run[o].blob /\ \A p \in Op \ {o} : run'[p] = run[p]
    BY MovesFields DEF Copy, Publish, IInv
  <1>3. Published'
    BY <1>1, <1>2 DEF CustodyInv, Published
  <1> QED BY <1>1, <1>3, CustodyFrame

\* What the source held is in the primary, where it verifies.
LEMMA RevokeCustody ==
    ASSUME IInv, CustodyInv, NEW o \in Op, NEW s \in op[o].srcs, Revoke(o, s) PROVE CustodyInv'
  <1>1. /\ op[o].kind = "evacuate" /\ At(s) \subseteq At(op[o].dst)
        /\ UNCHANGED <<rows, intact, bad>> /\ loc' = {x \in loc : x[1] # s}
    BY DEF Revoke, Ready, Finalizing, covered, disk
  <1>2. s \in Secondary /\ s # Primary /\ op[o].dst = Primary
    BY <1>1, StoreAssumption DEF IInv, Planned, PlannedOp
  <1>3. Published'
    <2>1. \A p \in Op \ {o} : op'[p] = op[p]
      BY FinUpdate DEF Revoke, IInv
    <2>2. run'[o].at # "published" /\ \A p \in Op \ {o} : run'[p] = run[p]
      BY MovesFields DEF Revoke, IInv
    <2> QED BY <1>1, <2>1, <2>2, OwnStep, PublishedKept
  <1>4. \A b \in rows' :
           \/ b \in rows /\ \A t \in Store : <<t, b>> \in loc => <<t, b>> \in loc'
           \/ \E t \in Store : <<t, b>> \in loc' \cap intact'
    <2> SUFFICES ASSUME NEW b \in rows PROVE \E t \in Store : <<t, b>> \in loc' \cap intact'
      BY <1>1
    <2>1. PICK t \in Store : <<t, b>> \in loc \cap intact
      BY DEF CustodyInv, Custody
    <2>2. CASE t # s
      BY <1>1, <2>1, <2>2
    <2>3. CASE t = s
      <3>1. <<Primary, b>> \in loc /\ b \in Blob
        BY <1>1, <1>2, <2>1, <2>3 DEF At, IInv, TypeOK
      <3>2. <<Primary, b>> \in intact
        BY <3>1 DEF CustodyInv, Custody, LocationsHaveBytes, SoundPrimary
      <3> QED BY <1>1, <1>2, <3>1, <3>2 DEF Store
    <2> QED BY <2>2, <2>3
  <1> QED BY <1>1, <1>3, <1>4, CustodyFrame

\* A salvage authorises what it has published, a repair what is authorised.
LEMMA CommitRecoveryCustody ==
    ASSUME IInv, Repairs, CustodyInv, NEW o \in Op, CommitStorageRecovery(o) PROVE CustodyInv'
  <1>0. op[o].kind \in {"repair", "salvage"}
    BY DEF CommitStorageRecovery, IInv, Running, RunningOp, Recovery
  <1>1. /\ UNCHANGED <<rows, intact, bad>> /\ loc' = loc \cup {<<op[o].dst, run[o].blob>>}
        /\ <<op[o].dst, run[o].blob>> \in loc \cup intact
    <2>1. CASE op[o].kind = "salvage"
      BY <2>1 DEF CommitStorageRecovery, disk, CustodyInv, Published
    <2>2. CASE op[o].kind = "repair"
      BY <2>2 DEF CommitStorageRecovery, disk, Repairs, RepairOp, asPlanned, At
    <2> QED BY <1>0, <2>1, <2>2
  <1>2. Published'
    <2>1. run'[o] = NoRun /\ \A p \in Op \ {o} : op'[p] = op[p] /\ run'[p] = run[p]
      BY FinishesEffect DEF CommitStorageRecovery, IInv
    <2>2. run'[o].at # "published"
      BY <2>1 DEF NoRun
    <2> QED BY <1>1, <2>1, <2>2, OwnStep, PublishedKept
  <1> QED BY <1>1, <1>2, CustodyFrame

LEMMA RunnerCustody ==
    ASSUME IInv, Repairs, CustodyInv, NEW o \in Op, RunnerStep(o) PROVE CustodyInv'
  <1>1. CASE ClaimStorageOperation(o)
    BY <1>1, StateUpdate, QuietRunnerCustody DEF ClaimStorageOperation, IInv, catalog, disk
  <1>2. CASE CancelPlacement(o) \/ Fail(o) \/ Complete(o) \/ CancelRecovery(o)
    BY <1>2, QuietRunnerCustody DEF CancelPlacement, Fail, Complete, CancelRecovery, catalog, disk
  <1>3. CASE Close(o)
    BY <1>3, QuietRunnerCustody DEF Close, catalog, disk
  <1>4. CASE Advance(o)
    <2>1. \A p \in Op \ {o} : op'[p] = op[p]
      BY <1>4 DEF Advance, IInv, TypeOK
    <2> QED BY <1>4, <2>1, QuietRunnerCustody DEF Advance, catalog, disk
  <1>5. ASSUME NEW b \in op[o].todo, PlaceOne(o, b) PROVE CustodyInv'
    BY <1>5, QuietRunnerCustody DEF PlaceOne, catalog, disk
  <1>6. ASSUME NEW b \in op[o].todo, BeginStorageRecoveryPublication(o, b) PROVE CustodyInv'
    BY <1>6, FinUpdate, QuietRunnerCustody DEF BeginStorageRecoveryPublication, IInv, catalog, disk
  <1>7. ASSUME NEW s \in op[o].srcs,
               FinalizeCancelled(o, s) \/ FinalizeBusy(o, s) \/ FinalizeUncovered(o, s)
        PROVE  CustodyInv'
    BY <1>7, QuietRunnerCustody DEF FinalizeCancelled, FinalizeBusy, FinalizeUncovered, catalog, disk
  <1>8. ASSUME NEW s \in op[o].srcs, FinalizeDetached(o, s) PROVE CustodyInv'
    BY <1>8, FinUpdate, QuietRunnerCustody DEF FinalizeDetached, IInv, catalog, disk
  <1> QED
    BY <1>1, <1>2, <1>3, <1>4, <1>5, <1>6, <1>7, <1>8, RetireCustody, CommitPlacementCustody,
       CopyCustody, RevokeCustody, CommitRecoveryCustody
    DEF RunnerStep

\* Garbage collection removes what has no authority, and here not what a recovery
\* is about to authorise.
LEMMA GcCustody == ASSUME CustodyInv, GcStep, Undisturbed PROVE CustodyInv'
  <1>1. UNCHANGED <<op, run>>
    BY DEF GcStep, GcStart, CompleteGCLooseRetirement, GcList, GcEnd, GcDelete, GcSweep, GcRetire
  <1>2. StillPublished
    BY <1>1 DEF StillPublished, Undisturbed
  <1>3. CASE UNCHANGED <<rows, loc, intact, bad>>
    BY <1>2, <1>3, QuietCustody
  <1>4. ASSUME NEW b \in Blob, GcDelete(b) PROVE CustodyInv'
    <2>1. /\ UNCHANGED <<intact, bad>> /\ rows' = rows \ {b} /\ loc' = {x \in loc : x[2] # b}
      BY <1>4 DEF GcDelete, disk
    <2>2. Published'
      BY <1>2, PublishedKept
    <2> QED BY <2>1, <2>2, CustodyFrame
  <1>5. ASSUME NEW b \in Blob, GcSweep(b) PROVE CustodyInv'
    BY <1>2, <1>5, RemovalCustody DEF GcSweep, catalog
  <1>6. ASSUME NEW x \in gcq, GcRetire(x) PROVE CustodyInv'
    BY <1>2, <1>3, <1>6, RemovalCustody DEF GcRetire, catalog, disk
  <1>7. CASE GcStart \/ CompleteGCLooseRetirement \/ GcList \/ GcEnd
    BY <1>3, <1>7 DEF GcStart, CompleteGCLooseRetirement, GcList, GcEnd, catalog, disk
  <1> QED BY <1>4, <1>5, <1>6, <1>7 DEF GcStep

LEMMA IngestCustody == ASSUME CustodyInv, NEW b \in Blob, Ingest(b) PROVE CustodyInv'
  <1>1. /\ rows' = rows \cup {b} /\ loc' = loc \cup {<<Primary, b>>}
        /\ intact' = intact \cup {<<Primary, b>>} /\ UNCHANGED <<bad, op, run>>
    BY DEF Ingest
  <1>2. Published'
    BY <1>1, PublishedKept DEF StillPublished
  <1> QED BY <1>1, <1>2, CustodyFrame DEF Store

LEMMA FaultCustody ==
    ASSUME IInv, CustodyInv, Crash \/ \E o \in Op : CleanupFails(o) PROVE CustodyInv'
  <1>1. CASE Crash
    <2>1. StillPublished
      BY <1>1 DEF Crash, StillPublished, NoRun
    <2> QED BY <1>1, <2>1, QuietCustody DEF Crash, catalog, disk
  <1>2. ASSUME NEW o \in Op, CleanupFails(o) PROVE CustodyInv'
    BY <1>2, QuietRunnerCustody DEF CleanupFails, catalog, disk
  <1> QED BY <1>1, <1>2

LEMMA InitCustody == ASSUME Primary \notin Rot, Init PROVE CustodyInv
  <1>1. Custody
    BY DEF Init, Custody, LocationsHaveBytes
  <1>2. Published
    BY DEF Init, Published, NoRun
  <1>3. SoundPrimary
    BY DEF Init, SoundPrimary
  <1> QED BY <1>1, <1>2, <1>3 DEF CustodyInv

LEMMA NextCustody ==
    ASSUME IInv, Repairs, CustodyInv, [Next /\ Undisturbed]_vars PROVE CustodyInv'
  <1>1. CASE UNCHANGED vars
    BY <1>1, QuietCustody DEF vars, catalog, disk, StillPublished
  <1> QED BY <1>1, RegistryCustody, RequestCustody, RunnerCustody, GcCustody, IngestCustody,
             FaultCustody DEF Next

-----------------------------------------------------------------------------
(* Repairs.                                                                *)

\* A step of one operation that leaves its plan alone, or only shortens it.
LEMMA RepairFrame ==
    ASSUME Repairs, NEW o \in Op, \A p \in Op \ {o} : op'[p] = op[p] /\ run'[p] = run[p],
           op'[o].kind = op[o].kind, op'[o].to = op[o].to, op'[o].todo \subseteq op[o].todo,
           \/ run'[o].at \notin {"publishing", "published"}
           \/ run'[o].blob \in op[o].todo
           \/ run[o].at \in {"publishing", "published"} /\ run'[o].blob = run[o].blob
    PROVE  Repairs'
  BY DEF Repairs, RepairOp

\* A plan that a preview writes.
LEMMA PreviewRepairs ==
    ASSUME IInv, Repairs, NEW o \in Op, NEW kind, NEW srcs, NEW dst, NEW todo, NEW from,
           Preview(o, kind, srcs, dst, todo, from),
           kind = "repair" => todo \subseteq At(dst)
    PROVE  Repairs'
  <1>1. /\ op'[o].kind = kind /\ op'[o].todo = todo /\ op'[o].to = todo \cap At(dst)
        /\ kind \in Kinds[o] /\ \A p \in Op \ {o} : op'[p] = op[p]
    BY DEF Preview, IInv, TypeOK
  <1>2. run' = run /\ run[o].at = "off"
    BY Idle DEF Preview
  <1> QED BY <1>1, <1>2 DEF Repairs, RepairOp

LEMMA FinishesRepairs ==
    ASSUME IInv, Repairs, NEW o \in Op, NEW st, Finishes(o, st) PROVE Repairs'
  <1>1. op'[o] = [NoOp EXCEPT !.kind = op[o].kind, !.cancel = op[o].cancel, !.state = st]
    BY FinishesEffect DEF IInv
  <1>2. op'[o].kind = op[o].kind /\ op'[o].todo = {}
    BY <1>1 DEF NoOp
  <1>3. run'[o].at = "off" /\ \A p \in Op \ {o} : op'[p] = op[p] /\ run'[p] = run[p]
    BY FinishesFields, FinishesEffect DEF IInv
  <1> QED BY <1>2, <1>3 DEF Repairs, RepairOp

LEMMA DefersRepairs ==
    ASSUME IInv, Repairs, NEW o \in Op, Defers(o) PROVE Repairs'
  <1>1. op'[o] = [op[o] EXCEPT !.state = "queued"] /\ run'[o] = NoRun
    BY DefersEffect DEF IInv
  <1>2. op'[o].kind = op[o].kind /\ op'[o].to = op[o].to /\ op'[o].todo = op[o].todo
    BY <1>1 DEF IInv, TypeOK, Operation
  <1>3. run'[o].at = "off"
    BY <1>1 DEF NoRun
  <1>4. \A p \in Op \ {o} : op'[p] = op[p] /\ run'[p] = run[p]
    BY DefersEffect DEF IInv
  <1> QED BY <1>2, <1>3, <1>4, RepairFrame

\* A runner's move that publishes nothing new.
LEMMA MovesRepairs ==
    ASSUME IInv, Repairs, NEW o \in Op, NEW at, NEW b, Moves(o, at, b),
           \A p \in Op \ {o} : op'[p] = op[p],
           op'[o].kind = op[o].kind, op'[o].to = op[o].to, op'[o].todo \subseteq op[o].todo,
           \/ at \notin {"publishing", "published"}
           \/ b \in op[o].todo
           \/ run[o].at = "publishing" /\ b = run[o].blob
    PROVE  Repairs'
  <1>1. run'[o].at = at /\ run'[o].blob = b /\ \A p \in Op \ {o} : run'[p] = run[p]
    BY MovesFields DEF IInv
  <1> QED BY <1>1, RepairFrame

LEMMA RequestRepairs ==
    ASSUME IInv, Repairs, NEW o \in Op, RequestStep(o) PROVE Repairs'
  <1>1. ASSUME NEW s \in Store, NEW d \in Store, NEW T \in SUBSET Blob, PreviewPlace(o, s, d, T)
        PROVE  Repairs'
    BY <1>1, PreviewRepairs DEF PreviewPlace
  <1>2. ASSUME NEW s \in Secondary, PreviewEvacuate(o, s) PROVE Repairs'
    BY <1>2, PreviewRepairs DEF PreviewEvacuate
  <1>3. ASSUME NEW s \in Store, NEW b \in Blob, PreviewRepair(o, s, b) PROVE Repairs'
    BY <1>3, PreviewRepairs DEF PreviewRepair
  <1>4. ASSUME NEW s \in Store, NEW b \in Blob, PreviewSalvage(o, s, b) PROVE Repairs'
    BY <1>4, PreviewRepairs DEF PreviewSalvage
  <1>5. CASE Drop(o)
    <2>1. op'[o].kind = "place" /\ UNCHANGED run /\ \A p \in Op \ {o} : op'[p] = op[p]
      BY <1>5 DEF Drop, NoOp, IInv, TypeOK
    <2> QED BY <2>1 DEF Repairs, RepairOp
  <1>6. ASSUME UNCHANGED run, NEW v \in {"begun", "queued"}, op' = [op EXCEPT ![o].state = v]
        PROVE  Repairs'
    <2>1. op'[o] = [op[o] EXCEPT !.state = v] /\ \A p \in Op \ {o} : op'[p] = op[p]
      BY <1>6, StateUpdate DEF IInv
    <2>2. op'[o].kind = op[o].kind /\ op'[o].to = op[o].to /\ op'[o].todo = op[o].todo
      BY <2>1 DEF IInv, TypeOK, Operation
    <2> QED BY <1>6, <2>1, <2>2, RepairFrame
  <1>7. CASE RequestStorageOperationCancel(o)
    <2>1. op'[o] = [op[o] EXCEPT !.cancel = TRUE] /\ \A p \in Op \ {o} : op'[p] = op[p]
      BY <1>7, CancelUpdate DEF RequestStorageOperationCancel, IInv
    <2>2. op'[o].kind = op[o].kind /\ op'[o].to = op[o].to /\ op'[o].todo = op[o].todo
      BY <2>1 DEF IInv, TypeOK, Operation
    <2> QED BY <1>7, <2>1, <2>2, RepairFrame DEF RequestStorageOperationCancel
  <1>8. CASE CreateStorageOperation(o) \/ \E s \in Secondary : BeginBlobStoreEvacuation(o, s)
    BY <1>6, <1>8 DEF CreateStorageOperation, BeginBlobStoreEvacuation
  <1> QED BY <1>1, <1>2, <1>3, <1>4, <1>5, <1>7, <1>8 DEF RequestStep

LEMMA RunnerRepairs ==
    ASSUME IInv, Repairs, NEW o \in Op, RunnerStep(o) PROVE Repairs'
  <1>1. CASE ClaimStorageOperation(o)
    <2>1. op'[o] = [op[o] EXCEPT !.state = "running"] /\ \A p \in Op \ {o} : op'[p] = op[p]
      BY <1>1, StateUpdate DEF ClaimStorageOperation, IInv
    <2>2. op'[o].kind = op[o].kind /\ op'[o].to = op[o].to /\ op'[o].todo = op[o].todo
      BY <2>1 DEF IInv, TypeOK, Operation
    <2> QED BY <1>1, <2>1, <2>2, MovesRepairs DEF ClaimStorageOperation
  <1>2. CASE CompleteStorageOperationCleanup(o) \/ \E x \in cleanup[o] : Retire(o, x)
    <2>1. /\ UNCHANGED op /\ \A p \in Op \ {o} : run'[p] = run[p]
          /\ run'[o].at = run[o].at /\ run'[o].blob = run[o].blob
      BY <1>2 DEF IInv, TypeOK, CompleteStorageOperationCleanup, Retire, Runner
    <2> QED BY <2>1, RepairFrame
  <1>3. CASE CancelPlacement(o) \/ Fail(o) \/ Complete(o) \/ CancelRecovery(o)
             \/ CommitStorageRecovery(o)
    BY <1>3, FinishesRepairs
    DEF CancelPlacement, Fail, Complete, CancelRecovery, CommitStorageRecovery
  <1>4. CASE Close(o)
    BY <1>4, MovesRepairs DEF Close
  <1>5. CASE Advance(o)
    <2>1. op'[o] = [op[o] EXCEPT !.todo = op[o].todo \ {run[o].blob}]
          /\ \A p \in Op \ {o} : op'[p] = op[p]
      BY <1>5 DEF Advance, IInv, TypeOK
    <2>2. op'[o].kind = op[o].kind /\ op'[o].to = op[o].to /\ op'[o].todo \subseteq op[o].todo
      BY <2>1 DEF IInv, TypeOK, Operation
    <2> QED BY <1>5, <2>1, <2>2, MovesRepairs DEF Advance
  <1>6. ASSUME NEW b \in op[o].todo, PlaceOne(o, b) PROVE Repairs'
    BY <1>6, MovesRepairs DEF PlaceOne
  <1>7. ASSUME op' = [op EXCEPT ![o].fin = TRUE]
        PROVE  /\ op'[o].kind = op[o].kind /\ op'[o].to = op[o].to /\ op'[o].todo = op[o].todo
               /\ \A p \in Op \ {o} : op'[p] = op[p]
    <2>1. op'[o] = [op[o] EXCEPT !.fin = TRUE] /\ \A p \in Op \ {o} : op'[p] = op[p]
      BY <1>7, FinUpdate DEF IInv
    <2> QED BY <2>1 DEF IInv, TypeOK, Operation
  <1>8. ASSUME NEW b \in op[o].todo, BeginStorageRecoveryPublication(o, b) PROVE Repairs'
    BY <1>7, <1>8, MovesRepairs DEF BeginStorageRecoveryPublication
  <1>9. ASSUME NEW s \in op[o].srcs, Copy(o, s) PROVE Repairs'
    BY <1>9, MovesRepairs DEF Copy
  <1>10. ASSUME NEW s \in op[o].srcs, Publish(o, s) PROVE Repairs'
    BY <1>10, MovesRepairs DEF Publish
  <1>11. ASSUME NEW s \in op[o].srcs, NEW retire \in BOOLEAN, CommitPlacement(o, s, retire)
         PROVE  Repairs'
    BY <1>11, MovesRepairs DEF CommitPlacement
  <1>12. ASSUME NEW s \in op[o].srcs,
                FinalizeCancelled(o, s) \/ FinalizeBusy(o, s) \/ FinalizeUncovered(o, s)
         PROVE  Repairs'
    BY <1>12, FinishesRepairs, DefersRepairs DEF FinalizeCancelled, FinalizeBusy, FinalizeUncovered
  <1>13. ASSUME NEW s \in op[o].srcs, Revoke(o, s) \/ FinalizeDetached(o, s) PROVE Repairs'
    BY <1>7, <1>13, MovesRepairs DEF Revoke, FinalizeDetached
  <1> QED BY <1>1, <1>2, <1>3, <1>4, <1>5, <1>6, <1>8, <1>9, <1>10, <1>11, <1>12, <1>13
          DEF RunnerStep

LEMMA InitRepairs == ASSUME Init PROVE Repairs
  BY DEF Init, Repairs, RepairOp, NoOp

LEMMA NextRepairs == ASSUME IInv, Repairs, [Next]_vars PROVE Repairs'
  <1>1. CASE UNCHANGED <<op, run>>
    BY <1>1 DEF Repairs, RepairOp
  <1>2. CASE Crash
    <2>1. \A o \in Op : (op'[o] = op[o] \/ op'[o].kind = "place") /\ run'[o].at = "off"
      BY <1>2 DEF Crash, NoOp, NoRun
    <2> QED BY <2>1 DEF Repairs, RepairOp
  <1>3. ASSUME NEW o \in Op, CleanupFails(o) PROVE Repairs'
    BY <1>3, DefersRepairs DEF CleanupFails
  <1>4. CASE RegistryStep \/ GcStep \/ (\E b \in Blob : Ingest(b)) \/ UNCHANGED vars
    <2>1. UNCHANGED <<op, run>>
      BY <1>4 DEF RegistryStep, RegisterBlobStore, DetachBlobStore, UnregisterBlobStore, GcStep,
                  GcStart, CompleteGCLooseRetirement, GcList, GcEnd, GcDelete, GcSweep, GcRetire,
                  Ingest, vars
    <2> QED BY <1>1, <2>1
  <1> QED BY <1>2, <1>3, <1>4, RequestRepairs, RunnerRepairs DEF Next

-----------------------------------------------------------------------------
\* No blob is lost to the life cycle of the stores: whatever placements,
\* evacuations, recoveries, garbage collection and crashes interleave, every blob
\* in the catalog has an authorised copy that verifies, and every authorised copy
\* is there.  The two hypotheses mark what the code leaves open: a primary whose
\* copies are corrupt (FinalizeBlobStoreEvacuation takes a location there for
\* coverage), and a garbage collection that removes what a salvage has published
\* and not yet committed.
THEOREM ContentSurvives ==
    ASSUME Primary \notin Rot PROVE UndisturbedSpec => []Custody
  <1>1. Init => IInv /\ Repairs /\ CustodyInv
    BY InitInv, InitRepairs, InitCustody
  <1>2. IInv /\ Repairs /\ CustodyInv /\ [Next /\ Undisturbed]_vars
            => (IInv /\ Repairs /\ CustodyInv)'
    BY NextInv, NextRepairs, NextCustody
  <1>3. CustodyInv => Custody
    BY DEF CustodyInv
  <1> QED BY <1>1, <1>2, <1>3, PTL DEF UndisturbedSpec

\* A vault that salvages nothing needs nothing of garbage collection: a repair,
\* which publishes outside of the gate too, commits only where its plan found an
\* authorised copy and validateStorageRecoveryPriorTx finds it again.
THEOREM ContentSurvivesWithoutSalvage ==
    ASSUME Primary \notin Rot, \A o \in Op : "salvage" \notin Kinds[o]
    PROVE  Spec => []Custody
  <1>1. Init => IInv /\ Repairs /\ CustodyInv
    BY InitInv, InitRepairs, InitCustody
  <1>2. ASSUME IInv, Repairs, CustodyInv, [Next]_vars PROVE (IInv /\ Repairs /\ CustodyInv)'
    <2>1. [Next /\ Undisturbed]_vars
      BY <1>2 DEF Undisturbed, Repairs, RepairOp
    <2> QED BY <1>2, <2>1, NextInv, NextRepairs, NextCustody
  <1>3. CustodyInv => Custody
    BY DEF CustodyInv
  <1> QED BY <1>1, <1>2, <1>3, PTL DEF Spec
=============================================================================
