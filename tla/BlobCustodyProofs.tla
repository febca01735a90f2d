------------------------- MODULE BlobCustodyProofs -------------------------
(***************************************************************************)
(* Proofs about BlobCustody, for any blobs, encodings, writers and         *)
(* operations.                                                             *)
(***************************************************************************)
EXTENDS BlobCustody, TLAPS

\* A step under way knows what it works on.
Working ==
    /\ \A w \in Writer : wr[w].at # "idle" => wr[w].blob \in Blob /\ wr[w].enc \in Encoding
    /\ \A o \in Op : run[o].at # "off" => op[o].state = "active"
    /\ \A o \in Op : run[o].at \in {"copying", "moved", "verified"} => op[o].blob \in Blob
    /\ \A o \in Op : op[o].blob \in Blob => op[o].src # op[o].dst
    /\ \A o \in Op : run[o].at \in {"moved", "verified"} => run[o].dest # "none"
    /\ \A o \in Op : run[o].at \in {"retiring", "retired"} => run[o].item \in Item
    /\ maint \in {"retiring", "retired", "pack"} => item \in Item

\* The operation gate and the coordinator's leases.
Gated ==
    /\ maint # "idle" => ~ capturing
    /\ maint # "idle" => \A w \in Writer : wr[w].at = "idle"
    /\ maint # "idle" => \A o \in Op : run[o].at # "verified"
    /\ \A o \in Op : run[o].at \in {"retiring", "retired"} => \A w \in Writer : wr[w].at = "idle"
    /\ \A o, p \in Op : run[o].at = "verified" /\ run[p].at = "verified" => o = p

\* The runner's claim on a location.
Claims(o, s, h) ==
    \/ run[o].at \in {"copying", "moved", "verified"} /\ op[o].dst = s /\ op[o].blob = h
    \/ run[o].at \in {"retiring", "retired"} /\ run[o].item[1] = s /\ run[o].item[2] = h

\* A location lock has one holder.
Locked ==
    \A o, p \in Op, s \in Store, h \in Blob : Claims(o, s, h) /\ Claims(p, s, h) => o = p

\* The catalog's tables agree with each other, and a capture's snapshot with
\* the live catalog.
Tables ==
    /\ refs \subseteq rows
    /\ \A s \in Store, h \in Blob : loc[s][h] # "none" => h \in rows
    /\ \A h \in rows : \E s \in Store : loc[s][h] # "none"
    /\ \A h \in rows : h \in mapped <=> loc[Primary][h] = "packed"
    /\ pinned \subseteq rows
    /\ ~ capturing => pinned = {}

\* Cleanup waits only with an operation that can still be resumed, and never
\* while it places a blob.
Owed ==
    \A o \in Op :
        /\ op[o].state # "active" => cleanup[o] = {}
        /\ run[o].at \in {"copying", "moved", "verified"} => cleanup[o] = {}

\* What holds whatever writers and placements do to each other.
Ledger == TypeOK /\ Working /\ Gated /\ Tables /\ Owed

\* Every authority has its bytes, and whoever is about to grant authority to a
\* file has the file, or finds a packed authority that stops it.
PackedBytes == mapped \subseteq packBytes

WriterBytes ==
    \A w \in Writer : wr[w].at = "published" =>
        \/ <<Primary, wr[w].blob, wr[w].enc>> \in loose
        \/ loc[Primary][wr[w].blob] = "packed"

VerifiedBytes ==
    \A o \in Op : run[o].at = "verified" =>
        \/ Physical(op[o].dst, op[o].blob, run[o].dest)
        \/ op[o].dst = Primary /\ run[o].dest # "packed" /\ loc[Primary][op[o].blob] = "packed"

\* Whoever is about to remove a file found that nothing authorises it.
WriterRemoval == \A w \in Writer : wr[w].at = "removing" => loc[Primary][wr[w].blob] = "packed"

Bytes == PackedBytes /\ LooseAuthorityKept /\ WriterBytes /\ VerifiedBytes /\ WriterRemoval

Removals ==
    /\ maint = "retiring" => loc[item[1]][item[2]] = "none"
    /\ maint = "pack" => loc[item[1]][item[2]] = "packed"
    /\ \A o \in Op : run[o].at = "retiring" =>
            loc[run[o].item[1]][run[o].item[2]] # run[o].item[3]

IInv == Ledger /\ Locked /\ Bytes /\ Removals

-----------------------------------------------------------------------------
(***************************************************************************)
(* Types.                                                                  *)
(***************************************************************************)
RunRecord == [at : {"off", "pending", "retiring", "retired", "copying", "moved",
                    "verified", "committed"},
              dest : Kind, item : Item \cup {NoItem}]

WriterRecord == [at : {"idle", "published", "cleaning", "removing"},
                 blob : Blob \cup {NoBlob}, enc : Encoding \cup {"none"},
                 created : BOOLEAN]

\* A placement commit writes the destination's location and may clear the
\* source's.
LEMMA PlaceCommitLocations ==
    ASSUME TypeOK, Working, NEW o \in Op, NEW retire \in BOOLEAN, PlaceCommit(o, retire)
    PROVE  /\ loc' \in [Store -> [Blob -> Kind]]
           /\ \A t \in Store, g \in Blob :
                loc'[t][g] = IF t = op[o].dst /\ g = op[o].blob THEN run[o].dest
                             ELSE IF /\ t = op[o].src /\ g = op[o].blob /\ retire
                                     /\ op[o].from # "none" /\ loc[t][g] = op[o].from
                                  THEN "none"
                             ELSE loc[t][g]
<1> DEFINE h == op[o].blob
           s == op[o].src
           d == op[o].dst
           from == op[o].from
           dest == run[o].dest
           left == IF retire /\ from # "none" /\ loc[s][h] = from THEN "none" ELSE loc[s][h]
<1>1. h \in Blob /\ s \in Store /\ d \in Store /\ s # d
  BY DEF PlaceCommit, Working, TypeOK, CatalogOK, Plan
<1>2. loc \in [Store -> [Blob -> Kind]] /\ dest \in Kind /\ "none" \in Kind
  BY DEF TypeOK, CatalogOK, Kind
<1>3. loc' = [loc EXCEPT ![d][h] = dest,
                         ![s][h] = IF retire /\ from # "none" /\ loc[s][h] = from
                                   THEN "none" ELSE @]
  BY DEF PlaceCommit
<1> HIDE DEF h, s, d, from, dest
<1>4. left \in Kind
  BY <1>1, <1>2
<1>5. loc' = [loc EXCEPT ![d][h] = dest, ![s][h] = left]
  BY <1>1, <1>2, <1>3
<1> HIDE DEF left
<1>6. /\ loc' \in [Store -> [Blob -> Kind]]
      /\ \A t \in Store, g \in Blob :
            loc'[t][g] = IF t = d /\ g = h THEN dest
                         ELSE IF t = s /\ g = h THEN left ELSE loc[t][g]
  BY <1>1, <1>2, <1>4, <1>5
<1> QED
  BY <1>6 DEF h, s, d, from, dest, left

\* Every step keeps the types.
LEMMA TypeStep ==
    ASSUME TypeOK, Working, Next
    PROVE  TypeOK'
<1>1. ASSUME NEW w \in Writer, NEW h \in Blob, NEW e \in Encoding, Publish(w, h, e)
      PROVE  TypeOK'
  BY <1>1 DEF Publish, TypeOK, CatalogOK, Store, Item, Kind, Plan, NoItem, IdleWriter, NoRun,
        NoPlan, Files, Working, catalog, queues, disk, upkeep, backup
<1>2. ASSUME NEW w \in Writer, Commit(w)
      PROVE  TypeOK'
  <2>1. wr[w].blob \in Blob /\ wr[w].enc \in Encoding
    BY <1>2 DEF Commit, Working
  <2>2. wr[w].enc \in Kind
    BY <2>1 DEF Kind
  <2>3. /\ loc' \in [Store -> [Blob -> Kind]] /\ mapped' \subseteq Blob
        /\ \A g \in Blob : loc'[Secondary][g] # "packed"
    <3>1. CASE writeLooseLocation(wr[w].blob, wr[w].enc)
      BY <3>1, <2>1, <2>2, StoresDiffer DEF writeLooseLocation, TypeOK, CatalogOK, Store
    <3>2. CASE UNCHANGED <<loc, mapped>>
      BY <3>2 DEF TypeOK, CatalogOK
    <3> QED
      BY <1>2, <3>1, <3>2 DEF Commit
  <2>4. rows' \subseteq Blob /\ refs' \subseteq Blob
    BY <1>2, <2>1 DEF Commit, TypeOK, CatalogOK
  <2>5. wr' \in [Writer -> WriterRecord]
    BY <1>2 DEF Commit, TypeOK, WriterRecord
  <2> QED
    BY <1>2, <2>3, <2>4, <2>5 DEF Commit, WriterRecord, TypeOK, CatalogOK, catalog, queues,
          disk, upkeep, backup
<1>3. ASSUME NEW w \in Writer, Reject(w)
      PROVE  TypeOK'
  BY ZenonT(60), <1>3 DEF Reject, TypeOK, CatalogOK, catalog, queues, disk, upkeep, backup
<1>4. ASSUME NEW w \in Writer, CleanupKeep(w)
      PROVE  TypeOK'
  BY <1>4 DEF CleanupKeep, Finished, TypeOK, CatalogOK, Store, Item, Kind, Plan, NoItem,
        IdleWriter, NoRun, NoPlan, Files, Working, catalog, queues, disk, upkeep, backup
<1>5. ASSUME NEW w \in Writer, CleanupFind(w)
      PROVE  TypeOK'
  BY ZenonT(60), <1>5 DEF CleanupFind, TypeOK, CatalogOK, catalog, queues, disk, upkeep, backup
<1>6. ASSUME NEW w \in Writer, CleanupRemove(w)
      PROVE  TypeOK'
  BY <1>6 DEF CleanupRemove, Finished, TypeOK, CatalogOK, Store, Item, Kind, Plan, NoItem,
        IdleWriter, NoRun, NoPlan, Files, Working, catalog, queues, disk, upkeep, backup
<1>7. ASSUME NEW h \in Blob, Unreference(h)
      PROVE  TypeOK'
  BY <1>7 DEF Unreference, TypeOK, CatalogOK, Store, Item, Kind, Plan, NoItem, IdleWriter,
        NoRun, NoPlan, Files, Working, catalog, queues, disk, upkeep, backup
<1>8. ASSUME GcStart PROVE TypeOK'
  BY <1>8 DEF GcStart, TypeOK, CatalogOK, Store, Item, Kind, Plan, NoItem, IdleWriter, NoRun,
        NoPlan, Files, Working, catalog, queues, disk, upkeep, backup
<1>9. ASSUME NEW H \in SUBSET Blob, GcDelete(H)
      PROVE  TypeOK'
  <2>1. retirementsOf(H) \subseteq Item
    BY DEF retirementsOf, Item
  <2>2. loc' \in [Store -> [Blob -> Kind]] /\ \A g \in Blob : loc'[Secondary][g] # "packed"
    BY <1>9 DEF GcDelete, TypeOK, CatalogOK, Kind, Store
  <2> QED
    BY <1>9, <2>1, <2>2 DEF GcDelete, TypeOK, CatalogOK, catalog, queues, disk, upkeep, backup
<1>10. ASSUME NEW x \in retirements, GcPrepare(x)
      PROVE  TypeOK'
  BY <1>10 DEF GcPrepare, TypeOK, CatalogOK, Store, Item, Kind, Plan, NoItem, IdleWriter, NoRun,
        NoPlan, Files, Working, catalog, queues, disk, upkeep, backup
<1>11. ASSUME GcRetire PROVE TypeOK'
  BY <1>11 DEF GcRetire, TypeOK, CatalogOK, Store, Item, Kind, Plan, NoItem, IdleWriter, NoRun,
        NoPlan, Files, Working, catalog, queues, disk, upkeep, backup
<1>12. ASSUME GcComplete PROVE TypeOK'
  BY <1>12 DEF GcComplete, TypeOK, CatalogOK, Store, Item, Kind, Plan, NoItem, IdleWriter,
        NoRun, NoPlan, Files, Working, catalog, queues, disk, upkeep, backup
<1>13. ASSUME GcList PROVE TypeOK'
  BY <1>13 DEF GcList, TypeOK, CatalogOK, Store, Item, Kind, Plan, NoItem, IdleWriter, NoRun,
        NoPlan, Files, Working, catalog, queues, disk, upkeep, backup
<1>14. ASSUME NEW h \in Blob, GcSweep(h)
      PROVE  TypeOK'
  BY <1>14 DEF GcSweep, TypeOK, CatalogOK, Store, Item, Kind, Plan, NoItem, IdleWriter, NoRun,
        NoPlan, Files, Working, catalog, queues, disk, upkeep, backup
<1>15. ASSUME MaintenanceEnd PROVE TypeOK'
  BY <1>15 DEF MaintenanceEnd, TypeOK, CatalogOK, Store, Item, Kind, Plan, NoItem, IdleWriter,
        NoRun, NoPlan, Files, Working, catalog, queues, disk, upkeep, backup
<1>16. ASSUME NEW h \in Blob, PackRecord(h)
      PROVE  TypeOK'
  <2>1. <<Primary, h, loc[Primary][h]>> \in Item
    BY <1>16 DEF PackRecord, Item, Store
  <2>2. loc' \in [Store -> [Blob -> Kind]] /\ \A g \in Blob : loc'[Secondary][g] # "packed"
    BY <1>16, StoresDiffer DEF PackRecord, TypeOK, CatalogOK, Kind, Store
  <2> QED
    BY <1>16, <2>1, <2>2 DEF PackRecord, TypeOK, CatalogOK, catalog, queues, disk, upkeep, backup
<1>17. ASSUME PackUnlink PROVE TypeOK'
  BY <1>17 DEF PackUnlink, TypeOK, CatalogOK, Store, Item, Kind, Plan, NoItem, IdleWriter,
        NoRun, NoPlan, Files, Working, catalog, queues, disk, upkeep, backup
<1>18. ASSUME RepackPrune PROVE TypeOK'
  BY <1>18 DEF RepackPrune, TypeOK, CatalogOK, Store, Item, Kind, Plan, NoItem, IdleWriter,
        NoRun, NoPlan, Files, Working, catalog, queues, disk, upkeep, backup
<1>19. ASSUME RepackRetire PROVE TypeOK'
  BY <1>19 DEF RepackRetire, TypeOK, CatalogOK, Store, Item, Kind, Plan, NoItem, IdleWriter,
        NoRun, NoPlan, Files, Working, catalog, queues, disk, upkeep, backup
<1>20. ASSUME NEW o \in Op, NEW h \in Blob, NEW s \in Store, NEW d \in Store, PlanPlacement(o,
      h, s, d)
      PROVE  TypeOK'
  BY <1>20 DEF PlanPlacement, TypeOK, CatalogOK, Store, Item, Kind, Plan, NoItem, IdleWriter,
        NoRun, NoPlan, Files, Working, catalog, queues, disk, upkeep, backup
<1>21. ASSUME NEW o \in Op, Claim(o)
      PROVE  TypeOK'
  BY <1>21 DEF Claim, TypeOK, CatalogOK, catalog, queues, disk, upkeep, backup
<1>22. ASSUME NEW o \in Op, NEW x \in cleanup[o], CleanupPrepare(o, x)
      PROVE  TypeOK'
  <2>1. x \in Item
    BY DEF TypeOK, CatalogOK
  <2>2. run' \in [Op -> RunRecord] /\ cleanup' \in [Op -> SUBSET Item]
    <3>1. CASE loc[x[1]][x[2]] = x[3]
      BY <1>22, <3>1 DEF CleanupPrepare, TypeOK, CatalogOK, RunRecord
    <3>2. CASE loc[x[1]][x[2]] # x[3]
      <4>1. run' = [run EXCEPT ![o].at = "retiring", ![o].item = x]
        BY <1>22, <3>2 DEF CleanupPrepare
      <4>2. run' \in [Op -> RunRecord]
        BY ZenonT(60), <4>1, <2>1 DEF TypeOK, RunRecord
      <4> QED
        BY <1>22, <3>2, <4>2 DEF CleanupPrepare, TypeOK, CatalogOK
    <3> QED
      BY <3>1, <3>2
  <2> QED
    BY <1>22, <2>2 DEF CleanupPrepare, TypeOK, CatalogOK, RunRecord, catalog, queues, disk,
          upkeep, backup
<1>23. ASSUME NEW o \in Op, CleanupRetire(o)
      PROVE  TypeOK'
  BY <1>23 DEF CleanupRetire, TypeOK, CatalogOK, catalog, queues, disk, upkeep, backup
<1>24. ASSUME NEW o \in Op, CleanupComplete(o)
      PROVE  TypeOK'
  <2>1. run' \in [Op -> RunRecord]
    BY ZenonT(60), <1>24 DEF CleanupComplete, TypeOK, RunRecord
  <2>2. cleanup' \in [Op -> SUBSET Item]
    BY <1>24 DEF CleanupComplete, TypeOK, CatalogOK
  <2> QED
    BY <1>24, <2>1, <2>2 DEF CleanupComplete, TypeOK, CatalogOK, RunRecord, catalog, queues,
          disk, upkeep, backup
<1>25. ASSUME NEW o \in Op, PlaceLock(o)
      PROVE  TypeOK'
  <2>1. ASSUME op[o].blob \in rows PROVE loc[op[o].dst][op[o].blob] \in Kind
    BY <2>1 DEF TypeOK, CatalogOK, Plan
  <2>2. run' \in [Op -> RunRecord]
    BY <1>25, <2>1 DEF PlaceLock, TypeOK, RunRecord
  <2> QED
    BY <1>25, <2>2 DEF PlaceLock, TypeOK, CatalogOK, RunRecord, catalog, queues, disk, upkeep,
          backup
<1>26. ASSUME NEW o \in Op, NEW e \in Encoding, PlaceMove(o, e)
      PROVE  TypeOK'
  <2>1. <<op[o].dst, op[o].blob, e>> \in Item
    BY <1>26 DEF PlaceMove, Working, TypeOK, CatalogOK, Plan, Item
  <2>2. run' \in [Op -> RunRecord]
    BY ZenonT(60), <1>26 DEF PlaceMove, TypeOK, RunRecord, Kind
  <2> QED
    BY <1>26, <2>1, <2>2 DEF PlaceMove, TypeOK, CatalogOK, RunRecord, catalog, queues, disk,
          upkeep, backup
<1>27. ASSUME NEW o \in Op, PlaceVerify(o)
      PROVE  TypeOK'
  BY <1>27 DEF PlaceVerify, TypeOK, CatalogOK, catalog, queues, disk, upkeep, backup
<1>28. ASSUME NEW o \in Op, NEW retire \in BOOLEAN, PlaceCommit(o, retire)
      PROVE  TypeOK'
  <2> DEFINE p == op[o]
  <2>1. p.blob \in Blob /\ p.src \in Store /\ p.dst \in Store /\ p.src # p.dst
    BY <1>28 DEF PlaceCommit, Working, TypeOK, CatalogOK, Plan
  <2>2. run' \in [Op -> RunRecord]
    <3>1. run' = [run EXCEPT ![o].at = "committed", ![o].dest = "none"]
      BY <1>28 DEF PlaceCommit
    <3>2. run \in [Op -> RunRecord] /\ "none" \in Kind
      BY DEF TypeOK, RunRecord, Kind
    <3>3. [run[o] EXCEPT !.at = "committed", !.dest = "none"] \in RunRecord
      BY <3>2 DEF RunRecord
    <3> QED
      BY <3>1, <3>2, <3>3
  <2>3. cleanup' \in [Op -> SUBSET Item]
    <3>1. ASSUME p.from \in Encoding PROVE <<p.src, p.blob, p.from>> \in Item
      BY <2>1, <3>1 DEF Item
    <3> QED
      BY <1>28, <3>1 DEF PlaceCommit, TypeOK, CatalogOK
  <2>4. run[o].dest \in Kind /\ "none" \in Kind
    BY DEF TypeOK, Kind
  <2>5. loc' \in [Store -> [Blob -> Kind]]
    BY <1>28, PlaceCommitLocations
  <2>6. ASSUME NEW g \in Blob PROVE loc'[Secondary][g] # "packed"
    <3>1. run[o].dest = loc[p.dst][p.blob] \/ run[o].dest \in Encoding
      BY <1>28 DEF PlaceCommit
    <3>2. Secondary \in Store
      BY DEF Store
    <3>3. loc[Secondary][g] # "packed"
      BY DEF TypeOK, CatalogOK
    <3>4. loc'[Secondary][g] = loc[Secondary][g] \/ loc'[Secondary][g] = "none"
            \/ (p.dst = Secondary /\ p.blob = g /\ loc'[Secondary][g] = run[o].dest)
      BY <1>28, <3>2, PlaceCommitLocations
    <3> QED
      BY <3>1, <3>3, <3>4, KindsDiffer
  <2>7. mapped' \subseteq Blob
    BY <1>28 DEF PlaceCommit, TypeOK, CatalogOK
  <2> QED
    BY <1>28, <2>2, <2>3, <2>5, <2>6, <2>7 DEF PlaceCommit, TypeOK, CatalogOK, RunRecord,
          catalog, queues, disk, upkeep, backup
<1>29. ASSUME NEW o \in Op, Advance(o)
      PROVE  TypeOK'
  <2>1. [NoPlan EXCEPT !.state = "active"] \in Plan
    BY DEF NoPlan, Plan, Store, Kind
  <2>2. run' \in [Op -> RunRecord]
    BY <1>29 DEF Advance, TypeOK, RunRecord
  <2> QED
    BY <1>29, <2>1, <2>2 DEF Advance, TypeOK, CatalogOK, RunRecord, catalog, queues, disk,
          upkeep, backup
<1>30. ASSUME NEW o \in Op, Complete(o)
      PROVE  TypeOK'
  BY <1>30 DEF Complete, Finish, TypeOK, CatalogOK, Store, Item, Kind, Plan, NoItem, IdleWriter,
        NoRun, NoPlan, Files, Working, catalog, queues, disk, upkeep, backup
<1>31. ASSUME NEW o \in Op, Fail(o)
      PROVE  TypeOK'
  BY <1>31 DEF Fail, Finish, TypeOK, CatalogOK, Store, Item, Kind, Plan, NoItem, IdleWriter,
        NoRun, NoPlan, Files, Working, catalog, queues, disk, upkeep, backup
<1>32. ASSUME NEW o \in Op, Defer(o)
      PROVE  TypeOK'
  BY <1>32 DEF Defer, TypeOK, CatalogOK, Store, Item, Kind, Plan, NoItem, IdleWriter, NoRun,
        NoPlan, Files, Working, catalog, queues, disk, upkeep, backup
<1>33. ASSUME CaptureBegin PROVE TypeOK'
  BY <1>33 DEF CaptureBegin, TypeOK, CatalogOK, Store, Item, Kind, Plan, NoItem, IdleWriter,
        NoRun, NoPlan, Files, Working, catalog, queues, disk, upkeep, backup
<1>34. ASSUME CaptureEnd PROVE TypeOK'
  BY <1>34 DEF CaptureEnd, TypeOK, CatalogOK, Store, Item, Kind, Plan, NoItem, IdleWriter,
        NoRun, NoPlan, Files, Working, catalog, queues, disk, upkeep, backup
<1>35. ASSUME Crash PROVE TypeOK'
  BY <1>35 DEF Crash, TypeOK, CatalogOK, Store, Item, Kind, Plan, NoItem, IdleWriter, NoRun,
        NoPlan, Files, Working, catalog, queues, disk, upkeep, backup
<1> QED
  BY <1>1, <1>2, <1>3, <1>4, <1>5, <1>6, <1>7, <1>8, <1>9, <1>10, <1>11, <1>12, <1>13,
     <1>14, <1>15, <1>16, <1>17, <1>18, <1>19, <1>20, <1>21, <1>22, <1>23, <1>24, <1>25,
     <1>26, <1>27, <1>28, <1>29, <1>30, <1>31, <1>32, <1>33, <1>34, <1>35
     DEF Next, WriterStep, MaintenanceStep, PlacementStep

-----------------------------------------------------------------------------
(***************************************************************************)
(* The catalog and the exclusions, whatever writers and placements do.     *)
(***************************************************************************)
\* A step under way keeps what it works on.
LEMMA WorkingStep ==
    ASSUME TypeOK, Working, Next
    PROVE  Working'
<1>1. ASSUME NEW w \in Writer, NEW h \in Blob, NEW e \in Encoding, Publish(w, h, e)
      PROVE  Working'
  BY <1>1 DEF Publish, Working, TypeOK, CatalogOK, RunRecord, Plan, IdleWriter, NoRun, NoPlan,
        catalog, queues, disk, upkeep, backup
<1>2. ASSUME NEW w \in Writer, Commit(w)
      PROVE  Working'
  BY <1>2 DEF Commit, adopts, covers, writeLooseLocation, Working, TypeOK, CatalogOK, RunRecord,
        Plan, IdleWriter, NoRun, NoPlan, catalog, queues, disk, upkeep, backup
<1>3. ASSUME NEW w \in Writer, Reject(w)
      PROVE  Working'
  BY <1>3 DEF Reject, Working, TypeOK, CatalogOK, RunRecord, Plan, IdleWriter, NoRun, NoPlan,
        catalog, queues, disk, upkeep, backup
<1>4. ASSUME NEW w \in Writer, CleanupKeep(w)
      PROVE  Working'
  BY <1>4 DEF CleanupKeep, Finished, Working, TypeOK, CatalogOK, RunRecord, Plan, IdleWriter,
        NoRun, NoPlan, catalog, queues, disk, upkeep, backup
<1>5. ASSUME NEW w \in Writer, CleanupFind(w)
      PROVE  Working'
  BY <1>5 DEF CleanupFind, Working, TypeOK, CatalogOK, RunRecord, Plan, IdleWriter, NoRun,
        NoPlan, catalog, queues, disk, upkeep, backup
<1>6. ASSUME NEW w \in Writer, CleanupRemove(w)
      PROVE  Working'
  BY <1>6 DEF CleanupRemove, Finished, Working, TypeOK, CatalogOK, RunRecord, Plan, IdleWriter,
        NoRun, NoPlan, catalog, queues, disk, upkeep, backup
<1>7. ASSUME NEW h \in Blob, Unreference(h)
      PROVE  Working'
  BY <1>7 DEF Unreference, Working, TypeOK, CatalogOK, RunRecord, Plan, IdleWriter, NoRun,
        NoPlan, catalog, queues, disk, upkeep, backup
<1>8. ASSUME GcStart PROVE Working'
  BY <1>8 DEF GcStart, Working, TypeOK, CatalogOK, RunRecord, Plan, IdleWriter, NoRun, NoPlan,
        catalog, queues, disk, upkeep, backup
<1>9. ASSUME NEW H \in SUBSET Blob, GcDelete(H)
      PROVE  Working'
  BY <1>9 DEF GcDelete, Working, TypeOK, CatalogOK, RunRecord, Plan, IdleWriter, NoRun, NoPlan,
        catalog, queues, disk, upkeep, backup
<1>10. ASSUME NEW x \in retirements, GcPrepare(x)
      PROVE  Working'
  BY <1>10 DEF GcPrepare, Working, TypeOK, CatalogOK, RunRecord, Plan, IdleWriter, NoRun,
        NoPlan, catalog, queues, disk, upkeep, backup
<1>11. ASSUME GcRetire PROVE Working'
  BY <1>11 DEF GcRetire, Working, TypeOK, CatalogOK, RunRecord, Plan, IdleWriter, NoRun, NoPlan,
        catalog, queues, disk, upkeep, backup
<1>12. ASSUME GcComplete PROVE Working'
  BY <1>12 DEF GcComplete, Working, TypeOK, CatalogOK, RunRecord, Plan, IdleWriter, NoRun,
        NoPlan, catalog, queues, disk, upkeep, backup
<1>13. ASSUME GcList PROVE Working'
  BY <1>13 DEF GcList, Working, TypeOK, CatalogOK, RunRecord, Plan, IdleWriter, NoRun, NoPlan,
        catalog, queues, disk, upkeep, backup
<1>14. ASSUME NEW h \in Blob, GcSweep(h)
      PROVE  Working'
  BY <1>14 DEF GcSweep, Working, TypeOK, CatalogOK, RunRecord, Plan, IdleWriter, NoRun, NoPlan,
        catalog, queues, disk, upkeep, backup
<1>15. ASSUME MaintenanceEnd PROVE Working'
  BY <1>15 DEF MaintenanceEnd, Working, TypeOK, CatalogOK, RunRecord, Plan, IdleWriter, NoRun,
        NoPlan, catalog, queues, disk, upkeep, backup
<1>16. ASSUME NEW h \in Blob, PackRecord(h)
      PROVE  Working'
  BY <1>16 DEF PackRecord, Working, TypeOK, CatalogOK, RunRecord, Plan, IdleWriter, NoRun,
        NoPlan, catalog, queues, disk, upkeep, backup
<1>17. ASSUME PackUnlink PROVE Working'
  BY <1>17 DEF PackUnlink, Working, TypeOK, CatalogOK, RunRecord, Plan, IdleWriter, NoRun,
        NoPlan, catalog, queues, disk, upkeep, backup
<1>18. ASSUME RepackPrune PROVE Working'
  BY <1>18 DEF RepackPrune, Working, TypeOK, CatalogOK, RunRecord, Plan, IdleWriter, NoRun,
        NoPlan, catalog, queues, disk, upkeep, backup
<1>19. ASSUME RepackRetire PROVE Working'
  BY <1>19 DEF RepackRetire, Working, TypeOK, CatalogOK, RunRecord, Plan, IdleWriter, NoRun,
        NoPlan, catalog, queues, disk, upkeep, backup
<1>20. ASSUME NEW o \in Op, NEW h \in Blob, NEW s \in Store, NEW d \in Store, PlanPlacement(o,
      h, s, d)
      PROVE  Working'
  BY <1>20 DEF PlanPlacement, Working, TypeOK, CatalogOK, RunRecord, Plan, IdleWriter, NoRun,
        NoPlan, catalog, queues, disk, upkeep, backup
<1>21. ASSUME NEW o \in Op, Claim(o)
      PROVE  Working'
  BY <1>21 DEF Claim, Working, TypeOK, CatalogOK, RunRecord, Plan, IdleWriter, NoRun, NoPlan,
        catalog, queues, disk, upkeep, backup
<1>22. ASSUME NEW o \in Op, NEW x \in cleanup[o], CleanupPrepare(o, x)
      PROVE  Working'
  <2>0. x \in Item
    BY DEF TypeOK, CatalogOK
  <2>1. CASE loc[x[1]][x[2]] = x[3]
    BY <1>22, <2>1 DEF CleanupPrepare, Working, catalog, queues, disk, upkeep, backup
  <2>2. CASE loc[x[1]][x[2]] # x[3]
    <3>1. run' = [run EXCEPT ![o].at = "retiring", ![o].item = x] /\ UNCHANGED cleanup
      BY <1>22, <2>2 DEF CleanupPrepare
    <3> QED
      BY <1>22, <2>0, <3>1 DEF CleanupPrepare, Working, TypeOK, catalog, queues, disk, upkeep,
            backup
  <2> QED
    BY <2>1, <2>2
<1>23. ASSUME NEW o \in Op, CleanupRetire(o)
      PROVE  Working'
  BY <1>23 DEF CleanupRetire, Working, TypeOK, CatalogOK, RunRecord, Plan, IdleWriter, NoRun,
        NoPlan, catalog, queues, disk, upkeep, backup
<1>24. ASSUME NEW o \in Op, CleanupComplete(o)
      PROVE  Working'
  BY <1>24 DEF CleanupComplete, Working, TypeOK, CatalogOK, RunRecord, Plan, IdleWriter, NoRun,
        NoPlan, catalog, queues, disk, upkeep, backup
<1>25. ASSUME NEW o \in Op, PlaceLock(o)
      PROVE  Working'
  <2>1. op[o].blob \in Blob
    BY <1>25 DEF PlaceLock, TypeOK, CatalogOK, Plan
  <2>2. CASE op[o].blob \in rows /\ loc[op[o].dst][op[o].blob] # "none"
    <3>1. run' = [run EXCEPT ![o].at = "moved", ![o].dest = loc[op[o].dst][op[o].blob]]
      BY <1>25, <2>2 DEF PlaceLock
    <3> QED
      BY <1>25, <2>1, <3>1 DEF PlaceLock, Working, TypeOK, catalog, queues, disk, upkeep, backup
  <2>3. CASE ~ (op[o].blob \in rows /\ loc[op[o].dst][op[o].blob] # "none")
    <3>1. run' = [run EXCEPT ![o].at = "copying"]
      BY <1>25, <2>3 DEF PlaceLock
    <3> QED
      BY <1>25, <2>1, <3>1 DEF PlaceLock, Working, TypeOK, catalog, queues, disk, upkeep, backup
  <2> QED
    BY <2>2, <2>3
<1>26. ASSUME NEW o \in Op, NEW e \in Encoding, PlaceMove(o, e)
      PROVE  Working'
  <2>1. run' = [run EXCEPT ![o].at = "moved", ![o].dest = e] /\ e # "none"
    BY <1>26, KindsDiffer DEF PlaceMove
  <2> QED
    BY <1>26, <2>1 DEF PlaceMove, Working, TypeOK, catalog, queues, disk, upkeep, backup
<1>27. ASSUME NEW o \in Op, PlaceVerify(o)
      PROVE  Working'
  BY <1>27 DEF PlaceVerify, Working, TypeOK, CatalogOK, RunRecord, Plan, IdleWriter, NoRun,
        NoPlan, catalog, queues, disk, upkeep, backup
<1>28. ASSUME NEW o \in Op, NEW retire \in BOOLEAN, PlaceCommit(o, retire)
      PROVE  Working'
  BY <1>28 DEF PlaceCommit, Working, TypeOK, CatalogOK, RunRecord, Plan, IdleWriter, NoRun,
        NoPlan, catalog, queues, disk, upkeep, backup
<1>29. ASSUME NEW o \in Op, Advance(o)
      PROVE  Working'
  <2>1. \A q \in Op : op'[q].blob \in Blob => op'[q] = op[q]
    BY <1>29, KindsDiffer DEF Advance, NoPlan, TypeOK, CatalogOK
  <2>2. \A q \in Op : q # o => op'[q] = op[q] /\ run'[q] = run[q]
    BY <1>29 DEF Advance, TypeOK, CatalogOK
  <2>3. run'[o].at = "pending" /\ op'[o].state = "active"
    BY <1>29 DEF Advance, NoRun, NoPlan, TypeOK, CatalogOK
  <2> QED
    BY ZenonT(60), <1>29, <2>1, <2>2, <2>3 DEF Advance, Working, catalog, queues, disk, upkeep,
       backup
<1>30. ASSUME NEW o \in Op, Complete(o)
      PROVE  Working'
  <2>1. \A q \in Op : op'[q].blob \in Blob => op'[q] = op[q]
    BY <1>30, KindsDiffer DEF Complete, Finish, NoPlan, TypeOK, CatalogOK
  <2>2. \A q \in Op : q # o => op'[q] = op[q] /\ run'[q] = run[q]
    BY <1>30 DEF Complete, Finish, TypeOK, CatalogOK
  <2>3. run'[o].at = "off"
    BY <1>30 DEF Complete, Finish, NoRun, NoPlan, TypeOK, CatalogOK
  <2>4. UNCHANGED <<wr, maint, item>>
    BY <1>30 DEF Complete, Finish, upkeep
  <2> QED
    BY <2>1, <2>2, <2>3, <2>4 DEF Working
<1>31. ASSUME NEW o \in Op, Fail(o)
      PROVE  Working'
  <2>1. \A q \in Op : op'[q].blob \in Blob => op'[q] = op[q]
    BY <1>31, KindsDiffer DEF Fail, Finish, NoPlan, TypeOK, CatalogOK
  <2>2. \A q \in Op : q # o => op'[q] = op[q] /\ run'[q] = run[q]
    BY <1>31 DEF Fail, Finish, TypeOK, CatalogOK
  <2>3. run'[o].at = "off"
    BY <1>31 DEF Fail, Finish, NoRun, NoPlan, TypeOK, CatalogOK
  <2>4. UNCHANGED <<wr, maint, item>>
    BY <1>31 DEF Fail, Finish, upkeep
  <2> QED
    BY <2>1, <2>2, <2>3, <2>4 DEF Working
<1>32. ASSUME NEW o \in Op, Defer(o)
      PROVE  Working'
  BY <1>32 DEF Defer, Working, TypeOK, CatalogOK, RunRecord, Plan, IdleWriter, NoRun, NoPlan,
        catalog, queues, disk, upkeep, backup
<1>33. ASSUME CaptureBegin PROVE Working'
  BY <1>33 DEF CaptureBegin, Working, TypeOK, CatalogOK, RunRecord, Plan, IdleWriter, NoRun,
        NoPlan, catalog, queues, disk, upkeep, backup
<1>34. ASSUME CaptureEnd PROVE Working'
  BY <1>34 DEF CaptureEnd, Working, TypeOK, CatalogOK, RunRecord, Plan, IdleWriter, NoRun,
        NoPlan, catalog, queues, disk, upkeep, backup
<1>35. ASSUME Crash PROVE Working'
  BY <1>35 DEF Crash, Working, TypeOK, CatalogOK, RunRecord, Plan, IdleWriter, NoRun, NoPlan,
        catalog, queues, disk, upkeep, backup
<1> QED
  BY <1>1, <1>2, <1>3, <1>4, <1>5, <1>6, <1>7, <1>8, <1>9, <1>10, <1>11, <1>12, <1>13,
     <1>14, <1>15, <1>16, <1>17, <1>18, <1>19, <1>20, <1>21, <1>22, <1>23, <1>24, <1>25,
     <1>26, <1>27, <1>28, <1>29, <1>30, <1>31, <1>32, <1>33, <1>34, <1>35
     DEF Next, WriterStep, MaintenanceStep, PlacementStep

\* Every step respects the gate and the leases.
LEMMA GatedStep ==
    ASSUME TypeOK, Gated, Next
    PROVE  Gated'
<1>1. ASSUME NEW w \in Writer, NEW h \in Blob, NEW e \in Encoding, Publish(w, h, e)
      PROVE  Gated'
  BY <1>1 DEF Publish, Gated, TypeOK, RunRecord, IdleWriter, NoRun, GateIdle, NoMaintenance,
        NoRetirement, NoCommit, commitGate, catalog, queues, disk, upkeep, backup
<1>2. ASSUME NEW w \in Writer, Commit(w)
      PROVE  Gated'
  BY <1>2 DEF Commit, adopts, covers, writeLooseLocation, Gated, TypeOK, RunRecord, IdleWriter,
        NoRun, GateIdle, NoMaintenance, NoRetirement, NoCommit, commitGate, catalog, queues,
        disk, upkeep, backup
<1>3. ASSUME NEW w \in Writer, Reject(w)
      PROVE  Gated'
  BY <1>3 DEF Reject, Gated, TypeOK, RunRecord, IdleWriter, NoRun, GateIdle, NoMaintenance,
        NoRetirement, NoCommit, commitGate, catalog, queues, disk, upkeep, backup
<1>4. ASSUME NEW w \in Writer, CleanupKeep(w)
      PROVE  Gated'
  BY <1>4 DEF CleanupKeep, Finished, Gated, TypeOK, RunRecord, IdleWriter, NoRun, GateIdle,
        NoMaintenance, NoRetirement, NoCommit, commitGate, catalog, queues, disk, upkeep, backup
<1>5. ASSUME NEW w \in Writer, CleanupFind(w)
      PROVE  Gated'
  BY <1>5 DEF CleanupFind, Gated, TypeOK, RunRecord, IdleWriter, NoRun, GateIdle, NoMaintenance,
        NoRetirement, NoCommit, commitGate, catalog, queues, disk, upkeep, backup
<1>6. ASSUME NEW w \in Writer, CleanupRemove(w)
      PROVE  Gated'
  BY <1>6 DEF CleanupRemove, Finished, Gated, TypeOK, RunRecord, IdleWriter, NoRun, GateIdle,
        NoMaintenance, NoRetirement, NoCommit, commitGate, catalog, queues, disk, upkeep, backup
<1>7. ASSUME NEW h \in Blob, Unreference(h)
      PROVE  Gated'
  BY <1>7 DEF Unreference, Gated, TypeOK, RunRecord, IdleWriter, NoRun, GateIdle, NoMaintenance,
        NoRetirement, NoCommit, commitGate, catalog, queues, disk, upkeep, backup
<1>8. ASSUME GcStart PROVE Gated'
  BY <1>8 DEF GcStart, Gated, TypeOK, RunRecord, IdleWriter, NoRun, GateIdle, NoMaintenance,
        NoRetirement, NoCommit, commitGate, catalog, queues, disk, upkeep, backup
<1>9. ASSUME NEW H \in SUBSET Blob, GcDelete(H)
      PROVE  Gated'
  BY <1>9 DEF GcDelete, Gated, TypeOK, RunRecord, IdleWriter, NoRun, GateIdle, NoMaintenance,
        NoRetirement, NoCommit, commitGate, catalog, queues, disk, upkeep, backup
<1>10. ASSUME NEW x \in retirements, GcPrepare(x)
      PROVE  Gated'
  BY <1>10 DEF GcPrepare, Gated, TypeOK, RunRecord, IdleWriter, NoRun, GateIdle, NoMaintenance,
        NoRetirement, NoCommit, commitGate, catalog, queues, disk, upkeep, backup
<1>11. ASSUME GcRetire PROVE Gated'
  BY <1>11 DEF GcRetire, Gated, TypeOK, RunRecord, IdleWriter, NoRun, GateIdle, NoMaintenance,
        NoRetirement, NoCommit, commitGate, catalog, queues, disk, upkeep, backup
<1>12. ASSUME GcComplete PROVE Gated'
  BY <1>12 DEF GcComplete, Gated, TypeOK, RunRecord, IdleWriter, NoRun, GateIdle, NoMaintenance,
        NoRetirement, NoCommit, commitGate, catalog, queues, disk, upkeep, backup
<1>13. ASSUME GcList PROVE Gated'
  BY <1>13 DEF GcList, Gated, TypeOK, RunRecord, IdleWriter, NoRun, GateIdle, NoMaintenance,
        NoRetirement, NoCommit, commitGate, catalog, queues, disk, upkeep, backup
<1>14. ASSUME NEW h \in Blob, GcSweep(h)
      PROVE  Gated'
  BY <1>14 DEF GcSweep, Gated, TypeOK, RunRecord, IdleWriter, NoRun, GateIdle, NoMaintenance,
        NoRetirement, NoCommit, commitGate, catalog, queues, disk, upkeep, backup
<1>15. ASSUME MaintenanceEnd PROVE Gated'
  BY <1>15 DEF MaintenanceEnd, Gated, TypeOK, RunRecord, IdleWriter, NoRun, GateIdle,
        NoMaintenance, NoRetirement, NoCommit, commitGate, catalog, queues, disk, upkeep, backup
<1>16. ASSUME NEW h \in Blob, PackRecord(h)
      PROVE  Gated'
  BY <1>16 DEF PackRecord, Gated, TypeOK, RunRecord, IdleWriter, NoRun, GateIdle, NoMaintenance,
        NoRetirement, NoCommit, commitGate, catalog, queues, disk, upkeep, backup
<1>17. ASSUME PackUnlink PROVE Gated'
  BY <1>17 DEF PackUnlink, Gated, TypeOK, RunRecord, IdleWriter, NoRun, GateIdle, NoMaintenance,
        NoRetirement, NoCommit, commitGate, catalog, queues, disk, upkeep, backup
<1>18. ASSUME RepackPrune PROVE Gated'
  BY <1>18 DEF RepackPrune, Gated, TypeOK, RunRecord, IdleWriter, NoRun, GateIdle,
        NoMaintenance, NoRetirement, NoCommit, commitGate, catalog, queues, disk, upkeep, backup
<1>19. ASSUME RepackRetire PROVE Gated'
  BY <1>19 DEF RepackRetire, Gated, TypeOK, RunRecord, IdleWriter, NoRun, GateIdle,
        NoMaintenance, NoRetirement, NoCommit, commitGate, catalog, queues, disk, upkeep, backup
<1>20. ASSUME NEW o \in Op, NEW h \in Blob, NEW s \in Store, NEW d \in Store, PlanPlacement(o,
      h, s, d)
      PROVE  Gated'
  BY <1>20 DEF PlanPlacement, Gated, TypeOK, RunRecord, IdleWriter, NoRun, GateIdle,
        NoMaintenance, NoRetirement, NoCommit, commitGate, catalog, queues, disk, upkeep, backup
<1>21. ASSUME NEW o \in Op, Claim(o)
      PROVE  Gated'
  BY <1>21 DEF Claim, Gated, TypeOK, RunRecord, IdleWriter, NoRun, GateIdle, NoMaintenance,
        NoRetirement, NoCommit, commitGate, catalog, queues, disk, upkeep, backup
<1>22. ASSUME NEW o \in Op, NEW x \in cleanup[o], CleanupPrepare(o, x)
      PROVE  Gated'
  BY <1>22 DEF CleanupPrepare, Gated, TypeOK, RunRecord, IdleWriter, NoRun, GateIdle,
        NoMaintenance, NoRetirement, NoCommit, commitGate, catalog, queues, disk, upkeep, backup
<1>23. ASSUME NEW o \in Op, CleanupRetire(o)
      PROVE  Gated'
  BY <1>23 DEF CleanupRetire, Gated, TypeOK, RunRecord, IdleWriter, NoRun, GateIdle,
        NoMaintenance, NoRetirement, NoCommit, commitGate, catalog, queues, disk, upkeep, backup
<1>24. ASSUME NEW o \in Op, CleanupComplete(o)
      PROVE  Gated'
  BY <1>24 DEF CleanupComplete, Gated, TypeOK, RunRecord, IdleWriter, NoRun, GateIdle,
        NoMaintenance, NoRetirement, NoCommit, commitGate, catalog, queues, disk, upkeep, backup
<1>25. ASSUME NEW o \in Op, PlaceLock(o)
      PROVE  Gated'
  BY <1>25 DEF PlaceLock, Gated, TypeOK, RunRecord, IdleWriter, NoRun, GateIdle, NoMaintenance,
        NoRetirement, NoCommit, commitGate, catalog, queues, disk, upkeep, backup
<1>26. ASSUME NEW o \in Op, NEW e \in Encoding, PlaceMove(o, e)
      PROVE  Gated'
  BY <1>26 DEF PlaceMove, Gated, TypeOK, RunRecord, IdleWriter, NoRun, GateIdle, NoMaintenance,
        NoRetirement, NoCommit, commitGate, catalog, queues, disk, upkeep, backup
<1>27. ASSUME NEW o \in Op, PlaceVerify(o)
      PROVE  Gated'
  BY <1>27 DEF PlaceVerify, Gated, TypeOK, RunRecord, IdleWriter, NoRun, GateIdle,
        NoMaintenance, NoRetirement, NoCommit, commitGate, catalog, queues, disk, upkeep, backup
<1>28. ASSUME NEW o \in Op, NEW retire \in BOOLEAN, PlaceCommit(o, retire)
      PROVE  Gated'
  BY <1>28 DEF PlaceCommit, Gated, TypeOK, RunRecord, IdleWriter, NoRun, GateIdle,
        NoMaintenance, NoRetirement, NoCommit, commitGate, catalog, queues, disk, upkeep, backup
<1>29. ASSUME NEW o \in Op, Advance(o)
      PROVE  Gated'
  BY <1>29 DEF Advance, Gated, TypeOK, RunRecord, IdleWriter, NoRun, GateIdle, NoMaintenance,
        NoRetirement, NoCommit, commitGate, catalog, queues, disk, upkeep, backup
<1>30. ASSUME NEW o \in Op, Complete(o)
      PROVE  Gated'
  BY <1>30 DEF Complete, Finish, Gated, TypeOK, RunRecord, IdleWriter, NoRun, GateIdle,
        NoMaintenance, NoRetirement, NoCommit, commitGate, catalog, queues, disk, upkeep, backup
<1>31. ASSUME NEW o \in Op, Fail(o)
      PROVE  Gated'
  BY <1>31 DEF Fail, Finish, Gated, TypeOK, RunRecord, IdleWriter, NoRun, GateIdle,
        NoMaintenance, NoRetirement, NoCommit, commitGate, catalog, queues, disk, upkeep, backup
<1>32. ASSUME NEW o \in Op, Defer(o)
      PROVE  Gated'
  BY <1>32 DEF Defer, Gated, TypeOK, RunRecord, IdleWriter, NoRun, GateIdle, NoMaintenance,
        NoRetirement, NoCommit, commitGate, catalog, queues, disk, upkeep, backup
<1>33. ASSUME CaptureBegin PROVE Gated'
  BY <1>33 DEF CaptureBegin, Gated, TypeOK, RunRecord, IdleWriter, NoRun, GateIdle,
        NoMaintenance, NoRetirement, NoCommit, commitGate, catalog, queues, disk, upkeep, backup
<1>34. ASSUME CaptureEnd PROVE Gated'
  BY <1>34 DEF CaptureEnd, Gated, TypeOK, RunRecord, IdleWriter, NoRun, GateIdle, NoMaintenance,
        NoRetirement, NoCommit, commitGate, catalog, queues, disk, upkeep, backup
<1>35. ASSUME Crash PROVE Gated'
  BY <1>35 DEF Crash, Gated, TypeOK, RunRecord, IdleWriter, NoRun, GateIdle, NoMaintenance,
        NoRetirement, NoCommit, commitGate, catalog, queues, disk, upkeep, backup
<1> QED
  BY <1>1, <1>2, <1>3, <1>4, <1>5, <1>6, <1>7, <1>8, <1>9, <1>10, <1>11, <1>12, <1>13,
     <1>14, <1>15, <1>16, <1>17, <1>18, <1>19, <1>20, <1>21, <1>22, <1>23, <1>24, <1>25,
     <1>26, <1>27, <1>28, <1>29, <1>30, <1>31, <1>32, <1>33, <1>34, <1>35
     DEF Next, WriterStep, MaintenanceStep, PlacementStep

\* Every step keeps the tables in agreement.
LEMMA TablesStep ==
    ASSUME TypeOK, Working, Gated, Tables, Next
    PROVE  Tables'
<1>1. ASSUME NEW w \in Writer, NEW h \in Blob, NEW e \in Encoding, Publish(w, h, e)
      PROVE  Tables'
  BY <1>1 DEF Publish, Tables, TypeOK, CatalogOK, Working, Gated, Unreachable, catalog, queues,
        disk, upkeep, backup
<1>2. ASSUME NEW w \in Writer, Commit(w)
      PROVE  Tables'
  <2> DEFINE h == wr[w].blob
             e == wr[w].enc
  <2>1. h \in Blob /\ e \in Encoding /\ e # "packed" /\ e # "none" /\ Primary \in Store
    BY <1>2, KindsDiffer DEF Commit, Working, Store
  <2>2. /\ rows' = rows \cup {h} /\ refs' = refs \cup {h} /\ UNCHANGED <<capturing, pinned>>
    BY <1>2 DEF Commit, backup
  <2> HIDE DEF h, e
  <2>3. CASE writeLooseLocation(h, e)
    <3>1. \A s \in Store, g \in Blob :
            loc'[s][g] = IF s = Primary /\ g = h THEN e ELSE loc[s][g]
      BY <2>1, <2>3 DEF writeLooseLocation, TypeOK, CatalogOK
    <3>2. mapped' = mapped \ {h}
      BY <2>3 DEF writeLooseLocation
    <3> QED
      BY <2>1, <2>2, <3>1, <3>2 DEF Tables, TypeOK, CatalogOK
  <2>4. CASE covers(h, e) /\ UNCHANGED <<loc, mapped>>
    <3>1. h \in rows
      BY <2>4 DEF covers
    <3> QED
      BY <2>2, <2>4, <3>1 DEF Tables
  <2> QED
    BY <1>2, <2>3, <2>4 DEF Commit, h, e
<1>3. ASSUME NEW w \in Writer, Reject(w)
      PROVE  Tables'
  BY <1>3 DEF Reject, Tables, TypeOK, CatalogOK, Working, Gated, Unreachable, catalog, queues,
        disk, upkeep, backup
<1>4. ASSUME NEW w \in Writer, CleanupKeep(w)
      PROVE  Tables'
  BY <1>4 DEF CleanupKeep, Finished, Tables, TypeOK, CatalogOK, Working, Gated, Unreachable,
        catalog, queues, disk, upkeep, backup
<1>5. ASSUME NEW w \in Writer, CleanupFind(w)
      PROVE  Tables'
  BY <1>5 DEF CleanupFind, Tables, TypeOK, CatalogOK, Working, Gated, Unreachable, catalog,
        queues, disk, upkeep, backup
<1>6. ASSUME NEW w \in Writer, CleanupRemove(w)
      PROVE  Tables'
  BY <1>6 DEF CleanupRemove, Finished, Tables, TypeOK, CatalogOK, Working, Gated, Unreachable,
        catalog, queues, disk, upkeep, backup
<1>7. ASSUME NEW h \in Blob, Unreference(h)
      PROVE  Tables'
  BY <1>7 DEF Unreference, Tables, TypeOK, CatalogOK, Working, Gated, Unreachable, catalog,
        queues, disk, upkeep, backup
<1>8. ASSUME GcStart PROVE Tables'
  BY <1>8 DEF GcStart, Tables, TypeOK, CatalogOK, Working, Gated, Unreachable, catalog, queues,
        disk, upkeep, backup
<1>9. ASSUME NEW H \in SUBSET Blob, GcDelete(H)
      PROVE  Tables'
  <2>1. pinned = {}
    BY <1>9 DEF GcDelete, Gated, Tables
  <2>2. \A s \in Store, g \in Blob : loc'[s][g] = IF g \in H THEN "none" ELSE loc[s][g]
    BY <1>9 DEF GcDelete
  <2>3. /\ rows' = rows \ H /\ H \cap refs = {}
        /\ UNCHANGED <<refs, mapped, capturing, pinned>>
    BY <1>9 DEF GcDelete, Unreachable, backup
  <2>4. Primary \in Store
    BY DEF Store
  <2> QED
    BY <2>1, <2>2, <2>3, <2>4 DEF Tables, TypeOK, CatalogOK
<1>10. ASSUME NEW x \in retirements, GcPrepare(x)
      PROVE  Tables'
  BY <1>10 DEF GcPrepare, Tables, TypeOK, CatalogOK, Working, Gated, Unreachable, catalog,
        queues, disk, upkeep, backup
<1>11. ASSUME GcRetire PROVE Tables'
  BY <1>11 DEF GcRetire, Tables, TypeOK, CatalogOK, Working, Gated, Unreachable, catalog,
        queues, disk, upkeep, backup
<1>12. ASSUME GcComplete PROVE Tables'
  BY <1>12 DEF GcComplete, Tables, TypeOK, CatalogOK, Working, Gated, Unreachable, catalog,
        queues, disk, upkeep, backup
<1>13. ASSUME GcList PROVE Tables'
  BY <1>13 DEF GcList, Tables, TypeOK, CatalogOK, Working, Gated, Unreachable, catalog, queues,
        disk, upkeep, backup
<1>14. ASSUME NEW h \in Blob, GcSweep(h)
      PROVE  Tables'
  BY <1>14 DEF GcSweep, Tables, TypeOK, CatalogOK, Working, Gated, Unreachable, catalog, queues,
        disk, upkeep, backup
<1>15. ASSUME MaintenanceEnd PROVE Tables'
  BY <1>15 DEF MaintenanceEnd, Tables, TypeOK, CatalogOK, Working, Gated, Unreachable, catalog,
        queues, disk, upkeep, backup
<1>16. ASSUME NEW h \in Blob, PackRecord(h)
      PROVE  Tables'
  <2>1. Primary \in Store
    BY DEF Store
  <2>2. \A s \in Store, g \in Blob :
          loc'[s][g] = IF s = Primary /\ g = h THEN "packed" ELSE loc[s][g]
    BY <1>16, <2>1 DEF PackRecord, TypeOK, CatalogOK
  <2>3. /\ h \in rows /\ mapped' = mapped \cup {h}
        /\ UNCHANGED <<rows, refs, capturing, pinned>>
    BY <1>16 DEF PackRecord, backup
  <2> QED
    BY <2>1, <2>2, <2>3 DEF Tables, TypeOK, CatalogOK
<1>17. ASSUME PackUnlink PROVE Tables'
  BY <1>17 DEF PackUnlink, Tables, TypeOK, CatalogOK, Working, Gated, Unreachable, catalog,
        queues, disk, upkeep, backup
<1>18. ASSUME RepackPrune PROVE Tables'
  BY <1>18 DEF RepackPrune, Tables, TypeOK, CatalogOK, Working, Gated, Unreachable, catalog,
        queues, disk, upkeep, backup
<1>19. ASSUME RepackRetire PROVE Tables'
  BY <1>19 DEF RepackRetire, Tables, TypeOK, CatalogOK, Working, Gated, Unreachable, catalog,
        queues, disk, upkeep, backup
<1>20. ASSUME NEW o \in Op, NEW h \in Blob, NEW s \in Store, NEW d \in Store, PlanPlacement(o,
      h, s, d)
      PROVE  Tables'
  BY <1>20 DEF PlanPlacement, Tables, TypeOK, CatalogOK, Working, Gated, Unreachable, catalog,
        queues, disk, upkeep, backup
<1>21. ASSUME NEW o \in Op, Claim(o)
      PROVE  Tables'
  BY <1>21 DEF Claim, Tables, TypeOK, CatalogOK, Working, Gated, Unreachable, catalog, queues,
        disk, upkeep, backup
<1>22. ASSUME NEW o \in Op, NEW x \in cleanup[o], CleanupPrepare(o, x)
      PROVE  Tables'
  BY <1>22 DEF CleanupPrepare, Tables, TypeOK, CatalogOK, Working, Gated, Unreachable, catalog,
        queues, disk, upkeep, backup
<1>23. ASSUME NEW o \in Op, CleanupRetire(o)
      PROVE  Tables'
  BY <1>23 DEF CleanupRetire, Tables, TypeOK, CatalogOK, Working, Gated, Unreachable, catalog,
        queues, disk, upkeep, backup
<1>24. ASSUME NEW o \in Op, CleanupComplete(o)
      PROVE  Tables'
  BY <1>24 DEF CleanupComplete, Tables, TypeOK, CatalogOK, Working, Gated, Unreachable, catalog,
        queues, disk, upkeep, backup
<1>25. ASSUME NEW o \in Op, PlaceLock(o)
      PROVE  Tables'
  BY <1>25 DEF PlaceLock, Tables, TypeOK, CatalogOK, Working, Gated, Unreachable, catalog,
        queues, disk, upkeep, backup
<1>26. ASSUME NEW o \in Op, NEW e \in Encoding, PlaceMove(o, e)
      PROVE  Tables'
  BY <1>26 DEF PlaceMove, Tables, TypeOK, CatalogOK, Working, Gated, Unreachable, catalog,
        queues, disk, upkeep, backup
<1>27. ASSUME NEW o \in Op, PlaceVerify(o)
      PROVE  Tables'
  BY <1>27 DEF PlaceVerify, Tables, TypeOK, CatalogOK, Working, Gated, Unreachable, catalog,
        queues, disk, upkeep, backup
<1>28. ASSUME NEW o \in Op, NEW retire \in BOOLEAN, PlaceCommit(o, retire)
      PROVE  Tables'
  <2> DEFINE h == op[o].blob
             s == op[o].src
             d == op[o].dst
             from == op[o].from
             dest == run[o].dest
             revoke == retire /\ from # "none" /\ loc[s][h] = from
  <2>1. h \in Blob /\ s \in Store /\ d \in Store /\ s # d /\ Primary \in Store
    BY <1>28 DEF PlaceCommit, Working, TypeOK, CatalogOK, Plan, Store
  <2>2. \A t \in Store, g \in Blob :
          loc'[t][g] = IF t = d /\ g = h THEN dest
                       ELSE IF t = s /\ g = h /\ revoke THEN "none" ELSE loc[t][g]
    BY <1>28, PlaceCommitLocations
  <2>3. /\ h \in rows /\ UNCHANGED <<rows, refs, capturing, pinned>>
        /\ mapped' = IF revoke /\ from = "packed" THEN mapped \ {h} ELSE mapped
        /\ loc[d][h] = dest \/ (loc[d][h] = "none" /\ dest \in Encoding)
    BY <1>28 DEF PlaceCommit, backup
  <2>4. loc[Secondary][h] # "packed" /\ Store = {Primary, Secondary}
    BY <2>1 DEF TypeOK, CatalogOK, Store
  <2> HIDE DEF h, s, d, from, dest, revoke
  <2>5. dest # "none"
    BY <1>28 DEF PlaceCommit, Working, dest
  <2> QED
    BY <2>1, <2>2, <2>3, <2>4, <2>5, KindsDiffer DEF Tables, TypeOK, CatalogOK, revoke
<1>29. ASSUME NEW o \in Op, Advance(o)
      PROVE  Tables'
  BY <1>29 DEF Advance, Tables, TypeOK, CatalogOK, Working, Gated, Unreachable, catalog, queues,
        disk, upkeep, backup
<1>30. ASSUME NEW o \in Op, Complete(o)
      PROVE  Tables'
  BY <1>30 DEF Complete, Finish, Tables, TypeOK, CatalogOK, Working, Gated, Unreachable,
        catalog, queues, disk, upkeep, backup
<1>31. ASSUME NEW o \in Op, Fail(o)
      PROVE  Tables'
  BY <1>31 DEF Fail, Finish, Tables, TypeOK, CatalogOK, Working, Gated, Unreachable, catalog,
        queues, disk, upkeep, backup
<1>32. ASSUME NEW o \in Op, Defer(o)
      PROVE  Tables'
  BY <1>32 DEF Defer, Tables, TypeOK, CatalogOK, Working, Gated, Unreachable, catalog, queues,
        disk, upkeep, backup
<1>33. ASSUME CaptureBegin PROVE Tables'
  BY <1>33 DEF CaptureBegin, Tables, TypeOK, CatalogOK, Working, Gated, Unreachable, catalog,
        queues, disk, upkeep, backup
<1>34. ASSUME CaptureEnd PROVE Tables'
  BY <1>34 DEF CaptureEnd, Tables, TypeOK, CatalogOK, Working, Gated, Unreachable, catalog,
        queues, disk, upkeep, backup
<1>35. ASSUME Crash PROVE Tables'
  BY <1>35 DEF Crash, Tables, TypeOK, CatalogOK, Working, Gated, Unreachable, catalog, queues,
        disk, upkeep, backup
<1> QED
  BY <1>1, <1>2, <1>3, <1>4, <1>5, <1>6, <1>7, <1>8, <1>9, <1>10, <1>11, <1>12, <1>13,
     <1>14, <1>15, <1>16, <1>17, <1>18, <1>19, <1>20, <1>21, <1>22, <1>23, <1>24, <1>25,
     <1>26, <1>27, <1>28, <1>29, <1>30, <1>31, <1>32, <1>33, <1>34, <1>35
     DEF Next, WriterStep, MaintenanceStep, PlacementStep

\* Every step keeps cleanup with operations that can be resumed.
LEMMA OwedStep ==
    ASSUME TypeOK, Working, Owed, Next
    PROVE  Owed'
<1>1. ASSUME NEW w \in Writer, NEW h \in Blob, NEW e \in Encoding, Publish(w, h, e)
      PROVE  Owed'
  BY <1>1 DEF Publish, Owed, Working, TypeOK, CatalogOK, drained, NoRun, NoPlan, catalog,
        queues, disk, upkeep, backup
<1>2. ASSUME NEW w \in Writer, Commit(w)
      PROVE  Owed'
  BY <1>2 DEF Commit, adopts, covers, writeLooseLocation, Owed, Working, TypeOK, CatalogOK,
        drained, NoRun, NoPlan, catalog, queues, disk, upkeep, backup
<1>3. ASSUME NEW w \in Writer, Reject(w)
      PROVE  Owed'
  BY <1>3 DEF Reject, Owed, Working, TypeOK, CatalogOK, drained, NoRun, NoPlan, catalog, queues,
        disk, upkeep, backup
<1>4. ASSUME NEW w \in Writer, CleanupKeep(w)
      PROVE  Owed'
  BY <1>4 DEF CleanupKeep, Finished, Owed, Working, TypeOK, CatalogOK, drained, NoRun, NoPlan,
        catalog, queues, disk, upkeep, backup
<1>5. ASSUME NEW w \in Writer, CleanupFind(w)
      PROVE  Owed'
  BY <1>5 DEF CleanupFind, Owed, Working, TypeOK, CatalogOK, drained, NoRun, NoPlan, catalog,
        queues, disk, upkeep, backup
<1>6. ASSUME NEW w \in Writer, CleanupRemove(w)
      PROVE  Owed'
  BY <1>6 DEF CleanupRemove, Finished, Owed, Working, TypeOK, CatalogOK, drained, NoRun, NoPlan,
        catalog, queues, disk, upkeep, backup
<1>7. ASSUME NEW h \in Blob, Unreference(h)
      PROVE  Owed'
  BY <1>7 DEF Unreference, Owed, Working, TypeOK, CatalogOK, drained, NoRun, NoPlan, catalog,
        queues, disk, upkeep, backup
<1>8. ASSUME GcStart PROVE Owed'
  BY <1>8 DEF GcStart, Owed, Working, TypeOK, CatalogOK, drained, NoRun, NoPlan, catalog,
        queues, disk, upkeep, backup
<1>9. ASSUME NEW H \in SUBSET Blob, GcDelete(H)
      PROVE  Owed'
  BY <1>9 DEF GcDelete, Owed, Working, TypeOK, CatalogOK, drained, NoRun, NoPlan, catalog,
        queues, disk, upkeep, backup
<1>10. ASSUME NEW x \in retirements, GcPrepare(x)
      PROVE  Owed'
  BY <1>10 DEF GcPrepare, Owed, Working, TypeOK, CatalogOK, drained, NoRun, NoPlan, catalog,
        queues, disk, upkeep, backup
<1>11. ASSUME GcRetire PROVE Owed'
  BY <1>11 DEF GcRetire, Owed, Working, TypeOK, CatalogOK, drained, NoRun, NoPlan, catalog,
        queues, disk, upkeep, backup
<1>12. ASSUME GcComplete PROVE Owed'
  BY <1>12 DEF GcComplete, Owed, Working, TypeOK, CatalogOK, drained, NoRun, NoPlan, catalog,
        queues, disk, upkeep, backup
<1>13. ASSUME GcList PROVE Owed'
  BY <1>13 DEF GcList, Owed, Working, TypeOK, CatalogOK, drained, NoRun, NoPlan, catalog,
        queues, disk, upkeep, backup
<1>14. ASSUME NEW h \in Blob, GcSweep(h)
      PROVE  Owed'
  BY <1>14 DEF GcSweep, Owed, Working, TypeOK, CatalogOK, drained, NoRun, NoPlan, catalog,
        queues, disk, upkeep, backup
<1>15. ASSUME MaintenanceEnd PROVE Owed'
  BY <1>15 DEF MaintenanceEnd, Owed, Working, TypeOK, CatalogOK, drained, NoRun, NoPlan,
        catalog, queues, disk, upkeep, backup
<1>16. ASSUME NEW h \in Blob, PackRecord(h)
      PROVE  Owed'
  BY <1>16 DEF PackRecord, Owed, Working, TypeOK, CatalogOK, drained, NoRun, NoPlan, catalog,
        queues, disk, upkeep, backup
<1>17. ASSUME PackUnlink PROVE Owed'
  BY <1>17 DEF PackUnlink, Owed, Working, TypeOK, CatalogOK, drained, NoRun, NoPlan, catalog,
        queues, disk, upkeep, backup
<1>18. ASSUME RepackPrune PROVE Owed'
  BY <1>18 DEF RepackPrune, Owed, Working, TypeOK, CatalogOK, drained, NoRun, NoPlan, catalog,
        queues, disk, upkeep, backup
<1>19. ASSUME RepackRetire PROVE Owed'
  BY <1>19 DEF RepackRetire, Owed, Working, TypeOK, CatalogOK, drained, NoRun, NoPlan, catalog,
        queues, disk, upkeep, backup
<1>20. ASSUME NEW o \in Op, NEW h \in Blob, NEW s \in Store, NEW d \in Store, PlanPlacement(o,
      h, s, d)
      PROVE  Owed'
  BY <1>20 DEF PlanPlacement, Owed, Working, TypeOK, CatalogOK, drained, NoRun, NoPlan, catalog,
        queues, disk, upkeep, backup
<1>21. ASSUME NEW o \in Op, Claim(o)
      PROVE  Owed'
  BY <1>21 DEF Claim, Owed, Working, TypeOK, CatalogOK, drained, NoRun, NoPlan, catalog, queues,
        disk, upkeep, backup
<1>22. ASSUME NEW o \in Op, NEW x \in cleanup[o], CleanupPrepare(o, x)
      PROVE  Owed'
  <2>1. CASE loc[x[1]][x[2]] = x[3]
    <3>1. cleanup' = [cleanup EXCEPT ![o] = @ \ {x}] /\ UNCHANGED <<run, op>>
      BY <1>22, <2>1 DEF CleanupPrepare
    <3> QED
      BY <3>1 DEF Owed, TypeOK, CatalogOK
  <2>2. CASE loc[x[1]][x[2]] # x[3]
    <3>1. /\ run' = [run EXCEPT ![o].at = "retiring", ![o].item = x]
          /\ UNCHANGED <<cleanup, op>>
      BY <1>22, <2>2 DEF CleanupPrepare
    <3> QED
      BY <3>1 DEF Owed, TypeOK
  <2> QED
    BY <2>1, <2>2
<1>23. ASSUME NEW o \in Op, CleanupRetire(o)
      PROVE  Owed'
  BY <1>23 DEF CleanupRetire, Owed, Working, TypeOK, CatalogOK, drained, NoRun, NoPlan, catalog,
        queues, disk, upkeep, backup
<1>24. ASSUME NEW o \in Op, CleanupComplete(o)
      PROVE  Owed'
  BY <1>24 DEF CleanupComplete, Owed, Working, TypeOK, CatalogOK, drained, NoRun, NoPlan,
        catalog, queues, disk, upkeep, backup
<1>25. ASSUME NEW o \in Op, PlaceLock(o)
      PROVE  Owed'
  BY <1>25 DEF PlaceLock, Owed, Working, TypeOK, CatalogOK, drained, NoRun, NoPlan, catalog,
        queues, disk, upkeep, backup
<1>26. ASSUME NEW o \in Op, NEW e \in Encoding, PlaceMove(o, e)
      PROVE  Owed'
  BY <1>26 DEF PlaceMove, Owed, Working, TypeOK, CatalogOK, drained, NoRun, NoPlan, catalog,
        queues, disk, upkeep, backup
<1>27. ASSUME NEW o \in Op, PlaceVerify(o)
      PROVE  Owed'
  BY <1>27 DEF PlaceVerify, Owed, Working, TypeOK, CatalogOK, drained, NoRun, NoPlan, catalog,
        queues, disk, upkeep, backup
<1>28. ASSUME NEW o \in Op, NEW retire \in BOOLEAN, PlaceCommit(o, retire)
      PROVE  Owed'
  BY <1>28 DEF PlaceCommit, Owed, Working, TypeOK, CatalogOK, drained, NoRun, NoPlan, catalog,
        queues, disk, upkeep, backup
<1>29. ASSUME NEW o \in Op, Advance(o)
      PROVE  Owed'
  BY <1>29 DEF Advance, Owed, Working, TypeOK, CatalogOK, drained, NoRun, NoPlan, catalog,
        queues, disk, upkeep, backup
<1>30. ASSUME NEW o \in Op, Complete(o)
      PROVE  Owed'
  BY <1>30 DEF Complete, Finish, Owed, Working, TypeOK, CatalogOK, drained, NoRun, NoPlan,
        catalog, queues, disk, upkeep, backup
<1>31. ASSUME NEW o \in Op, Fail(o)
      PROVE  Owed'
  BY <1>31 DEF Fail, Finish, Owed, Working, TypeOK, CatalogOK, drained, NoRun, NoPlan, catalog,
        queues, disk, upkeep, backup
<1>32. ASSUME NEW o \in Op, Defer(o)
      PROVE  Owed'
  BY <1>32 DEF Defer, Owed, Working, TypeOK, CatalogOK, drained, NoRun, NoPlan, catalog, queues,
        disk, upkeep, backup
<1>33. ASSUME CaptureBegin PROVE Owed'
  BY <1>33 DEF CaptureBegin, Owed, Working, TypeOK, CatalogOK, drained, NoRun, NoPlan, catalog,
        queues, disk, upkeep, backup
<1>34. ASSUME CaptureEnd PROVE Owed'
  BY <1>34 DEF CaptureEnd, Owed, Working, TypeOK, CatalogOK, drained, NoRun, NoPlan, catalog,
        queues, disk, upkeep, backup
<1>35. ASSUME Crash PROVE Owed'
  BY <1>35 DEF Crash, Owed, Working, TypeOK, CatalogOK, drained, NoRun, NoPlan, catalog, queues,
        disk, upkeep, backup
<1> QED
  BY <1>1, <1>2, <1>3, <1>4, <1>5, <1>6, <1>7, <1>8, <1>9, <1>10, <1>11, <1>12, <1>13,
     <1>14, <1>15, <1>16, <1>17, <1>18, <1>19, <1>20, <1>21, <1>22, <1>23, <1>24, <1>25,
     <1>26, <1>27, <1>28, <1>29, <1>30, <1>31, <1>32, <1>33, <1>34, <1>35
     DEF Next, WriterStep, MaintenanceStep, PlacementStep

\* Every step respects the location locks.
LEMMA LockedStep ==
    ASSUME TypeOK, Working, Locked, Next
    PROVE  Locked'
<1>1. ASSUME NEW w \in Writer, NEW h \in Blob, NEW e \in Encoding, Publish(w, h, e)
      PROVE  Locked'
  BY <1>1 DEF Publish, Locked, Claims, Working, TypeOK, CatalogOK, Holders, NoRun, NoPlan,
        catalog, queues, disk, upkeep, backup
<1>2. ASSUME NEW w \in Writer, Commit(w)
      PROVE  Locked'
  BY <1>2 DEF Commit, adopts, covers, writeLooseLocation, Locked, Claims, Working, TypeOK,
        CatalogOK, Holders, NoRun, NoPlan, catalog, queues, disk, upkeep, backup
<1>3. ASSUME NEW w \in Writer, Reject(w)
      PROVE  Locked'
  BY <1>3 DEF Reject, Locked, Claims, Working, TypeOK, CatalogOK, Holders, NoRun, NoPlan,
        catalog, queues, disk, upkeep, backup
<1>4. ASSUME NEW w \in Writer, CleanupKeep(w)
      PROVE  Locked'
  BY <1>4 DEF CleanupKeep, Finished, Locked, Claims, Working, TypeOK, CatalogOK, Holders, NoRun,
        NoPlan, catalog, queues, disk, upkeep, backup
<1>5. ASSUME NEW w \in Writer, CleanupFind(w)
      PROVE  Locked'
  BY <1>5 DEF CleanupFind, Locked, Claims, Working, TypeOK, CatalogOK, Holders, NoRun, NoPlan,
        catalog, queues, disk, upkeep, backup
<1>6. ASSUME NEW w \in Writer, CleanupRemove(w)
      PROVE  Locked'
  BY <1>6 DEF CleanupRemove, Finished, Locked, Claims, Working, TypeOK, CatalogOK, Holders,
        NoRun, NoPlan, catalog, queues, disk, upkeep, backup
<1>7. ASSUME NEW h \in Blob, Unreference(h)
      PROVE  Locked'
  BY <1>7 DEF Unreference, Locked, Claims, Working, TypeOK, CatalogOK, Holders, NoRun, NoPlan,
        catalog, queues, disk, upkeep, backup
<1>8. ASSUME GcStart PROVE Locked'
  BY <1>8 DEF GcStart, Locked, Claims, Working, TypeOK, CatalogOK, Holders, NoRun, NoPlan,
        catalog, queues, disk, upkeep, backup
<1>9. ASSUME NEW H \in SUBSET Blob, GcDelete(H)
      PROVE  Locked'
  BY <1>9 DEF GcDelete, Locked, Claims, Working, TypeOK, CatalogOK, Holders, NoRun, NoPlan,
        catalog, queues, disk, upkeep, backup
<1>10. ASSUME NEW x \in retirements, GcPrepare(x)
      PROVE  Locked'
  BY <1>10 DEF GcPrepare, Locked, Claims, Working, TypeOK, CatalogOK, Holders, NoRun, NoPlan,
        catalog, queues, disk, upkeep, backup
<1>11. ASSUME GcRetire PROVE Locked'
  BY <1>11 DEF GcRetire, Locked, Claims, Working, TypeOK, CatalogOK, Holders, NoRun, NoPlan,
        catalog, queues, disk, upkeep, backup
<1>12. ASSUME GcComplete PROVE Locked'
  BY <1>12 DEF GcComplete, Locked, Claims, Working, TypeOK, CatalogOK, Holders, NoRun, NoPlan,
        catalog, queues, disk, upkeep, backup
<1>13. ASSUME GcList PROVE Locked'
  BY <1>13 DEF GcList, Locked, Claims, Working, TypeOK, CatalogOK, Holders, NoRun, NoPlan,
        catalog, queues, disk, upkeep, backup
<1>14. ASSUME NEW h \in Blob, GcSweep(h)
      PROVE  Locked'
  BY <1>14 DEF GcSweep, Locked, Claims, Working, TypeOK, CatalogOK, Holders, NoRun, NoPlan,
        catalog, queues, disk, upkeep, backup
<1>15. ASSUME MaintenanceEnd PROVE Locked'
  BY <1>15 DEF MaintenanceEnd, Locked, Claims, Working, TypeOK, CatalogOK, Holders, NoRun,
        NoPlan, catalog, queues, disk, upkeep, backup
<1>16. ASSUME NEW h \in Blob, PackRecord(h)
      PROVE  Locked'
  BY <1>16 DEF PackRecord, Locked, Claims, Working, TypeOK, CatalogOK, Holders, NoRun, NoPlan,
        catalog, queues, disk, upkeep, backup
<1>17. ASSUME PackUnlink PROVE Locked'
  BY <1>17 DEF PackUnlink, Locked, Claims, Working, TypeOK, CatalogOK, Holders, NoRun, NoPlan,
        catalog, queues, disk, upkeep, backup
<1>18. ASSUME RepackPrune PROVE Locked'
  BY <1>18 DEF RepackPrune, Locked, Claims, Working, TypeOK, CatalogOK, Holders, NoRun, NoPlan,
        catalog, queues, disk, upkeep, backup
<1>19. ASSUME RepackRetire PROVE Locked'
  BY <1>19 DEF RepackRetire, Locked, Claims, Working, TypeOK, CatalogOK, Holders, NoRun, NoPlan,
        catalog, queues, disk, upkeep, backup
<1>20. ASSUME NEW o \in Op, NEW h \in Blob, NEW s \in Store, NEW d \in Store, PlanPlacement(o,
      h, s, d)
      PROVE  Locked'
  BY <1>20 DEF PlanPlacement, Locked, Claims, Working, TypeOK, CatalogOK, Holders, NoRun,
        NoPlan, catalog, queues, disk, upkeep, backup
<1>21. ASSUME NEW o \in Op, Claim(o)
      PROVE  Locked'
  BY <1>21 DEF Claim, Locked, Claims, Working, TypeOK, CatalogOK, Holders, NoRun, NoPlan,
        catalog, queues, disk, upkeep, backup
<1>22. ASSUME NEW o \in Op, NEW x \in cleanup[o], CleanupPrepare(o, x)
      PROVE  Locked'
  <2>1. CASE loc[x[1]][x[2]] = x[3]
    BY <1>22, <2>1 DEF CleanupPrepare, Locked, Claims
  <2>2. CASE loc[x[1]][x[2]] # x[3]
    <3>1. run' = [run EXCEPT ![o].at = "retiring", ![o].item = x] /\ UNCHANGED op
      BY <1>22, <2>2 DEF CleanupPrepare
    <3>2. \A q \in Op, s \in Store, h \in Blob :
            /\ q # o => (Claims(q, s, h)' <=> Claims(q, s, h))
            /\ Claims(o, s, h)' => s = x[1] /\ h = x[2]
      BY <3>1 DEF Claims, TypeOK
    <3>3. \A q \in Op : ~ Claims(q, x[1], x[2])
      BY <1>22 DEF CleanupPrepare, Holders, Claims
    <3> QED
      BY <3>2, <3>3 DEF Locked
  <2> QED
    BY <2>1, <2>2
<1>23. ASSUME NEW o \in Op, CleanupRetire(o)
      PROVE  Locked'
  BY <1>23 DEF CleanupRetire, Locked, Claims, Working, TypeOK, CatalogOK, Holders, NoRun,
        NoPlan, catalog, queues, disk, upkeep, backup
<1>24. ASSUME NEW o \in Op, CleanupComplete(o)
      PROVE  Locked'
  BY <1>24 DEF CleanupComplete, Locked, Claims, Working, TypeOK, CatalogOK, Holders, NoRun,
        NoPlan, catalog, queues, disk, upkeep, backup
<1>25. ASSUME NEW o \in Op, PlaceLock(o)
      PROVE  Locked'
  <2>1. /\ \A q \in Op : q # o => run'[q] = run[q]
        /\ run'[o].at \in {"copying", "moved"} /\ UNCHANGED op
    <3>1. CASE op[o].blob \in rows /\ loc[op[o].dst][op[o].blob] # "none"
      BY <1>25, <3>1 DEF PlaceLock, TypeOK, queues
    <3>2. CASE ~ (op[o].blob \in rows /\ loc[op[o].dst][op[o].blob] # "none")
      BY <1>25, <3>2 DEF PlaceLock, TypeOK, queues
    <3> QED
      BY <3>1, <3>2
  <2>2. \A q \in Op, s \in Store, h \in Blob :
          /\ q # o => (Claims(q, s, h)' <=> Claims(q, s, h))
          /\ Claims(o, s, h)' => s = op[o].dst /\ h = op[o].blob
    BY <2>1 DEF Claims
  <2>3. \A q \in Op : ~ Claims(q, op[o].dst, op[o].blob)
    BY <1>25 DEF PlaceLock, Holders, Claims
  <2> QED
    BY <2>2, <2>3 DEF Locked
<1>26. ASSUME NEW o \in Op, NEW e \in Encoding, PlaceMove(o, e)
      PROVE  Locked'
  BY <1>26 DEF PlaceMove, Locked, Claims, Working, TypeOK, CatalogOK, Holders, NoRun, NoPlan,
        catalog, queues, disk, upkeep, backup
<1>27. ASSUME NEW o \in Op, PlaceVerify(o)
      PROVE  Locked'
  BY <1>27 DEF PlaceVerify, Locked, Claims, Working, TypeOK, CatalogOK, Holders, NoRun, NoPlan,
        catalog, queues, disk, upkeep, backup
<1>28. ASSUME NEW o \in Op, NEW retire \in BOOLEAN, PlaceCommit(o, retire)
      PROVE  Locked'
  BY <1>28 DEF PlaceCommit, Locked, Claims, Working, TypeOK, CatalogOK, Holders, NoRun, NoPlan,
        catalog, queues, disk, upkeep, backup
<1>29. ASSUME NEW o \in Op, Advance(o)
      PROVE  Locked'
  BY <1>29 DEF Advance, Locked, Claims, Working, TypeOK, CatalogOK, Holders, NoRun, NoPlan,
        catalog, queues, disk, upkeep, backup
<1>30. ASSUME NEW o \in Op, Complete(o)
      PROVE  Locked'
  BY <1>30 DEF Complete, Finish, Locked, Claims, Working, TypeOK, CatalogOK, Holders, NoRun,
        NoPlan, catalog, queues, disk, upkeep, backup
<1>31. ASSUME NEW o \in Op, Fail(o)
      PROVE  Locked'
  BY <1>31 DEF Fail, Finish, Locked, Claims, Working, TypeOK, CatalogOK, Holders, NoRun, NoPlan,
        catalog, queues, disk, upkeep, backup
<1>32. ASSUME NEW o \in Op, Defer(o)
      PROVE  Locked'
  BY <1>32 DEF Defer, Locked, Claims, Working, TypeOK, CatalogOK, Holders, NoRun, NoPlan,
        catalog, queues, disk, upkeep, backup
<1>33. ASSUME CaptureBegin PROVE Locked'
  BY <1>33 DEF CaptureBegin, Locked, Claims, Working, TypeOK, CatalogOK, Holders, NoRun, NoPlan,
        catalog, queues, disk, upkeep, backup
<1>34. ASSUME CaptureEnd PROVE Locked'
  BY <1>34 DEF CaptureEnd, Locked, Claims, Working, TypeOK, CatalogOK, Holders, NoRun, NoPlan,
        catalog, queues, disk, upkeep, backup
<1>35. ASSUME Crash PROVE Locked'
  BY <1>35 DEF Crash, Locked, Claims, Working, TypeOK, CatalogOK, Holders, NoRun, NoPlan,
        catalog, queues, disk, upkeep, backup
<1> QED
  BY <1>1, <1>2, <1>3, <1>4, <1>5, <1>6, <1>7, <1>8, <1>9, <1>10, <1>11, <1>12, <1>13,
     <1>14, <1>15, <1>16, <1>17, <1>18, <1>19, <1>20, <1>21, <1>22, <1>23, <1>24, <1>25,
     <1>26, <1>27, <1>28, <1>29, <1>30, <1>31, <1>32, <1>33, <1>34, <1>35
     DEF Next, WriterStep, MaintenanceStep, PlacementStep

-----------------------------------------------------------------------------
(***************************************************************************)
(* The bytes, as long as no placement disturbs a writer.                   *)
(***************************************************************************)
\* A step that leaves the catalog's locations, the item that maintenance holds
\* and the retiring runners alone.
LEMMA RemovalsFrame ==
    ASSUME Removals, UNCHANGED loc,
           maint' \in {"retiring", "pack"} => UNCHANGED <<maint, item>>,
           \A q \in Op : run'[q].at = "retiring" => run'[q] = run[q]
    PROVE  Removals'
BY DEF Removals

\* Nothing authorises a file that is about to be removed.
LEMMA RemovalsStep ==
    ASSUME Ledger, Locked, Removals, Next
    PROVE  Removals'
<1>1. ASSUME NEW w \in Writer, NEW h \in Blob, NEW e \in Encoding, Publish(w, h, e)
      PROVE  Removals'
  <2>1. \A q \in Op : run'[q].at = "retiring" => run'[q] = run[q]
    BY <1>1 DEF Publish, TypeOK, Ledger
  <2>2. UNCHANGED loc /\ (maint' \in {"retiring", "pack"} => UNCHANGED <<maint, item>>)
    BY <1>1 DEF Publish, catalog, queues, disk, upkeep, backup
  <2> QED
    BY <2>1, <2>2, RemovalsFrame
<1>2. ASSUME NEW w \in Writer, Commit(w)
      PROVE  Removals'
  <2>1. maint' = "idle" /\ \A q \in Op : run'[q].at # "retiring"
    BY <1>2 DEF Commit, Ledger, Gated, upkeep
  <2> QED
    BY <2>1 DEF Removals
<1>3. ASSUME NEW w \in Writer, Reject(w)
      PROVE  Removals'
  <2>1. \A q \in Op : run'[q].at = "retiring" => run'[q] = run[q]
    BY <1>3 DEF Reject, TypeOK, Ledger
  <2>2. UNCHANGED loc /\ (maint' \in {"retiring", "pack"} => UNCHANGED <<maint, item>>)
    BY <1>3 DEF Reject, catalog, queues, disk, upkeep, backup
  <2> QED
    BY <2>1, <2>2, RemovalsFrame
<1>4. ASSUME NEW w \in Writer, CleanupKeep(w)
      PROVE  Removals'
  <2>1. \A q \in Op : run'[q].at = "retiring" => run'[q] = run[q]
    BY <1>4 DEF CleanupKeep, TypeOK, Ledger, Finished, IdleWriter
  <2>2. UNCHANGED loc /\ (maint' \in {"retiring", "pack"} => UNCHANGED <<maint, item>>)
    BY <1>4 DEF CleanupKeep, catalog, queues, disk, upkeep, backup, Finished, IdleWriter
  <2> QED
    BY <2>1, <2>2, RemovalsFrame
<1>5. ASSUME NEW w \in Writer, CleanupFind(w)
      PROVE  Removals'
  <2>1. \A q \in Op : run'[q].at = "retiring" => run'[q] = run[q]
    BY <1>5 DEF CleanupFind, TypeOK, Ledger
  <2>2. UNCHANGED loc /\ (maint' \in {"retiring", "pack"} => UNCHANGED <<maint, item>>)
    BY <1>5 DEF CleanupFind, catalog, queues, disk, upkeep, backup
  <2> QED
    BY <2>1, <2>2, RemovalsFrame
<1>6. ASSUME NEW w \in Writer, CleanupRemove(w)
      PROVE  Removals'
  <2>1. \A q \in Op : run'[q].at = "retiring" => run'[q] = run[q]
    BY <1>6 DEF CleanupRemove, TypeOK, Ledger, Finished
  <2>2. UNCHANGED loc /\ (maint' \in {"retiring", "pack"} => UNCHANGED <<maint, item>>)
    BY <1>6 DEF CleanupRemove, catalog, queues, disk, upkeep, backup, Finished
  <2> QED
    BY <2>1, <2>2, RemovalsFrame
<1>7. ASSUME NEW h \in Blob, Unreference(h)
      PROVE  Removals'
  <2>1. \A q \in Op : run'[q].at = "retiring" => run'[q] = run[q]
    BY <1>7 DEF Unreference, TypeOK, Ledger
  <2>2. UNCHANGED loc /\ (maint' \in {"retiring", "pack"} => UNCHANGED <<maint, item>>)
    BY <1>7 DEF Unreference, catalog, queues, disk, upkeep, backup
  <2> QED
    BY <2>1, <2>2, RemovalsFrame
<1>8. ASSUME GcStart PROVE Removals'
  <2>1. \A q \in Op : run'[q].at = "retiring" => run'[q] = run[q]
    BY <1>8 DEF GcStart, TypeOK, Ledger
  <2>2. UNCHANGED loc /\ (maint' \in {"retiring", "pack"} => UNCHANGED <<maint, item>>)
    BY <1>8 DEF GcStart, catalog, queues, disk, upkeep, backup
  <2> QED
    BY <2>1, <2>2, RemovalsFrame
<1>9. ASSUME NEW H \in SUBSET Blob, GcDelete(H)
      PROVE  Removals'
  <2>1. \A s \in Store, g \in Blob : loc'[s][g] \in {"none", loc[s][g]}
    BY <1>9 DEF GcDelete
  <2>2. maint' = "gc" /\ UNCHANGED run
    BY <1>9 DEF GcDelete, upkeep
  <2>3. ASSUME NEW q \in Op, run[q].at = "retiring"
        PROVE  loc'[run[q].item[1]][run[q].item[2]] # run[q].item[3]
    <3>1. PICK s \in Store, g \in Blob, e \in Encoding : run[q].item = <<s, g, e>>
      BY <2>3 DEF Ledger, Working, Item
    <3>2. loc[s][g] # e
      BY <2>3, <3>1 DEF Removals
    <3> QED
      BY <2>1, <3>1, <3>2, KindsDiffer
  <2> QED
    BY <2>2, <2>3 DEF Removals
<1>10. ASSUME NEW x \in retirements, GcPrepare(x)
      PROVE  Removals'
  <2>1. CASE reauthorized(x)
    BY <1>10, <2>1 DEF GcPrepare, Removals, catalog, queues, disk, upkeep, backup
  <2>2. CASE ~ reauthorized(x)
    BY <1>10, <2>2 DEF GcPrepare, reauthorized, Removals, catalog, queues, disk, upkeep, backup
  <2> QED
    BY <2>1, <2>2
<1>11. ASSUME GcRetire PROVE Removals'
  <2>1. \A q \in Op : run'[q].at = "retiring" => run'[q] = run[q]
    BY <1>11 DEF GcRetire, TypeOK, Ledger
  <2>2. UNCHANGED loc /\ (maint' \in {"retiring", "pack"} => UNCHANGED <<maint, item>>)
    BY <1>11 DEF GcRetire, catalog, queues, disk, upkeep, backup
  <2> QED
    BY <2>1, <2>2, RemovalsFrame
<1>12. ASSUME GcComplete PROVE Removals'
  <2>1. \A q \in Op : run'[q].at = "retiring" => run'[q] = run[q]
    BY <1>12 DEF GcComplete, TypeOK, Ledger
  <2>2. UNCHANGED loc /\ (maint' \in {"retiring", "pack"} => UNCHANGED <<maint, item>>)
    BY <1>12 DEF GcComplete, catalog, queues, disk, upkeep, backup
  <2> QED
    BY <2>1, <2>2, RemovalsFrame
<1>13. ASSUME GcList PROVE Removals'
  <2>1. \A q \in Op : run'[q].at = "retiring" => run'[q] = run[q]
    BY <1>13 DEF GcList, TypeOK, Ledger
  <2>2. UNCHANGED loc /\ (maint' \in {"retiring", "pack"} => UNCHANGED <<maint, item>>)
    BY <1>13 DEF GcList, catalog, queues, disk, upkeep, backup
  <2> QED
    BY <2>1, <2>2, RemovalsFrame
<1>14. ASSUME NEW h \in Blob, GcSweep(h)
      PROVE  Removals'
  <2>1. \A q \in Op : run'[q].at = "retiring" => run'[q] = run[q]
    BY <1>14 DEF GcSweep, TypeOK, Ledger
  <2>2. UNCHANGED loc /\ (maint' \in {"retiring", "pack"} => UNCHANGED <<maint, item>>)
    BY <1>14 DEF GcSweep, catalog, queues, disk, upkeep, backup
  <2> QED
    BY <2>1, <2>2, RemovalsFrame
<1>15. ASSUME MaintenanceEnd PROVE Removals'
  <2>1. \A q \in Op : run'[q].at = "retiring" => run'[q] = run[q]
    BY <1>15 DEF MaintenanceEnd, TypeOK, Ledger
  <2>2. UNCHANGED loc /\ (maint' \in {"retiring", "pack"} => UNCHANGED <<maint, item>>)
    BY <1>15 DEF MaintenanceEnd, catalog, queues, disk, upkeep, backup
  <2> QED
    BY <2>1, <2>2, RemovalsFrame
<1>16. ASSUME NEW h \in Blob, PackRecord(h)
      PROVE  Removals'
  <2>1. \A q \in Op : run'[q].at # "retiring"
    BY <1>16 DEF PackRecord, NoRetirement
  <2>2. maint' = "pack" /\ item'[1] = Primary /\ item'[2] = h
    BY <1>16 DEF PackRecord
  <2>3. loc'[Primary][h] = "packed"
    BY <1>16 DEF PackRecord, Ledger, TypeOK, CatalogOK, Store
  <2> QED
    BY <2>1, <2>2, <2>3 DEF Removals
<1>17. ASSUME PackUnlink PROVE Removals'
  <2>1. \A q \in Op : run'[q].at = "retiring" => run'[q] = run[q]
    BY <1>17 DEF PackUnlink, TypeOK, Ledger
  <2>2. UNCHANGED loc /\ (maint' \in {"retiring", "pack"} => UNCHANGED <<maint, item>>)
    BY <1>17 DEF PackUnlink, catalog, queues, disk, upkeep, backup
  <2> QED
    BY <2>1, <2>2, RemovalsFrame
<1>18. ASSUME RepackPrune PROVE Removals'
  <2>1. \A q \in Op : run'[q].at = "retiring" => run'[q] = run[q]
    BY <1>18 DEF RepackPrune, TypeOK, Ledger
  <2>2. UNCHANGED loc /\ (maint' \in {"retiring", "pack"} => UNCHANGED <<maint, item>>)
    BY <1>18 DEF RepackPrune, catalog, queues, disk, upkeep, backup
  <2> QED
    BY <2>1, <2>2, RemovalsFrame
<1>19. ASSUME RepackRetire PROVE Removals'
  <2>1. \A q \in Op : run'[q].at = "retiring" => run'[q] = run[q]
    BY <1>19 DEF RepackRetire, TypeOK, Ledger
  <2>2. UNCHANGED loc /\ (maint' \in {"retiring", "pack"} => UNCHANGED <<maint, item>>)
    BY <1>19 DEF RepackRetire, catalog, queues, disk, upkeep, backup
  <2> QED
    BY <2>1, <2>2, RemovalsFrame
<1>20. ASSUME NEW o \in Op, NEW h \in Blob, NEW s \in Store, NEW d \in Store, PlanPlacement(o,
      h, s, d)
      PROVE  Removals'
  <2>1. \A q \in Op : run'[q].at = "retiring" => run'[q] = run[q]
    BY <1>20 DEF PlanPlacement, TypeOK, Ledger
  <2>2. UNCHANGED loc /\ (maint' \in {"retiring", "pack"} => UNCHANGED <<maint, item>>)
    BY <1>20 DEF PlanPlacement, catalog, queues, disk, upkeep, backup
  <2> QED
    BY <2>1, <2>2, RemovalsFrame
<1>21. ASSUME NEW o \in Op, Claim(o)
      PROVE  Removals'
  <2>1. \A q \in Op : run'[q].at = "retiring" => run'[q] = run[q]
    BY <1>21 DEF Claim, TypeOK, Ledger
  <2>2. UNCHANGED loc /\ (maint' \in {"retiring", "pack"} => UNCHANGED <<maint, item>>)
    BY <1>21 DEF Claim, catalog, queues, disk, upkeep, backup
  <2> QED
    BY <2>1, <2>2, RemovalsFrame
<1>22. ASSUME NEW o \in Op, NEW x \in cleanup[o], CleanupPrepare(o, x)
      PROVE  Removals'
  <2>1. CASE loc[x[1]][x[2]] = x[3]
    BY <1>22, <2>1 DEF CleanupPrepare, Removals, catalog, queues, disk, upkeep, backup
  <2>2. CASE loc[x[1]][x[2]] # x[3]
    <3>1. /\ run' = [run EXCEPT ![o].at = "retiring", ![o].item = x]
          /\ UNCHANGED <<loc, maint, item>>
      BY <1>22, <2>2 DEF CleanupPrepare, catalog, upkeep
    <3> QED
      BY <2>2, <3>1 DEF Removals, TypeOK, Ledger
  <2> QED
    BY <2>1, <2>2
<1>23. ASSUME NEW o \in Op, CleanupRetire(o)
      PROVE  Removals'
  <2>1. \A q \in Op : run'[q].at = "retiring" => run'[q] = run[q]
    BY <1>23 DEF CleanupRetire, TypeOK, Ledger
  <2>2. UNCHANGED loc /\ (maint' \in {"retiring", "pack"} => UNCHANGED <<maint, item>>)
    BY <1>23 DEF CleanupRetire, catalog, queues, disk, upkeep, backup
  <2> QED
    BY <2>1, <2>2, RemovalsFrame
<1>24. ASSUME NEW o \in Op, CleanupComplete(o)
      PROVE  Removals'
  <2>1. \A q \in Op : run'[q].at = "retiring" => run'[q] = run[q]
    BY <1>24 DEF CleanupComplete, TypeOK, Ledger
  <2>2. UNCHANGED loc /\ (maint' \in {"retiring", "pack"} => UNCHANGED <<maint, item>>)
    BY <1>24 DEF CleanupComplete, catalog, queues, disk, upkeep, backup
  <2> QED
    BY <2>1, <2>2, RemovalsFrame
<1>25. ASSUME NEW o \in Op, PlaceLock(o)
      PROVE  Removals'
  <2>1. \A q \in Op : run'[q].at = "retiring" => run'[q] = run[q]
    BY <1>25 DEF PlaceLock, TypeOK, Ledger
  <2>2. UNCHANGED loc /\ (maint' \in {"retiring", "pack"} => UNCHANGED <<maint, item>>)
    BY <1>25 DEF PlaceLock, catalog, queues, disk, upkeep, backup
  <2> QED
    BY <2>1, <2>2, RemovalsFrame
<1>26. ASSUME NEW o \in Op, NEW e \in Encoding, PlaceMove(o, e)
      PROVE  Removals'
  <2>1. \A q \in Op : run'[q].at = "retiring" => run'[q] = run[q]
    BY <1>26 DEF PlaceMove, TypeOK, Ledger
  <2>2. UNCHANGED loc /\ (maint' \in {"retiring", "pack"} => UNCHANGED <<maint, item>>)
    BY <1>26 DEF PlaceMove, catalog, queues, disk, upkeep, backup
  <2> QED
    BY <2>1, <2>2, RemovalsFrame
<1>27. ASSUME NEW o \in Op, PlaceVerify(o)
      PROVE  Removals'
  <2>1. \A q \in Op : run'[q].at = "retiring" => run'[q] = run[q]
    BY <1>27 DEF PlaceVerify, TypeOK, Ledger
  <2>2. UNCHANGED loc /\ (maint' \in {"retiring", "pack"} => UNCHANGED <<maint, item>>)
    BY <1>27 DEF PlaceVerify, catalog, queues, disk, upkeep, backup
  <2> QED
    BY <2>1, <2>2, RemovalsFrame
<1>28. ASSUME NEW o \in Op, NEW retire \in BOOLEAN, PlaceCommit(o, retire)
      PROVE  Removals'
  <2>1. maint' = "idle"
    BY <1>28 DEF PlaceCommit, Ledger, Gated, upkeep
  <2>2. ASSUME NEW q \in Op, run'[q].at = "retiring"
        PROVE  loc'[run'[q].item[1]][run'[q].item[2]] # run'[q].item[3]
    <3>1. q # o /\ run'[q] = run[q] /\ run[q].at = "retiring"
      BY <1>28, <2>2 DEF PlaceCommit, Ledger, TypeOK
    <3>2. PICK s \in Store, g \in Blob, e \in Encoding : run[q].item = <<s, g, e>>
      BY <3>1 DEF Ledger, Working, Item
    <3>3. ~ (op[o].dst = s /\ op[o].blob = g)
      <4>1. SUFFICES ASSUME op[o].dst = s, op[o].blob = g PROVE FALSE
        OBVIOUS
      <4>2. Claims(o, s, g)
        BY <1>28, <4>1 DEF PlaceCommit, Claims
      <4>3. Claims(q, s, g)
        BY <3>1, <3>2 DEF Claims
      <4> QED
        BY <3>1, <4>2, <4>3 DEF Locked
    <3>4. loc'[s][g] \in {"none", loc[s][g]}
      BY <1>28, <3>3, PlaceCommitLocations DEF Ledger
    <3>5. loc[s][g] # e
      BY <3>1, <3>2 DEF Removals
    <3> QED
      BY <3>1, <3>2, <3>4, <3>5, KindsDiffer
  <2> QED
    BY <2>1, <2>2 DEF Removals
<1>29. ASSUME NEW o \in Op, Advance(o)
      PROVE  Removals'
  <2>1. \A q \in Op : run'[q].at = "retiring" => run'[q] = run[q]
    BY <1>29 DEF Advance, TypeOK, Ledger
  <2>2. UNCHANGED loc /\ (maint' \in {"retiring", "pack"} => UNCHANGED <<maint, item>>)
    BY <1>29 DEF Advance, catalog, queues, disk, upkeep, backup
  <2> QED
    BY <2>1, <2>2, RemovalsFrame
<1>30. ASSUME NEW o \in Op, Complete(o)
      PROVE  Removals'
  <2>1. \A q \in Op : run'[q].at = "retiring" => run'[q] = run[q]
    BY <1>30 DEF Complete, TypeOK, Ledger, Finish, NoRun
  <2>2. UNCHANGED loc /\ (maint' \in {"retiring", "pack"} => UNCHANGED <<maint, item>>)
    BY <1>30 DEF Complete, catalog, queues, disk, upkeep, backup, Finish, NoRun
  <2> QED
    BY <2>1, <2>2, RemovalsFrame
<1>31. ASSUME NEW o \in Op, Fail(o)
      PROVE  Removals'
  <2>1. \A q \in Op : run'[q].at = "retiring" => run'[q] = run[q]
    BY <1>31 DEF Fail, TypeOK, Ledger, Finish, NoRun
  <2>2. UNCHANGED loc /\ (maint' \in {"retiring", "pack"} => UNCHANGED <<maint, item>>)
    BY <1>31 DEF Fail, catalog, queues, disk, upkeep, backup, Finish, NoRun
  <2> QED
    BY <2>1, <2>2, RemovalsFrame
<1>32. ASSUME NEW o \in Op, Defer(o)
      PROVE  Removals'
  <2>1. \A q \in Op : run'[q].at = "retiring" => run'[q] = run[q]
    BY <1>32 DEF Defer, TypeOK, Ledger, NoRun
  <2>2. UNCHANGED loc /\ (maint' \in {"retiring", "pack"} => UNCHANGED <<maint, item>>)
    BY <1>32 DEF Defer, catalog, queues, disk, upkeep, backup, NoRun
  <2> QED
    BY <2>1, <2>2, RemovalsFrame
<1>33. ASSUME CaptureBegin PROVE Removals'
  <2>1. \A q \in Op : run'[q].at = "retiring" => run'[q] = run[q]
    BY <1>33 DEF CaptureBegin, TypeOK, Ledger
  <2>2. UNCHANGED loc /\ (maint' \in {"retiring", "pack"} => UNCHANGED <<maint, item>>)
    BY <1>33 DEF CaptureBegin, catalog, queues, disk, upkeep, backup
  <2> QED
    BY <2>1, <2>2, RemovalsFrame
<1>34. ASSUME CaptureEnd PROVE Removals'
  <2>1. \A q \in Op : run'[q].at = "retiring" => run'[q] = run[q]
    BY <1>34 DEF CaptureEnd, TypeOK, Ledger
  <2>2. UNCHANGED loc /\ (maint' \in {"retiring", "pack"} => UNCHANGED <<maint, item>>)
    BY <1>34 DEF CaptureEnd, catalog, queues, disk, upkeep, backup
  <2> QED
    BY <2>1, <2>2, RemovalsFrame
<1>35. ASSUME Crash PROVE Removals'
  <2>1. \A q \in Op : run'[q].at = "retiring" => run'[q] = run[q]
    BY <1>35 DEF Crash, TypeOK, Ledger, IdleWriter, NoRun
  <2>2. UNCHANGED loc /\ (maint' \in {"retiring", "pack"} => UNCHANGED <<maint, item>>)
    BY <1>35 DEF Crash, catalog, queues, disk, upkeep, backup, IdleWriter, NoRun
  <2> QED
    BY <2>1, <2>2, RemovalsFrame
<1> QED
  BY <1>1, <1>2, <1>3, <1>4, <1>5, <1>6, <1>7, <1>8, <1>9, <1>10, <1>11, <1>12, <1>13,
     <1>14, <1>15, <1>16, <1>17, <1>18, <1>19, <1>20, <1>21, <1>22, <1>23, <1>24, <1>25,
     <1>26, <1>27, <1>28, <1>29, <1>30, <1>31, <1>32, <1>33, <1>34, <1>35
     DEF Next, WriterStep, MaintenanceStep, PlacementStep

\* A step that leaves locations and files alone, and of the writers and runners
\* those that are about to grant authority or to remove.
LEMMA BytesFrame ==
    ASSUME Bytes, UNCHANGED <<loc, mapped, loose, packBytes>>,
           \A w \in Writer : wr'[w].at \in {"published", "removing"} => wr'[w] = wr[w],
           \A q \in Op : run'[q].at = "verified" => run'[q] = run[q] /\ op'[q] = op[q]
    PROVE  Bytes'
<1>1. (PackedBytes /\ LooseAuthorityKept /\ WriterBytes /\ WriterRemoval)'
  BY DEF Bytes, PackedBytes, LooseAuthorityKept, WriterBytes, WriterRemoval
<1>2. VerifiedBytes'
  BY DEF Bytes, VerifiedBytes, Physical
<1> QED
  BY <1>1, <1>2 DEF Bytes

\* A step of maintenance: nobody is about to grant authority.
LEMMA BytesQuiet ==
    ASSUME PackedBytes', LooseAuthorityKept', UNCHANGED <<wr, run>>,
           \A w \in Writer : wr[w].at = "idle", \A q \in Op : run[q].at # "verified"
    PROVE  Bytes'
BY DEF Bytes, WriterBytes, VerifiedBytes, WriterRemoval

\* Every undisturbed step leaves every authority its bytes.
LEMMA BytesStep ==
    ASSUME IInv, Undisturbed, Next
    PROVE  Bytes'
<1>1. ASSUME NEW w \in Writer, NEW h \in Blob, NEW e \in Encoding, Publish(w, h, e)
      PROVE  Bytes'
  <2>1. /\ loose' = loose \cup {<<Primary, h, e>>}
        /\ UNCHANGED <<loc, mapped, packBytes, run, op>>
    BY <1>1 DEF Publish, catalog, queues
  <2>2. WriterBytes' /\ WriterRemoval'
    BY <1>1, <2>1 DEF Publish, IInv, Bytes, WriterBytes, WriterRemoval, Ledger, TypeOK
  <2>3. VerifiedBytes'
    BY <2>1 DEF IInv, Bytes, VerifiedBytes, Physical
  <2>4. PackedBytes' /\ LooseAuthorityKept'
    BY <2>1 DEF IInv, Bytes, PackedBytes, LooseAuthorityKept
  <2> QED
    BY <2>2, <2>3, <2>4 DEF Bytes
<1>2. ASSUME NEW w \in Writer, Commit(w)
      PROVE  Bytes'
  <2> DEFINE h == wr[w].blob
             e == wr[w].enc
  <2>1. h \in Blob /\ e \in Encoding /\ Primary \in Store
    BY <1>2 DEF Commit, IInv, Ledger, Working, Store
  <2>2. /\ UNCHANGED <<loose, packBytes, run, op>> /\ wr[w].at = "published"
        /\ \A v \in Writer : wr'[v].at \in {"published", "removing"} => wr'[v] = wr[v]
    BY <1>2 DEF Commit, disk, queues, IInv, Ledger, TypeOK
  <2>3. CASE covers(h, e) /\ UNCHANGED <<loc, mapped>>
    BY <2>2, <2>3, BytesFrame DEF IInv
  <2>4. CASE adopts(h, e, wr[w].created) /\ writeLooseLocation(h, e)
    <3>1. loc[Primary][h] # "packed"
      BY <2>1, <2>4, KindsDiffer DEF adopts, IInv, Ledger, Tables
    <3>2. <<Primary, h, e>> \in loose
      BY <2>2, <3>1 DEF IInv, Bytes, WriterBytes
    <3> HIDE DEF h, e
    <3>3. /\ \A s \in Store, g \in Blob :
               loc'[s][g] = IF s = Primary /\ g = h THEN e ELSE loc[s][g]
          /\ mapped' = mapped \ {h}
      BY <2>1, <2>4 DEF writeLooseLocation, IInv, Ledger, TypeOK, CatalogOK
    <3>4. \A g \in Blob : loc[Primary][g] = "packed" => loc'[Primary][g] = "packed"
      BY <2>1, <3>1, <3>3
    <3>5. PackedBytes' /\ LooseAuthorityKept'
      BY <2>2, <3>2, <3>3 DEF IInv, Bytes, PackedBytes, LooseAuthorityKept
    <3>6. WriterBytes' /\ WriterRemoval'
      <4>1. \A v \in Writer : wr[v].at # "idle" => wr[v].blob \in Blob
        BY DEF IInv, Ledger, Working
      <4> QED
        BY <2>2, <3>4, <4>1 DEF IInv, Bytes, WriterBytes, WriterRemoval
    <3>7. VerifiedBytes'
      <4>1. \A q \in Op : run[q].at = "verified" => op[q].blob \in Blob
        BY DEF IInv, Ledger, Working
      <4> QED
        BY <2>2, <3>4, <4>1 DEF IInv, Bytes, VerifiedBytes, Physical
    <3> QED
      BY <3>5, <3>6, <3>7 DEF Bytes
  <2> QED
    BY <1>2, <2>3, <2>4 DEF Commit
<1>3. ASSUME NEW w \in Writer, Reject(w)
      PROVE  Bytes'
  <2>1. \A q \in Op : run'[q].at = "verified" => run'[q] = run[q] /\ op'[q] = op[q]
    BY <1>3 DEF Reject, IInv, Ledger, TypeOK, CatalogOK, Working, queues
  <2>2. \A v \in Writer : wr'[v].at \in {"published", "removing"} => wr'[v] = wr[v]
    BY <1>3 DEF Reject, IInv, Ledger, TypeOK
  <2>3. UNCHANGED <<loc, mapped, loose, packBytes>>
    BY <1>3 DEF Reject, catalog, disk
  <2> QED
    BY <2>1, <2>2, <2>3, BytesFrame DEF IInv
<1>4. ASSUME NEW w \in Writer, CleanupKeep(w)
      PROVE  Bytes'
  <2>1. \A q \in Op : run'[q].at = "verified" => run'[q] = run[q] /\ op'[q] = op[q]
    BY <1>4 DEF CleanupKeep, IInv, Ledger, TypeOK, CatalogOK, Working, queues, Finished,
          IdleWriter
  <2>2. \A v \in Writer : wr'[v].at \in {"published", "removing"} => wr'[v] = wr[v]
    BY <1>4 DEF CleanupKeep, IInv, Ledger, TypeOK, Finished, IdleWriter
  <2>3. UNCHANGED <<loc, mapped, loose, packBytes>>
    BY <1>4 DEF CleanupKeep, catalog, disk, Finished, IdleWriter
  <2> QED
    BY <2>1, <2>2, <2>3, BytesFrame DEF IInv
<1>5. ASSUME NEW w \in Writer, CleanupFind(w)
      PROVE  Bytes'
  <2>1. UNCHANGED <<loc, mapped, loose, packBytes, run, op>>
    BY <1>5 DEF CleanupFind, catalog, disk, queues
  <2>2. WriterBytes' /\ WriterRemoval'
    BY <1>5, <2>1 DEF CleanupFind, IInv, Bytes, WriterBytes, WriterRemoval, Ledger, TypeOK
  <2>3. VerifiedBytes'
    BY <2>1 DEF IInv, Bytes, VerifiedBytes, Physical
  <2>4. PackedBytes' /\ LooseAuthorityKept'
    BY <2>1 DEF IInv, Bytes, PackedBytes, LooseAuthorityKept
  <2> QED
    BY <2>2, <2>3, <2>4 DEF Bytes
<1>6. ASSUME NEW w \in Writer, CleanupRemove(w)
      PROVE  Bytes'
  <2> DEFINE h == wr[w].blob
  <2>1. h \in Blob /\ loc[Primary][h] = "packed"
    BY <1>6 DEF CleanupRemove, IInv, Ledger, Working, Bytes, WriterRemoval
  <2>2. /\ loose' = loose \ Files(Primary, h)
        /\ UNCHANGED <<loc, mapped, packBytes, run, op>>
        /\ \A v \in Writer : wr'[v].at # "idle" => wr'[v] = wr[v]
    BY <1>6 DEF CleanupRemove, Finished, IdleWriter, catalog, queues, IInv, Ledger, TypeOK
  <2> HIDE DEF h
  <2>3. \A s \in Store, g \in Blob, e \in Encoding :
          <<s, g, e>> \in loose => <<s, g, e>> \in loose' \/ (s = Primary /\ g = h)
    BY <2>2 DEF Files
  <2>4. LooseAuthorityKept'
    BY <2>1, <2>2, <2>3, KindsDiffer DEF IInv, Bytes, LooseAuthorityKept
  <2>5. WriterBytes' /\ WriterRemoval'
    <3>1. \A v \in Writer : wr[v].at # "idle" => wr[v].blob \in Blob /\ wr[v].enc \in Encoding
      BY DEF IInv, Ledger, Working
    <3> QED
      BY <2>1, <2>2, <2>3, <3>1 DEF IInv, Bytes, WriterBytes, WriterRemoval, Store
  <2>6. VerifiedBytes'
    <3>1. ASSUME NEW q \in Op, run[q].at = "verified", NEW k \in Kind, k = run[q].dest
          PROVE  \/ Physical(op[q].dst, op[q].blob, k)'
                 \/ op[q].dst = Primary /\ k # "packed" /\ loc[Primary][op[q].blob] = "packed"
      <4>1. op[q].blob \in Blob /\ op[q].dst \in Store /\ k # "none"
        BY <3>1 DEF IInv, Ledger, Working, TypeOK, CatalogOK, Plan
      <4>2. \/ Physical(op[q].dst, op[q].blob, k)
            \/ op[q].dst = Primary /\ k # "packed" /\ loc[Primary][op[q].blob] = "packed"
        BY <3>1 DEF IInv, Bytes, VerifiedBytes
      <4>3. CASE k = "packed"
        BY <2>2, <4>2, <4>3 DEF Physical
      <4>4. CASE k \in Encoding
        BY <2>1, <2>2, <2>3, <4>1, <4>2, <4>4, KindsDiffer DEF Physical
      <4> QED
        BY <3>1, <4>1, <4>3, <4>4 DEF Kind
    <3>2. \A q \in Op : run[q].dest \in Kind
      BY DEF IInv, Ledger, TypeOK
    <3> QED
      BY <2>2, <3>1, <3>2 DEF VerifiedBytes
  <2>7. PackedBytes'
    BY <2>2 DEF IInv, Bytes, PackedBytes
  <2> QED
    BY <2>4, <2>5, <2>6, <2>7 DEF Bytes
<1>7. ASSUME NEW h \in Blob, Unreference(h)
      PROVE  Bytes'
  <2>1. \A q \in Op : run'[q].at = "verified" => run'[q] = run[q] /\ op'[q] = op[q]
    BY <1>7 DEF Unreference, IInv, Ledger, TypeOK, CatalogOK, Working, queues
  <2>2. \A v \in Writer : wr'[v].at \in {"published", "removing"} => wr'[v] = wr[v]
    BY <1>7 DEF Unreference, IInv, Ledger, TypeOK
  <2>3. UNCHANGED <<loc, mapped, loose, packBytes>>
    BY <1>7 DEF Unreference, catalog, disk
  <2> QED
    BY <2>1, <2>2, <2>3, BytesFrame DEF IInv
<1>8. ASSUME GcStart PROVE Bytes'
  <2>1. \A q \in Op : run'[q].at = "verified" => run'[q] = run[q] /\ op'[q] = op[q]
    BY <1>8 DEF GcStart, IInv, Ledger, TypeOK, CatalogOK, Working, queues
  <2>2. \A v \in Writer : wr'[v].at \in {"published", "removing"} => wr'[v] = wr[v]
    BY <1>8 DEF GcStart, IInv, Ledger, TypeOK
  <2>3. UNCHANGED <<loc, mapped, loose, packBytes>>
    BY <1>8 DEF GcStart, catalog, disk
  <2> QED
    BY <2>1, <2>2, <2>3, BytesFrame DEF IInv
<1>9. ASSUME NEW H \in SUBSET Blob, GcDelete(H)
      PROVE  Bytes'
  <2>1. /\ \A w \in Writer : wr[w].at = "idle"
        /\ \A q \in Op : run[q].at # "verified"
        /\ UNCHANGED <<wr, run>>
    BY <1>9 DEF GcDelete, IInv, Ledger, Gated
  <2>2. PackedBytes'
    BY <1>9 DEF GcDelete, IInv, Bytes, PackedBytes, catalog, disk
  <2>3. LooseAuthorityKept'
    <3>1. ASSUME NEW s \in Store, NEW g \in Blob, loc'[s][g] \in Encoding
          PROVE  <<s, g, loc'[s][g]>> \in loose'
      <4>1. loc'[s][g] = loc[s][g] /\ UNCHANGED loose
        BY <1>9, <3>1, KindsDiffer DEF GcDelete, disk
      <4> QED
        BY <3>1, <4>1 DEF IInv, Bytes, LooseAuthorityKept
    <3> QED
      BY <3>1 DEF LooseAuthorityKept
  <2> QED
    BY <2>1, <2>2, <2>3, BytesQuiet
<1>10. ASSUME NEW x \in retirements, GcPrepare(x)
      PROVE  Bytes'
  <2>1. \A q \in Op : run'[q].at = "verified" => run'[q] = run[q] /\ op'[q] = op[q]
    BY <1>10 DEF GcPrepare, IInv, Ledger, TypeOK, CatalogOK, Working, queues
  <2>2. \A v \in Writer : wr'[v].at \in {"published", "removing"} => wr'[v] = wr[v]
    BY <1>10 DEF GcPrepare, IInv, Ledger, TypeOK
  <2>3. UNCHANGED <<loc, mapped, loose, packBytes>>
    BY <1>10 DEF GcPrepare, catalog, disk
  <2> QED
    BY <2>1, <2>2, <2>3, BytesFrame DEF IInv
<1>11. ASSUME GcRetire PROVE Bytes'
  <2>1. /\ \A w \in Writer : wr[w].at = "idle"
        /\ \A q \in Op : run[q].at # "verified"
        /\ UNCHANGED <<wr, run>>
    BY <1>11 DEF GcRetire, IInv, Ledger, Gated
  <2>2. PackedBytes'
    BY <1>11 DEF GcRetire, IInv, Bytes, PackedBytes, catalog, disk
  <2>3. LooseAuthorityKept'
    <3>1. PICK t \in Store, h \in Blob, e \in Encoding : item = <<t, h, e>>
      BY <1>11 DEF GcRetire, IInv, Ledger, Working, Item
    <3>2. loc[t][h] = "none" /\ UNCHANGED loc
      BY <1>11, <3>1 DEF GcRetire, IInv, Removals, catalog
    <3>3. ASSUME NEW s \in Store, NEW g \in Blob, ~ (s = t /\ g = h), NEW f \in Encoding,
                 <<s, g, f>> \in loose
          PROVE  <<s, g, f>> \in loose'
      BY <1>11, <3>1, <3>3 DEF GcRetire, Files
    <3> QED
      BY <3>2, <3>3, KindsDiffer DEF IInv, Bytes, LooseAuthorityKept
  <2> QED
    BY <2>1, <2>2, <2>3, BytesQuiet
<1>12. ASSUME GcComplete PROVE Bytes'
  <2>1. \A q \in Op : run'[q].at = "verified" => run'[q] = run[q] /\ op'[q] = op[q]
    BY <1>12 DEF GcComplete, IInv, Ledger, TypeOK, CatalogOK, Working, queues
  <2>2. \A v \in Writer : wr'[v].at \in {"published", "removing"} => wr'[v] = wr[v]
    BY <1>12 DEF GcComplete, IInv, Ledger, TypeOK
  <2>3. UNCHANGED <<loc, mapped, loose, packBytes>>
    BY <1>12 DEF GcComplete, catalog, disk
  <2> QED
    BY <2>1, <2>2, <2>3, BytesFrame DEF IInv
<1>13. ASSUME GcList PROVE Bytes'
  <2>1. \A q \in Op : run'[q].at = "verified" => run'[q] = run[q] /\ op'[q] = op[q]
    BY <1>13 DEF GcList, IInv, Ledger, TypeOK, CatalogOK, Working, queues
  <2>2. \A v \in Writer : wr'[v].at \in {"published", "removing"} => wr'[v] = wr[v]
    BY <1>13 DEF GcList, IInv, Ledger, TypeOK
  <2>3. UNCHANGED <<loc, mapped, loose, packBytes>>
    BY <1>13 DEF GcList, catalog, disk
  <2> QED
    BY <2>1, <2>2, <2>3, BytesFrame DEF IInv
<1>14. ASSUME NEW h \in Blob, GcSweep(h)
      PROVE  Bytes'
  <2>1. /\ \A w \in Writer : wr[w].at = "idle"
        /\ \A q \in Op : run[q].at # "verified"
        /\ UNCHANGED <<wr, run>>
    BY <1>14 DEF GcSweep, IInv, Ledger, Gated
  <2>2. PackedBytes'
    BY <1>14 DEF GcSweep, IInv, Bytes, PackedBytes, catalog, disk
  <2>3. LooseAuthorityKept'
    <3>1. ASSUME NEW s \in Store, NEW g \in Blob, loc[s][g] \in Encoding
          PROVE  <<s, g, loc[s][g]>> \in loose'
      <4>1. <<s, g, loc[s][g]>> \in loose
        BY <3>1 DEF IInv, Bytes, LooseAuthorityKept
      <4>2. CASE tracked(h)
        BY <1>14, <4>1, <4>2 DEF GcSweep
      <4>3. CASE ~ tracked(h)
        <5>1. ~ (s = Primary /\ g = h)
          BY <3>1, <4>3 DEF tracked
        <5> QED
          BY <1>14, <4>1, <4>3, <5>1 DEF GcSweep, Files
      <4> QED
        BY <4>2, <4>3
    <3> QED
      BY <1>14, <3>1 DEF GcSweep, LooseAuthorityKept, catalog
  <2> QED
    BY <2>1, <2>2, <2>3, BytesQuiet
<1>15. ASSUME MaintenanceEnd PROVE Bytes'
  <2>1. \A q \in Op : run'[q].at = "verified" => run'[q] = run[q] /\ op'[q] = op[q]
    BY <1>15 DEF MaintenanceEnd, IInv, Ledger, TypeOK, CatalogOK, Working, queues
  <2>2. \A v \in Writer : wr'[v].at \in {"published", "removing"} => wr'[v] = wr[v]
    BY <1>15 DEF MaintenanceEnd, IInv, Ledger, TypeOK
  <2>3. UNCHANGED <<loc, mapped, loose, packBytes>>
    BY <1>15 DEF MaintenanceEnd, catalog, disk
  <2> QED
    BY <2>1, <2>2, <2>3, BytesFrame DEF IInv
<1>16. ASSUME NEW h \in Blob, PackRecord(h)
      PROVE  Bytes'
  <2>1. /\ \A w \in Writer : wr[w].at = "idle"
        /\ \A q \in Op : run[q].at # "verified"
        /\ UNCHANGED <<wr, run>>
    BY <1>16 DEF PackRecord, GateIdle, NoCommit
  <2>2. PackedBytes'
    BY <1>16 DEF PackRecord, IInv, Bytes, PackedBytes
  <2>3. LooseAuthorityKept'
    <3>1. ASSUME NEW s \in Store, NEW g \in Blob, loc'[s][g] \in Encoding
          PROVE  loc'[s][g] = loc[s][g]
      BY <1>16, <3>1, KindsDiffer DEF PackRecord, IInv, Ledger, TypeOK, CatalogOK, Store
    <3> QED
      BY <1>16, <3>1 DEF PackRecord, IInv, Bytes, LooseAuthorityKept
  <2> QED
    BY <2>1, <2>2, <2>3, BytesQuiet
<1>17. ASSUME PackUnlink PROVE Bytes'
  <2>1. /\ \A w \in Writer : wr[w].at = "idle"
        /\ \A q \in Op : run[q].at # "verified"
        /\ UNCHANGED <<wr, run>>
    BY <1>17 DEF PackUnlink, IInv, Ledger, Gated
  <2>2. PackedBytes'
    BY <1>17 DEF PackUnlink, IInv, Bytes, PackedBytes, catalog, disk
  <2>3. LooseAuthorityKept'
    <3>1. PICK t \in Store, h \in Blob, e \in Encoding : item = <<t, h, e>>
      BY <1>17 DEF PackUnlink, IInv, Ledger, Working, Item
    <3>2. loc[t][h] = "packed" /\ UNCHANGED loc
      BY <1>17, <3>1 DEF PackUnlink, IInv, Removals, catalog
    <3>3. loose' = loose \ {<<t, h, e>>}
      BY <1>17, <3>1 DEF PackUnlink
    <3> QED
      BY <3>2, <3>3, KindsDiffer DEF IInv, Bytes, LooseAuthorityKept
  <2> QED
    BY <2>1, <2>2, <2>3, BytesQuiet
<1>18. ASSUME RepackPrune PROVE Bytes'
  <2>1. /\ \A w \in Writer : wr[w].at = "idle"
        /\ \A q \in Op : run[q].at # "verified"
        /\ UNCHANGED <<wr, run>>
    BY <1>18 DEF RepackPrune, GateIdle, NoCommit
  <2>2. PackedBytes'
    BY <1>18 DEF RepackPrune, IInv, Bytes, PackedBytes, catalog, disk
  <2>3. LooseAuthorityKept'
    BY <1>18 DEF RepackPrune, IInv, Bytes, LooseAuthorityKept, catalog, disk
  <2> QED
    BY <2>1, <2>2, <2>3, BytesQuiet
<1>19. ASSUME RepackRetire PROVE Bytes'
  <2>1. /\ \A w \in Writer : wr[w].at = "idle"
        /\ \A q \in Op : run[q].at # "verified"
        /\ UNCHANGED <<wr, run>>
    BY <1>19 DEF RepackRetire, IInv, Ledger, Gated
  <2>2. PackedBytes'
    BY <1>19 DEF RepackRetire, IInv, Bytes, PackedBytes, catalog, disk
  <2>3. LooseAuthorityKept'
    BY <1>19 DEF RepackRetire, IInv, Bytes, LooseAuthorityKept, catalog, disk
  <2> QED
    BY <2>1, <2>2, <2>3, BytesQuiet
<1>20. ASSUME NEW o \in Op, NEW h \in Blob, NEW s \in Store, NEW d \in Store, PlanPlacement(o,
      h, s, d)
      PROVE  Bytes'
  <2>1. \A q \in Op : run'[q].at = "verified" => run'[q] = run[q] /\ op'[q] = op[q]
    BY <1>20 DEF PlanPlacement, IInv, Ledger, TypeOK, CatalogOK, Working, queues
  <2>2. \A v \in Writer : wr'[v].at \in {"published", "removing"} => wr'[v] = wr[v]
    BY <1>20 DEF PlanPlacement, IInv, Ledger, TypeOK
  <2>3. UNCHANGED <<loc, mapped, loose, packBytes>>
    BY <1>20 DEF PlanPlacement, catalog, disk
  <2> QED
    BY <2>1, <2>2, <2>3, BytesFrame DEF IInv
<1>21. ASSUME NEW o \in Op, Claim(o)
      PROVE  Bytes'
  <2>1. \A q \in Op : run'[q].at = "verified" => run'[q] = run[q] /\ op'[q] = op[q]
    BY <1>21 DEF Claim, IInv, Ledger, TypeOK, CatalogOK, Working, queues
  <2>2. \A v \in Writer : wr'[v].at \in {"published", "removing"} => wr'[v] = wr[v]
    BY <1>21 DEF Claim, IInv, Ledger, TypeOK
  <2>3. UNCHANGED <<loc, mapped, loose, packBytes>>
    BY <1>21 DEF Claim, catalog, disk
  <2> QED
    BY <2>1, <2>2, <2>3, BytesFrame DEF IInv
<1>22. ASSUME NEW o \in Op, NEW x \in cleanup[o], CleanupPrepare(o, x)
      PROVE  Bytes'
  <2>1. \A q \in Op : run'[q].at = "verified" => run'[q] = run[q] /\ op'[q] = op[q]
    BY <1>22 DEF CleanupPrepare, IInv, Ledger, TypeOK, CatalogOK, Working, queues
  <2>2. \A v \in Writer : wr'[v].at \in {"published", "removing"} => wr'[v] = wr[v]
    BY <1>22 DEF CleanupPrepare, IInv, Ledger, TypeOK
  <2>3. UNCHANGED <<loc, mapped, loose, packBytes>>
    BY <1>22 DEF CleanupPrepare, catalog, disk
  <2> QED
    BY <2>1, <2>2, <2>3, BytesFrame DEF IInv
<1>23. ASSUME NEW o \in Op, CleanupRetire(o)
      PROVE  Bytes'
  <2>0. PICK t \in Store, h \in Blob, f \in Encoding : run[o].item = <<t, h, f>>
    BY <1>23 DEF CleanupRetire, IInv, Ledger, Working, Item
  <2>1. /\ \A v \in Writer : wr[v].at = "idle"
        /\ loose' = loose \ {<<t, h, f>>}
        /\ UNCHANGED <<loc, mapped, packBytes, wr, op>>
        /\ \A q \in Op : run'[q].at = "verified" => run'[q] = run[q] /\ q # o
    BY <1>23, <2>0 DEF CleanupRetire, IInv, Ledger, Gated, TypeOK, catalog, queues
  <2>2. LooseAuthorityKept'
    <3>1. loc[t][h] # f
      BY <1>23, <2>0 DEF CleanupRetire, IInv, Removals
    <3> QED
      BY <2>1, <3>1 DEF IInv, Bytes, LooseAuthorityKept
  <2>3. ASSUME NEW q \in Op, run'[q].at = "verified"
        PROVE  ~ (op[q].dst = t /\ op[q].blob = h)
    <3>1. SUFFICES ASSUME op[q].dst = t, op[q].blob = h PROVE FALSE
      OBVIOUS
    <3>2. Claims(q, t, h)
      BY <2>1, <2>3, <3>1 DEF Claims
    <3>3. Claims(o, t, h)
      BY <1>23, <2>0 DEF Claims, CleanupRetire
    <3> QED
      BY <2>1, <2>3, <3>2, <3>3 DEF IInv, Locked
  <2>4. VerifiedBytes'
    BY <2>1, <2>3 DEF IInv, Bytes, VerifiedBytes, Physical
  <2>5. PackedBytes' /\ WriterBytes' /\ WriterRemoval'
    BY <2>1 DEF IInv, Bytes, PackedBytes, WriterBytes, WriterRemoval
  <2> QED
    BY <2>2, <2>4, <2>5 DEF Bytes
<1>24. ASSUME NEW o \in Op, CleanupComplete(o)
      PROVE  Bytes'
  <2>1. \A q \in Op : run'[q].at = "verified" => run'[q] = run[q] /\ op'[q] = op[q]
    BY <1>24 DEF CleanupComplete, IInv, Ledger, TypeOK, CatalogOK, Working, queues
  <2>2. \A v \in Writer : wr'[v].at \in {"published", "removing"} => wr'[v] = wr[v]
    BY <1>24 DEF CleanupComplete, IInv, Ledger, TypeOK
  <2>3. UNCHANGED <<loc, mapped, loose, packBytes>>
    BY <1>24 DEF CleanupComplete, catalog, disk
  <2> QED
    BY <2>1, <2>2, <2>3, BytesFrame DEF IInv
<1>25. ASSUME NEW o \in Op, PlaceLock(o)
      PROVE  Bytes'
  <2>1. \A q \in Op : run'[q].at = "verified" => run'[q] = run[q] /\ op'[q] = op[q]
    BY <1>25 DEF PlaceLock, IInv, Ledger, TypeOK, CatalogOK, Working, queues
  <2>2. \A v \in Writer : wr'[v].at \in {"published", "removing"} => wr'[v] = wr[v]
    BY <1>25 DEF PlaceLock, IInv, Ledger, TypeOK
  <2>3. UNCHANGED <<loc, mapped, loose, packBytes>>
    BY <1>25 DEF PlaceLock, catalog, disk
  <2> QED
    BY <2>1, <2>2, <2>3, BytesFrame DEF IInv
<1>26. ASSUME NEW o \in Op, NEW e \in Encoding, PlaceMove(o, e)
      PROVE  Bytes'
  <2>1. /\ loose \subseteq loose' /\ UNCHANGED <<loc, mapped, packBytes, wr, op>>
        /\ \A q \in Op : run'[q].at = "verified" => run'[q] = run[q]
    BY <1>26 DEF PlaceMove, IInv, Ledger, TypeOK, catalog, queues
  <2>2. VerifiedBytes'
    BY <2>1 DEF IInv, Bytes, VerifiedBytes, Physical
  <2>3. PackedBytes' /\ LooseAuthorityKept' /\ WriterBytes' /\ WriterRemoval'
    BY <2>1 DEF IInv, Bytes, PackedBytes, LooseAuthorityKept, WriterBytes, WriterRemoval
  <2> QED
    BY <2>2, <2>3 DEF Bytes
<1>27. ASSUME NEW o \in Op, PlaceVerify(o)
      PROVE  Bytes'
  <2>1. /\ Physical(op[o].dst, op[o].blob, run[o].dest)
        /\ UNCHANGED <<loc, mapped, loose, packBytes, wr, op>>
        /\ \A q \in Op : q # o => run'[q] = run[q]
        /\ run'[o].dest = run[o].dest
    BY <1>27 DEF PlaceVerify, verified, IInv, Ledger, TypeOK, catalog, queues, disk
  <2>2. VerifiedBytes'
    BY <2>1 DEF IInv, Bytes, VerifiedBytes, Physical
  <2>3. PackedBytes' /\ LooseAuthorityKept' /\ WriterBytes' /\ WriterRemoval'
    BY <2>1 DEF IInv, Bytes, PackedBytes, LooseAuthorityKept, WriterBytes, WriterRemoval
  <2> QED
    BY <2>2, <2>3 DEF Bytes
<1>28. ASSUME NEW o \in Op, NEW retire \in BOOLEAN, PlaceCommit(o, retire)
      PROVE  Bytes'
  <2> DEFINE h == op[o].blob
             s == op[o].src
             d == op[o].dst
             dest == run[o].dest
  <2>1. h \in Blob /\ s \in Store /\ d \in Store /\ run[o].at = "verified" /\ dest # "none"
        /\ Primary \in Store
    BY <1>28 DEF PlaceCommit, IInv, Ledger, Working, TypeOK, CatalogOK, Plan, Store
  <2>2. /\ loc[d][h] = dest \/ (loc[d][h] = "none" /\ dest \in Encoding)
        /\ mapped' \subseteq mapped
        /\ UNCHANGED <<loose, packBytes, wr>>
    BY <1>28 DEF PlaceCommit, disk
  <2>3. \A t \in Store, g \in Blob :
          \/ loc'[t][g] = loc[t][g]
          \/ loc'[t][g] = "none"
          \/ t = d /\ g = h /\ loc'[t][g] = dest
    BY <1>28, PlaceCommitLocations DEF IInv, Ledger
  <2>4. \A q \in Op : run'[q].at # "verified"
    BY <1>28, <2>1 DEF PlaceCommit, IInv, Ledger, Gated, TypeOK
  <2>5. Physical(d, h, dest)
    <3>1. \/ Physical(d, h, dest)
          \/ d = Primary /\ dest # "packed" /\ loc[Primary][h] = "packed"
      BY <2>1 DEF IInv, Bytes, VerifiedBytes
    <3> QED
      BY <2>2, <3>1
  <2> HIDE DEF h, s, d, dest
  <2>6. LooseAuthorityKept'
    BY <2>2, <2>3, <2>5, KindsDiffer DEF IInv, Bytes, LooseAuthorityKept, Physical
  <2>7. WriterBytes' /\ WriterRemoval'
    <3>1. \A v \in Writer : wr[v].at # "idle" =>
            wr[v].blob \in Blob /\ (loc[Primary][wr[v].blob] = "packed" =>
                  loc'[Primary][wr[v].blob] = "packed")
      BY DEF IInv, Ledger, Working, Undisturbed
    <3> QED
      BY <2>2, <3>1 DEF IInv, Bytes, WriterBytes, WriterRemoval
  <2>8. PackedBytes' /\ VerifiedBytes'
    BY <2>2, <2>4 DEF IInv, Bytes, PackedBytes, VerifiedBytes
  <2> QED
    BY <2>6, <2>7, <2>8 DEF Bytes
<1>29. ASSUME NEW o \in Op, Advance(o)
      PROVE  Bytes'
  <2>1. \A q \in Op : run'[q].at = "verified" => run'[q] = run[q] /\ op'[q] = op[q]
    BY <1>29 DEF Advance, IInv, Ledger, TypeOK, CatalogOK, Working, queues
  <2>2. \A v \in Writer : wr'[v].at \in {"published", "removing"} => wr'[v] = wr[v]
    BY <1>29 DEF Advance, IInv, Ledger, TypeOK
  <2>3. UNCHANGED <<loc, mapped, loose, packBytes>>
    BY <1>29 DEF Advance, catalog, disk
  <2> QED
    BY <2>1, <2>2, <2>3, BytesFrame DEF IInv
<1>30. ASSUME NEW o \in Op, Complete(o)
      PROVE  Bytes'
  <2>1. \A q \in Op : run'[q].at = "verified" => run'[q] = run[q] /\ op'[q] = op[q]
    BY <1>30 DEF Complete, IInv, Ledger, TypeOK, CatalogOK, Working, queues, Finish, NoRun
  <2>2. \A v \in Writer : wr'[v].at \in {"published", "removing"} => wr'[v] = wr[v]
    BY <1>30 DEF Complete, IInv, Ledger, TypeOK, Finish, NoRun
  <2>3. UNCHANGED <<loc, mapped, loose, packBytes>>
    BY <1>30 DEF Complete, catalog, disk, Finish, NoRun
  <2> QED
    BY <2>1, <2>2, <2>3, BytesFrame DEF IInv
<1>31. ASSUME NEW o \in Op, Fail(o)
      PROVE  Bytes'
  <2>1. \A q \in Op : run'[q].at = "verified" => run'[q] = run[q] /\ op'[q] = op[q]
    BY <1>31 DEF Fail, IInv, Ledger, TypeOK, CatalogOK, Working, queues, Finish, NoRun
  <2>2. \A v \in Writer : wr'[v].at \in {"published", "removing"} => wr'[v] = wr[v]
    BY <1>31 DEF Fail, IInv, Ledger, TypeOK, Finish, NoRun
  <2>3. UNCHANGED <<loc, mapped, loose, packBytes>>
    BY <1>31 DEF Fail, catalog, disk, Finish, NoRun
  <2> QED
    BY <2>1, <2>2, <2>3, BytesFrame DEF IInv
<1>32. ASSUME NEW o \in Op, Defer(o)
      PROVE  Bytes'
  <2>1. \A q \in Op : run'[q].at = "verified" => run'[q] = run[q] /\ op'[q] = op[q]
    BY <1>32 DEF Defer, IInv, Ledger, TypeOK, CatalogOK, Working, queues, NoRun
  <2>2. \A v \in Writer : wr'[v].at \in {"published", "removing"} => wr'[v] = wr[v]
    BY <1>32 DEF Defer, IInv, Ledger, TypeOK, NoRun
  <2>3. UNCHANGED <<loc, mapped, loose, packBytes>>
    BY <1>32 DEF Defer, catalog, disk, NoRun
  <2> QED
    BY <2>1, <2>2, <2>3, BytesFrame DEF IInv
<1>33. ASSUME CaptureBegin PROVE Bytes'
  <2>1. \A q \in Op : run'[q].at = "verified" => run'[q] = run[q] /\ op'[q] = op[q]
    BY <1>33 DEF CaptureBegin, IInv, Ledger, TypeOK, CatalogOK, Working, queues
  <2>2. \A v \in Writer : wr'[v].at \in {"published", "removing"} => wr'[v] = wr[v]
    BY <1>33 DEF CaptureBegin, IInv, Ledger, TypeOK
  <2>3. UNCHANGED <<loc, mapped, loose, packBytes>>
    BY <1>33 DEF CaptureBegin, catalog, disk
  <2> QED
    BY <2>1, <2>2, <2>3, BytesFrame DEF IInv
<1>34. ASSUME CaptureEnd PROVE Bytes'
  <2>1. \A q \in Op : run'[q].at = "verified" => run'[q] = run[q] /\ op'[q] = op[q]
    BY <1>34 DEF CaptureEnd, IInv, Ledger, TypeOK, CatalogOK, Working, queues
  <2>2. \A v \in Writer : wr'[v].at \in {"published", "removing"} => wr'[v] = wr[v]
    BY <1>34 DEF CaptureEnd, IInv, Ledger, TypeOK
  <2>3. UNCHANGED <<loc, mapped, loose, packBytes>>
    BY <1>34 DEF CaptureEnd, catalog, disk
  <2> QED
    BY <2>1, <2>2, <2>3, BytesFrame DEF IInv
<1>35. ASSUME Crash PROVE Bytes'
  <2>1. \A q \in Op : run'[q].at = "verified" => run'[q] = run[q] /\ op'[q] = op[q]
    BY <1>35 DEF Crash, IInv, Ledger, TypeOK, CatalogOK, Working, queues, IdleWriter, NoRun
  <2>2. \A v \in Writer : wr'[v].at \in {"published", "removing"} => wr'[v] = wr[v]
    BY <1>35 DEF Crash, IInv, Ledger, TypeOK, IdleWriter, NoRun
  <2>3. UNCHANGED <<loc, mapped, loose, packBytes>>
    BY <1>35 DEF Crash, catalog, disk, IdleWriter, NoRun
  <2> QED
    BY <2>1, <2>2, <2>3, BytesFrame DEF IInv
<1> QED
  BY <1>1, <1>2, <1>3, <1>4, <1>5, <1>6, <1>7, <1>8, <1>9, <1>10, <1>11, <1>12, <1>13,
     <1>14, <1>15, <1>16, <1>17, <1>18, <1>19, <1>20, <1>21, <1>22, <1>23, <1>24, <1>25,
     <1>26, <1>27, <1>28, <1>29, <1>30, <1>31, <1>32, <1>33, <1>34, <1>35
     DEF Next, WriterStep, MaintenanceStep, PlacementStep

\* Without placement operations nothing disturbs a writer.
LEMMA AloneUndisturbed ==
    ASSUME Op = {}, Ledger, Next
    PROVE  Undisturbed
<1>1. ASSUME NEW w \in Writer, NEW h \in Blob, NEW e \in Encoding, Publish(w, h, e)
      PROVE  Undisturbed
  BY <1>1 DEF Publish, Undisturbed, catalog
<1>2. ASSUME NEW w \in Writer, Commit(w)
      PROVE  Undisturbed
  <2>1. wr[w].blob \in Blob
    BY <1>2 DEF Commit, Ledger, Working
  <2>2. ASSUME NEW g \in Blob, loc[Primary][g] = "packed" PROVE loc'[Primary][g] = "packed"
    <3>1. CASE UNCHANGED loc
      BY <2>2, <3>1
    <3>2. CASE adopts(wr[w].blob, wr[w].enc, wr[w].created) /\ writeLooseLocation(wr[w].blob,
          wr[w].enc)
      <4>1. g # wr[w].blob
        BY <2>2, <3>2 DEF adopts, Ledger, Tables, Store
      <4> QED
        BY <2>1, <2>2, <3>2, <4>1 DEF writeLooseLocation, Ledger, TypeOK, CatalogOK, Store
    <3> QED
      BY <1>2, <3>1, <3>2 DEF Commit
  <2> QED
    BY <2>2 DEF Undisturbed, Ledger, Working
<1>3. ASSUME NEW w \in Writer, Reject(w)
      PROVE  Undisturbed
  BY <1>3 DEF Reject, Undisturbed, catalog
<1>4. ASSUME NEW w \in Writer, CleanupKeep(w)
      PROVE  Undisturbed
  BY <1>4 DEF CleanupKeep, Undisturbed, catalog, Finished
<1>5. ASSUME NEW w \in Writer, CleanupFind(w)
      PROVE  Undisturbed
  BY <1>5 DEF CleanupFind, Undisturbed, catalog
<1>6. ASSUME NEW w \in Writer, CleanupRemove(w)
      PROVE  Undisturbed
  BY <1>6 DEF CleanupRemove, Undisturbed, catalog, Finished
<1>7. ASSUME NEW h \in Blob, Unreference(h)
      PROVE  Undisturbed
  BY <1>7 DEF Unreference, Undisturbed, catalog
<1>8. ASSUME GcStart PROVE Undisturbed
  BY <1>8 DEF GcStart, Undisturbed, catalog
<1>9. ASSUME NEW H \in SUBSET Blob, GcDelete(H)
      PROVE  Undisturbed
  BY <1>9 DEF GcDelete, Undisturbed, Ledger, Gated
<1>10. ASSUME NEW x \in retirements, GcPrepare(x)
      PROVE  Undisturbed
  BY <1>10 DEF GcPrepare, Undisturbed, catalog
<1>11. ASSUME GcRetire PROVE Undisturbed
  BY <1>11 DEF GcRetire, Undisturbed, catalog
<1>12. ASSUME GcComplete PROVE Undisturbed
  BY <1>12 DEF GcComplete, Undisturbed, catalog
<1>13. ASSUME GcList PROVE Undisturbed
  BY <1>13 DEF GcList, Undisturbed, catalog
<1>14. ASSUME NEW h \in Blob, GcSweep(h)
      PROVE  Undisturbed
  BY <1>14 DEF GcSweep, Undisturbed, catalog
<1>15. ASSUME MaintenanceEnd PROVE Undisturbed
  BY <1>15 DEF MaintenanceEnd, Undisturbed, catalog
<1>16. ASSUME NEW h \in Blob, PackRecord(h)
      PROVE  Undisturbed
  BY <1>16 DEF PackRecord, Undisturbed, GateIdle
<1>17. ASSUME PackUnlink PROVE Undisturbed
  BY <1>17 DEF PackUnlink, Undisturbed, catalog
<1>18. ASSUME RepackPrune PROVE Undisturbed
  BY <1>18 DEF RepackPrune, Undisturbed, catalog
<1>19. ASSUME RepackRetire PROVE Undisturbed
  BY <1>19 DEF RepackRetire, Undisturbed, catalog
<1>20. ASSUME NEW o \in Op, NEW h \in Blob, NEW s \in Store, NEW d \in Store, PlanPlacement(o,
      h, s, d)
      PROVE  Undisturbed
  BY <1>20
<1>21. ASSUME NEW o \in Op, Claim(o)
      PROVE  Undisturbed
  BY <1>21
<1>22. ASSUME NEW o \in Op, NEW x \in cleanup[o], CleanupPrepare(o, x)
      PROVE  Undisturbed
  BY <1>22
<1>23. ASSUME NEW o \in Op, CleanupRetire(o)
      PROVE  Undisturbed
  BY <1>23
<1>24. ASSUME NEW o \in Op, CleanupComplete(o)
      PROVE  Undisturbed
  BY <1>24
<1>25. ASSUME NEW o \in Op, PlaceLock(o)
      PROVE  Undisturbed
  BY <1>25
<1>26. ASSUME NEW o \in Op, NEW e \in Encoding, PlaceMove(o, e)
      PROVE  Undisturbed
  BY <1>26
<1>27. ASSUME NEW o \in Op, PlaceVerify(o)
      PROVE  Undisturbed
  BY <1>27
<1>28. ASSUME NEW o \in Op, NEW retire \in BOOLEAN, PlaceCommit(o, retire)
      PROVE  Undisturbed
  BY <1>28
<1>29. ASSUME NEW o \in Op, Advance(o)
      PROVE  Undisturbed
  BY <1>29
<1>30. ASSUME NEW o \in Op, Complete(o)
      PROVE  Undisturbed
  BY <1>30
<1>31. ASSUME NEW o \in Op, Fail(o)
      PROVE  Undisturbed
  BY <1>31
<1>32. ASSUME NEW o \in Op, Defer(o)
      PROVE  Undisturbed
  BY <1>32
<1>33. ASSUME CaptureBegin PROVE Undisturbed
  BY <1>33 DEF CaptureBegin, Undisturbed, catalog
<1>34. ASSUME CaptureEnd PROVE Undisturbed
  BY <1>34 DEF CaptureEnd, Undisturbed, catalog
<1>35. ASSUME Crash PROVE Undisturbed
  BY <1>35 DEF Crash, Undisturbed, catalog
<1> QED
  BY <1>1, <1>2, <1>3, <1>4, <1>5, <1>6, <1>7, <1>8, <1>9, <1>10, <1>11, <1>12, <1>13,
     <1>14, <1>15, <1>16, <1>17, <1>18, <1>19, <1>20, <1>21, <1>22, <1>23, <1>24, <1>25,
     <1>26, <1>27, <1>28, <1>29, <1>30, <1>31, <1>32, <1>33, <1>34, <1>35
     DEF Next, WriterStep, MaintenanceStep, PlacementStep

-----------------------------------------------------------------------------
(***************************************************************************)
(* Theorems.                                                               *)
(***************************************************************************)
LEMMA InitIInv ==
    ASSUME Init
    PROVE  IInv
<1>1. TypeOK
  BY DEF Init, TypeOK, CatalogOK, Store, Kind, Item, NoItem, Plan, NoPlan, NoRun, IdleWriter
<1>2. Working /\ Gated
  BY KindsDiffer DEF Init, Working, Gated, IdleWriter, NoRun, NoPlan
<1>3. Tables /\ Owed
  BY DEF Init, Tables, Owed, NoPlan, NoRun
<1>4. Locked
  BY DEF Init, Locked, Claims, NoRun
<1>5. PackedBytes /\ LooseAuthorityKept
  BY KindsDiffer DEF Init, PackedBytes, LooseAuthorityKept
<1>6. WriterBytes /\ VerifiedBytes /\ WriterRemoval
  BY DEF Init, WriterBytes, VerifiedBytes, WriterRemoval, IdleWriter, NoRun
<1>7. Removals
  BY DEF Init, Removals, NoRun
<1> QED
  BY <1>1, <1>2, <1>3, <1>4, <1>5, <1>6, <1>7 DEF IInv, Ledger, Bytes

\* The catalog's part of the invariant is inductive under every step.
LEMMA LedgerStep ==
    ASSUME Ledger, Locked, [Next]_vars
    PROVE  Ledger' /\ Locked'
<1>1. CASE Next
  BY <1>1, TypeStep, WorkingStep, GatedStep, TablesStep, OwedStep, LockedStep DEF Ledger
<1>2. CASE UNCHANGED vars
  <2> USE <1>2 DEF vars, catalog, queues, disk, upkeep, backup
  <2>1. TypeOK'
    BY DEF Ledger, TypeOK, CatalogOK
  <2>2. Working' /\ Gated'
    BY DEF Ledger, Working, Gated
  <2>3. Tables' /\ Owed'
    BY DEF Ledger, Tables, Owed
  <2>4. Locked'
    BY DEF Locked, Claims
  <2> QED
    BY <2>1, <2>2, <2>3, <2>4 DEF Ledger
<1> QED
  BY <1>1, <1>2

\* The whole invariant is inductive under steps that disturb no writer.
LEMMA UndisturbedStep ==
    ASSUME IInv, [Next /\ Undisturbed]_vars
    PROVE  IInv'
<1>1. Ledger' /\ Locked'
  BY LedgerStep DEF IInv
<1>2. CASE Next /\ Undisturbed
  BY <1>1, <1>2, RemovalsStep, BytesStep DEF IInv
<1>3. CASE UNCHANGED vars
  <2> USE <1>3 DEF vars, catalog, queues, disk, upkeep, backup
  <2>1. Removals'
    BY RemovalsFrame DEF IInv
  <2>2. Bytes'
    BY BytesFrame DEF IInv
  <2> QED
    BY <1>1, <2>1, <2>2 DEF IInv
<1> QED
  BY <1>2, <1>3

\* What the inductive invariant says of the bytes is what the runs check.
LEMMA IInvCustody ==
    ASSUME IInv
    PROVE  Custody /\ CaptureReadable
<1>1. \A s \in Store, h \in Blob : loc[s][h] # "none" =>
        h \in rows /\ Authority(s, h) /\ Physical(s, h, loc[s][h])
  <2>1. SUFFICES ASSUME NEW s \in Store, NEW h \in Blob, loc[s][h] # "none"
                 PROVE  h \in rows /\ Authority(s, h) /\ Physical(s, h, loc[s][h])
    OBVIOUS
  <2>2. h \in rows
    BY <2>1 DEF IInv, Ledger, Tables
  <2>3. CASE loc[s][h] = "packed"
    <3>1. s = Primary
      BY <2>3 DEF IInv, Ledger, TypeOK, CatalogOK, Store
    <3>2. h \in mapped /\ h \in packBytes
      BY <2>2, <2>3, <3>1 DEF IInv, Ledger, Tables, Bytes, PackedBytes
    <3> QED
      BY <2>2, <2>3, <3>1, <3>2 DEF Authority, Physical
  <2>4. CASE loc[s][h] \in Encoding
    BY <2>2, <2>4, KindsDiffer DEF IInv, Bytes, LooseAuthorityKept, Authority, Physical
  <2> QED
    BY <2>1, <2>3, <2>4 DEF IInv, Ledger, TypeOK, CatalogOK, Kind
<1>2. \A h \in rows : h \in Blob /\ \E s \in Store : loc[s][h] # "none"
  BY DEF IInv, Ledger, Tables, TypeOK, CatalogOK
<1>3. refs \subseteq rows /\ pinned \subseteq rows
  BY DEF IInv, Ledger, Tables
<1> QED
  BY <1>1, <1>2, <1>3 DEF Custody, CaptureReadable

\* The catalog's own consistency survives everything, disturbed writers too.
THEOREM SpecLedger == Spec => [](Ledger /\ Locked)
<1>1. Init => Ledger /\ Locked
  BY InitIInv DEF IInv
<1>2. Ledger /\ Locked /\ [Next]_vars => Ledger' /\ Locked'
  BY LedgerStep
<1> QED
  BY <1>1, <1>2, PTL DEF Spec

\* The tables, the files and the goroutines keep their types; only loose objects
\* are ever queued for physical removal (retirementsOf, CommitPlacement).
THEOREM CustodyTypeCorrect == Spec => []TypeOK
<1>1. Ledger => TypeOK
  BY DEF Ledger
<1> QED
  BY <1>1, SpecLedger, PTL

\* blob_locations and blob_pack_entries agree on what is packed.
THEOREM PackIndexAlwaysAgrees == Spec => []PackIndexAgrees
<1>1. Ledger => PackIndexAgrees
  BY DEF Ledger, Tables, PackIndexAgrees
<1> QED
  BY <1>1, SpecLedger, PTL

\* A storage operation that has ended owes no physical cleanup.
THEOREM CleanupAlwaysOwned == Spec => []CleanupOwned
<1>1. Ledger => CleanupOwned
  BY DEF Ledger, Owed, CleanupOwned
<1> QED
  BY <1>1, SpecLedger, PTL

\* Committed content stays readable as long as no placement revokes packed
\* authority under a writer in flight.
THEOREM UndisturbedCustody == UndisturbedSpec => []Custody
<1>1. Init => IInv
  BY InitIInv
<1>2. IInv /\ [Next /\ Undisturbed]_vars => IInv'
  BY UndisturbedStep
<1>3. IInv => Custody
  BY IInvCustody
<1> QED
  BY <1>1, <1>2, <1>3, PTL DEF UndisturbedSpec

\* Under the same condition every capture can read what its snapshot names.
THEOREM UndisturbedCapture == UndisturbedSpec => []CaptureReadable
<1>1. Init => IInv
  BY InitIInv
<1>2. IInv /\ [Next /\ Undisturbed]_vars => IInv'
  BY UndisturbedStep
<1>3. IInv => CaptureReadable
  BY IInvCustody
<1> QED
  BY <1>1, <1>2, <1>3, PTL DEF UndisturbedSpec

\* In a vault without placement operations custody needs no condition: writers,
\* GC, packing, repacking, captures and crashes keep all committed content.
THEOREM CustodyWithoutPlacement ==
    ASSUME Op = {}
    PROVE  Spec => []Custody
<1>1. Init => IInv
  BY InitIInv
<1>2. IInv /\ [Next]_vars => IInv'
  <2>1. IInv /\ Next => Undisturbed
    BY AloneUndisturbed DEF IInv
  <2> QED
    BY <2>1, UndisturbedStep
<1>3. IInv => Custody
  BY IInvCustody
<1> QED
  BY <1>1, <1>2, <1>3, PTL DEF Spec

-----------------------------------------------------------------------------
(***************************************************************************)
(* Garbage collection is complete.  Between its listing and its end        *)
(* nothing unreachable comes back, and what it has passed is authorised.   *)
(***************************************************************************)
\* GC has nothing left to delete or to retire.
Exhausted == maint = "sweep" => Unreachable = {} /\ retirements = {}

\* Of what the sweep has passed only authorised files are left.
Passed ==
    maint = "sweep" =>
        \A h \in Blob \ sweep :
            Files(Primary, h) \cap loose # {} => loc[Primary][h] \in Encoding

Swept == Exhausted /\ Passed

\* Placement operations do not disturb what GC has exhausted.
LEMMA ExhaustedPlacement ==
    ASSUME Exhausted, NEW o \in Op, PlacementStep(o)
    PROVE  Exhausted'
<1>1. UNCHANGED <<rows, refs, retirements, maint>>
  <2>1. ASSUME NEW h \in Blob, NEW s \in Store, NEW d \in Store, PlanPlacement(o, h, s, d)
        PROVE  UNCHANGED <<rows, refs, retirements, maint>>
    BY <2>1 DEF PlanPlacement, catalog, upkeep
  <2>2. ASSUME NEW x, CleanupPrepare(o, x)
        PROVE  UNCHANGED <<rows, refs, retirements, maint>>
    BY <2>2 DEF CleanupPrepare, catalog, upkeep
  <2>3. ASSUME NEW e \in Encoding, PlaceMove(o, e)
        PROVE  UNCHANGED <<rows, refs, retirements, maint>>
    BY <2>3 DEF PlaceMove, catalog, queues, upkeep
  <2>4. ASSUME NEW retire, PlaceCommit(o, retire)
        PROVE  UNCHANGED <<rows, refs, retirements, maint>>
    BY <2>4 DEF PlaceCommit, upkeep
  <2>5. CASE Claim(o) \/ CleanupRetire(o) \/ PlaceLock(o) \/ PlaceVerify(o) \/ Defer(o)
    BY <2>5 DEF Claim, CleanupRetire, PlaceLock, PlaceVerify, Defer, catalog, queues, upkeep
  <2>6. CASE CleanupComplete(o) \/ Advance(o) \/ Complete(o) \/ Fail(o)
    BY <2>6 DEF CleanupComplete, Advance, Complete, Fail, Finish, catalog, upkeep
  <2> QED
    BY <2>1, <2>2, <2>3, <2>4, <2>5, <2>6 DEF PlacementStep
<1> QED
  BY <1>1 DEF Exhausted, Unreachable

\* What a step of the sweep leaves alone, and the gate keeps from changing.
LEMMA SweptFrame ==
    ASSUME maint' = "sweep" => UNCHANGED <<rows, refs, retirements, loose, loc, sweep, maint>>
    PROVE  (Exhausted => Exhausted') /\ (Passed => Passed')
BY DEF Exhausted, Passed, Unreachable, Files

\* A step that ends with other maintenance, or with none.
LEMMA SweptElsewhere ==
    ASSUME maint' # "sweep"
    PROVE  Swept'
BY DEF Swept, Exhausted, Passed

LEMMA SweptStep ==
    ASSUME Ledger, Exhausted, [Next]_vars
    PROVE  Exhausted' /\ (Op = {} /\ Passed => Passed')
<1>1. ASSUME UNCHANGED vars
      PROVE  Exhausted' /\ (Passed => Passed')
  BY <1>1, SweptFrame DEF vars, catalog, queues, disk, upkeep
<1>2. ASSUME NEW w \in Writer, WriterStep(w)
      PROVE  Exhausted' /\ (Passed => Passed')
  <2>1. maint = "idle"
    <3>1. CASE \E h \in Blob, e \in Encoding : Publish(w, h, e)
      BY <3>1 DEF Publish, NoMaintenance
    <3>2. CASE wr[w].at # "idle"
      BY <3>2 DEF Ledger, Gated
    <3> QED
      BY <1>2, <3>1, <3>2
         DEF WriterStep, Commit, Reject, CleanupKeep, CleanupFind, CleanupRemove
  <2>2. maint' = maint
    BY <1>2 DEF WriterStep, Publish, Commit, Reject, CleanupKeep, CleanupFind, CleanupRemove, upkeep
  <2> QED
    BY <2>1, <2>2, SweptElsewhere DEF Swept
<1>3. ASSUME NEW h \in Blob, Unreference(h)
      PROVE  Exhausted' /\ (Passed => Passed')
  BY <1>3, SweptElsewhere DEF Swept, Unreference, NoMaintenance, upkeep
<1>4. ASSUME MaintenanceStep
      PROVE  Exhausted' /\ (Passed => Passed')
  <2>1. CASE GcList
    <3>1. Unreachable' = {} /\ retirements' = {}
      BY <2>1 DEF GcList, Unreachable, catalog, queues
    <3>2. ASSUME NEW h \in Blob \ sweep', (Files(Primary, h) \cap loose # {})'
          PROVE  FALSE
      <4>1. PICK x : x \in Files(Primary, h) /\ x \in loose
        BY <2>1, <3>2 DEF GcList, disk, Files
      <4>2. PICK e \in Encoding : x = <<Primary, h, e>>
        BY <4>1 DEF Files
      <4>3. h \in sweep'
        BY <2>1, <4>1, <4>2 DEF GcList
      <4> QED
        BY <3>2, <4>3
    <3> QED
      BY <3>1, <3>2 DEF Exhausted, Passed
  <2>2. ASSUME NEW h \in Blob, GcSweep(h)
        PROVE  Exhausted' /\ (Passed => Passed')
    <3>1. UNCHANGED <<rows, refs, loc, retirements, maint>> /\ sweep' = sweep \ {h}
      BY <2>2 DEF GcSweep, catalog, queues
    <3>2. Unreachable' = {} /\ retirements' = {}
      BY <2>2, <3>1 DEF GcSweep, Exhausted, Unreachable
    <3>3. ASSUME Passed, NEW g \in Blob \ sweep', (Files(Primary, g) \cap loose # {})'
          PROVE  loc[Primary][g] \in Encoding
      <4>1. loose' \subseteq loose
        BY <2>2 DEF GcSweep
      <4>2. Files(Primary, g) \cap loose # {}
        BY <3>3, <4>1 DEF Files
      <4>3. CASE g = h
        <5>1. ASSUME ~ tracked(h)
              PROVE  FALSE
          <6>1. loose' = loose \ Files(Primary, h)
            BY <2>2, <5>1 DEF GcSweep
          <6> QED
            BY <3>3, <4>3, <6>1 DEF Files
        <5> QED
          BY <4>3, <5>1 DEF tracked
      <4>4. CASE g # h
        BY <2>2, <3>1, <3>3, <4>2, <4>4 DEF Passed, GcSweep
      <4> QED
        BY <4>3, <4>4
    <3> QED
      BY <3>1, <3>2, <3>3 DEF Exhausted, Passed
  <2>3. CASE \/ GcStart \/ GcRetire \/ GcComplete \/ MaintenanceEnd
             \/ \E H \in SUBSET Blob : GcDelete(H)
             \/ \E x \in retirements : GcPrepare(x)
             \/ PackUnlink \/ RepackPrune \/ RepackRetire
             \/ \E h \in Blob : PackRecord(h)
    <3>1. maint' # "sweep"
      BY <2>3
         DEF GcStart, GcRetire, GcComplete, MaintenanceEnd, GcDelete, GcPrepare, PackUnlink,
             RepackPrune, RepackRetire, PackRecord, upkeep
    <3> QED
      BY <3>1, SweptElsewhere DEF Swept
  <2> QED
    BY <1>4, <2>1, <2>2, <2>3 DEF MaintenanceStep
<1>5. ASSUME CaptureBegin \/ CaptureEnd
      PROVE  Exhausted' /\ (Passed => Passed')
  BY <1>5, SweptFrame DEF CaptureBegin, CaptureEnd, catalog, queues, disk, upkeep
<1>6. ASSUME Crash
      PROVE  Exhausted' /\ (Passed => Passed')
  BY <1>6, SweptElsewhere DEF Swept, Crash
<1>7. ASSUME NEW o \in Op, PlacementStep(o)
      PROVE  Exhausted' /\ Op # {}
  BY <1>7, ExhaustedPlacement
<1> QED
  BY <1>1, <1>2, <1>3, <1>4, <1>5, <1>6, <1>7 DEF Next

\* In every vault GC has dealt with all unreachable rows and with its whole queue
\* before it lists the files (runGC), and nothing adds to either until it ends:
\* no writer commits, no reference goes and no placement queues for GC.
THEOREM CollectionExhausts == Spec => []Exhausted
<1>1. Init => Exhausted
  BY DEF Init, Exhausted
<1>2. (Ledger /\ Locked) /\ Exhausted /\ [Next]_vars => Exhausted'
  BY SweptStep
<1> QED
  BY <1>1, <1>2, SpecLedger, PTL DEF Spec

\* In a vault without placement operations a GC that has passed everything it
\* listed leaves no unreachable row, no queued object and no loose file that
\* loose authority does not cover (runGC), for any number of blobs and writers.
THEOREM CollectionComplete ==
    ASSUME Op = {}
    PROVE  Spec => []GcReclaims
<1>1. Init => Swept
  BY DEF Init, Swept, Exhausted, Passed
<1>2. (Ledger /\ Locked) /\ Swept /\ [Next]_vars => Swept'
  BY SweptStep DEF Swept
<1>3. Swept => GcReclaims
  BY DEF Swept, Exhausted, Passed, GcReclaims
<1> QED
  BY <1>1, <1>2, <1>3, SpecLedger, PTL DEF Spec
=============================================================================
