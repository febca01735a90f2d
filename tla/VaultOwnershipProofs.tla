------------------------ MODULE VaultOwnershipProofs ------------------------
(***************************************************************************)
(* Proofs about the ownership of the vault and the hand-off of its primary *)
(* marker, for any number of processes and clients, any versions and any   *)
(* number of databases.                                                    *)
(*                                                                         *)
(* None of the properties is inductive.  What a process may rely on at     *)
(* each step (AtStage) follows from what it did since it took the lock, a  *)
(* record that nobody attends to must stay decidable (Sided), and both     *)
(* rest on the numbers: a restored database is newer than the digest and   *)
(* the marker that its record holds (Numbered).  That a client spares a    *)
(* daemon rests on the daemons that were ready when it took the launch     *)
(* lock having left that state for good (ReadyPast, Rechecked).            *)
(***************************************************************************)
EXTENDS VaultOwnership, TLAPS

\* A marker that belongs with the database that is published.
Fits(m) == IF db.rev = 0 THEN m = 0 ELSE db.own # 0 => m \in {0, db.own}

OneSide ==
    \/ db.rev = handoff.digest /\ marker = handoff.prior
    \/ db.own = handoff.next /\ marker = handoff.next

\* What holds at each stage of a process that has the vault.
AtStage ==
    \A p \in Proc :
        /\ pc[p] \notin Idle => vaultLock = p
        /\ pc[p] = "reconciled" => handoff # NoHandoff /\ OneSide
        /\ pc[p] \in Using \cup {"recovered", "opened"} => handoff = NoHandoff
        /\ pc[p] \in Using \cup {"opened"} => db.own # 0
        /\ pc[p] \in Using => marker = db.own
        /\ pc[p] \in Restoring => handoff # NoHandoff
        /\ pc[p] \in {"recorded", "marked", "published"} => handoff.next = staged[p]
        /\ pc[p] \in {"recorded", "marked"} => db.rev = handoff.digest
        /\ pc[p] = "published" => db.own = handoff.next
        /\ pc[p] = "settled" => OneSide

\* A hand-off record can be decided, and deciding for the database that was
\* there gives it a marker that it had; without a record the marker fits.
Sided ==
    IF handoff = NoHandoff THEN Fits(marker)
    ELSE /\ OnSide(marker, handoff) /\ Decided(handoff)
         /\ db.rev = handoff.digest => Fits(handoff.prior)

\* Databases are numbered in the order in which they come into being.
Numbered ==
    /\ db.own <= db.rev /\ db.rev <= fresh /\ handoff.next <= fresh
    /\ handoff # NoHandoff => handoff.digest < handoff.next

\* A client that stops a process has one.
TargetKnown == \A c \in Client : cpc[c] \in {"request", "awaiting"} => target[c] \in Proc

\* A daemon that was ready serves, or has stopped for good.
ReadyPast ==
    \A c \in Client : \A p \in ready[c] : pc[p] \in {"serving", "draining", "released", "off"}

\* A client that goes on to stop something found none of its version in time.
Rechecked ==
    \A c \in Client : mode[c] = "ensure" /\ cpc[c] \in {"find", "live", "request"} =>
        \A p \in ready[c] : ~Compatible(c, p)

FileInv == AtStage /\ Sided /\ Numbered
ClientInv == TargetKnown /\ ReadyPast /\ Rechecked
IInv == TypeOK /\ FileInv /\ ClientInv

-----------------------------------------------------------------------------
(* Initially.                                                              *)

\* Each vault that a process may meet satisfies the invariant.
LEMMA InitIInv == Init => IInv
  <1> SUFFICES ASSUME Init PROVE IInv OBVIOUS
  <1>1. TypeOK
    BY NoneAssumption DEF Init, TypeOK, NoDb, Handoff, NoHandoff, Stage, Idle, Doing
  <1>2. FileInv
    BY DEF Init, FileInv, AtStage, Sided, Numbered, Fits, NoDb, NoHandoff, Idle, Using, Restoring
  <1>3. ClientInv
    BY DEF Init, ClientInv, TargetKnown, ReadyPast, Rechecked
  <1> QED BY <1>1, <1>2, <1>3 DEF IInv

-----------------------------------------------------------------------------
(* The end of a process, from whatever stage, and the start of one.        *)

\* A process that ends leaves files that every other process can rely on.
LEMMA EndFiles ==
    ASSUME TypeOK, FileInv, NEW p \in Proc, End(p), UNCHANGED files
    PROVE  FileInv'
  <1>1. \A q \in Proc : q # p => pc'[q] = pc[q] /\ staged'[q] = staged[q]
    BY DEF End, TypeOK
  <1>2. pc'[p] = "off"
    BY DEF End, TypeOK
  <1>3. \A q \in Proc : q # p /\ vaultLock = q => vaultLock' = q
    BY NoneAssumption DEF End, Without
  <1>4. AtStage'
    BY <1>1, <1>2, <1>3 DEF FileInv, AtStage, files, OneSide, Idle, Using, Restoring
  <1> QED BY <1>4 DEF FileInv, files, Sided, Numbered, Fits, OnSide, Decided

\* The end of a process keeps the types.
LEMMA EndType ==
    ASSUME TypeOK, NEW p \in Proc, End(p), UNCHANGED <<files, clients>>
    PROVE  TypeOK'
  BY DEF TypeOK, End, Without, files, clients, Stage, Idle

\* The end of a process takes nothing from what the clients rely on.
LEMMA EndClients ==
    ASSUME TypeOK, ClientInv, NEW p \in Proc, End(p), UNCHANGED clients
    PROVE  ClientInv'
  <1>1. /\ \A q \in Proc : pc'[q] = IF q = p THEN "off" ELSE pc[q]
        /\ \A q \in Proc : kind'[q] = IF q = p THEN "none" ELSE kind[q]
    BY DEF End, TypeOK
  <1> QED
    BY <1>1 DEF TypeOK, ClientInv, TargetKnown, ReadyPast, Rechecked, clients, Compatible, Answers

\* A new process holds nothing, and no client counts it as ready.
LEMMA StartKept ==
    ASSUME IInv, NEW p \in Proc, NEW k \in Version \cup {"embedded", "restore"}, Start(p, k),
           UNCHANGED <<locks, files, staged, mode, target>>,
           NEW d, d \in Client \cup {None},
           cpc' = IF d \in Client THEN [cpc EXCEPT ![d] = "starting"] ELSE cpc
    PROVE  IInv'
  <1> USE DEF IInv
  <1>1. /\ \A q \in Proc : pc'[q] = IF q = p THEN "start" ELSE pc[q]
        /\ \A q \in Proc : q # p => kind'[q] = kind[q]
        /\ \A c \in Client : ready'[c] = ready[c] \ {p}
        /\ \A c \in Client : cpc'[c] \in {cpc[c], "starting"}
    BY DEF Start, TypeOK
  <1>2. TypeOK'
    BY <1>1 DEF TypeOK, Start, locks, files, Stage, Idle, Doing
  <1>3. FileInv'
    <2>1. AtStage'
      BY <1>1 DEF FileInv, AtStage, OneSide, locks, files, Idle, Using, Restoring
    <2> QED BY <2>1 DEF FileInv, files, Sided, Numbered, Fits, OnSide, Decided
  <1>4. ClientInv'
    BY <1>1 DEF TypeOK, ClientInv, TargetKnown, ReadyPast, Rechecked, Compatible, Answers
  <1> QED BY <1>2, <1>3, <1>4

-----------------------------------------------------------------------------
(* A process goes to its next stage: what that leaves of the clients'      *)
(* conjuncts, and of the other processes' stages.                          *)

\* A process that goes on, without coming to serve, disturbs no client.
LEMMA MoveClients ==
    ASSUME TypeOK, ClientInv, NEW p \in Proc, NEW t, To(p, t), UNCHANGED clients,
           pc[p] \notin {"off", "released"},
           pc[p] = "serving" => t = "draining",
           pc[p] = "draining" => t = "released"
    PROVE  ClientInv'
  <1>1. kind' = kind /\ \A q \in Proc : pc'[q] = IF q = p THEN t ELSE pc[q]
    BY DEF To, TypeOK
  <1>2. \A c \in Client : ready[c] \subseteq Proc
    BY DEF TypeOK
  <1>3. ReadyPast'
    BY <1>1, <1>2 DEF ClientInv, ReadyPast, clients
  <1>4. \A c \in Client : \A q \in ready[c] : Compatible(c, q)' => Compatible(c, q)
    BY <1>1, <1>2 DEF ClientInv, ReadyPast, Compatible, Answers
  <1> QED BY <1>3, <1>4 DEF ClientInv, TargetKnown, Rechecked, clients

\* Only the owner of the vault has a stage that says anything of the files.
LEMMA OthersIdle ==
    ASSUME TypeOK, FileInv, NEW p \in Proc, vaultLock \in {p, None}
    PROVE  \A q \in Proc : q # p => pc[q] \in Idle
  BY NoneAssumption DEF FileInv, AtStage

\* So its step needs to be looked at for itself alone.
LEMMA OwnerStage ==
    ASSUME TypeOK, FileInv, NEW p \in Proc, vaultLock \in {p, None},
           NEW t \in Stage, pc' = [pc EXCEPT ![p] = t],
           t \notin Idle => vaultLock' = p,
           t = "reconciled" => (handoff # NoHandoff /\ OneSide)',
           t \in Using \cup {"recovered", "opened"} => handoff' = NoHandoff,
           t \in Using \cup {"opened"} => db'.own # 0,
           t \in Using => marker' = db'.own,
           t \in Restoring => handoff' # NoHandoff,
           t \in {"recorded", "marked", "published"} => handoff'.next = staged'[p],
           t \in {"recorded", "marked"} => db'.rev = handoff'.digest,
           t = "published" => db'.own = handoff'.next,
           t = "settled" => OneSide'
    PROVE  AtStage'
  <1>1. \A q \in Proc : q # p => pc'[q] \in Idle
    BY OthersIdle DEF TypeOK
  <1>2. pc'[p] = t
    BY DEF TypeOK
  <1>3. \A s \in Idle : s # "reconciled" /\ s \notin Restoring \cup Using \cup {"recovered", "opened"}
    BY DEF Idle, Using, Restoring
  <1>4. {"recorded", "marked", "published", "settled"} = Restoring
    BY DEF Restoring
  <1> SUFFICES ASSUME NEW q \in Proc PROVE
        /\ pc'[q] \notin Idle => vaultLock' = q
        /\ pc'[q] = "reconciled" => handoff' # NoHandoff /\ OneSide'
        /\ pc'[q] \in Using \cup {"recovered", "opened"} => handoff' = NoHandoff
        /\ pc'[q] \in Using \cup {"opened"} => db'.own # 0
        /\ pc'[q] \in Using => marker' = db'.own
        /\ pc'[q] \in Restoring => handoff' # NoHandoff
        /\ pc'[q] \in {"recorded", "marked", "published"} => handoff'.next = staged'[q]
        /\ pc'[q] \in {"recorded", "marked"} => db'.rev = handoff'.digest
        /\ pc'[q] = "published" => db'.own = handoff'.next
        /\ pc'[q] = "settled" => OneSide'
    BY DEF AtStage, NoHandoff, Using, Restoring
  <1>5. CASE q = p
    BY <1>2, <1>5 DEF NoHandoff
  <1>6. CASE q # p
    BY <1>1, <1>3, <1>4, <1>6
  <1> QED BY <1>5, <1>6

-----------------------------------------------------------------------------
(* The locks.                                                              *)

\* The vault's lock is taken only when it is free.
LEMMA AcquireKept == ASSUME IInv, NEW p \in Proc, Acquire(p) PROVE IInv'
  <1> USE DEF IInv
  <1>1. CASE vaultLock = None
    <2>1. /\ To(p, "locked") /\ vaultLock' = p /\ launchLock' = Without(launchLock, p)
          /\ UNCHANGED <<files, clients>> /\ pc[p] \in {"start", "unshared"}
      BY <1>1 DEF Acquire
    <2>2. TypeOK'
      BY <2>1 DEF TypeOK, To, Without, files, clients, Stage, Opening
    <2>3. AtStage'
      BY <1>1, <2>1, OwnerStage DEF To, files, Stage, Opening, Idle, Using, Restoring
    <2>4. FileInv'
      BY <2>1, <2>3 DEF FileInv, files, Sided, Numbered, Fits, OnSide, Decided
    <2>5. ClientInv'
      BY <2>1, MoveClients
    <2> QED BY <2>2, <2>4, <2>5
  <1>2. CASE vaultLock # None
    <2>1. End(p) /\ UNCHANGED <<files, clients>>
      BY <1>2 DEF Acquire
    <2> QED BY <2>1, EndType, EndFiles, EndClients
  <1> QED BY <1>1, <1>2

\* A restore that holds its target keeps owners out.
LEMMA PrepareKept == ASSUME IInv, NEW p \in Proc, Prepare(p) PROVE IInv'
  <1> USE DEF IInv
  <1>1. CASE vaultLock = None
    <2>1. PICK t \in {"preparing", "unshared"} :
              /\ To(p, t) /\ vaultLock' = (IF t = "preparing" THEN p ELSE None) /\ launchLock' = p
              /\ UNCHANGED <<files, clients>> /\ pc[p] = "start"
      BY <1>1 DEF Prepare
    <2>2. TypeOK'
      BY <2>1 DEF TypeOK, To, files, clients, Stage, Idle
    <2>3. AtStage'
      BY <1>1, <2>1, OwnerStage DEF To, files, Stage, Idle, Using, Restoring
    <2>4. FileInv'
      BY <2>1, <2>3 DEF FileInv, files, Sided, Numbered, Fits, OnSide, Decided
    <2>5. ClientInv'
      BY <2>1, MoveClients
    <2> QED BY <2>2, <2>4, <2>5
  <1>2. CASE vaultLock # None
    <2>1. End(p) /\ UNCHANGED <<files, clients>>
      BY <1>2 DEF Prepare
    <2> QED BY <2>1, EndType, EndFiles, EndClients
  <1> QED BY <1>1, <1>2

\* Between its two holds a restore relies on nothing.
LEMMA UnshareKept == ASSUME IInv, NEW p \in Proc, Unshare(p) PROVE IInv'
  <1> USE DEF IInv
  <1>1. /\ To(p, "unshared") /\ vaultLock' = None
        /\ UNCHANGED <<launchLock, files, clients>> /\ pc[p] = "preparing"
    BY DEF Unshare
  <1>2. TypeOK'
    BY <1>1 DEF TypeOK, To, files, clients, Stage, Idle
  <1>3. vaultLock = p
    BY <1>1 DEF FileInv, AtStage, Idle
  <1>4. AtStage'
    BY <1>1, <1>3, OwnerStage DEF To, files, Stage, Idle, Using, Restoring
  <1>5. FileInv'
    BY <1>1, <1>4 DEF FileInv, files, Sided, Numbered, Fits, OnSide, Decided
  <1>6. ClientInv'
    BY <1>1, MoveClients
  <1> QED BY <1>2, <1>5, <1>6

\* A crash at any stage keeps the invariant.
LEMMA CrashKept == ASSUME IInv, NEW p \in Proc, Crash(p) PROVE IInv'
  BY EndType, EndFiles, EndClients DEF IInv, Crash

-----------------------------------------------------------------------------
(* The hand-off.                                                           *)

\* The opener that finds a record puts the marker on the database's side.
LEMMA RecoverKept == ASSUME IInv, NEW p \in Proc, Recover(p) PROVE IInv'
  <1> USE DEF IInv
  <1>1. pc[p] = "locked" /\ vaultLock = p
    BY DEF Recover, FileInv, AtStage, Idle
  <1>2. CASE handoff = NoHandoff
    <2>1. To(p, "recovered") /\ UNCHANGED <<files, locks, clients>>
      BY <1>2 DEF Recover, files
    <2>2. TypeOK'
      BY <2>1 DEF TypeOK, To, files, locks, clients, Stage, Opening
    <2>3. AtStage'
      BY <1>1, <1>2, <2>1, OwnerStage DEF To, files, locks, Stage, Opening, Idle, Using, Restoring
    <2>4. FileInv'
      BY <2>1, <2>3 DEF FileInv, files, Sided, Numbered, Fits, OnSide, Decided
    <2>5. ClientInv'
      BY <1>1, <2>1, MoveClients
    <2> QED BY <2>2, <2>4, <2>5
  <1>3. CASE handoff # NoHandoff /\ OnSide(marker, handoff) /\ Decided(handoff)
    <2>1. /\ To(p, "reconciled") /\ marker' = Desired(handoff)
          /\ UNCHANGED <<db, handoff, fresh, locks, clients>>
      BY <1>3 DEF Recover
    <2>2. TypeOK'
      BY <2>1 DEF TypeOK, To, Desired, Handoff, locks, clients, Stage, Opening
    <2>3. OneSide' /\ OnSide(marker, handoff)'
      BY <1>3, <2>1 DEF OneSide, OnSide, Decided, Desired
    <2>4. AtStage'
      BY <1>1, <1>3, <2>1, <2>3, OwnerStage DEF To, locks, Stage, Opening, Idle, Using, Restoring
    <2>5. FileInv'
      BY <1>3, <2>1, <2>3, <2>4 DEF FileInv, Sided, Numbered, Fits, Decided, NoHandoff
    <2>6. ClientInv'
      BY <1>1, <2>1, MoveClients
    <2> QED BY <2>2, <2>5, <2>6
  <1>4. CASE handoff # NoHandoff /\ ~(OnSide(marker, handoff) /\ Decided(handoff))
    <2>1. End(p) /\ UNCHANGED <<files, clients>>
      BY <1>4 DEF Recover, files
    <2> QED BY <2>1, EndType, EndFiles, EndClients
  <1> QED BY <1>2, <1>3, <1>4

\* Marker and database on one side of the record: without it, they fit.
LEMMA SettledFits ==
    ASSUME TypeOK, FileInv, handoff # NoHandoff, OneSide
    PROVE  Fits(marker)
  BY DEF TypeOK, FileInv, Sided, Numbered, OneSide, Fits, Handoff

\* The record goes when the marker and the database agree.
LEMMA ForgetKept == ASSUME IInv, NEW p \in Proc, Forget(p) PROVE IInv'
  <1> USE DEF IInv
  <1>1. /\ pc[p] = "reconciled" /\ To(p, "recovered") /\ handoff' = NoHandoff
        /\ UNCHANGED <<db, marker, fresh, locks, clients>>
    BY DEF Forget
  <1>2. vaultLock = p /\ handoff # NoHandoff /\ OneSide
    BY <1>1 DEF FileInv, AtStage, Idle
  <1>3. TypeOK'
    BY <1>1 DEF TypeOK, To, Handoff, NoHandoff, locks, clients, Stage, Opening
  <1>4. AtStage'
    <2>1. /\ pc' = [pc EXCEPT ![p] = "recovered"] /\ vaultLock' = p /\ vaultLock \in {p, None}
          /\ "recovered" \in Stage /\ "recovered" \notin Using \cup Restoring
      BY <1>1, <1>2 DEF To, locks, Stage, Opening, Using, Restoring
    <2> QED BY <1>1, <2>1, OwnerStage
  <1>5. FileInv'
    <2>1. Fits(marker)'
      BY <1>1, <1>2, SettledFits DEF Fits
    <2> QED BY <1>1, <1>4, <2>1 DEF TypeOK, FileInv, Sided, Numbered, NoHandoff
  <1>6. ClientInv'
    BY <1>1, MoveClients
  <1> QED BY <1>3, <1>5, <1>6

\* A new record has the vault on its prior side.
LEMMA RecordHandoffKept == ASSUME IInv, NEW p \in Proc, RecordHandoff(p) PROVE IInv'
  <1> USE DEF IInv
  <1>1. /\ pc[p] = "recovered" /\ fresh' = fresh + 1
        /\ staged' = [staged EXCEPT ![p] = fresh + 1]
        /\ handoff' = [prior |-> marker, digest |-> db.rev, next |-> fresh + 1]
        /\ pc' = [pc EXCEPT ![p] = "recorded"]
        /\ UNCHANGED <<db, marker, locks, kind, clients>>
    BY DEF RecordHandoff
  <1>2. vaultLock = p /\ handoff = NoHandoff
    BY <1>1 DEF FileInv, AtStage, Idle
  <1>3. TypeOK'
    BY <1>1 DEF TypeOK, Handoff, locks, clients, Stage, Restoring
  <1>4. /\ handoff'.prior = marker /\ handoff'.digest = db.rev /\ handoff'.next = fresh + 1
        /\ handoff' # NoHandoff /\ staged'[p] = fresh + 1
    BY <1>1 DEF TypeOK, NoHandoff
  <1>5. AtStage'
    BY <1>1, <1>2, <1>4, OwnerStage DEF locks, Stage, Idle, Using, Restoring
  <1>6. FileInv'
    BY <1>1, <1>2, <1>4, <1>5 DEF TypeOK, FileInv, Sided, Numbered, Fits, OnSide, Decided
  <1>7. ClientInv'
    <2>1. \A c \in Client : ready[c] \subseteq Proc
      BY DEF TypeOK
    <2>2. \A q \in Proc : pc'[q] = IF q = p THEN "recorded" ELSE pc[q]
      BY <1>1 DEF TypeOK
    <2> QED
      BY <1>1, <2>1, <2>2 DEF ClientInv, TargetKnown, ReadyPast, Rechecked, Compatible, Answers, clients
  <1> QED BY <1>3, <1>6, <1>7

\* The marker moves to the next side, the database still tells.
LEMMA ReplaceOwnershipKept == ASSUME IInv, NEW p \in Proc, ReplaceOwnership(p) PROVE IInv'
  <1> USE DEF IInv
  <1>1. /\ pc[p] = "recorded" /\ To(p, "marked") /\ marker' = staged[p]
        /\ UNCHANGED <<db, handoff, fresh, locks, clients>>
    BY DEF ReplaceOwnership
  <1>2. /\ vaultLock = p /\ handoff # NoHandoff /\ handoff.next = staged[p]
        /\ db.rev = handoff.digest
    BY <1>1 DEF FileInv, AtStage, Idle, Restoring
  <1>3. TypeOK'
    BY <1>1 DEF TypeOK, To, locks, clients, Stage, Restoring
  <1>4. AtStage'
    BY <1>1, <1>2, OwnerStage DEF To, locks, Stage, Idle, Using, Restoring
  <1>5. FileInv'
    BY <1>1, <1>2, <1>4 DEF FileInv, Sided, Numbered, Fits, OnSide, Decided, NoHandoff
  <1>6. ClientInv'
    BY <1>1, MoveClients
  <1> QED BY <1>3, <1>5, <1>6

\* The rename moves the database to the side of the marker.
LEMMA PublishDatabaseKept == ASSUME IInv, NEW p \in Proc, PublishDatabase(p) PROVE IInv'
  <1> USE DEF IInv
  <1>1. /\ pc[p] = "marked" /\ To(p, "published")
        /\ db' = [own |-> staged[p], rev |-> staged[p]]
        /\ UNCHANGED <<marker, handoff, fresh, locks, clients>>
    BY DEF PublishDatabase
  <1>2. vaultLock = p /\ handoff # NoHandoff /\ handoff.next = staged[p]
    BY <1>1 DEF FileInv, AtStage, Idle, Restoring
  <1>3. TypeOK'
    BY <1>1 DEF TypeOK, To, locks, clients, Stage, Restoring
  <1>4. db'.own = handoff.next /\ db'.rev = handoff.next
    BY <1>1, <1>2
  <1>5. AtStage'
    BY <1>1, <1>2, <1>4, OwnerStage DEF To, locks, Stage, Idle, Using, Restoring
  <1>6. handoff.digest # handoff.next /\ handoff.next \in Nat
    BY <1>2 DEF TypeOK, FileInv, Numbered, Handoff
  <1>7. FileInv'
    BY <1>1, <1>2, <1>4, <1>5, <1>6 DEF FileInv, Sided, Numbered, Fits, OnSide, Decided, NoHandoff
  <1>8. ClientInv'
    BY <1>1, MoveClients
  <1> QED BY <1>3, <1>7, <1>8

\* Commit and rollback put the marker on the database's side.
LEMMA SettleKept ==
    ASSUME IInv, NEW p \in Proc, NEW desired, Settle(p, desired),
           \/ pc[p] = "published" /\ desired = handoff.next
           \/ pc[p] \in {"recorded", "marked"} /\ desired = handoff.prior
    PROVE  IInv'
  <1> USE DEF IInv
  <1>1. /\ vaultLock = p /\ handoff # NoHandoff
        /\ pc[p] = "published" => db.own = handoff.next
        /\ pc[p] \in {"recorded", "marked"} => db.rev = handoff.digest
    BY DEF FileInv, AtStage, Idle, Restoring
  <1>2. CASE handoff.next = staged[p] /\ OnSide(marker, handoff)
    <2>1. /\ To(p, "settled") /\ marker' = desired
          /\ UNCHANGED <<db, handoff, fresh, locks, clients>>
      BY <1>2 DEF Settle
    <2>2. TypeOK'
      BY <2>1 DEF TypeOK, To, Handoff, locks, clients, Stage, Restoring
    <2>3. OneSide' /\ OnSide(marker, handoff)'
      BY <1>1, <2>1 DEF OneSide, OnSide
    <2>4. AtStage'
      BY <1>1, <2>1, <2>3, OwnerStage DEF To, locks, Stage, Idle, Using, Restoring
    <2>5. FileInv'
      BY <1>1, <2>1, <2>3, <2>4 DEF FileInv, Sided, Numbered, Fits, Decided, NoHandoff
    <2>6. ClientInv'
      BY <2>1, MoveClients
    <2> QED BY <2>2, <2>5, <2>6
  <1>3. CASE ~(handoff.next = staged[p] /\ OnSide(marker, handoff))
    <2>1. End(p) /\ UNCHANGED <<files, clients>>
      BY <1>3 DEF Settle, files
    <2> QED BY <2>1, EndType, EndFiles, EndClients
  <1> QED BY <1>2, <1>3

\* The restore's own record goes when the marker and the database agree.
LEMMA FinishKept == ASSUME IInv, NEW p \in Proc, Finish(p) PROVE IInv'
  <1> USE DEF IInv
  <1>1. /\ pc[p] = "settled" /\ End(p) /\ handoff' = NoHandoff
        /\ UNCHANGED <<db, marker, fresh, clients>>
    BY DEF Finish
  <1>2. vaultLock = p /\ handoff # NoHandoff /\ OneSide
    BY <1>1 DEF FileInv, AtStage, Idle, Restoring
  <1>3. TypeOK'
    BY <1>1 DEF TypeOK, End, Without, Handoff, NoHandoff, clients, Stage, Idle
  <1>4. AtStage'
    BY ZenonT(60), <1>1, <1>2, OwnerStage DEF End, Stage, Idle, Using, Restoring
  <1>5. FileInv'
    <2>1. Fits(marker)'
      BY <1>1, <1>2, SettledFits DEF Fits
    <2> QED BY <1>1, <1>4, <2>1 DEF TypeOK, FileInv, Sided, Numbered, NoHandoff
  <1>6. ClientInv'
    BY <1>1, EndClients
  <1> QED BY <1>3, <1>5, <1>6

-----------------------------------------------------------------------------
(* Daemons and applications.                                               *)

\* A created database has an ownership that no file has yet.
LEMMA OpenStoreKept == ASSUME IInv, NEW p \in Proc, OpenStore(p) PROVE IInv'
  <1> USE DEF IInv
  <1>1. pc[p] = "recovered" /\ vaultLock = p /\ handoff = NoHandoff
    BY DEF OpenStore, FileInv, AtStage, Idle
  <1>2. CASE db # NoDb /\ db.own = 0
    <2>1. End(p) /\ UNCHANGED <<files, clients>>
      BY <1>2 DEF OpenStore, files
    <2> QED BY <2>1, EndType, EndFiles, EndClients
  <1>3. CASE ~(db # NoDb /\ db.own = 0)
    <2>1. /\ To(p, "opened") /\ UNCHANGED <<marker, handoff, locks, clients>>
          /\ \/ /\ db = NoDb /\ fresh' = fresh + 1
                /\ db' = [own |-> fresh + 1, rev |-> fresh + 1]
             \/ db.own # 0 /\ db' = db /\ fresh' = fresh
      BY <1>3 DEF OpenStore
    <2>2. TypeOK'
      BY <2>1 DEF TypeOK, To, locks, clients, Stage
    <2>3. db'.own # 0 /\ db'.own <= db'.rev /\ db'.rev <= fresh' /\ fresh <= fresh' /\ db'.rev # 0
      BY <2>1 DEF TypeOK, FileInv, Numbered
    <2>4. AtStage'
      BY <1>1, <2>1, <2>3, OwnerStage DEF To, locks, Stage, Idle, Using, Restoring
    <2>5. marker \in {0, db'.own}
      BY <1>1, <2>1 DEF FileInv, Sided, Fits, NoDb, TypeOK, Numbered
    <2>6. FileInv'
      <3>1. Sided'
        BY <1>1, <2>1, <2>3, <2>5 DEF Sided, Fits
      <3>2. Numbered'
        BY <1>1, <2>1, <2>3 DEF Numbered, NoHandoff, TypeOK
      <3> QED BY <2>4, <3>1, <3>2 DEF FileInv
    <2>7. ClientInv'
      BY <1>1, <2>1, MoveClients
    <2> QED BY <2>2, <2>6, <2>7
  <1> QED BY <1>2, <1>3

\* An attached store has the catalog's marker.
LEMMA AttachKept == ASSUME IInv, NEW p \in Proc, Attach(p) PROVE IInv'
  <1> USE DEF IInv
  <1>1. pc[p] = "opened" /\ vaultLock = p /\ handoff = NoHandoff /\ db.own # 0
    BY DEF Attach, FileInv, AtStage, Idle
  <1>2. CASE marker \in {0, db.own}
    <2>1. /\ To(p, "attached") /\ marker' = db.own
          /\ UNCHANGED <<db, handoff, fresh, locks, clients>>
      BY <1>2 DEF Attach
    <2>2. TypeOK'
      BY <2>1 DEF TypeOK, To, locks, clients, Stage, Using
    <2>3. AtStage'
      BY <1>1, <2>1, OwnerStage DEF To, locks, Stage, Idle, Using, Restoring
    <2>4. FileInv'
      BY <1>1, <2>1, <2>3 DEF FileInv, Sided, Numbered, Fits, NoHandoff, TypeOK
    <2>5. ClientInv'
      BY <1>1, <2>1, MoveClients
    <2> QED BY <2>2, <2>4, <2>5
  <1>3. CASE marker \notin {0, db.own}
    <2>1. End(p) /\ UNCHANGED <<files, clients>>
      BY <1>3 DEF Attach, files
    <2> QED BY <2>1, EndType, EndFiles, EndClients
  <1> QED BY <1>2, <1>3

\* A write gives the database a digest that no record has.
LEMMA WriteKept == ASSUME IInv, NEW p \in Proc, Write(p) PROVE IInv'
  <1> USE DEF IInv
  <1>1. /\ pc[p] \in Using /\ fresh' = fresh + 1 /\ db' = [db EXCEPT !.rev = fresh + 1]
        /\ UNCHANGED <<marker, handoff, locks, processes, clients>>
    BY DEF Write, Using
  <1>2. vaultLock = p /\ handoff = NoHandoff /\ db.own # 0 /\ marker = db.own
    BY <1>1 DEF FileInv, AtStage, Idle, Using
  <1>3. TypeOK'
    BY <1>1 DEF TypeOK, locks, processes, clients
  <1>4. db'.own = db.own /\ db'.rev = fresh + 1
    BY <1>1 DEF TypeOK
  <1>5. AtStage'
    <2>1. \A q \in Proc : q # p => pc[q] \in Idle
      BY <1>2, OthersIdle
    <2> QED
      BY <1>1, <1>2, <1>4, <2>1 DEF AtStage, processes, locks, Idle, Using, Restoring
  <1>6. FileInv'
    BY <1>1, <1>2, <1>4, <1>5 DEF TypeOK, FileInv, Sided, Numbered, Fits, NoHandoff
  <1>7. ClientInv'
    BY <1>1 DEF ClientInv, TargetKnown, ReadyPast, Rechecked, Compatible, Answers, processes, clients
  <1> QED BY <1>3, <1>6, <1>7

\* A stage that needs what its predecessor had, with the files as they are.
LEMMA OnwardKept ==
    ASSUME IInv, NEW p \in Proc, NEW t, To(p, t), UNCHANGED <<launchLock, files, clients>>,
           \/ pc[p] = "attached" /\ t = "serving" /\ vaultLock' = vaultLock
           \/ pc[p] = "serving" /\ t = "draining" /\ vaultLock' = vaultLock
           \/ pc[p] = "draining" /\ t = "released" /\ vaultLock' = None
    PROVE  IInv'
  <1> USE DEF IInv
  <1>1. TypeOK'
    BY DEF TypeOK, To, files, clients, Stage, Using, Idle
  <1>2. vaultLock = p /\ handoff = NoHandoff /\ db.own # 0 /\ marker = db.own
    BY DEF FileInv, AtStage, Idle, Using
  <1>3. AtStage'
    BY <1>2, OwnerStage DEF To, files, Stage, Idle, Using, Restoring
  <1>4. FileInv'
    BY <1>3 DEF FileInv, files, Sided, Numbered, Fits, OnSide, Decided
  <1>5. ClientInv'
    BY MoveClients
  <1> QED BY <1>1, <1>4, <1>5

\* Every step of an owner keeps the invariant.
LEMMA OwnerStepKept == ASSUME IInv, NEW p \in Proc, OwnerStep(p) PROVE IInv'
  <1>1. CASE Recover(p) BY <1>1, RecoverKept
  <1>2. CASE Forget(p) BY <1>2, ForgetKept
  <1>3. CASE OpenStore(p) BY <1>3, OpenStoreKept
  <1>4. CASE Attach(p) BY <1>4, AttachKept
  <1>5. CASE Write(p) BY <1>5, WriteKept
  <1>6. CASE Serve(p)
    BY <1>6, OnwardKept DEF Serve, locks
  <1>7. CASE Drain(p)
    BY <1>7, OnwardKept DEF Drain, locks
  <1>8. CASE Release(p)
    BY <1>8, OnwardKept DEF Release
  <1>9. CASE RemoveRecord(p)
    BY <1>9, EndType, EndFiles, EndClients DEF RemoveRecord, IInv
  <1>10. CASE CloseVault(p)
    BY <1>10, EndType, EndFiles, EndClients DEF CloseVault, IInv
  <1>11. CASE Crash(p) BY <1>11, CrashKept
  <1> QED
    BY <1>1, <1>2, <1>3, <1>4, <1>5, <1>6, <1>7, <1>8, <1>9, <1>10, <1>11 DEF OwnerStep

\* Every step of a restore keeps the invariant.
LEMMA RestoreStepKept == ASSUME IInv, NEW p \in Proc, RestoreStep(p) PROVE IInv'
  <1>1. CASE Commit(p)
    BY <1>1, SettleKept DEF Commit
  <1>2. CASE Rollback(p)
    BY <1>2, SettleKept DEF Rollback
  <1> QED
    BY <1>1, <1>2, PrepareKept, RecordHandoffKept, ReplaceOwnershipKept, PublishDatabaseKept,
       FinishKept DEF RestoreStep

-----------------------------------------------------------------------------
(* Clients.                                                                *)

\* A client that moves while nobody else does.
LEMMA ClientMoves ==
    ASSUME IInv, NEW c \in Client, NEW there \in Doing, Move(c, there),
           UNCHANGED <<vaultLock, files, processes>>,
           launchLock' \in {launchLock, c, None},
           mode' \in [Client -> {"ensure", "stop", "update"}],
           target' \in [Client -> Proc \cup {None}],
           ready' \in [Client -> SUBSET Proc],
           \A d \in Client : d # c =>
               mode'[d] = mode[d] /\ target'[d] = target[d] /\ ready'[d] = ready[d],
           there \in {"request", "awaiting"} => target'[c] \in Proc,
           \A p \in ready'[c] : pc[p] \in {"serving", "draining", "released", "off"},
           mode'[c] = "ensure" /\ there \in {"find", "live", "request"} =>
               \A p \in ready'[c] : ~Compatible(c, p)
    PROVE  IInv'
  <1> USE DEF IInv
  <1>1. TypeOK'
    BY DEF TypeOK, Move, files, processes
  <1>2. FileInv'
    BY DEF FileInv, AtStage, Sided, Numbered, Fits, OnSide, Decided, OneSide, files, processes
  <1>3. \A d \in Client : cpc'[d] = IF d = c THEN there ELSE cpc[d]
    BY DEF TypeOK, Move
  <1>4. \A d \in Client, p \in Proc : Compatible(d, p)' = Compatible(d, p)
    BY DEF Compatible, Answers, processes
  <1>5. pc' = pc
    BY DEF processes
  <1>6. \A d \in Client : ready'[d] \subseteq Proc
    OBVIOUS
  <1>7. ClientInv'
    BY <1>3, <1>4, <1>5, <1>6 DEF ClientInv, TargetKnown, ReadyPast, Rechecked
  <1> QED BY <1>1, <1>2, <1>7

\* A command that returns forgets its target.
LEMMA ReturnKept ==
    ASSUME IInv, NEW c \in Client, Return(c), UNCHANGED <<vaultLock, files, processes>>
    PROVE  IInv'
  <1>1. /\ Move(c, "idle") /\ "idle" \in Doing /\ launchLock' \in {launchLock, c, None}
        /\ mode' = [mode EXCEPT ![c] = "ensure"] /\ target' = [target EXCEPT ![c] = None]
        /\ ready' = [ready EXCEPT ![c] = {}]
    BY DEF Return, Without, Doing
  <1> QED BY <1>1, ClientMoves DEF IInv, TypeOK

\* A command that goes on keeps its lock, mode and target.
LEMMA ProceedKept ==
    ASSUME IInv, NEW c \in Client, NEW there \in Doing, Proceed(c, there),
           UNCHANGED <<vaultLock, files, processes>>,
           there = "awaiting" => target[c] \in Proc, there # "request",
           mode[c] = "ensure" /\ there \in {"find", "live"} =>
               \A p \in ready[c] : ~Compatible(c, p)
    PROVE  IInv'
  <1>1. \A p \in ready[c] : pc[p] \in {"serving", "draining", "released", "off"}
    BY DEF IInv, ClientInv, ReadyPast
  <1>2. /\ Move(c, there) /\ launchLock' \in {launchLock, c, None}
        /\ mode' = mode /\ target' = target /\ ready' = ready
    BY DEF Proceed
  <1> QED BY <1>1, <1>2, ClientMoves DEF IInv, TypeOK

\* Find and Live choose the process to stop.
LEMMA ChooseKept ==
    ASSUME IInv, NEW c \in Client, NEW p \in Proc, cpc[c] \in {"find", "live"},
           target' = [target EXCEPT ![c] = p], Move(c, "request"),
           UNCHANGED <<launchLock, mode, ready, vaultLock, files, processes>>
    PROVE  IInv'
  <1>1. /\ \A q \in ready[c] : pc[q] \in {"serving", "draining", "released", "off"}
        /\ mode[c] = "ensure" => \A q \in ready[c] : ~Compatible(c, q)
    BY DEF IInv, ClientInv, ReadyPast, Rechecked
  <1>2. "request" \in Doing
    BY DEF Doing
  <1> QED BY <1>1, <1>2, ClientMoves DEF IInv, TypeOK

\* A command that begins has no target and no lock.
LEMMA BeginKept == ASSUME IInv, NEW c \in Client, Begin(c) PROVE IInv'
  <1>1. CASE Discover(c)
    BY <1>1, ProceedKept DEF Discover, OnlyClients, Doing
  <1>2. ASSUME NEW m \in {"stop", "update"}, Command(c, m) PROVE IInv'
    <2> DEFINE t == IF m = "stop" THEN "find" ELSE "waiting"
    <2>1. /\ Move(c, t)
          /\ mode' = [mode EXCEPT ![c] = m]
          /\ UNCHANGED <<launchLock, target, ready, vaultLock, files, processes>>
      BY <1>2 DEF Command, OnlyClients
    <2>2. t \in Doing /\ t \notin {"request", "awaiting"}
      BY DEF Doing
    <2>3. \A p \in ready[c] : pc[p] \in {"serving", "draining", "released", "off"}
      BY DEF IInv, ClientInv, ReadyPast
    <2> HIDE DEF t
    <2> QED BY <2>1, <2>2, <2>3, ClientMoves DEF IInv, TypeOK
  <1> QED BY <1>1, <1>2 DEF Begin

\* The ready daemons are those that answer when the lock is taken.
LEMMA TakeLaunchKept == ASSUME IInv, NEW c \in Client, TakeLaunch(c) PROVE IInv'
  <1> DEFINE r == {p \in Proc : Compatible(c, p)}
             t == IF mode[c] = "ensure" THEN "recheck" ELSE "find"
  <1>1. /\ Move(c, t) /\ launchLock' = c /\ ready' = [ready EXCEPT ![c] = r]
        /\ UNCHANGED <<mode, target, vaultLock, files, processes>>
    BY DEF TakeLaunch, OnlyClients
  <1>2. t \in Doing \ {"request", "awaiting"} /\ (mode[c] = "ensure" => t = "recheck")
    BY DEF Doing
  <1>3. r \in SUBSET Proc /\ \A p \in r : pc[p] \in {"serving", "draining", "released", "off"}
    BY DEF Compatible, Answers
  <1> HIDE DEF r, t
  <1> QED BY <1>1, <1>2, <1>3, ClientMoves DEF IInv, TypeOK

\* A stop request only makes a serving daemon drain.
LEMMA RequestKept == ASSUME IInv, NEW c \in Client, Request(c) PROVE IInv'
  <1>1. target[c] \in Proc /\ cpc[c] = "request"
    BY DEF Request, IInv, ClientInv, TargetKnown
  <1>2. "awaiting" \in Doing
    BY DEF Doing
  <1>3. CASE Alive(target[c]) /\ Answers(target[c])
    <2>1. /\ To(target[c], "draining") /\ Proceed(c, "awaiting") /\ UNCHANGED <<vaultLock, files>>
          /\ pc[target[c]] = "serving"
      BY <1>3 DEF Request, Answers
    <2> DEFINE p == target[c]
    <2>2. TypeOK'
      BY <1>1, <2>1 DEF IInv, TypeOK, To, Proceed, Move, files, Stage, Using, Doing
    <2>3. FileInv'
      <3>1. vaultLock = p /\ handoff = NoHandoff /\ db.own # 0 /\ marker = db.own
        BY <1>1, <2>1 DEF IInv, FileInv, AtStage, Idle, Using
      <3>2. /\ pc' = [pc EXCEPT ![p] = "draining"] /\ vaultLock' = p /\ vaultLock \in {p, None}
            /\ "draining" \in Stage /\ "draining" \notin Restoring
            /\ db' = db /\ marker' = marker /\ handoff' = handoff /\ fresh' = fresh
        BY <2>1, <3>1 DEF To, files, Stage, Using, Restoring
      <3>3. AtStage'
        BY <1>1, <3>1, <3>2, OwnerStage DEF IInv
      <3> QED BY <3>2, <3>3 DEF IInv, FileInv, Sided, Numbered, Fits, OnSide, Decided
    <2>4. /\ \A q \in Proc : pc'[q] = IF q = p THEN "draining" ELSE pc[q]
          /\ kind' = kind /\ mode' = mode /\ target' = target /\ ready' = ready
          /\ \A d \in Client : cpc'[d] = IF d = c THEN "awaiting" ELSE cpc[d]
          /\ \A d \in Client : ready[d] \subseteq Proc
      BY <1>1, <2>1 DEF IInv, TypeOK, To, Proceed, Move
    <2>5. ClientInv'
      <3>1. \A d \in Client : \A q \in ready[d] : Compatible(d, q)' => Compatible(d, q)
        BY <2>4 DEF Compatible, Answers
      <3>2. TargetKnown' /\ ReadyPast'
        BY <1>1, <2>4 DEF IInv, ClientInv, TargetKnown, ReadyPast
      <3>3. Rechecked'
        BY <2>4, <3>1 DEF IInv, ClientInv, Rechecked
      <3> QED BY <3>2, <3>3 DEF ClientInv
    <2> QED BY <2>2, <2>3, <2>5 DEF IInv
  <1>4. CASE Alive(target[c]) /\ ~Answers(target[c])
    BY <1>1, <1>2, <1>4, ProceedKept DEF Request
  <1>5. CASE ~Alive(target[c])
    BY <1>5, ReturnKept DEF Request
  <1> QED BY <1>3, <1>4, <1>5

\* A client whose target is gone goes on to start another.
LEMMA StoppedDeadKept == ASSUME IInv, NEW c \in Client, StoppedDead(c) PROVE IInv'
  <1>1. CASE mode[c] = "stop"
    BY <1>1, ReturnKept DEF StoppedDead, OnlyClients
  <1>2. CASE mode[c] # "stop"
    <2>1. /\ Move(c, "spawn") /\ target' = [target EXCEPT ![c] = None]
          /\ UNCHANGED <<launchLock, mode, ready, vaultLock, files, processes>>
      BY <1>2 DEF StoppedDead, OnlyClients
    <2>2. \A p \in ready[c] : pc[p] \in {"serving", "draining", "released", "off"}
      BY DEF IInv, ClientInv, ReadyPast
    <2>3. "spawn" \in Doing
      BY DEF Doing
    <2> QED BY <2>1, <2>2, <2>3, ClientMoves DEF IInv, TypeOK
  <1> QED BY <1>1, <1>2

\* Every step of a client keeps the invariant.
LEMMA ContinueKept == ASSUME IInv, NEW c \in Client, Continue(c) PROVE IInv'
  <1>1. CASE TakeLaunch(c) BY <1>1, TakeLaunchKept
  <1>2. CASE Recheck(c)
    <2>1. CASE Return(c)
      BY <1>2, <2>1, ReturnKept DEF Recheck, OnlyClients
    <2>2. CASE Move(c, "find")
               /\ ready' = [ready EXCEPT ![c] = {p \in @ : ~Compatible(c, p)}]
               /\ UNCHANGED <<launchLock, mode, target>>
      <3>1. /\ ready'[c] \subseteq ready[c] /\ \A p \in ready'[c] : ~Compatible(c, p)
            /\ ready' \in [Client -> SUBSET Proc]
            /\ \A d \in Client : d # c => ready'[d] = ready[d]
        BY <2>2 DEF IInv, TypeOK
      <3>2. \A p \in ready'[c] : pc[p] \in {"serving", "draining", "released", "off"}
        BY <3>1 DEF IInv, ClientInv, ReadyPast
      <3>3. "find" \in Doing /\ UNCHANGED <<vaultLock, files, processes>>
        BY <1>2 DEF Doing, Recheck, OnlyClients
      <3> QED BY <2>2, <3>1, <3>2, <3>3, ClientMoves DEF IInv, TypeOK
    <2> QED BY <1>2, <2>1, <2>2 DEF Recheck
  <1>3. CASE Find(c)
    <2>1. ASSUME NEW p \in Proc, target' = [target EXCEPT ![c] = p], Move(c, "request"),
                 UNCHANGED <<launchLock, mode, ready>> PROVE IInv'
      BY <1>3, <2>1, ChooseKept DEF Find, OnlyClients
    <2>2. CASE Proceed(c, "live")
      <3>1. mode[c] = "ensure" => \A p \in ready[c] : ~Compatible(c, p)
        BY <1>3 DEF Find, IInv, ClientInv, Rechecked
      <3>2. "live" \in Doing /\ OnlyClients
        BY <1>3 DEF Find, Doing
      <3> QED BY <2>2, <3>1, <3>2, ProceedKept DEF OnlyClients
    <2> QED BY <1>3, <2>1, <2>2 DEF Find
  <1>4. CASE Live(c)
    <2>1. ASSUME NEW p \in Proc, target' = [target EXCEPT ![c] = p], Move(c, "request"),
                 UNCHANGED <<launchLock, mode, ready>> PROVE IInv'
      BY <1>4, <2>1, ChooseKept DEF Live, OnlyClients
    <2>2. CASE Proceed(c, "spawn")
      BY <1>4, <2>2, ProceedKept DEF Live, OnlyClients, Doing
    <2>3. CASE Return(c)
      BY <1>4, <2>3, ReturnKept DEF Live, OnlyClients
    <2> QED BY <1>4, <2>1, <2>2, <2>3 DEF Live
  <1>5. CASE Request(c) BY <1>5, RequestKept
  <1>6. CASE StoppedDead(c) BY <1>6, StoppedDeadKept
  <1>7. CASE ForceStop(c)
    <2>1. target[c] \in Proc
      BY <1>7 DEF ForceStop, IInv, ClientInv, TargetKnown
    <2> QED BY <1>7, <2>1, EndType, EndFiles, EndClients DEF ForceStop, IInv
  <1>8. CASE Spawn(c)
    <2>1. PICK p \in Proc, v \in Version : Start(p, v)
      BY <1>8 DEF Spawn
    <2>2. cpc' = [cpc EXCEPT ![c] = "starting"] /\ UNCHANGED <<locks, files, staged, mode, target>>
      BY <1>8 DEF Spawn, Move
    <2> QED BY <2>1, <2>2, StartKept
  <1>9. CASE SeesReady(c)
    BY <1>9, ReturnKept DEF SeesReady, OnlyClients
  <1>10. CASE StartFails(c)
    BY <1>10, ReturnKept DEF StartFails, OnlyClients
  <1> QED
    BY <1>1, <1>2, <1>3, <1>4, <1>5, <1>6, <1>7, <1>8, <1>9, <1>10 DEF Continue

-----------------------------------------------------------------------------
(* Every step.                                                             *)

\* Every step keeps the invariant.
LEMMA NextIInv == IInv /\ [Next]_vars => IInv'
  <1> SUFFICES ASSUME IInv, [Next]_vars PROVE IInv' OBVIOUS
  <1>1. ASSUME NEW p \in Proc, NEW k \in Version \cup {"embedded", "restore"}, Launch(p, k)
        PROVE  IInv'
    <2>1. cpc' = cpc /\ None \notin Client
      BY <1>1, NoneAssumption DEF Launch
    <2> QED BY <1>1, <2>1, StartKept DEF Launch
  <1>2. ASSUME NEW p \in Proc, EnterTarget(p) PROVE IInv'
    BY <1>2, UnshareKept, AcquireKept DEF EnterTarget
  <1>3. ASSUME NEW c \in Client, GiveUp(c) PROVE IInv'
    BY <1>3, ReturnKept DEF GiveUp, OnlyClients
  <1>4. CASE UNCHANGED vars
    BY <1>4 DEF IInv, TypeOK, FileInv, AtStage, Sided, Numbered, Fits, OnSide, Decided, OneSide,
       ClientInv, TargetKnown, ReadyPast, Rechecked, Compatible, Answers,
       vars, locks, files, processes, clients
  <1> QED
    BY <1>1, <1>2, <1>3, <1>4, RestoreStepKept, OwnerStepKept, BeginKept, ContinueKept DEF Next

\* The inductive invariant holds throughout.
THEOREM Invariance == Spec => []IInv
  BY InitIInv, NextIInv, PTL DEF Spec

\* The locks, files, processes and clients keep their types, whatever the
\* number of processes and databases.
THEOREM TypeCorrect == Spec => []TypeOK
  <1>1. IInv => TypeOK
    BY DEF IInv
  <1> QED BY <1>1, Invariance, PTL

\* The vault's lock keeps owners apart through crashes, forced stops and the
\* moment at which a restore has given up its shared hold.
THEOREM OwnersApart == Spec => []SoleOwner
  <1>1. IInv => SoleOwner
    BY DEF IInv, FileInv, AtStage, SoleOwner
  <1> QED BY <1>1, Invariance, PTL

\* Whoever uses the vault has the marker and the catalog of one vault.
THEOREM MarkerOwned == Spec => []UsersOwnTheMarker
  <1>1. IInv => UsersOwnTheMarker
    BY DEF IInv, FileInv, AtStage, UsersOwnTheMarker
  <1> QED BY <1>1, Invariance, PTL

\* No sequence of crashes, restores and openings leaves a vault that the
\* next opener refuses as fenced.
THEOREM AlwaysRecoverable == Spec => []NeverFenced
  <1>1. IInv => NeverFenced
    BY DEF IInv, FileInv, Sided, Numbered, Fits, NeverFenced, TypeOK
  <1> QED BY <1>1, Invariance, PTL

\* A hand-off is settled with marker and database on the same side.
THEOREM SettledTogether == Spec => SettledOnOneSide
  <1>1. ASSUME IInv, [Next]_vars, handoff # NoHandoff, handoff' # handoff
        PROVE  \/ db'.rev = handoff.digest /\ marker' = handoff.prior
               \/ db'.own = handoff.next /\ marker' = handoff.next
    <2>1. \A p \in Proc : RecordHandoff(p) => FALSE
      BY <1>1 DEF RecordHandoff, IInv, FileInv, AtStage
    <2>2. \E p \in Proc : Forget(p) \/ Finish(p)
      BY <1>1, <2>1 DEF Next, vars, files, processes, Launch, EnterTarget, Unshare, Acquire,
         RestoreStep, OwnerStep, Begin, Continue, GiveUp, OnlyClients, Prepare, ReplaceOwnership,
         PublishDatabase, Commit, Rollback, Settle, Recover, OpenStore, Attach, Write, Serve,
         Drain, Release, RemoveRecord, CloseVault, Crash, Discover, Command, TakeLaunch, Recheck,
         Find, Live, Request, StoppedDead, ForceStop, Spawn, SeesReady, StartFails
    <2>3. PICK p \in Proc : Forget(p) \/ Finish(p)
      BY <2>2
    <2>4. OneSide /\ db' = db /\ marker' = marker
      BY <1>1, <2>3 DEF IInv, FileInv, AtStage, Forget, Finish, Restoring
    <2> QED BY <2>4 DEF OneSide
  <1>2. IInv /\ [Next]_vars =>
          [handoff # NoHandoff /\ handoff' # handoff =>
             \/ db'.rev = handoff.digest /\ marker' = handoff.prior
             \/ db'.own = handoff.next /\ marker' = handoff.next]_vars
    BY <1>1
  <1> QED BY <1>2, Invariance, PTL DEF Spec, SettledOnOneSide

\* No ensuring client stops a daemon that could have served it when it took
\* the launch lock and did not miss its probe.
THEOREM ReadyDaemonSpared == Spec => []SparesReadyDaemon
  <1>1. IInv => SparesReadyDaemon
    BY DEF IInv, ClientInv, Rechecked, SparesReadyDaemon
  <1> QED BY <1>1, Invariance, PTL
=============================================================================
