--------------------------- MODULE VaultOwnership ---------------------------
(***************************************************************************)
(* Who owns a vault's directory, and what a restore over it leaves behind  *)
(* when it stops at any point: the processes that open the vault (daemons, *)
(* embedding applications, restores), the two advisory locks, the primary  *)
(* marker and the hand-off record beside the database, and the clients     *)
(* that find, stop, replace and start daemons.                             *)
(* Sources: internal/home/lock.go, internal/backupapp (restore.go,         *)
(* restore_target.go), internal/blob (primary_restore.go, blob.go),        *)
(* cmd/docbank/daemon.go, vault.go, internal/client/ensure.go and          *)
(* internal/update/update.go.                                              *)
(*                                                                         *)
(* A process stands for a PID with its create time: it is used again only  *)
(* when no client still has the old one in mind.  A process that ends,     *)
(* however it ends, gives back its locks; an error return before the       *)
(* runtime record is written leaves what a crash leaves, so Crash is both. *)
(* A runtime record whose process is gone is told from a live one by that, *)
(* so it is left out.  A deadline passes when it likes.                    *)
(*                                                                         *)
(* Databases are numbered as they come into being: rev stands for the      *)
(* digest of docbank.db, 0 when there is none, and own for the ownership   *)
(* that its primary store row gives, 0 when it cannot be read.  A database *)
(* that is created or restored gets an ownership no other has.             *)
(***************************************************************************)
EXTENDS Naturals

CONSTANTS
    Proc,           \* processes that open the vault
    Client,         \* commands that look for a daemon
    Version,        \* versions of the executable
    VersionOf,      \* VersionOf[c]: the one that c was built as
    None,
    MaxDb           \* bound on the databases and their revisions

ASSUME NoneAssumption == None \notin Proc \cup Client
ASSUME VersionAssumption ==
    VersionOf \in [Client -> Version] /\ {"none", "embedded", "restore"} \cap Version = {}
ASSUME MaxDbAssumption == MaxDb \in Nat

VARIABLES
    vaultLock,      \* the hierarchy locks and vault.lock of the root
    launchLock,     \* daemon-launch.lock
    db,             \* docbank.db
    marker,         \* the ownership marker of the primary store, 0 if absent
    handoff,        \* blobs/tmp/primary-restore-handoff.json
    fresh,          \* the last number given to a database
    pc,             \* what each process is doing
    kind,           \* what each process is
    staged,         \* the ownership of the database that a restore staged
    cpc,            \* what each client is doing
    mode,           \* which command it is
    target,         \* the process that it stops
    ready           \* history: the daemons that could have served the client
                    \* when it took the launch lock, and have not missed the
                    \* probe that it made under it

files == <<db, marker, handoff, fresh>>
processes == <<pc, kind, staged>>
clients == <<cpc, mode, target, ready>>
locks == <<vaultLock, launchLock>>
vars == <<locks, files, processes, clients>>

Handoff == [prior : Nat, digest : Nat, next : Nat]
NoHandoff == [prior |-> 0, digest |-> 0, next |-> 0]
NoDb == [own |-> 0, rev |-> 0]
Daemon(p) == kind[p] \in Version

\* The vault is missing, in use, without a marker as an older version left
\* it, or has something else in the database's place.
Init ==
    /\ vaultLock = None /\ launchLock = None
    /\ fresh = 1
    /\ db \in {NoDb, [own |-> 1, rev |-> 1], [own |-> 0, rev |-> 1]}
    /\ marker \in {0, db.own}
    /\ handoff = NoHandoff
    /\ pc = [p \in Proc |-> "off"]
    /\ kind = [p \in Proc |-> "none"]
    /\ staged = [p \in Proc |-> 0]
    /\ cpc = [c \in Client |-> "idle"]
    /\ mode = [c \in Client |-> "ensure"]
    /\ target = [c \in Client |-> None]
    /\ ready = [c \in Client |-> {}]

-----------------------------------------------------------------------------
(* Processes and the vault's lock.                                         *)

Alive(p) == pc[p] # "off"
Free(p) == pc[p] = "off" /\ \A c \in Client : target[c] # p
Without(lock, a) == IF lock = a THEN None ELSE lock
To(p, there) == pc' = [pc EXCEPT ![p] = there] /\ UNCHANGED <<kind, staged>>

\* The process is gone.
End(p) ==
    /\ pc' = [pc EXCEPT ![p] = "off"]
    /\ kind' = [kind EXCEPT ![p] = "none"]
    /\ staged' = [staged EXCEPT ![p] = 0]
    /\ vaultLock' = Without(vaultLock, p)
    /\ launchLock' = Without(launchLock, p)

\* A new process.
Start(p, k) ==
    /\ Free(p)
    /\ pc' = [pc EXCEPT ![p] = "start"]
    /\ kind' = [kind EXCEPT ![p] = k]
    /\ ready' = [c \in Client |-> ready[c] \ {p}]

\* Somebody runs `daemon run`, opens the vault in an application or restores.
Launch(p, k) ==
    /\ Start(p, k)
    /\ UNCHANGED <<locks, files, staged, cpc, mode, target>>

\* Mutant: a restore goes on from its shared hold to write.
AcquireUnlocked(p) ==
    /\ pc[p] = IF kind[p] = "restore" THEN "unshared" ELSE "start"
    /\ IF vaultLock = None \/ kind[p] = "restore"
       THEN To(p, "locked") /\ vaultLock' = p /\ launchLock' = Without(launchLock, p)
       ELSE End(p)
    /\ UNCHANGED <<files, clients>>

\* Layout.OpenAndLockExclusive, or TryLockExclusiveRoot for a restore, which
\* is in the launch lock until then: no waiting, the loser ends.
Acquire(p) ==
    /\ pc[p] = IF kind[p] = "restore" THEN "unshared" ELSE "start"
    /\ IF vaultLock = None
       THEN /\ To(p, "locked")
            /\ vaultLock' = p
            /\ launchLock' = Without(launchLock, p)
       ELSE End(p)
    /\ UNCHANGED <<files, clients>>

\* The root of the vault may not be there.
RootMissing == db = NoDb /\ marker = 0 /\ handoff = NoHandoff

\* RestoreTargetCoordinator.Prepare: the launch lock, then a shared hold on
\* the target that keeps exclusive owners out, or on the ancestors that are
\* there of a root that is not, which keeps nobody from creating it.
Prepare(p) ==
    /\ pc[p] = "start" /\ kind[p] = "restore" /\ launchLock = None
    /\ IF vaultLock = None
       THEN /\ launchLock' = p
            /\ \/ To(p, "preparing") /\ vaultLock' = p
               \/ RootMissing /\ To(p, "unshared") /\ UNCHANGED vaultLock
       ELSE End(p)
    /\ UNCHANGED <<files, clients>>

\* AcquireRestoreTarget gives the shared hold up before it asks for the
\* exclusive one.
Unshare(p) ==
    /\ pc[p] = "preparing"
    /\ To(p, "unshared")
    /\ vaultLock' = None
    /\ UNCHANGED <<launchLock, files, clients>>

\* The process crashes, is killed, or returns an error.
Crash(p) ==
    /\ Alive(p)
    /\ End(p)
    /\ UNCHANGED <<files, clients>>

-----------------------------------------------------------------------------
(* The hand-off of the primary marker.                                     *)

\* Mutant: the marker decides, not the database.
DesiredByMarker(h) == marker

\* The two sides of a record, and which of them the published database is on.
OnSide(m, h) == m \in {h.prior, h.next}
Decided(h) == db.rev = h.digest \/ db.own = h.next
Desired(h) == IF db.rev = h.digest THEN h.prior ELSE h.next

\* Mutant: the opener leaves the record alone.
RecoverSkipped(p) ==
    /\ pc[p] = "locked"
    /\ To(p, "recovered")
    /\ UNCHANGED <<files, locks, clients>>

\* RecoverInterruptedPrimaryHandoff, and reconcilePrimaryOwnership up to the
\* point where the marker is durable.  It runs before the database is opened
\* for writing; a record it cannot place fences the vault.
Recover(p) ==
    /\ pc[p] = "locked"
    /\ IF handoff = NoHandoff
       THEN To(p, "recovered") /\ UNCHANGED <<marker, locks>>
       ELSE IF OnSide(marker, handoff) /\ Decided(handoff)
       THEN To(p, "reconciled") /\ marker' = Desired(handoff) /\ UNCHANGED locks
       ELSE End(p) /\ UNCHANGED marker
    /\ UNCHANGED <<db, handoff, fresh, clients>>

\* removePrimaryRestoreHandoff after the marker is reconciled.
Forget(p) ==
    /\ pc[p] = "reconciled"
    /\ To(p, "recovered")
    /\ handoff' = NoHandoff
    /\ UNCHANGED <<db, marker, fresh, locks, clients>>

\* PrimaryRestoreHandoff.Prepare, first half: the record, with the digest of
\* the database that is there and the marker that is there.
RecordHandoff(p) ==
    /\ pc[p] = "recovered" /\ kind[p] = "restore" /\ fresh < MaxDb
    /\ fresh' = fresh + 1
    /\ staged' = [staged EXCEPT ![p] = fresh']
    /\ handoff' = [prior |-> marker, digest |-> db.rev, next |-> fresh']
    /\ pc' = [pc EXCEPT ![p] = "recorded"]
    /\ UNCHANGED <<db, marker, locks, kind, clients>>

\* Second half: the marker names the database to come.
ReplaceOwnership(p) ==
    /\ pc[p] = "recorded"
    /\ marker' = staged[p]
    /\ To(p, "marked")
    /\ UNCHANGED <<db, handoff, fresh, locks, clients>>

\* The restore verified what it staged and renames it into place.
PublishDatabase(p) ==
    /\ pc[p] = "marked"
    /\ db' = [own |-> staged[p], rev |-> staged[p]]
    /\ To(p, "published")
    /\ UNCHANGED <<marker, handoff, fresh, locks, clients>>

\* Mutant: the record is removed before the marker is put right.
SettleRecordFirst(p, desired) ==
    /\ To(p, "settled")
    /\ handoff' = NoHandoff
    /\ UNCHANGED <<db, marker, fresh, locks, clients>>

\* finish, up to the point where the marker is durable: it acts only on the
\* record that this restore wrote.
Settle(p, desired) ==
    /\ IF handoff.next = staged[p] /\ OnSide(marker, handoff)
       THEN To(p, "settled") /\ marker' = desired /\ UNCHANGED locks
       ELSE End(p) /\ UNCHANGED marker
    /\ UNCHANGED <<db, handoff, fresh, clients>>

Commit(p) == pc[p] = "published" /\ Settle(p, handoff.next)

\* The restore failed before it published: a verification, the placement of
\* blobs, a cancelled context.
Rollback(p) == pc[p] \in {"recorded", "marked"} /\ Settle(p, handoff.prior)

\* The record is removed and the target given back.
Finish(p) ==
    /\ pc[p] = "settled"
    /\ End(p)
    /\ handoff' = NoHandoff
    /\ UNCHANGED <<db, marker, fresh, clients>>

-----------------------------------------------------------------------------
(* Daemons and embedding applications.                                     *)

\* store.Open: creates the database, or refuses one it cannot read.
OpenStore(p) ==
    /\ pc[p] = "recovered" /\ kind[p] # "restore"
    /\ IF db = NoDb
       THEN /\ fresh < MaxDb
            /\ fresh' = fresh + 1
            /\ db' = [own |-> fresh', rev |-> fresh']
            /\ To(p, "opened") /\ UNCHANGED locks
       ELSE /\ IF db.own = 0 THEN End(p) ELSE To(p, "opened") /\ UNCHANGED locks
            /\ UNCHANGED <<db, fresh>>
    /\ UNCHANGED <<marker, handoff, clients>>

\* blob.NewWithOptions: a missing marker is written, a foreign one fences.
\* The record it would recover is always gone by now.
Attach(p) ==
    /\ pc[p] = "opened"
    /\ IF marker \in {0, db.own}
       THEN To(p, "attached") /\ marker' = db.own /\ UNCHANGED locks
       ELSE End(p) /\ UNCHANGED marker
    /\ UNCHANGED <<db, handoff, fresh, clients>>

\* Any change of the catalog, by a request or by a job.
Write(p) ==
    /\ pc[p] \in {"attached", "serving", "draining"} /\ fresh < MaxDb
    /\ fresh' = fresh + 1
    /\ db' = [db EXCEPT !.rev = fresh']
    /\ UNCHANGED <<marker, handoff, locks, processes, clients>>

\* The daemon listens and writes its runtime record.
Serve(p) ==
    /\ pc[p] = "attached" /\ Daemon(p)
    /\ To(p, "serving")
    /\ UNCHANGED <<locks, files, clients>>

\* A signal, the idle timeout or a failed server: the listener closes, jobs
\* and requests are drained.
Drain(p) ==
    /\ pc[p] = "serving"
    /\ To(p, "draining")
    /\ UNCHANGED <<locks, files, clients>>

\* The deferred calls in their order: storage, lock, root, and the runtime
\* record last.
Release(p) ==
    /\ pc[p] = "draining"
    /\ To(p, "released")
    /\ vaultLock' = None
    /\ UNCHANGED <<launchLock, files, clients>>

RemoveRecord(p) ==
    /\ pc[p] = "released"
    /\ End(p)
    /\ UNCHANGED <<files, clients>>

\* Vault.Close.
CloseVault(p) ==
    /\ pc[p] = "attached" /\ kind[p] = "embedded"
    /\ End(p)
    /\ UNCHANGED <<files, clients>>

-----------------------------------------------------------------------------
(* Clients.                                                                *)

\* Discover: a record whose process answers and proves that it owns the
\* record; an ensuring client asks for its own version.  A probe has two
\* seconds, so each may miss a process that would have answered.
Answers(p) == pc[p] = "serving"
Recorded(p) == pc[p] \in {"serving", "draining", "released"}
Compatible(c, p) == Answers(p) /\ kind[p] = VersionOf[c]
Served(c) == \E p \in Proc : Compatible(c, p)

Move(c, there) == cpc' = [cpc EXCEPT ![c] = there]

\* The command returns.
Return(c) ==
    /\ Move(c, "idle")
    /\ mode' = [mode EXCEPT ![c] = "ensure"]
    /\ target' = [target EXCEPT ![c] = None]
    /\ ready' = [ready EXCEPT ![c] = {}]
    /\ launchLock' = Without(launchLock, c)

Proceed(c, there) == Move(c, there) /\ UNCHANGED <<launchLock, mode, target, ready>>
OnlyClients == UNCHANGED <<vaultLock, files, processes>>

\* ensureDaemonWithOptions looks before it locks, and returns if served, unless
\* its probe missed the daemon.
Discover(c) ==
    /\ cpc[c] = "idle"
    /\ Proceed(c, "waiting")
    /\ OnlyClients

\* `daemon stop` takes no launch lock; an update takes it and then stops.
Command(c, m) ==
    /\ cpc[c] = "idle"
    /\ mode' = [mode EXCEPT ![c] = m]
    /\ Move(c, IF m = "stop" THEN "find" ELSE "waiting")
    /\ UNCHANGED <<launchLock, target, ready>>
    /\ OnlyClients

\* WithLaunchLock.
TakeLaunch(c) ==
    /\ cpc[c] = "waiting" /\ launchLock = None
    /\ launchLock' = c
    /\ Move(c, IF mode[c] = "ensure" THEN "recheck" ELSE "find")
    /\ ready' = [ready EXCEPT ![c] = {p \in Proc : Compatible(c, p)}]
    /\ UNCHANGED <<mode, target>>
    /\ OnlyClients

\* Mutant: the client trusts what it saw before it waited for the lock.
RecheckSkipped(c) == cpc[c] = "recheck" /\ Proceed(c, "find") /\ OnlyClients

\* The daemon may have come up while the client waited for the lock; those that
\* the client goes on with missed the probe.
Recheck(c) ==
    /\ cpc[c] = "recheck"
    /\ \/ Served(c) /\ Return(c)
       \/ /\ Move(c, "find")
          /\ ready' = [ready EXCEPT ![c] = {p \in @ : ~Compatible(c, p)}]
          /\ UNCHANGED <<launchLock, mode, target>>
    /\ OnlyClients

\* Find: any docbank daemon that answers in time is to be stopped.
Find(c) ==
    /\ cpc[c] = "find"
    /\ \/ \E p \in Proc :
            /\ Answers(p)
            /\ target' = [target EXCEPT ![c] = p]
            /\ Move(c, "request") /\ UNCHANGED <<launchLock, mode, ready>>
       \/ Proceed(c, "live")
    /\ OnlyClients

\* liveRuntimeRecord: none answered, but one with a record may still be
\* draining, or be slow.  With none, `stop` and an update have nothing to stop, and an
\* update nothing to start again.
Live(c) ==
    /\ cpc[c] = "live"
    /\ \/ \E p \in Proc :
            /\ Recorded(p)
            /\ target' = [target EXCEPT ![c] = p]
            /\ Move(c, "request") /\ UNCHANGED <<launchLock, mode, ready>>
       \/ /\ \A p \in Proc : ~Recorded(p)
          /\ IF mode[c] = "ensure" THEN Proceed(c, "spawn") ELSE Return(c)
    /\ OnlyClients

\* stopRecord or signalStopRecord: the daemon is asked to stop, unless its
\* process is no longer there to be verified, which is an error.
Request(c) ==
    /\ cpc[c] = "request"
    /\ IF Alive(target[c])
       THEN /\ IF Answers(target[c]) THEN To(target[c], "draining") ELSE UNCHANGED processes
            /\ Proceed(c, "awaiting")
       ELSE Return(c) /\ UNCHANGED processes
    /\ UNCHANGED <<vaultLock, files>>

\* waitDead.
StoppedDead(c) ==
    /\ cpc[c] = "awaiting" /\ ~Alive(target[c])
    /\ IF mode[c] = "stop" THEN Return(c)
       ELSE /\ Move(c, "spawn")
            /\ target' = [target EXCEPT ![c] = None]
            /\ UNCHANGED <<launchLock, mode, ready>>
    /\ OnlyClients

\* Mutant: only a daemon that answers is forced.
ForceStopPolite(c) ==
    /\ cpc[c] = "awaiting" /\ Answers(target[c])
    /\ End(target[c])
    /\ UNCHANGED <<files, clients>>

\* forceStopRecord, once the grace period is over.
ForceStop(c) ==
    /\ cpc[c] = "awaiting" /\ Alive(target[c])
    /\ End(target[c])
    /\ UNCHANGED <<files, clients>>

\* start: an update does not know the version that it installed.
Spawn(c) ==
    /\ cpc[c] = "spawn"
    /\ \E p \in Proc, v \in Version :
        (mode[c] = "ensure" => v = VersionOf[c]) /\ Start(p, v)
    /\ Move(c, "starting")
    /\ UNCHANGED <<locks, files, staged, mode, target>>

\* It waits for a daemon of its version, an update for any.
SeesReady(c) ==
    /\ cpc[c] = "starting"
    /\ IF mode[c] = "ensure" THEN Served(c) ELSE \E p \in Proc : Answers(p)
    /\ Return(c)
    /\ OnlyClients

\* The executable does not start, the child died (another owner has the
\* vault, or it failed), or ensureTimeout passed.
StartFails(c) ==
    /\ cpc[c] \in {"spawn", "starting"}
    /\ Return(c)
    /\ OnlyClients

\* The client's context is cancelled while it waits.
GiveUp(c) ==
    /\ cpc[c] \in {"waiting", "awaiting"}
    /\ Return(c)
    /\ OnlyClients

-----------------------------------------------------------------------------
Begin(c) == Discover(c) \/ \E m \in {"stop", "update"} : Command(c, m)

Continue(c) ==
    \/ TakeLaunch(c) \/ Recheck(c) \/ Find(c) \/ Live(c) \/ Request(c)
    \/ StoppedDead(c) \/ ForceStop(c) \/ Spawn(c) \/ SeesReady(c) \/ StartFails(c)

EnterTarget(p) == Unshare(p) \/ Acquire(p)

RestoreStep(p) ==
    \/ Prepare(p) \/ RecordHandoff(p) \/ ReplaceOwnership(p)
    \/ PublishDatabase(p) \/ Commit(p) \/ Rollback(p) \/ Finish(p)

OwnerStep(p) ==
    \/ Recover(p) \/ Forget(p) \/ OpenStore(p) \/ Attach(p) \/ Write(p)
    \/ Serve(p) \/ Drain(p) \/ Release(p) \/ RemoveRecord(p) \/ CloseVault(p) \/ Crash(p)

Next ==
    \/ \E p \in Proc, k \in Version \cup {"embedded", "restore"} : Launch(p, k)
    \/ \E p \in Proc : EnterTarget(p) \/ RestoreStep(p) \/ OwnerStep(p)
    \/ \E c \in Client : Begin(c) \/ Continue(c) \/ GiveUp(c)

Spec == Init /\ [][Next]_vars

\* Whoever has the launch lock goes on: it is one goroutine that polls, and
\* each of its waits has a deadline.  Nothing is asked of anybody else: a
\* daemon may hang in any state.
HolderStep ==
    \/ \E c \in Client : launchLock = c /\ Continue(c)
    \/ \E p \in Proc : launchLock = p /\ EnterTarget(p)

Fairness == WF_vars(HolderStep)

FairSpec == Spec /\ Fairness

-----------------------------------------------------------------------------
(* Properties.                                                             *)

Idle == {"off", "start", "unshared", "released"}
Opening == {"locked", "reconciled", "recovered"}
Restoring == {"recorded", "marked", "published", "settled"}
Using == {"attached", "serving", "draining"}
Stage == Idle \cup Opening \cup Restoring \cup Using \cup {"preparing", "opened"}
Doing == {"idle", "waiting", "recheck", "find", "live", "request", "awaiting", "spawn",
          "starting"}

\* The variables have the types that the code's records, files and locks give
\* them.
TypeOK ==
    /\ vaultLock \in Proc \cup {None}
    /\ launchLock \in Proc \cup Client \cup {None}
    /\ db \in [own : Nat, rev : Nat]
    /\ marker \in Nat
    /\ handoff \in Handoff
    /\ fresh \in Nat
    /\ pc \in [Proc -> Stage]
    /\ kind \in [Proc -> Version \cup {"none", "embedded", "restore"}]
    /\ staged \in [Proc -> Nat]
    /\ cpc \in [Client -> Doing]
    /\ mode \in [Client -> {"ensure", "stop", "update"}]
    /\ target \in [Client -> Proc \cup {None}]
    /\ ready \in [Client -> SUBSET Proc]

\* Whatever is launched, killed, replaced or restored, no two processes are
\* between taking the vault and giving it back.
SoleOwner ==
    \A p, q \in Proc : pc[p] \notin Idle /\ pc[q] \notin Idle => p = q

\* A process that uses the vault finds the primary store marked as the
\* catalog's own, and no hand-off left over: blob writes and the catalog
\* belong to the same vault.
UsersOwnTheMarker ==
    \A p \in Proc : pc[p] \in Using => marker = db.own /\ handoff = NoHandoff

\* Wherever a restore stopped, the next opener can tell which side of the
\* hand-off it is on, and a vault without a record is not fenced: no crash
\* leaves a vault that RecoverPrimaryRestoreHandoff or NewWithOptions refuses
\* with ErrStoreFenced.
NeverFenced ==
    IF handoff = NoHandoff
    THEN db.own # 0 => marker \in {0, db.own}
    ELSE OnSide(marker, handoff) /\ Decided(handoff)

\* When a hand-off is settled, by its restore or by a later opener, marker and
\* database are on the same side of it: the database that was there, byte for
\* byte, with the marker that was there, or the new one with its own.
SettledOnOneSide ==
    [][handoff # NoHandoff /\ handoff' # handoff =>
         \/ db'.rev = handoff.digest /\ marker' = handoff.prior
         \/ db'.own = handoff.next /\ marker' = handoff.next]_vars

\* An ensuring client never stops a daemon of its own version that was
\* answering when the client took the launch lock, such as the one that the
\* client before it in the queue has just started, unless the daemon was too
\* slow for the probe that the client made under the lock.
SparesReadyDaemon ==
    \A c \in Client :
        cpc[c] = "request" /\ mode[c] = "ensure" /\ Compatible(c, target[c])
            => target[c] \notin ready[c]

\* The launch lock, one for all vaults of the user, is always given back:
\* by a client whatever the daemon that it stops or starts does, and by a
\* restore whoever has its target.
LaunchLockReturns == launchLock # None ~> launchLock = None
=============================================================================
