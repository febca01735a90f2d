---------------------------- MODULE OperationGate ----------------------------
(***************************************************************************)
(* The daemon-wide operation coordinator of internal/api/gate.go.          *)
(*                                                                         *)
(* Two weighted semaphores and one reader/writer mutex order every         *)
(* operation that touches the vault:                                       *)
(*   mu            shared by mutations, exclusive for maintenance and for  *)
(*                 the short freeze of a backup;                           *)
(*   preservation  shared by backup captures, exclusive for maintenance    *)
(*                 and for a physical-authority commit;                    *)
(*   admission     protects the count of running or queued maintenance, so *)
(*                 that a route mutation is refused instead of waiting.    *)
(*                                                                         *)
(* One process is one goroutine that calls the gate again and again:       *)
(*   Routes      mutate            (HTTP handlers, not cancellable)        *)
(*   Jobs        MutateContext     (daemon jobs, cancellable)              *)
(*   Maints      maintainContext   (GC, verify, pack..., cancellable)      *)
(*   Captures    capture + gateFreezer.Begin/End  (backup create)          *)
(*   Physicals   PhysicalMutate    (placement and recovery commits)        *)
(***************************************************************************)
EXTENDS Naturals, Sequences, FiniteSets

CONSTANTS Routes, Jobs, Maints, Captures, Physicals, NoWriter

Proc == Routes \cup Jobs \cup Maints \cup Captures \cup Physicals

\* The kinds of caller are told apart by the set they belong to.
ASSUME KindsDisjoint ==
    /\ Routes \cap (Jobs \cup Maints \cup Captures \cup Physicals) = {}
    /\ Jobs \cap (Maints \cup Captures \cup Physicals) = {}
    /\ Maints \cap (Captures \cup Physicals) = {}
    /\ Captures \cap Physicals = {}
    /\ NoWriter \notin Proc

ASSUME ProcFinite == IsFiniteSet(Proc)

VARIABLES
    pc,           \* where each caller is in its gate method
    mu,           \* semaphore: [held, queue]
    preservation, \* semaphore: [held, queue]
    readers,      \* routes holding admission.RLock
    writer,       \* the maintainer that owns or waits to own admission.Lock
    maintenance   \* the admission-protected counter

vars == <<pc, mu, preservation, readers, writer, maintenance>>

-----------------------------------------------------------------------------
(***************************************************************************)
(* semaphore.Weighted (golang.org/x/sync).  ex is the set of callers that  *)
(* acquire the full weight; everybody else acquires weight 1.  Waiters are *)
(* served strictly in order: a caller that does not fit at the head of the *)
(* queue holds back all those behind it.                                   *)
(***************************************************************************)
Semaphore == [held : SUBSET Proc, queue : Seq(Proc)]

Fits(held, ex, p) == IF p \in ex THEN held = {} ELSE held \cap ex = {}

\* Positions of the queue that notifyWaiters serves: a prefix that fits.
Served(s, ex) ==
    {i \in 1..Len(s.queue) :
        \A j \in 1..i :
            Fits(s.held \cup {s.queue[k] : k \in 1..(j - 1)}, ex, s.queue[j])}

notifyWaiters(s, ex) ==
    LET served == Served(s, ex)
    IN  [held  |-> s.held \cup {s.queue[i] : i \in served},
         queue |-> SubSeq(s.queue, Cardinality(served) + 1, Len(s.queue))]

Acquire(s, ex, p) ==
    IF s.queue = <<>> /\ Fits(s.held, ex, p)
    THEN [s EXCEPT !.held = @ \cup {p}]
    ELSE [s EXCEPT !.queue = Append(@, p)]

Release(s, ex, p) == notifyWaiters([s EXCEPT !.held = @ \ {p}], ex)

\* The queue after p, who waits in it, has left.
Without(queue, p) ==
    [i \in 1..(Len(queue) - 1) |->
        IF \E j \in 1..i : queue[j] = p THEN queue[i + 1] ELSE queue[i]]

\* Acquire returns the context's error.  Tokens that were granted while the
\* cancellation was in flight are put back.
Abandon(s, ex, p) ==
    IF p \in s.held
    THEN Release(s, ex, p)
    ELSE notifyWaiters([s EXCEPT !.queue = Without(@, p)], ex)

\* Faulty variants, for the mutation checks: maintenance takes one unit of mu,
\* or a physical commit one unit of preservation, instead of the full weight.
MuExclusiveFaulty == Captures
PreservationExclusiveFaulty == Maints

MuExclusive == Maints \cup Captures
PreservationExclusive == Maints \cup Physicals

-----------------------------------------------------------------------------
Goto(p, from, to) == pc[p] = from /\ pc' = [pc EXCEPT ![p] = to]

AcquireMu(p) == mu' = Acquire(mu, MuExclusive, p)
ReleaseMu(p) == mu' = Release(mu, MuExclusive, p)
AbandonMu(p) == mu' = Abandon(mu, MuExclusive, p)
AcquirePreservation(p) ==
    preservation' = Acquire(preservation, PreservationExclusive, p)
ReleasePreservation(p) ==
    preservation' = Release(preservation, PreservationExclusive, p)
AbandonPreservation(p) ==
    preservation' = Abandon(preservation, PreservationExclusive, p)

admissionVars == <<readers, writer, maintenance>>

Init ==
    /\ pc = [p \in Proc |-> "idle"]
    /\ mu = [held |-> {}, queue |-> <<>>]
    /\ preservation = [held |-> {}, queue |-> <<>>]
    /\ readers = {}
    /\ writer = NoWriter
    /\ maintenance = 0

(***************************************************************************)
(* mutate: the route side.  RLock is granted at once unless a writer owns  *)
(* or awaits the mutex (sync.RWMutex prefers the writer), and is kept      *)
(* until mu is held.                                                       *)
(***************************************************************************)
RouteLock(r) ==
    /\ IF writer = NoWriter
       THEN Goto(r, "idle", "admitted") /\ readers' = readers \cup {r}
       ELSE Goto(r, "idle", "rlockWait") /\ UNCHANGED readers
    /\ UNCHANGED <<mu, preservation, writer, maintenance>>

RouteRefuse(r) ==
    /\ maintenance > 0
    /\ Goto(r, "admitted", "idle")
    /\ readers' = readers \ {r}
    /\ UNCHANGED <<mu, preservation, writer, maintenance>>

\* Faulty variant: the admission lock is released before mu is acquired.
RouteAdmitUnpinned(r) ==
    /\ maintenance = 0
    /\ Goto(r, "admitted", "checked")
    /\ readers' = readers \ {r}
    /\ UNCHANGED <<mu, preservation, writer, maintenance>>

RouteAdmit(r) ==
    /\ maintenance = 0
    /\ Goto(r, "admitted", "checked")
    /\ UNCHANGED <<mu, preservation, admissionVars>>

RouteAcquire(r) ==
    /\ Goto(r, "checked", "muWait")
    /\ AcquireMu(r)
    /\ UNCHANGED <<preservation, admissionVars>>

RouteEnter(r) ==
    /\ r \in mu.held
    /\ Goto(r, "muWait", "run")
    /\ readers' = readers \ {r}
    /\ UNCHANGED <<mu, preservation, writer, maintenance>>

RouteDone(r) ==
    /\ Goto(r, "run", "idle")
    /\ ReleaseMu(r)
    /\ UNCHANGED <<preservation, admissionVars>>

(***************************************************************************)
(* MutateContext: a daemon job blocks on mu without looking at admission.  *)
(***************************************************************************)
JobAcquire(j) ==
    /\ Goto(j, "idle", "muWait")
    /\ AcquireMu(j)
    /\ UNCHANGED <<preservation, admissionVars>>

JobEnter(j) ==
    /\ j \in mu.held
    /\ Goto(j, "muWait", "run")
    /\ UNCHANGED <<mu, preservation, admissionVars>>

JobCancel(j) ==
    /\ Goto(j, "muWait", "idle")
    /\ AbandonMu(j)
    /\ UNCHANGED <<preservation, admissionVars>>

JobDone(j) ==
    /\ Goto(j, "run", "idle")
    /\ ReleaseMu(j)
    /\ UNCHANGED <<preservation, admissionVars>>

(***************************************************************************)
(* maintainContext.  admission.Lock is taken twice, once to count the run  *)
(* and once in the deferred call that uncounts it; Unlock hands the mutex  *)
(* to every route that queued behind the writer.                           *)
(***************************************************************************)
MaintCall(m) ==
    /\ Goto(m, "idle", "counting")
    /\ UNCHANGED <<mu, preservation, admissionVars>>

MaintLock(m) ==
    /\ writer = NoWriter
    /\ pc[m] \in {"counting", "uncounting"}
    /\ writer' = m
    /\ UNCHANGED <<pc, mu, preservation, readers, maintenance>>

AdmissionUnlock(m, next) ==
    LET waiting == {r \in Routes : pc[r] = "rlockWait"}
    IN  /\ pc' = [p \in Proc |-> IF p = m THEN next
                                 ELSE IF p \in waiting THEN "admitted"
                                 ELSE pc[p]]
        /\ readers' = waiting
        /\ writer' = NoWriter

MaintCount(m) ==
    /\ pc[m] = "counting" /\ writer = m /\ readers = {}
    /\ maintenance' = maintenance + 1
    /\ AdmissionUnlock(m, "counted")
    /\ UNCHANGED <<mu, preservation>>

MaintPreserve(m) ==
    /\ Goto(m, "counted", "preservationWait")
    /\ AcquirePreservation(m)
    /\ UNCHANGED <<mu, admissionVars>>

MaintFence(m) ==
    /\ m \in preservation.held
    /\ Goto(m, "preservationWait", "muWait")
    /\ AcquireMu(m)
    /\ UNCHANGED <<preservation, admissionVars>>

MaintEnter(m) ==
    /\ m \in mu.held
    /\ Goto(m, "muWait", "run")
    /\ UNCHANGED <<mu, preservation, admissionVars>>

\* Faulty variant: the call that uncounts is deferred only once preservation is
\* held.
MaintCancelPreservationCounted(m) ==
    /\ Goto(m, "preservationWait", "idle")
    /\ AbandonPreservation(m)
    /\ UNCHANGED <<mu, admissionVars>>

MaintCancelPreservation(m) ==
    /\ Goto(m, "preservationWait", "uncounting")
    /\ AbandonPreservation(m)
    /\ UNCHANGED <<mu, admissionVars>>

\* Faulty variant: the error return of mu.Acquire skips preservation.Release.
MaintCancelMuLeaks(m) ==
    /\ Goto(m, "muWait", "uncounting")
    /\ AbandonMu(m)
    /\ UNCHANGED <<preservation, admissionVars>>

MaintCancelMu(m) ==
    /\ Goto(m, "muWait", "releasing")
    /\ AbandonMu(m)
    /\ UNCHANGED <<preservation, admissionVars>>

MaintDone(m) ==
    /\ Goto(m, "run", "releasing")
    /\ ReleaseMu(m)
    /\ UNCHANGED <<preservation, admissionVars>>

MaintRelease(m) ==
    /\ Goto(m, "releasing", "uncounting")
    /\ ReleasePreservation(m)
    /\ UNCHANGED <<mu, admissionVars>>

MaintUncount(m) ==
    /\ pc[m] = "uncounting" /\ writer = m /\ readers = {}
    /\ maintenance' = maintenance - 1
    /\ AdmissionUnlock(m, "idle")
    /\ UNCHANGED <<mu, preservation>>

(***************************************************************************)
(* capture, with the freeze that Kit runs inside it: Begin takes mu        *)
(* exclusively while the metadata snapshot is pinned, End gives it back    *)
(* before the content is streamed.  Kit may fail before Begin, and Begin   *)
(* may be cancelled; both leave through CaptureDone.                       *)
(***************************************************************************)
CaptureAcquire(c) ==
    /\ Goto(c, "idle", "preservationWait")
    /\ AcquirePreservation(c)
    /\ UNCHANGED <<mu, admissionVars>>

CaptureEnter(c) ==
    /\ c \in preservation.held
    /\ Goto(c, "preservationWait", "capturing")
    /\ UNCHANGED <<mu, preservation, admissionVars>>

FreezeBegin(c) ==
    /\ Goto(c, "capturing", "freezeWait")
    /\ AcquireMu(c)
    /\ UNCHANGED <<preservation, admissionVars>>

FreezeHeld(c) ==
    /\ c \in mu.held
    /\ Goto(c, "freezeWait", "frozen")
    /\ UNCHANGED <<mu, preservation, admissionVars>>

FreezeCancel(c) ==
    /\ Goto(c, "freezeWait", "failed")
    /\ AbandonMu(c)
    /\ UNCHANGED <<preservation, admissionVars>>

FreezeEnd(c) ==
    /\ Goto(c, "frozen", "streaming")
    /\ ReleaseMu(c)
    /\ UNCHANGED <<preservation, admissionVars>>

CaptureDone(c) ==
    /\ pc[c] \in {"capturing", "failed", "streaming"}
    /\ pc' = [pc EXCEPT ![c] = "idle"]
    /\ ReleasePreservation(c)
    /\ UNCHANGED <<mu, admissionVars>>

(***************************************************************************)
(* PhysicalMutate: a physical-authority commit excludes captures only.     *)
(***************************************************************************)
PhysicalAcquire(x) ==
    /\ Goto(x, "idle", "preservationWait")
    /\ AcquirePreservation(x)
    /\ UNCHANGED <<mu, admissionVars>>

PhysicalEnter(x) ==
    /\ x \in preservation.held
    /\ Goto(x, "preservationWait", "run")
    /\ UNCHANGED <<mu, preservation, admissionVars>>

PhysicalDone(x) ==
    /\ Goto(x, "run", "idle")
    /\ ReleasePreservation(x)
    /\ UNCHANGED <<mu, admissionVars>>

-----------------------------------------------------------------------------
\* What a caller does once it is inside the gate, without outside help.
RouteStep(r) ==
    \/ RouteRefuse(r) \/ RouteAdmit(r) \/ RouteAcquire(r) \/ RouteEnter(r)
    \/ RouteDone(r)
JobStep(j) == JobEnter(j) \/ JobDone(j)
MaintStep(m) ==
    \/ MaintLock(m) \/ MaintCount(m) \/ MaintPreserve(m) \/ MaintFence(m)
    \/ MaintEnter(m) \/ MaintDone(m) \/ MaintRelease(m) \/ MaintUncount(m)
CaptureStep(c) ==
    \/ CaptureEnter(c) \/ FreezeBegin(c) \/ FreezeHeld(c) \/ FreezeEnd(c)
    \/ CaptureDone(c)
PhysicalStep(x) == PhysicalEnter(x) \/ PhysicalDone(x)

\* A new call, or the cancellation of a waiting one.
RouteCall(r) == RouteLock(r)
JobCall(j) == JobAcquire(j) \/ JobCancel(j)
MaintRequest(m) == MaintCall(m) \/ MaintCancelPreservation(m) \/ MaintCancelMu(m)
CaptureCall(c) == CaptureAcquire(c) \/ FreezeCancel(c)
PhysicalCall(x) == PhysicalAcquire(x)

Next ==
    \/ \E r \in Routes : RouteCall(r) \/ RouteStep(r)
    \/ \E j \in Jobs : JobCall(j) \/ JobStep(j)
    \/ \E m \in Maints : MaintRequest(m) \/ MaintStep(m)
    \/ \E c \in Captures : CaptureCall(c) \/ CaptureStep(c)
    \/ \E x \in Physicals : PhysicalCall(x) \/ PhysicalStep(x)

Spec == Init /\ [][Next]_vars

(***************************************************************************)
(* The Go scheduler runs every goroutine that can run, the callbacks fn    *)
(* return, and of two maintainers waiting for admission.Lock each gets its *)
(* turn (sync.Mutex hands over to a starving waiter), hence SF for         *)
(* MaintLock.  Nobody has to call the gate or to cancel a call.            *)
(***************************************************************************)
Fairness ==
    /\ \A r \in Routes : WF_vars(RouteStep(r))
    /\ \A j \in Jobs : WF_vars(JobStep(j))
    /\ \A m \in Maints : WF_vars(MaintStep(m)) /\ SF_vars(MaintLock(m))
    /\ \A c \in Captures : WF_vars(CaptureStep(c))
    /\ \A x \in Physicals : WF_vars(PhysicalStep(x))

FairSpec == Spec /\ Fairness
-----------------------------------------------------------------------------
(***************************************************************************)
(* Properties                                                              *)
(***************************************************************************)
RoutePC == {"idle", "rlockWait", "admitted", "checked", "muWait", "run"}
JobPC == {"idle", "muWait", "run"}
MaintPC == {"idle", "counting", "counted", "preservationWait", "muWait", "run",
            "releasing", "uncounting"}
CapturePC == {"idle", "preservationWait", "capturing", "freezeWait", "frozen",
              "failed", "streaming"}
PhysicalPC == {"idle", "preservationWait", "run"}

\* Every caller is at a point of its own gate method and the semaphores,
\* the mutex and the counter of gate.go hold values of their types.
TypeOK ==
    /\ pc \in [Proc -> RoutePC \cup JobPC \cup MaintPC \cup CapturePC \cup PhysicalPC]
    /\ \A r \in Routes : pc[r] \in RoutePC
    /\ \A j \in Jobs : pc[j] \in JobPC
    /\ \A m \in Maints : pc[m] \in MaintPC
    /\ \A c \in Captures : pc[c] \in CapturePC
    /\ \A x \in Physicals : pc[x] \in PhysicalPC
    /\ mu \in Semaphore
    /\ preservation \in Semaphore
    /\ readers \in SUBSET Routes
    /\ writer \in Maints \cup {NoWriter}
    /\ maintenance \in Nat

Mutating(p) == p \in Routes \cup Jobs /\ pc[p] = "run"
Maintaining(m) == m \in Maints /\ pc[m] = "run"
Preserving(c) ==
    c \in Captures /\ pc[c] \in {"capturing", "freezeWait", "frozen", "failed", "streaming"}
Committing(x) == x \in Physicals /\ pc[x] = "run"

\* maintainContext promises its callback a quiescent vault: while GC, trash
\* empty, verify, pack or repack runs there is no mutation, no backup capture,
\* no physical commit and no second maintenance inside the gate.
MaintenanceExclusive ==
    \A m \in Maints : Maintaining(m) =>
        \A p \in Proc \ {m} :
            ~(Mutating(p) \/ Maintaining(p) \/ Preserving(p) \/ Committing(p))

\* A capture reads one point in time: no mutation runs while gateFreezer holds
\* the freeze, and from entering capture to leaving it nobody commits a
\* physical-authority change that the pinned snapshot could still name.
CaptureConsistent ==
    \A c \in Captures :
        /\ pc[c] = "frozen" => \A p \in Proc : ~Mutating(p)
        /\ Preserving(c) => \A p \in Proc : ~Committing(p)

\* What the admission check of mutate answers is true.  A route is refused only
\* while "vault maintenance is running or queued": whatever was cancelled, the
\* counter is up only for a maintainer that is still between its two admission
\* steps.  And "newly queued maintenance cannot overtake" a route that passed: it
\* never waits behind a maintenance run, neither one that holds mu nor one queued
\* before it.
AdmissionTruthful ==
    /\ maintenance > 0 => \E m \in Maints : pc[m] \notin {"idle", "counting"}
    /\ \A i \in DOMAIN mu.queue : mu.queue[i] \in Routes =>
        /\ mu.held \cap Maints = {}
        /\ \A k \in 1..(i - 1) : mu.queue[k] \notin Maints

\* Every call of the gate returns: no two callers wait for each other, and the
\* FIFO semaphores let nobody be overtaken for ever, whatever the others call.
EveryCallReturns == \A p \in Proc : pc[p] # "idle" ~> pc[p] = "idle"
=============================================================================
