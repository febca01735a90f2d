--------------------------- MODULE RenditionJobs ---------------------------
(***************************************************************************)
(* One shared rendition build: its durable job row, the waiters that want  *)
(* it attached, the consent they act under, the fenced claims of the       *)
(* workers, the provider call outside the vault, the roots that keep       *)
(* staged results from garbage collection, and the deletion of waiters.    *)
(* Sources: internal/store (rendition_jobs.go, rendition_delete.go,        *)
(* consent.go, gc.go) and internal/processing/rendition_worker.go.         *)
(*                                                                         *)
(* One action is one transaction, one step of a worker between two of      *)
(* them, or one answer of the provider.  A step of a worker that the code  *)
(* refuses (ErrRenditionJobFenced, a fatal error) ends the worker's        *)
(* attempt and writes nothing: that is Drop.                               *)
(*                                                                         *)
(* Abstractions: every waiter has a content version of its own, whose head *)
(* only this build moves; a waiter's ID is its place in the order that     *)
(* renditionWaitingIDsTx reads; time passes as it likes: a lease has       *)
(* expired when the job is claimed again, and a retry is available; the rows a *)
(* waiter names are immutable, so its authority is stale only once it is   *)
(* no longer waiting; a sealed execution snapshot names the time it was    *)
(* sealed at, so no two are equal; a derivative purge deletes waiters as   *)
(* the deletion of their versions does.                                    *)
(***************************************************************************)
EXTENDS Naturals

CONSTANTS
    Waiter,      \* numbers: rendition_job_waiters.waiter_id
    Worker,      \* claim owners
    None,        \* a NULL column
    MaxEpoch,    \* bound on claim_epoch
    MaxFence,    \* MaxFence[v]: bound on the revocations of v's scope
    MaxGrant     \* bound on the grants issued to a waiter

ASSUME WaiterAssumption == Waiter \subseteq Nat
ASSUME NoneAssumption == None \notin Waiter \cup Worker \cup [id : Nat, fence : Nat]
ASSUME BoundAssumption ==
    MaxEpoch \in Nat /\ MaxFence \in [Waiter -> Nat] /\ MaxGrant \in Nat

VARIABLES
    job,         \* the row of rendition_jobs
    waiter,      \* the state of each row of rendition_job_waiters
    build,       \* the row of rendition_builds exists
    generation,  \* the lexical generation that the job names exists
    root,        \* the job's two rows of current_rendition_roots
    fence,       \* the revocation fence of each waiter's scope
    grants,      \* unexpired rows of processing_consent_grants
    issued,      \* how many grants each waiter was given
    wk,          \* each worker's attempt
    remote       \* what the provider holds of the latest submission

authority == <<fence, grants, issued>>
results == <<build, generation, root>>
vars == <<job, waiter, results, authority, wk, remote>>

State == {"absent", "queued", "running", "retry_wait", "operator_required", "failed", "completed"}
Phase == {"queued", "provider", "build_staged", "generation_staged", "published"}
StagedPhase == {"build_staged", "generation_staged"}
Failure == {None, "transient", "ambiguous", "terminal", "consent", "stale_authority"}
Told == {"none", "waiting", "published", "rejected"}
Grant == [id : Nat, fence : Nat]
Verdict == {"transient", "ambiguous", "terminal", "consent", "stale_authority"}

\* The row that EnqueueRenditionJob inserts.  Resume and snapshot
\* are whether provider_resume_handle and execution_snapshot_json are set,
\* auth is the grant and fence of the three authorization columns, and named
\* whether lexical_generation_id is set.
NewJob ==
    [state |-> "queued", phase |-> "queued", owner |-> None, epoch |-> 0, started |-> FALSE,
     resume |-> FALSE, snapshot |-> FALSE, selected |-> None, auth |-> None, named |-> FALSE,
     failure |-> None]

NoJob == [NewJob EXCEPT !.state = "absent"]
NoRoot == [token |-> 0, active |-> FALSE]
Idle == [pc |-> "idle", epoch |-> 0, handle |-> FALSE, waiter |-> None, auth |-> None,
         verdict |-> None]

Init ==
    /\ job = NoJob
    /\ waiter = [v \in Waiter |-> "none"]
    /\ build = FALSE
    /\ generation = FALSE
    /\ root = [target \in {"build", "generation"} |-> NoRoot]
    /\ fence = [v \in Waiter |-> 0]
    /\ grants = [v \in Waiter |-> {}]
    /\ issued = [v \in Waiter |-> 0]
    /\ wk = [k \in Worker |-> Idle]
    /\ remote = "none"

-----------------------------------------------------------------------------
(* Consent.  A grant authorises while its fence is its scope's and it has  *)
(* not expired; the newest one is taken.  A prior authorization asks for   *)
(* the same grant under the same fence.                                    *)

Standing(v) == {g \in grants[v] : g.fence = fence[v]}
Authorized(v) == Standing(v) # {}
Newest(v) == CHOOSE g \in Standing(v) : \A h \in Standing(v) : h.id <= g.id
PriorStands(v, g) == g \in Standing(v)

InEgress(k) == wk[k].pc = "egress"
EgressIdle == \A k \in Worker : ~InEgress(k)     \* providerEgressMu can be locked

IssueGrant(v) ==
    /\ issued[v] < MaxGrant
    /\ issued' = [issued EXCEPT ![v] = @ + 1]
    /\ grants' = [grants EXCEPT ![v] = @ \cup {[id |-> issued[v] + 1, fence |-> fence[v]]}]
    /\ UNCHANGED <<job, waiter, results, fence, wk, remote>>

GrantConsent(v) == IssueGrant(v)

\* Never reauthorises a scope that was revoked.
EnsureInitialConsent(v) ==
    /\ EgressIdle
    /\ fence[v] = 0
    /\ Standing(v) = {}
    /\ IssueGrant(v)

\* Mutant: the egress fence is not awaited.
RevokeConsentUnfenced(v) ==
    /\ fence[v] < MaxFence[v]
    /\ fence' = [fence EXCEPT ![v] = @ + 1]
    /\ UNCHANGED <<job, waiter, results, grants, issued, wk, remote>>

RevokeConsent(v) ==
    /\ EgressIdle
    /\ fence[v] < MaxFence[v]
    /\ fence' = [fence EXCEPT ![v] = @ + 1]
    /\ UNCHANGED <<job, waiter, results, grants, issued, wk, remote>>

\* expires_at of a dated grant that still authorises passes.
GrantExpires(v) ==
    \E g \in Standing(v) :
        /\ grants' = [grants EXCEPT ![v] = @ \ {g}]
        /\ UNCHANGED <<job, waiter, results, fence, issued, wk, remote>>

-----------------------------------------------------------------------------
(* Waiters and roots.                                                      *)

WaitingIn(w) == {v \in Waiter : w[v] = "waiting"}
First(S) == CHOOSE v \in S : \A u \in S : v <= u

\* selectRenditionJobWaiterTx among the waiters of w: the first authorised
\* one, None without one.
selected(w) ==
    LET able == {v \in WaitingIn(w) : Authorized(v)}
    IN  IF able = {} THEN None ELSE First(able)

\* The rest of selectRenditionJobWaiterTx: the waiters it passed over.
passedOver(w) ==
    [v \in Waiter |->
        IF w[v] = "waiting" /\ ~Authorized(v) /\ (selected(w) = None \/ v < selected(w))
        THEN "rejected" ELSE w[v]]

\* Mutant: the authorization of the last selection stays in the row.
SelectKeepsGrant(j, v) ==
    [j EXCEPT !.selected = v, !.auth = IF v = None THEN @ ELSE Newest(v)]

Select(j, v) == [j EXCEPT !.selected = v, !.auth = IF v = None THEN None ELSE Newest(v)]
Release(j) == [j EXCEPT !.owner = None]

\* putCurrentRenditionRootTx refuses a token that is not newer and a target
\* that is gone.
RootsRefreshable(j, epoch) ==
    /\ j.phase \in StagedPhase => build /\ root["build"].token < epoch
    /\ j.phase = "generation_staged" =>
           j.named /\ generation /\ root["generation"].token < epoch

refreshedRoots(j, epoch) ==
    LET fresh == [token |-> epoch, active |-> TRUE]
    IN  [root EXCEPT !["build"] = IF j.phase \in StagedPhase THEN fresh ELSE @,
                     !["generation"] = IF j.phase = "generation_staged" THEN fresh ELSE @]

releasedRoots(epoch) ==
    [t \in DOMAIN root |-> [root[t] EXCEPT !.active = @ /\ root[t].token # epoch]]

-----------------------------------------------------------------------------
(* EnqueueRenditionJob.                                                    *)

\* A new row takes the tokens of roots that outlived an earlier one, and a
\* new authorization reopens a failure that was only about authority.
reopened ==
    LET newest(a, b) == IF a < b THEN b ELSE a
        base == IF job.state = "absent" THEN NewJob ELSE job
        j == [base EXCEPT !.epoch =
                  newest(@, newest(root["build"].token, root["generation"].token))]
        authorityFailure == j.state = "failed" /\ j.failure \in {"consent", "stale_authority"}
        queued == Select(Release([j EXCEPT !.state = "queued", !.failure = None]), None)
    IN  IF authorityFailure /\ j.phase \in {"queued"} \cup StagedPhase
        THEN [queued EXCEPT !.started = FALSE, !.resume = FALSE]
        ELSE IF authorityFailure /\ j.phase = "provider" /\ j.resume /\ j.snapshot
        THEN queued
        ELSE j

\* Mutant: the reused build is rooted under a new epoch that the row lacks.
joinedSameEpoch(j) ==
    IF build /\ j.state \in {"queued", "completed"}
    THEN [j EXCEPT !.state = "queued", !.phase = "build_staged"] ELSE j

\* Mutant: a reused build is rooted under the next epoch, its job not requeued.
joinedNotRequeued(j) ==
    IF build /\ j.state \in {"queued", "completed"} THEN [j EXCEPT !.epoch = @ + 1] ELSE j

\* The job after a waiter that is not published yet has joined it.
joined(j) ==
    LET again == Select(Release([j EXCEPT !.state = "queued", !.epoch = @ + 1, !.started = FALSE,
                                          !.resume = FALSE, !.named = FALSE,
                                          !.failure = None]), None)
    IN  IF build /\ j.state \in {"queued", "completed"} THEN [again EXCEPT !.phase = "build_staged"]
        ELSE IF ~build /\ j.state = "completed" THEN [again EXCEPT !.phase = "queued"]
        ELSE j

EnqueueRenditionJob(v) ==
    /\ Authorized(v)
    /\ reopened.state \notin {"operator_required", "failed"}
    /\ IF waiter[v] = "published"          \* its head is active already
       THEN job' = reopened /\ UNCHANGED <<waiter, root>>
       ELSE /\ job' = joined(reopened)
            /\ waiter' = [waiter EXCEPT ![v] = "waiting"]
            /\ root' = IF build /\ reopened.state \in {"queued", "completed"}
                       THEN [root EXCEPT !["build"] =
                                 [token |-> reopened.epoch + 1, active |-> TRUE]]
                       ELSE root
    /\ job'.epoch <= MaxEpoch
    /\ UNCHANGED <<build, generation, authority, wk, remote>>

-----------------------------------------------------------------------------
(* Claims.                                                                 *)

\* Mutant: the provider phase is taken for a staged one.
AmbiguousStagedOnly(j) == j.started /\ ~j.resume /\ j.phase \notin StagedPhase \cup {"provider"}

\* renditionJobProviderBoundaryAmbiguous
Ambiguous(j) == j.started /\ ~j.resume /\ j.phase \notin StagedPhase

\* requireRenditionClaimTx
Claimed(k) == job.state = "running" /\ job.owner = k /\ job.epoch = wk[k].epoch

\* A running job can be claimed once its lease has expired.
Claimable == job.state \in {"queued", "retry_wait", "running"}

ClaimRenditionJob(k) ==
    /\ wk[k].pc = "idle"
    /\ Claimable
    /\ ~(job.state = "running" /\ Ambiguous(job))
    /\ job.epoch < MaxEpoch
    /\ RootsRefreshable(job, job.epoch + 1)
    /\ job' = [job EXCEPT !.state = "running", !.owner = k, !.epoch = @ + 1, !.failure = None]
    /\ root' = refreshedRoots(job, job.epoch + 1)
    /\ wk' = [wk EXCEPT ![k] = [Idle EXCEPT !.pc = "work", !.epoch = job.epoch + 1,
                                            !.handle = job.resume]]
    /\ UNCHANGED <<waiter, build, generation, authority, remote>>

\* The same transaction quarantines an expired call that left no handle.
Quarantine(k) ==
    /\ wk[k].pc = "idle"
    /\ job.state = "running"
    /\ Ambiguous(job)
    /\ job' = Release([job EXCEPT !.state = "operator_required", !.failure = "ambiguous"])
    /\ UNCHANGED <<waiter, results, authority, wk, remote>>

\* A fenced or fatal step, a lost lease, a stop or a crash ends the attempt
\* and with it the egress fence; the row keeps the claim.
Drop(k) ==
    /\ wk[k].pc # "idle"
    /\ wk' = [wk EXCEPT ![k] = Idle]
    /\ UNCHANGED <<job, waiter, results, authority, remote>>

\* The attempt goes on to pc, past the provider.
Continue(k, pc) ==
    wk' = [wk EXCEPT ![k] = [Idle EXCEPT !.pc = pc, !.epoch = wk[k].epoch]]
Conclude(k, verdict) ==
    wk' = [wk EXCEPT ![k] = [Idle EXCEPT !.pc = "mark", !.epoch = wk[k].epoch,
                                         !.verdict = verdict]]

-----------------------------------------------------------------------------
(* The worker's attempt: runOne.                                           *)

\* RenditionJobWorkByClaim keeps the selected waiter or selects one.
RenditionJobWorkByClaim(k) ==
    /\ wk[k].pc = "work"
    /\ Claimed(k)
    /\ LET fresh == job.selected = None
           v == IF fresh THEN selected(waiter) ELSE job.selected
       IN  /\ waiter' = IF fresh THEN passedOver(waiter) ELSE waiter
           /\ job' = IF fresh /\ v # None THEN Select(job, v) ELSE job
           /\ \/ /\ v # None /\ waiter[v] = "waiting"
                 /\ IF job.phase \in StagedPhase
                    THEN Continue(k, "generate")
                    ELSE wk' = [wk EXCEPT ![k].pc = "prepare", ![k].waiter = v]
              \/ v = None /\ Conclude(k, "consent")
              \/ v # None /\ waiter[v] # "waiting" /\ Conclude(k, "stale_authority")
    /\ UNCHANGED <<results, authority, remote>>

\* Prepare, the sealing of the inputs, or the runtime of a resume fails
\* before anything leaves the vault.
PrepareFails(k) ==
    /\ wk[k].pc = "prepare"
    /\ \/ Conclude(k, "transient")
       \/ Conclude(k, "terminal")
       \/ wk[k].handle /\ Conclude(k, "ambiguous")
    /\ UNCHANGED <<job, waiter, results, authority, remote>>

\* The authority that BeginRenditionProvider rechecks.
MayBegin(v) == IF job.auth = None THEN Authorized(v) ELSE PriorStands(v, job.auth)

\* What it requires of the row: a first submission seals a snapshot of its
\* own, a resume needs the one sealed before it.
SealFits(k) == IF wk[k].handle THEN job.snapshot /\ job.resume ELSE ~job.snapshot

BeginRenditionProvider(k) ==
    LET v == wk[k].waiter
        rejected == [waiter EXCEPT ![v] = "rejected"]
        next == selected(rejected)
    IN
    /\ wk[k].pc = "prepare"
    /\ Claimed(k)
    /\ \/ /\ waiter[v] # "waiting"
          /\ Conclude(k, "stale_authority")
          /\ UNCHANGED <<job, waiter, remote>>
       \/ /\ waiter[v] = "waiting" /\ SealFits(k) /\ job.selected \in {None, v}
          /\ MayBegin(v)
          /\ job' = [job EXCEPT !.phase = "provider", !.started = TRUE, !.snapshot = TRUE,
                                !.selected = v, !.auth = IF @ = None THEN Newest(v) ELSE @]
          /\ wk' = [wk EXCEPT ![k].pc = "egress", ![k].auth = job'.auth]
          /\ remote' = IF wk[k].handle THEN remote ELSE "open"
          /\ UNCHANGED waiter
       \/ /\ waiter[v] = "waiting" /\ SealFits(k) /\ job.selected \in {None, v}
          /\ ~MayBegin(v)
          /\ waiter' = passedOver(rejected)
          /\ \/ next = None /\ Conclude(k, "consent") /\ UNCHANGED job
             \/ /\ next # None /\ job.epoch < MaxEpoch
                /\ job' = Select(Release([job EXCEPT !.state = "queued", !.epoch = @ + 1,
                                                     !.failure = None]), next)
                /\ wk' = [wk EXCEPT ![k] = Idle]
          /\ UNCHANGED remote
    /\ UNCHANGED <<results, authority>>

\* The provider issues a handle and the worker persists it.
CheckpointRenditionProvider(k) ==
    /\ InEgress(k)
    /\ Claimed(k)
    /\ job.phase = "provider"
    /\ job' = [job EXCEPT !.resume = TRUE]
    /\ wk' = [wk EXCEPT ![k].handle = TRUE]
    /\ remote' = "handle"
    /\ UNCHANGED <<waiter, results, authority>>

\* What becomes of a call whose end is not known.
Unclassified(k) == IF wk[k].handle THEN "transient" ELSE "ambiguous"

\* The provider answers and the egress fence is released; an error is
\* classified.  An answer to a worker that has lost its claim is Drop.
ProviderAnswers(k) ==
    /\ InEgress(k)
    /\ Claimed(k)
    /\ \/ /\ wk' = [wk EXCEPT ![k].pc = "stage", ![k].waiter = None, ![k].auth = None]
          /\ UNCHANGED remote
       \/ \E verdict \in {"transient", "terminal"} :      \* a definite refusal
             /\ Conclude(k, verdict)
             /\ remote' = IF wk[k].handle THEN remote ELSE "none"
       \/ /\ Conclude(k, Unclassified(k))
          /\ UNCHANGED remote
       \/ Conclude(k, "ambiguous") /\ UNCHANGED remote    \* policies do not match
    /\ UNCHANGED <<job, waiter, results, authority>>

\* putRenditionJobRootTx
RootFits(target, epoch) ==
    root[target].token < epoch \/ root[target] = [token |-> epoch, active |-> TRUE]

StageRenditionJobBuild(k) ==
    /\ wk[k].pc = "stage"
    /\ Claimed(k)
    /\ job.phase \in {"provider", "build_staged"}
    /\ RootFits("build", job.epoch)
    /\ build' = TRUE
    /\ root' = [root EXCEPT !["build"] = [token |-> job.epoch, active |-> TRUE]]
    /\ job' = [job EXCEPT !.phase = "build_staged"]
    /\ remote' = "none"
    /\ Continue(k, "generate")
    /\ UNCHANGED <<waiter, generation, authority>>

\* The result is not a valid candidate, or its artifacts cannot be written.
StagingFails(k) ==
    /\ wk[k].pc = "stage"
    /\ Claimed(k)
    /\ \/ Conclude(k, "terminal")
       \/ Conclude(k, Unclassified(k))
    /\ UNCHANGED <<job, waiter, results, authority, remote>>

StageRenditionJobGeneration(k) ==
    /\ wk[k].pc = "generate"
    /\ Claimed(k)
    /\ job.phase \in StagedPhase
    /\ IF job.phase = "generation_staged"
       THEN root["generation"] = [token |-> job.epoch, active |-> TRUE]
       ELSE RootFits("generation", job.epoch)
    /\ generation' = TRUE
    /\ root' = [root EXCEPT !["generation"] = [token |-> job.epoch, active |-> TRUE]]
    /\ job' = [job EXCEPT !.phase = "generation_staged", !.named = TRUE]
    /\ Continue(k, "publish")
    /\ UNCHANGED <<waiter, build, authority, remote>>

\* The egress that produced the build is still authorised.
EgressStands == job.started => PriorStands(job.selected, job.auth)

PublishRenditionJob(k) ==
    LET able == {v \in WaitingIn(waiter) : Authorized(v)}
    IN
    /\ wk[k].pc = "publish"
    /\ Claimed(k)
    /\ job.phase = "generation_staged"
    /\ job.started => job.selected # None /\ job.auth # None /\ waiter[job.selected] = "waiting"
    /\ \/ (~EgressStands \/ able = {}) /\ Conclude(k, "consent") /\ UNCHANGED <<job, waiter, root>>
       \/ Conclude(k, "transient") /\ UNCHANGED <<job, waiter, root>>    \* a stale generation
       \/ /\ EgressStands /\ able # {} /\ build /\ generation
          /\ waiter' = [v \in Waiter |->
                IF v \in able THEN "published"
                ELSE IF waiter[v] = "waiting" THEN "rejected" ELSE waiter[v]]
          /\ job' = Select(Release([job EXCEPT !.state = "completed", !.phase = "published",
                                               !.failure = None]), None)
          /\ root' = releasedRoots(job.epoch)
          /\ wk' = [wk EXCEPT ![k] = Idle]
    /\ UNCHANGED <<build, generation, authority, remote>>

-----------------------------------------------------------------------------
(* The verdict on an attempt.                                              *)

\* A submission that failed for certain is forgotten, a durable handle and
\* staged results are kept.
MarkRenditionJobRetry(k) ==
    LET resubmit == job.phase = "provider" /\ ~job.resume
        keeps == job.phase \in StagedPhase \/ (job.phase = "provider" /\ job.resume)
        waits == Release([job EXCEPT !.state = "retry_wait", !.failure = "transient",
                                     !.started = @ /\ keeps])
    IN
    /\ wk[k].pc = "mark" /\ wk[k].verdict = "transient"
    /\ Claimed(k)
    /\ job' = IF resubmit
              THEN Select([waits EXCEPT !.phase = "queued", !.snapshot = FALSE], None)
              ELSE waits
    /\ wk' = [wk EXCEPT ![k] = Idle]
    /\ UNCHANGED <<waiter, results, authority, remote>>

\* Nothing staged and nothing submitted is left of the job.
Reset(j) ==
    Select([j EXCEPT !.phase = "queued", !.started = FALSE, !.resume = FALSE,
                     !.snapshot = FALSE, !.named = FALSE], None)

finishRenditionJobClaim(k) ==
    LET verdict == wk[k].verdict
        ended == Release([job EXCEPT !.failure = verdict, !.state =
                     IF verdict = "ambiguous" THEN "operator_required" ELSE "failed"])
        reopenableStaged == verdict \in {"consent", "stale_authority"} /\ job.phase \in StagedPhase
        kept == reopenableStaged /\ WaitingIn(waiter) # {}
    IN
    /\ wk[k].pc = "mark" /\ verdict # "transient"
    /\ Claimed(k)
    /\ job' = IF reopenableStaged /\ ~kept THEN Reset(ended) ELSE ended
    /\ root' = IF kept THEN root ELSE releasedRoots(job.epoch)
    /\ remote' = IF verdict = "terminal" THEN "none" ELSE remote
    /\ wk' = [wk EXCEPT ![k] = Idle]
    /\ UNCHANGED <<waiter, build, generation, authority>>

-----------------------------------------------------------------------------
(* Deleted waiters and collected derivatives.                              *)

\* reconcileRenditionJobsAfterWaiterDeletionTx on the row of a job whose
\* selected waiter is gone; w is the waiters that are left.
reconciled(w) ==
    LET unsafeFailure ==
            /\ job.state = "failed"
            /\ \/ job.failure \notin {"consent", "stale_authority"}
               \/ /\ job.phase \notin {"queued"} \cup StagedPhase
                  /\ ~(job.phase = "provider" /\ job.resume /\ job.snapshot)
        inProvider == job.phase = "provider" /\ job.started
        tombstone == Select(Release([job EXCEPT !.state = "operator_required",
                                                !.failure = "ambiguous"]), None)
    IN  IF job.state \in {"completed", "operator_required"} \/ unsafeFailure
        THEN Select(job, None)
        ELSE IF WaitingIn(w) = {}
        THEN IF inProvider THEN tombstone
             ELSE Reset(Release([job EXCEPT !.state = "failed", !.failure = "stale_authority"]))
        ELSE IF job.state = "running" /\ inProvider
        THEN IF selected(w) = None THEN tombstone ELSE Select(job, selected(w))
        ELSE Select(Release([job EXCEPT !.state = "queued", !.epoch = @ + 1, !.failure = None]),
                    None)

\* deleteRenditionAuthorityForVersionsTx: the versions of S are deleted.
DeleteVersions(S) ==
    LET left == [v \in Waiter |-> IF v \in S THEN "none" ELSE waiter[v]]
        lost == job.state # "absent" /\ job.selected \in S
        j == IF lost THEN reconciled(left) ELSE job
        requeued == lost /\ j.epoch > job.epoch
        reselects == lost /\ job.state = "running" /\ job.phase = "provider" /\ job.started
        kept == IF requeued THEN refreshedRoots(job, j.epoch) ELSE root
    IN
    /\ \A v \in S : waiter[v] # "none"
    /\ requeued => j.epoch <= MaxEpoch /\ RootsRefreshable(job, j.epoch)
    /\ waiter' = IF reselects THEN passedOver(left) ELSE left
    /\ root' = IF WaitingIn(waiter') # {} THEN kept
               ELSE IF j.state = "operator_required"
               THEN [t \in DOMAIN root |-> [root[t] EXCEPT !.active = FALSE]]
               ELSE [t \in DOMAIN root |-> NoRoot]
    /\ job' = IF (\A v \in Waiter : waiter'[v] = "none") /\ j.state # "operator_required"
              THEN NoJob ELSE j
    /\ UNCHANGED <<build, generation, authority, wk, remote>>

\* PurgeDerivatives collects what no attachment and no active root keeps.
CollectBuild ==
    /\ build
    /\ ~root["build"].active
    /\ \A v \in Waiter : waiter[v] # "published"
    /\ build' = FALSE
    /\ UNCHANGED <<job, waiter, generation, root, authority, wk, remote>>

\* A published generation is superseded by the next one before it goes.
CollectGeneration ==
    /\ generation
    /\ ~root["generation"].active
    /\ generation' = FALSE
    /\ UNCHANGED <<job, waiter, build, root, authority, wk, remote>>

Attempt(k) ==
    \/ ClaimRenditionJob(k)
    \/ Quarantine(k)
    \/ Drop(k)
    \/ RenditionJobWorkByClaim(k)
    \/ PrepareFails(k)
    \/ BeginRenditionProvider(k)
    \/ CheckpointRenditionProvider(k)
    \/ ProviderAnswers(k)
    \/ StageRenditionJobBuild(k)
    \/ StagingFails(k)
    \/ StageRenditionJobGeneration(k)
    \/ PublishRenditionJob(k)
    \/ MarkRenditionJobRetry(k)
    \/ finishRenditionJobClaim(k)

Next ==
    \/ \E k \in Worker : Attempt(k)
    \/ \E v \in Waiter :
          \/ EnqueueRenditionJob(v)
          \/ GrantConsent(v)
          \/ EnsureInitialConsent(v)
          \/ RevokeConsent(v)
          \/ GrantExpires(v)
    \/ \E S \in SUBSET Waiter \ {{}} : DeleteVersions(S)
    \/ CollectBuild
    \/ CollectGeneration

Spec == Init /\ [][Next]_vars
-----------------------------------------------------------------------------

JobRow ==
    [state : State, phase : Phase, owner : Worker \cup {None}, epoch : 0..MaxEpoch,
     started : BOOLEAN, resume : BOOLEAN, snapshot : BOOLEAN, selected : Waiter \cup {None},
     auth : Grant \cup {None}, named : BOOLEAN, failure : Failure]
WorkerRow ==
    [pc : {"idle", "work", "prepare", "egress", "stage", "generate", "publish", "mark"},
     epoch : 0..MaxEpoch, handle : BOOLEAN, waiter : Waiter \cup {None},
     auth : Grant \cup {None}, verdict : Verdict \cup {None}]
RootRow == [token : 0..MaxEpoch, active : BOOLEAN]

TypeOK ==
    /\ job \in JobRow
    /\ waiter \in [Waiter -> Told]
    /\ build \in BOOLEAN /\ generation \in BOOLEAN
    /\ root \in [{"build", "generation"} -> RootRow]
    /\ fence \in [Waiter -> Nat]
    /\ grants \in [Waiter -> SUBSET Grant]
    /\ issued \in [Waiter -> Nat]
    /\ wk \in [Worker -> WorkerRow]
    /\ remote \in {"none", "open", "handle"}

\* A call that left no handle and whose end nobody knows is guarded by the
\* row: running under the claim that made it, or set aside for an operator.
\* No claim, retry, reopening or deletion of waiters gets past that, so
\* nothing submits the same content while the first call may be carried out.
OpenCallGuarded ==
    remote = "open" => /\ job.state \in {"running", "operator_required"}
                       /\ job.phase = "provider" /\ job.started /\ ~job.resume

\* While content is being sent for a waiter, the consent it is sent under is
\* not revoked, not even when the worker has lost its claim meanwhile.
EgressUnderConsent ==
    \A k \in Worker : InEgress(k) => wk[k].auth.fence = fence[wk[k].waiter]

\* The row is one that the readers of it accept: an owner exactly while it
\* runs; a provider phase with a sealed snapshot, and resumable unless it
\* runs or has ended; a selected waiter that exists, with its authorization.
StatusSound ==
    /\ job.state = "running" <=> job.owner # None
    /\ job.phase = "provider" => job.started /\ job.snapshot
    /\ job.phase = "provider" /\ job.state \in {"queued", "retry_wait"} => job.resume
    /\ job.state = "operator_required" => job.phase = "provider"
    /\ job.state = "completed" <=> job.phase = "published"
    /\ job.selected # None <=> job.auth # None
    /\ job.selected # None => waiter[job.selected] # "none"

\* No root was fenced with a token newer than the row's epoch, also after
\* the row was deleted and made again: the next claim can renew it.
FencesOrdered == \A target \in DOMAIN root : root[target].token <= job.epoch

\* Nobody waits for a build that is completed: whoever joined in time was
\* answered by the publication, whoever joined later requeued the job.
NoStrandedWaiter == job.state = "completed" => WaitingIn(waiter) = {}

\* The job as RenditionPromise sees it.  A kept handle counts as the call
\* only while the row has it.
consented == {v \in Waiter : Authorized(v)}
call == IF remote = "handle" /\ ~job.resume THEN "none" ELSE remote
attended == \E k \in Worker : Claimed(k)
out == {v \in Waiter : \E k \in Worker : InEgress(k) /\ wk[k].waiter = v}

Promise == INSTANCE RenditionPromise WITH
    status <- waiter, consented <- consented, revoked <- fence, call <- call,
    attended <- attended, out <- out

\* RenditionJobs implements RenditionPromise: consent, calls and
\* publications seen from outside.
KeepsPromise == Promise!Spec

Submits(k) == wk[k].pc = "prepare" /\ ~wk[k].handle /\ (InEgress(k))'

\* "fresh consent must not resubmit a provider operation with a durable
\* handle" (internal/store/version_prune_test.go), "a later enqueue cannot
\* silently resubmit the same call" (internal/store/rendition_delete.go).
NoResubmission == [][\A k \in Worker : Submits(k) => remote = "none"]_vars
=============================================================================
