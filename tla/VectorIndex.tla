----------------------------- MODULE VectorIndex -----------------------------
(***************************************************************************)
(* The vector index of one vector space: a projection of the embedding     *)
(* heads that a worker builds beside them and that semantic searches read  *)
(* while the heads, the tree and the stored payloads go on changing.       *)
(* Sources: internal/store/vector_index.go, internal/vectorworker/         *)
(* worker.go, and what internal/store/search.go and internal/retrieval/    *)
(* search.go do with a generation.                                         *)
(*                                                                         *)
(* A member is an embedding set.  The source manifest of an index is a     *)
(* checksum over its members, so the set of members stands for it, and a   *)
(* generation is named by its source and by its bytes: here the vector     *)
(* sets that were built into it.  Every storage transaction is one step.   *)
(*                                                                         *)
(* A lease is kept as the time that is left of it, which Tick runs down.   *)
(* A caller reads the clock before its transaction begins, so what it      *)
(* takes for now is d behind and it sees a lease that has left + d to go.  *)
(* A worker reads it after its last step, which bounds d.  Nobody is more  *)
(* than MaxDelay behind; below -MaxDelay nothing is told apart any more.   *)
(*                                                                         *)
(* A daemon runs one worker and the store is written for several, with     *)
(* their names in its rows; a name decides nothing that the fencing token  *)
(* does not, since no token is given out twice, so it is left out.         *)
(***************************************************************************)
EXTENDS Integers

CONSTANTS
    Member,         \* embedding sets
    VectorSet,      \* payloads
    VectorSetOf,    \* VectorSetOf[m]: the payload that m points to
    HeadKey,        \* HeadKey[m]: version, profile, binding and input kind
    Worker,
    Reader,         \* semantic searches
    None,
    BuildLease, ReaderLease,
    MaxDelay,       \* how far a transaction's reading of the clock lags
    MaxToken,       \* bound on the claims
    MaxChange,      \* bound on the changes of members and payloads
    MaxFault        \* bound on failed calls and crashes

ASSUME MemberAssumption == VectorSetOf \in [Member -> VectorSet]
ASSUME NoneAssumption == None \notin Reader
ASSUME LeaseAssumption ==
    /\ BuildLease \in Nat \ {0} /\ ReaderLease \in Nat \ {0}
    /\ MaxDelay \in Nat
ASSUME BoundAssumption == MaxToken \in Nat /\ MaxChange \in Nat /\ MaxFault \in Nat

VARIABLES
    heads,          \* embedding_heads of the space
    eligible,       \* members whose version is current, live and attached
    absent,         \* payloads that cannot be read now
    gens,           \* vector_index_generations
    head,           \* vector_index_heads
    job,            \* vector_index_build_jobs
    leases,         \* vector_index_reader_leases
    coverage,       \* vector_index_unavailable_coverage
    pc, src, tok, rows, lost, failed,  \* each worker and its locals
    failures,       \* scans that failed in a row
    since,          \* how long ago each worker made its last step
    rpc, rgen, rleft,                  \* each search and its lease
    found, asked,   \* history: what it found, and what there was to find
    changes, faults

members == <<heads, eligible, absent>>
tables == <<gens, head, job, leases, coverage>>
locals == <<src, tok, rows, lost, failed>>
workers == <<pc, locals, failures, since>>
readers == <<rpc, rgen, rleft, found, asked>>
bounds == <<changes, faults>>
vars == <<members, tables, workers, readers, bounds>>

Sets(s) == {VectorSetOf[m] : m \in s}
Generation == [source : SUBSET Member, rows : SUBSET VectorSet]
Left == (-MaxDelay) .. (BuildLease + ReaderLease)
Lease == [gen : Generation, left : Left, holder : Reader \cup {None}]
Lag == 0 .. MaxDelay
NoHead == [source |-> {}, rows |-> {}]
NoJob == [source |-> {}, token |-> 0, left |-> -MaxDelay]

\* captureVectorIndexSourceTx: the members whose head and source are live.
Current == heads \cap eligible

\* A vault that is new, or restored: an import brings embedding heads back and
\* no index.
Init ==
    /\ heads \in {s \in SUBSET Member : \A m, n \in s : HeadKey[m] = HeadKey[n] => m = n}
    /\ eligible = Member /\ absent = {}
    /\ gens = {} /\ head = NoHead /\ job = NoJob /\ leases = {} /\ coverage = {}
    /\ pc = [w \in Worker |-> "scan"]
    /\ src = [w \in Worker |-> {}]
    /\ tok = [w \in Worker |-> 0]
    /\ rows = [w \in Worker |-> {}]
    /\ lost = [w \in Worker |-> {}]
    /\ failed = [w \in Worker |-> FALSE]
    /\ failures = [w \in Worker |-> 0]
    /\ since = [w \in Worker |-> 0]
    /\ rpc = [r \in Reader |-> "idle"]
    /\ rgen = [r \in Reader |-> NoHead]
    /\ rleft = [r \in Reader |-> -MaxDelay]
    /\ found = [r \in Reader |-> {}]
    /\ asked = [r \in Reader |-> {}]
    /\ changes = 0 /\ faults = 0

-----------------------------------------------------------------------------
(* What the index is built from changes under it.                          *)

Change ==
    /\ changes < MaxChange
    /\ changes' = changes + 1
    /\ UNCHANGED <<tables, workers, readers, faults>>

\* publishEmbeddingHeadTx: m takes the place of the head with its key.
PublishEmbeddingHead(m) ==
    /\ m \in eligible \ heads
    /\ heads' = {h \in heads : HeadKey[h] # HeadKey[m]} \cup {m}
    /\ UNCHANGED <<eligible, absent>>
    /\ Change

\* A purge, a new rendition head or the deletion of versions takes heads
\* away.
DeleteEmbeddingHeads(s) ==
    /\ s # {} /\ s \subseteq heads
    /\ heads' = heads \ s
    /\ UNCHANGED <<eligible, absent>>
    /\ Change

\* embeddingSetEligibleTx changes its answer: a node is trashed or gets a
\* new version, or comes back.
ChangeEligibility(m) ==
    /\ eligible' = IF m \in eligible THEN eligible \ {m} ELSE eligible \cup {m}
    /\ UNCHANGED <<heads, absent>>
    /\ Change

\* A payload goes missing or is found again.
ChangePayload(v) ==
    /\ absent' = IF v \in absent THEN absent \ {v} ELSE absent \cup {v}
    /\ UNCHANGED <<heads, eligible>>
    /\ Change

Age(n) == IF n > -MaxDelay THEN n - 1 ELSE n
Aged(x) == [x EXCEPT !.left = Age(@)]

\* Time passes.
Tick ==
    /\ job' = Aged(job)
    /\ leases' = {Aged(l) : l \in leases}
    /\ rleft' = [r \in Reader |-> Age(rleft[r])]
    /\ since' = [w \in Worker |-> IF since[w] < MaxDelay THEN since[w] + 1 ELSE MaxDelay]
    /\ UNCHANGED <<members, gens, head, coverage, pc, locals, failures>>
    /\ UNCHANGED <<rpc, rgen, found, asked, bounds>>

-----------------------------------------------------------------------------
(* ReclaimVectorIndexGenerations, on its own and after other transactions. *)

\* Mutant: readers do not keep a generation, and take their leases with it.
ReclaimUnleased(d) ==
    LET kept == {l \in leases : l.left + d > 0}
        pinned == {g \in gens :
            \/ g = head
            \/ job.source = g.source /\ job.left + d > 0}
    IN  /\ gens' = pinned
        /\ leases' = {l \in kept : l.gen \in pinned}

\* Expired leases go first; then every generation that no head, no lease and
\* no live build of its source keeps.
Reclaim(d) ==
    LET kept == {l \in leases : l.left + d > 0}
        pinned == {g \in gens :
            \/ g = head
            \/ \E l \in kept : l.gen = g
            \/ job.source = g.source /\ job.left + d > 0}
    IN  /\ gens' = pinned
        /\ leases' = {l \in kept : l.gen \in pinned}

-----------------------------------------------------------------------------
(* A worker: Run, scan, refresh and Rebuild.                               *)

Goto(w, there) ==
    /\ pc' = [pc EXCEPT ![w] = there]
    /\ UNCHANGED locals

\* The build's locals are gone; what it found missing is reported.
Leave(w, there) ==
    /\ pc' = [pc EXCEPT ![w] = there]
    /\ src' = [src EXCEPT ![w] = {}]
    /\ tok' = [tok EXCEPT ![w] = 0]
    /\ rows' = [rows EXCEPT ![w] = {}]
    /\ failed' = [failed EXCEPT ![w] = FALSE]
    /\ UNCHANGED lost

\* A call after the claim failed; the claim is given up next.
GiveUp(w, err) ==
    /\ pc' = [pc EXCEPT ![w] = "abandon"]
    /\ failed' = [failed EXCEPT ![w] = err]
    /\ rows' = [rows EXCEPT ![w] = {}]
    /\ UNCHANGED <<src, tok, lost>>

\* IndexWorker.scan begins: ListVectorIndexSpaces names the space while it
\* has embedding heads or an index head.
Scan(w) ==
    /\ pc[w] = "scan"
    /\ Goto(w, IF heads # {} \/ head # NoHead THEN "refresh" ELSE "report")
    /\ UNCHANGED <<members, tables, failures, readers, bounds>>

\* refresh: the source, and then the head, in two reads.
RefreshSource(w) ==
    /\ pc[w] = "refresh"
    /\ pc' = [pc EXCEPT ![w] = IF Current = {} THEN "rebuild" ELSE "compare"]
    /\ src' = [src EXCEPT ![w] = Current]
    /\ UNCHANGED <<members, tables, tok, rows, lost, failed, failures, readers, bounds>>

RefreshHead(w) ==
    /\ pc[w] = "compare"
    /\ Leave(w, IF head.source = src[w] THEN "report" ELSE "rebuild")
    /\ UNCHANGED <<members, tables, failures, readers, bounds>>

\* rebuild captures the source again.
RebuildSource(w) ==
    /\ pc[w] = "rebuild"
    /\ pc' = [pc EXCEPT ![w] = IF Current = {} THEN "retire" ELSE "active"]
    /\ src' = [src EXCEPT ![w] = Current]
    /\ UNCHANGED <<members, tables, tok, rows, lost, failed, failures, readers, bounds>>

\* RetireEmptyVectorIndexHead looks again; a source that has come back ends
\* the scan of the space without an error.
Retire(w, d) ==
    /\ pc[w] = "retire"
    /\ \/ /\ Current = {}
          /\ Goto(w, "retired")
          /\ head' = NoHead
          /\ job' = [job EXCEPT !.left = -d]
       \/ /\ Current # {}
          /\ Leave(w, "report")
          /\ UNCHANGED <<head, job>>
    /\ UNCHANGED <<members, gens, leases, coverage, failures, readers, bounds>>

RetireReclaim(w, d) ==
    /\ pc[w] = "retired"
    /\ Leave(w, "report")
    /\ Reclaim(d)
    /\ UNCHANGED <<members, head, job, coverage, failures, readers, bounds>>

\* ActiveVectorIndexGeneration already has this source.  One that cannot be
\* loaded or validated is built again.
CheckActive(w) ==
    /\ pc[w] = "active"
    /\ \/ head.source = src[w] /\ Leave(w, "report")
       \/ Goto(w, "claim")
    /\ UNCHANGED <<members, tables, failures, readers, bounds>>

\* Mutant: a claim is in progress for as long as its row is there.
ClaimNeverExpires(w, d) ==
    /\ pc[w] = "claim"
    /\ \/ /\ Current # src[w] \/ job.source = src[w]
          /\ Leave(w, "report")
          /\ UNCHANGED job
       \/ /\ Current = src[w] /\ job.source # src[w]
          /\ job.token < MaxToken
          /\ job' = [source |-> src[w], token |-> job.token + 1, left |-> BuildLease - d]
          /\ tok' = [tok EXCEPT ![w] = job.token + 1]
          /\ pc' = [pc EXCEPT ![w] = "read"]
          /\ UNCHANGED <<src, rows, lost, failed>>
    /\ UNCHANGED <<members, gens, head, leases, coverage, failures, readers, bounds>>

\* Mutant: a claim is nothing that another attempt respects.
InProgressNever(w, d) == FALSE

\* A build of this worker's source is under way.
InProgress(w, d) == job.source = src[w] /\ job.left + d > 0

\* ClaimVectorIndexBuild: refused when the source is not current any more or
\* when a live build has the same source.  A build of another source is
\* superseded, live or not.
Claim(w, d) ==
    /\ pc[w] = "claim"
    /\ \/ /\ Current # src[w] \/ InProgress(w, d)
          /\ Leave(w, "report")
          /\ UNCHANGED job
       \/ /\ Current = src[w]
          /\ ~InProgress(w, d)
          /\ job.token < MaxToken
          /\ job' = [source |-> src[w], token |-> job.token + 1, left |-> BuildLease - d]
          /\ tok' = [tok EXCEPT ![w] = job.token + 1]
          /\ pc' = [pc EXCEPT ![w] = "read"]
          /\ UNCHANGED <<src, rows, lost, failed>>
    /\ UNCHANGED <<members, gens, head, leases, coverage, failures, readers, bounds>>

\* Mutant: the index is built from what can be read.
ReadPartial(w) ==
    /\ pc[w] = "read"
    /\ pc' = [pc EXCEPT ![w] = "stage"]
    /\ rows' = [rows EXCEPT ![w] = Sets(src[w]) \ absent]
    /\ UNCHANGED <<members, tables, src, tok, lost, failed, failures, readers, bounds>>

\* loadVectorSets: one payload that is missing makes the build fail, with
\* every member that points to it.
Read(w) ==
    /\ pc[w] = "read"
    /\ \/ /\ Sets(src[w]) \cap absent = {}
          /\ pc' = [pc EXCEPT ![w] = "stage"]
          /\ rows' = [rows EXCEPT ![w] = Sets(src[w])]
          /\ UNCHANGED lost
       \/ /\ Sets(src[w]) \cap absent # {}
          /\ pc' = [pc EXCEPT ![w] = "abandon"]
          /\ lost' = [lost EXCEPT ![w] = {m \in src[w] : VectorSetOf[m] \in absent}]
          /\ UNCHANGED rows
    /\ UNCHANGED <<members, tables, src, tok, failed, failures, readers, bounds>>

\* requireVectorIndexBuildClaimTx
Claimed(w, d) == job.token = tok[w] /\ job.source = src[w] /\ job.left + d > 0

Built(w) == [source |-> src[w], rows |-> rows[w]]

\* StageVectorIndexGeneration keeps a generation that is there already.
Stage(w, d) ==
    /\ pc[w] = "stage"
    /\ \/ Claimed(w, d) /\ gens' = gens \cup {Built(w)} /\ Goto(w, "load")
       \/ ~Claimed(w, d) /\ GiveUp(w, FALSE) /\ UNCHANGED gens
    /\ UNCHANGED <<members, head, job, leases, coverage, failures, readers, bounds>>

\* LoadVectorIndexGeneration and validateStoredVectorIndex
Load(w) ==
    /\ pc[w] = "load"
    /\ IF Built(w) \in gens THEN Goto(w, "publish") ELSE GiveUp(w, FALSE)
    /\ UNCHANGED <<members, tables, failures, readers, bounds>>

\* Mutant: the source is not compared again.
PublishStale(w, d) ==
    /\ pc[w] = "publish"
    /\ \/ /\ Claimed(w, d) /\ Built(w) \in gens
          /\ head' = Built(w)
          /\ job' = [job EXCEPT !.left = -d]
          /\ Goto(w, "reclaim")
       \/ /\ ~(Claimed(w, d) /\ Built(w) \in gens)
          /\ GiveUp(w, FALSE)
          /\ UNCHANGED <<head, job>>
    /\ UNCHANGED <<members, gens, leases, coverage, failures, readers, bounds>>

\* PublishVectorIndexGeneration: the claim is live, the generation is there
\* and its source is still the current one.  The claim ends.
Publish(w, d) ==
    LET ok == Claimed(w, d) /\ Built(w) \in gens /\ Current = src[w]
    IN  /\ pc[w] = "publish"
        /\ \/ /\ ok
              /\ head' = Built(w)
              /\ job' = [job EXCEPT !.left = -d]
              /\ Goto(w, "reclaim")
           \/ /\ ~ok
              /\ GiveUp(w, FALSE)
              /\ UNCHANGED <<head, job>>
        /\ UNCHANGED <<members, gens, leases, coverage, failures, readers, bounds>>

PublishReclaim(w, d) ==
    /\ pc[w] = "reclaim"
    /\ Leave(w, "report")
    /\ Reclaim(d)
    /\ UNCHANGED <<members, head, job, coverage, failures, readers, bounds>>

\* Run: an error that is not transient, or the third in a row, ends the
\* worker.
ScanError(w) ==
    /\ failures' = [failures EXCEPT ![w] = @ + 1]
    /\ \E there \in {"scan", "stopped"} :
        /\ there = "scan" => failures[w] + 1 < 3
        /\ pc' = [pc EXCEPT ![w] = there]
    /\ src' = [src EXCEPT ![w] = {}]
    /\ tok' = [tok EXCEPT ![w] = 0]
    /\ rows' = [rows EXCEPT ![w] = {}]
    /\ lost' = [lost EXCEPT ![w] = {}]
    /\ failed' = [failed EXCEPT ![w] = FALSE]

\* AbandonVectorIndexBuild ends this attempt's claim and no other.
Abandon(w, d) ==
    /\ pc[w] = "abandon"
    /\ job' = IF job.token = tok[w] /\ job.source = src[w]
              THEN [job EXCEPT !.left = -d] ELSE job
    /\ IF failed[w] THEN ScanError(w) ELSE Leave(w, "report") /\ UNCHANGED failures
    /\ UNCHANGED <<members, gens, head, leases, coverage, readers, bounds>>

\* The end of a scan: ReplaceVectorIndexUnavailableCoverage, then a reclaim.
Report(w) ==
    /\ pc[w] = "report"
    /\ coverage' = lost[w]
    /\ pc' = [pc EXCEPT ![w] = "sweep"]
    /\ lost' = [lost EXCEPT ![w] = {}]
    /\ UNCHANGED <<members, gens, head, job, leases, src, tok, rows, failed, failures>>
    /\ UNCHANGED <<readers, bounds>>

Sweep(w, d) ==
    /\ pc[w] = "sweep"
    /\ Goto(w, "scan")
    /\ failures' = [failures EXCEPT ![w] = 0]
    /\ Reclaim(d)
    /\ UNCHANGED <<members, head, job, coverage, readers, bounds>>

\* A call fails: the busy database, a store that does not answer.  After the
\* claim the attempt is given up first.
Fail(w) ==
    /\ faults < MaxFault
    /\ faults' = faults + 1
    /\ \/ /\ pc[w] \in {"read", "stage", "load", "publish", "reclaim"}
          /\ GiveUp(w, TRUE)
          /\ UNCHANGED failures
       \/ /\ pc[w] \notin {"read", "stage", "load", "publish", "reclaim", "stopped"}
          /\ ScanError(w)
    /\ UNCHANGED <<members, tables, readers, changes>>

Step(w) ==
    /\ since' = [since EXCEPT ![w] = 0]
    /\ \/ Scan(w) \/ RefreshSource(w) \/ RefreshHead(w) \/ RebuildSource(w)
       \/ CheckActive(w) \/ Read(w) \/ Load(w) \/ Report(w) \/ Fail(w)
       \/ \E d \in 0 .. since[w] :
           \/ Retire(w, d) \/ RetireReclaim(w, d) \/ Claim(w, d) \/ Stage(w, d)
           \/ Publish(w, d) \/ PublishReclaim(w, d) \/ Abandon(w, d) \/ Sweep(w, d)

-----------------------------------------------------------------------------
(* A semantic search.                                                      *)

ReaderGoto(r, there) ==
    /\ rpc' = [rpc EXCEPT ![r] = there]
    /\ UNCHANGED <<rgen, rleft, found, asked>>

ReaderIdle(r) ==
    /\ rpc' = [rpc EXCEPT ![r] = "idle"]
    /\ rgen' = [rgen EXCEPT ![r] = NoHead]
    /\ rleft' = [rleft EXCEPT ![r] = -MaxDelay]
    /\ found' = [found EXCEPT ![r] = {}]
    /\ asked' = [asked EXCEPT ![r] = {}]

HeldBy(r) == {l \in leases : l.holder = r}

\* Nobody knows of these leases any more; they run out.
Orphans(s) == {[l EXCEPT !.holder = None] : l \in s}

\* AcquireVectorIndexGeneration: a head that has the current source.
Acquire(r, d) ==
    /\ rpc[r] = "idle"
    /\ head # NoHead /\ Current # {} /\ Current = head.source
    /\ leases' = leases \cup {[gen |-> head, left |-> ReaderLease - d, holder |-> r]}
    /\ rpc' = [rpc EXCEPT ![r] = "check"]
    /\ rgen' = [rgen EXCEPT ![r] = head]
    /\ rleft' = [rleft EXCEPT ![r] = ReaderLease - d]
    /\ UNCHANGED <<members, gens, head, job, coverage, workers, found, asked, bounds>>

\* acquireSemanticSearchAuthority compares the source once more, and lets go
\* of the lease when it differs or a query fails.  That release passes the
\* time of the acquisition, at which the lease had not expired.
Check(r) ==
    /\ rpc[r] = "check"
    /\ \/ /\ Current = rgen[r].source
          /\ ReaderGoto(r, "query")
          /\ UNCHANGED leases
       \/ /\ leases' = leases \ HeldBy(r)
          /\ ReaderIdle(r)
    /\ UNCHANGED <<members, gens, head, job, coverage, workers, bounds>>

\* resolveSemanticCandidates gives the members whose rows were found.
resolved(r) == {m \in Current : VectorSetOf[m] \in rgen[r].rows}

\* The query is embedded, the leased bytes are searched and what is found is
\* resolved, which is refused when the source has changed; the provider or
\* the search can fail.
Resolve(r) ==
    /\ rpc[r] = "query"
    /\ \/ /\ Current = rgen[r].source
          /\ rpc' = [rpc EXCEPT ![r] = "answered"]
          /\ found' = [found EXCEPT ![r] = resolved(r)]
          /\ asked' = [asked EXCEPT ![r] = Current]
          /\ UNCHANGED <<rgen, rleft>>
       \/ ReaderGoto(r, "failed")
    /\ UNCHANGED <<members, tables, workers, bounds>>

\* ReleaseVectorIndexGeneration: a lease that has run out is refused, and the
\* transaction that would have deleted it is rolled back.
Release(r, d) ==
    /\ rpc[r] \in {"answered", "failed"}
    /\ leases' = (leases \ HeldBy(r)) \cup Orphans({l \in HeldBy(r) : l.left + d <= 0})
    /\ ReaderIdle(r)
    /\ UNCHANGED <<members, gens, head, job, coverage, workers, bounds>>

\* The release fails or takes longer than the search waits for it.
ReleaseFails(r) ==
    /\ faults < MaxFault
    /\ faults' = faults + 1
    /\ rpc[r] \in {"check", "answered", "failed"}
    /\ leases' = (leases \ HeldBy(r)) \cup Orphans(HeldBy(r))
    /\ ReaderIdle(r)
    /\ UNCHANGED <<members, gens, head, job, coverage, workers, changes>>

\* The daemon dies and is started again.
Crash ==
    /\ faults < MaxFault
    /\ faults' = faults + 1
    /\ leases' = Orphans(leases)
    /\ pc' = [w \in Worker |-> "scan"]
    /\ src' = [w \in Worker |-> {}]
    /\ tok' = [w \in Worker |-> 0]
    /\ rows' = [w \in Worker |-> {}]
    /\ lost' = [w \in Worker |-> {}]
    /\ failed' = [w \in Worker |-> FALSE]
    /\ failures' = [w \in Worker |-> 0]
    /\ since' = [w \in Worker |-> 0]
    /\ rpc' = [r \in Reader |-> "idle"]
    /\ rgen' = [r \in Reader |-> NoHead]
    /\ rleft' = [r \in Reader |-> -MaxDelay]
    /\ found' = [r \in Reader |-> {}]
    /\ asked' = [r \in Reader |-> {}]
    /\ UNCHANGED <<members, gens, head, job, coverage, changes>>

-----------------------------------------------------------------------------
Next ==
    \/ \E m \in Member : PublishEmbeddingHead(m) \/ ChangeEligibility(m)
    \/ \E s \in SUBSET Member : DeleteEmbeddingHeads(s)
    \/ \E v \in VectorSet : ChangePayload(v)
    \/ Tick
    \/ \E w \in Worker : Step(w)
    \/ \E r \in Reader : Check(r) \/ Resolve(r) \/ ReleaseFails(r)
                          \/ \E d \in Lag : Acquire(r, d) \/ Release(r, d)
    \/ Crash

\* The worker loop is never left waiting for ever, and time passes.  A search
\* may be as slow as it likes.
Fairness ==
    /\ \A w \in Worker : WF_vars(Step(w))
    /\ WF_vars(Tick)

Spec == Init /\ [][Next]_vars
FairSpec == Spec /\ Fairness

-----------------------------------------------------------------------------
(* Properties.                                                             *)

Claiming == {"read", "stage", "load", "publish", "reclaim", "abandon"}
WorkerPc == {"scan", "refresh", "compare", "rebuild", "retire", "retired", "active",
             "claim", "report", "sweep", "stopped"} \cup Claiming
ReaderPc == {"idle", "check", "query", "answered", "failed"}

\* Every variable has its type.
TypeOK ==
    /\ heads \subseteq Member /\ eligible \subseteq Member /\ absent \subseteq VectorSet
    /\ gens \subseteq Generation /\ head \in Generation
    /\ job \in [source : SUBSET Member, token : Nat, left : Left]
    /\ leases \subseteq Lease
    /\ coverage \subseteq Member
    /\ pc \in [Worker -> WorkerPc]
    /\ src \in [Worker -> SUBSET Member]
    /\ tok \in [Worker -> Nat]
    /\ rows \in [Worker -> SUBSET VectorSet]
    /\ lost \in [Worker -> SUBSET Member]
    /\ failed \in [Worker -> BOOLEAN]
    /\ failures \in [Worker -> Nat]
    /\ since \in [Worker -> Lag]
    /\ rpc \in [Reader -> ReaderPc]
    /\ rgen \in [Reader -> Generation]
    /\ rleft \in [Reader -> Left]
    /\ found \in [Reader -> SUBSET Member]
    /\ asked \in [Reader -> SUBSET Member]
    /\ changes \in Nat /\ faults \in Nat

\* No reclaim takes a generation away from somebody who may read it: the head
\* names a stored generation, and so does the lease of every search whose
\* time has not run out, whatever was published, retired, reclaimed or lost
\* in a crash meanwhile (vector_index.go, ReclaimVectorIndexGenerations and
\* the cascade on the leases).
GenerationsKept ==
    /\ head # NoHead => head \in gens
    /\ \A r \in Reader : rpc[r] # "idle" /\ rleft[r] > 0 =>
        /\ rgen[r] \in gens
        /\ [gen |-> rgen[r], left |-> rleft[r], holder |-> r] \in leases

\* A search that answers has found every member there was when it answered
\* and nothing else: neither an index that was built from a part of the
\* payloads, nor one of an earlier source, is ever searched to the end
\* (loadVectorSets, PublishVectorIndexGeneration, resolveSemanticCandidates).
AnswersComplete ==
    \A r \in Reader : rpc[r] = "answered" => found[r] = asked[r]

\* Once the head has the current source, no worker takes it away or puts an
\* older one in its place while the source stays: "a concurrent publication
\* cannot lose a head for live membership" (vector_index.go,
\* RetireEmptyVectorIndexHead; PublishVectorIndexGeneration).
CurrentHeadKept ==
    [][Current # {} /\ head.source = Current /\ Current' = Current
        => head'.source = Current']_vars

\* A live build of the current source is ended by its own worker and by
\* nobody else: "cleanup from an older attempt cannot affect a newer owner"
\* (vector_index.go, AbandonVectorIndexBuild; ClaimVectorIndexBuild).
ClaimRespected ==
    [][Current # {} /\ job.source = Current /\ job.left > 0 =>
        \/ job' \in {job, Aged(job)}
        \/ \E w \in Worker : pc[w] \in Claiming /\ tok[w] = job.token /\ pc'[w] # pc[w]]_vars

\* The index has caught up: the head is the current source's, what is not in
\* use is gone and nothing is reported missing.
Indexed ==
    /\ head = [source |-> Current, rows |-> Sets(Current)]
    /\ gens \subseteq {head} \cup {l.gen : l \in leases}
    /\ coverage = {}

\* When changes and faults come to an end the index catches up, whatever
\* claims, stages and leases crashes have left behind, as long as the
\* payloads can be read and a worker is running (worker.go, Run, scan,
\* rebuild and its deferred abandonment).
IndexSettles ==
    <>[](\/ Indexed
         \/ Sets(Current) \cap absent # {}
         \/ \E w \in Worker : pc[w] = "stopped"
         \/ job.token = MaxToken)
=============================================================================
