------------------------ MODULE RenditionJobsProofs ------------------------
(***************************************************************************)
(* Proofs about the rendition job, for any set of waiters, any set of      *)
(* workers and any bounds.                                                 *)
(*                                                                         *)
(* The row alone does not say enough: that an open call stays guarded      *)
(* rests on what the worker that holds the claim is doing.  IInv adds that *)
(* the handle a worker acts on is the row's while its claim stands         *)
(* (AtClaim), and that grants are numbered in the order they were issued,  *)
(* without which a newest one need not exist (GrantIds).                   *)
(***************************************************************************)
EXTENDS RenditionJobs, TLAPS, WellFoundedInduction

\* Grants are numbered as they are issued, under a fence that was reached.
GrantIds ==
    \A v \in Waiter : \A g \in grants[v] : g.id <= issued[v] /\ g.fence <= fence[v]

\* A row that has not got to the provider holds nothing of it, a row that is
\* not there selects nobody, and only a claim runs.
QueuedClean ==
    /\ job.phase = "queued" => ~job.resume /\ ~job.started
    /\ job.state = "absent" => job.selected = None /\ ~job.resume
    /\ job.state = "running" => job.epoch # 0

\* The provider knows the handle that a row can still resume, and is done
\* with one whose result is staged.
HandleKept(j, r) ==
    /\ j.phase = "provider" /\ j.resume =>
           r = "handle" \/ (j.state = "failed" /\ j.failure = "terminal")
    /\ j.phase \in StagedPhase /\ j.resume => r = "none"
RemoteKept == HandleKept(job, remote)

\* What the row says of the worker that holds its claim.
AtClaim ==
    \A k \in Worker : Claimed(k) =>
        /\ wk[k].pc \in {"work", "prepare", "egress", "stage"} => wk[k].handle = job.resume
        /\ wk[k].pc = "prepare" => job.phase \in {"queued", "provider"}
        /\ wk[k].pc \in {"egress", "stage"} => job.phase = "provider"
        /\ wk[k].pc = "egress" => remote = IF wk[k].handle THEN "handle" ELSE "open"
        /\ wk[k].pc = "mark" /\ wk[k].verdict = "ambiguous" => job.phase = "provider"
        /\ remote = "open" =>
               \/ wk[k].pc \in {"egress", "stage"} /\ ~wk[k].handle
               \/ wk[k].pc = "mark" /\ wk[k].verdict \in {"ambiguous", "terminal"}
               \/ wk[k].pc = "idle"

\* What a worker carries from one step to the next.
Carries ==
    \A k \in Worker :
        /\ wk[k].pc \in {"prepare", "egress"} => wk[k].waiter # None
        /\ wk[k].pc = "egress" => wk[k].auth # None

\* A call that is out was made for a waiter that the row names.
OpenSelected == remote = "open" /\ job.state = "running" => job.selected # None

IInv ==
    /\ TypeOK
    /\ GrantIds
    /\ StatusSound
    /\ QueuedClean
    /\ RemoteKept
    /\ OpenCallGuarded
    /\ OpenSelected
    /\ AtClaim
    /\ Carries
    /\ EgressUnderConsent
    /\ FencesOrdered
    /\ NoStrandedWaiter

\* What StatusSound and QueuedClean say of a row alone.
RowSound(j) ==
    /\ j.state = "running" <=> j.owner # None
    /\ j.phase = "provider" => j.started /\ j.snapshot
    /\ j.phase = "provider" /\ j.state \in {"queued", "retry_wait"} => j.resume
    /\ j.state = "operator_required" => j.phase = "provider"
    /\ j.state = "completed" <=> j.phase = "published"
    /\ j.selected # None <=> j.auth # None
    /\ j.phase = "queued" => ~j.resume /\ ~j.started
    /\ j.state = "absent" => j.selected = None /\ ~j.resume
    /\ j.state = "running" => j.epoch # 0

-----------------------------------------------------------------------------
(* The two choices the store makes are well defined.                       *)

\* A set of natural numbers that is not empty has a least member.
LEMMA LeastMember ==
    ASSUME NEW S \in SUBSET Nat, S # {}
    PROVE  \E x \in S : \A y \in S : x <= y
<1> DEFINE R == OpToRel(<, Nat)
<1>1. IsWellFoundedOn(R, Nat)
  BY Zenon, NatLessThanWellFounded
<1>2. R = {ss \in Nat \X Nat : ss[1] < ss[2]}
  BY Zenon DEF OpToRel
<1> HIDE DEF R
<1>3. PICK x \in S : \A y \in S : ~(<<y, x>> \in R)
  BY <1>1, WFMin
<1>4. ASSUME NEW y \in S PROVE x <= y
  <2>1. ~(y < x)
    BY <1>2, <1>3
  <2> QED BY <2>1
<1> QED BY <1>3, <1>4

\* First picks a member.
LEMMA FirstIn ==
    ASSUME NEW S \in SUBSET Waiter, S # {}
    PROVE  First(S) \in S
BY LeastMember, WaiterAssumption DEF First

\* Newest picks a grant that stands.
LEMMA NewestIn ==
    ASSUME TypeOK, GrantIds, NEW v \in Waiter, Authorized(v)
    PROVE  Newest(v) \in Standing(v) /\ Newest(v) \in Grant
<1> DEFINE Age == {issued[v] - g.id : g \in Standing(v)}
<1>1. issued[v] \in Nat /\ Standing(v) \subseteq Grant
  BY DEF TypeOK, Standing
<1>2. \A g \in Standing(v) : g.id \in Nat /\ g.id <= issued[v]
  BY <1>1 DEF GrantIds, Standing, Grant
<1>3. Age \in SUBSET Nat /\ Age # {}
  BY <1>1, <1>2 DEF Authorized
<1>4. PICK a \in Age : \A b \in Age : a <= b
  BY <1>3, LeastMember
<1>5. PICK g \in Standing(v) : a = issued[v] - g.id
  BY <1>4
<1>6. \A h \in Standing(v) : h.id <= g.id
  BY <1>1, <1>2, <1>4, <1>5
<1>7. Newest(v) \in Standing(v)
  BY <1>6 DEF Newest
<1> QED BY <1>1, <1>7

\* selectRenditionJobWaiterTx finds a waiter that waits and may be served.
LEMMA SelectedOK ==
    ASSUME TypeOK, NEW w \in [Waiter -> Told]
    PROVE  /\ selected(w) \in Waiter \cup {None}
           /\ selected(w) # None => /\ selected(w) \in Waiter
                                    /\ w[selected(w)] = "waiting"
                                    /\ Authorized(selected(w))
<1> DEFINE able == {v \in WaitingIn(w) : Authorized(v)}
<1>1. able \in SUBSET Waiter
  BY DEF WaitingIn
<1>2. selected(w) = IF able = {} THEN None ELSE First(able)
  BY DEF selected
<1>3. CASE able = {}
  BY <1>2, <1>3
<1>4. CASE able # {}
  <2>1. selected(w) \in able
    BY <1>1, <1>2, <1>4, FirstIn
  <2> QED BY <2>1 DEF WaitingIn
<1> QED BY <1>3, <1>4

\* The waiters that are passed over were waiting and are turned away; the
\* selected one is not among them.
LEMMA PassedOverOK ==
    ASSUME TypeOK, NEW w \in [Waiter -> Told]
    PROVE  /\ passedOver(w) \in [Waiter -> Told]
           /\ \A v \in Waiter : /\ passedOver(w)[v] = "none" <=> w[v] = "none"
                                /\ passedOver(w)[v] = "waiting" => w[v] = "waiting"
           /\ selected(w) # None => passedOver(w)[selected(w)] = "waiting"
<1> USE DEF Told
<1>1. passedOver(w) \in [Waiter -> Told]
  BY DEF passedOver
<1>2. \A v \in Waiter : /\ passedOver(w)[v] = "none" <=> w[v] = "none"
                        /\ passedOver(w)[v] = "waiting" => w[v] = "waiting"
  BY DEF passedOver
<1>3. selected(w) # None => passedOver(w)[selected(w)] = "waiting"
  BY SelectedOK DEF passedOver
<1> QED BY <1>1, <1>2, <1>3

\* Select writes a waiter and its newest grant, or neither.
LEMMA SelectOK ==
    ASSUME TypeOK, GrantIds, NEW j \in JobRow, NEW v \in Waiter \cup {None},
           v # None => Authorized(v)
    PROVE  /\ Select(j, v) \in JobRow
           /\ Select(j, v).selected = v
           /\ Select(j, v).auth # None <=> v # None
           /\ Select(j, v) = [j EXCEPT !.selected = v, !.auth = Select(j, v).auth]
<1>1. v # None => Newest(v) \in Grant
  BY NewestIn
<1>2. None \notin Grant
  BY NoneAssumption DEF Grant
<1> QED BY <1>1, <1>2 DEF Select, JobRow

\* What an attempt is left with when it has a verdict, or goes on.
LEMMA ConcludeOK ==
    ASSUME TypeOK, NEW k \in Worker, NEW verdict \in Verdict, Conclude(k, verdict)
    PROVE  /\ wk' \in [Worker -> WorkerRow]
           /\ wk'[k].pc = "mark" /\ wk'[k].verdict = verdict /\ wk'[k].epoch = wk[k].epoch
           /\ \A o \in Worker \ {k} : wk'[o] = wk[o]
<1>1. wk \in [Worker -> WorkerRow]
  BY DEF TypeOK
<1>2. [Idle EXCEPT !.pc = "mark", !.epoch = wk[k].epoch, !.verdict = verdict] \in WorkerRow
  BY <1>1 DEF WorkerRow, Idle
<1> QED BY <1>1, <1>2 DEF Conclude, Idle

\* A worker that goes on changes its own step only.
LEMMA ContinueOK ==
    ASSUME TypeOK, NEW k \in Worker, NEW pc \in {"generate", "publish"}, Continue(k, pc)
    PROVE  /\ wk' \in [Worker -> WorkerRow]
           /\ wk'[k].pc = pc /\ wk'[k].epoch = wk[k].epoch
           /\ \A o \in Worker \ {k} : wk'[o] = wk[o]
<1>1. wk \in [Worker -> WorkerRow]
  BY DEF TypeOK
<1>2. [Idle EXCEPT !.pc = pc, !.epoch = wk[k].epoch] \in WorkerRow
  BY <1>1 DEF WorkerRow, Idle
<1> QED BY <1>1, <1>2 DEF Continue, Idle

\* A worker whose attempt ends changes nothing but its own row.
LEMMA IdleOK ==
    ASSUME TypeOK, NEW k \in Worker, wk' = [wk EXCEPT ![k] = Idle]
    PROVE  /\ wk' \in [Worker -> WorkerRow]
           /\ wk'[k].pc = "idle" /\ wk'[k].epoch = 0
           /\ \A o \in Worker \ {k} : wk'[o] = wk[o]
<1>1. wk \in [Worker -> WorkerRow]
  BY DEF TypeOK
<1>2. Idle \in WorkerRow
  BY BoundAssumption DEF WorkerRow, Idle
<1> QED BY <1>1, <1>2 DEF Idle

\* The roots of what a row has staged, renewed.
LEMMA RefreshedOK ==
    ASSUME TypeOK, NEW j \in JobRow, NEW epoch \in 0..MaxEpoch
    PROVE  /\ refreshedRoots(j, epoch) \in [{"build", "generation"} -> RootRow]
           /\ \A t \in {"build", "generation"} :
                 refreshedRoots(j, epoch)[t].token \in {root[t].token, epoch}
<1>1. [token |-> epoch, active |-> TRUE] \in RootRow
  BY DEF RootRow
<1> QED BY <1>1 DEF refreshedRoots, TypeOK

\* Releasing roots leaves their tokens alone.
LEMMA ReleasedOK ==
    ASSUME TypeOK, NEW epoch
    PROVE  /\ releasedRoots(epoch) \in [{"build", "generation"} -> RootRow]
           /\ \A t \in {"build", "generation"} : releasedRoots(epoch)[t].token = root[t].token
<1>1. ASSUME NEW t \in {"build", "generation"}
      PROVE  /\ [root[t] EXCEPT !.active = @ /\ root[t].token # epoch] \in RootRow
             /\ [root[t] EXCEPT !.active = @ /\ root[t].token # epoch].token = root[t].token
  BY DEF TypeOK, RootRow
<1> QED BY <1>1 DEF releasedRoots, TypeOK

-----------------------------------------------------------------------------
(* One lemma for each action.                                              *)

\* A claim: the claims before it have ended.
LEMMA ClaimOK ==
    ASSUME IInv, NEW k \in Worker, ClaimRenditionJob(k)
    PROVE  IInv'
<1> USE DEF IInv, authority, results, ClaimRenditionJob, Claimable, Ambiguous
<1>e. job.epoch \in 0..MaxEpoch /\ job.epoch + 1 \in 0..MaxEpoch /\ job.resume \in BOOLEAN
  BY BoundAssumption DEF TypeOK, JobRow
<1>1. TypeOK'
  <2>1. job' \in JobRow
    BY <1>e DEF TypeOK, JobRow, State, Failure
  <2>2. root' \in [{"build", "generation"} -> RootRow]
    BY <1>e, RefreshedOK DEF TypeOK
  <2>3. wk' \in [Worker -> WorkerRow]
    BY <1>e, BoundAssumption DEF TypeOK, WorkerRow, Idle
  <2> QED BY <2>1, <2>2, <2>3 DEF TypeOK
<1>2. GrantIds'
  BY DEF GrantIds
<1>3. StatusSound'
  BY NoneAssumption DEF StatusSound, TypeOK, JobRow
<1>4. QueuedClean'
  BY DEF QueuedClean, TypeOK, JobRow
<1>5. RemoteKept'
  BY DEF RemoteKept, HandleKept, StagedPhase, TypeOK, JobRow
<1>6. OpenCallGuarded'
  BY DEF OpenCallGuarded, TypeOK, JobRow
<1>7. OpenSelected'
  BY DEF OpenSelected, OpenCallGuarded, TypeOK, JobRow
<1>8. AtClaim'
  BY DEF AtClaim, OpenCallGuarded, TypeOK, JobRow, WorkerRow, Claimed, Idle, StagedPhase
<1>9. Carries'
  BY DEF Carries, TypeOK, JobRow, WorkerRow, Idle
<1>10. EgressUnderConsent'
  BY DEF EgressUnderConsent, InEgress, TypeOK, JobRow, WorkerRow, Idle
<1>11. FencesOrdered'
  BY BoundAssumption DEF FencesOrdered, TypeOK, JobRow, RootRow, RootsRefreshable, refreshedRoots
<1>12. NoStrandedWaiter'
  BY DEF NoStrandedWaiter, TypeOK, JobRow, WaitingIn
<1> QED BY <1>1, <1>2, <1>3, <1>4, <1>5, <1>6, <1>7, <1>8, <1>9, <1>10, <1>11, <1>12

\* A call without a handle is set aside.
LEMMA QuarantineOK ==
    ASSUME IInv, NEW k \in Worker, Quarantine(k)
    PROVE  IInv'
<1> USE DEF IInv, authority, results, Quarantine, Ambiguous, Release
<1>1. TypeOK'
  BY BoundAssumption, NoneAssumption DEF TypeOK, JobRow, WorkerRow, RootRow, State, Phase, Failure, Verdict, Idle
<1>2. GrantIds'
  BY DEF GrantIds
<1>3. StatusSound'
  BY NoneAssumption DEF StatusSound, TypeOK, JobRow, QueuedClean, StagedPhase, Phase
<1>4. QueuedClean'
  BY DEF QueuedClean, TypeOK, JobRow
<1>5. RemoteKept'
  BY DEF RemoteKept, HandleKept, StagedPhase, TypeOK, JobRow
<1>6. OpenCallGuarded'
  BY DEF OpenCallGuarded, TypeOK, JobRow, QueuedClean
<1>7. OpenSelected'
  BY DEF OpenSelected, OpenCallGuarded, TypeOK, JobRow
<1>8. AtClaim'
  BY DEF AtClaim, OpenCallGuarded, TypeOK, JobRow, WorkerRow, Claimed, Idle, StagedPhase
<1>9. Carries'
  BY DEF Carries, TypeOK, JobRow, WorkerRow, Idle
<1>10. EgressUnderConsent'
  BY DEF EgressUnderConsent, InEgress, TypeOK, JobRow, WorkerRow, Idle
<1>11. FencesOrdered'
  BY BoundAssumption DEF FencesOrdered, TypeOK, JobRow, RootRow
<1>12. NoStrandedWaiter'
  BY DEF NoStrandedWaiter, TypeOK, JobRow, WaitingIn
<1> QED BY <1>1, <1>2, <1>3, <1>4, <1>5, <1>6, <1>7, <1>8, <1>9, <1>10, <1>11, <1>12

\* An attempt ends.
LEMMA DropOK ==
    ASSUME IInv, NEW k \in Worker, Drop(k)
    PROVE  IInv'
<1> USE DEF IInv, authority, results, Drop
<1>1. TypeOK'
  BY BoundAssumption, NoneAssumption DEF TypeOK, JobRow, WorkerRow, RootRow, State, Phase, Failure, Verdict, Idle
<1>2. GrantIds'
  BY DEF GrantIds
<1>3. StatusSound'
  BY NoneAssumption DEF StatusSound, TypeOK, JobRow
<1>4. QueuedClean'
  BY DEF QueuedClean, TypeOK, JobRow
<1>5. RemoteKept'
  BY DEF RemoteKept, HandleKept, StagedPhase, TypeOK, JobRow
<1>6. OpenCallGuarded'
  BY DEF OpenCallGuarded, TypeOK, JobRow
<1>7. OpenSelected'
  BY DEF OpenSelected, OpenCallGuarded, TypeOK, JobRow
<1>8. AtClaim'
  BY DEF AtClaim, OpenCallGuarded, TypeOK, JobRow, WorkerRow, Claimed, Idle, StagedPhase
<1>9. Carries'
  BY DEF Carries, TypeOK, JobRow, WorkerRow, Idle
<1>10. EgressUnderConsent'
  BY DEF EgressUnderConsent, InEgress, TypeOK, JobRow, WorkerRow, Idle
<1>11. FencesOrdered'
  BY BoundAssumption DEF FencesOrdered, TypeOK, JobRow, RootRow
<1>12. NoStrandedWaiter'
  BY DEF NoStrandedWaiter, TypeOK, JobRow, WaitingIn
<1> QED BY <1>1, <1>2, <1>3, <1>4, <1>5, <1>6, <1>7, <1>8, <1>9, <1>10, <1>11, <1>12

\* An attempt ends before anything leaves the vault.
LEMMA PrepareFailsOK ==
    ASSUME IInv, NEW k \in Worker, PrepareFails(k)
    PROVE  IInv'
<1>a. PICK verdict \in Verdict : /\ Conclude(k, verdict)
                                 /\ verdict = "ambiguous" => wk[k].handle
  BY DEF PrepareFails, Verdict
<1>b. wk[k].pc = "prepare" /\ UNCHANGED <<job, waiter, results, authority, remote>>
  BY DEF PrepareFails
<1>c. /\ wk' \in [Worker -> WorkerRow]
      /\ wk'[k].pc = "mark" /\ wk'[k].verdict = verdict /\ wk'[k].epoch = wk[k].epoch
      /\ \A o \in Worker \ {k} : wk'[o] = wk[o]
  BY <1>a, ConcludeOK DEF IInv, Conclude
<1> USE DEF results, authority
<1>1. TypeOK'
  BY <1>a, <1>b, <1>c DEF IInv, TypeOK
<1>2. GrantIds'
  BY <1>a, <1>b, <1>c DEF IInv, GrantIds
<1>3. StatusSound'
  BY <1>a, <1>b, <1>c DEF IInv, StatusSound
<1>4. QueuedClean'
  BY <1>a, <1>b, <1>c DEF IInv, QueuedClean
<1>5. RemoteKept'
  BY <1>a, <1>b, <1>c DEF IInv, RemoteKept, HandleKept
<1>6. OpenCallGuarded'
  BY <1>a, <1>b, <1>c DEF IInv, OpenCallGuarded
<1>7. OpenSelected'
  BY <1>a, <1>b, <1>c DEF IInv, OpenSelected
<1>8. AtClaim'
  BY <1>a, <1>b, <1>c DEF IInv, AtClaim, Claimed, QueuedClean
<1>9. Carries'
  BY <1>a, <1>b, <1>c DEF IInv, Carries
<1>10. EgressUnderConsent'
  BY <1>a, <1>b, <1>c DEF IInv, EgressUnderConsent, InEgress
<1>11. FencesOrdered'
  BY <1>a, <1>b, <1>c DEF IInv, FencesOrdered
<1>12. NoStrandedWaiter'
  BY <1>a, <1>b, <1>c DEF IInv, NoStrandedWaiter, WaitingIn
<1> QED
  BY <1>1, <1>2, <1>3, <1>4, <1>5, <1>6, <1>7, <1>8, <1>9, <1>10, <1>11, <1>12 DEF IInv

\* A handle is persisted.
LEMMA CheckpointOK ==
    ASSUME IInv, NEW k \in Worker, CheckpointRenditionProvider(k)
    PROVE  IInv'
<1> USE DEF IInv, authority, results, CheckpointRenditionProvider, InEgress
<1>1. TypeOK'
  <2>1. job' \in JobRow
    BY DEF TypeOK, JobRow
  <2>2. wk' \in [Worker -> WorkerRow]
    BY ZenonT(60) DEF TypeOK, WorkerRow
  <2> QED BY <2>1, <2>2 DEF TypeOK
<1>2. GrantIds'
  BY DEF GrantIds
<1>3. StatusSound'
  BY NoneAssumption DEF StatusSound, TypeOK, JobRow
<1>4. QueuedClean'
  BY DEF QueuedClean, TypeOK, JobRow, Claimed
<1>5. RemoteKept'
  BY DEF RemoteKept, HandleKept, StagedPhase, TypeOK, JobRow
<1>6. OpenCallGuarded'
  BY DEF OpenCallGuarded, TypeOK, JobRow
<1>7. OpenSelected'
  BY DEF OpenSelected, OpenCallGuarded, TypeOK, JobRow
<1>8. AtClaim'
  <2>1. /\ wk'[k].pc = "egress" /\ wk'[k].handle = TRUE /\ job'.resume = TRUE
        /\ job'.phase = "provider"
        /\ job'.owner = k /\ remote' = "handle"
    BY DEF TypeOK, JobRow, WorkerRow, Claimed
  <2>2. \A o \in Worker : Claimed(o)' => o = k
    BY <2>1 DEF Claimed
  <2> QED BY <2>1, <2>2 DEF AtClaim
<1>9. Carries'
  BY DEF Carries, TypeOK, JobRow, WorkerRow, Idle
<1>10. EgressUnderConsent'
  BY DEF EgressUnderConsent, InEgress, TypeOK, JobRow, WorkerRow, Idle
<1>11. FencesOrdered'
  BY BoundAssumption DEF FencesOrdered, TypeOK, JobRow, RootRow
<1>12. NoStrandedWaiter'
  BY DEF NoStrandedWaiter, TypeOK, JobRow, WaitingIn
<1> QED BY <1>1, <1>2, <1>3, <1>4, <1>5, <1>6, <1>7, <1>8, <1>9, <1>10, <1>11, <1>12

\* The provider answers.
LEMMA AnswersOK ==
    ASSUME IInv, NEW k \in Worker, ProviderAnswers(k)
    PROVE  IInv'
<1> USE DEF results, authority
<1>a. wk[k].pc = "egress" /\ UNCHANGED <<job, waiter, results, authority>>
  BY DEF ProviderAnswers, InEgress
<1>b. Claimed(k) /\ wk[k].handle = job.resume /\ job.phase = "provider"
  BY <1>a DEF ProviderAnswers, IInv, AtClaim
<1>c. /\ wk' \in [Worker -> WorkerRow] /\ wk'[k].epoch = wk[k].epoch
      /\ \A o \in Worker \ {k} : wk'[o] = wk[o]
      /\ remote' \in {remote, "none"} /\ (wk[k].handle => remote' = remote)
      /\ \/ wk'[k].pc = "stage" /\ wk'[k].handle = wk[k].handle
         \/ wk'[k].pc = "mark" /\ (remote' = "open" => wk'[k].verdict \in {"ambiguous", "terminal"})
  <2>1. CASE /\ wk' = [wk EXCEPT ![k].pc = "stage", ![k].waiter = None, ![k].auth = None]
             /\ UNCHANGED remote
    <3>1. [wk[k] EXCEPT !.pc = "stage", !.waiter = None, !.auth = None] \in WorkerRow
      BY DEF IInv, TypeOK, WorkerRow
    <3> QED BY <2>1, <3>1 DEF IInv, TypeOK, WorkerRow
  <2>2. ASSUME NEW verdict \in Verdict, Conclude(k, verdict), remote' \in {remote, "none"},
               remote' = "open" => verdict \in {"ambiguous", "terminal"},
               wk[k].handle => remote' = remote
        PROVE  /\ wk' \in [Worker -> WorkerRow] /\ wk'[k].epoch = wk[k].epoch
               /\ \A o \in Worker \ {k} : wk'[o] = wk[o]
               /\ wk'[k].pc = "mark"
               /\ remote' = "open" => wk'[k].verdict \in {"ambiguous", "terminal"}
    BY <2>2, ConcludeOK DEF IInv
  <2>3. remote = "open" => ~wk[k].handle
    BY <1>b DEF IInv, OpenCallGuarded
  <2>4. CASE \E verdict \in {"transient", "terminal"} :
                /\ Conclude(k, verdict)
                /\ remote' = IF wk[k].handle THEN remote ELSE "none"
    BY <2>2, <2>3, <2>4 DEF Verdict
  <2>5. CASE Conclude(k, Unclassified(k)) /\ UNCHANGED remote
    BY <2>2, <2>3, <2>5 DEF Verdict, Unclassified
  <2>6. CASE Conclude(k, "ambiguous") /\ UNCHANGED remote
    BY <2>2, <2>6 DEF Verdict
  <2> QED BY <2>1, <2>4, <2>5, <2>6 DEF ProviderAnswers
<1>1. TypeOK'
  BY <1>a, <1>b, <1>c DEF IInv, TypeOK
<1>2. GrantIds'
  BY <1>a, <1>b, <1>c DEF IInv, GrantIds
<1>3. StatusSound'
  BY <1>a, <1>b, <1>c DEF IInv, StatusSound
<1>4. QueuedClean'
  BY <1>a, <1>b, <1>c DEF IInv, QueuedClean
<1>5. RemoteKept'
  BY <1>a, <1>b, <1>c DEF IInv, RemoteKept, HandleKept
<1>6. OpenCallGuarded'
  BY <1>a, <1>b, <1>c DEF IInv, OpenCallGuarded, AtClaim
<1>7. OpenSelected'
  BY <1>a, <1>b, <1>c DEF IInv, OpenSelected, TypeOK
<1>8. AtClaim'
  BY <1>a, <1>b, <1>c DEF IInv, AtClaim, Claimed, OpenCallGuarded, Unclassified
<1>9. Carries'
  BY <1>a, <1>b, <1>c DEF IInv, Carries
<1>10. EgressUnderConsent'
  BY <1>a, <1>b, <1>c DEF IInv, EgressUnderConsent, InEgress
<1>11. FencesOrdered'
  BY <1>a, <1>b, <1>c DEF IInv, FencesOrdered
<1>12. NoStrandedWaiter'
  BY <1>a, <1>b, <1>c DEF IInv, NoStrandedWaiter, WaitingIn
<1> QED
  BY <1>1, <1>2, <1>3, <1>4, <1>5, <1>6, <1>7, <1>8, <1>9, <1>10, <1>11, <1>12 DEF IInv

\* The build is staged.
LEMMA StageBuildOK ==
    ASSUME IInv, NEW k \in Worker, StageRenditionJobBuild(k)
    PROVE  IInv'
<1> USE DEF IInv, authority, results, StageRenditionJobBuild, Continue
<1>1. TypeOK'
  BY BoundAssumption, NoneAssumption DEF TypeOK, JobRow, WorkerRow, RootRow, State, Phase, Failure, Verdict, Idle
<1>2. GrantIds'
  BY DEF GrantIds
<1>3. StatusSound'
  <2>1. job.phase = "provider" /\ job.state = "running"
    BY DEF AtClaim, Claimed
  <2> QED BY <2>1, NoneAssumption DEF StatusSound, TypeOK, JobRow
<1>4. QueuedClean'
  BY DEF QueuedClean, TypeOK, JobRow
<1>5. RemoteKept'
  BY DEF RemoteKept, HandleKept, StagedPhase, TypeOK, JobRow
<1>6. OpenCallGuarded'
  BY DEF OpenCallGuarded, TypeOK, JobRow
<1>7. OpenSelected'
  BY DEF OpenSelected, OpenCallGuarded, TypeOK, JobRow
<1>8. AtClaim'
  BY DEF AtClaim, OpenCallGuarded, TypeOK, JobRow, WorkerRow, Claimed, Idle, StagedPhase
<1>9. Carries'
  BY DEF Carries, TypeOK, JobRow, WorkerRow, Idle
<1>10. EgressUnderConsent'
  BY DEF EgressUnderConsent, InEgress, TypeOK, JobRow, WorkerRow, Idle
<1>11. FencesOrdered'
  BY BoundAssumption DEF FencesOrdered, TypeOK, JobRow, RootRow
<1>12. NoStrandedWaiter'
  BY DEF NoStrandedWaiter, TypeOK, JobRow, WaitingIn
<1> QED BY <1>1, <1>2, <1>3, <1>4, <1>5, <1>6, <1>7, <1>8, <1>9, <1>10, <1>11, <1>12

\* Nothing could be staged.
LEMMA StagingFailsOK ==
    ASSUME IInv, NEW k \in Worker, StagingFails(k)
    PROVE  IInv'
<1> USE DEF results, authority
<1>a. wk[k].pc = "stage" /\ UNCHANGED <<job, waiter, results, authority, remote>>
  BY DEF StagingFails
<1>b. Claimed(k) /\ wk[k].handle = job.resume /\ job.phase = "provider"
  BY <1>a DEF StagingFails, IInv, AtClaim
<1>c. PICK verdict \in {"transient", "ambiguous", "terminal"} :
          /\ Conclude(k, verdict)
          /\ verdict = "transient" => wk[k].handle
  BY DEF StagingFails, Unclassified
<1>d. /\ wk' \in [Worker -> WorkerRow]
      /\ wk'[k].pc = "mark" /\ wk'[k].verdict = verdict /\ wk'[k].epoch = wk[k].epoch
      /\ \A o \in Worker \ {k} : wk'[o] = wk[o]
  BY <1>c, ConcludeOK DEF IInv, Verdict
<1>1. TypeOK'
  BY <1>a, <1>b, <1>c, <1>d DEF IInv, TypeOK
<1>2. GrantIds'
  BY <1>a, <1>b, <1>c, <1>d DEF IInv, GrantIds
<1>3. StatusSound'
  BY <1>a, <1>b, <1>c, <1>d DEF IInv, StatusSound
<1>4. QueuedClean'
  BY <1>a, <1>b, <1>c, <1>d DEF IInv, QueuedClean
<1>5. RemoteKept'
  BY <1>a, <1>b, <1>c, <1>d DEF IInv, RemoteKept, HandleKept
<1>6. OpenCallGuarded'
  BY <1>a, <1>b, <1>c, <1>d DEF IInv, OpenCallGuarded
<1>7. OpenSelected'
  BY <1>a, <1>b, <1>c, <1>d DEF IInv, OpenSelected
<1>8. AtClaim'
  BY <1>a, <1>b, <1>c, <1>d DEF IInv, AtClaim, Claimed, OpenCallGuarded
<1>9. Carries'
  BY <1>a, <1>b, <1>c, <1>d DEF IInv, Carries
<1>10. EgressUnderConsent'
  BY <1>a, <1>b, <1>c, <1>d DEF IInv, EgressUnderConsent, InEgress
<1>11. FencesOrdered'
  BY <1>a, <1>b, <1>c, <1>d DEF IInv, FencesOrdered
<1>12. NoStrandedWaiter'
  BY <1>a, <1>b, <1>c, <1>d DEF IInv, NoStrandedWaiter, WaitingIn
<1> QED
  BY <1>1, <1>2, <1>3, <1>4, <1>5, <1>6, <1>7, <1>8, <1>9, <1>10, <1>11, <1>12 DEF IInv

\* The generation is staged.
LEMMA StageGenerationOK ==
    ASSUME IInv, NEW k \in Worker, StageRenditionJobGeneration(k)
    PROVE  IInv'
<1> USE DEF IInv, authority, results, StageRenditionJobGeneration, Continue, StagedPhase
<1>1. TypeOK'
  BY BoundAssumption, NoneAssumption DEF TypeOK, JobRow, WorkerRow, RootRow, State, Phase, Failure, Verdict, Idle
<1>2. GrantIds'
  BY DEF GrantIds
<1>3. StatusSound'
  BY NoneAssumption DEF StatusSound, TypeOK, JobRow, Phase, State
<1>4. QueuedClean'
  BY DEF QueuedClean, TypeOK, JobRow
<1>5. RemoteKept'
  BY DEF RemoteKept, HandleKept, StagedPhase, TypeOK, JobRow
<1>6. OpenCallGuarded'
  BY DEF OpenCallGuarded, TypeOK, JobRow
<1>7. OpenSelected'
  BY DEF OpenSelected, OpenCallGuarded, TypeOK, JobRow
<1>8. AtClaim'
  BY DEF AtClaim, OpenCallGuarded, TypeOK, JobRow, WorkerRow, Claimed, Idle, StagedPhase
<1>9. Carries'
  BY DEF Carries, TypeOK, JobRow, WorkerRow, Idle
<1>10. EgressUnderConsent'
  BY DEF EgressUnderConsent, InEgress, TypeOK, JobRow, WorkerRow, Idle
<1>11. FencesOrdered'
  BY BoundAssumption DEF FencesOrdered, TypeOK, JobRow, RootRow
<1>12. NoStrandedWaiter'
  BY DEF NoStrandedWaiter, TypeOK, JobRow, WaitingIn
<1> QED BY <1>1, <1>2, <1>3, <1>4, <1>5, <1>6, <1>7, <1>8, <1>9, <1>10, <1>11, <1>12

\* The attempt is retried.
LEMMA RetryOK ==
    ASSUME IInv, NEW k \in Worker, MarkRenditionJobRetry(k)
    PROVE  IInv'
<1> USE DEF results, authority
<1>a. /\ wk[k].pc = "mark" /\ wk[k].verdict = "transient" /\ Claimed(k)
      /\ UNCHANGED <<waiter, results, authority, remote>>
  BY DEF MarkRenditionJobRetry
<1>b. /\ wk' \in [Worker -> WorkerRow]
      /\ wk'[k].pc = "idle" /\ wk'[k].epoch = 0
      /\ \A o \in Worker \ {k} : wk'[o] = wk[o]
  BY IdleOK DEF MarkRenditionJobRetry, IInv
<1>c. remote # "open" /\ job.state = "running"
  BY <1>a DEF IInv, AtClaim, Claimed
<1>d. /\ job' \in JobRow /\ RowSound(job') /\ HandleKept(job', remote)
      /\ job'.state = "retry_wait" /\ job'.epoch = job.epoch
      /\ job'.selected \in {None, job.selected}
  <2>1. CASE job.phase = "provider" /\ ~job.resume
    BY <2>1, <1>c DEF MarkRenditionJobRetry, Select, Release, StagedPhase, IInv, TypeOK, JobRow,
        State, Phase, Failure, StatusSound, QueuedClean, RowSound, RemoteKept, HandleKept
  <2>2. CASE ~(job.phase = "provider" /\ ~job.resume)
    BY <2>2, <1>c DEF MarkRenditionJobRetry, Release, StagedPhase, IInv, TypeOK, JobRow,
        State, Phase, Failure, StatusSound, QueuedClean, RowSound, RemoteKept, HandleKept
  <2> QED BY <2>1, <2>2
<1>1. TypeOK'
  BY <1>a, <1>b, <1>c, <1>d DEF IInv, TypeOK
<1>2. GrantIds'
  BY <1>a, <1>b, <1>c, <1>d DEF IInv, GrantIds
<1>3. StatusSound'
  BY <1>a, <1>b, <1>c, <1>d DEF IInv, StatusSound, RowSound
<1>4. QueuedClean'
  BY <1>a, <1>b, <1>c, <1>d DEF RowSound, QueuedClean
<1>5. RemoteKept'
  BY <1>a, <1>b, <1>c, <1>d DEF IInv, RemoteKept, HandleKept
<1>6. OpenCallGuarded'
  BY <1>a, <1>b, <1>c, <1>d DEF IInv, OpenCallGuarded
<1>7. OpenSelected'
  BY <1>a, <1>b, <1>c, <1>d DEF IInv, OpenSelected
<1>8. AtClaim'
  BY <1>a, <1>b, <1>c, <1>d DEF IInv, AtClaim, Claimed
<1>9. Carries'
  BY <1>a, <1>b, <1>c, <1>d DEF IInv, Carries
<1>10. EgressUnderConsent'
  BY <1>a, <1>b, <1>c, <1>d DEF IInv, EgressUnderConsent, InEgress
<1>11. FencesOrdered'
  BY <1>a, <1>b, <1>c, <1>d DEF IInv, FencesOrdered
<1>12. NoStrandedWaiter'
  BY <1>a, <1>b, <1>c, <1>d DEF IInv, NoStrandedWaiter, WaitingIn
<1> QED
  BY <1>1, <1>2, <1>3, <1>4, <1>5, <1>6, <1>7, <1>8, <1>9, <1>10, <1>11, <1>12 DEF IInv

\* The job ends with a verdict.
LEMMA FinishOK ==
    ASSUME IInv, NEW k \in Worker, finishRenditionJobClaim(k)
    PROVE  IInv'
<1> USE DEF results, authority
<1>a. /\ wk[k].pc = "mark" /\ Claimed(k) /\ wk[k].verdict \in Verdict \cup {None}
      /\ remote' \in {"none", remote}
      /\ wk[k].verdict = "terminal" => remote' = "none"
      /\ UNCHANGED <<waiter, build, generation, authority>>
  BY DEF finishRenditionJobClaim, IInv, TypeOK, WorkerRow
<1>b. /\ wk' \in [Worker -> WorkerRow]
      /\ wk'[k].pc = "idle" /\ wk'[k].epoch = 0
      /\ \A o \in Worker \ {k} : wk'[o] = wk[o]
  BY IdleOK DEF finishRenditionJobClaim, IInv
<1>c. /\ job.state = "running"
      /\ wk[k].verdict = "ambiguous" => job.phase = "provider"
      /\ remote' = "open" => remote = "open" /\ wk[k].verdict = "ambiguous"
  BY <1>a DEF IInv, AtClaim, Claimed
<1>d. /\ job' \in JobRow /\ RowSound(job') /\ HandleKept(job', remote')
      /\ job'.state = IF wk[k].verdict = "ambiguous" THEN "operator_required" ELSE "failed"
      /\ job'.epoch = job.epoch
      /\ job'.selected \in {None, job.selected}
      /\ wk[k].verdict = "ambiguous" =>
             job'.phase = job.phase /\ job'.started = job.started /\ job'.resume = job.resume
  <2> DEFINE ended == Release([job EXCEPT !.failure = wk[k].verdict, !.state =
                          IF wk[k].verdict = "ambiguous" THEN "operator_required" ELSE "failed"])
  <2>0. job \in JobRow /\ RowSound(job) /\ HandleKept(job, remote)
    BY DEF IInv, TypeOK, StatusSound, QueuedClean, RemoteKept, RowSound
  <2>1. /\ ended \in JobRow /\ RowSound(ended) /\ ended.epoch = job.epoch
        /\ ended.state = IF wk[k].verdict = "ambiguous" THEN "operator_required" ELSE "failed"
        /\ ended.phase = job.phase /\ ended.started = job.started /\ ended.resume = job.resume
        /\ ended.selected = job.selected /\ ended.failure = wk[k].verdict
    BY ZenonT(60), <1>a, <1>c, <2>0 DEF Release, JobRow, State, Failure, Verdict, RowSound
  <2>2. job' = ended \/ (job' = Reset(ended) /\ wk[k].verdict # "ambiguous")
    BY DEF finishRenditionJobClaim
  <2> HIDE DEF ended
  <2>3. CASE job' = Reset(ended) /\ wk[k].verdict # "ambiguous"
    BY <2>1, <2>3 DEF Reset, Select, JobRow, Phase, RowSound, HandleKept
  <2>4. HandleKept(ended, remote')
    <3>1. remote' = IF wk[k].verdict = "terminal" THEN "none" ELSE remote
      BY DEF finishRenditionJobClaim
    <3> QED BY <1>c, <2>0, <2>1, <3>1 DEF HandleKept
  <2> QED BY <2>1, <2>2, <2>3, <2>4
<1>e. /\ root' \in [{"build", "generation"} -> RootRow]
      /\ \A t \in {"build", "generation"} : root'[t].token = root[t].token
  BY ReleasedOK DEF finishRenditionJobClaim, IInv, TypeOK
<1>1. TypeOK'
  BY <1>a, <1>b, <1>c, <1>d, <1>e DEF IInv, TypeOK
<1>2. GrantIds'
  BY <1>a, <1>b, <1>c, <1>d, <1>e DEF IInv, GrantIds
<1>3. StatusSound'
  BY <1>a, <1>b, <1>c, <1>d, <1>e DEF IInv, StatusSound, RowSound
<1>4. QueuedClean'
  BY <1>a, <1>b, <1>c, <1>d, <1>e DEF RowSound, QueuedClean
<1>5. RemoteKept'
  BY <1>a, <1>b, <1>c, <1>d, <1>e DEF IInv, RemoteKept, HandleKept
<1>6. OpenCallGuarded'
  BY <1>a, <1>b, <1>c, <1>d, <1>e DEF IInv, OpenCallGuarded
<1>7. OpenSelected'
  BY <1>a, <1>b, <1>c, <1>d, <1>e DEF IInv, OpenSelected
<1>8. AtClaim'
  BY <1>a, <1>b, <1>c, <1>d, <1>e DEF IInv, AtClaim, Claimed
<1>9. Carries'
  BY <1>a, <1>b, <1>c, <1>d, <1>e DEF IInv, Carries
<1>10. EgressUnderConsent'
  BY <1>a, <1>b, <1>c, <1>d, <1>e DEF IInv, EgressUnderConsent, InEgress
<1>11. FencesOrdered'
  BY <1>a, <1>b, <1>c, <1>d, <1>e DEF IInv, FencesOrdered, TypeOK, JobRow
<1>12. NoStrandedWaiter'
  BY <1>a, <1>b, <1>c, <1>d, <1>e DEF IInv, NoStrandedWaiter, WaitingIn
<1> QED
  BY <1>1, <1>2, <1>3, <1>4, <1>5, <1>6, <1>7, <1>8, <1>9, <1>10, <1>11, <1>12 DEF IInv

\* The work of a claim is read, and a waiter selected.
LEMMA WorkOK ==
    ASSUME IInv, NEW k \in Worker, RenditionJobWorkByClaim(k)
    PROVE  IInv'
<1> USE DEF results, authority
<1>a. wk[k].pc = "work" /\ Claimed(k) /\ UNCHANGED <<results, authority, remote>>
  BY DEF RenditionJobWorkByClaim
<1>b. remote # "open" /\ job.state = "running" /\ wk[k].handle = job.resume
  BY <1>a DEF IInv, AtClaim, Claimed
<1> DEFINE fresh == job.selected = None
           v == IF fresh THEN selected(waiter) ELSE job.selected
<1>c. /\ waiter' \in [Waiter -> Told]
      /\ \A u \in Waiter : waiter'[u] = "none" <=> waiter[u] = "none"
  BY PassedOverOK DEF RenditionJobWorkByClaim, IInv, TypeOK
<1>d. v \in Waiter \cup {None} /\ (fresh /\ v # None => Authorized(v) /\ waiter'[v] = "waiting")
  BY SelectedOK, PassedOverOK DEF RenditionJobWorkByClaim, IInv, TypeOK, JobRow
<1>e. /\ job' \in JobRow /\ RowSound(job')
      /\ job' = [job EXCEPT !.selected = job'.selected, !.auth = job'.auth]
      /\ job'.selected # None => waiter'[job'.selected] # "none"
  <2>1. CASE fresh /\ v # None
    <3>1. job' = Select(job, v)
      BY <2>1 DEF RenditionJobWorkByClaim
    <3> HIDE DEF fresh, v
    <3>2. job \in JobRow /\ (v # None => Authorized(v))
      BY <1>d, <2>1 DEF IInv, TypeOK
    <3>3. /\ job' \in JobRow /\ job'.selected = v /\ (job'.auth # None <=> v # None)
          /\ job' = [job EXCEPT !.selected = v, !.auth = job'.auth]
      BY <1>d, <3>1, <3>2, SelectOK DEF IInv
    <3>4. RowSound(job')
      BY <1>b, <3>2, <3>3 DEF IInv, JobRow, StatusSound, QueuedClean, RowSound
    <3> QED BY <1>d, <2>1, <3>3, <3>4
  <2>2. CASE ~(fresh /\ v # None)
    <3>1. job' = job
      BY <2>2 DEF RenditionJobWorkByClaim
    <3> QED BY <3>1, <1>c DEF IInv, TypeOK, JobRow, StatusSound, QueuedClean, RowSound
  <2> QED BY <2>1, <2>2
<1>f. /\ wk' \in [Worker -> WorkerRow] /\ wk'[k].epoch = wk[k].epoch
      /\ \A o \in Worker \ {k} : wk'[o] = wk[o]
      /\ \/ wk'[k].pc = "generate"
         \/ /\ wk'[k].pc = "prepare" /\ wk'[k].handle = wk[k].handle /\ wk'[k].waiter # None
            /\ job.phase \notin StagedPhase
         \/ wk'[k].pc = "mark" /\ wk'[k].verdict \in {"consent", "stale_authority"}
  <2>1. CASE Continue(k, "generate")
    BY <2>1, ContinueOK DEF IInv
  <2>2. CASE /\ v # None /\ job.phase \notin StagedPhase
             /\ wk' = [wk EXCEPT ![k].pc = "prepare", ![k].waiter = v]
    <3> HIDE DEF v
    <3>1. [wk[k] EXCEPT !.pc = "prepare", !.waiter = v] \in WorkerRow
      BY <1>d DEF IInv, TypeOK, WorkerRow
    <3> QED BY <1>d, <2>2, <3>1 DEF IInv, TypeOK, WorkerRow
  <2>3. CASE \E verdict \in {"consent", "stale_authority"} : Conclude(k, verdict)
    BY <2>3, ConcludeOK DEF IInv, Verdict
  <2> QED BY <2>1, <2>2, <2>3 DEF RenditionJobWorkByClaim
<1>g. job.phase \notin StagedPhase => job.phase \in {"queued", "provider"}
  BY <1>b DEF IInv, TypeOK, JobRow, Phase, StagedPhase, StatusSound
<1> HIDE DEF fresh, v
<1>h. /\ job'.state = "running" /\ job'.phase = job.phase /\ job'.epoch = job.epoch
      /\ job'.resume = job.resume /\ job'.owner = job.owner
  BY <1>b, <1>e DEF IInv, TypeOK, JobRow
<1>1. TypeOK'
  BY <1>a, <1>b, <1>c, <1>e, <1>f, <1>g, <1>h DEF IInv, TypeOK
<1>2. GrantIds'
  BY <1>a, <1>b, <1>c, <1>e, <1>f, <1>g, <1>h DEF IInv, GrantIds
<1>3. StatusSound'
  BY <1>a, <1>b, <1>c, <1>e, <1>f, <1>g, <1>h DEF IInv, StatusSound, RowSound
<1>4. QueuedClean'
  BY <1>a, <1>b, <1>c, <1>e, <1>f, <1>g, <1>h DEF RowSound, QueuedClean
<1>5. RemoteKept'
  BY <1>a, <1>b, <1>c, <1>e, <1>f, <1>g, <1>h DEF IInv, RemoteKept, HandleKept
<1>6. OpenCallGuarded'
  BY <1>a, <1>b, <1>c, <1>e, <1>f, <1>g, <1>h DEF IInv, OpenCallGuarded
<1>7. OpenSelected'
  BY <1>a, <1>b, <1>c, <1>e, <1>f, <1>g, <1>h DEF IInv, OpenSelected
<1>8. AtClaim'
  BY <1>a, <1>b, <1>c, <1>e, <1>f, <1>g, <1>h DEF IInv, AtClaim, Claimed
<1>9. Carries'
  BY <1>a, <1>b, <1>c, <1>e, <1>f, <1>g, <1>h DEF IInv, Carries
<1>10. EgressUnderConsent'
  BY <1>a, <1>b, <1>c, <1>e, <1>f, <1>g, <1>h DEF IInv, EgressUnderConsent, InEgress
<1>11. FencesOrdered'
  BY <1>a, <1>b, <1>c, <1>e, <1>f, <1>g, <1>h DEF IInv, FencesOrdered, TypeOK
<1>12. NoStrandedWaiter'
  BY <1>a, <1>b, <1>c, <1>e, <1>f, <1>g, <1>h DEF IInv, NoStrandedWaiter, WaitingIn
<1> QED
  BY <1>1, <1>2, <1>3, <1>4, <1>5, <1>6, <1>7, <1>8, <1>9, <1>10, <1>11, <1>12 DEF IInv

\* A publication answers everybody who waits.
LEMMA PublishOK ==
    ASSUME IInv, NEW k \in Worker, PublishRenditionJob(k)
    PROVE  IInv'
<1> USE DEF results, authority
<1>a. /\ wk[k].pc = "publish" /\ Claimed(k) /\ job.phase = "generation_staged"
      /\ UNCHANGED <<build, generation, authority, remote>>
  BY DEF PublishRenditionJob
<1>b. remote # "open" /\ job.state = "running"
  BY <1>a DEF IInv, AtClaim, Claimed
<1>c. ASSUME NEW verdict \in {"consent", "transient"}, Conclude(k, verdict),
             UNCHANGED <<job, waiter, root>>
      PROVE  IInv'
  <2>1. /\ wk' \in [Worker -> WorkerRow]
        /\ wk'[k].pc = "mark" /\ wk'[k].verdict = verdict /\ wk'[k].epoch = wk[k].epoch
        /\ \A o \in Worker \ {k} : wk'[o] = wk[o]
    BY <1>c, ConcludeOK DEF IInv, Verdict
  <2>2. TypeOK' /\ GrantIds' /\ StatusSound' /\ QueuedClean' /\ OpenCallGuarded' /\ OpenSelected'
        /\ RemoteKept'
    BY <1>a, <1>b, <1>c, <2>1 DEF IInv, TypeOK, GrantIds, StatusSound, QueuedClean,
        OpenCallGuarded, OpenSelected, RemoteKept, HandleKept
  <2>3. AtClaim' /\ Carries' /\ EgressUnderConsent'
    BY <1>a, <1>b, <1>c, <2>1 DEF IInv, AtClaim, Claimed, Carries, EgressUnderConsent, InEgress
  <2>4. FencesOrdered' /\ NoStrandedWaiter'
    BY <1>c DEF IInv, FencesOrdered, NoStrandedWaiter, WaitingIn
  <2> QED BY <2>2, <2>3, <2>4 DEF IInv
<1> DEFINE able == {v \in WaitingIn(waiter) : Authorized(v)}
<1>d. ASSUME waiter' = [v \in Waiter |->
                 IF v \in able THEN "published"
                 ELSE IF waiter[v] = "waiting" THEN "rejected" ELSE waiter[v]],
             job' = Select(Release([job EXCEPT !.state = "completed", !.phase = "published",
                                               !.failure = None]), None),
             root' = releasedRoots(job.epoch),
             wk' = [wk EXCEPT ![k] = Idle]
      PROVE  IInv'
  <2>1. /\ waiter' \in [Waiter -> Told]
        /\ \A v \in Waiter : waiter'[v] # "waiting"
    BY <1>d DEF IInv, TypeOK, Told
  <2>2. /\ job' \in JobRow /\ RowSound(job') /\ job'.state = "completed"
        /\ job'.phase = "published" /\ job'.epoch = job.epoch /\ job'.selected = None
    BY <1>a, <1>d DEF Select, Release, IInv, TypeOK, JobRow, State, Phase, Failure, RowSound
  <2>3. /\ root' \in [{"build", "generation"} -> RootRow]
        /\ \A t \in {"build", "generation"} : root'[t].token = root[t].token
    BY <1>d, ReleasedOK DEF IInv
  <2>4. /\ wk' \in [Worker -> WorkerRow]
        /\ wk'[k].pc = "idle" /\ wk'[k].epoch = 0
        /\ \A o \in Worker \ {k} : wk'[o] = wk[o]
    BY <1>d, IdleOK DEF IInv
  <2>5. TypeOK' /\ GrantIds' /\ StatusSound' /\ QueuedClean' /\ OpenCallGuarded' /\ OpenSelected'
        /\ RemoteKept'
    BY <1>a, <1>b, <2>1, <2>2, <2>3, <2>4 DEF IInv, TypeOK, GrantIds, StatusSound, QueuedClean,
        OpenCallGuarded, OpenSelected, RemoteKept, HandleKept, StagedPhase, RowSound
  <2>6. AtClaim' /\ Carries' /\ EgressUnderConsent'
    BY <1>a, <1>b, <2>2, <2>4 DEF IInv, AtClaim, Claimed, Carries, EgressUnderConsent, InEgress
  <2>7. FencesOrdered' /\ NoStrandedWaiter'
    BY <2>1, <2>2, <2>3 DEF IInv, TypeOK, FencesOrdered, NoStrandedWaiter, WaitingIn
  <2> QED BY <2>5, <2>6, <2>7 DEF IInv
<1> QED BY <1>c, <1>d DEF PublishRenditionJob

\* Consent is given: the new grant is the newest one.
LEMMA IssueOK ==
    ASSUME IInv, NEW v \in Waiter, IssueGrant(v)
    PROVE  IInv'
<1> USE DEF IssueGrant, results
<1>1. [id |-> issued[v] + 1, fence |-> fence[v]] \in Grant
  BY DEF IInv, TypeOK, Grant
<1>2. TypeOK'
  BY <1>1 DEF IInv, TypeOK
<1>3. GrantIds'
  <2>1. \A u \in Waiter : /\ issued[u] \in Nat /\ fence[u] \in Nat /\ issued'[u] \in Nat
                          /\ issued[u] <= issued'[u] /\ fence'[u] = fence[u]
    BY DEF IInv, TypeOK
  <2>2. \A u \in Waiter : \A g \in grants'[u] :
            g \in grants[u] \/ (u = v /\ g.id = issued'[v] /\ g.fence = fence[v])
    BY DEF IInv, TypeOK
  <2>3. \A u \in Waiter : \A g \in grants[u] : g.id \in Nat /\ g.fence \in Nat
    BY DEF IInv, TypeOK, Grant
  <2> QED BY <2>1, <2>2, <2>3 DEF IInv, GrantIds
<1>4. StatusSound' /\ QueuedClean' /\ OpenCallGuarded' /\ OpenSelected'
        /\ RemoteKept' /\ FencesOrdered'
  BY DEF IInv, StatusSound, QueuedClean, OpenCallGuarded, OpenSelected, RemoteKept, HandleKept, FencesOrdered
<1>5. AtClaim' /\ Carries' /\ EgressUnderConsent' /\ NoStrandedWaiter'
  BY DEF IInv, AtClaim, Claimed, Carries, EgressUnderConsent, InEgress, NoStrandedWaiter, WaitingIn
<1> QED BY <1>2, <1>3, <1>4, <1>5 DEF IInv

\* Consent is revoked once the egress fence is free, or a grant expires.
LEMMA RevokeOK ==
    ASSUME IInv, NEW v \in Waiter, RevokeConsent(v) \/ GrantExpires(v)
    PROVE  IInv'
<1> USE DEF RevokeConsent, GrantExpires, results
<1>1. TypeOK'
  BY DEF IInv, TypeOK
<1>g. GrantIds'
  <2>1. \A u \in Waiter : /\ fence[u] \in Nat /\ fence'[u] \in Nat /\ fence[u] <= fence'[u]
                          /\ issued'[u] = issued[u] /\ grants'[u] \subseteq grants[u]
    BY DEF IInv, TypeOK
  <2>2. \A u \in Waiter : \A g \in grants[u] : g.id \in Nat /\ g.fence \in Nat
    BY DEF IInv, TypeOK, Grant
  <2> QED BY <2>1, <2>2 DEF IInv, GrantIds
<1>2. StatusSound' /\ QueuedClean' /\ OpenCallGuarded' /\ OpenSelected'
        /\ RemoteKept' /\ FencesOrdered'
  BY DEF IInv, StatusSound, QueuedClean, OpenCallGuarded, OpenSelected, RemoteKept, HandleKept, FencesOrdered
<1>3. AtClaim' /\ Carries' /\ NoStrandedWaiter'
  BY DEF IInv, AtClaim, Claimed, Carries, NoStrandedWaiter, WaitingIn
<1>4. EgressUnderConsent'
  BY DEF IInv, EgressUnderConsent, EgressIdle, InEgress
<1> QED BY <1>1, <1>g, <1>2, <1>3, <1>4 DEF IInv

\* Garbage collection touches no row of the job.
LEMMA CollectOK ==
    ASSUME IInv, CollectBuild \/ CollectGeneration
    PROVE  IInv'
<1> USE DEF CollectBuild, CollectGeneration, authority
<1>1. TypeOK' /\ GrantIds'
  BY DEF IInv, TypeOK, GrantIds
<1>2. StatusSound' /\ QueuedClean' /\ OpenCallGuarded' /\ OpenSelected'
        /\ RemoteKept' /\ FencesOrdered'
  BY DEF IInv, StatusSound, QueuedClean, OpenCallGuarded, OpenSelected, RemoteKept, HandleKept, FencesOrdered
<1>3. AtClaim' /\ Carries' /\ EgressUnderConsent' /\ NoStrandedWaiter'
  BY DEF IInv, AtClaim, Claimed, Carries, EgressUnderConsent, InEgress, NoStrandedWaiter, WaitingIn
<1> QED BY <1>1, <1>2, <1>3 DEF IInv

\* The provider is begun under an authority that stands now, or the waiter
\* is turned away.
LEMMA BeginOK ==
    ASSUME IInv, NEW k \in Worker, BeginRenditionProvider(k)
    PROVE  IInv'
<1> USE DEF results, authority
<1> DEFINE v == wk[k].waiter
           rejected == [waiter EXCEPT ![v] = "rejected"]
           next == selected(rejected)
<1>a. /\ wk[k].pc = "prepare" /\ Claimed(k) /\ UNCHANGED <<results, authority>>
  BY DEF BeginRenditionProvider
<1>b. /\ remote # "open" /\ job.state = "running" /\ wk[k].handle = job.resume
      /\ job.phase \in {"queued", "provider"} /\ v \in Waiter
      /\ job.resume => remote = "handle"
  BY <1>a DEF IInv, AtClaim, Claimed, Carries, TypeOK, WorkerRow, QueuedClean, RemoteKept, HandleKept
<1>j. job \in JobRow /\ RowSound(job) /\ wk[k] \in WorkerRow
  BY DEF IInv, TypeOK, StatusSound, QueuedClean, RowSound
<1> HIDE DEF v
<1>c. ASSUME NEW verdict \in {"consent", "stale_authority"}, Conclude(k, verdict),
             waiter' \in [Waiter -> Told],
             \A u \in Waiter : waiter[u] # "none" => waiter'[u] # "none",
             UNCHANGED <<job, remote>>
      PROVE  IInv'
  <2>1. /\ wk' \in [Worker -> WorkerRow]
        /\ wk'[k].pc = "mark" /\ wk'[k].verdict = verdict /\ wk'[k].epoch = wk[k].epoch
        /\ \A o \in Worker \ {k} : wk'[o] = wk[o]
    BY <1>c, ConcludeOK DEF IInv, Verdict
  <2>2. TypeOK' /\ GrantIds' /\ QueuedClean' /\ OpenCallGuarded' /\ OpenSelected'
        /\ RemoteKept'
    BY <1>a, <1>b, <1>c, <2>1 DEF IInv, TypeOK, GrantIds, QueuedClean, OpenCallGuarded,
        OpenSelected, RemoteKept, HandleKept
  <2>3. StatusSound'
    BY <1>c, <1>j DEF IInv, StatusSound, JobRow
  <2>4. AtClaim' /\ Carries' /\ EgressUnderConsent'
    BY <1>a, <1>b, <1>c, <2>1 DEF IInv, AtClaim, Claimed, Carries, EgressUnderConsent, InEgress
  <2>5. FencesOrdered' /\ NoStrandedWaiter'
    BY <1>a, <1>b, <1>c DEF IInv, FencesOrdered, NoStrandedWaiter
  <2> QED BY <2>2, <2>3, <2>4, <2>5 DEF IInv
<1>d. CASE waiter[v] # "waiting"
  BY <1>c, <1>d DEF BeginRenditionProvider, v, IInv, TypeOK
<1>e. CASE waiter[v] = "waiting" /\ MayBegin(v)
  <2>1. /\ job' = [job EXCEPT !.phase = "provider", !.started = TRUE, !.snapshot = TRUE,
                              !.selected = v, !.auth = IF @ = None THEN Newest(v) ELSE @]
        /\ wk' = [wk EXCEPT ![k].pc = "egress", ![k].auth = job'.auth]
        /\ remote' = IF wk[k].handle THEN remote ELSE "open"
        /\ UNCHANGED waiter
    BY <1>e DEF BeginRenditionProvider, v
  <2>2. /\ job'.auth \in Grant /\ job'.auth # None /\ job'.auth.fence = fence[v]
    <3>1. None \notin Grant
      BY NoneAssumption DEF Grant
    <3>2. CASE job.auth = None
      BY <1>b, <1>e, <1>j, <2>1, <3>1, <3>2, NewestIn DEF MayBegin, Standing, JobRow, IInv
    <3>3. CASE job.auth # None
      BY <1>b, <1>e, <1>j, <2>1, <3>1, <3>3 DEF MayBegin, PriorStands, Standing, JobRow
    <3> QED BY <3>2, <3>3
  <2>3. /\ job' \in JobRow /\ RowSound(job')
        /\ job'.state = "running" /\ job'.phase = "provider" /\ job'.started
        /\ job'.resume = job.resume /\ job'.owner = job.owner /\ job'.epoch = job.epoch
        /\ job'.selected = v
    BY <1>b, <1>j, <2>1, <2>2, NoneAssumption DEF JobRow, RowSound, Phase
  <2>4. /\ wk' \in [Worker -> WorkerRow]
        /\ wk'[k].pc = "egress" /\ wk'[k].epoch = wk[k].epoch /\ wk'[k].handle = wk[k].handle
        /\ wk'[k].waiter = v /\ wk'[k].auth = job'.auth
        /\ \A o \in Worker \ {k} : wk'[o] = wk[o]
    <3>1. [wk[k] EXCEPT !.pc = "egress", !.auth = job'.auth] \in WorkerRow
      BY <1>j, <2>2 DEF WorkerRow
    <3>2. PICK g : g = job'.auth /\ wk' = [wk EXCEPT ![k].pc = "egress", ![k].auth = g]
      BY <2>1
    <3> QED BY <3>1, <3>2 DEF IInv, TypeOK, WorkerRow, v
  <2>5. TypeOK' /\ GrantIds' /\ QueuedClean' /\ OpenCallGuarded' /\ OpenSelected'
        /\ RemoteKept'
    BY <1>a, <1>b, <2>1, <2>3, <2>4, NoneAssumption DEF IInv, TypeOK, GrantIds, QueuedClean,
        OpenCallGuarded, OpenSelected, RemoteKept, HandleKept
  <2>6. StatusSound'
    BY <1>e, <2>1, <2>3 DEF StatusSound, RowSound
  <2>7. AtClaim' /\ Carries' /\ EgressUnderConsent'
    BY <1>a, <1>b, <2>1, <2>2, <2>3, <2>4, NoneAssumption DEF IInv, AtClaim, Claimed, Carries,
        EgressUnderConsent, InEgress
  <2>8. FencesOrdered' /\ NoStrandedWaiter'
    BY <1>a, <2>1, <2>3 DEF IInv, FencesOrdered, NoStrandedWaiter, WaitingIn
  <2> QED BY <2>5, <2>6, <2>7, <2>8 DEF IInv
<1>f. CASE waiter[v] = "waiting" /\ ~MayBegin(v)
  <2>1. /\ rejected \in [Waiter -> Told]
        /\ \A u \in Waiter : rejected[u] = "none" => waiter[u] = "none"
    BY <1>b DEF IInv, TypeOK, Told
  <2>2. SealFits(k) /\ waiter' = passedOver(rejected) /\ UNCHANGED remote
    BY <1>f DEF BeginRenditionProvider, v
  <2>3. /\ waiter' \in [Waiter -> Told]
        /\ \A u \in Waiter : waiter[u] # "none" => waiter'[u] # "none"
    BY <2>1, <2>2, PassedOverOK DEF IInv
  <2>4. CASE next = None /\ Conclude(k, "consent") /\ UNCHANGED job
    BY <1>c, <2>2, <2>3, <2>4
  <2>5. CASE /\ next # None /\ job.epoch < MaxEpoch
             /\ job' = Select(Release([job EXCEPT !.state = "queued", !.epoch = @ + 1,
                                                  !.failure = None]), next)
             /\ wk' = [wk EXCEPT ![k] = Idle]
    <3> DEFINE j == Release([job EXCEPT !.state = "queued", !.epoch = @ + 1, !.failure = None])
    <3>0. job.epoch + 1 \in 0..MaxEpoch
      BY <1>j, <2>5, BoundAssumption DEF JobRow
    <3>a. job.phase = "provider" => job.resume
      BY <1>b, <1>j, <2>2 DEF RowSound, SealFits
    <3>1. /\ j \in JobRow /\ RowSound(j) /\ j.state = "queued" /\ j.epoch = job.epoch + 1
          /\ j.phase = job.phase /\ j.resume = job.resume /\ j.owner = None
      BY <1>b, <1>j, <3>0, <3>a DEF Release, JobRow, RowSound, State, Failure
    <3>2. next \in Waiter /\ Authorized(next) /\ waiter'[next] = "waiting"
      BY <2>1, <2>2, <2>5, SelectedOK, PassedOverOK DEF IInv
    <3> HIDE DEF j, next
    <3>3. /\ job' \in JobRow /\ job'.selected = next /\ (job'.auth # None <=> next # None)
          /\ job' = [j EXCEPT !.selected = next, !.auth = job'.auth]
      <4>1. job' = Select(j, next)
        BY <2>5 DEF j
      <4> QED BY ZenonT(60), <3>1, <3>2, <4>1, SelectOK DEF IInv
    <3>4. /\ RowSound(job') /\ job'.state = "queued" /\ job'.epoch = job.epoch + 1
          /\ job'.phase = job.phase /\ job'.resume = job.resume
      BY <3>1, <3>3 DEF JobRow, RowSound
    <3>5. /\ wk' \in [Worker -> WorkerRow]
          /\ wk'[k].pc = "idle" /\ wk'[k].epoch = 0
          /\ \A o \in Worker \ {k} : wk'[o] = wk[o]
      BY <2>5, IdleOK DEF IInv
    <3>6. TypeOK' /\ GrantIds' /\ QueuedClean' /\ OpenCallGuarded' /\ OpenSelected'
        /\ RemoteKept'
      BY <1>a, <1>b, <2>2, <2>3, <3>3, <3>4, <3>5 DEF IInv, TypeOK, GrantIds, QueuedClean,
          OpenCallGuarded, OpenSelected, RemoteKept, HandleKept, StagedPhase, RowSound
    <3>7. StatusSound'
      BY <3>2, <3>3, <3>4 DEF StatusSound, RowSound
    <3>8. AtClaim' /\ Carries' /\ EgressUnderConsent'
      BY <1>a, <3>4, <3>5 DEF IInv, AtClaim, Claimed, Carries, EgressUnderConsent, InEgress
    <3>9. FencesOrdered' /\ NoStrandedWaiter'
      BY <1>a, <1>j, <3>4 DEF IInv, TypeOK, JobRow, RootRow, FencesOrdered, NoStrandedWaiter
    <3> QED BY <3>6, <3>7, <3>8, <3>9 DEF IInv
  <2> QED BY <1>f, <2>4, <2>5 DEF BeginRenditionProvider, v
<1> QED BY <1>d, <1>e, <1>f

\* EnqueueRenditionJob leaves a row alone that is being worked on or waits
\* for an operator, and reopens only failures that were about authority.
LEMMA ReopenedOK ==
    ASSUME IInv
    PROVE  /\ reopened \in JobRow /\ RowSound(reopened)
           /\ reopened.selected \in {None, job.selected}
           /\ \A t \in {"build", "generation"} : root[t].token <= reopened.epoch
           /\ HandleKept(reopened, remote) /\ (remote = "handle" => reopened.resume = job.resume)
           /\ job.state \in {"running", "operator_required"} => reopened = job
           /\ reopened.state = "running" => reopened = job
           /\ reopened.state = "completed" => job.state = "completed"
<1> DEFINE newest(a, b) == IF a < b THEN b ELSE a
           top == newest(root["build"].token, root["generation"].token)
           base == IF job.state = "absent" THEN NewJob ELSE job
           j == [base EXCEPT !.epoch = newest(@, top)]
           authorityFailure == j.state = "failed" /\ j.failure \in {"consent", "stale_authority"}
           queued == Select(Release([j EXCEPT !.state = "queued", !.failure = None]), None)
<1>1. job \in JobRow /\ RowSound(job) /\ HandleKept(job, remote)
  BY DEF IInv, TypeOK, StatusSound, QueuedClean, RemoteKept, RowSound
<1>2. /\ base \in JobRow /\ RowSound(base) /\ HandleKept(base, remote) /\ base.selected \in {None, job.selected}
      /\ job.state # "absent" => base = job
      /\ base.resume = job.resume
      /\ base.state # "absent" /\ (job.state = "absent" => base.state = "queued")
  <2>1. CASE job.state = "absent"
    <3>1. /\ NewJob \in JobRow /\ NewJob.state = "queued" /\ NewJob.resume = FALSE
          /\ NewJob.phase = "queued" /\ NewJob.selected = None
      BY BoundAssumption DEF NewJob, JobRow, State, Phase, Failure
    <3>2. RowSound(NewJob) /\ HandleKept(NewJob, remote)
      BY DEF NewJob, RowSound, HandleKept, StagedPhase
    <3>3. job.resume = FALSE
      BY <1>1, <2>1 DEF JobRow, RowSound
    <3> QED BY <2>1, <3>1, <3>2, <3>3
  <2>2. CASE job.state # "absent"
    BY <1>1, <2>2
  <2> QED BY <2>1, <2>2
<1>3. /\ top \in 0..MaxEpoch
      /\ \A t \in {"build", "generation"} : root[t].token <= top
  BY DEF IInv, TypeOK, RootRow
<1>4. job.state # "absent" => top <= job.epoch
  BY DEF IInv, TypeOK, RootRow, FencesOrdered
<1> HIDE DEF base, top
<1>5. newest(base.epoch, top) \in 0..MaxEpoch /\ top <= newest(base.epoch, top)
  BY <1>2, <1>3 DEF JobRow
<1>t. \A t \in {"build", "generation"} : root[t].token <= newest(base.epoch, top)
  BY <1>2, <1>3, <1>5 DEF IInv, TypeOK, RootRow, JobRow
<1>6. job.state # "absent" => newest(base.epoch, top) = base.epoch
  BY <1>1, <1>2, <1>3, <1>4 DEF JobRow
<1> HIDE DEF newest
<1>7. /\ j \in JobRow /\ RowSound(j) /\ HandleKept(j, remote) /\ j.selected = base.selected /\ j.state = base.state
      /\ j.epoch = newest(base.epoch, top) /\ j.resume = job.resume
      /\ job.state # "absent" => j = job
  BY <1>2, <1>5, <1>6 DEF JobRow, RowSound, HandleKept
<1>8. reopened = IF authorityFailure /\ j.phase \in {"queued"} \cup StagedPhase
                 THEN [queued EXCEPT !.started = FALSE, !.resume = FALSE]
                 ELSE IF authorityFailure /\ j.phase = "provider" /\ j.resume /\ j.snapshot
                 THEN queued
                 ELSE j
  BY DEF reopened, j, queued, authorityFailure, base, top, newest
<1> HIDE DEF j
<1>9. CASE authorityFailure /\ j.phase \in {"queued"} \cup StagedPhase
  <2>1. /\ reopened \in JobRow /\ RowSound(reopened) /\ reopened.state = "queued"
        /\ reopened.epoch = j.epoch /\ reopened.selected = None /\ HandleKept(reopened, remote)
        /\ remote = "handle" => reopened.resume = j.resume
    BY <1>7, <1>8, <1>9 DEF Select, Release, JobRow, RowSound, State, Failure, StagedPhase,
        HandleKept
  <2> QED BY <1>2, <1>7, <1>t, <1>9, <2>1
<1>10. CASE authorityFailure /\ j.phase = "provider" /\ j.resume /\ j.snapshot
  <2>1. /\ reopened \in JobRow /\ RowSound(reopened) /\ reopened.state = "queued"
        /\ reopened.epoch = j.epoch /\ reopened.selected = None /\ HandleKept(reopened, remote)
        /\ remote = "handle" => reopened.resume = j.resume
    BY <1>7, <1>8, <1>10 DEF Select, Release, JobRow, RowSound, State, Failure, StagedPhase,
        HandleKept
  <2> QED BY <1>2, <1>7, <1>t, <1>10, <2>1
<1>11. CASE reopened = j
  BY <1>2, <1>7, <1>t, <1>11
<1> QED BY <1>8, <1>9, <1>10, <1>11

\* A waiter joins.
LEMMA EnqueueOK ==
    ASSUME IInv, NEW v \in Waiter, EnqueueRenditionJob(v)
    PROVE  IInv'
<1> USE DEF authority
<1>a. /\ reopened \in JobRow /\ RowSound(reopened)
      /\ reopened.selected \in {None, job.selected}
      /\ \A t \in {"build", "generation"} : root[t].token <= reopened.epoch
      /\ HandleKept(reopened, remote)
      /\ job.state \in {"running", "operator_required"} => reopened = job
      /\ reopened.state = "running" => reopened = job
      /\ reopened.state = "completed" => job.state = "completed"
  BY ReopenedOK
<1>b. /\ reopened.state # "operator_required" /\ job'.epoch <= MaxEpoch
      /\ UNCHANGED <<build, generation, fence, grants, issued, wk, remote>>
  BY DEF EnqueueRenditionJob
<1>c. remote = "open" => reopened = job /\ job.state = "running"
  BY <1>a, <1>b DEF IInv, OpenCallGuarded
<1>d. job \in JobRow /\ RowSound(job) /\ waiter \in [Waiter -> Told]
  BY DEF IInv, TypeOK, StatusSound, QueuedClean, RowSound
<1>e. ASSUME job' \in JobRow, RowSound(job'), HandleKept(job', remote), waiter' \in [Waiter -> Told],
             root' \in [{"build", "generation"} -> RootRow],
             job'.state = "running" => job' = job,
             job.state = "running" => job' = job,
             job'.selected # None => job'.selected = job.selected,
             \A u \in Waiter : waiter[u] # "none" => waiter'[u] # "none",
             \A t \in {"build", "generation"} : root'[t].token <= job'.epoch,
             NoStrandedWaiter'
      PROVE  IInv'
  <2>1. TypeOK' /\ GrantIds' /\ QueuedClean' /\ RemoteKept'
    BY <1>b, <1>e DEF IInv, TypeOK, GrantIds, QueuedClean, RowSound, RemoteKept
  <2>2. StatusSound'
    BY <1>d, <1>e DEF IInv, StatusSound, RowSound, JobRow
  <2>3. OpenCallGuarded' /\ OpenSelected'
    BY <1>b, <1>c, <1>e DEF IInv, OpenCallGuarded, OpenSelected
  <2>4. AtClaim' /\ Carries' /\ EgressUnderConsent'
    BY <1>b, <1>e DEF IInv, AtClaim, Claimed, Carries, EgressUnderConsent, InEgress
  <2>5. FencesOrdered'
    BY <1>e DEF FencesOrdered
  <2> QED BY <1>e, <2>1, <2>2, <2>3, <2>4, <2>5 DEF IInv
<1>f. CASE waiter[v] = "published"
  <2>1. job' = reopened /\ UNCHANGED <<waiter, root>>
    BY <1>f DEF EnqueueRenditionJob
  <2>2. NoStrandedWaiter'
    BY <1>a, <2>1 DEF IInv, NoStrandedWaiter, WaitingIn
  <2> QED BY <1>a, <1>d, <1>e, <2>1, <2>2 DEF IInv, TypeOK
<1>g. CASE waiter[v] # "published"
  <2>1. /\ job' = joined(reopened) /\ waiter' = [waiter EXCEPT ![v] = "waiting"]
        /\ root' = IF build /\ reopened.state \in {"queued", "completed"}
                   THEN [root EXCEPT !["build"] = [token |-> reopened.epoch + 1, active |-> TRUE]]
                   ELSE root
    BY <1>g DEF EnqueueRenditionJob
  <2>2. /\ waiter' \in [Waiter -> Told]
        /\ \A u \in Waiter : waiter[u] # "none" => waiter'[u] # "none"
    BY <1>d, <2>1 DEF Told
  <2> DEFINE again == Select(Release([reopened EXCEPT !.state = "queued", !.epoch = @ + 1,
                                          !.started = FALSE, !.resume = FALSE, !.named = FALSE,
                                          !.failure = None]), None)
  <2>3. CASE reopened.state \in {"queued", "completed"} /\ (build \/ reopened.state = "completed")
    <3>1. \/ job' = [again EXCEPT !.phase = "build_staged"]
          \/ job' = [again EXCEPT !.phase = "queued"]
      BY <2>1, <2>3 DEF joined, IInv, TypeOK
    <3>2. job'.epoch = reopened.epoch + 1 /\ job'.state = "queued" /\ job'.selected = None
      BY <1>a, <3>1 DEF Select, Release, JobRow
    <3>3. reopened.epoch + 1 \in 0..MaxEpoch
      BY <1>a, <1>b, <3>2, BoundAssumption DEF JobRow
    <3>4. job' \in JobRow /\ RowSound(job') /\ HandleKept(job', remote)
      <4>1. /\ again \in JobRow /\ again.state = "queued" /\ again.owner = None
            /\ ~again.started /\ ~again.resume /\ again.selected = None /\ again.auth = None
        BY <1>a, <3>3 DEF Select, Release, JobRow, State, Failure
      <4> HIDE DEF again
      <4>2. CASE job' = [again EXCEPT !.phase = "build_staged"]
        BY <4>1, <4>2 DEF JobRow, RowSound, HandleKept, Phase
      <4>3. CASE job' = [again EXCEPT !.phase = "queued"]
        BY <4>1, <4>3 DEF JobRow, RowSound, HandleKept, Phase
      <4> QED BY <3>1, <4>2, <4>3
    <3>5. [token |-> reopened.epoch + 1, active |-> TRUE] \in RootRow
      BY <3>3 DEF RootRow
    <3>6. /\ root' \in [{"build", "generation"} -> RootRow]
          /\ \A t \in {"build", "generation"} :
                root'[t].token \in {root[t].token, reopened.epoch + 1}
      BY <2>1, <3>5 DEF IInv, TypeOK
    <3>7. \A t \in {"build", "generation"} : root'[t].token <= job'.epoch
      BY <1>a, <3>2, <3>6 DEF IInv, TypeOK, RootRow, JobRow
    <3>8. job.state # "running" /\ NoStrandedWaiter'
      BY <1>a, <2>3, <3>2 DEF NoStrandedWaiter
    <3> QED BY <1>e, <2>2, <3>2, <3>4, <3>6, <3>7, <3>8
  <2>4. CASE ~(reopened.state \in {"queued", "completed"} /\ (build \/ reopened.state = "completed"))
    <3>1. job' = reopened /\ root' = root
      BY <2>1, <2>4 DEF joined
    <3>2. NoStrandedWaiter'
      BY <2>4, <3>1 DEF NoStrandedWaiter
    <3> QED BY <1>a, <1>e, <2>2, <3>1, <3>2 DEF IInv, TypeOK
  <2> QED BY <2>3, <2>4
<1> QED BY <1>f, <1>g

\* What the deletion of its selected waiter makes of a row: it is set aside
\* when its call has no known end, and requeued only when nothing is lost.
LEMMA ReconciledOK ==
    ASSUME IInv, NEW w \in [Waiter -> Told], job.state # "absent",
           reconciled(w).epoch <= MaxEpoch
    PROVE  LET j == reconciled(w)
               reselects == job.state = "running" /\ job.phase = "provider" /\ job.started
           IN  /\ j \in JobRow /\ RowSound(j) /\ HandleKept(j, remote)
               /\ j.selected # None =>
                     /\ reselects /\ j.selected = selected(w) /\ WaitingIn(w) # {}
               /\ j.state = "running" =>
                     /\ j.selected # None /\ job.state = "running" /\ j.owner = job.owner
                     /\ j.epoch = job.epoch /\ j.phase = job.phase /\ j.resume = job.resume
               /\ remote = "open" =>
                     /\ j.state \in {"running", "operator_required"}
                     /\ j.phase = job.phase /\ j.started = job.started /\ j.resume = job.resume
               /\ remote = "handle" => j.resume = job.resume
               /\ j.epoch \in {job.epoch, job.epoch + 1}
               /\ j.state = "completed" => job.state = "completed"
<1> DEFINE unsafeFailure ==
               /\ job.state = "failed"
               /\ \/ job.failure \notin {"consent", "stale_authority"}
                  \/ /\ job.phase \notin {"queued"} \cup StagedPhase
                     /\ ~(job.phase = "provider" /\ job.resume /\ job.snapshot)
           inProvider == job.phase = "provider" /\ job.started
           tombstone == Select(Release([job EXCEPT !.state = "operator_required",
                                                   !.failure = "ambiguous"]), None)
           ended == Reset(Release([job EXCEPT !.state = "failed", !.failure = "stale_authority"]))
           requeued == Select(Release([job EXCEPT !.state = "queued", !.epoch = @ + 1,
                                                  !.failure = None]), None)
           j == reconciled(w)
<1>1. job \in JobRow /\ RowSound(job) /\ HandleKept(job, remote)
  BY DEF IInv, TypeOK, StatusSound, QueuedClean, RemoteKept, RowSound
<1>2. remote = "open" => /\ job.state \in {"running", "operator_required"}
                         /\ inProvider
  BY DEF IInv, OpenCallGuarded
<1>3. j = IF job.state \in {"completed", "operator_required"} \/ unsafeFailure
          THEN Select(job, None)
          ELSE IF WaitingIn(w) = {}
          THEN IF inProvider THEN tombstone ELSE ended
          ELSE IF job.state = "running" /\ inProvider
          THEN IF selected(w) = None THEN tombstone ELSE Select(job, selected(w))
          ELSE requeued
  BY DEF reconciled
<1>4. CASE /\ job.state \in {"completed", "operator_required"} \/ unsafeFailure
           /\ j = Select(job, None)
  BY <1>1, <1>2, <1>4 DEF Select, JobRow, RowSound, HandleKept
<1>5. CASE /\ inProvider /\ j = tombstone /\ ~unsafeFailure
           /\ job.state \notin {"completed", "operator_required"}
  <2>1. /\ j.state = "operator_required" /\ j.owner = None /\ j.selected = None /\ j.auth = None
        /\ j.phase = job.phase /\ j.started = job.started /\ j.resume = job.resume
        /\ j.epoch = job.epoch /\ j.snapshot = job.snapshot /\ j \in JobRow
        /\ j.phase \notin StagedPhase
    BY <1>1, <1>5 DEF Select, Release, JobRow, State, Failure, StagedPhase
  <2> QED BY <1>1, <1>2, <1>5, <2>1 DEF RowSound, HandleKept
<1>6. CASE ~inProvider /\ j = ended /\ job.state \notin {"completed", "operator_required"}
  BY <1>1, <1>2, <1>6 DEF Reset, Select, Release, JobRow, RowSound, HandleKept, StagedPhase,
     State, Phase, Failure
<1>7. CASE /\ job.state = "running" /\ inProvider /\ WaitingIn(w) # {}
           /\ selected(w) # None /\ j = Select(job, selected(w))
  <2>1. selected(w) \in Waiter /\ Authorized(selected(w))
    BY <1>7, SelectedOK DEF IInv
  <2> DEFINE s == Select(job, selected(w))
  <2>a. /\ s \in JobRow /\ s.selected = selected(w) /\ (s.auth # None <=> selected(w) # None)
        /\ s = [job EXCEPT !.selected = selected(w), !.auth = s.auth]
    BY <1>1, <2>1, SelectOK DEF IInv
  <2>2. /\ j \in JobRow /\ j.selected = selected(w) /\ (j.auth # None <=> selected(w) # None)
        /\ j = [job EXCEPT !.selected = selected(w), !.auth = j.auth]
    BY <1>7, <2>a
  <2> QED BY <1>1, <1>7, <2>2 DEF JobRow, RowSound, HandleKept
<1>8. CASE /\ j = requeued /\ job.state \notin {"completed", "operator_required"}
           /\ ~unsafeFailure /\ ~(job.state = "running" /\ inProvider)
  <2>1. job.phase = "provider" => job.resume
    BY <1>1, <1>8 DEF JobRow, State, RowSound, HandleKept, StagedPhase
  <2>2. job.epoch + 1 \in 0..MaxEpoch
    <3>1. j.epoch = job.epoch + 1
      BY <1>1, <1>8 DEF Select, Release, JobRow
    <3> QED BY <1>1, <3>1, BoundAssumption DEF JobRow
  <2>3. j \in JobRow /\ RowSound(j) /\ HandleKept(j, remote)
    BY ZenonT(60), <1>1, <1>8, <2>1, <2>2 DEF Select, Release, JobRow, RowSound, HandleKept,
       State, Failure
  <2> QED BY <1>1, <1>2, <1>8, <2>3 DEF Select, Release, JobRow
<1> QED BY <1>3, <1>4, <1>5, <1>6, <1>7, <1>8

\* Versions are deleted, and with them their waiters.
LEMMA DeleteOK ==
    ASSUME IInv, NEW S \in SUBSET Waiter, DeleteVersions(S)
    PROVE  IInv'
<1> USE DEF authority
<1> DEFINE left == [v \in Waiter |-> IF v \in S THEN "none" ELSE waiter[v]]
           lost == job.state # "absent" /\ job.selected \in S
           j == IF lost THEN reconciled(left) ELSE job
           requeued == lost /\ j.epoch > job.epoch
           reselects == lost /\ job.state = "running" /\ job.phase = "provider" /\ job.started
           kept == IF requeued THEN refreshedRoots(job, j.epoch) ELSE root
<1>1. /\ requeued => j.epoch <= MaxEpoch
      /\ waiter' = IF reselects THEN passedOver(left) ELSE left
      /\ root' = IF WaitingIn(waiter') # {} THEN kept
                 ELSE IF j.state = "operator_required"
                 THEN [t \in DOMAIN root |-> [root[t] EXCEPT !.active = FALSE]]
                 ELSE [t \in DOMAIN root |-> NoRoot]
      /\ job' = IF (\A v \in Waiter : waiter'[v] = "none") /\ j.state # "operator_required"
                THEN NoJob ELSE j
      /\ UNCHANGED <<build, generation, fence, grants, issued, wk, remote>>
  BY DEF DeleteVersions
<1>2. /\ job \in JobRow /\ RowSound(job) /\ HandleKept(job, remote) /\ waiter \in [Waiter -> Told]
      /\ job.selected # None => waiter[job.selected] # "none"
  BY DEF IInv, TypeOK, StatusSound, QueuedClean, RemoteKept, RowSound
<1>3. left \in [Waiter -> Told]
  BY <1>2 DEF Told
<1> HIDE DEF left
<1>4. /\ waiter' \in [Waiter -> Told]
      /\ \A v \in Waiter : /\ waiter'[v] = "none" <=> left[v] = "none"
                           /\ waiter'[v] = "waiting" => left[v] = "waiting"
      /\ reselects /\ selected(left) # None => waiter'[selected(left)] = "waiting"
  BY <1>1, <1>3, PassedOverOK DEF IInv
<1>5. /\ j \in JobRow /\ RowSound(j) /\ HandleKept(j, remote)
      /\ j.selected # None => j.selected \in Waiter /\ waiter'[j.selected] # "none"
      /\ j.state = "running" =>
            /\ job.state = "running" /\ j.owner = job.owner /\ j.epoch = job.epoch
            /\ j.phase = job.phase /\ j.resume = job.resume
      /\ remote = "open" =>
            /\ j.state \in {"running", "operator_required"}
            /\ j.phase = "provider" /\ j.started /\ ~j.resume
            /\ j.state = "running" => j.selected # None
      /\ job.epoch <= j.epoch
      /\ j.state = "completed" => job.state = "completed"
  <2>1. CASE lost
    <3>1. j = reconciled(left) /\ job.selected \in Waiter
      BY <2>1
    <3>2. reconciled(left).epoch \in Nat /\ reconciled(left).epoch <= MaxEpoch
      <4>1. reconciled(left).epoch \in {job.epoch, job.epoch + 1}
        BY <1>2 DEF reconciled, Select, Release, Reset, JobRow
      <4> QED BY <1>1, <1>2, <2>1, <3>1, <4>1, BoundAssumption DEF JobRow
    <3>3. selected(left) # None => selected(left) \in Waiter
      BY <1>3, SelectedOK DEF IInv
    <3> HIDE DEF j
    <3>4. /\ j \in JobRow /\ RowSound(j) /\ HandleKept(j, remote)
          /\ j.selected # None =>
                /\ job.state = "running" /\ job.phase = "provider" /\ job.started
                /\ j.selected = selected(left)
          /\ j.state = "running" =>
                /\ j.selected # None /\ job.state = "running" /\ j.owner = job.owner
                /\ j.epoch = job.epoch /\ j.phase = job.phase /\ j.resume = job.resume
          /\ remote = "open" =>
                /\ j.state \in {"running", "operator_required"}
                /\ j.phase = job.phase /\ j.started = job.started /\ j.resume = job.resume
          /\ j.epoch \in {job.epoch, job.epoch + 1}
          /\ j.state = "completed" => job.state = "completed"
      BY <1>3, <2>1, <3>1, <3>2, ReconciledOK
    <3>5. job.epoch <= j.epoch
      BY <1>2, <3>4 DEF JobRow
    <3>6. remote = "open" => job.phase = "provider" /\ job.started /\ ~job.resume
      BY DEF IInv, OpenCallGuarded
    <3>7. j.selected # None => j.selected \in Waiter /\ waiter'[j.selected] # "none"
      BY <1>4, <2>1, <3>3, <3>4
    <3> QED BY <3>4, <3>5, <3>6, <3>7
  <2>2. CASE ~lost
    <3>1. j = job
      BY <2>2
    <3>2. job.state = "absent" => job.selected = None
      BY DEF IInv, QueuedClean
    <3>3. job.selected # None => job.selected \in Waiter /\ waiter'[job.selected] # "none"
      BY <1>2, <1>4, <2>2, <3>2 DEF left, JobRow
    <3> QED BY <1>2, <3>1, <3>3 DEF IInv, OpenCallGuarded, OpenSelected, JobRow
  <2> QED BY <2>1, <2>2
<1>6. \A t \in {"build", "generation"} : root[t].token <= j.epoch
  BY <1>2, <1>5 DEF IInv, TypeOK, FencesOrdered, RootRow, JobRow
<1>7. /\ kept \in [{"build", "generation"} -> RootRow]
      /\ \A t \in {"build", "generation"} : kept[t].token <= j.epoch
  <2> HIDE DEF j
  <2>1. CASE requeued
    <3>1. j.epoch \in 0..MaxEpoch /\ kept = refreshedRoots(job, j.epoch)
      BY <1>5, <2>1 DEF JobRow
    <3>2. /\ kept \in [{"build", "generation"} -> RootRow]
          /\ \A t \in {"build", "generation"} : kept[t].token \in {root[t].token, j.epoch}
      BY <1>2, <3>1, RefreshedOK DEF IInv
    <3> QED BY <1>6, <3>1, <3>2
  <2>2. CASE ~requeued
    BY <1>6, <2>2 DEF IInv, TypeOK
  <2> QED BY <2>1, <2>2
<1>8. NoRoot \in RootRow /\ NoRoot.token = 0
  BY BoundAssumption DEF NoRoot, RootRow
<1>9. /\ root' \in [{"build", "generation"} -> RootRow]
      /\ \A t \in {"build", "generation"} : root'[t].token <= j.epoch
      /\ WaitingIn(waiter') = {} /\ j.state # "operator_required" =>
             \A t \in {"build", "generation"} : root'[t].token = 0
  <2> HIDE DEF j, kept
  <2>1. CASE WaitingIn(waiter') # {}
    BY <1>1, <1>7, <2>1
  <2>2. CASE WaitingIn(waiter') = {} /\ j.state = "operator_required"
    <3>1. root' = [t \in {"build", "generation"} |-> [root[t] EXCEPT !.active = FALSE]]
      BY <1>1, <2>2 DEF IInv, TypeOK
    <3>2. \A t \in {"build", "generation"} :
             /\ [root[t] EXCEPT !.active = FALSE] \in RootRow
             /\ [root[t] EXCEPT !.active = FALSE].token = root[t].token
      BY DEF IInv, TypeOK, RootRow
    <3> QED BY <1>6, <2>2, <3>1, <3>2
  <2>3. CASE WaitingIn(waiter') = {} /\ j.state # "operator_required"
    <3>1. root' = [t \in {"build", "generation"} |-> NoRoot]
      BY <1>1, <2>3 DEF IInv, TypeOK
    <3> QED BY <1>5, <1>8, <3>1 DEF JobRow
  <2> QED BY <2>1, <2>2, <2>3
<1>10. CASE (\A v \in Waiter : waiter'[v] = "none") /\ j.state # "operator_required"
  <2>1. job' = NoJob /\ WaitingIn(waiter') = {}
    BY <1>1, <1>10 DEF WaitingIn
  <2>2. /\ job' \in JobRow /\ RowSound(job') /\ job'.state = "absent" /\ job'.epoch = 0
        /\ job'.selected = None /\ job'.phase = "queued"
    <3>1. NewJob \in JobRow /\ RowSound(NewJob) /\ NewJob.phase = "queued" /\ NewJob.epoch = 0
      BY BoundAssumption DEF NewJob, JobRow, RowSound, State, Phase, Failure
    <3>2. NewJob.selected = None /\ NewJob.auth = None /\ NewJob.owner = None
      BY DEF NewJob
    <3> QED BY <2>1, <3>1, <3>2 DEF NoJob, JobRow, RowSound, State
  <2>3. remote # "open"
    BY <1>5, <1>10
  <2> HIDE DEF j
  <2>4. TypeOK' /\ GrantIds' /\ QueuedClean' /\ OpenCallGuarded' /\ OpenSelected'
        /\ RemoteKept'
    BY <1>1, <1>4, <1>9, <2>2, <2>3 DEF IInv, TypeOK, GrantIds, QueuedClean, RowSound,
        OpenCallGuarded, OpenSelected, RemoteKept, HandleKept
  <2>5. StatusSound' /\ NoStrandedWaiter'
    BY <2>2 DEF StatusSound, RowSound, NoStrandedWaiter
  <2>6. AtClaim' /\ Carries' /\ EgressUnderConsent'
    BY <1>1, <2>2 DEF IInv, AtClaim, Claimed, Carries, EgressUnderConsent, InEgress
  <2>7. FencesOrdered'
    BY <1>9, <1>10, <2>1, <2>2 DEF FencesOrdered
  <2> QED BY <2>4, <2>5, <2>6, <2>7 DEF IInv
<1>11. CASE ~((\A v \in Waiter : waiter'[v] = "none") /\ j.state # "operator_required")
  <2>1. job' = j
    BY <1>1, <1>11
  <2>2. job.state = "completed" => WaitingIn(waiter') = {}
    BY <1>2, <1>4 DEF IInv, NoStrandedWaiter, WaitingIn, left
  <2> HIDE DEF j
  <2>3. TypeOK' /\ GrantIds' /\ QueuedClean' /\ OpenCallGuarded' /\ OpenSelected'
        /\ RemoteKept'
    BY <1>1, <1>4, <1>5, <1>9, <2>1 DEF IInv, TypeOK, GrantIds, QueuedClean, RowSound,
        OpenCallGuarded, OpenSelected, RemoteKept, HandleKept
  <2>4. StatusSound' /\ NoStrandedWaiter'
    BY <1>5, <2>1, <2>2 DEF StatusSound, RowSound, NoStrandedWaiter
  <2>5. AtClaim' /\ Carries' /\ EgressUnderConsent'
    BY <1>1, <1>5, <2>1 DEF IInv, AtClaim, Claimed, Carries, EgressUnderConsent, InEgress
  <2>6. FencesOrdered'
    BY <1>9, <2>1 DEF FencesOrdered
  <2> QED BY <2>3, <2>4, <2>5, <2>6 DEF IInv
<1> QED BY <1>10, <1>11

-----------------------------------------------------------------------------
(* The inductive invariant and what follows from it.                       *)

\* A vault without the job satisfies the invariant.
LEMMA InitOK ==
    ASSUME Init
    PROVE  IInv
<1> USE DEF Init
<1>1. /\ job \in JobRow /\ RowSound(job) /\ job.state = "absent" /\ job.epoch = 0
      /\ job.selected = None /\ job.phase = "queued"
  <2>1. NewJob \in JobRow /\ RowSound(NewJob) /\ NewJob.phase = "queued" /\ NewJob.epoch = 0
    BY BoundAssumption DEF NewJob, JobRow, RowSound, State, Phase, Failure
  <2>2. NewJob.selected = None /\ NewJob.auth = None /\ NewJob.owner = None
    BY DEF NewJob
  <2> QED BY <2>1, <2>2 DEF NoJob, JobRow, RowSound, State
<1>2. Idle \in WorkerRow /\ Idle.pc = "idle" /\ NoRoot \in RootRow /\ NoRoot.token = 0
  BY BoundAssumption DEF Idle, WorkerRow, NoRoot, RootRow
<1>3. TypeOK /\ GrantIds
  BY <1>1, <1>2 DEF TypeOK, GrantIds, Told
<1>4. StatusSound /\ QueuedClean /\ RemoteKept /\ OpenCallGuarded /\ OpenSelected
  BY <1>1 DEF StatusSound, QueuedClean, RowSound, RemoteKept, HandleKept, StagedPhase,
      OpenCallGuarded, OpenSelected
<1>5. AtClaim /\ Carries /\ EgressUnderConsent
  BY <1>1, <1>2 DEF AtClaim, Claimed, Carries, EgressUnderConsent, InEgress
<1>6. FencesOrdered /\ NoStrandedWaiter
  BY <1>1, <1>2 DEF FencesOrdered, NoStrandedWaiter
<1> QED BY <1>3, <1>4, <1>5, <1>6 DEF IInv

\* Every step keeps the invariant; one lemma for each action.
LEMMA NextOK ==
    ASSUME IInv, [Next]_vars
    PROVE  IInv'
<1>1. CASE UNCHANGED vars
  BY <1>1 DEF vars, results, authority, IInv, TypeOK, GrantIds, StatusSound, QueuedClean,
      OpenCallGuarded, OpenSelected, RemoteKept, HandleKept, AtClaim, Claimed, Carries, EgressUnderConsent, InEgress,
      FencesOrdered, NoStrandedWaiter, WaitingIn
<1>2. ASSUME NEW k \in Worker, Attempt(k)
      PROVE  IInv'
  BY <1>2, ClaimOK, QuarantineOK, DropOK, WorkOK, PrepareFailsOK, BeginOK, CheckpointOK, AnswersOK,
     StageBuildOK, StagingFailsOK, StageGenerationOK, PublishOK, RetryOK, FinishOK DEF Attempt
<1>3. ASSUME NEW v \in Waiter,
             \/ EnqueueRenditionJob(v) \/ GrantConsent(v) \/ EnsureInitialConsent(v)
             \/ RevokeConsent(v) \/ GrantExpires(v)
      PROVE  IInv'
  BY <1>3, EnqueueOK, IssueOK, RevokeOK DEF GrantConsent, EnsureInitialConsent
<1>4. ASSUME NEW S \in SUBSET Waiter, DeleteVersions(S)
      PROVE  IInv'
  BY <1>4, DeleteOK
<1>5. CASE CollectBuild \/ CollectGeneration
  BY <1>5, CollectOK
<1> QED BY <1>1, <1>2, <1>3, <1>4, <1>5 DEF Next

\* IInv is inductive, whatever the number of waiters, workers and steps.
THEOREM Invariance == Spec => []IInv
<1>1. Init => IInv
  BY InitOK
<1>2. IInv /\ [Next]_vars => IInv'
  BY NextOK
<1> QED BY <1>1, <1>2, PTL DEF Spec

\* Every row, root and attempt keeps its type, the epochs within their bound.
THEOREM TypeCorrect == Spec => []TypeOK
<1>1. IInv => TypeOK
  BY DEF IInv
<1> QED BY <1>1, Invariance, PTL

\* A provider call without a handle and without a known end stays guarded by
\* the row (Ambiguous, ClaimRenditionJob, reconciled).
THEOREM OpenCallsGuarded == Spec => []OpenCallGuarded
<1>1. IInv => OpenCallGuarded
  BY DEF IInv
<1> QED BY <1>1, Invariance, PTL

\* No consent is revoked under content that is being sent (the egress fence
\* of RevokeConsent).
THEOREM EgressConsented == Spec => []EgressUnderConsent
<1>1. IInv => EgressUnderConsent
  BY DEF IInv
<1> QED BY <1>1, Invariance, PTL

\* No action leaves a row that the readers of it would refuse.
THEOREM RowsSound == Spec => []StatusSound
<1>1. IInv => StatusSound
  BY DEF IInv
<1> QED BY <1>1, Invariance, PTL

\* The tokens of the roots never overtake the epoch of the claims.
THEOREM RootsFenced == Spec => []FencesOrdered
<1>1. IInv => FencesOrdered
  BY DEF IInv
<1> QED BY <1>1, Invariance, PTL

\* A completed job has no waiter left.
THEOREM NobodyStranded == Spec => []NoStrandedWaiter
<1>1. IInv => NoStrandedWaiter
  BY DEF IInv
<1> QED BY <1>1, Invariance, PTL

-----------------------------------------------------------------------------
(* RenditionJobs implements RenditionPromise: each of its steps is one of   *)
(* the promise's, or changes nothing the promise sees.                     *)

\* A step of the promise or none.
PromiseStep == [Promise!Next]_(Promise!vars)

\* Whose consent stands depends on the consent tables alone.
LEMMA SameConsent ==
    ASSUME UNCHANGED authority
    PROVE  consented' = consented /\ fence' = fence
BY DEF authority, consented, Authorized, Standing

\* The call seen from outside depends on the provider and on the kept handle.
LEMMA SameCall ==
    ASSUME UNCHANGED remote, job'.resume = job.resume
    PROVE  call' = call
BY DEF call

\* A worker that does not send any more, and one that did not before.
LEMMA LessOut ==
    ASSUME NEW k \in Worker, \A o \in Worker \ {k} : wk'[o] = wk[o], wk'[k].pc # "egress"
    PROVE  /\ out' \in SUBSET out
           /\ wk[k].pc # "egress" => out' = out
BY DEF out, InEgress

\* Attempts that end without more.
LEMMA LeaveSteps ==
    ASSUME IInv, NEW k \in Worker, Quarantine(k) \/ Drop(k) \/ MarkRenditionJobRetry(k)
    PROVE  PromiseStep
<1> USE DEF results
<1>1. UNCHANGED <<waiter, authority, remote>> /\ consented' = consented /\ fence' = fence
  BY SameConsent DEF Quarantine, Drop, MarkRenditionJobRetry
<1>2. job'.resume = job.resume
  BY DEF Quarantine, Drop, MarkRenditionJobRetry, Release, Select, IInv, TypeOK, JobRow
<1>3. wk' = wk \/ wk' = [wk EXCEPT ![k] = Idle]
  BY DEF Quarantine, Drop, MarkRenditionJobRetry
<1>4. out' \in SUBSET out
  <2>1. CASE wk' = wk
    BY <2>1 DEF out, InEgress
  <2>2. CASE wk' = [wk EXCEPT ![k] = Idle]
    BY <2>2, IdleOK, LessOut DEF IInv
  <2> QED BY <1>3, <2>1, <2>2
<1>5. attended' \in {attended, FALSE}
  <2>1. CASE Drop(k)
    <3>1. \A o \in Worker : Claimed(o)' => Claimed(o)
      <4>1. /\ wk'[k].epoch = 0 /\ (\A o \in Worker \ {k} : wk'[o] = wk[o])
            /\ job' = job
        BY <2>1, IdleOK DEF Drop, IInv
      <4>2. job.state = "running" => job.epoch # 0
        BY DEF IInv, QueuedClean
      <4> QED BY <4>1, <4>2 DEF Claimed
    <3> QED BY <3>1 DEF attended
  <2>2. CASE Quarantine(k) \/ MarkRenditionJobRetry(k)
    <3>1. job'.state # "running"
      <4>1. CASE Quarantine(k)
        BY <4>1 DEF Quarantine, Release, IInv, TypeOK, JobRow
      <4>2. CASE MarkRenditionJobRetry(k)
        BY <4>2 DEF MarkRenditionJobRetry, Release, Select, IInv, TypeOK, JobRow
      <4> QED BY <2>2, <4>1, <4>2
    <3> QED BY <3>1 DEF attended, Claimed
  <2> QED BY <2>1, <2>2
<1>6. Promise!Leave
  BY <1>1, <1>2, <1>4, <1>5, SameCall DEF Promise!Leave
<1> QED BY <1>6 DEF PromiseStep, Promise!Next

\* A claim attends to the build.
LEMMA ClaimStep ==
    ASSUME IInv, NEW k \in Worker, ClaimRenditionJob(k)
    PROVE  PromiseStep
<1>1. UNCHANGED <<waiter, authority, remote>> /\ consented' = consented /\ fence' = fence
  BY SameConsent DEF ClaimRenditionJob
<1>2. job'.resume = job.resume /\ call # "open"
  BY DEF ClaimRenditionJob, Claimable, Ambiguous, IInv, OpenCallGuarded, TypeOK, JobRow, call,
      StagedPhase
<1>3. wk'[k].pc = "work" /\ wk[k].pc = "idle" /\ (\A o \in Worker \ {k} : wk'[o] = wk[o])
  BY DEF ClaimRenditionJob, Idle, IInv, TypeOK
<1>4. attended'
  BY DEF ClaimRenditionJob, Idle, IInv, TypeOK, JobRow, attended, Claimed
<1>5. attended' \in BOOLEAN
  BY DEF attended
<1>6. out' = out
  BY <1>3, LessOut
<1>7. Promise!Attend
  BY <1>1, <1>2, <1>4, <1>5, <1>6, SameCall DEF Promise!Attend
<1> QED BY <1>7 DEF PromiseStep, Promise!Next

\* A claim that stays with its worker.
LEMMA StaysAttended ==
    ASSUME NEW k \in Worker, Claimed(k), wk'[k].epoch = wk[k].epoch,
           job'.state = job.state, job'.owner = job.owner, job'.epoch = job.epoch
    PROVE  attended /\ attended' /\ attended' = attended
<1>1. attended /\ attended'
  BY DEF attended, Claimed
<1>2. attended \in BOOLEAN /\ attended' \in BOOLEAN
  BY DEF attended
<1> QED BY <1>1, <1>2

\* An attempt that has a verdict or goes on past the provider.
LEMMA MovedOn ==
    ASSUME TypeOK, NEW k \in Worker,
           \/ \E verdict \in Verdict : Conclude(k, verdict)
           \/ \E pc \in {"generate", "publish"} : Continue(k, pc)
    PROVE  /\ wk'[k].pc # "egress" /\ wk'[k].epoch = wk[k].epoch
           /\ \A o \in Worker \ {k} : wk'[o] = wk[o]
BY ConcludeOK, ContinueOK

\* Steps of an attempt that nobody outside sees.
LEMMA HiddenSteps ==
    ASSUME IInv, NEW k \in Worker,
           PrepareFails(k) \/ StagingFails(k) \/ StageRenditionJobGeneration(k)
    PROVE  PromiseStep
<1> USE DEF results
<1>1. UNCHANGED <<waiter, authority, remote>> /\ consented' = consented /\ fence' = fence
  BY SameConsent DEF PrepareFails, StagingFails, StageRenditionJobGeneration
<1>2. /\ wk[k].pc # "egress" /\ wk'[k].pc # "egress" /\ wk'[k].epoch = wk[k].epoch
      /\ \A o \in Worker \ {k} : wk'[o] = wk[o]
  <2>1. \/ \E verdict \in Verdict : Conclude(k, verdict)
        \/ \E pc \in {"generate", "publish"} : Continue(k, pc)
    BY DEF PrepareFails, StagingFails, StageRenditionJobGeneration, Verdict, Unclassified
  <2>2. wk[k].pc # "egress"
    BY DEF PrepareFails, StagingFails, StageRenditionJobGeneration
  <2> QED BY <2>1, <2>2, MovedOn DEF IInv
<1>3. /\ job'.resume = job.resume /\ job'.state = job.state /\ job'.owner = job.owner
      /\ job'.epoch = job.epoch
  BY DEF PrepareFails, StagingFails, StageRenditionJobGeneration, IInv, TypeOK, JobRow
<1>4. attended' = attended
  BY <1>2, <1>3 DEF attended, Claimed
<1>5. UNCHANGED Promise!vars
  BY <1>1, <1>2, <1>3, <1>4, SameCall, LessOut DEF Promise!vars
<1> QED BY <1>5 DEF PromiseStep

\* Waiters without consent are turned away while a waiter is selected.
LEMMA WorkStep ==
    ASSUME IInv, NEW k \in Worker, RenditionJobWorkByClaim(k)
    PROVE  PromiseStep
<1>1. UNCHANGED <<authority, remote>> /\ consented' = consented /\ fence' = fence /\ Claimed(k)
  BY SameConsent DEF RenditionJobWorkByClaim
<1>2. /\ waiter' \in [Waiter -> Told]
      /\ \A v \in Waiter : \/ waiter'[v] \in {waiter[v], "none"}
                           \/ waiter[v] = "waiting" /\ waiter'[v] = "rejected"
  BY DEF RenditionJobWorkByClaim, passedOver, IInv, TypeOK, Told
<1>3. /\ job'.resume = job.resume /\ job'.state = job.state /\ job'.owner = job.owner
      /\ job'.epoch = job.epoch
  BY DEF RenditionJobWorkByClaim, Select, IInv, TypeOK, JobRow
<1>4. /\ wk[k].pc # "egress" /\ wk'[k].pc # "egress" /\ wk'[k].epoch = wk[k].epoch
      /\ \A o \in Worker \ {k} : wk'[o] = wk[o]
  <2> DEFINE v == IF job.selected = None THEN selected(waiter) ELSE job.selected
  <2>1. wk[k].pc # "egress"
    BY DEF RenditionJobWorkByClaim
  <2>2. CASE wk' = [wk EXCEPT ![k].pc = "prepare", ![k].waiter = v]
    <3> HIDE DEF v
    <3> QED BY <2>1, <2>2 DEF IInv, TypeOK, WorkerRow
  <2>3. CASE \/ \E verdict \in Verdict : Conclude(k, verdict)
             \/ \E pc \in {"generate", "publish"} : Continue(k, pc)
    BY <2>1, <2>3, MovedOn DEF IInv
  <2> QED BY <2>2, <2>3 DEF RenditionJobWorkByClaim, Verdict
<1>5. attended' = attended /\ call' = call /\ out' = out
  BY <1>1, <1>3, <1>4, StaysAttended, SameCall, LessOut
<1>6. Promise!Withdraw
  BY <1>1, <1>2, <1>5 DEF Promise!Withdraw, Told
<1> QED BY <1>6 DEF PromiseStep, Promise!Next

\* A handle is persisted: the call is kept.
LEMMA CheckpointStep ==
    ASSUME IInv, NEW k \in Worker, CheckpointRenditionProvider(k)
    PROVE  PromiseStep
<1>1. /\ UNCHANGED <<waiter, authority>> /\ consented' = consented /\ fence' = fence
      /\ Claimed(k) /\ wk[k].pc = "egress"
  BY SameConsent DEF CheckpointRenditionProvider, InEgress
<1>2. /\ job'.resume = TRUE /\ job'.state = job.state /\ job'.owner = job.owner
      /\ job'.epoch = job.epoch /\ remote' = "handle"
  BY DEF CheckpointRenditionProvider, IInv, TypeOK, JobRow
<1>3. \A o \in Worker : /\ wk'[o].pc = wk[o].pc /\ wk'[o].waiter = wk[o].waiter
                        /\ wk'[o].epoch = wk[o].epoch
  BY DEF CheckpointRenditionProvider, IInv, TypeOK, WorkerRow
<1>4. call # "none" /\ call' = "handle"
  BY <1>1, <1>2 DEF IInv, AtClaim, call
<1>5. out' = out
  BY <1>3 DEF out, InEgress
<1>6. attended /\ attended' = attended
  BY <1>1, <1>2, <1>3, StaysAttended
<1>7. Promise!Keep
  BY <1>1, <1>4, <1>5, <1>6 DEF Promise!Keep
<1> QED BY <1>7 DEF PromiseStep, Promise!Next

\* The provider answers, or the result is in the vault.
LEMMA AnswerStep ==
    ASSUME IInv, NEW k \in Worker, ProviderAnswers(k) \/ StageRenditionJobBuild(k)
    PROVE  PromiseStep
<1> USE DEF results
<1>1. /\ UNCHANGED <<waiter, authority>> /\ consented' = consented /\ fence' = fence
      /\ Claimed(k) /\ remote' \in {remote, "none"}
  BY SameConsent DEF ProviderAnswers, StageRenditionJobBuild
<1>2. /\ job'.resume = job.resume /\ job'.state = job.state /\ job'.owner = job.owner
      /\ job'.epoch = job.epoch
  BY DEF ProviderAnswers, StageRenditionJobBuild, IInv, TypeOK, JobRow
<1>3. /\ wk'[k].pc # "egress" /\ wk'[k].epoch = wk[k].epoch
      /\ \A o \in Worker \ {k} : wk'[o] = wk[o]
  <2>1. CASE ProviderAnswers(k)
    <3>1. CASE wk' = [wk EXCEPT ![k].pc = "stage", ![k].waiter = None, ![k].auth = None]
      BY <3>1 DEF IInv, TypeOK, WorkerRow
    <3>2. CASE \E verdict \in Verdict : Conclude(k, verdict)
      BY <3>2, MovedOn DEF IInv
    <3> QED BY <2>1, <3>1, <3>2 DEF ProviderAnswers, Verdict, Unclassified
  <2>2. CASE StageRenditionJobBuild(k)
    BY <2>2, ContinueOK DEF StageRenditionJobBuild, IInv
  <2> QED BY <2>1, <2>2
<1>4. out' \in SUBSET out
  BY <1>3, LessOut
<1>5. attended /\ attended' = attended /\ attended \in BOOLEAN
  BY <1>1, <1>2, <1>3, StaysAttended DEF attended
<1>6. CASE remote' = remote
  <2>1. Promise!Leave
    BY <1>1, <1>2, <1>4, <1>5, <1>6, SameCall DEF Promise!Leave
  <2> QED BY <2>1 DEF PromiseStep, Promise!Next
<1>7. CASE remote' = "none"
  <2>1. call' = "none"
    BY <1>7 DEF call
  <2>2. Promise!Settle
    BY <1>1, <1>4, <1>5, <2>1 DEF Promise!Settle
  <2> QED BY <2>2 DEF PromiseStep, Promise!Next
<1> QED BY <1>1, <1>6, <1>7

\* Content is sent for a waiter that waits and has consented, or the waiter is
\* turned away.
LEMMA BeginStep ==
    ASSUME IInv, NEW k \in Worker, BeginRenditionProvider(k)
    PROVE  PromiseStep
<1> DEFINE v == wk[k].waiter
           rejected == [waiter EXCEPT ![v] = "rejected"]
<1>1. /\ UNCHANGED authority /\ consented' = consented /\ fence' = fence
      /\ wk[k].pc = "prepare" /\ Claimed(k)
  BY SameConsent DEF BeginRenditionProvider
<1>2. /\ remote # "open" /\ wk[k].handle = job.resume /\ v \in Waiter
      /\ job.resume \in BOOLEAN /\ job.resume => remote = "handle"
  BY <1>1 DEF IInv, AtClaim, Claimed, Carries, TypeOK, JobRow, WorkerRow, QueuedClean, RemoteKept,
      HandleKept
<1> HIDE DEF v
<1>3. CASE waiter[v] # "waiting"
  <2>1. UNCHANGED <<job, waiter, remote>> /\ \E verdict \in Verdict : Conclude(k, verdict)
    BY <1>3 DEF BeginRenditionProvider, Verdict, v
  <2>2. attended' = attended /\ call' = call /\ out' = out
    BY <1>1, <2>1, MovedOn, StaysAttended, SameCall, LessOut DEF IInv
  <2>3. UNCHANGED Promise!vars
    BY <1>1, <2>1, <2>2 DEF Promise!vars
  <2> QED BY <2>3 DEF PromiseStep
<1>4. CASE waiter[v] = "waiting" /\ MayBegin(v)
  <2>1. /\ UNCHANGED waiter /\ remote' = IF wk[k].handle THEN remote ELSE "open"
        /\ job' = [job EXCEPT !.phase = "provider", !.started = TRUE, !.snapshot = TRUE,
                              !.selected = v, !.auth = IF @ = None THEN Newest(v) ELSE @]
        /\ wk' = [wk EXCEPT ![k].pc = "egress", ![k].auth = job'.auth]
    BY <1>4 DEF BeginRenditionProvider, v
  <2>2. v \in consented
    BY <1>2, <1>4 DEF MayBegin, PriorStands, Authorized, consented
  <2>3. /\ job'.resume = job.resume /\ job'.state = job.state /\ job'.owner = job.owner
        /\ job'.epoch = job.epoch
    BY <2>1 DEF IInv, TypeOK, JobRow
  <2>4. call \in {"none", "handle"} /\ call' = IF call = "none" THEN "open" ELSE call
    BY <1>2, <2>1, <2>3 DEF call, IInv, TypeOK
  <2>5. PICK g : wk' = [wk EXCEPT ![k].pc = "egress", ![k].auth = g]
    BY <2>1
  <2>6. /\ wk'[k].pc = "egress" /\ wk'[k].waiter = v /\ wk'[k].epoch = wk[k].epoch
        /\ \A o \in Worker \ {k} : wk'[o] = wk[o]
    BY <2>5 DEF IInv, TypeOK, WorkerRow, v
  <2>7. out' = out \cup {v}
    BY <1>1, <1>2, <2>6 DEF out, InEgress
  <2>8. attended /\ attended' = attended
    BY <1>1, <2>3, <2>6, StaysAttended
  <2>9. Promise!Send(v)
    BY <1>1, <1>2, <1>4, <2>1, <2>2, <2>4, <2>7, <2>8 DEF Promise!Send, Promise!Waiting
  <2> QED BY <1>2, <2>9 DEF PromiseStep, Promise!Next
<1>5. CASE waiter[v] = "waiting" /\ ~MayBegin(v)
  <2>1. waiter' = passedOver(rejected) /\ UNCHANGED remote
    BY <1>5 DEF BeginRenditionProvider, v
  <2>2. /\ waiter' \in [Waiter -> Told]
        /\ \A u \in Waiter : \/ waiter'[u] \in {waiter[u], "none"}
                             \/ waiter[u] = "waiting" /\ waiter'[u] = "rejected"
    BY <1>2, <1>5, <2>1 DEF passedOver, IInv, TypeOK, Told
  <2>3. CASE \E verdict \in Verdict : Conclude(k, verdict) /\ UNCHANGED job
    <3>1. attended' = attended /\ call' = call /\ out' = out
      BY <1>1, <2>1, <2>3, MovedOn, StaysAttended, SameCall, LessOut DEF IInv
    <3>2. Promise!Withdraw
      BY <1>1, <2>2, <3>1 DEF Promise!Withdraw, Told
    <3> QED BY <3>2 DEF PromiseStep, Promise!Next
  <2>4. CASE /\ wk' = [wk EXCEPT ![k] = Idle]
             /\ \E next : job' = Select(Release([job EXCEPT !.state = "queued", !.epoch = @ + 1,
                                                            !.failure = None]), next)
    <3>1. job'.resume = job.resume /\ job'.state = "queued"
      BY <2>4 DEF Select, Release, IInv, TypeOK, JobRow
    <3>2. attended' = FALSE /\ call' = call /\ out' = out
      BY <1>1, <2>1, <2>4, <3>1, IdleOK, SameCall, LessOut DEF IInv, attended, Claimed
    <3>3. Promise!Withdraw
      BY <1>1, <2>2, <3>2 DEF Promise!Withdraw, Told
    <3> QED BY <3>3 DEF PromiseStep, Promise!Next
  <2> QED BY <1>5, <2>3, <2>4 DEF BeginRenditionProvider, Verdict, v
<1> QED BY <1>3, <1>4, <1>5

\* A publication answers everybody who waits.
LEMMA PublishStep ==
    ASSUME IInv, NEW k \in Worker, PublishRenditionJob(k)
    PROVE  PromiseStep
<1> DEFINE able == {v \in WaitingIn(waiter) : Authorized(v)}
<1>1. /\ UNCHANGED <<authority, remote>> /\ consented' = consented /\ fence' = fence
      /\ wk[k].pc = "publish" /\ Claimed(k)
  BY SameConsent DEF PublishRenditionJob
<1>2. able = Promise!Waiting \cap consented /\ Promise!Waiting = WaitingIn(waiter)
  BY DEF Promise!Waiting, consented, WaitingIn
<1>3. CASE (\E verdict \in Verdict : Conclude(k, verdict)) /\ UNCHANGED <<job, waiter>>
  <2>1. attended' = attended /\ call' = call /\ out' = out
    BY <1>1, <1>3, MovedOn, StaysAttended, SameCall, LessOut DEF IInv
  <2>2. UNCHANGED Promise!vars
    BY <1>1, <1>3, <2>1 DEF Promise!vars
  <2> QED BY <2>2 DEF PromiseStep
<1>4. CASE /\ able # {}
           /\ waiter' = [v \in Waiter |->
                 IF v \in able THEN "published"
                 ELSE IF waiter[v] = "waiting" THEN "rejected" ELSE waiter[v]]
           /\ job' = Select(Release([job EXCEPT !.state = "completed", !.phase = "published",
                                                !.failure = None]), None)
           /\ wk' = [wk EXCEPT ![k] = Idle]
  <2>1. job'.resume = job.resume /\ job'.state = "completed"
    BY <1>4 DEF Select, Release, IInv, TypeOK, JobRow
  <2>2. attended' = FALSE /\ call' = call /\ out' = out
    BY <1>1, <1>4, <2>1, IdleOK, SameCall, LessOut DEF IInv, attended, Claimed
  <2>3. waiter' = [v \in Waiter |->
                IF v \in Promise!Waiting \cap consented THEN "published"
                ELSE IF v \in Promise!Waiting THEN "rejected" ELSE waiter[v]]
    BY <1>2, <1>4 DEF WaitingIn
  <2>4. Promise!Publish
    BY <1>1, <1>2, <1>4, <2>2, <2>3 DEF Promise!Publish
  <2> QED BY <2>4 DEF PromiseStep, Promise!Next
<1> QED BY <1>3, <1>4 DEF PublishRenditionJob, Verdict

\* The job ends: its call is settled or it is left as it is.
LEMMA FinishStep ==
    ASSUME IInv, NEW k \in Worker, finishRenditionJobClaim(k)
    PROVE  PromiseStep
<1>1. /\ UNCHANGED <<waiter, authority>> /\ consented' = consented /\ fence' = fence
      /\ wk[k].pc = "mark" /\ Claimed(k) /\ wk' = [wk EXCEPT ![k] = Idle]
      /\ remote' = IF wk[k].verdict = "terminal" THEN "none" ELSE remote
  BY SameConsent DEF finishRenditionJobClaim
<1>2. attended /\ attended \in BOOLEAN
  BY <1>1 DEF attended
<1>3. /\ job'.state # "running"
      /\ job'.resume = job.resume \/ (job.phase \in StagedPhase /\ job'.resume = FALSE)
  BY DEF finishRenditionJobClaim, Release, Reset, Select, IInv, TypeOK, JobRow
<1>4. attended' = FALSE /\ out' = out
  BY <1>1, <1>3, IdleOK, LessOut DEF IInv, attended, Claimed
<1>5. CASE wk[k].verdict = "terminal"
  <2>1. Promise!Settle
    BY <1>1, <1>2, <1>4, <1>5 DEF Promise!Settle, call
  <2> QED BY <2>1 DEF PromiseStep, Promise!Next
<1>6. CASE wk[k].verdict # "terminal"
  <2>1. call' = call
    BY <1>1, <1>3, <1>6, SameCall DEF call, IInv, TypeOK, JobRow, RemoteKept, HandleKept
  <2>2. Promise!Leave
    BY <1>1, <1>2, <1>4, <2>1 DEF Promise!Leave
  <2> QED BY <2>2 DEF PromiseStep, Promise!Next
<1> QED BY <1>5, <1>6

\* A waiter joins; a handle is given up only for a build that is there.
LEMMA EnqueueStep ==
    ASSUME IInv, NEW v \in Waiter, EnqueueRenditionJob(v)
    PROVE  PromiseStep
<1>1. /\ UNCHANGED <<authority, wk, remote>> /\ consented' = consented /\ fence' = fence
      /\ v \in consented
  BY SameConsent DEF EnqueueRenditionJob, consented
<1>2. /\ reopened \in JobRow /\ (remote = "handle" => reopened.resume = job.resume)
      /\ job.state = "running" => reopened = job
      /\ reopened.state = "running" => reopened = job
  BY ReopenedOK
<1>3. out' = out
  BY <1>1 DEF out, InEgress
<1>4. CASE waiter[v] = "published"
  <2>1. job' = reopened /\ UNCHANGED waiter
    BY <1>4 DEF EnqueueRenditionJob
  <2>2. attended' = attended
    BY <1>1, <1>2, <2>1 DEF attended, Claimed
  <2>3. call' = call
    BY <1>1, <1>2, <2>1 DEF call
  <2>4. UNCHANGED Promise!vars
    BY <1>1, <1>3, <2>1, <2>2, <2>3 DEF Promise!vars
  <2> QED BY <2>4 DEF PromiseStep
<1>5. CASE waiter[v] # "published"
  <2>1. job' = joined(reopened) /\ waiter' = [waiter EXCEPT ![v] = "waiting"]
    BY <1>5 DEF EnqueueRenditionJob
  <2>2. job' = reopened \/ (job'.state = "queued" /\ job'.resume = FALSE
                            /\ reopened.state \in {"queued", "completed"})
    BY <1>2, <2>1 DEF joined, Select, Release, JobRow
  <2>3. attended' = attended
    BY <1>1, <1>2, <2>2 DEF attended, Claimed
  <2>4. call' = call \/ (call = "handle" /\ call' = "none")
    BY <1>1, <1>2, <2>2 DEF call, IInv, TypeOK
  <2>5. Promise!Join(v)
    BY <1>1, <1>3, <1>5, <2>1, <2>3, <2>4 DEF Promise!Join
  <2> QED BY <2>5 DEF PromiseStep, Promise!Next
<1> QED BY <1>4, <1>5

\* Consent is given, lapses, or is revoked while nothing is being sent.
LEMMA ConsentSteps ==
    ASSUME IInv, NEW v \in Waiter, IssueGrant(v) \/ RevokeConsent(v) \/ GrantExpires(v)
    PROVE  PromiseStep
<1> USE DEF results
<1>1. UNCHANGED <<job, waiter, wk, remote>>
  BY DEF IssueGrant, RevokeConsent, GrantExpires
<1>2. call' = call /\ out' = out /\ attended' = attended
  BY <1>1 DEF call, out, InEgress, attended, Claimed
<1>3. CASE IssueGrant(v)
  <2>1. /\ fence' = fence
        /\ grants' = [grants EXCEPT ![v] = @ \cup {[id |-> issued[v] + 1, fence |-> fence[v]]}]
    BY <1>3 DEF IssueGrant
  <2>a. [id |-> issued[v] + 1, fence |-> fence[v]] \in Standing(v)'
    BY <2>1 DEF Standing, IInv, TypeOK
  <2>b. \A u \in Waiter \ {v} : Standing(u)' = Standing(u)
    BY <2>1 DEF Standing, IInv, TypeOK
  <2>2. consented' = consented \cup {v}
    BY <2>a, <2>b DEF consented, Authorized
  <2>3. Promise!Consent(v)
    BY <1>1, <1>2, <2>1, <2>2 DEF Promise!Consent
  <2> QED BY <2>3 DEF PromiseStep, Promise!Next
<1>4. CASE RevokeConsent(v)
  <2>1. /\ fence' = [fence EXCEPT ![v] = @ + 1] /\ grants' = grants /\ out = {}
    BY <1>4 DEF RevokeConsent, EgressIdle, out
  <2>2. \A u \in Waiter : /\ fence[u] \in Nat /\ fence'[u] = IF u = v THEN fence[u] + 1 ELSE fence[u]
                          /\ \A g \in grants[u] : g.fence \in Nat /\ g.fence <= fence[u]
    BY <2>1 DEF IInv, TypeOK, GrantIds, Grant
  <2>3. consented' = consented \ {v}
    BY <2>1, <2>2 DEF consented, Authorized, Standing
  <2>4. Promise!Revoke(v)
    BY <1>1, <1>2, <2>1, <2>3 DEF Promise!Revoke
  <2> QED BY <2>4 DEF PromiseStep, Promise!Next
<1>5. CASE GrantExpires(v)
  <2>1. PICK g \in Standing(v) : grants' = [grants EXCEPT ![v] = @ \ {g}] /\ fence' = fence
    BY <1>5 DEF GrantExpires
  <2>2. consented' \in {consented, consented \ {v}}
    BY <2>1 DEF consented, Authorized, Standing, IInv, TypeOK
  <2>3. CASE consented' = consented
    BY <1>1, <1>2, <2>1, <2>3 DEF PromiseStep, Promise!vars
  <2>4. CASE consented' = consented \ {v}
    <3>1. Promise!Lapse(v)
      BY <1>1, <1>2, <2>1, <2>4 DEF Promise!Lapse
    <3> QED BY <3>1 DEF PromiseStep, Promise!Next
  <2> QED BY <2>2, <2>3, <2>4
<1> QED BY <1>3, <1>4, <1>5

\* Waiters are deleted; a handle goes only with the last one that waits.
LEMMA DeleteStep ==
    ASSUME IInv, IInv', NEW S \in SUBSET Waiter, DeleteVersions(S)
    PROVE  PromiseStep
<1> DEFINE left == [v \in Waiter |-> IF v \in S THEN "none" ELSE waiter[v]]
           lost == job.state # "absent" /\ job.selected \in S
           j == IF lost THEN reconciled(left) ELSE job
<1>1. /\ UNCHANGED <<authority, wk, remote>> /\ consented' = consented /\ fence' = fence
      /\ waiter' = passedOver(left) \/ waiter' = left
      /\ job' = IF (\A v \in Waiter : waiter'[v] = "none") /\ j.state # "operator_required"
                THEN NoJob ELSE j
      /\ lost /\ j.epoch > job.epoch => j.epoch <= MaxEpoch
  BY SameConsent DEF DeleteVersions
<1>2. left \in [Waiter -> Told] /\ waiter \in [Waiter -> Told]
  BY DEF IInv, TypeOK, Told
<1>3. /\ waiter' \in [Waiter -> Told]
      /\ \A v \in Waiter : \/ waiter'[v] \in {waiter[v], "none"}
                           \/ waiter[v] = "waiting" /\ waiter'[v] = "rejected"
  BY <1>1, <1>2 DEF passedOver, Told
<1> HIDE DEF left
<1>4. out' = out
  BY <1>1 DEF out, InEgress
<1>5. /\ remote = "handle" => j.resume = job.resume
      /\ j.state = "running" =>
            job.state = "running" /\ j.owner = job.owner /\ j.epoch = job.epoch
  <2>1. CASE lost
    <3>1. job \in JobRow
      BY DEF IInv, TypeOK
    <3>2. reconciled(left).epoch \in {job.epoch, job.epoch + 1}
      BY <3>1 DEF reconciled, Select, Release, Reset, JobRow
    <3>3. reconciled(left).epoch <= MaxEpoch
      BY <1>1, <2>1, <3>1, <3>2, BoundAssumption DEF JobRow
    <3> QED BY <1>2, <2>1, <3>3, ReconciledOK
  <2>2. CASE ~lost
    BY <2>2
  <2> QED BY <2>1, <2>2
<1> HIDE DEF j
<1>6. CASE (\A v \in Waiter : waiter'[v] = "none") /\ j.state # "operator_required"
  <2>1. job'.state = "absent" /\ job'.resume = FALSE
    BY <1>1, <1>6 DEF NoJob, NewJob
  <2>2. attended' = FALSE
    BY <2>1 DEF attended, Claimed
  <2>3. remote # "open"
    BY <1>1, <2>1 DEF IInv, OpenCallGuarded
  <2>4. call' = call \/ (call = "handle" /\ call' = "none")
    BY <1>1, <2>1, <2>3 DEF call, IInv, TypeOK
  <2>5. \A v \in Waiter : waiter'[v] # "waiting"
    BY <1>6
  <2>6. Promise!Withdraw
    BY <1>1, <1>3, <1>4, <2>2, <2>4, <2>5 DEF Promise!Withdraw, Told
  <2> QED BY <2>6 DEF PromiseStep, Promise!Next
<1>7. CASE ~((\A v \in Waiter : waiter'[v] = "none") /\ j.state # "operator_required")
  <2>1. job' = j
    BY <1>1, <1>7
  <2>2. \A k \in Worker : Claimed(k)' => Claimed(k)
    BY <1>1, <1>5, <2>1 DEF Claimed
  <2>3. attended' \in {attended, FALSE}
    BY <2>2 DEF attended
  <2>4. call' = call
    BY <1>1, <1>5, <2>1 DEF call
  <2>5. Promise!Withdraw
    BY <1>1, <1>3, <1>4, <2>3, <2>4 DEF Promise!Withdraw, Told
  <2> QED BY <2>5 DEF PromiseStep, Promise!Next
<1> QED BY <1>6, <1>7

\* Every step is a step of RenditionPromise, or none.
LEMMA NextSteps ==
    ASSUME IInv, [Next]_vars
    PROVE  PromiseStep
<1>1. CASE UNCHANGED vars \/ CollectBuild \/ CollectGeneration
  <2>1. UNCHANGED <<job, waiter, authority, wk, remote>>
    BY <1>1 DEF vars, results, CollectBuild, CollectGeneration
  <2>2. UNCHANGED <<consented, fence, call, attended, out>>
    BY <2>1, SameConsent DEF call, attended, Claimed, out, InEgress
  <2> QED BY <2>1, <2>2 DEF PromiseStep, Promise!vars
<1>2. ASSUME NEW k \in Worker, Attempt(k)
      PROVE  PromiseStep
  BY <1>2, ClaimStep, LeaveSteps, WorkStep, HiddenSteps, BeginStep, CheckpointStep, AnswerStep,
     PublishStep, FinishStep DEF Attempt
<1>3. ASSUME NEW v \in Waiter,
             \/ EnqueueRenditionJob(v) \/ GrantConsent(v) \/ EnsureInitialConsent(v)
             \/ RevokeConsent(v) \/ GrantExpires(v)
      PROVE  PromiseStep
  BY <1>3, EnqueueStep, ConsentSteps DEF GrantConsent, EnsureInitialConsent
<1>4. ASSUME NEW S \in SUBSET Waiter, DeleteVersions(S)
      PROVE  PromiseStep
  BY <1>4, DeleteStep, NextOK
<1> QED BY <1>1, <1>2, <1>3, <1>4 DEF Next

\* Whatever the waiters, the workers and the provider do, what is seen of the
\* job from outside is a behaviour of RenditionPromise: content leaves under
\* consent, no call without a known end is made again, and a publication
\* answers everybody who waits.
THEOREM PromiseKept == Spec => KeepsPromise
<1>1. Init => Promise!Init
  <2> SUFFICES ASSUME Init PROVE Promise!Init
    OBVIOUS
  <2>1. consented = {} /\ call = "none" /\ out = {}
    BY DEF Init, consented, Authorized, Standing, call, out, InEgress, Idle
  <2>2. attended = FALSE
    BY DEF Init, attended, Claimed, NoJob, NewJob
  <2> QED BY <2>1, <2>2 DEF Init, Promise!Init
<1>2. IInv /\ [Next]_vars => [Promise!Next]_(Promise!vars)
  BY NextSteps DEF PromiseStep
<1> QED BY <1>1, <1>2, Invariance, PTL DEF Spec, KeepsPromise, Promise!Spec
=============================================================================
