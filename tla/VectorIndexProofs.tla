-------------------------- MODULE VectorIndexProofs --------------------------
(***************************************************************************)
(* Proofs about the vector index, for any members, payloads, leases and    *)
(* lags of the clock and any number of workers and searches.               *)
(*                                                                         *)
(* The answers are complete because every generation is, from the build    *)
(* that read its rows on (Whole).  The generations are kept because a      *)
(* stored lease never outlives its generation and a search that counts on  *)
(* its lease has it (Held).  A claim has one owner because tokens only     *)
(* grow (Fenced).                                                          *)
(***************************************************************************)
EXTENDS VectorIndex, TLAPS

\* A generation with a row for every payload of its source.
Complete(g) == g.rows = Sets(g.source)

Whole ==
    /\ \A g \in gens : Complete(g)
    /\ Complete(head)
    /\ \A r \in Reader : Complete(rgen[r])
    /\ \A w \in Worker : pc[w] \in {"stage", "load", "publish"} => rows[w] = Sets(src[w])

Held ==
    /\ \A l \in leases : l.gen \in gens
    /\ GenerationsKept

\* Whoever works under a claim was given its token, and is the only one.
Fenced ==
    \A w \in Worker : pc[w] \in Claiming =>
        /\ tok[w] <= job.token
        /\ \A v \in Worker \ {w} : pc[v] \in Claiming => tok[v] # tok[w]

IInv == TypeOK /\ Whole /\ Held /\ Fenced /\ AnswersComplete

-----------------------------------------------------------------------------
(* Leases and their time.                                                  *)

\* What is left of a lease stays within its range, and runs out once.
LEMMA AgeLeft ==
    ASSUME NEW n \in Left
    PROVE  Age(n) \in Left /\ Age(n) <= n /\ (Age(n) > 0 => n > 0)
  BY LeaseAssumption DEF Age, Left

\* A lease that ages keeps its generation and its holder.
LEMMA AgedLease ==
    ASSUME NEW l \in Lease
    PROVE  /\ Aged(l) \in Lease
           /\ Aged(l).gen = l.gen /\ Aged(l).holder = l.holder /\ Aged(l).left = Age(l.left)
  BY AgeLeft DEF Aged, Lease

\* Ageing keeps a claim's source and token.
LEMMA AgedJob ==
    ASSUME TypeOK
    PROVE  /\ Aged(job) \in [source : SUBSET Member, token : Nat, left : Left]
           /\ Aged(job).source = job.source /\ Aged(job).token = job.token
  BY AgeLeft DEF Aged, TypeOK

\* Times that transactions write.
LEMMA LeftRange ==
    ASSUME NEW d \in Lag
    PROVE  -d \in Left /\ BuildLease - d \in Left /\ ReaderLease - d \in Left
           /\ -MaxDelay \in Left
  BY LeaseAssumption DEF Lag, Left

\* The name of no generation is one.
LEMMA NoHeadType == NoHead \in Generation /\ Complete(NoHead)
  BY DEF NoHead, Generation, Complete, Sets

-----------------------------------------------------------------------------
(* Reclaiming generations.                                                 *)

\* A reclaim takes no generation from the head or from a live lease, and no
\* lease from a generation that stays.
LEMMA ReclaimKeeps ==
    ASSUME IInv, NEW d \in Lag, Reclaim(d), UNCHANGED <<head, job, readers>>
    PROVE  /\ gens' \subseteq gens /\ leases' \subseteq leases
           /\ Held'
  <1>1. gens' \subseteq gens /\ leases' \subseteq leases
    BY DEF Reclaim
  <1>2. \A l \in leases' : l.gen \in gens'
    BY DEF Reclaim
  <1>3. head # NoHead => head \in gens'
    BY DEF Reclaim, IInv, Held, GenerationsKept
  <1>4. ASSUME NEW r \in Reader, rpc[r] # "idle", rleft[r] > 0
        PROVE  /\ rgen[r] \in gens'
               /\ [gen |-> rgen[r], left |-> rleft[r], holder |-> r] \in leases'
    <2> DEFINE l == [gen |-> rgen[r], left |-> rleft[r], holder |-> r]
    <2>1. l \in leases /\ rgen[r] \in gens
      BY <1>4 DEF IInv, Held, GenerationsKept
    <2>2. l.left + d > 0
      BY <1>4, LeaseAssumption DEF IInv, TypeOK, Lag, Left
    <2>3. rgen[r] \in gens'
      BY <2>1, <2>2 DEF Reclaim
    <2> QED BY <2>1, <2>2, <2>3 DEF Reclaim
  <1> QED BY <1>1, <1>2, <1>3, <1>4 DEF Held, GenerationsKept, readers

-----------------------------------------------------------------------------
(* A worker's step: the types.                                             *)

WorkerType ==
    /\ pc \in [Worker -> WorkerPc]
    /\ src \in [Worker -> SUBSET Member]
    /\ tok \in [Worker -> Nat]
    /\ rows \in [Worker -> SUBSET VectorSet]
    /\ lost \in [Worker -> SUBSET Member]
    /\ failed \in [Worker -> BOOLEAN]

\* The moves of a worker keep the types of its locals.
LEMMA GotoType ==
    ASSUME WorkerType, NEW w \in Worker, NEW t \in WorkerPc, Goto(w, t) PROVE WorkerType'
  BY DEF WorkerType, Goto, locals

\* The end of a build keeps them.
LEMMA LeaveType ==
    ASSUME WorkerType, NEW w \in Worker, NEW t \in WorkerPc, Leave(w, t) PROVE WorkerType'
  BY DEF WorkerType, Leave

\* So does a failed call after the claim.
LEMMA GiveUpType ==
    ASSUME WorkerType, NEW w \in Worker, NEW e \in BOOLEAN, GiveUp(w, e) PROVE WorkerType'
  BY DEF WorkerType, GiveUp, WorkerPc, Claiming

\* So does a failed scan.
LEMMA ScanErrorType ==
    ASSUME WorkerType, NEW w \in Worker, ScanError(w), failures \in [Worker -> Nat]
    PROVE  WorkerType' /\ failures' \in [Worker -> Nat]
  BY DEF WorkerType, ScanError, WorkerPc, Claiming

\* The members in the source exist.
LEMMA CurrentType == ASSUME TypeOK PROVE Current \subseteq Member
  BY DEF TypeOK, Current

\* A source and the payloads of its members.
LEMMA SetsType == ASSUME NEW s \in SUBSET Member PROVE Sets(s) \in SUBSET VectorSet
  BY MemberAssumption DEF Sets

\* The types hold after any step of a worker.
LEMMA StepType ==
    ASSUME TypeOK, NEW w \in Worker, Step(w)
    PROVE  TypeOK'
  <1> DEFINE
        MemberType == heads \subseteq Member /\ eligible \subseteq Member /\ absent \subseteq VectorSet
        JobType == job \in [source : SUBSET Member, token : Nat, left : Left]
        TableType == /\ gens \subseteq Generation /\ head \in Generation
                     /\ leases \subseteq Lease /\ coverage \subseteq Member
        SinceType == since \in [Worker -> Lag]
        FailureType == failures \in [Worker -> Nat]
        ReaderType == /\ rpc \in [Reader -> ReaderPc] /\ rgen \in [Reader -> Generation]
                      /\ rleft \in [Reader -> Left]
                      /\ found \in [Reader -> SUBSET Member]
                      /\ asked \in [Reader -> SUBSET Member]
        BoundType == changes \in Nat /\ faults \in Nat
  <1>0. /\ MemberType /\ JobType /\ TableType /\ SinceType /\ FailureType /\ ReaderType /\ BoundType
        /\ WorkerType
    BY DEF TypeOK, WorkerType
  <1>1. MemberType' /\ ReaderType' /\ BoundType'
    <2>1. UNCHANGED <<members, readers, changes>> /\ faults' \in {faults, faults + 1}
      BY DEF Step, Scan, RefreshSource, RefreshHead, RebuildSource, CheckActive, Read, Load, Report,
             Fail, Retire, RetireReclaim, Claim, Stage, Publish, PublishReclaim, Abandon, Sweep, bounds
    <2> QED BY <1>0, <2>1 DEF members, readers
  <1>2. SinceType'
    BY <1>0, LeaseAssumption DEF Step, Lag
  <1>3. ASSUME NEW d \in 0 .. since[w] PROVE d \in Lag
    BY <1>0, LeaseAssumption, <1>3 DEF Lag
  <1>4. JobType' /\ TableType' /\ FailureType' /\ WorkerType'
    <2> USE <1>0
    <2>0. {"scan", "refresh", "compare", "rebuild", "retire", "retired", "active", "claim", "report",
           "sweep", "read", "stage", "load", "publish", "reclaim", "abandon"} \subseteq WorkerPc
      BY DEF WorkerPc, Claiming
    <2>1. CASE Scan(w)
      BY <2>0, <2>1, GotoType DEF Scan, tables
    <2>2. CASE RefreshSource(w)
      BY <2>0, <2>2, CurrentType DEF RefreshSource, tables, WorkerType
    <2>3. CASE RefreshHead(w)
      BY <2>0, <2>3, GotoType, LeaveType DEF RefreshHead, tables
    <2>4. CASE RebuildSource(w)
      BY <2>0, <2>4, CurrentType DEF RebuildSource, tables, WorkerType
    <2>5. CASE CheckActive(w)
      BY <2>0, <2>5, GotoType, LeaveType DEF CheckActive, tables
    <2>6. CASE Read(w)
      <3>1. Sets(src[w]) \in SUBSET VectorSet /\ src[w] \in SUBSET Member
        BY SetsType DEF WorkerType
      <3>2. WorkerType'
        BY <2>0, <2>6, <3>1 DEF Read, WorkerType
      <3> QED BY <2>6, <3>2 DEF Read, tables
    <2>7. CASE Load(w)
      BY <2>0, <2>7, GotoType, GiveUpType DEF Load, tables
    <2>8. CASE Report(w)
      <3>1. WorkerType'
        BY <2>0, <2>8 DEF Report, WorkerType
      <3> QED BY <2>8, <3>1 DEF Report, WorkerType
    <2>9. CASE Fail(w)
      BY <2>9, GiveUpType, ScanErrorType DEF Fail, tables
    <2>10. ASSUME NEW d \in 0 .. since[w],
                  Retire(w, d) \/ Publish(w, d) \/ Claim(w, d) \/ Abandon(w, d)
           PROVE  JobType' /\ TableType' /\ FailureType' /\ WorkerType'
      <3>0. d \in Lag /\ -d \in Left /\ BuildLease - d \in Left
        BY <1>3, LeftRange
      <3>1. CASE Retire(w, d)
        <4>1. WorkerType'
          BY <2>0, <3>1, GotoType, LeaveType DEF Retire
        <4> QED BY <3>0, <3>1, <4>1, NoHeadType DEF Retire
      <3>2. CASE Publish(w, d)
        <4>1. WorkerType'
          BY <2>0, <3>2, GotoType, GiveUpType DEF Publish
        <4>2. Built(w) \in Generation
          BY DEF Built, Generation, WorkerType
        <4> QED BY <3>0, <3>2, <4>1, <4>2 DEF Publish
      <3>3. CASE Claim(w, d)
        <4>1. WorkerType'
          BY <2>0, <3>3, LeaveType DEF Claim, WorkerType
        <4> QED BY <3>0, <3>3, <4>1 DEF Claim, WorkerType
      <3>4. CASE Abandon(w, d)
        <4>1. WorkerType' /\ FailureType'
          BY <2>0, <3>4, LeaveType, ScanErrorType DEF Abandon
        <4> QED BY <3>0, <3>4, <4>1 DEF Abandon
      <3> QED BY <2>10, <3>1, <3>2, <3>3, <3>4
    <2>11. ASSUME NEW d \in 0 .. since[w],
                  RetireReclaim(w, d) \/ PublishReclaim(w, d) \/ Sweep(w, d) \/ Stage(w, d)
           PROVE  JobType' /\ TableType' /\ FailureType' /\ WorkerType'
      <3>1. CASE RetireReclaim(w, d)
        BY <2>0, <3>1, LeaveType DEF RetireReclaim, Reclaim
      <3>2. CASE PublishReclaim(w, d)
        BY <2>0, <3>2, LeaveType DEF PublishReclaim, Reclaim
      <3>3. CASE Sweep(w, d)
        BY <2>0, <3>3, GotoType DEF Sweep, Reclaim
      <3>4. CASE Stage(w, d)
        <4>1. WorkerType'
          BY <2>0, <3>4, GotoType, GiveUpType DEF Stage
        <4>2. Built(w) \in Generation
          BY DEF Built, Generation, WorkerType
        <4> QED BY <3>4, <4>1, <4>2 DEF Stage
      <3> QED BY <2>11, <3>1, <3>2, <3>3, <3>4
    <2> QED BY <2>1, <2>2, <2>3, <2>4, <2>5, <2>6, <2>7, <2>8, <2>9, <2>10, <2>11 DEF Step
  <1> QED BY <1>1, <1>2, <1>4 DEF TypeOK, WorkerType

-----------------------------------------------------------------------------
(* A worker's step: the generations it builds, and the tokens.             *)

\* What a step of w leaves alone: the other workers, and the searches.
LEMMA StepFrame ==
    ASSUME TypeOK, NEW w \in Worker, Step(w)
    PROVE  /\ \A v \in Worker \ {w} :
                /\ pc'[v] = pc[v] /\ src'[v] = src[v] /\ rows'[v] = rows[v] /\ tok'[v] = tok[v]
           /\ UNCHANGED <<members, readers>>
  <1> USE DEF TypeOK, Goto, Leave, GiveUp, ScanError, locals
  <1>1. CASE Scan(w) \/ RefreshSource(w) \/ RefreshHead(w) \/ RebuildSource(w)
    BY <1>1 DEF Scan, RefreshSource, RefreshHead, RebuildSource
  <1>2. CASE CheckActive(w) \/ Read(w) \/ Load(w) \/ Report(w) \/ Fail(w)
    BY <1>2 DEF CheckActive, Read, Load, Report, Fail
  <1>3. ASSUME NEW d \in 0 .. since[w],
               Retire(w, d) \/ RetireReclaim(w, d) \/ Claim(w, d) \/ Stage(w, d)
        PROVE  /\ \A v \in Worker \ {w} :
                    /\ pc'[v] = pc[v] /\ src'[v] = src[v] /\ rows'[v] = rows[v] /\ tok'[v] = tok[v]
               /\ UNCHANGED <<members, readers>>
    BY <1>3 DEF Retire, RetireReclaim, Claim, Stage
  <1>4. ASSUME NEW d \in 0 .. since[w],
               Publish(w, d) \/ PublishReclaim(w, d) \/ Abandon(w, d) \/ Sweep(w, d)
        PROVE  /\ \A v \in Worker \ {w} :
                    /\ pc'[v] = pc[v] /\ src'[v] = src[v] /\ rows'[v] = rows[v] /\ tok'[v] = tok[v]
               /\ UNCHANGED <<members, readers>>
    BY <1>4 DEF Publish, PublishReclaim, Abandon, Sweep
  <1> QED BY <1>1, <1>2, <1>3, <1>4 DEF Step

\* A step of w stores only what w built, makes only that the head, and
\* builds only from all the payloads of its source.
LEMMA StepBuilds ==
    ASSUME TypeOK, NEW w \in Worker, Step(w)
    PROVE  /\ \/ gens' \subseteq gens
              \/ pc[w] = "stage" /\ gens' = gens \cup {Built(w)}
           /\ \/ head' \in {head, NoHead}
              \/ pc[w] = "publish" /\ head' = Built(w)
           /\ pc'[w] \in {"stage", "load", "publish"} =>
                \/ pc[w] = "read" /\ rows'[w] = Sets(src[w]) /\ src'[w] = src[w]
                \/ /\ pc[w] \in {"stage", "load", "publish"}
                   /\ rows'[w] = rows[w] /\ src'[w] = src[w]
  <1> DEFINE
        Stored == \/ gens' \subseteq gens
                  \/ pc[w] = "stage" /\ gens' = gens \cup {Built(w)}
        Headed == \/ head' \in {head, NoHead}
                  \/ pc[w] = "publish" /\ head' = Built(w)
        Filled == pc'[w] \in {"stage", "load", "publish"} =>
                     \/ pc[w] = "read" /\ rows'[w] = Sets(src[w]) /\ src'[w] = src[w]
                     \/ /\ pc[w] \in {"stage", "load", "publish"}
                        /\ rows'[w] = rows[w] /\ src'[w] = src[w]
  <1>1. Stored /\ Headed
    <2>1. CASE \/ Scan(w) \/ RefreshSource(w) \/ RefreshHead(w) \/ RebuildSource(w)
               \/ CheckActive(w) \/ Read(w) \/ Load(w) \/ Report(w) \/ Fail(w)
      <3>1. gens' = gens /\ head' = head
        BY <2>1 DEF Scan, RefreshSource, RefreshHead, RebuildSource, CheckActive, Read, Load,
                    Report, Fail, tables
      <3> QED BY <3>1
    <2>2. ASSUME NEW d \in 0 .. since[w],
                 RetireReclaim(w, d) \/ PublishReclaim(w, d) \/ Sweep(w, d)
          PROVE  Stored /\ Headed
      BY <2>2 DEF RetireReclaim, PublishReclaim, Sweep, Reclaim
    <2>3. ASSUME NEW d \in 0 .. since[w], \/ Retire(w, d) \/ Claim(w, d) \/ Stage(w, d)
                                          \/ Publish(w, d) \/ Abandon(w, d)
          PROVE  Stored /\ Headed
      BY <2>3 DEF Retire, Claim, Stage, Publish, Abandon
    <2> QED BY <2>1, <2>2, <2>3 DEF Step
  <1>2. Filled
    <2> USE DEF TypeOK, Goto, Leave, GiveUp, ScanError, locals
    <2>1. CASE Scan(w) \/ RefreshSource(w) \/ RefreshHead(w) \/ RebuildSource(w)
      BY <2>1 DEF Scan, RefreshSource, RefreshHead, RebuildSource
    <2>2. CASE CheckActive(w) \/ Read(w) \/ Load(w)
      BY <2>2 DEF CheckActive, Read, Load
    <2>3. CASE Report(w) \/ Fail(w)
      BY <2>3 DEF Report, Fail
    <2>4. ASSUME NEW d \in 0 .. since[w],
                 Retire(w, d) \/ RetireReclaim(w, d) \/ Claim(w, d) \/ Stage(w, d)
          PROVE  Filled
      BY <2>4 DEF Retire, RetireReclaim, Claim, Stage
    <2>5. ASSUME NEW d \in 0 .. since[w],
                 Publish(w, d) \/ PublishReclaim(w, d) \/ Abandon(w, d) \/ Sweep(w, d)
          PROVE  Filled
      BY <2>5 DEF Publish, PublishReclaim, Abandon, Sweep
    <2> QED BY <2>1, <2>2, <2>3, <2>4, <2>5 DEF Step
  <1> QED BY <1>1, <1>2

\* Generations stay complete.
LEMMA StepWhole ==
    ASSUME IInv, NEW w \in Worker, Step(w)
    PROVE  Whole'
  <1> USE DEF IInv
  <1>1. pc[w] \in {"stage", "publish"} => Complete(Built(w))
    BY DEF Whole, Complete, Built
  <1>2. \A g \in gens' : Complete(g)
    BY <1>1, StepBuilds DEF Whole
  <1>3. Complete(head')
    BY <1>1, StepBuilds, NoHeadType DEF Whole
  <1>4. \A r \in Reader : Complete(rgen'[r])
    BY StepFrame DEF Whole, readers
  <1>5. \A v \in Worker : pc'[v] \in {"stage", "load", "publish"} => rows'[v] = Sets(src'[v])
    BY StepFrame, StepBuilds DEF Whole
  <1> QED BY <1>2, <1>3, <1>4, <1>5 DEF Whole, Complete, Sets

\* A worker goes on under the claim it has, or takes one that is new.
LEMMA StepFenced ==
    ASSUME IInv, NEW w \in Worker, Step(w)
    PROVE  Fenced'
  <1> USE DEF IInv
  <1> DEFINE
        Keeps == /\ job'.token = job.token
                 /\ pc'[w] \in Claiming => pc[w] \in Claiming /\ tok'[w] = tok[w]
        Takes == job'.token = job.token + 1 /\ tok'[w] = job.token + 1
  <1>1. Keeps \/ Takes
    <2> USE DEF TypeOK, Goto, Leave, GiveUp, ScanError, locals, tables, Claiming
    <2>1. CASE Scan(w) \/ RefreshSource(w) \/ RefreshHead(w) \/ RebuildSource(w)
      BY <2>1 DEF Scan, RefreshSource, RefreshHead, RebuildSource
    <2>2. CASE CheckActive(w) \/ Read(w) \/ Load(w)
      BY <2>2 DEF CheckActive, Read, Load
    <2>3. CASE Report(w) \/ Fail(w)
      BY <2>3 DEF Report, Fail
    <2>4. ASSUME NEW d \in 0 .. since[w],
                 Retire(w, d) \/ RetireReclaim(w, d) \/ Claim(w, d) \/ Stage(w, d)
          PROVE  Keeps \/ Takes
      BY <2>4 DEF Retire, RetireReclaim, Claim, Stage
    <2>5. ASSUME NEW d \in 0 .. since[w],
                 Publish(w, d) \/ PublishReclaim(w, d) \/ Abandon(w, d) \/ Sweep(w, d)
          PROVE  Keeps \/ Takes
      BY <2>5 DEF Publish, PublishReclaim, Abandon, Sweep
    <2> QED BY <2>1, <2>2, <2>3, <2>4, <2>5 DEF Step
  <1>2. job.token \in Nat /\ \A v \in Worker : tok[v] \in Nat
    BY DEF TypeOK
  <1>3. CASE Keeps
    BY <1>2, <1>3, StepFrame DEF Fenced
  <1>4. CASE Takes
    BY <1>2, <1>4, StepFrame DEF Fenced
  <1> QED BY <1>1, <1>3, <1>4

\* A worker takes nothing from the head or from a search.
LEMMA StepHeld ==
    ASSUME IInv, NEW w \in Worker, Step(w)
    PROVE  Held'
  <1> USE DEF IInv
  <1>0. UNCHANGED readers
    BY StepFrame
  <1>1. ASSUME gens \subseteq gens', leases' = leases, head' \in {head, NoHead} \cup gens'
        PROVE  Held'
    BY <1>0, <1>1 DEF Held, GenerationsKept, readers
  <1>2. ASSUME NEW d \in 0 .. since[w] PROVE d \in Lag
    BY LeaseAssumption, <1>2 DEF Lag, TypeOK
  <1>3. CASE \/ Scan(w) \/ RefreshSource(w) \/ RefreshHead(w) \/ RebuildSource(w)
             \/ CheckActive(w) \/ Read(w) \/ Load(w) \/ Report(w) \/ Fail(w)
    BY <1>1, <1>3 DEF Scan, RefreshSource, RefreshHead, RebuildSource, CheckActive, Read, Load,
                      Report, Fail, tables
  <1>4. ASSUME NEW d \in 0 .. since[w], Retire(w, d) \/ Claim(w, d) \/ Stage(w, d)
                                         \/ Publish(w, d) \/ Abandon(w, d)
        PROVE  Held'
    BY <1>1, <1>4 DEF Retire, Claim, Stage, Publish, Abandon
  <1>5. ASSUME NEW d \in 0 .. since[w], RetireReclaim(w, d) \/ PublishReclaim(w, d) \/ Sweep(w, d)
        PROVE  Held'
    BY <1>0, <1>2, <1>5, ReclaimKeeps DEF RetireReclaim, PublishReclaim, Sweep
  <1> QED BY <1>3, <1>4, <1>5 DEF Step

\* A worker's step keeps the invariant.
LEMMA StepKept ==
    ASSUME IInv, NEW w \in Worker, Step(w)
    PROVE  IInv'
  <1>1. AnswersComplete'
    BY StepFrame DEF IInv, AnswersComplete, readers
  <1> QED BY <1>1, StepType, StepWhole, StepFenced, StepHeld DEF IInv

-----------------------------------------------------------------------------
(* The other steps.                                                        *)

\* Initially nothing is indexed, claimed or leased.
LEMMA InitIInv == Init => IInv
  <1> SUFFICES ASSUME Init PROVE IInv OBVIOUS
  <1>1. -MaxDelay \in Left /\ 0 \in Lag
    BY LeaseAssumption DEF Left, Lag
  <1>2. TypeOK
    <2>1. NoJob \in [source : SUBSET Member, token : Nat, left : Left]
      BY <1>1 DEF NoJob
    <2> QED BY <1>1, <2>1, NoHeadType DEF Init, TypeOK, WorkerPc, ReaderPc
  <1>3. Whole
    BY NoHeadType DEF Init, Whole
  <1>4. Held
    BY DEF Init, Held, GenerationsKept
  <1>5. Fenced /\ AnswersComplete
    BY DEF Init, Fenced, AnswersComplete, Claiming
  <1> QED BY <1>2, <1>3, <1>4, <1>5 DEF IInv

\* A step that leaves the index, its workers and its searches alone.
LEMMA ApartKept ==
    ASSUME Whole, Held, Fenced, AnswersComplete, UNCHANGED <<tables, workers, readers>>
    PROVE  Whole' /\ Held' /\ Fenced' /\ AnswersComplete'
  <1>1. Whole'
    BY DEF Whole, Complete, Sets, tables, workers, locals, readers
  <1>2. Held' /\ Fenced' /\ AnswersComplete'
    BY DEF Held, GenerationsKept, Fenced, AnswersComplete, tables, workers, locals, readers
  <1> QED BY <1>1, <1>2

\* The members, their heads and their payloads may change at any time.
LEMMA ChangeKept ==
    ASSUME IInv, Change, heads' \subseteq Member, eligible' \subseteq Member,
           absent' \subseteq VectorSet
    PROVE  IInv'
  <1>1. TypeOK'
    BY DEF IInv, TypeOK, Change, tables, workers, locals, readers
  <1> QED BY <1>1, ApartKept DEF IInv, Change

\* Time takes nothing that has not run out.
LEMMA TickKept == ASSUME IInv, Tick PROVE IInv'
  <1> USE DEF IInv
  <1>1. /\ leases \subseteq Lease /\ rleft \in [Reader -> Left]
        /\ \A r \in Reader : rleft'[r] = Age(rleft[r])
    BY DEF Tick, TypeOK
  <1>2. TypeOK'
    <2>1. leases' \subseteq Lease
      BY <1>1, AgedLease DEF Tick
    <2>2. rleft' \in [Reader -> Left]
      BY <1>1, AgeLeft DEF Tick
    <2>3. since' \in [Worker -> Lag]
      BY LeaseAssumption DEF Tick, TypeOK, Lag
    <2>4. job' \in [source : SUBSET Member, token : Nat, left : Left]
      BY AgedJob DEF Tick
    <2> QED BY <2>1, <2>2, <2>3, <2>4 DEF TypeOK, Tick, members, locals, bounds
  <1>3. Whole'
    BY DEF Whole, Complete, Sets, Tick, locals
  <1>4. Held'
    <2>1. \A l \in leases' : l.gen \in gens'
      BY <1>1, AgedLease DEF Held, Tick
    <2>2. head' # NoHead => head' \in gens'
      BY DEF Held, GenerationsKept, Tick
    <2>3. ASSUME NEW r \in Reader, rpc'[r] # "idle", rleft'[r] > 0
          PROVE  /\ rgen'[r] \in gens'
                 /\ [gen |-> rgen'[r], left |-> rleft'[r], holder |-> r] \in leases'
      <3> DEFINE l == [gen |-> rgen[r], left |-> rleft[r], holder |-> r]
      <3>1. rleft[r] > 0
        BY <1>1, <2>3, AgeLeft
      <3>2. l \in leases /\ rgen[r] \in gens
        BY <2>3, <3>1 DEF Held, GenerationsKept, Tick
      <3>3. Aged(l) = [gen |-> rgen[r], left |-> Age(rleft[r]), holder |-> r]
        BY DEF Aged
      <3> QED BY <1>1, <3>2, <3>3 DEF Tick
    <2> QED BY <2>1, <2>2, <2>3 DEF Held, GenerationsKept
  <1>5. Fenced'
    BY AgedJob DEF Fenced, Tick, locals
  <1>6. AnswersComplete'
    BY DEF AnswersComplete, Tick
  <1> QED BY <1>2, <1>3, <1>4, <1>5, <1>6

\* What a search does concerns no worker.
LEMMA ReaderFrame ==
    ASSUME Fenced, UNCHANGED <<gens, head, job, workers>>
    PROVE  Fenced'
  BY DEF Fenced, workers, locals

\* A search leases a complete generation that is stored.
LEMMA AcquireKept ==
    ASSUME IInv, NEW r \in Reader, NEW d \in Lag, Acquire(r, d)
    PROVE  IInv'
  <1> USE DEF IInv
  <1> DEFINE l == [gen |-> head, left |-> ReaderLease - d, holder |-> r]
  <1>1. /\ \A q \in Reader : rpc'[q] = IF q = r THEN "check" ELSE rpc[q]
        /\ \A q \in Reader : rgen'[q] = IF q = r THEN head ELSE rgen[q]
        /\ \A q \in Reader : rleft'[q] = IF q = r THEN ReaderLease - d ELSE rleft[q]
    BY DEF Acquire, TypeOK
  <1>2. TypeOK'
    <2>1. l \in Lease
      BY LeftRange DEF Lease, TypeOK
    <2> QED BY <2>1, LeftRange DEF TypeOK, Acquire, members, workers, locals, bounds, ReaderPc
  <1>3. Whole'
    BY <1>1 DEF Whole, Complete, Sets, Acquire, workers, locals
  <1>4. Held'
    BY <1>1 DEF Held, GenerationsKept, Acquire
  <1>5. Fenced' /\ AnswersComplete'
    BY <1>1, ReaderFrame DEF Acquire, AnswersComplete
  <1> QED BY <1>2, <1>3, <1>4, <1>5

\* A search that ends gives up no lease but its own.
LEMMA IdleKept ==
    ASSUME IInv, NEW r \in Reader, ReaderIdle(r), UNCHANGED <<members, gens, head, job, coverage>>,
           UNCHANGED <<workers, changes>>, faults' \in Nat, leases' \subseteq Lease,
           \A l \in leases' : l.gen \in gens,
           leases \ HeldBy(r) \subseteq leases'
    PROVE  IInv'
  <1> USE DEF IInv
  <1>1. /\ \A q \in Reader : rpc'[q] = IF q = r THEN "idle" ELSE rpc[q]
        /\ \A q \in Reader : rgen'[q] = IF q = r THEN NoHead ELSE rgen[q]
        /\ \A q \in Reader : q # r => rleft'[q] = rleft[q] /\ found'[q] = found[q] /\ asked'[q] = asked[q]
    BY DEF ReaderIdle, TypeOK
  <1>2. TypeOK'
    BY LeaseAssumption, NoHeadType DEF TypeOK, ReaderIdle, members, workers, locals, bounds, ReaderPc, Left
  <1>3. Whole'
    BY <1>1, NoHeadType DEF Whole, Complete, Sets, workers, locals
  <1>4. Held'
    <2>1. ASSUME NEW q \in Reader, rpc'[q] # "idle", rleft'[q] > 0
          PROVE  /\ rgen'[q] \in gens'
                 /\ [gen |-> rgen'[q], left |-> rleft'[q], holder |-> q] \in leases'
      <3>1. q # r /\ rpc[q] # "idle" /\ rleft[q] > 0
        BY <1>1, <2>1
      <3> QED BY <1>1, <3>1 DEF Held, GenerationsKept, HeldBy
    <2> QED BY <2>1 DEF Held, GenerationsKept
  <1>5. Fenced' /\ AnswersComplete'
    BY <1>1, ReaderFrame DEF AnswersComplete
  <1> QED BY <1>2, <1>3, <1>4, <1>5

\* The second comparison keeps the lease, or gives it up.
LEMMA CheckKept ==
    ASSUME IInv, NEW r \in Reader, Check(r)
    PROVE  IInv'
  <1> USE DEF IInv
  <1>1. CASE ReaderGoto(r, "query") /\ leases' = leases
    <2>1. \A q \in Reader : rpc'[q] \in {rpc[q], "query"} /\ (rpc'[q] # "idle" => rpc[q] # "idle")
      BY <1>1 DEF Check, ReaderGoto, TypeOK
    <2>2. TypeOK'
      BY <1>1 DEF Check, ReaderGoto, TypeOK, members, workers, locals, bounds, ReaderPc
    <2>3. Whole'
      BY <1>1 DEF Check, ReaderGoto, Whole, Complete, Sets, workers, locals
    <2>4. Held'
      BY <1>1, <2>1 DEF Check, ReaderGoto, Held, GenerationsKept
    <2>5. Fenced' /\ AnswersComplete'
      BY <1>1, <2>1, ReaderFrame DEF Check, ReaderGoto, AnswersComplete
    <2> QED BY <2>2, <2>3, <2>4, <2>5
  <1>2. CASE ReaderIdle(r) /\ leases' = leases \ HeldBy(r)
    BY <1>2, IdleKept DEF Check, TypeOK, Held, bounds
  <1> QED BY <1>1, <1>2 DEF Check

\* A search of a complete generation with the current source finds all that
\* is current.
LEMMA ResolveKept ==
    ASSUME IInv, NEW r \in Reader, Resolve(r)
    PROVE  IInv'
  <1> USE DEF IInv
  <1>1. \A q \in Reader : rpc'[q] # "idle" => rpc[q] # "idle"
    BY DEF Resolve, ReaderGoto, TypeOK
  <1>2. UNCHANGED <<members, tables, workers, bounds, rgen, rleft>>
    BY DEF Resolve, ReaderGoto
  <1>3. TypeOK'
    <2>1. Current \subseteq Member
      BY CurrentType
    <2>2. rpc' \in [Reader -> ReaderPc]
      BY DEF Resolve, ReaderGoto, TypeOK, ReaderPc
    <2>3. found' \in [Reader -> SUBSET Member] /\ asked' \in [Reader -> SUBSET Member]
      BY <2>1 DEF Resolve, ReaderGoto, resolved, TypeOK
    <2> QED BY <1>2, <2>2, <2>3 DEF TypeOK, members, tables, workers, locals, bounds
  <1>4. Whole'
    BY <1>2 DEF Whole, Complete, Sets, tables, workers, locals
  <1>5. Held' /\ Fenced'
    BY <1>1, <1>2 DEF Held, GenerationsKept, Fenced, tables, workers, locals
  <1>6. AnswersComplete'
    <2>1. ASSUME Current = rgen[r].source
          PROVE  resolved(r) = Current
      BY <2>1 DEF resolved, Whole, Complete, Sets
    <2> QED BY <2>1 DEF Resolve, ReaderGoto, AnswersComplete, TypeOK
  <1> QED BY <1>3, <1>4, <1>5, <1>6

\* A release, of a lease that has run out or not.
LEMMA ReleaseKept ==
    ASSUME IInv, NEW r \in Reader, NEW d \in Lag, Release(r, d)
    PROVE  IInv'
  <1>1. /\ leases' \subseteq Lease /\ \A l \in leases' : l.gen \in gens
        /\ leases \ HeldBy(r) \subseteq leases'
    BY DEF IInv, TypeOK, Held, Release, Orphans, HeldBy, Lease
  <1> QED BY <1>1, IdleKept DEF Release, IInv, TypeOK, bounds

\* A release that fails.
LEMMA ReleaseFailsKept ==
    ASSUME IInv, NEW r \in Reader, ReleaseFails(r)
    PROVE  IInv'
  <1>1. /\ leases' \subseteq Lease /\ \A l \in leases' : l.gen \in gens
        /\ leases \ HeldBy(r) \subseteq leases'
    BY DEF IInv, TypeOK, Held, ReleaseFails, Orphans, HeldBy, Lease
  <1> QED BY <1>1, IdleKept DEF ReleaseFails, IInv, TypeOK

\* A crash leaves the generations, the head, the claim and the leases.
LEMMA CrashKept == ASSUME IInv, Crash PROVE IInv'
  <1> USE DEF IInv
  <1>1. leases' \subseteq Lease /\ \A l \in leases' : l.gen \in gens
    BY SMTT(30) DEF TypeOK, Held, Crash, Orphans, Lease
  <1>2. TypeOK'
    BY <1>1, LeaseAssumption, NoHeadType DEF TypeOK, Crash, members, WorkerPc, ReaderPc, Left, Lag
  <1>3. Whole'
    BY NoHeadType DEF Whole, Complete, Sets, Crash
  <1>4. Held'
    BY <1>1 DEF Held, GenerationsKept, Crash
  <1>5. Fenced' /\ AnswersComplete'
    BY DEF Fenced, AnswersComplete, Crash, Claiming
  <1> QED BY <1>2, <1>3, <1>4, <1>5

\* Every step keeps the invariant.
LEMMA NextIInv == IInv /\ [Next]_vars => IInv'
  <1> SUFFICES ASSUME IInv, [Next]_vars PROVE IInv' OBVIOUS
  <1>1. ASSUME NEW m \in Member, PublishEmbeddingHead(m) PROVE IInv'
    BY <1>1, ChangeKept DEF PublishEmbeddingHead, IInv, TypeOK
  <1>2. ASSUME NEW m \in Member, ChangeEligibility(m) PROVE IInv'
    BY <1>2, ChangeKept DEF ChangeEligibility, IInv, TypeOK
  <1>3. ASSUME NEW s \in SUBSET Member, DeleteEmbeddingHeads(s) PROVE IInv'
    BY <1>3, ChangeKept DEF DeleteEmbeddingHeads, IInv, TypeOK
  <1>4. ASSUME NEW v \in VectorSet, ChangePayload(v) PROVE IInv'
    BY <1>4, ChangeKept DEF ChangePayload, IInv, TypeOK
  <1>5. ASSUME UNCHANGED vars PROVE IInv'
    <2>1. TypeOK'
      BY <1>5 DEF IInv, TypeOK, vars, members, tables, workers, locals, readers, bounds
    <2> QED BY <1>5, <2>1, ApartKept DEF IInv, vars
  <1> QED BY <1>1, <1>2, <1>3, <1>4, <1>5, TickKept, StepKept, AcquireKept, CheckKept,
             ResolveKept, ReleaseKept, ReleaseFailsKept, CrashKept DEF Next

-----------------------------------------------------------------------------
(* The theorems.                                                           *)

\* The invariant holds throughout.
THEOREM Invariance == Spec => []IInv
  BY InitIInv, NextIInv, PTL DEF Spec

\* Every variable keeps its type.
THEOREM TypeCorrect == Spec => []TypeOK
  BY Invariance, PTL DEF IInv

\* No reclaim takes a generation that the head names or that a search may
\* still read.
THEOREM KeepsGenerations == Spec => []GenerationsKept
  BY Invariance, PTL DEF IInv, Held

\* A search that answers has found what there was to find.
THEOREM CompleteAnswers == Spec => []AnswersComplete
  BY Invariance, PTL DEF IInv

\* No two workers act under one token, and none under one that was never
\* given out: the owner in a claim's row is not needed to tell them apart.
THEOREM OneOwner == Spec => []Fenced
  BY Invariance, PTL DEF IInv

\* A step that changes the head leaves one of the current source in place.
LEMMA HeadStep ==
    IInv /\ [Next]_vars =>
        [Current # {} /\ head.source = Current /\ Current' = Current
            => head'.source = Current']_vars
  <1> SUFFICES ASSUME IInv, Next, Current # {}, head.source = Current, Current' = Current
               PROVE  head'.source = Current
    OBVIOUS
  <1>1. ASSUME NEW w \in Worker, Step(w) PROVE head'.source = Current
    <2>1. CASE \E d \in 0 .. since[w] : Publish(w, d)
      <3>1. head' = head \/ (head' = Built(w) /\ Current = src[w])
        BY <2>1 DEF Publish
      <3>2. Built(w).source = src[w]
        BY DEF Built
      <3> QED BY <3>1, <3>2
    <2>2. CASE \E d \in 0 .. since[w] : Retire(w, d)
      BY <2>2 DEF Retire
    <2>3. CASE \/ Scan(w) \/ RefreshSource(w) \/ RefreshHead(w) \/ RebuildSource(w)
               \/ CheckActive(w) \/ Read(w) \/ Load(w) \/ Report(w) \/ Fail(w)
               \/ \E d \in 0 .. since[w] :
                    \/ RetireReclaim(w, d) \/ Claim(w, d) \/ Stage(w, d)
                    \/ PublishReclaim(w, d) \/ Abandon(w, d) \/ Sweep(w, d)
      BY <2>3 DEF Scan, RefreshSource, RefreshHead, RebuildSource, CheckActive, Read, Load, Report,
                  Fail, RetireReclaim, Claim, Stage, PublishReclaim, Abandon, Sweep, tables
    <2> QED BY <1>1, <2>1, <2>2, <2>3 DEF Step
  <1>2. CASE ~\E w \in Worker : Step(w)
    BY <1>2 DEF Next, PublishEmbeddingHead, ChangeEligibility, DeleteEmbeddingHeads, ChangePayload,
                Change, Tick, Acquire, Check, Resolve, Release, ReleaseFails, Crash, tables
  <1> QED BY <1>1, <1>2

\* A head of the current source stays until the source changes.
THEOREM KeepsCurrentHead == Spec => CurrentHeadKept
  BY Invariance, HeadStep, PTL DEF Spec, CurrentHeadKept

\* A step that ends a live claim of the current source is its owner's.
LEMMA ClaimStep ==
    IInv /\ [Next]_vars =>
        [Current # {} /\ job.source = Current /\ job.left > 0 =>
            \/ job' \in {job, Aged(job)}
            \/ \E w \in Worker : pc[w] \in Claiming /\ tok[w] = job.token /\ pc'[w] # pc[w]]_vars
  <1> SUFFICES ASSUME IInv, Next, Current # {}, job.source = Current, job.left > 0
               PROVE  \/ job' \in {job, Aged(job)}
                      \/ \E w \in Worker : pc[w] \in Claiming /\ tok[w] = job.token /\ pc'[w] # pc[w]
    OBVIOUS
  <1>1. ASSUME NEW w \in Worker, Step(w)
        PROVE  job' = job \/ (pc[w] \in Claiming /\ tok[w] = job.token /\ pc'[w] # pc[w])
    <2>0. pc \in [Worker -> WorkerPc] /\ job.left \in Int
      BY DEF IInv, TypeOK, Left
    <2>1. CASE \E d \in 0 .. since[w] : Publish(w, d)
      BY <2>0, <2>1 DEF Publish, Claimed, Goto, Claiming
    <2>2. CASE \E d \in 0 .. since[w] : Retire(w, d)
      BY <2>2 DEF Retire
    <2>3. CASE \E d \in 0 .. since[w] : Claim(w, d)
      BY <2>0, <2>3 DEF Claim, InProgress
    <2>4. CASE \E d \in 0 .. since[w] : Abandon(w, d)
      BY <2>0, <2>4 DEF Abandon, ScanError, Leave, Claiming
    <2>5. CASE \/ Scan(w) \/ RefreshSource(w) \/ RefreshHead(w) \/ RebuildSource(w)
               \/ CheckActive(w) \/ Read(w) \/ Load(w) \/ Report(w) \/ Fail(w)
               \/ \E d \in 0 .. since[w] :
                    RetireReclaim(w, d) \/ Stage(w, d) \/ PublishReclaim(w, d) \/ Sweep(w, d)
      BY <2>5 DEF Scan, RefreshSource, RefreshHead, RebuildSource, CheckActive, Read, Load, Report,
                  Fail, RetireReclaim, Stage, PublishReclaim, Sweep, tables
    <2> QED BY <1>1, <2>1, <2>2, <2>3, <2>4, <2>5 DEF Step
  <1>2. CASE ~\E w \in Worker : Step(w)
    BY <1>2 DEF Next, PublishEmbeddingHead, ChangeEligibility, DeleteEmbeddingHeads, ChangePayload,
                Change, Tick, Acquire, Check, Resolve, Release, ReleaseFails, Crash, tables
  <1> QED BY <1>1, <1>2

\* A live build of the current source is its owner's to end.
THEOREM RespectsClaim == Spec => ClaimRespected
  BY Invariance, ClaimStep, PTL DEF Spec, ClaimRespected
=============================================================================
