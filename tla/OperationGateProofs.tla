------------------------- MODULE OperationGateProofs -------------------------
(***************************************************************************)
(* Proofs about the operation gate, for any number of callers of each      *)
(* kind.                                                                   *)
(*                                                                         *)
(* The argument has two layers.  The lemmas on Acquire, Release and        *)
(* Abandon say that a weighted semaphore keeps SemOK (a full-weight holder *)
(* is alone, nobody is listed twice), grants only to its waiters and takes *)
(* from nobody but the caller.  IInv then ties every program point of the  *)
(* gate methods to what the caller holds there.                            *)
(***************************************************************************)
EXTENDS OperationGate, TLAPS, FiniteSetTheorems, SequenceTheorems

Waiting(s) == {s.queue[i] : i \in 1..Len(s.queue)}
Members(s) == s.held \cup Waiting(s)

\* What a semaphore of golang.org/x/sync keeps true of itself.
SemOK(s, ex) ==
    /\ s \in Semaphore
    /\ \A p \in s.held \cap ex : s.held = {p}
    /\ \A i \in 1..Len(s.queue) : s.queue[i] \notin s.held
    /\ \A i, j \in 1..Len(s.queue) : i # j => s.queue[i] # s.queue[j]

-----------------------------------------------------------------------------
\* The positions notifyWaiters serves are the first ones of the queue.
LEMMA ServedIsPrefix ==
    ASSUME NEW s \in Semaphore, NEW ex
    PROVE  /\ Cardinality(Served(s, ex)) \in 0..Len(s.queue)
           /\ Served(s, ex) = 1..Cardinality(Served(s, ex))
<1> DEFINE S == Served(s, ex)
           n == Len(s.queue)
           c == Cardinality(S)
<1>1. n \in Nat
  BY LenProperties DEF Semaphore
<1>2. S \subseteq 1..n /\ \A i \in S : 1..i \subseteq S
  <2> DEFINE F(j) == Fits(s.held \cup {s.queue[k] : k \in 1..(j - 1)}, ex, s.queue[j])
  <2>1. S = {i \in 1..n : \A j \in 1..i : F(j)}
    BY DEF Served
  <2> HIDE DEF F, S, n
  <2> SUFFICES ASSUME NEW i \in S, NEW k \in 1..i PROVE k \in S
    BY <2>1
  <2>2. i \in 1..n /\ \A j \in 1..i : F(j)
    BY <2>1
  <2>3. k \in 1..n /\ 1..k \subseteq 1..i
    BY <1>1, <2>2
  <2> QED BY <2>1, <2>2, <2>3
<1>3. IsFiniteSet(1..n) /\ Cardinality(1..n) = n
  BY <1>1, FS_Interval
<1>4. IsFiniteSet(S) /\ c <= n /\ c \in Nat
  <2>1. IsFiniteSet(S) /\ c <= Cardinality(1..n)
    BY <1>2, <1>3, FS_Subset
  <2>2. c \in Nat
    BY <2>1, FS_CardinalityType
  <2> QED BY <2>1, <2>2, <1>3
<1>5. S \subseteq 1..c
  <2> SUFFICES ASSUME NEW i \in S PROVE i \in 1..c
    OBVIOUS
  <2>1. i \in Nat /\ 1 <= i
    BY <1>1, <1>2
  <2>2. Cardinality(1..i) = i
    BY <2>1, FS_Interval
  <2>3. Cardinality(1..i) <= c
    BY <1>2, <1>4, FS_Subset
  <2> QED BY <2>1, <2>2, <2>3, <1>4
<1>6. IsFiniteSet(1..c) /\ Cardinality(1..c) = c
  BY <1>4, FS_Interval
<1>7. 1..c = S
  BY <1>5, <1>6, FS_Subset
<1> HIDE DEF S, n, c
<1>8. c \in 0..n
  BY <1>1, <1>4
<1> QED BY <1>7, <1>8 DEF S, n, c

\* notifyWaiters keeps the semaphore sound, grants tokens only to callers that
\* were waiting and takes them from nobody.
LEMMA NotifyOK ==
    ASSUME NEW s, NEW ex, SemOK(s, ex)
    PROVE  LET t == notifyWaiters(s, ex)
           IN  /\ SemOK(t, ex)
               /\ s.held \subseteq t.held
               /\ Members(t) = Members(s)
               /\ Waiting(t) \subseteq Waiting(s)
<1> DEFINE S == Served(s, ex)
           c == Cardinality(S)
           n == Len(s.queue)
           t == notifyWaiters(s, ex)
<1>1. s \in Semaphore /\ n \in Nat /\ s.held \subseteq Proc
  BY LenProperties DEF SemOK, Semaphore
<1>2. c \in 0..n /\ S = 1..c
  BY <1>1, ServedIsPrefix
<1>3. \A i \in 1..n : s.queue[i] \in Proc
  BY <1>1, ElementOfSeq DEF Semaphore
<1>4. /\ t.queue \in Seq(Proc)
      /\ Len(t.queue) = n - c
      /\ \A i \in 1..(n - c) : t.queue[i] = s.queue[c + i]
  <2>1. t.queue = SubSeq(s.queue, c + 1, n)
    BY DEF notifyWaiters
  <2>2. \A i \in (c + 1)..n : s.queue[i] \in Proc
    BY <1>1, <1>2, <1>3
  <2>3. c + 1 \in Int /\ n \in Int
    BY <1>1, <1>2
  <2>4. /\ SubSeq(s.queue, c + 1, n) \in Seq(Proc)
        /\ Len(SubSeq(s.queue, c + 1, n)) = IF c + 1 <= n THEN n - (c + 1) + 1 ELSE 0
        /\ \A i \in 1..(n - (c + 1) + 1) : SubSeq(s.queue, c + 1, n)[i] = s.queue[(c + 1) + i - 1]
    BY <2>2, <2>3, SubSeqProperties
  <2> HIDE DEF c, n, S, t
  <2>5. n - (c + 1) + 1 = n - c /\ (c + 1 <= n \/ n - c = 0)
    BY <1>1, <1>2
  <2>6. \A i \in 1..(n - c) : (c + 1) + i - 1 = c + i
    BY <1>1, <1>2
  <2> QED BY <2>1, <2>4, <2>5, <2>6
<1>5. t.held = s.held \cup {s.queue[i] : i \in 1..c}
  BY <1>2 DEF notifyWaiters
<1>6. t \in Semaphore
  <2>1. t.held \subseteq Proc
    BY <1>1, <1>2, <1>3, <1>5
  <2>2. t = [held |-> t.held, queue |-> t.queue]
    BY DEF notifyWaiters
  <2> QED BY <2>1, <2>2, <1>4 DEF Semaphore
<1>7. \A i \in 1..c : \A j \in 1..i :
          Fits(s.held \cup {s.queue[k] : k \in 1..(j - 1)}, ex, s.queue[j])
  BY <1>2 DEF Served
<1> HIDE DEF S, c, n, t
<1>8. \A p \in t.held \cap ex : t.held = {p}
  <2> SUFFICES ASSUME NEW p \in t.held, p \in ex PROVE t.held = {p}
    OBVIOUS
  <2>1. CASE p \in s.held
    <3>1. s.held = {p}
      BY <2>1 DEF SemOK
    <3>2. c = 0
      <4> SUFFICES ASSUME c # 0 PROVE FALSE
        OBVIOUS
      <4>1. 1 \in 1..c /\ 1 \in 1..1
        BY <1>1, <1>2
      <4>2. Fits(s.held \cup {s.queue[k] : k \in 1..(1 - 1)}, ex, s.queue[1])
        BY <1>7, <4>1
      <4> QED BY <4>2, <3>1 DEF Fits
    <3> QED BY <3>1, <3>2, <1>5
  <2>2. CASE p \notin s.held
    <3>1. PICK i \in 1..c : p = s.queue[i]
      BY <2>2, <1>5
    <3>2. s.held \cup {s.queue[k] : k \in 1..(i - 1)} = {}
      <4>1. i \in 1..i
        BY <1>2
      <4> QED BY <1>7, <3>1, <4>1 DEF Fits
    <3>3. s.held = {} /\ i = 1
      <4>1. 1 \in 1..(i - 1) => FALSE
        BY <3>2
      <4> QED BY <3>2, <4>1, <1>1, <1>2
    <3>4. c = 1
      <4> SUFFICES ASSUME c # 1 PROVE FALSE
        OBVIOUS
      <4>1. 2 \in 1..c /\ 2 \in 1..2 /\ 1 \in 1..(2 - 1)
        BY <1>1, <1>2
      <4>2. Fits(s.held \cup {s.queue[k] : k \in 1..(2 - 1)}, ex, s.queue[2])
        BY <1>7, <4>1
      <4>3. p \in s.held \cup {s.queue[k] : k \in 1..(2 - 1)}
        BY <4>1, <3>1, <3>3
      <4> QED BY <4>2, <4>3 DEF Fits
    <3> QED BY <3>1, <3>3, <3>4, <1>5
  <2> QED BY <2>1, <2>2
<1>9. \A i \in 1..(n - c) : c + i \in 1..n /\ c + i \notin 1..c
  BY <1>1, <1>2
<1>10. \A i, j \in 1..n : i # j => s.queue[i] # s.queue[j]
  BY DEF SemOK, n
<1>11. \A i \in 1..n : s.queue[i] \notin s.held
  BY DEF SemOK, n
<1>12. 1..c \subseteq 1..n
  BY <1>1, <1>2
<1>13. \A i \in 1..Len(t.queue) : t.queue[i] \notin t.held
  <2> SUFFICES ASSUME NEW i \in 1..(n - c) PROVE s.queue[c + i] \notin t.held
    BY <1>4
  <2> QED BY <1>5, <1>9, <1>10, <1>11, <1>12
<1>14. \A i, j \in 1..Len(t.queue) : i # j => t.queue[i] # t.queue[j]
  <2> SUFFICES ASSUME NEW i \in 1..(n - c), NEW j \in 1..(n - c), i # j
               PROVE s.queue[c + i] # s.queue[c + j]
    BY <1>4
  <2>1. c + i # c + j
    BY <1>1, <1>2
  <2> QED BY <2>1, <1>9, <1>10
<1>15. Waiting(t) = {s.queue[c + i] : i \in 1..(n - c)}
  BY <1>4 DEF Waiting
<1>16. Waiting(t) \subseteq Waiting(s)
  BY <1>15, <1>9 DEF Waiting, n
<1>17. Members(t) = Members(s)
  <2>1. \A i \in 1..n : i \in 1..c \/ (i - c \in 1..(n - c) /\ c + (i - c) = i)
    BY <1>1, <1>2
  <2>2. Waiting(s) \subseteq {s.queue[i] : i \in 1..c} \cup Waiting(t)
    BY <2>1, <1>15 DEF Waiting, n
  <2>3. {s.queue[i] : i \in 1..c} \subseteq Waiting(s)
    BY <1>12 DEF Waiting, n
  <2> QED BY <2>2, <2>3, <1>5, <1>16 DEF Members
<1>18. s.held \subseteq t.held
  BY <1>5
<1>19. SemOK(t, ex)
  BY <1>6, <1>8, <1>13, <1>14 DEF SemOK
<1> QED BY <1>16, <1>17, <1>18, <1>19 DEF t

\* A function on 1..k is a sequence of length k.
LEMMA FunctionIsSeq ==
    ASSUME NEW S, NEW k \in Nat, NEW f \in [1..k -> S]
    PROVE  f \in Seq(S) /\ Len(f) = k
OBVIOUS

\* A caller that gives up leaves the queue, and the others keep their order.
LEMMA WithoutOK ==
    ASSUME NEW q \in Seq(Proc), NEW m \in 1..Len(q),
           \A i, j \in 1..Len(q) : i # j => q[i] # q[j]
    PROVE  LET w == Without(q, q[m])
           IN  /\ w \in Seq(Proc)
               /\ Len(w) = Len(q) - 1
               /\ \A i \in 1..(Len(q) - 1) : w[i] = IF i < m THEN q[i] ELSE q[i + 1]
<1> DEFINE n == Len(q)
           w == Without(q, q[m])
           v == [i \in 1..(n - 1) |-> IF i < m THEN q[i] ELSE q[i + 1]]
<1>1. n \in Nat /\ n >= 1 /\ m \in 1..n
  BY LenProperties
<1>2. \A i \in 1..(n - 1) : (\E j \in 1..i : q[j] = q[m]) <=> ~(i < m)
  <2> SUFFICES ASSUME NEW i \in 1..(n - 1)
               PROVE (\E j \in 1..i : q[j] = q[m]) <=> ~(i < m)
    OBVIOUS
  <2>1. \A j \in 1..i : j \in 1..n /\ (q[j] = q[m] <=> j = m)
    BY <1>1
  <2>2. m \in 1..i <=> ~(i < m)
    BY <1>1
  <2> QED BY <2>1, <2>2
<1>3. w = v
  BY <1>2 DEF Without
<1>4. \A i \in 1..(n - 1) : v[i] \in Proc
  <2> SUFFICES ASSUME NEW i \in 1..(n - 1) PROVE v[i] \in Proc
    OBVIOUS
  <2>1. i \in 1..n /\ i + 1 \in 1..n
    BY <1>1
  <2>2. q[i] \in Proc /\ q[i + 1] \in Proc
    BY <2>1, ElementOfSeq
  <2> QED BY <2>2
<1> HIDE DEF n, w
<1>5. n - 1 \in Nat /\ v \in [1..(n - 1) -> Proc]
  BY <1>1, <1>4
<1>6. v \in Seq(Proc) /\ Len(v) = n - 1
  <2> HIDE DEF v
  <2> QED BY <1>5, FunctionIsSeq
<1> QED BY <1>3, <1>6 DEF n, w

-----------------------------------------------------------------------------
(***************************************************************************)
(* A semaphore together with its users: exactly the callers in needers are *)
(* waiting or served, and those in holders are known to be served.         *)
(***************************************************************************)
Sound(s, ex, needers, holders) ==
    /\ SemOK(s, ex)
    /\ Members(s) = needers
    /\ holders \subseteq s.held

\* Acquire adds its caller and disturbs no holder.
LEMMA AcquireSound ==
    ASSUME NEW s, NEW ex, NEW N, NEW H, Sound(s, ex, N, H),
           NEW p \in Proc, p \notin N
    PROVE  Sound(Acquire(s, ex, p), ex, N \cup {p}, H)
<1> DEFINE n == Len(s.queue)
           t == Acquire(s, ex, p)
<1>1. s \in Semaphore /\ s.queue \in Seq(Proc) /\ n \in Nat /\ s.held \subseteq Proc
  BY LenProperties DEF Sound, SemOK, Semaphore
<1>2. p \notin s.held /\ \A i \in 1..n : s.queue[i] # p
  BY DEF Sound, Members, Waiting
<1>3. CASE s.queue = <<>> /\ Fits(s.held, ex, p)
  <2>1. t = [s EXCEPT !.held = s.held \cup {p}]
    BY <1>3 DEF Acquire
  <2>2. t.held = s.held \cup {p} /\ t.queue = s.queue
    BY <1>1, <2>1 DEF Semaphore
  <2> HIDE DEF n
  <2>2a. t \in Semaphore
    BY <1>1, <2>1 DEF Semaphore
  <2>3. \A x \in t.held \cap ex : t.held = {x}
    BY <1>3, <2>2 DEF Sound, SemOK, Fits
  <2>4. Len(t.queue) = 0
    BY <1>3, <2>2
  <2>5. SemOK(t, ex)
    BY <2>2, <2>2a, <2>3, <2>4 DEF SemOK
  <2> QED BY <2>2, <2>5 DEF Sound, Members, Waiting
<1>4. CASE ~(s.queue = <<>> /\ Fits(s.held, ex, p))
  <2>1. t = [s EXCEPT !.queue = Append(s.queue, p)]
    BY <1>4 DEF Acquire
  <2>2. t.held = s.held /\ t.queue = Append(s.queue, p) /\ t \in Semaphore
    <3> DEFINE q == Append(s.queue, p)
    <3>1. q \in Seq(Proc)
      BY <1>1
    <3> HIDE DEF q
    <3>2. t.held = s.held /\ t.queue = q /\ t \in Semaphore
      BY <1>1, <2>1, <3>1 DEF Semaphore, q
    <3> QED BY <3>2 DEF q
  <2>3. /\ Len(t.queue) = n + 1
        /\ \A i \in 1..n : t.queue[i] = s.queue[i]
        /\ t.queue[n + 1] = p
    BY <1>1, <2>2
  <2> HIDE DEF n, t
  <2>4. \A i \in 1..(n + 1) : i \in 1..n \/ i = n + 1
    BY <1>1 DEF n
  <2>5. n + 1 \in 1..(n + 1) /\ 1..n \subseteq 1..(n + 1)
    BY <1>1 DEF n
  <2>6. \A i \in 1..n : s.queue[i] \notin s.held
    BY DEF Sound, SemOK, n
  <2>7. \A i, j \in 1..n : i # j => s.queue[i] # s.queue[j]
    BY DEF Sound, SemOK, n
  <2>8. \A x \in t.held \cap ex : t.held = {x}
    BY <2>2 DEF Sound, SemOK
  <2>9. \A i \in 1..Len(t.queue) : t.queue[i] \notin t.held
    BY <2>2, <2>3, <2>4, <2>6, <1>2
  <2>10. \A i, j \in 1..Len(t.queue) : i # j => t.queue[i] # t.queue[j]
    BY <2>3, <2>4, <2>7, <1>2
  <2>11. Waiting(t) = Waiting(s) \cup {p}
    <3>1. Waiting(t) \subseteq Waiting(s) \cup {p}
      BY <2>3, <2>4 DEF Waiting, n
    <3>2. Waiting(s) \cup {p} \subseteq Waiting(t)
      BY <2>3, <2>5 DEF Waiting, n
    <3> QED BY <3>1, <3>2
  <2>12. SemOK(t, ex)
    BY <2>2, <2>8, <2>9, <2>10 DEF SemOK
  <2> QED BY <2>2, <2>11, <2>12 DEF Sound, Members, t
<1> QED BY <1>3, <1>4

\* notifyWaiters serves some of those who wait and changes nothing else.
LEMMA NotifySound ==
    ASSUME NEW s, NEW ex, NEW N, NEW H, Sound(s, ex, N, H)
    PROVE  Sound(notifyWaiters(s, ex), ex, N, H)
<1>1. SemOK(s, ex)
  BY DEF Sound
<1> QED BY <1>1, NotifyOK DEF Sound

\* Release takes its caller out and nobody else.
LEMMA ReleaseSound ==
    ASSUME NEW s, NEW ex, NEW N, NEW H, Sound(s, ex, N, H),
           NEW p \in s.held
    PROVE  Sound(Release(s, ex, p), ex, N \ {p}, H \ {p})
<1> DEFINE u == [s EXCEPT !.held = @ \ {p}]
<1>1. s \in Semaphore
  BY DEF Sound, SemOK
<1>2. u.held = s.held \ {p} /\ u.queue = s.queue /\ u \in Semaphore
  BY <1>1 DEF Semaphore
<1> HIDE DEF u
<1>3. SemOK(u, ex)
  BY <1>2 DEF Sound, SemOK
<1>4. Members(u) = N \ {p} /\ H \ {p} \subseteq u.held
  BY <1>2 DEF Sound, SemOK, Members, Waiting
<1>5. Sound(u, ex, N \ {p}, H \ {p})
  BY <1>3, <1>4 DEF Sound
<1> QED BY <1>5, NotifySound DEF Release, u

\* A cancelled Acquire leaves the semaphore as if it had never been called.
LEMMA AbandonSound ==
    ASSUME NEW s, NEW ex, NEW N, NEW H, Sound(s, ex, N, H),
           NEW p \in N
    PROVE  Sound(Abandon(s, ex, p), ex, N \ {p}, H \ {p})
<1>1. CASE p \in s.held
  BY <1>1, ReleaseSound DEF Abandon
<1>2. CASE p \notin s.held
  <2> DEFINE u == [s EXCEPT !.queue = Without(@, p)]
             n == Len(s.queue)
  <2>1. s \in Semaphore /\ s.queue \in Seq(Proc) /\ n \in Nat
    BY LenProperties DEF Sound, SemOK, Semaphore
  <2>2. \A i, j \in 1..n : i # j => s.queue[i] # s.queue[j]
    BY DEF Sound, SemOK
  <2>3. PICK m \in 1..n : p = s.queue[m]
    BY <1>2 DEF Sound, Members, Waiting
  <2>4. u.held = s.held /\ u.queue = Without(s.queue, p)
    BY <2>1 DEF Semaphore
  <2>5. /\ u.queue \in Seq(Proc)
        /\ Len(u.queue) = n - 1
        /\ \A i \in 1..(n - 1) : u.queue[i] = IF i < m THEN s.queue[i] ELSE s.queue[i + 1]
    BY <2>1, <2>2, <2>3, <2>4, WithoutOK
  <2>6. u \in Semaphore
    BY <2>1, <2>5 DEF Semaphore
  <2>7. \A i \in 1..n : s.queue[i] \notin s.held
    BY DEF Sound, SemOK
  <2>8. \A x \in u.held \cap ex : u.held = {x}
    BY <2>4 DEF Sound, SemOK
  <2> HIDE DEF u, n
  <2>9. \A i \in 1..(n - 1) : /\ i \in 1..n /\ i + 1 \in 1..n
                              /\ i < m => i # m
                              /\ ~(i < m) => i + 1 # m
    BY <2>1
  <2>10. \A i \in 1..Len(u.queue) : u.queue[i] \notin u.held
    BY <2>4, <2>5, <2>7, <2>9
  <2>11. \A i, j \in 1..Len(u.queue) : i # j => u.queue[i] # u.queue[j]
    <3> SUFFICES ASSUME NEW i \in 1..(n - 1), NEW j \in 1..(n - 1), i # j
                 PROVE u.queue[i] # u.queue[j]
      BY <2>5
    <3> DEFINE k == IF i < m THEN i ELSE i + 1
               l == IF j < m THEN j ELSE j + 1
    <3>1. k # l /\ k \in 1..n /\ l \in 1..n
      BY <2>1, <2>9
    <3>2. u.queue[i] = s.queue[k] /\ u.queue[j] = s.queue[l]
      BY <2>5
    <3> QED BY <3>1, <3>2, <2>2
  <2>12. Waiting(u) = Waiting(s) \ {p}
    <3>1. Waiting(u) \subseteq Waiting(s) \ {p}
      BY SMTT(30), <2>2, <2>3, <2>5, <2>9 DEF Waiting, n
    <3>2. ASSUME NEW i \in 1..n, s.queue[i] # p
          PROVE s.queue[i] \in Waiting(u)
      <4>1. CASE i < m
        <5>1. i \in 1..(n - 1)
          BY <4>1, <2>1
        <5> QED BY <4>1, <5>1, <2>5 DEF Waiting
      <4>2. CASE ~(i < m)
        <5>1. i # m
          BY <3>2, <2>3
        <5>2. i - 1 \in 1..(n - 1) /\ ~(i - 1 < m) /\ (i - 1) + 1 = i
          BY <4>2, <5>1, <2>1
        <5> QED BY <5>2, <2>5 DEF Waiting
      <4> QED BY <4>1, <4>2
    <3> QED BY <3>1, <3>2 DEF Waiting, n
  <2>13. SemOK(u, ex)
    BY <2>6, <2>8, <2>10, <2>11 DEF SemOK
  <2>14. Sound(u, ex, N \ {p}, H \ {p})
    BY <1>2, <2>4, <2>12, <2>13 DEF Sound, Members
  <2> QED BY <2>14, <1>2, NotifySound DEF Abandon, u
<1> QED BY <1>1, <1>2

-----------------------------------------------------------------------------
(***************************************************************************)
(* The inductive invariant.  Each program point says what its caller       *)
(* waits for or holds; the admission mutex and its counter agree with the  *)
(* program points; and an admitted route sees no counted maintenance.      *)
(***************************************************************************)
MuNeed == {p \in Proc \ Physicals : pc[p] \in {"muWait", "run", "freezeWait", "frozen"}}
MuHold == {p \in Proc \ Physicals : pc[p] \in {"run", "frozen"}}

PreservationHold ==
    {m \in Maints : pc[m] \in {"muWait", "run", "releasing"}}
    \cup {c \in Captures :
            pc[c] \in {"capturing", "freezeWait", "frozen", "failed", "streaming"}}
    \cup {x \in Physicals : pc[x] = "run"}
PreservationNeed == PreservationHold \cup {p \in Proc : pc[p] = "preservationWait"}

Counted == {m \in Maints : pc[m] \notin {"idle", "counting"}}

AdmissionInv ==
    /\ readers = {r \in Routes : pc[r] \in {"admitted", "checked", "muWait"}}
    /\ maintenance = Cardinality(Counted)
    /\ \A r \in Routes : pc[r] \in {"checked", "muWait"} => maintenance = 0

IInv ==
    /\ TypeOK
    /\ Sound(mu, MuExclusive, MuNeed, MuHold)
    /\ Sound(preservation, PreservationExclusive, PreservationNeed, PreservationHold)
    /\ AdmissionInv

\* Before anybody calls the gate nothing is held and nobody waits.
LEMMA InitIInv == Init => IInv
<1> SUFFICES ASSUME Init PROVE IInv
  OBVIOUS
<1> USE DEF Init
<1>1. TypeOK
  BY DEF TypeOK, Proc, RoutePC, JobPC, MaintPC, CapturePC, PhysicalPC, Semaphore
<1>2. MuNeed = {} /\ MuHold = {} /\ PreservationHold = {} /\ PreservationNeed = {}
  BY DEF MuNeed, MuHold, PreservationHold, PreservationNeed, Proc
<1>3. Counted = {}
  BY DEF Counted, Proc
<1>4. \A ex : Sound([held |-> {}, queue |-> <<>>], ex, {}, {})
  BY DEF Sound, SemOK, Semaphore, Members, Waiting
<1>5. AdmissionInv
  <2>1. maintenance = Cardinality(Counted)
    BY <1>3, FS_EmptySet
  <2> QED BY <2>1 DEF AdmissionInv, Proc
<1> QED BY <1>1, <1>2, <1>4, <1>5 DEF IInv

\* Callers of one kind are callers, and of no other kind.
LEMMA Kinds ==
    /\ \A r \in Routes : r \in Proc \ (Jobs \cup Maints \cup Captures \cup Physicals)
    /\ \A j \in Jobs : j \in Proc \ (Routes \cup Maints \cup Captures \cup Physicals)
    /\ \A m \in Maints : m \in Proc \ (Routes \cup Jobs \cup Captures \cup Physicals)
    /\ \A c \in Captures : c \in Proc \ (Routes \cup Jobs \cup Maints \cup Physicals)
    /\ \A x \in Physicals : x \in Proc \ (Routes \cup Jobs \cup Maints \cup Captures)
BY KindsDisjoint DEF Proc

\* A step of mutate keeps the invariant.
LEMMA RouteKeepsIInv ==
    ASSUME IInv, NEW r \in Routes, RouteCall(r) \/ RouteStep(r)
    PROVE  IInv'
<1> DEFINE muOK == Sound(mu, MuExclusive, MuNeed, MuHold)
           presOK == Sound(preservation, PreservationExclusive,
                           PreservationNeed, PreservationHold)
<1>0. TypeOK /\ muOK /\ presOK /\ AdmissionInv /\ r \in Proc \ (Jobs \cup Maints \cup Captures \cup Physicals)
  BY Kinds DEF IInv
<1> HIDE DEF muOK, presOK
<1> USE <1>0
<1>1. ASSUME NEW to \in RoutePC, pc' = [pc EXCEPT ![r] = to],
             pc[r] # "preservationWait", to # "preservationWait",
             preservation' = preservation
      PROVE  presOK' /\ Counted' = Counted
  <2>1. PreservationHold' = PreservationHold
    BY <1>1 DEF PreservationHold, TypeOK
  <2>2. PreservationNeed' = PreservationNeed
    BY <1>1, <2>1 DEF PreservationNeed, TypeOK
  <2>3. Counted' = Counted
    BY <1>1 DEF Counted, TypeOK
  <2> QED BY <1>1, <2>1, <2>2, <2>3 DEF presOK
<1>2. CASE RouteLock(r)
  <2> USE <1>2 DEF RouteLock, Goto
  <2>1. PICK to \in {"admitted", "rlockWait"} :
          /\ pc[r] = "idle" /\ pc' = [pc EXCEPT ![r] = to]
          /\ readers' = IF to = "admitted" THEN readers \cup {r} ELSE readers
    BY ZenonT(30)
  <2>2. UNCHANGED <<mu, preservation, writer, maintenance>>
    OBVIOUS
  <2> HIDE <1>2 DEF RouteLock
  <2>3. TypeOK'
    BY <2>1, <2>2 DEF TypeOK, RoutePC
  <2>4. MuNeed' = MuNeed /\ MuHold' = MuHold
    BY <2>1 DEF MuNeed, MuHold, TypeOK
  <2>5. muOK'
    BY <2>2, <2>4 DEF muOK
  <2>6. presOK' /\ Counted' = Counted
    BY <1>1, <2>1, <2>2 DEF RoutePC
  <2>7. AdmissionInv'
    BY <2>1, <2>2, <2>6 DEF AdmissionInv, TypeOK
  <2> QED BY <2>3, <2>5, <2>6, <2>7 DEF IInv, muOK, presOK
<1>3. CASE RouteRefuse(r)
  <2> USE <1>3 DEF RouteRefuse, Goto
  <2>1. TypeOK'
    BY DEF TypeOK, RoutePC
  <2>2. MuNeed' = MuNeed /\ MuHold' = MuHold
    BY DEF MuNeed, MuHold, TypeOK
  <2>3. muOK'
    BY <2>2 DEF muOK
  <2>4. presOK' /\ Counted' = Counted
    BY <1>1 DEF RoutePC
  <2>5. AdmissionInv'
    BY <2>4 DEF AdmissionInv, TypeOK
  <2> QED BY <2>1, <2>3, <2>4, <2>5 DEF IInv, muOK, presOK
<1>4. CASE RouteAcquire(r)
  <2> USE <1>4 DEF RouteAcquire, Goto, AcquireMu, admissionVars
  <2>1. MuNeed' = MuNeed \cup {r} /\ MuHold' = MuHold /\ r \notin MuNeed
    BY DEF MuNeed, MuHold, TypeOK
  <2>2. muOK'
    BY <2>1, AcquireSound DEF muOK
  <2>3. TypeOK'
    BY <2>2 DEF TypeOK, RoutePC, muOK, Sound, SemOK
  <2>4. presOK' /\ Counted' = Counted
    BY <1>1 DEF RoutePC
  <2>5. AdmissionInv'
    <3>1. readers' = {q \in Routes : pc'[q] \in {"admitted", "checked", "muWait"}}
      BY DEF AdmissionInv, TypeOK
    <3>2. maintenance' = 0
      BY DEF AdmissionInv
    <3> QED BY <3>1, <3>2, <2>4 DEF AdmissionInv
  <2> QED BY <2>2, <2>3, <2>4, <2>5 DEF IInv, muOK, presOK
<1>5. CASE RouteEnter(r)
  <2> USE <1>5 DEF RouteEnter, Goto
  <2>1. TypeOK'
    BY DEF TypeOK, RoutePC
  <2>2. MuNeed' = MuNeed /\ MuHold' = MuHold \cup {r}
    BY DEF MuNeed, MuHold, TypeOK
  <2>3. muOK'
    BY <2>2 DEF muOK, Sound
  <2>4. presOK' /\ Counted' = Counted
    BY <1>1 DEF RoutePC
  <2>5. AdmissionInv'
    BY <2>4 DEF AdmissionInv, TypeOK
  <2> QED BY <2>1, <2>3, <2>4, <2>5 DEF IInv, muOK, presOK
<1>6. CASE RouteDone(r)
  <2> USE <1>6 DEF RouteDone, Goto, ReleaseMu, admissionVars
  <2>1. MuNeed' = MuNeed \ {r} /\ MuHold' = MuHold \ {r} /\ r \in MuHold
    BY DEF MuNeed, MuHold, TypeOK
  <2>2. r \in mu.held
    BY <2>1 DEF muOK, Sound
  <2>3. muOK'
    BY <2>1, <2>2, ReleaseSound DEF muOK
  <2>4. TypeOK'
    BY <2>3 DEF TypeOK, RoutePC, muOK, Sound, SemOK
  <2>5. presOK' /\ Counted' = Counted
    BY <1>1 DEF RoutePC
  <2>6. AdmissionInv'
    BY <2>5 DEF AdmissionInv, TypeOK
  <2> QED BY <2>3, <2>4, <2>5, <2>6 DEF IInv, muOK, presOK
<1>7. CASE RouteAdmit(r)
  <2> USE <1>7 DEF RouteAdmit, Goto, admissionVars
  <2>1. TypeOK'
    BY DEF TypeOK, RoutePC
  <2>2. MuNeed' = MuNeed /\ MuHold' = MuHold
    BY DEF MuNeed, MuHold, TypeOK
  <2>3. muOK'
    BY <2>2 DEF muOK
  <2>4. presOK' /\ Counted' = Counted
    BY <1>1 DEF RoutePC
  <2>5. AdmissionInv'
    <3>1. readers' = {q \in Routes : pc'[q] \in {"admitted", "checked", "muWait"}}
      BY DEF AdmissionInv, TypeOK
    <3>2. maintenance' = 0
      OBVIOUS
    <3> QED BY <3>1, <3>2, <2>4 DEF AdmissionInv
  <2> QED BY <2>1, <2>3, <2>4, <2>5 DEF IInv, muOK, presOK
<1> QED BY <1>2, <1>3, <1>4, <1>5, <1>6, <1>7 DEF RouteCall, RouteStep

\* A step of MutateContext keeps the invariant.
LEMMA JobKeepsIInv ==
    ASSUME IInv, NEW j \in Jobs, JobCall(j) \/ JobStep(j)
    PROVE  IInv'
<1> DEFINE muOK == Sound(mu, MuExclusive, MuNeed, MuHold)
           presOK == Sound(preservation, PreservationExclusive,
                           PreservationNeed, PreservationHold)
<1>0. /\ TypeOK /\ muOK /\ presOK /\ AdmissionInv
      /\ j \in Proc \ (Routes \cup Maints \cup Captures \cup Physicals)
  BY Kinds DEF IInv
<1> HIDE DEF muOK, presOK
<1> USE <1>0
<1>1. CASE JobAcquire(j)
  <2> USE <1>1 DEF JobAcquire, Goto, admissionVars, AcquireMu
  <2>1. MuNeed' = MuNeed \cup {j} /\ MuHold' = MuHold /\ j \notin MuNeed
    BY DEF MuNeed, MuHold, TypeOK, JobPC
  <2>2. muOK'
    BY <2>1, AcquireSound DEF muOK
  <2>3. PreservationNeed' = PreservationNeed /\ PreservationHold' = PreservationHold
    BY DEF PreservationNeed, PreservationHold, TypeOK, JobPC
  <2>4. presOK'
    BY <2>3 DEF presOK
  <2>5. TypeOK'
    BY <2>2, <2>4 DEF TypeOK, JobPC, muOK, presOK, Sound, SemOK
  <2>6. Counted' = Counted
    BY DEF Counted, TypeOK
  <2>7. AdmissionInv'
    BY <2>6 DEF AdmissionInv, TypeOK
  <2> QED BY <2>2, <2>4, <2>5, <2>7 DEF IInv, muOK, presOK
<1>2. CASE JobCancel(j)
  <2> USE <1>2 DEF JobCancel, Goto, admissionVars, AbandonMu
  <2>1. MuNeed' = MuNeed \ {j} /\ MuHold' = MuHold \ {j} /\ j \in MuNeed
    BY DEF MuNeed, MuHold, TypeOK, JobPC
  <2>2. muOK'
    BY <2>1, AbandonSound DEF muOK
  <2>3. PreservationNeed' = PreservationNeed /\ PreservationHold' = PreservationHold
    BY DEF PreservationNeed, PreservationHold, TypeOK, JobPC
  <2>4. presOK'
    BY <2>3 DEF presOK
  <2>5. TypeOK'
    BY <2>2, <2>4 DEF TypeOK, JobPC, muOK, presOK, Sound, SemOK
  <2>6. Counted' = Counted
    BY DEF Counted, TypeOK
  <2>7. AdmissionInv'
    BY <2>6 DEF AdmissionInv, TypeOK
  <2> QED BY <2>2, <2>4, <2>5, <2>7 DEF IInv, muOK, presOK
<1>3. CASE JobEnter(j)
  <2> USE <1>3 DEF JobEnter, Goto, admissionVars
  <2>1. MuNeed' = MuNeed /\ MuHold' = MuHold \cup {j}
    BY DEF MuNeed, MuHold, TypeOK, JobPC
  <2>2. muOK'
    BY <2>1 DEF muOK, Sound
  <2>3. PreservationNeed' = PreservationNeed /\ PreservationHold' = PreservationHold
    BY DEF PreservationNeed, PreservationHold, TypeOK, JobPC
  <2>4. presOK'
    BY <2>3 DEF presOK
  <2>5. TypeOK'
    BY <2>2, <2>4 DEF TypeOK, JobPC, muOK, presOK, Sound, SemOK
  <2>6. Counted' = Counted
    BY DEF Counted, TypeOK
  <2>7. AdmissionInv'
    BY <2>6 DEF AdmissionInv, TypeOK
  <2> QED BY <2>2, <2>4, <2>5, <2>7 DEF IInv, muOK, presOK
<1>4. CASE JobDone(j)
  <2> USE <1>4 DEF JobDone, Goto, admissionVars, ReleaseMu
  <2>1. MuNeed' = MuNeed \ {j} /\ MuHold' = MuHold \ {j} /\ j \in MuHold
    BY DEF MuNeed, MuHold, TypeOK, JobPC
  <2>2. j \in mu.held
    BY <2>1 DEF muOK, Sound
  <2>3. muOK'
    BY <2>1, <2>2, ReleaseSound DEF muOK
  <2>4. PreservationNeed' = PreservationNeed /\ PreservationHold' = PreservationHold
    BY DEF PreservationNeed, PreservationHold, TypeOK, JobPC
  <2>5. presOK'
    BY <2>4 DEF presOK
  <2>6. TypeOK'
    BY <2>3, <2>5 DEF TypeOK, JobPC, muOK, presOK, Sound, SemOK
  <2>7. Counted' = Counted
    BY DEF Counted, TypeOK
  <2>8. AdmissionInv'
    BY <2>7 DEF AdmissionInv, TypeOK
  <2> QED BY <2>3, <2>5, <2>6, <2>8 DEF IInv, muOK, presOK
<1> QED BY <1>1, <1>2, <1>3, <1>4 DEF JobCall, JobStep

\* A step of capture or of its freezer keeps the invariant.
LEMMA CaptureKeepsIInv ==
    ASSUME IInv, NEW c \in Captures, CaptureCall(c) \/ CaptureStep(c)
    PROVE  IInv'
<1> DEFINE muOK == Sound(mu, MuExclusive, MuNeed, MuHold)
           presOK == Sound(preservation, PreservationExclusive,
                           PreservationNeed, PreservationHold)
<1>0. /\ TypeOK /\ muOK /\ presOK /\ AdmissionInv
      /\ c \in Proc \ (Routes \cup Jobs \cup Maints \cup Physicals)
  BY Kinds DEF IInv
<1> HIDE DEF muOK, presOK
<1> USE <1>0
<1>1. CASE CaptureAcquire(c)
  <2> USE <1>1 DEF CaptureAcquire, Goto, admissionVars, AcquirePreservation
  <2>1. MuNeed' = MuNeed /\ MuHold' = MuHold
    BY DEF MuNeed, MuHold, TypeOK, CapturePC
  <2>2. muOK'
    BY <2>1 DEF muOK
  <2>3. PreservationNeed' = PreservationNeed \cup {c} /\ PreservationHold' = PreservationHold /\ c \notin PreservationNeed
    BY DEF PreservationNeed, PreservationHold, TypeOK, CapturePC
  <2>4. presOK'
    BY <2>3, AcquireSound DEF presOK
  <2>5. TypeOK'
    BY <2>2, <2>4 DEF TypeOK, CapturePC, muOK, presOK, Sound, SemOK
  <2>6. Counted' = Counted
    BY DEF Counted, TypeOK
  <2>7. AdmissionInv'
    BY <2>6 DEF AdmissionInv, TypeOK
  <2> QED BY <2>2, <2>4, <2>5, <2>7 DEF IInv, muOK, presOK
<1>2. CASE FreezeCancel(c)
  <2> USE <1>2 DEF FreezeCancel, Goto, admissionVars, AbandonMu
  <2>1. MuNeed' = MuNeed \ {c} /\ MuHold' = MuHold \ {c} /\ c \in MuNeed
    BY DEF MuNeed, MuHold, TypeOK, CapturePC
  <2>2. muOK'
    BY <2>1, AbandonSound DEF muOK
  <2>3. PreservationNeed' = PreservationNeed /\ PreservationHold' = PreservationHold
    BY DEF PreservationNeed, PreservationHold, TypeOK, CapturePC
  <2>4. presOK'
    BY <2>3 DEF presOK
  <2>5. TypeOK'
    BY <2>2, <2>4 DEF TypeOK, CapturePC, muOK, presOK, Sound, SemOK
  <2>6. Counted' = Counted
    BY DEF Counted, TypeOK
  <2>7. AdmissionInv'
    BY <2>6 DEF AdmissionInv, TypeOK
  <2> QED BY <2>2, <2>4, <2>5, <2>7 DEF IInv, muOK, presOK
<1>3. CASE CaptureEnter(c)
  <2> USE <1>3 DEF CaptureEnter, Goto, admissionVars
  <2>1. MuNeed' = MuNeed /\ MuHold' = MuHold
    BY DEF MuNeed, MuHold, TypeOK, CapturePC
  <2>2. muOK'
    BY <2>1 DEF muOK
  <2>3. PreservationNeed' = PreservationNeed /\ PreservationHold' = PreservationHold \cup {c}
    BY DEF PreservationNeed, PreservationHold, TypeOK, CapturePC
  <2>4. presOK'
    BY <2>3 DEF presOK, Sound
  <2>5. TypeOK'
    BY <2>2, <2>4 DEF TypeOK, CapturePC, muOK, presOK, Sound, SemOK
  <2>6. Counted' = Counted
    BY DEF Counted, TypeOK
  <2>7. AdmissionInv'
    BY <2>6 DEF AdmissionInv, TypeOK
  <2> QED BY <2>2, <2>4, <2>5, <2>7 DEF IInv, muOK, presOK
<1>4. CASE FreezeBegin(c)
  <2> USE <1>4 DEF FreezeBegin, Goto, admissionVars, AcquireMu
  <2>1. MuNeed' = MuNeed \cup {c} /\ MuHold' = MuHold /\ c \notin MuNeed
    BY DEF MuNeed, MuHold, TypeOK, CapturePC
  <2>2. muOK'
    BY <2>1, AcquireSound DEF muOK
  <2>3. PreservationNeed' = PreservationNeed /\ PreservationHold' = PreservationHold
    BY DEF PreservationNeed, PreservationHold, TypeOK, CapturePC
  <2>4. presOK'
    BY <2>3 DEF presOK
  <2>5. TypeOK'
    BY <2>2, <2>4 DEF TypeOK, CapturePC, muOK, presOK, Sound, SemOK
  <2>6. Counted' = Counted
    BY DEF Counted, TypeOK
  <2>7. AdmissionInv'
    BY <2>6 DEF AdmissionInv, TypeOK
  <2> QED BY <2>2, <2>4, <2>5, <2>7 DEF IInv, muOK, presOK
<1>5. CASE FreezeHeld(c)
  <2> USE <1>5 DEF FreezeHeld, Goto, admissionVars
  <2>1. MuNeed' = MuNeed /\ MuHold' = MuHold \cup {c}
    BY DEF MuNeed, MuHold, TypeOK, CapturePC
  <2>2. muOK'
    BY <2>1 DEF muOK, Sound
  <2>3. PreservationNeed' = PreservationNeed /\ PreservationHold' = PreservationHold
    BY DEF PreservationNeed, PreservationHold, TypeOK, CapturePC
  <2>4. presOK'
    BY <2>3 DEF presOK
  <2>5. TypeOK'
    BY <2>2, <2>4 DEF TypeOK, CapturePC, muOK, presOK, Sound, SemOK
  <2>6. Counted' = Counted
    BY DEF Counted, TypeOK
  <2>7. AdmissionInv'
    BY <2>6 DEF AdmissionInv, TypeOK
  <2> QED BY <2>2, <2>4, <2>5, <2>7 DEF IInv, muOK, presOK
<1>6. CASE FreezeEnd(c)
  <2> USE <1>6 DEF FreezeEnd, Goto, admissionVars, ReleaseMu
  <2>1. MuNeed' = MuNeed \ {c} /\ MuHold' = MuHold \ {c} /\ c \in MuHold
    BY DEF MuNeed, MuHold, TypeOK, CapturePC
  <2>2. c \in mu.held
    BY <2>1 DEF muOK, Sound
  <2>3. muOK'
    BY <2>1, <2>2, ReleaseSound DEF muOK
  <2>4. PreservationNeed' = PreservationNeed /\ PreservationHold' = PreservationHold
    BY DEF PreservationNeed, PreservationHold, TypeOK, CapturePC
  <2>5. presOK'
    BY <2>4 DEF presOK
  <2>6. TypeOK'
    BY <2>3, <2>5 DEF TypeOK, CapturePC, muOK, presOK, Sound, SemOK
  <2>7. Counted' = Counted
    BY DEF Counted, TypeOK
  <2>8. AdmissionInv'
    BY <2>7 DEF AdmissionInv, TypeOK
  <2> QED BY <2>3, <2>5, <2>6, <2>8 DEF IInv, muOK, presOK
<1>7. CASE CaptureDone(c)
  <2> USE <1>7 DEF CaptureDone, Goto, admissionVars, ReleasePreservation
  <2>1. MuNeed' = MuNeed /\ MuHold' = MuHold
    BY DEF MuNeed, MuHold, TypeOK, CapturePC
  <2>2. muOK'
    BY <2>1 DEF muOK
  <2>3. PreservationNeed' = PreservationNeed \ {c} /\ PreservationHold' = PreservationHold \ {c} /\ c \in PreservationHold
    BY DEF PreservationNeed, PreservationHold, TypeOK, CapturePC
  <2>4. c \in preservation.held
    BY <2>3 DEF presOK, Sound
  <2>5. presOK'
    BY <2>3, <2>4, ReleaseSound DEF presOK
  <2>6. TypeOK'
    BY <2>2, <2>5 DEF TypeOK, CapturePC, muOK, presOK, Sound, SemOK
  <2>7. Counted' = Counted
    BY DEF Counted, TypeOK
  <2>8. AdmissionInv'
    BY <2>7 DEF AdmissionInv, TypeOK
  <2> QED BY <2>2, <2>5, <2>6, <2>8 DEF IInv, muOK, presOK
<1> QED BY <1>1, <1>2, <1>3, <1>4, <1>5, <1>6, <1>7 DEF CaptureCall, CaptureStep

\* A step of PhysicalMutate keeps the invariant.
LEMMA PhysicalKeepsIInv ==
    ASSUME IInv, NEW x \in Physicals, PhysicalCall(x) \/ PhysicalStep(x)
    PROVE  IInv'
<1> DEFINE muOK == Sound(mu, MuExclusive, MuNeed, MuHold)
           presOK == Sound(preservation, PreservationExclusive,
                           PreservationNeed, PreservationHold)
<1>0. /\ TypeOK /\ muOK /\ presOK /\ AdmissionInv
      /\ x \in Proc \ (Routes \cup Jobs \cup Maints \cup Captures)
  BY Kinds DEF IInv
<1> HIDE DEF muOK, presOK
<1> USE <1>0
<1>1. CASE PhysicalAcquire(x)
  <2> USE <1>1 DEF PhysicalAcquire, Goto, admissionVars, AcquirePreservation
  <2>1. MuNeed' = MuNeed /\ MuHold' = MuHold
    BY DEF MuNeed, MuHold, TypeOK, PhysicalPC
  <2>2. muOK'
    BY <2>1 DEF muOK
  <2>3. PreservationNeed' = PreservationNeed \cup {x} /\ PreservationHold' = PreservationHold /\ x \notin PreservationNeed
    BY DEF PreservationNeed, PreservationHold, TypeOK, PhysicalPC
  <2>4. presOK'
    BY <2>3, AcquireSound DEF presOK
  <2>5. TypeOK'
    BY <2>2, <2>4 DEF TypeOK, PhysicalPC, muOK, presOK, Sound, SemOK
  <2>6. Counted' = Counted
    BY DEF Counted, TypeOK
  <2>7. AdmissionInv'
    BY <2>6 DEF AdmissionInv, TypeOK
  <2> QED BY <2>2, <2>4, <2>5, <2>7 DEF IInv, muOK, presOK
<1>2. CASE PhysicalEnter(x)
  <2> USE <1>2 DEF PhysicalEnter, Goto, admissionVars
  <2>1. MuNeed' = MuNeed /\ MuHold' = MuHold
    BY DEF MuNeed, MuHold, TypeOK, PhysicalPC
  <2>2. muOK'
    BY <2>1 DEF muOK
  <2>3. PreservationNeed' = PreservationNeed /\ PreservationHold' = PreservationHold \cup {x}
    BY DEF PreservationNeed, PreservationHold, TypeOK, PhysicalPC
  <2>4. presOK'
    BY <2>3 DEF presOK, Sound
  <2>5. TypeOK'
    BY <2>2, <2>4 DEF TypeOK, PhysicalPC, muOK, presOK, Sound, SemOK
  <2>6. Counted' = Counted
    BY DEF Counted, TypeOK
  <2>7. AdmissionInv'
    BY <2>6 DEF AdmissionInv, TypeOK
  <2> QED BY <2>2, <2>4, <2>5, <2>7 DEF IInv, muOK, presOK
<1>3. CASE PhysicalDone(x)
  <2> USE <1>3 DEF PhysicalDone, Goto, admissionVars, ReleasePreservation
  <2>1. MuNeed' = MuNeed /\ MuHold' = MuHold
    BY DEF MuNeed, MuHold, TypeOK, PhysicalPC
  <2>2. muOK'
    BY <2>1 DEF muOK
  <2>3. PreservationNeed' = PreservationNeed \ {x} /\ PreservationHold' = PreservationHold \ {x} /\ x \in PreservationHold
    BY DEF PreservationNeed, PreservationHold, TypeOK, PhysicalPC
  <2>4. x \in preservation.held
    BY <2>3 DEF presOK, Sound
  <2>5. presOK'
    BY <2>3, <2>4, ReleaseSound DEF presOK
  <2>6. TypeOK'
    BY <2>2, <2>5 DEF TypeOK, PhysicalPC, muOK, presOK, Sound, SemOK
  <2>7. Counted' = Counted
    BY DEF Counted, TypeOK
  <2>8. AdmissionInv'
    BY <2>7 DEF AdmissionInv, TypeOK
  <2> QED BY <2>2, <2>5, <2>6, <2>8 DEF IInv, muOK, presOK
<1> QED BY <1>1, <1>2, <1>3 DEF PhysicalCall, PhysicalStep

\* A step of maintainContext keeps the invariant.
LEMMA MaintKeepsIInv ==
    ASSUME IInv, NEW m \in Maints, MaintRequest(m) \/ MaintStep(m)
    PROVE  IInv'
<1> DEFINE muOK == Sound(mu, MuExclusive, MuNeed, MuHold)
           presOK == Sound(preservation, PreservationExclusive,
                           PreservationNeed, PreservationHold)
<1>0. /\ TypeOK /\ muOK /\ presOK /\ AdmissionInv
      /\ m \in Proc \ (Routes \cup Jobs \cup Captures \cup Physicals)
  BY Kinds DEF IInv
<1> HIDE DEF muOK, presOK
<1> USE <1>0
<1>1. CASE MaintCall(m)
  <2> USE <1>1 DEF MaintCall, Goto, admissionVars
  <2>1. MuNeed' = MuNeed /\ MuHold' = MuHold
    BY DEF MuNeed, MuHold, TypeOK, MaintPC
  <2>2. muOK'
    BY <2>1 DEF muOK
  <2>3. PreservationNeed' = PreservationNeed /\ PreservationHold' = PreservationHold
    BY DEF PreservationNeed, PreservationHold, TypeOK, MaintPC
  <2>4. presOK'
    BY <2>3 DEF presOK
  <2>5. TypeOK'
    BY <2>2, <2>4 DEF TypeOK, MaintPC, muOK, presOK, Sound, SemOK
  <2>6. Counted' = Counted
    BY DEF Counted, TypeOK
  <2>7. AdmissionInv'
    BY <2>6 DEF AdmissionInv, TypeOK
  <2> QED BY <2>2, <2>4, <2>5, <2>7 DEF IInv, muOK, presOK
<1>2. CASE MaintPreserve(m)
  <2> USE <1>2 DEF MaintPreserve, Goto, admissionVars, AcquirePreservation
  <2>1. MuNeed' = MuNeed /\ MuHold' = MuHold
    BY DEF MuNeed, MuHold, TypeOK, MaintPC
  <2>2. muOK'
    BY <2>1 DEF muOK
  <2>3. PreservationNeed' = PreservationNeed \cup {m} /\ PreservationHold' = PreservationHold /\ m \notin PreservationNeed
    BY DEF PreservationNeed, PreservationHold, TypeOK, MaintPC
  <2>4. presOK'
    BY <2>3, AcquireSound DEF presOK
  <2>5. TypeOK'
    BY <2>2, <2>4 DEF TypeOK, MaintPC, muOK, presOK, Sound, SemOK
  <2>6. Counted' = Counted
    BY DEF Counted, TypeOK
  <2>7. AdmissionInv'
    BY <2>6 DEF AdmissionInv, TypeOK
  <2> QED BY <2>2, <2>4, <2>5, <2>7 DEF IInv, muOK, presOK
<1>3. CASE MaintFence(m)
  <2> USE <1>3 DEF MaintFence, Goto, admissionVars, AcquireMu
  <2>1. MuNeed' = MuNeed \cup {m} /\ MuHold' = MuHold /\ m \notin MuNeed
    BY DEF MuNeed, MuHold, TypeOK, MaintPC
  <2>2. muOK'
    BY <2>1, AcquireSound DEF muOK
  <2>3. PreservationNeed' = PreservationNeed /\ PreservationHold' = PreservationHold \cup {m}
    BY DEF PreservationNeed, PreservationHold, TypeOK, MaintPC
  <2>4. presOK'
    BY <2>3 DEF presOK, Sound
  <2>5. TypeOK'
    BY <2>2, <2>4 DEF TypeOK, MaintPC, muOK, presOK, Sound, SemOK
  <2>6. Counted' = Counted
    BY DEF Counted, TypeOK
  <2>7. AdmissionInv'
    BY <2>6 DEF AdmissionInv, TypeOK
  <2> QED BY <2>2, <2>4, <2>5, <2>7 DEF IInv, muOK, presOK
<1>4. CASE MaintEnter(m)
  <2> USE <1>4 DEF MaintEnter, Goto, admissionVars
  <2>1. MuNeed' = MuNeed /\ MuHold' = MuHold \cup {m}
    BY DEF MuNeed, MuHold, TypeOK, MaintPC
  <2>2. muOK'
    BY <2>1 DEF muOK, Sound
  <2>3. PreservationNeed' = PreservationNeed /\ PreservationHold' = PreservationHold
    BY DEF PreservationNeed, PreservationHold, TypeOK, MaintPC
  <2>4. presOK'
    BY <2>3 DEF presOK
  <2>5. TypeOK'
    BY <2>2, <2>4 DEF TypeOK, MaintPC, muOK, presOK, Sound, SemOK
  <2>6. Counted' = Counted
    BY DEF Counted, TypeOK
  <2>7. AdmissionInv'
    BY <2>6 DEF AdmissionInv, TypeOK
  <2> QED BY <2>2, <2>4, <2>5, <2>7 DEF IInv, muOK, presOK
<1>5. CASE MaintCancelPreservation(m)
  <2> USE <1>5 DEF MaintCancelPreservation, Goto, admissionVars, AbandonPreservation
  <2>1. MuNeed' = MuNeed /\ MuHold' = MuHold
    BY DEF MuNeed, MuHold, TypeOK, MaintPC
  <2>2. muOK'
    BY <2>1 DEF muOK
  <2>3. PreservationNeed' = PreservationNeed \ {m} /\ PreservationHold' = PreservationHold \ {m} /\ m \in PreservationNeed
    BY DEF PreservationNeed, PreservationHold, TypeOK, MaintPC
  <2>4. presOK'
    BY <2>3, AbandonSound DEF presOK
  <2>5. TypeOK'
    BY <2>2, <2>4 DEF TypeOK, MaintPC, muOK, presOK, Sound, SemOK
  <2>6. Counted' = Counted
    BY DEF Counted, TypeOK
  <2>7. AdmissionInv'
    BY <2>6 DEF AdmissionInv, TypeOK
  <2> QED BY <2>2, <2>4, <2>5, <2>7 DEF IInv, muOK, presOK
<1>6. CASE MaintCancelMu(m)
  <2> USE <1>6 DEF MaintCancelMu, Goto, admissionVars, AbandonMu
  <2>1. MuNeed' = MuNeed \ {m} /\ MuHold' = MuHold \ {m} /\ m \in MuNeed
    BY DEF MuNeed, MuHold, TypeOK, MaintPC
  <2>2. muOK'
    BY <2>1, AbandonSound DEF muOK
  <2>3. PreservationNeed' = PreservationNeed /\ PreservationHold' = PreservationHold
    BY DEF PreservationNeed, PreservationHold, TypeOK, MaintPC
  <2>4. presOK'
    BY <2>3 DEF presOK
  <2>5. TypeOK'
    BY <2>2, <2>4 DEF TypeOK, MaintPC, muOK, presOK, Sound, SemOK
  <2>6. Counted' = Counted
    BY DEF Counted, TypeOK
  <2>7. AdmissionInv'
    BY <2>6 DEF AdmissionInv, TypeOK
  <2> QED BY <2>2, <2>4, <2>5, <2>7 DEF IInv, muOK, presOK
<1>7. CASE MaintDone(m)
  <2> USE <1>7 DEF MaintDone, Goto, admissionVars, ReleaseMu
  <2>1. MuNeed' = MuNeed \ {m} /\ MuHold' = MuHold \ {m} /\ m \in MuHold
    BY DEF MuNeed, MuHold, TypeOK, MaintPC
  <2>2. m \in mu.held
    BY <2>1 DEF muOK, Sound
  <2>3. muOK'
    BY <2>1, <2>2, ReleaseSound DEF muOK
  <2>4. PreservationNeed' = PreservationNeed /\ PreservationHold' = PreservationHold
    BY DEF PreservationNeed, PreservationHold, TypeOK, MaintPC
  <2>5. presOK'
    BY <2>4 DEF presOK
  <2>6. TypeOK'
    BY <2>3, <2>5 DEF TypeOK, MaintPC, muOK, presOK, Sound, SemOK
  <2>7. Counted' = Counted
    BY DEF Counted, TypeOK
  <2>8. AdmissionInv'
    BY <2>7 DEF AdmissionInv, TypeOK
  <2> QED BY <2>3, <2>5, <2>6, <2>8 DEF IInv, muOK, presOK
<1>8. CASE MaintRelease(m)
  <2> USE <1>8 DEF MaintRelease, Goto, admissionVars, ReleasePreservation
  <2>1. MuNeed' = MuNeed /\ MuHold' = MuHold
    BY DEF MuNeed, MuHold, TypeOK, MaintPC
  <2>2. muOK'
    BY <2>1 DEF muOK
  <2>3. PreservationNeed' = PreservationNeed \ {m} /\ PreservationHold' = PreservationHold \ {m} /\ m \in PreservationHold
    BY DEF PreservationNeed, PreservationHold, TypeOK, MaintPC
  <2>4. m \in preservation.held
    BY <2>3 DEF presOK, Sound
  <2>5. presOK'
    BY <2>3, <2>4, ReleaseSound DEF presOK
  <2>6. TypeOK'
    BY <2>2, <2>5 DEF TypeOK, MaintPC, muOK, presOK, Sound, SemOK
  <2>7. Counted' = Counted
    BY DEF Counted, TypeOK
  <2>8. AdmissionInv'
    BY <2>7 DEF AdmissionInv, TypeOK
  <2> QED BY <2>2, <2>5, <2>6, <2>8 DEF IInv, muOK, presOK
<1>9. CASE MaintLock(m)
  <2> USE <1>9 DEF MaintLock
  <2>1. TypeOK'
    BY DEF TypeOK
  <2>2. muOK' /\ presOK'
    BY DEF muOK, presOK, MuNeed, MuHold, PreservationNeed, PreservationHold
  <2>3. AdmissionInv'
    BY DEF AdmissionInv, Counted
  <2> QED BY <2>1, <2>2, <2>3 DEF IInv, muOK, presOK
<1>10. ASSUME NEW to \in {"counted", "idle"}, pc[m] \in {"counting", "uncounting"},
             AdmissionUnlock(m, to), readers = {}, UNCHANGED <<mu, preservation>>,
             maintenance' \in Nat, maintenance' = Cardinality(Counted')
      PROVE  IInv'
  <2> USE <1>10 DEF AdmissionUnlock
  <2>1. \A r \in Routes : pc[r] \notin {"admitted", "checked", "muWait"}
    BY DEF AdmissionInv
  <2>2. TypeOK'
    <3>1. \A p \in Proc : pc'[p] = IF p = m THEN to
                                   ELSE IF p \in Routes /\ pc[p] = "rlockWait" THEN "admitted"
                                   ELSE pc[p]
      OBVIOUS
    <3>2. \A r \in Routes : pc'[r] \in RoutePC
      BY <3>1, Kinds DEF TypeOK, RoutePC
    <3>3. \A q \in Maints : pc'[q] \in MaintPC
      BY <3>1, Kinds DEF TypeOK, MaintPC
    <3>4. /\ \A j \in Jobs : pc'[j] = pc[j]
          /\ \A c \in Captures : pc'[c] = pc[c]
          /\ \A x \in Physicals : pc'[x] = pc[x]
      BY <3>1, Kinds
    <3>5. pc' \in [Proc -> RoutePC \cup JobPC \cup MaintPC \cup CapturePC \cup PhysicalPC]
      BY <3>2, <3>3, <3>4 DEF TypeOK, Proc
    <3>6. readers' \in SUBSET Routes /\ writer' \in Maints \cup {NoWriter}
      OBVIOUS
    <3> QED BY <3>2, <3>3, <3>4, <3>5, <3>6 DEF TypeOK
  <2>3. MuNeed' = MuNeed /\ MuHold' = MuHold
    BY DEF MuNeed, MuHold, TypeOK
  <2>4. PreservationHold' = PreservationHold /\ PreservationNeed' = PreservationNeed
    <3>1. PreservationHold' = PreservationHold
      BY Kinds DEF PreservationHold, TypeOK
    <3>2. \A p \in Proc : pc'[p] = "preservationWait" <=> pc[p] = "preservationWait"
      BY DEF TypeOK
    <3> QED BY <3>1, <3>2 DEF PreservationNeed
  <2>5. muOK' /\ presOK'
    BY <2>3, <2>4 DEF muOK, presOK
  <2>6. AdmissionInv'
    BY <2>1 DEF AdmissionInv, TypeOK, Proc
  <2> QED BY <2>2, <2>5, <2>6 DEF IInv, muOK, presOK
<1>11. IsFiniteSet(Counted) /\ Cardinality(Counted) \in Nat
  <2>1. Counted \subseteq Proc
    BY DEF Counted, Proc
  <2> QED BY <2>1, ProcFinite, FS_Subset, FS_CardinalityType
<1>12. CASE MaintCount(m)
  <2> USE <1>12 DEF MaintCount
  <2>1. Counted' = Counted \cup {m} /\ m \notin Counted
    BY DEF Counted, AdmissionUnlock, TypeOK, Proc
  <2>2. Cardinality(Counted') = Cardinality(Counted) + 1
    BY <2>1, <1>11, FS_AddElement
  <2>3. maintenance' = Cardinality(Counted') /\ maintenance' \in Nat
    BY <2>2, <1>11 DEF AdmissionInv
  <2> QED BY <2>3, <1>10
<1>13. CASE MaintUncount(m)
  <2> USE <1>13 DEF MaintUncount
  <2>1. Counted' = Counted \ {m} /\ m \in Counted
    BY DEF Counted, AdmissionUnlock, TypeOK, Proc
  <2>2. Cardinality(Counted') = Cardinality(Counted) - 1 /\ IsFiniteSet(Counted')
    BY <2>1, <1>11, FS_RemoveElement
  <2>3. Cardinality(Counted') \in Nat
    BY <2>2, FS_CardinalityType
  <2>4. maintenance' = Cardinality(Counted') /\ maintenance' \in Nat
    BY <2>2, <2>3 DEF AdmissionInv
  <2> QED BY <2>4, <1>10
<1> QED BY <1>1, <1>2, <1>3, <1>4, <1>5, <1>6, <1>7, <1>8, <1>9, <1>10, <1>11, <1>12, <1>13 DEF MaintRequest, MaintStep

-----------------------------------------------------------------------------
\* IInv is inductive.
LEMMA NextIInv == IInv /\ [Next]_vars => IInv'
<1> SUFFICES ASSUME IInv, [Next]_vars PROVE IInv'
  OBVIOUS
<1>1. CASE UNCHANGED vars
  <2> USE <1>1 DEF vars
  <2>1. TypeOK'
    BY DEF IInv, TypeOK
  <2>2. /\ MuNeed' = MuNeed /\ MuHold' = MuHold /\ Counted' = Counted
        /\ PreservationNeed' = PreservationNeed /\ PreservationHold' = PreservationHold
    BY DEF MuNeed, MuHold, PreservationNeed, PreservationHold, Counted
  <2>3. AdmissionInv'
    BY <2>2 DEF IInv, AdmissionInv
  <2> QED BY <2>1, <2>2, <2>3 DEF IInv
<1>2. CASE Next
  BY <1>2, RouteKeepsIInv, JobKeepsIInv, MaintKeepsIInv, CaptureKeepsIInv,
     PhysicalKeepsIInv DEF Next
<1> QED BY <1>1, <1>2

\* The invariant holds in every reachable state of the gate.
THEOREM SpecIInv == Spec => []IInv
BY InitIInv, NextIInv, PTL DEF Spec

\* The gate's variables keep their types however many callers share it.
THEOREM GateTypeCorrect == Spec => []TypeOK
<1>1. IInv => TypeOK
  BY DEF IInv
<1> QED BY <1>1, SpecIInv, PTL

\* Whoever runs inside maintainContext is alone in the vault: full-weight holders
\* of both semaphores exclude mutations, captures, commits and one another.
THEOREM GateMaintenanceExclusive == Spec => []MaintenanceExclusive
<1>1. IInv => MaintenanceExclusive
  <2> SUFFICES ASSUME IInv, NEW m \in Maints, pc[m] = "run",
                      NEW p \in Proc, p # m
               PROVE ~(Mutating(p) \/ Maintaining(p) \/ Preserving(p) \/ Committing(p))
    BY DEF MaintenanceExclusive, Maintaining
  <2>1. m \in MuHold /\ m \in PreservationHold
    BY Kinds DEF MuHold, PreservationHold
  <2>2. mu.held = {m} /\ preservation.held = {m}
    BY <2>1 DEF IInv, Sound, SemOK, MuExclusive, PreservationExclusive
  <2>3. p \notin MuHold /\ p \notin PreservationHold
    BY <2>2 DEF IInv, Sound
  <2>4. ~Mutating(p) /\ ~Maintaining(p)
    BY <2>3, Kinds DEF MuHold, Mutating, Maintaining
  <2>5. ~Preserving(p) /\ ~Committing(p)
    BY <2>3 DEF PreservationHold, Preserving, Committing
  <2> QED BY <2>4, <2>5
<1> QED BY <1>1, SpecIInv, PTL

\* A backup reads one point in time: nothing mutates during the freeze, and no
\* physical authority moves from the start of the capture to its end.
THEOREM GateCaptureConsistent == Spec => []CaptureConsistent
<1>1. IInv => CaptureConsistent
  <2> SUFFICES ASSUME IInv, NEW c \in Captures, NEW p \in Proc
               PROVE /\ pc[c] = "frozen" => ~Mutating(p)
                     /\ Preserving(c) => ~Committing(p)
    BY DEF CaptureConsistent
  <2>1. ASSUME pc[c] = "frozen" PROVE ~Mutating(p)
    <3>1. c \in MuHold
      BY <2>1, Kinds DEF MuHold
    <3>2. mu.held = {c}
      BY <3>1 DEF IInv, Sound, SemOK, MuExclusive
    <3>3. p \in MuHold => p = c
      BY <3>2 DEF IInv, Sound
    <3> QED BY <3>3, Kinds DEF MuHold, Mutating
  <2>2. ASSUME Preserving(c) PROVE ~Committing(p)
    <3>1. c \in PreservationHold
      BY <2>2 DEF PreservationHold, Preserving
    <3>2. ASSUME Committing(p) PROVE FALSE
      <4>1. p \in PreservationHold /\ p \in PreservationExclusive
        BY <3>2 DEF PreservationHold, Committing, PreservationExclusive
      <4>2. preservation.held = {p}
        BY <4>1 DEF IInv, Sound, SemOK
      <4>3. c = p
        BY <3>1, <4>2 DEF IInv, Sound
      <4> QED BY <4>3, <3>2, Kinds DEF Committing
    <3> QED BY <3>2
  <2> QED BY <2>1, <2>2
<1> QED BY <1>1, SpecIInv, PTL

\* The promise of mutate: a route is refused only for a maintainer that is running
\* or queued, because the counter is the number of those; and maintenance never
\* overtakes an admitted route, because a route waiting for mu pins it at zero.
THEOREM GateAdmissionTruthful == Spec => []AdmissionTruthful
<1>1. ASSUME IInv PROVE IsFiniteSet(Counted) /\ maintenance = Cardinality(Counted)
  <2>1. Counted \subseteq Proc
    BY DEF Counted, Proc
  <2> QED BY <1>1, <2>1, ProcFinite, FS_Subset DEF IInv, AdmissionInv
<1>2. ASSUME IInv, maintenance > 0
      PROVE  \E m \in Maints : pc[m] \notin {"idle", "counting"}
  <2>1. Counted # {}
    BY <1>1, <1>2, FS_EmptySet
  <2> QED BY <2>1 DEF Counted
<1>3. ASSUME IInv, NEW i \in DOMAIN mu.queue, mu.queue[i] \in Routes
      PROVE  /\ mu.held \cap Maints = {}
             /\ \A k \in 1..(i - 1) : mu.queue[k] \notin Maints
  <2> USE <1>3
  <2>1. /\ DOMAIN mu.queue = 1..Len(mu.queue)
        /\ Len(mu.queue) \in Nat
    BY LenProperties DEF IInv, TypeOK, Semaphore
  <2>2. mu.queue[i] \in MuNeed /\ mu.queue[i] \notin mu.held
    BY <2>1 DEF IInv, Sound, SemOK, Members, Waiting
  <2>3. pc[mu.queue[i]] = "muWait"
    BY <2>2, Kinds DEF IInv, Sound, TypeOK, RoutePC, MuNeed, MuHold
  <2>4. Cardinality(Counted) = 0
    BY <2>3 DEF IInv, AdmissionInv
  <2>5. Counted = {}
    BY <1>1, <2>4, FS_EmptySet
  <2>6. \A m \in Maints : m \notin MuNeed
    BY <2>5 DEF Counted, MuNeed
  <2>7. \A m \in Maints : m \notin Members(mu)
    BY <2>6 DEF IInv, Sound
  <2>8. mu.held \cap Maints = {}
    BY <2>7 DEF Members
  <2>9. \A k \in 1..(i - 1) : mu.queue[k] \notin Maints
    <3>1. \A k \in 1..(i - 1) : k \in 1..Len(mu.queue)
      BY <2>1
    <3> QED BY <3>1, <2>7 DEF Members, Waiting
  <2> QED BY <2>8, <2>9
<1>4. IInv => AdmissionTruthful
  BY <1>2, <1>3 DEF AdmissionTruthful
<1> QED BY <1>4, SpecIInv, PTL
=============================================================================
