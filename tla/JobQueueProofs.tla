--------------------------- MODULE JobQueueProofs ---------------------------
(***************************************************************************)
(* Proofs about JobQueue, for every set of jobs, every finite set of       *)
(* consumers, both queue types and every maximum size.                     *)
(***************************************************************************)
EXTENDS JobQueue, FiniteSetTheorems, SequenceTheorems, TLAPS

-----------------------------------------------------------------------------
(* Lemmas about the helpers.                                               *)

\* What removing the element at position i of a sequence leaves, which is what
\* heap.Pop and q.jobs[1:] do to the slice.
LEMMA RemoveAtProperties ==
    ASSUME NEW S, NEW s \in Seq(S), NEW i \in 1..Len(s)
    PROVE  /\ RemoveAt(s, i) \in Seq(S)
           /\ Len(RemoveAt(s, i)) = Len(s) - 1
           /\ \A k \in 1..(Len(s) - 1) :
                 RemoveAt(s, i)[k] = IF k < i THEN s[k] ELSE s[k + 1]
<1> DEFINE a == SubSeq(s, 1, i - 1)
           b == SubSeq(s, i + 1, Len(s))
<1>1. a \in Seq(S) /\ Len(a) = i - 1 /\ \A k \in 1..(i - 1) : a[k] = s[k]
  OBVIOUS
<1>2. /\ b \in Seq(S) /\ Len(b) = Len(s) - i
      /\ \A k \in 1..(Len(s) - i) : b[k] = s[k + i]
  OBVIOUS
<1> HIDE DEF a, b
<1>3. a \o b \in Seq(S) /\ Len(a \o b) = Len(s) - 1
  <2>1. a \o b \in Seq(S) /\ Len(a \o b) = Len(a) + Len(b)
    BY <1>1, <1>2, ConcatProperties, Zenon
  <2>2. Len(a) + Len(b) = Len(s) - 1
    BY <1>1, <1>2
  <2> QED  BY <2>1, <2>2
<1>4. ASSUME NEW k \in 1..(Len(s) - 1)
      PROVE  (a \o b)[k] = IF k < i THEN s[k] ELSE s[k + 1]
  <2>1. CASE k < i
    <3>0. k \in 1..(i - 1)  BY <2>1
    <3>1. k \in 1..Len(a) /\ a[k] = s[k]  BY <1>1, <3>0
    <3> QED  BY <1>1, <1>2, <2>1, <3>1
  <2>2. CASE ~(k < i)
    <3>1. k - (i - 1) \in 1..Len(b)  BY <1>2, <2>2
    <3>2. b[k - (i - 1)] = s[k + 1]  BY <1>2, <2>2, <3>1
    <3>3. (a \o b)[k] = b[k - Len(a)]  BY <1>1, <1>2, <1>3, <2>2, <3>1
    <3> QED  BY <1>1, <2>2, <3>2, <3>3
  <2> QED  BY <2>1, <2>2
<1> QED  BY <1>3, <1>4 DEF a, b, RemoveAt

\* A position Pop may take is a position of the slice.
LEMMA EligibleIsPosition ==
    ASSUME QueueTypeOK, NEW i \in Eligible
    PROVE  i \in 1..Len(jobs)
BY DEF Eligible, QueueTypeOK

\* A woken or sleeping set of goroutines is finite, and moving one goroutine in
\* or out of it changes its cardinality by one.
LEMMA ConsumerSets ==
    ASSUME NEW W, W \subseteq Consumer
    PROVE  /\ IsFiniteSet(W)
           /\ Cardinality(W) \in Nat
           /\ \A c \in Consumer : c \notin W => Cardinality(W \cup {c}) = Cardinality(W) + 1
           /\ \A c \in W : Cardinality(W \ {c}) = Cardinality(W) - 1
           /\ W # {} => Cardinality(W) >= 1
<1>1. IsFiniteSet(W)  BY ConsumerAssumption, FS_Subset
<1>2. Cardinality(W) \in Nat  BY <1>1, FS_CardinalityType
<1>3. \A c \in Consumer : c \notin W => Cardinality(W \cup {c}) = Cardinality(W) + 1
  BY <1>1, FS_AddElement
<1>4. \A c \in W : Cardinality(W \ {c}) = Cardinality(W) - 1
  BY <1>1, FS_RemoveElement
<1>5. W # {} => Cardinality(W) >= 1
  BY <1>1, <1>2, FS_EmptySet
<1> QED  BY <1>1, <1>2, <1>3, <1>4, <1>5

-----------------------------------------------------------------------------
(* Type correctness.                                                       *)

\* A new queue has the types.
LEMMA InitTypes ==
    ASSUME QueueInit
    PROVE  TypeOK
<1>1. jobs \in Seq(Job)  BY DEF QueueInit
<1>2. closed \in BOOLEAN  BY DEF QueueInit
<1>3. offer \in [Job -> Offers] /\ ret \in [Consumer -> Job \cup Errors]
  BY DEF QueueInit, Offers, Errors
<1> QED  BY <1>1, <1>2, <1>3 DEF QueueInit, TypeOK, QueueTypeOK

\* A Push, refused or not, keeps the types.
LEMMA PushTypes ==
    ASSUME TypeOK, NEW j \in Job, Push(j)
    PROVE  TypeOK'
<1> USE DEF TypeOK, QueueTypeOK, Push
<1>1. CASE Refuses
  BY <1>1 DEF Refusal, Offers
<1>2. CASE ~Refuses
  BY <1>2 DEF Signal, Offers
<1> QED  BY <1>1, <1>2

\* One pass of Pop's loop keeps the types.
LEMMA PopLoopTypes ==
    ASSUME TypeOK, NEW c \in Consumer, c \notin waiting, PopLoop(c)
    PROVE  TypeOK'
<1> USE DEF TypeOK, QueueTypeOK
<1>1. CASE Pop_Wait(c)
  BY <1>1 DEF PopLoop, Pop_Wait
<1>2. CASE Pop_Canceled(c)
  BY <1>2 DEF PopLoop, Pop_Canceled, Pop_Return, Errors
<1>3. CASE Pop_Closed(c)
  BY <1>3 DEF PopLoop, Pop_Closed, Pop_Return, Errors
<1>4. CASE Pop_Take(c)
  <2>1. PICK i \in Eligible : Pop_Return(c, jobs[i]) /\ jobs' = RemoveAt(jobs, i)
    BY <1>4 DEF Pop_Take
  <2>2. i \in 1..Len(jobs)  BY EligibleIsPosition
  <2>3. jobs' \in Seq(Job)  BY <2>1, <2>2, RemoveAtProperties
  <2> QED  BY <2>1, <2>2, <2>3 DEF PopLoop, Pop_Return
<1> QED  BY <1>1, <1>2, <1>3, <1>4 DEF PopLoop

\* Every variable of the queue keeps its type through every operation, and a
\* goroutine is never both asleep in cond.Wait and runnable.
THEOREM TypeCorrect == Spec => []TypeOK
<1>1. QueueInit => TypeOK
  BY InitTypes
<1>2. TypeOK /\ [Next]_queueVars => TypeOK'
  <2> SUFFICES ASSUME TypeOK, [Next]_queueVars PROVE TypeOK'
    OBVIOUS
  <2>1. ASSUME NEW j \in Job, Push(j) PROVE TypeOK'
    BY <2>1, PushTypes
  <2>2. ASSUME NEW c \in Consumer, Pop(c) \/ Resume(c) PROVE TypeOK'
    BY <2>2, PopLoopTypes DEF Pop, Resume, Blocked, TypeOK
  <2> USE DEF TypeOK, QueueTypeOK, Blocked
  <2>3. ASSUME NEW c \in Consumer, Dequeue(c) PROVE TypeOK'
    <3>1. CASE jobs = <<>>
      BY <2>3, <3>1 DEF Dequeue, Errors
    <3>2. CASE jobs # <<>>
      <4>1. PICK i \in Eligible : ret' = [ret EXCEPT ![c] = jobs[i]] /\ jobs' = RemoveAt(jobs, i)
        BY <2>3, <3>2 DEF Dequeue
      <4>2. i \in 1..Len(jobs)  BY EligibleIsPosition
      <4>3. jobs' \in Seq(Job)  BY <4>1, <4>2, RemoveAtProperties
      <4> QED  BY <2>3, <4>1, <4>2, <4>3 DEF Dequeue
    <3> QED  BY <3>1, <3>2
  <2>4. ASSUME NEW c \in Consumer, Cancel(c) PROVE TypeOK'
    BY <2>4 DEF Cancel
  <2>5. CASE Clear  BY <2>5 DEF Clear
  <2>6. CASE Close  BY <2>6 DEF Close
  <2>7. CASE UNCHANGED queueVars  BY <2>7 DEF queueVars
  <2> QED
    BY <2>1, <2>2, <2>3, <2>4, <2>5, <2>6, <2>7 DEF Next
<1> QED  BY <1>1, <1>2, PTL DEF Spec

-----------------------------------------------------------------------------
(* Wake-ups.                                                               *)

\* The inductive invariant behind the wake-up guarantees: a closed queue has no
\* sleepers, and while there are sleepers the runnable goroutines are at least
\* as many as the queued jobs.
WakeupInv == NoLostWakeup /\ NobodySleepsOnClosed

\* One pass of Pop's loop keeps the wake-up invariant: a pass that takes a job
\* or finds the queue empty needs one runnable goroutine less.
LEMMA PopLoopWakeup ==
    ASSUME TypeOK, WakeupInv, NEW c \in Consumer, c \notin waiting, PopLoop(c)
    PROVE  WakeupInv'
<1> USE DEF TypeOK, QueueTypeOK, WakeupInv, NoLostWakeup, NobodySleepsOnClosed
<1>1. Cardinality(woken) \in Nat /\ Cardinality(woken \ {c}) \in Nat
  BY ConsumerSets
<1>2. Cardinality(woken \ {c}) >= Cardinality(woken) - 1
  <2>1. CASE c \in woken  BY <1>1, <2>1, ConsumerSets
  <2>2. CASE c \notin woken
    <3>1. Cardinality(woken \ {c}) = Cardinality(woken)
      <4>1. woken \ {c} = woken  BY <2>2
      <4> QED  BY <4>1
    <3> QED  BY <1>1, <3>1
  <2> QED  BY <2>1, <2>2
<1>3. CASE Pop_Wait(c)
  <2>1. jobs' = <<>> /\ ~closed' /\ woken' = woken \ {c}
    BY <1>3 DEF Pop_Wait, PopLoop
  <2> QED  BY <1>1, <2>1
<1>4. CASE Pop_Canceled(c) \/ Pop_Closed(c)
  <2>1. jobs' = <<>> /\ waiting' = waiting /\ closed' = closed /\ woken' = woken \ {c}
    BY <1>4 DEF Pop_Canceled, Pop_Closed, Pop_Return, PopLoop
  <2> QED  BY <1>1, <2>1
<1>5. CASE Pop_Take(c)
  <2>1. PICK i \in Eligible : Pop_Return(c, jobs[i]) /\ jobs' = RemoveAt(jobs, i)
    BY <1>5 DEF Pop_Take
  <2>2. Len(jobs') = Len(jobs) - 1
    BY <2>1, EligibleIsPosition, RemoveAtProperties
  <2>3. waiting' = waiting /\ closed' = closed /\ woken' = woken \ {c}
    BY <2>1 DEF Pop_Return, PopLoop
  <2>4. Len(jobs) \in Nat  OBVIOUS
  <2>5. Cardinality(woken') >= Cardinality(woken) - 1 /\ Cardinality(woken') \in Nat
    BY <1>1, <1>2, <2>3
  <2> HIDE DEF TypeOK, QueueTypeOK
  <2> QED  BY <1>1, <2>2, <2>3, <2>4, <2>5
<1> QED  BY <1>3, <1>4, <1>5 DEF PopLoop

\* No interleaving of Push, Pop, Dequeue, Clear, Close and cancellations loses
\* a wake-up, and Close leaves no goroutine asleep.
THEOREM WakeupsAreNotLost == Spec => [](NoLostWakeup /\ NobodySleepsOnClosed)
<1>1. QueueInit => WakeupInv
  BY DEF QueueInit, WakeupInv, NoLostWakeup, NobodySleepsOnClosed
<1>2. TypeOK /\ WakeupInv /\ [Next]_queueVars => WakeupInv'
  <2> SUFFICES ASSUME TypeOK, WakeupInv, [Next]_queueVars PROVE WakeupInv'
    OBVIOUS
  <2> USE DEF TypeOK, QueueTypeOK, WakeupInv, NoLostWakeup, NobodySleepsOnClosed
  <2>1. ASSUME NEW j \in Job, Push(j) PROVE WakeupInv'
    <3>1. CASE Refuses
      BY <2>1, <3>1 DEF Push
    <3>2. CASE ~Refuses /\ waiting = {}
      BY <2>1, <3>2 DEF Push, Signal
    <3>3. CASE ~Refuses /\ waiting # {}
      <4>1. PICK c \in waiting : waiting' = waiting \ {c} /\ woken' = woken \cup {c}
        BY <2>1, <3>3 DEF Push, Signal
      <4>2. Cardinality(woken') = Cardinality(woken) + 1 /\ Cardinality(woken) \in Nat
        BY <4>1, ConsumerSets
      <4>3. Len(jobs') = Len(jobs) + 1
        BY <2>1, <3>3 DEF Push
      <4>4. closed' = closed /\ ~closed
        BY <2>1, <3>3 DEF Push, Refuses
      <4> QED  BY <3>3, <4>1, <4>2, <4>3, <4>4
    <3> QED  BY <3>1, <3>2, <3>3
  <2>2. ASSUME NEW c \in Consumer, Pop(c) \/ Resume(c) PROVE WakeupInv'
    BY <2>2, PopLoopWakeup DEF Pop, Resume, Blocked
  <2>3. ASSUME NEW c \in Consumer, Dequeue(c) PROVE WakeupInv'
    <3>1. CASE jobs = <<>>
      BY <2>3, <3>1 DEF Dequeue
    <3>2. CASE jobs # <<>>
      <4>1. PICK i \in Eligible : jobs' = RemoveAt(jobs, i)
        BY <2>3, <3>2 DEF Dequeue
      <4>2. Len(jobs') = Len(jobs) - 1
        BY <4>1, EligibleIsPosition, RemoveAtProperties
      <4>3. Cardinality(woken) \in Nat  BY ConsumerSets
      <4> QED  BY <2>3, <4>2, <4>3 DEF Dequeue
    <3> QED  BY <3>1, <3>2
  <2>4. ASSUME NEW c \in Consumer, Cancel(c) PROVE WakeupInv'
    BY <2>4 DEF Cancel
  <2>5. CASE Clear
    <3>1. Cardinality(woken) \in Nat  BY ConsumerSets
    <3> QED  BY <2>5, <3>1 DEF Clear
  <2>6. CASE Close
    BY <2>6 DEF Close
  <2>7. CASE UNCHANGED queueVars
    BY <2>7 DEF queueVars
  <2> QED
    BY <2>1, <2>2, <2>3, <2>4, <2>5, <2>6, <2>7 DEF Next
<1> QED  BY <1>1, <1>2, TypeCorrect, PTL DEF Spec, WakeupInv

\* The queue never holds more than maxSize jobs, however many producers race to
\* fill it.
THEOREM SizeIsBounded == Spec => []SizeBounded
<1>1. QueueInit => SizeBounded
  BY MaxSizeAssumption DEF QueueInit, SizeBounded
<1>2. TypeOK /\ SizeBounded /\ [Next]_queueVars => SizeBounded'
  <2> SUFFICES ASSUME TypeOK, SizeBounded, [Next]_queueVars PROVE SizeBounded'
    OBVIOUS
  <2> USE MaxSizeAssumption DEF SizeBounded, TypeOK, QueueTypeOK
  <2>1. ASSUME NEW j \in Job, Push(j) PROVE SizeBounded'
    BY <2>1 DEF Push, Refuses
  <2>2. ASSUME NEW i \in Eligible, jobs' = RemoveAt(jobs, i) PROVE SizeBounded'
    BY <2>2, EligibleIsPosition, RemoveAtProperties
  <2>3. ASSUME jobs' = jobs PROVE SizeBounded'
    BY <2>3
  <2>4. ASSUME NEW c \in Consumer, Pop(c) \/ Resume(c) PROVE SizeBounded'
    BY <2>2, <2>3, <2>4
       DEF Pop, Resume, PopLoop, Pop_Wait, Pop_Canceled, Pop_Closed, Pop_Take
  <2>5. ASSUME NEW c \in Consumer, Dequeue(c) PROVE SizeBounded'
    BY <2>2, <2>3, <2>5 DEF Dequeue
  <2>6. ASSUME NEW c \in Consumer, Cancel(c) PROVE SizeBounded'
    BY <2>3, <2>6 DEF Cancel
  <2>7. CASE Clear  BY <2>7 DEF Clear
  <2>8. CASE Close  BY <2>3, <2>8 DEF Close
  <2>9. CASE UNCHANGED queueVars  BY <2>3, <2>9 DEF queueVars
  <2> QED
    BY <2>1, <2>4, <2>5, <2>6, <2>7, <2>8, <2>9 DEF Next
<1> QED  BY <1>1, <1>2, TypeCorrect, PTL DEF Spec

-----------------------------------------------------------------------------
(* Exactly once.                                                           *)

\* What removing a position leaves of a slice without repetitions: nothing twice,
\* and every element but the one that was there.
LEMMA RemoveAtOnce ==
    ASSUME NEW S, NEW s \in Seq(S), NEW i \in 1..Len(s),
           \A m, n \in DOMAIN s : s[m] = s[n] => m = n
    PROVE  /\ \A m, n \in DOMAIN RemoveAt(s, i) :
                 RemoveAt(s, i)[m] = RemoveAt(s, i)[n] => m = n
           /\ Range(RemoveAt(s, i)) = Range(s) \ {s[i]}
<1> DEFINE r == RemoveAt(s, i)
<1>1. /\ r \in Seq(S) /\ Len(r) = Len(s) - 1
      /\ \A k \in 1..(Len(s) - 1) : r[k] = IF k < i THEN s[k] ELSE s[k + 1]
  BY RemoveAtProperties
<1> HIDE DEF r
<1>2. DOMAIN r = 1..(Len(s) - 1) /\ DOMAIN s = 1..Len(s) /\ Len(s) \in Nat
  BY <1>1
<1>3. ASSUME NEW m \in DOMAIN r, NEW n \in DOMAIN r, r[m] = r[n]
      PROVE  m = n
  <2>1. PICK k \in DOMAIN s : k = (IF m < i THEN m ELSE m + 1) /\ r[m] = s[k]
    BY <1>1, <1>2
  <2>2. PICK l \in DOMAIN s : l = (IF n < i THEN n ELSE n + 1) /\ r[n] = s[l]
    BY <1>1, <1>2
  <2>3. k = l
    BY <1>3, <2>1, <2>2
  <2>4. m \in Int /\ n \in Int /\ i \in Int
    BY <1>2
  <2> QED  BY <2>1, <2>2, <2>3, <2>4
<1>4. ASSUME NEW m \in DOMAIN r
      PROVE  r[m] \in Range(s) \ {s[i]}
  <2>1. PICK k \in 1..Len(s) : k # i /\ r[m] = s[k]
    <3>1. CASE m < i  BY <1>1, <1>2, <3>1
    <3>2. CASE ~(m < i)  BY <1>1, <1>2, <3>2
    <3> QED  BY <3>1, <3>2
  <2> QED  BY <1>2, <2>1 DEF Range
<1>5. ASSUME NEW k \in DOMAIN s, s[k] # s[i]
      PROVE  s[k] \in Range(r)
  <2>1. CASE k < i
    <3>1. k \in DOMAIN r /\ r[k] = s[k]  BY <1>1, <1>2, <2>1
    <3> QED  BY <3>1 DEF Range
  <2>2. CASE ~(k < i)
    <3>1. k - 1 \in DOMAIN r /\ r[k - 1] = s[k]  BY <1>1, <1>2, <1>5, <2>2
    <3> QED  BY <3>1 DEF Range
  <2> QED  BY <2>1, <2>2
<1>6. Range(r) = Range(s) \ {s[i]}
  BY <1>4, <1>5 DEF Range
<1> QED  BY <1>3, <1>6 DEF r

\* Handing the job at position i to consumer c keeps every job in one place.
LEMMA TakeOnce ==
    ASSUME TypeOK, ExactlyOnce, NEW c \in Consumer, NEW i \in Eligible,
           ret' = [ret EXCEPT ![c] = jobs[i]], jobs' = RemoveAt(jobs, i), UNCHANGED offer
    PROVE  ExactlyOnce'
<1>1. i \in 1..Len(jobs) /\ jobs \in Seq(Job) /\ jobs[i] \in Job
  BY EligibleIsPosition DEF TypeOK, QueueTypeOK
<1>2. /\ \A m, n \in DOMAIN jobs' : jobs'[m] = jobs'[n] => m = n
      /\ Range(jobs') = Range(jobs) \ {jobs[i]}
  BY <1>1, RemoveAtOnce DEF ExactlyOnce
<1>3. \A k \in DOMAIN jobs' : jobs'[k] # jobs[i] /\ \E n \in DOMAIN jobs : jobs'[k] = jobs[n]
  BY <1>2 DEF Range
<1>4. ret'[c] = jobs[i] /\ \A d \in Consumer \ {c} : ret'[d] = ret[d]
  BY DEF TypeOK, QueueTypeOK
<1>5. i \in DOMAIN jobs
  BY <1>1
<1>6. \A k \in DOMAIN jobs' : offer'[jobs'[k]] = "accepted"
  BY <1>3 DEF ExactlyOnce
<1>7. ASSUME NEW d \in Consumer, ret'[d] \in Job
      PROVE  /\ offer'[ret'[d]] = "accepted"
             /\ \A k \in DOMAIN jobs' : jobs'[k] # ret'[d]
             /\ \A e \in Consumer : ret'[e] = ret'[d] => e = d
  <2>1. CASE d = c
    BY <1>1, <1>3, <1>4, <1>5, <2>1 DEF ExactlyOnce
  <2>2. CASE d # c
    <3>1. ret'[d] = ret[d] /\ ret[d] # jobs[i]
      BY <1>4, <1>5, <1>7, <2>2 DEF ExactlyOnce
    <3> QED  BY <1>3, <1>4, <1>7, <2>2, <3>1 DEF ExactlyOnce
  <2> QED  BY <2>1, <2>2
<1> QED  BY <1>2, <1>6, <1>7 DEF ExactlyOnce

\* An error or nothing returned to a consumer puts no job anywhere.
LEMMA ReturnOnce ==
    ASSUME TypeOK, ExactlyOnce, NEW c \in Consumer, NEW e \in Errors,
           ret' = [ret EXCEPT ![c] = e], UNCHANGED <<jobs, offer>>
    PROVE  ExactlyOnce'
<1>1. e \notin Job
  BY JobIsNotError DEF Errors
<1>2. ret'[c] = e /\ \A d \in Consumer \ {c} : ret'[d] = ret[d]
  BY DEF TypeOK, QueueTypeOK
<1> QED  BY <1>1, <1>2 DEF ExactlyOnce

\* A new queue holds and has handed out nothing.
LEMMA InitOnce ==
    ASSUME QueueInit
    PROVE  ExactlyOnce
<1>1. DOMAIN jobs = {}  BY DEF QueueInit
<1>2. \A c \in Consumer : ret[c] \notin Job
  BY JobIsNotError DEF QueueInit
<1> QED  BY <1>1, <1>2 DEF ExactlyOnce

\* A pushed job was nowhere before: it is not accepted yet.
LEMMA PushOnce ==
    ASSUME TypeOK, ExactlyOnce, NEW j \in Job, Push(j)
    PROVE  ExactlyOnce'
<1>1. CASE Refuses
  <2>1. /\ jobs' = jobs /\ ret' = ret /\ offer[j] # "accepted"
        /\ \A k \in Job \ {j} : offer'[k] = offer[k]
    BY <1>1 DEF Push, TypeOK, QueueTypeOK
  <2>2. \A i \in DOMAIN jobs : jobs[i] \in Job \ {j}
    BY <2>1 DEF ExactlyOnce, TypeOK, QueueTypeOK
  <2>3. \A c \in Consumer : ret[c] # j
    BY <2>1 DEF ExactlyOnce
  <2> QED  BY <2>1, <2>2, <2>3 DEF ExactlyOnce
<1>2. CASE ~Refuses
  <2>1. /\ jobs' = Append(jobs, j) /\ ret' = ret /\ offer[j] # "accepted"
        /\ offer'[j] = "accepted" /\ \A k \in Job \ {j} : offer'[k] = offer[k]
    BY <1>2 DEF Push, TypeOK, QueueTypeOK
  <2>2. /\ DOMAIN jobs = 1..Len(jobs) /\ Len(jobs) \in Nat
        /\ DOMAIN jobs' = 1..(Len(jobs) + 1)
        /\ jobs'[Len(jobs) + 1] = j /\ \A i \in DOMAIN jobs : jobs'[i] = jobs[i]
    BY <2>1 DEF TypeOK, QueueTypeOK
  <2>3. \A i \in DOMAIN jobs : jobs[i] \in Job /\ jobs[i] # j
    BY <2>1 DEF ExactlyOnce, TypeOK, QueueTypeOK
  <2>4. \A c \in Consumer : ret[c] # j
    BY <2>1 DEF ExactlyOnce
  <2>5. \A i \in DOMAIN jobs' : i \in DOMAIN jobs \/ (i = Len(jobs) + 1 /\ jobs'[i] = j)
    BY <2>2
  <2>6. \A i, k \in DOMAIN jobs' : jobs'[i] = jobs'[k] => i = k
    BY <2>2, <2>3, <2>5 DEF ExactlyOnce
  <2>7. \A i \in DOMAIN jobs' : offer'[jobs'[i]] = "accepted"
    BY <2>1, <2>2, <2>3, <2>5 DEF ExactlyOnce
  <2>8. ASSUME NEW c \in Consumer, ret'[c] \in Job
        PROVE  /\ offer'[ret'[c]] = "accepted"
               /\ \A i \in DOMAIN jobs' : jobs'[i] # ret'[c]
               /\ \A d \in Consumer : ret'[d] = ret'[c] => d = c
    BY <2>1, <2>2, <2>4, <2>5, <2>8 DEF ExactlyOnce
  <2> QED  BY <2>6, <2>7, <2>8 DEF ExactlyOnce
<1> QED  BY <1>1, <1>2

\* One pass of Pop's loop keeps every job in one place.
LEMMA PopLoopOnce ==
    ASSUME TypeOK, ExactlyOnce, NEW c \in Consumer, PopLoop(c)
    PROVE  ExactlyOnce'
<1>1. CASE Pop_Wait(c)
  BY <1>1 DEF PopLoop, Pop_Wait, ExactlyOnce
<1>2. CASE Pop_Canceled(c) \/ Pop_Closed(c)
  <2>1. PICK e \in Errors : ret' = [ret EXCEPT ![c] = e] /\ UNCHANGED <<jobs, offer>>
    BY <1>2 DEF PopLoop, Pop_Canceled, Pop_Closed, Pop_Return, Errors
  <2> QED  BY <2>1, ReturnOnce
<1>3. CASE Pop_Take(c)
  BY <1>3, TakeOnce DEF PopLoop, Pop_Take, Pop_Return
<1> QED  BY <1>1, <1>2, <1>3 DEF PopLoop

\* A job is never handed out twice, queued twice or both queued and handed out,
\* through every interleaving of producers and consumers: ExactlyOnce for every
\* number of jobs and consumers, queue type and size.
THEOREM JobsAreHandedOutOnce == Spec => []ExactlyOnce
<1>1. QueueInit => ExactlyOnce
  BY InitOnce
<1>2. TypeOK /\ ExactlyOnce /\ [Next]_queueVars => ExactlyOnce'
  <2> SUFFICES ASSUME TypeOK, ExactlyOnce, [Next]_queueVars PROVE ExactlyOnce'
    OBVIOUS
  <2>1. ASSUME UNCHANGED <<jobs, offer, ret>> PROVE ExactlyOnce'
    BY <2>1 DEF ExactlyOnce
  <2>2. ASSUME NEW j \in Job, Push(j) PROVE ExactlyOnce'
    BY <2>2, PushOnce
  <2>3. ASSUME NEW c \in Consumer, Pop(c) \/ Resume(c) PROVE ExactlyOnce'
    BY <2>3, PopLoopOnce DEF Pop, Resume
  <2>4. ASSUME NEW c \in Consumer, Dequeue(c) PROVE ExactlyOnce'
    <3>1. CASE jobs = <<>>
      BY <2>4, <3>1, ReturnOnce DEF Dequeue, Errors
    <3>2. CASE jobs # <<>>
      BY <2>4, <3>2, TakeOnce DEF Dequeue
    <3> QED  BY <3>1, <3>2
  <2>5. CASE Clear
    <3>1. DOMAIN jobs' = {} /\ UNCHANGED <<offer, ret>>
      BY <2>5 DEF Clear
    <3> QED  BY <3>1 DEF ExactlyOnce
  <2>6. ASSUME NEW c \in Consumer, Cancel(c) PROVE ExactlyOnce'
    BY <2>1, <2>6 DEF Cancel
  <2>7. CASE Close  BY <2>1, <2>7 DEF Close
  <2>8. CASE UNCHANGED queueVars  BY <2>1, <2>8 DEF queueVars
  <2> QED
    BY <2>2, <2>3, <2>4, <2>5, <2>6, <2>7, <2>8 DEF Next
<1> QED  BY <1>1, <1>2, TypeCorrect, PTL DEF Spec

-----------------------------------------------------------------------------
(* The queue implements a pool of work.                                    *)

\* Every step of the queue is, seen through its set of jobs and its set of
\* blocked callers, a step of WorkPool or invisible.  Distinct jobs make taking a
\* position the same as taking a job out of the set; a goroutine is asleep or
\* woken, never both, so that being woken is invisible.
LEMMA StepImplements ==
    ASSUME TypeOK, ExactlyOnce, [Next]_queueVars
    PROVE  [Pool!Next]_(Pool!poolVars)
<1> USE DEF Pool!poolVars
<1>1. ASSUME NEW j \in Job, Push(j) PROVE [Pool!Next]_(Pool!poolVars)
  <2>1. Blocked' = Blocked /\ UNCHANGED <<closed, ret>>
    BY <1>1 DEF Push, Signal, Blocked
  <2>2. CASE Refuses
    BY <1>1, <2>1, <2>2 DEF Push
  <2>3. CASE ~Refuses
    <3>1. jobs' = Append(jobs, j) /\ ~closed /\ offer[j] # "accepted"
      BY <1>1, <2>3 DEF Push, Refuses
    <3>2. /\ DOMAIN jobs = 1..Len(jobs) /\ Len(jobs) \in Nat
          /\ DOMAIN jobs' = 1..(Len(jobs) + 1)
          /\ jobs'[Len(jobs) + 1] = j /\ \A i \in DOMAIN jobs : jobs'[i] = jobs[i]
      BY <3>1 DEF TypeOK, QueueTypeOK
    <3>3. DOMAIN jobs' = DOMAIN jobs \cup {Len(jobs) + 1}
      BY <3>2
    <3>4. Range(jobs') = Range(jobs) \cup {j}
      BY <3>2, <3>3 DEF Range
    <3>5. j \notin Range(jobs)
      BY <3>1 DEF Range, ExactlyOnce
    <3>6. Pool!Accept(j)
      BY <2>1, <3>1, <3>4, <3>5 DEF Pool!Accept
    <3> QED  BY <3>6 DEF Pool!Next
  <2> QED  BY <2>2, <2>3
<1>2. ASSUME NEW c \in Consumer, NEW i \in Eligible, c \notin waiting,
             ret' = [ret EXCEPT ![c] = jobs[i]], jobs' = RemoveAt(jobs, i),
             Blocked' = Blocked \ {c}, UNCHANGED closed
      PROVE  Pool!Next
  <2>1. i \in 1..Len(jobs) /\ jobs \in Seq(Job) /\ i \in DOMAIN jobs
    BY EligibleIsPosition DEF TypeOK, QueueTypeOK
  <2>2. Range(jobs') = Range(jobs) \ {jobs[i]}
    BY <1>2, <2>1, RemoveAtOnce DEF ExactlyOnce
  <2>3. jobs[i] \in Range(jobs)
    BY <2>1 DEF Range
  <2>4. Pool!Deliver(c)
    BY <1>2, <2>2, <2>3 DEF Pool!Deliver
  <2> QED  BY <2>4 DEF Pool!Next
<1>3. ASSUME NEW c \in Consumer, NEW e \in Errors, jobs = <<>>, e = "closed" => closed,
             ret' = [ret EXCEPT ![c] = e], Blocked' = Blocked \ {c}, UNCHANGED <<jobs, closed>>
      PROVE  Pool!Next
  <2>1. Range(jobs) = {}
    BY <1>3 DEF Range
  <2>2. Pool!Fail(c, e)
    BY <1>3, <2>1 DEF Pool!Fail
  <2> QED  BY <2>2 DEF Pool!Next, Errors
<1>4. ASSUME NEW c \in Consumer, Pop(c) \/ Resume(c) PROVE [Pool!Next]_(Pool!poolVars)
  <2>1. c \notin waiting /\ PopLoop(c)
    BY <1>4 DEF Pop, Resume, Blocked, TypeOK
  <2>2. CASE Pop_Wait(c)
    <3>1. Range(jobs) = {} /\ ~closed /\ Blocked' = Blocked \cup {c} /\ UNCHANGED <<jobs, closed, ret>>
      BY <2>1, <2>2 DEF Pop_Wait, PopLoop, Blocked, Range
    <3>2. Pool!Block(c)
      BY <3>1 DEF Pool!Block
    <3> QED  BY <3>2 DEF Pool!Next
  <2>3. CASE Pop_Canceled(c) \/ Pop_Closed(c)
    BY <1>3, <2>1, <2>3 DEF Pop_Canceled, Pop_Closed, Pop_Return, PopLoop, Blocked, Errors
  <2>4. CASE Pop_Take(c)
    BY <1>2, <2>1, <2>4 DEF Pop_Take, Pop_Return, PopLoop, Blocked
  <2> QED  BY <2>1, <2>2, <2>3, <2>4 DEF PopLoop
<1>5. ASSUME NEW c \in Consumer, Dequeue(c) PROVE [Pool!Next]_(Pool!poolVars)
  <2>1. c \notin waiting /\ Blocked' = Blocked \ {c} /\ UNCHANGED closed
    BY <1>5 DEF Dequeue, Blocked
  <2>2. CASE jobs = <<>>
    BY <1>3, <1>5, <2>1, <2>2 DEF Dequeue, Errors
  <2>3. CASE jobs # <<>>
    BY <1>2, <1>5, <2>1, <2>3 DEF Dequeue
  <2> QED  BY <2>2, <2>3
<1>6. ASSUME NEW c \in Consumer, Cancel(c) PROVE [Pool!Next]_(Pool!poolVars)
  BY <1>6 DEF Cancel, Blocked
<1>7. CASE Clear
  <2>1. Range(jobs') = {} /\ UNCHANGED <<closed, Blocked, ret>>
    BY <1>7 DEF Clear, Range, Blocked
  <2>2. Pool!Discard
    BY <2>1 DEF Pool!Discard
  <2> QED  BY <2>2 DEF Pool!Next
<1>8. CASE Close
  <2>1. UNCHANGED <<jobs, ret, Blocked>> /\ (closed' = TRUE \/ closed' = closed)
    BY <1>8 DEF Close, Blocked
  <2>2. CASE closed' = TRUE
    <3>1. Pool!Shut  BY <2>1, <2>2 DEF Pool!Shut
    <3> QED  BY <3>1 DEF Pool!Next
  <2>3. CASE closed' = closed
    BY <2>1, <2>3
  <2> QED  BY <2>1, <2>2, <2>3
<1>9. CASE UNCHANGED queueVars
  BY <1>9 DEF queueVars, Blocked
<1> QED
  BY <1>1, <1>4, <1>5, <1>6, <1>7, <1>8, <1>9 DEF Next

\* The queue with its mutex and condition variable implements the safety part of
\* WorkPool, which ImplementsWorkPool states with its progress: callers see a pool
\* from which each takes a job of its own.
THEOREM QueueIsAPool == Spec => Pool!Safety
<1>1. QueueInit => Pool!Init
  BY DEF QueueInit, Pool!Init, Blocked, Range
<1> QED
  BY <1>1, StepImplements, TypeCorrect, JobsAreHandedOutOnce, PTL DEF Spec, Pool!Safety
=============================================================================
