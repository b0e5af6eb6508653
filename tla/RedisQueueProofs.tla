-------------------------- MODULE RedisQueueProofs --------------------------
(***************************************************************************)
(* Machine-checked facts about RedisQueue for every set of jobs, policies, *)
(* delays and workers and every clock resolution: one copy of a job and    *)
(* the retry policy with deaths between any two commands; nothing lost and *)
(* the pending index when nobody dies.                                     *)
(***************************************************************************)
EXTENDS RedisQueue, SequenceTheorems, TLAPS

\* The payloads of the queue: those in a key and those between two keys.
InQueue == Listed \cup delayed \cup reserved \cup Moved

\* A job that was not dispatched, and one whose reservation ack has removed,
\* has no payload left anywhere.
NewAbsent ==
  \A j \in Job : push_pc[j] = "new" => \A p \in InQueue : p.job # j
AckedAbsent ==
  \A w \in Worker : pc[w] = "ack_time" =>
    push_pc[held[w].job] # "new" /\ \A p \in InQueue : p.job # held[w].job

CopyInv == TypeOK /\ OneCopy /\ NewAbsent /\ AckedAbsent

\* The handler starts the policy of a job pays for.
Budget(j) == LET m == PolicyOf[j].max_tries IN IF m = 0 THEN 1 ELSE m

\* Payloads that have yet to be run, and payloads that release is pushing again.
Unrun(w) == pc[w] \in {"promote_push", "popped", "reserve", "claimed"}
Retrying(w) == pc[w] \in {"release", "release_time", "push"}

\* The attempt number of a payload is within the budget and covers the runs so
\* far, with one to spare until its handler starts.
AttemptAccount ==
  /\ \A j \in Job : ran[j] <= Budget(j)
  /\ \A j \in Job : push_pc[j] = "new" => ran[j] = 0
  /\ \A p \in InQueue : p.attempts <= Budget(p.job) /\ ran[p.job] <= p.attempts
  /\ \A p \in Listed \cup delayed : ran[p.job] < p.attempts
  /\ \A w \in Worker : Unrun(w) => ran[held[w].job] < held[w].attempts
  /\ \A w \in Worker : Retrying(w) => held[w].attempts < PolicyOf[held[w].job].max_tries

\* Whatever has left the delayed set, or was seen due in it, is due to within a second.
DueAccount ==
  /\ \A p \in Listed \cup reserved : p.available_at < now + TicksPerSecond
  /\ \A w \in Worker : \A p \in due[w] : p.available_at < now + TicksPerSecond
  /\ \A w \in Worker : pc[w] \in {"promote_push", "popped", "reserve"} =>
       held[w].available_at < now + TicksPerSecond

\* A payload about to be acknowledged has its verdict.
Settled(j) == j \in done \/ \E id \in failed : id[1] = j
AckSettled ==
  \A w \in Worker : pc[w] \in {"ack", "dead_time"} => Settled(held[w].job)

-----------------------------------------------------------------------------
(* The pending list. *)

\* LPUSH puts one payload in front of the others.
LEMMA ListPushed ==
  ASSUME NEW p \in Payload, list \in Seq(Payload), list' = <<p>> \o list
  PROVE  /\ list' \in Seq(Payload) /\ Listed' = Listed \cup {p}
         /\ Len(list') = Len(list) + 1 /\ list'[1] = p
         /\ \A i \in 2 .. Len(list') : i - 1 \in 1 .. Len(list) /\ list'[i] = list[i - 1]
<1>1. /\ list' \in Seq(Payload) /\ Len(list') = Len(list) + 1 /\ list'[1] = p
      /\ \A i \in 2 .. Len(list') : i - 1 \in 1 .. Len(list) /\ list'[i] = list[i - 1]
  OBVIOUS
<1>2. \A i \in 1 .. Len(list) : i + 1 \in 2 .. Len(list') /\ list'[i + 1] = list[i]
  BY <1>1
<1>3. Listed' = {list'[i] : i \in 1 .. Len(list')}
  BY DEF Listed
<1>4. ASSUME NEW q PROVE q \in Listed' <=> q \in Listed \cup {p}
  <2>1. ASSUME q \in Listed' PROVE q \in Listed \cup {p}
    <3>1. PICK i \in 1 .. Len(list') : q = list'[i]
      BY <1>3, <2>1
    <3>2. i = 1 \/ i \in 2 .. Len(list')
      BY <3>1
    <3> QED
      BY <1>1, <3>1, <3>2 DEF Listed
  <2>2. ASSUME q \in Listed PROVE q \in Listed'
    BY <1>1, <1>2, <1>3, <2>2 DEF Listed
  <2>3. p \in Listed'
    BY <1>1, <1>3
  <2> QED
    BY <2>1, <2>2, <2>3
<1> QED
  BY <1>1, <1>4

\* What is left of a sequence without its last element.
LEMMA SeqPopped ==
  ASSUME NEW S, NEW s \in Seq(S), s # <<>>
  PROVE  /\ Len(s) \in 1 .. Len(s) /\ s[Len(s)] \in S
         /\ SubSeq(s, 1, Len(s) - 1) \in Seq(S)
         /\ Len(SubSeq(s, 1, Len(s) - 1)) = Len(s) - 1
         /\ \A i \in 1 .. Len(s) - 1 : i \in 1 .. Len(s) /\ SubSeq(s, 1, Len(s) - 1)[i] = s[i]
<1> DEFINE n == Len(s) - 1
           t == SubSeq(s, 1, n)
<1>0. Len(s) \in Nat /\ Len(s) >= 1
  OBVIOUS
<1>1. n \in Nat /\ n <= Len(s) /\ 1 .. n \subseteq 1 .. Len(s)
  BY <1>0
<1>2. \A i \in 1 .. n : s[i] \in S
  BY <1>1
<1>3. t \in Seq(S) /\ Len(t) = n /\ \A i \in 1 .. n : t[i] = s[i]
  <2>1. /\ t \in Seq(S) /\ Len(t) = IF 1 <= n THEN n - 1 + 1 ELSE 0
        /\ \A i \in 1 .. n - 1 + 1 : t[i] = s[1 + i - 1]
    BY <1>1, <1>2, SubSeqProperties
  <2>2. n - 1 + 1 = n /\ (\A i \in 1 .. n : 1 + i - 1 = i)
    BY <1>1
  <2> HIDE DEF n, t
  <2> QED
    BY <1>1, <2>1, <2>2
<1> QED
  BY <1>0, <1>1, <1>3

\* BRPOP takes the last one, and it alone when jobs do not repeat.
LEMMA ListPopped ==
  ASSUME list \in Seq(Payload), list # <<>>, list' = SubSeq(list, 1, Len(list) - 1),
         \A i, k \in 1 .. Len(list) : list[i].job = list[k].job => i = k
  PROVE  /\ list' \in Seq(Payload) /\ Listed' = Listed \ {list[Len(list)]}
         /\ list[Len(list)] \in Listed /\ list[Len(list)] \in Payload
         /\ Len(list') = Len(list) - 1
         /\ \A i \in 1 .. Len(list') : i \in 1 .. Len(list) /\ list'[i] = list[i]
<1>1. /\ list' \in Seq(Payload) /\ Len(list') = Len(list) - 1
      /\ Len(list) \in 1 .. Len(list)
      /\ \A i \in 1 .. Len(list') : i \in 1 .. Len(list) /\ list'[i] = list[i]
  BY SeqPopped
<1>2. Listed' = {list'[i] : i \in 1 .. Len(list')}
  BY DEF Listed
<1>3. ASSUME NEW q PROVE q \in Listed' <=> q \in Listed \ {list[Len(list)]}
  <2>1. ASSUME q \in Listed' PROVE q \in Listed /\ q # list[Len(list)]
    <3>1. PICK i \in 1 .. Len(list') : q = list'[i]
      BY <1>2, <2>1
    <3>2. i \in 1 .. Len(list) /\ q = list[i] /\ i # Len(list)
      BY <1>1, <3>1
    <3> QED
      BY <1>1, <3>2 DEF Listed
  <2>2. ASSUME q \in Listed, q # list[Len(list)] PROVE q \in Listed'
    <3>1. PICK i \in 1 .. Len(list) : q = list[i]
      BY <2>2 DEF Listed
    <3>2. i \in 1 .. Len(list')
      BY <1>1, <2>2, <3>1
    <3> QED
      BY <1>1, <1>2, <3>1, <3>2
  <2> QED
    BY <2>1, <2>2
<1> QED
  BY <1>1, <1>3 DEF Listed

LEMMA ListedTyped ==
  ASSUME TypeOK
  PROVE  Listed \subseteq Payload
BY DEF TypeOK, Listed

-----------------------------------------------------------------------------
(* Types. *)

\* The backoff of a failed attempt (policy.rs delay_for_attempt) is a natural.
LEMMA DelayIsNat ==
  ASSUME NEW p \in Policy, NEW a \in Nat
  PROVE  delay_for_attempt(p, a) \in Nat
<1>1. CASE p.backoff = 0 \/ a <= 1
  BY <1>1 DEF delay_for_attempt, Policy
<1>2. CASE ~(p.backoff = 0 \/ a <= 1)
  <2> DEFINE shift == IF a - 1 < MaxBackoffShift THEN a - 1 ELSE MaxBackoffShift
  <2>1. shift \in 0 .. MaxBackoffShift
    BY <1>2 DEF MaxBackoffShift
  <2>2. 2^shift \in Nat
    BY <2>1, FactorAssumption
  <2>3. p.backoff \in Nat
    BY DEF Policy
  <2>4. delay_for_attempt(p, a) = p.backoff * 2^shift
    BY <1>2 DEF delay_for_attempt
  <2> HIDE DEF shift
  <2>5. \A m, n \in Nat : m * n \in Nat
    OBVIOUS
  <2> QED
    BY <2>2, <2>3, <2>4, <2>5
<1> QED
  BY <1>1, <1>2

\* What release pushes is a payload of the same job, one attempt on.
LEMMA RetryIsPayload ==
  ASSUME TypeOK, NEW p \in Payload
  PROVE  /\ RetryOf(p) \in Payload /\ RetryOf(p).job = p.job
         /\ RetryOf(p).attempts = p.attempts + 1
<1>1. delay_for_attempt(PolicyOf[p.job], p.attempts) \in Nat
  BY DelayIsNat, RedisAssumption DEF Payload
<1>2. now + delay_for_attempt(PolicyOf[p.job], p.attempts) \in Nat
  BY <1>1 DEF TypeOK
<1>3. p.attempts + 1 \in Nat
  BY DEF Payload
<1>4. ASSUME NEW a \in Nat, NEW t \in Nat
      PROVE  LET q == [p EXCEPT !.attempts = a, !.available_at = t]
             IN  q \in Payload /\ q.job = p.job /\ q.attempts = a
  BY DEF Payload
<1> QED
  BY <1>2, <1>3, <1>4 DEF RetryOf

LEMMA HeldIsPayload ==
  ASSUME TypeOK, NEW w \in Worker, pc[w] \notin {"idle", "promote"}
  PROVE  held[w] \in Payload /\ held[w].job \in Job /\ Id(held[w]) \in Job \X Nat
BY DEF TypeOK, Payload, Id

LEMMA DispositionIsArm ==
  ASSUME NEW p, NEW a, NEW o
  PROVE  /\ disposition(p, a, o) \in {"ack", "release", "dead_letter"}
         /\ disposition(p, a, o) = "release" => a < p.max_tries
BY DEF disposition, allows_retry

\* The end of a handler sends the worker to one of the three arms; the retry
\* arm only with attempts left, the ack arm with the verdict recorded.
LEMMA FinishArm ==
  ASSUME NEW w \in Worker, FinishRun(w)
  PROVE  \E arm \in {"ack", "release", "dead_letter"} :
           /\ pc' = [pc EXCEPT ![w] = arm]
           /\ arm = "release" => held[w].attempts < PolicyOf[held[w].job].max_tries
           /\ done' = IF arm = "ack" THEN done \cup {held[w].job} ELSE done
<1>1. PICK result \in HandlerResult :
        LET arm == disposition(PolicyOf[held[w].job], held[w].attempts,
                               run(PolicyOf[held[w].job], result))
        IN  /\ pc' = [pc EXCEPT ![w] = arm]
            /\ done' = IF arm = "ack" THEN done \cup {held[w].job} ELSE done
  BY DEF FinishRun
<1> DEFINE arm == disposition(PolicyOf[held[w].job], held[w].attempts,
                              run(PolicyOf[held[w].job], result))
<1>2. /\ arm \in {"ack", "release", "dead_letter"}
      /\ arm = "release" => held[w].attempts < PolicyOf[held[w].job].max_tries
  BY DispositionIsArm
<1> HIDE DEF arm
<1> QED
  BY <1>1, <1>2 DEF arm

LEMMA TypeStep ==
  ASSUME TypeOK, [Next]_vars
  PROVE  TypeOK'
<1> USE RedisAssumption
<1>1. ASSUME NEW j \in Job, Dispatch(j) PROVE TypeOK'
  <2>1. PICK delay \in Delays :
          LET p == [job |-> j, attempts |-> 1, available_at |-> now + delay]
          IN  \/ PushDelayed(p) /\ push_pc' = [push_pc EXCEPT ![j] = "sent"]
              \/ PushNow(p) /\ push_pc' = [push_pc EXCEPT ![j] = "time"]
    BY <1>1 DEF Dispatch
  <2> DEFINE p == [job |-> j, attempts |-> 1, available_at |-> now + delay]
  <2>2. p \in Payload
    BY DEF Payload, TypeOK
  <2>3. list' \in Seq(Payload) /\ delayed' \subseteq Payload
    <3>1. CASE PushDelayed(p)
      BY <2>2, <3>1 DEF PushDelayed, TypeOK
    <3>2. CASE PushNow(p)
      BY <2>2, <3>2, ListPushed DEF PushNow, TypeOK
    <3> QED
      BY <2>1, <3>1, <3>2
  <2>4. push_pc' \in [Job -> PushPc]
    BY <2>1 DEF TypeOK, PushPc
  <2> QED
    BY <1>1, <2>3, <2>4 DEF Dispatch, TypeOK, workers
<1>2. ASSUME NEW j \in Job, DispatchTime(j) \/ DispatchDies(j) PROVE TypeOK'
  BY <1>2 DEF DispatchTime, DispatchDies, TypeOK, PushPc, workers, store
<1>3. ASSUME NEW w \in Worker, PromoteRange(w) \/ PopTimeout(w) \/ WorkerDies(w) PROVE TypeOK'
  <2>1. CASE PromoteRange(w)
    <3>1. due' \in [Worker -> SUBSET Payload]
      BY <2>1 DEF PromoteRange, TypeOK
    <3> QED
      BY <2>1, <3>1 DEF PromoteRange, TypeOK, WorkerPc, store
  <2>2. CASE PopTimeout(w)
    BY <2>2 DEF PopTimeout, TypeOK, WorkerPc, store
  <2>3. CASE WorkerDies(w)
    <3>1. due' \in [Worker -> SUBSET Payload]
      BY <2>3 DEF WorkerDies, TypeOK
    <3>2. held' \in [Worker -> Payload \cup {None}]
      BY <2>3 DEF WorkerDies, TypeOK
    <3> QED
      BY <2>3, <3>1, <3>2 DEF WorkerDies, TypeOK, WorkerPc, store
  <2> QED
    BY <1>3, <2>1, <2>2, <2>3
<1>4. ASSUME NEW w \in Worker, PromoteRemove(w) PROVE TypeOK'
  <2>1. PICK p \in due[w] :
          /\ due' = [due EXCEPT ![w] = @ \ {p}]
          /\ delayed' = delayed \ {p}
          /\ IF p \in delayed
             THEN /\ held' = [held EXCEPT ![w] = p]
                  /\ pc' = [pc EXCEPT ![w] = "promote_push"]
             ELSE UNCHANGED <<held, pc>>
    BY <1>4 DEF PromoteRemove
  <2>2. p \in Payload /\ p # None
    BY <2>1 DEF TypeOK
  <2>3. due' \in [Worker -> SUBSET Payload] /\ delayed' \subseteq Payload
    BY <2>1 DEF TypeOK
  <2>4. /\ pc' \in [Worker -> WorkerPc] /\ held' \in [Worker -> Payload \cup {None}]
        /\ \A v \in Worker : held'[v] = None <=> pc'[v] \in {"idle", "promote"}
    <3>1. CASE p \in delayed
      BY <2>1, <2>2, <3>1 DEF TypeOK, WorkerPc
    <3>2. CASE p \notin delayed
      BY <2>1, <3>2 DEF TypeOK
    <3> QED
      BY <3>1, <3>2
  <2> QED
    BY <1>4, <2>3, <2>4 DEF PromoteRemove, TypeOK
<1>5. ASSUME NEW w \in Worker, PromotePush(w) PROVE TypeOK'
  <2>1. held[w] \in Payload
    BY <1>5, HeldIsPayload DEF PromotePush
  <2>2. list' \in Seq(Payload)
    BY <1>5, <2>1, ListPushed DEF PromotePush, TypeOK
  <2> QED
    BY <1>5, <2>2 DEF PromotePush, TypeOK, WorkerPc
<1>6. ASSUME NEW w \in Worker, PromoteTime(w) \/ ReleaseTime(w) \/ DeadLetter(w) PROVE TypeOK'
  <2>1. Id(held[w]) \in Job \X Nat
    BY <1>6, HeldIsPayload DEF PromoteTime, ReleaseTime, DeadLetter
  <2> QED
    BY <1>6, <2>1 DEF PromoteTime, ReleaseTime, DeadLetter, TypeOK, WorkerPc
<1>7. ASSUME NEW w \in Worker, BrPop(w) PROVE TypeOK'
  <2>1. list' \in Seq(Payload) /\ list[Len(list)] \in Payload
    BY <1>7, SeqPopped DEF BrPop, TypeOK
  <2> QED
    BY <1>7, <2>1 DEF BrPop, TypeOK, WorkerPc
<1>8. ASSUME NEW w \in Worker, PopTime(w) \/ DeadTime(w) \/ AckReserved(w) \/ AckTime(w) PROVE TypeOK'
  BY <1>8 DEF PopTime, DeadTime, AckReserved, AckTime, ZremTime, TypeOK, WorkerPc
<1>9. ASSUME NEW w \in Worker, Reserve(w) PROVE TypeOK'
  BY <1>9, HeldIsPayload DEF Reserve, TypeOK, WorkerPc
<1>10. ASSUME NEW w \in Worker, StartRun(w) PROVE TypeOK'
  <2>1. held[w].job \in Job
    BY <1>10, HeldIsPayload DEF StartRun
  <2> QED
    BY <1>10, <2>1 DEF StartRun, TypeOK, WorkerPc, store
<1>11. ASSUME NEW w \in Worker, FinishRun(w) PROVE TypeOK'
  <2>1. held[w].job \in Job
    BY <1>11, HeldIsPayload DEF FinishRun
  <2>2. done' \subseteq Job
    BY <1>11, <2>1 DEF FinishRun, TypeOK
  <2>3. \E arm \in {"ack", "release", "dead_letter"} : pc' = [pc EXCEPT ![w] = arm]
    BY <1>11, FinishArm
  <2> QED
    BY <1>11, <2>2, <2>3 DEF FinishRun, TypeOK, WorkerPc, store
<1>12. ASSUME NEW w \in Worker, ReleasePush(w) PROVE TypeOK'
  <2> DEFINE p == RetryOf(held[w])
  <2>1. p \in Payload
    BY <1>12, HeldIsPayload, RetryIsPayload DEF ReleasePush
  <2>2. PushDelayed(p) \/ PushNow(p)
    BY <1>12 DEF ReleasePush
  <2> HIDE DEF p
  <2>3. list' \in Seq(Payload) /\ delayed' \subseteq Payload
    <3>1. CASE PushDelayed(p)
      BY <2>1, <3>1 DEF PushDelayed, TypeOK
    <3>2. CASE PushNow(p)
      BY <2>1, <3>2, ListPushed DEF PushNow, TypeOK
    <3> QED
      BY <2>2, <3>1, <3>2
  <2>4. /\ pc' \in [Worker -> WorkerPc] /\ held' \in [Worker -> Payload \cup {None}]
        /\ \A v \in Worker : held'[v] = None <=> pc'[v] \in {"idle", "promote"}
    <3>1. \/ pc' = [pc EXCEPT ![w] = "idle"] /\ held' = [held EXCEPT ![w] = None]
          \/ pc' = [pc EXCEPT ![w] = "push_time"] /\ held' = [held EXCEPT ![w] = p]
      BY <1>12 DEF ReleasePush, p
    <3> QED
      BY <2>1, <3>1 DEF TypeOK, WorkerPc
  <2> QED
    BY <1>12, <2>3, <2>4 DEF ReleasePush, TypeOK
<1>13. ASSUME Tick PROVE TypeOK'
  BY <1>13 DEF Tick, TypeOK, store, workers
<1>14. ASSUME UNCHANGED vars PROVE TypeOK'
  BY <1>14 DEF vars, TypeOK
<1> QED
  BY <1>1, <1>2, <1>3, <1>4, <1>5, <1>6, <1>7, <1>8, <1>9, <1>10, <1>11, <1>12, <1>13, <1>14
  DEF Next, WorkerStep

LEMMA TypeInit ==
  ASSUME Init
  PROVE  TypeOK
BY DEF Init, TypeOK, PushPc, WorkerPc

-----------------------------------------------------------------------------
(* One copy of a job. *)

\* The parts of OneCopy: jobs do not repeat in the list, a job has one
\* payload, the keys and the movers are apart, and so are the workers.
ListOnce == \A i, k \in 1 .. Len(list) : list[i].job = list[k].job => i = k
JobOnce == \A p, q \in InQueue : p.job = q.job => p = q
KeysApart ==
  /\ \A p \in Listed : p \notin delayed \cup reserved \cup Moved
  /\ \A p \in delayed : p \notin reserved \cup Moved
  /\ \A p \in reserved : p \notin Moved
MoversApart == \A v, w \in Worker : Moving(v) /\ Moving(w) /\ held[v] = held[w] => v = w
RunnersApart ==
  \A v, w \in Worker : Processing(v) =>
    /\ held[v] \in reserved
    /\ Processing(w) /\ held[v] = held[w] => v = w

LEMMA OneCopyParts ==
  OneCopy <=> ListOnce /\ JobOnce /\ KeysApart /\ MoversApart /\ RunnersApart
BY DEF OneCopy, ListOnce, JobOnce, KeysApart, MoversApart, RunnersApart, InQueue

LEMMA OneCopyPartsNext ==
  OneCopy' <=> ListOnce' /\ JobOnce' /\ KeysApart' /\ MoversApart' /\ RunnersApart'
BY DEF OneCopy, ListOnce, JobOnce, KeysApart, MoversApart, RunnersApart, InQueue

\* What the other workers move.
Rest(w) == {held[v] : v \in {u \in Worker \ {w} : Moving(u)}}

\* A step of w changes what is moved by w alone.
LEMMA MovedSplit ==
  ASSUME NEW w \in Worker, \A v \in Worker \ {w} : pc'[v] = pc[v] /\ held'[v] = held[v]
  PROVE  /\ Moved = Rest(w) \cup (IF Moving(w) THEN {held[w]} ELSE {})
         /\ Moved' = Rest(w) \cup (IF Moving(w)' THEN {held'[w]} ELSE {})
         /\ \A v \in Worker \ {w} : Moving(v)' <=> Moving(v)
         /\ \A v \in Worker \ {w} : Processing(v)' <=> Processing(v)
<1>1. \A v \in Worker \ {w} : Moving(v)' <=> Moving(v)
  BY DEF Moving
<1>2. \A v \in Worker \ {w} : Processing(v)' <=> Processing(v)
  BY DEF Processing
<1>3. Moved = Rest(w) \cup (IF Moving(w) THEN {held[w]} ELSE {})
  BY DEF Moved, Rest
<1>4. Moved' = Rest(w) \cup (IF Moving(w)' THEN {held'[w]} ELSE {})
  BY <1>1 DEF Moved, Rest
<1> QED
  BY <1>1, <1>2, <1>3, <1>4

\* What w moves, nobody else does.
LEMMA RestApart ==
  ASSUME MoversApart, NEW w \in Worker, Moving(w)
  PROVE  held[w] \notin Rest(w)
BY DEF MoversApart, Rest

\* LPUSH of a payload whose job is not in the list keeps the list repetition-free.
LEMMA PushOnce ==
  ASSUME NEW p \in Payload, list \in Seq(Payload), list' = <<p>> \o list, ListOnce,
         \A q \in Listed : q.job # p.job
  PROVE  ListOnce'
<1>1. /\ list'[1] = p
      /\ \A i \in 2 .. Len(list') : i - 1 \in 1 .. Len(list) /\ list'[i] = list[i - 1]
  BY ListPushed
<1>2. \A i \in 2 .. Len(list') : list'[i].job # p.job
  BY <1>1 DEF Listed
<1>3. ASSUME NEW i \in 1 .. Len(list'), NEW k \in 1 .. Len(list'),
             list'[i].job = list'[k].job
      PROVE  i = k
  <2>1. CASE i = 1 \/ k = 1
    BY <1>1, <1>2, <1>3, <2>1
  <2>2. CASE i # 1 /\ k # 1
    <3>1. i \in 2 .. Len(list') /\ k \in 2 .. Len(list')
      BY <2>2
    <3>2. i - 1 = k - 1
      BY <1>1, <1>3, <3>1 DEF ListOnce
    <3> QED
      BY <3>1, <3>2
  <2> QED
    BY <2>1, <2>2
<1> QED
  BY <1>3 DEF ListOnce

LEMMA PopOnce ==
  ASSUME list \in Seq(Payload), list # <<>>, list' = SubSeq(list, 1, Len(list) - 1), ListOnce
  PROVE  ListOnce'
<1>1. \A i \in 1 .. Len(list') : i \in 1 .. Len(list) /\ list'[i] = list[i]
  BY ListPopped DEF ListOnce
<1> QED
  BY <1>1 DEF ListOnce

\* The same payloads in the same keys, workers in the same stages.
LEMMA CopyStill ==
  ASSUME CopyInv, TypeOK', UNCHANGED <<list, delayed, reserved, push_pc>>,
         \A w \in Worker : Moving(w)' <=> Moving(w),
         \A w \in Worker : Moving(w) => held'[w] = held[w],
         \A w \in Worker : Processing(w)' => Processing(w) /\ held'[w] = held[w],
         \A w \in Worker : pc'[w] = "ack_time" => pc[w] = "ack_time" /\ held'[w] = held[w]
  PROVE  CopyInv' /\ InQueue' = InQueue
<1>1. Listed' = Listed /\ Moved' = Moved
  BY DEF Listed, Moved
<1>2. OneCopy'
  BY <1>1 DEF CopyInv, OneCopy
<1>3. NewAbsent' /\ AckedAbsent'
  BY <1>1 DEF CopyInv, NewAbsent, AckedAbsent, InQueue
<1> QED
  BY <1>1, <1>2, <1>3 DEF CopyInv, InQueue

\* A worker that stops moving or running leaves fewer payloads.
LEMMA CopyFewer ==
  ASSUME CopyInv, TypeOK', NEW w \in Worker, UNCHANGED <<list, delayed, reserved, push_pc>>,
         \A v \in Worker \ {w} : pc'[v] = pc[v] /\ held'[v] = held[v],
         ~ Moving(w)', ~ Processing(w)', pc'[w] # "ack_time"
  PROVE  CopyInv' /\ InQueue' \subseteq InQueue /\ (~ Moving(w) => InQueue' = InQueue)
<1>1. Listed' = Listed /\ Moved' \subseteq Moved /\ (~ Moving(w) => Moved' = Moved)
  BY MovedSplit DEF Listed
<1>2. OneCopy'
  BY <1>1, MovedSplit DEF CopyInv, OneCopy
<1>3. NewAbsent' /\ AckedAbsent'
  BY <1>1 DEF CopyInv, NewAbsent, AckedAbsent, InQueue
<1> QED
  BY <1>1, <1>2, <1>3 DEF CopyInv, InQueue

\* The dispatch of a job brings its only payload.
LEMMA CopyDispatch ==
  ASSUME CopyInv, TypeOK', NEW j \in Job, Dispatch(j)
  PROVE  CopyInv' /\ \E p \in Payload : p.job = j /\ p.attempts = 1 /\ InQueue' = InQueue \cup {p}
<1>1. PICK p \in Payload :
        /\ p.job = j /\ p.attempts = 1
        /\ \/ delayed' = delayed \cup {p} /\ list' = list
           \/ list' = <<p>> \o list /\ delayed' = delayed
  <2>1. PICK delay \in Delays :
          LET p == [job |-> j, attempts |-> 1, available_at |-> now + delay]
          IN  PushDelayed(p) \/ PushNow(p)
    BY DEF Dispatch
  <2> DEFINE p == [job |-> j, attempts |-> 1, available_at |-> now + delay]
  <2>2. p \in Payload /\ p.job = j /\ p.attempts = 1
    BY RedisAssumption DEF Payload, CopyInv, TypeOK
  <2> QED
    BY <2>1, <2>2 DEF PushDelayed, PushNow
<1>2. /\ UNCHANGED <<reserved, pc, held>> /\ push_pc[j] = "new" /\ push_pc'[j] # "new"
      /\ \A i \in Job \ {j} : push_pc'[i] = push_pc[i]
  BY DEF Dispatch, workers, CopyInv, TypeOK
<1>3. \A q \in InQueue : q.job # j
  BY <1>2 DEF CopyInv, NewAbsent
<1>4. Moved' = Moved /\ \A w \in Worker : (Moving(w)' <=> Moving(w)) /\ (Processing(w)' <=> Processing(w))
  BY <1>2 DEF Moved, Moving, Processing
<1>5. \/ Listed' = Listed /\ delayed' = delayed \cup {p}
      \/ Listed' = Listed \cup {p} /\ delayed' = delayed
  <2>1. CASE delayed' = delayed \cup {p} /\ list' = list
    BY <2>1 DEF Listed
  <2>2. CASE list' = <<p>> \o list /\ delayed' = delayed
    BY <1>1, <2>2, ListPushed DEF CopyInv, TypeOK
  <2> QED
    BY <1>1, <2>1, <2>2
<1>6. ListOnce'
  <2>1. CASE list' = list
    BY <2>1, OneCopyParts DEF ListOnce, CopyInv
  <2>2. CASE list' = <<p>> \o list
    BY <1>1, <1>3, <2>2, PushOnce, OneCopyParts DEF InQueue, CopyInv, TypeOK
  <2> QED
    BY <1>1, <2>1, <2>2
<1>7. InQueue' = InQueue \cup {p} /\ p \in Payload
  BY <1>2, <1>4, <1>5 DEF InQueue
<1>8. JobOnce'
  <2>1. JobOnce
    BY OneCopyParts DEF CopyInv
  <2> QED
    BY <1>1, <1>3, <1>7, <2>1 DEF JobOnce
<1>9. KeysApart'
  <2>1. KeysApart /\ p \notin InQueue
    BY <1>1, <1>3, OneCopyParts DEF CopyInv
  <2> QED
    BY <1>2, <1>4, <1>5, <2>1 DEF KeysApart, InQueue
<1>10. MoversApart' /\ RunnersApart'
  BY <1>2, <1>4, OneCopyParts DEF MoversApart, RunnersApart, CopyInv
<1>11. NewAbsent'
  BY <1>1, <1>2, <1>7 DEF NewAbsent, CopyInv
<1>12. AckedAbsent'
  <2>1. ASSUME NEW w \in Worker, pc[w] = "ack_time"
        PROVE  held[w].job # j /\ held[w].job \in Job
    BY <1>2, <2>1, HeldIsPayload DEF AckedAbsent, CopyInv
  <2> QED
    BY <1>1, <1>2, <1>7, <2>1 DEF AckedAbsent, CopyInv
<1>13. OneCopy'
  BY <1>6, <1>8, <1>9, <1>10, OneCopyPartsNext
<1> QED
  BY <1>1, <1>7, <1>11, <1>12, <1>13 DEF CopyInv

\* A step of w that replaces a payload by one of the same job, or removes it,
\* keeps jobs to one payload and absent jobs absent.
LEMMA CopyMove ==
  ASSUME CopyInv, NEW w \in Worker, NEW p \in InQueue, NEW q, q.job = p.job,
         InQueue' \subseteq (InQueue \ {p}) \cup {q}, push_pc' = push_pc,
         \A v \in Worker \ {w} : pc'[v] = pc[v] /\ held'[v] = held[v],
         pc'[w] # "ack_time"
  PROVE  JobOnce' /\ NewAbsent' /\ AckedAbsent'
<1>1. \A r \in InQueue \ {p} : r.job # q.job
  BY OneCopyParts DEF CopyInv, JobOnce
<1>2. JobOnce'
  <2>1. JobOnce
    BY OneCopyParts DEF CopyInv
  <2> QED
    BY <1>1, <2>1 DEF JobOnce
<1>3. NewAbsent'
  BY DEF CopyInv, NewAbsent
<1>4. AckedAbsent'
  BY DEF CopyInv, AckedAbsent
<1> QED
  BY <1>2, <1>3, <1>4

\* ZREM of promote_due: from the delayed set to the worker that removed it.
LEMMA CopyPromote ==
  ASSUME CopyInv, TypeOK', NEW w \in Worker, PromoteRemove(w)
  PROVE  CopyInv' /\ InQueue' = InQueue
<1>1. PICK p \in due[w] :
        /\ delayed' = delayed \ {p}
        /\ IF p \in delayed
           THEN /\ held' = [held EXCEPT ![w] = p]
                /\ pc' = [pc EXCEPT ![w] = "promote_push"]
           ELSE UNCHANGED <<held, pc>>
  BY DEF PromoteRemove
<1>2. UNCHANGED <<list, reserved, push_pc>> /\ pc[w] = "promote"
  BY DEF PromoteRemove
<1>3. CASE p \notin delayed
  BY <1>1, <1>2, <1>3, CopyStill DEF Moving, Processing
<1>4. CASE p \in delayed
  <2>1. /\ pc'[w] = "promote_push" /\ held'[w] = p
        /\ \A v \in Worker \ {w} : pc'[v] = pc[v] /\ held'[v] = held[v]
    BY <1>1, <1>4 DEF CopyInv, TypeOK
  <2>2. Moved = Rest(w) /\ Moved' = Rest(w) \cup {p} /\ ~ Processing(w)' /\ Moving(w)'
    BY <1>2, <2>1, MovedSplit DEF Moving, Processing
  <2>3. Listed' = Listed /\ ListOnce'
    BY <1>2, OneCopyParts DEF Listed, ListOnce, CopyInv
  <2>4. p \in InQueue /\ InQueue' = InQueue
    BY <1>1, <1>2, <1>4, <2>2, <2>3 DEF InQueue
  <2>5. JobOnce' /\ NewAbsent' /\ AckedAbsent'
    BY <1>2, <2>1, <2>4, CopyMove
  <2>6. KeysApart'
    BY <1>1, <1>2, <1>4, <2>2, <2>3, OneCopyParts DEF KeysApart, CopyInv
  <2>7. p \notin Moved
    BY <1>4, OneCopyParts DEF KeysApart, CopyInv
  <2>8. MoversApart'
    <3>1. \A v \in Worker \ {w} : Moving(v)' => held'[v] \in Rest(w)
      BY <2>1, MovedSplit DEF Rest
    <3>2. MoversApart /\ \A v \in Worker \ {w} : Moving(v)' <=> Moving(v)
      BY <2>1, MovedSplit, OneCopyParts DEF CopyInv
    <3> QED
      BY <2>1, <2>2, <2>7, <3>1, <3>2 DEF MoversApart
  <2>9. RunnersApart'
    <3>1. RunnersApart /\ \A v \in Worker \ {w} : Processing(v)' <=> Processing(v)
      BY <2>1, MovedSplit, OneCopyParts DEF CopyInv
    <3> QED
      BY <1>2, <2>1, <2>2, <3>1 DEF RunnersApart
  <2> QED
    BY <2>3, <2>4, <2>5, <2>6, <2>8, <2>9, OneCopyPartsNext DEF CopyInv
<1> QED
  BY <1>3, <1>4

\* A worker that starts to move a payload nobody moved, or stops moving one,
\* keeps the movers apart.
LEMMA MoversStep ==
  ASSUME CopyInv, NEW w \in Worker,
         \A v \in Worker \ {w} : pc'[v] = pc[v] /\ held'[v] = held[v],
         Moving(w)' => held'[w] \notin Rest(w)
  PROVE  MoversApart'
<1>1. \A v \in Worker \ {w} : Moving(v)' => held'[v] \in Rest(w)
  BY MovedSplit DEF Rest
<1>2. MoversApart /\ \A v \in Worker \ {w} : Moving(v)' <=> Moving(v)
  BY MovedSplit, OneCopyParts DEF CopyInv
<1> QED
  BY <1>1, <1>2 DEF MoversApart

\* Workers that do not run what w moved keep running what they reserved.
LEMMA RunnersStep ==
  ASSUME CopyInv, NEW w \in Worker,
         \A v \in Worker \ {w} : pc'[v] = pc[v] /\ held'[v] = held[v],
         \A v \in Worker \ {w} : Processing(v) => held[v] \in reserved',
         Processing(w)' => /\ held'[w] \in reserved'
                           /\ \A v \in Worker \ {w} : Processing(v) => held[v] # held'[w]
  PROVE  RunnersApart'
<1>1. RunnersApart /\ \A v \in Worker \ {w} : Processing(v)' <=> Processing(v)
  BY MovedSplit, OneCopyParts DEF CopyInv
<1> QED
  BY <1>1 DEF RunnersApart

\* LPUSH of promote_due: from the worker to the list.
LEMMA CopyPromotePush ==
  ASSUME CopyInv, TypeOK', NEW w \in Worker, PromotePush(w)
  PROVE  CopyInv' /\ InQueue' = InQueue
<1> DEFINE p == held[w]
<1>1. /\ UNCHANGED <<delayed, reserved, push_pc, held>> /\ Moving(w)
      /\ p \in Payload /\ list \in Seq(Payload) /\ list' = <<p>> \o list
  BY HeldIsPayload DEF PromotePush, Moving, CopyInv, TypeOK
<1>2. /\ pc'[w] = "promote_time"
      /\ \A v \in Worker \ {w} : pc'[v] = pc[v] /\ held'[v] = held[v]
  BY DEF PromotePush, CopyInv, TypeOK
<1>3. Moved = Rest(w) \cup {p} /\ Moved' = Rest(w) /\ ~ Processing(w)' /\ ~ Moving(w)'
  <2>1. ~ Processing(w)' /\ ~ Moving(w)'
    BY <1>2 DEF Moving, Processing
  <2>2. /\ Moved = Rest(w) \cup (IF Moving(w) THEN {held[w]} ELSE {})
        /\ Moved' = Rest(w) \cup (IF Moving(w)' THEN {held'[w]} ELSE {})
    BY <1>2, MovedSplit
  <2> QED
    BY <1>1, <1>2, <2>1, <2>2
<1>4. p \notin Rest(w)
  BY <1>1, RestApart, OneCopyParts DEF CopyInv
<1>5. Listed' = Listed \cup {p}
  BY <1>1, ListPushed
<1>6. p \in InQueue /\ InQueue' = InQueue
  BY <1>1, <1>3, <1>5 DEF InQueue
<1>7. JobOnce' /\ NewAbsent' /\ AckedAbsent'
  BY <1>1, <1>2, <1>6, CopyMove
<1>8. \A q \in Listed : q.job # p.job
  <2>1. JobOnce /\ KeysApart
    BY OneCopyParts DEF CopyInv
  <2>2. p \notin Listed
    BY <1>3, <2>1 DEF KeysApart
  <2> QED
    BY <1>6, <2>1, <2>2 DEF JobOnce, InQueue
<1>9. ListOnce'
  BY <1>1, <1>8, PushOnce, OneCopyParts DEF CopyInv
<1>10. KeysApart'
  <2>1. KeysApart
    BY OneCopyParts DEF CopyInv
  <2> QED
    BY <1>1, <1>3, <1>4, <1>5, <2>1 DEF KeysApart
<1>11. MoversApart'
  BY <1>2, <1>3, MoversStep
<1>12. RunnersApart'
  <2>1. RunnersApart
    BY OneCopyParts DEF CopyInv
  <2> QED
    BY <1>1, <1>2, <1>3, <2>1, RunnersStep DEF RunnersApart
<1> QED
  BY <1>6, <1>7, <1>9, <1>10, <1>11, <1>12, OneCopyPartsNext DEF CopyInv

\* BRPOP: from the list to the worker.
LEMMA CopyBrPop ==
  ASSUME CopyInv, TypeOK', NEW w \in Worker, BrPop(w)
  PROVE  CopyInv' /\ InQueue' = InQueue
<1> DEFINE p == list[Len(list)]
<1>0. ListOnce /\ JobOnce /\ KeysApart /\ RunnersApart
  BY OneCopyParts DEF CopyInv
<1>1. /\ UNCHANGED <<delayed, reserved, push_pc>> /\ ~ Moving(w)
      /\ list \in Seq(Payload) /\ list # <<>> /\ list' = SubSeq(list, 1, Len(list) - 1)
  BY DEF BrPop, Moving, CopyInv, TypeOK
<1>2. /\ pc'[w] = "popped" /\ held'[w] = p
      /\ \A v \in Worker \ {w} : pc'[v] = pc[v] /\ held'[v] = held[v]
  BY DEF BrPop, CopyInv, TypeOK
<1>3. Moved = Rest(w) /\ Moved' = Rest(w) \cup {p} /\ ~ Processing(w)' /\ Moving(w)'
  <2>1. ~ Processing(w)' /\ Moving(w)'
    BY <1>2 DEF Moving, Processing
  <2>2. /\ Moved = Rest(w) \cup (IF Moving(w) THEN {held[w]} ELSE {})
        /\ Moved' = Rest(w) \cup (IF Moving(w)' THEN {held'[w]} ELSE {})
    BY <1>2, MovedSplit
  <2> QED
    BY <1>1, <1>2, <2>1, <2>2
<1>4. Listed' = Listed \ {p} /\ p \in Listed
  BY <1>0, <1>1, ListPopped DEF ListOnce
<1>5. ListOnce'
  BY <1>0, <1>1, PopOnce
<1> HIDE DEF p
<1>6. p \in InQueue /\ InQueue' = InQueue
  BY <1>1, <1>3, <1>4 DEF InQueue
<1>7. JobOnce' /\ NewAbsent' /\ AckedAbsent'
  BY <1>1, <1>2, <1>6, CopyMove
<1>8. KeysApart'
  BY <1>0, <1>1, <1>3, <1>4 DEF KeysApart
<1>9. MoversApart'
  <2>1. p \notin Rest(w)
    BY <1>0, <1>3, <1>4 DEF KeysApart
  <2> QED
    BY <1>2, <2>1, MoversStep
<1>10. RunnersApart'
  BY <1>0, <1>1, <1>2, <1>3, RunnersStep DEF RunnersApart
<1> QED
  BY <1>5, <1>6, <1>7, <1>8, <1>9, <1>10, OneCopyPartsNext DEF CopyInv

\* ZADD of pop: from the worker to the reserved set, and the worker runs it.
LEMMA CopyReserve ==
  ASSUME CopyInv, TypeOK', NEW w \in Worker, Reserve(w)
  PROVE  CopyInv' /\ InQueue' = InQueue
<1> DEFINE p == held[w]
<1>0. ListOnce /\ JobOnce /\ KeysApart /\ RunnersApart /\ MoversApart
  BY OneCopyParts DEF CopyInv
<1>1. /\ UNCHANGED <<list, delayed, push_pc, held>> /\ Moving(w)
      /\ reserved' = reserved \cup {p}
  BY DEF Reserve, Moving
<1>2. /\ pc'[w] = "claimed"
      /\ \A v \in Worker \ {w} : pc'[v] = pc[v] /\ held'[v] = held[v]
  BY DEF Reserve, CopyInv, TypeOK
<1>3. Moved = Rest(w) \cup {p} /\ Moved' = Rest(w) /\ Processing(w)' /\ ~ Moving(w)'
  BY <1>1, <1>2, MovedSplit DEF Moving, Processing
<1>4. p \notin Rest(w)
  BY <1>0, <1>1, RestApart
<1>5. Listed' = Listed /\ ListOnce'
  BY <1>0, <1>1 DEF Listed, ListOnce
<1>6. p \in InQueue /\ InQueue' = InQueue
  BY <1>1, <1>3, <1>5 DEF InQueue
<1>7. JobOnce' /\ NewAbsent' /\ AckedAbsent'
  BY <1>1, <1>2, <1>6, CopyMove
<1>8. KeysApart'
  BY <1>0, <1>1, <1>3, <1>4, <1>5 DEF KeysApart
<1>9. MoversApart'
  BY <1>2, <1>3, MoversStep
<1>10. RunnersApart'
  <2>1. p \notin reserved
    BY <1>0, <1>3 DEF KeysApart
  <2>2. \A v \in Worker \ {w} : Processing(v) => held[v] \in reserved
    BY <1>0 DEF RunnersApart
  <2> QED
    BY <1>1, <1>2, <2>1, <2>2, RunnersStep
<1> QED
  BY <1>5, <1>6, <1>7, <1>8, <1>9, <1>10, OneCopyPartsNext DEF CopyInv

\* ZREM of ack: the reservation goes, and with it the job, or release takes it on.
LEMMA CopyAck ==
  ASSUME CopyInv, TypeOK', NEW w \in Worker, AckReserved(w)
  PROVE  CopyInv' /\ InQueue' = IF pc[w] = "ack" THEN InQueue \ {held[w]} ELSE InQueue
<1> DEFINE p == held[w]
<1>0. ListOnce /\ JobOnce /\ KeysApart /\ RunnersApart /\ MoversApart
  BY OneCopyParts DEF CopyInv
<1>1. /\ UNCHANGED <<list, delayed, push_pc, held>> /\ ~ Moving(w) /\ Processing(w)
      /\ reserved' = reserved \ {p} /\ p \in Payload
  BY HeldIsPayload DEF AckReserved, Moving, Processing, CopyInv
<1>2. /\ pc'[w] = IF pc[w] = "ack" THEN "ack_time" ELSE "release_time"
      /\ \A v \in Worker \ {w} : pc'[v] = pc[v] /\ held'[v] = held[v]
  BY DEF AckReserved, CopyInv, TypeOK
<1>3. /\ Moved = Rest(w) /\ Moved' = Rest(w) \cup (IF pc[w] = "ack" THEN {} ELSE {p})
      /\ ~ Processing(w)'
  BY <1>1, <1>2, MovedSplit DEF Moving, Processing
<1>4. p \in reserved /\ p \notin Rest(w)
  BY <1>0, <1>1, <1>3 DEF RunnersApart, KeysApart
<1>5. Listed' = Listed /\ ListOnce'
  BY <1>0, <1>1 DEF Listed, ListOnce
<1>6. /\ p \in InQueue
      /\ InQueue' = IF pc[w] = "ack" THEN InQueue \ {p} ELSE InQueue
  BY <1>0, <1>1, <1>3, <1>4, <1>5 DEF InQueue, KeysApart
<1>7. KeysApart'
  BY <1>0, <1>1, <1>3, <1>4, <1>5 DEF KeysApart
<1>8. MoversApart'
  BY <1>1, <1>2, <1>4, MoversStep
<1>9. RunnersApart'
  <2>1. \A v \in Worker \ {w} : Processing(v) => held[v] \in reserved /\ held[v] # p
    BY <1>0, <1>1 DEF RunnersApart
  <2> QED
    BY <1>1, <1>2, <1>3, <2>1, RunnersStep
<1>10. JobOnce' /\ NewAbsent' /\ AckedAbsent'
  <2>1. CASE pc[w] = "ack"
    <3>1. JobOnce'
      BY <1>0, <1>6 DEF JobOnce
    <3>2. NewAbsent'
      BY <1>1, <1>6 DEF CopyInv, NewAbsent
    <3>3. push_pc[p.job] # "new" /\ \A q \in InQueue' : q.job # p.job
      BY <1>0, <1>1, <1>6, <2>1 DEF CopyInv, NewAbsent, JobOnce, Payload
    <3>4. AckedAbsent'
      BY <1>1, <1>2, <1>6, <3>3 DEF CopyInv, AckedAbsent
    <3> QED
      BY <3>1, <3>2, <3>4
  <2>2. CASE pc[w] # "ack"
    BY <1>1, <1>2, <1>6, <2>2, CopyMove
  <2> QED
    BY <2>1, <2>2
<1> QED
  BY <1>5, <1>6, <1>7, <1>8, <1>9, <1>10, OneCopyPartsNext DEF CopyInv

\* The push of release: from the worker to the list or the delayed set, one attempt on.
LEMMA CopyRelease ==
  ASSUME CopyInv, TypeOK', NEW w \in Worker, ReleasePush(w)
  PROVE  CopyInv' /\ InQueue' = (InQueue \ {held[w]}) \cup {RetryOf(held[w])}
<1> DEFINE p == held[w]
           q == RetryOf(held[w])
<1>0. ListOnce /\ JobOnce /\ KeysApart /\ RunnersApart /\ MoversApart
  BY OneCopyParts DEF CopyInv
<1>1. UNCHANGED <<reserved, push_pc>> /\ Moving(w) /\ p \in Payload /\ list \in Seq(Payload)
  BY HeldIsPayload DEF ReleasePush, Moving, CopyInv, TypeOK
<1>2. q \in Payload /\ q.job = p.job
  BY <1>1, RetryIsPayload DEF CopyInv
<1>3. \/ delayed' = delayed \cup {q} /\ list' = list
      \/ list' = <<q>> \o list /\ delayed' = delayed
  BY DEF ReleasePush, PushDelayed, PushNow
<1>4. /\ pc'[w] \in {"idle", "push_time"}
      /\ \A v \in Worker \ {w} : pc'[v] = pc[v] /\ held'[v] = held[v]
  BY DEF ReleasePush, CopyInv, TypeOK
<1> HIDE DEF q
<1>5. Moved = Rest(w) \cup {p} /\ Moved' = Rest(w) /\ ~ Processing(w)' /\ ~ Moving(w)'
  <2>1. ~ Processing(w)' /\ ~ Moving(w)'
    BY <1>4 DEF Moving, Processing
  <2> QED
    BY <1>1, <1>4, <2>1, MovedSplit
<1>6. p \notin Rest(w)
  BY <1>0, <1>1, RestApart
<1>7. \/ Listed' = Listed /\ delayed' = delayed \cup {q}
      \/ Listed' = Listed \cup {q} /\ delayed' = delayed
  <2>1. CASE delayed' = delayed \cup {q} /\ list' = list
    BY <2>1 DEF Listed
  <2>2. CASE list' = <<q>> \o list /\ delayed' = delayed
    BY <1>1, <1>2, <2>2, ListPushed
  <2> QED
    BY <1>3, <2>1, <2>2
<1>8. p \in InQueue /\ InQueue' = (InQueue \ {p}) \cup {q}
  BY <1>0, <1>1, <1>5, <1>6, <1>7 DEF InQueue, KeysApart
<1>9. \A r \in InQueue \ {p} : r.job # q.job
  BY <1>0, <1>2, <1>8 DEF JobOnce
<1>10. q \notin Listed \cup delayed \cup reserved \cup Rest(w)
  BY <1>0, <1>5, <1>6, <1>9 DEF InQueue, KeysApart
<1>11. JobOnce' /\ NewAbsent' /\ AckedAbsent'
  BY <1>1, <1>2, <1>4, <1>8, CopyMove
<1>12. ListOnce'
  <2>1. CASE list' = list
    BY <1>0, <2>1 DEF ListOnce
  <2>2. CASE list' = <<q>> \o list
    <3>1. \A r \in Listed : r.job # q.job
      BY <1>0, <1>5, <1>9 DEF InQueue, KeysApart
    <3> QED
      BY <1>0, <1>1, <1>2, <2>2, <3>1, PushOnce
  <2> QED
    BY <1>3, <2>1, <2>2
<1>13. KeysApart'
  BY <1>0, <1>1, <1>5, <1>7, <1>10 DEF KeysApart
<1>14. MoversApart'
  BY <1>4, <1>5, MoversStep
<1>15. RunnersApart'
  BY <1>0, <1>1, <1>4, <1>5, RunnersStep DEF RunnersApart
<1> QED
  BY <1>8, <1>11, <1>12, <1>13, <1>14, <1>15, OneCopyPartsNext DEF CopyInv, q

\* The steps of a worker that leave the payloads of the queue what they are.
LEMMA QueueStays ==
  ASSUME CopyInv, TypeOK', NEW w \in Worker,
         \/ PromoteRange(w) \/ PromoteRemove(w) \/ PromotePush(w) \/ PromoteTime(w)
         \/ BrPop(w) \/ PopTimeout(w) \/ PopTime(w) \/ Reserve(w)
         \/ StartRun(w) \/ FinishRun(w) \/ DeadLetter(w) \/ DeadTime(w)
         \/ AckTime(w) \/ ReleaseTime(w) \/ (AckReserved(w) /\ pc[w] = "release")
  PROVE  CopyInv' /\ InQueue' = InQueue
<1>1. CASE \/ PromoteRange(w) \/ PromoteTime(w) \/ PopTimeout(w) \/ ReleaseTime(w)
           \/ (AckTime(w) /\ pc[w] = "ack_time")
  <2>1. /\ UNCHANGED <<list, delayed, reserved, push_pc>>
        /\ pc'[w] \in {"idle", "promote"}
        /\ pc[w] \in {"idle", "promote", "promote_time", "push_time", "ack_time"}
        /\ \A v \in Worker \ {w} : pc'[v] = pc[v] /\ held'[v] = held[v]
    BY <1>1 DEF PromoteRange, PromoteTime, PopTimeout, ReleaseTime, AckTime, store, CopyInv, TypeOK
  <2> QED
    BY <2>1, CopyFewer DEF Moving, Processing
<1>2. CASE \/ PopTime(w) \/ StartRun(w) \/ FinishRun(w) \/ DeadLetter(w) \/ DeadTime(w)
           \/ (AckTime(w) /\ pc[w] = "release_time")
  <2>1. UNCHANGED <<list, delayed, reserved, push_pc, held>>
    BY <1>2 DEF PopTime, StartRun, FinishRun, DeadLetter, DeadTime, AckTime, store
  <2>2. /\ \A v \in Worker \ {w} : pc'[v] = pc[v]
        /\ \/ pc[w] = "popped" /\ pc'[w] = "reserve"
           \/ pc[w] = "release_time" /\ pc'[w] = "push"
           \/ Processing(w) /\ Processing(w)'
    <3>1. CASE FinishRun(w)
      <4>1. \E arm \in {"ack", "release", "dead_letter"} : pc' = [pc EXCEPT ![w] = arm]
        BY <3>1, FinishArm
      <4> QED
        BY <3>1, <4>1 DEF FinishRun, Processing, CopyInv, TypeOK
    <3>2. CASE ~ FinishRun(w)
      BY <1>2, <3>2 DEF PopTime, StartRun, DeadLetter, DeadTime, AckTime, Processing, CopyInv, TypeOK
    <3> QED
      BY <3>1, <3>2
  <2> QED
    BY <2>1, <2>2, CopyStill DEF Moving, Processing
<1>3. CASE AckReserved(w) /\ pc[w] = "release"
  BY <1>3, CopyAck
<1> QED
  BY <1>1, <1>2, <1>3, CopyPromote, CopyPromotePush, CopyBrPop, CopyReserve DEF AckTime

\* A worker that dies takes with it at most the payload it was moving.
LEMMA CopyDeath ==
  ASSUME CopyInv, TypeOK', NEW w \in Worker, WorkerDies(w)
  PROVE  CopyInv' /\ InQueue' \subseteq InQueue
<1>1. /\ UNCHANGED <<list, delayed, reserved, push_pc>> /\ pc'[w] = "idle"
      /\ \A v \in Worker \ {w} : pc'[v] = pc[v] /\ held'[v] = held[v]
  BY DEF WorkerDies, store, CopyInv, TypeOK
<1> QED
  BY <1>1, CopyFewer DEF Moving, Processing

\* The second command of a dispatch, or its death, moves no payload.
LEMMA CopyIndex ==
  ASSUME CopyInv, TypeOK', NEW j \in Job, DispatchTime(j) \/ DispatchDies(j)
  PROVE  CopyInv' /\ InQueue' = InQueue
<1>1. /\ UNCHANGED <<list, delayed, reserved, pc, held>>
      /\ push_pc[j] # "new" /\ \A i \in Job : push_pc'[i] = "new" <=> push_pc[i] = "new"
  BY DEF DispatchTime, DispatchDies, workers, store, CopyInv, TypeOK
<1>2. Listed' = Listed /\ Moved' = Moved
  BY <1>1 DEF Listed, Moved, Moving
<1>3. OneCopy'
  BY <1>1, <1>2 DEF CopyInv, OneCopy, Moving, Processing
<1>4. NewAbsent' /\ InQueue' = InQueue
  BY <1>1, <1>2 DEF CopyInv, NewAbsent, InQueue
<1>5. AckedAbsent'
  <2>1. \A w \in Worker : pc[w] = "ack_time" => held[w].job \in Job
    BY HeldIsPayload DEF CopyInv
  <2> QED
    BY <1>1, <1>2, <2>1 DEF CopyInv, AckedAbsent, InQueue
<1> QED
  BY <1>3, <1>4, <1>5 DEF CopyInv

\* A step that touches neither keys nor workers moves no payload.
LEMMA CopyQuiet ==
  ASSUME CopyInv, TypeOK', UNCHANGED <<list, delayed, reserved, push_pc, pc, held>>
  PROVE  CopyInv' /\ InQueue' = InQueue
BY CopyStill DEF Moving, Processing

\* Every step keeps a job to one copy.
LEMMA CopyStep ==
  ASSUME CopyInv, [Next]_vars
  PROVE  CopyInv'
<1>1. TypeOK'
  BY TypeStep DEF CopyInv
<1>2. ASSUME NEW w \in Worker, AckReserved(w) PROVE CopyInv'
  BY <1>1, <1>2, CopyAck
<1>3. ASSUME NEW w \in Worker, ReleasePush(w) PROVE CopyInv'
  BY <1>1, <1>3, CopyRelease
<1>4. ASSUME NEW j \in Job, Dispatch(j) PROVE CopyInv'
  BY <1>1, <1>4, CopyDispatch
<1>5. ASSUME UNCHANGED <<list, delayed, reserved, push_pc, pc, held>> PROVE CopyInv'
  BY <1>1, <1>5, CopyQuiet
<1> QED
  BY <1>1, <1>2, <1>3, <1>4, <1>5, QueueStays, CopyDeath, CopyIndex
  DEF Next, WorkerStep, Tick, vars, store, workers

LEMMA CopyInit ==
  ASSUME Init
  PROVE  CopyInv
<1>1. Listed = {} /\ Moved = {} /\ \A w \in Worker : ~ Moving(w) /\ ~ Processing(w)
  BY DEF Init, Listed, Moved, Moving, Processing
<1>2. OneCopy
  BY <1>1 DEF Init, OneCopy
<1>3. NewAbsent /\ AckedAbsent
  BY <1>1 DEF Init, NewAbsent, AckedAbsent, InQueue
<1> QED
  BY <1>2, <1>3, TypeInit DEF CopyInv

\* The single-copy invariant holds in every reachable state.
LEMMA CopiesHold == Spec => []CopyInv
<1>1. Init => CopyInv
  BY CopyInit
<1>2. CopyInv /\ [Next]_vars => CopyInv'
  BY CopyStep
<1> QED
  BY <1>1, <1>2, PTL DEF Spec

\* The keys of the Redis queue, the locals of its workers and the histories
\* stay in their sets.
THEOREM TypeCorrect == Spec => []TypeOK
<1>1. CopyInv => TypeOK
  BY DEF CopyInv
<1> QED
  BY <1>1, CopiesHold, PTL

\* The separate commands of push, promote_due, pop, ack and release
\* (driver/redis.rs) never leave two payloads of a job, however workers race
\* and wherever they die.
THEOREM OneCopyOfAJob == Spec => []OneCopy
<1>1. CopyInv => OneCopy
  BY DEF CopyInv
<1> QED
  BY <1>1, CopiesHold, PTL

-----------------------------------------------------------------------------
(* The retry policy. *)

\* The budget of a job admits its first attempt and every allowed retry.
LEMMA BudgetBounds ==
  ASSUME NEW j \in Job
  PROVE  /\ Budget(j) \in Nat /\ 1 <= Budget(j)
         /\ \A a \in Nat : a < PolicyOf[j].max_tries => a + 1 <= Budget(j)
<1>1. PolicyOf[j].max_tries \in Nat
  BY RedisAssumption DEF Policy
<1> QED
  BY <1>1 DEF Budget

\* Whole seconds hide less than one second.
LEMMA SecondBound ==
  ASSUME NEW a \in Nat, NEW b \in Nat, Second(a) <= Second(b)
  PROVE  a < b + TicksPerSecond
<1> DEFINE T == TicksPerSecond
<1>1. T \in Nat /\ T > 0
  BY RedisAssumption
<1>2. \A x \in Nat : /\ x \div T \in Nat /\ x % T \in 0 .. T - 1
                     /\ x = T * (x \div T) + (x % T)
  BY <1>1
<1>3. \A m, n \in Nat : m <= n => T * m <= T * n
  BY <1>1
<1> QED
  BY <1>1, <1>2, <1>3 DEF Second

LEMMA InQueueTyped ==
  ASSUME CopyInv
  PROVE  InQueue \subseteq Payload
<1>1. \A w \in Worker : Moving(w) => held[w] \in Payload
  BY HeldIsPayload DEF CopyInv, Moving
<1> QED
  BY <1>1, ListedTyped DEF InQueue, Moved, CopyInv, TypeOK

\* The parts of AttemptAccount that are about the payloads in the queue.
LEMMA AttemptStays ==
  ASSUME CopyInv, AttemptAccount, UNCHANGED <<ran, push_pc>>, InQueue' \subseteq InQueue,
         NEW w \in Worker, \A v \in Worker \ {w} : pc'[v] = pc[v] /\ held'[v] = held[v],
         \A p \in Listed' \cup delayed' : p \in Listed \cup delayed \/ (Unrun(w) /\ p = held[w]),
         Unrun(w)' => ran[held'[w].job] < held'[w].attempts,
         Retrying(w)' => held'[w].attempts < PolicyOf[held'[w].job].max_tries
  PROVE  AttemptAccount'
<1>1. \A j \in Job : ran'[j] <= Budget(j)' /\ (push_pc'[j] = "new" => ran'[j] = 0)
  BY DEF AttemptAccount, Budget
<1>2. \A p \in InQueue' : p.attempts <= Budget(p.job)' /\ ran'[p.job] <= p.attempts
  BY DEF AttemptAccount, Budget
<1>3. \A p \in Listed' \cup delayed' : ran'[p.job] < p.attempts
  BY DEF AttemptAccount
<1>4. \A v \in Worker : Unrun(v)' => ran'[held'[v].job] < held'[v].attempts
  BY DEF AttemptAccount, Unrun
<1>5. \A v \in Worker : Retrying(v)' => held'[v].attempts < PolicyOf[held'[v].job].max_tries
  BY DEF AttemptAccount, Retrying
<1> QED
  BY <1>1, <1>2, <1>3, <1>4, <1>5 DEF AttemptAccount, Budget

\* Every step keeps the attempt numbers within the budget and ahead of the runs.
LEMMA AttemptStep ==
  ASSUME CopyInv, AttemptAccount, [Next]_vars
  PROVE  AttemptAccount'
<1>0. TypeOK /\ TypeOK'
  BY TypeStep DEF CopyInv
<1> USE <1>0
<1>1. ASSUME NEW j \in Job, Dispatch(j) PROVE AttemptAccount'
  <2>1. PICK p \in Payload : p.job = j /\ p.attempts = 1 /\ InQueue' = InQueue \cup {p}
    BY <1>1, CopyDispatch
  <2>2. /\ UNCHANGED <<pc, held, ran>> /\ push_pc[j] = "new"
        /\ \A i \in Job : push_pc'[i] = "new" => push_pc[i] = "new"
    BY <1>1 DEF Dispatch, workers, TypeOK
  <2>3. ran[j] = 0
    BY <2>2 DEF AttemptAccount
  <2>4. \A q \in Listed' \cup delayed' : q \in Listed \cup delayed \cup {p}
    <3>1. \A q \in Moved \cup reserved : q.job # j
      BY <2>2 DEF CopyInv, NewAbsent, InQueue
    <3>2. reserved' = reserved /\ Moved' = Moved
      BY <1>1, <2>2 DEF Dispatch, Moved, Moving
    <3>3. CopyInv'
      BY <1>1, CopyDispatch
    <3>4. \A q \in Listed' \cup delayed' : q \notin reserved' \cup Moved'
      BY <3>3 DEF CopyInv, OneCopy
    <3> QED
      BY <2>1, <3>2, <3>4 DEF InQueue
  <2>5. 1 <= Budget(j)
    BY BudgetBounds
  <2>6. \A q \in InQueue' : q.attempts <= Budget(q.job) /\ ran[q.job] <= q.attempts
    BY <2>1, <2>3, <2>5 DEF AttemptAccount
  <2>7. \A q \in Listed' \cup delayed' : ran[q.job] < q.attempts
    BY <2>1, <2>3, <2>4 DEF AttemptAccount
  <2> QED
    BY <2>2, <2>6, <2>7 DEF AttemptAccount, Budget, Unrun, Retrying
<1>2. ASSUME UNCHANGED <<ran, pc, held, list, delayed>>, InQueue' = InQueue,
             \A i \in Job : push_pc'[i] = "new" => push_pc[i] = "new"
      PROVE  AttemptAccount'
  BY <1>2 DEF AttemptAccount, Budget, Unrun, Retrying, Listed
<1>3. ASSUME NEW j \in Job, DispatchTime(j) \/ DispatchDies(j) PROVE AttemptAccount'
  <2>1. InQueue' = InQueue
    BY <1>3, CopyIndex
  <2> QED
    BY <1>2, <1>3, <2>1 DEF DispatchTime, DispatchDies, store, workers, TypeOK
<1>4. ASSUME UNCHANGED <<ran, pc, held, list, delayed, reserved, push_pc>> PROVE AttemptAccount'
  BY <1>2, <1>4, CopyQuiet
<1>5. ASSUME NEW w \in Worker,
             \/ PromoteRange(w) \/ PromoteTime(w) \/ PopTimeout(w) \/ ReleaseTime(w)
             \/ DeadLetter(w) \/ DeadTime(w) \/ WorkerDies(w) \/ (AckReserved(w) /\ pc[w] = "ack")
             \/ (AckTime(w) /\ pc[w] = "ack_time")
      PROVE  AttemptAccount'
  <2>1. InQueue' \subseteq InQueue
    BY <1>5, QueueStays, CopyDeath, CopyAck
  <2>2. /\ UNCHANGED <<ran, push_pc, list, delayed>>
        /\ \A v \in Worker \ {w} : pc'[v] = pc[v] /\ held'[v] = held[v]
        /\ pc'[w] \in {"promote", "idle", "ack_time", "dead_time", "ack"}
    BY <1>5 DEF PromoteRange, PromoteTime, PopTimeout, ReleaseTime, DeadLetter, DeadTime, WorkerDies, AckReserved, AckTime, store, TypeOK
  <2> QED
    BY <2>1, <2>2, AttemptStays DEF Unrun, Retrying, Listed
<1>6. ASSUME NEW w \in Worker, PromoteRemove(w) PROVE AttemptAccount'
  <2>1. InQueue' \subseteq InQueue
    BY <1>6, QueueStays
  <2>2. PICK p \in due[w] :
          /\ delayed' = delayed \ {p}
          /\ IF p \in delayed
             THEN /\ held' = [held EXCEPT ![w] = p]
                  /\ pc' = [pc EXCEPT ![w] = "promote_push"]
             ELSE UNCHANGED <<held, pc>>
    BY <1>6 DEF PromoteRemove
  <2>3. UNCHANGED <<ran, push_pc, list>> /\ pc[w] = "promote"
    BY <1>6 DEF PromoteRemove
  <2>4. CASE p \notin delayed
    BY <2>1, <2>2, <2>3, <2>4, AttemptStays DEF Unrun, Retrying, Listed
  <2>5. CASE p \in delayed
    <3>1. /\ pc'[w] = "promote_push" /\ held'[w] = p
          /\ \A v \in Worker \ {w} : pc'[v] = pc[v] /\ held'[v] = held[v]
      BY <2>2, <2>5 DEF TypeOK
    <3>2. ran[p.job] < p.attempts
      BY <2>5 DEF AttemptAccount
    <3>3. \A q \in Listed' \cup delayed' : q \in Listed \cup delayed
      BY <2>2, <2>3 DEF Listed
    <3> QED
      BY <2>1, <2>3, <3>1, <3>2, <3>3, AttemptStays DEF Retrying
  <2> QED
    BY <2>4, <2>5
<1>7. ASSUME NEW w \in Worker, PromotePush(w) PROVE AttemptAccount'
  <2>1. InQueue' \subseteq InQueue
    BY <1>7, QueueStays
  <2>2. /\ UNCHANGED <<ran, push_pc, delayed>> /\ pc'[w] = "promote_time"
        /\ \A v \in Worker \ {w} : pc'[v] = pc[v] /\ held'[v] = held[v]
        /\ Unrun(w) /\ ~ Unrun(w)' /\ ~ Retrying(w)'
    BY <1>7 DEF PromotePush, TypeOK, Unrun, Retrying
  <2>3. Listed' = Listed \cup {held[w]}
    BY <1>7, HeldIsPayload, ListPushed DEF PromotePush, TypeOK
  <2>4. \A p \in Listed' \cup delayed' : p \in Listed \cup delayed \/ (Unrun(w) /\ p = held[w])
    BY <2>2, <2>3
  <2> QED
    BY <2>1, <2>2, <2>4, AttemptStays
<1>8. ASSUME NEW w \in Worker, BrPop(w) PROVE AttemptAccount'
  <2>1. InQueue' \subseteq InQueue
    BY <1>8, QueueStays
  <2>2. /\ UNCHANGED <<ran, push_pc, delayed>> /\ pc'[w] = "popped" /\ held'[w] = list[Len(list)]
        /\ \A v \in Worker \ {w} : pc'[v] = pc[v] /\ held'[v] = held[v]
        /\ ~ Retrying(w)'
    BY <1>8 DEF BrPop, TypeOK, Retrying
  <2>3. Listed' \subseteq Listed /\ list[Len(list)] \in Listed
    BY <1>8, ListPopped DEF BrPop, TypeOK, CopyInv, OneCopy
  <2>4. ran[held'[w].job] < held'[w].attempts
    BY <2>2, <2>3 DEF AttemptAccount
  <2>5. \A p \in Listed' \cup delayed' : p \in Listed \cup delayed
    BY <2>2, <2>3
  <2> QED
    BY <2>1, <2>2, <2>4, <2>5, AttemptStays
<1>9. ASSUME NEW w \in Worker, PopTime(w) \/ Reserve(w) PROVE AttemptAccount'
  <2>1. InQueue' \subseteq InQueue
    BY <1>9, QueueStays
  <2>2. /\ UNCHANGED <<ran, push_pc, delayed, list, held>> /\ Unrun(w) /\ ~ Retrying(w)'
        /\ \A v \in Worker \ {w} : pc'[v] = pc[v]
    BY <1>9 DEF PopTime, Reserve, TypeOK, Retrying, Unrun
  <2>3. ran[held'[w].job] < held'[w].attempts
    BY <2>2 DEF AttemptAccount
  <2> QED
    BY <2>1, <2>2, <2>3, AttemptStays DEF Listed
<1>10. ASSUME NEW w \in Worker, StartRun(w) PROVE AttemptAccount'
  <2> DEFINE p == held[w]
  <2>1. InQueue' = InQueue
    BY <1>10, QueueStays
  <2>2. /\ UNCHANGED <<push_pc, delayed, list, reserved, held>>
        /\ pc[w] = "claimed" /\ pc'[w] = "running"
        /\ \A v \in Worker \ {w} : pc'[v] = pc[v]
    BY <1>10 DEF StartRun, store, TypeOK
  <2>3. p \in Payload /\ p.job \in Job /\ p.attempts \in Nat /\ ran[p.job] \in Nat
    BY <2>2, HeldIsPayload DEF Payload, TypeOK
  <2>4. /\ ran'[p.job] = ran[p.job] + 1
        /\ \A j \in Job \ {p.job} : ran'[j] = ran[j]
    BY <1>10, <2>3 DEF StartRun, TypeOK
  <2>5. ran[p.job] + 1 <= p.attempts
    BY <2>2, <2>3 DEF AttemptAccount, Unrun
  <2>6. p \in reserved /\ p \in InQueue
    BY <2>2 DEF CopyInv, OneCopy, Processing, InQueue
  <2>7. p.attempts <= Budget(p.job) /\ Budget(p.job) \in Nat
    BY <2>3, <2>6, BudgetBounds DEF AttemptAccount
  <2>8. \A q \in InQueue : q.job = p.job => q = p
    BY <2>6, OneCopyParts DEF CopyInv, JobOnce
  <2>9. \A q \in InQueue : q.job \in Job
    BY InQueueTyped DEF Payload
  <2>10. \A j \in Job : ran'[j] <= Budget(j)' /\ (push_pc'[j] = "new" => ran'[j] = 0)
    <3>1. push_pc[p.job] # "new"
      BY <2>3, <2>6 DEF CopyInv, NewAbsent
    <3>2. ran[p.job] + 1 <= Budget(p.job)
      BY <2>3, <2>5, <2>7
    <3> QED
      BY <2>2, <2>4, <3>1, <3>2 DEF AttemptAccount, Budget
  <2>11. \A q \in InQueue' : q.attempts <= Budget(q.job)' /\ ran'[q.job] <= q.attempts
    BY <2>1, <2>4, <2>5, <2>8, <2>9 DEF AttemptAccount, Budget
  <2>12. \A q \in Listed \cup delayed : q \in InQueue /\ q # p
    BY <2>6, OneCopyParts DEF InQueue, CopyInv, KeysApart
  <2>13. \A q \in Listed' \cup delayed' : ran'[q.job] < q.attempts
    BY <2>2, <2>4, <2>8, <2>9, <2>12 DEF AttemptAccount, Listed
  <2>14. ASSUME NEW v \in Worker, Unrun(v)' PROVE ran'[held'[v].job] < held'[v].attempts
    <3>1. v # w /\ Unrun(v) /\ (Moving(v) \/ Processing(v))
      BY <2>2, <2>14 DEF Unrun, Moving, Processing
    <3>2. held[v] \in InQueue /\ held[v] # p
      <4>1. CASE Moving(v)
        BY <2>6, <4>1, OneCopyParts DEF InQueue, Moved, CopyInv, KeysApart
      <4>2. CASE Processing(v)
        BY <2>2, <3>1, <4>2 DEF Processing, InQueue, CopyInv, OneCopy
      <4> QED
        BY <3>1, <4>1, <4>2
    <3> QED
      BY <2>2, <2>4, <2>8, <2>9, <3>1, <3>2 DEF AttemptAccount
  <2>15. \A v \in Worker : Retrying(v)' => held'[v].attempts < PolicyOf[held'[v].job].max_tries
    BY <2>2 DEF AttemptAccount, Retrying
  <2> QED
    BY <2>10, <2>11, <2>13, <2>14, <2>15 DEF AttemptAccount
<1>11. ASSUME NEW w \in Worker, FinishRun(w) PROVE AttemptAccount'
  <2>1. InQueue' \subseteq InQueue
    BY <1>11, QueueStays
  <2>2. PICK arm \in {"ack", "release", "dead_letter"} :
          /\ pc' = [pc EXCEPT ![w] = arm]
          /\ arm = "release" => held[w].attempts < PolicyOf[held[w].job].max_tries
    BY <1>11, FinishArm
  <2>3. /\ UNCHANGED <<ran, push_pc, delayed, list, held>> /\ pc'[w] = arm
        /\ \A v \in Worker \ {w} : pc'[v] = pc[v]
    BY <1>11, <2>2 DEF FinishRun, store, TypeOK
  <2> QED
    BY <2>1, <2>2, <2>3, AttemptStays DEF Listed, Unrun, Retrying
<1>12. ASSUME NEW w \in Worker, (AckReserved(w) /\ pc[w] = "release")
                               \/ (AckTime(w) /\ pc[w] = "release_time")
       PROVE  AttemptAccount'
  <2>1. InQueue' \subseteq InQueue
    BY <1>12, QueueStays
  <2>2. /\ UNCHANGED <<ran, push_pc, delayed, list, held>> /\ Retrying(w) /\ ~ Unrun(w)'
        /\ \A v \in Worker \ {w} : pc'[v] = pc[v]
    BY <1>12 DEF AckReserved, AckTime, TypeOK, Retrying, Unrun
  <2>3. held'[w].attempts < PolicyOf[held'[w].job].max_tries
    BY <2>2 DEF AttemptAccount
  <2> QED
    BY <2>1, <2>2, <2>3, AttemptStays DEF Listed
<1>13. ASSUME NEW w \in Worker, ReleasePush(w) PROVE AttemptAccount'
  <2> DEFINE p == held[w]
             q == RetryOf(held[w])
  <2>1. InQueue' = (InQueue \ {p}) \cup {q} /\ CopyInv'
    BY <1>13, CopyRelease
  <2>2. /\ UNCHANGED <<ran, push_pc, reserved>> /\ pc[w] = "push" /\ pc'[w] \in {"idle", "push_time"}
        /\ \A v \in Worker \ {w} : pc'[v] = pc[v] /\ held'[v] = held[v]
    BY <1>13 DEF ReleasePush, TypeOK
  <2>3. p \in Payload /\ p.job \in Job /\ p.attempts \in Nat /\ ran[p.job] \in Nat
    BY <2>2, HeldIsPayload DEF Payload, TypeOK
  <2>4. q.job = p.job /\ q.attempts = p.attempts + 1
    BY <2>3, RetryIsPayload
  <2>5. p \in InQueue
    BY <2>2 DEF InQueue, Moved, Moving
  <2>6. ran[p.job] <= p.attempts /\ p.attempts < PolicyOf[p.job].max_tries
    BY <2>2, <2>5 DEF AttemptAccount, Retrying
  <2>7. p.attempts + 1 <= Budget(p.job) /\ ran[p.job] < p.attempts + 1
    BY <2>3, <2>6, BudgetBounds
  <2> HIDE DEF q
  <2>8. \A r \in InQueue' : r.attempts <= Budget(r.job) /\ ran[r.job] <= r.attempts
    <3>1. ran[p.job] <= p.attempts + 1
      BY <2>3, <2>6
    <3> QED
      BY <2>1, <2>4, <2>7, <3>1 DEF AttemptAccount
  <2>9. \A r \in Listed' \cup delayed' : r \in Listed \cup delayed \cup {q}
    <3>1. \/ delayed' = delayed \cup {q} /\ list' = list
          \/ list' = <<q>> \o list /\ delayed' = delayed
      BY <1>13 DEF ReleasePush, PushDelayed, PushNow, q
    <3>2. CASE delayed' = delayed \cup {q} /\ list' = list
      BY <3>2 DEF Listed
    <3>3. CASE list' = <<q>> \o list /\ delayed' = delayed
      <4>1. q \in Payload
        BY <2>3, RetryIsPayload DEF q
      <4> QED
        BY <3>3, <4>1, ListPushed DEF TypeOK
    <3> QED
      BY <3>1, <3>2, <3>3
  <2>10. \A r \in Listed' \cup delayed' : ran[r.job] < r.attempts
    BY <2>4, <2>7, <2>9 DEF AttemptAccount
  <2> QED
    BY <2>2, <2>8, <2>10 DEF AttemptAccount, Budget, Unrun, Retrying
<1> QED
  BY <1>1, <1>3, <1>4, <1>5, <1>6, <1>7, <1>8, <1>9, <1>10, <1>11, <1>12, <1>13
  DEF Next, WorkerStep, AckReserved, AckTime, Tick, vars, store, workers

\* Time that passes and a step of one worker keep payloads due.
LEMMA DueStays ==
  ASSUME DueAccount, UNCHANGED now, NEW w \in Worker,
         \A v \in Worker \ {w} : pc'[v] = pc[v] /\ held'[v] = held[v] /\ due'[v] = due[v],
         \A p \in Listed' \cup reserved' :
           p \in Listed \cup reserved \/ p.available_at < now + TicksPerSecond,
         \A p \in due'[w] : p.available_at < now + TicksPerSecond,
         pc'[w] \in {"promote_push", "popped", "reserve"} =>
           held'[w].available_at < now + TicksPerSecond
  PROVE  DueAccount'
BY DEF DueAccount

LEMMA DueTick ==
  ASSUME TypeOK, DueAccount, now' = now + 1, UNCHANGED <<list, reserved, pc, due, held>>
  PROVE  DueAccount'
<1>1. /\ Listed' = Listed /\ Listed \subseteq Payload /\ reserved \subseteq Payload
      /\ \A w \in Worker : due[w] \subseteq Payload
      /\ \A w \in Worker : pc[w] \in {"promote_push", "popped", "reserve"} => held[w] \in Payload
  BY ListedTyped, HeldIsPayload DEF Listed, TypeOK
<1>2. \A p \in Payload : p.available_at < now + TicksPerSecond =>
        p.available_at < now + 1 + TicksPerSecond
  BY RedisAssumption DEF Payload, TypeOK
<1>3. \A p \in Listed' \cup reserved' : p.available_at < now' + TicksPerSecond
  BY <1>1, <1>2 DEF DueAccount
<1>4. \A w \in Worker : \A p \in due'[w] : p.available_at < now' + TicksPerSecond
  BY <1>1, <1>2 DEF DueAccount
<1>5. \A w \in Worker : pc'[w] \in {"promote_push", "popped", "reserve"} =>
        held'[w].available_at < now' + TicksPerSecond
  BY <1>1, <1>2 DEF DueAccount
<1> QED
  BY <1>3, <1>4, <1>5 DEF DueAccount

\* Every step keeps what left the delayed set due.
LEMMA DueStep ==
  ASSUME CopyInv, DueAccount, [Next]_vars
  PROVE  DueAccount'
<1>0. TypeOK
  BY DEF CopyInv
<1> USE <1>0
<1>now. now < now + TicksPerSecond /\ \A a \in Nat : a <= now => a < now + TicksPerSecond
  BY RedisAssumption DEF TypeOK
<1>1. ASSUME NEW j \in Job, Dispatch(j) PROVE DueAccount'
  <2>1. UNCHANGED <<now, reserved, pc, due, held>>
    BY <1>1 DEF Dispatch, workers
  <2>2. \A p \in Listed' : p \in Listed \/ p.available_at < now + TicksPerSecond
    <3>1. PICK delay \in Delays :
            LET p == [job |-> j, attempts |-> 1, available_at |-> now + delay]
            IN  PushDelayed(p) \/ PushNow(p)
      BY <1>1 DEF Dispatch
    <3> DEFINE p == [job |-> j, attempts |-> 1, available_at |-> now + delay]
    <3>2. p \in Payload /\ p.available_at = now + delay /\ p.available_at \in Nat
      BY RedisAssumption DEF Payload, TypeOK
    <3>3. \/ list' = list
          \/ list' = <<p>> \o list /\ p.available_at <= now
      BY <3>1 DEF PushDelayed, PushNow
    <3> HIDE DEF p
    <3>4. CASE list' = list
      BY <3>4 DEF Listed
    <3>5. CASE list' = <<p>> \o list /\ p.available_at <= now
      <4>1. Listed' = Listed \cup {p}
        BY <3>2, <3>5, ListPushed DEF TypeOK
      <4> QED
        BY <1>now, <3>2, <3>5, <4>1
    <3> QED
      BY <3>3, <3>4, <3>5
  <2> QED
    BY <2>1, <2>2 DEF DueAccount
<1>2. ASSUME UNCHANGED <<now, list, reserved, pc, due, held>> PROVE DueAccount'
  BY <1>2 DEF DueAccount, Listed
<1>3. ASSUME Tick PROVE DueAccount'
  BY <1>3, DueTick DEF Tick, store, workers
<1>4. ASSUME NEW w \in Worker, PromoteRange(w) PROVE DueAccount'
  <2>1. /\ UNCHANGED <<now, list, reserved, held>> /\ pc'[w] = "promote"
        /\ due'[w] = {p \in delayed : Due(p)}
        /\ \A v \in Worker \ {w} : pc'[v] = pc[v] /\ held'[v] = held[v] /\ due'[v] = due[v]
    BY <1>4 DEF PromoteRange, store, TypeOK
  <2>2. \A p \in due'[w] : p.available_at < now + TicksPerSecond
    BY <2>1, SecondBound DEF Due, TypeOK, Payload
  <2>3. Listed' = Listed
    BY <2>1 DEF Listed
  <2> QED
    BY <2>1, <2>2, <2>3, DueStays
<1>5. ASSUME NEW w \in Worker, PromoteRemove(w) PROVE DueAccount'
  <2>1. PICK p \in due[w] :
          /\ due' = [due EXCEPT ![w] = @ \ {p}]
          /\ IF p \in delayed
             THEN /\ held' = [held EXCEPT ![w] = p]
                  /\ pc' = [pc EXCEPT ![w] = "promote_push"]
             ELSE UNCHANGED <<held, pc>>
    BY <1>5 DEF PromoteRemove
  <2>2. UNCHANGED <<now, list, reserved>> /\ Listed' = Listed /\ pc[w] = "promote"
    BY <1>5 DEF PromoteRemove, Listed
  <2>3. /\ \A v \in Worker \ {w} : pc'[v] = pc[v] /\ held'[v] = held[v] /\ due'[v] = due[v]
        /\ due'[w] \subseteq due[w]
        /\ pc'[w] = "promote" \/ (pc'[w] = "promote_push" /\ held'[w] = p)
    BY <2>1, <2>2 DEF TypeOK
  <2>4. \A q \in due'[w] : q.available_at < now + TicksPerSecond
    BY <2>3 DEF DueAccount
  <2>5. p.available_at < now + TicksPerSecond
    BY DEF DueAccount
  <2> QED
    BY <2>2, <2>3, <2>4, <2>5, DueStays
<1>6. ASSUME NEW w \in Worker, PromotePush(w) PROVE DueAccount'
  <2>1. /\ UNCHANGED <<now, reserved>> /\ pc'[w] = "promote_time" /\ due'[w] = due[w]
        /\ pc[w] = "promote_push"
        /\ \A v \in Worker \ {w} : pc'[v] = pc[v] /\ held'[v] = held[v] /\ due'[v] = due[v]
    BY <1>6 DEF PromotePush, TypeOK
  <2>2. Listed' = Listed \cup {held[w]}
    BY <1>6, HeldIsPayload, ListPushed DEF PromotePush, TypeOK
  <2>3. /\ held[w].available_at < now + TicksPerSecond
        /\ \A q \in due'[w] : q.available_at < now + TicksPerSecond
    BY <2>1 DEF DueAccount
  <2> QED
    BY <2>1, <2>2, <2>3, DueStays
<1>7. ASSUME NEW w \in Worker, BrPop(w) PROVE DueAccount'
  <2>1. /\ UNCHANGED <<now, reserved>> /\ held'[w] = list[Len(list)] /\ due'[w] = due[w]
        /\ \A v \in Worker \ {w} : pc'[v] = pc[v] /\ held'[v] = held[v] /\ due'[v] = due[v]
    BY <1>7 DEF BrPop, TypeOK
  <2>2. Listed' \subseteq Listed /\ list[Len(list)] \in Listed
    BY <1>7, ListPopped DEF BrPop, TypeOK, CopyInv, OneCopy
  <2>3. /\ held'[w].available_at < now + TicksPerSecond
        /\ \A q \in due'[w] : q.available_at < now + TicksPerSecond
    BY <2>1, <2>2 DEF DueAccount
  <2> QED
    BY <2>1, <2>2, <2>3, DueStays
<1>8. ASSUME NEW w \in Worker, PopTime(w) \/ Reserve(w) PROVE DueAccount'
  <2>1. /\ UNCHANGED <<now, list, due, held>> /\ pc[w] \in {"popped", "reserve"}
        /\ reserved' \subseteq reserved \cup {held[w]} /\ Listed' = Listed
        /\ \A v \in Worker \ {w} : pc'[v] = pc[v] /\ held'[v] = held[v] /\ due'[v] = due[v]
    BY <1>8 DEF PopTime, Reserve, Listed, TypeOK
  <2>2. /\ held[w].available_at < now + TicksPerSecond
        /\ \A q \in due'[w] : q.available_at < now + TicksPerSecond
    BY <2>1 DEF DueAccount
  <2>3. held'[w].available_at < now + TicksPerSecond
    BY <2>1, <2>2
  <2>4. \A p \in Listed' \cup reserved' :
          p \in Listed \cup reserved \/ p.available_at < now + TicksPerSecond
    BY <2>1, <2>2
  <2> QED
    BY <2>1, <2>2, <2>3, <2>4, DueStays
<1>9. ASSUME NEW w \in Worker,
             \/ PromoteTime(w) \/ PopTimeout(w) \/ StartRun(w) \/ FinishRun(w)
             \/ DeadLetter(w) \/ DeadTime(w) \/ AckReserved(w) \/ AckTime(w)
             \/ ReleaseTime(w) \/ WorkerDies(w)
      PROVE  DueAccount'
  <2>1. /\ UNCHANGED <<now, list>> /\ due'[w] \subseteq due[w]
        /\ reserved' \subseteq reserved /\ Listed' = Listed
        /\ pc'[w] \notin {"promote_push", "popped", "reserve"}
        /\ \A v \in Worker \ {w} : pc'[v] = pc[v] /\ held'[v] = held[v] /\ due'[v] = due[v]
    <3>1. CASE FinishRun(w)
      <4>1. PICK arm \in {"ack", "release", "dead_letter"} : pc' = [pc EXCEPT ![w] = arm]
        BY <3>1, FinishArm
      <4> QED
        BY <3>1, <4>1 DEF FinishRun, store, Listed, TypeOK
    <3>2. CASE PromoteTime(w) \/ PopTimeout(w) \/ StartRun(w) \/ DeadLetter(w) \/ DeadTime(w)
      BY <3>2 DEF PromoteTime, PopTimeout, StartRun, DeadLetter, DeadTime, store, Listed, TypeOK
    <3>3. CASE AckReserved(w) \/ AckTime(w) \/ ReleaseTime(w) \/ WorkerDies(w)
      BY <3>3 DEF AckReserved, AckTime, ReleaseTime, WorkerDies, store, Listed, TypeOK
    <3> QED
      BY <1>9, <3>1, <3>2, <3>3
  <2>2. \A q \in due'[w] : q.available_at < now + TicksPerSecond
    BY <2>1 DEF DueAccount
  <2> QED
    BY <2>1, <2>2, DueStays
<1>10. ASSUME NEW w \in Worker, ReleasePush(w) PROVE DueAccount'
  <2> DEFINE q == RetryOf(held[w])
  <2>1. /\ UNCHANGED <<now, reserved, due>> /\ pc[w] = "push" /\ pc'[w] \in {"idle", "push_time"}
        /\ \A v \in Worker \ {w} : pc'[v] = pc[v] /\ held'[v] = held[v] /\ due'[v] = due[v]
    BY <1>10 DEF ReleasePush, TypeOK
  <2>2. \/ list' = list
        \/ list' = <<q>> \o list /\ q.available_at <= now
    BY <1>10 DEF ReleasePush, PushDelayed, PushNow
  <2>3. q \in Payload /\ q.available_at \in Nat
    BY <2>1, HeldIsPayload, RetryIsPayload DEF Payload
  <2> HIDE DEF q
  <2>4. \A p \in Listed' : p \in Listed \/ p.available_at < now + TicksPerSecond
    <3>1. CASE list' = list
      BY <3>1 DEF Listed
    <3>2. CASE list' = <<q>> \o list /\ q.available_at <= now
      <4>1. Listed' = Listed \cup {q}
        BY <2>3, <3>2, ListPushed DEF TypeOK
      <4> QED
        BY <1>now, <2>3, <3>2, <4>1
    <3> QED
      BY <2>2, <3>1, <3>2
  <2>5. \A p \in due'[w] : p.available_at < now + TicksPerSecond
    BY <2>1 DEF DueAccount
  <2> QED
    BY <2>1, <2>4, <2>5, DueStays
<1>11. ASSUME NEW j \in Job, DispatchTime(j) \/ DispatchDies(j) PROVE DueAccount'
  BY <1>2, <1>11 DEF DispatchTime, DispatchDies, store, workers
<1> QED
  BY <1>1, <1>2, <1>3, <1>4, <1>5, <1>6, <1>7, <1>8, <1>9, <1>10, <1>11
  DEF Next, WorkerStep, vars

LEMMA PolicyInit ==
  ASSUME Init
  PROVE  AttemptAccount /\ DueAccount
<1>1. InQueue = {} /\ Listed = {} /\ delayed = {} /\ reserved = {}
  BY DEF Init, InQueue, Listed, Moved, Moving
<1>2. AttemptAccount
  <2>1. \A j \in Job : 0 <= Budget(j)
    BY BudgetBounds
  <2> QED
    BY <1>1, <2>1 DEF Init, AttemptAccount, Unrun, Retrying
<1>3. DueAccount
  BY <1>1 DEF Init, DueAccount
<1> QED
  BY <1>2, <1>3

\* A job of the Redis queue is started at most max_tries times, its workers
\* dying between any two commands included, and no payload leaves the delayed
\* set a second or more before its available_at (policy.rs, promote_due).
THEOREM PolicyIsHonoured == Spec => []PolicyHonoured
<1>1. Init => AttemptAccount /\ DueAccount
  BY PolicyInit
<1>2. CopyInv /\ AttemptAccount /\ DueAccount /\ [Next]_vars => AttemptAccount' /\ DueAccount'
  BY AttemptStep, DueStep
<1>3. AttemptAccount /\ DueAccount => PolicyHonoured
  BY DEF AttemptAccount, DueAccount, PolicyHonoured, Budget
<1> QED
  BY <1>1, <1>2, <1>3, CopiesHold, PTL DEF Spec

-----------------------------------------------------------------------------
(* Without deaths. *)

\* Every step keeps a dispatched job in the queue or settled, and settles a job
\* before its reservation is acknowledged.
LEMMA LostStep ==
  ASSUME ~ Faults, CopyInv, NothingLost, AckSettled, [Next]_vars
  PROVE  NothingLost' /\ AckSettled'
<1>0. TypeOK /\ TypeOK'
  BY TypeStep DEF CopyInv
<1> USE <1>0
<1>1. \A j \in Job : push_pc[j] # "new" => Settled(j) \/ \E p \in InQueue : p.job = j
  BY DEF NothingLost, Settled, InQueue
<1>2. ASSUME \A j \in Job : push_pc'[j] # "new" => Settled(j)' \/ \E p \in InQueue' : p.job = j
      PROVE  NothingLost'
  BY <1>2 DEF NothingLost, Settled, InQueue
<1>3. ASSUME NEW j \in Job, Dispatch(j) PROVE NothingLost' /\ AckSettled'
  <2>1. PICK p \in Payload : p.job = j /\ InQueue' = InQueue \cup {p}
    BY <1>3, CopyDispatch
  <2>2. UNCHANGED <<pc, held, failed, done>> /\ \A i \in Job \ {j} : push_pc'[i] = push_pc[i]
    BY <1>3 DEF Dispatch, workers, TypeOK
  <2>3. \A i \in Job : Settled(i)' <=> Settled(i)
    BY <2>2 DEF Settled
  <2>4. \A i \in Job : push_pc'[i] # "new" => Settled(i)' \/ \E q \in InQueue' : q.job = i
    BY <1>1, <2>1, <2>2, <2>3
  <2>5. AckSettled'
    BY <2>2 DEF AckSettled, Settled
  <2> QED
    BY <1>2, <2>4, <2>5
<1>4. ASSUME UNCHANGED <<pc, held, failed, done>>, InQueue' = InQueue,
             \A j \in Job : push_pc'[j] # "new" => push_pc[j] # "new"
      PROVE  NothingLost' /\ AckSettled'
  <2>1. \A i \in Job : Settled(i)' <=> Settled(i)
    BY <1>4 DEF Settled
  <2>2. AckSettled'
    BY <1>4 DEF AckSettled, Settled
  <2> QED
    BY <1>1, <1>2, <1>4, <2>1, <2>2
<1>5. ASSUME NEW j \in Job, DispatchTime(j) PROVE NothingLost' /\ AckSettled'
  <2>1. InQueue' = InQueue
    BY <1>5, CopyIndex
  <2> QED
    BY <1>4, <1>5, <2>1 DEF DispatchTime, workers, TypeOK
<1>6. ASSUME UNCHANGED <<list, delayed, reserved, pc, held, failed, done, push_pc>>
      PROVE  NothingLost' /\ AckSettled'
  BY <1>4, <1>6, CopyQuiet
<1>7. ASSUME NEW w \in Worker, WorkerStep(w) PROVE NothingLost' /\ AckSettled'
  <2>1. UNCHANGED push_pc /\ failed \subseteq failed' /\ done \subseteq done'
    <3>1. CASE \/ PromoteRange(w) \/ PromoteRemove(w) \/ PromotePush(w) \/ PromoteTime(w)
               \/ BrPop(w) \/ PopTimeout(w) \/ PopTime(w) \/ Reserve(w)
      BY <3>1 DEF PromoteRange, PromoteRemove, PromotePush, PromoteTime, BrPop, PopTimeout, PopTime, Reserve, store
    <3>2. CASE \/ StartRun(w) \/ FinishRun(w) \/ DeadLetter(w) \/ DeadTime(w) \/ AckReserved(w)
               \/ AckTime(w) \/ ReleasePush(w) \/ ReleaseTime(w)
      BY <3>2 DEF StartRun, FinishRun, DeadLetter, DeadTime, AckReserved, AckTime, ReleasePush, ReleaseTime, store
    <3> QED
      BY <1>7, <3>1, <3>2 DEF WorkerStep
  <2>2. \A j \in Job : Settled(j) => Settled(j)'
    BY <2>1 DEF Settled
  <2>3. /\ \A v \in Worker \ {w} : pc'[v] = pc[v] /\ held'[v] = held[v]
        /\ pc'[w] \in {"ack", "dead_time"} => Settled(held[w].job)'
    <3>1. CASE FinishRun(w)
      <4>1. PICK arm \in {"ack", "release", "dead_letter"} :
              /\ pc' = [pc EXCEPT ![w] = arm]
              /\ done' = IF arm = "ack" THEN done \cup {held[w].job} ELSE done
        BY <3>1, FinishArm
      <4> QED
        BY <3>1, <4>1 DEF FinishRun, TypeOK, Settled
    <3>2. CASE DeadLetter(w)
      <4>1. Id(held[w]) \in failed' /\ Id(held[w])[1] = held[w].job /\ held' = held
        BY <3>2 DEF DeadLetter, Id
      <4>2. Settled(held[w].job)'
        BY <4>1 DEF Settled
      <4> QED
        BY <3>2, <4>2 DEF DeadLetter, TypeOK
    <3>3. CASE DeadTime(w)
      <4>1. pc[w] = "dead_time" /\ held[w].job \in Job /\ held' = held
        BY <3>3, HeldIsPayload DEF DeadTime
      <4>2. Settled(held[w].job)
        BY <4>1 DEF AckSettled
      <4>3. Settled(held[w].job)'
        BY <4>1, <4>2, <2>1 DEF Settled
      <4> QED
        BY <3>3, <4>3 DEF DeadTime, TypeOK
    <3>4. CASE \/ PromoteRange(w) \/ PromoteRemove(w) \/ PromotePush(w) \/ PromoteTime(w)
               \/ BrPop(w) \/ PopTimeout(w) \/ PopTime(w) \/ Reserve(w)
      BY <3>4 DEF PromoteRange, PromoteRemove, PromotePush, PromoteTime, BrPop, PopTimeout, PopTime, Reserve, TypeOK
    <3>5. CASE StartRun(w) \/ AckReserved(w) \/ AckTime(w) \/ ReleasePush(w) \/ ReleaseTime(w)
      BY <3>5 DEF StartRun, AckReserved, AckTime, ReleasePush, ReleaseTime, TypeOK
    <3> QED
      BY <1>7, <3>1, <3>2, <3>3, <3>4, <3>5 DEF WorkerStep
  <2>4. AckSettled'
    <3>1. ASSUME NEW v \in Worker \ {w}, pc'[v] \in {"ack", "dead_time"}
          PROVE  Settled(held[v].job)'
      <4>1. pc[v] \in {"ack", "dead_time"} /\ held'[v] = held[v] /\ held[v].job \in Job
        BY <2>3, <3>1, HeldIsPayload
      <4>2. Settled(held[v].job)
        BY <4>1 DEF AckSettled
      <4> QED
        BY <2>1, <4>1, <4>2 DEF Settled
    <3> QED
      BY <2>3, <3>1 DEF AckSettled
  <2>5. ASSUME NEW j \in Job, push_pc'[j] # "new", ~ Settled(j)' PROVE \E p \in InQueue' : p.job = j
    <3>1. PICK p \in InQueue : p.job = j
      BY <1>1, <2>1, <2>2, <2>5
    <3>2. CASE AckReserved(w) /\ pc[w] = "ack"
      <4>1. Settled(held[w].job) /\ held[w].job \in Job
        BY <3>2, HeldIsPayload DEF AckSettled
      <4>2. p # held[w]
        BY <2>2, <2>5, <3>1, <4>1
      <4> QED
        BY <3>1, <3>2, <4>2, CopyAck
    <3>3. CASE ReleasePush(w)
      <4>1. InQueue' = (InQueue \ {held[w]}) \cup {RetryOf(held[w])}
        BY <3>3, CopyRelease
      <4>2. RetryOf(held[w]).job = held[w].job
        BY <3>3, HeldIsPayload, RetryIsPayload DEF ReleasePush
      <4> QED
        BY <3>1, <4>1, <4>2
    <3>4. CASE ~ ReleasePush(w) /\ ~ (AckReserved(w) /\ pc[w] = "ack")
      <4>1. InQueue' = InQueue
        BY <1>7, <3>4, QueueStays DEF WorkerStep, AckReserved
      <4> QED
        BY <3>1, <4>1
    <3> QED
      BY <3>2, <3>3, <3>4
  <2> QED
    BY <1>2, <2>4, <2>5
<1> QED
  BY <1>3, <1>5, <1>6, <1>7 DEF Next, DispatchDies, WorkerDies, Tick, vars, store, workers

\* When no process dies between two commands a dispatched job is in a key,
\* moving between two of them, or settled: the windows of pop, promote_due and
\* release (driver/redis.rs) lose a job to deaths only.
THEOREM NoJobIsLost ==
  ASSUME ~ Faults
  PROVE  Spec => []NothingLost
<1>1. Init => NothingLost /\ AckSettled
  BY DEF Init, NothingLost, AckSettled
<1>2. CopyInv /\ NothingLost /\ AckSettled /\ [Next]_vars => NothingLost' /\ AckSettled'
  BY LostStep
<1> QED
  BY <1>1, <1>2, CopiesHold, PTL DEF Spec

\* A step of a worker that was not about to index a payload.
LEMMA IndexStays ==
  ASSUME PendingIndexed, UNCHANGED push_pc, NEW w \in Worker,
         \A v \in Worker \ {w} : pc'[v] = pc[v] /\ held'[v] = held[v],
         \A p \in Listed : Id(p) \in times => Id(p) \in times',
         \A p \in Listed' : p \in Listed
           \/ (pc'[w] \in {"promote_time", "push_time"} /\ held'[w] = p),
         pc[w] \in {"promote_time", "push_time"} => Id(held[w]) \in times'
  PROVE  PendingIndexed'
<1> SUFFICES ASSUME NEW p \in Listed'
             PROVE  \/ Id(p) \in times'
                    \/ p.attempts = 1 /\ push_pc'[p.job] = "time"
                    \/ \E v \in Worker : pc'[v] \in {"promote_time", "push_time"} /\ held'[v] = p
  BY DEF PendingIndexed, Id
<1>1. CASE p \notin Listed
  BY <1>1
<1>2. CASE p \in Listed
  <2>1. \/ Id(p) \in times
        \/ p.attempts = 1 /\ push_pc[p.job] = "time"
        \/ \E v \in Worker : pc[v] \in {"promote_time", "push_time"} /\ held[v] = p
    BY <1>2 DEF PendingIndexed
  <2>2. CASE \E v \in Worker : pc[v] \in {"promote_time", "push_time"} /\ held[v] = p
    <3>1. PICK v \in Worker : pc[v] \in {"promote_time", "push_time"} /\ held[v] = p
      BY <2>2
    <3> QED
      BY <3>1
  <2> QED
    BY <1>2, <2>1, <2>2
<1> QED
  BY <1>1, <1>2

\* The ids that pop, dead_letter and ack take out of the index are those of
\* payloads that are not listed.
LEMMA ZremSpares ==
  ASSUME CopyInv, NEW w \in Worker,
         pc[w] \in {"popped", "dead_time", "ack_time", "release_time"}, ZremTime(w)
  PROVE  \A p \in Listed : Id(p) \in times => Id(p) \in times'
<1> SUFFICES ASSUME NEW p \in Listed, Id(p) = Id(held[w])
             PROVE  FALSE
  BY DEF ZremTime
<1>1. p.job = held[w].job /\ p \in InQueue
  BY DEF Id, InQueue
<1>2. CASE pc[w] = "ack_time"
  BY <1>1, <1>2 DEF CopyInv, AckedAbsent
<1>3. CASE pc[w] # "ack_time"
  <2>1. held[w] \in reserved \cup Moved
    BY <1>3 DEF CopyInv, OneCopy, Processing, Moving, Moved
  <2>2. held[w] \in InQueue
    BY <2>1 DEF InQueue
  <2>3. p = held[w]
    BY <1>1, <2>2, OneCopyParts DEF CopyInv, JobOnce
  <2> QED
    BY <2>1, <2>3, OneCopyParts DEF CopyInv, KeysApart
<1> QED
  BY <1>2, <1>3

\* Every step keeps the listed payloads indexed or about to be.
LEMMA IndexStep ==
  ASSUME ~ Faults, CopyInv, PendingIndexed, [Next]_vars
  PROVE  PendingIndexed'
<1>0. TypeOK
  BY DEF CopyInv
<1> USE <1>0
<1>1. ASSUME NEW j \in Job, Dispatch(j) PROVE PendingIndexed'
  <2>1. PICK delay \in Delays :
          LET p == [job |-> j, attempts |-> 1, available_at |-> now + delay]
          IN  \/ PushDelayed(p) /\ push_pc' = [push_pc EXCEPT ![j] = "sent"]
              \/ PushNow(p) /\ push_pc' = [push_pc EXCEPT ![j] = "time"]
    BY <1>1 DEF Dispatch
  <2> DEFINE p == [job |-> j, attempts |-> 1, available_at |-> now + delay]
  <2>2. p \in Payload /\ p.job = j /\ p.attempts = 1
    BY RedisAssumption DEF Payload, TypeOK
  <2>3. \/ list' = list
        \/ list' = <<p>> \o list /\ push_pc'[j] = "time"
    BY <2>1 DEF PushDelayed, PushNow, TypeOK
  <2> HIDE DEF p
  <2>4. \A q \in Listed' : q \in Listed \/ (q = p /\ push_pc'[j] = "time")
    <3>1. CASE list' = list
      BY <3>1 DEF Listed
    <3>2. CASE list' = <<p>> \o list /\ push_pc'[j] = "time"
      BY <2>2, <3>2, ListPushed DEF TypeOK
    <3> QED
      BY <2>3, <3>1, <3>2
  <2>5. UNCHANGED <<times, pc, held>> /\ push_pc[j] = "new"
    BY <1>1 DEF Dispatch, workers
  <2>6. \A i \in Job : push_pc[i] = "time" => push_pc'[i] = "time"
    BY <2>1, <2>5 DEF TypeOK
  <2>7. \A q \in Listed : q.job \in Job
    BY ListedTyped DEF Payload
  <2> QED
    BY <2>2, <2>4, <2>5, <2>6, <2>7 DEF PendingIndexed, Id
<1>2. ASSUME NEW j \in Job, DispatchTime(j) PROVE PendingIndexed'
  <2>1. /\ UNCHANGED <<pc, held>> /\ times' = times \cup {<<j, 1>>} /\ Listed' = Listed
        /\ \A i \in Job \ {j} : push_pc'[i] = push_pc[i]
    BY <1>2 DEF DispatchTime, workers, Listed, TypeOK
  <2>2. \A q \in Listed : q.job \in Job
    BY ListedTyped DEF Payload
  <2> QED
    BY <2>1, <2>2 DEF PendingIndexed, Id
<1>3. ASSUME UNCHANGED <<list, times, push_pc, pc, held>> PROVE PendingIndexed'
  BY <1>3 DEF PendingIndexed, Listed, Id
<1>4. ASSUME NEW w \in Worker,
             \/ PromoteRange(w) \/ PromoteRemove(w) \/ PopTimeout(w) \/ Reserve(w)
             \/ StartRun(w) \/ FinishRun(w) \/ DeadLetter(w) \/ AckReserved(w)
      PROVE  PendingIndexed'
  <2>1. /\ UNCHANGED <<times, push_pc>> /\ Listed' = Listed
        /\ pc[w] \notin {"promote_time", "push_time"}
        /\ \A v \in Worker \ {w} : pc'[v] = pc[v] /\ held'[v] = held[v]
    BY <1>4 DEF PromoteRange, PromoteRemove, PopTimeout, Reserve, StartRun, FinishRun, DeadLetter, AckReserved,
                store, Listed, TypeOK
  <2> QED
    BY <2>1, IndexStays
<1>5. ASSUME NEW w \in Worker, PromoteTime(w) \/ ReleaseTime(w) PROVE PendingIndexed'
  <2>1. /\ UNCHANGED push_pc /\ times' = times \cup {Id(held[w])} /\ Listed' = Listed
        /\ \A v \in Worker \ {w} : pc'[v] = pc[v] /\ held'[v] = held[v]
    BY <1>5 DEF PromoteTime, ReleaseTime, Listed, TypeOK
  <2> QED
    BY <2>1, IndexStays
<1>6. ASSUME NEW w \in Worker, PopTime(w) \/ DeadTime(w) \/ AckTime(w) PROVE PendingIndexed'
  <2>1. /\ UNCHANGED push_pc /\ Listed' = Listed /\ ZremTime(w)
        /\ pc[w] \in {"popped", "dead_time", "ack_time", "release_time"}
        /\ \A v \in Worker \ {w} : pc'[v] = pc[v] /\ held'[v] = held[v]
    BY <1>6 DEF PopTime, DeadTime, AckTime, Listed, TypeOK
  <2>2. \A p \in Listed : Id(p) \in times => Id(p) \in times'
    BY <2>1, ZremSpares
  <2> QED
    BY <2>1, <2>2, IndexStays
<1>7. ASSUME NEW w \in Worker, PromotePush(w) PROVE PendingIndexed'
  <2>1. /\ UNCHANGED <<times, push_pc>> /\ pc[w] = "promote_push" /\ pc'[w] = "promote_time"
        /\ held' = held /\ \A v \in Worker \ {w} : pc'[v] = pc[v]
    BY <1>7 DEF PromotePush, TypeOK
  <2>2. Listed' = Listed \cup {held[w]}
    BY <1>7, HeldIsPayload, ListPushed DEF PromotePush, TypeOK
  <2> QED
    BY <2>1, <2>2, IndexStays
<1>8. ASSUME NEW w \in Worker, BrPop(w) PROVE PendingIndexed'
  <2>1. /\ UNCHANGED <<times, push_pc>> /\ pc[w] = "promote"
        /\ \A v \in Worker \ {w} : pc'[v] = pc[v] /\ held'[v] = held[v]
    BY <1>8 DEF BrPop, TypeOK
  <2>2. Listed' \subseteq Listed
    BY <1>8, ListPopped DEF BrPop, TypeOK, CopyInv, OneCopy
  <2> QED
    BY <2>1, <2>2, IndexStays
<1>9. ASSUME NEW w \in Worker, ReleasePush(w) PROVE PendingIndexed'
  <2> DEFINE q == RetryOf(held[w])
  <2>1. /\ UNCHANGED <<times, push_pc>> /\ pc[w] = "push"
        /\ \A v \in Worker \ {w} : pc'[v] = pc[v] /\ held'[v] = held[v]
    BY <1>9 DEF ReleasePush, TypeOK
  <2>2. \/ list' = list
        \/ list' = <<q>> \o list /\ pc'[w] = "push_time" /\ held'[w] = q
    BY <1>9 DEF ReleasePush, PushDelayed, PushNow, TypeOK
  <2>3. q \in Payload
    BY <2>1, HeldIsPayload, RetryIsPayload
  <2> HIDE DEF q
  <2>4. \A p \in Listed' : p \in Listed
          \/ (pc'[w] \in {"promote_time", "push_time"} /\ held'[w] = p)
    <3>1. CASE list' = list
      BY <3>1 DEF Listed
    <3>2. CASE list' = <<q>> \o list /\ pc'[w] = "push_time" /\ held'[w] = q
      BY <2>3, <3>2, ListPushed DEF TypeOK
    <3> QED
      BY <2>2, <3>1, <3>2
  <2> QED
    BY <2>1, <2>4, IndexStays
<1> QED
  BY <1>1, <1>2, <1>3, <1>4, <1>5, <1>6, <1>7, <1>8, <1>9
  DEF Next, WorkerStep, DispatchDies, WorkerDies, Tick, vars, store, workers

\* When no process dies, every listed payload is in pending_times or whoever
\* pushed it is about to put it there, however pops, acknowledgements and
\* promotions of others interleave (driver/redis.rs).
THEOREM ListedIsIndexed ==
  ASSUME ~ Faults
  PROVE  Spec => []PendingIndexed
<1>1. Init => PendingIndexed
  BY DEF Init, PendingIndexed, Listed
<1>2. CopyInv /\ PendingIndexed /\ [Next]_vars => PendingIndexed'
  BY IndexStep
<1> QED
  BY <1>1, <1>2, CopiesHold, PTL DEF Spec

-----------------------------------------------------------------------------
(* The contract of a queue driver. *)

\* A job that waits or that a worker has not finalized has no verdict.
VerdictInv ==
  /\ \A j \in Job : push_pc[j] = "new" => ~ Settled(j)
  /\ \A p \in Listed \cup delayed : ~ Settled(p.job)
  /\ \A w \in Worker : Stage(pc[w]) # "none" => ~ Settled(held[w].job)
ContractInv == CopyInv /\ VerdictInv

\* What a worker has in some stage is in no list, and with no other worker.
Alone ==
  \A w \in Worker : Stage(pc[w]) # "none" =>
    /\ held[w].job \in Job /\ push_pc[held[w].job] # "new" /\ ~ Queued(held[w].job)
    /\ \A v \in Worker \ {w} : Stage(pc[v]) # "none" => held[v].job # held[w].job

LEMMA StagedIsHeld ==
  ASSUME NEW p, Stage(p) # "none"
  PROVE  \/ p \in {"promote_push", "popped", "reserve", "release_time", "push"}
         \/ p \in {"claimed", "running", "release", "dead_letter"}
BY DEF Stage

LEMMA StagedAlone == CopyInv => Alone
<1> SUFFICES ASSUME CopyInv, NEW w \in Worker, Stage(pc[w]) # "none"
             PROVE  /\ held[w].job \in Job /\ push_pc[held[w].job] # "new"
                    /\ ~ Queued(held[w].job)
                    /\ \A v \in Worker \ {w} :
                         Stage(pc[v]) # "none" => held[v].job # held[w].job
  BY DEF Alone
<1>1. ASSUME NEW v \in Worker, Stage(pc[v]) # "none"
      PROVE  /\ held[v] \in Payload /\ held[v].job \in Job
             /\ Moving(v) => held[v] \in Moved
             /\ ~ Moving(v) => held[v] \in reserved /\ Processing(v)
  <2>1. Moving(v) \/ Processing(v)
    BY <1>1, StagedIsHeld DEF Moving, Processing
  <2>2. held[v] \in Payload /\ held[v].job \in Job
    BY <2>1, HeldIsPayload DEF Moving, Processing, CopyInv
  <2>3. Moving(v) => held[v] \in Moved
    BY DEF Moved
  <2>4. Processing(v) => held[v] \in reserved
    BY DEF CopyInv, OneCopy
  <2> QED
    BY <2>1, <2>2, <2>3, <2>4
<1>2. held[w] \in reserved \cup Moved /\ held[w].job \in Job
  <2>1. pc[w] \notin {"idle", "promote"}
    BY StagedIsHeld
  <2>2. held[w].job \in Job
    BY <2>1, HeldIsPayload DEF CopyInv
  <2> QED
    BY <1>1, <2>2
<1>3. push_pc[held[w].job] # "new"
  BY <1>2 DEF CopyInv, NewAbsent, InQueue
<1>4. ~ Queued(held[w].job)
  <2> SUFFICES ASSUME NEW p \in Listed \cup delayed, p.job = held[w].job PROVE FALSE
    BY DEF Queued
  <2>1. p = held[w]
    BY <1>2 DEF CopyInv, OneCopy
  <2> QED
    BY <1>2, <2>1 DEF CopyInv, OneCopy
<1>5. ASSUME NEW v \in Worker \ {w}, Stage(pc[v]) # "none", held[v].job = held[w].job
      PROVE  FALSE
  <2>1. held[v] \in reserved \cup Moved
    BY <1>1, <1>5
  <2>2. held[v] = held[w]
    BY <1>2, <1>5, <2>1 DEF CopyInv, OneCopy
  <2>3. CASE Moving(v) /\ Moving(w)
    BY <1>5, <2>2, <2>3 DEF CopyInv, OneCopy
  <2>4. CASE ~ Moving(v) /\ ~ Moving(w)
    BY <1>1, <1>5, <2>2, <2>4 DEF CopyInv, OneCopy
  <2>5. CASE Moving(v) # Moving(w)
    <3>1. held[w] \in reserved /\ held[w] \in Moved
      BY <1>1, <1>5, <2>2, <2>5 DEF Moving
    <3> QED
      BY <3>1 DEF CopyInv, OneCopy
  <2> QED
    BY <2>3, <2>4, <2>5 DEF Moving
<1> QED
  BY <1>2, <1>3, <1>4, <1>5

\* The phase of a job follows from where its payload is.
PhaseKnown ==
  /\ \A j \in Job : Queued(j) => Phase(j) = "waiting" /\ push_pc[j] # "new"
  /\ \A w \in Worker : Stage(pc[w]) # "none" => Phase(held[w].job) = Stage(pc[w])

LEMMA PhaseFollows == ContractInv => PhaseKnown
<1> SUFFICES ASSUME ContractInv PROVE PhaseKnown
  OBVIOUS
<1>1. ASSUME NEW j \in Job, Queued(j) PROVE Phase(j) = "waiting" /\ push_pc[j] # "new"
  <2>1. PICK p \in Listed \cup delayed : p.job = j
    BY <1>1 DEF Queued
  <2>2. ~ Settled(j)
    BY <2>1 DEF ContractInv, VerdictInv
  <2>3. push_pc[j] # "new"
    BY <2>1 DEF ContractInv, CopyInv, NewAbsent, InQueue
  <2> QED
    BY <1>1, <2>2, <2>3 DEF Phase, Settled, Buried
<1>2. ASSUME NEW w \in Worker, Stage(pc[w]) # "none" PROVE Phase(held[w].job) = Stage(pc[w])
  <2>1. PICK j : j = held[w].job
    OBVIOUS
  <2>2. /\ j \in Job /\ push_pc[j] # "new" /\ ~ Queued(j)
        /\ \A v \in Worker \ {w} : Stage(pc[v]) # "none" => held[v].job # j
    BY <1>2, <2>1, StagedAlone DEF ContractInv, Alone
  <2>3. ~ Settled(j)
    BY <1>2, <2>1 DEF ContractInv, VerdictInv
  <2>4. ASSUME NEW s, s # "none" PROVE At(j, s) <=> Stage(pc[w]) = s
    BY <2>1, <2>2, <2>4 DEF At
  <2>5. /\ At(j, "waiting") <=> Stage(pc[w]) = "waiting"
        /\ At(j, "claimed") <=> Stage(pc[w]) = "claimed"
        /\ At(j, "running") <=> Stage(pc[w]) = "running"
        /\ At(j, "failing") <=> Stage(pc[w]) = "failing"
    BY <2>4
  <2>6. Stage(pc[w]) \in {"waiting", "claimed", "running", "failing"}
    BY <1>2 DEF Stage
  <2> QED
    BY <2>1, <2>2, <2>3, <2>5, <2>6 DEF Phase, Settled, Buried
<1> QED
  BY <1>1, <1>2 DEF PhaseKnown

\* A job that no step of w concerns keeps its phase.
LEMMA PhaseKept ==
  ASSUME NEW w \in Worker, NEW j,
         \A v \in Worker \ {w} : pc'[v] = pc[v] /\ held'[v] = held[v],
         \A s \in {"waiting", "claimed", "running", "failing"} :
           (Stage(pc[w]) = s /\ held[w].job = j) <=> (Stage(pc'[w]) = s /\ held'[w].job = j),
         Queued(j)' <=> Queued(j), j \in done' <=> j \in done, Buried(j)' <=> Buried(j),
         push_pc'[j] = "new" <=> push_pc[j] = "new"
  PROVE  Phase(j)' = Phase(j)
<1>1. ASSUME NEW s \in {"waiting", "claimed", "running", "failing"}
      PROVE  At(j, s)' <=> At(j, s)
  <2>1. At(j, s) <=> \E v \in Worker : Stage(pc[v]) = s /\ held[v].job = j
    BY DEF At
  <2>2. At(j, s)' <=> \E v \in Worker : Stage(pc'[v]) = s /\ held'[v].job = j
    BY DEF At, Stage
  <2> QED
    BY <2>1, <2>2
<1> QED
  BY <1>1 DEF Phase

\* What a step does to the phases, job by job, is what it does to the phase
\* function of the contract.
JobMoves(j, from, to) ==
  /\ j \in Job /\ Phase(j) = from /\ Phase(j)' = to
  /\ \A i \in Job \ {j} : Phase(i)' = Phase(i)
JobsStay == \A i \in Job : Phase(i)' = Phase(i)

LEMMA MoveOfContract ==
  ASSUME NEW j, NEW from, NEW to, JobMoves(j, from, to)
  PROVE  ContractOf!Move(j, from, to)
BY DEF JobMoves, ContractOf!Move

LEMMA StayOfContract ==
  ASSUME JobsStay, ran' = ran
  PROVE  UNCHANGED ContractOf!contractVars
BY DEF JobsStay, ContractOf!contractVars

\* Only the dispatch of a job ends its being new.
SameNew == \A i \in Job : push_pc'[i] = "new" <=> push_pc[i] = "new"

LEMMA QueuedTyped ==
  ASSUME CopyInv, NEW p \in Listed \cup delayed
  PROVE  p.job \in Job
BY ListedTyped DEF CopyInv, TypeOK, Payload

\* A step that moves no payload and reaches no verdict changes no phase.
LEMMA StillStep ==
  ASSUME ContractInv, CopyInv', SameNew, UNCHANGED <<list, delayed, done, failed, pc, held>>
  PROVE  ContractInv' /\ JobsStay
<1>1. Listed' = Listed
  BY DEF Listed
<1>2. VerdictInv'
  BY <1>1 DEF ContractInv, VerdictInv, Settled, SameNew
<1>3. ASSUME NEW i \in Job PROVE Phase(i)' = Phase(i)
  BY <1>1, <1>3 DEF Phase, At, Queued, Buried, SameNew
<1> QED
  BY <1>2, <1>3 DEF ContractInv, JobsStay

\* Nor does a worker that goes on in the stage it is in.
LEMMA QuietStep ==
  ASSUME ContractInv, CopyInv', SameNew, UNCHANGED <<list, delayed, done, failed>>,
         NEW w \in Worker, \A v \in Worker \ {w} : pc'[v] = pc[v] /\ held'[v] = held[v],
         Stage(pc'[w]) = Stage(pc[w]), Stage(pc[w]) # "none" => held'[w] = held[w]
  PROVE  ContractInv' /\ JobsStay
<1>1. Listed' = Listed /\ \A i : (Settled(i)' <=> Settled(i)) /\ (Queued(i)' <=> Queued(i))
  BY DEF Listed, Settled, Queued
<1>2. ASSUME NEW v \in Worker, Stage(pc'[v]) # "none" PROVE ~ Settled(held'[v].job)
  <2>1. Stage(pc[v]) # "none" /\ held'[v] = held[v]
    BY <1>2
  <2> QED
    BY <2>1 DEF ContractInv, VerdictInv
<1>3. VerdictInv'
  BY <1>1, <1>2 DEF ContractInv, VerdictInv, Settled, SameNew, Stage
<1>4. ASSUME NEW i \in Job PROVE Phase(i)' = Phase(i)
  BY <1>1, <1>4, PhaseKept DEF SameNew, Buried
<1> QED
  BY <1>3, <1>4 DEF ContractInv, JobsStay

\* A worker that takes up, goes on with or gives up one job concerns that job
\* alone, and leaves it without a verdict unless it finalized it.
LEMMA JobStep ==
  ASSUME ContractInv, CopyInv', SameNew,
         NEW w \in Worker, \A v \in Worker \ {w} : pc'[v] = pc[v] /\ held'[v] = held[v],
         NEW j \in Job, Queued(j) \/ Stage(pc[w]) # "none",
         Stage(pc[w]) # "none" => held[w].job = j,
         Stage(pc'[w]) # "none" => held'[w].job = j,
         \A i \in Job \ {j} : /\ Queued(i)' <=> Queued(i)
                              /\ i \in done' <=> i \in done
                              /\ Buried(i)' <=> Buried(i),
         Queued(j)' \/ Stage(pc'[w]) # "none" => ~ (j \in done' \/ Buried(j)')
  PROVE  ContractInv' /\ \A i \in Job \ {j} : Phase(i)' = Phase(i)
<1>1. \A i : (Settled(i) <=> i \in done \/ Buried(i)) /\ (Settled(i)' <=> i \in done' \/ Buried(i)')
  BY DEF Settled, Buried
<1>2. push_pc[j] # "new"
  BY PhaseFollows, StagedAlone DEF PhaseKnown, ContractInv, Alone
<1>3. ASSUME NEW i \in Job, push_pc'[i] = "new" PROVE ~ Settled(i)'
  <2>1. i # j /\ push_pc[i] = "new"
    BY <1>2, <1>3 DEF SameNew
  <2> QED
    BY <1>1, <2>1 DEF ContractInv, VerdictInv
<1>4. ASSUME NEW p \in Listed' \cup delayed' PROVE ~ Settled(p.job)'
  <2>1. PICK i : i = p.job
    OBVIOUS
  <2>2. i \in Job /\ Queued(i)'
    <3>1. Listed' \subseteq Payload /\ delayed' \subseteq Payload
      BY DEF CopyInv, TypeOK, Listed
    <3> QED
      BY <1>4, <2>1, <3>1 DEF Queued, Payload
  <2>3. ~ Settled(i)'
    <3>1. CASE i = j
      BY <1>1, <2>2, <3>1
    <3>2. CASE i # j
      BY <1>1, <2>2, <3>2 DEF ContractInv, VerdictInv, Queued
    <3> QED
      BY <3>1, <3>2
  <2> QED
    BY <2>1, <2>3 DEF Settled
<1>5. ASSUME NEW v \in Worker, Stage(pc'[v]) # "none" PROVE ~ Settled(held[v].job)'
  <2>1. CASE v = w
    BY <1>1, <1>5, <2>1 DEF Settled
  <2>2. CASE v # w
    <3>1. PICK i : i = held[v].job
      OBVIOUS
    <3>2. Stage(pc[v]) # "none" /\ held'[v] = held[v]
      BY <1>5, <2>2
    <3>3. i \in Job /\ ~ Queued(i) /\ (Stage(pc[w]) # "none" => held[w].job # i) /\ ~ Settled(i)
      BY <2>2, <3>1, <3>2, StagedAlone DEF ContractInv, VerdictInv, Alone
    <3>4. i # j
      BY <3>3
    <3>5. ~ Settled(i)'
      BY <1>1, <3>3, <3>4
    <3> QED
      BY <3>1, <3>2, <3>5 DEF Settled
  <2> QED
    BY <2>1, <2>2
<1>6. VerdictInv'
  BY <1>3, <1>4, <1>5 DEF VerdictInv, Settled, Stage
<1>7. ASSUME NEW i \in Job \ {j} PROVE Phase(i)' = Phase(i)
  BY <1>7, PhaseKept DEF SameNew
<1> QED
  BY <1>6, <1>7 DEF ContractInv

\* The phases the concerned job is in before and after such a step.
LEMMA StepPhases ==
  ASSUME ContractInv, ContractInv'
  PROVE  PhaseKnown /\ PhaseKnown' /\ Alone /\ Alone'
<1>1. ContractInv' => PhaseKnown'
  BY PhaseFollows, PTL
<1>2. CopyInv' => Alone'
  BY StagedAlone, PTL
<1> QED
  BY <1>1, <1>2, PhaseFollows, StagedAlone DEF ContractInv

\* push of a dispatch: a job that was nowhere waits.
LEMMA DispatchMoves ==
  ASSUME ContractInv, CopyInv', NEW j \in Job, Dispatch(j)
  PROVE  ContractInv' /\ JobMoves(j, "absent", "waiting")
<1>1. PICK p \in Payload :
        /\ p.job = j
        /\ \/ delayed' = delayed \cup {p} /\ list' = list
           \/ list' = <<p>> \o list /\ delayed' = delayed
  <2>1. PICK delay \in Delays :
          LET p == [job |-> j, attempts |-> 1, available_at |-> now + delay]
          IN  PushDelayed(p) \/ PushNow(p)
    BY DEF Dispatch
  <2> DEFINE p == [job |-> j, attempts |-> 1, available_at |-> now + delay]
  <2>2. p \in Payload /\ p.job = j
    BY RedisAssumption DEF Payload, ContractInv, CopyInv, TypeOK
  <2>3. \/ delayed' = delayed \cup {p} /\ list' = list
        \/ list' = <<p>> \o list /\ delayed' = delayed
    BY <2>1 DEF PushDelayed, PushNow
  <2> QED
    BY <2>2, <2>3
<1>2. Listed' \cup delayed' = Listed \cup delayed \cup {p}
  <2>1. CASE delayed' = delayed \cup {p} /\ list' = list
    BY <2>1 DEF Listed
  <2>2. CASE list' = <<p>> \o list /\ delayed' = delayed
    BY <2>2, ListPushed DEF ContractInv, CopyInv, TypeOK
  <2> QED
    BY <1>1, <2>1, <2>2
<1>3. /\ push_pc[j] = "new" /\ push_pc'[j] # "new"
      /\ \A i \in Job \ {j} : push_pc'[i] = push_pc[i]
      /\ UNCHANGED <<pc, held, done, failed>>
  BY DEF Dispatch, workers, ContractInv, CopyInv, TypeOK
<1>4. ~ Settled(j) /\ \A i : Settled(i)' <=> Settled(i)
  BY <1>3 DEF ContractInv, VerdictInv, Settled
<1>5. VerdictInv'
  <2>1. \A q \in Listed' \cup delayed' : ~ Settled(q.job)
    BY <1>1, <1>2, <1>4 DEF ContractInv, VerdictInv
  <2> QED
    BY <1>3, <1>4, <2>1 DEF ContractInv, VerdictInv, Settled
<1>6. Phase(j) = "absent" /\ Phase(j)' = "waiting"
  <2>1. Phase(j) = "absent" /\ Queued(j)'
    BY <1>1, <1>2, <1>3 DEF Phase, Queued
  <2> QED
    BY <1>5, <2>1, StepPhases DEF PhaseKnown, ContractInv
<1>7. ASSUME NEW i \in Job \ {j} PROVE Phase(i)' = Phase(i)
  <2>1. Queued(i)' <=> Queued(i)
    BY <1>1, <1>2, <1>7 DEF Queued
  <2> QED
    BY <1>3, <1>7, <2>1 DEF Phase, At, Buried
<1> QED
  BY <1>5, <1>6, <1>7 DEF ContractInv, JobMoves

\* promote_due: a delayed job still waits while a worker carries it to the list ...
LEMMA PromoteStays ==
  ASSUME ContractInv, CopyInv', NEW w \in Worker, PromoteRemove(w)
  PROVE  ContractInv' /\ JobsStay
<1>0. TypeOK
  BY DEF ContractInv, CopyInv
<1>1. PICK p \in due[w] :
        /\ delayed' = delayed \ {p}
        /\ IF p \in delayed
           THEN /\ held' = [held EXCEPT ![w] = p]
                /\ pc' = [pc EXCEPT ![w] = "promote_push"]
           ELSE UNCHANGED <<held, pc>>
  BY DEF PromoteRemove
<1>2. UNCHANGED <<list, push_pc, done, failed>> /\ pc[w] = "promote" /\ SameNew
  BY DEF PromoteRemove, SameNew
<1>3. CASE p \notin delayed
  <2>1. delayed' = delayed /\ UNCHANGED <<held, pc>>
    BY <1>1, <1>3
  <2> QED
    BY <1>2, <2>1, StillStep
<1>4. CASE p \in delayed
  <2>1. PICK j : j = p.job
    OBVIOUS
  <2>2. /\ pc'[w] = "promote_push" /\ held'[w] = p
        /\ \A v \in Worker \ {w} : pc'[v] = pc[v] /\ held'[v] = held[v]
    BY <1>0, <1>1, <1>4 DEF TypeOK
  <2>3. j \in Job /\ Queued(j)
    BY <1>4, <2>1, QueuedTyped DEF Queued, ContractInv
  <2>4. Listed' = Listed /\ \A i : (Buried(i)' <=> Buried(i)) /\ (i \in done' <=> i \in done)
    BY <1>2 DEF Listed, Buried
  <2>5. ASSUME NEW i \in Job \ {j} PROVE Queued(i)' <=> Queued(i)
    BY <1>1, <2>1, <2>4, <2>5 DEF Queued
  <2>6. ~ (j \in done \/ Buried(j))
    BY <1>4, <2>1 DEF ContractInv, VerdictInv, Settled, Buried
  <2>7. Stage(pc[w]) = "none" /\ Stage(pc'[w]) = "waiting"
    BY <1>2, <2>2 DEF Stage
  <2>8. ContractInv' /\ \A i \in Job \ {j} : Phase(i)' = Phase(i)
    BY <1>2, <2>1, <2>2, <2>3, <2>4, <2>5, <2>6, <2>7, JobStep
  <2>9. Phase(j) = "waiting"
    BY <2>3, PhaseFollows DEF PhaseKnown
  <2>10. Phase(j)' = "waiting"
    BY <2>1, <2>2, <2>7, <2>8, StepPhases DEF PhaseKnown, Stage, Phase, At, Queued, Buried
  <2> QED
    BY <2>8, <2>9, <2>10 DEF JobsStay
<1> QED
  BY <1>3, <1>4

\* ... and once it is there.
LEMMA PromotedStays ==
  ASSUME ContractInv, CopyInv', NEW w \in Worker, PromotePush(w)
  PROVE  ContractInv' /\ JobsStay
<1>0. TypeOK
  BY DEF ContractInv, CopyInv
<1>1. PICK p : p = held[w]
  OBVIOUS
<1>2. /\ pc[w] = "promote_push" /\ list' = <<p>> \o list /\ pc'[w] = "promote_time"
      /\ UNCHANGED <<delayed, push_pc, done, failed>> /\ SameNew
      /\ \A v \in Worker \ {w} : pc'[v] = pc[v] /\ held'[v] = held[v]
  BY <1>0, <1>1 DEF PromotePush, TypeOK, SameNew
<1>3. Stage(pc[w]) = "waiting" /\ Stage(pc'[w]) = "none"
  BY <1>2 DEF Stage
<1>4. p \in Payload /\ p.job \in Job
  BY <1>0, <1>1, <1>2, HeldIsPayload
<1>5. PICK j \in Job : j = p.job
  BY <1>4
<1>6. Listed' = Listed \cup {p} /\ \A i : Buried(i)' <=> Buried(i)
  BY <1>0, <1>2, <1>4, ListPushed DEF TypeOK, Buried
<1>7. Queued(j)' /\ \A i \in Job \ {j} : Queued(i)' <=> Queued(i)
  BY <1>2, <1>5, <1>6 DEF Queued
<1>8. ~ (j \in done \/ Buried(j))
  BY <1>1, <1>3, <1>5 DEF ContractInv, VerdictInv, Settled, Buried
<1>9. ContractInv' /\ \A i \in Job \ {j} : Phase(i)' = Phase(i)
  BY <1>1, <1>2, <1>3, <1>5, <1>6, <1>7, <1>8, JobStep
<1>10. Phase(j) = "waiting"
  BY <1>1, <1>3, <1>5, PhaseFollows DEF PhaseKnown
<1>11. Phase(j)' = "waiting"
  BY <1>7, <1>9, StepPhases DEF PhaseKnown
<1> QED
  BY <1>9, <1>10, <1>11 DEF JobsStay

\* BRPOP: the job that waited longest in the list is claimed.
LEMMA PopMoves ==
  ASSUME ContractInv, CopyInv', NEW w \in Worker, BrPop(w)
  PROVE  ContractInv' /\ \E j \in Job : JobMoves(j, "waiting", "claimed")
<1>0. TypeOK /\ \A i, k \in 1 .. Len(list) : list[i].job = list[k].job => i = k
  BY DEF ContractInv, CopyInv, OneCopy
<1>1. PICK p : p = list[Len(list)]
  OBVIOUS
<1>2. /\ pc[w] = "promote" /\ list # <<>> /\ list' = SubSeq(list, 1, Len(list) - 1)
      /\ pc'[w] = "popped" /\ held'[w] = p
      /\ UNCHANGED <<delayed, push_pc, done, failed>> /\ SameNew
      /\ \A v \in Worker \ {w} : pc'[v] = pc[v] /\ held'[v] = held[v]
  BY <1>0, <1>1 DEF BrPop, TypeOK, SameNew
<1>3. Stage(pc[w]) = "none" /\ Stage(pc'[w]) = "claimed"
  BY <1>2 DEF Stage
<1>4. Listed' = Listed \ {p} /\ p \in Listed /\ \A i : Buried(i)' <=> Buried(i)
  BY <1>0, <1>1, <1>2, ListPopped DEF TypeOK, Buried
<1>5. PICK j \in Job : j = p.job
  BY <1>4, QueuedTyped DEF ContractInv
<1>6. Queued(j) /\ \A i \in Job \ {j} : Queued(i)' <=> Queued(i)
  BY <1>2, <1>4, <1>5 DEF Queued
<1>7. ~ (j \in done \/ Buried(j))
  BY <1>4, <1>5 DEF ContractInv, VerdictInv, Settled, Buried
<1>8. ContractInv' /\ \A i \in Job \ {j} : Phase(i)' = Phase(i)
  BY <1>2, <1>3, <1>4, <1>5, <1>6, <1>7, JobStep
<1>9. Phase(j) = "waiting"
  BY <1>6, PhaseFollows DEF PhaseKnown
<1>10. Phase(j)' = "claimed"
  BY <1>2, <1>3, <1>5, <1>8, StepPhases DEF PhaseKnown, Stage, Phase, At, Queued, Buried
<1> QED
  BY <1>8, <1>9, <1>10 DEF JobMoves

\* A worker that takes its job from one stage to another changes its phase.
LEMMA StageMoves ==
  ASSUME ContractInv, CopyInv', NEW w \in Worker, NEW j, j = held[w].job,
         UNCHANGED <<list, delayed, push_pc, done, failed, held>>,
         \A v \in Worker \ {w} : pc'[v] = pc[v],
         NEW s, Stage(pc[w]) = s, s # "none", NEW t, Stage(pc'[w]) = t, t # "none"
  PROVE  ContractInv' /\ JobMoves(j, s, t)
<1>1. j \in Job /\ ~ (j \in done \/ Buried(j)) /\ SameNew
  BY StagedAlone DEF ContractInv, VerdictInv, Alone, Settled, Buried, SameNew
<1>2. \A i : (Queued(i)' <=> Queued(i)) /\ (Buried(i)' <=> Buried(i)) /\ (i \in done' <=> i \in done)
  BY DEF Queued, Listed, Buried
<1>3. ContractInv' /\ \A i \in Job \ {j} : Phase(i)' = Phase(i)
  BY <1>1, <1>2, JobStep
<1>4. Phase(j) = s
  BY PhaseFollows DEF PhaseKnown
<1>5. Phase(j)' = t
  <2>1. held'[w].job = j
    OBVIOUS
  <2> QED
    BY <1>3, <2>1, StepPhases DEF PhaseKnown, Stage, Phase, At, Queued, Buried
<1> QED
  BY <1>1, <1>3, <1>4, <1>5 DEF JobMoves

\* A worker that is done with its job, by a verdict or by dying, leaves it in
\* the phase that the verdict says.
LEMMA LeaveMoves ==
  ASSUME ContractInv, CopyInv', NEW w \in Worker, NEW j, j = held[w].job,
         UNCHANGED <<list, delayed, push_pc>>,
         \A v \in Worker \ {w} : pc'[v] = pc[v] /\ held'[v] = held[v],
         NEW s, Stage(pc[w]) = s, s # "none", Stage(pc'[w]) = "none",
         \A i \in Job \ {j} : (Buried(i)' <=> Buried(i)) /\ (i \in done' <=> i \in done),
         NEW t, t = IF j \in done' THEN "done"
                    ELSE IF Buried(j)' THEN "buried" ELSE "abandoned"
  PROVE  ContractInv' /\ JobMoves(j, s, t)
<1>1. /\ j \in Job /\ push_pc[j] # "new" /\ ~ Queued(j) /\ SameNew
      /\ \A v \in Worker \ {w} : Stage(pc[v]) # "none" => held[v].job # j
  BY StagedAlone DEF ContractInv, Alone, SameNew
<1>2. \A i : Queued(i)' <=> Queued(i)
  BY DEF Queued, Listed
<1>3. ContractInv' /\ \A i \in Job \ {j} : Phase(i)' = Phase(i)
  BY <1>1, <1>2, JobStep
<1>4. Phase(j) = s
  BY PhaseFollows DEF PhaseKnown
<1>5. ASSUME NEW u \in {"waiting", "claimed", "running", "failing"} PROVE ~ At(j, u)'
  <2>1. At(j, u)' <=> \E v \in Worker : Stage(pc'[v]) = u /\ held'[v].job = j
    BY DEF At, Stage
  <2> QED
    BY <1>1, <2>1
<1>6. push_pc'[j] # "new" /\ ~ Queued(j)'
  BY <1>1, <1>2
<1>7. Phase(j)' = t
  BY <1>5, <1>6 DEF Phase
<1> QED
  BY <1>1, <1>3, <1>4, <1>7 DEF JobMoves

\* The push of release: the job waits again.
LEMMA ReleaseMoves ==
  ASSUME ContractInv, CopyInv', NEW w \in Worker, ReleasePush(w), NEW j, j = held[w].job
  PROVE  ContractInv' /\ JobMoves(j, "running", "waiting")
<1>0. TypeOK
  BY DEF ContractInv, CopyInv
<1>1. PICK p : p = RetryOf(held[w])
  OBVIOUS
<1>2. pc[w] = "push" /\ Stage(pc[w]) = "running"
  BY DEF ReleasePush, Stage
<1>3. p \in Payload /\ p.job = j
  <2>1. held[w] \in Payload
    BY <1>0, <1>2, HeldIsPayload
  <2> QED
    BY <1>0, <1>1, <2>1, RetryIsPayload
<1>4. \/ delayed' = delayed \cup {p} /\ list' = list /\ pc' = [pc EXCEPT ![w] = "idle"]
         /\ held' = [held EXCEPT ![w] = None]
      \/ list' = <<p>> \o list /\ delayed' = delayed /\ pc' = [pc EXCEPT ![w] = "push_time"]
         /\ held' = [held EXCEPT ![w] = p]
  BY <1>1 DEF ReleasePush, PushDelayed, PushNow
<1>5. /\ UNCHANGED <<push_pc, done, failed>> /\ SameNew
      /\ \A v \in Worker \ {w} : pc'[v] = pc[v] /\ held'[v] = held[v]
      /\ pc'[w] \in {"idle", "push_time"}
  BY <1>0, <1>4 DEF ReleasePush, TypeOK, SameNew
<1>6. Stage(pc'[w]) = "none"
  BY <1>5 DEF Stage
<1>7. Listed' \cup delayed' = Listed \cup delayed \cup {p}
  <2>1. CASE delayed' = delayed \cup {p} /\ list' = list
    BY <2>1 DEF Listed
  <2>2. CASE list' = <<p>> \o list /\ delayed' = delayed
    BY <1>0, <1>3, <2>2, ListPushed DEF TypeOK
  <2> QED
    BY <1>4, <2>1, <2>2
<1>8. Queued(j)' /\ \A i \in Job \ {j} : Queued(i)' <=> Queued(i)
  BY <1>3, <1>7 DEF Queued
<1>9. \A i : (Buried(i)' <=> Buried(i)) /\ (i \in done' <=> i \in done)
  BY <1>5 DEF Buried
<1>10. j \in Job /\ ~ (j \in done \/ Buried(j))
  BY <1>2, StagedAlone DEF ContractInv, VerdictInv, Alone, Settled, Buried
<1>11. ContractInv' /\ \A i \in Job \ {j} : Phase(i)' = Phase(i)
  BY <1>2, <1>5, <1>6, <1>8, <1>9, <1>10, JobStep
<1>12. Phase(j) = "running"
  BY <1>2, PhaseFollows DEF PhaseKnown
<1>13. Phase(j)' = "waiting"
  BY <1>8, <1>10, <1>11, StepPhases DEF PhaseKnown
<1> QED
  BY <1>10, <1>11, <1>12, <1>13 DEF JobMoves

\* Every step is a step of the contract, or none, and keeps the invariant.
Promise == ContractInv' /\ [ContractOf!ContractNext]_(ContractOf!contractVars)

LEMMA StayKept ==
  ASSUME ContractInv', JobsStay, ran' = ran
  PROVE  Promise
BY StayOfContract DEF Promise

LEMMA QuietKept ==
  ASSUME ContractInv, CopyInv', NEW w \in Worker,
         \/ PromoteRange(w) \/ PromoteTime(w) \/ PopTimeout(w) \/ PopTime(w)
         \/ Reserve(w) \/ DeadTime(w) \/ AckReserved(w) \/ AckTime(w) \/ ReleaseTime(w)
  PROVE  Promise
<1>1. UNCHANGED <<list, delayed, done, failed, push_pc, ran>> /\ SameNew
  BY DEF PromoteRange, PromoteTime, PopTimeout, PopTime, Reserve, DeadTime, AckReserved,
         AckTime, ReleaseTime, store, SameNew
<1>2. /\ \A v \in Worker \ {w} : pc'[v] = pc[v] /\ held'[v] = held[v]
      /\ \/ pc[w] \in {"idle", "promote", "promote_time", "push_time", "ack_time", "dead_time", "ack"}
            /\ pc'[w] \in {"idle", "promote", "ack", "ack_time"}
         \/ /\ \/ pc[w] = "popped" /\ pc'[w] = "reserve"
               \/ pc[w] = "reserve" /\ pc'[w] = "claimed"
               \/ pc[w] = "release" /\ pc'[w] = "release_time"
               \/ pc[w] = "release_time" /\ pc'[w] = "push"
            /\ held'[w] = held[w]
  <2>1. pc \in [Worker -> WorkerPc] /\ DOMAIN held = Worker
    BY DEF ContractInv, CopyInv, TypeOK
  <2>2. CASE \/ PromoteRange(w) \/ PromoteTime(w) \/ PopTimeout(w) \/ DeadTime(w) \/ ReleaseTime(w)
    BY <2>1, <2>2 DEF PromoteRange, PromoteTime, PopTimeout, DeadTime, ReleaseTime
  <2>3. CASE PopTime(w) \/ Reserve(w)
    BY <2>1, <2>3 DEF PopTime, Reserve
  <2>4. CASE AckReserved(w)
    BY <2>1, <2>4 DEF AckReserved
  <2>5. CASE AckTime(w)
    BY <2>1, <2>5 DEF AckTime
  <2> QED
    BY <2>2, <2>3, <2>4, <2>5
<1>3. Stage(pc'[w]) = Stage(pc[w]) /\ (Stage(pc[w]) # "none" => held'[w] = held[w])
  BY <1>2 DEF Stage
<1>4. ContractInv' /\ JobsStay
  BY <1>1, <1>2, <1>3, QuietStep
<1> QED
  BY <1>1, <1>4, StayKept

\* The handler starts on a claim, and ends with a verdict or a retry.
LEMMA RunKept ==
  ASSUME ContractInv, CopyInv', NEW w \in Worker,
         StartRun(w) \/ FinishRun(w) \/ DeadLetter(w)
  PROVE  Promise
<1>0. pc \in [Worker -> WorkerPc] /\ held \in [Worker -> Payload \cup {None}]
  BY DEF ContractInv, CopyInv, TypeOK
<1>1. PICK j : j = held[w].job
  OBVIOUS
<1>2. CASE StartRun(w)
  <2>1. /\ UNCHANGED <<list, delayed, push_pc, done, failed, held>>
        /\ pc[w] = "claimed" /\ pc'[w] = "running" /\ ran' = [ran EXCEPT ![j] = @ + 1]
        /\ \A v \in Worker \ {w} : pc'[v] = pc[v]
    BY <1>0, <1>1, <1>2 DEF StartRun, store
  <2>2. Stage(pc[w]) = "claimed" /\ Stage(pc'[w]) = "running"
    BY <2>1 DEF Stage
  <2>3. ContractInv' /\ JobMoves(j, "claimed", "running")
    BY <1>1, <2>1, <2>2, StageMoves
  <2>4. ContractOf!Start(j) /\ j \in Job
    BY <2>1, <2>3, MoveOfContract DEF ContractOf!Start, JobMoves
  <2> QED
    BY <2>3, <2>4 DEF Promise, ContractOf!ContractNext
<1>3. CASE FinishRun(w)
  <2>1. PICK arm \in {"ack", "release", "dead_letter"} :
          /\ pc' = [pc EXCEPT ![w] = arm]
          /\ done' = IF arm = "ack" THEN done \cup {j} ELSE done
    BY <1>1, <1>3, FinishArm
  <2>2. /\ UNCHANGED <<list, delayed, push_pc, failed, held, ran>>
        /\ pc[w] = "running" /\ pc'[w] = arm
        /\ \A v \in Worker \ {w} : pc'[v] = pc[v]
    BY <1>0, <1>3, <2>1 DEF FinishRun, store
  <2>3. Stage(pc[w]) = "running"
    BY <2>2 DEF Stage
  <2>4. CASE arm = "ack"
    <3>1. /\ Stage(pc'[w]) = "none" /\ j \in done'
          /\ \A i \in Job \ {j} : (Buried(i)' <=> Buried(i)) /\ (i \in done' <=> i \in done)
      BY <2>1, <2>2, <2>4 DEF Stage, Buried
    <3>2. ContractInv' /\ JobMoves(j, "running", "done")
      BY <1>1, <2>2, <2>3, <3>1, LeaveMoves
    <3>3. ContractOf!Succeed(j) /\ j \in Job
      BY <2>2, <3>2, MoveOfContract DEF ContractOf!Succeed, JobMoves
    <3> QED
      BY <3>2, <3>3 DEF Promise, ContractOf!ContractNext
  <2>5. CASE arm = "release"
    <3>1. Stage(pc'[w]) = "running" /\ done' = done
      BY <2>1, <2>2, <2>5 DEF Stage
    <3>2. ContractInv' /\ JobMoves(j, "running", "running")
      BY <1>1, <2>2, <2>3, <3>1, StageMoves
    <3>3. JobsStay
      BY <3>2 DEF JobMoves, JobsStay
    <3> QED
      BY <2>2, <3>2, <3>3, StayKept
  <2>6. CASE arm = "dead_letter"
    <3>1. Stage(pc'[w]) = "failing" /\ done' = done
      BY <2>1, <2>2, <2>6 DEF Stage
    <3>2. ContractInv' /\ JobMoves(j, "running", "failing")
      BY <1>1, <2>2, <2>3, <3>1, StageMoves
    <3>3. ContractOf!Fail(j) /\ j \in Job
      BY <2>2, <3>2, MoveOfContract DEF ContractOf!Fail, JobMoves
    <3> QED
      BY <3>2, <3>3 DEF Promise, ContractOf!ContractNext
  <2> QED
    BY <2>4, <2>5, <2>6
<1>4. CASE DeadLetter(w)
  <2>1. /\ UNCHANGED <<list, delayed, push_pc, done, held, ran>>
        /\ failed' = failed \cup {<<j, held[w].attempts>>}
        /\ pc[w] = "dead_letter" /\ pc'[w] = "dead_time"
        /\ \A v \in Worker \ {w} : pc'[v] = pc[v]
    BY <1>0, <1>1, <1>4 DEF DeadLetter, Id
  <2>2. Stage(pc[w]) = "failing" /\ Stage(pc'[w]) = "none"
    BY <2>1 DEF Stage
  <2>3. Buried(j)' /\ \A i \in Job \ {j} : Buried(i)' <=> Buried(i)
    <3>1. <<j, held[w].attempts>>[1] = j
      OBVIOUS
    <3> QED
      BY <2>1, <3>1 DEF Buried
  <2>4. j \notin done'
    BY <1>1, <2>1, <2>2 DEF ContractInv, VerdictInv, Settled
  <2>5. ContractInv' /\ JobMoves(j, "failing", "buried")
    BY <1>1, <2>1, <2>2, <2>3, <2>4, LeaveMoves
  <2>6. ContractOf!Bury(j) /\ j \in Job
    BY <2>1, <2>5, MoveOfContract DEF ContractOf!Bury, JobMoves
  <2> QED
    BY <2>5, <2>6 DEF Promise, ContractOf!ContractNext
<1> QED
  BY <1>2, <1>3, <1>4

\* A worker that dies abandons the job it had in some stage, and no other.
LEMMA DeathKept ==
  ASSUME ContractInv, CopyInv', NEW w \in Worker, WorkerDies(w)
  PROVE  Promise
<1>1. /\ UNCHANGED <<list, delayed, push_pc, done, failed, ran>> /\ pc'[w] = "idle"
      /\ \A v \in Worker \ {w} : pc'[v] = pc[v] /\ held'[v] = held[v]
      /\ Losable = {"waiting", "claimed", "running", "failing"} /\ SameNew
  BY DEF WorkerDies, store, ContractInv, CopyInv, TypeOK, Losable, SameNew
<1>2. Stage(pc'[w]) = "none"
  BY <1>1 DEF Stage
<1>3. CASE Stage(pc[w]) = "none"
  <2>1. ContractInv' /\ JobsStay
    BY <1>1, <1>2, <1>3, QuietStep
  <2> QED
    BY <1>1, <2>1, StayKept
<1>4. CASE Stage(pc[w]) # "none"
  <2>1. PICK j : j = held[w].job
    OBVIOUS
  <2>2. PICK s \in Losable : Stage(pc[w]) = s
    BY <1>1, <1>4 DEF Stage
  <2>3. /\ \A i : (Buried(i)' <=> Buried(i)) /\ (i \in done' <=> i \in done)
        /\ ~ (j \in done \/ Buried(j))
    BY <1>1, <1>4, <2>1 DEF Buried, Settled, ContractInv, VerdictInv
  <2>4. ContractInv' /\ JobMoves(j, s, "abandoned")
    BY <1>1, <1>2, <1>4, <2>1, <2>2, <2>3, LeaveMoves
  <2>5. ContractOf!Abandon(j) /\ j \in Job
    BY <1>1, <2>4, MoveOfContract DEF ContractOf!Abandon, JobMoves
  <2> QED
    BY <2>4, <2>5 DEF Promise, ContractOf!ContractNext
<1> QED
  BY <1>3, <1>4

LEMMA ContractStep ==
  ASSUME ContractInv, [Next]_vars
  PROVE  Promise
<1>0. CopyInv'
  BY CopyStep DEF ContractInv
<1>1. ASSUME NEW j \in Job, Dispatch(j) PROVE Promise
  <2>1. ContractInv' /\ JobMoves(j, "absent", "waiting")
    BY <1>0, <1>1, DispatchMoves
  <2>2. ContractOf!Push(j)
    BY <1>1, <2>1, MoveOfContract DEF ContractOf!Push, Dispatch
  <2> QED
    BY <2>1, <2>2 DEF Promise, ContractOf!ContractNext
<1>2. ASSUME NEW j \in Job, DispatchTime(j) \/ DispatchDies(j) PROVE Promise
  <2>1. UNCHANGED <<list, delayed, done, failed, pc, held, ran>> /\ SameNew
    BY <1>2 DEF DispatchTime, DispatchDies, store, workers, SameNew, ContractInv, CopyInv, TypeOK
  <2> QED
    BY <1>0, <2>1, StillStep, StayKept
<1>3. ASSUME UNCHANGED <<list, delayed, done, failed, pc, held, ran, push_pc>> PROVE Promise
  BY <1>0, <1>3, StillStep, StayKept DEF SameNew
<1>4. ASSUME NEW w \in Worker, PromoteRemove(w) PROVE Promise
  BY <1>0, <1>4, PromoteStays, StayKept DEF PromoteRemove
<1>5. ASSUME NEW w \in Worker, PromotePush(w) PROVE Promise
  BY <1>0, <1>5, PromotedStays, StayKept DEF PromotePush
<1>6. ASSUME NEW w \in Worker, BrPop(w) PROVE Promise
  <2>1. ContractInv' /\ \E j \in Job : JobMoves(j, "waiting", "claimed")
    BY <1>0, <1>6, PopMoves
  <2>2. PICK j \in Job : JobMoves(j, "waiting", "claimed")
    BY <2>1
  <2>3. ContractOf!Claim(j)
    BY <1>6, <2>2, MoveOfContract DEF ContractOf!Claim, BrPop
  <2> QED
    BY <2>1, <2>3 DEF Promise, ContractOf!ContractNext
<1>7. ASSUME NEW w \in Worker, ReleasePush(w) PROVE Promise
  <2>1. PICK j : j = held[w].job
    OBVIOUS
  <2>2. ContractInv' /\ JobMoves(j, "running", "waiting")
    BY <1>0, <1>7, <2>1, ReleaseMoves
  <2>3. ContractOf!Retry(j) /\ j \in Job
    BY <1>7, <2>2, MoveOfContract DEF ContractOf!Retry, JobMoves, ReleasePush
  <2> QED
    BY <2>2, <2>3 DEF Promise, ContractOf!ContractNext
<1>8. ASSUME NEW w \in Worker, WorkerStep(w) \/ WorkerDies(w) PROVE Promise
  BY <1>0, <1>4, <1>5, <1>6, <1>7, <1>8, QuietKept, RunKept, DeathKept DEF WorkerStep
<1> QED
  BY <1>1, <1>2, <1>3, <1>8 DEF Next, Tick, vars, store, workers

\* The Redis driver (driver/redis.rs under driver/worker.rs) keeps the promise
\* of a queue driver for any number of jobs and workers, wherever they die.  It
\* promises less than the database driver in one point: a job that waits is lost
\* when a worker dies between the ZREM and the LPUSH of promote_due.
THEOREM DriverKeepsContract == Spec => ImplementsContract
<1>1. Init => ContractInv /\ ContractOf!ContractInit
  <2>1. ASSUME Init PROVE VerdictInv /\ ContractOf!ContractInit
    BY <2>1 DEF Init, VerdictInv, Settled, Stage, Listed, Phase, ContractOf!ContractInit
  <2> QED
    BY <2>1, CopyInit DEF ContractInv
<1>2. ContractInv /\ [Next]_vars
        => ContractInv' /\ [ContractOf!ContractNext]_(ContractOf!contractVars)
  BY ContractStep DEF Promise
<1> QED
  BY <1>1, <1>2, PTL DEF Spec, ImplementsContract, ContractOf!Contract

=============================================================================
