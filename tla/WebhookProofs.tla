--------------------------- MODULE WebhookProofs ---------------------------
(***************************************************************************)
(* WebhookDelivery for any deliveries, jobs and calls: what the rows say   *)
(* of the requests sent, the bound on requests, the threshold that         *)
(* disables a webhook, and that no delivery is left PENDING with nobody to *)
(* serve it unless a step was lost.                                        *)
(*                                                                         *)
(* The invariants are not inductive.  A bound on the requests of a         *)
(* delivery needs those of each of its jobs, a count of failures that      *)
(* stale copies write back needs the jobs that may have been counted, and  *)
(* a PENDING delivery needs a job that has yet to record what came of it,  *)
(* not merely one that is not over: WebhookStrong says so.                 *)
(***************************************************************************)
EXTENDS WebhookDelivery, FiniteSetTheorems, TLAPS

JobStages == {"free", "waiting", "answered", "unanswered", "delivered", "completed", "failed",
              "exhausted", "save", "update", "insert"}
CallStages == {"idle", "store", "add", "save", "update", "insert", "done"}
Hooks == [enabled : BOOLEAN, disabled : BOOLEAN, failures : Nat]
JobRecords == [of : Deliveries \union {0}, pc : JobStages, made : 0 .. MaxRetries + 1, stalled : BOOLEAN,
               seen : Hooks, changes : SUBSET DOMAIN Live]
CallRecords == [kind : {"none", "dispatch", "retry", "edit"}, of : Deliveries \union {0}, pc : CallStages,
                seen : Hooks, changes : SUBSET DOMAIN Live]

\* The stages of a job that has yet to record what came of its attempt.
Recording == {"waiting", "answered", "unanswered"}

\* The stages at which a job has sent the request of its present attempt.
Sending == {"answered", "unanswered", "delivered", "completed", "exhausted", "save", "update", "insert"}

\* A job has sent a request for each attempt that failed and for the present
\* one, and one more if it was stalled; a job that failed may have sent fewer.
Requests(k) ==
  (CASE k.pc \in {"free", "waiting"} -> k.made [] k.pc = "failed" -> MaxRetries + 1 [] OTHER -> k.made + 1)
    + (IF k.stalled THEN 1 ELSE 0)

\* A place for each request that the jobs of delivery d have sent.
Places(d) == {p \in JobsOf(d) \X (1 .. MaxRetries + 2) : p[2] <= Requests(job[p[1]])}

\* The jobs that have recorded a final failure and are over: those whose
\* failure may have been counted on the webhook.
Spent == {j \in exhausted : job[j].pc = "failed"}

\* A copy of the webhook counts at most n failures, and is disabled only after
\* x jobs, DisableAfter or more, have failed for good.
CopyFits(h, n, x) == h \in Hooks /\ h.failures <= n /\ (h.disabled => DisableAfter <= x)

\* What job j, at k, has done is among the requests s, the answers a and the
\* final failures x, with attempts numbered from f.
JobFits(j, k, s, a, x, f) ==
  /\ k.pc # "free" => k.of \in Deliveries
  /\ k.pc # "failed" => k.made <= MaxRetries
  /\ k.of \in Deliveries => k.made + (IF k.pc \in Sending THEN 1 ELSE 0) <= s[k.of]
  /\ k.pc \in {"answered", "delivered"} => k.of \in a
  /\ k.pc \in {"exhausted", "save", "update", "insert"} => j \in x /\ k.made + f > MaxRetries

Typed ==
  /\ status \in [Deliveries -> Statuses] /\ sent \in [Deliveries -> Nat] /\ firstAttempt \in {0, 1}
  /\ job \in [Jobs -> JobRecords] /\ call \in [Calls -> CallRecords]
  /\ \A c \in Calls : call[c].pc \in {"store", "add"} => call[c].of \in Deliveries
  /\ IsFiniteSet(exhausted) /\ exhausted \subseteq Jobs

JobsFit == \A j \in Jobs : JobFits(j, job[j], sent, answered, exhausted, firstAttempt)

RequestsPlaced == \A d \in Deliveries : IsFiniteSet(JobsOf(d)) /\ sent[d] <= Cardinality(Places(d))

CopiesFit ==
  /\ hook # Removed => CopyFits(hook, Cardinality(Spent), Cardinality(exhausted))
  /\ \A c \in Calls : CopyFits(call[c].seen, Cardinality(Spent), Cardinality(exhausted))
  /\ \A j \in Jobs : job[j].pc \in {"save", "update", "insert"} =>
       CopyFits(job[j].seen, Cardinality(Spent) + 1, Cardinality(exhausted))

\* A PENDING delivery has a job that has yet to record what came of it, or a
\* call that is about to add one, or a step of either was lost.
PendingServed ==
  \A d \in Deliveries : status[d] = "PENDING" =>
    \/ \E j \in JobsOf(d) : job[j].pc \in Recording
    \/ \E c \in Calls : call[c].pc = "add" /\ call[c].of = d
    \/ d \in orphans

WebhookStrong ==
  /\ Typed /\ JobsFit /\ RequestsPlaced /\ CopiesFit
  /\ DeliveredWasAnswered /\ DeadLetterIsExhausted /\ PendingServed

-----------------------------------------------------------------------------
(* Records, copies and jobs by themselves.                                 *)

LEMMA Blank ==
  /\ Live \in Hooks /\ Live.failures = 0 /\ ~Live.disabled /\ DOMAIN Live = {"enabled", "disabled", "failures"}
  /\ Free \in JobRecords /\ Free.pc = "free" /\ Free.of = 0 /\ Free.made = 0 /\ ~Free.stalled
  /\ Idle \in CallRecords /\ Idle.pc = "idle" /\ Idle.seen = Live /\ Idle.of = 0
  /\ Done \in CallRecords /\ Done.pc = "done" /\ Done.seen = Live /\ Done.of = 0
<1>1. Live \in Hooks /\ Live.failures = 0 /\ ~Live.disabled /\ DOMAIN Live = {"enabled", "disabled", "failures"}
  BY DEF Live, Hooks
<1>2. Free \in JobRecords /\ Free.pc = "free" /\ Free.of = 0 /\ Free.made = 0 /\ ~Free.stalled
  BY <1>1, WebhookAssumption DEF Free, JobRecords, JobStages
<1>3. Idle \in CallRecords /\ Idle.pc = "idle" /\ Idle.seen = Live /\ Idle.of = 0
  BY <1>1 DEF Idle, CallRecords, CallStages
<1>4. Done \in CallRecords /\ Done.pc = "done" /\ Done.seen = Live /\ Done.of = 0
  BY <1>3 DEF Done, CallRecords, CallStages
<1> QED
  BY <1>1, <1>2, <1>3, <1>4

\* More failures allow what fewer do.
LEMMA CopyGrows ==
  ASSUME NEW n \in Nat, NEW x \in Nat, NEW m \in Nat, NEW y \in Nat, n <= m, x <= y,
         NEW h, CopyFits(h, n, x)
  PROVE  CopyFits(h, m, y)
BY WebhookAssumption DEF CopyFits, Hooks

LEMMA BlankFits ==
  ASSUME NEW n \in Nat, NEW x \in Nat
  PROVE  CopyFits(Live, n, x)
BY Blank DEF CopyFits

\* What save makes of a row and an entity that fit does so too: each column is
\* of one of them.
LEMMA MergeFits ==
  ASSUME NEW n \in Nat, NEW x \in Nat, NEW e, NEW r, NEW fields,
         CopyFits(e, n, x), r # Removed => CopyFits(r, n, x), Merge(e, fields, r) # Removed
  PROVE  CopyFits(Merge(e, fields, r), n, x)
<1>1. CASE r = Removed
  BY <1>1 DEF Merge
<1>2. CASE r # Removed
  <2> DEFINE q == Merge(e, fields, r)
  <2>1. q = [f \in {"enabled", "disabled", "failures"} |-> IF f \in fields THEN e[f] ELSE r[f]]
    BY <1>2, Blank DEF Merge
  <2>2. e \in Hooks /\ r \in Hooks
    BY <1>2 DEF CopyFits
  <2>3. /\ q.enabled \in {e.enabled, r.enabled} /\ q.disabled \in {e.disabled, r.disabled}
        /\ q.failures \in {e.failures, r.failures}
        /\ q = [f \in {"enabled", "disabled", "failures"} |-> q[f]]
    BY <2>1
  <2>0. q = Merge(e, fields, r)
    OBVIOUS
  <2> HIDE DEF q
  <2>4. q \in Hooks
    BY <2>2, <2>3 DEF Hooks
  <2>5. CopyFits(q, n, x)
    BY <1>2, <2>3, <2>4 DEF CopyFits
  <2> QED
    BY <2>0, <2>5
<1> QED
  BY <1>1, <1>2

\* What a job has done stays recorded.
LEMMA FitGrows ==
  ASSUME NEW i \in Jobs, NEW k \in JobRecords, NEW s \in [Deliveries -> Nat], NEW t \in [Deliveries -> Nat],
         NEW a, NEW b, NEW x, NEW y, NEW f,
         \A d \in Deliveries : s[d] <= t[d], a \subseteq b, x \subseteq y, JobFits(i, k, s, a, x, f)
  PROVE  JobFits(i, k, t, b, y, f)
<1>1. k.made \in Nat
  BY WebhookAssumption DEF JobRecords
<1>2. k.of \in Deliveries => k.made + (IF k.pc \in Sending THEN 1 ELSE 0) <= t[k.of]
  <2> SUFFICES ASSUME k.of \in Deliveries PROVE k.made + (IF k.pc \in Sending THEN 1 ELSE 0) <= t[k.of]
    OBVIOUS
  <2>1. s[k.of] \in Nat /\ t[k.of] \in Nat /\ s[k.of] <= t[k.of]
    OBVIOUS
  <2>2. k.made + (IF k.pc \in Sending THEN 1 ELSE 0) <= s[k.of]
    BY DEF JobFits
  <2> QED
    BY <1>1, <2>1, <2>2
<1> QED
  BY <1>2 DEF JobFits

\* The number of requests of a job is a natural number, and bounded.
LEMMA RequestsAre ==
  ASSUME NEW k \in JobRecords, k.pc # "failed" => k.made <= MaxRetries
  PROVE  /\ Requests(k) \in Nat /\ Requests(k) <= MaxRetries + 2
         /\ ~k.stalled => Requests(k) <= MaxRetries + 1
<1>1. k.made \in Nat /\ MaxRetries \in Nat /\ k.stalled \in BOOLEAN
  BY WebhookAssumption DEF JobRecords
<1>2. CASE k.pc \in {"free", "waiting"}
  BY <1>1, <1>2 DEF Requests
<1>3. CASE k.pc = "failed"
  BY <1>1, <1>3 DEF Requests
<1>4. CASE k.pc \notin {"free", "waiting", "failed"}
  BY <1>1, <1>4 DEF Requests
<1> QED
  BY <1>2, <1>3, <1>4

\* The record that RetryOrFail leaves of a job.
LEMMA RetriedRecord ==
  ASSUME Typed, NEW j \in Jobs, job[j].made <= MaxRetries
  PROVE  \E k \in JobRecords :
           /\ RetryOrFail(j) = [job EXCEPT ![j] = k]
           /\ k.of = job[j].of /\ k.made = job[j].made + 1 /\ k.stalled = job[j].stalled
           /\ k.seen = Live /\ k.changes = {}
           /\ k.pc = IF job[j].made < MaxRetries THEN "waiting" ELSE "failed"
<1> DEFINE k == [job[j] EXCEPT !.made = @ + 1, !.seen = Live, !.changes = {},
                               !.pc = IF job[j].made < MaxRetries THEN "waiting" ELSE "failed"]
<1>1. job[j] \in JobRecords /\ job \in [Jobs -> JobRecords]
  BY DEF Typed
<1>2. job[j].made + 1 \in 0 .. MaxRetries + 1
  BY <1>1, WebhookAssumption DEF JobRecords
<1>3. k \in JobRecords
  BY <1>1, <1>2, Blank DEF JobRecords, JobStages
<1>4. /\ k.of = job[j].of /\ k.made = job[j].made + 1 /\ k.stalled = job[j].stalled
      /\ k.seen = Live /\ k.changes = {}
      /\ k.pc = IF job[j].made < MaxRetries THEN "waiting" ELSE "failed"
  BY <1>1 DEF JobRecords
<1>5. RetryOrFail(j) = [job EXCEPT ![j] = k]
  BY <1>1 DEF RetryOrFail
<1> HIDE DEF k
<1> QED
  BY <1>3, <1>4, <1>5

LEMMA Replaced ==
  ASSUME NEW j \in Jobs, NEW k \in JobRecords, job \in [Jobs -> JobRecords], job' = [job EXCEPT ![j] = k]
  PROVE  job' \in [Jobs -> JobRecords] /\ \A i \in Jobs : job'[i] = IF i = j THEN k ELSE job[i]
OBVIOUS

LEMMA SpentCounted ==
  ASSUME IsFiniteSet(exhausted)
  PROVE  /\ IsFiniteSet(Spent) /\ Cardinality(Spent) \in Nat /\ Cardinality(exhausted) \in Nat
         /\ Cardinality(Spent) <= Cardinality(exhausted)
<1>1. Spent \in SUBSET exhausted
  BY DEF Spent
<1>2. IsFiniteSet(Spent) /\ Cardinality(Spent) <= Cardinality(exhausted)
  BY <1>1, FS_Subset
<1> QED
  BY <1>2, FS_CardinalityType

-----------------------------------------------------------------------------
(* The places of the requests.                                             *)

LEMMA PlacesFinite ==
  ASSUME NEW d \in Deliveries, IsFiniteSet(JobsOf(d))
  PROVE  /\ IsFiniteSet(Places(d)) /\ Cardinality(Places(d)) \in Nat
         /\ IsFiniteSet(JobsOf(d) \X (1 .. MaxRetries + 2))
<1>1. IsFiniteSet(1 .. MaxRetries + 2)
  BY FS_Interval, WebhookAssumption
<1>2. IsFiniteSet(JobsOf(d) \X (1 .. MaxRetries + 2))
  BY <1>1, FS_Product
<1>3. Places(d) \in SUBSET (JobsOf(d) \X (1 .. MaxRetries + 2))
  BY DEF Places
<1>4. IsFiniteSet(Places(d))
  BY <1>2, <1>3, FS_Subset
<1> QED
  BY <1>2, <1>4, FS_CardinalityType

\* A job steps on without a request: its places stay.
LEMMA PlacesStay ==
  ASSUME Typed, RequestsPlaced, NEW j \in Jobs, NEW k \in JobRecords, job' = [job EXCEPT ![j] = k],
         k.of = job[j].of, Requests(job[j]) <= Requests(k), Requests(job[j]) \in Nat, Requests(k) \in Nat,
         sent' = sent
  PROVE  RequestsPlaced'
<1>1. \A i \in Jobs : job'[i] = IF i = j THEN k ELSE job[i]
  BY Replaced DEF Typed
<1> SUFFICES ASSUME NEW d \in Deliveries
             PROVE  IsFiniteSet(JobsOf(d)') /\ sent'[d] <= Cardinality(Places(d)')
  BY DEF RequestsPlaced
<1>2. JobsOf(d)' = JobsOf(d)
  BY <1>1 DEF JobsOf
<1>3. IsFiniteSet(JobsOf(d)) /\ sent[d] <= Cardinality(Places(d)) /\ sent[d] \in Nat
  BY DEF RequestsPlaced, Typed
<1>4. Places(d)' = {p \in JobsOf(d) \X (1 .. MaxRetries + 2) : p[2] <= Requests(job'[p[1]])}
  BY <1>2 DEF Places, Requests
<1>5. Places(d) \subseteq Places(d)'
  <2> SUFFICES ASSUME NEW p \in Places(d) PROVE p \in Places(d)'
    OBVIOUS
  <2>1. p \in JobsOf(d) \X (1 .. MaxRetries + 2) /\ p[2] <= Requests(job[p[1]])
    BY DEF Places
  <2>2. p[1] \in Jobs /\ p[2] \in 1 .. MaxRetries + 2
    BY <2>1 DEF JobsOf
  <2>3. p[2] <= Requests(job'[p[1]])
    <3>1. CASE p[1] = j
      <4>1. job'[p[1]] = k /\ p[2] <= Requests(job[j])
        BY <1>1, <2>1, <2>2, <3>1
      <4>2. p[2] \in Int
        BY <2>2, WebhookAssumption
      <4> QED
        BY <4>1, <4>2
    <3>2. CASE p[1] # j
      BY <1>1, <2>1, <2>2, <3>2
    <3> QED
      BY <3>1, <3>2
  <2> QED
    BY <1>4, <2>1, <2>3
<1>6. IsFiniteSet(Places(d)') /\ Cardinality(Places(d)') \in Nat
  <2>1. Places(d)' \in SUBSET (JobsOf(d) \X (1 .. MaxRetries + 2))
    BY <1>4
  <2>2. IsFiniteSet(Places(d)')
    BY <1>3, <2>1, PlacesFinite, FS_Subset
  <2> QED
    BY <2>2, FS_CardinalityType
<1>7. Cardinality(Places(d)) <= Cardinality(Places(d)') /\ Cardinality(Places(d)) \in Nat
  BY <1>3, <1>5, <1>6, PlacesFinite, FS_Subset
<1> QED
  BY <1>2, <1>3, <1>6, <1>7

\* A job sends a request: a place more, and a request more.
LEMMA PlaceAdded ==
  ASSUME Typed, RequestsPlaced, NEW j \in Jobs, NEW k \in JobRecords, job' = [job EXCEPT ![j] = k],
         k.of = job[j].of, job[j].of \in Deliveries, Requests(job[j]) \in Nat,
         Requests(k) = Requests(job[j]) + 1, Requests(k) <= MaxRetries + 2,
         sent' = [sent EXCEPT ![job[j].of] = @ + 1]
  PROVE  RequestsPlaced'
<1>1. \A i \in Jobs : job'[i] = IF i = j THEN k ELSE job[i]
  BY Replaced DEF Typed
<1> SUFFICES ASSUME NEW d \in Deliveries
             PROVE  IsFiniteSet(JobsOf(d)') /\ sent'[d] <= Cardinality(Places(d)')
  BY DEF RequestsPlaced
<1>2. JobsOf(d)' = JobsOf(d)
  BY <1>1 DEF JobsOf
<1>3. IsFiniteSet(JobsOf(d)) /\ sent[d] <= Cardinality(Places(d)) /\ sent[d] \in Nat
  BY DEF RequestsPlaced, Typed
<1>4. Places(d)' = {p \in JobsOf(d) \X (1 .. MaxRetries + 2) : p[2] <= Requests(job'[p[1]])}
  BY <1>2 DEF Places, Requests
<1>5. IsFiniteSet(Places(d)) /\ Cardinality(Places(d)) \in Nat
  BY <1>3, PlacesFinite
<1>6. MaxRetries \in Nat
  BY WebhookAssumption
<1>7. CASE d # job[j].of
  <2>1. Places(d)' = Places(d)
    <3>1. \A p \in JobsOf(d) \X (1 .. MaxRetries + 2) : p[1] \in Jobs /\ p[1] # j
      BY <1>7 DEF JobsOf
    <3>2. \A p \in JobsOf(d) \X (1 .. MaxRetries + 2) : job'[p[1]] = job[p[1]]
      BY <1>1, <3>1
    <3> QED
      BY <1>4, <3>2 DEF Places
  <2>2. sent'[d] = sent[d]
    BY <1>7 DEF Typed
  <2> QED
    BY <1>2, <1>3, <2>1, <2>2
<1>8. CASE d = job[j].of
  <2> DEFINE new == <<j, Requests(k)>>
  <2>1. new \notin Places(d)
    BY <1>6 DEF Places
  <2>2. Places(d)' = Places(d) \cup {new}
    <3>1. new \in Places(d)'
      BY <1>1, <1>2, <1>4, <1>6, <1>8 DEF JobsOf
    <3>2. ASSUME NEW p \in JobsOf(d) \X (1 .. MaxRetries + 2), p # new
          PROVE  p \in Places(d)' <=> p \in Places(d)
      <4>1. p[1] \in Jobs /\ p[2] \in Int /\ p = <<p[1], p[2]>>
        BY <1>6 DEF JobsOf
      <4>2. CASE p[1] = j
        <5>1. job'[p[1]] = k /\ p[2] # Requests(k)
          BY <1>1, <3>2, <4>1, <4>2
        <5>2. p[2] <= Requests(k) <=> p[2] <= Requests(job[p[1]])
          BY <4>1, <4>2, <5>1
        <5> QED
          BY <1>4, <5>1, <5>2 DEF Places
      <4>3. CASE p[1] # j
        <5>1. job'[p[1]] = job[p[1]]
          BY <1>1, <4>1, <4>3
        <5> QED
          BY <1>4, <5>1 DEF Places
      <4> QED
        BY <4>2, <4>3
    <3>3. \A p \in Places(d)' : p \in JobsOf(d) \X (1 .. MaxRetries + 2)
      BY <1>4
    <3>4. \A p \in Places(d) : p \in JobsOf(d) \X (1 .. MaxRetries + 2)
      BY DEF Places
    <3> HIDE DEF new
    <3> QED
      BY <2>1, <3>1, <3>2, <3>3, <3>4
  <2> HIDE DEF new
  <2>3. Cardinality(Places(d)') = Cardinality(Places(d)) + 1
    BY <1>5, <2>1, <2>2, FS_AddElement
  <2>4. sent'[d] = sent[d] + 1
    BY <1>8 DEF Typed
  <2> QED
    BY <1>2, <1>3, <1>5, <2>3, <2>4
<1> QED
  BY <1>7, <1>8

\* The places of a delivery are at most maxRetries + 1 for each of its jobs, and
\* one more for each that was stalled.
LEMMA PlacesBounded ==
  ASSUME Typed, JobsFit, RequestsPlaced
  PROVE  RequestsBounded
<1> SUFFICES ASSUME NEW d \in Deliveries
             PROVE  sent[d] <= (MaxRetries + 1) * Cardinality(JobsOf(d)) + Cardinality({j \in JobsOf(d) : job[j].stalled})
  BY DEF RequestsBounded, Granted
<1> DEFINE T == {j \in JobsOf(d) : job[j].stalled}
           U == JobsOf(d) \X (1 .. MaxRetries + 1)
           V == T \X {MaxRetries + 2}
<1>1. IsFiniteSet(JobsOf(d)) /\ sent[d] <= Cardinality(Places(d)) /\ sent[d] \in Nat /\ MaxRetries \in Nat
  BY WebhookAssumption DEF RequestsPlaced, Typed
<1>2. T \in SUBSET JobsOf(d)
  OBVIOUS
<1>3. IsFiniteSet(T)
  BY <1>1, <1>2, FS_Subset
<1>4. Places(d) \subseteq U \cup V
  <2> SUFFICES ASSUME NEW p \in Places(d) PROVE p \in U \cup V
    OBVIOUS
  <2>1. p \in JobsOf(d) \X (1 .. MaxRetries + 2) /\ p[2] <= Requests(job[p[1]])
    BY DEF Places
  <2>2. p[1] \in JobsOf(d) /\ p[1] \in Jobs /\ p[2] \in 1 .. MaxRetries + 2 /\ p = <<p[1], p[2]>>
    BY <2>1 DEF JobsOf
  <2>3. job[p[1]] \in JobRecords /\ (job[p[1]].pc # "failed" => job[p[1]].made <= MaxRetries)
    BY <2>2 DEF Typed, JobsFit, JobFits
  <2>4. /\ Requests(job[p[1]]) \in Nat
        /\ ~job[p[1]].stalled => Requests(job[p[1]]) <= MaxRetries + 1
    BY <2>3, RequestsAre
  <2>5. CASE p[2] \in 1 .. MaxRetries + 1
    BY <2>2, <2>5
  <2>6. CASE p[2] = MaxRetries + 2
    <3>1. job[p[1]].stalled
      BY <1>1, <2>1, <2>3, <2>4, <2>6 DEF JobRecords
    <3> QED
      BY <2>2, <2>6, <3>1
  <2> QED
    BY <1>1, <2>2, <2>5, <2>6
<1>5. IsFiniteSet(1 .. MaxRetries + 1) /\ Cardinality(1 .. MaxRetries + 1) = MaxRetries + 1
  BY <1>1, FS_Interval
<1>6. IsFiniteSet({MaxRetries + 2}) /\ Cardinality({MaxRetries + 2}) = 1
  BY FS_Singleton
<1> HIDE DEF T
<1>7. IsFiniteSet(U) /\ Cardinality(U) = Cardinality(JobsOf(d)) * (MaxRetries + 1)
  BY <1>1, <1>5, FS_Product
<1>8. IsFiniteSet(V) /\ Cardinality(V) = Cardinality(T) * 1
  BY <1>3, <1>6, FS_Product
<1> HIDE DEF U, V
<1>9. IsFiniteSet(U \cup V) /\ Cardinality(U \cup V) = Cardinality(U) + Cardinality(V) - Cardinality(U \cap V)
  BY <1>7, <1>8, FS_Union
<1>10. Cardinality(Places(d)) <= Cardinality(U \cup V)
  BY <1>4, <1>9, FS_Subset
<1>11. Cardinality(U \cap V) \in Nat
  <2>1. U \cap V \in SUBSET U
    OBVIOUS
  <2>2. IsFiniteSet(U \cap V)
    BY <1>7, <2>1, FS_Subset
  <2> QED
    BY <2>2, FS_CardinalityType
<1>12. Cardinality(JobsOf(d)) \in Nat /\ Cardinality(T) \in Nat /\ Cardinality(Places(d)) \in Nat
  BY <1>1, <1>3, PlacesFinite, FS_CardinalityType
<1>13. PICK m \in Nat : m = Cardinality(JobsOf(d)) * (MaxRetries + 1) /\ m = (MaxRetries + 1) * Cardinality(JobsOf(d))
  BY <1>1, <1>12
<1>14. sent[d] <= m + Cardinality(T)
  BY <1>1, <1>7, <1>8, <1>9, <1>10, <1>11, <1>12, <1>13
<1> QED
  BY <1>13, <1>14 DEF T

-----------------------------------------------------------------------------
(* A step of a job, and of a call.                                         *)

\* What the proofs of the steps start from.
LEMMA JobFacts ==
  ASSUME WebhookStrong, NEW j \in Jobs
  PROVE  /\ job[j] \in JobRecords /\ job \in [Jobs -> JobRecords] /\ job[j].made \in Nat /\ MaxRetries \in Nat
         /\ JobFits(j, job[j], sent, answered, exhausted, firstAttempt)
         /\ status \in [Deliveries -> Statuses] /\ sent \in [Deliveries -> Nat] /\ firstAttempt \in {0, 1}
         /\ IsFiniteSet(exhausted) /\ exhausted \subseteq Jobs
         /\ Cardinality(Spent) \in Nat /\ Cardinality(exhausted) \in Nat
         /\ Cardinality(Spent) <= Cardinality(exhausted)
         /\ hook # Removed => CopyFits(hook, Cardinality(Spent), Cardinality(exhausted))
BY SpentCounted, WebhookAssumption DEF WebhookStrong, Typed, JobsFit, CopiesFit, JobRecords

\* Whoever served a PENDING delivery still does after a step of job j, unless
\* j has recorded what came of it or the step is lost.
LEMMA JobLeavesServed ==
  ASSUME WebhookStrong, NEW j \in Jobs, NEW k \in JobRecords, job' = [job EXCEPT ![j] = k], k.of = job[j].of,
         call' = call, orphans \subseteq orphans',
         \A d \in Deliveries : status'[d] = "PENDING" =>
           /\ status[d] = "PENDING"
           /\ d # job[j].of \/ job[j].pc \notin Recording \/ k.pc \in Recording \/ d \in orphans'
  PROVE  PendingServed'
<1>1. \A i \in Jobs : job'[i] = IF i = j THEN k ELSE job[i]
  BY Replaced DEF WebhookStrong, Typed
<1> SUFFICES ASSUME NEW d \in Deliveries, status'[d] = "PENDING"
             PROVE  \/ \E i \in JobsOf(d)' : job'[i].pc \in Recording
                    \/ \E c \in Calls : call'[c].pc = "add" /\ call'[c].of = d
                    \/ d \in orphans'
  BY DEF PendingServed
<1>2. JobsOf(d)' = JobsOf(d)
  BY <1>1 DEF JobsOf
<1>3. \/ \E i \in JobsOf(d) : job[i].pc \in Recording
      \/ \E c \in Calls : call[c].pc = "add" /\ call[c].of = d
      \/ d \in orphans
  BY DEF WebhookStrong, PendingServed
<1>4. ASSUME NEW i \in JobsOf(d), job[i].pc \in Recording
      PROVE  d \in orphans' \/ (i \in JobsOf(d)' /\ job'[i].pc \in Recording)
  <2>1. i \in Jobs /\ job[i].of = d
    BY DEF JobsOf
  <2>2. CASE i = j
    BY <1>1, <1>2, <1>4, <2>1, <2>2
  <2>3. CASE i # j
    BY <1>1, <1>2, <1>4, <2>1, <2>3
  <2> QED
    BY <2>2, <2>3
<1>5. CASE \E i \in JobsOf(d) : job[i].pc \in Recording
  BY <1>4, <1>5
<1>6. CASE (\E c \in Calls : call[c].pc = "add" /\ call[c].of = d) \/ d \in orphans
  BY <1>6
<1> QED
  BY <1>3, <1>5, <1>6

\* A job that is not yet over for good steps on.
LEMMA JobStep ==
  ASSUME WebhookStrong, NEW j \in Jobs, NEW k \in JobRecords, job' = [job EXCEPT ![j] = k],
         UNCHANGED <<call, firstAttempt>>, job[j].pc # "failed",
         sent' \in [Deliveries -> Nat], \A d \in Deliveries : sent[d] <= sent'[d],
         answered \subseteq answered', exhausted' \in {exhausted, exhausted \cup {j}},
         JobFits(j, k, sent', answered', exhausted', firstAttempt),
         k.pc \in {"save", "update", "insert"} => CopyFits(k.seen, Cardinality(Spent) + 1, Cardinality(exhausted)),
         \/ hook' = hook
         \/ hook' # Removed => CopyFits(hook', Cardinality(Spent'), Cardinality(exhausted')),
         status' \in [Deliveries -> Statuses],
         \A d \in Deliveries : status'[d] = "DELIVERED" => status[d] = "DELIVERED" \/ d \in answered',
         \A d \in Deliveries : status'[d] = "DEAD_LETTER" => status[d] = "DEAD_LETTER" \/ sent'[d] > MaxRetries,
         RequestsPlaced', PendingServed'
  PROVE  WebhookStrong'
<1>1. /\ job' \in [Jobs -> JobRecords]
      /\ \A i \in Jobs : job'[i] = IF i = j THEN k ELSE job[i]
  BY JobFacts, Replaced
<1>2. call' = call /\ firstAttempt' = firstAttempt
  OBVIOUS
<1>3. IsFiniteSet(exhausted') /\ exhausted \subseteq exhausted' /\ exhausted' \subseteq Jobs
  BY JobFacts, FS_AddElement
<1>4. /\ Cardinality(exhausted) <= Cardinality(exhausted')
      /\ Cardinality(exhausted) \in Nat /\ Cardinality(exhausted') \in Nat
  <2>1. exhausted \in SUBSET exhausted'
    BY <1>3
  <2> QED
    BY <1>3, <2>1, FS_Subset, FS_CardinalityType
<1>5. Spent' = {i \in exhausted' : job'[i].pc = "failed"} /\ Spent \subseteq Spent'
  BY <1>1, <1>3 DEF Spent
<1>6. /\ Cardinality(Spent) <= Cardinality(Spent')
      /\ Cardinality(Spent) \in Nat /\ Cardinality(Spent') \in Nat
  <2>1. Spent' \in SUBSET exhausted' /\ Spent \in SUBSET Spent'
    BY <1>5
  <2>2. IsFiniteSet(Spent')
    BY <1>3, <2>1, FS_Subset
  <2> QED
    BY <2>1, <2>2, FS_Subset, FS_CardinalityType, JobFacts
<1>7. Typed'
  BY <1>1, <1>2, <1>3 DEF WebhookStrong, Typed
<1>8. JobsFit'
  <2> SUFFICES ASSUME NEW i \in Jobs PROVE JobFits(i, job'[i], sent', answered', exhausted', firstAttempt')
    BY DEF JobsFit
  <2>1. CASE i = j
    BY <1>1, <1>2, <2>1
  <2>2. CASE i # j
    <3>1. /\ job[i] \in JobRecords /\ sent \in [Deliveries -> Nat]
          /\ JobFits(i, job[i], sent, answered, exhausted, firstAttempt)
      BY JobFacts
    <3>2. JobFits(i, job[i], sent', answered', exhausted', firstAttempt)
      BY <1>3, <3>1, FitGrows
    <3> QED
      BY <1>1, <1>2, <2>2, <3>2
  <2> QED
    BY <2>1, <2>2
<1>9. CopiesFit'
  <2>1. hook' # Removed => CopyFits(hook', Cardinality(Spent'), Cardinality(exhausted'))
    BY <1>4, <1>6, JobFacts, CopyGrows
  <2>2. ASSUME NEW c \in Calls PROVE CopyFits(call'[c].seen, Cardinality(Spent'), Cardinality(exhausted'))
    <3>1. CopyFits(call[c].seen, Cardinality(Spent), Cardinality(exhausted))
      BY DEF WebhookStrong, CopiesFit
    <3> QED
      BY <1>2, <1>4, <1>6, <3>1, CopyGrows
  <2>3. ASSUME NEW i \in Jobs, job'[i].pc \in {"save", "update", "insert"}
        PROVE  CopyFits(job'[i].seen, Cardinality(Spent') + 1, Cardinality(exhausted'))
    <3>1. CopyFits(job'[i].seen, Cardinality(Spent) + 1, Cardinality(exhausted))
      BY <1>1, <2>3 DEF WebhookStrong, CopiesFit
    <3>2. /\ Cardinality(Spent) + 1 \in Nat /\ Cardinality(Spent') + 1 \in Nat
          /\ Cardinality(Spent) + 1 <= Cardinality(Spent') + 1
      BY <1>6
    <3> QED
      BY <1>4, <3>1, <3>2, CopyGrows
  <2> QED
    BY <2>1, <2>2, <2>3 DEF CopiesFit
<1>10. DeliveredWasAnswered'
  BY DEF WebhookStrong, DeliveredWasAnswered
<1>11. DeadLetterIsExhausted'
  <2> SUFFICES ASSUME NEW d \in Deliveries, status'[d] = "DEAD_LETTER" PROVE sent'[d] > MaxRetries
    BY DEF DeadLetterIsExhausted
  <2>1. CASE status[d] = "DEAD_LETTER"
    <3>1. sent[d] > MaxRetries /\ sent[d] \in Nat /\ sent'[d] \in Nat /\ sent[d] <= sent'[d] /\ MaxRetries \in Nat
      BY <2>1, JobFacts DEF WebhookStrong, DeadLetterIsExhausted
    <3> QED
      BY <3>1
  <2> QED
    BY <2>1
<1> QED
  BY <1>7, <1>8, <1>9, <1>10, <1>11 DEF WebhookStrong

\* A call steps on: nothing but its copy of the webhook, the webhook and the
\* statuses that are not of an outcome may change.
LEMMA CallStep ==
  ASSUME WebhookStrong, NEW c \in Calls, NEW k \in CallRecords, call' = [call EXCEPT ![c] = k],
         UNCHANGED <<job, firstAttempt, sent, answered, exhausted>>,
         k.pc \in {"store", "add"} => k.of \in Deliveries,
         CopyFits(k.seen, Cardinality(Spent), Cardinality(exhausted)),
         hook' # Removed => CopyFits(hook', Cardinality(Spent), Cardinality(exhausted)),
         status' \in [Deliveries -> Statuses],
         \A d \in Deliveries : status'[d] \in {"DELIVERED", "DEAD_LETTER"} => status'[d] = status[d],
         orphans \subseteq orphans',
         \A d \in Deliveries : status'[d] = "PENDING" =>
           \/ k.pc = "add" /\ k.of = d
           \/ status[d] = "PENDING" /\ (call[c].pc # "add" \/ call[c].of # d \/ d \in orphans')
  PROVE  WebhookStrong'
<1>1. \A b \in Calls : call'[b] = IF b = c THEN k ELSE call[b]
  BY DEF WebhookStrong, Typed
<1>2. job' = job /\ firstAttempt' = firstAttempt /\ sent' = sent /\ answered' = answered /\ exhausted' = exhausted
  OBVIOUS
<1>3. Typed'
  BY <1>1, <1>2 DEF WebhookStrong, Typed
<1>4. JobsFit'
  BY <1>2 DEF WebhookStrong, JobsFit
<1>5. RequestsPlaced'
  BY <1>2 DEF WebhookStrong, RequestsPlaced, Places, JobsOf, Requests
<1>6. Spent' = Spent
  BY <1>2 DEF Spent
<1>7. CopiesFit'
  <2>1. ASSUME NEW b \in Calls PROVE CopyFits(call'[b].seen, Cardinality(Spent), Cardinality(exhausted))
    BY <1>1 DEF WebhookStrong, CopiesFit
  <2>2. ASSUME NEW j \in Jobs, job[j].pc \in {"save", "update", "insert"}
        PROVE  CopyFits(job[j].seen, Cardinality(Spent) + 1, Cardinality(exhausted))
    BY <2>2 DEF WebhookStrong, CopiesFit
  <2> QED
    BY <1>2, <1>6, <2>1, <2>2 DEF CopiesFit
<1>8. DeliveredWasAnswered' /\ DeadLetterIsExhausted'
  BY <1>2 DEF WebhookStrong, DeliveredWasAnswered, DeadLetterIsExhausted
<1>9. PendingServed'
  <2> SUFFICES ASSUME NEW d \in Deliveries, status'[d] = "PENDING"
               PROVE  \/ \E i \in JobsOf(d)' : job'[i].pc \in Recording
                      \/ \E b \in Calls : call'[b].pc = "add" /\ call'[b].of = d
                      \/ d \in orphans'
    BY DEF PendingServed
  <2>1. CASE k.pc = "add" /\ k.of = d
    BY <1>1, <2>1
  <2>2. CASE status[d] = "PENDING" /\ (call[c].pc # "add" \/ call[c].of # d \/ d \in orphans')
    <3>1. \/ \E i \in JobsOf(d) : job[i].pc \in Recording
          \/ \E b \in Calls : call[b].pc = "add" /\ call[b].of = d
          \/ d \in orphans
      BY <2>2 DEF WebhookStrong, PendingServed
    <3>2. JobsOf(d)' = JobsOf(d)
      BY <1>2 DEF JobsOf
    <3>3. ASSUME NEW b \in Calls, call[b].pc = "add" /\ call[b].of = d
          PROVE  d \in orphans' \/ (call'[b].pc = "add" /\ call'[b].of = d)
      BY <1>1, <2>2, <3>3
    <3> QED
      BY <1>2, <3>1, <3>2, <3>3
  <2> QED
    BY <2>1, <2>2
<1> QED
  BY <1>3, <1>4, <1>5, <1>7, <1>8, <1>9 DEF WebhookStrong

LEMMA WebhookStarts == Init => WebhookStrong
<1> SUFFICES ASSUME Init PROVE WebhookStrong
  OBVIOUS
<1>1. /\ hook = Live /\ status = [d \in Deliveries |-> "none"] /\ sent = [d \in Deliveries |-> 0]
      /\ job = [j \in Jobs |-> Free] /\ call = [c \in Calls |-> Idle]
      /\ firstAttempt \in {0, 1} /\ answered = {} /\ exhausted = {}
  BY WebhookAssumption DEF Init
<1>2. 0 \notin Deliveries /\ MaxRetries \in Nat
  BY WebhookAssumption
<1>3. IsFiniteSet({}) /\ Cardinality({}) = 0
  BY FS_EmptySet
<1>4. Typed
  BY <1>1, <1>3, Blank DEF Typed, Statuses
<1>5. JobsFit
  <2>1. ASSUME NEW j \in Jobs PROVE JobFits(j, Free, sent, answered, exhausted, firstAttempt)
    BY <1>2, Blank DEF JobFits
  <2> QED
    BY <1>1, <2>1 DEF JobsFit
<1>6. RequestsPlaced
  <2> SUFFICES ASSUME NEW d \in Deliveries PROVE IsFiniteSet(JobsOf(d)) /\ sent[d] <= Cardinality(Places(d))
    BY DEF RequestsPlaced
  <2>1. JobsOf(d) = {}
    BY <1>1, <1>2, Blank DEF JobsOf
  <2>2. Cardinality(Places(d)) \in Nat
    BY <1>3, <2>1, PlacesFinite
  <2> QED
    BY <1>1, <1>3, <2>1, <2>2
<1>7. CopiesFit
  <2>1. Cardinality(Spent) \in Nat /\ Cardinality(exhausted) \in Nat
    BY <1>1, <1>3, SpentCounted
  <2>2. CopyFits(Live, Cardinality(Spent), Cardinality(exhausted))
    BY <2>1, BlankFits
  <2> QED
    BY <1>1, <2>2, Blank DEF CopiesFit
<1>8. DeliveredWasAnswered /\ DeadLetterIsExhausted /\ PendingServed
  BY <1>1 DEF DeliveredWasAnswered, DeadLetterIsExhausted, PendingServed
<1> QED
  BY <1>4, <1>5, <1>6, <1>7, <1>8 DEF WebhookStrong

-----------------------------------------------------------------------------
(* The worker's steps.                                                     *)

\* A job that moves to stage pc and changes nothing else of itself.
LEMMA MovedRecord ==
  ASSUME WebhookStrong, NEW j \in Jobs, NEW pc \in JobStages \ {"free", "failed"}, JobAt(j, pc),
         job[j].pc \notin {"free", "failed"}
  PROVE  \E k \in JobRecords :
           /\ job' = [job EXCEPT ![j] = k]
           /\ k.of = job[j].of /\ k.made = job[j].made /\ k.stalled = job[j].stalled /\ k.pc = pc
           /\ k.seen = job[j].seen
           /\ Requests(k) = Requests(job[j]) + (IF job[j].pc = "waiting" /\ pc # "waiting" THEN 1 ELSE 0)
              \/ pc = "waiting"
<1> DEFINE k == [job[j] EXCEPT !.pc = pc]
<1>1. job[j] \in JobRecords /\ job \in [Jobs -> JobRecords] /\ job[j].made \in Nat
  BY JobFacts
<1>2. /\ k \in JobRecords /\ k.of = job[j].of /\ k.made = job[j].made /\ k.stalled = job[j].stalled
      /\ k.pc = pc /\ k.seen = job[j].seen
  BY <1>1 DEF JobRecords
<1>3. job' = [job EXCEPT ![j] = k]
  BY <1>1 DEF JobAt
<1> HIDE DEF k
<1>4. Requests(k) = Requests(job[j]) + (IF job[j].pc = "waiting" /\ pc # "waiting" THEN 1 ELSE 0)
      \/ pc = "waiting"
  <2>1. CASE pc = "waiting"
    BY <2>1
  <2>2. CASE pc # "waiting" /\ job[j].pc = "waiting"
    BY <1>1, <1>2, <2>2 DEF Requests, JobStages
  <2>3. CASE pc # "waiting" /\ job[j].pc # "waiting"
    <3>1. Requests(k) = k.made + 1 + (IF k.stalled THEN 1 ELSE 0)
      BY <1>2, <2>3 DEF Requests
    <3>2. Requests(job[j]) = job[j].made + 1 + (IF job[j].stalled THEN 1 ELSE 0)
      BY <2>3 DEF Requests
    <3> QED
      BY <1>1, <1>2, <2>3, <3>1, <3>2
  <2> QED
    BY <2>1, <2>2, <2>3
<1> QED
  BY <1>2, <1>3, <1>4

\* The job whose attempt has failed waits again or has failed; it has sent the
\* request that its next attempt number counts.
LEMMA RetriedFits ==
  ASSUME WebhookStrong, NEW j \in Jobs, job[j].pc \in {"unanswered", "exhausted", "save", "update", "insert"}
  PROVE  \E k \in JobRecords :
           /\ RetryOrFail(j) = [job EXCEPT ![j] = k]
           /\ k.of = job[j].of /\ k.pc \in {"waiting", "failed"}
           /\ Requests(job[j]) \in Nat /\ Requests(k) \in Nat /\ Requests(job[j]) <= Requests(k)
           /\ JobFits(j, k, sent, answered, exhausted, firstAttempt)
           /\ job[j].made + firstAttempt > MaxRetries => k.pc = "failed"
<1>1. /\ job[j] \in JobRecords /\ job[j].made \in Nat /\ MaxRetries \in Nat /\ job[j].made <= MaxRetries
      /\ job[j].of \in Deliveries /\ firstAttempt \in {0, 1} /\ sent \in [Deliveries -> Nat]
  BY JobFacts DEF JobFits
<1>2. job[j].made + 1 <= sent[job[j].of]
  <2>1. job[j].pc \in Sending
    BY DEF Sending
  <2> QED
    BY <1>1, <2>1, JobFacts DEF JobFits
<1>3. PICK k \in JobRecords :
        /\ RetryOrFail(j) = [job EXCEPT ![j] = k]
        /\ k.of = job[j].of /\ k.made = job[j].made + 1 /\ k.stalled = job[j].stalled
        /\ k.seen = Live /\ k.changes = {}
        /\ k.pc = IF job[j].made < MaxRetries THEN "waiting" ELSE "failed"
  BY <1>1, RetriedRecord DEF WebhookStrong
<1>4. JobFits(j, k, sent, answered, exhausted, firstAttempt)
  <2>1. k.pc # "failed" => k.made <= MaxRetries
    BY <1>1, <1>3
  <2>2. k.made + 0 <= sent[k.of] /\ k.pc \notin Sending
    BY <1>1, <1>2, <1>3 DEF Sending
  <2> QED
    BY <1>1, <1>3, <2>1, <2>2 DEF JobFits
<1>5. Requests(job[j]) \in Nat /\ Requests(k) \in Nat
  BY <1>1, <1>3, <1>4, RequestsAre DEF JobFits
<1>6. Requests(job[j]) <= Requests(k)
  <2>1. Requests(job[j]) = job[j].made + 1 + (IF job[j].stalled THEN 1 ELSE 0)
    BY DEF Requests
  <2>2. CASE job[j].made < MaxRetries
    BY <1>1, <1>3, <1>5, <2>1, <2>2 DEF Requests
  <2>3. CASE ~(job[j].made < MaxRetries)
    BY <1>1, <1>3, <1>5, <2>1, <2>3 DEF Requests
  <2> QED
    BY <2>2, <2>3
<1>7. job[j].made + firstAttempt > MaxRetries => k.pc = "failed"
  BY <1>1, <1>3
<1> QED
  BY <1>3, <1>4, <1>5, <1>6, <1>7

\* A job's step that records nothing.
LEMMA QuietStep ==
  ASSUME WebhookStrong, NEW j \in Jobs, NEW k \in JobRecords, job' = [job EXCEPT ![j] = k],
         UNCHANGED <<call, firstAttempt, status, sent, answered, exhausted>>,
         hook' = hook \/ (hook' # Removed => CopyFits(hook', Cardinality(Spent'), Cardinality(exhausted'))),
         orphans \subseteq orphans', k.of = job[j].of, job[j].pc # "failed",
         Requests(job[j]) \in Nat, Requests(k) \in Nat, Requests(job[j]) <= Requests(k),
         JobFits(j, k, sent, answered, exhausted, firstAttempt),
         k.pc \in {"save", "update", "insert"} => CopyFits(k.seen, Cardinality(Spent) + 1, Cardinality(exhausted)),
         job[j].pc \notin Recording \/ k.pc \in Recording \/ job[j].of \in orphans'
  PROVE  WebhookStrong'
<1>1. /\ status' = status /\ sent' = sent /\ answered' = answered /\ exhausted' = exhausted
      /\ call' = call /\ firstAttempt' = firstAttempt
  OBVIOUS
<1>2. Typed /\ RequestsPlaced
  BY DEF WebhookStrong
<1>3. RequestsPlaced'
  BY <1>1, <1>2, PlacesStay
<1>4. PendingServed'
  BY <1>1, JobLeavesServed
<1>5. sent' \in [Deliveries -> Nat] /\ \A d \in Deliveries : sent[d] <= sent'[d]
  BY <1>1, JobFacts
<1>6. status' \in [Deliveries -> Statuses]
  BY <1>1, JobFacts
<1> QED
  BY <1>1, <1>3, <1>4, <1>5, <1>6, JobStep

LEMMA SendStep ==
  ASSUME WebhookStrong, NEW j \in Jobs, Send(j)
  PROVE  WebhookStrong'
<1>1. /\ job[j].pc = "waiting" /\ UNCHANGED <<hook, status, call, firstAttempt, exhausted, orphans>>
      /\ sent' = [sent EXCEPT ![job[j].of] = @ + 1]
  BY DEF Send
<1>2. PICK pc \in {"answered", "unanswered"} :
        JobAt(j, pc) /\ answered' = IF pc = "answered" THEN answered \cup {job[j].of} ELSE answered
  <2>1. \/ JobAt(j, "answered") /\ answered' = answered \cup {job[j].of}
        \/ JobAt(j, "unanswered") /\ answered' = answered
    BY DEF Send
  <2> QED
    BY <2>1
<1>3. /\ job[j].of \in Deliveries /\ job[j].made <= MaxRetries /\ job[j].made \in Nat /\ job[j] \in JobRecords
      /\ sent \in [Deliveries -> Nat] /\ job[j].made <= sent[job[j].of] /\ MaxRetries \in Nat
  <2>1. "waiting" \notin Sending
    BY DEF Sending
  <2> QED
    BY <1>1, <2>1, JobFacts DEF JobFits
<1>4. PICK k \in JobRecords :
        /\ job' = [job EXCEPT ![j] = k]
        /\ k.of = job[j].of /\ k.made = job[j].made /\ k.stalled = job[j].stalled /\ k.pc = pc
        /\ Requests(k) = Requests(job[j]) + 1
  BY <1>1, <1>2, MovedRecord DEF JobStages
<1>5. Requests(job[j]) \in Nat /\ Requests(k) <= MaxRetries + 2
  BY <1>3, <1>4, RequestsAre
<1>6. RequestsPlaced'
  BY <1>1, <1>3, <1>4, <1>5, PlaceAdded DEF WebhookStrong
<1>7. /\ sent' \in [Deliveries -> Nat] /\ \A d \in Deliveries : sent[d] <= sent'[d]
      /\ sent'[job[j].of] = sent[job[j].of] + 1
  <2>1. sent' \in [Deliveries -> Nat] /\ sent'[job[j].of] = sent[job[j].of] + 1
    BY <1>1, <1>3
  <2>2. ASSUME NEW d \in Deliveries PROVE sent[d] <= sent'[d]
    BY <1>1, <1>3
  <2> QED
    BY <2>1, <2>2
<1>8. JobFits(j, k, sent', answered', exhausted', firstAttempt)
  <2>1. k.made + 1 <= sent'[k.of]
    BY <1>3, <1>4, <1>7
  <2>2. k.made + (IF k.pc \in Sending THEN 1 ELSE 0) <= sent'[k.of]
    BY <1>2, <1>4, <2>1 DEF Sending
  <2> QED
    BY <1>2, <1>3, <1>4, <2>2 DEF JobFits
<1>9. PendingServed'
  <2>1. k.pc \in Recording
    BY <1>4 DEF Recording
  <2> QED
    BY <1>1, <1>4, <2>1, JobLeavesServed
<1>10. answered \subseteq answered' /\ exhausted' = exhausted /\ status' = status
  BY <1>1, <1>2
<1>11. status' \in [Deliveries -> Statuses]
  BY <1>10, JobFacts
<1> QED
  BY <1>1, <1>4, <1>6, <1>7, <1>8, <1>9, <1>10, <1>11, JobStep

\* What Record writes: an outcome for the delivery of its job, unless its row is
\* gone, and nothing else.
LEMMA Recorded ==
  ASSUME status \in [Deliveries -> Statuses], NEW d \in Deliveries, NEW s \in {"DELIVERED", "FAILED", "DEAD_LETTER"},
         Record(d, s)
  PROVE  /\ status' \in [Deliveries -> Statuses]
         /\ status'[d] \in {s, "none", "removed"}
         /\ \A e \in Deliveries \ {d} : status'[e] = status[e]
<1> DEFINE w == IF status[d] \in {"none", "removed"} THEN status[d] ELSE s
<1>1. w \in Statuses /\ w \in {s, "none", "removed"}
  BY DEF Statuses
<1>2. status' = [status EXCEPT ![d] = w]
  BY DEF Record
<1> HIDE DEF w
<1> QED
  BY <1>1, <1>2

LEMMA RecordDeliveredStep ==
  ASSUME WebhookStrong, NEW j \in Jobs, RecordDelivered(j)
  PROVE  WebhookStrong'
<1>1. /\ job[j].pc = "answered" /\ Record(job[j].of, "DELIVERED") /\ JobAt(j, "delivered")
      /\ UNCHANGED <<hook, call, firstAttempt, sent, answered, exhausted, orphans>>
  BY DEF RecordDelivered, history
<1>2. /\ job[j].of \in Deliveries /\ job[j].of \in answered /\ job[j] \in JobRecords /\ job[j].made <= MaxRetries
      /\ JobFits(j, job[j], sent, answered, exhausted, firstAttempt)
  BY <1>1, JobFacts DEF JobFits
<1>3. PICK k \in JobRecords :
        /\ job' = [job EXCEPT ![j] = k]
        /\ k.of = job[j].of /\ k.made = job[j].made /\ k.stalled = job[j].stalled /\ k.pc = "delivered"
        /\ Requests(k) = Requests(job[j]) + 0
  BY <1>1, MovedRecord DEF JobStages
<1>4. Requests(job[j]) \in Nat /\ Requests(k) \in Nat /\ Requests(job[j]) <= Requests(k)
  BY <1>2, <1>3, RequestsAre
<1>5. RequestsPlaced'
  BY <1>1, <1>3, <1>4, PlacesStay DEF WebhookStrong
<1>6. JobFits(j, k, sent, answered, exhausted, firstAttempt)
  BY <1>1, <1>2, <1>3 DEF JobFits, Sending
<1>7. /\ status' \in [Deliveries -> Statuses] /\ status'[job[j].of] \in {"DELIVERED", "none", "removed"}
      /\ \A e \in Deliveries \ {job[j].of} : status'[e] = status[e]
  BY <1>1, <1>2, JobFacts, Recorded
<1>8. PendingServed'
  <2>1. \A d \in Deliveries : status'[d] = "PENDING" => d # job[j].of /\ status[d] = "PENDING"
    BY <1>7
  <2> QED
    BY <1>1, <1>3, <2>1, JobLeavesServed
<1>9. /\ \A d \in Deliveries : status'[d] = "DELIVERED" => status[d] = "DELIVERED" \/ d \in answered'
      /\ \A d \in Deliveries : status'[d] = "DEAD_LETTER" => status[d] = "DEAD_LETTER"
  BY <1>1, <1>2, <1>7
<1>10. /\ sent' \in [Deliveries -> Nat] /\ \A d \in Deliveries : sent[d] <= sent'[d]
       /\ sent' = sent /\ answered' = answered /\ exhausted' = exhausted
  BY <1>1, JobFacts
<1> QED
  BY <1>1, <1>3, <1>5, <1>6, <1>7, <1>8, <1>9, <1>10, JobStep

LEMMA ClearFailuresStep ==
  ASSUME WebhookStrong, NEW j \in Jobs, ClearFailures(j)
  PROVE  WebhookStrong'
<1>1. /\ job[j].pc = "delivered" /\ JobAt(j, "completed")
      /\ hook' = IF hook = Removed THEN hook ELSE [hook EXCEPT !.failures = 0]
      /\ UNCHANGED <<status, call, firstAttempt, sent, answered, exhausted, orphans>>
  BY DEF ClearFailures, history
<1>2. /\ job[j].made <= MaxRetries /\ job[j] \in JobRecords
      /\ JobFits(j, job[j], sent, answered, exhausted, firstAttempt)
  BY <1>1, JobFacts DEF JobFits
<1>3. PICK k \in JobRecords :
        /\ job' = [job EXCEPT ![j] = k]
        /\ k.of = job[j].of /\ k.made = job[j].made /\ k.stalled = job[j].stalled /\ k.pc = "completed"
        /\ Requests(k) = Requests(job[j]) + 0
  BY <1>1, MovedRecord DEF JobStages
<1>4. Requests(job[j]) \in Nat /\ Requests(k) \in Nat /\ Requests(job[j]) <= Requests(k)
  BY <1>2, <1>3, RequestsAre
<1>5. JobFits(j, k, sent, answered, exhausted, firstAttempt)
  BY <1>1, <1>2, <1>3 DEF JobFits, Sending
<1>6. hook' = hook \/ (hook' # Removed => CopyFits(hook', Cardinality(Spent'), Cardinality(exhausted')))
  <2>1. CASE hook = Removed
    BY <1>1, <2>1
  <2>2. CASE hook # Removed
    <3>1. PICK h : h = [hook EXCEPT !.failures = 0]
      OBVIOUS
    <3>2. hook' = h /\ CopyFits(hook, Cardinality(Spent), Cardinality(exhausted))
      BY <1>1, <2>2, <3>1, JobFacts
    <3>3. h \in Hooks /\ h.failures = 0 /\ h.disabled = hook.disabled
      BY <3>1, <3>2 DEF CopyFits, Hooks
    <3>4. Spent' = Spent
      BY <1>1, <1>3, JobFacts, Replaced DEF Spent
    <3>5. CopyFits(h, Cardinality(Spent), Cardinality(exhausted))
      BY <3>2, <3>3, JobFacts DEF CopyFits
    <3> QED
      BY <1>1, <3>2, <3>4, <3>5
  <2> QED
    BY <2>1, <2>2
<1>7. job[j].pc \notin Recording
  BY <1>1 DEF Recording
<1> QED
  BY <1>1, <1>3, <1>4, <1>5, <1>6, <1>7, QuietStep

\* A job that is to be retried, or has failed: every step that throws ends so.
LEMMA ThrowStep ==
  ASSUME WebhookStrong, NEW j \in Jobs, job' = RetryOrFail(j),
         job[j].pc \in {"unanswered", "exhausted", "save", "update", "insert"},
         UNCHANGED <<call, firstAttempt, status, sent, answered, exhausted>>, orphans \subseteq orphans',
         hook' = hook \/ (hook' # Removed => CopyFits(hook', Cardinality(Spent'), Cardinality(exhausted'))),
         job[j].pc \notin Recording \/ job[j].of \in orphans'
  PROVE  WebhookStrong'
<1>1. PICK k \in JobRecords :
        /\ job' = [job EXCEPT ![j] = k]
        /\ k.of = job[j].of /\ k.pc \in {"waiting", "failed"}
        /\ Requests(job[j]) \in Nat /\ Requests(k) \in Nat /\ Requests(job[j]) <= Requests(k)
        /\ JobFits(j, k, sent, answered, exhausted, firstAttempt)
  BY RetriedFits
<1> QED
  BY <1>1, QuietStep

\* FinalAttempt decides between a last failure, with the request counted, and a
\* retry.
LEMMA RecordFailureStep ==
  ASSUME WebhookStrong, NEW j \in Jobs, RecordFailure(j)
  PROVE  WebhookStrong'
<1>1. /\ job[j].pc = "unanswered"
      /\ UNCHANGED <<hook, call, firstAttempt, sent, answered, orphans>>
      /\ Record(job[j].of, IF FinalAttempt(j) THEN "DEAD_LETTER" ELSE "FAILED")
  BY DEF RecordFailure
<1>2. /\ job[j].of \in Deliveries /\ job[j] \in JobRecords /\ job[j].made <= MaxRetries /\ job[j].made \in Nat
      /\ JobFits(j, job[j], sent, answered, exhausted, firstAttempt) /\ MaxRetries \in Nat
      /\ firstAttempt \in {0, 1}
  BY <1>1, JobFacts DEF JobFits
<1>3. job[j].made + 1 <= sent[job[j].of]
  BY <1>1, <1>2 DEF JobFits, Sending
<1>4. /\ sent' \in [Deliveries -> Nat] /\ \A d \in Deliveries : sent[d] <= sent'[d]
      /\ sent' = sent /\ answered' = answered
  BY <1>1, JobFacts
<1>5. CASE FinalAttempt(j)
  <2>1. /\ JobAt(j, "exhausted") /\ exhausted' = exhausted \cup {j} /\ Record(job[j].of, "DEAD_LETTER")
        /\ job[j].made + firstAttempt > MaxRetries
    BY <1>1, <1>5 DEF RecordFailure, FinalAttempt, JobAt
  <2>2. PICK k \in JobRecords :
          /\ job' = [job EXCEPT ![j] = k]
          /\ k.of = job[j].of /\ k.made = job[j].made /\ k.stalled = job[j].stalled /\ k.pc = "exhausted"
          /\ Requests(k) = Requests(job[j]) + 0
    BY <1>1, <2>1, MovedRecord DEF JobStages
  <2>3. Requests(job[j]) \in Nat /\ Requests(k) \in Nat /\ Requests(job[j]) <= Requests(k)
    BY <1>2, <2>2, RequestsAre
  <2>4. RequestsPlaced'
    BY <1>4, <2>2, <2>3, PlacesStay DEF WebhookStrong
  <2>5. JobFits(j, k, sent', answered', exhausted', firstAttempt)
    <3>1. k.made + 1 <= sent'[k.of] /\ (IF k.pc \in Sending THEN 1 ELSE 0) = 1
      BY <1>3, <1>4, <2>2 DEF Sending
    <3> QED
      BY <1>2, <2>1, <2>2, <3>1 DEF JobFits
  <2>6. /\ status' \in [Deliveries -> Statuses] /\ status'[job[j].of] \in {"DEAD_LETTER", "none", "removed"}
        /\ \A e \in Deliveries \ {job[j].of} : status'[e] = status[e]
    BY <1>2, <2>1, JobFacts, Recorded
  <2>7. PendingServed'
    <3>1. \A d \in Deliveries : status'[d] = "PENDING" => d # job[j].of /\ status[d] = "PENDING"
      BY <2>6
    <3> QED
      BY <1>1, <2>2, <3>1, JobLeavesServed
  <2>8. sent[job[j].of] > MaxRetries
    <3>1. sent[job[j].of] \in Nat
      BY <1>2, JobFacts
    <3> QED
      BY <1>2, <1>3, <2>1, <3>1
  <2>9. /\ \A d \in Deliveries : status'[d] = "DELIVERED" => status[d] = "DELIVERED" \/ d \in answered'
        /\ \A d \in Deliveries : status'[d] = "DEAD_LETTER" => status[d] = "DEAD_LETTER" \/ sent'[d] > MaxRetries
    BY <1>4, <2>6, <2>8
  <2> QED
    BY <1>1, <1>4, <2>1, <2>2, <2>4, <2>5, <2>6, <2>7, <2>9, JobStep
<1>6. CASE ~FinalAttempt(j)
  <2>1. job' = RetryOrFail(j) /\ exhausted' = exhausted /\ Record(job[j].of, "FAILED")
    BY <1>1, <1>6 DEF RecordFailure
  <2>2. PICK k \in JobRecords :
          /\ job' = [job EXCEPT ![j] = k]
          /\ k.of = job[j].of /\ k.pc \in {"waiting", "failed"}
          /\ Requests(job[j]) \in Nat /\ Requests(k) \in Nat /\ Requests(job[j]) <= Requests(k)
          /\ JobFits(j, k, sent, answered, exhausted, firstAttempt)
    BY <1>1, <2>1, RetriedFits
  <2>3. RequestsPlaced'
    BY <1>4, <2>2, PlacesStay DEF WebhookStrong
  <2>4. /\ status' \in [Deliveries -> Statuses] /\ status'[job[j].of] \in {"FAILED", "none", "removed"}
        /\ \A e \in Deliveries \ {job[j].of} : status'[e] = status[e]
    BY <1>2, <2>1, JobFacts, Recorded
  <2>5. PendingServed'
    <3>1. \A d \in Deliveries : status'[d] = "PENDING" => d # job[j].of /\ status[d] = "PENDING"
      BY <2>4
    <3> QED
      BY <1>1, <2>2, <3>1, JobLeavesServed
  <2>6. /\ \A d \in Deliveries : status'[d] = "DELIVERED" => status[d] = "DELIVERED"
        /\ \A d \in Deliveries : status'[d] = "DEAD_LETTER" => status[d] = "DEAD_LETTER"
    BY <2>4
  <2>7. JobFits(j, k, sent', answered', exhausted', firstAttempt) /\ k.pc \notin {"save", "update", "insert"}
    BY <1>4, <2>1, <2>2
  <2>8. job[j].pc # "failed" /\ UNCHANGED <<call, firstAttempt>> /\ hook' = hook
        /\ answered \subseteq answered' /\ exhausted' \in {exhausted, exhausted \cup {j}}
    BY <1>1, <2>1
  <2>9. /\ \A d \in Deliveries : status'[d] = "DELIVERED" => status[d] = "DELIVERED" \/ d \in answered'
        /\ \A d \in Deliveries : status'[d] = "DEAD_LETTER" => status[d] = "DEAD_LETTER" \/ sent'[d] > MaxRetries
    BY <2>6
  <2> QED
    BY <1>4, <2>2, <2>3, <2>4, <2>5, <2>7, <2>8, <2>9, JobStep
<1> QED
  BY <1>5, <1>6

\* The stages of counting a final failure on the webhook.
LEMMA CountingStep ==
  ASSUME WebhookStrong, NEW j \in Jobs, NEW k \in JobRecords, job' = [job EXCEPT ![j] = k],
         UNCHANGED <<hook, status, call, firstAttempt, sent, answered, exhausted, orphans>>,
         job[j].pc \in {"exhausted", "save"}, k.pc \in {"save", "update", "insert"},
         k.of = job[j].of, k.made = job[j].made, k.stalled = job[j].stalled,
         CopyFits(k.seen, Cardinality(Spent) + 1, Cardinality(exhausted))
  PROVE  WebhookStrong'
<1>1. /\ job[j].made <= MaxRetries /\ job[j] \in JobRecords
      /\ JobFits(j, job[j], sent, answered, exhausted, firstAttempt)
  BY JobFacts DEF JobFits
<1>2. Requests(job[j]) \in Nat /\ Requests(k) \in Nat
  BY <1>1, RequestsAre
<1>3. Requests(job[j]) = Requests(k)
  <2>1. Requests(k) = k.made + 1 + (IF k.stalled THEN 1 ELSE 0)
    BY DEF Requests
  <2>2. Requests(job[j]) = job[j].made + 1 + (IF job[j].stalled THEN 1 ELSE 0)
    BY DEF Requests
  <2> QED
    BY <2>1, <2>2
<1>4. JobFits(j, k, sent, answered, exhausted, firstAttempt)
  BY <1>1 DEF JobFits, Sending
<1>5. job[j].pc \notin Recording
  BY DEF Recording
<1>6. Requests(job[j]) <= Requests(k)
  BY <1>2, <1>3
<1> QED
  BY <1>2, <1>4, <1>5, <1>6, QuietStep

\* A final failure of a job that is not over is one more than those counted.
LEMMA OneMoreSpent ==
  ASSUME WebhookStrong, NEW j \in exhausted, job[j].pc # "failed"
  PROVE  /\ Cardinality(Spent \cup {j}) = Cardinality(Spent) + 1
         /\ Cardinality(Spent) + 1 <= Cardinality(exhausted)
<1>1. IsFiniteSet(exhausted) /\ IsFiniteSet(Spent)
  BY SpentCounted DEF WebhookStrong, Typed
<1>2. j \notin Spent /\ Spent \cup {j} \in SUBSET exhausted
  BY DEF Spent
<1>3. Cardinality(Spent \cup {j}) = Cardinality(Spent) + 1
  BY <1>1, <1>2, FS_AddElement
<1>4. Cardinality(Spent \cup {j}) <= Cardinality(exhausted)
  BY <1>1, <1>2, FS_Subset
<1> QED
  BY <1>3, <1>4

LEMMA CountedFits ==
  ASSUME NEW n \in Nat, NEW x \in Nat, NEW h, CopyFits(h, n, x), n + 1 <= x
  PROVE  CopyFits(Counted(h), n + 1, x)
<1>1. h \in Hooks /\ h.failures \in Nat /\ h.failures <= n /\ (h.disabled => DisableAfter <= x)
      /\ DisableAfter \in Nat
  BY WebhookAssumption DEF CopyFits, Hooks
<1>2. CASE h.failures + 1 >= DisableAfter
  <2> DEFINE q == [enabled |-> FALSE, disabled |-> TRUE, failures |-> h.failures + 1]
  <2>1. Counted(h) = q
    BY <1>2 DEF Counted
  <2>2. q \in Hooks /\ q.failures = h.failures + 1
    BY <1>1 DEF Hooks
  <2> HIDE DEF q
  <2>3. DisableAfter <= x /\ q.failures <= n + 1
    BY <1>1, <1>2, <2>2
  <2> QED
    BY <2>1, <2>2, <2>3 DEF CopyFits
<1>3. CASE ~(h.failures + 1 >= DisableAfter)
  <2> DEFINE q == [h EXCEPT !.failures = @ + 1]
  <2>1. Counted(h) = q
    BY <1>3 DEF Counted
  <2>2. q \in Hooks /\ q.failures = h.failures + 1 /\ q.disabled = h.disabled
    BY <1>1 DEF Hooks
  <2> HIDE DEF q
  <2> QED
    BY <1>1, <2>1, <2>2 DEF CopyFits
<1> QED
  BY <1>2, <1>3

LEMMA ReadFailuresStep ==
  ASSUME WebhookStrong, NEW j \in Jobs, ReadFailures(j)
  PROVE  WebhookStrong'
<1>1. /\ job[j].pc = "exhausted"
      /\ UNCHANGED <<hook, status, call, firstAttempt, sent, answered, exhausted, orphans>>
  BY DEF ReadFailures, history
<1>2. CASE hook = Removed
  <2>1. job' = RetryOrFail(j)
    BY <1>2 DEF ReadFailures
  <2>2. job[j].pc \notin Recording
    BY <1>1 DEF Recording
  <2> QED
    BY <1>1, <2>1, <2>2, ThrowStep
<1>3. CASE hook # Removed
  <2>1. PICK h : h = Counted(hook)
    OBVIOUS
  <2>2. j \in exhausted /\ CopyFits(hook, Cardinality(Spent), Cardinality(exhausted))
    BY <1>1, <1>3, JobFacts DEF JobFits
  <2>3. CopyFits(h, Cardinality(Spent) + 1, Cardinality(exhausted))
    BY <1>1, <2>1, <2>2, OneMoreSpent, CountedFits, JobFacts
  <2>4. PICK k : k = [job[j] EXCEPT !.pc = "save", !.seen = h]
    OBVIOUS
  <2>5. /\ k \in JobRecords /\ k.pc = "save" /\ k.seen = h
        /\ k.of = job[j].of /\ k.made = job[j].made /\ k.stalled = job[j].stalled
    BY <2>3, <2>4, JobFacts DEF JobRecords, JobStages, CopyFits
  <2>6. job' = [job EXCEPT ![j] = k]
    BY <1>3, <2>1, <2>4, JobFacts DEF ReadFailures
  <2> QED
    BY <1>1, <2>3, <2>5, <2>6, CountingStep
<1> QED
  BY <1>2, <1>3

LEMMA CompareFailuresStep ==
  ASSUME WebhookStrong, NEW j \in Jobs, CompareFailures(j)
  PROVE  WebhookStrong'
<1>1. /\ job[j].pc = "save"
      /\ UNCHANGED <<hook, status, call, firstAttempt, sent, answered, exhausted, orphans>>
  BY DEF CompareFailures, history
<1>0. CopyFits(job[j].seen, Cardinality(Spent) + 1, Cardinality(exhausted))
  BY <1>1 DEF WebhookStrong, CopiesFit
<1>2. CASE hook = Removed
  <2>1. JobAt(j, "insert")
    BY <1>2 DEF CompareFailures
  <2>2. PICK k \in JobRecords :
          /\ job' = [job EXCEPT ![j] = k]
          /\ k.of = job[j].of /\ k.made = job[j].made /\ k.stalled = job[j].stalled /\ k.pc = "insert"
          /\ k.seen = job[j].seen
    BY <1>1, <2>1, MovedRecord DEF JobStages
  <2> QED
    BY <1>0, <1>1, <2>2, CountingStep
<1>3. CASE hook # Removed
  <2>1. PICK fields \in SUBSET DOMAIN Live : fields = Differing(job[j].seen, hook)
    BY DEF Differing
  <2>3. PICK k : k = [job[j] EXCEPT !.pc = "update", !.changes = fields]
    OBVIOUS
  <2>4. /\ k \in JobRecords /\ k.pc = "update" /\ k.seen = job[j].seen
        /\ k.of = job[j].of /\ k.made = job[j].made /\ k.stalled = job[j].stalled
    BY <2>1, <2>3, JobFacts DEF JobRecords, JobStages
  <2>5. job' = [job EXCEPT ![j] = k]
    BY <1>3, <2>1, <2>3, JobFacts DEF CompareFailures
  <2> QED
    BY <1>0, <1>1, <2>4, <2>5, CountingStep
<1> QED
  BY <1>2, <1>3

\* The job is over with its save, so its failure is counted once.
LEMMA SaveFailuresStep ==
  ASSUME WebhookStrong, NEW j \in Jobs, UpdateFailures(j) \/ InsertFailures(j)
  PROVE  WebhookStrong'
<1>1. /\ job[j].pc \in {"update", "insert"} /\ job' = RetryOrFail(j)
      /\ UNCHANGED <<status, call, firstAttempt, sent, answered, exhausted, orphans>>
  BY DEF UpdateFailures, InsertFailures, history
<1>0. hook' \in {Merge(job[j].seen, job[j].changes, hook), job[j].seen, hook}
  BY DEF UpdateFailures, InsertFailures, Restore
<1>2. j \in exhausted /\ job[j].made + firstAttempt > MaxRetries
  BY <1>1, JobFacts DEF JobFits
<1>3. PICK k \in JobRecords : job' = [job EXCEPT ![j] = k] /\ k.pc = "failed"
  BY <1>1, <1>2, RetriedFits
<1>4. Spent' = Spent \cup {j}
  <2>1. \A i \in Jobs : job'[i] = IF i = j THEN k ELSE job[i]
    BY <1>3, JobFacts, Replaced
  <2>2. exhausted' = exhausted /\ exhausted \subseteq Jobs
    BY <1>1, JobFacts
  <2>3. \A i \in exhausted : i \in Spent' <=> i \in Spent \/ i = j
    BY <1>2, <1>3, <2>1, <2>2 DEF Spent
  <2> QED
    BY <1>2, <2>2, <2>3 DEF Spent
<1>5. Cardinality(Spent') = Cardinality(Spent) + 1
  BY <1>1, <1>2, <1>4, OneMoreSpent
<1>6. /\ Cardinality(Spent) \in Nat /\ Cardinality(Spent) + 1 \in Nat /\ Cardinality(exhausted) \in Nat
      /\ Cardinality(Spent) <= Cardinality(Spent) + 1 /\ Cardinality(exhausted) <= Cardinality(exhausted)
  BY JobFacts
<1>7. hook # Removed => CopyFits(hook, Cardinality(Spent) + 1, Cardinality(exhausted))
  BY <1>6, JobFacts, CopyGrows
<1>8. CopyFits(job[j].seen, Cardinality(Spent) + 1, Cardinality(exhausted))
  BY <1>1 DEF WebhookStrong, CopiesFit
<1>9. hook' # Removed => CopyFits(hook', Cardinality(Spent) + 1, Cardinality(exhausted))
  BY <1>0, <1>6, <1>7, <1>8, MergeFits
<1>10. job[j].pc \notin Recording
  BY <1>1 DEF Recording
<1> QED
  BY <1>1, <1>5, <1>9, <1>10, ThrowStep

LEMMA DatabaseErrorStep ==
  ASSUME WebhookStrong, NEW j \in Jobs, DatabaseError(j)
  PROVE  WebhookStrong'
<1>1. UNCHANGED <<hook, status, call, firstAttempt, sent, answered, exhausted>>
  BY DEF DatabaseError
<1>2. CASE job[j].pc \in {"answered", "delivered"} /\ JobAt(j, "unanswered") /\ UNCHANGED orphans
  <2>1. /\ job[j].made <= MaxRetries /\ job[j] \in JobRecords
        /\ JobFits(j, job[j], sent, answered, exhausted, firstAttempt)
    BY <1>2, JobFacts DEF JobFits
  <2>2. PICK k \in JobRecords :
          /\ job' = [job EXCEPT ![j] = k]
          /\ k.of = job[j].of /\ k.made = job[j].made /\ k.stalled = job[j].stalled /\ k.pc = "unanswered"
          /\ Requests(k) = Requests(job[j]) + 0
    BY <1>2, MovedRecord DEF JobStages
  <2>3. Requests(job[j]) \in Nat /\ Requests(k) \in Nat /\ Requests(job[j]) <= Requests(k)
    BY <2>1, <2>2, RequestsAre
  <2>4. JobFits(j, k, sent, answered, exhausted, firstAttempt)
    BY <1>2, <2>1, <2>2 DEF JobFits, Sending
  <2>5. k.pc \in Recording
    BY <2>2 DEF Recording
  <2> QED
    BY <1>1, <1>2, <2>2, <2>3, <2>4, <2>5, QuietStep
<1>3. CASE /\ job[j].pc \in {"unanswered", "exhausted", "save", "update", "insert"}
           /\ job' = RetryOrFail(j) /\ orphans' = orphans \cup {job[j].of}
  BY <1>1, <1>3, ThrowStep
<1> QED
  BY <1>2, <1>3 DEF DatabaseError

\* A stalled job waits again once: the lost attempt's request has its place.
LEMMA StallStep ==
  ASSUME WebhookStrong, NEW j \in Jobs, Stall(j)
  PROVE  WebhookStrong'
<1>1. /\ job[j].pc \notin {"free", "waiting", "completed", "failed"}
      /\ UNCHANGED <<hook, status, call, firstAttempt, sent, answered, exhausted>>
      /\ orphans' = orphans \cup {job[j].of}
  BY DEF Stall, Processing
<1>2. PICK k : k = [job[j] EXCEPT !.stalled = TRUE, !.seen = Live, !.changes = {},
                                  !.pc = IF job[j].stalled THEN "failed" ELSE "waiting"]
  OBVIOUS
<1>3. /\ job[j].made <= MaxRetries /\ job[j] \in JobRecords /\ job[j].made \in Nat /\ MaxRetries \in Nat
      /\ job[j].of \in Deliveries /\ sent \in [Deliveries -> Nat]
      /\ JobFits(j, job[j], sent, answered, exhausted, firstAttempt)
  BY <1>1, JobFacts DEF JobFits
<1>4. /\ k \in JobRecords /\ k.of = job[j].of /\ k.made = job[j].made /\ k.stalled
      /\ k.pc = IF job[j].stalled THEN "failed" ELSE "waiting"
  BY <1>2, <1>3, Blank DEF JobRecords, JobStages
<1>5. job' = [job EXCEPT ![j] = k]
  BY <1>2, JobFacts DEF Stall
<1>6. JobFits(j, k, sent, answered, exhausted, firstAttempt)
  <2>1. job[j].pc \in Sending
    BY <1>1, <1>3 DEF Sending, JobRecords, JobStages
  <2>2. job[j].made + 1 <= sent[job[j].of] /\ sent[job[j].of] \in Nat
    BY <1>3, <2>1 DEF JobFits
  <2>3. k.pc \in {"failed", "waiting"} /\ k.pc \notin Sending
    BY <1>4 DEF Sending
  <2>4. k.made + 0 <= sent[k.of]
    BY <1>3, <1>4, <2>2
  <2> QED
    BY <1>3, <1>4, <2>3, <2>4 DEF JobFits
<1>7. Requests(job[j]) \in Nat /\ Requests(k) \in Nat
  BY <1>3, <1>4, RequestsAre
<1>8. Requests(job[j]) <= Requests(k)
  <2>1. Requests(job[j]) = job[j].made + 1 + (IF job[j].stalled THEN 1 ELSE 0)
    BY <1>1 DEF Requests
  <2>2. CASE job[j].stalled
    <3>1. Requests(k) = MaxRetries + 1 + 1
      BY <1>4, <2>2 DEF Requests
    <3> QED
      BY <1>3, <2>1, <2>2, <3>1
  <2>3. CASE ~job[j].stalled
    <3>1. Requests(k) = k.made + 1
      BY <1>4, <2>3 DEF Requests
    <3> QED
      BY <1>3, <1>4, <2>1, <2>3, <3>1
  <2> QED
    BY <2>2, <2>3
<1>9. k.pc \notin {"save", "update", "insert"} /\ job[j].of \in orphans' /\ orphans \subseteq orphans'
  BY <1>1, <1>4
<1> QED
  BY <1>1, <1>4, <1>5, <1>6, <1>7, <1>8, <1>9, QuietStep

-----------------------------------------------------------------------------
(* The API calls.                                                          *)

LEMMA CallFacts ==
  ASSUME WebhookStrong, NEW c \in Calls
  PROVE  /\ call[c] \in CallRecords /\ call \in [Calls -> CallRecords]
         /\ call[c].pc \in {"store", "add"} => call[c].of \in Deliveries
         /\ status \in [Deliveries -> Statuses]
         /\ Cardinality(Spent) \in Nat /\ Cardinality(exhausted) \in Nat
         /\ CopyFits(call[c].seen, Cardinality(Spent), Cardinality(exhausted))
         /\ hook # Removed => CopyFits(hook, Cardinality(Spent), Cardinality(exhausted))
         /\ CopyFits(Live, Cardinality(Spent), Cardinality(exhausted))
<1>1. Cardinality(Spent) \in Nat /\ Cardinality(exhausted) \in Nat
  BY SpentCounted DEF WebhookStrong, Typed
<1>2. CopyFits(Live, Cardinality(Spent), Cardinality(exhausted))
  BY <1>1, BlankFits
<1> QED
  BY <1>1, <1>2 DEF WebhookStrong, Typed, CopiesFit

\* A call that steps on and leaves the rows alone.
LEMMA QuietCall ==
  ASSUME WebhookStrong, NEW c \in Calls, NEW k \in CallRecords, call' = [call EXCEPT ![c] = k],
         UNCHANGED <<status, job, firstAttempt, sent, answered, exhausted>>, orphans \subseteq orphans',
         k.pc \in {"store", "add"} => k.of \in Deliveries,
         CopyFits(k.seen, Cardinality(Spent), Cardinality(exhausted)),
         hook' # Removed => CopyFits(hook', Cardinality(Spent), Cardinality(exhausted)),
         call[c].pc # "add" \/ call[c].of \in orphans'
  PROVE  WebhookStrong'
<1>1. status' = status /\ status' \in [Deliveries -> Statuses]
  BY CallFacts
<1> QED
  BY <1>1, CallStep

\* A call that is over.
LEMMA QuietEnd ==
  ASSUME WebhookStrong, NEW c \in Calls, call' = [call EXCEPT ![c] = Done],
         UNCHANGED <<status, job, firstAttempt, sent, answered, exhausted>>, orphans \subseteq orphans',
         hook' # Removed => CopyFits(hook', Cardinality(Spent), Cardinality(exhausted)),
         call[c].pc # "add" \/ call[c].of \in orphans'
  PROVE  WebhookStrong'
<1>1. /\ Done \in CallRecords /\ Done.pc \notin {"store", "add"}
      /\ CopyFits(Done.seen, Cardinality(Spent), Cardinality(exhausted))
  BY Blank, CallFacts
<1> QED
  BY <1>1, QuietCall

LEMMA DispatchStep ==
  ASSUME WebhookStrong, NEW c \in Calls, NEW d \in Deliveries, Dispatch(c, d) \/ Retry(c, d)
  PROVE  WebhookStrong'
<1>1. PICK kind \in {"dispatch", "retry"} :
        /\ call' = [call EXCEPT ![c] = [Idle EXCEPT !.kind = kind, !.of = d, !.pc = "store"]]
        /\ UNCHANGED <<hook, status, job, firstAttempt, history>> /\ call[c] = Idle
  BY DEF Dispatch, Retry, NextCall
<1>2. UNCHANGED <<hook, status, job, firstAttempt, sent, answered, exhausted, orphans>>
  BY <1>1 DEF history
<1>3. PICK k : k = [Idle EXCEPT !.kind = kind, !.of = d, !.pc = "store"]
  OBVIOUS
<1>4. k \in CallRecords /\ k.pc = "store" /\ k.of = d /\ k.seen = Live /\ call[c].pc # "add"
  BY <1>1, <1>3, Blank DEF CallRecords, CallStages
<1> QED
  BY <1>1, <1>2, <1>3, <1>4, CallFacts, QuietCall

LEMMA StorePendingStep ==
  ASSUME WebhookStrong, NEW c \in Calls, StorePending(c)
  PROVE  WebhookStrong'
<1>1. call[c].pc = "store" /\ UNCHANGED <<hook, job, firstAttempt, sent, answered, exhausted, orphans>>
  BY DEF StorePending, history
<1>2. CASE hook = Removed
  <2>1. status' = status /\ call' = [call EXCEPT ![c] = Done]
    BY <1>2 DEF StorePending, Finish
  <2> QED
    BY <1>1, <1>2, <2>1, QuietEnd
<1>3. CASE hook # Removed
  <2>1. /\ status' = [status EXCEPT ![call[c].of] = "PENDING"] /\ call[c].of \in Deliveries
        /\ call[c] \in CallRecords /\ status \in [Deliveries -> Statuses]
    BY <1>1, <1>3, CallFacts DEF StorePending
  <2>2. PICK k : k = [call[c] EXCEPT !.pc = "add"]
    OBVIOUS
  <2>3. call' = [call EXCEPT ![c] = k]
    BY <1>3, <2>2, CallFacts DEF StorePending, CallAt
  <2>4. k \in CallRecords /\ k.pc = "add" /\ k.of = call[c].of /\ k.seen = call[c].seen
    BY <2>1, <2>2 DEF CallRecords, CallStages
  <2>5. /\ status' \in [Deliveries -> Statuses]
        /\ \A d \in Deliveries : status'[d] = IF d = k.of THEN "PENDING" ELSE status[d]
    BY <2>1, <2>4 DEF Statuses
  <2> QED
    BY <1>1, <1>3, <2>1, <2>3, <2>4, <2>5, CallFacts, CallStep
<1> QED
  BY <1>2, <1>3

\* The entity that an edit writes back fits as the webhook does.
LEMMA LoadHookStep ==
  ASSUME WebhookStrong, NEW c \in Calls, LoadHook(c)
  PROVE  WebhookStrong'
<1>1. /\ call[c] = Idle /\ hook # Removed
      /\ UNCHANGED <<hook, status, job, firstAttempt, sent, answered, exhausted, orphans>>
  BY DEF LoadHook, NextCall, history
<1>2. PICK e \in Edits(hook) :
        call' = [call EXCEPT ![c] = [Idle EXCEPT !.kind = "edit", !.pc = "save", !.seen = e]]
  BY DEF LoadHook
<1>3. CopyFits(hook, Cardinality(Spent), Cardinality(exhausted))
  BY <1>1, CallFacts
<1>4. CopyFits(e, Cardinality(Spent), Cardinality(exhausted))
  <2>1. CASE e = hook \/ e = Live
    BY <1>3, <2>1, CallFacts
  <2>2. CASE e = [hook EXCEPT !.enabled = FALSE]
    <3>1. e \in Hooks /\ e.failures = hook.failures /\ e.disabled = hook.disabled
      BY <1>3, <2>2 DEF CopyFits, Hooks
    <3> QED
      BY <1>3, <3>1 DEF CopyFits
  <2> QED
    BY <2>1, <2>2 DEF Edits
<1>5. PICK k : k = [Idle EXCEPT !.kind = "edit", !.pc = "save", !.seen = e]
  OBVIOUS
<1>6. k \in CallRecords /\ k.pc = "save" /\ k.seen = e /\ call[c].pc # "add"
  BY <1>1, <1>4, <1>5, Blank DEF CallRecords, CallStages, CopyFits
<1> QED
  BY <1>1, <1>2, <1>3, <1>4, <1>5, <1>6, QuietCall

LEMMA CompareHookStep ==
  ASSUME WebhookStrong, NEW c \in Calls, CompareHook(c)
  PROVE  WebhookStrong'
<1>1. /\ call[c].pc = "save"
      /\ UNCHANGED <<hook, status, job, firstAttempt, sent, answered, exhausted, orphans>>
  BY DEF CompareHook, history
<1>2. CASE hook = Removed
  <2>1. PICK k : k = [call[c] EXCEPT !.pc = "insert"]
    OBVIOUS
  <2>2. call' = [call EXCEPT ![c] = k]
    BY <1>2, <2>1, CallFacts DEF CompareHook, CallAt
  <2>3. k \in CallRecords /\ k.pc = "insert" /\ k.seen = call[c].seen
    BY <2>1, CallFacts DEF CallRecords, CallStages
  <2> QED
    BY <1>1, <1>2, <2>2, <2>3, CallFacts, QuietCall
<1>3. CASE hook # Removed
  <2>1. PICK fields \in SUBSET DOMAIN Live : fields = Differing(call[c].seen, hook)
    BY DEF Differing
  <2>2. PICK k : k = [call[c] EXCEPT !.pc = "update", !.changes = fields]
    OBVIOUS
  <2>3. call' = [call EXCEPT ![c] = k]
    BY <1>3, <2>1, <2>2, CallFacts DEF CompareHook
  <2>4. k \in CallRecords /\ k.pc = "update" /\ k.seen = call[c].seen
    BY <2>1, <2>2, CallFacts DEF CallRecords, CallStages
  <2> QED
    BY <1>1, <1>3, <2>3, <2>4, CallFacts, QuietCall
<1> QED
  BY <1>2, <1>3

LEMMA SaveHookStep ==
  ASSUME WebhookStrong, NEW c \in Calls, UpdateHook(c) \/ InsertHook(c)
  PROVE  WebhookStrong'
<1>1. /\ call[c].pc \in {"update", "insert"}
      /\ hook' \in {Merge(call[c].seen, call[c].changes, hook), call[c].seen, hook}
      /\ call' = [call EXCEPT ![c] = Done]
      /\ UNCHANGED <<status, job, firstAttempt, sent, answered, exhausted, orphans>>
  BY DEF UpdateHook, InsertHook, Restore, Finish, history
<1>2. hook' # Removed => CopyFits(hook', Cardinality(Spent), Cardinality(exhausted))
  BY <1>1, CallFacts, MergeFits
<1> QED
  BY <1>1, <1>2, QuietEnd

LEMMA RemoveStep ==
  ASSUME WebhookStrong, NEW c \in Calls, Remove(c)
  PROVE  WebhookStrong'
<1>1. /\ call[c] = Idle /\ hook' = Removed /\ call' = [call EXCEPT ![c] = Done]
      /\ status' = [d \in Deliveries |-> IF status[d] = "none" THEN "none" ELSE "removed"]
      /\ UNCHANGED <<job, firstAttempt, sent, answered, exhausted, orphans>>
  BY DEF Remove, NextCall, history
<1>2. /\ Done \in CallRecords /\ Done.pc \notin {"store", "add"}
      /\ CopyFits(Done.seen, Cardinality(Spent), Cardinality(exhausted))
  BY Blank, CallFacts
<1>3. /\ status' \in [Deliveries -> Statuses]
      /\ \A d \in Deliveries : status'[d] \in {"none", "removed"}
  BY <1>1 DEF Statuses
<1> QED
  BY <1>1, <1>2, <1>3, CallStep

LEMMA LoseStep ==
  ASSUME WebhookStrong, NEW c \in Calls, Lose(c)
  PROVE  WebhookStrong'
<1>1. /\ call' = [call EXCEPT ![c] = Done]
      /\ UNCHANGED <<hook, status, job, firstAttempt, sent, answered, exhausted>>
      /\ orphans' = IF call[c].pc = "add" THEN orphans \cup {call[c].of} ELSE orphans
  BY DEF Lose, Finish
<1>2. orphans \subseteq orphans' /\ (call[c].pc # "add" \/ call[c].of \in orphans')
  BY <1>1
<1> QED
  BY <1>1, <1>2, CallFacts, QuietEnd

\* The job is there when the call is over: the delivery never lacks both.
LEMMA AddJobStep ==
  ASSUME WebhookStrong, NEW c \in Calls, AddJob(c)
  PROVE  WebhookStrong'
<1>1. /\ call[c].pc = "add" /\ call' = [call EXCEPT ![c] = Done]
      /\ UNCHANGED <<hook, status, firstAttempt, sent, answered, exhausted, orphans>>
  BY DEF AddJob, Finish, history
<1>2. PICK j \in Jobs : job[j] = Free /\ job' = [job EXCEPT ![j] = [Free EXCEPT !.of = call[c].of, !.pc = "waiting"]]
  BY DEF AddJob, NextJob
<1>3. PICK k : k = [Free EXCEPT !.of = call[c].of, !.pc = "waiting"]
  OBVIOUS
<1>4. call[c].of \in Deliveries /\ 0 \notin Deliveries /\ MaxRetries \in Nat
  BY <1>1, CallFacts, WebhookAssumption
<1>5. k \in JobRecords /\ k.of = call[c].of /\ k.pc = "waiting" /\ k.made = 0 /\ ~k.stalled
  BY <1>3, <1>4, Blank DEF JobRecords, JobStages
<1>6. job' \in [Jobs -> JobRecords] /\ \A i \in Jobs : job'[i] = IF i = j THEN k ELSE job[i]
  BY <1>2, <1>3, <1>5, Replaced DEF WebhookStrong, Typed
<1>7. /\ \A b \in Calls : call'[b] = IF b = c THEN Done ELSE call[b]
      /\ call' \in [Calls -> CallRecords]
  BY <1>1, Blank DEF WebhookStrong, Typed
<1>8. status' = status /\ sent' = sent /\ firstAttempt' = firstAttempt /\ answered' = answered
      /\ exhausted' = exhausted /\ hook' = hook /\ orphans' = orphans
  BY <1>1
<1>9. Typed'
  <2>1. \A b \in Calls : call'[b].pc \in {"store", "add"} => call'[b].of \in Deliveries
    BY <1>7, Blank DEF WebhookStrong, Typed
  <2> QED
    BY <1>6, <1>7, <1>8, <2>1 DEF WebhookStrong, Typed
<1>10. JobsFit'
  <2>1. JobFits(j, k, sent, answered, exhausted, firstAttempt)
    <3>1. k.pc \notin Sending /\ sent[k.of] \in Nat
      BY <1>4, <1>5 DEF Sending, WebhookStrong, Typed
    <3> QED
      BY <1>4, <1>5, <3>1 DEF JobFits
  <2>2. ASSUME NEW i \in Jobs PROVE JobFits(i, job'[i], sent, answered, exhausted, firstAttempt)
    BY <1>6, <2>1 DEF WebhookStrong, JobsFit
  <2> QED
    BY <1>8, <2>2 DEF JobsFit
<1>11. RequestsPlaced'
  <2> SUFFICES ASSUME NEW d \in Deliveries
               PROVE  IsFiniteSet(JobsOf(d)') /\ sent'[d] <= Cardinality(Places(d)')
    BY DEF RequestsPlaced
  <2>1. IsFiniteSet(JobsOf(d)) /\ sent[d] <= Cardinality(Places(d))
    BY DEF WebhookStrong, RequestsPlaced
  <2>2. JobsOf(d)' = IF d = k.of THEN JobsOf(d) \cup {j} ELSE JobsOf(d)
    <3>1. j \notin JobsOf(d)
      BY <1>2, <1>4, Blank DEF JobsOf
    <3>2. \A i \in Jobs : i \in JobsOf(d)' <=> i \in JobsOf(d) \/ (i = j /\ d = k.of)
      BY <1>6, <3>1 DEF JobsOf
    <3> QED
      BY <3>2 DEF JobsOf
  <2>3. IsFiniteSet(JobsOf(d)')
    BY <2>1, <2>2, FS_AddElement
  <2>4. Places(d)' = Places(d)
    <3>1. Places(d)' = {p \in JobsOf(d)' \X (1 .. MaxRetries + 2) : p[2] <= Requests(job'[p[1]])}
      BY DEF Places, Requests
    <3>2. Requests(k) = 0
      BY <1>5 DEF Requests
    <3>3. ASSUME NEW p \in JobsOf(d)' \X (1 .. MaxRetries + 2), p[2] <= Requests(job'[p[1]])
          PROVE  p \in Places(d)
      <4>1. p[1] \in JobsOf(d)' /\ p[1] \in Jobs /\ p[2] \in Nat \ {0} /\ p = <<p[1], p[2]>>
        BY <1>4 DEF JobsOf
      <4>2. p[1] # j
        BY <1>6, <3>2, <3>3, <4>1
      <4>3. p[1] \in JobsOf(d) /\ job'[p[1]] = job[p[1]]
        BY <1>6, <2>2, <4>1, <4>2
      <4>4. p \in JobsOf(d) \X (1 .. MaxRetries + 2)
        BY <4>3
      <4> QED
        BY <3>3, <4>3, <4>4 DEF Places
    <3>4. ASSUME NEW p \in JobsOf(d) \X (1 .. MaxRetries + 2), p[2] <= Requests(job[p[1]])
          PROVE  p \in Places(d)'
      <4>1. p[1] \in JobsOf(d) /\ p[1] \in Jobs /\ p[1] # j
        BY <1>2, <1>4, Blank DEF JobsOf
      <4>2. job'[p[1]] = job[p[1]] /\ p \in JobsOf(d)' \X (1 .. MaxRetries + 2)
        BY <1>6, <2>2, <4>1
      <4> QED
        BY <3>1, <3>4, <4>2
    <3>5. \A p : p \in Places(d)' <=> p \in Places(d)
      BY <3>1, <3>3, <3>4 DEF Places
    <3> QED
      BY <3>5
  <2> QED
    BY <1>8, <2>1, <2>3, <2>4
<1>12. CopiesFit'
  <2>1. Spent' = Spent
    <3>1. \A i \in exhausted : i \in Jobs
      BY DEF WebhookStrong, Typed
    <3>2. \A i \in exhausted : job'[i].pc = "failed" <=> job[i].pc = "failed"
      BY <1>2, <1>5, <1>6, <3>1, Blank
    <3> QED
      BY <1>8, <3>2 DEF Spent
  <2>2. ASSUME NEW b \in Calls PROVE CopyFits(call'[b].seen, Cardinality(Spent), Cardinality(exhausted))
    BY <1>7, Blank, CallFacts DEF WebhookStrong, CopiesFit
  <2>3. ASSUME NEW i \in Jobs, job'[i].pc \in {"save", "update", "insert"}
        PROVE  CopyFits(job'[i].seen, Cardinality(Spent) + 1, Cardinality(exhausted))
    BY <1>5, <1>6, <2>3 DEF WebhookStrong, CopiesFit
  <2>4. hook # Removed => CopyFits(hook, Cardinality(Spent), Cardinality(exhausted))
    BY DEF WebhookStrong, CopiesFit
  <2> QED
    BY <1>8, <2>1, <2>2, <2>3, <2>4 DEF CopiesFit
<1>13. DeliveredWasAnswered' /\ DeadLetterIsExhausted'
  BY <1>8 DEF WebhookStrong, DeliveredWasAnswered, DeadLetterIsExhausted
<1>14. PendingServed'
  <2> SUFFICES ASSUME NEW d \in Deliveries, status'[d] = "PENDING"
               PROVE  \/ \E i \in JobsOf(d)' : job'[i].pc \in Recording
                      \/ \E b \in Calls : call'[b].pc = "add" /\ call'[b].of = d
                      \/ d \in orphans'
    BY DEF PendingServed
  <2>1. \/ \E i \in JobsOf(d) : job[i].pc \in Recording
        \/ \E b \in Calls : call[b].pc = "add" /\ call[b].of = d
        \/ d \in orphans
    BY <1>8 DEF WebhookStrong, PendingServed
  <2>2. ASSUME NEW i \in JobsOf(d), job[i].pc \in Recording PROVE i \in JobsOf(d)' /\ job'[i].pc \in Recording
    BY <1>2, <1>4, <1>6, <2>2, Blank DEF JobsOf
  <2>3. ASSUME NEW b \in Calls, call[b].pc = "add" /\ call[b].of = d
        PROVE  \/ \E i \in JobsOf(d)' : job'[i].pc \in Recording
               \/ call'[b].pc = "add" /\ call'[b].of = d
    <3>1. CASE b = c
      <4>1. j \in JobsOf(d)' /\ job'[j].pc \in Recording
        BY <1>5, <1>6, <2>3, <3>1 DEF JobsOf, Recording
      <4> QED
        BY <4>1
    <3>2. CASE b # c
      BY <1>7, <2>3, <3>2
    <3> QED
      BY <3>1, <3>2
  <2> QED
    BY <1>8, <2>1, <2>2, <2>3
<1> QED
  BY <1>9, <1>10, <1>11, <1>12, <1>13, <1>14 DEF WebhookStrong

-----------------------------------------------------------------------------

LEMMA WebhookMoves == WebhookStrong /\ [Next]_vars => WebhookStrong'
<1> SUFFICES ASSUME WebhookStrong, [Next]_vars PROVE WebhookStrong'
  OBVIOUS
<1>1. ASSUME NEW j \in Jobs, Work(j) \/ DatabaseError(j) \/ Stall(j)
      PROVE  WebhookStrong'
  BY <1>1, SendStep, RecordDeliveredStep, ClearFailuresStep, RecordFailureStep, ReadFailuresStep,
     CompareFailuresStep, SaveFailuresStep, DatabaseErrorStep, StallStep DEF Work
<1>2. ASSUME NEW c \in Calls, \/ StorePending(c) \/ AddJob(c) \/ LoadHook(c) \/ CompareHook(c)
                              \/ UpdateHook(c) \/ InsertHook(c) \/ Remove(c) \/ Lose(c)
      PROVE  WebhookStrong'
  BY <1>2, StorePendingStep, AddJobStep, LoadHookStep, CompareHookStep, SaveHookStep, RemoveStep, LoseStep
<1>3. CASE UNCHANGED vars
  <2>1. /\ hook' = hook /\ status' = status /\ job' = job /\ call' = call /\ firstAttempt' = firstAttempt
        /\ sent' = sent /\ answered' = answered /\ exhausted' = exhausted /\ orphans' = orphans
    BY <1>3 DEF vars
  <2>2. Typed' /\ JobsFit'
    BY <2>1 DEF WebhookStrong, Typed, JobsFit
  <2>3. RequestsPlaced'
    BY <2>1 DEF WebhookStrong, RequestsPlaced, Places, JobsOf, Requests
  <2>4. CopiesFit'
    BY <2>1 DEF WebhookStrong, CopiesFit, Spent
  <2>5. DeliveredWasAnswered' /\ DeadLetterIsExhausted' /\ PendingServed'
    BY <2>1 DEF WebhookStrong, DeliveredWasAnswered, DeadLetterIsExhausted, PendingServed, JobsOf
  <2> QED
    BY <2>2, <2>3, <2>4, <2>5 DEF WebhookStrong
<1> QED
  BY <1>1, <1>2, <1>3, DispatchStep DEF Next

LEMMA WebhookAlways == Spec => []WebhookStrong
BY WebhookStarts, WebhookMoves, PTL DEF Spec

\* What the rows record of a delivery and of its webhook is true of the requests
\* sent, for any number of deliveries, jobs and overlapping calls: the requests
\* are bounded, DELIVERED was answered, DEAD_LETTER came after the last retry,
\* and the webhook is disabled only by that many failures for good.
THEOREM WebhookInvariant == Spec => []Inv
<1>1. WebhookStrong => Inv
  <2> SUFFICES ASSUME WebhookStrong PROVE Inv
    OBVIOUS
  <2>1. TypeOK
    <3>1. hook = Removed \/ hook \in Hooks
      BY DEF WebhookStrong, CopiesFit, CopyFits
    <3>2. /\ \A j \in Jobs : job[j].of \in Deliveries \union {0} /\ job[j].made \in 0 .. MaxRetries + 1
          /\ \A c \in Calls : call[c].of \in Deliveries \union {0} /\ call[c].changes \subseteq DOMAIN Live
      BY DEF WebhookStrong, Typed, JobRecords, CallRecords
    <3> QED
      BY <3>1, <3>2 DEF TypeOK, Hooks, WebhookStrong, Typed
  <2>2. RequestsBounded
    BY PlacesBounded DEF WebhookStrong
  <2>3. DisabledAfterFailures
    BY WebhookAssumption DEF WebhookStrong, CopiesFit, CopyFits, DisabledAfterFailures
  <2> QED
    BY <2>1, <2>2, <2>3 DEF WebhookStrong, Inv
<1> QED
  BY <1>1, WebhookAlways, PTL

\* Between the save of a PENDING delivery and the end of its job there is always
\* a call or a job to serve it, however dispatches, retries and jobs of the same
\* delivery overlap, unless a step was lost.
THEOREM WebhookPendingIsServed == Spec => []PendingHasJob
<1>1. WebhookStrong => PendingHasJob
  <2> SUFFICES ASSUME WebhookStrong, NEW d \in Deliveries, status[d] = "PENDING"
               PROVE  \/ \E j \in JobsOf(d) : ~Over(j)
                      \/ \E c \in Calls : call[c].pc = "add" /\ call[c].of = d
                      \/ d \in orphans
    BY DEF PendingHasJob
  <2>1. \A j \in JobsOf(d) : job[j].pc \in Recording => ~Over(j)
    BY DEF Over, Recording
  <2> QED
    BY <2>1 DEF WebhookStrong, PendingServed
<1> QED
  BY <1>1, WebhookAlways, PTL

-----------------------------------------------------------------------------
(* The promise: a step does to the deliveries what DeliveryPromise allows. *)

\* The row of a removed webhook is no row.
RemovedApart == Removed \notin Hooks

\* A delivery is stored before a job of it is added.
StoredFirst ==
  /\ \A c \in Calls : call[c].pc = "add" => status[call[c].of] # "none"
  /\ \A j \in Jobs : job[j].pc # "free" => status[job[j].of] # "none"

\* A step of job j leaves every job its delivery, and the other jobs as they are.
Keeps(j) ==
  /\ \A i \in Jobs : job'[i].of = job[i].of
  /\ \A i \in Jobs \ {j} : job'[i] = job[i]

LEMMA HookTyped ==
  ASSUME WebhookStrong
  PROVE  hook = Removed \/ hook \in Hooks
BY DEF WebhookStrong, CopiesFit, CopyFits

LEMMA MergeApart ==
  ASSUME RemovedApart, NEW e \in Hooks, NEW r \in Hooks, NEW fields
  PROVE  Merge(e, fields, r) # Removed
<1> DEFINE q == [f \in {"enabled", "disabled", "failures"} |-> IF f \in fields THEN e[f] ELSE r[f]]
<1>1. /\ q.enabled \in {e.enabled, r.enabled} /\ q.disabled \in {e.disabled, r.disabled}
      /\ q.failures \in {e.failures, r.failures}
      /\ q = [f \in {"enabled", "disabled", "failures"} |-> q[f]]
  OBVIOUS
<1>2. Merge(e, fields, r) = q
  BY Blank DEF Merge, RemovedApart
<1> HIDE DEF q
<1>3. q \in Hooks
  BY <1>1 DEF Hooks
<1> QED
  BY <1>2, <1>3 DEF RemovedApart

\* The forms that the steps of a job give it.
LEMMA MovedKeeps ==
  ASSUME WebhookStrong, NEW j \in Jobs, NEW pc, NEW e, NEW fields,
         \/ JobAt(j, pc) \/ job' = RetryOrFail(j)
         \/ job' = [job EXCEPT ![j].pc = pc, ![j].seen = e]
         \/ job' = [job EXCEPT ![j].pc = pc, ![j].changes = fields]
  PROVE  Keeps(j) /\ job'[j].stalled = job[j].stalled
<1>1. job \in [Jobs -> JobRecords] /\ job[j] \in JobRecords
  BY JobFacts
<1>2. CASE JobAt(j, pc)
  BY <1>1, <1>2 DEF JobAt, JobRecords, Keeps
<1>3. CASE job' = RetryOrFail(j)
  BY <1>1, <1>3 DEF RetryOrFail, JobRecords, Keeps
<1>4. CASE job' = [job EXCEPT ![j].pc = pc, ![j].seen = e]
  BY <1>1, <1>4 DEF JobRecords, Keeps
<1>5. CASE job' = [job EXCEPT ![j].pc = pc, ![j].changes = fields]
  BY <1>1, <1>5 DEF JobRecords, Keeps
<1> QED
  BY <1>2, <1>3, <1>4, <1>5

\* Only a lost worker marks a job stalled.
LEMMA WorkKeeps ==
  ASSUME WebhookStrong, NEW j \in Jobs, Work(j) \/ DatabaseError(j)
  PROVE  /\ job[j].pc # "free" /\ call' = call
         /\ Keeps(j) /\ job'[j].stalled = job[j].stalled
<1>1. CASE Send(j)
  BY <1>1, MovedKeeps DEF Send
<1>2. CASE RecordDelivered(j)
  BY <1>2, MovedKeeps DEF RecordDelivered
<1>3. CASE ClearFailures(j)
  BY <1>3, MovedKeeps DEF ClearFailures
<1>4. CASE RecordFailure(j)
  <2>1. JobAt(j, "exhausted") \/ job' = RetryOrFail(j)
    BY <1>4 DEF RecordFailure, JobAt
  <2> QED
    BY <1>4, <2>1, MovedKeeps DEF RecordFailure
<1>5. CASE ReadFailures(j)
  <2>1. job' = RetryOrFail(j) \/ job' = [job EXCEPT ![j].pc = "save", ![j].seen = Counted(hook)]
    BY <1>5 DEF ReadFailures
  <2> QED
    BY <1>5, <2>1, MovedKeeps DEF ReadFailures
<1>6. CASE CompareFailures(j)
  <2>1. \/ JobAt(j, "insert")
        \/ job' = [job EXCEPT ![j].pc = "update", ![j].changes = Differing(job[j].seen, hook)]
    BY <1>6 DEF CompareFailures
  <2>2. Keeps(j) /\ job'[j].stalled = job[j].stalled
    <3>1. CASE JobAt(j, "insert")
      BY <3>1, MovedKeeps
    <3>2. CASE job' = [job EXCEPT ![j].pc = "update", ![j].changes = Differing(job[j].seen, hook)]
      <4>1. PICK fields : fields = Differing(job[j].seen, hook)
        OBVIOUS
      <4> QED
        BY <3>2, <4>1, MovedKeeps
    <3> QED
      BY <2>1, <3>1, <3>2
  <2>3. job[j].pc = "save" /\ call' = call
    BY <1>6 DEF CompareFailures
  <2> QED
    BY <2>2, <2>3
<1>7. CASE UpdateFailures(j) \/ InsertFailures(j)
  <2>1. job' = RetryOrFail(j) /\ job[j].pc # "free" /\ call' = call
    BY <1>7 DEF UpdateFailures, InsertFailures
  <2>2. Keeps(j) /\ job'[j].stalled = job[j].stalled
    BY <2>1, JobFacts DEF RetryOrFail, JobRecords, Keeps
  <2> QED
    BY <2>1, <2>2
<1>8. CASE DatabaseError(j)
  <2>1. JobAt(j, "unanswered") \/ job' = RetryOrFail(j)
    BY <1>8 DEF DatabaseError
  <2> QED
    BY <1>8, <2>1, MovedKeeps DEF DatabaseError
<1> QED
  BY <1>1, <1>2, <1>3, <1>4, <1>5, <1>6, <1>7, <1>8 DEF Work

LEMMA StallKeeps ==
  ASSUME WebhookStrong, NEW j \in Jobs, Stall(j)
  PROVE  /\ job[j].pc # "free" /\ call' = call /\ Keeps(j) /\ job'[j].stalled = TRUE
         /\ UNCHANGED <<hook, status, sent, answered>>
<1>1. job \in [Jobs -> JobRecords] /\ job[j] \in JobRecords
  BY JobFacts
<1>2. PICK pc : job' = [job EXCEPT ![j].stalled = TRUE, ![j].seen = Live, ![j].changes = {}, ![j].pc = pc]
  BY DEF Stall
<1>3. PICK k : k = [job[j] EXCEPT !.stalled = TRUE, !.seen = Live, !.changes = {}, !.pc = pc]
  OBVIOUS
<1>4. job' = [job EXCEPT ![j] = k] /\ k.of = job[j].of /\ k.stalled = TRUE
  BY <1>1, <1>2, <1>3 DEF JobRecords
<1>5. Keeps(j) /\ job'[j].stalled = TRUE
  BY <1>1, <1>4 DEF Keeps
<1> QED
  BY <1>5 DEF Stall, Processing

\* The job that a call adds is a new one, of the call's delivery.
LEMMA AddKeeps ==
  ASSUME WebhookStrong, NEW c \in Calls, AddJob(c)
  PROVE  \E j \in Jobs :
           /\ job[j].of = 0 /\ ~job[j].stalled /\ job'[j].of = call[c].of /\ ~job'[j].stalled
           /\ \A i \in Jobs \ {j} : job'[i] = job[i]
<1>1. PICK j \in Jobs : job[j] = Free /\ job' = [job EXCEPT ![j] = [Free EXCEPT !.of = call[c].of, !.pc = "waiting"]]
  BY DEF AddJob, NextJob
<1>2. PICK k : k = [Free EXCEPT !.of = call[c].of, !.pc = "waiting"]
  OBVIOUS
<1>3. k.of = call[c].of /\ ~k.stalled
  BY <1>2, Blank DEF JobRecords
<1>4. job'[j] = k /\ \A i \in Jobs \ {j} : job'[i] = job[i]
  BY <1>1, <1>2 DEF WebhookStrong, Typed
<1> QED
  BY <1>1, <1>3, <1>4, Blank

LEMMA StoredStep ==
  ASSUME WebhookStrong, StoredFirst, [Next]_vars
  PROVE  StoredFirst'
<1>0. /\ \A j \in Jobs : job[j].pc # "free" => job[j].of \in Deliveries
      /\ \A c \in Calls : call[c].pc = "add" => call[c].of \in Deliveries
      /\ call \in [Calls -> CallRecords] /\ status \in [Deliveries -> Statuses]
  BY DEF WebhookStrong, Typed, JobsFit, JobFits
<1>1. ASSUME NEW j \in Jobs, Work(j) \/ DatabaseError(j) \/ Stall(j)
      PROVE  StoredFirst'
  <2>1. job[j].pc # "free" /\ call' = call /\ Keeps(j)
    BY <1>1, WorkKeeps, StallKeeps
  <2>2. \A d \in Deliveries : status[d] # "none" => status'[d] # "none"
    BY <1>0, <1>1 DEF Work, Send, RecordDelivered, ClearFailures, RecordFailure, ReadFailures, CompareFailures,
                      UpdateFailures, InsertFailures, DatabaseError, Stall, Record
  <2>3. ASSUME NEW i \in Jobs, job'[i].pc # "free" PROVE status'[job'[i].of] # "none"
    <3>1. job[i].pc # "free" /\ job'[i].of = job[i].of
      BY <2>1, <2>3 DEF Keeps
    <3> QED
      BY <1>0, <2>2, <3>1 DEF StoredFirst
  <2> QED
    BY <1>0, <2>1, <2>2, <2>3 DEF StoredFirst
<1>2. ASSUME NEW c \in Calls, NEW d \in Deliveries, Dispatch(c, d) \/ Retry(c, d)
      PROVE  StoredFirst'
  <2>1. PICK k \in CallRecords : call' = [call EXCEPT ![c] = k] /\ k.pc = "store"
    <3>1. PICK kind \in {"dispatch", "retry"} :
            call' = [call EXCEPT ![c] = [Idle EXCEPT !.kind = kind, !.of = d, !.pc = "store"]]
      BY <1>2 DEF Dispatch, Retry
    <3>2. PICK k : k = [Idle EXCEPT !.kind = kind, !.of = d, !.pc = "store"]
      OBVIOUS
    <3>3. k \in CallRecords /\ k.pc = "store"
      BY <3>2, Blank DEF CallRecords, CallStages
    <3> QED
      BY <3>1, <3>2, <3>3
  <2>2. status' = status /\ job' = job
    BY <1>2 DEF Dispatch, Retry
  <2> QED
    BY <1>0, <2>1, <2>2 DEF StoredFirst
<1>3. ASSUME NEW c \in Calls, \/ LoadHook(c) \/ CompareHook(c) \/ UpdateHook(c)
                              \/ InsertHook(c) \/ Remove(c) \/ Lose(c)
      PROVE  StoredFirst'
  <2>1. /\ job' = job /\ \A d \in Deliveries : status[d] # "none" => status'[d] # "none"
    BY <1>3 DEF LoadHook, CompareHook, UpdateHook, InsertHook, Remove, Lose, history
  <2>2. /\ \A b \in Calls \ {c} : call'[b] = call[b]
        /\ call'[c].pc # "add"
    <3>1. CASE LoadHook(c)
      <4>1. PICK e : call' = [call EXCEPT ![c] = [Idle EXCEPT !.kind = "edit", !.pc = "save", !.seen = e]]
        BY <3>1 DEF LoadHook
      <4> QED
        BY <1>0, <4>1 DEF Idle
    <3>2. CASE CompareHook(c)
      <4>1. CASE hook = Removed
        BY <1>0, <3>2, <4>1 DEF CompareHook, CallAt, CallRecords
      <4>2. CASE hook # Removed
        BY <1>0, <3>2, <4>2 DEF CompareHook, CallRecords
      <4> QED
        BY <4>1, <4>2
    <3>3. CASE call' = [call EXCEPT ![c] = Done]
      BY <1>0, <3>3, Blank
    <3> QED
      BY <1>3, <3>1, <3>2, <3>3 DEF UpdateHook, InsertHook, Remove, Lose, Finish
  <2> QED
    BY <1>0, <2>1, <2>2 DEF StoredFirst
<1>4. ASSUME NEW c \in Calls, StorePending(c)
      PROVE  StoredFirst'
  <2>1. job' = job /\ call[c].pc = "store" /\ call[c].of \in Deliveries
    BY <1>4, CallFacts DEF StorePending
  <2>2. CASE hook = Removed
    BY <1>0, <1>4, <2>1, <2>2, Blank DEF StorePending, Finish, StoredFirst
  <2>3. CASE hook # Removed
    <3>1. status' = [status EXCEPT ![call[c].of] = "PENDING"] /\ call' = [call EXCEPT ![c].pc = "add"]
      BY <1>4, <2>3 DEF StorePending, CallAt
    <3>2. \A b \in Calls : call'[b].of = call[b].of /\ (b # c => call'[b] = call[b])
      BY <1>0, <3>1 DEF CallRecords
    <3>3. status'[call[c].of] = "PENDING" /\ \A d \in Deliveries : status[d] # "none" => status'[d] # "none"
      BY <1>0, <2>1, <3>1
    <3> QED
      BY <1>0, <2>1, <3>2, <3>3 DEF StoredFirst
  <2> QED
    BY <2>2, <2>3
<1>5. ASSUME NEW c \in Calls, AddJob(c)
      PROVE  StoredFirst'
  <2>1. /\ status' = status /\ call[c].pc = "add" /\ call' = [call EXCEPT ![c] = Done]
    BY <1>5 DEF AddJob, Finish
  <2>2. \A i \in Jobs : job'[i] = job[i] \/ job'[i].of = call[c].of
    BY <1>5, AddKeeps
  <2> QED
    BY <1>0, <2>1, <2>2, Blank DEF StoredFirst
<1>6. CASE UNCHANGED vars
  BY <1>6 DEF vars, StoredFirst
<1> QED
  BY <1>1, <1>2, <1>3, <1>4, <1>5, <1>6 DEF Next

\* Jobs that keep their delivery, and are stalled or not as they were, have been
\* granted as many requests as before.
LEMMA SameGrants ==
  ASSUME \A i \in Jobs : job'[i].of = job[i].of /\ job'[i].stalled = job[i].stalled
  PROVE  granted' = granted
<1> DEFINE S(d) == {j \in JobsOf(d) : job[j].stalled}
<1>1. ASSUME NEW d \in Deliveries PROVE JobsOf(d)' = JobsOf(d) /\ S(d)' = S(d)
  <2>1. JobsOf(d)' = JobsOf(d)
    BY DEF JobsOf
  <2>2. \A j \in JobsOf(d) : job'[j].stalled = job[j].stalled
    BY DEF JobsOf
  <2> QED
    BY <2>1, <2>2
<1>2. \A d \in Deliveries : Granted(d)' = Granted(d)
  BY <1>1 DEF Granted
<1> QED
  BY <1>2 DEF granted

LEMMA GrantsFinite ==
  ASSUME WebhookStrong, NEW d \in Deliveries
  PROVE  /\ IsFiniteSet(JobsOf(d)) /\ IsFiniteSet({j \in JobsOf(d) : job[j].stalled})
         /\ Cardinality(JobsOf(d)) \in Nat /\ Cardinality({j \in JobsOf(d) : job[j].stalled}) \in Nat
         /\ MaxRetries \in Nat /\ (MaxRetries + 1) * Cardinality(JobsOf(d)) \in Nat /\ Granted(d) \in Nat
<1>1. IsFiniteSet(JobsOf(d)) /\ MaxRetries \in Nat
  BY WebhookAssumption DEF WebhookStrong, RequestsPlaced
<1> DEFINE S == {j \in JobsOf(d) : job[j].stalled}
<1>2. S \in SUBSET JobsOf(d)
  OBVIOUS
<1>3. IsFiniteSet(S)
  BY <1>1, <1>2, FS_Subset
<1>4. Cardinality(JobsOf(d)) \in Nat /\ Cardinality(S) \in Nat
  BY <1>1, <1>3, FS_CardinalityType
<1>5. (MaxRetries + 1) * Cardinality(JobsOf(d)) \in Nat
  BY <1>1, <1>4
<1> QED
  BY <1>1, <1>3, <1>4, <1>5 DEF Granted

\* A new job of delivery d grants maxRetries + 1 requests for it.
LEMMA JobGrants ==
  ASSUME WebhookStrong, NEW d \in Deliveries, NEW j \in Jobs, job[j].of = 0, job'[j].of = d, ~job'[j].stalled,
         \A i \in Jobs \ {j} : job'[i] = job[i]
  PROVE  granted' = [granted EXCEPT ![d] = @ + (MaxRetries + 1)]
<1>1. 0 \notin Deliveries
  BY WebhookAssumption
<1> DEFINE S(e) == {i \in JobsOf(e) : job[i].stalled}
<1>2. ASSUME NEW e \in Deliveries, e # d PROVE Granted(e)' = Granted(e)
  <2>1. JobsOf(e)' = JobsOf(e) /\ j \notin JobsOf(e)
    BY <1>1, <1>2 DEF JobsOf
  <2>2. \A i \in JobsOf(e) : job'[i] = job[i]
    BY <2>1 DEF JobsOf
  <2>3. S(e)' = S(e)
    BY <2>1, <2>2
  <2> QED
    BY <2>1, <2>3 DEF Granted
<1>3. Granted(d)' = Granted(d) + (MaxRetries + 1)
  <2>1. JobsOf(d)' = JobsOf(d) \cup {j} /\ j \notin JobsOf(d)
    BY <1>1 DEF JobsOf
  <2>2. \A i \in JobsOf(d) : job'[i] = job[i]
    BY <2>1 DEF JobsOf
  <2>3. S(d)' = S(d)
    BY <2>1, <2>2
  <2>4. Cardinality(JobsOf(d)') = Cardinality(JobsOf(d)) + 1
    BY <2>1, GrantsFinite, FS_AddElement
  <2>5. PICK a \in Nat, b \in Nat, m \in Nat :
          a = Cardinality(JobsOf(d)) /\ b = Cardinality(S(d)) /\ m = MaxRetries
    BY GrantsFinite
  <2>6. Granted(d) = (m + 1) * a + b /\ Granted(d)' = (m + 1) * (a + 1) + b
    BY <2>3, <2>4, <2>5 DEF Granted
  <2>7. (m + 1) * (a + 1) = (m + 1) * a + (m + 1)
    OBVIOUS
  <2>8. (m + 1) * a \in Nat
    OBVIOUS
  <2> QED
    BY <2>5, <2>6, <2>7, <2>8
<1> QED
  BY <1>2, <1>3 DEF granted

\* A job of delivery d stalled for the first time grants one request more.
LEMMA StallGrants ==
  ASSUME WebhookStrong, NEW j \in Jobs, NEW d \in Deliveries, d = job[j].of, Keeps(j),
         ~job[j].stalled, job'[j].stalled
  PROVE  granted' = [granted EXCEPT ![d] = @ + 1]
<1> DEFINE S(e) == {i \in JobsOf(e) : job[i].stalled}
<1>1. \A e \in Deliveries : JobsOf(e)' = JobsOf(e)
  BY DEF JobsOf, Keeps
<1>2. ASSUME NEW e \in Deliveries, e # d PROVE Granted(e)' = Granted(e)
  <2>1. \A i \in JobsOf(e) : job'[i] = job[i]
    BY <1>2 DEF JobsOf, Keeps
  <2>2. S(e)' = S(e)
    BY <1>1, <2>1
  <2> QED
    BY <1>1, <2>2 DEF Granted
<1>3. Granted(d)' = Granted(d) + 1
  <2>1. S(d)' = S(d) \cup {j} /\ j \notin S(d)
    <3>1. j \in JobsOf(d) /\ j \notin S(d)
      BY DEF JobsOf
    <3>2. \A i \in JobsOf(d) \ {j} : job'[i].stalled = job[i].stalled
      BY DEF JobsOf, Keeps
    <3>3. S(d)' = {i \in JobsOf(d) : job'[i].stalled}
      BY <1>1
    <3>4. \A i \in JobsOf(d) : i \in S(d)' <=> i \in S(d) \/ i = j
      BY <3>2, <3>3
    <3> QED
      BY <3>1, <3>3, <3>4
  <2>2. Cardinality(S(d)') = Cardinality(S(d)) + 1
    BY <2>1, GrantsFinite, FS_AddElement
  <2>3. (MaxRetries + 1) * Cardinality(JobsOf(d)) \in Nat /\ Cardinality(S(d)) \in Nat
    BY GrantsFinite
  <2>4. /\ Granted(d) = (MaxRetries + 1) * Cardinality(JobsOf(d)) + Cardinality(S(d))
        /\ Granted(d)' = (MaxRetries + 1) * Cardinality(JobsOf(d)) + Cardinality(S(d)')
    BY <1>1 DEF Granted
  <2> QED
    BY <2>2, <2>3, <2>4
<1> QED
  BY <1>2, <1>3 DEF granted

\* A step of a job that leaves the rows alone.
LEMMA QuietPromise ==
  ASSUME WebhookStrong, NEW j \in Jobs, Work(j) \/ DatabaseError(j), UNCHANGED <<status, sent, answered>>,
         hook' = Removed <=> hook = Removed
  PROVE  UNCHANGED Promise!promiseVars
<1>1. \A i \in Jobs : job'[i].of = job[i].of /\ job'[i].stalled = job[i].stalled
  BY WorkKeeps DEF Keeps
<1>2. granted' = granted
  BY <1>1, SameGrants
<1> QED
  BY <1>2 DEF Promise!promiseVars

LEMMA SendPromise ==
  ASSUME WebhookStrong, WebhookStrong', StoredFirst, NEW j \in Jobs, Send(j)
  PROVE  Promise!Request(job[j].of)
<1>1. /\ job[j].pc = "waiting" /\ UNCHANGED <<hook, status>> /\ sent' = [sent EXCEPT ![job[j].of] = @ + 1]
      /\ answered' \in {answered, answered \union {job[j].of}}
  BY DEF Send
<1>2. job[j].of \in Deliveries /\ sent \in [Deliveries -> Nat] /\ status[job[j].of] # "none"
  BY <1>1, JobFacts DEF JobFits, StoredFirst
<1>3. granted' = granted
  BY WorkKeeps, SameGrants DEF Keeps, Work
<1>4. sent[job[j].of] < granted[job[j].of]
  <2>1. RequestsBounded'
    BY PlacesBounded, PTL DEF WebhookStrong
  <2>2. sent'[job[j].of] <= granted'[job[j].of]
    BY <1>2, <2>1 DEF RequestsBounded, granted
  <2>3. sent'[job[j].of] = sent[job[j].of] + 1 /\ sent[job[j].of] \in Nat /\ granted[job[j].of] \in Nat
    BY <1>1, <1>2, GrantsFinite DEF granted
  <2> QED
    BY <1>3, <2>2, <2>3
<1> QED
  BY <1>1, <1>2, <1>3, <1>4 DEF Promise!Request, Promise!Stored

\* What a job records has been earned, or there is no row to record it.
LEMMA RecordPromise ==
  ASSUME WebhookStrong, StoredFirst, NEW j \in Jobs, Work(j), NEW s \in Promise!Earned(job[j].of),
         job[j].of \in Deliveries, Record(job[j].of, s), UNCHANGED <<hook, sent, answered>>
  PROVE  Promise!Record(job[j].of) \/ UNCHANGED Promise!promiseVars
<1>1. granted' = granted
  BY WorkKeeps, SameGrants DEF Keeps
<1>2. status[job[j].of] # "none" /\ status \in [Deliveries -> Statuses]
  BY WorkKeeps, JobFacts DEF StoredFirst
<1>3. CASE status[job[j].of] = "removed"
  <2>1. status' = status
    BY <1>2, <1>3 DEF Record
  <2> QED
    BY <1>1, <2>1 DEF Promise!promiseVars
<1>4. CASE status[job[j].of] # "removed"
  <2>1. status' = [status EXCEPT ![job[j].of] = s]
    BY <1>2, <1>4 DEF Record
  <2> QED
    BY <1>1, <1>2, <1>4, <2>1 DEF Promise!Record, Promise!Stored
<1> QED
  BY <1>3, <1>4

LEMMA WorkPromise ==
  ASSUME RemovedApart, WebhookStrong, WebhookStrong', StoredFirst, NEW j \in Jobs, Work(j) \/ DatabaseError(j)
  PROVE  \/ Promise!Restore \/ \E d \in Deliveries : Promise!Request(d) \/ Promise!Record(d)
         \/ UNCHANGED Promise!promiseVars
<1>1. job[j].of \in Deliveries /\ firstAttempt \in {0, 1} /\ MaxRetries \in Nat /\ sent \in [Deliveries -> Nat]
  BY WorkKeeps, JobFacts DEF JobFits
<1>2. CASE Send(j)
  BY <1>1, <1>2, SendPromise
<1>3. CASE RecordDelivered(j)
  <2>1. job[j].of \in answered
    BY <1>3, JobFacts DEF RecordDelivered, JobFits
  <2>2. "DELIVERED" \in Promise!Earned(job[j].of)
    BY <2>1 DEF Promise!Earned
  <2> QED
    BY <1>1, <1>3, <2>2, RecordPromise DEF RecordDelivered, history, Work
<1>4. CASE RecordFailure(j)
  <2> DEFINE s == IF FinalAttempt(j) THEN "DEAD_LETTER" ELSE "FAILED"
  <2>1. job[j].made + 1 <= sent[job[j].of] /\ job[j].made \in Nat /\ sent[job[j].of] \in Nat
    BY <1>1, <1>4, JobFacts DEF RecordFailure, JobFits, Sending
  <2>2. FinalAttempt(j) => sent[job[j].of] >= MaxRetries + 1
    BY <1>1, <2>1 DEF FinalAttempt
  <2>3. s \in Promise!Earned(job[j].of)
    BY <2>1, <2>2 DEF Promise!Earned
  <2> QED
    BY <1>1, <1>4, <2>3, RecordPromise DEF RecordFailure, Work
<1>5. CASE ClearFailures(j) \/ ReadFailures(j) \/ CompareFailures(j) \/ UpdateFailures(j) \/ DatabaseError(j)
  <2>1. UNCHANGED <<status, sent, answered>>
    BY <1>5 DEF ClearFailures, ReadFailures, CompareFailures, UpdateFailures, DatabaseError, history
  <2>2. hook' = Removed <=> hook = Removed
    <3>1. CASE ReadFailures(j) \/ CompareFailures(j) \/ DatabaseError(j)
      BY <3>1 DEF ReadFailures, CompareFailures, DatabaseError
    <3>2. CASE ClearFailures(j)
      <4>1. CASE hook # Removed
        <5>1. hook \in Hooks /\ hook' = [hook EXCEPT !.failures = 0]
          BY <3>2, <4>1, HookTyped DEF ClearFailures
        <5>2. hook' \in Hooks
          BY <5>1 DEF Hooks
        <5> QED
          BY <4>1, <5>2 DEF RemovedApart
      <4> QED
        BY <3>2, <4>1 DEF ClearFailures
    <3>3. CASE UpdateFailures(j)
      <4>1. CASE hook # Removed
        <5>1. hook \in Hooks /\ job[j].seen \in Hooks
          BY <4>1, HookTyped, JobFacts DEF JobRecords
        <5> QED
          BY <3>3, <4>1, <5>1, MergeApart DEF UpdateFailures
      <4> QED
        BY <3>3, <4>1 DEF UpdateFailures, Merge
    <3> QED
      BY <1>5, <3>1, <3>2, <3>3
  <2> QED
    BY <1>5, <2>1, <2>2, QuietPromise DEF Work
<1>6. CASE InsertFailures(j)
  <2>1. UNCHANGED <<status, sent, answered>> /\ hook' = IF hook = Removed THEN job[j].seen ELSE hook
    BY <1>6 DEF InsertFailures, Restore, history
  <2>2. job[j].seen # Removed
    BY JobFacts DEF JobRecords, RemovedApart
  <2>3. \A i \in Jobs : job'[i].of = job[i].of /\ job'[i].stalled = job[i].stalled
    BY <1>6, WorkKeeps DEF Keeps, Work
  <2>4. granted' = granted
    BY <2>3, SameGrants
  <2> QED
    BY <2>1, <2>2, <2>4 DEF Promise!Restore, Promise!promiseVars
<1> QED
  BY <1>2, <1>3, <1>4, <1>5, <1>6 DEF Work

LEMMA StallPromise ==
  ASSUME WebhookStrong, StoredFirst, NEW j \in Jobs, Stall(j)
  PROVE  Promise!Grant(job[j].of) \/ UNCHANGED Promise!promiseVars
<1>1. /\ job[j].pc # "free" /\ Keeps(j) /\ job'[j].stalled = TRUE
      /\ UNCHANGED <<hook, status, sent, answered>>
  BY StallKeeps
<1>2. job[j].of \in Deliveries /\ status[job[j].of] # "none" /\ job[j].stalled \in BOOLEAN
  BY <1>1, JobFacts DEF JobFits, StoredFirst, JobRecords
<1>3. CASE job[j].stalled
  <2>1. job'[j].stalled = job[j].stalled
    BY <1>1, <1>2, <1>3
  <2>2. \A i \in Jobs : job'[i].of = job[i].of /\ job'[i].stalled = job[i].stalled
    BY <1>1, <2>1 DEF Keeps
  <2> QED
    BY <1>1, <2>2, SameGrants DEF Promise!promiseVars
<1>4. CASE ~job[j].stalled
  <2>1. granted' = [granted EXCEPT ![job[j].of] = @ + 1]
    BY <1>1, <1>2, <1>4, StallGrants
  <2> QED
    BY <1>1, <1>2, <2>1 DEF Promise!Grant, Promise!Stored
<1> QED
  BY <1>3, <1>4

\* A call that adds no job and stores nothing.
LEMMA QuietCallPromise ==
  ASSUME WebhookStrong, job' = job, UNCHANGED <<status, sent, answered>>, hook' = Removed <=> hook = Removed
  PROVE  UNCHANGED Promise!promiseVars
<1>1. granted' = granted
  BY SameGrants
<1> QED
  BY <1>1 DEF Promise!promiseVars

LEMMA CallPromise ==
  ASSUME RemovedApart, WebhookStrong, StoredFirst, NEW c \in Calls,
         \/ StorePending(c) \/ AddJob(c) \/ LoadHook(c) \/ CompareHook(c)
         \/ UpdateHook(c) \/ InsertHook(c) \/ Remove(c) \/ Lose(c)
  PROVE  \/ Promise!Remove \/ Promise!Restore \/ \E d \in Deliveries : Promise!Store(d) \/ Promise!Grant(d)
         \/ UNCHANGED Promise!promiseVars
<1>1. CASE StorePending(c)
  <2>1. job' = job /\ UNCHANGED <<hook, sent, answered>> /\ call[c].of \in Deliveries
    BY <1>1, CallFacts DEF StorePending, history
  <2>2. granted' = granted
    BY <2>1, SameGrants
  <2>3. CASE hook = Removed
    BY <1>1, <2>1, <2>2, <2>3 DEF StorePending, Promise!promiseVars
  <2>4. CASE hook # Removed
    BY <1>1, <2>1, <2>2, <2>4 DEF StorePending, Promise!Store
  <2> QED
    BY <2>3, <2>4
<1>2. CASE AddJob(c)
  <2>1. /\ UNCHANGED <<hook, status, sent, answered>> /\ call[c].of \in Deliveries
        /\ status[call[c].of] # "none" /\ MaxRetries \in Nat
    BY <1>2, CallFacts, WebhookAssumption DEF AddJob, history, StoredFirst
  <2>2. granted' = [granted EXCEPT ![call[c].of] = @ + (MaxRetries + 1)]
    BY <1>2, <2>1, AddKeeps, JobGrants
  <2> QED
    BY <2>1, <2>2 DEF Promise!Grant, Promise!Stored
<1>3. CASE LoadHook(c) \/ CompareHook(c) \/ UpdateHook(c) \/ Lose(c)
  <2>1. job' = job /\ UNCHANGED <<status, sent, answered>>
    BY <1>3 DEF LoadHook, CompareHook, UpdateHook, Lose, history
  <2>2. hook' = Removed <=> hook = Removed
    <3>1. CASE LoadHook(c) \/ CompareHook(c) \/ Lose(c)
      BY <3>1 DEF LoadHook, CompareHook, Lose
    <3>2. CASE UpdateHook(c)
      <4>1. CASE hook # Removed
        <5>1. hook \in Hooks /\ call[c].seen \in Hooks
          BY <4>1, HookTyped, CallFacts DEF CallRecords
        <5> QED
          BY <3>2, <4>1, <5>1, MergeApart DEF UpdateHook
      <4> QED
        BY <3>2, <4>1 DEF UpdateHook, Merge
    <3> QED
      BY <1>3, <3>1, <3>2
  <2> QED
    BY <2>1, <2>2, QuietCallPromise
<1>4. CASE Remove(c)
  <2>1. /\ hook # Removed /\ hook' = Removed /\ job' = job /\ UNCHANGED <<sent, answered>>
        /\ status' = [d \in Deliveries |-> IF status[d] = "none" THEN "none" ELSE "removed"]
    BY <1>4 DEF Remove, history
  <2>2. granted' = granted
    BY <2>1, SameGrants
  <2>3. status' = [d \in Deliveries |-> IF Promise!Stored(d) THEN "removed" ELSE "none"]
    BY <2>1 DEF Promise!Stored
  <2> QED
    BY <2>1, <2>2, <2>3 DEF Promise!Remove
<1>5. CASE InsertHook(c)
  <2>1. /\ job' = job /\ UNCHANGED <<status, sent, answered>>
        /\ hook' = IF hook = Removed THEN call[c].seen ELSE hook
    BY <1>5 DEF InsertHook, Restore, history
  <2>2. call[c].seen # Removed
    BY CallFacts DEF CallRecords, RemovedApart
  <2>3. granted' = granted
    BY <2>1, SameGrants
  <2> QED
    BY <2>1, <2>2, <2>3 DEF Promise!Restore, Promise!promiseVars
<1> QED
  BY <1>1, <1>2, <1>3, <1>4, <1>5

LEMMA StepPromise ==
  ASSUME RemovedApart, WebhookStrong, WebhookStrong', StoredFirst, [Next]_vars
  PROVE  [Promise!PromiseNext]_(Promise!promiseVars)
<1>1. ASSUME NEW j \in Jobs, Work(j) \/ DatabaseError(j) \/ Stall(j)
      PROVE  [Promise!PromiseNext]_(Promise!promiseVars)
  <2>1. CASE Work(j) \/ DatabaseError(j)
    BY <2>1, WorkPromise DEF Promise!PromiseNext
  <2>2. CASE Stall(j)
    <3>1. job[j].of \in Deliveries
      BY <2>2, StallKeeps, JobFacts DEF JobFits
    <3> QED
      BY <2>2, <3>1, StallPromise DEF Promise!PromiseNext
  <2> QED
    BY <1>1, <2>1, <2>2
<1>2. ASSUME NEW c \in Calls, \/ StorePending(c) \/ AddJob(c) \/ LoadHook(c) \/ CompareHook(c)
                              \/ UpdateHook(c) \/ InsertHook(c) \/ Remove(c) \/ Lose(c)
      PROVE  [Promise!PromiseNext]_(Promise!promiseVars)
  BY <1>2, CallPromise DEF Promise!PromiseNext
<1>3. ASSUME NEW c \in Calls, NEW d \in Deliveries, Dispatch(c, d) \/ Retry(c, d)
      PROVE  UNCHANGED Promise!promiseVars
  <2>1. job' = job /\ UNCHANGED <<hook, status, sent, answered>>
    BY <1>3 DEF Dispatch, Retry, history
  <2> QED
    BY <2>1, QuietCallPromise
<1>4. CASE UNCHANGED vars
  <2>1. job' = job /\ UNCHANGED <<hook, status, sent, answered>>
    BY <1>4 DEF vars
  <2> QED
    BY <2>1, QuietCallPromise
<1> QED
  BY <1>1, <1>2, <1>3, <1>4 DEF Next

\* Whatever dispatches, retries, edits and jobs overlap, and whichever of them
\* are lost, a delivery goes the way DeliveryPromise gives it: it is stored before
\* a request is made, its requests stay within what its queueings have granted,
\* what is recorded of it has been earned, and when its webhook was removed only
\* a new queueing stores it again, also after a save brought the webhook back.
THEOREM WebhookImplementsPromise ==
  ASSUME RemovedApart
  PROVE  Spec => ImplementsPromise
<1>1. Init => StoredFirst
  BY Blank DEF Init, StoredFirst
<1>2. WebhookStrong /\ StoredFirst /\ [Next]_vars => StoredFirst'
  BY StoredStep
<1>3. Spec => [](WebhookStrong /\ StoredFirst)
  BY <1>1, <1>2, WebhookAlways, PTL DEF Spec
<1>4. Init => Promise!PromiseInit
  <2> SUFFICES ASSUME Init PROVE Promise!PromiseInit
    OBVIOUS
  <2>1. hook # Removed
    BY Blank DEF Init, RemovedApart
  <2>2. granted = [d \in Deliveries |-> 0]
    <3>1. ASSUME NEW d \in Deliveries PROVE Granted(d) = 0
      <4>1. JobsOf(d) = {} /\ {j \in JobsOf(d) : job[j].stalled} = {}
        BY Blank, WebhookAssumption DEF Init, JobsOf
      <4>2. Cardinality(JobsOf(d)) = 0 /\ Cardinality({j \in JobsOf(d) : job[j].stalled}) = 0
        BY <4>1, FS_EmptySet
      <4> QED
        BY <4>2, WebhookAssumption DEF Granted
    <3> QED
      BY <3>1 DEF granted
  <2> QED
    BY <2>1, <2>2 DEF Init, Promise!PromiseInit
<1>5. WebhookStrong /\ StoredFirst /\ (WebhookStrong /\ StoredFirst)' /\ [Next]_vars
        => [Promise!PromiseNext]_(Promise!promiseVars)
  BY StepPromise
<1> QED
  BY <1>3, <1>4, <1>5, PTL DEF Spec, ImplementsPromise, Promise!PromiseSpec

=============================================================================
