---------------------------- MODULE SchedulerProofs ----------------------------
(***************************************************************************)
(* Theorems about the scheduler, for any number of jobs, any periods and a *)
(* clock of any width.                                                     *)
(***************************************************************************)
EXTENDS Scheduler, TLAPS

LEMMA WrapIsTime == ASSUME NEW t \in Int PROVE Wrap(t) \in Time
BY TimesAreNatural DEF Wrap, Time

\* Jobs never change identity, policy or period; what a step may change of one.
SameJob(job, old) == job.id = old.id /\ job.policy = old.policy /\ job.period = old.period

LEMMA CompletedJob ==
  ASSUME NEW job \in Job, (job.policy = "Periodic") <=> (job.period # 0), now \in Time
  PROVE  /\ Completed(job) \in Job
         /\ SameJob(Completed(job), job)
         /\ job.policy = "Periodic" => Completed(job).pending = job.pending
         /\ job.policy # "Periodic" => Completed(job).pending = FALSE
<1>1. CASE job.policy = "Periodic"
  <2> DEFINE next == NextDeadline(job)
  <2>1. job.period \in Nat \ {0} /\ job.deadline \in Int /\ now \in Int
    BY <1>1, TimesAreNatural DEF Job, Time
  <2>2. ElapsedPeriods(job) \in Int
    BY <2>1, WrapIsTime, TimesAreNatural DEF ElapsedPeriods, Time
  <2>3. next \in Time
    <3>1. (ElapsedPeriods(job) + 1) * job.period \in Int
      BY <2>1, <2>2
    <3>2. job.deadline + (ElapsedPeriods(job) + 1) * job.period \in Int
      BY <2>1, <3>1
    <3> QED
      BY <3>2, WrapIsTime DEF NextDeadline
  <2>4. Completed(job) = [job EXCEPT !.deadline = next]
    BY <1>1 DEF Completed
  <2> HIDE DEF next
  <2>5. Completed(job) \in Job
    BY <2>3, <2>4 DEF Job
  <2> QED
    BY <1>1, <2>4, <2>5 DEF SameJob, Job
<1>2. CASE job.policy # "Periodic"
  <2>1. Completed(job) = [job EXCEPT !.pending = FALSE]
    BY <1>2 DEF Completed
  <2>2. Completed(job) \in Job
    BY <2>1 DEF Job
  <2> QED
    BY <1>2, <2>1, <2>2 DEF SameJob, Job
<1> QED
  BY <1>1, <1>2

LEMMA AdmittedJob ==
  ASSUME NEW id \in JobId, NEW policy \in Policy, NEW period \in Period, now \in Time
  PROVE  /\ NewJob(id, policy, period) \in Job
         /\ NewJob(id, policy, period).id = id
         /\ NewJob(id, policy, period).policy = policy
         /\ NewJob(id, policy, period).period = period
         /\ NewJob(id, policy, period).pending = (policy = "Startup")
<1> DEFINE deadline == IF policy = "Periodic" THEN Wrap(now + period) ELSE 0
           pending == policy = "Startup"
<1>1. deadline \in Time
  <2>1. now + period \in Int /\ 0 \in Time
    BY TimesAreNatural DEF Time
  <2> QED
    BY <2>1, WrapIsTime
<1>2. pending \in BOOLEAN /\ period \in Time
  BY TimesAreNatural DEF Time
<1>3. NewJob(id, policy, period)
      = [id |-> id, policy |-> policy, period |-> period, deadline |-> deadline,
         pending |-> pending]
  BY DEF NewJob
<1> HIDE DEF deadline, pending
<1>4. NewJob(id, policy, period) \in Job
  BY <1>1, <1>2, <1>3 DEF Job
<1>5. NewJob(id, policy, period).pending = (policy = "Startup")
  BY DEF NewJob
<1> QED
  BY <1>3, <1>4, <1>5

(***************************************************************************)
(* The two ways jobs change: one is added, or one is replaced.             *)
(***************************************************************************)

Jobs == {s \in Seq(Job) :
           /\ Len(s) <= Capacity
           /\ \A i, j \in DOMAIN s : s[i].id = s[j].id => i = j
           /\ \A i \in DOMAIN s : (s[i].policy = "Periodic") <=> (s[i].period # 0)}

LEMMA TypeOKParts ==
  TypeOK <=> /\ now \in Time /\ jobs \in Jobs /\ active \in {0} \cup DOMAIN jobs
             /\ owed \in [JobId -> Int]
BY DEF TypeOK, Jobs

LEMMA AppendKeepsJobs ==
  ASSUME jobs \in Jobs, NEW job \in Job, ~Registered(job.id), Len(jobs) # Capacity,
         (job.policy = "Periodic") <=> (job.period # 0), jobs' = Append(jobs, job)
  PROVE  /\ jobs' \in Jobs
         /\ DOMAIN jobs' = DOMAIN jobs \cup {Len(jobs) + 1}
         /\ Len(jobs) + 1 \notin DOMAIN jobs
         /\ \A i \in DOMAIN jobs : jobs'[i] = jobs[i]
         /\ jobs'[Len(jobs) + 1] = job
<1>1. jobs \in Seq(Job) /\ Len(jobs) \in Nat /\ DOMAIN jobs = 1 .. Len(jobs)
  BY DEF Jobs
<1>2. jobs' \in Seq(Job) /\ Len(jobs') = Len(jobs) + 1 /\ DOMAIN jobs' = 1 .. Len(jobs) + 1
  BY <1>1
<1>3. \A i \in DOMAIN jobs : jobs'[i] = jobs[i]
  BY <1>1
<1>4. jobs'[Len(jobs) + 1] = job
  BY <1>1
<1>5. DOMAIN jobs' = DOMAIN jobs \cup {Len(jobs) + 1} /\ Len(jobs) + 1 \notin DOMAIN jobs
  BY <1>1, <1>2
<1>6. Len(jobs') <= Capacity
  <2>1. Len(jobs) <= Capacity
    BY DEF Jobs
  <2>2. ASSUME NEW n \in Nat, n <= Capacity, n # Capacity PROVE n + 1 <= Capacity
    BY <2>2, CapacityIsPositive
  <2> QED
    BY <1>1, <1>2, <2>1, <2>2
<1>7. \A i, j \in DOMAIN jobs' : jobs'[i].id = jobs'[j].id => i = j
  BY <1>3, <1>4, <1>5 DEF Jobs, Registered
<1>8. \A i \in DOMAIN jobs' : (jobs'[i].policy = "Periodic") <=> (jobs'[i].period # 0)
  BY <1>3, <1>4, <1>5 DEF Jobs
<1> QED
  BY <1>2, <1>3, <1>4, <1>5, <1>6, <1>7, <1>8 DEF Jobs

LEMMA ReplaceKeepsJobs ==
  ASSUME jobs \in Jobs, NEW k \in DOMAIN jobs, NEW job \in Job, SameJob(job, jobs[k]),
         jobs' = [jobs EXCEPT ![k] = job]
  PROVE  /\ jobs' \in Jobs
         /\ DOMAIN jobs' = DOMAIN jobs
         /\ \A i \in DOMAIN jobs : jobs'[i] = IF i = k THEN job ELSE jobs[i]
<1>1. jobs \in Seq(Job) /\ Len(jobs) \in Nat /\ DOMAIN jobs = 1 .. Len(jobs)
  BY DEF Jobs
<1>2. jobs' \in Seq(Job) /\ Len(jobs') = Len(jobs) /\ DOMAIN jobs' = DOMAIN jobs
  BY <1>1
<1>3. \A i \in DOMAIN jobs : jobs'[i] = IF i = k THEN job ELSE jobs[i]
  BY <1>1
<1>4. \A i \in DOMAIN jobs : SameJob(jobs'[i], jobs[i])
  BY <1>3 DEF SameJob
<1>5. \A i, j \in DOMAIN jobs' : jobs'[i].id = jobs'[j].id => i = j
  BY <1>2, <1>4 DEF Jobs, SameJob
<1>6. \A i \in DOMAIN jobs' : (jobs'[i].policy = "Periodic") <=> (jobs'[i].period # 0)
  BY <1>2, <1>4 DEF Jobs, SameJob
<1> QED
  BY <1>1, <1>2, <1>3, <1>5, <1>6 DEF Jobs

(***************************************************************************)
(* The inductive invariant. A completed job was due (ActiveIsDue), so it   *)
(* was pending if it is no periodic one, and the run it was promised is    *)
(* the one it got.                                                         *)
(***************************************************************************)

Pending(id) == \E i \in DOMAIN jobs : jobs[i].id = id /\ jobs[i].pending

IsOwed(id) == owed[id] = IF Pending(id) THEN 1 ELSE 0

IInv == TypeOK /\ ActiveIsDue /\ \A id \in JobId : IsOwed(id)

LEMMA OwedParts == PromisedRunsAreOwed <=> \A id \in JobId : IsOwed(id)
BY DEF PromisedRunsAreOwed, IsOwed, Pending

LEMMA UnchangedKeepsIInv ==
  ASSUME IInv, UNCHANGED <<now, jobs, active, owed>>
  PROVE  IInv'
<1>1. TypeOK'
  BY TypeOKParts DEF IInv, TypeOK
<1>2. ActiveIsDue'
  BY DEF IInv, ActiveIsDue, HasActiveJob, Due
<1>3. \A id \in JobId : IsOwed(id)'
  BY DEF IInv, IsOwed, Pending
<1> QED
  BY <1>1, <1>2, <1>3 DEF IInv

LEMMA RegisterKeepsIInv ==
  ASSUME IInv, NEW id \in JobId, NEW policy \in Policy, NEW period \in Period,
         IsConfigValid(policy, period), ~Registered(id), Len(jobs) # Capacity,
         Admit(NewJob(id, policy, period)),
         owed' = [owed EXCEPT ![id] = IF policy = "Startup" THEN 1 ELSE 0],
         UNCHANGED <<now, active>>
  PROVE  IInv'
<1> DEFINE job == NewJob(id, policy, period)
           new == Len(jobs) + 1
<1>1. /\ now \in Time /\ jobs \in Jobs /\ active \in {0} \cup DOMAIN jobs
      /\ owed \in [JobId -> Int]
  BY TypeOKParts DEF IInv
<1>2. /\ job \in Job /\ job.id = id /\ job.pending = (policy = "Startup")
      /\ (job.policy = "Periodic") <=> (job.period # 0)
  BY <1>1, AdmittedJob DEF IsConfigValid
<1> HIDE DEF job
<1>3. jobs' = Append(jobs, job)
  BY DEF Admit, job
<1>4. /\ jobs' \in Jobs
      /\ DOMAIN jobs' = DOMAIN jobs \cup {new} /\ new \notin DOMAIN jobs
      /\ \A i \in DOMAIN jobs : jobs'[i] = jobs[i]
      /\ jobs'[new] = job
  BY <1>1, <1>2, <1>3, AppendKeepsJobs
<1> HIDE DEF new
<1>5. TypeOK'
  <2>1. owed' \in [JobId -> Int]
    BY <1>1
  <2>2. now' \in Time /\ active' \in {0} \cup DOMAIN jobs'
    BY <1>1, <1>4
  <2> QED
    BY <1>4, <2>1, <2>2 DEF TypeOK, Jobs
<1>6. ActiveIsDue'
  BY <1>1, <1>4 DEF IInv, ActiveIsDue, HasActiveJob, Due
<1>7. ASSUME NEW x \in JobId PROVE IsOwed(x)'
  <2>1. CASE x = id
    <3>1. Pending(x)' <=> policy = "Startup"
      BY <1>2, <1>4, <2>1, Zenon DEF Pending, Registered
    <3>2. owed'[x] = IF policy = "Startup" THEN 1 ELSE 0
      BY <1>1, <2>1
    <3> QED
      BY <3>1, <3>2 DEF IsOwed
  <2>2. CASE x # id
    <3>1. Pending(x)' <=> Pending(x)
      BY <1>2, <1>4, <2>2, Zenon DEF Pending
    <3>2. owed'[x] = owed[x] /\ IsOwed(x)
      BY <1>1, <2>2 DEF IInv
    <3> QED
      BY <3>1, <3>2 DEF IsOwed
  <2> QED
    BY <2>1, <2>2
<1> QED
  BY <1>5, <1>6, <1>7 DEF IInv

\* A request marks its job pending and promises one run.
LEMMA RequestKeepsIInv ==
  ASSUME IInv, NEW id \in JobId, NEW k \in DOMAIN jobs, jobs[k].id = id,
         ~AlreadyPending(k),
         jobs' = [jobs EXCEPT ![k].pending = TRUE],
         owed' = [owed EXCEPT ![id] = @ + 1],
         UNCHANGED <<now, active>>
  PROVE  IInv'
<1> DEFINE job == [jobs[k] EXCEPT !.pending = TRUE]
<1>1. /\ now \in Time /\ jobs \in Jobs /\ active \in {0} \cup DOMAIN jobs
      /\ owed \in [JobId -> Int]
  BY TypeOKParts DEF IInv
<1>2. jobs[k] \in Job
  BY <1>1 DEF Jobs
<1>3. job \in Job
  BY <1>2 DEF Job
<1>4. SameJob(job, jobs[k]) /\ job.pending
  BY <1>2 DEF Job, SameJob
<1>5. jobs' = [jobs EXCEPT ![k] = job]
  BY <1>1 DEF Jobs
<1> HIDE DEF job
<1>6. /\ jobs' \in Jobs /\ DOMAIN jobs' = DOMAIN jobs
      /\ \A i \in DOMAIN jobs : jobs'[i] = IF i = k THEN job ELSE jobs[i]
  BY <1>1, <1>3, <1>4, <1>5, ReplaceKeepsJobs
<1>7. TypeOK'
  <2>1. owed' \in [JobId -> Int]
    BY <1>1
  <2>2. now' \in Time /\ active' \in {0} \cup DOMAIN jobs'
    BY <1>1, <1>6
  <2> QED
    BY <1>6, <2>1, <2>2 DEF TypeOK, Jobs
<1>8. ActiveIsDue'
  <2>1. k # active
    BY DEF AlreadyPending
  <2> QED
    BY <1>1, <1>6, <2>1 DEF IInv, ActiveIsDue, HasActiveJob, Due
<1>9. ASSUME NEW x \in JobId PROVE IsOwed(x)'
  <2>1. CASE x = id
    <3>1. Pending(x)'
      BY <1>4, <1>6, <2>1, Zenon DEF Pending, SameJob
    <3>2. ~Pending(x)
      BY <1>1, <2>1 DEF Pending, Jobs, AlreadyPending
    <3>3. owed[x] = 0 /\ owed'[x] = owed[x] + 1
      BY <1>1, <2>1, <3>2 DEF IInv, IsOwed
    <3> QED
      BY <3>1, <3>3 DEF IsOwed
  <2>2. CASE x # id
    <3>1. Pending(x)' <=> Pending(x)
      BY <1>4, <1>6, <2>2, Zenon DEF Pending, SameJob
    <3>2. owed'[x] = owed[x] /\ IsOwed(x)
      BY <1>1, <2>2 DEF IInv
    <3> QED
      BY <3>1, <3>2 DEF IsOwed
  <2> QED
    BY <2>1, <2>2
<1> QED
  BY <1>7, <1>8, <1>9 DEF IInv

\* A completed job was due: if it is not periodic it was pending, and now it is not.
LEMMA CompleteKeepsIInv ==
  ASSUME IInv, NEW id \in JobId, HasActiveJob, jobs[active].id = id,
         jobs' = [jobs EXCEPT ![active] = Completed(jobs[active])],
         owed' = [owed EXCEPT ![id] = IF jobs[active].policy = "Periodic" THEN @ ELSE @ - 1],
         active' = 0, UNCHANGED now
  PROVE  IInv'
<1> DEFINE old == jobs[active]
           job == Completed(old)
<1>1. /\ now \in Time /\ jobs \in Jobs /\ active \in DOMAIN jobs
      /\ owed \in [JobId -> Int]
  BY TypeOKParts DEF IInv, HasActiveJob
<1>2. old \in Job /\ ((old.policy = "Periodic") <=> (old.period # 0))
  BY <1>1 DEF Jobs
<1>3. /\ job \in Job /\ SameJob(job, old)
      /\ old.policy = "Periodic" => job.pending = old.pending
      /\ old.policy # "Periodic" => job.pending = FALSE
  BY <1>1, <1>2, CompletedJob
<1>4. old.policy # "Periodic" => old.pending
  BY DEF IInv, ActiveIsDue, Due
<1> HIDE DEF job
<1>5. /\ jobs' \in Jobs /\ DOMAIN jobs' = DOMAIN jobs
      /\ \A i \in DOMAIN jobs : jobs'[i] = IF i = active THEN job ELSE jobs[i]
  BY <1>1, <1>3, ReplaceKeepsJobs DEF job
<1>6. TypeOK'
  <2>1. owed' \in [JobId -> Int]
    BY <1>1
  <2>2. now' \in Time /\ active' \in {0} \cup DOMAIN jobs'
    BY <1>1
  <2> QED
    BY <1>5, <2>1, <2>2 DEF TypeOK, Jobs
<1>7. ActiveIsDue'
  BY DEF ActiveIsDue, HasActiveJob
<1>8. ASSUME NEW x \in JobId PROVE IsOwed(x)'
  <2>1. CASE x # id \/ old.policy = "Periodic"
    <3>1. Pending(x)' <=> Pending(x)
      BY <1>1, <1>3, <1>5, <2>1 DEF Pending, SameJob
    <3>2. owed'[x] = owed[x] /\ IsOwed(x)
      BY <1>1, <2>1 DEF IInv
    <3> QED
      BY <3>1, <3>2 DEF IsOwed
  <2>2. CASE x = id /\ old.policy # "Periodic"
    <3>1. Pending(x)
      BY <1>1, <1>4, <2>2 DEF Pending
    <3>2. ~Pending(x)'
      BY <1>1, <1>3, <1>5, <2>2 DEF Pending, Jobs
    <3>3. owed[x] = 1 /\ owed'[x] = owed[x] - 1
      BY <1>1, <2>2, <3>1 DEF IInv, IsOwed
    <3> QED
      BY <3>2, <3>3 DEF IsOwed
  <2> QED
    BY <2>1, <2>2
<1> QED
  BY <1>6, <1>7, <1>8 DEF IInv

LEMMA TakeKeepsIInv ==
  ASSUME IInv, TakeNextDue
  PROVE  IInv'
<1>1. CASE UNCHANGED <<now, jobs, active, owed>>
  BY <1>1, UnchangedKeepsIInv
<1>2. CASE active' \in DueJobs /\ UNCHANGED <<now, jobs, owed>>
  <2>1. TypeOK'
    BY <1>2 DEF IInv, TypeOK, DueJobs
  <2>2. ActiveIsDue'
    BY <1>2 DEF ActiveIsDue, DueJobs, Due
  <2>3. \A id \in JobId : IsOwed(id)'
    BY <1>2 DEF IInv, IsOwed, Pending
  <2> QED
    BY <2>1, <2>2, <2>3 DEF IInv
<1> QED
  BY <1>1, <1>2 DEF TakeNextDue, Refuse

LEMMA TickKeepsIInv ==
  ASSUME IInv, Tick
  PROVE  IInv'
<1>1. now' \in Time /\ now \in Int /\ now' >= now
  BY TimesAreNatural DEF IInv, TypeOK, Time, Tick
<1>2. TypeOK'
  BY <1>1 DEF IInv, TypeOK, Tick
<1>3. ActiveIsDue'
  <2> SUFFICES ASSUME HasActiveJob PROVE Due(jobs[active])'
    BY DEF ActiveIsDue, HasActiveJob, Tick
  <2>1. jobs[active].deadline \in Int
    <3>1. jobs \in Jobs /\ active \in DOMAIN jobs
      BY TypeOKParts DEF IInv, HasActiveJob
    <3>2. jobs[active] \in Job
      BY <3>1 DEF Jobs
    <3> QED
      BY <3>2, TimesAreNatural DEF Job, Time
  <2> QED
    BY <1>1, <2>1 DEF IInv, ActiveIsDue, Due, Tick
<1>4. \A id \in JobId : IsOwed(id)'
  BY DEF IInv, IsOwed, Pending, Tick
<1> QED
  BY <1>2, <1>3, <1>4 DEF IInv

LEMMA NextKeepsIInv ==
  ASSUME IInv, [Next]_vars
  PROVE  IInv'
<1>1. CASE UNCHANGED <<now, jobs, active, owed>>
  BY <1>1, UnchangedKeepsIInv
<1>2. ASSUME NEW id \in JobId, NEW policy \in Policy, NEW period \in Period,
             RegisterJob(id, policy, period)
      PROVE  IInv'
  BY <1>1, <1>2, RegisterKeepsIInv DEF RegisterJob, Refuse
<1>3. ASSUME NEW id \in JobId, Request(id) PROVE IInv'
  BY <1>1, <1>3, RequestKeepsIInv DEF Request, Refuse
<1>4. ASSUME NEW id \in JobId, Complete(id) PROVE IInv'
  BY <1>1, <1>4, CompleteKeepsIInv DEF Complete, Refuse
<1> QED
  BY <1>1, <1>2, <1>3, <1>4, TakeKeepsIInv, TickKeepsIInv DEF Next, vars

\* The account of runs, the due active job and the types hold in every reachable state.
THEOREM InductiveInvariant == Spec => []IInv
<1>1. Init => IInv
  <2> SUFFICES ASSUME Init PROVE IInv
    OBVIOUS
  <2>1. TypeOK
    BY CapacityIsPositive DEF Init, TypeOK
  <2>2. \A id \in JobId : IsOwed(id)
    <3>1. jobs = <<>> /\ DOMAIN jobs = {}
      BY DEF Init
    <3>2. \A id \in JobId : ~Pending(id)
      BY <3>1, Zenon DEF Pending
    <3> QED
      BY <3>2 DEF Init, IsOwed
  <2> QED
    BY <2>1, <2>2 DEF IInv, Init, ActiveIsDue, HasActiveJob
<1> QED
  BY <1>1, NextKeepsIInv, PTL DEF Spec

\* The scheduler's members keep their types for any capacity: identities stay distinct, a
\* period goes with the Periodic policy only, and the active index names a job.
THEOREM TypeCorrect == Spec => []TypeOK
BY InductiveInvariant, PTL DEF IInv

\* A job taken stays due until it is completed, whatever is registered or requested meanwhile
\* and however far the clock moves.
THEOREM ActiveStaysDue == Spec => []ActiveIsDue
BY InductiveInvariant, PTL DEF IInv

\* The account of every job is even: the runs it was promised (the startup run and requests
\* answered Requested) and the runs completed differ by what its pending flag says.
THEOREM PromisesAreKept == Spec => []PromisedRunsAreOwed
BY InductiveInvariant, OwedParts, PTL DEF IInv

(***************************************************************************)
(* The next deadline of a periodic job.                                    *)
(***************************************************************************)

LEMMA DivisionBounds ==
  ASSUME NEW x \in Nat, NEW p \in Nat \ {0}
  PROVE  x \div p \in Nat /\ (x \div p) * p <= x /\ x < (x \div p) * p + p
BY Z3

LEMMA MultiplesAreWhole ==
  ASSUME NEW k \in Nat, NEW p \in Nat \ {0}
  PROVE  (k * p) % p = 0
BY Z3

LEMMA NextMultiple ==
  ASSUME NEW k \in Nat, NEW q \in Nat, NEW p \in Nat, k < q
  PROVE  (k + 1) * p <= q * p /\ (k + 1) * p = k * p + p
BY Z3

LEMMA SmallTimesDoNotWrap ==
  ASSUME NEW t \in Time
  PROVE  Wrap(t) = t
BY TimesAreNatural DEF Wrap, Time

\* The guard of complete keeps the multiplication and the addition below the clock's end, so
\* the next deadline is the first one of the cadence that lies after now.
LEMMA NextDeadlineFollowsNow ==
  ASSUME NEW job \in Job, job.period # 0, now \in Time, now >= job.deadline,
         NextDeadlineFits(job)
  PROVE  /\ (NextDeadline(job) - job.deadline) % job.period = 0
         /\ now < NextDeadline(job) /\ NextDeadline(job) <= now + job.period
<1> DEFINE d == job.deadline
           p == job.period
           e == ElapsedPeriods(job)
           next == d + (e + 1) * p
<1>1. d \in Nat /\ p \in Nat \ {0} /\ now \in Nat /\ d <= now /\ now <= MaxTime /\ MaxTime \in Nat
  BY TimesAreNatural DEF Job, Time
<1>2. e = (now - d) \div p
  <2>1. now - d \in Time
    BY <1>1 DEF Time
  <2> QED
    BY <2>1, SmallTimesDoNotWrap DEF ElapsedPeriods
<1>3. e < (MaxTime - d) \div p
  BY DEF NextDeadlineFits
<1> HIDE DEF d, p, e
<1>4. e \in Nat /\ e * p <= now - d /\ now - d < e * p + p
  <2>1. now - d \in Nat
    BY <1>1
  <2> QED
    BY <1>1, <1>2, <2>1, DivisionBounds
<1>5. (e + 1) * p <= MaxTime - d /\ (e + 1) * p = e * p + p
  <2>1. MaxTime - d \in Nat
    BY <1>1
  <2>2. (MaxTime - d) \div p \in Nat /\ ((MaxTime - d) \div p) * p <= MaxTime - d
    BY <1>1, <2>1, DivisionBounds
  <2>3. (e + 1) * p <= ((MaxTime - d) \div p) * p /\ (e + 1) * p = e * p + p
    BY <1>1, <1>3, <1>4, <2>2, NextMultiple
  <2>4. (e + 1) * p \in Nat /\ ((MaxTime - d) \div p) * p \in Nat
    BY <1>1, <1>4, <2>2
  <2> QED
    BY <2>1, <2>2, <2>3, <2>4
<1>6. (e + 1) * p \in Nat /\ e * p \in Nat
  BY <1>1, <1>4
<1>7. next \in Time
  BY <1>1, <1>5, <1>6 DEF Time
<1>8. NextDeadline(job) = next
  BY <1>7, SmallTimesDoNotWrap DEF NextDeadline, d, p, e
<1>9. next - d = (e + 1) * p
  BY <1>1, <1>6
<1>10. (next - d) % p = 0
  BY <1>1, <1>4, <1>9, MultiplesAreWhole
<1>11. now < next /\ next <= now + p
  BY <1>1, <1>4, <1>5, <1>6
<1> QED
  BY <1>8, <1>10, <1>11 DEF d, p

\* What a step that changes a deadline owes to the cadence of the job.
KeepsCadence(i) ==
  LET old == jobs[i].deadline
      new == jobs'[i].deadline
  IN  new # old =>
        /\ ret' = "Completed" /\ active = i
        /\ (new - old) % jobs[i].period = 0
        /\ now < new /\ new <= now + jobs[i].period

LEMMA CompleteKeepsCadence ==
  ASSUME IInv, NEW id \in JobId, Complete(id), NEW i \in DOMAIN jobs
  PROVE  KeepsCadence(i)
<1>1. CASE UNCHANGED jobs
  BY <1>1 DEF KeepsCadence
<1>2. CASE /\ HasActiveJob
           /\ jobs[active].policy = "Periodic" => NextDeadlineFits(jobs[active])
           /\ jobs' = [jobs EXCEPT ![active] = Completed(jobs[active])]
           /\ Return("Completed")
  <2> DEFINE old == jobs[active]
             job == Completed(old)
  <2>1. now \in Time /\ jobs \in Jobs /\ active \in DOMAIN jobs
    BY <1>2, TypeOKParts DEF IInv, HasActiveJob
  <2>2. old \in Job /\ ((old.policy = "Periodic") <=> (old.period # 0))
    BY <2>1 DEF Jobs
  <2>3. job \in Job /\ SameJob(job, old)
    BY <2>1, <2>2, CompletedJob
  <2>4. jobs'[i] = IF i = active THEN job ELSE jobs[i]
    BY <1>2, <2>1, <2>3, ReplaceKeepsJobs
  <2>5. CASE old.policy # "Periodic"
    <3>1. job.deadline = old.deadline
      BY <2>2, <2>5 DEF Completed, Job
    <3> QED
      BY <2>4, <3>1 DEF KeepsCadence
  <2>6. CASE old.policy = "Periodic"
    <3>1. now >= old.deadline
      BY <1>2, <2>6 DEF IInv, ActiveIsDue, Due
    <3>2. job.deadline = NextDeadline(old)
      BY <2>2, <2>6 DEF Completed, Job
    <3>3. /\ (job.deadline - old.deadline) % old.period = 0
          /\ now < job.deadline /\ job.deadline <= now + old.period
      BY <1>2, <2>1, <2>2, <2>6, <3>1, <3>2, NextDeadlineFollowsNow
    <3> HIDE DEF job
    <3> QED
      BY <1>2, <2>4, <3>3 DEF KeepsCadence, Return
  <2> QED
    BY <2>5, <2>6
<1> QED
  BY <1>1, <1>2 DEF Complete, Refuse

\* Registrations and requests leave every deadline where it is.
LEMMA OthersKeepCadence ==
  ASSUME IInv, NEW i \in DOMAIN jobs,
         \/ \E id \in JobId, policy \in Policy, period \in Period :
              RegisterJob(id, policy, period)
         \/ \E id \in JobId : Request(id)
         \/ TakeNextDue \/ Tick \/ UNCHANGED vars
  PROVE  KeepsCadence(i)
<1>1. CASE UNCHANGED jobs
  BY <1>1 DEF KeepsCadence
<1>2. jobs \in Jobs
  BY TypeOKParts DEF IInv
<1>3. CASE \E job : jobs' = Append(jobs, job)
  <2>1. jobs'[i] = jobs[i]
    BY <1>2, <1>3 DEF Jobs
  <2> QED
    BY <2>1 DEF KeepsCadence
<1>4. CASE \E k \in DOMAIN jobs : jobs' = [jobs EXCEPT ![k].pending = TRUE]
  <2>1. jobs'[i].deadline = jobs[i].deadline
    BY <1>2, <1>4 DEF Jobs, Job
  <2> QED
    BY <2>1 DEF KeepsCadence
<1> QED
  BY <1>1, <1>3, <1>4 DEF RegisterJob, Admit, Request, TakeNextDue, Tick, Refuse, vars

\* A periodic job keeps its cadence for any period and any width of the clock: each completion
\* moves its deadline by whole periods to the first one after now, and nothing else moves it.
THEOREM CadenceKept == Spec => CadenceIsKept
<1>1. IInv /\ [Next]_vars
      => [\A i \in DOMAIN jobs :
            LET old == jobs[i].deadline
                new == jobs'[i].deadline
            IN  new # old =>
                  /\ ret' = "Completed" /\ active = i
                  /\ (new - old) % jobs[i].period = 0
                  /\ now < new /\ new <= now + jobs[i].period]_vars
  BY CompleteKeepsCadence, OthersKeepCadence DEF Next, KeepsCadence
<1> QED
  BY <1>1, InductiveInvariant, PTL DEF Spec, CadenceIsKept
================================================================================
