------------------------------- MODULE Scheduler -------------------------------
(***************************************************************************)
(* The single-flight job scheduler (core/scheduler.h). Jobs are registered *)
(* for good; the owner takes the next due job, runs it and completes it,   *)
(* and requests may come at any time between. Calls are serialized by the  *)
(* owner, so each is one action.                                           *)
(*                                                                         *)
(* Times are unsigned and wrap at MaxTime + 1, as uint64_t does. Jobs are  *)
(* counted from 1 and activeIndex_ is 0 when no job is active.             *)
(***************************************************************************)
EXTENDS Integers, Sequences

CONSTANTS
  JobId,      \* identities callers use
  Period,     \* values callers pass as periodMs, 0 included
  Capacity,
  MaxTime     \* kMaxTime, the last value of the clock

ASSUME CapacityIsPositive == Capacity \in Nat \ {0}
ASSUME TimesAreNatural == MaxTime \in Nat /\ Period \subseteq 0..MaxTime

VARIABLES
  now,      \* clock_.nowMs()
  jobs,     \* the first size_ entries of jobs_, in registration order
  active,   \* activeIndex_
  ret,      \* result of the last call
  owed      \* history: runs each identity was promised minus runs completed

vars == <<now, jobs, active, ret, owed>>

Policy == {"Startup", "Periodic", "OnDemand"}

Time == 0..MaxTime

Wrap(t) == t % (MaxTime + 1)

Job == [id : JobId, policy : Policy, period : Time, deadline : Time, pending : BOOLEAN]

Init ==
  /\ now \in Time
  /\ jobs = <<>>
  /\ active = 0
  /\ ret = "NoDueJob"
  /\ owed = [id \in JobId |-> 0]

HasActiveJob == active # 0

Registered(id) == \E i \in DOMAIN jobs : jobs[i].id = id

Due(job) == IF job.policy = "Periodic" THEN now >= job.deadline ELSE job.pending

Return(result) == ret' = result

Refuse(result) == Return(result) /\ UNCHANGED <<now, jobs, active, owed>>

(***************************************************************************)
(* registerJob                                                             *)
(***************************************************************************)
\* Mutant: a period is accepted with any policy.
IsConfigValidLoosely(policy, period) == (policy = "Periodic") => (period # 0)

IsConfigValid(policy, period) == (policy = "Periodic") <=> (period # 0)

NewJob(id, policy, period) ==
  [id |-> id, policy |-> policy, period |-> period,
   deadline |-> IF policy = "Periodic" THEN Wrap(now + period) ELSE 0,
   pending |-> policy = "Startup"]

FirstDeadlineFits(period) == period <= MaxTime - now

\* Mutant: a new job goes in front of the others, under the feet of the active index.
AdmitInFront(job) == jobs' = <<job>> \o jobs

Admit(job) == jobs' = Append(jobs, job)

RegisterJob(id, policy, period) ==
  \/ ~IsConfigValid(policy, period) /\ Refuse("InvalidConfig")
  \/ IsConfigValid(policy, period) /\ Registered(id) /\ Refuse("DuplicateId")
  \/ /\ IsConfigValid(policy, period)
     /\ ~Registered(id)
     /\ \/ Len(jobs) = Capacity /\ Refuse("Full")
        \/ /\ Len(jobs) # Capacity
           /\ policy = "Periodic" /\ ~FirstDeadlineFits(period)
           /\ Refuse("TimeOverflow")
        \/ /\ Len(jobs) # Capacity
           /\ policy = "Periodic" => FirstDeadlineFits(period)
           /\ Admit(NewJob(id, policy, period))
           /\ owed' = [owed EXCEPT ![id] = IF policy = "Startup" THEN 1 ELSE 0]
           /\ Return("Registered")
           /\ UNCHANGED <<now, active>>

(***************************************************************************)
(* request                                                                 *)
(***************************************************************************)
\* Mutant: a request made while the job runs is accepted.
AlreadyPendingUnlessActive(i) == i # active /\ jobs[i].pending

AlreadyPending(i) == i = active \/ jobs[i].pending

Request(id) ==
  \/ ~Registered(id) /\ Refuse("NotFound")
  \/ \E i \in DOMAIN jobs :
       /\ jobs[i].id = id
       /\ \/ jobs[i].policy # "OnDemand" /\ Refuse("NotOnDemand")
          \/ jobs[i].policy = "OnDemand" /\ AlreadyPending(i) /\ Refuse("AlreadyPending")
          \/ /\ jobs[i].policy = "OnDemand" /\ ~AlreadyPending(i)
             /\ jobs' = [jobs EXCEPT ![i].pending = TRUE]
             /\ owed' = [owed EXCEPT ![id] = @ + 1]
             /\ Return("Requested")
             /\ UNCHANGED <<now, active>>

(***************************************************************************)
(* takeNextDue: the first due job in registration order.                   *)
(***************************************************************************)
DueJobs == {i \in DOMAIN jobs : Due(jobs[i])}

\* Mutant: the last due job is taken.
TakeLastDue ==
  \/ HasActiveJob /\ Refuse("Busy")
  \/ ~HasActiveJob /\ DueJobs = {} /\ Refuse("NoDueJob")
  \/ /\ ~HasActiveJob
     /\ active' \in DueJobs
     /\ \A i \in DueJobs : active' >= i
     /\ Return("Taken")
     /\ UNCHANGED <<now, jobs, owed>>

TakeNextDue ==
  \/ HasActiveJob /\ Refuse("Busy")
  \/ ~HasActiveJob /\ DueJobs = {} /\ Refuse("NoDueJob")
  \/ /\ ~HasActiveJob
     /\ active' \in DueJobs
     /\ \A i \in DueJobs : active' <= i
     /\ Return("Taken")
     /\ UNCHANGED <<now, jobs, owed>>

(***************************************************************************)
(* complete: a periodic job skips the periods it missed.                   *)
(***************************************************************************)
ElapsedPeriods(job) == Wrap(now - job.deadline) \div job.period

NextDeadlineFits(job) == ElapsedPeriods(job) < (MaxTime - job.deadline) \div job.period

\* Mutant: the next period is counted from the completion.
NextDeadlineFromNow(job) == Wrap(now + job.period)

NextDeadline(job) == Wrap(job.deadline + (ElapsedPeriods(job) + 1) * job.period)

Completed(job) ==
  IF job.policy = "Periodic" THEN [job EXCEPT !.deadline = NextDeadline(job)]
  ELSE [job EXCEPT !.pending = FALSE]

Complete(id) ==
  \/ ~HasActiveJob /\ Refuse("NoActiveJob")
  \/ HasActiveJob /\ jobs[active].id # id /\ Refuse("WrongJob")
  \/ /\ HasActiveJob
     /\ LET job == jobs[active] IN
        /\ job.id = id
        /\ \/ /\ job.policy = "Periodic" /\ ~NextDeadlineFits(job)
              /\ Refuse("TimeOverflow")
           \/ /\ job.policy = "Periodic" => NextDeadlineFits(job)
              /\ jobs' = [jobs EXCEPT ![active] = Completed(job)]
              /\ owed' = [owed EXCEPT ![id] = IF job.policy = "Periodic" THEN @ ELSE @ - 1]
              /\ active' = 0
              /\ Return("Completed")
              /\ UNCHANGED now

Tick ==
  /\ now < MaxTime
  /\ now' = now + 1
  /\ UNCHANGED <<jobs, active, ret, owed>>

Next ==
  \/ \E id \in JobId, policy \in Policy, period \in Period : RegisterJob(id, policy, period)
  \/ \E id \in JobId : Request(id) \/ Complete(id)
  \/ TakeNextDue
  \/ Tick

Spec == Init /\ [][Next]_vars

(***************************************************************************)
(* Properties.                                                             *)
(***************************************************************************)

\* Every member keeps its type: never more jobs than Capacity, no identity twice, a period
\* exactly where the policy is Periodic, and an active index that names a job.
TypeOK ==
  /\ now \in Time
  /\ jobs \in Seq(Job) /\ Len(jobs) <= Capacity
  /\ \A i, j \in DOMAIN jobs : jobs[i].id = jobs[j].id => i = j
  /\ \A i \in DOMAIN jobs : (jobs[i].policy = "Periodic") <=> (jobs[i].period # 0)
  /\ active \in {0} \cup DOMAIN jobs
  /\ owed \in [JobId -> Int]

\* The active job stays due until it completes, whatever is registered or requested while
\* it runs: complete never subtracts a deadline that lies ahead of the clock.
ActiveIsDue == HasActiveJob => Due(jobs[active])

\* A periodic job keeps its cadence: completing it moves its deadline by whole periods, to
\* the first one after now, however late the run was; nothing else moves a deadline.
CadenceIsKept ==
  [][\A i \in DOMAIN jobs :
       LET old == jobs[i].deadline
           new == jobs'[i].deadline
       IN  new # old =>
             /\ ret' = "Completed" /\ active = i
             /\ (new - old) % jobs[i].period = 0
             /\ now < new /\ new <= now + jobs[i].period]_vars

\* The account of promised runs is even: a startup registration and a request answered
\* Requested promise one run, the completion of a run pays one, and what is owed is what the
\* pending flag says. So no promise is lost or counted twice, also when it is made while the
\* job runs. Nothing here says that a promised run comes: see FirstJobIsServed.
PromisedRunsAreOwed ==
  \A id \in JobId :
    owed[id] = IF \E i \in DOMAIN jobs : jobs[i].id = id /\ jobs[i].pending THEN 1 ELSE 0

(***************************************************************************)
(* Liveness. The owner takes due jobs and completes what it took.          *)
(***************************************************************************)
Fairness ==
  /\ WF_vars(TakeNextDue)
  /\ \A id \in JobId : WF_vars(Complete(id) /\ ret' = "Completed")

FairSpec == Spec /\ Fairness

\* The clock is so near its end that the active periodic job has no next deadline.
OutOfTime ==
  /\ HasActiveJob
  /\ jobs[active].policy = "Periodic"
  /\ ~NextDeadlineFits(jobs[active])

\* The job registered first is never starved: once due it is taken, unless time runs out.
\* Later jobs have no such promise, because an earlier one may be due again each time.
FirstJobIsServed ==
  (jobs # <<>> /\ Due(jobs[1])) ~> (active = 1 \/ OutOfTime)
================================================================================
