------------------------------- MODULE Leader -------------------------------
(****************************************************************************)
(* The processes of the operator and the lease that lets one of them work   *)
(* (cmd/onecloud-operator/main.go, with client-go's leaderelection, which   *)
(* is external).  A candidate measures the age of the lease from the last   *)
(* change of it that it has noticed, with its own clock; the leader         *)
(* measures from its last renewal, and exits when renewals have failed for  *)
(* RenewDeadline.  One tick is the grain of those clocks, which run at the  *)
(* same speed.  The mode modelled is that of --enable-leader-election;      *)
(* without the flag, its default, a process works without a lease.          *)
(****************************************************************************)
EXTENDS Naturals

CONSTANTS
  Operators, \* processes, each the identity (host name) it writes into the lease
  Lease,     \* leaseDuration, in ticks
  Renew      \* renewDuration, in ticks: the leader's deadline

\* The lease names nobody at first.
Nobody == "nobody"

ASSUME LeaderAssumption ==
  Lease \in Nat /\ Renew \in Nat /\ Renew < Lease /\ Nobody \notin Operators

VARIABLES
  up,      \* operator -> the process runs
  holder,  \* the operator named in the lease, or Nobody
  leading, \* operator -> OnStartedLeading has been called
  since,   \* operator -> ticks since it last wrote the lease
  age,     \* operator -> ticks since it noticed a change of the lease, while it has
           \* the newest one and waits for it to expire
  news     \* operator -> the lease has changed since it looked

leaderVars == <<up, holder, leading, since, age, news>>

Write(p) ==
  /\ holder' = p
  /\ since' = [since EXCEPT ![p] = 0]
  /\ news' = [q \in Operators |-> q # p]

\* A free lease, one of the same host name before a restart, or one that nobody has renewed.
Acquire(p) ==
  /\ up[p] /\ ~ leading[p]
  /\ holder \in {Nobody, p} \/ (~ news[p] /\ age[p] >= Lease)
  /\ leading' = [leading EXCEPT ![p] = TRUE] /\ age' = [age EXCEPT ![p] = 0]
  /\ Write(p)
  /\ UNCHANGED up

Observe(p) ==
  /\ up[p] /\ ~ leading[p] /\ news[p]
  /\ news' = [news EXCEPT ![p] = FALSE] /\ age' = [age EXCEPT ![p] = 0]
  /\ UNCHANGED <<up, holder, leading, since>>

RenewLease(p) ==
  /\ up[p] /\ leading[p] /\ holder = p
  /\ Write(p)
  /\ UNCHANGED <<up, leading, age>>

Stop(p) ==
  /\ up' = [up EXCEPT ![p] = FALSE] /\ leading' = [leading EXCEPT ![p] = FALSE]
  /\ since' = [since EXCEPT ![p] = 0] /\ age' = [age EXCEPT ![p] = 0]
  /\ UNCHANGED <<holder, news>>

\* OnStoppedLeading: klog.Fatalf ends the process.
onStopped(p) ==
  /\ up[p] /\ leading[p] /\ since[p] = Renew
  /\ Stop(p)

\* A mutant: the leader may miss its deadline by a tick.
TickLate ==
  /\ \A p \in Operators : leading[p] => since[p] <= Renew
  /\ since' = [p \in Operators |-> IF leading[p] THEN since[p] + 1 ELSE since[p]]
  /\ age' = [p \in Operators |->
               IF up[p] /\ ~ leading[p] /\ ~ news[p] /\ age[p] < Lease THEN age[p] + 1 ELSE age[p]]
  /\ UNCHANGED <<up, holder, leading, news>>

\* A leader does not live past its deadline.
Tick ==
  /\ \A p \in Operators : leading[p] => since[p] < Renew
  /\ since' = [p \in Operators |-> IF leading[p] THEN since[p] + 1 ELSE since[p]]
  /\ age' = [p \in Operators |->
               IF up[p] /\ ~ leading[p] /\ ~ news[p] /\ age[p] < Lease THEN age[p] + 1 ELSE age[p]]
  /\ UNCHANGED <<up, holder, leading, news>>

\* Kubernetes starts the process again; the first look at the lease counts as a change.
StartProcess(p) ==
  /\ ~ up[p]
  /\ up' = [up EXCEPT ![p] = TRUE] /\ news' = [news EXCEPT ![p] = TRUE]
  /\ UNCHANGED <<holder, leading, since, age>>

LeaderInit ==
  /\ up = [p \in Operators |-> FALSE] /\ holder = Nobody
  /\ leading = [p \in Operators |-> FALSE]
  /\ since = [p \in Operators |-> 0] /\ age = [p \in Operators |-> 0]
  /\ news = [p \in Operators |-> TRUE]

LeaderType ==
  /\ up \in [Operators -> BOOLEAN] /\ holder \in Operators \cup {Nobody}
  /\ leading \in [Operators -> BOOLEAN] /\ since \in [Operators -> 0..Renew]
  /\ age \in [Operators -> 0..Lease] /\ news \in [Operators -> BOOLEAN]
=============================================================================
