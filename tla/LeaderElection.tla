--------------------------- MODULE LeaderElection ---------------------------
(***************************************************************************)
(* Several pods of the controller, one Lease, and who may run the          *)
(* controllers.  pkg/leaderelection and main.go choose the durations, the  *)
(* identity, the callbacks and that a lease is released at the end; the    *)
(* election is client-go's (external).                                     *)
(*                                                                         *)
(* Every pod judges time by its own clock: a leader counts from the answer *)
(* to its last renewal, a candidate from the moment it first saw the       *)
(* present record of the lease.                                            *)
(***************************************************************************)
EXTENDS Integers

CONSTANTS
    Pod,            \* the replicas, by SELF_POD_NAME
    Nobody,         \* the holder of a lease that was released
    LeaseDuration, RenewDeadline, RetryPeriod,      \* 15, 10 and 2 seconds
    MaxDelay,       \* how long an answer of the API server may take
    MaxCrashes      \* bound

VARIABLES
    holder,     \* spec.holderIdentity of the Lease
    phase,      \* phase[p]: see Phase
    since,      \* since[p]: while p leads, since its last renewal was answered
    seen,       \* seen[p]: has p seen the present record of the lease?
    elapsed,    \* elapsed[p]: since p first saw the record it has seen
    answer,     \* answer[p]: age of p's write that has not been answered yet
    crashes     \* what is left of MaxCrashes

leaderVars == <<holder, phase, since, seen, elapsed, answer, crashes>>

(* stopping: the lease is given up, the process and its workers still run. *)
Phase == {"down", "candidate", "leader", "stopping"}

(* A leader that is not answered gives up after Patience.                  *)
Patience == RetryPeriod + RenewDeadline
NoAnswer == -1

ASSUME LeaderAssumption ==
    /\ LeaseDuration \in Nat /\ RenewDeadline \in Nat /\ RetryPeriod \in Nat
    /\ MaxDelay \in Nat /\ MaxCrashes \in Nat
    /\ Nobody \notin Pod
    /\ Patience + MaxDelay < LeaseDuration

LeaderTypeOK ==
    /\ holder  \in Pod \cup {Nobody}
    /\ phase   \in [Pod -> Phase]
    /\ since   \in [Pod -> 0 .. Patience]
    /\ seen    \in [Pod -> BOOLEAN]
    /\ elapsed \in [Pod -> 0 .. LeaseDuration]
    /\ answer  \in [Pod -> {NoAnswer} \cup (0 .. MaxDelay)]
    /\ crashes \in Nat

LeaderInit ==
    /\ holder = Nobody
    /\ phase = [p \in Pod |-> "candidate"]
    /\ since = [p \in Pod |-> 0]
    /\ seen = [p \in Pod |-> FALSE]
    /\ elapsed = [p \in Pod |-> 0]
    /\ answer = [p \in Pod |-> NoAnswer]
    /\ crashes = MaxCrashes
-----------------------------------------------------------------------------
(* tryAcquireOrRenew: Get, then Update with the version that was read.     *)

Free(p) == holder \in {Nobody, p} \/ elapsed[p] = LeaseDuration

WritesUnnoticed(p) ==    \* mutant: the others' clocks run on over a renewal
    /\ answer[p] = NoAnswer /\ holder' = p
    /\ elapsed' = [elapsed EXCEPT ![p] = 0]
    /\ answer' = [answer EXCEPT ![p] = 0]
    /\ UNCHANGED <<phase, since, seen, crashes>>

(* p's Update: a new record, which nobody else has seen.                   *)
Writes(p) ==
    /\ answer[p] = NoAnswer
    /\ holder' = p
    /\ seen' = [q \in Pod |-> q = p]
    /\ elapsed' = [elapsed EXCEPT ![p] = 0]
    /\ answer' = [answer EXCEPT ![p] = 0]
    /\ UNCHANGED <<phase, since, crashes>>

(* A candidate sees a record it has not seen yet, and its clock starts.    *)
Observe(p) ==
    /\ phase[p] = "candidate" /\ ~seen[p] /\ holder # Nobody
    /\ seen' = [seen EXCEPT ![p] = TRUE]
    /\ elapsed' = [elapsed EXCEPT ![p] = 0]
    /\ UNCHANGED <<holder, phase, since, answer, crashes>>

(* A lease of its own name is a pod's own, from before it was restarted.   *)
Acquire(p) ==
    /\ phase[p] = "candidate" /\ Free(p)
    /\ holder \in {Nobody, p} \/ seen[p]
    /\ Writes(p)

Renew(p) ==
    /\ phase[p] = "leader" /\ since[p] >= RetryPeriod /\ holder = p
    /\ Writes(p)

(* The answer arrives: OnStartedLeading, or RetryPeriod until the next.    *)
Answered(p) ==
    /\ answer[p] # NoAnswer
    /\ phase' = [phase EXCEPT ![p] = "leader"]
    /\ since' = [since EXCEPT ![p] = 0]
    /\ answer' = [answer EXCEPT ![p] = NoAnswer]
    /\ UNCHANGED <<holder, seen, elapsed, crashes>>

(* An error reaches p although its Update was carried out.                 *)
AnswerLost(p) ==
    /\ answer[p] # NoAnswer
    /\ answer' = [answer EXCEPT ![p] = NoAnswer]
    /\ UNCHANGED <<holder, phase, since, seen, elapsed, crashes>>
-----------------------------------------------------------------------------
(* The end of a term.                                                      *)

(* p leaves, by SIGTERM or by the deadline.  ReleaseOnCancel: the lease is *)
(* released, if the API server can be reached, while the workers still run *)
(* (no queue is ever shut down, and the calls they are in have contexts of *)
(* their own).                                                             *)
StepDown(p) ==
    /\ phase[p] = "leader"
    /\ phase' = [phase EXCEPT ![p] = "stopping"]
    /\ answer' = [answer EXCEPT ![p] = NoAnswer]
    /\ since' = [since EXCEPT ![p] = 0]
    /\ \/ UNCHANGED <<holder, seen>>
       \/ /\ holder = p /\ holder' = Nobody
          /\ seen' = [q \in Pod |-> FALSE]
    /\ UNCHANGED <<elapsed, crashes>>

ExitHangs(p) ==    \* mutant: main waits for the workers, which go on
    phase[p] = "stopping" /\ UNCHANGED leaderVars

(* onStoppedLeading, then main returns, and the workers end with it.       *)
Exit(p) ==
    /\ phase[p] = "stopping"
    /\ phase' = [phase EXCEPT ![p] = "down"]
    /\ UNCHANGED <<holder, since, seen, elapsed, answer, crashes>>

Crash(p) ==
    /\ phase[p] # "down" /\ crashes > 0 /\ crashes' = crashes - 1
    /\ phase' = [phase EXCEPT ![p] = "down"]
    /\ answer' = [answer EXCEPT ![p] = NoAnswer]
    /\ UNCHANGED <<holder, since, seen, elapsed>>

(* The container is started again, under the same name.                    *)
Start(p) ==
    /\ phase[p] = "down"
    /\ phase' = [phase EXCEPT ![p] = "candidate"]
    /\ since' = [since EXCEPT ![p] = 0]
    /\ seen' = [seen EXCEPT ![p] = FALSE]
    /\ elapsed' = [elapsed EXCEPT ![p] = 0]
    /\ UNCHANGED <<holder, answer, crashes>>

LeaderTickTrusting ==    \* mutant: a leader may miss its deadline
    /\ \A p \in Pod : answer[p] < MaxDelay
    /\ elapsed' = [p \in Pod |-> IF elapsed[p] < LeaseDuration
                                   THEN elapsed[p] + 1 ELSE LeaseDuration]
    /\ answer' = [p \in Pod |-> IF answer[p] = NoAnswer THEN NoAnswer ELSE answer[p] + 1]
    /\ UNCHANGED <<holder, phase, since, seen, crashes>>

(* A second passes.  Answers take at most MaxDelay, and a leader does not  *)
(* oversleep its deadline.                                                 *)
LeaderTick ==
    /\ \A p \in Pod : answer[p] < MaxDelay
    /\ \A p \in Pod : phase[p] = "leader" => since[p] < Patience
    /\ since' = [p \in Pod |-> IF phase[p] = "leader" THEN since[p] + 1 ELSE since[p]]
    /\ elapsed' = [p \in Pod |-> IF elapsed[p] < LeaseDuration
                                   THEN elapsed[p] + 1 ELSE LeaseDuration]
    /\ answer' = [p \in Pod |-> IF answer[p] = NoAnswer THEN NoAnswer ELSE answer[p] + 1]
    /\ UNCHANGED <<holder, phase, seen, crashes>>

LeaderNext ==
    \/ \E p \in Pod :
         \/ Observe(p) \/ Acquire(p) \/ Renew(p) \/ Answered(p) \/ AnswerLost(p)
         \/ StepDown(p) \/ Exit(p) \/ Crash(p) \/ Start(p)
    \/ LeaderTick

LeaderSpec == LeaderInit /\ [][LeaderNext]_leaderVars
-----------------------------------------------------------------------------
(* A leader holds the lease until it gives up, as the deadline comes       *)
(* before the expiry any candidate has seen (leaderelection.go:41-43): two *)
(* pods never both believe to be the leader (test-plan.md TC-13.1).        *)
LeaderHoldsLease == \A p \in Pod : phase[p] = "leader" => holder = p

(* The strengthening that makes it inductive: no candidate's clock is      *)
(* ahead of the holder's by more than the delay of an answer.              *)
ClocksAgree ==
    \A p, q \in Pod :
        p # q /\ holder = p /\ seen[q] =>
            /\ answer[p] # NoAnswer => elapsed[q] <= answer[p]
            /\ phase[p] = "leader" => elapsed[q] <= since[p] + MaxDelay

(* An unanswered write is the last one.                                    *)
AnswerOwed ==
    \A p \in Pod : answer[p] # NoAnswer =>
        holder = p /\ phase[p] \in {"candidate", "leader"}

LeaderInv == LeaderTypeOK /\ LeaderHoldsLease /\ ClocksAgree /\ AnswerOwed

(* Only one instance operates at a time (Readme-v2.md:26; main.go:81).     *)
OneOperates ==
    \A p, q \in Pod :
        phase[p] \in {"leader", "stopping"} /\ phase[q] \in {"leader", "stopping"} => p = q

(* Fairness: pods are restarted, calls are made and answered, time passes. *)
LeaderFairness ==
    /\ \A p \in Pod :
         /\ WF_leaderVars(Observe(p)) /\ SF_leaderVars(Acquire(p))
         /\ SF_leaderVars(Answered(p))
         /\ WF_leaderVars(Exit(p)) /\ WF_leaderVars(Start(p))
    /\ WF_leaderVars(LeaderTick)

LeaderFairSpec == LeaderSpec /\ LeaderFairness

(* Failover (TC-13.2): there is a leader again and again, though leaders   *)
(* crash or leave and renewals fail.                                       *)
LeaderReturns == []<>(\E p \in Pod : phase[p] = "leader")
=============================================================================
