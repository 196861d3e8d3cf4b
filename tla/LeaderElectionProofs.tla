------------------------ MODULE LeaderElectionProofs ------------------------
(***************************************************************************)
(* A leader holds the lease, for any number of pods and any durations that *)
(* satisfy LeaderAssumption.                                               *)
(***************************************************************************)
EXTENDS LeaderElection, TLAPS

USE LeaderAssumption DEF Patience

LEMMA LeaderInitially == LeaderInit => LeaderInv
  BY DEF LeaderInit, LeaderInv, LeaderTypeOK, LeaderHoldsLease, ClocksAgree,
         AnswerOwed, Phase, NoAnswer

(* A candidate takes the lease of another pod only when that pod leads no  *)
(* longer and has no write under way: its clock is too slow otherwise.     *)
LEMMA LeaderTakeover ==
  ASSUME LeaderInv, NEW p \in Pod, Acquire(p), NEW q \in Pod \ {p}, holder = q
  PROVE  phase[q] # "leader" /\ answer[q] = NoAnswer
<1>1. seen[p] /\ elapsed[p] = LeaseDuration
  BY DEF Acquire, Free
<1>2. CASE phase[q] = "leader"
  <2>1. elapsed[p] <= since[q] + MaxDelay /\ since[q] \in 0 .. Patience
    BY <1>1, <1>2 DEF LeaderInv, ClocksAgree, LeaderTypeOK
  <2> QED  BY <1>1, <2>1 DEF LeaderInv, LeaderTypeOK
<1>3. CASE answer[q] # NoAnswer
  <2>1. elapsed[p] <= answer[q] /\ answer[q] \in 0 .. MaxDelay
    BY <1>1, <1>3 DEF LeaderInv, ClocksAgree, LeaderTypeOK
  <2> QED  BY <1>1, <2>1 DEF LeaderInv, LeaderTypeOK
<1> QED  BY <1>2, <1>3

LEMMA LeaderTypesStep == LeaderTypeOK /\ LeaderNext => LeaderTypeOK'
<1> SUFFICES ASSUME LeaderTypeOK, LeaderNext PROVE LeaderTypeOK'
  OBVIOUS
<1> USE DEF LeaderTypeOK, Phase, NoAnswer
<1>1. CASE LeaderTick
  BY <1>1 DEF LeaderTick
<1>2. ASSUME NEW p \in Pod, Observe(p) PROVE LeaderTypeOK'
  BY <1>2 DEF Observe
<1>3. ASSUME NEW p \in Pod, Acquire(p) \/ Renew(p) PROVE LeaderTypeOK'
  <2>1. Writes(p)
    BY <1>3 DEF Acquire, Renew
  <2>2. holder' \in Pod /\ seen' \in [Pod -> BOOLEAN]
    BY <2>1 DEF Writes
  <2> QED  BY <2>1, <2>2 DEF Writes
<1>4. ASSUME NEW p \in Pod, Answered(p) \/ AnswerLost(p) PROVE LeaderTypeOK'
  BY <1>4 DEF Answered, AnswerLost
<1>5. ASSUME NEW p \in Pod, StepDown(p) PROVE LeaderTypeOK'
  <2>1. holder' \in Pod \cup {Nobody} /\ seen' \in [Pod -> BOOLEAN]
    BY <1>5 DEF StepDown
  <2>2. /\ phase' \in [Pod -> Phase] /\ since' \in [Pod -> 0 .. Patience]
        /\ answer' \in [Pod -> {NoAnswer} \cup (0 .. MaxDelay)]
    BY <1>5 DEF StepDown
  <2>3. UNCHANGED <<elapsed, crashes>>
    BY <1>5 DEF StepDown
  <2> QED  BY <2>1, <2>2, <2>3
<1>6. ASSUME NEW p \in Pod, Exit(p) PROVE LeaderTypeOK'
  BY <1>6 DEF Exit
<1>7. ASSUME NEW p \in Pod, Crash(p) PROVE LeaderTypeOK'
  BY <1>7 DEF Crash
<1>8. ASSUME NEW p \in Pod, Start(p) PROVE LeaderTypeOK'
  BY <1>8 DEF Start
<1> QED  BY <1>1, <1>2, <1>3, <1>4, <1>5, <1>6, <1>7, <1>8 DEF LeaderNext

LEMMA LeaderStep == LeaderInv /\ [LeaderNext]_leaderVars => LeaderInv'
<1> SUFFICES ASSUME LeaderInv, [LeaderNext]_leaderVars PROVE LeaderInv'
  OBVIOUS
<1> DEFINE Kept == LeaderHoldsLease /\ ClocksAgree /\ AnswerOwed
<1> USE DEF LeaderInv
<1>0. CASE UNCHANGED leaderVars
  BY <1>0 DEF leaderVars, LeaderTypeOK, LeaderHoldsLease, ClocksAgree, AnswerOwed
<1>1. ASSUME NEW p \in Pod, Observe(p) PROVE Kept'
  <2>1. answer[p] \in Int /\ \A q \in Pod : since[q] >= 0 /\ (answer[q] # NoAnswer => answer[q] >= 0)
    BY DEF LeaderTypeOK, NoAnswer
  <2> QED
    BY <1>1, <2>1 DEF Observe, LeaderTypeOK, LeaderHoldsLease, ClocksAgree, AnswerOwed
<1>2. ASSUME NEW p \in Pod, Acquire(p) PROVE Kept'
  <2>1. \A q \in Pod \ {p} : phase[q] # "leader" /\ answer[q] = NoAnswer
    BY <1>2, LeaderTakeover DEF LeaderHoldsLease, AnswerOwed, Acquire, Free, LeaderTypeOK
  <2> QED
    BY <1>2, <2>1 DEF Acquire, Writes, LeaderTypeOK, LeaderHoldsLease, ClocksAgree,
                      AnswerOwed, NoAnswer
<1>3. ASSUME NEW p \in Pod, Renew(p) PROVE Kept'
  BY <1>3 DEF Renew, Writes, LeaderTypeOK, LeaderHoldsLease, ClocksAgree, AnswerOwed, NoAnswer
<1>4. ASSUME NEW p \in Pod, Answered(p) PROVE Kept'
  <2>1. holder = p /\ answer[p] \in 0 .. MaxDelay
    BY <1>4 DEF Answered, AnswerOwed, LeaderTypeOK
  <2>2. \A q \in Pod : q # p /\ seen[q] => elapsed[q] <= MaxDelay
    BY <1>4, <2>1 DEF Answered, ClocksAgree, LeaderTypeOK
  <2> QED
    BY <1>4, <2>1, <2>2 DEF Answered, LeaderTypeOK, LeaderHoldsLease, ClocksAgree, AnswerOwed
<1>5. ASSUME NEW p \in Pod, AnswerLost(p) PROVE Kept'
  BY <1>5 DEF AnswerLost, LeaderTypeOK, LeaderHoldsLease, ClocksAgree, AnswerOwed
<1>6. ASSUME NEW p \in Pod, StepDown(p) PROVE Kept'
  BY <1>6 DEF StepDown, LeaderTypeOK, LeaderHoldsLease, ClocksAgree, AnswerOwed
<1>7. ASSUME NEW p \in Pod, Exit(p) \/ Crash(p) PROVE Kept'
  BY <1>7 DEF Exit, Crash, LeaderTypeOK, LeaderHoldsLease, ClocksAgree, AnswerOwed
<1>8. ASSUME NEW p \in Pod, Start(p) PROVE Kept'
  BY <1>8 DEF Start, LeaderTypeOK, LeaderHoldsLease, ClocksAgree, AnswerOwed
<1>9. CASE LeaderTick
  <2>1. holder' = holder /\ phase' = phase /\ seen' = seen
    BY <1>9 DEF LeaderTick
  <2>2. LeaderHoldsLease' /\ AnswerOwed'
    BY <1>9, <2>1 DEF LeaderTick, LeaderHoldsLease, AnswerOwed, LeaderTypeOK
  <2>3. \A q \in Pod : elapsed'[q] <= elapsed[q] + 1
    BY <1>9 DEF LeaderTick, LeaderTypeOK
  <2>4. \A p \in Pod : answer'[p] # NoAnswer => answer[p] # NoAnswer /\ answer'[p] = answer[p] + 1
    BY <1>9 DEF LeaderTick, LeaderTypeOK
  <2>5. \A p \in Pod : phase[p] = "leader" => since'[p] = since[p] + 1
    BY <1>9 DEF LeaderTick, LeaderTypeOK
  <2>6. LeaderTypeOK'
    BY <1>9, LeaderTypesStep DEF LeaderNext
  <2> QED  BY <2>1, <2>2, <2>3, <2>4, <2>5, <2>6 DEF ClocksAgree, LeaderTypeOK, NoAnswer
<1>10. ASSUME LeaderNext PROVE Kept'
  BY <1>1, <1>2, <1>3, <1>4, <1>5, <1>6, <1>7, <1>8, <1>9, <1>10 DEF LeaderNext
<1> QED  BY <1>0, <1>10, LeaderTypesStep

THEOREM LeaderInvariant == LeaderSpec => []LeaderInv
<1> QED  BY LeaderInitially, LeaderStep, PTL DEF LeaderSpec

(* Two pods never both believe to be the leader: each would hold the lease *)
(* (leaderelection.go:41-44, test-plan.md TC-13.1).                        *)
THEOREM LeaderSafety == LeaderSpec => []LeaderHoldsLease
<1>1. LeaderInv => LeaderHoldsLease
  BY DEF LeaderInv
<1> QED  BY <1>1, LeaderInvariant, PTL
=============================================================================
