-------------------------- MODULE EventProperties --------------------------
(***************************************************************************)
(* What EventController promises about messages and scores.                *)
(***************************************************************************)
EXTENDS EventController

IsPrefix(s, t) == Len(s) <= Len(t) /\ \A i \in 1 .. Len(s) : s[i] = t[i]

(* No lost update: while a report lives, what is persisted of its messages *)
(* only grows, although workers, other controllers and a watch that lags   *)
(* edit one shared object (eventcontroller.go:215-250).                    *)
MessagesOnlyGrow ==
    [][\A n \in Node :
         api[n] # NoReport /\ api'[n] # NoReport
            => IsPrefix(api[n].messages, api'[n].messages)]_vars

(* A process records nothing that happened before it started, whatever its *)
(* predecessor left queued, half recorded or in the event's history: after *)
(* a restart no problem is scored again (eventcontroller.go:433-437).      *)
RestartNeverRepeats ==
    [][\A n \in Node, o \in Occurrence :
         o \in old => Copies(o, api'[n]) <= Copies(o, api[n])]_vars

(* An occurrence is counted by at most one persisted decision of a report  *)
(* that lives on: LastActionTime "prevents already-consumed events from    *)
(* being re-scored" (types.go:54-56; eventcontroller.go:137-139), also     *)
(* when workers recalculate while the decision is being saved.             *)
SpentOnce == \A o \in Occurrence : paid[o] <= 1

-----------------------------------------------------------------------------
(* Liveness.  Workers finish their calls, the FIFO hands out every key in  *)
(* the end, watches deliver, and the others do not hold on to a report.    *)

Fairness ==
    /\ \A w \in Worker : WF_vars(Work(w))
    /\ \A t \in Other : WF_vars(OtherSaves(t))
    /\ \A n \in Node : WF_vars(Deliver(n))
    /\ \A e \in Event :
         /\ WF_vars(EventShown(e)) /\ WF_vars(EventForgotten(e))
         /\ SF_vars(\E w \in Worker : TakeNew(w, e))
         /\ SF_vars(\E w \in Worker : TakeKnown(w, e))
    /\ WF_vars(NodesListed)

FairSpec == Spec /\ Fairness

(* An occurrence that was accepted into the queue is persisted, unless the *)
(* process ends, the event expires, or a later recurrence takes its place  *)
(* in the queue: no conflict, deletion or failing call drops it            *)
(* (eventcontroller.go:259-318).                                           *)
Superseded(o) == o[2] < shown[o[1]] \/ o[1] \in expired \/ o \in old

EventsRecorded ==
    \A o \in Occurrence :
        (o[1] \in queue /\ shown[o[1]] = o[2]) ~> (o \in recorded \/ Superseded(o))
=============================================================================
