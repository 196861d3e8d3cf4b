-------------------------- MODULE EventController --------------------------
(***************************************************************************)
(* The EventController: two workers that turn events of node-problem-      *)
(* detector into messages of a NodeIssueReport and recalculate its score.  *)
(*                                                                         *)
(* An event object is bumped when its problem recurs.  Its recurrences are *)
(* told apart as occurrences <<e, i>>; a message of a report is the        *)
(* occurrence it was made from.  ScoreInBucket is kept as the positions of *)
(* the messages whose scores were added up, so that a property can ask     *)
(* what a decision was based on.  The other controllers share the cached   *)
(* reports: they appear as Others, who decide, settle, touch and delete.   *)
(***************************************************************************)
EXTENDS NIRStore, FiniteSets, Functions

CONSTANTS
    Worker, Other,  \* goroutines of EventController, of the other controllers
    Event,          \* event objects
    About,          \* About[e]: the node event e is about
    Relevant,       \* events of a monitor of node-problem-detector, about a
                    \* node of an auto scaling group
    Score,          \* Score[e]: score of e's reason, 0 if it has none
    Ruled,          \* nodes some ToleranceConfig entry matches
    BucketSize, EventWindow,
    Recurrences,    \* bound: Recurrences[e], how often event e occurs
    RepeatCap,      \* bound: copies of an occurrence in a cached report
    Budget,         \* bounds: how often each disturbance may happen
    NoJob           \* "this worker is idle"

VARIABLES
    count,      \* count[e]: Event.Count at the API server, 0 before the event
    expired,    \* events the API server has dropped
    age,        \* age[o]: since occurrence o happened (LastTimestamp)
    shown,      \* shown[e]: the count in the informer cache, 0 if it has no e
    old,        \* occurrences from before controllerStartTime
    nodesKnown, \* has the node informer synced?
    queue,      \* event keys in the work queue
    job,        \* job[w]: the occurrence worker w is recording
    pc,         \* pc[t]: the call goroutine t makes next
    budget,     \* what is left of Budget
    recorded,   \* history: occurrences that were ever persisted
    paid        \* history: paid[o], persisted decisions that counted o since
                \* the last report of its node was deleted

storeAndHistory == <<storeVars, recorded, paid>>
eventVars == <<count, expired, age>>
informed  == <<shown, old, nodesKnown>>
vars == <<storeAndHistory, eventVars, informed, queue, job, pc, budget>>

Occurrence  == UNION {{e} \X (1 .. Recurrences[e]) : e \in Event}
(* writes: by the other controllers, for reasons of theirs.                *)
Disturbance == {"faults", "crashes", "writes", "expiries"}

(* The part of NodeIssueReportSpec that concerns scores; acting stands for *)
(* an action decided on and not yet settled, basis (history) for what the  *)
(* last decision counted.                                                  *)
Scorecard ==
    {r \in [messages : Seq(Occurrence), counted : SUBSET Nat,
            lastAction : Stamp, acting : BOOLEAN, basis : SUBSET Occurrence] :
        r.counted \subseteq DOMAIN r.messages}

ASSUME EventAssumption ==
    /\ Thread = Worker \cup Other /\ Worker \cap Other = {}
    /\ About \in [Event -> Node] /\ Score \in [Event -> Nat]
    /\ Relevant \subseteq Event /\ Ruled \subseteq Node
    /\ BucketSize \in Nat \ {0} /\ EventWindow \in 0 .. AgeCap
    /\ Recurrences \in [Event -> Nat] /\ RepeatCap \in Nat \ {0}
    /\ Budget \in [Disturbance -> Nat]
    /\ NoJob \notin Occurrence /\ NoReport \notin Scorecard

TypeOK ==
    /\ api   \in [Node -> Scorecard \cup {NoReport}]
    /\ cache \in [Node -> Scorecard \cup {NoReport}]
    /\ watch \in [Node -> Seq(Scorecard \cup {NoReport})]
    /\ held  \in [Thread -> Hold]
    /\ count \in [Event -> Nat] /\ expired \subseteq Event
    /\ age   \in [Occurrence -> Stamp]
    /\ shown \in [Event -> Nat] /\ \A e \in Event : shown[e] <= count[e]
    /\ old   \subseteq Occurrence /\ nodesKnown \in BOOLEAN
    /\ queue \subseteq Event
    /\ job   \in [Worker -> Occurrence \cup {NoJob}]
    /\ pc    \in [Thread -> {"idle", "create", "update"}]
    /\ budget \in [Disturbance -> Nat]
    /\ recorded \subseteq Occurrence /\ paid \in [Occurrence -> Nat]

Init ==
    /\ StoreInit
    /\ count = [e \in Event |-> 0] /\ expired = {}
    /\ age = [o \in Occurrence |-> Zero]
    /\ shown = [e \in Event |-> 0] /\ old = {} /\ nodesKnown = FALSE
    /\ queue = {} /\ job = [w \in Worker |-> NoJob]
    /\ pc = [t \in Thread |-> "idle"]
    /\ budget = Budget
    /\ recorded = {} /\ paid = [o \in Occurrence |-> 0]

Spend(what) ==
    /\ budget[what] > 0
    /\ budget' = [budget EXCEPT ![what] = @ - 1]
-----------------------------------------------------------------------------
(* Scoring.                                                                *)

Happened == {o \in Occurrence : age[o] # Zero}
Total(r) == FoldFunction(+, 0, [i \in r.counted |-> Score[r.messages[i][1]]])

CountsSpent(r, o) ==    \* mutant: the last action is forgotten
    Score[o[1]] > 0 /\ age[o] < EventWindow

(* recalcScoreInBucket: strictly inside the window, and strictly after the *)
(* last action if there was one.                                           *)
Counts(r, o) ==
    /\ Score[o[1]] > 0
    /\ age[o] < EventWindow
    /\ r.lastAction # Zero => age[o] < r.lastAction

Recalculated(r) ==
    [r EXCEPT !.counted = {i \in DOMAIN r.messages : Counts(r, r.messages[i])}]

CountedBy(r) == {r.messages[i] : i \in r.counted}

RecordedAlone(n, r, o) ==    \* mutant: the new message replaces the others
    IF n \in Ruled THEN Recalculated([r EXCEPT !.messages = <<o>>])
                   ELSE [r EXCEPT !.messages = <<o>>]

(* updateNodeIssueReport, up to its Update.                                *)
Recorded(n, r, o) ==
    LET more == [r EXCEPT !.messages = Append(@, o)]
    IN  IF n \in Ruled THEN Recalculated(more) ELSE more

(* constructNodeIssueReport: the initial score looks at no window.         *)
Constructed(n, o) ==
    [messages |-> <<o>>,
     counted |-> IF n \in Ruled /\ Score[o[1]] > 0 THEN {1} ELSE {},
     lastAction |-> Zero, acting |-> FALSE, basis |-> {}]
-----------------------------------------------------------------------------
(* Intake.                                                                 *)

AcceptsOld(e, i) == e \in Relevant /\ nodesKnown    \* mutant: any start time

(* isNodeProblemDetectorEvent, of the i-th version of e.                   *)
Accepts(e, i) == e \in Relevant /\ nodesKnown /\ <<e, i>> \notin old

(* The informer shows a later version of e: the Add handler, or an Update  *)
(* whose count has grown.  Watches and lists may skip versions.            *)
EventShown(e) ==
    \E i \in (shown[e] + 1) .. count[e] :
        /\ e \notin expired
        /\ shown' = [shown EXCEPT ![e] = i]
        /\ queue' = IF Accepts(e, i) THEN queue \cup {e} ELSE queue
        /\ UNCHANGED <<storeAndHistory, eventVars, old, nodesKnown, job, pc, budget>>

(* There is no Delete handler.                                             *)
EventForgotten(e) ==
    /\ e \in expired /\ shown[e] > 0
    /\ shown' = [shown EXCEPT ![e] = 0]
    /\ UNCHANGED <<storeAndHistory, eventVars, old, nodesKnown, queue, job, pc, budget>>

NodesListed ==
    /\ ~nodesKnown /\ nodesKnown' = TRUE
    /\ UNCHANGED <<storeAndHistory, eventVars, shown, old, queue, job, pc, budget>>
-----------------------------------------------------------------------------
(* processNextItem.  A key whose event the lister does not have is         *)
(* requeued without end: it simply stays in the queue.                     *)

Busy == {w \in Worker : job[w] # NoJob}

DequeueNext(w, e) ==    \* mutant: one recurrence too far
    /\ w \notin Busy /\ e \in queue /\ shown[e] > 0
    /\ queue' = queue \ {e}
    /\ job' = [job EXCEPT ![w] = <<e, shown[e] + 1>>]

Dequeue(w, e) ==
    /\ w \notin Busy /\ e \in queue /\ shown[e] > 0
    /\ \A v \in Busy : job[v][1] # e
    /\ queue' = queue \ {e}
    /\ job' = [job EXCEPT ![w] = <<e, shown[e]>>]

TakeNew(w, e) ==
    /\ Dequeue(w, e) /\ cache[About[e]] = NoReport
    /\ pc' = [pc EXCEPT ![w] = "create"]
    /\ UNCHANGED <<storeAndHistory, eventVars, informed, budget>>

Copies(o, r) == IF r = NoReport THEN 0
                ELSE Cardinality({i \in DOMAIN r.messages : r.messages[i] = o})

(* The cached object gets the message and the new score at once; whether   *)
(* they are ever persisted is another question.                            *)
TakeKnown(w, e) ==
    LET n == About[e] IN
    /\ Dequeue(w, e) /\ cache[n] # NoReport
    /\ Copies(<<e, shown[e]>>, cache[n]) < RepeatCap
    /\ held' = [held EXCEPT ![w] = Lookup(n)]
    /\ cache' = [cache EXCEPT ![n] = Recorded(n, @, <<e, shown[e]>>)]
    /\ pc' = [pc EXCEPT ![w] = "update"]
    /\ UNCHANGED <<api, watch, recorded, paid, eventVars, informed, budget>>

(* w is done; requeue() puts the key back after a failure.                 *)
Finish(w, again) ==
    /\ pc' = [pc EXCEPT ![w] = "idle"]
    /\ job' = [job EXCEPT ![w] = NoJob]
    /\ queue' = IF again THEN queue \cup {job[w][1]} ELSE queue
    /\ UNCHANGED <<cache, eventVars, informed>>

(* r is persisted, decisions of others included: a decision no persisted   *)
(* version of the report has shown before has a basis of its own.          *)
DecidedIn(n, r) == r.basis # IF api[n] = NoReport THEN {} ELSE api[n].basis

Stored(n, r, h) ==
    /\ Persist(n, r, h)
    /\ recorded' = recorded \cup Range(r.messages)
    /\ paid' = IF DecidedIn(n, r)
                 THEN [o \in Occurrence |-> IF o \in r.basis THEN paid[o] + 1 ELSE paid[o]]
                 ELSE paid

Mine(w)  == About[job[w][1]]
Fresh(w) == Constructed(Mine(w), job[w])

Create(w) ==
    /\ pc[w] = "create" /\ api[Mine(w)] = NoReport
    /\ Stored(Mine(w), Fresh(w), held) /\ Finish(w, FALSE)
    /\ UNCHANGED budget

Update(w) ==
    /\ pc[w] = "update" /\ Updatable(w)
    /\ Stored(Mine(w), cache[Mine(w)], Released(w)) /\ Finish(w, FALSE)
    /\ UNCHANGED budget

RefusedForgotten(w) ==    \* mutant: no requeue after a conflict
    /\ \/ pc[w] = "create" /\ api[Mine(w)] # NoReport
       \/ pc[w] = "update" /\ ~Updatable(w)
    /\ held' = Released(w) /\ Finish(w, FALSE)
    /\ UNCHANGED <<api, watch, recorded, paid, budget>>

(* AlreadyExists, Conflict or NotFound.                                    *)
Refused(w) ==
    /\ \/ pc[w] = "create" /\ api[Mine(w)] # NoReport
       \/ pc[w] = "update" /\ ~Updatable(w)
    /\ held' = Released(w) /\ Finish(w, TRUE)
    /\ UNCHANGED <<api, watch, recorded, paid, budget>>

(* Another error reached the worker, whether the call took effect or not.  *)
CallFails(w) ==
    /\ pc[w] # "idle" /\ Spend("faults") /\ Finish(w, TRUE)
    /\ \/ held' = Released(w) /\ UNCHANGED <<api, watch, recorded, paid>>
       \/ /\ pc[w] = "create" /\ api[Mine(w)] = NoReport
          /\ Stored(Mine(w), Fresh(w), held)
       \/ /\ pc[w] = "update" /\ Updatable(w)
          /\ Stored(Mine(w), cache[Mine(w)], Released(w))

Work(w) == Create(w) \/ Update(w) \/ Refused(w)
-----------------------------------------------------------------------------
(* The other controllers, as far as scores go (NIRController has them).    *)

OtherEdits(t, n, r) ==
    /\ pc[t] = "idle"
    /\ held' = [held EXCEPT ![t] = Lookup(n)]
    /\ cache' = [cache EXCEPT ![n] = r]
    /\ pc' = [pc EXCEPT ![t] = "update"]
    /\ UNCHANGED <<api, watch, recorded, paid, eventVars, informed, queue, job>>

Decides(t, n) ==
    /\ cache[n] # NoReport /\ n \in Ruled
    /\ ~cache[n].acting /\ Total(cache[n]) >= BucketSize
    /\ OtherEdits(t, n, [cache[n] EXCEPT !.acting = TRUE, !.lastAction = 0,
                                         !.counted = {}, !.basis = CountedBy(cache[n])])
    /\ UNCHANGED budget

Settles(t, n) ==
    /\ cache[n] # NoReport /\ cache[n].acting
    /\ OtherEdits(t, n, [cache[n] EXCEPT !.acting = FALSE])
    /\ UNCHANGED budget

Touches(t, n) ==
    cache[n] # NoReport /\ OtherEdits(t, n, cache[n]) /\ Spend("writes")

OtherSaves(t) ==
    LET n == held[t].node IN
    /\ pc[t] = "update"
    /\ pc' = [pc EXCEPT ![t] = "idle"]
    /\ IF Updatable(t)
         THEN Stored(n, cache[n], Released(t))
         ELSE held' = Released(t) /\ UNCHANGED <<api, watch, recorded, paid>>
    /\ UNCHANGED <<cache, eventVars, informed, queue, job, budget>>

(* A report goes: replaced, escalated to paging, cooled down, recovered.   *)
Removed(n) ==
    /\ api[n] # NoReport /\ Spend("writes") /\ Remove(n, held)
    /\ paid' = [o \in Occurrence |-> IF About[o[1]] = n THEN 0 ELSE paid[o]]
    /\ UNCHANGED <<cache, recorded, eventVars, informed, queue, job, pc>>

OtherStep(t) ==
    \/ OtherSaves(t)
    \/ \E n \in Node : Decides(t, n) \/ Settles(t, n) \/ Touches(t, n)
-----------------------------------------------------------------------------
(* The informers, the process, and the cluster.                            *)

Deliver(n) ==
    /\ DeliverNext(n)
    /\ UNCHANGED <<recorded, paid, eventVars, informed, queue, job, pc, budget>>

(* A new process: its start time separates what it will look at.           *)
Crash ==
    /\ Spend("crashes") /\ Relist
    /\ shown' = [e \in Event |-> 0] /\ old' = Happened /\ nodesKnown' = FALSE
    /\ queue' = {} /\ job' = [w \in Worker |-> NoJob]
    /\ pc' = [t \in Thread |-> "idle"]
    /\ UNCHANGED <<recorded, paid, eventVars>>

World == UNCHANGED <<recorded, paid, informed, queue, job, pc>>

(* A problem occurs, for the first time or again.                          *)
Occurs(e) ==
    /\ count[e] < Recurrences[e] /\ e \notin expired
    /\ count' = [count EXCEPT ![e] = @ + 1]
    /\ age' = [age EXCEPT ![<<e, count[e] + 1>>] = 0]
    /\ World /\ UNCHANGED <<storeVars, expired, budget>>

(* Events are kept for an hour.                                            *)
Expires(e) ==
    /\ count[e] > 0 /\ e \notin expired /\ Spend("expiries")
    /\ expired' = expired \cup {e}
    /\ World /\ UNCHANGED <<storeVars, count, age>>

Tick ==
    /\ AgeReports
    /\ age' = [o \in Occurrence |-> Older(age[o])]
    /\ World /\ UNCHANGED <<count, expired, budget>>

Next ==
    \/ \E e \in Event : EventShown(e) \/ EventForgotten(e) \/ Occurs(e) \/ Expires(e)
    \/ \E w \in Worker, e \in Event : TakeNew(w, e) \/ TakeKnown(w, e)
    \/ \E w \in Worker : Work(w) \/ CallFails(w)
    \/ \E t \in Other : OtherStep(t)
    \/ \E n \in Node : Deliver(n) \/ Removed(n)
    \/ NodesListed \/ Crash \/ Tick

Spec == Init /\ [][Next]_vars
=============================================================================
