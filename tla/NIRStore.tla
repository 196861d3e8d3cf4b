------------------------------ MODULE NIRStore ------------------------------
(***************************************************************************)
(* NodeIssueReport objects (NIRs) as the three controllers see them: the   *)
(* API server's copy, the informer cache all controllers share, and the    *)
(* pointers into that cache that goroutines hold while they work.          *)
(*                                                                         *)
(* main.go builds ONE informer factory, and every handler edits the object *)
(* its lister returned in place before it calls Update.  So an edit is     *)
(* visible to every other goroutine at once, persisted only if some Update *)
(* carrying the object's resourceVersion succeeds, and forgotten when the  *)
(* watch replaces the object or the process dies.                          *)
(*                                                                         *)
(* A resourceVersion is not a counter here: what matters about a held      *)
(* pointer is whether it is                                                *)
(*   "live"    the cached object, at the API server's version;             *)
(*   "behind"  the cached object, but the API server has moved on;         *)
(*   "orphan"  an object the watch has replaced in the cache.              *)
(***************************************************************************)
EXTENDS Integers, Sequences

CONSTANTS
    Node,       \* node names; a report has the name of its node
    Thread,     \* goroutines that may hold a pointer to a cached report
    AgeCap,     \* bound: ages saturate here
    ScoreCap,   \* bound on ScoreInBucket
    NoReport,   \* "the API server has no report of this name"
    NoNode      \* "this goroutine holds no report"

ASSUME StoreAssumption ==
    /\ AgeCap \in Nat /\ ScoreCap \in Nat
    /\ NoNode \notin Node

VARIABLES
    api,        \* api[n]: the persisted report of n, or NoReport
    cache,      \* cache[n]: the shared informer cache, in-place edits included
    watch,      \* watch[n]: versions written but not delivered to the cache yet
    held        \* held[t]: the report goroutine t points to, and how stale it is

storeVars == <<api, cache, watch, held>>
-----------------------------------------------------------------------------
(* Time: a timestamp is the age it has reached; Zero is metav1.Time{}.     *)

Zero  == -1
Stamp == {Zero} \cup (0 .. AgeCap)
Older(t) == IF t \in {Zero, AgeCap} THEN t ELSE t + 1

NodeStatus == {"Ready", "NotReady", "Unknown"}
Action == {"none", "reboot", "replace", "paging", "unset"}
Phase  == {"none", "reboot", "rebooted",
           "replace", "detached", "newjoined", "drained"}

(* NodeIssueReportSpec.  "problems" is NodeProblems # {}.  LastUpdateTime  *)
(* is left out: NIRController reads it for a notification and in a branch  *)
(* that property RebootTimed shows to be unreachable.                      *)
Report == [status : NodeStatus, problems : BOOLEAN,
           action : Action, phase : Phase, escalated : BOOLEAN,
           score : 0 .. ScoreCap, lastAction : Stamp]

ASSUME NoReportAssumption == NoReport \notin Report

Ref  == {"none", "live", "behind", "orphan"}
Hold == [node : Node \cup {NoNode}, ref : Ref]
Nothing == [node |-> NoNode, ref |-> "none"]

StoreTypeOK ==
    /\ api   \in [Node -> Report \cup {NoReport}]
    /\ cache \in [Node -> Report \cup {NoReport}]
    /\ watch \in [Node -> Seq(Report \cup {NoReport})]
    /\ held  \in [Thread -> Hold]

StoreInit ==
    /\ api   = [n \in Node |-> NoReport]
    /\ cache = [n \in Node |-> NoReport]
    /\ watch = [n \in Node |-> <<>>]
    /\ held  = [t \in Thread |-> Nothing]
-----------------------------------------------------------------------------
(* What a handler does with a report.                                      *)

(* The reference a goroutine gets from the lister now.                     *)
Lookup(n) == [node |-> n, ref |-> IF watch[n] = <<>> THEN "live" ELSE "behind"]

(* The held object, edited in place, as the cache shows it afterwards.     *)
Edited(t, r) ==
    IF held[t].ref = "orphan" THEN cache ELSE [cache EXCEPT ![held[t].node] = r]

(* Every pointer to n's cached object after the API server moved on.       *)
Outdated(h, n) ==
    [t \in Thread |-> IF h[t] = [node |-> n, ref |-> "live"]
                        THEN [node |-> n, ref |-> "behind"] ELSE h[t]]

Released(t) == [held EXCEPT ![t] = Nothing]

(* The API server stores r (NoReport: deletes) and the watch will tell.    *)
(* h is held as the calling goroutine leaves it.                           *)
Persist(n, r, h) ==
    /\ api'   = [api EXCEPT ![n] = r]
    /\ watch' = [watch EXCEPT ![n] = Append(@, r)]
    /\ held'  = Outdated(h, n)

(* Update: accepted only at the current version, with whatever the shared  *)
(* object holds by then, another goroutine's edits included.               *)
Updatable(t) == held[t].ref = "live"

(* Create needs the name free; Delete by name has no precondition, and of  *)
(* a missing report it is a NotFound error that changes nothing.           *)
Remove(n, h) ==
    IF api[n] = NoReport
      THEN held' = h /\ UNCHANGED <<api, watch>>
      ELSE Persist(n, NoReport, h)

(* The watch replaces the cached object by the next version: pointers to   *)
(* the old one are orphans from here on.                                   *)
Replaced(n) ==
    [t \in Thread |-> IF held[t].node = n
                        THEN [node |-> n, ref |-> "orphan"] ELSE held[t]]

DeliverNext(n) ==
    /\ watch[n] # <<>>
    /\ cache' = [cache EXCEPT ![n] = Head(watch[n])]
    /\ watch' = [watch EXCEPT ![n] = Tail(@)]
    /\ held'  = Replaced(n)
    /\ UNCHANGED api

(* The process dies and its successor lists everything afresh.             *)
Relist ==
    /\ cache' = api
    /\ watch' = [n \in Node |-> <<>>]
    /\ held'  = [t \in Thread |-> Nothing]
    /\ UNCHANGED api

(* One unit of time passes for every stored timestamp.                     *)
Aged(r) == IF r = NoReport THEN r ELSE [r EXCEPT !.lastAction = Older(@)]

AgeReports ==
    /\ api'   = [n \in Node |-> Aged(api[n])]
    /\ cache' = [n \in Node |-> Aged(cache[n])]
    /\ watch' = [n \in Node |-> [i \in DOMAIN watch[n] |-> Aged(watch[n][i])]]
    /\ UNCHANGED held
=============================================================================
