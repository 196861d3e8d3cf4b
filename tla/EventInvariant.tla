--------------------------- MODULE EventInvariant ---------------------------
(***************************************************************************)
(* The inductive invariant behind the safety properties of EventController.*)
(*                                                                         *)
(* Its idea: nothing is said of the cached object while versions are on    *)
(* their way, as no Update of it can succeed then.  Once the watch has     *)
(* delivered everything, the cached object extends the persisted one.      *)
(***************************************************************************)
EXTENDS EventProperties

OccurrenceOf(n) == {o \in Occurrence : About[o[1]] = n}

(* A worker in a call has a job; a pointer to the current version is one   *)
(* to a cached report with nothing on its way.                             *)
Pointers ==
    /\ \A w \in Worker : pc[w] = "idle" <=> job[w] = NoJob
    /\ \A w \in Worker : pc[w] = "update" => held[w].node = About[job[w][1]]
    /\ \A t \in Other : pc[t] = "update" => held[t].node \in Node
    /\ \A t \in Thread : held[t].ref = "live" =>
          /\ held[t].node \in Node
          /\ watch[held[t].node] = <<>> /\ cache[held[t].node] # NoReport

(* Events have happened up to their count, and what is old began with the  *)
(* first occurrence.                                                       *)
Chronicle ==
    \A e \in Event :
        /\ count[e] <= Recurrences[e]
        /\ \A i \in 1 .. Recurrences[e] :
             /\ age[<<e, i>>] # Zero <=> i <= count[e]
             /\ \A j \in 1 .. i : <<e, i>> \in old => <<e, j>> \in old

(* A key that may be taken, now or after a failure, shows nothing old.     *)
Accepted(e) ==
    /\ e \in Relevant /\ nodesKnown
    /\ IF shown[e] = 0 THEN e \in expired ELSE <<e, shown[e]>> \notin old

Intake ==
    /\ \A e \in queue : Accepted(e)
    /\ \A w \in Worker : job[w] # NoJob =>
          /\ Accepted(job[w][1]) /\ job[w] \notin old /\ age[job[w]] # Zero
          /\ shown[job[w][1]] # 0 => job[w][2] <= shown[job[w][1]]

(* Occurrence o was used up by a decision: it is older than LastActionTime,*)
(* and the score does not contain it.                                      *)
UsedUp(r, o) ==
    r.lastAction # Zero /\ age[o] >= r.lastAction /\ o \notin CountedBy(r)

Sound(n, r) ==
    /\ \A i \in DOMAIN r.messages :
          r.messages[i] \in OccurrenceOf(n) /\ age[r.messages[i]] # Zero
    /\ \A o \in r.basis : o \in OccurrenceOf(n) /\ UsedUp(r, o)
    /\ \A o \in OccurrenceOf(n) : paid[o] > 0 => UsedUp(r, o)

(* The edits of the cached object c since version a was persisted.         *)
Extends(a, c) ==
    /\ IsPrefix(a.messages, c.messages)
    /\ \A i \in DOMAIN c.messages : i > Len(a.messages) => c.messages[i] \notin old
    /\ c.basis # a.basis => \A o \in c.basis : paid[o] = 0

Persisted(n) ==
    IF api[n] = NoReport
      THEN \A o \in OccurrenceOf(n) : paid[o] = 0
      ELSE Sound(n, api[n])

Synced(n) ==
    IF watch[n] # <<>>
      THEN watch[n][Len(watch[n])] = api[n]
      ELSE IF api[n] = NoReport
             THEN cache[n] = NoReport
             ELSE cache[n] # NoReport /\ Sound(n, cache[n]) /\ Extends(api[n], cache[n])

(* What every step preserves.                                              *)
EventInv ==
    /\ TypeOK
    /\ Pointers
    /\ Chronicle
    /\ Intake
    /\ \A n \in Node : Persisted(n) /\ Synced(n)
    /\ SpentOnce
=============================================================================
