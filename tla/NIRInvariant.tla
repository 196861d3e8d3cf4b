---------------------------- MODULE NIRInvariant ----------------------------
(***************************************************************************)
(* The inductive invariant behind the safety properties of NIRController.  *)
(*                                                                         *)
(* Its idea: for each report, everything that is on its way from the API   *)
(* server is behind the cached object, so what a worker read stays true of *)
(* the node it works on, even after the watch has replaced the object.     *)
(***************************************************************************)
EXTENDS NIRProperties

RankOf(r) == IF r = NoReport THEN 0 ELSE Rank(r.phase)

(* Two workers never work on the same report.                              *)
Exclusive ==
    \A v, w \in Worker :
        v # w /\ held[v].node \in Node => held[v].node # held[w].node

(* An Update succeeds only when the watch has delivered everything, so of  *)
(* the versions on their way only the first can come from one; the others  *)
(* are deletions and new reports.                                          *)
VersionsInOrder(n) ==
    /\ \A t \in Thread : held[t] = [node |-> n, ref |-> "live"] => watch[n] = <<>>
    /\ watch[n] # <<>> => watch[n][Len(watch[n])] = api[n]
    /\ \A i \in 2 .. Len(watch[n]) : watch[n][i] # NoReport => watch[n][i].phase = "none"

(* The cache leads: no copy is further in a replacement than it.           *)
CacheLeads(n) ==
    \A r \in Copies(n) : Rank(r.phase) <= RankOf(cache[n])

(* A node that has not joined has no report, and nobody works on it.       *)
NotJoined(n) ==
    node[n].place = "absent" =>
        Copies(n) = {} /\ \A w \in Worker : held[w].node # n

Emptied(m) == ~m.inAsg /\ m.cordoned /\ (m.tainted \/ ~m.pods)

(* What a worker about to make call l relies on: the cached report r, if   *)
(* it is still the worker's own, and the node m.                           *)
Rebooting  == {"startReboot", "cordonReboot", "evictReboot", "reboot"}
NotReplace == Rebooting \cup {"startReplace", "uncordon", "notifyDenied",
                              "page", "pageEscalated", "deletePaged"}
DrainsOld  == {"cordonOld", "evictOld", "forceCordon", "forceTaint", "forceStale"}
Removes    == {"notifyReplaced", "selfReport", "deleteNode", "selfNode"}

Relies(l, own, r, m) ==
    /\ l \in NotReplace => RankOf(r) = 0
    /\ l \in Rebooting /\ own => r.lastAction # Zero
    /\ l = "detach" /\ own => r.phase = "replace"
    /\ l \in DrainsOld => ~m.inAsg
    /\ l \in {"evictOld", "forceTaint"} => m.cordoned
    /\ l \in Removes => Emptied(m)

AtWork(w) ==
    Relies(pc[w], held[w].ref # "orphan", cache[held[w].node], node[held[w].node])

SafetyInv ==
    /\ Exclusive
    /\ \A n \in Node : VersionsInOrder(n) /\ CacheLeads(n) /\ NotJoined(n)
    /\ PhaseEffects
    /\ RebootTimed
    /\ \A w \in Worker : AtWork(w)
-----------------------------------------------------------------------------
(* Nodes protected by every policy an administrator may apply.             *)

ProtectedNodes == {n \in Node : \A c \in ConfigChoices : Protected(n, c)}

(* The calls that do nothing to a node.                                    *)
Harmless == Saving \cup {"idle", "notifyDenied"}

(* A protected node is not touched because nothing ever starts on it: no   *)
(* copy of its report, persisted, cached or on its way, is in a phase.     *)
ShieldInv ==
    \A n \in ProtectedNodes :
        /\ ~Touched(n)
        /\ \A r \in Copies(n) : r.phase = "none"
        /\ \A w \in Worker : held[w].node = n => pc[w] \in Harmless
-----------------------------------------------------------------------------
(* While API calls succeed or conflict, the cached object and what a       *)
(* worker does with it stay one step ahead of the persisted report at most.*)

(* The cached object is the latest version unless another is on its way.   *)
Synced(n) ==
    /\ \A t \in Thread : held[t].node = n =>
          /\ held[t].ref # "none"
          /\ held[t].ref = "behind" => watch[n] # <<>>
    /\ watch[n] = <<>> => (cache[n] = NoReport <=> api[n] = NoReport)

Live(t, n) == held[t] = [node |-> n, ref |-> "live"]

(* An edit that could still be persisted is one step of the lifecycle, and *)
(* the worker that made it is about to save it.                            *)
InStep(n) ==
    watch[n] = <<>> /\ api[n] # NoReport /\ cache[n].phase # api[n].phase =>
        /\ <<api[n].phase, cache[n].phase>> \in Lifecycle!Follows
        /\ \E w \in Worker : Live(w, n) /\ pc[w] \in Saving

(* The phase of the report of a worker about to make call l.               *)
Walks(l, p) ==
    /\ l \in {"startReboot", "startReplace", "notifyDenied", "page"} => p = "none"
    /\ l \in {"cordonReboot", "evictReboot", "reboot"} => p = "reboot"
    /\ l = "uncordon" => p = "rebooted"
    /\ l = "detach" => p = "replace"
    /\ l \in DrainsOld => p = "newjoined"

(* Who drops the key of a report with work to do has an outdated pointer.  *)
Tended(n) ==
    \/ n \in queue \/ watch[n] # <<>>
    \/ \E t \in Worker \cup Writer : Live(t, n) /\ pc[t] # "idle"

Remembered(n) == HasWork(n) => Tended(n)

StepInv ==
    /\ \A n \in Node : Synced(n) /\ InStep(n)
    /\ \A w \in Worker : held[w].ref # "orphan" => Walks(pc[w], cache[held[w].node].phase)

WorkInv == StepInv /\ \A n \in Node : Remembered(n)
-----------------------------------------------------------------------------
(* What keeps a cordoned node from being forgotten, however calls fail.    *)

UnderWay(r) == r # NoReport /\ r.phase # "none"

(* The report of a node that is being operated on is not deleted.          *)
Sparing == \A n \in Node : Present(n) /\ UnderWay(api[n]) => api'[n] # NoReport

SparingSpec == Init /\ [][Next /\ Sparing]_vars

Acting == {"cordonReboot", "evictReboot", "reboot", "detach"} \cup DrainsOld

(* The cached object is further than its report, which has not started, or *)
(* not been rebooted.                                                      *)
Unsaved(n) ==
    /\ UnderWay(cache[n])
    /\ UnderWay(api[n]) => cache[n].phase = "rebooted" /\ api[n].phase # "rebooted"

(* A cordoned node is on record, and so is what a worker is doing to it;   *)
(* an edit that is not is dropped if it cannot be saved.                   *)
OnRecord(n) ==
    /\ node[n].cordoned => UnderWay(api[n])
    /\ watch[n] # <<>> /\ UnderWay(watch[n][1]) => Len(watch[n]) = 1
    /\ UnderWay(api[n]) =>
          UnderWay(cache[n]) \/ (~node[n].cordoned /\ api[n].phase = "rebooted")
    /\ Unsaved(n) => n \notin queue
    /\ \A w \in Worker : held[w].node = n =>
          /\ Unsaved(n) => pc[w] \in {"saveLog", "idle"}
          /\ pc[w] \in Acting => UnderWay(api[n]) /\ UnderWay(cache[n])
          /\ pc[w] = "uncordon" => \A r \in {api[n], cache[n]} :
                                      r # NoReport /\ r.phase = "rebooted"

(* A key is back in the queue only when its worker has lost the object.    *)
InHand(w) ==
    /\ held[w].ref # "orphan" => held[w].node \notin queue
    /\ held[w].ref # "orphan" => Walks(pc[w], cache[held[w].node].phase)

CordonInv ==
    /\ \A n \in Node : Present(n) => OnRecord(n)
    /\ \A w \in Worker : InHand(w)

(* The nodes that use up the limit of an entry: out of service or on their *)
(* way there, or past the check.  Only one that passes the check is added. *)
Early(r) == r # NoReport /\ r.phase \notin {"none", "rebooted"}
Starts == {"startReboot", "startReplace"}

Engaged(n) ==
    /\ Present(n)
    /\ \/ node[n].cordoned \/ Early(api[n]) \/ Early(cache[n])
       \/ \E w \in Worker : held[w].node = n /\ pc[w] \in Acting

Occupied(n) == Engaged(n) \/ \E w \in Worker : held[w].node = n /\ pc[w] \in Starts

LimitInv ==
    \A i \in DOMAIN configs : configs[i].max > 0 =>
        Cardinality({n \in configs[i].nodes : Occupied(n)})
            <= configs[i].max + Cardinality(Worker) - 1
=============================================================================
