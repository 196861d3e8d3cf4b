--------------------------- MODULE NodeInvariant ---------------------------
(***************************************************************************)
(* Why a suspicion is not forgotten: an inductive strengthening of         *)
(* SuspicionWatched for nodes that no rule applies to.                     *)
(***************************************************************************)
EXTENDS NodeProperties, NIRInvariant

(* No policy an administrator may apply has a rule for a managed node.     *)
Ruleless ==
    \A n \in Managed, c \in ConfigChoices : \A i \in DOMAIN c : n \notin c[i].nodes

(* Without a rule a report is only ever on the way to a replacement, and   *)
(* the calls that reboot a node or settle its report are not made.         *)
Plain(r) == r.phase \in {"none"} \cup Replacing /\ r.action \in {"none", "replace"}

Settling == {"notifyDenied", "page", "pageEscalated", "startReboot", "uncordon",
             "cordonReboot", "evictReboot", "reboot"}

(* A worker has the cached object only while that asks for something.      *)
Unruled(n) ==
    /\ \A r \in Copies(n) : Plain(r)
    /\ \A w \in Worker : held[w].node = n =>
          /\ pc[w] \notin Settling
          /\ pc[w] # "idle" /\ held[w].ref # "orphan" => ~Idle(cache[n])

SelfReplacing == {"selfReport", "selfNode", "selfPod"}

UnruledInv ==
    /\ \A n \in Managed : Unruled(n)
    /\ \A w \in Worker : pc[w] \notin SelfReplacing
-----------------------------------------------------------------------------
Suspicious(r) == r # NoReport /\ Idle(r) /\ Suspects(r)

(* A look will come, or is under way.                                      *)
Kept(n) ==
    \/ n \in looks \/ timer[n] # Zero
    \/ \E f \in Looker \cup Checker : held[f].node = n

(* A second look that gets this from the cache drops the key.              *)
Missed(r) == r = NoReport \/ ~Idle(r)

Stale(n) ==
    Missed(cache[n]) \/ \E i \in 1 .. (Len(watch[n]) - 1) : Missed(watch[n][i])

(* Nothing is on its way, so the cache knows the report if there is one.   *)
Agreed(n) == watch[n] = <<>> => (cache[n] = NoReport <=> api[n] = NoReport)

(* Whoever edits the shared object into one that asks for a replacement    *)
(* holds it, ...                                                           *)
Requested(n) ==
    watch[n] = <<>> /\ api[n] # NoReport /\ Idle(api[n]) /\ ~Idle(cache[n])
        => \E f \in Checker : Live(f, n)

(* ... and so does whoever makes it suspicious.                            *)
Noted(n) ==
    /\ Suspicious(cache[n])
    /\ \/ watch[n] = <<>> /\ ~Suspicious(api[n])
       \/ \E f \in Checker : Live(f, n) /\ pc[f] = "commit"
    => \E f \in Looker : Live(f, n)

(* A key is left to the second look alone only if that look, when all that *)
(* is on its way has been delivered or less, will find the suspicion.      *)
Awaited(n) ==
    Undisturbed /\ Present(n) /\ Suspicious(api[n])
        => Kept(n) \/ (n \in due /\ ~Stale(n))

(* Between two looks a goroutine holds nothing.                            *)
AtRest == \A f \in Looker \cup Checker : pc[f] = "idle" => held[f] = Nothing

Attended(n) == Agreed(n) /\ Requested(n) /\ Noted(n) /\ Awaited(n)

WatchInv ==
    /\ UnruledInv
    /\ \A n \in Managed : Attended(n)
    /\ AtRest
    /\ budget["crashes"] <= Budget["crashes"]
=============================================================================
