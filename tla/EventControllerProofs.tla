----------------------- MODULE EventControllerProofs -----------------------
(***************************************************************************)
(* EventInv is inductive, and what follows from it: messages only grow, a  *)
(* restart repeats none, and no occurrence is used up twice, for any       *)
(* number of events, nodes, workers, other goroutines and disturbances.    *)
(***************************************************************************)
EXTENDS EventInvariant, TLAPS, SequenceTheorems, FiniteSetTheorems

Cards == Scorecard \cup {NoReport}

LivePointers ==
    \A t \in Thread : held[t].ref = "live" =>
       /\ held[t].node \in Node
       /\ watch[held[t].node] = <<>> /\ cache[held[t].node] # NoReport

(* The part of the invariant that is about reports ...                     *)
Vault ==
    /\ api   \in [Node -> Cards] /\ cache \in [Node -> Cards]
    /\ watch \in [Node -> Seq(Cards)] /\ held \in [Thread -> Hold]
    /\ age   \in [Occurrence -> Stamp]
    /\ recorded \subseteq Occurrence /\ paid \in [Occurrence -> Nat]
    /\ LivePointers
    /\ \A n \in Node : Persisted(n) /\ Synced(n)
    /\ SpentOnce

(* ... and the part about events and workers.                              *)
Routine ==
    /\ count \in [Event -> Nat] /\ expired \subseteq Event
    /\ shown \in [Event -> Nat] /\ \A e \in Event : shown[e] <= count[e]
    /\ old   \subseteq Occurrence /\ nodesKnown \in BOOLEAN
    /\ queue \subseteq Event
    /\ job   \in [Worker -> Occurrence \cup {NoJob}]
    /\ pc    \in [Thread -> {"idle", "create", "update"}]
    /\ budget \in [Disturbance -> Nat]
    /\ \A w \in Worker : pc[w] = "idle" <=> job[w] = NoJob
    /\ \A w \in Worker : pc[w] = "update" => held[w].node = About[job[w][1]]
    /\ \A t \in Other : pc[t] = "update" => held[t].node \in Node
    /\ Chronicle
    /\ Intake

LEMMA EventSplit == EventInv <=> Vault /\ Routine
BY DEF EventInv, Vault, Routine, TypeOK, Pointers, LivePointers, Cards

LEMMA EventJoin == Vault' /\ Routine' => EventInv'
BY DEF EventInv, Vault, Routine, TypeOK, Pointers, LivePointers, Cards
-----------------------------------------------------------------------------
(* Occurrences, ages, records.                                             *)

LEMMA Kinds ==
    /\ Worker \subseteq Thread /\ Other \subseteq Thread
    /\ Worker \cap Other = {}
    /\ \A w \in Worker, o \in Other : w # o
BY EventAssumption

LEMMA OccurrenceIs ==
    /\ \A e \in Event, i \in Int :
          1 <= i /\ i <= Recurrences[e] => <<e, i>> \in Occurrence
    /\ \A o \in Occurrence :
          /\ o = <<o[1], o[2]>> /\ o[1] \in Event /\ About[o[1]] \in Node
          /\ o[2] \in Nat /\ 1 <= o[2] /\ o[2] <= Recurrences[o[1]]
<1>1. Recurrences \in [Event -> Nat] /\ About \in [Event -> Node]
  BY EventAssumption
<1>2. \A e \in Event, i \in Int :
          1 <= i /\ i <= Recurrences[e] => <<e, i>> \in {e} \X (1 .. Recurrences[e])
  BY <1>1
<1>3. ASSUME NEW o \in Occurrence
      PROVE  \E e \in Event : o \in {e} \X (1 .. Recurrences[e])
  BY DEF Occurrence
<1>4. ASSUME NEW e \in Event, NEW o \in {e} \X (1 .. Recurrences[e])
      PROVE  /\ o = <<o[1], o[2]>> /\ o[1] \in Event
             /\ o[2] \in Nat /\ 1 <= o[2] /\ o[2] <= Recurrences[o[1]]
  BY <1>1
<1>5. \A e \in Event : \A o \in {e} \X (1 .. Recurrences[e]) : o \in Occurrence
  BY DEF Occurrence
<1>6. ASSUME NEW o \in Occurrence
      PROVE  /\ o = <<o[1], o[2]>> /\ o[1] \in Event /\ About[o[1]] \in Node
             /\ o[2] \in Nat /\ 1 <= o[2] /\ o[2] <= Recurrences[o[1]]
  <2>1. PICK e \in Event : o \in {e} \X (1 .. Recurrences[e])
    BY <1>3
  <2> QED BY <1>1, <1>4, <2>1
<1> QED BY <1>2, <1>5, <1>6

LEMMA Ages ==
    /\ \A t \in Stamp : Older(t) \in Stamp /\ (Older(t) = Zero <=> t = Zero)
    /\ \A s, t \in Stamp : s >= t => Older(s) >= Older(t) \/ t = Zero
    /\ 0 \in Stamp /\ Zero \in Stamp /\ 0 # Zero
    /\ \A t \in Stamp : t # Zero => t >= 0
BY StoreAssumption DEF Older, Stamp, Zero

LEMMA CardFields ==
    /\ NoReport \notin Scorecard
    /\ \A r \in Scorecard :
          /\ r.messages \in Seq(Occurrence) /\ Len(r.messages) \in Nat
          /\ DOMAIN r.messages = 1 .. Len(r.messages)
          /\ \A i \in 1 .. Len(r.messages) : r.messages[i] \in Occurrence
          /\ r.counted \in SUBSET Nat /\ r.counted \subseteq DOMAIN r.messages
          /\ r.lastAction \in Stamp
          /\ r.acting \in BOOLEAN /\ r.basis \in SUBSET Occurrence
<1>1. ASSUME NEW r \in Scorecard
      PROVE  /\ r.messages \in Seq(Occurrence) /\ r.counted \in SUBSET Nat
             /\ r.counted \subseteq DOMAIN r.messages
             /\ r.lastAction \in Stamp /\ r.acting \in BOOLEAN
             /\ r.basis \in SUBSET Occurrence
  BY DEF Scorecard
<1>2. ASSUME NEW s \in Seq(Occurrence)
      PROVE  /\ Len(s) \in Nat /\ DOMAIN s = 1 .. Len(s)
             /\ \A i \in 1 .. Len(s) : s[i] \in Occurrence
  BY LenProperties, ElementOfSeq
<1> QED BY <1>1, <1>2, EventAssumption
-----------------------------------------------------------------------------
(* What the edits of a report make of it.                                  *)

Decided(r) == [r EXCEPT !.acting = TRUE, !.lastAction = 0,
                        !.counted = {}, !.basis = CountedBy(r)]

LEMMA RecordedIs ==
    ASSUME NEW n \in Node, NEW o \in Occurrence, NEW r \in Scorecard,
           NEW q, q = Recorded(n, r, o)
    PROVE  /\ q \in Scorecard
           /\ q.messages = Append(r.messages, o)
           /\ Len(q.messages) = Len(r.messages) + 1
           /\ \A i \in 1 .. Len(r.messages) : q.messages[i] = r.messages[i]
           /\ q.messages[Len(r.messages) + 1] = o
           /\ q.lastAction = r.lastAction /\ q.basis = r.basis
           /\ \/ q.counted = r.counted
              \/ q.counted = {i \in DOMAIN q.messages : Counts(q, q.messages[i])}
<1> DEFINE more == [r EXCEPT !.messages = Append(@, o)]
<1>1. /\ Append(r.messages, o) \in Seq(Occurrence)
      /\ Len(Append(r.messages, o)) = Len(r.messages) + 1
      /\ \A i \in 1 .. Len(r.messages) : Append(r.messages, o)[i] = r.messages[i]
      /\ Append(r.messages, o)[Len(r.messages) + 1] = o
  BY CardFields, AppendProperties
<1>2. /\ more \in Scorecard /\ more.messages = Append(r.messages, o)
      /\ more.lastAction = r.lastAction /\ more.basis = r.basis
      /\ more.counted = r.counted
  <2>1. r.counted \subseteq DOMAIN Append(r.messages, o)
    BY <1>1, CardFields
  <2> QED BY <1>1, <2>1 DEF Scorecard
<1> HIDE DEF more
<1>3. CASE n \in Ruled
  <2> DEFINE S == {i \in DOMAIN more.messages : Counts(more, more.messages[i])}
  <2>1. q = [more EXCEPT !.counted = S]
    BY <1>3 DEF Recorded, Recalculated, more
  <2>2. S \subseteq Nat
    BY <1>2, CardFields
  <2>3. /\ q \in Scorecard /\ q.messages = more.messages
        /\ q.lastAction = more.lastAction /\ q.basis = more.basis
        /\ q.counted = S
    BY <1>2, <2>1, <2>2 DEF Scorecard
  <2>4. S = {i \in DOMAIN q.messages : Counts(q, q.messages[i])}
    BY <2>3 DEF Counts
  <2> QED BY <1>1, <1>2, <2>3, <2>4
<1>4. CASE n \notin Ruled
  <2>1. q = more
    BY <1>4 DEF Recorded, more
  <2> QED BY <1>1, <1>2, <2>1
<1> QED BY <1>3, <1>4

LEMMA ConstructedIs ==
    ASSUME NEW n \in Node, NEW o \in Occurrence, NEW q, q = Constructed(n, o)
    PROVE  /\ q \in Scorecard /\ q.messages = <<o>> /\ DOMAIN q.messages = {1}
           /\ q.messages[1] = o /\ Len(q.messages) = 1
           /\ q.counted \subseteq {1} /\ q.basis = {}
<1>1. <<o>> \in Seq(Occurrence) /\ DOMAIN <<o>> = {1} /\ Len(<<o>>) = 1
  OBVIOUS
<1> QED BY <1>1, Ages DEF Constructed, Scorecard

LEMMA CountedAre ==
    ASSUME NEW r \in Scorecard
    PROVE  CountedBy(r) \subseteq Occurrence
BY CardFields DEF CountedBy

LEMMA DecidedIs ==
    ASSUME NEW r \in Scorecard, NEW q, q = Decided(r)
    PROVE  /\ q \in Scorecard /\ q.messages = r.messages
           /\ q.counted = {} /\ q.lastAction = 0 /\ q.basis = CountedBy(r)
BY CountedAre, Ages DEF Decided, Scorecard

LEMMA SettledIs ==
    ASSUME NEW r \in Scorecard, NEW q, q = [r EXCEPT !.acting = FALSE]
    PROVE  /\ q \in Scorecard /\ q.messages = r.messages
           /\ q.counted = r.counted /\ q.lastAction = r.lastAction
           /\ q.basis = r.basis
BY DEF Scorecard

LEMMA AgedIs ==
    ASSUME NEW r \in Cards, NEW q, q = Aged(r)
    PROVE  /\ q \in Cards /\ (q = NoReport <=> r = NoReport)
           /\ r # NoReport =>
                /\ q \in Scorecard /\ q.messages = r.messages
                /\ q.counted = r.counted /\ q.lastAction = Older(r.lastAction)
                /\ q.basis = r.basis
<1>1. CASE r = NoReport
  BY <1>1 DEF Aged, Cards
<1>2. CASE r # NoReport
  <2>1. r \in Scorecard /\ Older(r.lastAction) \in Stamp
    BY <1>2, CardFields, Ages DEF Cards
  <2>2. q = [r EXCEPT !.lastAction = Older(@)]
    BY <1>2 DEF Aged
  <2>3. /\ q \in Scorecard /\ q.messages = r.messages
        /\ q.counted = r.counted /\ q.lastAction = Older(r.lastAction)
        /\ q.basis = r.basis
    BY <2>1, <2>2 DEF Scorecard
  <2> QED BY <1>2, <2>3, CardFields DEF Cards
<1> QED BY <1>1, <1>2
-----------------------------------------------------------------------------
(* Edits keep a report sound.                                              *)

LEMMA SoundRecorded ==
    ASSUME Vault, NEW n \in Node, NEW o \in OccurrenceOf(n), age[o] # Zero,
           NEW r \in Scorecard, Sound(n, r), NEW q, q = Recorded(n, r, o)
    PROVE  Sound(n, q)
<1>1. o \in Occurrence
  BY DEF OccurrenceOf
<1>2. /\ q \in Scorecard
      /\ Len(q.messages) = Len(r.messages) + 1
      /\ \A i \in 1 .. Len(r.messages) : q.messages[i] = r.messages[i]
      /\ q.messages[Len(r.messages) + 1] = o
      /\ q.lastAction = r.lastAction /\ q.basis = r.basis
      /\ \/ q.counted = r.counted
         \/ q.counted = {i \in DOMAIN q.messages : Counts(q, q.messages[i])}
  BY <1>1, RecordedIs
<1>3. /\ Len(r.messages) \in Nat /\ DOMAIN r.messages = 1 .. Len(r.messages)
      /\ DOMAIN q.messages = 1 .. Len(q.messages)
      /\ r.lastAction \in Stamp
  BY <1>2, CardFields
<1>4. \A i \in DOMAIN q.messages :
        q.messages[i] \in OccurrenceOf(n) /\ age[q.messages[i]] # Zero
  <2> SUFFICES ASSUME NEW i \in DOMAIN q.messages
               PROVE  q.messages[i] \in OccurrenceOf(n) /\ age[q.messages[i]] # Zero
    OBVIOUS
  <2>1. i \in 1 .. Len(r.messages) \/ i = Len(r.messages) + 1
    BY <1>2, <1>3
  <2> QED BY <1>2, <1>3, <2>1 DEF Sound
<1>6. ASSUME NEW p \in Occurrence, UsedUp(r, p)
      PROVE  UsedUp(q, p)
  <2>1. r.lastAction # Zero /\ age[p] >= r.lastAction /\ p \notin CountedBy(r)
    BY <1>6 DEF UsedUp
  <2>2. ASSUME p \in CountedBy(q) PROVE FALSE
    <3>1. PICK i \in q.counted : p = q.messages[i]
      BY <2>2 DEF CountedBy
    <3>2. CASE q.counted = r.counted
      <4>1. i \in 1 .. Len(r.messages)
        BY <1>3, <3>1, <3>2, CardFields
      <4> QED BY <1>2, <2>1, <3>1, <3>2, <4>1 DEF CountedBy
    <3>3. CASE q.counted = {j \in DOMAIN q.messages : Counts(q, q.messages[j])}
      <4>1. Counts(q, p)
        BY <3>1, <3>3
      <4>2. age[p] < r.lastAction
        BY <1>2, <2>1, <4>1 DEF Counts
      <4>3. age[p] \in Int /\ r.lastAction \in Int
        BY <1>3 DEF Vault, Stamp, Zero
      <4> QED BY <2>1, <4>2, <4>3
    <3> QED BY <1>2, <3>2, <3>3
  <2> QED BY <1>2, <2>1, <2>2 DEF UsedUp
<1>7. \A p \in OccurrenceOf(n) : p \in Occurrence
  BY DEF OccurrenceOf
<1> QED BY <1>2, <1>4, <1>6, <1>7 DEF Sound

(* A decision uses up what it counted.                                     *)
LEMMA SoundDecided ==
    ASSUME Vault, NEW n \in Node, NEW r \in Scorecard, Sound(n, r),
           NEW q, q = Decided(r)
    PROVE  Sound(n, q) /\ \A o \in q.basis : paid[o] = 0
<1>1. /\ q \in Scorecard /\ q.messages = r.messages
      /\ q.counted = {} /\ q.lastAction = 0 /\ q.basis = CountedBy(r)
  BY DecidedIs
<1>2. \A o \in Occurrence : age[o] # Zero => UsedUp(q, o)
  BY <1>1, Ages DEF UsedUp, CountedBy, Vault
<1>3. \A o \in OccurrenceOf(n) : o \in Occurrence
  BY DEF OccurrenceOf
<1>4. \A o \in q.basis : o \in OccurrenceOf(n) /\ age[o] # Zero
  BY <1>1, CardFields DEF CountedBy, Sound
<1>5. ASSUME NEW o \in OccurrenceOf(n), paid[o] > 0
      PROVE  UsedUp(q, o) /\ o \notin q.basis
  <2>1. r.lastAction # Zero /\ age[o] >= r.lastAction /\ o \notin CountedBy(r)
    BY <1>5 DEF Sound, UsedUp
  <2>2. age[o] \in Stamp /\ r.lastAction \in Stamp
    BY <1>3, CardFields DEF Vault
  <2>3. age[o] # Zero
    BY <2>1, <2>2, StoreAssumption DEF Stamp, Zero
  <2> QED BY <1>1, <1>2, <1>3, <2>1, <2>3
<1>6. Sound(n, q)
  BY <1>1, <1>2, <1>3, <1>4, <1>5 DEF Sound
<1>7. \A o \in q.basis : paid[o] \in Nat
  BY <1>3, <1>4 DEF Vault
<1> QED BY <1>4, <1>5, <1>6, <1>7

LEMMA SoundSettled ==
    ASSUME NEW n \in Node, NEW r \in Scorecard, Sound(n, r),
           NEW q, q = [r EXCEPT !.acting = FALSE]
    PROVE  Sound(n, q)
BY SettledIs DEF Sound, UsedUp, CountedBy

LEMMA SoundConstructed ==
    ASSUME Vault, NEW n \in Node, api[n] = NoReport,
           NEW o \in OccurrenceOf(n), age[o] # Zero, NEW q, q = Constructed(n, o)
    PROVE  Sound(n, q)
<1>1. o \in Occurrence
  BY DEF OccurrenceOf
<1>2. \A p \in OccurrenceOf(n) : paid[p] = 0
  BY DEF Vault, Persisted
<1> QED BY <1>1, <1>2, ConstructedIs DEF Sound
-----------------------------------------------------------------------------
(* The predicates on reports, of the state given by its ages, its          *)
(* payments and what is old in it.                                         *)

UsedUpGiven(a, r, o) ==
    r.lastAction # Zero /\ a[o] >= r.lastAction /\ o \notin CountedBy(r)

SoundGiven(a, p, n, r) ==
    /\ \A i \in DOMAIN r.messages :
          r.messages[i] \in OccurrenceOf(n) /\ a[r.messages[i]] # Zero
    /\ \A o \in r.basis : o \in OccurrenceOf(n) /\ UsedUpGiven(a, r, o)
    /\ \A o \in OccurrenceOf(n) : p[o] > 0 => UsedUpGiven(a, r, o)

ExtendsGiven(before, p, x, c) ==
    /\ IsPrefix(x.messages, c.messages)
    /\ \A i \in DOMAIN c.messages : i > Len(x.messages) => c.messages[i] \notin before
    /\ c.basis # x.basis => \A o \in c.basis : p[o] = 0

Settled(n, x, c, v, a, p, before) ==
    /\ IF x = NoReport
         THEN \A o \in OccurrenceOf(n) : p[o] = 0
         ELSE SoundGiven(a, p, n, x)
    /\ IF v # <<>>
         THEN v[Len(v)] = x
         ELSE IF x = NoReport
                THEN c = NoReport
                ELSE c # NoReport /\ SoundGiven(a, p, n, c) /\ ExtendsGiven(before, p, x, c)

LEMMA GivenNow ==
    /\ \A n, r : Sound(n, r) <=> SoundGiven(age, paid, n, r)
    /\ \A x, c : Extends(x, c) <=> ExtendsGiven(old, paid, x, c)
    /\ \A n : Persisted(n) /\ Synced(n)
                  <=> Settled(n, api[n], cache[n], watch[n], age, paid, old)
BY DEF Sound, SoundGiven, UsedUp, UsedUpGiven, Extends, ExtendsGiven,
       Persisted, Synced, Settled

LEMMA GivenNext ==
    \A n : (Persisted(n) /\ Synced(n))'
              <=> Settled(n, api'[n], cache'[n], watch'[n], age', paid', old')
BY DEF Sound, SoundGiven, UsedUp, UsedUpGiven, Extends, ExtendsGiven,
       Persisted, Synced, Settled
-----------------------------------------------------------------------------
(* A report stays sound while no age of an occurrence that happened moves  *)
(* and only what it used up is paid for.                                   *)
LEMMA KeptSound ==
    ASSUME NEW n \in Node, NEW r \in Scorecard,
           NEW a \in [Occurrence -> Stamp], NEW b \in [Occurrence -> Stamp],
           NEW p, NEW q, SoundGiven(a, p, n, r),
           \A o \in Occurrence : a[o] # Zero => b[o] = a[o],
           \A o \in OccurrenceOf(n) : q[o] > 0 => p[o] > 0 \/ o \in r.basis
    PROVE  SoundGiven(b, q, n, r)
<1>1. \A o \in OccurrenceOf(n) : o \in Occurrence
  BY DEF OccurrenceOf
<1>2. ASSUME NEW o \in Occurrence, UsedUpGiven(a, r, o) PROVE UsedUpGiven(b, r, o)
  <2>1. r.lastAction # Zero /\ a[o] >= r.lastAction /\ o \notin CountedBy(r)
    BY <1>2 DEF UsedUpGiven
  <2>2. a[o] # Zero
    BY <2>1, CardFields, StoreAssumption DEF Stamp, Zero
  <2> QED BY <2>1, <2>2 DEF UsedUpGiven
<1>3. \A i \in DOMAIN r.messages : b[r.messages[i]] # Zero
  BY <1>1 DEF SoundGiven
<1> QED BY <1>1, <1>2, <1>3 DEF SoundGiven

VaultTypes ==
    /\ api   \in [Node -> Cards] /\ cache \in [Node -> Cards]
    /\ watch \in [Node -> Seq(Cards)] /\ held \in [Thread -> Hold]
    /\ age   \in [Occurrence -> Stamp]
    /\ recorded \subseteq Occurrence /\ paid \in [Occurrence -> Nat]

LEMMA VaultSplit ==
    Vault <=> /\ VaultTypes /\ LivePointers /\ SpentOnce
              /\ \A n \in Node : Settled(n, api[n], cache[n], watch[n], age, paid, old)
BY GivenNow DEF Vault, VaultTypes

LEMMA VaultJoin ==
    /\ VaultTypes' /\ LivePointers' /\ SpentOnce'
    /\ \A n \in Node : Settled(n, api'[n], cache'[n], watch'[n], age', paid', old')
    => Vault'
BY GivenNext DEF Vault, VaultTypes

(* What no step touches stays as it was.                                   *)
LEMMA KeptSettled ==
    ASSUME VaultTypes, VaultTypes', NEW n \in Node,
           Settled(n, api[n], cache[n], watch[n], age, paid, old),
           api'[n] = api[n], cache'[n] = cache[n], watch'[n] = watch[n], old' = old,
           \A o \in Occurrence : age[o] # Zero => age'[o] = age[o],
           \A o \in OccurrenceOf(n) : paid'[o] = paid[o]
    PROVE  Settled(n, api'[n], cache'[n], watch'[n], age', paid', old')
<1> DEFINE x == api[n]
           c == cache[n]
<1>1. x \in Cards /\ c \in Cards
  BY DEF VaultTypes
<1>2. ASSUME NEW r \in Scorecard, SoundGiven(age, paid, n, r)
      PROVE  SoundGiven(age', paid', n, r)
  BY <1>2, KeptSound DEF VaultTypes
<1>3. ASSUME x \in Scorecard, c \in Scorecard,
             SoundGiven(age, paid, n, c), ExtendsGiven(old, paid, x, c)
      PROVE  ExtendsGiven(old', paid', x, c)
  BY <1>3 DEF ExtendsGiven, SoundGiven
<1> QED BY <1>1, <1>2, <1>3 DEF Settled, Cards

LEMMA VaultQuiet ==
    ASSUME Vault, UNCHANGED <<storeAndHistory, old>>, age' \in [Occurrence -> Stamp],
           \A o \in Occurrence : age[o] # Zero => age'[o] = age[o]
    PROVE  Vault'
<1>1. /\ api' = api /\ cache' = cache /\ watch' = watch /\ held' = held
      /\ recorded' = recorded /\ paid' = paid /\ old' = old
  BY DEF storeAndHistory, storeVars
<1>2. VaultTypes' /\ LivePointers' /\ SpentOnce'
  BY <1>1, VaultSplit DEF VaultTypes, LivePointers, SpentOnce
<1>3. \A n \in Node : Settled(n, api'[n], cache'[n], watch'[n], age', paid', old')
  BY <1>1, <1>2, VaultSplit, KeptSettled
<1> QED BY <1>2, <1>3, VaultJoin

LEMMA Pointing ==
    ASSUME VaultTypes, NEW n \in Node, NEW t \in Thread
    PROVE  /\ Lookup(n) \in Hold /\ Lookup(n).node = n
           /\ Lookup(n).ref = "live" => watch[n] = <<>>
           /\ [held EXCEPT ![t] = Lookup(n)] \in [Thread -> Hold]
           /\ Nothing \in Hold /\ Nothing.ref = "none"
           /\ Released(t) \in [Thread -> Hold]
           /\ Replaced(n) \in [Thread -> Hold]
           /\ \A h \in [Thread -> Hold] : Outdated(h, n) \in [Thread -> Hold]
<1>1. Lookup(n) \in Hold /\ Nothing \in Hold
  BY DEF Lookup, Hold, Ref, Nothing
<1>2. [node |-> n, ref |-> "behind"] \in Hold /\ [node |-> n, ref |-> "orphan"] \in Hold
  BY DEF Hold, Ref
<1> QED BY <1>1, <1>2 DEF VaultTypes, Lookup, Nothing, Released, Replaced, Outdated

(* An edit of the cached object, which may be a stale one.                 *)
LEMMA VaultEdit ==
    ASSUME Vault, NEW n \in Node, NEW t \in Thread, NEW r \in Scorecard,
           held' = [held EXCEPT ![t] = Lookup(n)], cache' = [cache EXCEPT ![n] = r],
           cache[n] # NoReport,
           UNCHANGED <<api, watch, recorded, paid, age, old>>,
           watch[n] = <<>> => Sound(n, r) /\ Extends(api[n], r)
    PROVE  Vault'
<1>1. /\ VaultTypes /\ LivePointers /\ SpentOnce
      /\ \A m \in Node : Settled(m, api[m], cache[m], watch[m], age, paid, old)
  BY VaultSplit
<1>2. VaultTypes' /\ SpentOnce'
  BY <1>1, Pointing DEF VaultTypes, SpentOnce, Cards
<1>3. r # NoReport
  BY CardFields
<1>4. LivePointers'
  BY <1>1, <1>3, Pointing DEF LivePointers, VaultTypes
<1>5. Settled(n, api'[n], cache'[n], watch'[n], age', paid', old')
  <2>1. cache'[n] = r /\ api'[n] = api[n] /\ watch'[n] = watch[n]
    BY <1>1 DEF VaultTypes
  <2>2. watch[n] = <<>> => SoundGiven(age, paid, n, r) /\ ExtendsGiven(old, paid, api[n], r)
    BY GivenNow
  <2> QED BY <1>1, <1>3, <2>1, <2>2 DEF Settled
<1>6. ASSUME NEW m \in Node, m # n
      PROVE  Settled(m, api'[m], cache'[m], watch'[m], age', paid', old')
  <2>1. cache'[m] = cache[m]
    BY <1>1, <1>6 DEF VaultTypes
  <2> QED BY <1>1, <1>2, <2>1, KeptSettled
<1> QED BY <1>2, <1>4, <1>5, <1>6, VaultJoin

LEMMA VaultReleased ==
    ASSUME Vault, NEW t \in Thread, held' = Released(t),
           UNCHANGED <<api, cache, watch, recorded, paid, age, old>>
    PROVE  Vault'
<1>1. /\ VaultTypes /\ LivePointers /\ SpentOnce
      /\ \A m \in Node : Settled(m, api[m], cache[m], watch[m], age, paid, old)
  BY VaultSplit
<1>2. VaultTypes' /\ SpentOnce'
  <2>1. ASSUME NEW h, h = Released(t) PROVE h \in [Thread -> Hold]
    BY <1>1, <2>1 DEF VaultTypes, Released, Nothing, Hold, Ref
  <2> QED BY <1>1, <2>1 DEF VaultTypes, SpentOnce
<1>3. LivePointers'
  BY <1>1 DEF LivePointers, Released, VaultTypes, Nothing
<1> QED BY <1>1, <1>2, <1>3, KeptSettled, VaultJoin
-----------------------------------------------------------------------------
(* Versions on their way.                                                  *)

LEMMA Queued ==
    ASSUME NEW v \in Seq(Cards), NEW r \in Cards
    PROVE  /\ Append(v, r) \in Seq(Cards) /\ Append(v, r) # <<>>
           /\ Append(v, r)[Len(Append(v, r))] = r
<1>1. /\ Append(v, r) \in Seq(Cards) /\ Len(Append(v, r)) = Len(v) + 1
      /\ Append(v, r)[Len(v) + 1] = r
  BY AppendProperties
<1>2. Len(v) + 1 # 0
  BY LenProperties
<1> QED BY <1>1, <1>2

LEMMA Unqueued ==
    ASSUME NEW v \in Seq(Cards), v # <<>>
    PROVE  /\ Head(v) \in Cards /\ Tail(v) \in Seq(Cards)
           /\ Tail(v) # <<>> => Tail(v)[Len(Tail(v))] = v[Len(v)]
           /\ Tail(v) = <<>> => Head(v) = v[Len(v)]
<1>1. /\ Head(v) \in Cards /\ Tail(v) \in Seq(Cards) /\ Len(Tail(v)) = Len(v) - 1
      /\ \A i \in 1 .. Len(Tail(v)) : Tail(v)[i] = v[i + 1]
      /\ Len(v) \in Nat /\ Len(v) # 0 /\ Head(v) = v[1]
  BY HeadTailProperties, LenProperties, EmptySeq
<1>2. CASE Tail(v) # <<>>
  <2>1. Len(Tail(v)) \in 1 .. Len(Tail(v))
    BY <1>1, <1>2, EmptySeq
  <2>2. Tail(v)[Len(Tail(v))] = v[(Len(v) - 1) + 1]
    BY <1>1, <2>1
  <2> QED BY <1>1, <1>2, <2>2
<1>3. CASE Tail(v) = <<>>
  <2>1. Len(v) = 1
    BY <1>1, <1>3
  <2> QED BY <1>1, <1>3, <2>1
<1> QED BY <1>2, <1>3

(* A sound version is stored; a decision that is new in it counted nothing *)
(* that was paid for before.                                               *)
LEMMA VaultStored ==
    ASSUME Vault, NEW n \in Node, NEW r \in Scorecard,
           NEW h \in [Thread -> Hold], \A t \in Thread : h[t].ref = "live" => h[t] = held[t],
           Stored(n, r, h), Sound(n, r),
           DecidedIn(n, r) => \A o \in r.basis : paid[o] = 0,
           UNCHANGED <<cache, age, old>>
    PROVE  Vault'
<1>1. /\ VaultTypes /\ LivePointers /\ SpentOnce
      /\ \A m \in Node : Settled(m, api[m], cache[m], watch[m], age, paid, old)
      /\ SoundGiven(age, paid, n, r)
  BY VaultSplit, GivenNow
<1>2. /\ api' = [api EXCEPT ![n] = r]
      /\ watch' = [watch EXCEPT ![n] = Append(@, r)]
      /\ held' = Outdated(h, n)
  BY DEF Stored, Persist
<1>3. \A o \in OccurrenceOf(n) : o \in Occurrence /\ About[o[1]] = n
  BY DEF OccurrenceOf
<1>4. ASSUME NEW o \in Occurrence
      PROVE  /\ paid'[o] \in Nat /\ paid'[o] <= 1
             /\ paid'[o] # paid[o] => o \in r.basis
  <2>1. paid[o] \in Nat /\ paid[o] <= 1
    BY <1>1 DEF VaultTypes, SpentOnce
  <2> QED BY <2>1 DEF Stored
<1>5. paid' \in [Occurrence -> Nat]
  <2>1. \/ paid' = paid
        \/ paid' = [o \in Occurrence |-> IF o \in r.basis THEN paid[o] + 1 ELSE paid[o]]
    BY DEF Stored
  <2> QED BY <1>1, <2>1 DEF VaultTypes
<1>6. r \in Cards /\ r # NoReport
  BY CardFields DEF Cards
<1>7. recorded' \subseteq Occurrence
  <2>1. Range(r.messages) \subseteq Occurrence
    BY CardFields DEF Range
  <2> QED BY <1>1, <2>1 DEF Stored, VaultTypes
<1>8. watch' \in [Node -> Seq(Cards)]
  BY <1>1, <1>2, <1>6, Queued DEF VaultTypes
<1>9. VaultTypes' /\ SpentOnce'
  <2>1. [node |-> n, ref |-> "behind"] \in Hold
    BY DEF Hold, Ref
  <2>2. held' \in [Thread -> Hold]
    BY <1>2, <2>1 DEF Outdated
  <2> QED BY <1>1, <1>2, <1>4, <1>5, <1>6, <1>7, <1>8, <2>2 DEF VaultTypes, SpentOnce
<1>10. LivePointers'
  <2> SUFFICES ASSUME NEW t \in Thread, held'[t].ref = "live"
               PROVE  /\ held'[t].node \in Node
                      /\ watch'[held'[t].node] = <<>> /\ cache'[held'[t].node] # NoReport
    BY DEF LivePointers
  <2>1. held'[t] = h[t] /\ h[t] # [node |-> n, ref |-> "live"]
    BY <1>2 DEF Outdated
  <2>2. h[t] = held[t] /\ held[t] \in Hold
    BY <1>1, <2>1 DEF VaultTypes
  <2>3. held[t].node # n
    BY <2>1, <2>2 DEF Hold
  <2> QED BY <1>1, <1>2, <2>1, <2>2, <2>3 DEF LivePointers, VaultTypes
<1>11. Settled(n, api'[n], cache'[n], watch'[n], age', paid', old')
  <2>1. api'[n] = r /\ watch'[n] = Append(watch[n], r) /\ watch[n] \in Seq(Cards)
    BY <1>1, <1>2 DEF VaultTypes
  <2>2. ASSUME NEW o \in OccurrenceOf(n), paid'[o] > 0 PROVE paid[o] > 0 \/ o \in r.basis
    BY <1>3, <1>4, <2>2
  <2>3. SoundGiven(age', paid', n, r)
    BY <1>1, <1>9, <2>2, KeptSound DEF VaultTypes
  <2>4. watch'[n] # <<>> /\ watch'[n][Len(watch'[n])] = r
    BY <1>6, <2>1, Queued
  <2> QED BY <1>6, <2>1, <2>3, <2>4 DEF Settled
<1>12. ASSUME NEW m \in Node, m # n
       PROVE  Settled(m, api'[m], cache'[m], watch'[m], age', paid', old')
  <2>1. api'[m] = api[m] /\ watch'[m] = watch[m]
    BY <1>1, <1>2, <1>12 DEF VaultTypes
  <2>2. \A o \in OccurrenceOf(m) : o \notin r.basis
    BY <1>1, <1>3, <1>12 DEF OccurrenceOf, SoundGiven
  <2>3. \A o \in OccurrenceOf(m) : paid'[o] = paid[o]
    BY <1>4, <2>2 DEF OccurrenceOf
  <2> QED BY <1>1, <1>9, <2>1, <2>3, KeptSettled
<1> QED BY <1>9, <1>10, <1>11, <1>12, VaultJoin
(* What is delivered last is the version the API server has.               *)
LEMMA VaultDelivered ==
    ASSUME Vault, NEW n \in Node, DeliverNext(n),
           UNCHANGED <<recorded, paid, age, old>>
    PROVE  Vault'
<1>1. /\ VaultTypes /\ LivePointers /\ SpentOnce
      /\ \A m \in Node : Settled(m, api[m], cache[m], watch[m], age, paid, old)
  BY VaultSplit
<1>2. /\ watch[n] # <<>> /\ api' = api
      /\ cache' = [cache EXCEPT ![n] = Head(watch[n])]
      /\ watch' = [watch EXCEPT ![n] = Tail(@)]
      /\ held'  = Replaced(n)
  BY DEF DeliverNext
<1>3. watch[n] \in Seq(Cards) /\ api[n] \in Cards
  BY <1>1 DEF VaultTypes
<1>4. /\ Head(watch[n]) \in Cards /\ Tail(watch[n]) \in Seq(Cards)
      /\ Tail(watch[n]) # <<>> => Tail(watch[n])[Len(Tail(watch[n]))] = watch[n][Len(watch[n])]
      /\ Tail(watch[n]) = <<>> => Head(watch[n]) = watch[n][Len(watch[n])]
  BY <1>2, <1>3, Unqueued
<1>5. VaultTypes' /\ SpentOnce'
  <2>1. [node |-> n, ref |-> "orphan"] \in Hold
    BY DEF Hold, Ref
  <2> QED BY <1>1, <1>2, <1>4, <2>1 DEF VaultTypes, SpentOnce, Replaced
<1>6. LivePointers'
  <2> SUFFICES ASSUME NEW t \in Thread, held'[t].ref = "live"
               PROVE  /\ held'[t].node \in Node
                      /\ watch'[held'[t].node] = <<>> /\ cache'[held'[t].node] # NoReport
    BY DEF LivePointers
  <2>1. held'[t] = held[t] /\ held[t].node # n
    BY <1>2 DEF Replaced
  <2> QED BY <1>1, <1>2, <2>1 DEF LivePointers, VaultTypes
<1>7. Settled(n, api'[n], cache'[n], watch'[n], age', paid', old')
  <2>1. api'[n] = api[n] /\ cache'[n] = Head(watch[n]) /\ watch'[n] = Tail(watch[n])
    BY <1>1, <1>2 DEF VaultTypes
  <2>2. watch[n][Len(watch[n])] = api[n]
    BY <1>1, <1>2 DEF Settled
  <2>3. CASE Tail(watch[n]) # <<>>
    BY <1>1, <1>4, <2>1, <2>2, <2>3 DEF Settled
  <2>4. CASE Tail(watch[n]) = <<>>
    <3>1. cache'[n] = api[n]
      BY <1>4, <2>1, <2>2, <2>4
    <3>2. api[n] # NoReport => ExtendsGiven(old, paid, api[n], api[n])
      BY <1>3, CardFields DEF ExtendsGiven, IsPrefix, Cards
    <3> QED BY <1>1, <2>1, <2>4, <3>1, <3>2 DEF Settled
  <2> QED BY <2>3, <2>4
<1>8. ASSUME NEW m \in Node, m # n
      PROVE  Settled(m, api'[m], cache'[m], watch'[m], age', paid', old')
  <2>1. api'[m] = api[m] /\ watch'[m] = watch[m] /\ cache'[m] = cache[m]
    BY <1>1, <1>2, <1>8 DEF VaultTypes
  <2> QED BY <1>1, <1>5, <2>1, KeptSettled
<1> QED BY <1>5, <1>6, <1>7, <1>8, VaultJoin

(* A deleted report takes the payments of its node along.                  *)
LEMMA VaultRemoved ==
    ASSUME Vault, NEW n \in Node, Removed(n)
    PROVE  Vault'
<1>1. /\ VaultTypes /\ LivePointers /\ SpentOnce
      /\ \A m \in Node : Settled(m, api[m], cache[m], watch[m], age, paid, old)
  BY VaultSplit
<1>2. /\ api' = [api EXCEPT ![n] = NoReport]
      /\ watch' = [watch EXCEPT ![n] = Append(@, NoReport)]
      /\ held' = Outdated(held, n) /\ cache' = cache
      /\ recorded' = recorded /\ age' = age /\ old' = old
      /\ paid' = [o \in Occurrence |-> IF About[o[1]] = n THEN 0 ELSE paid[o]]
  BY DEF Removed, Remove, Persist, eventVars, informed
<1>3. NoReport \in Cards /\ watch[n] \in Seq(Cards)
  BY <1>1 DEF VaultTypes, Cards
<1>4. /\ Append(watch[n], NoReport) \in Seq(Cards) /\ Append(watch[n], NoReport) # <<>>
      /\ Append(watch[n], NoReport)[Len(Append(watch[n], NoReport))] = NoReport
  BY <1>3, Queued
<1>5. VaultTypes' /\ SpentOnce'
  <2>1. [node |-> n, ref |-> "behind"] \in Hold
    BY DEF Hold, Ref
  <2>2. held' \in [Thread -> Hold]
    BY <1>1, <1>2, <2>1 DEF Outdated, VaultTypes
  <2>3. paid' \in [Occurrence -> Nat] /\ SpentOnce'
    BY <1>1, <1>2 DEF SpentOnce, VaultTypes
  <2> QED BY <1>1, <1>2, <1>3, <1>4, <2>2, <2>3 DEF VaultTypes
<1>6. LivePointers'
  <2> SUFFICES ASSUME NEW t \in Thread, held'[t].ref = "live"
               PROVE  /\ held'[t].node \in Node
                      /\ watch'[held'[t].node] = <<>> /\ cache'[held'[t].node] # NoReport
    BY DEF LivePointers
  <2>1. held'[t] = held[t] /\ held[t] # [node |-> n, ref |-> "live"]
    BY <1>2 DEF Outdated
  <2>2. held[t].node # n
    BY <1>1, <2>1 DEF VaultTypes, Hold
  <2> QED BY <1>1, <1>2, <2>1, <2>2 DEF LivePointers, VaultTypes
<1>7. Settled(n, api'[n], cache'[n], watch'[n], age', paid', old')
  <2>1. api'[n] = NoReport /\ watch'[n] = Append(watch[n], NoReport)
    BY <1>1, <1>2 DEF VaultTypes
  <2>2. \A o \in OccurrenceOf(n) : paid'[o] = 0
    BY <1>2 DEF OccurrenceOf
  <2> QED BY <1>4, <2>1, <2>2 DEF Settled
<1>8. ASSUME NEW m \in Node, m # n
      PROVE  Settled(m, api'[m], cache'[m], watch'[m], age', paid', old')
  <2>1. api'[m] = api[m] /\ watch'[m] = watch[m] /\ cache'[m] = cache[m]
    BY <1>1, <1>2, <1>8 DEF VaultTypes
  <2>2. \A o \in OccurrenceOf(m) : paid'[o] = paid[o]
    BY <1>2, <1>8 DEF OccurrenceOf
  <2> QED BY <1>1, <1>2, <1>5, <2>1, <2>2, KeptSettled
<1> QED BY <1>5, <1>6, <1>7, <1>8, VaultJoin

(* A new process reads what is persisted.                                  *)
LEMMA VaultRelisted ==
    ASSUME Vault, Relist, UNCHANGED <<recorded, paid, age>>
    PROVE  Vault'
<1>1. /\ VaultTypes /\ LivePointers /\ SpentOnce
      /\ \A m \in Node : Settled(m, api[m], cache[m], watch[m], age, paid, old)
  BY VaultSplit
<1>2. VaultTypes' /\ SpentOnce' /\ LivePointers'
  <2>1. <<>> \in Seq(Cards) /\ Nothing \in Hold /\ Nothing.ref # "live"
    BY EmptySeq DEF Nothing, Hold, Ref
  <2> QED BY <1>1, <2>1 DEF Relist, VaultTypes, SpentOnce, LivePointers
<1>3. ASSUME NEW n \in Node
      PROVE  Settled(n, api'[n], cache'[n], watch'[n], age', paid', old')
  <2>1. api'[n] = api[n] /\ cache'[n] = api[n] /\ watch'[n] = <<>> /\ api[n] \in Cards
    BY <1>1 DEF Relist, VaultTypes
  <2>2. api[n] # NoReport => ExtendsGiven(old', paid', api[n], api[n])
    BY <2>1, CardFields DEF ExtendsGiven, IsPrefix, Cards
  <2> QED BY <1>1, <2>1, <2>2 DEF Settled
<1> QED BY <1>2, <1>3, VaultJoin
(* Time passes for reports and occurrences alike.                          *)
LEMMA AgedSound ==
    ASSUME NEW n \in Node, NEW r \in Scorecard, NEW p,
           NEW a \in [Occurrence -> Stamp], NEW b \in [Occurrence -> Stamp],
           \A o \in Occurrence : b[o] = Older(a[o]),
           SoundGiven(a, p, n, r), NEW q \in Scorecard, q = Aged(r)
    PROVE  SoundGiven(b, p, n, q)
<1>1. /\ q.messages = r.messages /\ q.counted = r.counted
      /\ q.lastAction = Older(r.lastAction) /\ q.basis = r.basis
  BY AgedIs, CardFields DEF Cards
<1>2. \A o \in OccurrenceOf(n) : o \in Occurrence
  BY DEF OccurrenceOf
<1>3. ASSUME NEW o \in Occurrence, UsedUpGiven(a, r, o) PROVE UsedUpGiven(b, q, o)
  <2>1. r.lastAction # Zero /\ a[o] >= r.lastAction /\ o \notin CountedBy(r)
    BY <1>3 DEF UsedUpGiven
  <2>2. r.lastAction \in Stamp /\ a[o] \in Stamp
    BY CardFields
  <2>3. q.lastAction # Zero /\ b[o] >= q.lastAction
    BY <1>1, <2>1, <2>2, Ages
  <2>4. CountedBy(q) = CountedBy(r)
    BY <1>1 DEF CountedBy
  <2> QED BY <2>1, <2>3, <2>4 DEF UsedUpGiven
<1>4. \A i \in DOMAIN r.messages : b[r.messages[i]] # Zero
  BY <1>2, Ages DEF SoundGiven
<1> QED BY <1>1, <1>2, <1>3, <1>4 DEF SoundGiven

LEMMA VaultAged ==
    ASSUME Vault, AgeReports, age' = [o \in Occurrence |-> Older(age[o])],
           UNCHANGED <<recorded, paid, old>>
    PROVE  Vault'
<1>1. /\ VaultTypes /\ LivePointers /\ SpentOnce
      /\ \A m \in Node : Settled(m, api[m], cache[m], watch[m], age, paid, old)
  BY VaultSplit
<1>2. /\ api' = [n \in Node |-> Aged(api[n])] /\ cache' = [n \in Node |-> Aged(cache[n])]
      /\ watch' = [n \in Node |-> [i \in DOMAIN watch[n] |-> Aged(watch[n][i])]]
      /\ held' = held
  BY DEF AgeReports
<1>3. ASSUME NEW v \in Seq(Cards), NEW x, x = [i \in DOMAIN v |-> Aged(v[i])]
      PROVE  /\ x \in Seq(Cards) /\ Len(x) = Len(v)
             /\ v # <<>> => x[Len(x)] = Aged(v[Len(v)])
             /\ x = <<>> <=> v = <<>>
  <2>1. Len(v) \in Nat /\ DOMAIN v = 1 .. Len(v) /\ \A i \in 1 .. Len(v) : v[i] \in Cards
    BY LenProperties, ElementOfSeq
  <2>2. \A i \in 1 .. Len(v) : Aged(v[i]) \in Cards
    BY <2>1, AgedIs
  <2>3. x = [i \in 1 .. Len(v) |-> Aged(v[i])]
    BY <1>3, <2>1
  <2>4. x \in Seq(Cards) /\ Len(x) = Len(v)
    BY <2>1, <2>2, <2>3
  <2>5. x = <<>> <=> v = <<>>
    BY <2>4, EmptySeq
  <2>6. v # <<>> => Len(v) \in 1 .. Len(v)
    BY <2>1, EmptySeq
  <2> QED BY <2>3, <2>4, <2>5, <2>6
<1>4. \A n \in Node : /\ api'[n] = Aged(api[n]) /\ cache'[n] = Aged(cache[n])
                      /\ watch'[n] = [i \in DOMAIN watch[n] |-> Aged(watch[n][i])]
                      /\ api[n] \in Cards /\ cache[n] \in Cards /\ watch[n] \in Seq(Cards)
  BY <1>1, <1>2 DEF VaultTypes
<1>5. VaultTypes' /\ SpentOnce'
  <2>1. age' \in [Occurrence -> Stamp]
    BY <1>1, Ages DEF VaultTypes
  <2>2. api' \in [Node -> Cards] /\ cache' \in [Node -> Cards]
    BY <1>2, <1>4, AgedIs
  <2>3. watch' \in [Node -> Seq(Cards)]
    BY <1>2, <1>3, <1>4
  <2> QED BY <1>1, <1>2, <2>1, <2>2, <2>3 DEF VaultTypes, SpentOnce
<1>6. LivePointers'
  BY <1>1, <1>2, <1>3, <1>4, AgedIs DEF LivePointers
<1>7. ASSUME NEW n \in Node
      PROVE  Settled(n, api'[n], cache'[n], watch'[n], age', paid', old')
  <2>1. PICK x \in Cards, c \in Cards, y \in Cards, d \in Cards :
          x = api[n] /\ c = cache[n] /\ y = api'[n] /\ d = cache'[n]
    BY <1>4, <1>5 DEF VaultTypes
  <2>2. y = Aged(x) /\ d = Aged(c) /\ \A o \in Occurrence : age'[o] = Older(age[o])
    BY <1>4, <2>1
  <2>3. Settled(n, x, c, watch[n], age, paid, old)
    BY <1>1, <2>1
  <2>4. /\ y = NoReport <=> x = NoReport
        /\ d = NoReport <=> c = NoReport
        /\ watch'[n] = <<>> <=> watch[n] = <<>>
        /\ watch'[n] # <<>> => watch'[n][Len(watch'[n])] = Aged(watch[n][Len(watch[n])])
    <3>1. (y = NoReport <=> x = NoReport) /\ (d = NoReport <=> c = NoReport)
      BY <2>2, AgedIs
    <3>2. /\ watch'[n] = <<>> <=> watch[n] = <<>>
          /\ watch[n] # <<>> => watch'[n][Len(watch'[n])] = Aged(watch[n][Len(watch[n])])
      BY <1>3, <1>4
    <3> QED BY <3>1, <3>2
  <2>5. ASSUME x # NoReport, SoundGiven(age, paid, n, x)
        PROVE  SoundGiven(age', paid, n, y)
    BY <1>1, <1>5, <2>2, <2>4, <2>5, AgedSound DEF VaultTypes, Cards
  <2>6. ASSUME c # NoReport, SoundGiven(age, paid, n, c)
        PROVE  SoundGiven(age', paid, n, d)
    BY <1>1, <1>5, <2>2, <2>4, <2>6, AgedSound DEF VaultTypes, Cards
  <2>7. ASSUME x # NoReport, c # NoReport, ExtendsGiven(old, paid, x, c)
        PROVE  ExtendsGiven(old, paid, y, d)
    <3>1. y.messages = x.messages /\ d.messages = c.messages
          /\ y.basis = x.basis /\ d.basis = c.basis
      BY <2>2, <2>7, AgedIs
    <3> QED BY <2>7, <3>1 DEF ExtendsGiven
  <2>8. Settled(n, y, d, watch'[n], age', paid, old)
    <3>1. CASE watch[n] # <<>>
      BY <2>2, <2>3, <2>4, <2>5, <3>1 DEF Settled
    <3>2. CASE watch[n] = <<>>
      BY <2>2, <2>3, <2>4, <2>5, <2>6, <2>7, <3>2 DEF Settled
    <3> QED BY <3>1, <3>2
  <2> QED BY <2>1, <2>8
<1> QED BY <1>5, <1>6, <1>7, VaultJoin
-----------------------------------------------------------------------------
(* Events and workers.                                                     *)

Doing ==
    /\ job \in [Worker -> Occurrence \cup {NoJob}]
    /\ pc  \in [Thread -> {"idle", "create", "update"}]
    /\ \A w \in Worker : pc[w] = "idle" <=> job[w] = NoJob
    /\ \A w \in Worker : pc[w] = "update" => held[w].node = About[job[w][1]]
    /\ \A t \in Other : pc[t] = "update" => held[t].node \in Node

EventTypesOK ==
    /\ count \in [Event -> Nat] /\ expired \subseteq Event
    /\ shown \in [Event -> Nat] /\ \A e \in Event : shown[e] <= count[e]
    /\ old   \subseteq Occurrence /\ nodesKnown \in BOOLEAN
    /\ queue \subseteq Event /\ budget \in [Disturbance -> Nat]

LEMMA RoutineSplit == Routine <=> EventTypesOK /\ Doing /\ Chronicle /\ Intake
BY DEF Routine, EventTypesOK, Doing

LEMMA RoutineJoin == EventTypesOK' /\ Doing' /\ Chronicle' /\ Intake' => Routine'
BY DEF Routine, EventTypesOK, Doing

(* One goroutine moves.                                                    *)
LEMMA DoingOne ==
    ASSUME Doing, NEW t \in Thread,
           job' \in [Worker -> Occurrence \cup {NoJob}],
           pc'  \in [Thread -> {"idle", "create", "update"}],
           \A v \in Thread : v # t => held'[v].node = held[v].node /\ pc'[v] = pc[v],
           \A v \in Worker : v # t => job'[v] = job[v],
           t \in Worker => /\ pc'[t] = "idle" <=> job'[t] = NoJob
                           /\ pc'[t] = "update" => held'[t].node = About[job'[t][1]],
           t \in Other => (pc'[t] = "update" => held'[t].node \in Node)
    PROVE  Doing'
BY Kinds DEF Doing

(* What is shown has happened.                                             *)
LEMMA ShownHappened ==
    ASSUME Routine, NEW e \in Event, NEW i \in Nat, 1 <= i, i <= count[e]
    PROVE  <<e, i>> \in Occurrence /\ age[<<e, i>>] # Zero
<1>1. count[e] \in Nat /\ count[e] <= Recurrences[e] /\ Recurrences[e] \in Nat
  BY EventAssumption DEF Routine, Chronicle
<1>2. i \in 1 .. Recurrences[e]
  BY <1>1
<1> QED BY <1>2, OccurrenceIs DEF Routine, Chronicle

(* Calls do not touch events, and jobs come from the queue.                *)
LEMMA RoutineCalls ==
    ASSUME Routine, Doing', UNCHANGED <<eventVars, informed>>,
           budget' \in [Disturbance -> Nat],
           \A e \in queue' : e \in queue \/ \E w \in Worker : job[w] # NoJob /\ job[w][1] = e,
           \A w \in Worker : job'[w] # NoJob =>
              job'[w] = job[w] \/ \E e \in queue : shown[e] > 0 /\ job'[w] = <<e, shown[e]>>
    PROVE  Routine'
<1>1. EventTypesOK /\ Doing /\ Chronicle /\ Intake
  BY RoutineSplit
<1>2. /\ count' = count /\ expired' = expired /\ age' = age
      /\ shown' = shown /\ old' = old /\ nodesKnown' = nodesKnown
  BY DEF eventVars, informed
<1>3. \A e : Accepted(e)' <=> Accepted(e)
  BY <1>2 DEF Accepted
<1>4. Chronicle'
  BY <1>1, <1>2 DEF Chronicle
<1>5. \A w \in Worker : job[w] # NoJob => job[w] \in Occurrence /\ job[w][1] \in Event
  BY <1>1, OccurrenceIs DEF Doing
<1>6. EventTypesOK'
  BY <1>1, <1>2, <1>5 DEF EventTypesOK
<1>7. ASSUME NEW w \in Worker, job'[w] # NoJob
      PROVE  /\ Accepted(job'[w][1]) /\ job'[w] \notin old /\ age[job'[w]] # Zero
             /\ shown[job'[w][1]] # 0 => job'[w][2] <= shown[job'[w][1]]
  <2>1. CASE job'[w] = job[w]
    BY <1>1, <1>7, <2>1 DEF Intake
  <2>2. CASE \E e \in queue : shown[e] > 0 /\ job'[w] = <<e, shown[e]>>
    <3>1. PICK e \in queue : shown[e] > 0 /\ job'[w] = <<e, shown[e]>>
      BY <2>2
    <3>2. e \in Event /\ shown[e] \in Nat /\ shown[e] <= count[e]
      BY <1>1 DEF EventTypesOK
    <3>3. Accepted(e) /\ shown[e] # 0
      BY <1>1, <3>1, <3>2 DEF Intake
    <3>4. age[<<e, shown[e]>>] # Zero
      BY <3>1, <3>2, ShownHappened
    <3> QED BY <3>1, <3>2, <3>3, <3>4 DEF Accepted
  <2> QED BY <1>7, <2>1, <2>2
<1>8. \A e \in queue' : Accepted(e)
  BY <1>1 DEF Intake
<1>9. Intake'
  BY <1>2, <1>3, <1>7, <1>8 DEF Intake
<1> QED BY <1>4, <1>6, <1>9, RoutineJoin
LEMMA Spent ==
    ASSUME Routine, NEW what \in Disturbance, Spend(what)
    PROVE  budget' \in [Disturbance -> Nat]
<1>1. budget \in [Disturbance -> Nat] /\ budget[what] \in Nat /\ budget[what] > 0
  BY DEF Routine, Spend
<1>2. budget[what] - 1 \in Nat
  BY <1>1
<1> QED BY <1>1, <1>2 DEF Spend

(* A step that leaves the workers and the events' history alone.           *)
LEMMA RoutineShown ==
    ASSUME Routine, UNCHANGED <<job, pc, held, count, age, old, budget>>,
           expired \subseteq expired', expired' \subseteq Event,
           shown' \in [Event -> Nat], \A f \in Event : shown'[f] <= count[f],
           nodesKnown' \in BOOLEAN, queue' \subseteq Event,
           \A f \in Event : f \in queue' => f \in queue \/ Accepted(f)',
           \A f \in Event : Accepted(f) =>
              Accepted(f)' /\ (shown'[f] # 0 => shown[f] # 0 /\ shown[f] <= shown'[f])
    PROVE  Routine'
<1>1. EventTypesOK /\ Doing /\ Chronicle /\ Intake
  BY RoutineSplit
<1>2. EventTypesOK'
  BY <1>1 DEF EventTypesOK
<1>3. Doing' /\ Chronicle'
  BY <1>1 DEF Doing, Chronicle
<1>4. \A f \in queue' : Accepted(f)'
  BY <1>1, <1>2 DEF Intake, EventTypesOK
<1>5. ASSUME NEW w \in Worker, job[w] # NoJob
      PROVE  /\ Accepted(job[w][1])' /\ job[w] \notin old /\ age[job[w]] # Zero
             /\ shown'[job[w][1]] # 0 => job[w][2] <= shown'[job[w][1]]
  <2>1. job[w] \in Occurrence
    BY <1>1, <1>5 DEF Doing
  <2>2. job[w][1] \in Event /\ job[w][2] \in Nat
    BY <2>1, OccurrenceIs
  <2>3. shown[job[w][1]] \in Nat /\ shown'[job[w][1]] \in Nat
    BY <1>1, <2>2 DEF EventTypesOK
  <2>4. /\ Accepted(job[w][1]) /\ job[w] \notin old /\ age[job[w]] # Zero
        /\ shown[job[w][1]] # 0 => job[w][2] <= shown[job[w][1]]
    BY <1>1, <1>5 DEF Intake
  <2>5. \A f \in Event : f = job[w][1] => Accepted(f)'
    BY <2>4
  <2>6. Accepted(job[w][1])'
    <3>1. PICK f \in Event : f = job[w][1]
      BY <2>2
    <3>2. Accepted(f)'
      BY <2>5, <3>1
    <3>3. job'[w][1] = f /\ job' = job
      BY <3>1
    <3> QED BY <3>1, <3>2, <3>3 DEF Accepted
  <2> QED BY <2>2, <2>3, <2>4, <2>6
<1>6. Intake'
  BY <1>4, <1>5 DEF Intake, Accepted
<1> QED BY <1>2, <1>3, <1>6, RoutineJoin
LEMMA InvShown ==
    ASSUME Vault, Routine, NEW e \in Event, EventShown(e)
    PROVE  Vault' /\ Routine'
<1>1. PICK i \in (shown[e] + 1) .. count[e] :
        /\ e \notin expired
        /\ shown' = [shown EXCEPT ![e] = i]
        /\ queue' = IF Accepts(e, i) THEN queue \cup {e} ELSE queue
        /\ UNCHANGED <<storeAndHistory, eventVars, old, nodesKnown, job, pc, budget>>
  BY DEF EventShown
<1>2. Vault'
  BY <1>1, VaultQuiet DEF Vault, eventVars, storeAndHistory, storeVars
<1>3. EventTypesOK /\ Doing /\ Chronicle /\ Intake
  BY RoutineSplit
<1>4. /\ shown[e] \in Nat /\ count[e] \in Nat /\ count[e] <= Recurrences[e]
      /\ Recurrences[e] \in Nat
  BY <1>3, EventAssumption DEF EventTypesOK, Chronicle
<1>5. i \in Nat /\ i <= count[e] /\ shown[e] < i /\ i \in 1 .. Recurrences[e] /\ i # 0
  BY <1>4
<1>6. shown' \in [Event -> Nat] /\ \A f \in Event : shown'[f] <= count[f]
  BY <1>1, <1>3, <1>5 DEF EventTypesOK
<1>7. /\ count' = count /\ age' = age /\ old' = old /\ job' = job /\ pc' = pc
      /\ held' = held /\ budget' = budget /\ expired' = expired
      /\ nodesKnown' = nodesKnown
  BY <1>1 DEF eventVars, storeAndHistory, storeVars
<1>8. ASSUME NEW f \in Event, Accepted(f)
      PROVE  Accepted(f)' /\ (shown'[f] # 0 => shown[f] # 0 /\ shown[f] <= shown'[f])
  <2>1. CASE f # e
    <3>1. shown'[f] = shown[f] /\ shown[f] \in Nat
      BY <1>1, <1>3, <2>1 DEF EventTypesOK
    <3> QED BY <1>7, <1>8, <3>1 DEF Accepted
  <2>2. CASE f = e
    <3>1. shown'[e] = i
      BY <1>1, <1>3 DEF EventTypesOK
    <3>2. shown[e] # 0 /\ <<e, shown[e]>> \notin old /\ e \in Relevant /\ nodesKnown
      BY <1>1, <1>8, <2>2 DEF Accepted
    <3>3. shown[e] \in 1 .. i
      BY <1>4, <1>5, <3>2
    <3>4. <<e, i>> \notin old
      BY <1>3, <1>5, <3>2, <3>3 DEF Chronicle
    <3> QED BY <1>4, <1>5, <1>7, <2>2, <3>1, <3>2, <3>4 DEF Accepted
  <2> QED BY <2>1, <2>2
<1>9. ASSUME NEW f \in Event, f \in queue', f \notin queue PROVE Accepted(f)'
  <2>1. f = e /\ Accepts(e, i)
    BY <1>1, <1>9
  <2>2. shown'[e] = i
    BY <1>1, <1>3 DEF EventTypesOK
  <2> QED BY <1>5, <1>7, <2>1, <2>2 DEF Accepted, Accepts
<1>10. queue' \subseteq Event /\ expired \subseteq Event /\ nodesKnown \in BOOLEAN
  BY <1>1, <1>3 DEF EventTypesOK
<1> QED BY <1>2, <1>6, <1>7, <1>8, <1>9, <1>10, RoutineShown

LEMMA InvForgotten ==
    ASSUME Vault, Routine, NEW e \in Event, EventForgotten(e)
    PROVE  Vault' /\ Routine'
<1>1. /\ e \in expired /\ shown' = [shown EXCEPT ![e] = 0]
      /\ UNCHANGED <<storeAndHistory, eventVars, old, nodesKnown, queue, job, pc, budget>>
  BY DEF EventForgotten
<1>2. Vault'
  BY <1>1, VaultQuiet DEF Vault, eventVars, storeAndHistory, storeVars
<1>3. EventTypesOK
  BY RoutineSplit
<1>4. /\ count' = count /\ age' = age /\ old' = old /\ job' = job /\ pc' = pc
      /\ held' = held /\ budget' = budget /\ expired' = expired
      /\ nodesKnown' = nodesKnown /\ queue' = queue
  BY <1>1 DEF eventVars, storeAndHistory, storeVars
<1>5. \A f \in Event : shown[f] \in Nat /\ count[f] \in Nat
  BY <1>3 DEF EventTypesOK
<1>6. shown' \in [Event -> Nat] /\ \A f \in Event : shown'[f] <= count[f]
  BY <1>1, <1>3, <1>5 DEF EventTypesOK
<1>7. ASSUME NEW f \in Event, Accepted(f)
      PROVE  Accepted(f)' /\ (shown'[f] # 0 => shown[f] # 0 /\ shown[f] <= shown'[f])
  <2>1. shown'[f] = IF f = e THEN 0 ELSE shown[f]
    BY <1>1, <1>3 DEF EventTypesOK
  <2> QED BY <1>1, <1>4, <1>5, <1>7, <2>1 DEF Accepted
<1> QED BY <1>2, <1>3, <1>4, <1>6, <1>7, RoutineShown DEF EventTypesOK

LEMMA InvListed ==
    ASSUME Vault, Routine, NodesListed
    PROVE  Vault' /\ Routine'
<1>1. /\ nodesKnown' = TRUE
      /\ UNCHANGED <<storeAndHistory, eventVars, shown, old, queue, job, pc, budget>>
  BY DEF NodesListed
<1>2. Vault'
  BY <1>1, VaultQuiet DEF Vault, eventVars, storeAndHistory, storeVars
<1>3. EventTypesOK
  BY RoutineSplit
<1>4. \A f \in Event : shown[f] \in Nat /\ (Accepted(f) => Accepted(f)')
  BY <1>1, <1>3 DEF EventTypesOK, Accepted, eventVars
<1> QED BY <1>1, <1>2, <1>3, <1>4, RoutineShown
     DEF EventTypesOK, eventVars, storeAndHistory, storeVars

LEMMA InvExpires ==
    ASSUME Vault, Routine, NEW e \in Event, Expires(e)
    PROVE  Vault' /\ Routine'
<1>1. /\ expired' = expired \cup {e} /\ budget' \in [Disturbance -> Nat]
      /\ UNCHANGED <<storeAndHistory, shown, old, nodesKnown, queue, job, pc, count, age>>
  BY Spent DEF Expires, World, informed, storeAndHistory, Disturbance
<1>2. Vault'
  BY <1>1, VaultQuiet DEF Vault
<1>3. EventTypesOK /\ Doing /\ Chronicle /\ Intake
  BY RoutineSplit
<1>4. \A f : Accepted(f) => Accepted(f)'
  BY <1>1 DEF Accepted
<1>5. held' = held
  BY <1>1 DEF storeAndHistory, storeVars
<1>6. EventTypesOK' /\ Doing' /\ Chronicle'
  BY <1>1, <1>3, <1>5 DEF EventTypesOK, Doing, Chronicle
<1>7. Intake'
  <2>1. \A f \in queue' : Accepted(f)'
    BY <1>1, <1>3, <1>4 DEF Intake
  <2>2. \A w \in Worker : job[w] # NoJob => Accepted(job[w][1])'
    BY <1>1, <1>3 DEF Intake, Accepted
  <2> QED BY <1>1, <1>3, <2>1, <2>2 DEF Intake
<1> QED BY <1>2, <1>6, <1>7, RoutineJoin
LEMMA InvOccurs ==
    ASSUME Vault, Routine, NEW e \in Event, Occurs(e)
    PROVE  Vault' /\ Routine'
<1> DEFINE new == <<e, count[e] + 1>>
<1>1. /\ count[e] < Recurrences[e] /\ e \notin expired
      /\ count' = [count EXCEPT ![e] = @ + 1]
      /\ age' = [age EXCEPT ![new] = 0]
      /\ UNCHANGED <<storeAndHistory, shown, old, nodesKnown, queue, job, pc, expired, budget>>
  BY DEF Occurs, World, informed, storeAndHistory
<1>2. EventTypesOK /\ Doing /\ Chronicle /\ Intake /\ age \in [Occurrence -> Stamp]
  BY RoutineSplit DEF Vault
<1>3. /\ count[e] \in Nat /\ Recurrences[e] \in Nat
      /\ count[e] + 1 \in 1 .. Recurrences[e]
  BY <1>1, <1>2, EventAssumption DEF EventTypesOK
<1>4. new \in Occurrence /\ age[new] = Zero
  <2>1. ~(count[e] + 1 <= count[e])
    BY <1>3
  <2>2. age[new] # Zero <=> count[e] + 1 <= count[e]
    BY <1>2, <1>3 DEF Chronicle
  <2> QED BY <1>3, <2>1, <2>2, OccurrenceIs
<1>5. age' \in [Occurrence -> Stamp]
  BY <1>1, <1>2, Ages
<1>6. \A o \in Occurrence : age'[o] = IF o = new THEN 0 ELSE age[o]
  BY <1>1, <1>2
<1>7. Vault'
  BY <1>1, <1>4, <1>5, <1>6, VaultQuiet
<1>8. EventTypesOK'
  <2>1. \A f \in Event : count[f] \in Nat /\ shown[f] \in Nat /\ shown[f] <= count[f]
    BY <1>2 DEF EventTypesOK
  <2>2. \A f \in Event : count'[f] = IF f = e THEN count[e] + 1 ELSE count[f]
    BY <1>1, <1>2 DEF EventTypesOK
  <2>3. count' \in [Event -> Nat]
    BY <1>1, <1>2, <1>3 DEF EventTypesOK
  <2>4. \A f \in Event : shown[f] <= count'[f]
    BY <2>1, <2>2
  <2> QED BY <1>1, <1>2, <2>3, <2>4 DEF EventTypesOK
<1>9. Chronicle'
  <2> SUFFICES ASSUME NEW f \in Event
               PROVE  /\ count'[f] <= Recurrences[f]
                      /\ \A i \in 1 .. Recurrences[f] : age'[<<f, i>>] # Zero <=> i <= count'[f]
    BY <1>1, <1>2 DEF Chronicle
  <2>1. count'[f] = IF f = e THEN count[e] + 1 ELSE count[f]
    BY <1>1, <1>2 DEF EventTypesOK
  <2>2. count'[f] <= Recurrences[f]
    BY <1>2, <1>3, <2>1 DEF Chronicle
  <2>3. ASSUME NEW i \in 1 .. Recurrences[f]
        PROVE  age'[<<f, i>>] # Zero <=> i <= count'[f]
    <3>1. <<f, i>> \in Occurrence /\ Recurrences[f] \in Nat /\ count[f] \in Nat
      BY <1>2, OccurrenceIs, EventAssumption DEF EventTypesOK
    <3>2. age[<<f, i>>] # Zero <=> i <= count[f]
      BY <1>2 DEF Chronicle
    <3>3. CASE f = e /\ i = count[e] + 1
      BY <1>3, <1>4, <1>6, <2>1, <3>3, Ages
    <3>4. CASE f # e \/ i # count[e] + 1
      <4>1. <<f, i>> # new
        BY <3>4
      <4>2. age'[<<f, i>>] = age[<<f, i>>]
        BY <1>6, <3>1, <4>1
      <4> QED BY <1>3, <2>1, <3>1, <3>2, <3>4, <4>2
    <3> QED BY <3>3, <3>4
  <2> QED BY <2>2, <2>3
<1>10. Doing' /\ Intake'
  <2>1. held' = held /\ \A f : Accepted(f) <=> Accepted(f)'
    BY <1>1 DEF Accepted, storeAndHistory, storeVars
  <2>2. \A w \in Worker : job[w] # NoJob => age'[job[w]] # Zero
    BY <1>2, <1>6, Ages DEF Intake, Doing
  <2>3. \A w \in Worker : job[w] # NoJob => Accepted(job[w][1])'
    BY <1>1, <1>2 DEF Intake, Accepted
  <2> QED BY <1>1, <1>2, <2>1, <2>2, <2>3 DEF Doing, Intake
<1> QED BY <1>7, <1>8, <1>9, <1>10, RoutineJoin

LEMMA InvTick ==
    ASSUME Vault, Routine, Tick
    PROVE  Vault' /\ Routine'
<1>1. /\ AgeReports /\ age' = [o \in Occurrence |-> Older(age[o])]
      /\ UNCHANGED <<recorded, paid, shown, old, nodesKnown, queue, job, pc, count,
                     expired, budget, held>>
  BY DEF Tick, World, informed, AgeReports
<1>2. Vault'
  BY <1>1, VaultAged
<1>3. EventTypesOK /\ Doing /\ Chronicle /\ Intake /\ age \in [Occurrence -> Stamp]
  BY RoutineSplit DEF Vault
<1>4. \A o \in Occurrence : age'[o] = Zero <=> age[o] = Zero
  BY <1>1, <1>3, Ages
<1>5. EventTypesOK' /\ Doing'
  BY <1>1, <1>3 DEF EventTypesOK, Doing
<1>6. Chronicle'
  <2>1. ASSUME NEW e \in Event, NEW i \in 1 .. Recurrences[e]
        PROVE  <<e, i>> \in Occurrence
    <3>1. i \in Int /\ 1 <= i /\ i <= Recurrences[e]
      BY EventAssumption
    <3> QED BY <3>1, OccurrenceIs
  <2> QED BY <1>1, <1>3, <1>4, <2>1 DEF Chronicle
<1>7. Intake'
  <2>1. \A f : Accepted(f) <=> Accepted(f)'
    BY <1>1 DEF Accepted
  <2>2. \A w \in Worker : job[w] # NoJob => Accepted(job[w][1])' /\ age'[job[w]] # Zero
    BY <1>1, <1>3, <1>4 DEF Intake, Accepted, Doing
  <2> QED BY <1>1, <1>3, <2>1, <2>2 DEF Intake
<1> QED BY <1>2, <1>5, <1>6, <1>7, RoutineJoin

(* What happened before the restart is old, from its first occurrence on.  *)
LEMMA InvCrash ==
    ASSUME Vault, Routine, Crash
    PROVE  Vault' /\ Routine'
<1>1. /\ Relist /\ shown' = [e \in Event |-> 0] /\ old' = Happened /\ nodesKnown' = FALSE
      /\ queue' = {} /\ job' = [w \in Worker |-> NoJob]
      /\ pc' = [t \in Thread |-> "idle"]
      /\ UNCHANGED <<recorded, paid, count, expired, age>>
      /\ budget' \in [Disturbance -> Nat]
  BY Spent DEF Crash, eventVars, Disturbance
<1>2. Vault'
  BY <1>1, VaultRelisted
<1>3. EventTypesOK /\ Doing /\ Chronicle /\ Intake
  BY RoutineSplit
<1>4. EventTypesOK'
  <2>1. \A e \in Event : count[e] \in Nat
    BY <1>3 DEF EventTypesOK
  <2>2. Happened \subseteq Occurrence
    BY DEF Happened
  <2>3. shown' \in [Event -> Nat] /\ \A e \in Event : shown'[e] <= count[e]
    BY <1>1, <2>1
  <2>4. queue' \subseteq Event /\ old' \subseteq Occurrence /\ nodesKnown' \in BOOLEAN
    BY <1>1, <2>2
  <2> QED BY <1>1, <1>3, <2>3, <2>4 DEF EventTypesOK
<1>5. Doing'
  BY <1>1, Kinds DEF Doing
<1>6. Chronicle'
  <2> SUFFICES ASSUME NEW e \in Event, NEW i \in 1 .. Recurrences[e], NEW j \in 1 .. i,
                      <<e, i>> \in Happened
               PROVE  <<e, j>> \in Happened
    BY <1>1, <1>3 DEF Chronicle
  <2>1. count[e] \in Nat /\ Recurrences[e] \in Nat
    BY <1>3, EventAssumption DEF EventTypesOK
  <2>2. i <= count[e]
    BY <1>3 DEF Chronicle, Happened
  <2>3. j \in 1 .. Recurrences[e] /\ j <= count[e]
    BY <2>1, <2>2
  <2>4. age[<<e, j>>] # Zero
    BY <1>3, <2>3 DEF Chronicle
  <2> QED BY <2>1, <2>3, <2>4, OccurrenceIs DEF Happened
<1>7. Intake'
  BY <1>1 DEF Intake
<1> QED BY <1>2, <1>4, <1>5, <1>6, <1>7, RoutineJoin
-----------------------------------------------------------------------------
(* Workers.                                                                *)

LEMMA JobIs ==
    ASSUME Routine, NEW w \in Worker, job[w] # NoJob
    PROVE  /\ job[w] \in Occurrence /\ job[w] \in OccurrenceOf(Mine(w)) /\ Mine(w) \in Node
           /\ age[job[w]] # Zero /\ job[w] \notin old
<1>1. job[w] \in Occurrence /\ age[job[w]] # Zero /\ job[w] \notin old
  BY DEF Routine, Intake
<1> QED BY <1>1, OccurrenceIs DEF Mine, OccurrenceOf

LEMMA NodesKept ==
    ASSUME NEW n \in Node, NEW r, NEW h \in [Thread -> Hold], Persist(n, r, h)
    PROVE  \A t \in Thread : held'[t].node = h[t].node
BY DEF Persist, Outdated

LEMMA NodesReleased ==
    ASSUME Vault, NEW t \in Thread
    PROVE  /\ Released(t) \in [Thread -> Hold] /\ held \in [Thread -> Hold]
           /\ \A v \in Thread : v # t => Released(t)[v].node = held[v].node
           /\ \A v \in Thread : Released(t)[v].ref = "live" => Released(t)[v] = held[v]
<1>1. Nothing \in Hold /\ Nothing.ref # "live"
  BY DEF Nothing, Hold, Ref
<1> QED BY <1>1 DEF Vault, Released

LEMMA RoutineFinish ==
    ASSUME Vault, Routine, NEW w \in Worker, pc[w] # "idle",
           NEW again \in BOOLEAN, Finish(w, again), budget' \in [Disturbance -> Nat],
           \A v \in Thread : v # w => held'[v].node = held[v].node
    PROVE  Routine'
<1>1. Doing /\ w \in Thread /\ queue \subseteq Event
  BY RoutineSplit, Kinds DEF EventTypesOK
<1>2. /\ pc' = [pc EXCEPT ![w] = "idle"] /\ job' = [job EXCEPT ![w] = NoJob]
      /\ queue' = IF again THEN queue \cup {job[w][1]} ELSE queue
      /\ UNCHANGED <<eventVars, informed>>
  BY DEF Finish
<1>3. Doing'
  <2>1. /\ job' \in [Worker -> Occurrence \cup {NoJob}]
        /\ pc'  \in [Thread -> {"idle", "create", "update"}]
        /\ \A v \in Thread : v # w => pc'[v] = pc[v]
        /\ \A v \in Worker : v # w => job'[v] = job[v]
        /\ pc'[w] = "idle" /\ job'[w] = NoJob
    BY <1>1, <1>2 DEF Doing
  <2> QED BY <1>1, <2>1, DoingOne
<1>4. job[w] # NoJob
  BY <1>1 DEF Doing
<1>5. \A v \in Worker : job'[v] # NoJob => job'[v] = job[v]
  BY <1>1, <1>2 DEF Doing
<1> QED BY <1>2, <1>3, <1>4, <1>5, RoutineCalls

(* What an Update at the current version carries is sound.                 *)
LEMMA VaultUpdated ==
    ASSUME NEW n, Vault, NEW t \in Thread, Updatable(t), n = held[t].node,
           Stored(n, cache[n], Released(t)), UNCHANGED <<cache, age, old>>
    PROVE  Vault'
<1>1. n \in Node /\ watch[n] = <<>> /\ cache[n] # NoReport
  BY VaultSplit DEF Updatable, LivePointers
<1>2. cache[n] \in Scorecard /\ Synced(n)
  BY <1>1, VaultSplit, GivenNow DEF VaultTypes, Cards
<1>3. api[n] # NoReport /\ Sound(n, cache[n]) /\ Extends(api[n], cache[n])
  BY <1>1, <1>2 DEF Synced
<1>4. DecidedIn(n, cache[n]) => \A o \in cache[n].basis : paid[o] = 0
  BY <1>3 DEF DecidedIn, Extends
<1> QED BY <1>1, <1>2, <1>3, <1>4, NodesReleased, VaultStored

LEMMA VaultCreated ==
    ASSUME Vault, Routine, NEW w \in Worker, job[w] # NoJob, api[Mine(w)] = NoReport,
           Stored(Mine(w), Fresh(w), held), UNCHANGED <<cache, age, old>>
    PROVE  Vault'
<1>1. PICK n, o, r :
        /\ n \in Node /\ n = Mine(w) /\ o = job[w] /\ r = Constructed(n, o)
        /\ o \in OccurrenceOf(n) /\ age[o] # Zero
  BY JobIs
<1>2. o \in Occurrence
  BY <1>1 DEF OccurrenceOf
<1>3. r \in Scorecard /\ r.basis = {} /\ Sound(n, r)
  BY <1>1, <1>2, ConstructedIs, SoundConstructed
<1>4. Stored(n, r, held) /\ api[n] = NoReport
  BY <1>1 DEF Fresh
<1>5. ~DecidedIn(n, r)
  BY <1>3, <1>4 DEF DecidedIn
<1>6. held \in [Thread -> Hold]
  BY DEF Vault
<1> QED BY <1>1, <1>3, <1>4, <1>5, <1>6, VaultStored

LEMMA InvCreate ==
    ASSUME Vault, Routine, NEW w \in Worker, Create(w)
    PROVE  Vault' /\ Routine'
<1>1. /\ pc[w] = "create" /\ api[Mine(w)] = NoReport
      /\ Stored(Mine(w), Fresh(w), held) /\ Finish(w, FALSE) /\ budget' = budget
  BY DEF Create
<1>2. UNCHANGED <<cache, age, old>> /\ budget' \in [Disturbance -> Nat]
  BY <1>1 DEF Finish, eventVars, informed, Routine
<1>3. job[w] # NoJob /\ Mine(w) \in Node
  BY <1>1, JobIs DEF Routine
<1>4. \A v \in Thread : held'[v].node = held[v].node
  BY <1>1, <1>3, NodesKept DEF Stored, Vault
<1> QED BY <1>1, <1>2, <1>3, <1>4, VaultCreated, RoutineFinish

LEMMA InvUpdate ==
    ASSUME Vault, Routine, NEW w \in Worker, Update(w)
    PROVE  Vault' /\ Routine'
<1>1. /\ pc[w] = "update" /\ Updatable(w) /\ budget' = budget
      /\ Stored(Mine(w), cache[Mine(w)], Released(w)) /\ Finish(w, FALSE)
  BY DEF Update
<1>2. UNCHANGED <<cache, age, old>> /\ budget' \in [Disturbance -> Nat]
  BY <1>1 DEF Finish, eventVars, informed, Routine
<1>3. Mine(w) = held[w].node /\ Mine(w) \in Node /\ w \in Thread
  BY <1>1, JobIs, Kinds DEF Routine, Mine
<1>4. \A v \in Thread : v # w => held'[v].node = held[v].node
  BY <1>1, <1>3, NodesKept, NodesReleased, ZenonT(60) DEF Stored
<1> QED BY <1>1, <1>2, <1>3, <1>4, VaultUpdated, RoutineFinish

LEMMA InvRefused ==
    ASSUME Vault, Routine, NEW w \in Worker, Refused(w)
    PROVE  Vault' /\ Routine'
<1>1. /\ pc[w] # "idle" /\ held' = Released(w) /\ Finish(w, TRUE)
      /\ UNCHANGED <<api, watch, recorded, paid, budget>>
  BY DEF Refused
<1>2. UNCHANGED <<cache, age, old>> /\ budget' \in [Disturbance -> Nat] /\ w \in Thread
  BY <1>1, Kinds DEF Finish, eventVars, informed, Routine
<1> QED BY <1>1, <1>2, VaultReleased, NodesReleased, RoutineFinish

LEMMA InvCallFails ==
    ASSUME Vault, Routine, NEW w \in Worker, CallFails(w)
    PROVE  Vault' /\ Routine'
<1>1. pc[w] # "idle" /\ Finish(w, TRUE) /\ budget' \in [Disturbance -> Nat]
  BY Spent DEF CallFails, Disturbance
<1>2. UNCHANGED <<cache, age, old>> /\ w \in Thread /\ job[w] # NoJob /\ Mine(w) \in Node
  BY <1>1, Kinds, JobIs DEF Finish, eventVars, informed, Routine
<1>3. CASE held' = Released(w) /\ UNCHANGED <<api, watch, recorded, paid>>
  BY <1>1, <1>2, <1>3, VaultReleased, NodesReleased, RoutineFinish
<1>4. CASE /\ pc[w] = "create" /\ api[Mine(w)] = NoReport
           /\ Stored(Mine(w), Fresh(w), held)
  <2>1. \A v \in Thread : held'[v].node = held[v].node
    BY <1>2, <1>4, NodesKept DEF Stored, Vault
  <2> QED BY <1>1, <1>2, <1>4, <2>1, VaultCreated, RoutineFinish
<1>5. CASE /\ pc[w] = "update" /\ Updatable(w)
           /\ Stored(Mine(w), cache[Mine(w)], Released(w))
  <2>1. Mine(w) = held[w].node
    BY <1>5 DEF Routine, Mine
  <2>2. \A v \in Thread : v # w => held'[v].node = held[v].node
    BY <1>2, <1>5, NodesKept, NodesReleased DEF Stored
  <2> QED BY <1>1, <1>2, <1>5, <2>1, <2>2, VaultUpdated, RoutineFinish
<1> QED BY <1>3, <1>4, <1>5 DEF CallFails
LEMMA Taken ==
    ASSUME Routine, NEW w \in Worker, NEW e \in Event, Dequeue(w, e),
           NEW next \in {"create", "update"}, pc' = [pc EXCEPT ![w] = next],
           UNCHANGED <<eventVars, informed, budget>>,
           held' \in [Thread -> Hold],
           \A v \in Thread : v # w => held'[v].node = held[v].node,
           next = "update" => held'[w].node = About[e]
    PROVE  Routine'
<1>1. EventTypesOK /\ Doing /\ Chronicle /\ Intake /\ w \in Thread
  BY RoutineSplit, Kinds
<1>2. /\ e \in queue /\ shown[e] > 0 /\ queue' = queue \ {e}
      /\ job' = [job EXCEPT ![w] = <<e, shown[e]>>]
  BY DEF Dequeue
<1>3. shown[e] \in Nat /\ 1 <= shown[e] /\ shown[e] <= count[e]
  BY <1>1, <1>2 DEF EventTypesOK
<1>4. <<e, shown[e]>> \in Occurrence
  BY <1>3, ShownHappened
<1>5. <<e, shown[e]>> # NoJob
  BY <1>4, EventAssumption
<1>6. Doing'
  <2>1. /\ job' \in [Worker -> Occurrence \cup {NoJob}]
        /\ pc'  \in [Thread -> {"idle", "create", "update"}]
        /\ \A v \in Thread : v # w => pc'[v] = pc[v]
        /\ \A v \in Worker : v # w => job'[v] = job[v]
        /\ pc'[w] = next /\ job'[w] = <<e, shown[e]>> /\ job'[w][1] = e
    BY <1>1, <1>2, <1>4 DEF Doing
  <2> QED BY <1>1, <1>5, <2>1, Kinds, DoingOne, ZenonT(60)
<1>7. \A v \in Worker : job'[v] = job[v] \/ job'[v] = <<e, shown[e]>>
  BY <1>1, <1>2 DEF Doing
<1>8. budget' \in [Disturbance -> Nat]
  BY <1>1 DEF EventTypesOK
<1> QED BY <1>2, <1>6, <1>7, <1>8, RoutineCalls

LEMMA InvTakeNew ==
    ASSUME Vault, Routine, NEW w \in Worker, NEW e \in Event, TakeNew(w, e)
    PROVE  Vault' /\ Routine'
<1>1. /\ Dequeue(w, e) /\ pc' = [pc EXCEPT ![w] = "create"]
      /\ UNCHANGED <<storeAndHistory, eventVars, informed, budget>>
  BY DEF TakeNew
<1>2. held' = held /\ age' = age /\ old' = old /\ held' \in [Thread -> Hold]
  BY <1>1 DEF storeAndHistory, storeVars, eventVars, informed, Vault
<1>3. Vault'
  BY <1>1, <1>2, VaultQuiet DEF Vault
<1>4. Routine'
  BY <1>1, <1>2, Taken
<1> QED BY <1>3, <1>4

LEMMA InvTakeKnown ==
    ASSUME Vault, Routine, NEW w \in Worker, NEW e \in Event, TakeKnown(w, e)
    PROVE  Vault' /\ Routine'
<1>1. PICK n, o, c, r :
        n = About[e] /\ o = <<e, shown[e]>> /\ c = cache[n] /\ r = Recorded(n, c, o)
  OBVIOUS
<1>2. /\ Dequeue(w, e) /\ c # NoReport
      /\ held' = [held EXCEPT ![w] = Lookup(n)] /\ cache' = [cache EXCEPT ![n] = r]
      /\ pc' = [pc EXCEPT ![w] = "update"]
      /\ UNCHANGED <<api, watch, recorded, paid, eventVars, informed, budget>>
  BY <1>1 DEF TakeKnown
<1>3. VaultTypes /\ EventTypesOK /\ Intake /\ w \in Thread
  BY VaultSplit, RoutineSplit, Kinds
<1>4. n \in Node /\ c \in Scorecard
  BY <1>1, <1>2, <1>3, EventAssumption DEF VaultTypes, Cards
<1>5. shown[e] \in Nat /\ 1 <= shown[e] /\ shown[e] <= count[e] /\ e \in queue
  BY <1>2, <1>3 DEF EventTypesOK, Dequeue
<1>6. o \in Occurrence /\ o \in OccurrenceOf(n) /\ age[o] # Zero /\ o \notin old
  <2>1. o \in Occurrence /\ age[o] # Zero
    BY <1>1, <1>5, ShownHappened
  <2>2. Accepted(e)
    BY <1>3, <1>5 DEF Intake
  <2> QED BY <1>1, <1>5, <2>1, <2>2 DEF Accepted, OccurrenceOf
<1>7. /\ r \in Scorecard /\ Len(r.messages) = Len(c.messages) + 1
      /\ \A i \in 1 .. Len(c.messages) : r.messages[i] = c.messages[i]
      /\ r.messages[Len(c.messages) + 1] = o
      /\ r.lastAction = c.lastAction /\ r.basis = c.basis
  <2>1. r = Recorded(n, c, o)
    BY <1>1
  <2>2. n \in Node /\ o \in Occurrence /\ c \in Scorecard
    BY <1>4, <1>6
  <2> QED BY <2>1, <2>2, RecordedIs
<1>8. ASSUME watch[n] = <<>> PROVE Sound(n, r) /\ Extends(api[n], r)
  <2>1. PICK x : x = api[n]
    OBVIOUS
  <2>2. Settled(n, x, c, <<>>, age, paid, old)
    BY <1>1, <1>4, <1>8, <2>1, VaultSplit
  <2>3. x # NoReport /\ SoundGiven(age, paid, n, c) /\ ExtendsGiven(old, paid, x, c)
    BY <1>2, <2>2 DEF Settled
  <2>4. x \in Scorecard
    BY <1>3, <1>4, <2>1, <2>3 DEF VaultTypes, Cards
  <2>5. Sound(n, r)
    BY <1>1, <1>4, <1>6, <2>3, SoundRecorded, GivenNow
  <2>6. /\ Len(x.messages) \in Nat /\ Len(c.messages) \in Nat
        /\ DOMAIN c.messages = 1 .. Len(c.messages)
        /\ DOMAIN r.messages = 1 .. (Len(c.messages) + 1)
    BY <1>4, <1>7, <2>4, CardFields
  <2>7. IsPrefix(x.messages, c.messages)
    BY <2>3 DEF ExtendsGiven
  <2>8. IsPrefix(x.messages, r.messages)
    BY <1>7, <2>6, <2>7 DEF IsPrefix
  <2>9. ASSUME NEW i \in DOMAIN r.messages, i > Len(x.messages)
        PROVE  r.messages[i] \notin old
    <3>1. i \in DOMAIN c.messages \/ i = Len(c.messages) + 1
      BY <2>6
    <3> QED BY <1>6, <1>7, <2>3, <2>6, <2>9, <3>1 DEF ExtendsGiven
  <2>10. ExtendsGiven(old, paid, x, r)
    BY <1>7, <2>3, <2>8, <2>9 DEF ExtendsGiven
  <2> QED BY <2>1, <2>5, <2>10, GivenNow
<1>9. age' = age /\ old' = old
  BY <1>2 DEF eventVars, informed
<1>10. Vault'
  BY <1>1, <1>2, <1>3, <1>4, <1>7, <1>8, <1>9, VaultEdit
<1>11. /\ held' \in [Thread -> Hold] /\ held'[w].node = n
       /\ \A v \in Thread : v # w => held'[v].node = held[v].node
  BY <1>2, <1>3, <1>4, Pointing DEF VaultTypes
<1>12. Routine'
  BY <1>1, <1>2, <1>11, Taken
<1> QED BY <1>10, <1>12
-----------------------------------------------------------------------------
(* The other controllers and the store.                                    *)

LEMMA RoutineStore ==
    ASSUME Routine, Doing', UNCHANGED <<eventVars, informed, queue, job>>,
           budget' \in [Disturbance -> Nat]
    PROVE  Routine'
BY RoutineCalls

LEMMA RoutineOther ==
    ASSUME Routine, NEW t \in Other, NEW next \in {"idle", "update"},
           pc' = [pc EXCEPT ![t] = next],
           UNCHANGED <<eventVars, informed, queue, job>>, budget' \in [Disturbance -> Nat],
           \A v \in Thread : v # t => held'[v].node = held[v].node,
           next = "update" => held'[t].node \in Node
    PROVE  Routine'
<1>1. Doing /\ t \in Thread /\ t \notin Worker
  BY RoutineSplit, Kinds
<1>2. Doing'
  <2>1. /\ job' \in [Worker -> Occurrence \cup {NoJob}]
        /\ pc'  \in [Thread -> {"idle", "create", "update"}]
        /\ \A v \in Thread : v # t => pc'[v] = pc[v]
        /\ pc'[t] = next
    BY <1>1 DEF Doing
  <2> QED BY <1>1, <2>1, DoingOne
<1> QED BY <1>2, RoutineStore

(* Whoever edits leaves a sound report that extends the persisted one.     *)
LEMMA InvOtherEdits ==
    ASSUME Vault, Routine, NEW t \in Other, NEW n \in Node, NEW c \in Scorecard,
           c = cache[n], NEW r \in Scorecard, OtherEdits(t, n, r),
           budget' \in [Disturbance -> Nat],
           r.messages = c.messages, Sound(n, c) => Sound(n, r),
           Sound(n, c) => r.basis = c.basis \/ \A o \in r.basis : paid[o] = 0
    PROVE  Vault' /\ Routine'
<1>1. /\ held' = [held EXCEPT ![t] = Lookup(n)] /\ cache' = [cache EXCEPT ![n] = r]
      /\ pc' = [pc EXCEPT ![t] = "update"]
      /\ UNCHANGED <<api, watch, recorded, paid, eventVars, informed, queue, job>>
  BY DEF OtherEdits
<1>2. VaultTypes /\ t \in Thread /\ c # NoReport
  BY VaultSplit, Kinds, CardFields
<1>3. ASSUME watch[n] = <<>> PROVE Sound(n, r) /\ Extends(api[n], r)
  <2>1. PICK x : x = api[n]
    OBVIOUS
  <2>2. Settled(n, x, c, <<>>, age, paid, old)
    BY <1>3, <2>1, VaultSplit
  <2>3. SoundGiven(age, paid, n, c) /\ ExtendsGiven(old, paid, x, c)
    BY <1>2, <2>2 DEF Settled
  <2>4. Sound(n, c) /\ Extends(x, c)
    BY <2>3, GivenNow
  <2>5. Extends(x, r)
    BY <2>4 DEF Extends
  <2> QED BY <2>1, <2>4, <2>5
<1>4. age' = age /\ old' = old
  BY <1>1 DEF eventVars, informed
<1>5. Vault'
  BY <1>1, <1>2, <1>3, <1>4, VaultEdit
<1>6. /\ held'[t].node = n
      /\ \A v \in Thread : v # t => held'[v].node = held[v].node
  BY <1>1, <1>2, Pointing DEF VaultTypes
<1>7. Routine'
  BY <1>1, <1>6, RoutineOther
<1> QED BY <1>5, <1>7

LEMMA InvOtherSaves ==
    ASSUME Vault, Routine, NEW t \in Other, OtherSaves(t)
    PROVE  Vault' /\ Routine'
<1>1. PICK n : n = held[t].node
  OBVIOUS
<1>2. /\ pc[t] = "update" /\ pc' = [pc EXCEPT ![t] = "idle"]
      /\ UNCHANGED <<cache, eventVars, informed, queue, job, budget>>
      /\ \/ Updatable(t) /\ Stored(n, cache[n], Released(t))
         \/ held' = Released(t) /\ UNCHANGED <<api, watch, recorded, paid>>
  BY <1>1 DEF OtherSaves
<1>3. t \in Thread /\ n \in Node /\ age' = age /\ old' = old
  BY <1>1, <1>2, Kinds DEF Routine, eventVars, informed
<1>4. budget' \in [Disturbance -> Nat]
  BY <1>2 DEF Routine
<1>5. CASE Updatable(t) /\ Stored(n, cache[n], Released(t))
  <2>1. \A v \in Thread : v # t => held'[v].node = held[v].node
    BY <1>3, <1>5, NodesKept, NodesReleased DEF Stored
  <2> QED BY <1>1, <1>2, <1>3, <1>4, <1>5, <2>1, VaultUpdated, RoutineOther
<1>6. CASE held' = Released(t) /\ UNCHANGED <<api, watch, recorded, paid>>
  BY <1>2, <1>3, <1>4, <1>6, VaultReleased, NodesReleased, RoutineOther
<1> QED BY <1>2, <1>5, <1>6

LEMMA InvOther ==
    ASSUME Vault, Routine, NEW t \in Other, OtherStep(t)
    PROVE  Vault' /\ Routine'
<1>1. ASSUME NEW n \in Node, Decides(t, n) \/ Settles(t, n) \/ Touches(t, n)
      PROVE  Vault' /\ Routine'
  <2>1. cache[n] # NoReport
    BY <1>1 DEF Decides, Settles, Touches
  <2>2. PICK c \in Scorecard : c = cache[n]
    BY <2>1 DEF Vault, Cards
  <2>3. budget \in [Disturbance -> Nat]
    BY DEF Routine
  <2>4. CASE Decides(t, n)
    <3>1. PICK r : r = Decided(c)
      OBVIOUS
    <3>2. OtherEdits(t, n, r) /\ budget' = budget
      BY <2>2, <2>4, <3>1 DEF Decides, Decided
    <3>3. r \in Scorecard /\ r.messages = c.messages
      BY <3>1, DecidedIs
    <3>4. Sound(n, c) => Sound(n, r) /\ \A o \in r.basis : paid[o] = 0
      BY <3>1, SoundDecided
    <3> QED BY <2>2, <2>3, <3>2, <3>3, <3>4, InvOtherEdits
  <2>5. CASE Settles(t, n)
    <3>1. PICK r : r = [c EXCEPT !.acting = FALSE]
      OBVIOUS
    <3>2. OtherEdits(t, n, r) /\ budget' = budget
      BY <2>2, <2>5, <3>1 DEF Settles
    <3>3. r \in Scorecard /\ r.messages = c.messages /\ r.basis = c.basis
      BY <3>1, SettledIs
    <3>4. Sound(n, c) => Sound(n, r)
      BY <3>1, SoundSettled
    <3> QED BY <2>2, <2>3, <3>2, <3>3, <3>4, InvOtherEdits
  <2>6. CASE Touches(t, n)
    <3>1. OtherEdits(t, n, c) /\ budget' \in [Disturbance -> Nat]
      BY <2>2, <2>6, Spent DEF Touches, Disturbance
    <3> QED BY <2>2, <3>1, InvOtherEdits
  <2> QED BY <1>1, <2>4, <2>5, <2>6
<1> QED BY <1>1, InvOtherSaves DEF OtherStep

LEMMA InvDeliver ==
    ASSUME Vault, Routine, NEW n \in Node, Deliver(n)
    PROVE  Vault' /\ Routine'
<1>1. /\ DeliverNext(n) /\ held' = Replaced(n)
      /\ UNCHANGED <<recorded, paid, eventVars, informed, queue, job, pc, budget>>
  BY DEF Deliver, DeliverNext
<1>2. Vault'
  BY <1>1, VaultDelivered DEF eventVars, informed
<1>3. \A t \in Thread : held'[t].node = held[t].node
  BY <1>1 DEF Replaced
<1>4. Doing' /\ budget' \in [Disturbance -> Nat]
  BY <1>1, <1>3, RoutineSplit, Kinds DEF Doing, EventTypesOK
<1> QED BY <1>1, <1>2, <1>4, RoutineStore

LEMMA InvRemoved ==
    ASSUME Vault, Routine, NEW n \in Node, Removed(n)
    PROVE  Vault' /\ Routine'
<1>1. /\ Persist(n, NoReport, held) /\ budget' \in [Disturbance -> Nat]
      /\ UNCHANGED <<eventVars, informed, queue, job, pc>>
  BY Spent DEF Removed, Remove, Disturbance
<1>2. Vault'
  BY VaultRemoved
<1>3. \A t \in Thread : held'[t].node = held[t].node
  BY <1>1, NodesKept DEF Vault
<1>4. Doing'
  BY <1>1, <1>3, RoutineSplit, Kinds DEF Doing
<1> QED BY <1>1, <1>2, <1>4, RoutineStore
-----------------------------------------------------------------------------
(* The invariant.                                                          *)

LEMMA EventBegins == Init => EventInv
<1> SUFFICES ASSUME Init PROVE Vault /\ Routine
  BY EventSplit
<1>1. VaultTypes /\ LivePointers /\ SpentOnce
  <2>1. <<>> \in Seq(Cards) /\ Nothing \in Hold /\ Nothing.ref # "live"
    BY EmptySeq DEF Nothing, Hold, Ref
  <2> QED BY <2>1, Ages DEF Init, StoreInit, VaultTypes, LivePointers, SpentOnce, Cards
<1>2. \A n \in Node : Settled(n, api[n], cache[n], watch[n], age, paid, old)
  BY DEF Init, StoreInit, Settled, OccurrenceOf
<1>3. EventTypesOK /\ Doing /\ Intake
  <2>1. EventTypesOK
    <3>1. /\ count \in [Event -> Nat] /\ shown \in [Event -> Nat]
          /\ \A e \in Event : shown[e] = 0 /\ count[e] = 0
      BY DEF Init
    <3>2. \A e \in Event : shown[e] <= count[e]
      BY <3>1
    <3> QED BY <3>1, <3>2, EventAssumption DEF Init, EventTypesOK
  <2>2. /\ \A w \in Worker : job[w] = NoJob /\ w \in Thread
        /\ \A t \in Thread : pc[t] = "idle"
        /\ job \in [Worker -> Occurrence \cup {NoJob}]
        /\ pc  \in [Thread -> {"idle", "create", "update"}]
        /\ queue = {}
    BY Kinds DEF Init
  <2> QED BY <2>1, <2>2, Kinds DEF Doing, Intake
<1>4. Chronicle
  <2> SUFFICES ASSUME NEW e \in Event
               PROVE  /\ count[e] <= Recurrences[e]
                      /\ \A i \in 1 .. Recurrences[e] :
                           /\ age[<<e, i>>] # Zero <=> i <= count[e]
                           /\ \A j \in 1 .. i : <<e, i>> \in old => <<e, j>> \in old
    BY DEF Chronicle
  <2>1. count[e] = 0 /\ Recurrences[e] \in Nat /\ old = {}
    BY EventAssumption DEF Init
  <2>2. ASSUME NEW i \in 1 .. Recurrences[e] PROVE age[<<e, i>>] = Zero /\ ~(i <= 0)
    <3>1. i \in Int /\ 1 <= i /\ i <= Recurrences[e]
      BY <2>1
    <3> QED BY <3>1, OccurrenceIs DEF Init
  <2> QED BY <2>1, <2>2
<1> QED BY <1>1, <1>2, <1>3, <1>4, VaultSplit, RoutineSplit

LEMMA EventStep == EventInv /\ [Next]_vars => EventInv'
<1> SUFFICES ASSUME Vault, Routine, [Next]_vars PROVE Vault' /\ Routine'
  BY EventSplit, EventJoin
<1>1. CASE \E e \in Event : EventShown(e) \/ EventForgotten(e) \/ Occurs(e) \/ Expires(e)
  BY <1>1, InvShown, InvForgotten, InvOccurs, InvExpires
<1>2. CASE \E w \in Worker, e \in Event : TakeNew(w, e) \/ TakeKnown(w, e)
  BY <1>2, InvTakeNew, InvTakeKnown
<1>3. CASE \E w \in Worker : Work(w) \/ CallFails(w)
  BY <1>3, InvCreate, InvUpdate, InvRefused, InvCallFails DEF Work
<1>4. CASE \E t \in Other : OtherStep(t)
  BY <1>4, InvOther
<1>5. CASE \E n \in Node : Deliver(n) \/ Removed(n)
  BY <1>5, InvDeliver, InvRemoved
<1>6. CASE NodesListed \/ Crash \/ Tick
  BY <1>6, InvListed, InvCrash, InvTick
<1>7. CASE UNCHANGED vars
  <2>1. /\ UNCHANGED <<storeAndHistory, old>> /\ age' = age /\ held' = held
        /\ UNCHANGED <<eventVars, informed, queue, job, pc, budget>>
    BY <1>7 DEF vars, storeAndHistory, storeVars, eventVars, informed
  <2>2. Vault'
    BY <2>1, VaultQuiet DEF Vault
  <2>3. Doing' /\ budget' \in [Disturbance -> Nat]
    BY <2>1, RoutineSplit DEF Doing, EventTypesOK
  <2> QED BY <2>1, <2>2, <2>3, RoutineStore
<1> QED BY <1>1, <1>2, <1>3, <1>4, <1>5, <1>6, <1>7 DEF Next

(* What holds of every reachable state: the inductive invariant of the     *)
(* EventController, whatever the other controllers, the watches, failing   *)
(* calls and restarts do (eventcontroller.go:83-459).                      *)
THEOREM EventInvHolds == Spec => []EventInv
<1> QED BY EventBegins, EventStep, PTL DEF Spec

(* The type invariant of EventController.                                  *)
THEOREM EventTypesHold == Spec => []TypeOK
<1>1. EventInv => TypeOK
  BY DEF EventInv
<1> QED BY <1>1, EventInvHolds, PTL

(* No occurrence is counted by two persisted decisions of a report that    *)
(* lives on, although a worker may rescore the shared object between a     *)
(* decision and its Update (eventcontroller.go:137-159).                   *)
THEOREM NothingSpentTwice == Spec => []SpentOnce
<1>1. EventInv => SpentOnce
  BY DEF EventInv
<1> QED BY <1>1, EventInvHolds, PTL
-----------------------------------------------------------------------------
(* What a step makes of a persisted report.                                *)

Becomes(x, y) ==
    \/ y = x
    \/ y = Aged(x)
    \/ y = NoReport
    \/ x = NoReport /\ y \in Scorecard /\ \A i \in DOMAIN y.messages : y.messages[i] \notin old
    \/ x # NoReport /\ y \in Scorecard /\ Extends(x, y)

LEMMA StoredBecomes ==
    ASSUME Vault, NEW n \in Node, NEW m \in Node, NEW r, NEW h, Stored(n, r, h),
           Becomes(api[n], r)
    PROVE  Becomes(api[m], api'[m])
<1>1. api' = [api EXCEPT ![n] = r] /\ api \in [Node -> Cards]
  BY DEF Stored, Persist, Vault
<1> QED BY <1>1 DEF Becomes

LEMMA UpdatedBecomes ==
    ASSUME Vault, NEW n, NEW t \in Thread, Updatable(t), n = held[t].node
    PROVE  n \in Node /\ Becomes(api[n], cache[n])
<1>1. n \in Node /\ watch[n] = <<>> /\ cache[n] # NoReport
  BY VaultSplit DEF Updatable, LivePointers
<1>2. cache[n] \in Scorecard /\ Synced(n)
  BY <1>1, VaultSplit, GivenNow DEF VaultTypes, Cards
<1> QED BY <1>1, <1>2 DEF Synced, Becomes

LEMMA CreatedBecomes ==
    ASSUME Routine, NEW w \in Worker, job[w] # NoJob, api[Mine(w)] = NoReport
    PROVE  Becomes(api[Mine(w)], Fresh(w))
<1>1. PICK n, o, r :
        /\ n \in Node /\ n = Mine(w) /\ o = job[w] /\ r = Constructed(n, o)
        /\ o \in Occurrence /\ o \notin old
  BY JobIs
<1>2. r \in Scorecard /\ DOMAIN r.messages = {1} /\ r.messages[1] = o
  BY <1>1, ConstructedIs
<1>3. r = Fresh(w)
  BY <1>1 DEF Fresh
<1> QED BY <1>1, <1>2, <1>3 DEF Becomes

LEMMA StepBecomes ==
    ASSUME EventInv, [Next]_vars, NEW m \in Node
    PROVE  Becomes(api[m], api'[m])
<1>1. Vault /\ Routine
  BY EventSplit
<1>2. api' = api => Becomes(api[m], api'[m])
  BY DEF Becomes
<1>3. ASSUME NEW w \in Worker, pc[w] = "create", api[Mine(w)] = NoReport,
             Stored(Mine(w), Fresh(w), held)
      PROVE  Becomes(api[m], api'[m])
  <2>1. job[w] # NoJob
    BY <1>1, <1>3 DEF Routine
  <2>2. PICK n, r : n \in Node /\ n = Mine(w) /\ r = Fresh(w)
    BY <1>1, <2>1, JobIs
  <2>3. Stored(n, r, held) /\ Becomes(api[n], r)
    BY <1>1, <1>3, <2>1, <2>2, CreatedBecomes
  <2> QED BY <1>1, <2>2, <2>3, StoredBecomes
<1>4. ASSUME NEW t \in Thread, NEW n, n = held[t].node, Updatable(t),
             Stored(n, cache[n], Released(t))
      PROVE  Becomes(api[m], api'[m])
  BY <1>1, <1>4, UpdatedBecomes, StoredBecomes
<1>5. ASSUME NEW w \in Worker, Work(w) \/ CallFails(w)
      PROVE  Becomes(api[m], api'[m])
  <2>1. \/ api' = api
        \/ /\ pc[w] = "create" /\ api[Mine(w)] = NoReport
           /\ Stored(Mine(w), Fresh(w), held)
        \/ /\ pc[w] = "update" /\ Updatable(w)
           /\ Stored(Mine(w), cache[Mine(w)], Released(w))
    BY <1>5 DEF Work, Create, Update, Refused, CallFails
  <2>2. pc[w] = "update" => Mine(w) = held[w].node
    BY <1>1 DEF Routine, Mine
  <2> QED BY <1>2, <1>3, <1>4, <2>1, <2>2, Kinds
<1>6. ASSUME NEW t \in Other, OtherStep(t)
      PROVE  Becomes(api[m], api'[m])
  <2>1. api' = api \/ (Updatable(t) /\ Stored(held[t].node, cache[held[t].node], Released(t)))
    BY <1>6 DEF OtherStep, OtherSaves, Decides, Settles, Touches, OtherEdits
  <2> QED BY <1>2, <1>4, <2>1, Kinds
<1>7. ASSUME NEW n \in Node, Removed(n)
      PROVE  Becomes(api[m], api'[m])
  <2>1. api' = [api EXCEPT ![n] = NoReport] /\ api \in [Node -> Cards]
    BY <1>1, <1>7 DEF Removed, Remove, Persist, Vault
  <2> QED BY <2>1 DEF Becomes
<1>8. Tick => Becomes(api[m], api'[m])
  BY DEF Tick, AgeReports, Becomes
<1>9. CASE \E e \in Event : EventShown(e) \/ EventForgotten(e) \/ Occurs(e) \/ Expires(e)
  BY <1>2, <1>9 DEF EventShown, EventForgotten, Occurs, Expires, storeAndHistory, storeVars
<1>10. CASE \E w \in Worker, e \in Event : TakeNew(w, e) \/ TakeKnown(w, e)
  BY <1>2, <1>10 DEF TakeNew, TakeKnown, storeAndHistory, storeVars
<1>11. CASE \E n \in Node : Deliver(n)
  BY <1>2, <1>11 DEF Deliver, DeliverNext
<1>12. CASE NodesListed \/ Crash \/ UNCHANGED vars
  BY <1>2, <1>12 DEF NodesListed, Crash, Relist, vars, storeAndHistory, storeVars
<1> QED BY <1>5, <1>6, <1>7, <1>8, <1>9, <1>10, <1>11, <1>12 DEF Next

LEMMA Prefixes ==
    ASSUME NEW x \in Cards, NEW y \in Cards, x # NoReport, y # NoReport, Becomes(x, y)
    PROVE  IsPrefix(x.messages, y.messages)
<1>1. x \in Scorecard /\ y \in Scorecard
  BY DEF Cards
<1>2. Len(x.messages) \in Nat
  BY <1>1, CardFields
<1>3. CASE x.messages = y.messages
  BY <1>2, <1>3 DEF IsPrefix
<1> QED BY <1>3, AgedIs DEF Becomes, Extends

(* While a report lives, its persisted messages only grow: no lost update, *)
(* with any number of goroutines editing the shared object                 *)
(* (eventcontroller.go:215-250).                                           *)
THEOREM MessagesGrow == Spec => MessagesOnlyGrow
<1>1. ASSUME EventInv, EventInv', [Next]_vars
      PROVE  \A n \in Node : api[n] # NoReport /\ api'[n] # NoReport
                => IsPrefix(api[n].messages, api'[n].messages)
  <2>1. api \in [Node -> Cards] /\ api' \in [Node -> Cards]
    BY <1>1 DEF EventInv, TypeOK, Cards
  <2> QED BY <1>1, <2>1, StepBecomes, Prefixes
<1>2. EventInv /\ EventInv' /\ [Next]_vars
        => [\A n \in Node : api[n] # NoReport /\ api'[n] # NoReport
                => IsPrefix(api[n].messages, api'[n].messages)]_vars
  BY <1>1
<1> QED BY <1>2, EventInvHolds, PTL DEF Spec, MessagesOnlyGrow

LEMMA OldCopies ==
    ASSUME NEW x \in Cards, NEW y \in Cards, NEW o \in old, Becomes(x, y)
    PROVE  Copies(o, y) <= Copies(o, x)
<1> DEFINE At(r) == {i \in DOMAIN r.messages : r.messages[i] = o}
<1>1. ASSUME NEW r \in Scorecard
      PROVE  /\ Copies(o, r) = Cardinality(At(r)) /\ Cardinality(At(r)) \in Nat
  <2>1. Len(r.messages) \in Int /\ DOMAIN r.messages = 1 .. Len(r.messages)
    BY CardFields
  <2>2. IsFiniteSet(1 .. Len(r.messages))
    BY <2>1, FS_Interval
  <2>3. At(r) \subseteq 1 .. Len(r.messages)
    BY <2>1
  <2>4. IsFiniteSet(At(r))
    BY <2>2, <2>3, FS_Subset
  <2>5. r # NoReport
    BY CardFields
  <2> QED BY <2>4, <2>5, FS_CardinalityType DEF Copies
<1> HIDE DEF At
<1>2. Copies(o, NoReport) = 0
  BY DEF Copies
<1>3. Copies(o, x) \in Nat /\ Copies(o, y) \in Nat
  BY <1>1, <1>2 DEF Cards
<1>4. CASE y = x \/ y = NoReport
  BY <1>2, <1>3, <1>4
<1>5. CASE x # NoReport /\ y # NoReport /\ At(x) = At(y)
  BY <1>1, <1>3, <1>5 DEF Cards
<1>6. CASE y = Aged(x) /\ y # x
  <2>1. x # NoReport /\ y # NoReport /\ y.messages = x.messages
    BY <1>6, AgedIs DEF Aged
  <2> QED BY <1>5, <2>1 DEF At
<1>7. CASE x = NoReport /\ y \in Scorecard /\ \A i \in DOMAIN y.messages : y.messages[i] \notin old
  <2>1. At(y) = {}
    BY <1>7 DEF At
  <2>2. Cardinality(At(y)) = 0
    BY <2>1, FS_EmptySet
  <2> QED BY <1>1, <1>2, <1>7, <2>2
<1>8. CASE x # NoReport /\ y \in Scorecard /\ Extends(x, y)
  <2>1. x \in Scorecard /\ y # NoReport
    BY <1>8, CardFields DEF Cards
  <2>2. /\ Len(x.messages) \in Nat /\ DOMAIN x.messages = 1 .. Len(x.messages)
        /\ Len(y.messages) \in Nat /\ DOMAIN y.messages = 1 .. Len(y.messages)
    BY <1>8, <2>1, CardFields
  <2>3. /\ Len(x.messages) <= Len(y.messages)
        /\ \A i \in 1 .. Len(x.messages) : x.messages[i] = y.messages[i]
        /\ \A i \in DOMAIN y.messages : i > Len(x.messages) => y.messages[i] \notin old
    BY <1>8 DEF Extends, IsPrefix
  <2>4. At(x) = At(y)
    BY <2>2, <2>3 DEF At
  <2> QED BY <1>5, <1>8, <2>1, <2>4
<1> QED BY <1>4, <1>6, <1>7, <1>8 DEF Becomes

(* After a restart no occurrence from before it is recorded again, under   *)
(* any interleaving of workers, watches and failing calls                  *)
(* (eventcontroller.go:433-437).                                           *)
THEOREM RestartsNeverRepeat == Spec => RestartNeverRepeats
<1>1. ASSUME EventInv, EventInv', [Next]_vars
      PROVE  \A n \in Node, o \in Occurrence :
                o \in old => Copies(o, api'[n]) <= Copies(o, api[n])
  <2>1. api \in [Node -> Cards] /\ api' \in [Node -> Cards]
    BY <1>1 DEF EventInv, TypeOK, Cards
  <2>2. ASSUME NEW n \in Node, NEW o \in old PROVE Copies(o, api'[n]) <= Copies(o, api[n])
    <3>1. PICK x \in Cards, y \in Cards : x = api[n] /\ y = api'[n]
      BY <2>1
    <3>2. Becomes(x, y)
      BY <1>1, <3>1, StepBecomes
    <3> QED BY <3>1, <3>2, OldCopies
  <2> QED BY <2>2
<1>2. EventInv /\ EventInv' /\ [Next]_vars
        => [\A n \in Node, o \in Occurrence :
                o \in old => Copies(o, api'[n]) <= Copies(o, api[n])]_vars
  BY <1>1
<1> QED BY <1>2, EventInvHolds, PTL DEF Spec, RestartNeverRepeats
=============================================================================
