--------------------------- MODULE CircuitBreaker ---------------------------
(***************************************************************************)
(* circuitBreakerPlugin: one circuit per isolation key, closed until       *)
(* FailureThreshold consecutive failures open it, half-open once the reset *)
(* timeout has passed, closed again after SuccessThreshold probes.  The    *)
(* Map of circuits is an LRU of MaxCircuits; a request remembers in its    *)
(* admission the circuit object and the generation it was admitted under.  *)
(*                                                                         *)
(* An action is one callback.  A circuit object is a number: reset() and   *)
(* eviction drop it from the Map while admissions still refer to it.       *)
(***************************************************************************)
EXTENDS Integers, FiniteSets

CONSTANTS Client, Key, Request,
          FailureThreshold, SuccessThreshold, HalfOpenMaxRequests, MaxCircuits,
          MaxRecords,      \* bound: circuit objects ever created
          MaxInstalls,     \* bound: installations per client
          MaxResets,       \* bound: calls of reset()
          AsyncClassifier, \* may shouldCountFailure return a promise?
          LateHooks        \* may unuse() run between the start of a request
                           \* and its turn of the plugin's onRequest hook?

ASSUME CircuitBreakerAssumption ==
    /\ IsFiniteSet(Request)
    /\ IsFiniteSet(Key)
    /\ FailureThreshold \in Nat \ {0}
    /\ SuccessThreshold \in Nat \ {0}
    /\ HalfOpenMaxRequests \in Nat \ {0}
    /\ MaxCircuits \in Nat \ {0}
    /\ MaxRecords \in Nat
    /\ MaxInstalls \in Nat
    /\ MaxResets \in Nat
    /\ AsyncClassifier \in BOOLEAN
    /\ LateHooks \in BOOLEAN

VARIABLES
    config,     \* config[r] : client and key of the request
    pc,         \* where the request stands, see PC
    born,       \* born[r] : the installation of its client r started under
    admission,  \* admission[r] : the entry of the admissions Map
    outcome,    \* outcome[r] : how the lifecycle of r ended
    live,       \* live[c] : the plugin is installed on c
    epoch,      \* epoch[c] : number of the latest installation on c
    circuits,   \* the Map: key -> circuit object
    older,      \* older[k] : the keys before k in the order of the Map
    latest,     \* latestCircuit
    record,     \* the circuit objects
    created,    \* how many circuit objects exist
    resets      \* how often reset() was called

requestVars == <<config, pc, born, admission, outcome>>
installVars == <<live, epoch>>
circuitVars == <<circuits, older, latest, record, created>>
vars == <<requestVars, installVars, circuitVars, resets>>

Id == 1..MaxRecords
None == 0
State == {"closed", "open", "half-open"}

(* "classifying": the promise of shouldCountFailure is pending.            *)
(* "finishing": its result is applied, the finally callback has not run.   *)
PC == {"idle", "hooks", "running", "classifying", "finishing", "done"}

(* elapsed stands for Date.now() - openedAt >= resetTimeout.               *)
Circuit == [state : State, failures : Nat, successes : Nat, probes : Nat,
            generation : Nat, activeRequests : Nat, elapsed : BOOLEAN]

Admission == [record : Id, generation : Nat, probe : BOOLEAN,
              released : BOOLEAN]
NoAdmission == [record |-> None]

key(r) == config[r].key
client(r) == config[r].client
Installed(r) == live[client(r)] /\ born[r] = epoch[client(r)]
Admitted == {r \in Request : admission[r] # NoAdmission}

(* The admissions not yet given back to circuit i.                         *)
InFlight(i) == {r \in Admitted : admission[r].record = i /\ ~admission[r].released}

(* The probes among them that belong to its present half-open phase.       *)
Probing(i) == {r \in InFlight(i) :
                  /\ admission[r].probe
                  /\ admission[r].generation = record[i].generation}

TypeOK ==
    /\ config \in [Request -> [client : Client, key : Key]]
    /\ pc \in [Request -> PC]
    /\ born \in [Request -> Nat]
    /\ admission \in [Request -> Admission \union {NoAdmission}]
    /\ outcome \in [Request -> {"none", "success", "failure"}]
    /\ live \in [Client -> BOOLEAN]
    /\ epoch \in [Client -> Nat]
    /\ circuits \in [Key -> Id \union {None}]
    /\ older \in [Key -> SUBSET Key]
    /\ latest \in Id \union {None}
    /\ record \in [Id -> Circuit]
    /\ created \in 0..MaxRecords
    /\ resets \in 0..MaxResets

NewCircuit == [state |-> "closed", failures |-> 0, successes |-> 0,
               probes |-> 0, generation |-> 0, activeRequests |-> 0,
               elapsed |-> FALSE]

Init ==
    /\ config \in [Request -> [client : Client, key : Key]]
    /\ pc = [r \in Request |-> "idle"]
    /\ born = [r \in Request |-> 0]
    /\ admission = [r \in Request |-> NoAdmission]
    /\ outcome = [r \in Request |-> "none"]
    /\ live = [c \in Client |-> FALSE]
    /\ epoch = [c \in Client |-> 0]
    /\ circuits = [k \in Key |-> None]
    /\ older = [k \in Key |-> {}]
    /\ latest = None
    /\ record = [i \in Id |-> NewCircuit]
    /\ created = 0
    /\ resets = 0
-----------------------------------------------------------------------------
(* The Map of circuits. *)

Present == {k \in Key : circuits[k] # None}

(* Map.delete of the keys of S. *)
Deleted(S) == [k \in Key |-> IF k \in S THEN None ELSE circuits[k]]
OlderWithout(S) == [k \in Key |-> IF k \in S THEN {} ELSE older[k] \ S]

(* As many of the idle as there are too many in the Map. *)
MakesRoom(idle, limit) ==
    LET excess == Cardinality(Present) - limit
        n == IF excess < 0 THEN 0
             ELSE IF excess < Cardinality(idle) THEN excess
             ELSE Cardinality(idle)
    IN  {V \in SUBSET idle : Cardinality(V) = n}

(* Wrong variant: circuits in use make room as well. *)
EvictedInUse(idle, limit) ==
    {V \in SUBSET Present : Cardinality(V) = IF Cardinality(Present) > limit
                                             THEN Cardinality(Present) - limit ELSE 0}

(* trimCircuits: the keys it deletes, the oldest of the idle ones first.   *)
Evicted(idle, limit) ==
    {V \in MakesRoom(idle, limit) : \A k \in V : older[k] \intersect idle \subseteq V}

Idle(rec) == {k \in Present : rec[circuits[k]].activeRequests = 0}

(* Wrong variant: the counters of the last phase survive. *)
KeepsSuccesses(c, state) ==
    [c EXCEPT !.state = state, !.generation = @ + 1, !.elapsed = FALSE]

(* transition *)
Transition(c, state) ==
    [c EXCEPT !.state = state,
              !.successes = 0,
              !.probes = 0,
              !.generation = @ + 1,
              !.failures = IF state = "closed" THEN 0 ELSE @,
              !.elapsed = FALSE]

(* Wrong variant: a probe slot is not given back. *)
SlotKept(rec, S) ==
    [i \in Id |-> [rec[i] EXCEPT !.activeRequests = @ - Cardinality(S \intersect InFlight(i))]]

(* Math.max(0, n - d) *)
Minus(n, d) == IF d < n THEN n - d ELSE 0

(* finishAdmission for the requests of S: each gives its probe slot and    *)
(* its activeRequests back, whatever generation it was admitted under.     *)
Finished(rec, S) ==
    [i \in Id |-> [rec[i] EXCEPT
        !.probes = Minus(@, Cardinality({r \in S \intersect InFlight(i) :
                                            admission[r].probe})),
        !.activeRequests = Minus(@, Cardinality(S \intersect InFlight(i)))]]

(* Wrong variant: a second finish would give back again. *)
ReleasedLater(S) == admission

Release(S) == [r \in Request |->
    IF r \in S /\ r \in Admitted THEN [admission[r] EXCEPT !.released = TRUE]
                                 ELSE admission[r]]

(* finishAdmission for the requests of S, and trimCircuits, which deletes   *)
(* gone: rec is what the circuits look like just before S gives back.      *)
GiveBack(rec, S, gone) ==
    /\ record' = Finished(rec, S)
    /\ admission' = Release(S)
    /\ circuits' = Deleted(gone)
    /\ older' = OlderWithout(gone)
    /\ UNCHANGED <<latest, created>>

Finish(rec, S) ==
    \E gone \in Evicted(Idle(Finished(rec, S)), MaxCircuits) : GiveBack(rec, S, gone)
-----------------------------------------------------------------------------
(* Client.use, the start of a request, time, and the public reset().       *)

Install(c) ==
    /\ ~live[c]
    /\ epoch[c] < MaxInstalls
    /\ live' = [live EXCEPT ![c] = TRUE]
    /\ epoch' = [epoch EXCEPT ![c] = @ + 1]
    /\ UNCHANGED <<requestVars, circuitVars, resets>>

Start(r) ==
    /\ pc[r] = "idle"
    /\ live[client(r)]
    /\ pc' = [pc EXCEPT ![r] = "hooks"]
    /\ born' = [born EXCEPT ![r] = epoch[client(r)]]
    /\ UNCHANGED <<config, admission, outcome, installVars, circuitVars, resets>>

ResetTimeout(i) ==
    /\ i <= created
    /\ record[i].state = "open"
    /\ ~record[i].elapsed
    /\ record' = [record EXCEPT ![i].elapsed = TRUE]
    /\ UNCHANGED <<requestVars, installVars, circuits, older, latest, created,
                   resets>>

(* reset(key) for one key, reset() for all of them. *)
Reset(S) ==
    /\ resets < MaxResets
    /\ resets' = resets + 1
    /\ circuits' = Deleted(S)
    /\ older' = OlderWithout(S)
    /\ latest' = IF S = Key \/ \E k \in S : circuits[k] = latest
                 THEN None ELSE latest
    /\ UNCHANGED <<requestVars, installVars, record, created>>
-----------------------------------------------------------------------------
(* The plugin's onRequest hook. *)

Bypass(r) ==
    /\ pc[r] = "hooks"
    /\ pc' = [pc EXCEPT ![r] = "done"]
    /\ UNCHANGED <<config, born, admission, outcome, installVars, circuitVars,
                   resets>>

(* Wrong variant: the entry keeps its place. *)
NotMoved(k) == older

MovedLast(k) == [OlderWithout({k}) EXCEPT ![k] = Present \ {k}]

(* Find the circuit of k and move it to the end of the Map, unless it is   *)
(* the latest one already; or make room for a new one.                     *)
Lookup(k) ==
    \/ /\ circuits[k] # None
       /\ older' = IF circuits[k] = latest THEN older
                   ELSE MovedLast(k)
       /\ latest' = circuits[k]
       /\ UNCHANGED <<circuits, created>>
    \/ /\ circuits[k] = None
       /\ created < MaxRecords
       /\ created' = created + 1
       /\ latest' = created'
       /\ \E gone \in Evicted(Idle(record), MaxCircuits - 1) :
             /\ circuits' = [Deleted(gone) EXCEPT ![k] = created']
             /\ older' = [OlderWithout(gone) EXCEPT ![k] = Present \ gone]

(* The circuit of k as the hook sees it: half-open if it was open and the  *)
(* reset timeout has passed.                                               *)
Current(k) ==
    LET c == IF circuits[k] = None THEN NewCircuit ELSE record[circuits[k]]
    IN  IF c.state = "open" /\ c.elapsed THEN Transition(c, "half-open") ELSE c

Rejects(c) == \/ c.state = "open"
              \/ c.state = "half-open" /\ c.probes >= HalfOpenMaxRequests

Reject(r) ==
    /\ pc[r] = "hooks"
    /\ Rejects(Current(key(r)))
    /\ Lookup(key(r))
    /\ record' = [record EXCEPT ![latest'] = Current(key(r))]
    /\ pc' = [pc EXCEPT ![r] = "done"]
    /\ UNCHANGED <<config, born, admission, outcome, installVars, resets>>

Admit(r) ==
    LET c == Current(key(r))
        probe == c.state = "half-open"
    IN
    /\ pc[r] = "hooks"
    /\ ~Rejects(c)
    /\ Lookup(key(r))
    /\ record' = [record EXCEPT ![latest'] =
                    [c EXCEPT !.probes = IF probe THEN @ + 1 ELSE @,
                              !.activeRequests = @ + 1]]
    /\ admission' = [admission EXCEPT ![r] =
                       [record |-> latest', generation |-> c.generation,
                        probe |-> probe, released |-> FALSE]]
    /\ pc' = [pc EXCEPT ![r] = "running"]
    /\ UNCHANGED <<config, born, outcome, installVars, resets>>
-----------------------------------------------------------------------------
(* The plugin's onSettled hook. *)

(* The admission still speaks for the circuit of its key. *)
Relevant(r) == /\ Installed(r)
               /\ circuits[key(r)] = admission[r].record
               /\ record[admission[r].record].generation = admission[r].generation

Succeeded(r) ==
    LET i == admission[r].record
        c == [record[i] EXCEPT !.failures = 0]
        won == [c EXCEPT !.successes = @ + 1]
    IN  [record EXCEPT ![i] =
            IF ~(admission[r].probe /\ c.state = "half-open") THEN c
            ELSE IF won.successes >= SuccessThreshold THEN Transition(won, "closed")
            ELSE won]

(* applyFailure for a failure that counts. *)
Failed(r) ==
    LET i == admission[r].record
        c == record[i]
        more == [c EXCEPT !.failures = @ + 1]
    IN  [record EXCEPT ![i] =
            IF admission[r].probe /\ c.state = "half-open"
            THEN Transition(c, "open")
            ELSE IF c.state # "closed" THEN c
            ELSE IF more.failures >= FailureThreshold THEN Transition(more, "open")
            ELSE more]

(* Wrong variant: a late classifier result is applied to any generation. *)
AppliesLateResult(r, counted) == IF counted THEN Failed(r) ELSE record

ApplyFailure(r, counted) ==
    IF Relevant(r) /\ counted THEN Failed(r) ELSE record

Ends(r, o) ==
    /\ pc[r] = "running"
    /\ outcome' = [outcome EXCEPT ![r] = o]
    /\ UNCHANGED <<config, born, installVars, resets>>

(* A request whose installation is gone has no settled hook any more.      *)
SettleRemoved(r) ==
    /\ ~Installed(r)
    /\ \E o \in {"success", "failure"} : Ends(r, o)
    /\ pc' = [pc EXCEPT ![r] = "done"]
    /\ UNCHANGED <<admission, circuitVars>>

SettleStale(r) ==
    /\ \E o \in {"success", "failure"} : Ends(r, o)
    /\ Installed(r)
    /\ ~Relevant(r)
    /\ Finish(record, {r})
    /\ pc' = [pc EXCEPT ![r] = "done"]

SettleSuccess(r) ==
    /\ Ends(r, "success")
    /\ Relevant(r)
    /\ Finish(Succeeded(r), {r})
    /\ pc' = [pc EXCEPT ![r] = "done"]

SettleFailure(r, counted) ==
    /\ Ends(r, "failure")
    /\ Relevant(r)
    /\ Finish(ApplyFailure(r, counted), {r})
    /\ pc' = [pc EXCEPT ![r] = "done"]

BeginClassify(r) ==
    /\ AsyncClassifier
    /\ Ends(r, "failure")
    /\ Relevant(r)
    /\ pc' = [pc EXCEPT ![r] = "classifying"]
    /\ UNCHANGED <<admission, circuitVars>>

(* The classifier answers, rejects, or the signal of r fires (not counted).*)
Classified(r, counted) ==
    /\ pc[r] = "classifying"
    /\ record' = ApplyFailure(r, counted)
    /\ pc' = [pc EXCEPT ![r] = "finishing"]
    /\ UNCHANGED <<config, born, admission, outcome, installVars,
                   circuits, older, latest, created, resets>>

FinishClassified(r) ==
    /\ pc[r] = "finishing"
    /\ Finish(record, {r})
    /\ pc' = [pc EXCEPT ![r] = "done"]
    /\ UNCHANGED <<config, born, outcome, installVars, resets>>
-----------------------------------------------------------------------------
(* The cleanup unuse() runs. *)
Mine(c) == {r \in Admitted : client(r) = c /\ born[r] = epoch[c]}

(* The admissions give back one after another, in the order of their Map,   *)
(* with a trimCircuits after each: as many circuits go as one trim at the  *)
(* end would delete, but those that fell idle first, and not the oldest.   *)
(* The model leaves the order of the admissions open.                      *)
Unuse(c) ==
    /\ live[c]
    /\ LateHooks \/ \A r \in Request :
          client(r) = c /\ born[r] = epoch[c] => pc[r] # "hooks"
    /\ live' = [live EXCEPT ![c] = FALSE]
    /\ IF \A d \in Client \ {c} : ~live[d]
       THEN /\ record' = Finished(record, Mine(c))
            /\ admission' = Release(Mine(c))
            /\ circuits' = Deleted(Key)
            /\ older' = OlderWithout(Key)
            /\ latest' = None
            /\ UNCHANGED created
       ELSE \E gone \in MakesRoom(Idle(Finished(record, Mine(c))), MaxCircuits) :
              GiveBack(record, Mine(c), gone)
    /\ UNCHANGED <<config, pc, born, outcome, epoch, resets>>
-----------------------------------------------------------------------------
OnRequest(r) == Bypass(r) \/ Reject(r) \/ Admit(r)

OnSettled(r) == \/ SettleRemoved(r) \/ SettleStale(r) \/ SettleSuccess(r)
                \/ \E counted \in BOOLEAN : SettleFailure(r, counted)
                \/ BeginClassify(r)

EndClassify(r) == \/ \E counted \in BOOLEAN : Classified(r, counted)
                  \/ FinishClassified(r)

Next ==
    \/ \E c \in Client : Install(c) \/ Unuse(c)
    \/ \E i \in Id : ResetTimeout(i)
    \/ Reset(Key) \/ \E k \in Key : Reset({k})
    \/ \E r \in Request : Start(r) \/ OnRequest(r) \/ OnSettled(r) \/ EndClassify(r)

Spec == Init /\ [][Next]_vars

(* Hooks and continuations run, and the transport and the classifier of a  *)
(* request end; no fairness for callers, unuse() and reset().              *)
Fairness == \A r \in Request : WF_vars(OnSettled(r)) /\ WF_vars(EndClassify(r))

FairSpec == Spec /\ Fairness
-----------------------------------------------------------------------------
(* Properties. *)

(* activeRequests counts the admissions of a circuit that were not given   *)
(* back: none is given back twice or forgotten by a removal, a reset, a    *)
(* stale generation or a pending classifier (lines 189, 337-350).          *)
ActiveRequestsConserved ==
    \A i \in 1..created : record[i].activeRequests = Cardinality(InFlight(i))

(* No slot leaks: every occupied probe slot belongs to a probe that is     *)
(* still in flight in the present half-open phase, so a saturated circuit  *)
(* is never saturated for good.                                            *)
NoPhantomProbe ==
    \A i \in 1..created : record[i].probes <= Cardinality(Probing(i))

(* The circuit admits at most halfOpenMaxRequests concurrent probes        *)
(* (docs/api.md 1178-1179).  It does not hold: a probe of an earlier       *)
(* half-open phase gives back a slot it does not occupy (line 346).        *)
ProbesBounded ==
    \A i \in 1..created :
        record[i].state = "half-open" =>
            Cardinality(Probing(i)) <= HalfOpenMaxRequests

(* activeRequests and the admissions in flight agree exactly; a probe slot  *)
(* is taken by a probe in flight, though not every such probe holds one.   *)
SlotsConserved == TypeOK /\ ActiveRequestsConserved /\ NoPhantomProbe

(* Every success a half-open circuit has counted was reported by a probe   *)
(* of the present phase, and it stays half-open only below the threshold.  *)
SuccessesEarned ==
    \A i \in 1..created : record[i].state = "half-open" =>
        /\ record[i].successes < SuccessThreshold
        /\ record[i].successes <=
              Cardinality({r \in Admitted :
                  /\ admission[r].record = i
                  /\ admission[r].probe
                  /\ admission[r].generation = record[i].generation
                  /\ outcome[r] = "success"})

(* The map outgrows maxCircuits only while every circuit in it is in use.  *)
RetentionBounded == Cardinality(Present) > MaxCircuits => Idle(record) = {}

(* latestCircuit, when it is in the map, is its newest entry: skipping the *)
(* re-insertion for it (line 169) keeps the LRU order.                     *)
LatestIsNewest ==
    \A k \in Present : circuits[k] = latest => older[k] = Present \ {k}

(* The map is the LRU of MaxCircuits entries that the docs promise.        *)
LruKept == RetentionBounded /\ LatestIsNewest

(* A circuit leaves the map with requests in flight only through reset()   *)
(* or when the last installation is removed.                               *)
BusyCircuitKept ==
    [][\A i \in Id, k \in Key :
          /\ circuits[k] = i /\ circuits'[k] # i
          /\ resets' = resets
          /\ \E c \in Client : live'[c]
          => InFlight(i)' = {}]_vars

(* A circuit opens because of a failure of a request it admitted in the    *)
(* present generation, whose installation is still there, and which the    *)
(* map still holds: a late failure or classifier result changes nothing.   *)
OpensForCurrentFailure ==
    [][\A i \in Id : record[i].state # "open" /\ record'[i].state = "open" =>
          \E r \in Admitted :
             /\ pc[r] \in {"running", "classifying"} /\ pc'[r] # pc[r]
             /\ outcome'[r] = "failure"
             /\ Installed(r)
             /\ admission[r].record = i /\ circuits[key(r)] = i
             /\ admission[r].generation = record[i].generation]_vars

(* A saturated half-open circuit admits probes again, or is half-open no   *)
(* longer, once its probes end.                                            *)
SaturationEnds ==
    \A i \in Id : Rejects(record[i]) /\ record[i].state = "half-open"
                  ~> ~(Rejects(record[i]) /\ record[i].state = "half-open")
=============================================================================
