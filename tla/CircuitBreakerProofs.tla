------------------------ MODULE CircuitBreakerProofs ------------------------
(***************************************************************************)
(* Proofs about CircuitBreaker, for any clients, keys, requests, limits    *)
(* and timing of unuse(): type correctness, and by the inductive invariant *)
(* CircuitInv that admissions and slots are conserved, that a circuit is   *)
(* closed only by successes of its present phase and opened only by a      *)
(* current failure, and that the Map is an LRU that keeps circuits in use. *)
(***************************************************************************)
EXTENDS CircuitBreaker, FiniteSetTheorems, TLAPS

(* Where a request stands decides whether it has an admission and whether  *)
(* its lifecycle has ended.                                                *)
Stages ==
    \A r \in Request :
        /\ pc[r] \in {"idle", "hooks"} => admission[r] = NoAdmission
        /\ pc[r] \in {"idle", "hooks", "running"} => outcome[r] = "none"
        /\ pc[r] \in {"running", "classifying", "finishing"} => r \in Admitted
        /\ pc[r] \in {"classifying", "finishing"} => outcome[r] = "failure"

(* The Map and the admissions refer to circuit objects that exist, and no  *)
(* two keys to the same one.                                               *)
Placed ==
    /\ \A k \in Key : circuits[k] <= created
    /\ latest <= created
    /\ \A r \in Admitted : admission[r].record <= created
    /\ \A k, l \in Present : circuits[k] = circuits[l] => k = l

CircuitInv == Stages /\ Placed /\ ActiveRequestsConserved /\ NoPhantomProbe
              /\ SuccessesEarned /\ LruKept

-----------------------------------------------------------------------------
(* Sets of requests are finite, and so are sets of keys. *)
LEMMA RequestsFinite ==
    ASSUME NEW S \in SUBSET Request
    PROVE  IsFiniteSet(S) /\ Cardinality(S) \in Nat
  BY CircuitBreakerAssumption, FS_Subset, FS_CardinalityType DEF CircuitBreakerAssumption

LEMMA KeysFinite ==
    ASSUME NEW S \in SUBSET Key
    PROVE  IsFiniteSet(S) /\ Cardinality(S) \in Nat
  BY CircuitBreakerAssumption, FS_Subset, FS_CardinalityType DEF CircuitBreakerAssumption

LEMMA IdNat == Id \subseteq Nat /\ None \in Nat /\ None \notin Id
  BY CircuitBreakerAssumption DEF CircuitBreakerAssumption, Id, None

(* An admission is not the absence of one.                                 *)
LEMMA AdmissionIsOne == \A a \in Admission : a # NoAdmission
<1> SUFFICES ASSUME NEW a \in Admission PROVE a # NoAdmission
  OBVIOUS
<1>1. a.record \in Id
  BY DEF Admission
<1>2. NoAdmission.record = None
  BY DEF NoAdmission
<1> QED
  BY <1>1, <1>2, IdNat

LEMMA AdmittedType ==
    ASSUME TypeOK, NEW r \in Admitted
    PROVE  r \in Request /\ admission[r] \in Admission
  BY DEF TypeOK, Admitted

LEMMA InFlightRequests ==
    ASSUME NEW i
    PROVE  InFlight(i) \in SUBSET Request /\ Probing(i) \in SUBSET InFlight(i)
  BY DEF InFlight, Probing, Admitted
-----------------------------------------------------------------------------
(* Transitions, lookups and admissions keep circuits circuits.             *)
LEMMA TransitionType ==
    ASSUME NEW c \in Circuit, NEW state \in State
    PROVE  Transition(c, state) \in Circuit
<1> DEFINE n == IF state = "closed" THEN 0 ELSE c.failures
           half == [c EXCEPT !.state = state, !.successes = 0, !.probes = 0]
<1>1. n \in Nat /\ c.generation + 1 \in Nat
  BY DEF Circuit
<1>2. half \in Circuit /\ half.generation = c.generation
  BY DEF Circuit
<1>3. Transition(c, state) = [half EXCEPT !.generation = c.generation + 1,
                                          !.failures = n, !.elapsed = FALSE]
  BY DEF Transition
<1> HIDE DEF n, half
<1>4. [half EXCEPT !.generation = c.generation + 1, !.failures = n, !.elapsed = FALSE]
         \in Circuit
  BY <1>1, <1>2 DEF Circuit
<1> QED
  BY <1>3, <1>4

LEMMA CurrentType ==
    ASSUME TypeOK, NEW k \in Key
    PROVE  Current(k) \in Circuit
<1>1. NewCircuit \in Circuit
  BY DEF NewCircuit, Circuit, State
<1>2. circuits[k] # None => record[circuits[k]] \in Circuit
  BY DEF TypeOK
<1> QED
  BY <1>1, <1>2, TransitionType DEF Current, State

LEMMA MinusType ==
    ASSUME NEW n \in Nat, NEW d \in Nat
    PROVE  Minus(n, d) \in Nat
  BY DEF Minus

LEMMA FinishedType ==
    ASSUME TypeOK, NEW rec \in [Id -> Circuit], NEW S
    PROVE  Finished(rec, S) \in [Id -> Circuit]
<1> SUFFICES ASSUME NEW i \in Id
             PROVE  Finished(rec, S)[i] \in Circuit
  BY DEF Finished
<1> DEFINE gone == Cardinality(S \intersect InFlight(i))
           free == Cardinality({r \in S \intersect InFlight(i) : admission[r].probe})
<1>1. gone \in Nat /\ free \in Nat
  <2>1. /\ S \intersect InFlight(i) \in SUBSET Request
        /\ {r \in S \intersect InFlight(i) : admission[r].probe} \in SUBSET Request
    BY InFlightRequests
  <2> QED
    BY <2>1, RequestsFinite
<1>2. Finished(rec, S)[i] = [rec[i] EXCEPT !.probes = Minus(@, free),
                                           !.activeRequests = Minus(@, gone)]
  BY DEF Finished
<1> HIDE DEF gone, free
<1>3. rec[i] \in Circuit
  OBVIOUS
<1>4. Minus(rec[i].probes, free) \in Nat /\ Minus(rec[i].activeRequests, gone) \in Nat
  BY <1>1, <1>3, MinusType DEF Circuit
<1> QED
  BY <1>2, <1>3, <1>4 DEF Circuit

LEMMA ReleaseType ==
    ASSUME TypeOK, NEW S
    PROVE  Release(S) \in [Request -> Admission \union {NoAdmission}]
<1> SUFFICES ASSUME NEW r \in Request
             PROVE  Release(S)[r] \in Admission \union {NoAdmission}
  BY DEF Release
<1>1. CASE r \in S /\ r \in Admitted
  <2>1. admission[r] \in Admission
    BY <1>1, AdmittedType
  <2>2. Release(S)[r] = [admission[r] EXCEPT !.released = TRUE]
    BY <1>1 DEF Release
  <2> QED
    BY <2>1, <2>2 DEF Admission
<1> QED
  BY <1>1 DEF Release, TypeOK

LEMMA MapType ==
    ASSUME TypeOK, NEW S
    PROVE  /\ Deleted(S) \in [Key -> Id \union {None}]
           /\ OlderWithout(S) \in [Key -> SUBSET Key]
  BY DEF Deleted, OlderWithout, TypeOK

(* The requests of S give back, whichever of the idle circuits go for it.  *)
Trims(rec, S) ==
    \E gone \in MakesRoom(Idle(Finished(rec, S)), MaxCircuits) : GiveBack(rec, S, gone)

LEMMA FinishTrims == \A rec, S : Finish(rec, S) => Trims(rec, S)
  BY DEF Finish, Evicted, Trims

LEMMA UnuseTrims ==
    ASSUME NEW c \in Client, Unuse(c), ~\A d \in Client \ {c} : ~live[d]
    PROVE  Trims(record, Mine(c))
  BY DEF Unuse, Trims

(* What a finishing callback leaves has the types of what it found.        *)
LEMMA FinishType ==
    ASSUME TypeOK, NEW rec \in [Id -> Circuit], NEW S, Trims(rec, S)
    PROVE  /\ record' \in [Id -> Circuit]
           /\ admission' \in [Request -> Admission \union {NoAdmission}]
           /\ circuits' \in [Key -> Id \union {None}]
           /\ older' \in [Key -> SUBSET Key]
           /\ latest' \in Id \union {None}
           /\ created' \in 0..MaxRecords
<1>1. PICK gone : circuits' = Deleted(gone) /\ older' = OlderWithout(gone)
  BY DEF Trims, GiveBack
<1>2. /\ record' = Finished(rec, S)
      /\ admission' = Release(S)
      /\ UNCHANGED <<latest, created>>
  BY DEF Trims, GiveBack
<1>3. latest \in Id \union {None} /\ created \in 0..MaxRecords
  BY DEF TypeOK
<1>4. Finished(rec, S) \in [Id -> Circuit]
  BY FinishedType
<1> QED
  BY <1>1, <1>2, <1>3, <1>4, ReleaseType, MapType

LEMMA LookupType ==
    ASSUME TypeOK, NEW k \in Key, Lookup(k)
    PROVE  /\ circuits' \in [Key -> Id \union {None}]
           /\ older' \in [Key -> SUBSET Key]
           /\ latest' \in Id
           /\ created' \in 0..MaxRecords
<1>1. CASE circuits[k] # None
  <2>1. /\ older' = IF circuits[k] = latest THEN older ELSE MovedLast(k)
        /\ latest' = circuits[k]
        /\ UNCHANGED <<circuits, created>>
    BY <1>1 DEF Lookup
  <2>2. MovedLast(k) \in [Key -> SUBSET Key]
    BY MapType DEF MovedLast, Present
  <2> QED
    BY <1>1, <2>1, <2>2 DEF TypeOK
<1>2. CASE circuits[k] = None
  <2>1. PICK gone \in Evicted(Idle(record), MaxCircuits - 1) :
           /\ circuits' = [Deleted(gone) EXCEPT ![k] = created']
           /\ older' = [OlderWithout(gone) EXCEPT ![k] = Present \ gone]
    BY <1>2 DEF Lookup
  <2>2. created < MaxRecords /\ created' = created + 1 /\ latest' = created'
    BY <1>2 DEF Lookup
  <2>3. created' \in 1..MaxRecords /\ created' \in Id
    BY <2>2, CircuitBreakerAssumption DEF TypeOK, CircuitBreakerAssumption, Id
  <2> QED
    BY <2>1, <2>2, <2>3, MapType DEF Present
<1> QED
  BY <1>1, <1>2

(* A success or a failure applied to a circuit gives a circuit.            *)
LEMMA SettledType ==
    ASSUME TypeOK, NEW r \in Admitted
    PROVE  Succeeded(r) \in [Id -> Circuit] /\ Failed(r) \in [Id -> Circuit]
<1> DEFINE i == admission[r].record
<1>1. i \in Id /\ record[i] \in Circuit /\ record \in [Id -> Circuit]
  BY AdmittedType DEF Admission, TypeOK
<1>2. Succeeded(r) \in [Id -> Circuit]
  <2> DEFINE c == [record[i] EXCEPT !.failures = 0]
             won == [c EXCEPT !.successes = @ + 1]
  <2>1. c \in Circuit
    BY <1>1 DEF Circuit
  <2> HIDE DEF c
  <2>2. won \in Circuit
    BY <2>1 DEF Circuit
  <2>3. Transition(won, "closed") \in Circuit
    BY <2>2, TransitionType DEF State
  <2> HIDE DEF won
  <2>4. Succeeded(r) = [record EXCEPT ![i] =
                          IF ~(admission[r].probe /\ c.state = "half-open") THEN c
                          ELSE IF won.successes >= SuccessThreshold THEN Transition(won, "closed")
                          ELSE won]
    BY DEF Succeeded, c, won
  <2> QED
    BY <1>1, <2>1, <2>2, <2>3, <2>4
<1>3. Failed(r) \in [Id -> Circuit]
  <2> DEFINE c == record[i]
             more == [c EXCEPT !.failures = @ + 1]
  <2>1. more \in Circuit
    BY <1>1 DEF Circuit
  <2>2. Transition(c, "open") \in Circuit /\ Transition(more, "open") \in Circuit
    BY <1>1, <2>1, TransitionType DEF State
  <2> HIDE DEF more
  <2>3. Failed(r) = [record EXCEPT ![i] =
                       IF admission[r].probe /\ c.state = "half-open"
                       THEN Transition(c, "open")
                       ELSE IF c.state # "closed" THEN c
                       ELSE IF more.failures >= FailureThreshold THEN Transition(more, "open")
                       ELSE more]
    BY DEF Failed, more
  <2> QED
    BY <1>1, <2>1, <2>2, <2>3
<1> QED
  BY <1>2, <1>3
-----------------------------------------------------------------------------
(* The callbacks that finish an admission, and what each makes of the      *)
(* circuits first.                                                         *)
Settles(r, rec) ==
    \/ SettleStale(r) /\ rec = record
    \/ SettleSuccess(r) /\ rec = Succeeded(r)
    \/ \E counted \in BOOLEAN : SettleFailure(r, counted) /\ rec = ApplyFailure(r, counted)
    \/ FinishClassified(r) /\ rec = record

LEMMA SettlesEffect ==
    ASSUME NEW r, NEW rec, Settles(r, rec)
    PROVE  /\ pc[r] \in {"running", "finishing"}
           /\ Trims(rec, {r})
           /\ pc' = [pc EXCEPT ![r] = "done"]
           /\ \/ outcome' = outcome
              \/ \E o \in {"success", "failure"} : outcome' = [outcome EXCEPT ![r] = o]
           /\ UNCHANGED <<config, born, installVars, resets>>
<1>1. /\ pc[r] \in {"running", "finishing"}
      /\ Finish(rec, {r})
      /\ pc' = [pc EXCEPT ![r] = "done"]
      /\ \/ outcome' = outcome
         \/ \E o \in {"success", "failure"} : outcome' = [outcome EXCEPT ![r] = o]
      /\ UNCHANGED <<config, born, installVars, resets>>
  BY DEF Settles, SettleStale, SettleSuccess, SettleFailure, FinishClassified, Ends
<1> QED
  BY <1>1, FinishTrims

(* The disjuncts of Next by what they do to the circuits.                  *)
LEMMA NextCases ==
    ASSUME [Next]_vars
    PROVE  \/ \E c \in Client : Install(c)
           \/ \E c \in Client : Unuse(c)
           \/ \E i \in Id : ResetTimeout(i)
           \/ \E S \in SUBSET Key : Reset(S)
           \/ \E r \in Request : Start(r)
           \/ \E r \in Request : Bypass(r)
           \/ \E r \in Request : Reject(r)
           \/ \E r \in Request : Admit(r)
           \/ \E r \in Request : SettleRemoved(r)
           \/ \E r \in Request : \E rec : Settles(r, rec)
           \/ \E r \in Request : BeginClassify(r)
           \/ \E r \in Request, counted \in BOOLEAN : Classified(r, counted)
           \/ UNCHANGED vars
<1>1. CASE UNCHANGED vars
  BY <1>1
<1>2. CASE Reset(Key) \/ \E k \in Key : Reset({k})
  <2>1. Key \in SUBSET Key /\ \A k \in Key : {k} \in SUBSET Key
    OBVIOUS
  <2> QED
    BY <1>2, <2>1
<1>3. CASE \E r \in Request : OnSettled(r) \/ EndClassify(r)
  BY <1>3 DEF OnSettled, EndClassify, Settles
<1>4. CASE \E r \in Request : Start(r) \/ OnRequest(r)
  BY <1>4 DEF OnRequest
<1> QED
  BY <1>1, <1>2, <1>3, <1>4 DEF Next
-----------------------------------------------------------------------------
LEMMA TypeInit == Init => TypeOK
<1>1. NewCircuit \in Circuit
  BY DEF NewCircuit, Circuit, State
<1> QED
  BY <1>1, CircuitBreakerAssumption DEF CircuitBreakerAssumption, Init, TypeOK, PC

(* The record a settled hook hands to finishAdmission, and its request.    *)
LEMMA SettlesType ==
    ASSUME TypeOK, Stages, NEW r \in Request, NEW rec, Settles(r, rec)
    PROVE  r \in Admitted /\ rec \in [Id -> Circuit]
<1>1. r \in Admitted
  BY SettlesEffect DEF Stages
<1>2. record \in [Id -> Circuit]
  BY DEF TypeOK
<1> QED
  BY <1>1, <1>2, SettledType DEF Settles, ApplyFailure

LEMMA UnuseType ==
    ASSUME TypeOK, NEW c \in Client, Unuse(c)
    PROVE  TypeOK'
<1>1. /\ record' \in [Id -> Circuit]
      /\ admission' \in [Request -> Admission \union {NoAdmission}]
      /\ circuits' \in [Key -> Id \union {None}]
      /\ older' \in [Key -> SUBSET Key]
      /\ latest' \in Id \union {None}
      /\ created' \in 0..MaxRecords
  <2>1. record \in [Id -> Circuit]
    BY DEF TypeOK
  <2>2. CASE \A d \in Client \ {c} : ~live[d]
    <3>1. /\ record' = Finished(record, Mine(c))
          /\ admission' = Release(Mine(c))
          /\ circuits' = Deleted(Key)
          /\ older' = OlderWithout(Key)
          /\ latest' = None
          /\ UNCHANGED created
      BY <2>2 DEF Unuse
    <3>2. created \in 0..MaxRecords
      BY DEF TypeOK
    <3> QED
      BY <2>1, <3>1, <3>2, FinishedType, ReleaseType, MapType
  <2>3. CASE ~\A d \in Client \ {c} : ~live[d]
    <3>1. Trims(record, Mine(c))
      BY <2>3, UnuseTrims
    <3> QED
      BY <2>1, <3>1, FinishType
  <2> QED
    BY <2>2, <2>3
<1>2. /\ live' = [live EXCEPT ![c] = FALSE]
      /\ UNCHANGED <<config, pc, born, outcome, epoch, resets>>
  BY DEF Unuse
<1> QED
  BY <1>1, <1>2 DEF TypeOK

LEMMA TakenType ==
    ASSUME NEW c \in Circuit, NEW n \in Nat
    PROVE  [c EXCEPT !.probes = n, !.activeRequests = @ + 1] \in Circuit
<1>1. c.activeRequests + 1 \in Nat
  BY DEF Circuit
<1> QED
  BY <1>1 DEF Circuit

LEMMA HookType ==
    ASSUME TypeOK, NEW r \in Request, Reject(r) \/ Admit(r)
    PROVE  TypeOK'
<1> DEFINE c == Current(key(r))
<1>1. key(r) \in Key
  BY DEF key, TypeOK
<1>2. c \in Circuit
  BY <1>1, CurrentType
<1>3. Lookup(key(r))
  BY DEF Reject, Admit
<1>4. /\ circuits' \in [Key -> Id \union {None}]
      /\ older' \in [Key -> SUBSET Key]
      /\ latest' \in Id
      /\ created' \in 0..MaxRecords
  BY <1>1, <1>3, LookupType
<1>5. CASE Reject(r)
  <2>1. record' = [record EXCEPT ![latest'] = c]
    BY <1>5 DEF Reject
  <2>2. /\ pc' = [pc EXCEPT ![r] = "done"]
        /\ UNCHANGED <<config, born, admission, outcome, installVars, resets>>
    BY <1>5 DEF Reject
  <2> HIDE DEF c
  <2> QED
    BY <1>2, <1>4, <2>1, <2>2 DEF TypeOK, PC, installVars
<1>6. CASE Admit(r)
  <2> DEFINE probe == c.state = "half-open"
             used == IF probe THEN c.probes + 1 ELSE c.probes
             taken == [c EXCEPT !.probes = used, !.activeRequests = @ + 1]
             entry == [record |-> latest', generation |-> c.generation,
                       probe |-> probe, released |-> FALSE]
  <2>1. record' = [record EXCEPT ![latest'] = taken] /\ admission' = [admission EXCEPT ![r] = entry]
    BY <1>6 DEF Admit
  <2>2. /\ pc' = [pc EXCEPT ![r] = "running"]
        /\ UNCHANGED <<config, born, outcome, installVars, resets>>
    BY <1>6 DEF Admit
  <2> HIDE DEF c
  <2>3. taken \in Circuit
    <3>1. used \in Nat
      BY <1>2 DEF Circuit
    <3> HIDE DEF used
    <3> QED
      BY <1>2, <3>1, TakenType
  <2>4. entry \in Admission
    BY <1>2, <1>4 DEF Circuit, Admission
  <2> HIDE DEF taken, entry
  <2> QED
    BY <1>4, <2>1, <2>2, <2>3, <2>4 DEF TypeOK, PC, installVars
<1> QED
  BY <1>5, <1>6

LEMMA TypeStep == TypeOK /\ Stages /\ [Next]_vars => TypeOK'
<1> SUFFICES ASSUME TypeOK, Stages, [Next]_vars
             PROVE  TypeOK'
  OBVIOUS
<1> USE DEF requestVars, installVars, circuitVars
<1>1. ASSUME NEW c \in Client, Install(c) PROVE TypeOK'
  BY <1>1 DEF Install, TypeOK
<1>2. ASSUME NEW i \in Id, ResetTimeout(i) PROVE TypeOK'
  <2>1. [record[i] EXCEPT !.elapsed = TRUE] \in Circuit
    BY DEF TypeOK, Circuit
  <2>2. record' \in [Id -> Circuit]
    BY <1>2, <2>1 DEF ResetTimeout, TypeOK
  <2> QED
    BY <1>2, <2>2 DEF ResetTimeout, TypeOK
<1>3. ASSUME NEW S \in SUBSET Key, Reset(S) PROVE TypeOK'
  <2>1. resets' \in 0..MaxResets /\ latest' \in Id \union {None}
    BY <1>3, CircuitBreakerAssumption DEF Reset, TypeOK, CircuitBreakerAssumption
  <2>2. circuits' \in [Key -> Id \union {None}] /\ older' \in [Key -> SUBSET Key]
    BY <1>3, MapType DEF Reset
  <2> QED
    BY <1>3, <2>1, <2>2 DEF Reset, TypeOK
<1>4. ASSUME NEW r \in Request, Start(r) PROVE TypeOK'
  BY <1>4 DEF Start, TypeOK, PC, client
<1>5. ASSUME NEW r \in Request, Bypass(r) PROVE TypeOK'
  BY <1>5 DEF Bypass, TypeOK, PC
<1>6. ASSUME NEW r \in Request, SettleRemoved(r) \/ BeginClassify(r) PROVE TypeOK'
  BY <1>6 DEF SettleRemoved, BeginClassify, Ends, TypeOK, PC
<1>7. ASSUME NEW r \in Request, NEW rec, Settles(r, rec) PROVE TypeOK'
  <2>1. rec \in [Id -> Circuit]
    BY <1>7, SettlesType
  <2>2. Trims(rec, {r})
    BY <1>7, SettlesEffect
  <2>3. /\ record' \in [Id -> Circuit]
        /\ admission' \in [Request -> Admission \union {NoAdmission}]
        /\ circuits' \in [Key -> Id \union {None}]
        /\ older' \in [Key -> SUBSET Key]
        /\ latest' \in Id \union {None}
        /\ created' \in 0..MaxRecords
    BY <2>1, <2>2, FinishType
  <2>4. outcome' \in [Request -> {"none", "success", "failure"}]
    BY <1>7, SettlesEffect DEF TypeOK
  <2>5. pc' \in [Request -> PC] /\ UNCHANGED <<config, born, installVars, resets>>
    BY <1>7, SettlesEffect DEF TypeOK, PC
  <2> QED
    BY <2>3, <2>4, <2>5 DEF TypeOK
<1>8. ASSUME NEW r \in Request, NEW counted \in BOOLEAN, Classified(r, counted)
      PROVE  TypeOK'
  <2>1. r \in Admitted
    BY <1>8 DEF Classified, Stages
  <2>2. record' \in [Id -> Circuit]
    BY <1>8, <2>1, SettledType DEF Classified, ApplyFailure, TypeOK
  <2> QED
    BY <1>8, <2>2 DEF Classified, TypeOK, PC
<1>9. CASE UNCHANGED vars
  BY <1>9 DEF vars, TypeOK
<1> QED
  BY <1>1, <1>2, <1>3, <1>4, <1>5, <1>6, <1>7, <1>8, <1>9, NextCases, HookType, UnuseType
-----------------------------------------------------------------------------
LEMMA ReleaseKeeps ==
    ASSUME TypeOK, NEW S
    PROVE  \A r \in Request :
              /\ r \notin Admitted => Release(S)[r] = NoAdmission
              /\ r \in Admitted =>
                    /\ Release(S)[r] \in Admission
                    /\ Release(S)[r].record = admission[r].record
                    /\ Release(S)[r].generation = admission[r].generation
                    /\ Release(S)[r].probe = admission[r].probe
                    /\ Release(S)[r].released = (r \in S \/ admission[r].released)
<1> SUFFICES ASSUME NEW r \in Request, r \in Admitted
             PROVE  /\ Release(S)[r] \in Admission
                    /\ Release(S)[r].record = admission[r].record
                    /\ Release(S)[r].generation = admission[r].generation
                    /\ Release(S)[r].probe = admission[r].probe
                    /\ Release(S)[r].released = (r \in S \/ admission[r].released)
  BY DEF Release, Admitted
<1>1. admission[r] \in Admission
  BY AdmittedType
<1>2. CASE r \in S
  <2>1. Release(S)[r] = [admission[r] EXCEPT !.released = TRUE]
    BY <1>2 DEF Release
  <2> QED
    BY <1>1, <1>2, <2>1 DEF Admission
<1>3. CASE r \notin S
  BY <1>1, <1>3 DEF Release, Admission
<1> QED
  BY <1>2, <1>3

LEMMA ReleaseAdmitted ==
    ASSUME TypeOK, NEW S, admission' = Release(S)
    PROVE  Admitted' = Admitted
  BY ReleaseKeeps, AdmissionIsOne DEF Admitted
-----------------------------------------------------------------------------
LEMMA StagesInit == Init => Stages
  BY DEF Init, Stages

LEMMA StagesStep == TypeOK /\ Stages /\ [Next]_vars => Stages'
<1> SUFFICES ASSUME TypeOK, Stages, [Next]_vars
             PROVE  Stages'
  OBVIOUS
<1> USE DEF requestVars, installVars, circuitVars
<1>1. ASSUME NEW c \in Client, Install(c) PROVE Stages'
  BY <1>1 DEF Install, Stages, Admitted
<1>2. ASSUME NEW i \in Id, ResetTimeout(i) PROVE Stages'
  BY <1>2 DEF ResetTimeout, Stages, Admitted
<1>3. ASSUME NEW S \in SUBSET Key, Reset(S) PROVE Stages'
  BY <1>3 DEF Reset, Stages, Admitted
<1>4. ASSUME NEW r \in Request, Start(r) \/ Bypass(r) \/ Reject(r) PROVE Stages'
  BY <1>4 DEF Start, Bypass, Reject, Stages, Admitted, TypeOK
<1>5. ASSUME NEW r \in Request, Admit(r) PROVE Stages'
  <2>1. admission'[r] # NoAdmission
    <3>1. admission'[r].record = latest' /\ latest' \in Id
      BY <1>5, LookupType DEF Admit, TypeOK, key
    <3>2. NoAdmission.record = None
      BY DEF NoAdmission
    <3> QED
      BY <3>1, <3>2, IdNat
  <2>2. /\ \A s \in Request \ {r} : admission'[s] = admission[s] /\ pc'[s] = pc[s]
        /\ pc[r] = "hooks" /\ pc'[r] = "running"
        /\ outcome' = outcome
    BY <1>5 DEF Admit, TypeOK
  <2> QED
    BY <2>1, <2>2 DEF Stages, Admitted
<1>6. ASSUME NEW r \in Request, SettleRemoved(r) \/ BeginClassify(r) PROVE Stages'
  BY <1>6 DEF SettleRemoved, BeginClassify, Ends, Stages, Admitted, TypeOK
<1>7. ASSUME NEW r \in Request, NEW rec, Settles(r, rec) PROVE Stages'
  <2>1. /\ pc[r] \in {"running", "finishing"} /\ pc' = [pc EXCEPT ![r] = "done"]
        /\ \A s \in Request \ {r} : outcome'[s] = outcome[s]
    <3>1. \/ outcome' = outcome
          \/ \E o \in {"success", "failure"} : outcome' = [outcome EXCEPT ![r] = o]
      BY <1>7, SettlesEffect
    <3>2. outcome \in [Request -> {"none", "success", "failure"}]
      BY DEF TypeOK
    <3>3. \A s \in Request \ {r} : outcome'[s] = outcome[s]
      BY <3>1, <3>2
    <3> QED
      BY <1>7, <3>3, SettlesEffect
  <2>2. admission' = Release({r})
    BY <1>7, SettlesEffect DEF Trims, GiveBack
  <2>3. \A s \in Request \ {r} : admission'[s] = admission[s]
    BY <2>2 DEF Release
  <2> QED
    BY <2>1, <2>3 DEF Stages, Admitted, TypeOK
<1>8. ASSUME NEW r \in Request, NEW counted \in BOOLEAN, Classified(r, counted)
      PROVE  Stages'
  BY <1>8 DEF Classified, Stages, Admitted, TypeOK
<1>9. ASSUME NEW c \in Client, Unuse(c) PROVE Stages'
  <2>1. /\ admission' = Release(Mine(c))
        /\ UNCHANGED <<pc, outcome>>
    BY <1>9 DEF Unuse, GiveBack
  <2>2. Admitted' = Admitted
    BY <2>1, ReleaseAdmitted
  <2> QED
    BY <2>1, <2>2 DEF Stages, Admitted
<1>10. CASE UNCHANGED vars
  BY <1>10 DEF vars, Stages, Admitted
<1> QED
  BY <1>1, <1>2, <1>3, <1>4, <1>5, <1>6, <1>7, <1>8, <1>9, <1>10, NextCases
-----------------------------------------------------------------------------
LEMMA PlacedInit == Init => Placed
  BY CircuitBreakerAssumption DEF CircuitBreakerAssumption, Init, Placed, Admitted, Present, None

(* What finishing callbacks, reset() and unuse() do to the Map.            *)
MapShrinks ==
    /\ \A k \in Key : circuits'[k] \in {circuits[k], None}
    /\ created' = created
    /\ latest' \in {latest, None}

LEMMA DeletedShrinks ==
    ASSUME TypeOK, NEW S, circuits' = Deleted(S), created' = created, latest' \in {latest, None}
    PROVE  MapShrinks
  BY DEF Deleted, MapShrinks

LEMMA ShrinkingPlaced ==
    ASSUME TypeOK, Placed, MapShrinks,
           \A r \in Admitted' : r \in Admitted /\ admission'[r].record = admission[r].record
    PROVE  Placed'
<1>1. created \in Nat /\ None <= created
  BY CircuitBreakerAssumption DEF TypeOK, CircuitBreakerAssumption, None
<1> QED
  BY <1>1 DEF Placed, MapShrinks, Present

LEMMA FinishShrinks ==
    ASSUME TypeOK, NEW rec, NEW S, Trims(rec, S)
    PROVE  MapShrinks
<1>1. PICK gone : circuits' = Deleted(gone)
  BY DEF Trims, GiveBack
<1> QED
  BY <1>1, DeletedShrinks DEF Trims, GiveBack

(* A hook adds at most the newest circuit to the Map, under its own key.   *)
LEMMA LookupPlaces ==
    ASSUME TypeOK, Placed, NEW k \in Key, Lookup(k)
    PROVE  /\ created \in Nat /\ created' \in Nat /\ created <= created'
           /\ latest' \in Id /\ latest' <= created'
           /\ circuits'[k] = latest'
           /\ \A l \in Key \ {k} : circuits'[l] \in {circuits[l], None}
           /\ circuits[k] # None => latest' = circuits[k] /\ UNCHANGED <<circuits, created>>
           /\ circuits[k] = None => latest' = created + 1 /\ created' = created + 1
<1>1. created \in Nat
  BY CircuitBreakerAssumption DEF TypeOK, CircuitBreakerAssumption
<1>2. latest' \in Id
  BY LookupType
<1>3. CASE circuits[k] # None
  <2>1. latest' = circuits[k] /\ UNCHANGED <<circuits, created>>
    BY <1>3 DEF Lookup
  <2> QED
    BY <1>1, <1>2, <1>3, <2>1 DEF Placed
<1>4. CASE circuits[k] = None
  <2>1. PICK gone : circuits' = [Deleted(gone) EXCEPT ![k] = created']
    BY <1>4 DEF Lookup
  <2>2. created' = created + 1 /\ latest' = created'
    BY <1>4 DEF Lookup
  <2>3. Deleted(gone) \in [Key -> Id \union {None}]
    BY MapType
  <2>4. \A l \in Key \ {k} : circuits'[l] \in {circuits[l], None}
    BY <2>1, <2>3 DEF Deleted
  <2>5. circuits'[k] = created'
    BY <2>1, <2>3
  <2> QED
    BY <1>1, <1>2, <1>4, <2>2, <2>4, <2>5
<1> QED
  BY <1>3, <1>4

LEMMA HookPlaced ==
    ASSUME TypeOK, Placed, NEW r \in Request, Reject(r) \/ Admit(r)
    PROVE  Placed'
<1> DEFINE k == key(r)
<1>1. k \in Key /\ Lookup(k)
  BY DEF Reject, Admit, key, TypeOK
<1> HIDE DEF k
<1>2. /\ created \in Nat /\ created' \in Nat /\ created <= created'
      /\ latest' \in Id /\ latest' <= created'
      /\ circuits'[k] = latest'
      /\ \A l \in Key \ {k} : circuits'[l] \in {circuits[l], None}
      /\ circuits[k] # None => latest' = circuits[k] /\ UNCHANGED <<circuits, created>>
      /\ circuits[k] = None => latest' = created + 1 /\ created' = created + 1
  BY <1>1, LookupPlaces
<1>3. \A l \in Key : circuits'[l] \in Nat /\ circuits[l] \in Nat /\ circuits[l] <= created
  BY <1>1, LookupType, IdNat DEF TypeOK, Placed
<1>4. \A l \in Key : circuits'[l] <= created'
  BY <1>2, <1>3, IdNat DEF None
<1>5. \A l, m \in Key : /\ circuits'[l] # None /\ circuits'[m] # None
                        /\ circuits'[l] = circuits'[m]
                        => l = m
  <2>1. CASE circuits[k] # None
    BY <1>1, <1>2, <2>1 DEF Placed, Present
  <2>2. CASE circuits[k] = None
    <3>1. circuits'[k] = created + 1
      BY <1>2, <2>2
    <3>2. \A l \in Key \ {k} : circuits'[l] # created + 1
      BY <1>2, <1>3, IdNat DEF None
    <3>3. \A l \in Key \ {k} : circuits'[l] # None => circuits'[l] = circuits[l]
      BY <1>2
    <3>4. \A l, m \in Key : circuits[l] # None /\ circuits[m] # None /\ circuits[l] = circuits[m] => l = m
      BY DEF Placed, Present
    <3> QED
      BY <3>1, <3>2, <3>3, <3>4
  <2> QED
    BY <2>1, <2>2
<1>6. \A s \in Admitted' : admission'[s].record <= created'
  <2>1. \A s \in Admitted : admission[s].record \in Nat /\ admission[s].record <= created'
    <3> SUFFICES ASSUME NEW s \in Admitted
                 PROVE  admission[s].record \in Nat /\ admission[s].record <= created'
      OBVIOUS
    <3>1. admission[s].record \in Nat
      BY AdmittedType, IdNat DEF Admission
    <3> QED
      BY <1>2, <3>1 DEF Placed
  <2>2. CASE Reject(r)
    BY <2>1, <2>2 DEF Reject, Admitted
  <2>3. CASE Admit(r)
    <3>1. admission'[r].record = latest' /\ \A s \in Request \ {r} : admission'[s] = admission[s]
      BY <2>3 DEF Admit, TypeOK
    <3> QED
      BY <1>2, <2>1, <3>1 DEF Admitted
  <2> QED
    BY <2>2, <2>3
<1> QED
  BY <1>2, <1>4, <1>5, <1>6 DEF Placed, Present

LEMMA ReleasedRecord ==
    ASSUME TypeOK, NEW S, admission' = Release(S)
    PROVE  \A r \in Admitted' : r \in Admitted /\ admission'[r].record = admission[r].record
  BY ReleaseAdmitted, ReleaseKeeps DEF Admitted

LEMMA PlacedStep == TypeOK /\ Placed /\ [Next]_vars => Placed'
<1> SUFFICES ASSUME TypeOK, Placed, [Next]_vars
             PROVE  Placed'
  OBVIOUS
<1> USE DEF requestVars, installVars, circuitVars
<1>1. ASSUME UNCHANGED <<admission, circuits, latest, created>> PROVE Placed'
  BY <1>1 DEF Placed, Admitted, Present
<1>2. ASSUME NEW S \in SUBSET Key, Reset(S) PROVE Placed'
  <2>1. MapShrinks
    BY <1>2, DeletedShrinks DEF Reset
  <2>2. admission' = admission
    BY <1>2 DEF Reset
  <2> QED
    BY <2>1, <2>2, ShrinkingPlaced DEF Admitted
<1>3. ASSUME NEW r \in Request, NEW rec, Settles(r, rec) PROVE Placed'
  <2>1. Trims(rec, {r})
    BY <1>3, SettlesEffect
  <2>2. MapShrinks
    BY <2>1, FinishShrinks
  <2> QED
    BY <2>1, <2>2, ReleasedRecord, ShrinkingPlaced DEF Trims, GiveBack
<1>4. ASSUME NEW c \in Client, Unuse(c) PROVE Placed'
  <2>1. admission' = Release(Mine(c))
    BY <1>4 DEF Unuse, GiveBack
  <2>2. MapShrinks
    <3>1. CASE \A d \in Client \ {c} : ~live[d]
      BY <1>4, <3>1, DeletedShrinks DEF Unuse
    <3>2. CASE ~\A d \in Client \ {c} : ~live[d]
      BY <1>4, <3>2, UnuseTrims, FinishShrinks
    <3> QED
      BY <3>1, <3>2
  <2> QED
    BY <2>1, <2>2, ReleasedRecord, ShrinkingPlaced
<1>5. ASSUME NEW r \in Request,
             \/ Start(r) \/ Bypass(r) \/ SettleRemoved(r) \/ BeginClassify(r)
             \/ \E counted \in BOOLEAN : Classified(r, counted)
      PROVE  UNCHANGED <<admission, circuits, latest, created>>
  BY <1>5 DEF Start, Bypass, SettleRemoved, BeginClassify, Classified
<1>6. ASSUME \/ \E c \in Client : Install(c)
             \/ \E i \in Id : ResetTimeout(i)
             \/ UNCHANGED vars
      PROVE  UNCHANGED <<admission, circuits, latest, created>>
  BY <1>6 DEF Install, ResetTimeout, vars
<1> QED
  BY <1>1, <1>2, <1>3, <1>4, <1>5, <1>6, NextCases, HookPlaced
-----------------------------------------------------------------------------
(* What the operators on circuits leave in their fields. *)

LEMMA TransitionEffect ==
    ASSUME NEW c \in Circuit, NEW state \in State
    PROVE  /\ Transition(c, state).state = state
           /\ Transition(c, state).successes = 0
           /\ Transition(c, state).probes = 0
           /\ Transition(c, state).activeRequests = c.activeRequests
<1> DEFINE n == IF state = "closed" THEN 0 ELSE c.failures
           half == [c EXCEPT !.state = state, !.successes = 0, !.probes = 0]
<1>1. Transition(c, state) = [half EXCEPT !.generation = c.generation + 1,
                                          !.failures = n, !.elapsed = FALSE]
  BY DEF Transition
<1>2. half \in Circuit
  BY DEF Circuit
<1>3. /\ half.state = state /\ half.successes = 0 /\ half.probes = 0
      /\ half.activeRequests = c.activeRequests
  BY DEF Circuit
<1> HIDE DEF half, n
<1> QED
  BY <1>1, <1>2, <1>3 DEF Circuit

(* A change of the circuits that takes no slot and gives none back, except *)
(* that a transition empties the slots.                                    *)
SlotsKept(rec) ==
    \A i \in Id :
        /\ rec[i].activeRequests = record[i].activeRequests
        /\ \/ rec[i].probes = 0
           \/ rec[i].probes = record[i].probes /\ rec[i].generation = record[i].generation

(* It counts no success either.                                            *)
SuccessesKept(rec, i) ==
    rec[i].state = "half-open" =>
        /\ record[i].state = "half-open"
        /\ rec[i].successes = record[i].successes
        /\ rec[i].generation = record[i].generation

LEMMA SucceededEffect ==
    ASSUME TypeOK, NEW r \in Admitted
    PROVE  /\ SlotsKept(Succeeded(r))
           /\ \A i \in Id :
                 \/ SuccessesKept(Succeeded(r), i)
                 \/ /\ i = admission[r].record /\ admission[r].probe
                    /\ record[i].state = "half-open"
                    /\ Succeeded(r)[i].generation = record[i].generation
                    /\ Succeeded(r)[i].successes = record[i].successes + 1
                    /\ ~(record[i].successes + 1 >= SuccessThreshold)
           /\ \A i \in Id : Succeeded(r)[i].state = "open" => record[i].state = "open"
<1> DEFINE j == admission[r].record
           c == [record[j] EXCEPT !.failures = 0]
           won == [c EXCEPT !.successes = @ + 1]
<1>1. j \in Id /\ record[j] \in Circuit /\ record \in [Id -> Circuit]
  BY AdmittedType DEF Admission, TypeOK
<1>2. /\ c \in Circuit /\ c.state = record[j].state /\ c.successes = record[j].successes
      /\ c.probes = record[j].probes /\ c.generation = record[j].generation
      /\ c.activeRequests = record[j].activeRequests
  BY <1>1 DEF Circuit
<1> HIDE DEF c
<1>3. /\ won \in Circuit /\ won.state = c.state /\ won.successes = c.successes + 1
      /\ won.probes = c.probes /\ won.generation = c.generation
      /\ won.activeRequests = c.activeRequests
  BY <1>2 DEF Circuit
<1> HIDE DEF won
<1>4. Succeeded(r) = [record EXCEPT ![j] =
                        IF ~(admission[r].probe /\ c.state = "half-open") THEN c
                        ELSE IF won.successes >= SuccessThreshold THEN Transition(won, "closed")
                        ELSE won]
  BY DEF Succeeded, c, won
<1>5. /\ Transition(won, "closed").state = "closed"
      /\ Transition(won, "closed").probes = 0
      /\ Transition(won, "closed").activeRequests = won.activeRequests
  BY <1>3, TransitionEffect DEF State
<1> HIDE DEF j
<1>6. \A i \in Id \ {j} : Succeeded(r)[i] = record[i]
  BY <1>1, <1>4
<1>7. /\ ~(admission[r].probe /\ c.state = "half-open") => Succeeded(r)[j] = c
      /\ admission[r].probe /\ c.state = "half-open" /\ won.successes >= SuccessThreshold
           => Succeeded(r)[j] = Transition(won, "closed")
      /\ admission[r].probe /\ c.state = "half-open" /\ ~(won.successes >= SuccessThreshold)
           => Succeeded(r)[j] = won
  BY <1>1, <1>4
<1>8. SlotsKept(Succeeded(r))
  <2>1. \A i \in Id \ {j} : /\ Succeeded(r)[i].activeRequests = record[i].activeRequests
                            /\ Succeeded(r)[i].probes = record[i].probes
                            /\ Succeeded(r)[i].generation = record[i].generation
    BY <1>6
  <2>2. /\ Succeeded(r)[j].activeRequests = record[j].activeRequests
        /\ \/ Succeeded(r)[j].probes = 0
           \/ /\ Succeeded(r)[j].probes = record[j].probes
              /\ Succeeded(r)[j].generation = record[j].generation
    BY <1>2, <1>3, <1>5, <1>7
  <2> QED
    BY <2>1, <2>2 DEF SlotsKept
<1>9. ASSUME NEW i \in Id
      PROVE  /\ \/ SuccessesKept(Succeeded(r), i)
                \/ /\ i = j /\ admission[r].probe
                   /\ record[i].state = "half-open"
                   /\ Succeeded(r)[i].generation = record[i].generation
                   /\ Succeeded(r)[i].successes = record[i].successes + 1
                   /\ ~(record[i].successes + 1 >= SuccessThreshold)
             /\ Succeeded(r)[i].state = "open" => record[i].state = "open"
  <2>1. CASE i # j
    BY <1>6, <2>1 DEF SuccessesKept
  <2>2. CASE i = j
    BY <1>2, <1>3, <1>5, <1>7, <2>2 DEF SuccessesKept
  <2> QED
    BY <2>1, <2>2
<1> QED
  BY <1>8, <1>9 DEF j

LEMMA FailedEffect ==
    ASSUME TypeOK, NEW r \in Admitted
    PROVE  /\ SlotsKept(Failed(r))
           /\ \A i \in Id : SuccessesKept(Failed(r), i)
           /\ \A i \in Id : i # admission[r].record => Failed(r)[i] = record[i]
<1> DEFINE j == admission[r].record
           c == record[j]
           more == [c EXCEPT !.failures = @ + 1]
<1>1. j \in Id /\ c \in Circuit /\ record \in [Id -> Circuit]
  BY AdmittedType DEF Admission, TypeOK
<1>2. /\ more \in Circuit /\ more.state = c.state /\ more.successes = c.successes
      /\ more.probes = c.probes /\ more.generation = c.generation
      /\ more.activeRequests = c.activeRequests
  BY <1>1 DEF Circuit
<1> HIDE DEF more
<1>3. Failed(r) = [record EXCEPT ![j] =
                     IF admission[r].probe /\ c.state = "half-open"
                     THEN Transition(c, "open")
                     ELSE IF c.state # "closed" THEN c
                     ELSE IF more.failures >= FailureThreshold THEN Transition(more, "open")
                     ELSE more]
  BY DEF Failed, more
<1>4. /\ Transition(c, "open").state = "open"
      /\ Transition(c, "open").probes = 0
      /\ Transition(c, "open").activeRequests = c.activeRequests
      /\ Transition(more, "open").state = "open"
      /\ Transition(more, "open").probes = 0
      /\ Transition(more, "open").activeRequests = c.activeRequests
  BY <1>1, <1>2, TransitionEffect DEF State
<1> HIDE DEF j
<1>5. \A i \in Id \ {j} : Failed(r)[i] = record[i]
  BY <1>1, <1>3
<1>6. Failed(r)[j] \in {c, more, Transition(c, "open"), Transition(more, "open")}
  BY <1>1, <1>3
<1>7. SlotsKept(Failed(r))
  <2>1. \A i \in Id \ {j} : /\ Failed(r)[i].activeRequests = record[i].activeRequests
                            /\ Failed(r)[i].probes = record[i].probes
                            /\ Failed(r)[i].generation = record[i].generation
    BY <1>5
  <2>2. /\ Failed(r)[j].activeRequests = record[j].activeRequests
        /\ \/ Failed(r)[j].probes = 0
           \/ /\ Failed(r)[j].probes = record[j].probes
              /\ Failed(r)[j].generation = record[j].generation
    BY <1>2, <1>4, <1>6
  <2> QED
    BY <2>1, <2>2 DEF SlotsKept
<1>8. ASSUME NEW i \in Id PROVE SuccessesKept(Failed(r), i)
  <2>1. CASE i # j
    BY <1>5, <2>1 DEF SuccessesKept
  <2>2. CASE i = j
    BY <1>2, <1>4, <1>6, <2>2 DEF SuccessesKept
  <2> QED
    BY <2>1, <2>2
<1> QED
  BY <1>5, <1>7, <1>8 DEF j

(* What a settled hook makes of the circuits.                              *)
LEMMA SettledEffect ==
    ASSUME TypeOK, Stages, NEW r \in Request, NEW rec, Settles(r, rec)
    PROVE  SlotsKept(rec)
<1>1. r \in Admitted
  BY SettlesType
<1>2. SlotsKept(record)
  BY DEF SlotsKept
<1> QED
  BY <1>1, <1>2, SucceededEffect, FailedEffect DEF Settles, ApplyFailure

(* Giving back touches the slots and the counter of requests only.         *)
LEMMA FinishedKeeps ==
    ASSUME TypeOK, NEW rec \in [Id -> Circuit], NEW S, NEW i \in Id
    PROVE  /\ Finished(rec, S)[i].state = rec[i].state
           /\ Finished(rec, S)[i].successes = rec[i].successes
           /\ Finished(rec, S)[i].generation = rec[i].generation
           /\ Finished(rec, S)[i].probes =
                 Minus(rec[i].probes,
                       Cardinality({r \in S \intersect InFlight(i) : admission[r].probe}))
           /\ Finished(rec, S)[i].activeRequests =
                 Minus(rec[i].activeRequests, Cardinality(S \intersect InFlight(i)))
<1> DEFINE gone == Cardinality(S \intersect InFlight(i))
           free == Cardinality({r \in S \intersect InFlight(i) : admission[r].probe})
           p == Minus(rec[i].probes, free)
           a == Minus(rec[i].activeRequests, gone)
<1>1. Finished(rec, S)[i] = [rec[i] EXCEPT !.probes = p, !.activeRequests = a]
  BY DEF Finished
<1> HIDE DEF p, a
<1>2. /\ Finished(rec, S)[i].state = rec[i].state
      /\ Finished(rec, S)[i].successes = rec[i].successes
      /\ Finished(rec, S)[i].generation = rec[i].generation
      /\ Finished(rec, S)[i].probes = p
      /\ Finished(rec, S)[i].activeRequests = a
  <2>1. rec[i] \in Circuit
    OBVIOUS
  <2> QED
    BY <1>1, <2>1 DEF Circuit
<1> QED
  BY <1>2 DEF p, a
LEMMA FinishedPhase ==
    ASSUME TypeOK, NEW rec \in [Id -> Circuit], NEW S, NEW i \in Id,
           record' = Finished(rec, S)
    PROVE  /\ record'[i].state = rec[i].state
           /\ record'[i].successes = rec[i].successes
           /\ record'[i].generation = rec[i].generation
<1>1. PICK p, a : Finished(rec, S)[i] = [rec[i] EXCEPT !.probes = p, !.activeRequests = a]
  BY DEF Finished
<1>2. rec[i] \in Circuit
  OBVIOUS
<1> QED
  BY <1>1, <1>2 DEF Circuit
-----------------------------------------------------------------------------
(* Counting what is given back. *)

LEMMA InFlightReleased ==
    ASSUME TypeOK, NEW S, admission' = Release(S), NEW i
    PROVE  InFlight(i)' = InFlight(i) \ S
<1>1. \A r \in Request : r \in Admitted' <=> r \in Admitted
  BY ReleaseAdmitted
<1>2. \A r \in Admitted : /\ admission'[r].record = admission[r].record
                          /\ admission'[r].released = (r \in S \/ admission[r].released)
  BY ReleaseKeeps DEF Admitted
<1>3. \A r : r \in Admitted' <=> r \in Admitted
  BY <1>1 DEF Admitted
<1> QED
  BY <1>2, <1>3 DEF InFlight

LEMMA FewerLeft ==
    ASSUME NEW T \in SUBSET Request, NEW S, NEW n \in Nat, n <= Cardinality(T),
           NEW G \in SUBSET Request, T \intersect S \subseteq G
    PROVE  Minus(n, Cardinality(G)) <= Cardinality(T \ S)
<1>1. Cardinality(T \ S) = Cardinality(T) - Cardinality(T \intersect S)
  BY RequestsFinite, FS_Difference
<1>2. Cardinality(T \intersect S) <= Cardinality(G)
  BY RequestsFinite, FS_Subset
<1>3. Cardinality(T) \in Nat /\ Cardinality(G) \in Nat
      /\ Cardinality(T \ S) \in Nat /\ Cardinality(T \intersect S) \in Nat
  <2>1. T \ S \in SUBSET Request /\ T \intersect S \in SUBSET Request
    OBVIOUS
  <2> QED
    BY <2>1, RequestsFinite
<1> QED
  BY <1>1, <1>2, <1>3 DEF Minus

LEMMA ExactlyLeft ==
    ASSUME NEW T \in SUBSET Request, NEW S
    PROVE  Minus(Cardinality(T), Cardinality(S \intersect T)) = Cardinality(T \ S)
<1> DEFINE all  == Cardinality(T)
           gone == Cardinality(S \intersect T)
           left == Cardinality(T \ S)
<1>1. left = all - gone
  <2>1. S \intersect T = T \intersect S
    OBVIOUS
  <2>2. Cardinality(T \ S) = Cardinality(T) - Cardinality(T \intersect S)
    BY RequestsFinite, FS_Difference
  <2> QED
    BY <2>1, <2>2
<1>2. all \in Nat /\ gone \in Nat /\ left \in Nat
  <2>1. T \ S \in SUBSET Request /\ S \intersect T \in SUBSET Request
    OBVIOUS
  <2> QED
    BY <2>1, RequestsFinite
<1> HIDE DEF all, gone, left
<1>3. Minus(all, gone) = left
  BY <1>1, <1>2 DEF Minus
<1> QED
  BY <1>3 DEF all, gone, left

(* finishAdmission for any set of requests keeps the counts exact.         *)
LEMMA FinishedConserves ==
    ASSUME TypeOK, NEW rec \in [Id -> Circuit], NEW S, SlotsKept(rec),
           record' = Finished(rec, S), admission' = Release(S), created' = created,
           ActiveRequestsConserved, NoPhantomProbe
    PROVE  ActiveRequestsConserved' /\ NoPhantomProbe'
<1> SUFFICES ASSUME NEW i \in 1..created
             PROVE  /\ record'[i].activeRequests = Cardinality(InFlight(i)')
                    /\ record'[i].probes <= Cardinality(Probing(i)')
  BY DEF ActiveRequestsConserved, NoPhantomProbe
<1>1. i \in Id /\ rec[i] \in Circuit
  <2>1. i \in Id
    BY CircuitBreakerAssumption DEF TypeOK, CircuitBreakerAssumption, Id
  <2> QED
    BY <2>1
<1>2. /\ record'[i].generation = rec[i].generation
      /\ record'[i].probes =
            Minus(rec[i].probes,
                  Cardinality({r \in S \intersect InFlight(i) : admission[r].probe}))
      /\ record'[i].activeRequests =
            Minus(rec[i].activeRequests, Cardinality(S \intersect InFlight(i)))
  BY <1>1, FinishedKeeps
<1>3. InFlight(i)' = InFlight(i) \ S
  BY InFlightReleased
<1>4. InFlight(i) \in SUBSET Request /\ Probing(i) \in SUBSET InFlight(i)
  BY InFlightRequests
<1>5. record'[i].activeRequests = Cardinality(InFlight(i)')
  <2>1. rec[i].activeRequests = Cardinality(InFlight(i))
    BY <1>1 DEF SlotsKept, ActiveRequestsConserved
  <2>2. record'[i].activeRequests =
          Minus(Cardinality(InFlight(i)), Cardinality(S \intersect InFlight(i)))
    BY <1>2, <2>1
  <2>3. record'[i].activeRequests = Cardinality(InFlight(i) \ S)
    BY <1>4, <2>2, ExactlyLeft
  <2> QED
    BY <1>3, <2>3
<1>6. record'[i].probes <= Cardinality(Probing(i)')
  <2> DEFINE G == {r \in S \intersect InFlight(i) : admission[r].probe}
  <2>1. G \in SUBSET Request /\ Cardinality(G) \in Nat
    BY <1>4, RequestsFinite
  <2>2. CASE rec[i].probes = 0
    <3>1. record'[i].probes = 0
      BY <1>2, <2>1, <2>2 DEF Minus
    <3>2. Probing(i)' \in SUBSET Request
      BY <1>3, <1>4 DEF Probing
    <3> QED
      BY <3>1, <3>2, RequestsFinite
  <2>3. CASE rec[i].probes = record[i].probes /\ rec[i].generation = record[i].generation
    <3>1. Probing(i)' = Probing(i) \ S
      <4>1. \A r \in InFlight(i) : /\ admission'[r].probe = admission[r].probe
                                   /\ admission'[r].generation = admission[r].generation
        BY ReleaseKeeps DEF InFlight, Admitted
      <4>2. record'[i].generation = record[i].generation
        BY <1>2, <2>3
      <4>3. Probing(i)' = {r \in InFlight(i)' : /\ admission'[r].probe
                                                /\ admission'[r].generation = record'[i].generation}
        BY DEF Probing
      <4> QED
        BY <1>3, <4>1, <4>2, <4>3 DEF Probing
    <3>2. Probing(i) \intersect S \subseteq G
      BY <1>4 DEF Probing
    <3>3. rec[i].probes \in Nat /\ rec[i].probes <= Cardinality(Probing(i))
      BY <1>1, <2>3 DEF NoPhantomProbe, Circuit
    <3>4. Probing(i) \in SUBSET Request
      BY <1>4
    <3>5. record'[i].probes = Minus(rec[i].probes, Cardinality(G))
      BY <1>2
    <3> HIDE DEF G
    <3>6. Minus(rec[i].probes, Cardinality(G)) <= Cardinality(Probing(i) \ S)
      BY <2>1, <3>2, <3>3, <3>4, FewerLeft
    <3> QED
      BY <3>1, <3>5, <3>6
  <2> QED
    BY <1>1, <2>2, <2>3 DEF SlotsKept
<1> QED
  BY <1>5, <1>6
-----------------------------------------------------------------------------
(* The slots of the circuit a hook found, as the hook sees it.             *)
SeenProbing(k, i) == {s \in InFlight(i) : /\ admission[s].probe
                                          /\ admission[s].generation = Current(k).generation}

LEMMA CurrentSlots ==
    ASSUME TypeOK, Placed, ActiveRequestsConserved, NoPhantomProbe,
           NEW k \in Key, Lookup(k)
    PROVE  /\ Current(k).activeRequests = Cardinality(InFlight(latest'))
           /\ Current(k).probes <= Cardinality(SeenProbing(k, latest'))
<1>1. SeenProbing(k, latest') \in SUBSET Request
  BY InFlightRequests DEF SeenProbing
<1>2. Cardinality(SeenProbing(k, latest')) \in Nat
  BY <1>1, RequestsFinite
<1>3. CASE circuits[k] = None
  <2>1. Current(k) = NewCircuit
    BY <1>3 DEF Current, NewCircuit
  <2>2. latest' = created + 1 /\ created \in Nat
    BY <1>3, LookupPlaces
  <2>3. InFlight(latest') = {}
    <3> SUFFICES ASSUME NEW s \in Admitted, admission[s].record = created + 1
                 PROVE  FALSE
      BY <2>2 DEF InFlight
    <3> QED
      BY <2>2 DEF Placed
  <2> QED
    BY <1>2, <2>1, <2>3, FS_EmptySet DEF NewCircuit
<1>4. CASE circuits[k] # None
  <2> DEFINE i == circuits[k]
  <2>1. i = latest' /\ i \in Id /\ i \in 1..created /\ record[i] \in Circuit
    BY <1>4, LookupPlaces, CircuitBreakerAssumption
    DEF TypeOK, Placed, CircuitBreakerAssumption, Id
  <2>2. /\ record[i].activeRequests = Cardinality(InFlight(i))
        /\ record[i].probes <= Cardinality(Probing(i))
    BY <2>1 DEF ActiveRequestsConserved, NoPhantomProbe
  <2>3. CASE Current(k) = record[i]
    <3>1. SeenProbing(k, i) = Probing(i)
      BY <2>3 DEF SeenProbing, Probing
    <3> QED
      BY <2>1, <2>2, <2>3, <3>1
  <2>4. CASE Current(k) = Transition(record[i], "half-open")
    <3>1. Current(k).activeRequests = record[i].activeRequests /\ Current(k).probes = 0
      BY <2>1, <2>4, TransitionEffect DEF State
    <3> QED
      BY <1>2, <2>1, <2>2, <3>1
  <2> QED
    BY <1>4, <2>3, <2>4 DEF Current
<1> QED
  BY <1>3, <1>4

LEMMA RejectConserves ==
    ASSUME TypeOK, Placed, ActiveRequestsConserved, NoPhantomProbe,
           NEW r \in Request, Reject(r)
    PROVE  ActiveRequestsConserved' /\ NoPhantomProbe'
<1> DEFINE k == key(r)
<1>1. k \in Key /\ Lookup(k) /\ record' = [record EXCEPT ![latest'] = Current(k)]
      /\ admission' = admission
  BY DEF Reject, key, TypeOK
<1> HIDE DEF k
<1>2. \A i : InFlight(i)' = InFlight(i)
  BY <1>1 DEF InFlight, Admitted
<1>3. /\ created \in Nat /\ latest' \in Id
      /\ (created' = created \/ (created' = created + 1 /\ latest' = created + 1))
  BY <1>1, LookupPlaces
<1> SUFFICES ASSUME NEW i \in 1..created'
             PROVE  /\ record'[i].activeRequests = Cardinality(InFlight(i)')
                    /\ record'[i].probes <= Cardinality(Probing(i)')
  BY DEF ActiveRequestsConserved, NoPhantomProbe
<1>4. CASE i = latest'
  <2>1. record'[i] = Current(k)
    BY <1>1, <1>3, <1>4 DEF TypeOK
  <2>2. Probing(i)' = SeenProbing(k, i)
    BY <1>1, <1>2, <2>1 DEF Probing, SeenProbing
  <2> QED
    BY <1>1, <1>2, <1>4, <2>1, <2>2, CurrentSlots
<1>5. CASE i # latest'
  <2>1. i \in 1..created
    BY <1>3, <1>5
  <2>2. record'[i] = record[i]
    BY <1>1, <1>5, <2>1, CircuitBreakerAssumption DEF TypeOK, Id, CircuitBreakerAssumption
  <2>3. Probing(i)' = Probing(i)
    BY <1>1, <1>2, <2>2 DEF Probing
  <2> QED
    BY <1>2, <2>1, <2>2, <2>3 DEF ActiveRequestsConserved, NoPhantomProbe
<1> QED
  BY <1>4, <1>5

(* What admitting a request changes, field by field.                       *)
LEMMA AdmitEffect ==
    ASSUME TypeOK, Stages, Placed, NEW r \in Request, Admit(r)
    PROVE  LET c == Current(key(r)) IN
           /\ key(r) \in Key /\ Lookup(key(r)) /\ c \in Circuit /\ ~Rejects(c)
           /\ r \notin Admitted /\ r \in Admitted'
           /\ \A s \in Request \ {r} : admission'[s] = admission[s]
           /\ admission'[r].record = latest' /\ admission'[r].generation = c.generation
           /\ admission'[r].probe = (c.state = "half-open") /\ ~admission'[r].released
           /\ \A i \in Id \ {latest'} : record'[i] = record[i]
           /\ record'[latest'].state = c.state
           /\ record'[latest'].successes = c.successes
           /\ record'[latest'].generation = c.generation
           /\ record'[latest'].activeRequests = c.activeRequests + 1
           /\ record'[latest'].probes = IF c.state = "half-open" THEN c.probes + 1 ELSE c.probes
<1> DEFINE c == Current(key(r))
           used == IF c.state = "half-open" THEN c.probes + 1 ELSE c.probes
           taken == [c EXCEPT !.probes = used, !.activeRequests = @ + 1]
           entry == [record |-> latest', generation |-> c.generation,
                     probe |-> c.state = "half-open", released |-> FALSE]
<1>1. key(r) \in Key /\ Lookup(key(r)) /\ ~Rejects(c)
  BY DEF Admit, key, TypeOK
<1>2. c \in Circuit
  BY <1>1, CurrentType
<1>3. record' = [record EXCEPT ![latest'] = taken] /\ admission' = [admission EXCEPT ![r] = entry]
  BY DEF Admit
<1>4. latest' \in Id
  BY <1>1, LookupPlaces
<1>5. r \notin Admitted
  BY DEF Admit, Stages, Admitted
<1> HIDE DEF c
<1>6. /\ taken.state = c.state /\ taken.successes = c.successes
      /\ taken.generation = c.generation
      /\ taken.activeRequests = c.activeRequests + 1 /\ taken.probes = used
  <2> HIDE DEF used
  <2> QED
    BY <1>2 DEF Circuit
<1>7. /\ admission'[r] = entry
      /\ \A s \in Request \ {r} : admission'[s] = admission[s]
  BY <1>3 DEF TypeOK
<1>8. record'[latest'] = taken /\ \A i \in Id \ {latest'} : record'[i] = record[i]
  BY <1>3, <1>4 DEF TypeOK
<1>9. r \in Admitted'
  <2>1. admission'[r].record \in Id /\ NoAdmission.record = None
    BY <1>4, <1>7 DEF NoAdmission
  <2> QED
    BY <2>1, IdNat DEF Admitted
<1> HIDE DEF taken
<1> QED
  BY <1>1, <1>2, <1>5, <1>6, <1>7, <1>8, <1>9 DEF c

LEMMA AdmitConserves ==
    ASSUME TypeOK, Stages, Placed, ActiveRequestsConserved, NoPhantomProbe,
           NEW r \in Request, Admit(r)
    PROVE  ActiveRequestsConserved' /\ NoPhantomProbe'
<1> DEFINE k == key(r)
           c == Current(k)
<1>1. /\ k \in Key /\ Lookup(k) /\ c \in Circuit
      /\ r \notin Admitted /\ r \in Admitted'
      /\ \A s \in Request \ {r} : admission'[s] = admission[s]
      /\ admission'[r].record = latest' /\ admission'[r].generation = c.generation
      /\ admission'[r].probe = (c.state = "half-open") /\ ~admission'[r].released
      /\ \A i \in Id \ {latest'} : record'[i] = record[i]
      /\ record'[latest'].generation = c.generation
      /\ record'[latest'].activeRequests = c.activeRequests + 1
      /\ record'[latest'].probes = IF c.state = "half-open" THEN c.probes + 1 ELSE c.probes
  BY AdmitEffect
<1> HIDE DEF k, c
<1>2. /\ created \in Nat /\ latest' \in Id
      /\ (created' = created \/ (created' = created + 1 /\ latest' = created + 1))
  BY <1>1, LookupPlaces
<1>3. \A i : InFlight(i)' = IF i = latest' THEN InFlight(i) \union {r} ELSE InFlight(i)
  BY <1>1 DEF InFlight, Admitted
<1>4. r \notin InFlight(latest')
  BY <1>1 DEF InFlight
<1> SUFFICES ASSUME NEW i \in 1..created'
             PROVE  /\ record'[i].activeRequests = Cardinality(InFlight(i)')
                    /\ record'[i].probes <= Cardinality(Probing(i)')
  BY DEF ActiveRequestsConserved, NoPhantomProbe
<1>5. CASE i = latest'
  <2> DEFINE P == SeenProbing(k, i)
             n == Cardinality(P)
             m == Cardinality(InFlight(i))
  <2>1. P \in SUBSET Request /\ n \in Nat /\ IsFiniteSet(P)
        /\ m \in Nat /\ IsFiniteSet(InFlight(i))
    <3>1. InFlight(i) \in SUBSET Request /\ P \in SUBSET Request
      BY InFlightRequests DEF SeenProbing
    <3> QED
      BY <3>1, RequestsFinite
  <2>2. c.activeRequests = m /\ c.probes <= n
    BY <1>1, <1>5, CurrentSlots DEF c
  <2>3. Cardinality(InFlight(i)') = m + 1
    BY <1>3, <1>4, <1>5, <2>1, FS_AddElement
  <2>4. Probing(i)' = IF c.state = "half-open" THEN P \union {r} ELSE P
    <3>1. \A s \in InFlight(i) : admission'[s] = admission[s]
      BY <1>1, <1>4, <1>5 DEF InFlight, Admitted
    <3>2. Probing(i)' = {s \in InFlight(i) \union {r} :
                            admission'[s].probe /\ admission'[s].generation = c.generation}
      BY <1>1, <1>3, <1>5 DEF Probing
    <3>3. P = {s \in InFlight(i) : admission[s].probe /\ admission[s].generation = c.generation}
      BY DEF SeenProbing, c
    <3> HIDE DEF P
    <3> QED
      BY <1>1, <3>1, <3>2, <3>3
  <2>5. Cardinality(Probing(i)') = IF c.state = "half-open" THEN n + 1 ELSE n
    <3>1. r \notin P
      BY <1>4, <1>5 DEF SeenProbing
    <3> HIDE DEF P
    <3> QED
      BY <2>1, <2>4, <3>1, FS_AddElement
  <2>6. c.probes \in Nat /\ c.activeRequests \in Nat
    BY <1>1 DEF Circuit
  <2> HIDE DEF n, m, P
  <2> QED
    BY <1>1, <1>5, <2>1, <2>2, <2>3, <2>5, <2>6
<1>6. CASE i # latest'
  <2>1. i \in 1..created /\ i \in Id
    BY <1>2, <1>6, CircuitBreakerAssumption DEF TypeOK, Id, CircuitBreakerAssumption
  <2>2. record'[i] = record[i]
    BY <1>1, <1>6, <2>1
  <2>3. InFlight(i)' = InFlight(i) /\ r \notin InFlight(i)
    BY <1>1, <1>3, <1>6 DEF InFlight
  <2>4. Probing(i)' = Probing(i)
    BY <1>1, <2>2, <2>3 DEF Probing, InFlight, Admitted
  <2> QED
    BY <2>1, <2>2, <2>3, <2>4 DEF ActiveRequestsConserved, NoPhantomProbe
<1> QED
  BY <1>5, <1>6

LEMMA ConservedInit == Init => ActiveRequestsConserved /\ NoPhantomProbe
<1> SUFFICES ASSUME Init PROVE ActiveRequestsConserved /\ NoPhantomProbe
  OBVIOUS
<1>1. 1..created = {}
  BY DEF Init
<1> QED
  BY <1>1 DEF ActiveRequestsConserved, NoPhantomProbe

LEMMA ConservedStep ==
    TypeOK /\ Stages /\ Placed /\ ActiveRequestsConserved /\ NoPhantomProbe /\ [Next]_vars
    => ActiveRequestsConserved' /\ NoPhantomProbe'
<1> SUFFICES ASSUME TypeOK, Stages, Placed, ActiveRequestsConserved, NoPhantomProbe, [Next]_vars
             PROVE  ActiveRequestsConserved' /\ NoPhantomProbe'
  OBVIOUS
<1> USE DEF requestVars, installVars, circuitVars
<1>1. record \in [Id -> Circuit] /\ SlotsKept(record)
  BY DEF TypeOK, SlotsKept
<1>2. ASSUME NEW r \in Request, NEW rec, Settles(r, rec)
      PROVE  ActiveRequestsConserved' /\ NoPhantomProbe'
  <2>1. rec \in [Id -> Circuit] /\ SlotsKept(rec) /\ Trims(rec, {r})
    BY <1>2, SettlesType, SettlesEffect, SettledEffect
  <2> QED
    BY <2>1, FinishedConserves DEF Trims, GiveBack
<1>3. ASSUME NEW c \in Client, Unuse(c)
      PROVE  ActiveRequestsConserved' /\ NoPhantomProbe'
  <2>1. record' = Finished(record, Mine(c)) /\ admission' = Release(Mine(c)) /\ created' = created
    BY <1>3 DEF Unuse, GiveBack
  <2> QED
    BY <1>1, <2>1, FinishedConserves
<1>4. ASSUME admission' = admission, created' = created,
             \A i \in Id : /\ record'[i].activeRequests = record[i].activeRequests
                           /\ \/ record'[i].probes = 0
                              \/ /\ record'[i].probes = record[i].probes
                                 /\ record'[i].generation = record[i].generation
      PROVE  ActiveRequestsConserved' /\ NoPhantomProbe'
  <2> SUFFICES ASSUME NEW i \in 1..created
               PROVE  /\ record'[i].activeRequests = Cardinality(InFlight(i)')
                      /\ record'[i].probes <= Cardinality(Probing(i)')
    BY <1>4 DEF ActiveRequestsConserved, NoPhantomProbe
  <2>1. i \in Id
    BY CircuitBreakerAssumption DEF TypeOK, CircuitBreakerAssumption, Id
  <2>2. InFlight(i)' = InFlight(i)
    BY <1>4 DEF InFlight, Admitted
  <2>3. Cardinality(Probing(i)') \in Nat
    <3>1. Probing(i)' \in SUBSET Request
      BY <2>2, InFlightRequests DEF Probing
    <3> QED
      BY <3>1, RequestsFinite
  <2>4. record'[i].generation = record[i].generation => Probing(i)' = Probing(i)
    BY <1>4, <2>2 DEF Probing
  <2> QED
    BY <1>4, <2>1, <2>2, <2>3, <2>4 DEF ActiveRequestsConserved, NoPhantomProbe
<1>5. ASSUME NEW r \in Request, NEW counted \in BOOLEAN, Classified(r, counted)
      PROVE  ActiveRequestsConserved' /\ NoPhantomProbe'
  <2>1. r \in Admitted
    BY <1>5 DEF Classified, Stages
  <2>2. record' = ApplyFailure(r, counted) /\ admission' = admission /\ created' = created
    BY <1>5 DEF Classified
  <2>3. SlotsKept(ApplyFailure(r, counted))
    BY <1>1, <2>1, FailedEffect DEF ApplyFailure
  <2> QED
    BY <1>4, <2>2, <2>3 DEF SlotsKept
<1>6. ASSUME NEW i \in Id, ResetTimeout(i)
      PROVE  ActiveRequestsConserved' /\ NoPhantomProbe'
  <2>1. record[i] \in Circuit /\ record' = [record EXCEPT ![i].elapsed = TRUE]
    BY <1>6 DEF ResetTimeout, TypeOK
  <2>2. \A j \in Id : /\ record'[j].activeRequests = record[j].activeRequests
                      /\ record'[j].probes = record[j].probes
                      /\ record'[j].generation = record[j].generation
    BY <1>1, <2>1 DEF Circuit
  <2> QED
    BY <1>4, <1>6, <2>2 DEF ResetTimeout
<1>7. ASSUME UNCHANGED <<admission, record, created>>
      PROVE  ActiveRequestsConserved' /\ NoPhantomProbe'
  BY <1>4, <1>7
<1>8. ASSUME NEW r \in Request, Start(r) \/ Bypass(r) \/ SettleRemoved(r) \/ BeginClassify(r)
      PROVE  UNCHANGED <<admission, record, created>>
  BY <1>8 DEF Start, Bypass, SettleRemoved, BeginClassify
<1>9. ASSUME \/ \E c \in Client : Install(c)
             \/ \E S \in SUBSET Key : Reset(S)
             \/ UNCHANGED vars
      PROVE  UNCHANGED <<admission, record, created>>
  BY <1>9 DEF Install, Reset, vars
<1> QED
  BY <1>2, <1>3, <1>5, <1>6, <1>7, <1>8, <1>9, NextCases, AdmitConserves, RejectConserves
-----------------------------------------------------------------------------
(* The successful probes of the present phase of circuit i.                *)
Earned(i) == {r \in Admitted : /\ admission[r].record = i
                               /\ admission[r].probe
                               /\ admission[r].generation = record[i].generation
                               /\ outcome[r] = "success"}

EarnedEnough(i) ==
    record[i].state = "half-open" =>
        /\ record[i].successes < SuccessThreshold
        /\ record[i].successes <= Cardinality(Earned(i))

(* Admissions are never rewritten, and a success stays one.                *)
AdmissionsGrow ==
    \A r \in Admitted :
        /\ r \in Admitted'
        /\ admission'[r].record = admission[r].record
        /\ admission'[r].generation = admission[r].generation
        /\ admission'[r].probe = admission[r].probe
        /\ outcome[r] = "success" => outcome'[r] = "success"

LEMMA EarnedGrows ==
    ASSUME TypeOK, AdmissionsGrow, NEW i, record'[i].generation = record[i].generation
    PROVE  /\ Earned(i) \subseteq Earned(i)'
           /\ Earned(i)' \in SUBSET Request
           /\ Cardinality(Earned(i)) <= Cardinality(Earned(i)')
           /\ Cardinality(Earned(i)) \in Nat /\ Cardinality(Earned(i)') \in Nat
<1>1. Earned(i) \in SUBSET Request /\ Earned(i)' \in SUBSET Request
  BY DEF Earned, Admitted
<1>2. Earned(i) \subseteq Earned(i)'
  BY DEF Earned, AdmissionsGrow
<1> QED
  BY <1>1, <1>2, RequestsFinite, FS_Subset

LEMMA KeptEarned ==
    ASSUME TypeOK, AdmissionsGrow, NEW i \in Id, EarnedEnough(i),
           record'[i].state = "half-open" =>
              /\ record[i].state = "half-open"
              /\ record'[i].successes = record[i].successes
              /\ record'[i].generation = record[i].generation
    PROVE  EarnedEnough(i)'
<1> SUFFICES ASSUME record'[i].state = "half-open"
             PROVE  /\ record'[i].successes < SuccessThreshold
                    /\ record'[i].successes <= Cardinality(Earned(i)')
  BY DEF EarnedEnough
<1>1. Cardinality(Earned(i)) <= Cardinality(Earned(i)')
      /\ Cardinality(Earned(i)) \in Nat /\ Cardinality(Earned(i)') \in Nat
  BY EarnedGrows
<1>2. record[i].successes \in Nat
  BY DEF TypeOK, Circuit
<1> QED
  BY <1>1, <1>2 DEF EarnedEnough

LEMMA FreshPhase ==
    ASSUME NEW i, record'[i].successes = 0
    PROVE  EarnedEnough(i)'
<1>1. Earned(i)' \in SUBSET Request
  BY DEF Earned, Admitted
<1>2. Cardinality(Earned(i)') \in Nat
  BY <1>1, RequestsFinite
<1> QED
  BY <1>2, CircuitBreakerAssumption DEF EarnedEnough, CircuitBreakerAssumption

LEMMA ReleaseGrows ==
    ASSUME TypeOK, NEW S, admission' = Release(S),
           \A s \in Request : outcome[s] = "success" => outcome'[s] = "success"
    PROVE  AdmissionsGrow
  BY ReleaseAdmitted, ReleaseKeeps DEF AdmissionsGrow, Admitted

LEMMA EarnedByPhase == SuccessesEarned <=> \A i \in 1..created : EarnedEnough(i)
  BY DEF SuccessesEarned, EarnedEnough, Earned

LEMMA CreatedIds == TypeOK => 1..created \subseteq Id
  BY CircuitBreakerAssumption DEF TypeOK, CircuitBreakerAssumption, Id

(* Giving back counts no success and forgets none.                         *)
LEMMA FinishedEarned ==
    ASSUME TypeOK, NEW rec \in [Id -> Circuit], NEW S, NEW i \in Id, EarnedEnough(i),
           SuccessesKept(rec, i), record' = Finished(rec, S), admission' = Release(S),
           \A s \in Request : outcome[s] = "success" => outcome'[s] = "success"
    PROVE  EarnedEnough(i)'
<1>1. /\ record'[i].state = rec[i].state
      /\ record'[i].successes = rec[i].successes
      /\ record'[i].generation = rec[i].generation
  BY FinishedPhase
<1> QED
  BY <1>1, ReleaseGrows, KeptEarned DEF SuccessesKept

(* A probe that reports a success is not counted yet.                      *)
LEMMA SuccessEarned ==
    ASSUME TypeOK, Stages, NEW r \in Request, SettleSuccess(r), NEW i \in Id, EarnedEnough(i),
           i = admission[r].record, admission[r].probe, record[i].state = "half-open",
           Succeeded(r)[i].generation = record[i].generation,
           Succeeded(r)[i].successes = record[i].successes + 1,
           ~(record[i].successes + 1 >= SuccessThreshold)
    PROVE  EarnedEnough(i)'
<1>1. /\ record' = Finished(Succeeded(r), {r}) /\ admission' = Release({r})
      /\ outcome' = [outcome EXCEPT ![r] = "success"]
      /\ pc[r] = "running" /\ Relevant(r)
  BY DEF SettleSuccess, Ends, Finish, GiveBack
<1>2. r \in Admitted /\ outcome[r] = "none"
  BY <1>1 DEF Stages
<1>3. Succeeded(r) \in [Id -> Circuit]
  BY <1>2, SettledType
<1>4. /\ record'[i].successes = record[i].successes + 1
      /\ record'[i].generation = record[i].generation
  BY <1>1, <1>3, FinishedPhase
<1>5. AdmissionsGrow /\ outcome'[r] = "success"
  <2>1. outcome'[r] = "success" /\ \A s \in Request \ {r} : outcome'[s] = outcome[s]
    BY <1>1 DEF TypeOK
  <2> QED
    BY <1>1, <1>2, <2>1, ReleaseGrows
<1>6. admission[r].generation = record[i].generation
  BY <1>1 DEF Relevant
<1>7. r \in Earned(i)' /\ r \notin Earned(i)
  BY <1>2, <1>4, <1>5, <1>6 DEF Earned, AdmissionsGrow
<1>8. Earned(i) \union {r} \subseteq Earned(i)' /\ Earned(i)' \in SUBSET Request
  BY <1>4, <1>5, <1>7, EarnedGrows
<1>9. /\ Cardinality(Earned(i) \union {r}) <= Cardinality(Earned(i)')
      /\ Cardinality(Earned(i) \union {r}) = Cardinality(Earned(i)) + 1
      /\ Cardinality(Earned(i)) \in Nat /\ Cardinality(Earned(i)') \in Nat
  <2>1. Earned(i) \in SUBSET Request
    BY DEF Earned, Admitted
  <2> QED
    BY <1>7, <1>8, <2>1, RequestsFinite, FS_Subset, FS_AddElement
<1>10. record[i].successes \in Nat
  BY DEF TypeOK, Circuit
<1> QED
  BY <1>4, <1>9, <1>10, CircuitBreakerAssumption DEF EarnedEnough, CircuitBreakerAssumption

LEMMA SettlesEarned ==
    ASSUME TypeOK, Stages, NEW r \in Request, NEW rec, Settles(r, rec),
           NEW i \in Id, EarnedEnough(i)
    PROVE  EarnedEnough(i)'
<1>1. r \in Admitted /\ rec \in [Id -> Circuit] /\ Trims(rec, {r})
  BY SettlesType, SettlesEffect
<1>2. outcome[r] # "success"
  BY SettlesEffect DEF Stages
<1>3. \A s \in Request : outcome[s] = "success" => outcome'[s] = "success"
  <2>1. \/ outcome' = outcome
        \/ \E o \in {"success", "failure"} : outcome' = [outcome EXCEPT ![r] = o]
    BY SettlesEffect
  <2>2. outcome \in [Request -> {"none", "success", "failure"}]
    BY DEF TypeOK
  <2> QED
    BY <1>2, <2>1, <2>2
<1>4. CASE SuccessesKept(rec, i)
  BY <1>1, <1>3, <1>4, FinishedEarned DEF Trims, GiveBack
<1>5. CASE ~SuccessesKept(rec, i)
  <2>1. SuccessesKept(record, i) /\ SuccessesKept(Failed(r), i)
    BY <1>1, FailedEffect DEF SuccessesKept
  <2>2. SettleSuccess(r) /\ rec = Succeeded(r)
    BY <1>5, <2>1 DEF Settles, ApplyFailure
  <2> QED
    BY <1>1, <1>5, <2>2, SucceededEffect, SuccessEarned
<1> QED
  BY <1>4, <1>5

LEMMA AdmitGrows ==
    ASSUME TypeOK, Stages, Placed, NEW r \in Request, Admit(r)
    PROVE  AdmissionsGrow
<1>1. r \notin Admitted /\ \A s \in Request \ {r} : admission'[s] = admission[s]
  BY AdmitEffect
<1>2. outcome' = outcome
  BY DEF Admit
<1> QED
  BY <1>1, <1>2 DEF AdmissionsGrow, Admitted

LEMMA HookEarned ==
    ASSUME TypeOK, Stages, Placed, SuccessesEarned,
           NEW r \in Request, Reject(r) \/ Admit(r)
    PROVE  SuccessesEarned'
<1> DEFINE k == key(r)
           c == Current(k)
<1>1. k \in Key /\ Lookup(k)
  BY DEF Reject, Admit, key, TypeOK
<1>2. /\ created \in Nat /\ latest' \in Id
      /\ (created' = created \/ (created' = created + 1 /\ latest' = created + 1))
  BY <1>1, LookupPlaces
<1>3. AdmissionsGrow
  BY AdmitGrows DEF Reject, AdmissionsGrow, Admitted
<1>4. /\ record'[latest'].state = c.state
      /\ record'[latest'].successes = c.successes
      /\ record'[latest'].generation = c.generation
      /\ \A i \in Id \ {latest'} : record'[i] = record[i]
  <2>1. CASE Reject(r)
    <3>1. record' = [record EXCEPT ![latest'] = c] /\ record \in [Id -> Circuit]
      BY <2>1 DEF Reject, TypeOK
    <3> HIDE DEF c
    <3> QED
      BY <1>2, <3>1
  <2>2. CASE Admit(r)
    BY <2>2, AdmitEffect
  <2> QED
    BY <2>1, <2>2
<1> SUFFICES ASSUME NEW i \in 1..created'
             PROVE  EarnedEnough(i)'
  BY EarnedByPhase DEF SuccessesEarned, EarnedEnough, Earned
<1>5. CASE i # latest'
  <2>1. i \in 1..created /\ i \in Id
    BY <1>2, <1>5, CreatedIds
  <2>2. EarnedEnough(i) /\ record'[i] = record[i]
    BY <1>4, <1>5, <2>1, EarnedByPhase
  <2> QED
    BY <1>3, <2>1, <2>2, KeptEarned
<1>6. CASE i = latest'
  <2>1. CASE c.successes = 0
    BY <1>4, <1>6, <2>1, FreshPhase
  <2>2. CASE c.successes # 0
    <3>1. circuits[k] # None
      BY <2>2 DEF Current, NewCircuit
    <3>2. i = circuits[k] /\ i \in 1..created /\ i \in Id
      <4>1. i = circuits[k] /\ created' = created
        BY <1>1, <1>6, <3>1, LookupPlaces
      <4> QED
        BY <4>1, CreatedIds
    <3>3. c # Transition(record[i], "half-open")
      <4>1. record[i] \in Circuit
        BY <3>2 DEF TypeOK
      <4> QED
        BY <2>2, <4>1, TransitionEffect DEF State
    <3>4. c = record[i]
      BY <3>1, <3>2, <3>3 DEF Current
    <3>5. EarnedEnough(i)
      BY <3>2, EarnedByPhase
    <3> HIDE DEF c, k
    <3> QED
      BY <1>3, <1>4, <1>6, <3>2, <3>4, <3>5, KeptEarned
  <2> QED
    BY <2>1, <2>2
<1> QED
  BY <1>5, <1>6

LEMMA SuccessesInit == Init => SuccessesEarned
<1> SUFFICES ASSUME Init PROVE SuccessesEarned
  OBVIOUS
<1>1. 1..created = {}
  BY DEF Init
<1> QED
  BY <1>1 DEF SuccessesEarned

LEMMA SuccessesStep ==
    TypeOK /\ Stages /\ Placed /\ SuccessesEarned /\ [Next]_vars => SuccessesEarned'
<1> SUFFICES ASSUME TypeOK, Stages, Placed, SuccessesEarned, [Next]_vars
             PROVE  SuccessesEarned'
  OBVIOUS
<1> USE DEF requestVars, installVars, circuitVars
<1>1. \A i \in 1..created : i \in Id /\ EarnedEnough(i)
  BY CreatedIds, EarnedByPhase
<1>2. ASSUME created' = created, \A i \in 1..created : EarnedEnough(i)'
      PROVE  SuccessesEarned'
  BY <1>2 DEF SuccessesEarned, EarnedEnough, Earned
<1>3. ASSUME created' = created, AdmissionsGrow,
             \A i \in Id : record'[i].state = "half-open" =>
                /\ record[i].state = "half-open"
                /\ record'[i].successes = record[i].successes
                /\ record'[i].generation = record[i].generation
      PROVE  SuccessesEarned'
  BY <1>1, <1>2, <1>3, KeptEarned
<1>4. ASSUME NEW r \in Request, NEW rec, Settles(r, rec)
      PROVE  SuccessesEarned'
  <2>1. created' = created
    BY <1>4, SettlesEffect DEF Trims, GiveBack
  <2> QED
    BY <1>1, <1>2, <1>4, <2>1, SettlesEarned
<1>5. ASSUME NEW c \in Client, Unuse(c)
      PROVE  SuccessesEarned'
  <2>1. record' = Finished(record, Mine(c)) /\ admission' = Release(Mine(c)) /\ created' = created
        /\ outcome' = outcome
    BY <1>5 DEF Unuse, GiveBack
  <2>2. record \in [Id -> Circuit] /\ \A i \in Id : SuccessesKept(record, i)
    BY DEF TypeOK, SuccessesKept
  <2> QED
    BY <1>1, <1>2, <2>1, <2>2, FinishedEarned
<1>6. ASSUME NEW r \in Request, NEW counted \in BOOLEAN, Classified(r, counted)
      PROVE  SuccessesEarned'
  <2>1. r \in Admitted
    BY <1>6 DEF Classified, Stages
  <2>2. record' = ApplyFailure(r, counted) /\ UNCHANGED <<admission, outcome, created>>
    BY <1>6 DEF Classified
  <2>3. \A i \in Id : SuccessesKept(ApplyFailure(r, counted), i)
    BY <2>1, FailedEffect DEF ApplyFailure, SuccessesKept
  <2>4. AdmissionsGrow
    BY <2>2 DEF AdmissionsGrow, Admitted
  <2> QED
    BY <1>3, <2>2, <2>3, <2>4 DEF SuccessesKept
<1>7. ASSUME NEW i \in Id, ResetTimeout(i)
      PROVE  SuccessesEarned'
  <2>1. record[i] \in Circuit /\ record' = [record EXCEPT ![i].elapsed = TRUE]
        /\ record \in [Id -> Circuit]
    BY <1>7 DEF ResetTimeout, TypeOK
  <2>2. \A j \in Id : /\ record'[j].state = record[j].state
                      /\ record'[j].successes = record[j].successes
                      /\ record'[j].generation = record[j].generation
    BY <2>1 DEF Circuit
  <2>3. AdmissionsGrow /\ created' = created
    BY <1>7 DEF ResetTimeout, AdmissionsGrow, Admitted
  <2> QED
    BY <1>3, <2>2, <2>3
<1>8. ASSUME NEW r \in Request, SettleRemoved(r) \/ BeginClassify(r)
      PROVE  SuccessesEarned'
  <2>1. PICK o \in {"success", "failure"} : Ends(r, o)
    BY <1>8 DEF SettleRemoved, BeginClassify
  <2>2. UNCHANGED <<admission, record, created>>
    BY <1>8 DEF SettleRemoved, BeginClassify
  <2>3. outcome[r] = "none" /\ \A s \in Request \ {r} : outcome'[s] = outcome[s]
    BY <2>1 DEF Ends, Stages, TypeOK
  <2>4. AdmissionsGrow
    BY <2>2, <2>3 DEF AdmissionsGrow, Admitted
  <2> QED
    BY <1>3, <2>2, <2>4
<1>9. ASSUME UNCHANGED <<admission, outcome, record, created>>
      PROVE  SuccessesEarned'
  <2>1. AdmissionsGrow
    BY <1>9 DEF AdmissionsGrow, Admitted
  <2> QED
    BY <1>3, <1>9, <2>1
<1>10. ASSUME NEW r \in Request, Start(r) \/ Bypass(r)
       PROVE  UNCHANGED <<admission, outcome, record, created>>
  BY <1>10 DEF Start, Bypass
<1>11. ASSUME \/ \E c \in Client : Install(c)
              \/ \E S \in SUBSET Key : Reset(S)
              \/ UNCHANGED vars
       PROVE  UNCHANGED <<admission, outcome, record, created>>
  BY <1>11 DEF Install, Reset, vars
<1> QED
  BY <1>4, <1>5, <1>6, <1>7, <1>8, <1>9, <1>10, <1>11, NextCases, HookEarned
-----------------------------------------------------------------------------
(* The Map as an LRU. *)

LEMMA DeletedPresent ==
    ASSUME TypeOK, NEW S, circuits' = Deleted(S)
    PROVE  /\ Present' = Present \ S
           /\ \A k \in Present' : circuits'[k] = circuits[k]
  BY DEF Deleted, Present

(* trimCircuits leaves no more than the limit, or no idle circuit.         *)
LEMMA TrimBounds ==
    ASSUME NEW idle \in SUBSET Present, NEW limit \in Nat, NEW gone \in MakesRoom(idle, limit)
    PROVE  /\ gone \subseteq idle
           /\ Cardinality(Present \ gone) <= limit \/ gone = idle
<1> DEFINE p == Cardinality(Present)
           m == Cardinality(idle)
           g == Cardinality(gone)
           left == Cardinality(Present \ gone)
           excess == p - limit
           n == IF excess < 0 THEN 0 ELSE IF excess < m THEN excess ELSE m
<1>1. gone \subseteq idle /\ g = n
  BY DEF MakesRoom
<1>2. /\ Present \in SUBSET Key /\ idle \in SUBSET Key /\ gone \in SUBSET Key
      /\ Present \ gone \in SUBSET Key
  BY <1>1 DEF Present
<1>3. p \in Nat /\ m \in Nat /\ g \in Nat /\ left \in Nat /\ IsFiniteSet(idle) /\ IsFiniteSet(Present)
  BY <1>2, KeysFinite
<1>4. left = p - g
  <2>1. Present \intersect gone = gone
    BY <1>1
  <2>2. Cardinality(Present \ gone) = Cardinality(Present) - Cardinality(Present \intersect gone)
    BY <1>3, FS_Difference
  <2> QED
    BY <2>1, <2>2
<1>5. m = g => gone = idle
  BY <1>1, <1>3, FS_Subset
<1> HIDE DEF p, m, g, left
<1>6. left <= limit \/ m = g
  BY <1>1, <1>3, <1>4
<1> QED
  BY <1>1, <1>5, <1>6 DEF left

LEMMA RetentionKept ==
    ASSUME TypeOK, RetentionBounded, Present' \subseteq Present,
           \A k \in Present' : /\ circuits'[k] = circuits[k]
                               /\ record'[circuits[k]].activeRequests = 0
                                   => record[circuits[k]].activeRequests = 0
    PROVE  RetentionBounded'
<1>1. Cardinality(Present') <= Cardinality(Present)
      /\ Cardinality(Present) \in Nat /\ Cardinality(Present') \in Nat
  <2>1. Present \in SUBSET Key /\ Present' \in SUBSET Present /\ Present' \in SUBSET Key
    BY DEF Present
  <2> QED
    BY <2>1, KeysFinite, FS_Subset
<1>2. Cardinality(Present') > MaxCircuits => Cardinality(Present) > MaxCircuits
  BY <1>1, CircuitBreakerAssumption DEF CircuitBreakerAssumption
<1>3. {k \in Present' : record'[circuits'[k]].activeRequests = 0} \subseteq Idle(record)
  BY DEF Idle
<1> QED
  BY <1>2, <1>3 DEF RetentionBounded, Idle

(* Deletions keep the newest entry the newest.                             *)
LEMMA NewestKept ==
    ASSUME TypeOK, LatestIsNewest, NEW S, circuits' = Deleted(S), older' = OlderWithout(S),
           latest' \in {latest, None}
    PROVE  LatestIsNewest'
<1>1. Present' = Present \ S /\ \A k \in Present' : circuits'[k] = circuits[k]
  BY DeletedPresent
<1> SUFFICES ASSUME NEW k \in Present', circuits'[k] = latest'
             PROVE  older'[k] = Present' \ {k}
  BY DEF LatestIsNewest
<1>2. k \in Present /\ k \notin S /\ circuits[k] # None
  BY <1>1 DEF Present
<1>3. older[k] = Present \ {k}
  BY <1>1, <1>2 DEF LatestIsNewest
<1>4. older'[k] = older[k] \ S
  BY <1>2 DEF OlderWithout, Present
<1> QED
  BY <1>1, <1>3, <1>4

LEMMA FinishLru ==
    ASSUME TypeOK, LruKept, NEW rec, NEW S, Trims(rec, S)
    PROVE  LruKept'
<1>1. PICK gone \in MakesRoom(Idle(record'), MaxCircuits) :
         circuits' = Deleted(gone) /\ older' = OlderWithout(gone)
  <2>1. PICK gone \in MakesRoom(Idle(Finished(rec, S)), MaxCircuits) :
           circuits' = Deleted(gone) /\ older' = OlderWithout(gone)
    BY DEF Trims, GiveBack
  <2>2. record' = Finished(rec, S)
    BY DEF Trims, GiveBack
  <2>3. gone \in MakesRoom(Idle(record'), MaxCircuits)
    BY <2>1, <2>2
  <2> QED
    BY <2>1, <2>3
<1>2. LatestIsNewest'
  BY <1>1, NewestKept DEF Trims, GiveBack, LruKept
<1>3. Present' = Present \ gone /\ \A k \in Present' : circuits'[k] = circuits[k]
  BY <1>1, DeletedPresent
<1>4. Cardinality(Present \ gone) <= MaxCircuits \/ gone = Idle(record')
  BY <1>1, TrimBounds, CircuitBreakerAssumption DEF Idle, CircuitBreakerAssumption
<1>5. CASE Cardinality(Present \ gone) <= MaxCircuits
  <2>1. Cardinality(Present \ gone) \in Nat
    <3>1. Present \ gone \in SUBSET Key
      BY DEF Present
    <3> QED
      BY <3>1, KeysFinite
  <2>2. ~(Cardinality(Present') > MaxCircuits)
    BY <1>3, <1>5, <2>1, CircuitBreakerAssumption DEF CircuitBreakerAssumption
  <2> QED
    BY <1>2, <2>2 DEF LruKept, RetentionBounded
<1>6. CASE gone = Idle(record')
  <2>1. {k \in Present' : record'[circuits'[k]].activeRequests = 0} = {}
    BY <1>3, <1>6 DEF Idle
  <2>2. Idle(record)' = {}
    BY <2>1 DEF Idle
  <2> QED
    BY <1>2, <2>2 DEF LruKept, RetentionBounded
<1> QED
  BY <1>4, <1>5, <1>6

(* A hook moves the circuit it uses to the end of the Map, and makes room  *)
(* for a new one among the idle.                                           *)
LEMMA LookupLru ==
    ASSUME TypeOK, Placed, Placed', LruKept, NEW k \in Key, Lookup(k),
           record' \in [Id -> Circuit],
           \A i \in Id \ {latest'} : record'[i] = record[i],
           record'[latest'].activeRequests = 0 =>
              circuits[k] # None /\ record[latest'].activeRequests = 0
    PROVE  LruKept'
<1>1. CASE circuits[k] # None
  <2>1. /\ older' = IF circuits[k] = latest THEN older ELSE MovedLast(k)
        /\ latest' = circuits[k] /\ latest' \in Id
        /\ UNCHANGED <<circuits, created>>
    BY <1>1, LookupPlaces DEF Lookup
  <2>2. Present' = Present /\ k \in Present
    BY <1>1, <2>1 DEF Present
  <2>3. RetentionBounded'
    <3>1. \A l \in Present' : circuits'[l] = circuits[l] /\ circuits[l] \in Id
      BY <2>1 DEF Present, TypeOK
    <3> QED
      BY <2>1, <2>2, <3>1, RetentionKept DEF LruKept
  <2>4. LatestIsNewest'
    <3> SUFFICES ASSUME NEW l \in Present, circuits[l] = circuits[k]
                 PROVE  older'[l] = Present \ {l}
      BY <2>1, <2>2 DEF LatestIsNewest
    <3>1. l = k
      BY <2>2 DEF Placed
    <3>2. CASE circuits[k] = latest
      BY <2>1, <2>2, <3>1, <3>2 DEF LruKept, LatestIsNewest
    <3>3. CASE circuits[k] # latest
      <4>1. older' = [OlderWithout({k}) EXCEPT ![k] = Present \ {k}]
        BY <2>1, <3>3 DEF MovedLast
      <4> QED
        BY <3>1, <4>1, MapType
    <3> QED
      BY <3>2, <3>3
  <2> QED
    BY <2>3, <2>4 DEF LruKept
<1>2. CASE circuits[k] = None
  <2>1. PICK gone \in Evicted(Idle(record), MaxCircuits - 1) :
           /\ circuits' = [Deleted(gone) EXCEPT ![k] = created']
           /\ older' = [OlderWithout(gone) EXCEPT ![k] = Present \ gone]
    BY <1>2 DEF Lookup
  <2>2. latest' = created' /\ latest' \in Id /\ created' = created + 1 /\ created \in Nat
        /\ circuits'[k] = latest'
    BY <1>2, LookupPlaces
  <2>3. k \notin Present /\ latest' # None
    BY <1>2, <2>2, IdNat DEF Present
  <2>4. Present' = (Present \ gone) \union {k}
    <3>1. Deleted(gone) \in [Key -> Id \union {None}]
      BY MapType
    <3>2. \A l \in Key : circuits'[l] = IF l = k THEN latest' ELSE Deleted(gone)[l]
      BY <2>1, <2>2, <3>1
    <3> QED
      BY <2>3, <3>2 DEF Present, Deleted
  <2>5. LatestIsNewest'
    <3> SUFFICES ASSUME NEW l \in Present', circuits'[l] = latest'
                 PROVE  older'[l] = Present' \ {l}
      BY DEF LatestIsNewest
    <3>1. l = k
      <4>1. k \in Present'
        BY <2>4
      <4> QED
        BY <2>2, <4>1 DEF Placed
    <3>2. older'[k] = Present \ gone
      BY <2>1, MapType
    <3> QED
      BY <2>3, <2>4, <3>1, <3>2
  <2>6. RetentionBounded'
    <3>1. MaxCircuits - 1 \in Nat /\ MaxCircuits \in Nat
      BY CircuitBreakerAssumption DEF CircuitBreakerAssumption
    <3>2. Cardinality(Present \ gone) <= MaxCircuits - 1 \/ gone = Idle(record)
      BY <2>1, <3>1, TrimBounds DEF Idle, Evicted
    <3>3. CASE Cardinality(Present \ gone) <= MaxCircuits - 1
      <4>1. Present \ gone \in SUBSET Key
        BY DEF Present
      <4>2. Cardinality(Present \ gone) \in Nat /\ IsFiniteSet(Present \ gone)
        BY <4>1, KeysFinite
      <4>3. Cardinality(Present') = Cardinality(Present \ gone) + 1
        BY <2>3, <2>4, <4>2, FS_AddElement
      <4>4. ~(Cardinality(Present') > MaxCircuits)
        BY <3>1, <3>3, <4>2, <4>3
      <4> QED
        BY <4>4 DEF RetentionBounded
    <3>4. CASE gone = Idle(record)
      <4>1. \A l \in Present' : record'[circuits'[l]].activeRequests # 0
        <5> SUFFICES ASSUME NEW l \in Present', l # k
                     PROVE  record'[circuits'[l]].activeRequests # 0
          BY <1>2, <2>2
        <5>1. l \in Present /\ l \notin Idle(record)
          BY <2>4, <3>4
        <5>2. circuits'[l] = circuits[l] /\ circuits[l] \in Id /\ circuits[l] # latest'
          <6>1. circuits'[l] \in {circuits[l], None} /\ circuits'[l] # None
            BY LookupPlaces DEF Present
          <6>2. circuits[l] \in Id
            BY <5>1 DEF Present, TypeOK
          <6>3. circuits[l] <= created
            BY <5>1 DEF Placed, Present
          <6> QED
            BY <2>2, <6>1, <6>2, <6>3, IdNat
        <5> QED
          BY <5>1, <5>2 DEF Idle
      <4>2. Idle(record)' = {}
        BY <4>1 DEF Idle
      <4> QED
        BY <4>2 DEF RetentionBounded
    <3> QED
      BY <3>2, <3>3, <3>4
  <2> QED
    BY <2>5, <2>6 DEF LruKept
<1> QED
  BY <1>1, <1>2

(* A hook that turns a request away found a circuit, and left its count.   *)
LEMMA RejectLru ==
    ASSUME TypeOK, Placed, Placed', LruKept, NEW r \in Request, Reject(r)
    PROVE  LruKept'
<1> DEFINE k == key(r)
           c == Current(k)
<1>1. k \in Key /\ Lookup(k) /\ Rejects(c) /\ record' = [record EXCEPT ![latest'] = c]
  BY DEF Reject, key, TypeOK
<1>2. c \in Circuit /\ record \in [Id -> Circuit] /\ latest' \in Id
  BY <1>1, CurrentType, LookupPlaces DEF TypeOK
<1>3. circuits[k] # None
  <2> SUFFICES ASSUME circuits[k] = None PROVE FALSE
    OBVIOUS
  <2>1. c.state = "closed"
    BY DEF Current, NewCircuit
  <2> QED
    BY <1>1, <2>1 DEF Rejects
<1>4. latest' = circuits[k]
  BY <1>1, <1>3, LookupPlaces
<1>5. c.activeRequests = record[latest'].activeRequests
  <2>1. record[latest'] \in Circuit
    BY <1>2
  <2>2. c \in {record[latest'], Transition(record[latest'], "half-open")}
    BY <1>3, <1>4 DEF Current
  <2> HIDE DEF c
  <2> QED
    BY <2>1, <2>2, TransitionEffect DEF State
<1> HIDE DEF k, c
<1>6. record' \in [Id -> Circuit] /\ record'[latest'] = c
      /\ \A i \in Id \ {latest'} : record'[i] = record[i]
  BY <1>1, <1>2
<1> QED
  BY <1>1, <1>3, <1>5, <1>6, LookupLru

LEMMA AdmitLru ==
    ASSUME TypeOK, TypeOK', Stages, Placed, Placed', LruKept, NEW r \in Request, Admit(r)
    PROVE  LruKept'
<1>1. /\ key(r) \in Key /\ Lookup(key(r)) /\ Current(key(r)) \in Circuit
      /\ \A i \in Id \ {latest'} : record'[i] = record[i]
      /\ record'[latest'].activeRequests = Current(key(r)).activeRequests + 1
  BY AdmitEffect
<1>2. record' \in [Id -> Circuit]
  BY DEF TypeOK
<1>3. Current(key(r)).activeRequests \in Nat
  BY <1>1 DEF Circuit
<1>4. record'[latest'].activeRequests # 0
  BY <1>1, <1>3
<1> QED
  BY <1>1, <1>2, <1>4, LookupLru

LEMMA LruInit == Init => LruKept
<1> SUFFICES ASSUME Init PROVE LruKept
  OBVIOUS
<1>1. Present = {}
  BY DEF Init, Present
<1> QED
  BY <1>1 DEF LruKept, RetentionBounded, LatestIsNewest, Idle

LEMMA LruStep ==
    TypeOK /\ TypeOK' /\ Stages /\ Placed /\ Placed' /\ LruKept /\ [Next]_vars => LruKept'
<1> SUFFICES ASSUME TypeOK, TypeOK', Stages, Placed, Placed', LruKept, [Next]_vars
             PROVE  LruKept'
  OBVIOUS
<1> USE DEF requestVars, installVars, circuitVars
<1>1. ASSUME UNCHANGED <<circuits, older, latest>>,
             \A i \in Id : record'[i].activeRequests = record[i].activeRequests
      PROVE  LruKept'
  <2>1. Present' = Present /\ \A k \in Present : circuits'[k] = circuits[k] /\ circuits[k] \in Id
    BY <1>1 DEF Present, TypeOK
  <2>2. RetentionBounded'
    BY <1>1, <2>1, RetentionKept DEF LruKept
  <2>3. LatestIsNewest'
    BY <1>1, <2>1 DEF LruKept, LatestIsNewest
  <2> QED
    BY <2>2, <2>3 DEF LruKept
<1>2. ASSUME NEW S \in SUBSET Key, Reset(S) PROVE LruKept'
  <2>1. /\ circuits' = Deleted(S) /\ older' = OlderWithout(S) /\ latest' \in {latest, None}
        /\ record' = record
    BY <1>2 DEF Reset
  <2>2. Present' = Present \ S /\ \A k \in Present' : circuits'[k] = circuits[k]
    BY <2>1, DeletedPresent
  <2>3. RetentionBounded'
    BY <2>1, <2>2, RetentionKept DEF LruKept
  <2>4. LatestIsNewest'
    BY <2>1, NewestKept DEF LruKept
  <2> QED
    BY <2>3, <2>4 DEF LruKept
<1>3. ASSUME NEW r \in Request, NEW rec, Settles(r, rec) PROVE LruKept'
  BY <1>3, SettlesEffect, FinishLru
<1>4. ASSUME NEW c \in Client, Unuse(c) PROVE LruKept'
  <2>1. CASE \A d \in Client \ {c} : ~live[d]
    <3>1. circuits' = Deleted(Key)
      BY <1>4, <2>1 DEF Unuse
    <3>2. Present' = {}
      BY <3>1, DeletedPresent DEF Present
    <3>3. RetentionBounded' /\ LatestIsNewest'
      BY <3>2 DEF RetentionBounded, LatestIsNewest, Idle
    <3> QED
      BY <3>3 DEF LruKept
  <2>2. CASE ~\A d \in Client \ {c} : ~live[d]
    BY <1>4, <2>2, UnuseTrims, FinishLru
  <2> QED
    BY <2>1, <2>2
<1>5. ASSUME NEW r \in Request, NEW counted \in BOOLEAN, Classified(r, counted)
      PROVE  LruKept'
  <2>1. r \in Admitted
    BY <1>5 DEF Classified, Stages
  <2>2. record' = ApplyFailure(r, counted) /\ UNCHANGED <<circuits, older, latest>>
    BY <1>5 DEF Classified
  <2>3. \A i \in Id : record'[i].activeRequests = record[i].activeRequests
    BY <2>1, <2>2, FailedEffect DEF ApplyFailure, SlotsKept
  <2> QED
    BY <1>1, <2>2, <2>3
<1>6. ASSUME NEW i \in Id, ResetTimeout(i) PROVE LruKept'
  <2>1. record[i] \in Circuit /\ record' = [record EXCEPT ![i].elapsed = TRUE]
        /\ record \in [Id -> Circuit]
    BY <1>6 DEF ResetTimeout, TypeOK
  <2>2. \A j \in Id : record'[j].activeRequests = record[j].activeRequests
    BY <2>1 DEF Circuit
  <2> QED
    BY <1>1, <1>6, <2>2 DEF ResetTimeout
<1>7. ASSUME UNCHANGED circuitVars PROVE LruKept'
  BY <1>1, <1>7
<1>8. ASSUME NEW r \in Request, Start(r) \/ Bypass(r) \/ SettleRemoved(r) \/ BeginClassify(r)
      PROVE  UNCHANGED circuitVars
  BY <1>8 DEF Start, Bypass, SettleRemoved, BeginClassify
<1>9. ASSUME (\E c \in Client : Install(c)) \/ UNCHANGED vars
      PROVE  UNCHANGED circuitVars
  BY <1>9 DEF Install, vars
<1> QED
  BY <1>2, <1>3, <1>4, <1>5, <1>6, <1>7, <1>8, <1>9, NextCases, RejectLru, AdmitLru
-----------------------------------------------------------------------------
(* The variables keep their types, and where a request stands decides      *)
(* whether it has an admission and an outcome.                             *)
THEOREM TypeCorrect == Spec => [](TypeOK /\ Stages)
<1>1. Init => TypeOK /\ Stages
  BY TypeInit, StagesInit
<1>2. TypeOK /\ Stages /\ [Next]_vars => (TypeOK /\ Stages)'
  BY TypeStep, StagesStep
<1> QED
  BY <1>1, <1>2, PTL DEF Spec

LEMMA CircuitInvariant == Spec => [](TypeOK /\ CircuitInv)
<1>1. Init => TypeOK /\ CircuitInv
  BY TypeInit, StagesInit, PlacedInit, ConservedInit, SuccessesInit, LruInit DEF CircuitInv
<1>2. TypeOK /\ CircuitInv /\ [Next]_vars => (TypeOK /\ CircuitInv)'
  BY TypeStep, StagesStep, PlacedStep, ConservedStep, SuccessesStep, LruStep DEF CircuitInv
<1> QED
  BY <1>1, <1>2, PTL DEF Spec

(* activeRequests counts the admissions in flight exactly, and the probe   *)
(* slots that are taken are no more than the probes of the phase, whatever *)
(* is removed, reset, evicted or classified late (lines 189, 337-350).     *)
THEOREM SlotsAreConserved == Spec => []SlotsConserved
<1>1. TypeOK /\ CircuitInv => SlotsConserved
  BY DEF CircuitInv, SlotsConserved
<1> QED
  BY <1>1, CircuitInvariant, PTL

(* A half-open circuit counts only the successes of its own probes, and is *)
(* half-open only below the threshold (lines 229-238).                     *)
THEOREM SuccessesAreEarned == Spec => []SuccessesEarned
<1>1. TypeOK /\ CircuitInv => SuccessesEarned
  BY DEF CircuitInv
<1> QED
  BY <1>1, CircuitInvariant, PTL

(* The Map outgrows maxCircuits only while all of it is in use, and its    *)
(* latest circuit is its newest entry (lines 165-169, 413-453).            *)
THEOREM MapIsLru == Spec => []LruKept
<1>1. TypeOK /\ CircuitInv => LruKept
  BY DEF CircuitInv
<1> QED
  BY <1>1, CircuitInvariant, PTL
-----------------------------------------------------------------------------
(* Nobody is in flight on a circuit whose counter says so.                 *)
LEMMA NobodyInFlight ==
    ASSUME ActiveRequestsConserved, NEW i \in 1..created, record[i].activeRequests = 0
    PROVE  InFlight(i) = {}
<1>1. InFlight(i) \in SUBSET Request /\ Cardinality(InFlight(i)) = 0
  BY InFlightRequests DEF ActiveRequestsConserved
<1> QED
  BY <1>1, RequestsFinite, FS_EmptySet

(* What finishAdmission drops from the Map was idle after it gave back.    *)
LEMMA FinishDropsIdle ==
    ASSUME TypeOK, Placed, ActiveRequestsConserved', NEW rec, NEW S, Trims(rec, S),
           NEW k \in Key, NEW i \in Id, circuits[k] = i, circuits'[k] # i
    PROVE  InFlight(i)' = {}
<1>1. PICK gone \in MakesRoom(Idle(Finished(rec, S)), MaxCircuits) : circuits' = Deleted(gone)
  BY DEF Trims, GiveBack
<1>2. k \in gone /\ gone \subseteq Idle(Finished(rec, S))
  BY <1>1 DEF Deleted, MakesRoom
<1>3. record'[i].activeRequests = 0
  BY <1>2 DEF Trims, GiveBack, Idle
<1>4. i \in 1..created'
  <2>1. created' = created /\ i <= created
    BY DEF Trims, GiveBack, Placed
  <2> QED
    BY <2>1, IdNat, CircuitBreakerAssumption DEF TypeOK, Id, CircuitBreakerAssumption
<1> SUFFICES Cardinality(InFlight(i)') = 0
  <2>1. InFlight(i)' \in SUBSET Request
    BY DEF InFlight, Admitted
  <2> QED
    BY <2>1, RequestsFinite, FS_EmptySet
<1> QED
  BY <1>3, <1>4 DEF ActiveRequestsConserved

(* What a hook drops from the Map to make room is idle, and stays it.      *)
LEMMA LookupDropsIdle ==
    ASSUME TypeOK, Placed, ActiveRequestsConserved, NEW l \in Key, Lookup(l),
           NEW k \in Key, NEW i \in Id, circuits[k] = i, circuits'[k] # i
    PROVE  InFlight(i) = {} /\ i # latest'
<1>1. circuits[l] = None /\ latest' = created + 1 /\ created \in Nat
  BY LookupPlaces DEF Lookup
<1>2. PICK gone \in Evicted(Idle(record), MaxCircuits - 1) :
         circuits' = [Deleted(gone) EXCEPT ![l] = created']
  BY <1>1 DEF Lookup
<1>3. i # None /\ i <= created
  BY IdNat DEF Placed
<1>4. k # l
  BY <1>1, <1>3
<1>5. k \in gone /\ gone \subseteq Idle(record)
  BY <1>2, <1>4, MapType DEF Deleted, Evicted, MakesRoom
<1>6. i \in 1..created
  BY <1>1, <1>3, IdNat DEF Id
<1>7. record[i].activeRequests = 0
  BY <1>5 DEF Idle
<1> QED
  BY <1>1, <1>3, <1>6, <1>7, IdNat, NobodyInFlight

LEMMA BusyKeptStep ==
    ASSUME TypeOK, CircuitInv, CircuitInv', [Next]_vars, NEW i \in Id, NEW k \in Key,
           circuits[k] = i, circuits'[k] # i, resets' = resets,
           NEW c \in Client, live'[c]
    PROVE  InFlight(i)' = {}
<1> USE DEF requestVars, installVars, circuitVars
<1>1. Stages /\ Placed /\ ActiveRequestsConserved /\ ActiveRequestsConserved'
  BY DEF CircuitInv
<1>2. ASSUME NEW S \in SUBSET Key, Reset(S) PROVE FALSE
  BY <1>2 DEF Reset, TypeOK
<1>3. ASSUME NEW r \in Request, NEW rec, Settles(r, rec) PROVE InFlight(i)' = {}
  BY <1>1, <1>3, SettlesEffect, FinishDropsIdle
<1>4. ASSUME NEW d \in Client, Unuse(d) PROVE InFlight(i)' = {}
  <2>1. CASE \A e \in Client \ {d} : ~live[e]
    <3>1. live' = [live EXCEPT ![d] = FALSE]
      BY <1>4 DEF Unuse
    <3>2. ~live'[c]
      BY <2>1, <3>1 DEF TypeOK
    <3> QED
      BY <3>2
  <2>2. CASE ~\A e \in Client \ {d} : ~live[e]
    <3>1. Trims(record, Mine(d))
      BY <1>4, <2>2, UnuseTrims
    <3> QED
      BY <1>1, <3>1, FinishDropsIdle
  <2> QED
    BY <2>1, <2>2
<1>5. ASSUME NEW r \in Request, Reject(r) PROVE InFlight(i)' = {}
  <2>1. key(r) \in Key /\ Lookup(key(r)) /\ admission' = admission
    BY <1>5 DEF Reject, key, TypeOK
  <2>2. InFlight(i) = {}
    BY <1>1, <2>1, LookupDropsIdle
  <2> QED
    BY <2>1, <2>2 DEF InFlight, Admitted
<1>6. ASSUME NEW r \in Request, Admit(r) PROVE InFlight(i)' = {}
  <2>1. /\ key(r) \in Key /\ Lookup(key(r))
        /\ \A s \in Request \ {r} : admission'[s] = admission[s]
        /\ admission'[r].record = latest'
    BY <1>1, <1>6, AdmitEffect
  <2>2. InFlight(i) = {} /\ i # latest'
    BY <1>1, <2>1, LookupDropsIdle
  <2> QED
    BY <2>1, <2>2 DEF InFlight, Admitted
<1>7. ASSUME circuits' = circuits PROVE FALSE
  BY <1>7
<1>8. ASSUME NEW r \in Request,
             \/ Start(r) \/ Bypass(r) \/ SettleRemoved(r) \/ BeginClassify(r)
             \/ \E counted \in BOOLEAN : Classified(r, counted)
      PROVE  circuits' = circuits
  BY <1>8 DEF Start, Bypass, SettleRemoved, BeginClassify, Classified
<1>9. ASSUME \/ \E d \in Client : Install(d)
             \/ \E j \in Id : ResetTimeout(j)
             \/ UNCHANGED vars
      PROVE  circuits' = circuits
  BY <1>9 DEF Install, ResetTimeout, vars
<1> QED
  BY <1>2, <1>3, <1>4, <1>5, <1>6, <1>7, <1>8, <1>9, NextCases

(* While an installation is left, only reset() takes a circuit with        *)
(* requests in flight out of the Map: eviction never does (lines 434-453). *)
THEOREM BusyCircuitsAreKept == Spec => BusyCircuitKept
<1>1. TypeOK /\ CircuitInv /\ CircuitInv' /\ [Next]_vars =>
        [\A i \in Id, k \in Key :
            /\ circuits[k] = i /\ circuits'[k] # i
            /\ resets' = resets
            /\ \E c \in Client : live'[c]
            => InFlight(i)' = {}]_vars
  BY BusyKeptStep
<1> QED
  BY <1>1, CircuitInvariant, PTL DEF Spec, BusyCircuitKept
-----------------------------------------------------------------------------
(* Only a failure that counts opens a circuit, and only that of the        *)
(* admission it is applied for.                                            *)
LEMMA FailureOpens ==
    ASSUME TypeOK, NEW r \in Admitted, NEW counted \in BOOLEAN, NEW i \in Id,
           record[i].state # "open", ApplyFailure(r, counted)[i].state = "open"
    PROVE  Relevant(r) /\ i = admission[r].record
<1>1. ApplyFailure(r, counted) # record
  OBVIOUS
<1> QED
  BY <1>1, FailedEffect DEF ApplyFailure

LEMMA HookOpensNothing ==
    ASSUME TypeOK, Stages, Placed, NEW r \in Request, Reject(r) \/ Admit(r), NEW i \in Id,
           record'[i].state = "open"
    PROVE  record[i].state = "open"
<1> DEFINE k == key(r)
           c == Current(k)
<1>1. k \in Key /\ Lookup(k)
  BY DEF Reject, Admit, key, TypeOK
<1>2. latest' \in Id
  BY <1>1, LookupPlaces
<1>3. record'[latest'].state = c.state /\ \A j \in Id \ {latest'} : record'[j] = record[j]
  <2>1. CASE Reject(r)
    <3>1. record' = [record EXCEPT ![latest'] = c] /\ record \in [Id -> Circuit]
      BY <2>1 DEF Reject, TypeOK
    <3> HIDE DEF c
    <3> QED
      BY <1>2, <3>1
  <2>2. CASE Admit(r)
    BY <2>2, AdmitEffect
  <2> QED
    BY <2>1, <2>2
<1>4. CASE i = latest'
  <2>1. c.state = "open"
    BY <1>3, <1>4
  <2>2. circuits[k] # None
    BY <2>1 DEF Current, NewCircuit
  <2>3. i = circuits[k] /\ record[i] \in Circuit
    BY <1>1, <1>4, <2>2, LookupPlaces DEF TypeOK
  <2>4. c # Transition(record[i], "half-open")
    BY <2>1, <2>3, TransitionEffect DEF State
  <2>5. c = record[i]
    BY <2>2, <2>3, <2>4 DEF Current
  <2> QED
    BY <2>1, <2>5
<1>5. CASE i # latest'
  BY <1>3, <1>5
<1> QED
  BY <1>4, <1>5

LEMMA OpensStep ==
    ASSUME TypeOK, Stages, Placed, [Next]_vars, NEW i \in Id,
           record[i].state # "open", record'[i].state = "open"
    PROVE  \E r \in Admitted :
             /\ pc[r] \in {"running", "classifying"} /\ pc'[r] # pc[r]
             /\ outcome'[r] = "failure"
             /\ Installed(r)
             /\ admission[r].record = i /\ circuits[key(r)] = i
             /\ admission[r].generation = record[i].generation
<1> USE DEF requestVars, installVars, circuitVars
<1> DEFINE Opener(r) == /\ pc[r] \in {"running", "classifying"} /\ pc'[r] # pc[r]
                        /\ outcome'[r] = "failure"
                        /\ Installed(r)
                        /\ admission[r].record = i /\ circuits[key(r)] = i
                        /\ admission[r].generation = record[i].generation
<1>1. record \in [Id -> Circuit]
  BY DEF TypeOK
<1>2. ASSUME NEW r \in Request, NEW rec, Settles(r, rec)
      PROVE  r \in Admitted /\ Opener(r)
  <2>1. r \in Admitted /\ rec \in [Id -> Circuit]
    BY <1>2, SettlesType
  <2>2. record' = Finished(rec, {r})
    BY <1>2, SettlesEffect DEF Trims, GiveBack
  <2>3. rec[i].state = "open"
    BY <2>1, <2>2, FinishedPhase
  <2>4. rec # record /\ ~(rec = Succeeded(r))
    BY <2>1, <2>3, SucceededEffect
  <2>5. PICK counted \in BOOLEAN : SettleFailure(r, counted) /\ rec = ApplyFailure(r, counted)
    BY <1>2, <2>4 DEF Settles
  <2>6. Relevant(r) /\ i = admission[r].record
    BY <2>1, <2>3, <2>5, FailureOpens
  <2>7. /\ pc[r] = "running" /\ pc'[r] = "done" /\ outcome'[r] = "failure"
    BY <2>5 DEF SettleFailure, Ends, TypeOK
  <2> QED
    BY <2>1, <2>6, <2>7 DEF Relevant
<1>3. ASSUME NEW r \in Request, NEW counted \in BOOLEAN, Classified(r, counted)
      PROVE  r \in Admitted /\ Opener(r)
  <2>1. r \in Admitted /\ outcome[r] = "failure"
    BY <1>3 DEF Classified, Stages
  <2>2. record' = ApplyFailure(r, counted) /\ outcome' = outcome
        /\ pc[r] = "classifying" /\ pc'[r] = "finishing"
    BY <1>3 DEF Classified, TypeOK
  <2>3. Relevant(r) /\ i = admission[r].record
    BY <2>1, <2>2, FailureOpens
  <2> QED
    BY <2>1, <2>2, <2>3 DEF Relevant
<1>4. ASSUME NEW c \in Client, Unuse(c) PROVE FALSE
  <2>1. record' = Finished(record, Mine(c))
    BY <1>4 DEF Unuse, GiveBack
  <2> QED
    BY <1>1, <2>1, FinishedPhase
<1>5. ASSUME NEW j \in Id, ResetTimeout(j) PROVE FALSE
  <2>1. record[j] \in Circuit /\ record' = [record EXCEPT ![j].elapsed = TRUE]
    BY <1>1, <1>5 DEF ResetTimeout
  <2>2. record'[i].state = record[i].state
    BY <1>1, <2>1 DEF Circuit
  <2> QED
    BY <2>2
<1>6. ASSUME NEW r \in Request, Reject(r) \/ Admit(r) PROVE FALSE
  BY <1>6, HookOpensNothing
<1>7. ASSUME record' = record PROVE FALSE
  BY <1>7
<1>8. ASSUME NEW r \in Request, Start(r) \/ Bypass(r) \/ SettleRemoved(r) \/ BeginClassify(r)
      PROVE  record' = record
  BY <1>8 DEF Start, Bypass, SettleRemoved, BeginClassify
<1>9. ASSUME \/ \E c \in Client : Install(c)
             \/ \E S \in SUBSET Key : Reset(S)
             \/ UNCHANGED vars
      PROVE  record' = record
  BY <1>9 DEF Install, Reset, vars
<1> HIDE DEF Opener
<1>10. \E r \in Admitted : Opener(r)
  BY <1>2, <1>3, <1>4, <1>5, <1>6, <1>7, <1>8, <1>9, NextCases DEF Admitted
<1> QED
  BY <1>10 DEF Opener

(* A circuit opens for a failure of the present generation of a request    *)
(* whose installation and whose entry in the Map are still there: a late   *)
(* failure or a late classifier result opens nothing (lines 305-335).      *)
THEOREM OpensForAFailure == Spec => OpensForCurrentFailure
<1>1. TypeOK /\ CircuitInv /\ [Next]_vars =>
        [\A i \in Id : record[i].state # "open" /\ record'[i].state = "open" =>
            \E r \in Admitted :
               /\ pc[r] \in {"running", "classifying"} /\ pc'[r] # pc[r]
               /\ outcome'[r] = "failure"
               /\ Installed(r)
               /\ admission[r].record = i /\ circuits[key(r)] = i
               /\ admission[r].generation = record[i].generation]_vars
  BY OpensStep DEF CircuitInv
<1> QED
  BY <1>1, CircuitInvariant, PTL DEF Spec, OpensForCurrentFailure
=============================================================================
