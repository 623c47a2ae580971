-------------------------- MODULE ConcurrencyProofs --------------------------
(***************************************************************************)
(* Proofs about Concurrency, for any clients, keys, requests, limits and   *)
(* timing of unuse(): type correctness, and by the inductive invariant     *)
(* PermitInv that permits are conserved, that nobody waits beside a free   *)
(* permit, and that nobody is overtaken.  On top of PermitInv, RecordsInv  *)
(* gives the bound on retained records, ScopedInv the return of permits,   *)
(* and AheadQueued the refinement of PermitPool.                           *)
(***************************************************************************)
EXTENDS Concurrency, FiniteSetTheorems, TLAPS

(* Sets of requests are finite. *)
LEMMA RequestsFinite ==
    ASSUME NEW S \in SUBSET Request
    PROVE  IsFiniteSet(S) /\ Cardinality(S) \in Nat
  BY ConcurrencyAssumption, FS_Subset, FS_CardinalityType DEF ConcurrencyAssumption

LEMMA SmallerCardinality ==
    ASSUME NEW S \in SUBSET Request, NEW T \in SUBSET S
    PROVE  Cardinality(T) <= Cardinality(S)
  BY RequestsFinite, FS_Subset

LEMMA TrimmedSubset ==
    ASSUME NEW recs, NEW idle, NEW limit, NEW rest \in Trimmed(recs, idle, limit)
    PROVE  rest \subseteq recs /\ recs \ idle \subseteq rest
  BY DEF Trimmed

LEMMA GetRecordKeeps ==
    ASSUME TypeOK, NEW k \in Key, GetRecord(k)
    PROVE  /\ records' \in SUBSET Key
           /\ k \in records'
           /\ \A l \in records : active[l] > 0 => l \in records'
<1>1. CASE k \in records
  BY <1>1 DEF GetRecord, TypeOK
<1>2. CASE k \notin records
  <2>1. PICK rest \in Trimmed(records, Idle, MaxKeys - 1) : records' = rest \union {k}
    BY <1>2 DEF GetRecord
  <2>2. rest \subseteq records /\ records \ Idle \subseteq rest
    BY TrimmedSubset
  <2>3. \A l \in Idle : ~(active[l] > 0)
    BY DEF Idle
  <2> QED
    BY <2>1, <2>2, <2>3 DEF TypeOK
<1> QED
  BY <1>1, <1>2

(* Taking entries out of the queues keeps their types and their bound.     *)
LEMMA UnlinkedType ==
    ASSUME TypeOK, NEW S
    PROVE  /\ UnlinkedQueue(S) \in [Key -> SUBSET Request]
           /\ UnlinkedAhead(S) \in [Request -> SUBSET Request]
           /\ \A k \in Key : Cardinality(UnlinkedQueue(S)[k]) <= MaxQueue
<1>1. /\ UnlinkedQueue(S) \in [Key -> SUBSET Request]
      /\ UnlinkedAhead(S) \in [Request -> SUBSET Request]
  BY DEF UnlinkedQueue, UnlinkedAhead, TypeOK
<1>2. ASSUME NEW k \in Key
      PROVE  Cardinality(UnlinkedQueue(S)[k]) <= MaxQueue
  <2>1. UnlinkedQueue(S)[k] \in SUBSET queue[k] /\ queue[k] \in SUBSET Request
    BY DEF UnlinkedQueue, TypeOK
  <2> QED
    BY <2>1, SmallerCardinality, RequestsFinite, ConcurrencyAssumption
    DEF TypeOK, ConcurrencyAssumption
<1> QED
  BY <1>1, <1>2

LEMMA TypeInit == Init => TypeOK
  BY ConcurrencyAssumption, FS_EmptySet DEF ConcurrencyAssumption, Init, TypeOK, PC
-----------------------------------------------------------------------------
LEMMA UnuseType ==
    ASSUME TypeOK, NEW c \in Client, Unuse(c)
    PROVE  TypeOK'
<1> DEFINE linked   == UNION {queue[k] : k \in Key}
           own      == Mine(c) \intersect linked
           released == Mine(c) \intersect admissions
           last     == \A d \in Client \ {c} : ~live[d]
<1>1. PICK heirs \in SUBSET (linked \ own) :
         /\ AreHandedTo(heirs, released, own)
         /\ IF last THEN ForgetAll ELSE HandOver(heirs, released, own)
         /\ pc' = [r \in Request |-> IF r \in own THEN "failed"
                                     ELSE IF r \in heirs THEN "granted"
                                     ELSE pc[r]]
  BY DEF Unuse
<1>2. linked \in SUBSET Request
  BY DEF TypeOK
<1>3. /\ config' \in [Request -> [client : Client, key : Key, mode : Modes]]
      /\ born' \in [Request -> Nat]
      /\ aborted' \in SUBSET Request
      /\ live' \in [Client -> BOOLEAN]
      /\ epoch' \in [Client -> Nat]
  BY DEF Unuse, TypeOK
<1>4. pc' \in [Request -> PC]
  BY <1>1, <1>2 DEF TypeOK, PC
<1>5. CASE last
  <2>1. /\ admissions' \in SUBSET Request
        /\ records' \in SUBSET Key
        /\ active' \in [Key -> 0..MaxConcurrent]
        /\ queue' \in [Key -> SUBSET Request]
        /\ ahead' \in [Request -> SUBSET Request]
        /\ \A k \in Key : Cardinality(queue'[k]) <= MaxQueue
    <3>1. ForgetAll
      BY <1>1, <1>5
    <3>2. \A k \in Key : queue'[k] = {}
      BY <3>1 DEF ForgetAll
    <3> QED
      BY <3>1, <3>2, FS_EmptySet, ConcurrencyAssumption
      DEF ForgetAll, ConcurrencyAssumption
  <2> QED
    BY <1>3, <1>4, <2>1 DEF TypeOK
<1>6. CASE ~last
  <2>1. HandOver(heirs, released, own)
    BY <1>1, <1>6
  <2>2. /\ admissions' \in SUBSET Request
        /\ records' \in SUBSET Key
    BY <1>2, <2>1, TrimmedSubset DEF HandOver, TypeOK
  <2>3. /\ queue' \in [Key -> SUBSET Request]
        /\ ahead' \in [Request -> SUBSET Request]
        /\ \A k \in Key : Cardinality(queue'[k]) <= MaxQueue
    BY <2>1, UnlinkedType DEF HandOver
  <2>4. active' \in [Key -> 0..MaxConcurrent]
    <3> SUFFICES ASSUME NEW k \in Key
                 PROVE  Left(released, heirs)[k] \in 0..MaxConcurrent
      BY <2>1 DEF HandOver, Left
    <3> DEFINE out == Cardinality(released \intersect Holders(k))
               in  == Cardinality(heirs \intersect queue[k])
    <3>1. /\ released \intersect Holders(k) \in SUBSET Request
          /\ heirs \intersect queue[k] \in SUBSET Request
          /\ queue[k] \ own \in SUBSET Request
      BY <1>2 DEF TypeOK
    <3>2. out \in Nat /\ in \in Nat /\ Cardinality(queue[k] \ own) \in Nat
      BY <3>1, RequestsFinite
    <3>3. in <= out
      <4>1. in = Least(out, Cardinality(queue[k] \ own))
        BY <1>1 DEF AreHandedTo
      <4> HIDE DEF in, out
      <4> QED
        BY <4>1, <3>2 DEF Least
    <3>4. active[k] \in 0..MaxConcurrent
      BY DEF TypeOK
    <3> HIDE DEF out, in
    <3>5. Minus(active[k], out - in) \in 0..MaxConcurrent
      BY <3>2, <3>3, <3>4, ConcurrencyAssumption DEF Minus, ConcurrencyAssumption
    <3> QED
      BY <3>5 DEF Left, out, in
  <2> QED
    BY <1>3, <1>4, <2>2, <2>3, <2>4 DEF TypeOK
<1> QED
  BY <1>5, <1>6

LEMMA TypeStep == TypeOK /\ [Next]_vars => TypeOK'
<1> SUFFICES ASSUME TypeOK, [Next]_vars PROVE TypeOK'
  OBVIOUS
<1> USE DEF requestVars, installVars, permitVars
<1>1. CASE UNCHANGED vars
  BY <1>1 DEF vars, TypeOK
<1>2. ASSUME NEW c \in Client, Install(c)
      PROVE  TypeOK'
  BY <1>2 DEF Install, TypeOK
<1>3. ASSUME NEW r \in Request, Start(r) \/ AbortEarly(r)
      PROVE  TypeOK'
  <2>1. client(r) \in Client
    BY DEF TypeOK, client
  <2>2. CASE Start(r)
    BY <2>1, <2>2 DEF Start, TypeOK, PC
  <2>3. CASE AbortEarly(r)
    BY <2>3 DEF AbortEarly, TypeOK
  <2> QED
    BY <1>3, <2>2, <2>3
<1>4. ASSUME NEW r \in Request, Bypass(r) \/ Resume(r) \/ BeginSettle(r)
      PROVE  TypeOK'
  BY <1>4 DEF Bypass, Resume, BeginSettle, TypeOK, PC
<1>5. ASSUME NEW r \in Request, Admit(r)
      PROVE  TypeOK'
  BY <1>5, GetRecordKeeps, ConcurrencyAssumption
  DEF Admit, HasPermit, TypeOK, PC, key, ConcurrencyAssumption
<1>6. ASSUME NEW r \in Request, Refuse(r)
      PROVE  TypeOK'
  BY <1>6, GetRecordKeeps DEF Refuse, TypeOK, PC, key
<1>7. ASSUME NEW r \in Request, Enqueue(r)
      PROVE  TypeOK'
  <2>1. /\ key(r) \in Key
        /\ records' \in SUBSET Key
        /\ queue[key(r)] \in SUBSET Request
    BY <1>7, GetRecordKeeps DEF Enqueue, TypeOK, key
  <2>2. queue' \in [Key -> SUBSET Request] /\ ahead' \in [Request -> SUBSET Request]
    BY <1>7, <2>1 DEF Enqueue, TypeOK
  <2>3. Cardinality(queue[key(r)] \union {r}) <= MaxQueue
    <3>1. ~(Cardinality(queue[key(r)]) >= MaxQueue)
      BY <1>7 DEF Enqueue, MustRefuse
    <3>2. /\ IsFiniteSet(queue[key(r)])
          /\ Cardinality(queue[key(r)]) \in Nat
      BY <2>1, RequestsFinite
    <3>3. Cardinality(queue[key(r)] \union {r}) <= Cardinality(queue[key(r)]) + 1
      <4>1. \/ Cardinality(queue[key(r)] \union {r}) = Cardinality(queue[key(r)])
            \/ Cardinality(queue[key(r)] \union {r}) = Cardinality(queue[key(r)]) + 1
        BY <3>2, FS_AddElement, Zenon
      <4> QED
        BY <3>2, <4>1
    <3>4. Cardinality(queue[key(r)] \union {r}) \in Nat
      BY <2>1, RequestsFinite
    <3> QED
      BY <3>1, <3>2, <3>3, <3>4, ConcurrencyAssumption DEF ConcurrencyAssumption
  <2>4. \A k \in Key : Cardinality(queue'[k]) <= MaxQueue
    BY <1>7, <2>1, <2>3 DEF Enqueue, TypeOK
  <2> QED
    BY <1>7, <2>1, <2>2, <2>4 DEF Enqueue, TypeOK, PC
<1>8. ASSUME NEW r \in Request, AbortQueued(r) \/ QueueTimeout(r)
      PROVE  TypeOK'
  <2>1. LeaveQueue(r) /\ aborted' \in SUBSET Request
    BY <1>8 DEF AbortQueued, QueueTimeout, TypeOK
  <2>2. /\ queue' \in [Key -> SUBSET Request]
        /\ ahead' \in [Request -> SUBSET Request]
        /\ \A k \in Key : Cardinality(queue'[k]) <= MaxQueue
    BY <2>1, UnlinkedType DEF LeaveQueue
  <2> QED
    BY <2>1, <2>2 DEF LeaveQueue, TypeOK, PC
<1>9. ASSUME NEW r \in Request, SettleNothing(r)
      PROVE  TypeOK'
  BY <1>9 DEF SettleNothing, TypeOK, PC
<1>10. ASSUME NEW r \in Request, SettleHandOff(r)
      PROVE  TypeOK'
  <2>1. PICK w \in Heads(key(r)) :
          /\ queue' = UnlinkedQueue({w})
          /\ ahead' = UnlinkedAhead({w})
          /\ admissions' = (admissions \ {r}) \union {w}
          /\ pc' = [pc EXCEPT ![r] = "done", ![w] = "granted"]
    BY <1>10 DEF SettleHandOff
  <2>2. w \in Request
    BY <2>1 DEF Heads, TypeOK, key
  <2>3. /\ queue' \in [Key -> SUBSET Request]
        /\ ahead' \in [Request -> SUBSET Request]
        /\ \A k \in Key : Cardinality(queue'[k]) <= MaxQueue
    BY <2>1, UnlinkedType
  <2> QED
    BY <1>10, <2>1, <2>2, <2>3 DEF SettleHandOff, TypeOK, PC
<1>11. ASSUME NEW r \in Request, SettleFree(r)
      PROVE  TypeOK'
  BY <1>11, TrimmedSubset, ConcurrencyAssumption
  DEF SettleFree, Minus, TypeOK, PC, key, ConcurrencyAssumption
<1> QED
  BY <1>1, <1>2, <1>3, <1>4, <1>5, <1>6, <1>7, <1>8, <1>9, <1>10, <1>11, UnuseType
  DEF Next, OnRequest, OnSettled

(* Type correctness of the limiter: in particular a record never counts    *)
(* more than maxConcurrent active requests and never queues more than      *)
(* maxQueue.                                                               *)
THEOREM TypeCorrect == Spec => []TypeOK
  BY TypeInit, TypeStep, PTL DEF Spec
-----------------------------------------------------------------------------
(* What holds of the queues, of the admissions and of the records between  *)
(* any two callbacks.  The counters agree with the admissions only because *)
(* a settling request that still has an admission belongs to an            *)
(* installation that is still there, so that its permit is given back.     *)
EntriesQueued == \A k \in Key : \A r \in queue[k] : key(r) = k /\ pc[r] = "queued"

HoldersPlaced == \A r \in admissions : pc[r] \notin {"idle", "hooks", "queued"}

SettlersInstalled == \A r \in admissions : pc[r] = "settling" => Installed(r)

ActiveRecorded == \A k \in Key : active[k] > 0 => k \in records

PermitInv ==
    /\ EntriesQueued
    /\ HoldersPlaced
    /\ SettlersInstalled
    /\ ActiveRecorded
    /\ PermitsConserved
    /\ NoWaiterBesideFreePermit

LEMMA HoldersFinite ==
    ASSUME TypeOK, NEW k \in Key
    PROVE  Holders(k) \in SUBSET Request /\ IsFiniteSet(Holders(k))
           /\ Cardinality(Holders(k)) \in Nat
<1>1. Holders(k) \in SUBSET Request
  BY DEF Holders, TypeOK
<1> QED
  BY <1>1, RequestsFinite

LEMMA PermitInit == Init => PermitInv
<1> SUFFICES ASSUME Init PROVE PermitInv
  OBVIOUS
<1>1. \A k \in Key : Holders(k) = {}
  BY DEF Init, Holders
<1>2. PermitsConserved
  BY <1>1, FS_EmptySet DEF PermitsConserved, Init
<1> QED
  BY <1>2 DEF Init, PermitInv, EntriesQueued, HoldersPlaced, SettlersInstalled,
              ActiveRecorded, NoWaiterBesideFreePermit

(* A step that leaves queues, admissions and counters alone.               *)
LEMMA PermitFrame ==
    ASSUME PermitInv, UNCHANGED <<config, admissions, active, queue>>,
           \A k \in Key : k \in records /\ active[k] > 0 => k \in records',
           \A k \in Key : \A r \in queue[k] : pc'[r] = "queued",
           \A r \in admissions : pc'[r] \notin {"idle", "hooks", "queued"},
           \A r \in admissions : pc'[r] = "settling" => Installed(r)'
    PROVE  PermitInv'
<1>1. \A k \in Key : Holders(k)' = Holders(k)
  BY DEF Holders, key
<1>2. PermitsConserved' /\ NoWaiterBesideFreePermit'
  BY <1>1 DEF PermitInv, PermitsConserved, NoWaiterBesideFreePermit
<1>3. EntriesQueued' /\ HoldersPlaced' /\ SettlersInstalled' /\ ActiveRecorded'
  BY DEF PermitInv, EntriesQueued, HoldersPlaced, SettlersInstalled, ActiveRecorded, key
<1> QED
  BY <1>2, <1>3 DEF PermitInv

LEMMA AdmitPermit ==
    ASSUME TypeOK, PermitInv, NEW r \in Request, Admit(r)
    PROVE  PermitInv'
<1> DEFINE k0 == key(r)
<1>1. k0 \in Key /\ GetRecord(k0) /\ pc[r] = "hooks" /\ active[k0] < MaxConcurrent
  BY DEF Admit, HasPermit, TypeOK, key
<1>2. /\ admissions' = admissions \union {r}
      /\ active' = [active EXCEPT ![k0] = @ + 1]
      /\ pc' = [pc EXCEPT ![r] = "running"]
      /\ UNCHANGED <<config, queue, born, live, epoch>>
  BY DEF Admit, installVars
<1>3. r \notin admissions /\ \A k \in Key : r \notin queue[k]
  BY <1>1 DEF PermitInv, HoldersPlaced, EntriesQueued
<1>4. active[k0] \in 0..MaxConcurrent
  BY <1>1 DEF TypeOK
<1>5. queue[k0] = {}
  BY <1>1, <1>4, ConcurrencyAssumption
  DEF PermitInv, NoWaiterBesideFreePermit, ConcurrencyAssumption
<1>6. PermitsConserved'
  <2> SUFFICES ASSUME NEW k \in Key PROVE active'[k] = Cardinality(Holders(k)')
    BY DEF PermitsConserved
  <2>1. CASE k = k0
    <3>1. Holders(k)' = Holders(k) \union {r} /\ r \notin Holders(k)
      BY <1>2, <1>3, <2>1 DEF Holders, key
    <3>2. Cardinality(Holders(k)') = Cardinality(Holders(k)) + 1
      BY <3>1, HoldersFinite, FS_AddElement
    <3> QED
      BY <3>2, <1>2, <1>4, <2>1 DEF PermitInv, PermitsConserved, TypeOK
  <2>2. CASE k # k0
    <3>1. Holders(k)' = Holders(k)
      BY <1>2, <2>2 DEF Holders, key
    <3> QED
      BY <3>1, <1>2, <2>2 DEF PermitInv, PermitsConserved, TypeOK
  <2> QED
    BY <2>1, <2>2
<1>7. NoWaiterBesideFreePermit'
  BY <1>1, <1>2, <1>5 DEF PermitInv, NoWaiterBesideFreePermit, TypeOK
<1>8. ActiveRecorded'
  BY <1>1, <1>2, GetRecordKeeps DEF PermitInv, ActiveRecorded, TypeOK
<1>9. EntriesQueued' /\ HoldersPlaced' /\ SettlersInstalled'
  BY <1>2, <1>3
  DEF PermitInv, EntriesQueued, HoldersPlaced, SettlersInstalled, TypeOK, key,
      Installed, client
<1> QED
  BY <1>6, <1>7, <1>8, <1>9 DEF PermitInv

LEMMA EnqueuePermit ==
    ASSUME TypeOK, PermitInv, NEW r \in Request, Enqueue(r)
    PROVE  PermitInv'
<1> DEFINE k0 == key(r)
<1>1. k0 \in Key /\ GetRecord(k0) /\ pc[r] = "hooks" /\ ~(active[k0] < MaxConcurrent)
  BY DEF Enqueue, HasPermit, TypeOK, key
<1>2. /\ queue' = [queue EXCEPT ![k0] = @ \union {r}]
      /\ pc' = [pc EXCEPT ![r] = "queued"]
      /\ UNCHANGED <<config, admissions, active, born, live, epoch>>
  BY DEF Enqueue, installVars
<1>3. r \notin admissions
  BY <1>1 DEF PermitInv, HoldersPlaced
<1>4. active[k0] = MaxConcurrent
  <2>1. active[k0] \in 0..MaxConcurrent
    BY <1>1 DEF TypeOK
  <2> QED
    BY <1>1, <2>1, ConcurrencyAssumption DEF ConcurrencyAssumption
<1>5. PermitsConserved'
  <2>1. \A k \in Key : Holders(k)' = Holders(k)
    BY <1>2 DEF Holders, key
  <2> QED
    BY <2>1, <1>2 DEF PermitInv, PermitsConserved
<1>6. NoWaiterBesideFreePermit'
  BY <1>2, <1>4 DEF PermitInv, NoWaiterBesideFreePermit, TypeOK
<1>7. ActiveRecorded'
  BY <1>1, <1>2, GetRecordKeeps DEF PermitInv, ActiveRecorded
<1>8. EntriesQueued' /\ HoldersPlaced' /\ SettlersInstalled'
  BY <1>1, <1>2, <1>3
  DEF PermitInv, EntriesQueued, HoldersPlaced, SettlersInstalled, TypeOK, key,
      Installed, client
<1> QED
  BY <1>5, <1>6, <1>7, <1>8 DEF PermitInv

LEMMA LeaveQueuePermit ==
    ASSUME TypeOK, PermitInv, NEW r \in Request, LeaveQueue(r)
    PROVE  PermitInv'
<1>1. /\ pc[r] = "queued"
      /\ \A k \in Key : queue'[k] = queue[k] \ {r}
      /\ pc' = [pc EXCEPT ![r] = "failed"]
      /\ UNCHANGED <<config, admissions, records, active, born, live, epoch>>
  BY DEF LeaveQueue, UnlinkedQueue, installVars
<1>2. PermitsConserved'
  <2>1. \A k \in Key : Holders(k)' = Holders(k)
    BY <1>1 DEF Holders, key
  <2> QED
    BY <2>1, <1>1 DEF PermitInv, PermitsConserved
<1>3. NoWaiterBesideFreePermit' /\ ActiveRecorded'
  BY <1>1 DEF PermitInv, NoWaiterBesideFreePermit, ActiveRecorded
<1>4. EntriesQueued' /\ HoldersPlaced' /\ SettlersInstalled'
  BY <1>1
  DEF PermitInv, EntriesQueued, HoldersPlaced, SettlersInstalled, TypeOK, key,
      Installed, client
<1> QED
  BY <1>2, <1>3, <1>4 DEF PermitInv

(* A settling request with an admission gives its permit back. *)
LEMMA SettlerReleases ==
    ASSUME TypeOK, PermitInv, NEW r \in admissions, pc[r] = "settling"
    PROVE  Releases(r) /\ active[key(r)] > 0
<1>1. r \in Request /\ key(r) \in Key /\ r \in Holders(key(r))
  BY DEF TypeOK, key, Holders
<1>2. active[key(r)] # 0
  BY <1>1, HoldersFinite, FS_EmptySet DEF PermitInv, PermitsConserved
<1>3. active[key(r)] > 0
  BY <1>1, <1>2, ConcurrencyAssumption DEF TypeOK, ConcurrencyAssumption
<1> QED
  BY <1>1, <1>3 DEF PermitInv, ActiveRecorded, SettlersInstalled, Releases

LEMMA SettleNothingPermit ==
    ASSUME TypeOK, PermitInv, NEW r \in Request, SettleNothing(r)
    PROVE  PermitInv'
<1>1. r \notin admissions
  BY SettlerReleases DEF SettleNothing
<1>2. /\ UNCHANGED <<config, admissions, active, queue, records, born, live, epoch>>
      /\ pc[r] = "settling" /\ pc' = [pc EXCEPT ![r] = "done"]
  BY <1>1 DEF SettleNothing, installVars
<1>3. /\ \A k \in Key : \A s \in queue[k] : pc'[s] = "queued"
      /\ \A s \in admissions : pc'[s] = pc[s]
  BY <1>1, <1>2 DEF PermitInv, EntriesQueued, TypeOK
<1>4. \A s \in admissions : pc[s] \notin {"idle", "hooks", "queued"}
  BY DEF PermitInv, HoldersPlaced
<1>5. \A s \in admissions : pc'[s] = "settling" => Installed(s)'
  BY <1>2, <1>3 DEF PermitInv, SettlersInstalled, Installed, client
<1>6. \A s \in admissions : pc'[s] \notin {"idle", "hooks", "queued"}
  BY <1>3, <1>4
<1>7. \A k \in Key : k \in records /\ active[k] > 0 => k \in records'
  BY <1>2
<1> QED
  BY <1>2, <1>3, <1>5, <1>6, <1>7, PermitFrame

LEMMA HandOffPermit ==
    ASSUME TypeOK, PermitInv, NEW r \in Request, SettleHandOff(r)
    PROVE  PermitInv'
<1> DEFINE k0 == key(r)
<1>1. k0 \in Key /\ r \in admissions /\ pc[r] = "settling"
  BY DEF SettleHandOff, Releases, TypeOK, key
<1>2. PICK w \in Heads(k0) :
         /\ queue' = UnlinkedQueue({w})
         /\ admissions' = (admissions \ {r}) \union {w}
         /\ pc' = [pc EXCEPT ![r] = "done", ![w] = "granted"]
  BY DEF SettleHandOff
<1>3. /\ w \in queue[k0] /\ w \in Request
      /\ key(w) = k0 /\ pc[w] = "queued" /\ w # r /\ w \notin admissions
  BY <1>1, <1>2 DEF Heads, TypeOK, PermitInv, EntriesQueued, HoldersPlaced
<1>4. /\ UNCHANGED <<config, records, active, born, live, epoch>>
      /\ \A k \in Key : queue'[k] = queue[k] \ {w}
  BY <1>2 DEF SettleHandOff, UnlinkedQueue, installVars
<1>5. PermitsConserved'
  <2> SUFFICES ASSUME NEW k \in Key PROVE active'[k] = Cardinality(Holders(k)')
    BY DEF PermitsConserved
  <2>1. CASE k = k0
    <3> DEFINE rest == Holders(k) \ {r}
    <3>1. /\ Holders(k)' = rest \union {w} /\ w \notin rest
          /\ r \in Holders(k)
      BY <1>1, <1>2, <1>3, <1>4, <2>1 DEF Holders, key
    <3>2. /\ IsFiniteSet(Holders(k)) /\ Cardinality(Holders(k)) \in Nat
      BY HoldersFinite
    <3>3. IsFiniteSet(rest) /\ Cardinality(rest) = Cardinality(Holders(k)) - 1
      BY <3>1, <3>2, FS_RemoveElement
    <3>4. Cardinality(rest \union {w}) = Cardinality(rest) + 1
      BY <3>1, <3>3, FS_AddElement
    <3>5. Cardinality(rest \union {w}) = Cardinality(Holders(k))
      BY <3>2, <3>3, <3>4
    <3> QED
      BY <3>1, <3>5, <1>4 DEF PermitInv, PermitsConserved
  <2>2. CASE k # k0
    <3>1. Holders(k)' = Holders(k)
      BY <1>1, <1>2, <1>3, <1>4, <2>2 DEF Holders, key
    <3> QED
      BY <3>1, <1>4 DEF PermitInv, PermitsConserved
  <2> QED
    BY <2>1, <2>2
<1>6. NoWaiterBesideFreePermit' /\ ActiveRecorded'
  BY <1>4 DEF PermitInv, NoWaiterBesideFreePermit, ActiveRecorded
<1>7. EntriesQueued'
  <2> SUFFICES ASSUME NEW k \in Key, NEW s \in queue'[k]
               PROVE  key(s)' = k /\ pc'[s] = "queued"
    BY DEF EntriesQueued
  <2>1. s \in queue[k] /\ s # w /\ s \in Request
    BY <1>4 DEF TypeOK
  <2>2. key(s) = k /\ pc[s] = "queued"
    BY <2>1 DEF PermitInv, EntriesQueued
  <2> QED
    BY <1>1, <1>2, <1>4, <2>1, <2>2 DEF TypeOK, key
<1>8. HoldersPlaced' /\ SettlersInstalled'
  BY <1>1, <1>2, <1>3, <1>4
  DEF PermitInv, HoldersPlaced, SettlersInstalled, TypeOK, Installed, client
<1> QED
  BY <1>5, <1>6, <1>7, <1>8 DEF PermitInv

LEMMA FreePermit ==
    ASSUME TypeOK, PermitInv, NEW r \in Request, SettleFree(r)
    PROVE  PermitInv'
<1> DEFINE k0 == key(r)
<1>1. k0 \in Key /\ r \in admissions /\ pc[r] = "settling" /\ queue[k0] = {}
  BY DEF SettleFree, Releases, TypeOK, key
<1>2. active[k0] > 0 /\ active[k0] \in Nat
  BY <1>1, SettlerReleases, ConcurrencyAssumption DEF TypeOK, ConcurrencyAssumption
<1> Minus(active[k0], 1) = active[k0] - 1
  BY <1>2 DEF Minus
<1>3. /\ admissions' = admissions \ {r}
      /\ active' = [active EXCEPT ![k0] = @ - 1]
      /\ pc' = [pc EXCEPT ![r] = "done"]
      /\ UNCHANGED <<config, queue, born, live, epoch>>
  BY <1>1 DEF SettleFree, installVars, TypeOK
<1>4. PermitsConserved'
  <2> SUFFICES ASSUME NEW k \in Key PROVE active'[k] = Cardinality(Holders(k)')
    BY DEF PermitsConserved
  <2>1. CASE k = k0
    <3>1. Holders(k)' = Holders(k) \ {r} /\ r \in Holders(k)
      BY <1>1, <1>3, <2>1 DEF Holders, key
    <3>2. Cardinality(Holders(k)') = Cardinality(Holders(k)) - 1
      BY <3>1, HoldersFinite, FS_RemoveElement
    <3> QED
      BY <3>2, <1>3, <2>1 DEF PermitInv, PermitsConserved, TypeOK
  <2>2. CASE k # k0
    <3>1. Holders(k)' = Holders(k)
      BY <1>1, <1>3, <2>2 DEF Holders, key
    <3> QED
      BY <3>1, <1>3, <2>2 DEF PermitInv, PermitsConserved, TypeOK
  <2> QED
    BY <2>1, <2>2
<1>5. NoWaiterBesideFreePermit'
  BY <1>1, <1>3 DEF PermitInv, NoWaiterBesideFreePermit, TypeOK
<1>6. ActiveRecorded'
  <2> SUFFICES ASSUME NEW k \in Key, active'[k] > 0 PROVE k \in records'
    BY DEF ActiveRecorded
  <2>1. k \in records /\ active[k] > 0
    BY <1>1, <1>2, <1>3 DEF PermitInv, ActiveRecorded, TypeOK
  <2>2. CASE active'[k0] = 0
    <3>1. k \notin Idle \union {k0}
      BY <2>1, <2>2 DEF Idle
    <3>2. records' \in Trimmed(records, Idle \union {k0}, MaxKeys)
      BY <2>2 DEF SettleFree
    <3> QED
      BY <2>1, <3>1, <3>2, TrimmedSubset
  <2>3. CASE active'[k0] # 0
    BY <2>1, <2>3 DEF SettleFree
  <2> QED
    BY <2>2, <2>3
<1>7. EntriesQueued' /\ HoldersPlaced' /\ SettlersInstalled'
  BY <1>1, <1>3
  DEF PermitInv, EntriesQueued, HoldersPlaced, SettlersInstalled, TypeOK, key,
      Installed, client
<1> QED
  BY <1>4, <1>5, <1>6, <1>7 DEF PermitInv

(* Taking a part of a finite set away and adding as many others.           *)
LEMMA Exchange ==
    ASSUME NEW S \in SUBSET Request, NEW out \in SUBSET S,
           NEW in \in SUBSET Request, in \intersect S = {}
    PROVE  Cardinality((S \ out) \union in)
              = Cardinality(S) - Cardinality(out) + Cardinality(in)
<1>1. /\ IsFiniteSet(S) /\ Cardinality(S) \in Nat
      /\ IsFiniteSet(out) /\ Cardinality(out) \in Nat
      /\ IsFiniteSet(in) /\ Cardinality(in) \in Nat
      /\ IsFiniteSet(S \ out) /\ Cardinality(S \ out) \in Nat
  BY RequestsFinite
<1>2. S \intersect out = out /\ (S \ out) \intersect in = {}
  OBVIOUS
<1>3. Cardinality(S \ out) = Cardinality(S) - Cardinality(S \intersect out)
  BY <1>1, FS_Difference
<1>4. Cardinality((S \ out) \union in)
         = Cardinality(S \ out) + Cardinality(in) - Cardinality((S \ out) \intersect in)
  BY <1>1, FS_Union
<1>5. /\ Cardinality(S \intersect out) = Cardinality(out)
      /\ Cardinality((S \ out) \intersect in) = 0
  BY <1>2, FS_EmptySet
<1> QED
  BY <1>1, <1>3, <1>4, <1>5

(* The cleanup of an installation while others remain. *)
LEMMA HandOverPermit ==
    ASSUME TypeOK, PermitInv, NEW c \in Client,
           NEW own, own = Mine(c) \intersect UNION {queue[k] : k \in Key},
           NEW released, released = Mine(c) \intersect admissions,
           NEW heirs, heirs \subseteq (UNION {queue[k] : k \in Key}) \ own,
           AreHandedTo(heirs, released, own), HandOver(heirs, released, own),
           live' = [live EXCEPT ![c] = FALSE], UNCHANGED <<config, born, epoch>>,
           pc' = [r \in Request |-> IF r \in own THEN "failed"
                                    ELSE IF r \in heirs THEN "granted"
                                    ELSE pc[r]]
    PROVE  PermitInv'
<1>1. \A r \in own \union heirs : /\ r \in Request
                                  /\ pc[r] = "queued" /\ r \notin admissions
                                  /\ key(r) \in Key /\ r \in queue[key(r)]
  BY DEF TypeOK, PermitInv, EntriesQueued, HoldersPlaced
<1>2. \A k \in Key : queue'[k] = queue[k] \ (own \union heirs)
  BY DEF HandOver, UnlinkedQueue
<1>3. admissions' = (admissions \ released) \union heirs
  BY DEF HandOver
<1>4. ASSUME NEW k \in Key
      PROVE  /\ active'[k] = Cardinality(Holders(k)')
             /\ queue'[k] # {} => active'[k] = MaxConcurrent
  <2> DEFINE out == released \intersect Holders(k)
             in  == heirs \intersect queue[k]
             o   == Cardinality(out)
             i   == Cardinality(in)
             n   == Cardinality(Holders(k))
             q   == Cardinality(queue[k] \ own)
  <2>1. /\ out \in SUBSET Holders(k) /\ Holders(k) \in SUBSET Request
        /\ in \in SUBSET (queue[k] \ own) /\ queue[k] \ own \in SUBSET Request
        /\ in \in SUBSET Request
        /\ in \intersect Holders(k) = {}
    BY <1>1 DEF Holders, TypeOK
  <2>2. o \in Nat /\ i \in Nat /\ n \in Nat /\ q \in Nat /\ o <= n /\ i <= q
    BY <2>1, RequestsFinite, SmallerCardinality
  <2>3. i = Least(o, q)
    BY DEF AreHandedTo
  <2>4. active[k] = n /\ (queue[k] # {} => n = MaxConcurrent)
    BY DEF PermitInv, PermitsConserved, NoWaiterBesideFreePermit
  <2>5. active'[k] = Minus(n, o - i)
    BY <2>4 DEF HandOver, Left
  <2>6. Holders(k)' = (Holders(k) \ out) \union in
    <3>1. \A r \in heirs : key(r) = k <=> r \in queue[k]
      BY <1>1 DEF PermitInv, EntriesQueued
    <3> QED
      BY <1>3, <3>1 DEF Holders, key
  <2>7. Cardinality(Holders(k)') = n - o + i
    BY <2>1, <2>6, Exchange
  <2>8. in # queue[k] \ own => i # q
    BY <2>1, RequestsFinite, FS_Subset
  <2>9. queue'[k] # {} => queue[k] # {} /\ in # queue[k] \ own
    BY <1>2
  <2> HIDE DEF out, in, o, i, n, q
  <2>10. Minus(n, o - i) = n - o + i
    BY <2>2, <2>3 DEF Minus, Least
  <2>11. i # q => i = o
    BY <2>2, <2>3 DEF Least
  <2>12. i = o => n - o + i = n
    BY <2>2
  <2> QED
    BY <2>4, <2>5, <2>7, <2>8, <2>9, <2>10, <2>11, <2>12
<1>5. ActiveRecorded'
  <2> DEFINE left == Left(released, heirs)
             idle == {k \in records : left[k] = 0 /\ queue[k] \ own = {}}
  <2> SUFFICES ASSUME NEW k \in Key, active'[k] > 0 PROVE k \in records'
    BY DEF ActiveRecorded
  <2>1. active'[k] = left[k] /\ left[k] = Minus(active[k],
            Cardinality(released \intersect Holders(k))
               - Cardinality(heirs \intersect queue[k]))
    BY DEF HandOver, Left
  <2>2. active[k] # 0
    <3>1. Holders(k) # {} \/ queue[k] # {}
      <4> SUFFICES ASSUME Holders(k) = {}, queue[k] = {} PROVE FALSE
        OBVIOUS
      <4>1. \A r \in heirs : key(r) # k
        BY <1>1
      <4>2. \A r \in admissions : key(r) # k
        BY DEF Holders
      <4>3. Holders(k)' = {}
        BY <1>3, <4>1, <4>2 DEF Holders, key
      <4>4. active'[k] = 0
        BY <1>4, <4>3, FS_EmptySet
      <4> QED
        BY <4>4
    <3>2. queue[k] # {} => active[k] = MaxConcurrent
      BY DEF PermitInv, NoWaiterBesideFreePermit
    <3>3. Holders(k) # {} => active[k] # 0
      BY HoldersFinite, FS_EmptySet DEF PermitInv, PermitsConserved
    <3> QED
      BY <3>1, <3>2, <3>3, ConcurrencyAssumption DEF ConcurrencyAssumption
  <2>3. k \in records
    BY <2>2, ConcurrencyAssumption DEF TypeOK, PermitInv, ActiveRecorded, ConcurrencyAssumption
  <2>4. k \notin idle
    BY <2>1
  <2>5. records' \in Trimmed(records, idle, MaxKeys) \/ records' = records
    BY DEF HandOver
  <2> QED
    BY <2>3, <2>4, <2>5, TrimmedSubset
<1>6. EntriesQueued'
  BY <1>2 DEF PermitInv, EntriesQueued, TypeOK, key
<1>7. HoldersPlaced'
  BY <1>1, <1>3 DEF PermitInv, HoldersPlaced, TypeOK
<1>8. SettlersInstalled'
  <2> SUFFICES ASSUME NEW r \in admissions', pc'[r] = "settling"
               PROVE  Installed(r)'
    BY DEF SettlersInstalled
  <2>1. r \in admissions /\ r \notin released /\ pc[r] = "settling" /\ r \in Request
    BY <1>1, <1>3 DEF TypeOK
  <2>2. Installed(r)
    BY <2>1 DEF PermitInv, SettlersInstalled
  <2>3. client(r) # c
    BY <2>1, <2>2 DEF Mine, Installed
  <2> QED
    BY <2>2, <2>3 DEF Installed, client, TypeOK
<1>9. PermitsConserved' /\ NoWaiterBesideFreePermit'
  BY <1>4 DEF PermitsConserved, NoWaiterBesideFreePermit
<1> QED
  BY <1>5, <1>6, <1>7, <1>8, <1>9 DEF PermitInv

LEMMA UnusePermit ==
    ASSUME TypeOK, PermitInv, NEW c \in Client, Unuse(c)
    PROVE  PermitInv'
<1> DEFINE linked   == UNION {queue[k] : k \in Key}
           own      == Mine(c) \intersect linked
           released == Mine(c) \intersect admissions
           last     == \A d \in Client \ {c} : ~live[d]
<1>1. PICK heirs \in SUBSET (linked \ own) :
         /\ AreHandedTo(heirs, released, own)
         /\ IF last THEN ForgetAll ELSE HandOver(heirs, released, own)
         /\ pc' = [r \in Request |-> IF r \in own THEN "failed"
                                     ELSE IF r \in heirs THEN "granted"
                                     ELSE pc[r]]
  BY DEF Unuse
<1>2. live' = [live EXCEPT ![c] = FALSE] /\ UNCHANGED <<config, born, epoch>>
  BY DEF Unuse
<1>3. CASE last
  <2>1. ForgetAll
    BY <1>1, <1>3
  <2>2. \A k \in Key : Holders(k)' = {} /\ active'[k] = 0 /\ queue'[k] = {}
    BY <2>1 DEF ForgetAll, Holders
  <2>3. PermitsConserved'
    BY <2>2, FS_EmptySet DEF PermitsConserved
  <2>4. admissions' = {}
    BY <2>1 DEF ForgetAll
  <2> QED
    BY <2>2, <2>3, <2>4
    DEF PermitInv, EntriesQueued, HoldersPlaced, SettlersInstalled, ActiveRecorded,
        NoWaiterBesideFreePermit
<1>4. CASE ~last
  <2>1. HandOver(heirs, released, own)
    BY <1>1, <1>4
  <2> QED
    BY <1>1, <1>2, <2>1, HandOverPermit
<1> QED
  BY <1>3, <1>4

(* The steps that only move a request along. *)
LEMMA MovePermit ==
    ASSUME TypeOK, PermitInv, NEW r \in Request,
           \/ Start(r) \/ AbortEarly(r) \/ Bypass(r) \/ Refuse(r)
           \/ Resume(r) \/ BeginSettle(r)
    PROVE  PermitInv'
<1>1. /\ UNCHANGED <<config, admissions, active, queue, live, epoch>>
      /\ \A k \in Key : k \in records /\ active[k] > 0 => k \in records'
  <2>1. CASE Refuse(r)
    <3>1. key(r) \in Key /\ GetRecord(key(r))
      BY <2>1 DEF Refuse, TypeOK, key
    <3> QED
      BY <2>1, <3>1, GetRecordKeeps DEF Refuse, installVars
  <2>2. CASE ~Refuse(r)
    BY <2>2 DEF Start, AbortEarly, Bypass, Resume, BeginSettle, installVars, permitVars
  <2> QED
    BY <2>1, <2>2
<1>2. pc[r] # "queued" /\ \A s \in Request \ {r} : pc'[s] = pc[s]
  BY DEF Start, AbortEarly, Bypass, Refuse, Resume, BeginSettle, TypeOK
<1>3. \A k \in Key : \A s \in queue[k] : pc'[s] = "queued"
  BY <1>2 DEF PermitInv, EntriesQueued, TypeOK
<1>4. /\ pc[r] \notin {"idle", "hooks"} => pc'[r] \notin {"idle", "hooks", "queued"}
      /\ pc'[r] = "settling" => Installed(r)
  BY DEF Start, AbortEarly, Bypass, Refuse, Resume, BeginSettle, TypeOK
<1>5. \A s \in admissions : pc[s] \notin {"idle", "hooks", "queued"}
  BY DEF PermitInv, HoldersPlaced
<1>6. \A s \in admissions : pc'[s] \notin {"idle", "hooks", "queued"}
  BY <1>2, <1>4, <1>5 DEF TypeOK
<1>7. \A s \in admissions : /\ pc'[s] = "settling" => Installed(s)
                            /\ born'[s] = born[s]
  <2>1. \A s \in admissions \ {r} : pc'[s] = "settling" => Installed(s)
    BY <1>2 DEF PermitInv, SettlersInstalled, TypeOK
  <2>2. \A s \in admissions : born'[s] = born[s]
    BY <1>5 DEF Start, AbortEarly, Bypass, Refuse, Resume, BeginSettle, TypeOK
  <2> QED
    BY <1>4, <2>1, <2>2
<1>8. \A s \in admissions : pc'[s] = "settling" => Installed(s)'
  BY <1>1, <1>7 DEF Installed, client
<1> QED
  BY <1>1, <1>3, <1>6, <1>8, PermitFrame

LEMMA InstallPermit ==
    ASSUME TypeOK, PermitInv, NEW c \in Client, Install(c)
    PROVE  PermitInv'
<1>1. /\ UNCHANGED <<config, pc, born, admissions, active, queue, records>>
      /\ ~live[c]
      /\ live' = [live EXCEPT ![c] = TRUE]
      /\ epoch' = [epoch EXCEPT ![c] = @ + 1]
  BY DEF Install, requestVars, permitVars
<1>2. \A s \in Request : Installed(s) => Installed(s)'
  BY <1>1 DEF Installed, client, TypeOK
<1>3. \A s \in admissions : pc'[s] = "settling" => Installed(s)'
  BY <1>1, <1>2 DEF PermitInv, SettlersInstalled, TypeOK
<1>4. /\ \A k \in Key : \A s \in queue[k] : pc'[s] = "queued"
      /\ \A s \in admissions : pc'[s] \notin {"idle", "hooks", "queued"}
      /\ \A k \in Key : k \in records /\ active[k] > 0 => k \in records'
  BY <1>1 DEF PermitInv, EntriesQueued, HoldersPlaced
<1> QED
  BY <1>1, <1>3, <1>4, PermitFrame

LEMMA PermitStep == TypeOK /\ PermitInv /\ [Next]_vars => PermitInv'
<1> SUFFICES ASSUME TypeOK, PermitInv, [Next]_vars PROVE PermitInv'
  OBVIOUS
<1>1. CASE UNCHANGED vars
  <2>1. \A k \in Key : Holders(k)' = Holders(k)
    BY <1>1 DEF vars, requestVars, permitVars, Holders, key
  <2> QED
    BY <1>1, <2>1
    DEF vars, requestVars, installVars, permitVars, PermitInv, EntriesQueued,
        HoldersPlaced, SettlersInstalled, ActiveRecorded, PermitsConserved,
        NoWaiterBesideFreePermit, key, client, Installed
<1>2. ASSUME NEW c \in Client, Install(c) \/ Unuse(c)
      PROVE  PermitInv'
  BY <1>2, InstallPermit, UnusePermit
<1>3. ASSUME NEW r \in Request,
             Start(r) \/ AbortEarly(r) \/ Bypass(r) \/ Refuse(r) \/ Resume(r)
                \/ BeginSettle(r)
      PROVE  PermitInv'
  BY <1>3, MovePermit
<1>4. ASSUME NEW r \in Request, Admit(r) \/ Enqueue(r)
      PROVE  PermitInv'
  BY <1>4, AdmitPermit, EnqueuePermit
<1>5. ASSUME NEW r \in Request, AbortQueued(r) \/ QueueTimeout(r)
      PROVE  PermitInv'
  BY <1>5, LeaveQueuePermit DEF AbortQueued, QueueTimeout
<1>6. ASSUME NEW r \in Request, OnSettled(r)
      PROVE  PermitInv'
  BY <1>6, SettleNothingPermit, HandOffPermit, FreePermit DEF OnSettled
<1> QED
  BY <1>1, <1>2, <1>3, <1>4, <1>5, <1>6 DEF Next, OnRequest

LEMMA PermitInvariant == Spec => [](TypeOK /\ PermitInv)
<1>1. Init => TypeOK /\ PermitInv
  BY TypeInit, PermitInit
<1>2. TypeOK /\ PermitInv /\ [Next]_vars => (TypeOK /\ PermitInv)'
  BY TypeStep, PermitStep
<1> QED
  BY <1>1, <1>2, PTL DEF Spec

(* No interleaving of admissions, hand-offs, aborts, timeouts, removals    *)
(* and trims loses a permit or mints one.                                  *)
THEOREM Conserved == Spec => []PermitsConserved
<1>1. PermitInv => PermitsConserved
  BY DEF PermitInv
<1> QED
  BY <1>1, PermitInvariant, PTL

(* A request waits only while all permits of its key are taken.            *)
THEOREM NobodyWaitsInVain == Spec => []NoWaiterBesideFreePermit
<1>1. PermitInv => NoWaiterBesideFreePermit
  BY DEF PermitInv
<1> QED
  BY <1>1, PermitInvariant, PTL
-----------------------------------------------------------------------------
(* Nobody who stood in line before a new holder waits after the step.      *)
Overtakes(r) == (IF r \in queue[key(r)] THEN ahead[r] ELSE queue[key(r)])
                   \intersect queue'[key(r)] # {}

LEMMA OvertakingStep ==
    ASSUME TypeOK, PermitInv, [Next]_vars,
           NEW r \in Request, r \in admissions' \ admissions
    PROVE  ~Overtakes(r)
<1>1. CASE UNCHANGED vars
  BY <1>1 DEF vars, permitVars
<1>2. ASSUME NEW c \in Client, Install(c)
      PROVE  ~Overtakes(r)
  BY <1>2 DEF Install, permitVars
<1>3. ASSUME NEW c \in Client, Unuse(c)
      PROVE  ~Overtakes(r)
  <2> DEFINE linked   == UNION {queue[k] : k \in Key}
             own      == Mine(c) \intersect linked
             released == Mine(c) \intersect admissions
             last     == \A d \in Client \ {c} : ~live[d]
  <2>1. PICK heirs \in SUBSET (linked \ own) :
           /\ AreHandedTo(heirs, released, own)
           /\ IF last THEN ForgetAll ELSE HandOver(heirs, released, own)
    BY <1>3 DEF Unuse
  <2>2. ~last /\ HandOver(heirs, released, own)
    BY <2>1 DEF ForgetAll
  <2>3. r \in heirs
    BY <2>2 DEF HandOver
  <2>4. r \in queue[key(r)] /\ key(r) \in Key
    BY <2>3 DEF PermitInv, EntriesQueued, TypeOK
  <2>5. ahead[r] \ own \subseteq heirs
    BY <2>1, <2>3 DEF AreHandedTo
  <2>6. queue'[key(r)] = queue[key(r)] \ (own \union heirs)
    BY <2>2, <2>4 DEF HandOver, UnlinkedQueue
  <2> QED
    BY <2>4, <2>5, <2>6 DEF Overtakes
<1>4. ASSUME NEW s \in Request, Admit(s)
      PROVE  ~Overtakes(r)
  <2>1. r = s /\ key(r) \in Key
    BY <1>4 DEF Admit, TypeOK, key
  <2>2. active[key(r)] # MaxConcurrent
    BY <1>4, <2>1, ConcurrencyAssumption
    DEF Admit, HasPermit, TypeOK, ConcurrencyAssumption
  <2>3. queue[key(r)] = {}
    BY <2>1, <2>2 DEF PermitInv, NoWaiterBesideFreePermit
  <2> QED
    BY <2>3 DEF Overtakes
<1>5. ASSUME NEW s \in Request, SettleHandOff(s)
      PROVE  ~Overtakes(r)
  <2>1. key(s) \in Key
    BY DEF TypeOK, key
  <2>2. PICK w \in Heads(key(s)) :
           /\ queue' = UnlinkedQueue({w})
           /\ admissions' = (admissions \ {s}) \union {w}
    BY <1>5 DEF SettleHandOff
  <2>3. r = w /\ r \in queue[key(s)] /\ ahead[r] \intersect queue[key(s)] = {}
    BY <2>2 DEF Heads
  <2>4. key(r) = key(s)
    BY <2>1, <2>3 DEF PermitInv, EntriesQueued
  <2>5. queue'[key(r)] \subseteq queue[key(r)]
    BY <2>1, <2>2, <2>4 DEF UnlinkedQueue
  <2> QED
    BY <2>3, <2>4, <2>5 DEF Overtakes
<1>6. ASSUME NEW s \in Request, ~Admit(s), ~SettleHandOff(s),
             \/ Start(s) \/ AbortEarly(s) \/ OnRequest(s)
             \/ AbortQueued(s) \/ QueueTimeout(s) \/ Resume(s)
             \/ BeginSettle(s) \/ OnSettled(s)
      PROVE  FALSE
  BY <1>6
  DEF Start, AbortEarly, OnRequest, Bypass, Refuse, Enqueue, AbortQueued,
      QueueTimeout, LeaveQueue, Resume, BeginSettle, OnSettled, SettleNothing,
      SettleFree, permitVars
<1> QED
  BY <1>1, <1>2, <1>3, <1>4, <1>5, <1>6 DEF Next

(* The queue of every key is first in, first out, and a newcomer never     *)
(* overtakes it, also when a removal hands on several permits at once.     *)
THEOREM FirstInFirstOut == Spec => NoOvertaking
<1>1. TypeOK /\ PermitInv /\ [Next]_vars =>
        [\A r \in Request : r \in admissions' \ admissions =>
           (IF r \in queue[key(r)] THEN ahead[r] ELSE queue[key(r)])
              \intersect queue'[key(r)] = {}]_vars
  BY OvertakingStep DEF Overtakes
<1> QED
  BY <1>1, PermitInvariant, PTL DEF Spec, NoOvertaking
-----------------------------------------------------------------------------
LEMMA RemovalStep ==
    ASSUME TypeOK, [Next]_vars, NEW c \in Client, live[c], ~live'[c],
           NEW r \in Request, client(r) # c, Installed(r)
    PROVE  /\ pc[r] = "queued" => pc'[r] \in {"queued", "granted"}
           /\ r \in admissions => r \in admissions'
<1>1. Unuse(c)
  <2>1. ASSUME NEW d \in Client, Install(d) PROVE FALSE
    BY <2>1 DEF Install, TypeOK
  <2>2. ASSUME NEW d \in Client, Unuse(d) PROVE d = c
    BY <2>2 DEF Unuse, TypeOK
  <2>3. ASSUME live' = live PROVE FALSE
    BY <2>3
  <2>4. ASSUME NEW s \in Request,
               \/ Start(s) \/ AbortEarly(s) \/ OnRequest(s)
               \/ AbortQueued(s) \/ QueueTimeout(s) \/ Resume(s)
               \/ BeginSettle(s) \/ OnSettled(s)
        PROVE  live' = live
    BY <2>4
    DEF Start, AbortEarly, OnRequest, Bypass, Admit, Refuse, Enqueue, AbortQueued,
        QueueTimeout, LeaveQueue, Resume, BeginSettle, OnSettled, SettleNothing,
        SettleHandOff, SettleFree, installVars
  <2>5. CASE UNCHANGED vars
    BY <2>3, <2>5 DEF vars, installVars
  <2> QED
    BY <2>1, <2>2, <2>3, <2>4, <2>5 DEF Next
<1> DEFINE linked   == UNION {queue[k] : k \in Key}
           own      == Mine(c) \intersect linked
           released == Mine(c) \intersect admissions
           last     == \A d \in Client \ {c} : ~live[d]
<1>2. PICK heirs \in SUBSET (linked \ own) :
         /\ AreHandedTo(heirs, released, own)
         /\ IF last THEN ForgetAll ELSE HandOver(heirs, released, own)
         /\ pc' = [s \in Request |-> IF s \in own THEN "failed"
                                     ELSE IF s \in heirs THEN "granted"
                                     ELSE pc[s]]
  BY <1>1 DEF Unuse
<1>3. r \notin Mine(c)
  BY DEF Mine
<1>4. client(r) \in Client \ {c} /\ live[client(r)]
  BY DEF TypeOK, client, Installed
<1>5. HandOver(heirs, released, own)
  BY <1>2, <1>4
<1> QED
  BY <1>2, <1>3, <1>5 DEF HandOver

(* unuse() of one client neither rejects a waiting request of another nor  *)
(* takes its permit, however many installations share the limiter.         *)
THEOREM RemovalScoped == Spec => RemovalIsScoped
<1>1. TypeOK /\ [Next]_vars =>
        [\A c \in Client : live[c] /\ ~live'[c] =>
           \A r \in Request : client(r) # c /\ Installed(r) =>
              /\ pc[r] = "queued" => pc'[r] \in {"queued", "granted"}
              /\ r \in admissions => r \in admissions']_vars
  BY RemovalStep
<1> QED
  BY <1>1, TypeCorrect, PTL DEF Spec, RemovalIsScoped
-----------------------------------------------------------------------------
(* The records.  Only idle ones are trimmed, so once trimming has run, an  *)
(* idle record is left only within the limit.  The counter of a record     *)
(* tells whether it is idle, because nobody waits beside a free permit.    *)
RecordsInv == /\ IsFiniteSet(records)
              /\ Cardinality(records) > MaxKeys => Idle = {}

LEMMA TrimBounds ==
    ASSUME NEW recs, IsFiniteSet(recs), NEW idle \in SUBSET recs, NEW limit \in Nat,
           NEW rest \in Trimmed(recs, idle, limit)
    PROVE  /\ IsFiniteSet(rest)
           /\ Cardinality(rest) <= limit \/ rest = recs \ idle
<1> DEFINE n == Cardinality(recs)
           i == Cardinality(idle)
<1>1. PICK gone \in SUBSET idle :
         /\ rest = recs \ gone
         /\ Cardinality(gone) = Least(Minus(n, limit), i)
  BY DEF Trimmed
<1> DEFINE g == Cardinality(gone)
<1>2. /\ IsFiniteSet(idle) /\ IsFiniteSet(gone) /\ IsFiniteSet(rest)
      /\ n \in Nat /\ i \in Nat /\ g \in Nat /\ g <= i
      /\ g = i => gone = idle
  <2>1. IsFiniteSet(idle) /\ IsFiniteSet(gone) /\ IsFiniteSet(rest)
    BY <1>1, FS_Subset
  <2>2. g <= i /\ (g = i => gone = idle)
    BY <2>1, FS_Subset
  <2> QED
    BY <2>1, <2>2, FS_CardinalityType
<1>3. Cardinality(rest) = n - g
  <2>1. recs \intersect gone = gone
    BY <1>1
  <2>2. Cardinality(recs \ gone) = Cardinality(recs) - Cardinality(recs \intersect gone)
    BY <1>2, FS_Difference
  <2> QED
    BY <1>1, <2>1, <2>2
<1>4. CASE g = i
  BY <1>1, <1>2, <1>4
<1>5. CASE g # i
  <2>1. g = Least(Minus(n, limit), i)
    BY <1>1
  <2> HIDE DEF n, i, g
  <2>2. n - g <= limit
    BY <1>2, <1>5, <2>1 DEF Least, Minus
  <2> QED
    BY <1>2, <1>3, <2>2
<1> QED
  BY <1>4, <1>5

LEMMA IdleHasNoActive ==
    ASSUME TypeOK, PermitInv
    PROVE  Idle = {k \in records : active[k] = 0}
<1>1. records \subseteq Key
  BY DEF TypeOK
<1> QED
  BY <1>1, ConcurrencyAssumption
  DEF Idle, PermitInv, NoWaiterBesideFreePermit, ConcurrencyAssumption

(* The records stay, and no busy one becomes idle. *)
LEMMA RecordsFrame ==
    ASSUME TypeOK, PermitInv, RecordsInv, PermitInv', records' = records,
           \A k \in records : active'[k] = 0 => active[k] = 0
    PROVE  RecordsInv'
<1>1. Idle = {k \in records : active[k] = 0} /\ Idle' = {k \in records : active'[k] = 0}
  <2>1. records \subseteq Key /\ records' \subseteq Key
    BY DEF TypeOK
  <2> QED
    BY <2>1, ConcurrencyAssumption
    DEF Idle, PermitInv, NoWaiterBesideFreePermit, ConcurrencyAssumption
<1> QED
  BY <1>1 DEF RecordsInv

(* Records are trimmed to a limit, and a new one, if any, is busy.         *)
LEMMA RecordsTrimmed ==
    ASSUME TypeOK, RecordsInv, TypeOK', PermitInv',
           NEW idle \in SUBSET records, NEW new \in SUBSET records',
           NEW rest \in Trimmed(records, idle, MaxKeys - Cardinality(new)),
           IsFiniteSet(new), Cardinality(new) <= MaxKeys,
           records' = rest \union new,
           \A k \in new \union (records \ idle) : active'[k] # 0
    PROVE  RecordsInv'
<1> DEFINE m == Cardinality(new)
<1>1. m \in Nat /\ MaxKeys \in Nat /\ MaxKeys - m \in Nat
  BY FS_CardinalityType, ConcurrencyAssumption DEF ConcurrencyAssumption
<1>2. IsFiniteSet(rest) /\ (Cardinality(rest) <= MaxKeys - m \/ rest = records \ idle)
  BY <1>1, TrimBounds DEF RecordsInv
<1>3. IsFiniteSet(records')
  BY <1>2, FS_Union
<1>4. CASE rest = records \ idle
  <2>1. \A k \in records' : active'[k] # 0
    BY <1>4
  <2>2. Idle' = {}
    BY <2>1 DEF Idle
  <2> QED
    BY <1>3, <2>2 DEF RecordsInv
<1>5. CASE Cardinality(rest) <= MaxKeys - m
  <2>1. /\ Cardinality(rest \union new)
             = Cardinality(rest) + m - Cardinality(rest \intersect new)
        /\ IsFiniteSet(rest \intersect new)
    BY <1>2, FS_Union, FS_Intersection
  <2>2. /\ Cardinality(rest) \in Nat /\ Cardinality(rest \intersect new) \in Nat
    BY <1>2, <2>1, FS_CardinalityType
  <2> HIDE DEF m
  <2>3. Cardinality(records') <= MaxKeys
    BY <1>1, <1>5, <2>1, <2>2
  <2>4. Cardinality(records') \in Nat
    BY <1>3, FS_CardinalityType
  <2> QED
    BY <1>1, <1>3, <2>3, <2>4 DEF RecordsInv
<1> QED
  BY <1>2, <1>4, <1>5

LEMMA NewRecord ==
    ASSUME TypeOK, PermitInv, RecordsInv, NEW r \in Request, Admit(r),
           TypeOK', PermitInv'
    PROVE  RecordsInv'
<1> DEFINE k0 == key(r)
<1>1. k0 \in Key /\ GetRecord(k0) /\ active' = [active EXCEPT ![k0] = @ + 1]
  BY DEF Admit, TypeOK, key
<1>2. active \in [Key -> 0..MaxConcurrent] /\ records \subseteq Key
  BY DEF TypeOK
<1>3. active'[k0] # 0 /\ \A k \in Key : active'[k] = 0 => active[k] = 0
  BY <1>1, <1>2, ConcurrencyAssumption DEF ConcurrencyAssumption
<1>4. CASE k0 \in records
  BY <1>1, <1>2, <1>3, <1>4, RecordsFrame DEF GetRecord
<1>5. CASE k0 \notin records
  <2>1. PICK rest \in Trimmed(records, Idle, MaxKeys - 1) : records' = rest \union {k0}
    BY <1>1, <1>5 DEF GetRecord
  <2>2. IsFiniteSet({k0}) /\ Cardinality({k0}) = 1 /\ {k0} \in SUBSET records'
    BY <2>1, FS_Singleton
  <2>3. Cardinality({k0}) <= MaxKeys /\ rest \in Trimmed(records, Idle, MaxKeys - Cardinality({k0}))
    BY <2>1, <2>2, ConcurrencyAssumption DEF ConcurrencyAssumption
  <2>4. Idle \in SUBSET records /\ Idle = {k \in records : active[k] = 0}
    BY IdleHasNoActive
  <2>5. \A k \in {k0} \union (records \ Idle) : active'[k] # 0
    BY <1>2, <1>3, <2>4
  <2> QED
    BY <2>1, <2>2, <2>3, <2>4, <2>5, RecordsTrimmed
<1> QED
  BY <1>4, <1>5

LEMMA SettledRecord ==
    ASSUME TypeOK, PermitInv, RecordsInv, NEW r \in Request, SettleFree(r),
           TypeOK', PermitInv'
    PROVE  RecordsInv'
<1> DEFINE k0 == key(r)
<1>1. /\ k0 \in Key /\ k0 \in records
      /\ active' = [active EXCEPT ![k0] = Minus(@, 1)]
  BY DEF SettleFree, Releases, TypeOK, key
<1>2. active \in [Key -> 0..MaxConcurrent] /\ records \subseteq Key
  BY DEF TypeOK
<1>3. \A k \in Key \ {k0} : active'[k] = active[k]
  BY <1>1, <1>2
<1>4. CASE active'[k0] = 0
  <2> DEFINE idle == Idle \union {k0}
  <2>1. records' \in Trimmed(records, idle, MaxKeys)
    BY <1>4 DEF SettleFree
  <2>2. Idle = {k \in records : active[k] = 0}
    BY IdleHasNoActive
  <2>3. idle \in SUBSET records /\ \A k \in {} \union (records \ idle) : active'[k] # 0
    BY <1>1, <1>2, <1>3, <2>2
  <2>4. /\ IsFiniteSet({}) /\ Cardinality({}) = 0 /\ {} \in SUBSET records'
        /\ 0 <= MaxKeys /\ MaxKeys - 0 = MaxKeys /\ records' = records' \union {}
    BY FS_EmptySet, ConcurrencyAssumption DEF ConcurrencyAssumption
  <2> HIDE DEF idle
  <2> QED
    BY <2>1, <2>3, <2>4, RecordsTrimmed
<1>5. CASE active'[k0] # 0
  <2>1. records' = records
    BY <1>5 DEF SettleFree
  <2> QED
    BY <1>2, <1>3, <1>5, <2>1, RecordsFrame
<1> QED
  BY <1>4, <1>5

LEMMA HandedRecords ==
    ASSUME TypeOK, PermitInv, RecordsInv, TypeOK', PermitInv',
           NEW own, NEW released, NEW heirs,
           heirs \subseteq (UNION {queue[k] : k \in Key}) \ own,
           UNCHANGED config, HandOver(heirs, released, own)
    PROVE  RecordsInv'
<1> DEFINE left == Left(released, heirs)
           idle == {k \in records : left[k] = 0 /\ queue[k] \ own = {}}
<1>1. /\ active' = left
      /\ queue' = UnlinkedQueue(own \union heirs)
      /\ admissions' = (admissions \ released) \union heirs
  BY DEF HandOver
<1>2. records \subseteq Key /\ active \in [Key -> 0..MaxConcurrent]
  BY DEF TypeOK
<1>3. ASSUME NEW k \in Key, active'[k] = 0
      PROVE  queue[k] \ own = {}
  <2>1. queue'[k] = {}
    BY <1>3, ConcurrencyAssumption
    DEF PermitInv, NoWaiterBesideFreePermit, ConcurrencyAssumption
  <2>2. queue[k] \ own \subseteq heirs
    BY <1>1, <2>1 DEF UnlinkedQueue
  <2>3. \A w \in queue[k] \ own : w \in Holders(k)'
    BY <1>1, <2>2 DEF Holders, key, PermitInv, EntriesQueued
  <2>4. Holders(k)' = {}
    <3>1. Cardinality(Holders(k)') = 0
      BY <1>3 DEF PermitInv, PermitsConserved
    <3>2. Holders(k)' \in SUBSET Request
      BY DEF Holders, TypeOK
    <3> QED
      BY <3>1, <3>2, RequestsFinite, FS_EmptySet
  <2> QED
    BY <2>3, <2>4
<1>4. CASE \E k \in Key : active[k] > 0 /\ left[k] = 0
  <2>1. records' \in Trimmed(records, idle, MaxKeys)
    BY <1>4 DEF HandOver
  <2>2. idle \in SUBSET records /\ \A k \in {} \union (records \ idle) : active'[k] # 0
    BY <1>1, <1>2, <1>3
  <2>3. /\ IsFiniteSet({}) /\ Cardinality({}) = 0 /\ {} \in SUBSET records'
        /\ 0 <= MaxKeys /\ MaxKeys - 0 = MaxKeys /\ records' = records' \union {}
    BY FS_EmptySet, ConcurrencyAssumption DEF ConcurrencyAssumption
  <2> HIDE DEF idle
  <2> QED
    BY <2>1, <2>2, <2>3, RecordsTrimmed
<1>5. CASE ~ \E k \in Key : active[k] > 0 /\ left[k] = 0
  <2>1. records' = records
    BY <1>5 DEF HandOver
  <2>2. \A k \in records : active'[k] = 0 => active[k] = 0
    BY <1>1, <1>2, <1>5, ConcurrencyAssumption DEF ConcurrencyAssumption
  <2> QED
    BY <2>1, <2>2, RecordsFrame
<1> QED
  BY <1>4, <1>5

LEMMA RecordsStep ==
    TypeOK /\ PermitInv /\ RecordsInv /\ [Next]_vars /\ TypeOK' /\ PermitInv'
       => RecordsInv'
<1> SUFFICES ASSUME TypeOK, PermitInv, RecordsInv, [Next]_vars, TypeOK', PermitInv'
             PROVE  RecordsInv'
  OBVIOUS
<1>1. CASE UNCHANGED <<records, active>>
  BY <1>1, RecordsFrame
<1>2. CASE UNCHANGED vars
  BY <1>1, <1>2 DEF vars, permitVars
<1>3. ASSUME NEW c \in Client, Install(c)
      PROVE  RecordsInv'
  BY <1>1, <1>3 DEF Install, permitVars
<1>4. ASSUME NEW c \in Client, Unuse(c)
      PROVE  RecordsInv'
  <2> DEFINE linked   == UNION {queue[k] : k \in Key}
             own      == Mine(c) \intersect linked
             released == Mine(c) \intersect admissions
             last     == \A d \in Client \ {c} : ~live[d]
  <2>1. PICK heirs \in SUBSET (linked \ own) :
           IF last THEN ForgetAll ELSE HandOver(heirs, released, own)
    BY <1>4 DEF Unuse
  <2>2. UNCHANGED config
    BY <1>4 DEF Unuse
  <2>3. CASE last
    <3>1. records' = {}
      BY <2>1, <2>3 DEF ForgetAll
    <3> QED
      BY <3>1, FS_EmptySet DEF RecordsInv, Idle
  <2>4. CASE ~last
    BY <2>1, <2>2, <2>4, HandedRecords
  <2> QED
    BY <2>3, <2>4
<1>5. ASSUME NEW r \in Request, Refuse(r) \/ Enqueue(r)
      PROVE  RecordsInv'
  <2>1. key(r) \in Key /\ GetRecord(key(r)) /\ ~HasPermit(r) /\ UNCHANGED active
    BY <1>5 DEF Refuse, Enqueue, TypeOK, key
  <2>2. active[key(r)] > 0
    BY <2>1, ConcurrencyAssumption DEF HasPermit, TypeOK, ConcurrencyAssumption
  <2>3. key(r) \in records
    BY <2>1, <2>2 DEF PermitInv, ActiveRecorded
  <2> QED
    BY <1>1, <2>1, <2>3 DEF GetRecord
<1>6. ASSUME NEW r \in Request,
             \/ Start(r) \/ AbortEarly(r) \/ Bypass(r)
             \/ AbortQueued(r) \/ QueueTimeout(r) \/ Resume(r)
             \/ BeginSettle(r) \/ SettleNothing(r) \/ SettleHandOff(r)
      PROVE  RecordsInv'
  BY <1>1, <1>6
  DEF Start, AbortEarly, Bypass, AbortQueued, QueueTimeout, LeaveQueue, Resume,
      BeginSettle, SettleNothing, SettleHandOff, permitVars
<1> QED
  BY <1>2, <1>3, <1>4, <1>5, <1>6, NewRecord, SettledRecord
  DEF Next, OnRequest, OnSettled

(* However many keys come and go, more than maxKeys records are retained   *)
(* only while each of them is busy, and no record in use is ever evicted.  *)
THEOREM RecordsRetained == Spec => []RetentionBounded
<1>1. Init => RecordsInv
  BY FS_EmptySet DEF Init, RecordsInv, Idle
<1>2. TypeOK /\ PermitInv /\ RecordsInv => RetentionBounded
  BY ConcurrencyAssumption
  DEF RecordsInv, RetentionBounded, PermitInv, ActiveRecorded,
      NoWaiterBesideFreePermit, ConcurrencyAssumption
<1>3. TypeOK /\ PermitInv /\ RecordsInv /\ [Next]_vars /\ TypeOK' /\ PermitInv'
         => RecordsInv'
  BY RecordsStep
<1> QED
  BY <1>1, <1>2, <1>3, PermitInvariant, PTL DEF Spec
-----------------------------------------------------------------------------
(* Without late hooks, permits, queue entries and captured hooks all       *)
(* belong to installations that are still there, so that every permit is   *)
(* given back before its request ends.                                     *)
ScopedInv ==
    /\ \A r \in admissions : Installed(r)
    /\ \A k \in Key : \A r \in queue[k] : Installed(r)
    /\ \A r \in Request : pc[r] = "hooks" => Installed(r)
    /\ PermitReturned

(* A step of one request that leaves the installations alone and takes no  *)
(* other request into a queue or to a permit.                              *)
LEMMA ScopedFrame ==
    ASSUME ScopedInv, UNCHANGED <<config, live, epoch>>, NEW r \in Request,
           \A s \in Request \ {r} : pc'[s] = pc[s] /\ born'[s] = born[s],
           \A s \in Request \ {r} : s \in admissions' => s \in admissions,
           \A k \in Key : queue'[k] \ {r} \subseteq queue[k] /\ queue'[k] \subseteq Request,
           admissions' \subseteq Request,
           (r \in admissions' \/ pc'[r] = "hooks" \/ (\E k \in Key : r \in queue'[k]))
              => Installed(r)',
           pc'[r] \in {"failed", "done"} => r \notin admissions'
    PROVE  ScopedInv'
<1>1. \A s \in Request \ {r} : Installed(s) => Installed(s)'
  BY DEF Installed, client
<1> QED
  <2>1. \A s \in admissions' : Installed(s)'
    BY <1>1 DEF ScopedInv
  <2>2. \A k \in Key : \A s \in queue'[k] : Installed(s)'
    BY <1>1 DEF ScopedInv
  <2>3. \A s \in Request : pc'[s] = "hooks" => Installed(s)'
    BY <1>1 DEF ScopedInv
  <2>4. PermitReturned'
    BY DEF ScopedInv, PermitReturned
  <2> QED
    BY <2>1, <2>2, <2>3, <2>4 DEF ScopedInv

LEMMA UnuseScoped ==
    ASSUME ~LateHooks, TypeOK, PermitInv, ScopedInv, NEW c \in Client, Unuse(c)
    PROVE  ScopedInv'
<1> DEFINE linked   == UNION {queue[k] : k \in Key}
           own      == Mine(c) \intersect linked
           released == Mine(c) \intersect admissions
           last     == \A d \in Client \ {c} : ~live[d]
<1>1. PICK heirs \in SUBSET (linked \ own) :
         /\ IF last THEN ForgetAll ELSE HandOver(heirs, released, own)
         /\ pc' = [r \in Request |-> IF r \in own THEN "failed"
                                     ELSE IF r \in heirs THEN "granted"
                                     ELSE pc[r]]
  BY DEF Unuse
<1>2. /\ UNCHANGED <<config, born, epoch>> /\ live' = [live EXCEPT ![c] = FALSE]
      /\ \A r \in Mine(c) : pc[r] # "hooks"
  BY DEF Unuse
<1>3. \A r \in Request : Installed(r) /\ r \notin Mine(c) => Installed(r)'
  BY <1>2 DEF Mine, Installed, client, TypeOK
<1>4. /\ admissions' \subseteq (admissions \ released) \union heirs
      /\ \A k \in Key : queue'[k] \subseteq queue[k] \ own
  BY <1>1 DEF ForgetAll, HandOver, UnlinkedQueue
<1>5. \A r \in own \union heirs : r \in Request /\ pc[r] = "queued" /\ r \notin admissions
  BY DEF TypeOK, PermitInv, EntriesQueued, HoldersPlaced
<1>6. \A r \in heirs : Installed(r) /\ r \notin Mine(c)
  BY DEF ScopedInv
<1>7. \A r \in admissions' : Installed(r)'
  BY <1>3, <1>4, <1>5, <1>6 DEF ScopedInv, TypeOK
<1>8. \A k \in Key : \A r \in queue'[k] : Installed(r)'
  BY <1>3, <1>4 DEF ScopedInv, TypeOK
<1>9. \A r \in Request : pc'[r] = "hooks" => Installed(r)'
  BY <1>1, <1>2, <1>3 DEF ScopedInv
<1>10. PermitReturned'
  BY <1>1, <1>4, <1>5 DEF ScopedInv, PermitReturned
<1> QED
  BY <1>7, <1>8, <1>9, <1>10 DEF ScopedInv

LEMMA SettledScoped ==
    ASSUME TypeOK, PermitInv, ScopedInv, NEW r \in Request, OnSettled(r)
    PROVE  ScopedInv'
<1> USE DEF installVars
<1>1. pc[r] = "settling" /\ key(r) \in Key
  BY DEF OnSettled, SettleNothing, SettleHandOff, SettleFree, TypeOK, key
<1>2. \A k \in Key : r \notin queue[k]
  BY <1>1 DEF PermitInv, EntriesQueued
<1>3. \A k \in Key : queue[k] \subseteq Request
  BY DEF TypeOK
<1>4. CASE SettleNothing(r) \/ SettleFree(r)
  <2>1. /\ UNCHANGED <<config, born, live, epoch, queue>>
        /\ admissions' = admissions \ {r} /\ pc' = [pc EXCEPT ![r] = "done"]
    BY <1>4 DEF SettleNothing, SettleFree
  <2> QED
    BY <1>2, <1>3, <2>1, ScopedFrame DEF TypeOK
<1>5. CASE SettleHandOff(r)
  <2>1. PICK w \in Heads(key(r)) :
           /\ queue' = UnlinkedQueue({w})
           /\ admissions' = (admissions \ {r}) \union {w}
           /\ pc' = [pc EXCEPT ![r] = "done", ![w] = "granted"]
    BY <1>5 DEF SettleHandOff
  <2>2. UNCHANGED <<config, born, live, epoch>>
    BY <1>5 DEF SettleHandOff
  <2>3. w \in queue[key(r)] /\ w \in Request /\ w # r /\ Installed(w)
    BY <1>1, <1>2, <1>3, <2>1 DEF Heads, ScopedInv
  <2>4. \A k \in Key : queue'[k] \subseteq queue[k]
    BY <2>1 DEF UnlinkedQueue
  <2>5. \A s \in Request : Installed(s) => Installed(s)'
    BY <2>2 DEF Installed, client
  <2>6. \A s \in Request : pc'[s] = IF s = w THEN "granted"
                                    ELSE IF s = r THEN "done" ELSE pc[s]
    BY <2>1, <2>3 DEF TypeOK
  <2>7. (\A s \in admissions' : Installed(s)') /\ PermitReturned'
    BY <2>1, <2>3, <2>5, <2>6 DEF ScopedInv, PermitReturned, TypeOK
  <2>8. \A k \in Key : \A s \in queue'[k] : Installed(s)'
    BY <1>3, <2>4, <2>5 DEF ScopedInv
  <2>9. \A s \in Request : pc'[s] = "hooks" => Installed(s)'
    BY <2>5, <2>6 DEF ScopedInv
  <2> QED
    BY <2>7, <2>8, <2>9 DEF ScopedInv
<1> QED
  BY <1>4, <1>5 DEF OnSettled

LEMMA ScopedStep ==
    ASSUME ~LateHooks
    PROVE  TypeOK /\ PermitInv /\ ScopedInv /\ [Next]_vars => ScopedInv'
<1> SUFFICES ASSUME TypeOK, PermitInv, ScopedInv, [Next]_vars PROVE ScopedInv'
  OBVIOUS
<1> USE DEF installVars
<1>1. CASE UNCHANGED vars
  BY <1>1
  DEF vars, requestVars, permitVars, ScopedInv, PermitReturned, Installed, client
<1>2. ASSUME NEW c \in Client, Install(c)
      PROVE  ScopedInv'
  <2>1. /\ UNCHANGED <<config, pc, born, admissions, queue>>
        /\ ~live[c]
        /\ live' = [live EXCEPT ![c] = TRUE]
        /\ epoch' = [epoch EXCEPT ![c] = @ + 1]
    BY <1>2 DEF Install, requestVars, permitVars
  <2>2. \A s \in Request : Installed(s) => Installed(s)'
    BY <2>1 DEF Installed, client, TypeOK
  <2> QED
    BY <2>1, <2>2 DEF ScopedInv, PermitReturned, TypeOK
<1>3. /\ \A k \in Key : queue[k] \subseteq Request
      /\ \A r \in admissions : pc[r] \notin {"idle", "hooks", "queued"}
      /\ \A r \in Request : \A k \in Key : r \in queue[k] => pc[r] = "queued"
  BY DEF TypeOK, PermitInv, EntriesQueued, HoldersPlaced
<1>4. ASSUME NEW r \in Request, Start(r) \/ AbortEarly(r) \/ Bypass(r) \/ Refuse(r)
      PROVE  ScopedInv'
  <2>1. /\ UNCHANGED <<config, live, epoch, admissions, queue>>
        /\ pc[r] \in {"idle", "hooks"} /\ r \notin admissions
        /\ \A s \in Request \ {r} : pc'[s] = pc[s] /\ born'[s] = born[s]
    BY <1>3, <1>4 DEF Start, AbortEarly, Bypass, Refuse, permitVars, TypeOK
  <2>2. pc'[r] = "hooks" => Installed(r)'
    BY <1>4
    DEF Start, AbortEarly, Bypass, Refuse, TypeOK, ScopedInv, Installed, client
  <2> QED
    BY <1>3, <2>1, <2>2, ScopedFrame DEF TypeOK
<1>5. ASSUME NEW r \in Request, Admit(r) \/ Enqueue(r)
      PROVE  ScopedInv'
  <2>1. /\ UNCHANGED <<config, live, epoch, born>>
        /\ pc[r] = "hooks"
        /\ \A s \in Request \ {r} : pc'[s] = pc[s]
        /\ admissions' \subseteq admissions \union {r}
        /\ \A k \in Key : queue'[k] \subseteq queue[k] \union {r}
        /\ pc'[r] \in {"running", "queued"}
    BY <1>5 DEF Admit, Enqueue, TypeOK, key
  <2>2. Installed(r) /\ Installed(r)'
    BY <2>1 DEF ScopedInv, Installed, client
  <2> QED
    BY <1>3, <2>1, <2>2, ScopedFrame DEF TypeOK
<1>6. ASSUME NEW r \in Request, AbortQueued(r) \/ QueueTimeout(r)
      PROVE  ScopedInv'
  <2>1. /\ UNCHANGED <<config, live, epoch, born, admissions>>
        /\ pc[r] = "queued"
        /\ pc' = [pc EXCEPT ![r] = "failed"]
        /\ \A k \in Key : queue'[k] = queue[k] \ {r}
    BY <1>6 DEF AbortQueued, QueueTimeout, LeaveQueue, UnlinkedQueue
  <2> QED
    BY <1>3, <2>1, ScopedFrame DEF TypeOK
<1>7. ASSUME NEW r \in Request, Resume(r) \/ BeginSettle(r)
      PROVE  ScopedInv'
  <2>1. /\ UNCHANGED <<config, live, epoch, born, admissions, queue>>
        /\ pc[r] # "queued"
        /\ \A s \in Request \ {r} : pc'[s] = pc[s]
        /\ pc'[r] \in {"failed", "done"} => ~Installed(r)
        /\ pc'[r] # "hooks"
    BY <1>7 DEF Resume, BeginSettle, permitVars, TypeOK
  <2>2. (r \in admissions => Installed(r)) /\ Installed(r)' = Installed(r)
    BY <2>1 DEF ScopedInv, Installed, client
  <2> QED
    BY <1>3, <2>1, <2>2, ScopedFrame DEF TypeOK
<1> QED
  BY <1>1, <1>2, <1>4, <1>5, <1>6, <1>7, UnuseScoped, SettledScoped
  DEF Next, OnRequest

(* When no unuse() falls between the start of a request and its turn of    *)
(* the hook, a request that has failed or settled holds no permit.         *)
THEOREM PermitsReturned ==
    ASSUME ~LateHooks
    PROVE  Spec => []PermitReturned
<1>1. Init => ScopedInv
  BY DEF Init, ScopedInv, PermitReturned
<1>2. ScopedInv => PermitReturned
  BY DEF ScopedInv
<1>3. TypeOK /\ PermitInv /\ ScopedInv /\ [Next]_vars => ScopedInv'
  BY ScopedStep
<1> QED
  BY <1>1, <1>2, <1>3, PermitInvariant, PTL DEF Spec
-----------------------------------------------------------------------------
(* The limiter implements one PermitPool per key.  The queue of a key is   *)
(* closed: an entry has only entries of the same queue before it, so that  *)
(* unlinking entries of other keys does not change its place.              *)
AheadQueued == \A k \in Key : \A r \in queue[k] : ahead[r] \subseteq queue[k]

Line(k) == [r \in Request |-> IF r \in queue[k] THEN ahead[r] ELSE {}]

LEMMA AheadStep == TypeOK /\ PermitInv /\ AheadQueued /\ [Next]_vars => AheadQueued'
<1> SUFFICES ASSUME TypeOK, PermitInv, AheadQueued, [Next]_vars PROVE AheadQueued'
  OBVIOUS
<1>1. CASE UNCHANGED <<queue, ahead>>
  BY <1>1 DEF AheadQueued
<1>2. ASSUME NEW S, queue' = UnlinkedQueue(S), ahead' = UnlinkedAhead(S)
      PROVE  AheadQueued'
  <2> SUFFICES ASSUME NEW k \in Key, NEW r \in queue'[k]
               PROVE  ahead'[r] \subseteq queue'[k]
    BY DEF AheadQueued
  <2>1. queue'[k] = queue[k] \ S /\ r \in queue[k] /\ r \notin S /\ r \in Request
    BY <1>2 DEF UnlinkedQueue, TypeOK
  <2>2. ahead'[r] = ahead[r] \ S
    BY <1>2, <2>1 DEF UnlinkedAhead
  <2> QED
    BY <2>1, <2>2 DEF AheadQueued
<1>3. ASSUME NEW c \in Client, Install(c) \/ Unuse(c)
      PROVE  AheadQueued'
  <2>1. CASE Install(c)
    BY <1>1, <2>1 DEF Install, permitVars
  <2>2. CASE Unuse(c)
    <3>1. \/ ForgetAll
          \/ \E heirs, released, own : HandOver(heirs, released, own)
      BY <2>2 DEF Unuse
    <3>2. CASE ForgetAll
      BY <3>2 DEF ForgetAll, AheadQueued
    <3>3. CASE \E heirs, released, own : HandOver(heirs, released, own)
      BY <1>2, <3>3 DEF HandOver
    <3> QED
      BY <3>1, <3>2, <3>3
  <2> QED
    BY <1>3, <2>1, <2>2
<1>4. ASSUME NEW r \in Request, Enqueue(r)
      PROVE  AheadQueued'
  <2>1. /\ key(r) \in Key
        /\ queue' = [queue EXCEPT ![key(r)] = @ \union {r}]
        /\ ahead' = [ahead EXCEPT ![r] = queue[key(r)]]
    BY <1>4 DEF Enqueue, TypeOK, key
  <2>4. \A k \in Key : r \notin queue[k]
    BY <1>4 DEF Enqueue, PermitInv, EntriesQueued
  <2> SUFFICES ASSUME NEW k \in Key, NEW s \in queue'[k]
               PROVE  ahead'[s] \subseteq queue'[k]
    BY DEF AheadQueued
  <2>2. CASE s = r
    BY <2>1, <2>2, <2>4 DEF TypeOK, AheadQueued
  <2>3. CASE s # r
    BY <2>1, <2>3 DEF TypeOK, AheadQueued
  <2> QED
    BY <2>2, <2>3
<1>5. ASSUME NEW r \in Request, AbortQueued(r) \/ QueueTimeout(r) \/ SettleHandOff(r)
      PROVE  AheadQueued'
  BY <1>2, <1>5 DEF AbortQueued, QueueTimeout, LeaveQueue, SettleHandOff
<1>6. ASSUME NEW r \in Request,
             \/ Start(r) \/ AbortEarly(r) \/ Bypass(r) \/ Admit(r) \/ Refuse(r)
             \/ Resume(r) \/ BeginSettle(r) \/ SettleNothing(r) \/ SettleFree(r)
      PROVE  AheadQueued'
  BY <1>1, <1>6
  DEF Start, AbortEarly, Bypass, Admit, Refuse, Resume, BeginSettle, SettleNothing,
      SettleFree, permitVars
<1> QED
  BY <1>1, <1>3, <1>4, <1>5, <1>6 DEF Next, OnRequest, OnSettled, vars, permitVars

LEMMA PoolCardinality ==
    ASSUME NEW k, NEW S
    PROVE  Pool(k)!Cardinality(S) = Cardinality(S)
  BY DEF Pool!Cardinality, Cardinality

LEMMA PoolInit == ASSUME Init, NEW k \in Key PROVE Pool(k)!Init
<1>1. queue[k] = {} /\ Holders(k) = {}
  BY DEF Init, Holders
<1> QED
  BY <1>1 DEF Pool!Init

LEMMA PoolStutter ==
    ASSUME NEW k \in Key, Holders(k)' = Holders(k), queue'[k] = queue[k],
           \A u \in queue[k] : ahead'[u] = ahead[u]
    PROVE  UNCHANGED Pool(k)!vars
  BY DEF Pool!vars

LEMMA PoolTake ==
    ASSUME NEW k \in Key, NEW u \in Request, u \notin Holders(k),
           Cardinality(Holders(k)) < MaxConcurrent, queue[k] = {},
           Holders(k)' = Holders(k) \union {u}, queue'[k] = queue[k]
    PROVE  Pool(k)!Next
<1>1. Pool(k)!Take(u)
  BY PoolCardinality DEF Pool!Take
<1> QED
  BY <1>1 DEF Pool!Next

LEMMA PoolJoin ==
    ASSUME NEW k \in Key, NEW u \in Request, u \notin Holders(k) \union queue[k],
           Cardinality(Holders(k)) >= MaxConcurrent, Holders(k)' = Holders(k),
           queue'[k] = queue[k] \union {u}, ahead'[u] = queue[k],
           \A w \in queue[k] : ahead'[w] = ahead[w]
    PROVE  Pool(k)!Next
<1> DEFINE line == [r \in Request |-> IF r \in queue[k] THEN ahead[r] ELSE {}]
<1>1. [r \in Request |-> IF r \in queue'[k] THEN ahead'[r] ELSE {}]
         = [line EXCEPT ![u] = queue[k]]
  OBVIOUS
<1>2. Pool(k)!Join(u)
  BY <1>1, PoolCardinality DEF Pool!Join
<1> QED
  BY <1>2 DEF Pool!Next

(* The entries of unlinked leave the queue, the holders in released give   *)
(* their permits back, and the unlinked ones in heirs get them.            *)
LEMMA PoolLeave ==
    ASSUME TypeOK, PermitInv, AheadQueued, NEW k \in Key,
           NEW unlinked, NEW released, NEW heirs \in SUBSET (unlinked \intersect queue[k]),
           queue'[k] = queue[k] \ unlinked,
           \A u \in queue[k] \ unlinked : ahead'[u] = ahead[u] \ unlinked,
           Holders(k)' = (Holders(k) \ released) \union heirs,
           Cardinality(heirs) = Least(Cardinality(released \intersect Holders(k)),
                                      Cardinality(queue[k] \ (unlinked \ heirs))),
           \A u \in heirs : ahead[u] \ (unlinked \ heirs) \subseteq heirs
    PROVE  Pool(k)!Next \/ UNCHANGED Pool(k)!vars
<1> DEFINE S == ((unlinked \intersect queue[k]) \ heirs)
                   \union (released \intersect Holders(k))
           line == [r \in Request |-> IF r \in queue[k] THEN ahead[r] ELSE {}]
<1>1. /\ Holders(k) \in SUBSET Request /\ queue[k] \in SUBSET Request
      /\ Holders(k) \intersect queue[k] = {}
  BY DEF TypeOK, Holders, PermitInv, EntriesQueued, HoldersPlaced
<1>2. \A u \in queue[k] : ahead[u] \subseteq queue[k]
  BY DEF AheadQueued
<1>3. CASE S = {}
  <2>1. released \intersect Holders(k) = {} /\ unlinked \intersect queue[k] = heirs
    BY <1>3
  <2>2. Cardinality(queue[k] \ (unlinked \ heirs)) \in Nat
    BY <1>1, RequestsFinite
  <2>3. Cardinality(released \intersect Holders(k)) = 0
    BY <2>1, FS_EmptySet
  <2>4. Cardinality(heirs) = 0
    BY <2>2, <2>3 DEF Least
  <2>5. heirs = {}
    BY <1>1, <2>4, RequestsFinite, FS_EmptySet
  <2>6. Holders(k)' = Holders(k) /\ queue'[k] = queue[k]
    BY <2>1, <2>5
  <2>7. ASSUME NEW u \in queue[k] PROVE ahead'[u] = ahead[u]
    <3>1. queue[k] \intersect unlinked = {}
      BY <2>1, <2>5
    <3>2. u \notin unlinked /\ ahead[u] \ unlinked = ahead[u]
      BY <1>2, <3>1
    <3> QED
      BY <3>2
  <2> QED
    BY <2>6, <2>7, PoolStutter
<1>4. CASE S # {}
  <2>1. PICK T \in SUBSET Request : T = S
    BY <1>1
  <2>2. /\ T # {}
        /\ queue[k] \ T = queue[k] \ (unlinked \ heirs)
        /\ Holders(k) \intersect T = released \intersect Holders(k)
        /\ (Holders(k) \ T) \union heirs = Holders(k)'
        /\ queue[k] \ (T \union heirs) = queue'[k]
        /\ heirs \subseteq queue[k] \ T
        /\ T \subseteq Holders(k) \union queue[k]
    BY <1>1, <1>4, <2>1
  <2> HIDE DEF S
  <2>3. \A u \in heirs : line[u] \intersect (queue[k] \ T) \subseteq heirs
    BY <1>1, <2>2
  <2>4. Pool(k)!IsFront(heirs, queue[k] \ T, line, Cardinality(Holders(k) \intersect T))
    BY <2>2, <2>3, PoolCardinality DEF Pool!IsFront, Least
  <2>5. [r \in Request |-> IF r \in queue'[k] THEN ahead'[r] ELSE {}]
           = [u \in Request |-> IF u \in T \union heirs
                                THEN {} ELSE line[u] \ (T \union heirs)]
    <3> SUFFICES ASSUME NEW u \in Request
                 PROVE  (IF u \in queue'[k] THEN ahead'[u] ELSE {})
                           = IF u \in T \union heirs
                             THEN {} ELSE line[u] \ (T \union heirs)
      OBVIOUS
    <3>1. CASE u \in queue'[k]
      <4>1. u \in queue[k] \ unlinked /\ u \notin T \union heirs /\ line[u] = ahead[u]
        BY <1>1, <2>2, <3>1
      <4>2. ahead[u] \ unlinked = ahead[u] \ (T \union heirs)
        BY <1>1, <1>2, <2>2, <4>1
      <4> QED
        BY <3>1, <4>1, <4>2
    <3>2. CASE u \notin queue'[k]
      BY <2>2, <3>2
    <3> QED
      BY <3>1, <3>2
  <2>6. Pool(k)!Leave(T)
    <3>1. heirs \in SUBSET queue[k]
      OBVIOUS
    <3> HIDE DEF line
    <3> QED
      BY <2>2, <2>4, <2>5, <3>1, PoolCardinality DEF Pool!Leave, line
  <2> QED
    BY <2>6 DEF Pool!Next
<1> QED
  BY <1>3, <1>4

LEMMA HookPool ==
    ASSUME TypeOK, PermitInv, NEW k \in Key, NEW r \in Request, Admit(r) \/ Enqueue(r)
    PROVE  Pool(k)!Next \/ UNCHANGED Pool(k)!vars
<1>1. key(r) \in Key /\ pc[r] = "hooks"
  BY DEF Admit, Enqueue, TypeOK, key
<1>2. r \notin admissions /\ r \notin queue[k] /\ \A s \in queue[k] : key(s) = k
  BY <1>1 DEF PermitInv, HoldersPlaced, EntriesQueued
<1>3. /\ UNCHANGED config
      /\ active[k] = Cardinality(Holders(k)) /\ active[k] \in 0..MaxConcurrent
  BY DEF Admit, Enqueue, PermitInv, PermitsConserved, TypeOK
<1>4. CASE Admit(r)
  <2>1. admissions' = admissions \union {r} /\ UNCHANGED <<queue, ahead>>
    BY <1>4 DEF Admit
  <2>2. CASE key(r) = k
    <3>1. Holders(k)' = Holders(k) \union {r} /\ r \notin Holders(k)
      BY <1>2, <1>3, <2>1, <2>2 DEF Holders, key, TypeOK
    <3>2. active[k] < MaxConcurrent
      BY <1>4, <2>2 DEF Admit, HasPermit
    <3>3. queue[k] = {}
      BY <1>3, <3>2, ConcurrencyAssumption
      DEF PermitInv, NoWaiterBesideFreePermit, ConcurrencyAssumption
    <3> QED
      BY <1>3, <2>1, <3>1, <3>2, <3>3, PoolTake
  <2>3. CASE key(r) # k
    <3>1. Holders(k)' = Holders(k)
      BY <1>2, <1>3, <2>1, <2>3 DEF Holders, key, TypeOK
    <3> QED
      BY <2>1, <3>1, PoolStutter
  <2> QED
    BY <2>2, <2>3
<1>5. CASE Enqueue(r)
  <2>1. /\ UNCHANGED admissions
        /\ queue' = [queue EXCEPT ![key(r)] = @ \union {r}]
        /\ ahead' = [ahead EXCEPT ![r] = queue[key(r)]]
    BY <1>5 DEF Enqueue
  <2>2. Holders(k)' = Holders(k) /\ r \notin Holders(k)
    BY <1>2, <1>3, <2>1 DEF Holders, key, TypeOK
  <2>3. \A s \in queue[k] : ahead'[s] = ahead[s]
    BY <1>2, <2>1 DEF TypeOK
  <2>4. CASE key(r) = k
    <3>1. queue'[k] = queue[k] \union {r} /\ ahead'[r] = queue[k]
      BY <2>1, <2>4 DEF TypeOK
    <3>2. ~(active[k] < MaxConcurrent)
      BY <1>5, <2>4 DEF Enqueue, HasPermit
    <3>3. Cardinality(Holders(k)) >= MaxConcurrent
      BY <1>3, <3>2, ConcurrencyAssumption DEF ConcurrencyAssumption
    <3> QED
      BY <1>2, <2>2, <2>3, <3>1, <3>3, PoolJoin
  <2>5. CASE key(r) # k
    <3>1. queue'[k] = queue[k]
      BY <2>1, <2>5 DEF TypeOK
    <3> QED
      BY <2>2, <2>3, <3>1, PoolStutter
  <2> QED
    BY <2>4, <2>5
<1> QED
  BY <1>4, <1>5

LEMMA LeaveQueuePool ==
    ASSUME TypeOK, PermitInv, AheadQueued, NEW k \in Key, NEW r \in Request,
           LeaveQueue(r)
    PROVE  Pool(k)!Next \/ UNCHANGED Pool(k)!vars
<1>1. /\ UNCHANGED <<config, admissions>>
      /\ queue'[k] = queue[k] \ {r}
      /\ \A u \in queue[k] \ {r} : ahead'[u] = ahead[u] \ {r}
  BY DEF LeaveQueue, UnlinkedQueue, UnlinkedAhead, TypeOK
<1>2. Holders(k)' = (Holders(k) \ {}) \union {}
  BY <1>1 DEF Holders, key
<1>3. Cardinality({}) = Least(Cardinality({} \intersect Holders(k)),
                              Cardinality(queue[k] \ ({r} \ {})))
  <2>1. queue[k] \ ({r} \ {}) \in SUBSET Request
    BY DEF TypeOK
  <2>2. Cardinality(queue[k] \ ({r} \ {})) \in Nat
    BY <2>1, RequestsFinite
  <2>3. {} \intersect Holders(k) = {} /\ Cardinality({}) = 0
    BY FS_EmptySet
  <2> QED
    BY <2>2, <2>3 DEF Least
<1> QED
  BY <1>1, <1>2, <1>3, PoolLeave

LEMMA SettlePool ==
    ASSUME TypeOK, PermitInv, AheadQueued, NEW k \in Key, NEW r \in Request,
           OnSettled(r)
    PROVE  Pool(k)!Next \/ UNCHANGED Pool(k)!vars
<1>1. key(r) \in Key /\ pc[r] = "settling" /\ UNCHANGED config
  BY DEF OnSettled, SettleNothing, SettleHandOff, SettleFree, TypeOK, key
<1>2. CASE SettleNothing(r)
  <2>1. r \notin admissions
    BY <1>2, SettlerReleases DEF SettleNothing
  <2>2. admissions' = admissions /\ UNCHANGED <<queue, ahead>>
    BY <1>2, <2>1 DEF SettleNothing
  <2>3. Holders(k)' = Holders(k)
    BY <1>1, <2>2 DEF Holders, key
  <2> QED
    BY <2>2, <2>3, PoolStutter
<1>3. CASE SettleHandOff(r)
  <2>1. PICK w \in Heads(key(r)) :
           /\ queue' = UnlinkedQueue({w})
           /\ ahead' = UnlinkedAhead({w})
           /\ admissions' = (admissions \ {r}) \union {w}
    BY <1>3 DEF SettleHandOff
  <2>2. /\ w \in queue[key(r)] /\ w \in Request /\ key(w) = key(r)
        /\ ahead[w] \subseteq queue[key(r)]
        /\ ahead[w] \intersect queue[key(r)] = {} /\ r \in admissions
    BY <1>1, <1>3, <2>1
    DEF Heads, TypeOK, PermitInv, EntriesQueued, AheadQueued, SettleHandOff, Releases
  <2>3. /\ queue'[k] = queue[k] \ {w}
        /\ \A u \in queue[k] \ {w} : ahead'[u] = ahead[u] \ {w}
    BY <2>1 DEF UnlinkedQueue, UnlinkedAhead, TypeOK
  <2>4. CASE key(r) = k
    <3>1. Holders(k)' = (Holders(k) \ {r}) \union {w}
      BY <1>1, <2>1, <2>2, <2>4 DEF Holders, key
    <3>2. {r} \intersect Holders(k) = {r} /\ queue[k] \ ({w} \ {w}) = queue[k]
          /\ queue[k] \in SUBSET Request
      BY <2>2, <2>4 DEF Holders, TypeOK
    <3>3. /\ Cardinality({r}) = 1 /\ Cardinality({w}) = 1
          /\ Cardinality(queue[k]) \in Nat /\ Cardinality(queue[k]) # 0
      BY <2>2, <2>4, <3>2, RequestsFinite, FS_Singleton, FS_EmptySet
    <3>4. Cardinality({w}) = Least(Cardinality({r} \intersect Holders(k)),
                                   Cardinality(queue[k] \ ({w} \ {w})))
      BY <3>2, <3>3 DEF Least
    <3>5. {w} \in SUBSET ({w} \intersect queue[k])
          /\ \A u \in {w} : ahead[u] \ ({w} \ {w}) \subseteq {w}
      BY <2>2, <2>4
    <3> QED
      BY <2>3, <3>1, <3>4, <3>5, PoolLeave
  <2>5. CASE key(r) # k
    <3>1. Holders(k)' = Holders(k)
      BY <1>1, <2>1, <2>2, <2>5 DEF Holders, key
    <3>2. w \notin queue[k] /\ \A u \in queue[k] : u # w /\ ahead[u] \subseteq queue[k]
      BY <2>2, <2>5 DEF PermitInv, EntriesQueued, AheadQueued
    <3>3. queue[k] \ {w} = queue[k] /\ \A u \in queue[k] : ahead[u] \ {w} = ahead[u]
      <4>1. \A u \in queue[k] : w \notin ahead[u]
        BY <3>2
      <4> QED
        BY <3>2, <4>1
    <3>4. queue'[k] = queue[k] /\ \A u \in queue[k] : ahead'[u] = ahead[u]
      BY <2>3, <3>3
    <3> QED
      BY <3>1, <3>4, PoolStutter
  <2> QED
    BY <2>4, <2>5
<1>4. CASE SettleFree(r)
  <2>1. /\ admissions' = admissions \ {r} /\ UNCHANGED <<queue, ahead>>
        /\ queue[key(r)] = {} /\ r \in admissions
    BY <1>4 DEF SettleFree, Releases
  <2>2. CASE key(r) = k
    <3>1. Holders(k)' = (Holders(k) \ {r}) \union {}
      BY <1>1, <2>1 DEF Holders, key
    <3>2. queue[k] \ ({} \ {}) = {} /\ {r} \intersect Holders(k) = {r}
      BY <2>1, <2>2 DEF Holders
    <3>3. Cardinality({}) = Least(Cardinality({r} \intersect Holders(k)),
                                  Cardinality(queue[k] \ ({} \ {})))
      <4>1. Cardinality({}) = 0 /\ Cardinality({r}) = 1
        BY FS_EmptySet, FS_Singleton
      <4> QED
        BY <3>2, <4>1 DEF Least
    <3>4. queue'[k] = queue[k] \ {} /\ \A u \in queue[k] \ {} : ahead'[u] = ahead[u] \ {}
      BY <2>1, <2>2
    <3> QED
      BY <3>1, <3>3, <3>4, PoolLeave
  <2>3. CASE key(r) # k
    <3>1. Holders(k)' = Holders(k)
      BY <1>1, <2>1, <2>3 DEF Holders, key
    <3> QED
      BY <2>1, <3>1, PoolStutter
  <2> QED
    BY <2>2, <2>3
<1> QED
  BY <1>2, <1>3, <1>4 DEF OnSettled

LEMMA UnusePool ==
    ASSUME TypeOK, PermitInv, AheadQueued, NEW k \in Key, NEW c \in Client, Unuse(c)
    PROVE  Pool(k)!Next \/ UNCHANGED Pool(k)!vars
<1> DEFINE linked   == UNION {queue[l] : l \in Key}
           own      == Mine(c) \intersect linked
           released == Mine(c) \intersect admissions
           last     == \A d \in Client \ {c} : ~live[d]
<1>1. PICK heirs \in SUBSET (linked \ own) :
         /\ AreHandedTo(heirs, released, own)
         /\ IF last THEN ForgetAll ELSE HandOver(heirs, released, own)
  BY DEF Unuse
<1>2. UNCHANGED config
  BY DEF Unuse
<1>3. /\ queue[k] \in SUBSET Request /\ Holders(k) \in SUBSET Request
      /\ \A u \in queue[k] : key(u) = k /\ ahead[u] \subseteq queue[k]
      /\ \A u \in linked : u \in queue[key(u)]
  BY DEF TypeOK, Holders, PermitInv, EntriesQueued, AheadQueued
<1>4. CASE last
  <2>1. ForgetAll
    BY <1>1, <1>4
  <2>2. PICK unlinked, back, none :
           unlinked = queue[k] /\ back = Holders(k) /\ none = {}
    OBVIOUS
  <2>3. /\ queue'[k] = queue[k] \ unlinked
        /\ \A u \in queue[k] \ unlinked : ahead'[u] = ahead[u] \ unlinked
        /\ Holders(k)' = (Holders(k) \ back) \union none
        /\ none \in SUBSET (unlinked \intersect queue[k])
        /\ \A u \in none : ahead[u] \ (unlinked \ none) \subseteq none
    BY <2>1, <2>2 DEF ForgetAll, Holders
  <2>4. Cardinality(none) = Least(Cardinality(back \intersect Holders(k)),
                                  Cardinality(queue[k] \ (unlinked \ none)))
    <3>1. queue[k] \ (unlinked \ none) = {} /\ back \intersect Holders(k) = Holders(k)
      BY <2>2
    <3>2. Cardinality({}) = 0 /\ Cardinality(Holders(k)) \in Nat
      BY <1>3, RequestsFinite, FS_EmptySet
    <3>3. 0 = Least(Cardinality(Holders(k)), 0)
      BY <3>2 DEF Least
    <3> QED
      BY <2>2, <3>1, <3>2, <3>3
  <2> QED
    BY <2>3, <2>4, PoolLeave
<1>5. CASE ~last
  <2> DEFINE gone == own \union heirs
             mine == heirs \intersect queue[k]
  <2>1. HandOver(heirs, released, own)
    BY <1>1, <1>5
  <2>2. /\ queue'[k] = queue[k] \ gone
        /\ \A u \in queue[k] \ gone : ahead'[u] = ahead[u] \ gone
        /\ admissions' = (admissions \ released) \union heirs
    BY <1>3, <2>1 DEF HandOver, UnlinkedQueue, UnlinkedAhead
  <2>3. \A u \in heirs : key(u) = k <=> u \in queue[k]
    BY <1>3
  <2>4. Holders(k)' = (Holders(k) \ released) \union mine
    BY <1>2, <1>3, <2>2, <2>3 DEF Holders, key
  <2>5. queue[k] \ (gone \ mine) = queue[k] \ own
    OBVIOUS
  <2>6. Cardinality(mine) = Least(Cardinality(released \intersect Holders(k)),
                                  Cardinality(queue[k] \ (gone \ mine)))
    BY <1>1, <2>5 DEF AreHandedTo
  <2>7. \A u \in mine : ahead[u] \ (gone \ mine) \subseteq mine
    BY <1>1, <1>3 DEF AreHandedTo
  <2>8. mine \in SUBSET (gone \intersect queue[k])
    OBVIOUS
  <2> HIDE DEF gone, mine, released
  <2> QED
    BY <2>2, <2>4, <2>6, <2>7, <2>8, PoolLeave
<1> QED
  BY <1>4, <1>5

LEMMA PoolStep ==
    ASSUME TypeOK, PermitInv, AheadQueued, [Next]_vars, NEW k \in Key
    PROVE  Pool(k)!Next \/ UNCHANGED Pool(k)!vars
<1>1. CASE UNCHANGED <<config, admissions, queue, ahead>>
  <2>1. Holders(k)' = Holders(k)
    BY <1>1 DEF Holders, key
  <2> QED
    BY <1>1, <2>1, PoolStutter
<1>2. CASE UNCHANGED vars
  BY <1>1, <1>2 DEF vars, requestVars, permitVars
<1>3. ASSUME NEW c \in Client, Install(c) \/ Unuse(c)
      PROVE  Pool(k)!Next \/ UNCHANGED Pool(k)!vars
  BY <1>1, <1>3, UnusePool DEF Install, requestVars, permitVars
<1>4. ASSUME NEW r \in Request,
             \/ Start(r) \/ AbortEarly(r) \/ Bypass(r) \/ Refuse(r) \/ Resume(r)
             \/ BeginSettle(r)
      PROVE  Pool(k)!Next \/ UNCHANGED Pool(k)!vars
  BY <1>1, <1>4 DEF Start, AbortEarly, Bypass, Refuse, Resume, BeginSettle, permitVars
<1>5. ASSUME NEW r \in Request,
             Admit(r) \/ Enqueue(r) \/ AbortQueued(r) \/ QueueTimeout(r) \/ OnSettled(r)
      PROVE  Pool(k)!Next \/ UNCHANGED Pool(k)!vars
  BY <1>5, HookPool, LeaveQueuePool, SettlePool DEF AbortQueued, QueueTimeout
<1> QED
  BY <1>2, <1>3, <1>4, <1>5 DEF Next, OnRequest

(* For each key the limiter is a pool of maxConcurrent permits with one    *)
(* line: a request takes a free permit only past an empty line, joins the  *)
(* line only when no permit is free, and the permits of all who leave at   *)
(* once, by settling, abort, timeout or removal, go to the front of it.    *)
THEOREM PoolRefined == Spec => ImplementsPool
<1>1. Init => AheadQueued /\ \A k \in Key : Pool(k)!Init
  BY PoolInit DEF Init, AheadQueued
<1>2. TypeOK /\ PermitInv /\ AheadQueued /\ [Next]_vars => AheadQueued'
  BY AheadStep
<1>3. TypeOK /\ PermitInv /\ AheadQueued /\ [Next]_vars
         => [\A k \in Key : Pool(k)!Next \/ UNCHANGED Pool(k)!vars]_vars
  BY PoolStep
<1> QED
  BY <1>1, <1>2, <1>3, PermitInvariant, PTL DEF Spec, ImplementsPool
=============================================================================
