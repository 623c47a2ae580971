---------------------------- MODULE Concurrency -----------------------------
(***************************************************************************)
(* concurrencyPlugin: at most MaxConcurrent logical requests of one        *)
(* isolation key are active, the others wait in a FIFO queue of at most    *)
(* MaxQueue entries.  One plugin instance may be installed on several      *)
(* clients, which then share its records; unuse() of one of them rejects   *)
(* its queue entries and gives back its permits.                           *)
(*                                                                         *)
(* JavaScript runs one callback at a time, so an action is one run of a    *)
(* callback up to the point where it returns to the event loop; the places *)
(* where the code waits are the values of pc.                              *)
(***************************************************************************)
EXTENDS Integers, FiniteSets

CONSTANTS Client,         \* clients that install the plugin instance
          Key,            \* isolation keys
          Request,        \* logical requests
          MaxConcurrent,  \* options.maxConcurrent
          MaxQueue,       \* options.maxQueue
          MaxKeys,        \* options.maxKeys
          MaxInstalls,    \* bound: how often one client installs the plugin
          Modes,          \* request options that occur, see Mode
          LateHooks       \* may unuse() run between the start of a request
                          \* and its turn of the plugin's onRequest hook?

(* extensions.concurrency of a request: enabled = false, or queueTimeout   *)
(* not positive, finite, or Infinity.                                      *)
Mode == {"bypass", "impatient", "finite", "infinite"}

ASSUME ConcurrencyAssumption ==
    /\ IsFiniteSet(Request)
    /\ MaxConcurrent \in Nat \ {0}
    /\ MaxQueue \in Nat
    /\ MaxKeys \in Nat \ {0}
    /\ MaxInstalls \in Nat
    /\ Modes \subseteq Mode
    /\ LateHooks \in BOOLEAN

VARIABLES
    config,      \* config[r] : client, key and mode of the request
    pc,          \* where the request stands, see PC
    born,        \* born[r] : the installation of its client r started under
    aborted,     \* requests whose signal has fired
    live,        \* live[c] : the plugin is installed on c ("active")
    epoch,       \* epoch[c] : number of the latest installation on c
    admissions,  \* the entries of all installations' admissions Maps
    records,     \* keys of the records Map
    active,      \* record.active
    queue,       \* entries linked in the record's queue
    ahead        \* ahead[r] : the entries linked before that of r

requestVars == <<config, pc, born, aborted>>
installVars == <<live, epoch>>
permitVars  == <<admissions, records, active, queue, ahead>>
vars == <<requestVars, installVars, permitVars>>

(* "hooks": the hook list is captured, an earlier hook is still awaited.   *)
(* "granted": entry.resolve() has run, the continuation behind it has not. *)
(* "settling": the settled hooks are captured, the plugin's has not run.   *)
PC == {"idle", "hooks", "queued", "granted", "running", "failed",
       "settling", "done"}

key(r) == config[r].key
client(r) == config[r].client
mode(r) == config[r].mode

(* `active` of the closure whose hooks r captured. *)
Installed(r) == live[client(r)] /\ born[r] = epoch[client(r)]

Holders(k) == {r \in admissions : key(r) = k}

TypeOK ==
    /\ config \in [Request -> [client : Client, key : Key, mode : Modes]]
    /\ pc \in [Request -> PC]
    /\ born \in [Request -> Nat]
    /\ aborted \in SUBSET Request
    /\ live \in [Client -> BOOLEAN]
    /\ epoch \in [Client -> Nat]
    /\ admissions \in SUBSET Request
    /\ records \in SUBSET Key
    /\ active \in [Key -> 0..MaxConcurrent]
    /\ queue \in [Key -> SUBSET Request]
    /\ ahead \in [Request -> SUBSET Request]
    /\ \A k \in Key : Cardinality(queue[k]) <= MaxQueue

Init ==
    /\ config \in [Request -> [client : Client, key : Key, mode : Modes]]
    /\ pc = [r \in Request |-> "idle"]
    /\ born = [r \in Request |-> 0]
    /\ aborted = {}
    /\ live = [c \in Client |-> FALSE]
    /\ epoch = [c \in Client |-> 0]
    /\ admissions = {}
    /\ records = {}
    /\ active = [k \in Key |-> 0]
    /\ queue = [k \in Key |-> {}]
    /\ ahead = [r \in Request |-> {}]
-----------------------------------------------------------------------------
(* Helpers. *)

Least(m, n) == IF m < n THEN m ELSE n

(* Math.max(0, n - d) *)
Minus(n, d) == IF d < n THEN n - d ELSE 0

(* removeQueuedEntry for the entries of S. *)
UnlinkedQueue(S) == [k \in Key |-> queue[k] \ S]
UnlinkedAhead(S) == [r \in Request |-> IF r \in S THEN {} ELSE ahead[r] \ S]

(* Wrong variant: an old record is never dropped. *)
NeverTrimmed(recs, idle, limit) == {recs}

(* trimRecords: only idle records go, and only as many as exceed limit.    *)
(* The Map order that picks the oldest idle record is left out: idle       *)
(* records differ in nothing but their key.                                *)
Trimmed(recs, idle, limit) ==
    LET excess == Minus(Cardinality(recs), limit)
    IN  {recs \ gone : gone \in
            {V \in SUBSET idle :
                Cardinality(V) = Least(excess, Cardinality(idle))}}

Idle == {k \in records : active[k] = 0 /\ queue[k] = {}}

(* getRecord: find the record of k or make room for a new one. *)
GetRecord(k) ==
    \/ k \in records /\ UNCHANGED records
    \/ k \notin records
       /\ \E rest \in Trimmed(records, Idle, MaxKeys - 1) :
              records' = rest \union {k}

(* Wrong variant: any entry, not the oldest. *)
AnyEntry(k) == queue[k]

(* shiftQueue: the head of the queue of k. *)
Heads(k) == {w \in queue[k] : ahead[w] \intersect queue[k] = {}}

-----------------------------------------------------------------------------
(* Client.use / Client.unuse and the caller. *)

Install(c) ==
    /\ ~live[c]
    /\ epoch[c] < MaxInstalls
    /\ live' = [live EXCEPT ![c] = TRUE]
    /\ epoch' = [epoch EXCEPT ![c] = @ + 1]
    /\ UNCHANGED <<requestVars, permitVars>>

(* A request enters its lifecycle and captures the onRequest hooks. *)
Start(r) ==
    /\ pc[r] = "idle"
    /\ live[client(r)]
    /\ pc' = [pc EXCEPT ![r] = "hooks"]
    /\ born' = [born EXCEPT ![r] = epoch[client(r)]]
    /\ UNCHANGED <<config, aborted, installVars, permitVars>>

(* The signal of r fires before the plugin's hook runs. *)
AbortEarly(r) ==
    /\ pc[r] = "hooks"
    /\ aborted' = aborted \union {r}
    /\ UNCHANGED <<config, pc, born, installVars, permitVars>>
-----------------------------------------------------------------------------
(* The plugin's onRequest hook. *)

Bypass(r) ==
    /\ pc[r] = "hooks"
    /\ mode(r) = "bypass"
    /\ pc' = [pc EXCEPT ![r] = "running"]
    /\ UNCHANGED <<config, born, aborted, installVars, permitVars>>

HasPermit(r) == active[key(r)] < MaxConcurrent

Admit(r) ==
    /\ pc[r] = "hooks"
    /\ mode(r) # "bypass"
    /\ GetRecord(key(r))
    /\ HasPermit(r)
    /\ active' = [active EXCEPT ![key(r)] = @ + 1]
    /\ admissions' = admissions \union {r}
    /\ pc' = [pc EXCEPT ![r] = "running"]
    /\ UNCHANGED <<config, born, aborted, installVars, queue, ahead>>

MustRefuse(r) == \/ r \in aborted
                 \/ Cardinality(queue[key(r)]) >= MaxQueue
                 \/ mode(r) = "impatient"

Refuse(r) ==
    /\ pc[r] = "hooks"
    /\ mode(r) # "bypass"
    /\ GetRecord(key(r))
    /\ ~HasPermit(r)
    /\ MustRefuse(r)
    /\ pc' = [pc EXCEPT ![r] = "failed"]
    /\ UNCHANGED <<config, born, aborted, installVars,
                   admissions, active, queue, ahead>>

Enqueue(r) ==
    /\ pc[r] = "hooks"
    /\ mode(r) # "bypass"
    /\ GetRecord(key(r))
    /\ ~HasPermit(r)
    /\ ~MustRefuse(r)
    /\ queue' = [queue EXCEPT ![key(r)] = @ \union {r}]
    /\ ahead' = [ahead EXCEPT ![r] = queue[key(r)]]
    /\ pc' = [pc EXCEPT ![r] = "queued"]
    /\ UNCHANGED <<config, born, aborted, installVars, admissions, active>>

(* The abort listener and the queue timer of an entry: unlink, reject. *)
LeaveQueue(r) ==
    /\ pc[r] = "queued"
    /\ queue' = UnlinkedQueue({r})
    /\ ahead' = UnlinkedAhead({r})
    /\ pc' = [pc EXCEPT ![r] = "failed"]
    /\ UNCHANGED <<config, born, installVars, admissions, records, active>>

AbortQueued(r) == LeaveQueue(r) /\ aborted' = aborted \union {r}

QueueTimeout(r) == /\ mode(r) = "finite"
                   /\ LeaveQueue(r)
                   /\ UNCHANGED aborted

(* The continuation of the resolved entry looks at `active` once more. *)
Resume(r) ==
    /\ pc[r] = "granted"
    /\ pc' = [pc EXCEPT ![r] = IF Installed(r) THEN "running" ELSE "failed"]
    /\ UNCHANGED <<config, born, aborted, installVars, permitVars>>
-----------------------------------------------------------------------------
(* The end of a request.  The settled hooks are those registered when it   *)
(* ends; the hook of another installation has no admission of r.           *)
BeginSettle(r) ==
    /\ pc[r] \in {"running", "failed"}
    /\ pc' = [pc EXCEPT ![r] = IF Installed(r) THEN "settling" ELSE "done"]
    /\ UNCHANGED <<config, born, aborted, installVars, permitVars>>

(* Wrong variant: a request without a permit gives one back. *)
ReleasesAnyway(r) == Installed(r) /\ key(r) \in records

Releases(r) == r \in admissions /\ Installed(r) /\ key(r) \in records

(* onSettled without a permit to give back. *)
SettleNothing(r) ==
    /\ pc[r] = "settling"
    /\ ~Releases(r)
    /\ admissions' = admissions \ {r}
    /\ pc' = [pc EXCEPT ![r] = "done"]
    /\ UNCHANGED <<config, born, aborted, installVars,
                   records, active, queue, ahead>>

(* onSettled, releaseAdmission: the permit goes to the head of the queue. *)
SettleHandOff(r) ==
    /\ pc[r] = "settling"
    /\ Releases(r)
    /\ \E w \in Heads(key(r)) :
          /\ queue' = UnlinkedQueue({w})
          /\ ahead' = UnlinkedAhead({w})
          /\ admissions' = (admissions \ {r}) \union {w}
          /\ pc' = [pc EXCEPT ![r] = "done", ![w] = "granted"]
    /\ UNCHANGED <<config, born, aborted, installVars, records, active>>

(* onSettled, releaseAdmission: nobody waits, the permit becomes free. *)
SettleFree(r) ==
    /\ pc[r] = "settling"
    /\ Releases(r)
    /\ queue[key(r)] = {}
    /\ admissions' = admissions \ {r}
    /\ active' = [active EXCEPT ![key(r)] = Minus(@, 1)]
    /\ IF active'[key(r)] = 0
       THEN records' \in Trimmed(records, Idle \union {key(r)}, MaxKeys)
       ELSE UNCHANGED records
    /\ pc' = [pc EXCEPT ![r] = "done"]
    /\ UNCHANGED <<config, born, aborted, installVars, queue, ahead>>
-----------------------------------------------------------------------------
(* The cleanup unuse() runs, in one callback: reject the queue entries of  *)
(* this installation, release its permits one by one, and forget every     *)
(* record when no installation is left.                                    *)

(* Wrong variants: entry.owner is not compared; admissions are forgotten.  *)
MineOrNot(c) == {r \in Request : born[r] = epoch[c]}
OnlyQueued(c) == {r \in Request : /\ client(r) = c /\ born[r] = epoch[c]
                                  /\ pc[r] = "queued"}

Mine(c) == {r \in Request : client(r) = c /\ born[r] = epoch[c]}

(* Wrong variant: the counter goes down, the queue is not served. *)
NobodyServed(heirs, released, own) == heirs = {}

(* releaseAdmission once per released permit: per key, as many heads of    *)
(* the remaining queue are resolved as permits come back.                  *)
AreHandedTo(heirs, released, own) ==
    /\ \A k \in Key :
          Cardinality(heirs \intersect queue[k]) =
              Least(Cardinality(released \intersect Holders(k)),
                    Cardinality(queue[k] \ own))
    /\ \A w \in heirs : ahead[w] \ own \subseteq heirs

(* record.active after the releases, before the records are trimmed. *)
Left(released, heirs) ==
    [k \in Key |-> Minus(active[k], Cardinality(released \intersect Holders(k))
                                    - Cardinality(heirs \intersect queue[k]))]

HandOver(heirs, released, own) ==
    LET left == Left(released, heirs)
        idle == {k \in records : left[k] = 0 /\ queue[k] \ own = {}}
    IN
    /\ active' = left
    /\ queue' = UnlinkedQueue(own \union heirs)
    /\ ahead' = UnlinkedAhead(own \union heirs)
    /\ admissions' = (admissions \ released) \union heirs
    /\ IF \E k \in Key : active[k] > 0 /\ left[k] = 0
       THEN records' \in Trimmed(records, idle, MaxKeys)
       ELSE UNCHANGED records

ForgetAll ==
    /\ records' = {}
    /\ active' = [k \in Key |-> 0]
    /\ queue' = [k \in Key |-> {}]
    /\ ahead' = [r \in Request |-> {}]
    /\ admissions' = {}

Unuse(c) ==
    LET linked   == UNION {queue[k] : k \in Key}
        own      == Mine(c) \intersect linked
        released == Mine(c) \intersect admissions
        last     == \A d \in Client \ {c} : ~live[d]
    IN
    /\ live[c]
    /\ LateHooks \/ \A r \in Mine(c) : pc[r] # "hooks"
    /\ live' = [live EXCEPT ![c] = FALSE]
    /\ \E heirs \in SUBSET (linked \ own) :
          /\ AreHandedTo(heirs, released, own)
          /\ IF last THEN ForgetAll ELSE HandOver(heirs, released, own)
          /\ pc' = [r \in Request |-> IF r \in own THEN "failed"
                                      ELSE IF r \in heirs THEN "granted"
                                      ELSE pc[r]]
    /\ UNCHANGED <<config, born, aborted, epoch>>
-----------------------------------------------------------------------------
OnRequest(r) == Bypass(r) \/ Admit(r) \/ Refuse(r) \/ Enqueue(r)

OnSettled(r) == SettleNothing(r) \/ SettleHandOff(r) \/ SettleFree(r)

Next ==
    \/ \E c \in Client : Install(c) \/ Unuse(c)
    \/ \E r \in Request :
          \/ Start(r) \/ AbortEarly(r)
          \/ OnRequest(r)
          \/ AbortQueued(r) \/ QueueTimeout(r) \/ Resume(r)
          \/ BeginSettle(r) \/ OnSettled(r)

Spec == Init /\ [][Next]_vars

(* Continuations run, timers fire, and the transport of a request ends; no *)
(* fairness for the caller, for unuse() or for abort signals.              *)
Fairness == \A r \in Request :
    /\ WF_vars(OnRequest(r))
    /\ WF_vars(Resume(r))
    /\ WF_vars(BeginSettle(r))
    /\ WF_vars(OnSettled(r))

FairSpec == Spec /\ Fairness
-----------------------------------------------------------------------------
(* Properties. *)

(* The counter active of a record is the number of permits recorded in the *)
(* admissions Maps for it: no hand-off, removal or trim loses a permit or  *)
(* mints one (lines 124, 310-327, 188).                                    *)
PermitsConserved == \A k \in Key : active[k] = Cardinality(Holders(k))

(* A request waits only while every permit is taken, so no waiter is left  *)
(* behind by a release, an abort, a timeout or a removal.                  *)
NoWaiterBesideFreePermit ==
    \A k \in Key : queue[k] # {} => active[k] = MaxConcurrent

(* Records are retained beyond maxKeys only while every one of them is     *)
(* busy, and a busy record is never evicted (lines 338, 325, 361-378).     *)
RetentionBounded ==
    /\ Cardinality(records) > MaxKeys => Idle = {}
    /\ \A k \in Key : active[k] > 0 \/ queue[k] # {} => k \in records

(* A request that failed before its transport, or that has settled, holds  *)
(* no permit.  It fails when unuse() runs before a captured hook.          *)
PermitReturned ==
    \A r \in Request : pc[r] \in {"failed", "done"} => r \notin admissions

(* FIFO: whoever gets a permit leaves nobody waiting who was in line       *)
(* before; a newcomer never overtakes the queue.                           *)
NoOvertaking ==
    [][\A r \in Request : r \in admissions' \ admissions =>
          (IF r \in queue[key(r)] THEN ahead[r] ELSE queue[key(r)])
              \intersect queue'[key(r)] = {}]_vars

(* Removal rejects the queue entries of that client only, and keeps the    *)
(* permits of the other installations (docs/api.md 1002-1007).             *)
RemovalIsScoped ==
    [][\A c \in Client : live[c] /\ ~live'[c] =>
          \A r \in Request : client(r) # c /\ Installed(r) =>
              /\ pc[r] = "queued" => pc'[r] \in {"queued", "granted"}
              /\ r \in admissions => r \in admissions']_vars

(* Every queued request leaves the queue, even one that waits without a    *)
(* timeout: permits come back and are handed on.                           *)
QueueMoves ==
    \A r \in Request : pc[r] = "queued" ~> pc[r] # "queued"
-----------------------------------------------------------------------------
(* Each key is a PermitPool. *)
Pool(k) == INSTANCE PermitPool WITH
    User    <- Request,
    Permits <- MaxConcurrent,
    holders <- Holders(k),
    waiting <- queue[k],
    ahead   <- [r \in Request |-> IF r \in queue[k] THEN ahead[r] ELSE {}]

(* Whatever the limiter does to the record of a key is a step of the pool  *)
(* of that key or leaves it alone.                                         *)
ImplementsPool ==
    /\ \A k \in Key : Pool(k)!Init
    /\ [][\A k \in Key : Pool(k)!Next \/ UNCHANGED Pool(k)!vars]_vars
=============================================================================
