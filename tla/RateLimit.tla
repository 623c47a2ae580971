----------------------------- MODULE RateLimit ------------------------------
(***************************************************************************)
(* rateLimitPlugin: at most MaxRequests transport attempts of one key in   *)
(* any rolling window of Interval, the others in a FIFO queue that a timer *)
(* drains, and a cooldown learned from Retry-After during which nothing is *)
(* admitted.  One plugin instance may be installed on several clients.     *)
(*                                                                         *)
(* An action is one callback at time now; the clock advances between them  *)
(* and a timer fires at its due time or later.                             *)
(***************************************************************************)
EXTENDS Integers, FiniteSets

CONSTANTS Client, Key,
          Request,       \* transport attempts
          MaxRequests, Interval, MaxQueue, MaxKeys,
          Delays,        \* values of Retry-After that occur
          MaxRetryAfter,
          Modes,         \* request options that occur, see Mode
          MaxTime,       \* bound of the clock
          MaxInstalls,   \* bound: installations per client
          LateHooks      \* may unuse() run between the capture of a hook list
                         \* and the turn of the plugin's hook in it?

(* enabled = false, or queueTimeout not positive, finite, or Infinity.     *)
Mode == {"bypass", "impatient", "finite", "infinite"}

ASSUME RateLimitAssumption ==
    /\ IsFiniteSet(Request)
    /\ MaxRequests \in Nat \ {0}
    /\ Interval \in Nat \ {0}
    /\ MaxQueue \in Nat
    /\ MaxKeys \in Nat \ {0}
    /\ Delays \subseteq Nat
    /\ MaxRetryAfter \in Nat
    /\ Modes \subseteq Mode
    /\ MaxTime \in Nat
    /\ MaxInstalls \in Nat
    /\ LateHooks \in BOOLEAN

VARIABLES
    now,       \* Date.now()
    config,    \* config[r] : client, key and mode of the attempt
    pc,        \* where the attempt stands, see PC
    born,      \* born[r] : the installation whose hooks r captured last
    aborted,   \* attempts whose signal fired before the plugin's hook
    at,        \* at[r] : when r got its permit
    live,      \* live[c] : the plugin is installed on c
    epoch,     \* epoch[c] : number of the latest installation on c
    records,   \* keys of the records Map
    stamps,    \* stamps[k] : the attempts behind record.timestamps
    cooldown,  \* record.cooldownUntil, 0 for undefined
    timer,     \* due time of record.timer, Off when undefined
    queue,     \* entries linked in the record's queue
    ahead      \* ahead[r] : the entries linked before that of r

requestVars == <<config, pc, born, aborted, at>>
installVars == <<live, epoch>>
recordVars  == <<records, stamps, cooldown, timer, queue, ahead>>
vars == <<now, requestVars, installVars, recordVars>>

Off == -1
Never == -1

(* "hooks": the transport hooks are captured, the plugin's has not run.    *)
(* "granted": the entry is resolved, its continuation has not run.         *)
(* "observing": the response or error hooks are captured for a 429.        *)
PC == {"idle", "hooks", "queued", "granted", "running", "observing",
       "failed", "done"}

key(r) == config[r].key
client(r) == config[r].client
mode(r) == config[r].mode
Installed(r) == live[client(r)] /\ born[r] = epoch[client(r)]

TypeOK ==
    /\ now \in 0..MaxTime
    /\ config \in [Request -> [client : Client, key : Key, mode : Modes]]
    /\ pc \in [Request -> PC]
    /\ born \in [Request -> Nat]
    /\ aborted \in SUBSET Request
    /\ at \in [Request -> 0..MaxTime \union {Never}]
    /\ live \in [Client -> BOOLEAN]
    /\ epoch \in [Client -> Nat]
    /\ records \in SUBSET Key
    /\ stamps \in [Key -> SUBSET Request]
    /\ cooldown \in [Key -> 0..now + MaxRetryAfter]
    /\ timer \in [Key -> Nat \union {Off}]
    /\ queue \in [Key -> SUBSET Request]
    /\ ahead \in [Request -> SUBSET Request]
    /\ \A k \in Key : Cardinality(queue[k]) <= MaxQueue

Init ==
    /\ now = 0
    /\ config \in [Request -> [client : Client, key : Key, mode : Modes]]
    /\ pc = [r \in Request |-> "idle"]
    /\ born = [r \in Request |-> 0]
    /\ aborted = {}
    /\ at = [r \in Request |-> Never]
    /\ live = [c \in Client |-> FALSE]
    /\ epoch = [c \in Client |-> 0]
    /\ records = {}
    /\ stamps = [k \in Key |-> {}]
    /\ cooldown = [k \in Key |-> 0]
    /\ timer = [k \in Key |-> Off]
    /\ queue = [k \in Key |-> {}]
    /\ ahead = [r \in Request |-> {}]
-----------------------------------------------------------------------------
(* Helpers. *)

Least(m, n) == IF m < n THEN m ELSE n

(* pruneTimestamps: what is left of the window (now - Interval, now].      *)
Expired(t) == t <= now - Interval
Recent(k) == {r \in stamps[k] : ~Expired(at[r])}

Cooling(k) == cooldown[k] > now

(* removeQueuedEntry *)
UnlinkedQueue(S) == [k \in Key |-> queue[k] \ S]
UnlinkedAhead(S) == [r \in Request |-> IF r \in S THEN {} ELSE ahead[r] \ S]

(* Wrong variant: whoever leaves takes the timer along. *)
TimerCleared(q) == [k \in Key |-> Off]

(* removeQueuedEntry, clearRecordTimer: no queue, no timer. *)
TimerFor(q) == [k \in Key |-> IF q[k] = {} THEN Off ELSE timer[k]]

(* Wrong variant: the last one in is the first one out. *)
LastInFirstOut(q, before, n) ==
    {P \in SUBSET q : /\ Cardinality(P) = Least(n, Cardinality(q))
                      /\ \A r \in P : \A s \in q : r \in before[s] => s \in P}

(* The n attempts shiftQueue returns first. *)
Front(q, before, n) ==
    {P \in SUBSET q : /\ Cardinality(P) = Least(n, Cardinality(q))
                      /\ \A r \in P : before[r] \intersect q \subseteq P}

(* Wrong variant: the window does not keep a record. *)
IdleWithBudget == {k \in records : queue[k] = {} /\ ~Cooling(k)}

(* trimRecords: the records a new key may push out, each with an empty     *)
(* queue, an empty window and no cooldown.  Such records differ in nothing *)
(* but their key, and which of them goes first is left open.               *)
Idle == {k \in records : queue[k] = {} /\ Recent(k) = {} /\ ~Cooling(k)}

Trimmed(limit) ==
    LET excess == Cardinality(records) - limit
        n == IF excess < 0 THEN 0 ELSE Least(excess, Cardinality(Idle))
    IN  {V \in SUBSET Idle : Cardinality(V) = n}

(* getRecord: the keys it drops to make room for the record of k.          *)
Dropped(k) == IF k \in records THEN {{}} ELSE Trimmed(MaxKeys - 1)

(* A record is created with an empty window, and so is one dropped.        *)
Emptied(f, S, empty) == [k \in Key |-> IF k \in S THEN empty ELSE f[k]]

(* The time at which the window of k has room again. *)
ResetAt(window, when) ==
    Interval + (CHOOSE t \in {when[r] : r \in window} :
                   \A r \in window : t <= when[r])

(* schedule and drain on the record of k, whose queue is q in the order    *)
(* before, and whose cooldown ends at until: arm the timer for the end of  *)
(* the cooldown; or resolve as many heads as the window has room for, and  *)
(* arm it for the reset of the window if somebody is left.  pcs is what    *)
(* the caller makes of pc.                                                 *)
Schedule(k, q, before, until, pcs) ==
    \E heirs \in IF q = {} \/ until > now THEN {{}}
                 ELSE Front(q, before, MaxRequests - Cardinality(Recent(k))) :
       LET window == Recent(k) \union heirs
           when == [r \in Request |-> IF r \in heirs THEN now ELSE at[r]]
       IN
       /\ queue' = [queue EXCEPT ![k] = q \ heirs]
       /\ ahead' = [r \in Request |-> IF r \in heirs THEN {} ELSE before[r] \ heirs]
       /\ stamps' = [stamps EXCEPT ![k] = window]
       /\ at' = when
       /\ pc' = [r \in Request |-> IF r \in heirs THEN "granted" ELSE pcs[r]]
       /\ cooldown' = [cooldown EXCEPT ![k] =
                          IF q = {} \/ until > now THEN until ELSE 0]
       /\ timer' = [timer EXCEPT ![k] = IF q = heirs THEN Off
                                        ELSE IF until > now THEN until
                                        ELSE ResetAt(window, when)]
-----------------------------------------------------------------------------
(* The environment. *)

Tick == /\ now < MaxTime
        /\ now' = now + 1
        /\ UNCHANGED <<requestVars, installVars, recordVars>>

Install(c) ==
    /\ ~live[c]
    /\ epoch[c] < MaxInstalls
    /\ live' = [live EXCEPT ![c] = TRUE]
    /\ epoch' = [epoch EXCEPT ![c] = @ + 1]
    /\ UNCHANGED <<now, requestVars, recordVars>>

Start(r) ==
    /\ pc[r] = "idle"
    /\ live[client(r)]
    /\ pc' = [pc EXCEPT ![r] = "hooks"]
    /\ born' = [born EXCEPT ![r] = epoch[client(r)]]
    /\ UNCHANGED <<now, config, aborted, at, installVars, recordVars>>

AbortEarly(r) ==
    /\ pc[r] = "hooks"
    /\ aborted' = aborted \union {r}
    /\ UNCHANGED <<now, config, pc, born, at, installVars, recordVars>>

(* The transport answers: with 429 and Retry-After, which the hooks of the *)
(* installation are going to look at, or with anything else.               *)
Answer(r) ==
    /\ pc[r] = "running"
    /\ pc' = [pc EXCEPT ![r] = IF Installed(r) THEN "observing" ELSE "done"]
    /\ UNCHANGED <<now, config, born, aborted, at, installVars, recordVars>>

AnswerPlainly(r) ==
    /\ pc[r] = "running"
    /\ pc' = [pc EXCEPT ![r] = "done"]
    /\ UNCHANGED <<now, config, born, aborted, at, installVars, recordVars>>
-----------------------------------------------------------------------------
(* The plugin's onTransport hook. *)

Bypass(r) ==
    /\ pc[r] = "hooks"
    /\ mode(r) = "bypass"
    /\ pc' = [pc EXCEPT ![r] = "running"]
    /\ UNCHANGED <<now, config, born, aborted, at, installVars, recordVars>>

HasRoom(k) == Cardinality(Recent(k)) < MaxRequests

FreeToGo(k) == queue[k] = {} /\ ~Cooling(k) /\ HasRoom(k)

Grant(r) ==
    /\ pc[r] = "hooks"
    /\ mode(r) # "bypass"
    /\ FreeToGo(key(r))
    /\ \E gone \in Dropped(key(r)) :
          /\ records' = (records \ gone) \union {key(r)}
          /\ stamps' = [Emptied(stamps, gone, {}) EXCEPT
                           ![key(r)] = Recent(key(r)) \union {r}]
          /\ cooldown' = Emptied(cooldown, gone, 0)
    /\ at' = [at EXCEPT ![r] = now]
    /\ pc' = [pc EXCEPT ![r] = "running"]
    /\ UNCHANGED <<now, config, born, aborted, installVars, timer, queue, ahead>>

IsFull(k) == Cardinality(queue[k]) >= MaxQueue

MustRefuse(r) == \/ r \in aborted
                 \/ IsFull(key(r))
                 \/ mode(r) = "impatient"

Refuse(r) ==
    /\ pc[r] = "hooks"
    /\ mode(r) # "bypass"
    /\ ~FreeToGo(key(r))
    /\ MustRefuse(r)
    /\ stamps' = [stamps EXCEPT ![key(r)] = Recent(key(r))]
    /\ pc' = [pc EXCEPT ![r] = "failed"]
    /\ UNCHANGED <<now, config, born, aborted, at, installVars,
                   records, cooldown, timer, queue, ahead>>

(* enqueue, appendQueue, and schedule unless a timer runs already or the   *)
(* installation of r is gone.                                              *)
Enqueue(r) ==
    LET k == key(r)
        q == queue[k] \union {r}
        before == [ahead EXCEPT ![r] = queue[k]]
        pcs == [pc EXCEPT ![r] = "queued"]
    IN
    /\ pc[r] = "hooks"
    /\ mode(r) # "bypass"
    /\ ~FreeToGo(k)
    /\ ~MustRefuse(r)
    /\ IF Installed(r) /\ timer[k] = Off
       THEN Schedule(k, q, before, cooldown[k], pcs)
       ELSE /\ queue' = [queue EXCEPT ![k] = q]
            /\ ahead' = before
            /\ stamps' = [stamps EXCEPT ![k] = Recent(k)]
            /\ pc' = pcs
            /\ UNCHANGED <<at, cooldown, timer>>
    /\ UNCHANGED <<now, config, born, aborted, installVars, records>>

(* The abort listener and the queue timer of an entry. *)
LeaveQueue(r) ==
    /\ pc[r] = "queued"
    /\ queue' = UnlinkedQueue({r})
    /\ ahead' = UnlinkedAhead({r})
    /\ timer' = TimerFor(queue')
    /\ pc' = [pc EXCEPT ![r] = "failed"]
    /\ UNCHANGED <<now, config, born, at, installVars, records, stamps, cooldown>>

AbortQueued(r) == LeaveQueue(r) /\ aborted' = aborted \union {r}

QueueTimeout(r) == /\ mode(r) = "finite"
                   /\ LeaveQueue(r)
                   /\ UNCHANGED aborted

(* The continuation of a resolved entry. *)
Resume(r) ==
    /\ pc[r] = "granted"
    /\ pc' = [pc EXCEPT ![r] = IF Installed(r) THEN "running" ELSE "failed"]
    /\ UNCHANGED <<now, config, born, aborted, at, installVars, recordVars>>

(* The timer of the record. *)
TimerFires(k) ==
    /\ timer[k] # Off
    /\ timer[k] <= now
    /\ Schedule(k, queue[k], ahead, cooldown[k], pc)
    /\ UNCHANGED <<now, config, born, aborted, installVars, records>>
-----------------------------------------------------------------------------
(* resolveRetryAfter: when the cooldown of Retry-After: delay ends. *)
CooldownEnd(delay) == now + Least(delay, MaxRetryAfter)

Extends(k, until) == cooldown[k] < until

(* observeRetryAfter, the onResponse and the onError hook, for a response  *)
(* that says Retry-After: delay.  It extends the cooldown or does nothing; *)
(* a new cooldown replaces the timer, by an installation still active.     *)
Observe(r, delay) ==
    LET k == key(r)
        until == CooldownEnd(delay)
        extends == Extends(k, until)
        done == [pc EXCEPT ![r] = "done"]
    IN
    /\ pc[r] = "observing"
    /\ mode(r) # "bypass"
    /\ IF k \in records /\ extends /\ Installed(r)
       THEN /\ Schedule(k, queue[k], ahead, until, done)
            /\ UNCHANGED records
       ELSE /\ \E gone \in Dropped(k) :
                 /\ records' = (records \ gone) \union {k}
                 /\ stamps' = Emptied(stamps, gone, {})
                 /\ cooldown' = [Emptied(cooldown, gone, 0) EXCEPT
                                    ![k] = IF extends THEN until ELSE @]
            /\ timer' = [timer EXCEPT ![k] = IF extends THEN Off ELSE @]
            /\ pc' = done
            /\ UNCHANGED <<at, queue, ahead>>
    /\ UNCHANGED <<now, config, born, aborted, installVars>>

ObserveBypassed(r) ==
    /\ pc[r] = "observing"
    /\ mode(r) = "bypass"
    /\ pc' = [pc EXCEPT ![r] = "done"]
    /\ UNCHANGED <<now, config, born, aborted, at, installVars, recordVars>>
-----------------------------------------------------------------------------
(* The cleanup unuse() runs. *)
Mine(c) == {r \in Request : client(r) = c /\ born[r] = epoch[c]}

Unuse(c) ==
    LET own == Mine(c) \intersect UNION {queue[k] : k \in Key} IN
    /\ live[c]
    /\ LateHooks \/ \A r \in Mine(c) : pc[r] \notin {"hooks", "observing"}
    /\ live' = [live EXCEPT ![c] = FALSE]
    /\ pc' = [r \in Request |-> IF r \in own THEN "failed" ELSE pc[r]]
    /\ IF \A d \in Client \ {c} : ~live[d]
       THEN /\ records' = {}
            /\ stamps' = [k \in Key |-> {}]
            /\ cooldown' = [k \in Key |-> 0]
            /\ timer' = [k \in Key |-> Off]
            /\ queue' = [k \in Key |-> {}]
            /\ ahead' = [r \in Request |-> {}]
            /\ at' = [r \in Request |-> Never]
       ELSE /\ queue' = UnlinkedQueue(own)
            /\ ahead' = UnlinkedAhead(own)
            /\ timer' = TimerFor(queue')
            /\ UNCHANGED <<records, stamps, cooldown, at>>
    /\ UNCHANGED <<now, config, born, aborted, epoch>>
-----------------------------------------------------------------------------
OnTransport(r) == Bypass(r) \/ Grant(r) \/ Refuse(r) \/ Enqueue(r)

Next ==
    \/ Tick
    \/ \E c \in Client : Install(c) \/ Unuse(c)
    \/ \E k \in Key : TimerFires(k)
    \/ \E r \in Request :
          \/ Start(r) \/ AbortEarly(r)
          \/ OnTransport(r)
          \/ AbortQueued(r) \/ QueueTimeout(r) \/ Resume(r)
          \/ Answer(r) \/ AnswerPlainly(r)
          \/ ObserveBypassed(r) \/ \E delay \in Delays : Observe(r, delay)

Spec == Init /\ [][Next]_vars
-----------------------------------------------------------------------------
(* Properties. *)

(* Any window of Interval ending at a grant holds at most MaxRequests      *)
(* grants of the key, whichever path granted them and however late the     *)
(* timer fired (strict rolling window, docs/api.md "Request Rate Limiting")*)
WindowBounded ==
    /\ TypeOK
    /\ \A r \in Request : at[r] # Never =>
        Cardinality({s \in Request :
            key(s) = key(r) /\ at[s] # Never
            /\ at[r] - Interval < at[s] /\ at[s] <= at[r]}) <= MaxRequests

(* Nobody is stranded: a key with a waiter has a timer, due no later than  *)
(* its cooldown or its window requires (or due already).  It fails when    *)
(* unuse() runs before a captured observeRetryAfter hook.                  *)
WaiterHasTimer ==
    \A k \in Key : (\E r \in queue[k] : Installed(r)) =>
        /\ timer[k] # Off
        /\ \/ timer[k] <= now
           \/ timer[k] <= cooldown[k]
           \/ \E r \in stamps[k] : timer[k] <= at[r] + Interval

(* No permit while the key cools down, and permits in order of arrival:    *)
(* nobody who stood before the new holder is still waiting.                *)
GrantsInOrder ==
    [][\A r \in Request : at'[r] # at[r] /\ at'[r] # Never =>
          /\ ~Cooling(key(r))
          /\ (IF r \in queue[key(r)] THEN ahead[r] ELSE queue[key(r)])
                \intersect queue'[key(r)] = {}]_vars

=============================================================================
