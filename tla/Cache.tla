------------------------------- MODULE Cache -------------------------------
(***************************************************************************)
(* cachePlugin over an asynchronous store.  A request takes the generation *)
(* token of its key, reads the store, and answers from it, joins a request *)
(* in flight, or goes to the network as a leader; its response is written  *)
(* only while its token is the current one.  delete(), set(), update(),    *)
(* invalidateTags() and clear() drop tokens at once and reach the store    *)
(* later, after the operations they have to wait for.                      *)
(*                                                                         *)
(* The store applies its calls in the order they were made, each at some   *)
(* later time, and a callback of its promise runs in the step that applies *)
(* the call.  Callers and operations happen once, so a token or an         *)
(* in-flight record is named after the request that created it.  An entry  *)
(* is known by the number of invalidations issued before its request       *)
(* began.  state.generation needs no variable: clear() drops every token   *)
(* when it counts it up.                                                   *)
(***************************************************************************)
EXTENDS Naturals, Sequences, FiniteSets

CONSTANTS
    Key, Tag,
    Request,      \* requests of the application
    Refresh,      \* bound: background refreshes
    Operation,    \* bound: explicit and automatic invalidations
    Installation,
    Kind,         \* operations that may occur
    Config,       \* effective cache options of a request
    Policy,       \* what the headers of a response allow
    HasLeases,    \* does the store have acquireRefreshLease?
    MayFail,      \* may the calls of the store fail?
    None

Caller == Request \cup Refresh

CacheAssumption ==
    /\ Kind \subseteq {"delete", "set", "update", "tags", "clear"}
    /\ Config \subseteq [cached : BOOLEAN, dedupe : BOOLEAN, forced : BOOLEAN, raw : BOOLEAN,
                         tags : SUBSET Tag, mutates : SUBSET Tag]
    /\ Policy \subseteq [ttl : BOOLEAN, etag : BOOLEAN, sie : BOOLEAN, swr : BOOLEAN]
    /\ HasLeases \in BOOLEAN /\ MayFail \in BOOLEAN
    /\ None \notin Caller \cup Operation \cup Installation /\ Caller \cap Operation = {}
    /\ IsFiniteSet(Caller) /\ IsFiniteSet(Operation)

VARIABLES
    req,          \* each caller's requestContext and what the WeakMaps hold for it
    token,        \* generation tokens: tags and activeRequests
    live,         \* per key: keyGenerations, inFlight, rawInFlight, backgroundRefreshes
    op,           \* the operations
    keyOp,        \* keyOperations
    tagOp,        \* tagInvalidations
    store,
    calls,        \* calls of the store not applied yet
    installation

vars == <<req, token, live, op, keyOp, tagOp, store, calls, installation>>

----------------------------------------------------------------------------

(* fresh, stale but inside the stale windows, or older than those.         *)
Age == {"fresh", "stale", "old"}
Stamp == 0..Cardinality(Operation)
Entry == [born : Stamp, tags : SUBSET Tag, age : Age, raw : BOOLEAN,
          policy : [ttl : BOOLEAN, etag : BOOLEAN, sie : BOOLEAN, swr : BOOLEAN]]

Waiting == {"waits", "reads", "joins", "asks", "drops", "fetches", "writes"}
PC == {"new", "spawned", "ends", "done"} \cup Waiting

NoRequest ==
    [pc |-> "new", inst |-> None, key |-> None, conf |-> None,
     waits |-> {},          \* operations the request waits for before it reads
     born |-> 0, after |-> {}, \* history: when it began, operations issued before
     token |-> None,        \* requestGenerations
     joined |-> None,       \* whose in-flight record it waits for
     leads |-> FALSE,       \* leaders
     outcome |-> "pending", \* how the promise of its in-flight record settled
     completed |-> None,    \* completedRecords
     uncacheable |-> FALSE, \* uncacheableLeaders
     rawDemanded |-> FALSE,
     forced |-> FALSE,      \* forcedRevalidations
     fallback |-> None,     \* staleFallbacks
     cond |-> None,         \* revalidations
     lease |-> "none", seen |-> None, \* refreshLeases; the record it was asked with
     answer |-> None, error |-> FALSE]

NoOperation == [pc |-> "new", kind |-> None, key |-> None, tags |-> {}, at |-> 0, waits |-> {}]
Blank == [gen |-> None, flight |-> None, rawFlight |-> None, refresh |-> None]

Init ==
    /\ req = [c \in Caller |-> NoRequest]
    /\ token = [c \in Caller |-> [tags |-> {}, active |-> 0]]
    /\ live = [k \in Key |-> Blank]
    /\ op = [o \in Operation |-> NoOperation]
    /\ keyOp = [k \in Key |-> None] /\ tagOp = [t \in Tag |-> None]
    /\ store = [k \in Key |-> None]
    /\ calls = <<>>
    /\ installation = [i \in Installation |-> "on"]

Active(c) == req[c].inst # None /\ installation[req[c].inst] = "on"

\* The mutant: only an existing token is looked for, not the request's own.
AnyGeneration(c) == req[c].token # None /\ live[req[c].key].gen # None

\* isCurrentCacheGeneration
Current(c) == req[c].token # None /\ live[req[c].key].gen = req[c].token

Call(name, by, k, e) == [call |-> name, by |-> by, key |-> k, entry |-> e]
Becomes(c, r) == req' = [req EXCEPT ![c] = r]
Persists(p) == p.ttl \/ p.etag \/ p.sie \/ p.swr
Epoch == Cardinality({o \in Operation : op[o].pc # "new"})

\* Does operation o concern a request for k with these tags?
Concerns(o, k, tags) ==
    /\ op[o].pc # "new"
    /\ CASE op[o].kind = "clear" -> TRUE
         [] op[o].kind = "tags"  -> op[o].tags \cap tags # {}
         [] OTHER                -> op[o].key = k

----------------------------------------------------------------------------
\* The request hook

\* acquireCacheGeneration, and the wait for operations on the key and the tags.
Begin(c, i, k, f) ==
    LET owner == IF live[k].gen = None THEN c ELSE live[k].gen
        waits == ({keyOp[k]} \cup {tagOp[t] : t \in f.tags}) \ {None}
        r == [req[c] EXCEPT !.inst = i, !.key = k, !.conf = f, !.born = Epoch,
                  !.forced = f.forced \/ c \in Refresh,
                  !.after = {o \in Operation : Concerns(o, k, f.tags)}]
    IN  IF ~f.cached
        THEN /\ Becomes(c, [r EXCEPT !.pc = "fetches"])
             /\ UNCHANGED <<token, live, calls>>
        ELSE /\ Becomes(c, [r EXCEPT !.pc = IF waits = {} THEN "reads" ELSE "waits",
                                !.waits = waits, !.token = owner])
             /\ token' = [token EXCEPT ![owner].tags = @ \cup f.tags, ![owner].active = @ + 1]
             /\ live' = [live EXCEPT ![k].gen = owner]
             /\ calls' = IF waits = {} THEN Append(calls, Call("get", c, k, None)) ELSE calls

Start(c) ==
    /\ c \in Request /\ req[c].pc = "new"
    /\ \E i \in Installation, k \in Key, f \in Config :
          installation[i] = "on" /\ Begin(c, i, k, f)
    /\ UNCHANGED <<op, keyOp, tagOp, store, installation>>

\* context.dispatch(): without its installation the refresh is an ordinary request.
StartRefresh(c) ==
    /\ req[c].pc = "spawned"
    /\ IF Active(c) THEN Begin(c, req[c].inst, req[c].key, req[c].conf)
       ELSE Becomes(c, [req[c] EXCEPT !.pc = "fetches"]) /\ UNCHANGED <<token, live, calls>>
    /\ UNCHANGED <<op, keyOp, tagOp, store, installation>>

Read(c) ==
    /\ req[c].pc = "waits"
    /\ \A o \in req[c].waits : op[o].pc \in {"done", "failed"}
    /\ Becomes(c, [req[c] EXCEPT !.pc = "reads"])
    /\ calls' = Append(calls, Call("get", c, req[c].key, None))
    /\ UNCHANGED <<token, live, op, keyOp, tagOp, store, installation>>

----------------------------------------------------------------------------
\* prepareCacheMiss.  r is the request's record, q the calls left to the store.

Pending(r) ==
    IF r.conf.raw \/ live[r.key].flight = None THEN live[r.key].rawFlight ELSE live[r.key].flight

\* prepareConditionalRevalidation: only a record with a validator is asked for again.
Fetching(r, rec) ==
    [r EXCEPT !.pc = "fetches", !.cond = IF rec # None /\ rec.policy.etag THEN rec ELSE None]

Unshared(c, r) ==
    /\ ~Active(c) \/ ~Current(c)
    /\ Becomes(c, [r EXCEPT !.pc = "fetches"])
    /\ UNCHANGED live

Join(c, r) ==
    /\ Active(c) /\ Current(c) /\ r.conf.dedupe /\ Pending(r) # None
    /\ Becomes(c, [r EXCEPT !.pc = "joins", !.joined = Pending(r)])
    /\ UNCHANGED live

Ask(c, r, rec) ==
    /\ Active(c) /\ Current(c) /\ r.conf.dedupe /\ Pending(r) = None
    /\ HasLeases /\ r.lease = "none"
    /\ Becomes(c, [r EXCEPT !.pc = "asks", !.lease = "asked", !.seen = rec])
    /\ UNCHANGED live

Lead(c, r, rec) ==
    /\ Active(c) /\ Current(c) /\ r.conf.dedupe /\ Pending(r) = None
    /\ ~HasLeases \/ r.lease # "none"
    /\ LET data == live[r.key].flight
           led == [Fetching(r, rec) EXCEPT !.leads = TRUE]
       IN  req' = [x \in Caller |->
                     IF x = c THEN led
                     ELSE IF r.conf.raw /\ x = data THEN [req[x] EXCEPT !.rawDemanded = TRUE]
                     ELSE req[x]]
    /\ live' = IF r.conf.raw THEN [live EXCEPT ![r.key].rawFlight = c]
               ELSE [live EXCEPT ![r.key].flight = c]

FetchAlone(c, r, rec) ==
    /\ Active(c) /\ Current(c) /\ ~r.conf.dedupe
    /\ Becomes(c, Fetching(r, rec))
    /\ UNCHANGED live

Miss(c, r, rec, q) ==
    /\ \/ Unshared(c, r) \/ Join(c, r) \/ Ask(c, r, rec) \/ Lead(c, r, rec) \/ FetchAlone(c, r, rec)
    /\ calls' = q

----------------------------------------------------------------------------
\* handleCacheRecord

Usable(r, rec) == rec.raw \/ ~r.conf.raw
ServesFresh(r, rec) == rec.age = "fresh" /\ ~r.forced
ServesStale(c, r, rec) ==
    rec.age # "old" /\ rec.policy.swr /\ ~r.forced /\ c \notin Refresh /\ Usable(r, rec)
Revalidates(r, rec) == rec.policy.etag /\ Usable(r, rec)

WithFallback(c, r, rec) ==
    IF rec.age # "old" /\ rec.policy.sie /\ c \notin Refresh /\ Usable(r, rec)
    THEN [r EXCEPT !.fallback = rec] ELSE r

Hit(r, rec) == [r EXCEPT !.pc = "ends", !.answer = rec]

\* startBackgroundRefresh; no refresh is started when none of the bound is left.
SpawnRefresh(c, r, rec) ==
    LET idle == {b \in Refresh : req[b].pc = "new"}
    IN  IF live[r.key].refresh # None \/ idle = {}
        THEN Becomes(c, Hit(r, rec)) /\ UNCHANGED live
        ELSE \E b \in idle :
               /\ req' = [req EXCEPT ![c] = Hit(r, rec),
                             ![b] = [@ EXCEPT !.pc = "spawned", !.inst = r.inst,
                                         !.key = r.key, !.conf = r.conf]]
               /\ live' = [live EXCEPT ![r.key].refresh = b]

NoRecord(c, r, rec, q) ==
    /\ ~Active(c) \/ ~Current(c) \/ rec = None
    /\ Miss(c, r, None, q)

FreshRecord(c, r, rec, q) ==
    /\ Active(c) /\ Current(c) /\ rec # None /\ ServesFresh(r, rec)
    /\ IF Usable(r, rec) THEN Becomes(c, Hit(r, rec)) /\ UNCHANGED live /\ calls' = q
       ELSE Miss(c, r, None, q)

StaleRecord(c, r, rec, q) ==
    /\ Active(c) /\ Current(c) /\ rec # None /\ ~ServesFresh(r, rec) /\ ServesStale(c, r, rec)
    /\ SpawnRefresh(c, r, rec)
    /\ calls' = q

Refetch(c, r, rec, q) ==
    /\ Active(c) /\ Current(c) /\ rec # None /\ ~ServesFresh(r, rec) /\ ~ServesStale(c, r, rec)
    /\ Revalidates(r, rec) \/ rec.age = "fresh" \/ c \in Refresh
    /\ Miss(c, WithFallback(c, r, rec), IF Revalidates(r, rec) THEN rec ELSE None, q)

DropRecord(c, r, rec, q) ==
    /\ Active(c) /\ Current(c) /\ rec # None /\ ~ServesFresh(r, rec) /\ ~ServesStale(c, r, rec)
    /\ ~Revalidates(r, rec) /\ rec.age # "fresh" /\ c \notin Refresh
    /\ Becomes(c, [WithFallback(c, r, rec) EXCEPT !.pc = "drops"])
    /\ calls' = Append(q, Call("delete", c, r.key, None))
    /\ UNCHANGED live

HandleRecord(c, r, rec, q) ==
    \/ NoRecord(c, r, rec, q) \/ FreshRecord(c, r, rec, q) \/ StaleRecord(c, r, rec, q)
    \/ Refetch(c, r, rec, q) \/ DropRecord(c, r, rec, q)

----------------------------------------------------------------------------
\* Refresh leases

\* What becomes of a lease the store grants now.
Granted(c) == IF Active(c) /\ req[c].pc = "asks" THEN "held" ELSE "returned"

\* Another client may hold the lock of the key too, so a grant may be contended.
LeaseGranted(c) ==
    /\ req[c].lease = "asked"
    /\ \A x \in Caller : req[x].lease = "held" => req[x].key # req[c].key
    /\ \E contended \in BOOLEAN :
         LET r == [req[c] EXCEPT !.lease = Granted(c)]
         IN  IF req[c].pc # "asks" THEN Becomes(c, r) /\ UNCHANGED calls
             ELSE IF ~Active(c) THEN Becomes(c, [r EXCEPT !.pc = "fetches"]) /\ UNCHANGED calls
             ELSE /\ Becomes(c, [r EXCEPT !.pc = "reads", !.forced = @ /\ ~contended])
                  /\ calls' = Append(calls, Call("get", c, r.key, None))
    /\ UNCHANGED <<token, live, op, keyOp, tagOp, store, installation>>

\* The lock manager fails: go on without coordination.
LeaseFailed(c) ==
    /\ req[c].lease = "asked"
    /\ LET r == [req[c] EXCEPT !.lease = "void"]
       IN  IF req[c].pc = "asks" THEN HandleRecord(c, r, r.seen, calls)
           ELSE Becomes(c, r) /\ UNCHANGED <<live, calls>>
    /\ UNCHANGED <<token, op, keyOp, tagOp, store, installation>>

----------------------------------------------------------------------------
\* The network and the response hook

Response(c, p) ==
    [born |-> req[c].born, age |-> IF p.ttl THEN "fresh" ELSE "stale", raw |-> req[c].conf.raw, policy |-> p,
     tags |-> IF req[c].token # None /\ token[req[c].token].tags # {} THEN token[req[c].token].tags
              ELSE IF req[c].cond # None THEN req[c].cond.tags ELSE {}]

\* A leader whose data a raw request replaces leaves the store to that one.
MayWrite(c) == Current(c) /\ ~req[c].rawDemanded

\* Only a record that followers may want is kept for a response not to be stored.
Keeps(c) == Current(c) \/ \E x \in Caller : req[x].joined = c

Respond(c, e) ==
    LET r == [req[c] EXCEPT !.answer = e]
        writes == [r EXCEPT !.pc = "writes", !.completed = e]
        ends == [r EXCEPT !.pc = "ends",
                     !.completed = IF Keeps(c) \/ Persists(e.policy) THEN e ELSE None,
                     !.uncacheable = ~Keeps(c) /\ ~Persists(e.policy)]
    IN  IF ~Active(c) \/ r.token = None
        THEN Becomes(c, [r EXCEPT !.pc = "ends"]) /\ UNCHANGED calls
        ELSE IF Persists(e.policy) /\ MayWrite(c)
        THEN Becomes(c, writes) /\ calls' = Append(calls, Call("set", c, r.key, e))
        ELSE IF ~Persists(e.policy) /\ Current(c)
        THEN Becomes(c, writes) /\ calls' = Append(calls, Call("delete", c, r.key, None))
        ELSE Becomes(c, ends) /\ UNCHANGED calls

\* A full response, or a 304 that renews the record the request asked with.
Answered(c) ==
    /\ req[c].pc = "fetches"
    /\ \/ \E p \in Policy : Respond(c, Response(c, p))
       \/ req[c].cond # None /\ Respond(c, Response(c, req[c].cond.policy))
    /\ UNCHANGED <<token, live, op, keyOp, tagOp, store, installation>>

\* An event stream: never shared, and what the store has for the key goes.
Streamed(c) ==
    /\ req[c].pc = "fetches" /\ req[c].token # None
    /\ LET r == [req[c] EXCEPT !.answer = Response(c, [ttl |-> FALSE, etag |-> FALSE, sie |-> FALSE, swr |-> FALSE]),
                     !.uncacheable = Active(c)]
       IN  IF Active(c) /\ Current(c)
           THEN /\ Becomes(c, [r EXCEPT !.pc = "writes"])
                /\ calls' = Append(calls, Call("delete", c, r.key, None))
           ELSE Becomes(c, [r EXCEPT !.pc = "ends"]) /\ UNCHANGED calls
    /\ UNCHANGED <<token, live, op, keyOp, tagOp, store, installation>>

\* The error hook offers the stale record when the failure is eligible.
Failed(c) ==
    /\ req[c].pc = "fetches"
    /\ \/ Becomes(c, [req[c] EXCEPT !.pc = "ends", !.error = TRUE])
       \/ /\ req[c].fallback # None /\ Active(c)
          /\ Becomes(c, [req[c] EXCEPT !.pc = "ends", !.answer = req[c].fallback,
                             !.uncacheable = req[c].leads])
    /\ UNCHANGED <<token, live, op, keyOp, tagOp, store, calls, installation>>

\* waitForSharedRecord
Wake(c) ==
    /\ req[c].pc = "joins" /\ req[req[c].joined].outcome # "pending"
    /\ LET out == req[req[c].joined].outcome
       IN  Becomes(c, IF out = "rejected" THEN [req[c] EXCEPT !.pc = "ends", !.error = TRUE]
                      ELSE IF out = "nothing" THEN [req[c] EXCEPT !.pc = "fetches"]
                      ELSE Hit(req[c], req[req[c].joined].completed))
    /\ UNCHANGED <<token, live, op, keyOp, tagOp, store, calls, installation>>

Stopped(r) ==
    IF r.pc = "spawned" THEN [r EXCEPT !.pc = "done", !.error = TRUE]
    ELSE IF r.pc \in Waiting THEN [r EXCEPT !.pc = "ends", !.error = TRUE]
    ELSE r

\* The caller's signal; calls already made to the store or for a lease go on.
Abort(c) ==
    /\ c \in Request /\ req[c].pc \in Waiting
    /\ Becomes(c, Stopped(req[c]))
    /\ UNCHANGED <<token, live, op, keyOp, tagOp, store, calls, installation>>

----------------------------------------------------------------------------
\* Operations

\* invalidateKeyState of every key in K: the tokens and in-flight records are
\* dropped and background refreshes aborted.
Invalidate(K) ==
    LET refreshes == {live[k].refresh : k \in K}
    IN  /\ live' = [k \in Key |-> IF k \in K THEN Blank ELSE live[k]]
        /\ req' = [c \in Caller |-> IF c \in refreshes THEN Stopped(req[c]) ELSE req[c]]

FirstCall(kind) == IF kind = "update" THEN "get" ELSE kind

\* The entry cache.set() stores.
Given(o) == [born |-> op[o].at, tags |-> op[o].tags, age |-> "fresh", raw |-> FALSE,
             policy |-> [ttl |-> TRUE, etag |-> FALSE, sie |-> FALSE, swr |-> FALSE]]

Issue(o, kind, k, tags, waits) ==
    /\ op' = [op EXCEPT ![o] = [pc |-> IF waits = {} THEN "runs" ELSE "waits", kind |-> kind,
                                key |-> k, tags |-> tags, at |-> Epoch + 1, waits |-> waits]]
    /\ calls' = IF waits = {} THEN Append(calls, Call(FirstCall(kind), o, k, None)) ELSE calls

\* What runKeyOperation waits for.
WaitsFor(kind, k, tags) ==
    ({keyOp[k]} \cup (IF kind = "update" THEN {tagOp[t] : t \in Tag}
                      ELSE IF kind = "set" THEN {tagOp[t] : t \in tags} ELSE {})) \ {None}

\* delete(), set() and update()
KeyOperation(o) ==
    /\ op[o].pc = "new"
    /\ \E kind \in Kind \cap {"delete", "set", "update"}, k \in Key :
       \E tags \in IF kind = "set" THEN {f.tags : f \in {g \in Config : g.cached}} ELSE {{}} :
         /\ Issue(o, kind, k, tags, WaitsFor(kind, k, tags))
         /\ Invalidate({k})
         /\ keyOp' = [keyOp EXCEPT ![k] = o]
    /\ UNCHANGED <<token, tagOp, store, installation>>

\* The mutant: requests in flight for the tags are left alone.
NoneTagged(tags) == {}

\* The keys whose present token carries one of the tags.
Tagged(tags) == {k \in Key : live[k].gen # None /\ token[live[k].gen].tags \cap tags # {}}

\* invalidateTags
InvalidateTags(o, tags) ==
    /\ Issue(o, "tags", None, tags,
             ({keyOp[k] : k \in Key} \cup {tagOp[t] : t \in tags}) \ {None})
    /\ tagOp' = [t \in Tag |-> IF t \in tags THEN o ELSE tagOp[t]]

TagOperation(o) ==
    /\ op[o].pc = "new" /\ "tags" \in Kind
    /\ \E tags \in SUBSET Tag \ {{}} : InvalidateTags(o, tags) /\ Invalidate(Tagged(tags))
    /\ UNCHANGED <<token, keyOp, store, installation>>

\* clear(): the store's clear is chained behind nothing.
Clear(o) ==
    /\ op[o].pc = "new" /\ "clear" \in Kind
    /\ Issue(o, "clear", None, {}, {})
    /\ Invalidate(Key)
    /\ UNCHANGED <<token, keyOp, tagOp, store, installation>>

RunOperation(o) ==
    /\ op[o].pc = "waits" /\ \A p \in op[o].waits : op[p].pc \in {"done", "failed"}
    /\ op' = [op EXCEPT ![o].pc = "runs"]
    /\ calls' = Append(calls, Call(FirstCall(op[o].kind), o, op[o].key, None))
    /\ UNCHANGED <<req, token, live, keyOp, tagOp, store, installation>>

\* The operation settles and takes itself off the maps.
Finished(o, result) ==
    /\ op' = [op EXCEPT ![o].pc = result]
    /\ keyOp' = [k \in Key |-> IF keyOp[k] = o THEN None ELSE keyOp[k]]
    /\ tagOp' = [t \in Tag |-> IF tagOp[t] = o THEN None ELSE tagOp[t]]

----------------------------------------------------------------------------
\* The store applies its oldest call.  A call may fail and then changes nothing.

Oldest == Head(calls)
Rest == Tail(calls)

ReadApplied ==
    /\ calls # <<>> /\ Oldest.call = "get" /\ Oldest.by \in Caller
    /\ LET c == Oldest.by
       IN  IF req[c].pc = "reads" THEN \E rec \in {store[req[c].key]} \cup (IF MayFail THEN {None} ELSE {}) :
                                         HandleRecord(c, req[c], rec, Rest)
           ELSE calls' = Rest /\ UNCHANGED <<req, live>>
    /\ UNCHANGED <<token, op, keyOp, tagOp, store, installation>>

WriteApplied ==
    /\ calls # <<>> /\ Oldest.call \in {"set", "delete"} /\ Oldest.by \in Caller
    /\ LET c == Oldest.by
       IN  /\ \/ store' = [store EXCEPT ![Oldest.key] = Oldest.entry]
              \/ MayFail /\ store' = store
           /\ IF req[c].pc = "drops" THEN Miss(c, req[c], None, Rest)
              ELSE /\ Becomes(c, IF req[c].pc = "writes" THEN [req[c] EXCEPT !.pc = "ends"] ELSE req[c])
                   /\ calls' = Rest /\ UNCHANGED live
    /\ UNCHANGED <<token, op, keyOp, tagOp, installation>>

\* update() read the entry: it is gone, or is written back or deleted next.  The
\* read fails as others do; the updater, which has an entry to update, may throw.
UpdateRead ==
    /\ calls # <<>> /\ Oldest.call = "get" /\ Oldest.by \in Operation
    /\ LET o == Oldest.by
           e == store[Oldest.key]
       IN  \/ e = None /\ Finished(o, "done") /\ calls' = Rest
           \/ (MayFail \/ e # None) /\ Finished(o, "failed") /\ calls' = Rest
           \/ /\ e # None
              /\ \E call \in {Call("set", o, Oldest.key, [e EXCEPT !.born = op[o].at, !.raw = FALSE]),
                              Call("delete", o, Oldest.key, None)} : calls' = Append(Rest, call)
              /\ UNCHANGED <<op, keyOp, tagOp>>
    /\ UNCHANGED <<req, token, live, store, installation>>

Purged(o) ==
    [k \in Key |-> IF op[o].kind = "clear" \/ (store[k] # None /\ store[k].tags \cap op[o].tags # {})
                   THEN None ELSE store[k]]

OperationApplied ==
    /\ calls # <<>> /\ Oldest.call # "get" /\ Oldest.by \in Operation
    /\ LET o == Oldest.by
           entry == IF op[o].kind = "set" THEN Given(o) ELSE Oldest.entry
       IN  \/ /\ store' = IF op[o].kind \in {"tags", "clear"} THEN Purged(o)
                          ELSE [store EXCEPT ![Oldest.key] = entry]
              /\ Finished(o, "done")
           \/ MayFail /\ store' = store /\ Finished(o, "failed")
    /\ calls' = Rest
    /\ UNCHANGED <<req, token, live, installation>>

----------------------------------------------------------------------------
\* The settled hook and the removal of an installation

\* A record is shared although the leader's own schema rejects it
\* (isSchemaValidationFailure): error stands for all other errors.
Outcome(r) ==
    IF r.uncacheable THEN "nothing"
    ELSE IF r.completed # None /\ r.answer # None /\ ~r.error THEN "record" ELSE "rejected"

\* The mutant: the token goes although others still use it.
DropsToken(c) == live[req[c].key].gen = req[c].token

\* releaseCacheGeneration: the last user of the current token takes it off the map.
LastUser(c) == Current(c) /\ token[req[c].token].active = 1

\* How a leader's promise settles.
SettledAs(c) == IF req[c].leads THEN Outcome(req[c]) ELSE "pending"

Left(c, x) == IF x = c THEN None ELSE x

\* The WeakMaps forget the request; its followers still see the outcome.
Forgotten(c, out) ==
    [NoRequest EXCEPT !.pc = "done", !.inst = req[c].inst, !.key = req[c].key, !.outcome = out,
                      !.completed = IF out = "record" THEN req[c].completed ELSE None,
                      !.lease = IF req[c].lease = "held" THEN "returned" ELSE req[c].lease]

\* The maps once the request has left them.
Released(c) ==
    [k \in Key |-> [gen |-> IF k = req[c].key /\ Active(c) /\ LastUser(c) THEN None ELSE live[k].gen,
                    flight |-> Left(c, live[k].flight), rawFlight |-> Left(c, live[k].rawFlight),
                    refresh |-> Left(c, live[k].refresh)]]

CountsDown(c) ==
    token' = IF ~Active(c) \/ req[c].token = None THEN token
             ELSE [token EXCEPT ![req[c].token].active = @ - 1]

AutoInvalidates(c) ==
    /\ Active(c) /\ c \notin Refresh
    /\ req[c].conf.mutates # {} /\ ~req[c].error /\ req[c].answer # None

\* The settled hook; the removed installation's is not called.  A response its
\* schema rejects invalidates nothing, nor does one beyond the bound.
Settle(c) ==
    /\ req[c].pc = "ends"
    /\ Becomes(c, Forgotten(c, IF Active(c) THEN SettledAs(c) ELSE req[c].outcome))
    /\ CountsDown(c) /\ live' = Released(c)
    /\ UNCHANGED <<op, keyOp, tagOp, store, calls, installation>>

\* invalidateAfterSuccess: the request itself has left the maps by then.
SettleMutation(c, o) ==
    /\ req[c].pc = "ends" /\ AutoInvalidates(c) /\ op[o].pc = "new"
    /\ LET left == Released(c)
           K == {k \in Tagged(req[c].conf.mutates) : left[k].gen # None}
       IN  /\ live' = [k \in Key |-> IF k \in K THEN Blank ELSE left[k]]
           /\ req' = [x \in Caller |->
                        IF x = c THEN Forgotten(c, SettledAs(c))
                        ELSE IF x \in {left[k].refresh : k \in K} THEN Stopped(req[x]) ELSE req[x]]
    /\ CountsDown(c)
    /\ InvalidateTags(o, req[c].conf.mutates)
    /\ UNCHANGED <<keyOp, store, installation>>

\* The cleanup: leases and leaders of the installation, tokens and refreshes of all.
Unuse(i) ==
    /\ installation[i] = "on"
    /\ installation' = [installation EXCEPT ![i] = "off"]
    /\ LET leaders == {c \in Caller : req[c].inst = i /\ req[c].leads}
           cleaned(c) == [req[c] EXCEPT
                            !.leads = IF c \in leaders THEN FALSE ELSE @,
                            !.outcome = IF c \in leaders THEN "rejected" ELSE @,
                            !.lease = IF req[c].inst = i /\ @ = "held" THEN "returned" ELSE @]
       IN  /\ req' = [c \in Caller |-> IF c \in {live[k].refresh : k \in Key} THEN Stopped(cleaned(c))
                                       ELSE cleaned(c)]
           /\ live' = [k \in Key |->
                         [gen |-> None, refresh |-> None,
                          flight |-> IF live[k].flight \in leaders THEN None ELSE live[k].flight,
                          rawFlight |-> IF live[k].rawFlight \in leaders THEN None ELSE live[k].rawFlight]]
    /\ UNCHANGED <<token, op, keyOp, tagOp, store, calls>>

\* Time passes for an entry.
Expire(k) ==
    /\ store[k] # None /\ store[k].age # "old"
    /\ store' = [store EXCEPT ![k].age = IF @ = "fresh" THEN "stale" ELSE "old"]
    /\ UNCHANGED <<req, token, live, op, keyOp, tagOp, calls, installation>>

\* Everything has come to rest.
AllDone ==
    /\ \A c \in Caller : req[c].pc \in {"new", "done"}
    /\ calls = <<>> /\ UNCHANGED vars

Next ==
    \/ \E c \in Caller :
          \/ Start(c) \/ StartRefresh(c) \/ Read(c) \/ LeaseGranted(c) \/ LeaseFailed(c)
          \/ Answered(c) \/ Streamed(c) \/ Failed(c) \/ Wake(c) \/ Abort(c) \/ Settle(c)
          \/ \E o \in Operation : SettleMutation(c, o)
    \/ \E o \in Operation : KeyOperation(o) \/ TagOperation(o) \/ Clear(o) \/ RunOperation(o)
    \/ ReadApplied \/ WriteApplied \/ UpdateRead \/ OperationApplied
    \/ \E i \in Installation : Unuse(i)
    \/ \E k \in Key : Expire(k)
    \/ AllDone

Spec == Init /\ [][Next]_vars

----------------------------------------------------------------------------
\* Properties

Optional(S) == S \cup {None}

TypeOK ==
    /\ \A c \in Caller :
         /\ req[c].pc \in PC
         /\ req[c].token \in Optional(Caller) /\ req[c].joined \in Optional(Caller)
         /\ \A e \in {req[c].completed, req[c].fallback, req[c].cond, req[c].answer} : e \in Optional(Entry)
         /\ req[c].outcome \in {"pending", "record", "nothing", "rejected"}
         /\ req[c].lease \in {"none", "asked", "held", "void", "returned"}
    /\ live \in [Key -> [gen : Optional(Caller), flight : Optional(Caller),
                         rawFlight : Optional(Caller), refresh : Optional(Refresh)]]
    /\ keyOp \in [Key -> Optional(Operation)] /\ tagOp \in [Tag -> Optional(Operation)]
    /\ store \in [Key -> Optional(Entry)]

Covers(o, k, e) ==
    CASE op[o].kind = "tags" -> op[o].tags \cap e.tags # {}
      [] op[o].kind = "clear" -> TRUE
      [] OTHER -> op[o].key = k

\* Once an operation has finished, the store holds nothing it covers that was
\* requested before it was issued (the generation check of the response hook).
InvalidatedStaysOut ==
    \A k \in Key, o \in Operation :
       (op[o].pc = "done" /\ store[k] # None /\ Covers(o, k, store[k])) => store[k].born >= op[o].at

\* A request that began after an operation on its key or tags was issued is never
\* answered with older data: not from the store, not by a request in flight.
ReadsSeeInvalidations ==
    \A c \in Caller : req[c].answer # None =>
       \A o \in req[c].after : op[o].pc = "failed" \/ req[c].answer.born >= op[o].at

\* Who waits for a request in flight waits for one that will still settle its
\* promise, whatever was invalidated or removed in the meantime.
FollowersAreLed ==
    \A c \in Caller : req[c].pc = "joins" =>
       LET l == req[req[c].joined] IN l.outcome # "pending" \/ (l.leads /\ l.pc # "done")

\* A granted lease is held by a live request of an installed plugin only: a grant
\* that comes too late is returned at once.
LeasesReturned ==
    \A c \in Caller : req[c].lease = "held" => Active(c) /\ req[c].pc # "done"

\* The tokens on the map and the requests agree: a token counts its unsettled
\* requests and goes with the last of them, and an in-flight record has a leader
\* that holds the token on the map, where an invalidation will find it.
MapsMatchRequests ==
    /\ TypeOK
    /\ \A k \in Key :
         /\ live[k].gen # None =>
              /\ token[live[k].gen].active > 0
              /\ token[live[k].gen].active =
                   Cardinality({c \in Caller : req[c].token = live[k].gen /\ req[c].pc # "done"})
         /\ \A c \in {live[k].flight, live[k].rawFlight} \ {None} :
              req[c].leads /\ req[c].pc # "done" /\ Current(c)

\* Whoever waits is led, leases are given back, and the maps hold just the
\* requests under way.
InFlightAgrees == FollowersAreLed /\ LeasesReturned /\ MapsMatchRequests
=============================================================================
