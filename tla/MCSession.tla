----------------------------- MODULE MCSession -----------------------------
(* Small instances of the plugins a request passes on its way to the        *)
(* network and back: of Auth, Retry, Mock, Tracing, Metrics and Transfer.   *)
(* A behaviour belongs to one of them, the variables of the others are idle. *)
EXTENDS Integers, Sequences, FiniteSets, TLC

CONSTANTS None, r1, r2, r3, i1, i2, f1, f2, Parts

VARIABLES part,
    req, installed, pc, attempt, aborted, told,                      \* several
    refresh, refreshState, stored, valid,                            \* Auth
    now, override, eligible, error, decision, due, other,            \* Retry
    rules, registered, handlers, entries, skipped, evicted, generation, \* Mock
    changes, todo, excused, stream,                                  \* several
    current, carrier, spans, active,                                 \* Tracing
    context, state, meter,                                           \* Metrics
    plan, size, loaded, xhr, outcome                                 \* Transfer

auth == <<refresh, refreshState, stored, valid>>
retry == <<now, override, eligible, error, decision, due, other>>
mock == <<rules, registered, handlers, entries, skipped, evicted, generation>>
hooks == <<installed, attempt, changes, todo, excused>>
tracing == <<current, carrier, spans, active>>
metrics == <<context, state, meter>>
transfer == <<plan, size, loaded, xhr, outcome>>

----------------------------------------------------------------------------
\* The components, each for the constants in a record.

Auths(c) == INSTANCE Auth WITH
    Request <- c.requests, Installation <- c.clients, Refresh <- c.refreshes,
    MaxToken <- c.tokens, HasPolicy <- c.policy, Late <- c.late

Retries(c) == INSTANCE Retry WITH
    Defaults <- c.defaults, Override <- c.overrides, Delay <- c.delays,
    MaxDelay <- c.longest, MaxTime <- c.time

Mocks(c) == INSTANCE Mock WITH
    Route <- c.routes, Handled <- c.handled, Records <- c.records, MaxRequests <- c.requests, MaxRules <- c.rules,
    MaxClears <- c.clears, MaxEntries <- c.entries

Traces(c) == INSTANCE Tracing WITH
    Request <- c.requests, Client <- c.clients, ClientOf <- c.clientOf,
    MaxAttempt <- c.retries, MaxChanges <- c.changes, Late <- c.late, Uploads <- c.uploads

Measures(c) == INSTANCE Metrics WITH
    Request <- c.requests, Client <- c.clients, ClientOf <- c.clientOf,
    MaxAttempt <- c.retries, MaxChanges <- c.changes, Uploads <- c.uploads

Transfers(c) == INSTANCE Transfer WITH MaxSize <- c.size, Limits <- c.limits

\* Requests of two clients: without a policy, and refused only for want of a token;
\* with one, and tokens that expire; and hooks captured before their plugin was removed.
Refusals == [requests |-> {r1, r2, r3}, clients |-> {i1, i2}, refreshes |-> {f1, f2},
             tokens |-> 0, policy |-> FALSE, late |-> FALSE]

Policy == [requests |-> {r1, r2}, clients |-> {i1, i2}, refreshes |-> {f1, f2},
           tokens |-> 2, policy |-> TRUE, late |-> FALSE]

LateHooks == [requests |-> {r1}, clients |-> {i1}, refreshes |-> {f1},
              tokens |-> 1, policy |-> FALSE, late |-> TRUE]

Attempts == [defaults |-> [retries |-> 2, retryOnTimeout |-> FALSE, respectRetryAfter |-> TRUE,
                           jitter |-> TRUE, maxElapsedTime |-> 3, shouldRetry |-> FALSE],
             overrides |-> {("retries" :> 1) @@ ("shouldRetry" :> TRUE) @@ ("jitter" :> FALSE),
                            ("respectRetryAfter" :> FALSE) @@ ("retryOnTimeout" :> TRUE) @@ ("maxElapsedTime" :> 9)},
             delays |-> {-1, 0, 1, 3}, longest |-> 2, time |-> 4]

\* Rules and handlers without a recorder, the recorder, and recordings that are replayed.
Routes == [routes |-> {i1, i2}, handled |-> {i2}, records |-> FALSE, requests |-> 3, rules |-> 2, clears |-> 0, entries |-> 1]
Recordings == [routes |-> {i1}, handled |-> {}, records |-> TRUE, requests |-> 4, rules |-> 0, clears |-> 1, entries |-> 2]
Replays == [routes |-> {i1}, handled |-> {}, records |-> TRUE, requests |-> 4, rules |-> 2, clears |-> 0, entries |-> 2]

\* A request of a client whose plugin another client has too; the same with hooks
\* captured before a removal, and with a watched upload.
Shared == [requests |-> {r1}, clients |-> {i1, i2}, clientOf |-> [r \in {r1} |-> i1],
           retries |-> 2, changes |-> 2, late |-> FALSE, uploads |-> FALSE]
LateStart == [requests |-> {r1}, clients |-> {i1}, clientOf |-> [r \in {r1} |-> i1],
              retries |-> 0, changes |-> 1, late |-> TRUE, uploads |-> FALSE]
Uploads == [requests |-> {r1}, clients |-> {i1}, clientOf |-> [r \in {r1} |-> i1],
            retries |-> 1, changes |-> 0, late |-> FALSE, uploads |-> TRUE]
Streams == [Shared EXCEPT !.retries = 1]

Bodies == [size |-> 2, limits |-> {None, 1}]

ASSUME SessionAssumption ==
    /\ \A c \in {Refusals, Policy, LateHooks} : Auths(c)!AuthAssumption
    /\ Retries(Attempts)!RetryAssumption
    /\ \A c \in {Routes, Recordings, Replays} : Mocks(c)!MockAssumption
    /\ \A c \in {Shared, LateStart, Uploads} : Traces(c)!TracingAssumption
    /\ Measures(Streams)!MetricsAssumption /\ Transfers(Bodies)!TransferAssumption

----------------------------------------------------------------------------
AuthPart == {"refusals", "policy", "late"}
MockPart == {"routes", "recordings", "replays"}

InAuth(refusals, policy, late) ==
    CASE part = "refusals" -> refusals [] part = "policy" -> policy [] part = "late" -> late

InMock(routes, recordings, replays) ==
    CASE part = "routes" -> routes [] part = "recordings" -> recordings [] part = "replays" -> replays

TracePart == {"traces", "late traces", "uploads"}
InTracing(traces, late, uploads) ==
    CASE part = "traces" -> traces [] part = "late traces" -> late [] part = "uploads" -> uploads

NoAuth == refresh = None /\ refreshState = None /\ stored = None /\ valid = None
NoMock ==
    /\ rules = None /\ registered = None /\ handlers = None
    /\ entries = None /\ skipped = None /\ evicted = None /\ generation = None
NoRetry ==
    /\ now = None /\ override = None /\ eligible = None /\ error = None
    /\ decision = None /\ due = None /\ other = None
NoHooks == changes = None /\ todo = None /\ excused = None
NoTracing == current = None /\ carrier = None /\ spans = None /\ active = None
NoMetrics == context = None /\ state = None /\ meter = None
NoTransfer == plan = None /\ size = None /\ loaded = None /\ xhr = None /\ outcome = None
Quiet == NoHooks /\ NoTracing /\ NoMetrics /\ NoTransfer /\ stream = None
Plain == req = None /\ NoAuth /\ NoRetry /\ NoMock

MCInit ==
    /\ part \in Parts
    /\ \/ /\ part \in AuthPart /\ InAuth(Auths(Refusals)!Init, Auths(Policy)!Init, Auths(LateHooks)!Init)
          /\ NoRetry /\ NoMock /\ Quiet /\ pc = None /\ attempt = None /\ aborted = None /\ told = None
       \/ /\ part = "attempts" /\ Retries(Attempts)!Init
          /\ req = None /\ installed = None /\ NoAuth /\ NoMock /\ Quiet
       \/ /\ part \in MockPart /\ InMock(Mocks(Routes)!Init, Mocks(Recordings)!Init, Mocks(Replays)!Init)
          /\ NoAuth /\ NoRetry /\ Quiet
          /\ installed = None /\ pc = None /\ attempt = None /\ aborted = None /\ told = None
       \/ /\ part \in TracePart /\ InTracing(Traces(Shared)!Init, Traces(LateStart)!Init, Traces(Uploads)!Init)
          /\ Plain /\ NoMetrics /\ NoTransfer /\ stream = None /\ aborted = None /\ told = None
       \/ /\ part = "measures" /\ Measures(Streams)!Init
          /\ Plain /\ NoTracing /\ NoTransfer /\ aborted = None /\ told = None
       \/ /\ part = "transfers" /\ Transfers(Bodies)!Init
          /\ Plain /\ NoHooks /\ NoTracing /\ NoMetrics /\ installed = None /\ attempt = None

MCNext ==
    /\ \/ /\ \/ part = "refusals" /\ Auths(Refusals)!Next
             \/ part = "policy" /\ Auths(Policy)!Next
             \/ part = "late" /\ Auths(LateHooks)!Next
          /\ UNCHANGED <<pc, attempt, aborted, told, retry, mock, changes, todo, excused, stream, tracing, metrics, transfer>>
       \/ /\ part = "attempts" /\ Retries(Attempts)!Next
          /\ UNCHANGED <<req, installed, auth, mock, changes, todo, excused, stream, tracing, metrics, transfer>>
       \/ /\ \/ part = "routes" /\ Mocks(Routes)!Next
             \/ part = "recordings" /\ Mocks(Recordings)!Next
             \/ part = "replays" /\ Mocks(Replays)!Next
          /\ UNCHANGED <<pc, aborted, told, auth, retry, hooks, stream, tracing, metrics, transfer>>
       \/ /\ \/ part = "traces" /\ Traces(Shared)!Next
             \/ part = "late traces" /\ Traces(LateStart)!Next
             \/ part = "uploads" /\ Traces(Uploads)!Next
          /\ UNCHANGED <<req, aborted, told, auth, retry, mock, stream, metrics, transfer>>
       \/ part = "measures" /\ Measures(Streams)!Next /\ UNCHANGED <<req, aborted, told, auth, retry, mock, tracing, transfer>>
       \/ part = "transfers" /\ Transfers(Bodies)!Next /\ UNCHANGED <<req, auth, retry, mock, hooks, tracing, metrics>>
    /\ UNCHANGED part

mcvars == <<part, req, pc, aborted, told, auth, retry, mock, hooks, stream, tracing, metrics, transfer>>

MCSpec == MCInit /\ [][MCNext]_mcvars

Symmetry == Permutations({r1, r2, r3}) \cup Permutations({f1, f2})

\* See Auth: one refresh for all.
RefreshShared ==
    part \in AuthPart =>
       InAuth(Auths(Refusals)!RefreshShared, Auths(Policy)!RefreshShared, Auths(LateHooks)!RefreshShared)

\* See Auth: what is done for a removed installation.
RemovedStaysSilent ==
    [][(part \in AuthPart) =>
          InAuth(Auths(Refusals)!SilentWhenRemoved, Auths(Policy)!SilentWhenRemoved, Auths(LateHooks)!SilentWhenRemoved)]_mcvars

\* See Retry: what a planned retry keeps to.
RetryWithinBudget == part = "attempts" => Retries(Attempts)!RetryWithinBudget

\* See Mock: rules for one request, and what the recorder keeps.
CallsAccounted ==
    part \in MockPart =>
       InMock(Mocks(Routes)!CallsAccounted, Mocks(Recordings)!CallsAccounted, Mocks(Replays)!CallsAccounted)

\* See Tracing: every span ends, and every attempt has its own.
SpansEndOnce ==
    part \in TracePart => InTracing(Traces(Shared)!SpansEndOnce, Traces(LateStart)!SpansEndOnce, Traces(Uploads)!SpansEndOnce)

AttemptHasSpan ==
    part \in TracePart => InTracing(Traces(Shared)!AttemptHasSpan, Traces(LateStart)!AttemptHasSpan, Traces(Uploads)!AttemptHasSpan)

SpansAgree == SpansEndOnce /\ AttemptHasSpan

\* See Metrics: the counters and durations, and what becomes of a stream.
MetricsAgree == part = "measures" => Measures(Streams)!RequestsMeasured /\ Measures(Streams)!StreamsMeasured

\* See Metrics: what the documentation says of streams.
CloseStops == part = "measures" => Measures(Streams)!CloseStops

OutcomesTrue == part = "measures" => Measures(Streams)!OutcomesTrue

ReturnedOnly == part = "measures" => Measures(Streams)!ReturnedOnly

\* See Transfer: what a transfer leaves, and what it reports.
TransferKept == part = "transfers" => Transfers(Bodies)!NothingLeft /\ Transfers(Bodies)!DeliveredIsReported

\* See Transfer: uploads beside downloads.
HookCanRead == part = "transfers" => Transfers(Bodies)!HookCanRead
=============================================================================
