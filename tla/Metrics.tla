------------------------------ MODULE Metrics ------------------------------
(***************************************************************************)
(* openTelemetryMetricsPlugin(): the up/down counters of active requests    *)
(* and active streams, the durations of attempts, and the wrappers that     *)
(* measure how a returned stream is consumed.  A request takes the stages   *)
(* of the pipeline; a stage captures the hooks registered when it begins.   *)
(* A byte stream is wrapped in a ReadableStream that reads ahead by one     *)
(* chunk, NDJSON and SSE iterables in an async generator.                   *)
(***************************************************************************)
EXTENDS Integers, FiniteSets

CONSTANTS
    Request, Client,
    ClientOf,      \* [Request -> Client]
    MaxAttempt,    \* bound: retries of a request
    MaxChanges,    \* bound: calls of use() and unuse()
    Uploads,       \* may a transport hook that runs earlier send the request itself?
    None

MetricsAssumption ==
    /\ IsFiniteSet(Request) /\ ClientOf \in [Request -> Client]
    /\ MaxAttempt \in Nat /\ MaxChanges \in Nat /\ Uploads \in BOOLEAN
    /\ None \notin {"bytes", "items", "fresh", "ready", "reading", "over"}
    /\ None \notin {"complete", "cancelled", "error", "removed"}

VARIABLES
    installed,     \* the clients with this plugin
    changes,
    pc,            \* the stage of each request
    todo,          \* captured hooks of this plugin that have not run
    attempt,       \* context.attempt
    context,       \* context.response and context.error
    state,         \* states and activeStates, with what was sent and recorded
    stream,        \* the stream of the response and its wrapper
    meter,         \* active_requests and active_streams
    excused        \* history: an attempt went without one of its hooks

vars == <<installed, changes, pc, todo, attempt, context, state, stream, meter, excused>>
registry == <<installed, changes>>
metrics == <<state, stream, meter>>

Stage == {"idle", "request", "answered", "transport", "sent", "response", "error", "waiting", "ending", "done"}
NoStream == [kind |-> None, source |-> "open", reader |-> None, closed |-> FALSE, counted |-> FALSE, outcome |-> None]
NoState == [measured |-> FALSE, active |-> FALSE, timed |-> FALSE, sent |-> 0, recorded |-> 0]

TypeOK ==
    /\ installed \subseteq Client /\ changes \in 0..MaxChanges
    /\ pc \in [Request -> Stage] /\ attempt \in [Request -> 0..MaxAttempt]
    /\ todo \in [Request -> SUBSET {"transport", "record", "settled"}]
    /\ \A r \in Request :
          /\ stream[r].kind \in {None, "bytes", "items"}
          /\ stream[r].source \in {"open", "ended", "failed", "stopped"}
          /\ stream[r].reader \in {None, "fresh", "ready", "reading", "over"}
          /\ stream[r].outcome \in {None, "complete", "cancelled", "error", "removed"}

Init ==
    /\ installed \in SUBSET Client /\ changes = 0
    /\ pc = [r \in Request |-> "idle"] /\ todo = [r \in Request |-> {}]
    /\ attempt = [r \in Request |-> 0]
    /\ context = [r \in Request |-> [response |-> FALSE, error |-> FALSE]]
    /\ state = [r \in Request |-> NoState] /\ stream = [r \in Request |-> NoStream]
    /\ meter = [requests |-> 0, streams |-> 0]
    /\ excused = [r \in Request |-> FALSE]

----------------------------------------------------------------------------
\* The hooks

Ran(r, hook) ==
    /\ hook \in todo[r] /\ todo' = [todo EXCEPT ![r] = @ \ {hook}]
    /\ UNCHANGED <<registry, pc, attempt, context, excused>>

\* onTransport: the attempt begins.
RunTransport(r) ==
    /\ Ran(r, "transport")
    /\ state' = [state EXCEPT ![r].timed = state[r].measured]
    /\ UNCHANGED <<stream, meter>>

\* The mutant: the moment the attempt began is kept.
RecordAgain(r) == state' = [state EXCEPT ![r].recorded = @ + (IF state[r].timed THEN 1 ELSE 0)]

\* recordAttempt(), of onResponse and of onError.
Record(r) ==
    state' = [state EXCEPT ![r].timed = FALSE, ![r].recorded = @ + (IF state[r].timed THEN 1 ELSE 0)]

RunRecord(r) == Ran(r, "record") /\ Record(r) /\ UNCHANGED <<stream, meter>>

\* instrumentStreamConsumption(): the wrapper of a byte stream reads at once.
Instrumented(r, kind) ==
    IF kind = None THEN NoStream
    ELSE [NoStream EXCEPT !.kind = kind, !.counted = TRUE, !.reader = IF kind = "bytes" THEN "reading" ELSE "fresh"]

\* onSettled; data that is no stream, or is not to be measured, stays as it is.
RunSettled(r) ==
    /\ Ran(r, "settled")
    /\ IF state[r].measured
       THEN \E kind \in {None} \cup (IF context[r].response THEN {"bytes", "items"} ELSE {}) :
               /\ stream' = [stream EXCEPT ![r] = Instrumented(r, kind)]
               /\ meter' = [requests |-> meter.requests - (IF state[r].active THEN 1 ELSE 0),
                            streams |-> meter.streams + (IF kind = None THEN 0 ELSE 1)]
               /\ state' = [state EXCEPT ![r].active = FALSE, ![r].measured = FALSE]
       ELSE UNCHANGED metrics

----------------------------------------------------------------------------
\* The request

Enter(r, stage, hooks) ==
    /\ pc' = [pc EXCEPT ![r] = stage]
    /\ todo' = [todo EXCEPT ![r] = IF ClientOf[r] \in installed THEN hooks ELSE {}]
    /\ excused' = [excused EXCEPT ![r] = @ \/ (hooks # {} /\ ClientOf[r] \notin installed)]
    /\ UNCHANGED <<registry, stream>>

Unmeasured == UNCHANGED <<state, meter>>
Unmoved == Unmeasured /\ UNCHANGED <<attempt, context>>
Has(r, response, error) == context' = [context EXCEPT ![r] = [response |-> response, error |-> error]]

\* onRequest is the first hook of all; background and filtered requests are left out.
Begin(r) ==
    /\ pc[r] = "idle"
    /\ \E measured \in BOOLEAN :
          /\ measured => ClientOf[r] \in installed
          /\ state' = [state EXCEPT ![r].measured = measured, ![r].active = measured]
          /\ meter' = [meter EXCEPT !.requests = @ + (IF measured THEN 1 ELSE 0)]
          /\ excused' = [excused EXCEPT ![r] = ~measured]
    /\ pc' = [pc EXCEPT ![r] = "request"]
    /\ UNCHANGED <<registry, todo, attempt, context, stream>>

\* A hook has set context.response; in the transport stage the hooks after it are skipped.
Answered(r) ==
    /\ \/ pc[r] = "request" /\ Enter(r, "answered", {"record"})
       \/ pc[r] = "transport" /\ Enter(r, "response", {"record"})
    /\ Has(r, TRUE, FALSE)
    /\ Unmeasured /\ UNCHANGED attempt

Admitted(r) == pc[r] = "request" /\ Enter(r, "transport", {"transport"}) /\ Unmoved

\* The adapter is called, after all hooks of onTransport or from one of them.
Dispatch(r) ==
    /\ pc[r] = "transport" /\ ("transport" \notin todo[r] \/ Uploads)
    /\ Enter(r, "sent", {})
    /\ state' = [state EXCEPT ![r].sent = @ + 1]
    /\ UNCHANGED <<attempt, context, meter>>

Respond(r) ==
    /\ pc[r] = "sent" /\ Enter(r, "response", {"record"}) /\ Has(r, TRUE, FALSE)
    /\ Unmeasured /\ UNCHANGED attempt

\* The response has been processed; fail() lets onError and onSettled run side by side.
Finish(r) ==
    /\ \/ pc[r] \in {"answered", "response"} /\ "record" \notin todo[r]
          /\ Enter(r, "ending", {"settled"}) /\ UNCHANGED context
       \/ pc[r] \in {"request", "answered", "waiting"}
          /\ Enter(r, "ending", {"record", "settled"}) /\ Has(r, context[r].response, TRUE)
    /\ Unmeasured /\ UNCHANGED attempt

\* What an attempt throws reaches the hooks of onError.
Throw(r) ==
    /\ pc[r] \in {"transport", "sent", "response"}
    /\ Enter(r, "error", {"record"}) /\ Has(r, context[r].response, TRUE)
    /\ Unmeasured /\ UNCHANGED attempt

\* No retry; or an error hook has thrown before this one.
GiveUp(r) ==
    /\ pc[r] = "error"
    /\ pc' = [pc EXCEPT ![r] = "ending"]
    /\ todo' = [todo EXCEPT ![r] = IF ClientOf[r] \in installed THEN {"settled"} ELSE {}]
    /\ excused' = [excused EXCEPT ![r] = @ \/ "record" \in todo[r]]
    /\ Unmoved /\ UNCHANGED <<registry, stream>>

\* The response is the fallback now, and its hooks run.
Recover(r) ==
    /\ pc[r] = "error" /\ "record" \notin todo[r]
    /\ Enter(r, "answered", {"record"}) /\ Has(r, TRUE, FALSE)
    /\ Unmeasured /\ UNCHANGED attempt

Retry(r) ==
    /\ pc[r] = "error" /\ "record" \notin todo[r] /\ attempt[r] < MaxAttempt
    /\ Enter(r, "waiting", {}) /\ Has(r, FALSE, FALSE)
    /\ attempt' = [attempt EXCEPT ![r] = @ + 1]
    /\ Unmeasured

WaitEnds(r) == pc[r] = "waiting" /\ Enter(r, "transport", {"transport"}) /\ Unmoved

Settle(r) == pc[r] = "ending" /\ todo[r] = {} /\ Enter(r, "done", {}) /\ Unmoved

Lifecycle(r) ==
    \/ RunTransport(r) \/ RunRecord(r) \/ RunSettled(r)
    \/ Begin(r) \/ Answered(r) \/ Admitted(r) \/ Dispatch(r) \/ Respond(r) \/ Finish(r)
    \/ Throw(r) \/ GiveUp(r) \/ Recover(r) \/ Retry(r) \/ WaitEnds(r) \/ Settle(r)

----------------------------------------------------------------------------
\* The stream and who consumes it

Rest == UNCHANGED <<registry, pc, todo, attempt, context, state, excused>>
Returned(r) == pc[r] = "done" /\ ~context[r].error /\ stream[r].kind # None /\ ~stream[r].closed

\* finish(), of a stream that is counted; wrapper is what else becomes of it.
Settles(r, wrapper, outcome) ==
    /\ stream' = [stream EXCEPT ![r] = [wrapper EXCEPT !.reader = "over", !.counted = FALSE,
                                           !.outcome = IF stream[r].counted THEN outcome ELSE @]]
    /\ meter' = [meter EXCEPT !.streams = @ - (IF stream[r].counted THEN 1 ELSE 0)]

Stopped(r) == [stream[r] EXCEPT !.source = IF @ = "open" THEN "stopped" ELSE @, !.closed = TRUE]

\* The return() of the source, which may reject.
Stops(r) ==
    \/ Settles(r, Stopped(r), "cancelled")
    \/ Settles(r, [Stopped(r) EXCEPT !.source = "failed"], "error")

\* The server ends the stream, or the connection fails.
SourceEnds(r) ==
    /\ stream[r].kind # None /\ stream[r].source = "open"
    /\ \E how \in {"ended", "failed"} : stream' = [stream EXCEPT ![r].source = how]
    /\ UNCHANGED meter /\ Rest

\* A read of the source returns: an item, after which a return() that waited is served.
Deliver(r) ==
    /\ stream[r].reader = "reading" /\ stream[r].source = "open"
    /\ IF stream[r].closed THEN Stops(r)
       ELSE stream' = [stream EXCEPT ![r].reader = "ready"] /\ UNCHANGED meter
    /\ Rest

\* Or its end.
ReadEnds(r) ==
    /\ stream[r].reader = "reading" /\ stream[r].source \in {"ended", "failed"}
    /\ Settles(r, stream[r], IF stream[r].source = "ended" THEN "complete" ELSE "error")
    /\ Rest

Read(r) ==
    /\ Returned(r) /\ stream[r].reader \in {"fresh", "ready"}
    /\ stream' = [stream EXCEPT ![r].reader = "reading"]
    /\ UNCHANGED meter /\ Rest

\* cancel(): a read that is pending ends first, with the failure of the source or
\* else as at the end of the stream.
Cancel(r) ==
    Settles(r, Stopped(r), IF stream[r].reader # "reading" THEN "cancelled"
                           ELSE IF stream[r].source = "failed" THEN "error" ELSE "complete")

\* return() of a generator: it waits for a pending read, and has no effect before the first.
Return(r) ==
    CASE stream[r].reader = "ready" -> Stops(r)
      [] stream[r].reader = "reading" -> stream' = [stream EXCEPT ![r].closed = TRUE] /\ UNCHANGED meter
      [] stream[r].reader = "fresh" ->
            stream' = [stream EXCEPT ![r].closed = TRUE, ![r].reader = "over"] /\ UNCHANGED meter

Close(r) ==
    /\ Returned(r) /\ stream[r].reader # "over"
    /\ IF stream[r].kind = "bytes" THEN Cancel(r) ELSE Return(r)
    /\ Rest

----------------------------------------------------------------------------
\* Installations

Use(c) ==
    /\ c \notin installed /\ changes < MaxChanges
    /\ installed' = installed \cup {c} /\ changes' = changes + 1
    /\ UNCHANGED <<pc, todo, attempt, context, metrics, excused>>

\* The cleanup of one installation finishes the requests and the streams of all.
Unuse(c) ==
    /\ c \in installed /\ changes < MaxChanges
    /\ installed' = installed \ {c} /\ changes' = changes + 1
    /\ state' = [r \in Request |-> [state[r] EXCEPT !.active = FALSE]]
    /\ stream' = [r \in Request |-> IF stream[r].counted
                                    THEN [stream[r] EXCEPT !.counted = FALSE, !.outcome = "removed"] ELSE stream[r]]
    /\ meter' = [requests |-> meter.requests - Cardinality({r \in Request : state[r].active}),
                 streams |-> meter.streams - Cardinality({r \in Request : stream[r].counted})]
    /\ UNCHANGED <<pc, todo, attempt, context, excused>>

Finished == (\A r \in Request : pc[r] = "done") /\ UNCHANGED vars

Next ==
    \/ \E r \in Request :
          \/ Lifecycle(r)
          \/ SourceEnds(r) \/ Deliver(r) \/ ReadEnds(r) \/ Read(r) \/ Close(r)
    \/ \E c \in Client : Use(c) \/ Unuse(c)
    \/ Finished

Spec == Init /\ [][Next]_vars

----------------------------------------------------------------------------
\* Properties

(* active_requests is the number of requests under way that are measured    *)
(* and whose plugin was not removed: whatever fails, is retried or removed,  *)
(* each is taken off once, and no later than it settles.  Every dispatched   *)
(* attempt has one duration, whatever then fails; but for requests that met  *)
(* a stage without this plugin, or an error hook that threw before its own.  *)
RequestsMeasured ==
    /\ meter.requests = Cardinality({r \in Request : state[r].active})
    /\ \A r \in Request :
          /\ state[r].active => pc[r] \notin {"idle", "done"} /\ ClientOf[r] \in installed
          /\ pc[r] = "done" /\ ~excused[r] => state[r].sent <= state[r].recorded
          /\ state[r].recorded <= attempt[r] + 1

(* active_streams is the number of wrapped streams that are not over, each   *)
(* is taken off once and with the outcome its consumer saw; but for          *)
(* iterables that are closed before they are read, which are never taken     *)
(* off, and for byte streams cancelled during a read, which are complete.    *)
StreamsMeasured ==
    /\ TypeOK
    /\ meter.streams = Cardinality({r \in Request : stream[r].counted})
    /\ \A r \in Request : stream[r].kind # None =>
          LET s == stream[r]
          IN  /\ s.counted <=> s.outcome = None
              /\ s.counted => s.reader # "over" \/ (s.kind = "items" /\ s.closed)
              /\ s.outcome = "complete" => s.source = "ended" \/ (s.kind = "bytes" /\ s.closed)
              /\ s.outcome = "cancelled" => s.closed
              /\ s.outcome = "error" => s.source = "failed"

(* Closing a stream stops its source, whoever waits for the next item.      *)
CloseStops == \A r \in Request : stream[r].closed => stream[r].source # "open"

(* What the consumer has closed is not recorded as complete.                *)
OutcomesTrue ==
    \A r \in Request : stream[r].outcome = "complete" => stream[r].source = "ended"

(* Only streams that were returned are active.                              *)
ReturnedOnly ==
    \A r \in Request : pc[r] = "done" /\ context[r].error => ~stream[r].counted
=============================================================================
