------------------------------ MODULE Tracing ------------------------------
(***************************************************************************)
(* openTelemetryPlugin(): one span for every attempt that is dispatched.   *)
(* One plugin object may be installed in several clients: its attempts     *)
(* (a WeakMap over requests) and activeAttempts are shared by them.  A     *)
(* request takes the stages of the pipeline; a stage captures the hooks    *)
(* that are registered when it begins, and the hooks of other plugins wait, *)
(* answer or fail before and after those of this one.                      *)
(***************************************************************************)
EXTENDS Naturals, Sequences

CONSTANTS
    Request, Client,
    ClientOf,      \* [Request -> Client]
    MaxAttempt,    \* bound: retries of a request
    MaxChanges,    \* bound: calls of use() and unuse()
    Late,          \* may unuse() come before a captured start hook has run?
    Uploads,       \* may a transport hook that runs earlier send the request itself?
    None

TracingAssumption ==
    /\ ClientOf \in [Request -> Client]
    /\ MaxAttempt \in Nat /\ MaxChanges \in Nat /\ Late \in BOOLEAN /\ Uploads \in BOOLEAN
    /\ None \notin Nat

VARIABLES
    installed,     \* the clients with this plugin
    changes,
    pc,            \* the stage of each request
    todo,          \* captured hooks of this plugin that have not run
    attempt,       \* context.attempt
    current,       \* attempts: the span of a request
    carrier,       \* the span whose context its headers carry
    spans,         \* every span there was
    active,        \* activeAttempts
    excused        \* history: the attempt has no span for a reason

vars == <<installed, changes, pc, todo, attempt, current, carrier, spans, active, excused>>
registry == <<installed, changes>>
tracing == <<current, carrier, spans, active>>

Stage == {"idle", "request", "answered", "transport", "sent", "response", "error", "waiting", "ending", "done"}
Span == DOMAIN spans
Ended(s) == spans[s].ends > 0

TypeOK ==
    /\ installed \subseteq Client /\ changes \in 0..MaxChanges
    /\ pc \in [Request -> Stage] /\ attempt \in [Request -> 0..MaxAttempt]
    /\ todo \in [Request -> SUBSET {"start", "error", "settled"}]
    /\ \A s \in Span : spans[s].of \in Request /\ spans[s].attempt \in 0..MaxAttempt
    /\ \A r \in Request : {current[r], carrier[r]} \subseteq Span \cup {None}
    /\ active \subseteq Span

Init ==
    /\ installed \in SUBSET Client /\ changes = 0
    /\ pc = [r \in Request |-> "idle"] /\ todo = [r \in Request |-> {}]
    /\ attempt = [r \in Request |-> 0]
    /\ current = [r \in Request |-> None] /\ carrier = [r \in Request |-> None]
    /\ spans = <<>> /\ active = {}
    /\ excused = [r \in Request |-> FALSE]

----------------------------------------------------------------------------
\* Spans

\* endAttempt(), for those of the attempts S that have not ended.
EndSpans(S) ==
    /\ spans' = [s \in Span |-> IF s \in S THEN [spans[s] EXCEPT !.ends = @ + 1] ELSE spans[s]]
    /\ active' = active \ S

OpenSpan(r) == {current[r]} \cap {s \in Span : ~Ended(s)}

\* startAttempt(): the SDK may fail to start a span, or to inject its context; and
\* shouldTrace may want none.
StartSpan(r) ==
    LET new == Len(spans) + 1
    IN  \/ \E injected \in BOOLEAN :
              /\ spans' = Append(spans, [of |-> r, attempt |-> attempt[r], ends |-> 0, injected |-> injected])
              /\ carrier' = IF injected THEN [carrier EXCEPT ![r] = new] ELSE carrier
              /\ current' = [current EXCEPT ![r] = new] /\ active' = active \cup {new}
              /\ UNCHANGED excused
        \/ excused' = [excused EXCEPT ![r] = TRUE] /\ UNCHANGED tracing

\* start(), a hook of both stages: the span of an attempt is started once.
Start(r) == IF OpenSpan(r) # {} THEN UNCHANGED <<tracing, excused>> ELSE StartSpan(r)

RunStart(r) ==
    /\ "start" \in todo[r]
    /\ Start(r)
    /\ todo' = [todo EXCEPT ![r] = @ \ {"start"}]
    /\ UNCHANGED <<registry, pc, attempt>>

\* The mutant: the failed attempt stays the one of its request.
KeepSpan(r) == UNCHANGED tracing

\* The hooks of onError and onSettled.
EndSpan(r) == EndSpans(OpenSpan(r)) /\ current' = [current EXCEPT ![r] = None] /\ UNCHANGED carrier

RunError(r) ==
    /\ "error" \in todo[r]
    /\ EndSpan(r)
    /\ todo' = [todo EXCEPT ![r] = @ \ {"error"}]
    /\ UNCHANGED <<registry, pc, attempt, excused>>

RunSettled(r) ==
    /\ "settled" \in todo[r]
    /\ EndSpan(r)
    /\ todo' = [todo EXCEPT ![r] = @ \ {"settled"}]
    /\ UNCHANGED <<registry, pc, attempt, excused>>

----------------------------------------------------------------------------
\* The request

Enter(r, stage, hooks) ==
    /\ pc' = [pc EXCEPT ![r] = stage]
    /\ todo' = [todo EXCEPT ![r] = IF ClientOf[r] \in installed THEN hooks ELSE {}]
    /\ UNCHANGED <<registry, tracing>>

Unmoved == UNCHANGED <<attempt, excused>>
Untraced(r) == excused' = [excused EXCEPT ![r] = ClientOf[r] \notin installed]

Begin(r) == pc[r] = "idle" /\ Enter(r, "request", {"start"}) /\ Unmoved

\* A hook has set context.response: one that starts a span does nothing then, or is skipped.
Answered(r) ==
    /\ \/ pc[r] = "request" /\ Enter(r, "answered", {})
       \/ pc[r] = "transport" /\ Enter(r, "response", {})
    /\ Unmoved

\* The hooks of onRequest have run.
Admitted(r) ==
    /\ pc[r] = "request" /\ "start" \notin todo[r]
    /\ Enter(r, "transport", {"start"}) /\ Untraced(r) /\ UNCHANGED attempt

\* The adapter is called, after all hooks of onTransport or from one of them.
Dispatch(r) ==
    /\ pc[r] = "transport" /\ ("start" \notin todo[r] \/ Uploads)
    /\ Enter(r, "sent", {}) /\ Unmoved

Respond(r) == pc[r] = "sent" /\ Enter(r, "response", {}) /\ Unmoved

\* The response has been processed; fail() lets onError and onSettled run side by side.
Finish(r) ==
    /\ \/ pc[r] \in {"answered", "response"} /\ Enter(r, "ending", {"settled"})
       \/ pc[r] \in {"request", "answered", "waiting"} /\ Enter(r, "ending", {"error", "settled"})
    /\ Unmoved

\* What an attempt throws reaches the hooks of onError.
Throw(r) == pc[r] \in {"transport", "sent", "response"} /\ Enter(r, "error", {"error"}) /\ Unmoved

\* No retry, or an error hook has thrown before this one; a fallback starts no span.
GiveUp(r) == pc[r] = "error" /\ Enter(r, "ending", {"settled"}) /\ Unmoved

Retry(r) ==
    /\ pc[r] = "error" /\ "error" \notin todo[r] /\ attempt[r] < MaxAttempt
    /\ attempt' = [attempt EXCEPT ![r] = @ + 1]
    /\ Enter(r, "waiting", {}) /\ UNCHANGED excused

WaitEnds(r) ==
    /\ pc[r] = "waiting"
    /\ Enter(r, "transport", {"start"}) /\ Untraced(r) /\ UNCHANGED attempt

Settle(r) == pc[r] = "ending" /\ todo[r] = {} /\ Enter(r, "done", {}) /\ Unmoved

----------------------------------------------------------------------------
\* Installations

Use(c) ==
    /\ c \notin installed /\ changes < MaxChanges
    /\ installed' = installed \cup {c} /\ changes' = changes + 1
    /\ UNCHANGED <<pc, todo, attempt, tracing, excused>>

\* The cleanup of one installation ends the spans of all.
EndAll == EndSpans(active)

Unuse(c) ==
    /\ c \in installed /\ changes < MaxChanges
    /\ Late \/ \A r \in Request : ClientOf[r] = c => "start" \notin todo[r]
    /\ installed' = installed \ {c} /\ changes' = changes + 1
    /\ EndAll
    /\ excused' = [r \in Request |-> TRUE]
    /\ UNCHANGED <<pc, todo, attempt, current, carrier>>

Finished == (\A r \in Request : pc[r] = "done") /\ UNCHANGED vars

Next ==
    \/ \E r \in Request :
          \/ RunStart(r) \/ RunError(r) \/ RunSettled(r)
          \/ Begin(r) \/ Answered(r) \/ Admitted(r) \/ Dispatch(r) \/ Respond(r) \/ Finish(r)
          \/ Throw(r) \/ GiveUp(r) \/ Retry(r) \/ WaitEnds(r) \/ Settle(r)
    \/ \E c \in Client : Use(c) \/ Unuse(c)
    \/ Finished

Spec == Init /\ [][Next]_vars

----------------------------------------------------------------------------
\* Properties

(* Every span ends, and once: when its request has settled, or when the     *)
(* plugin is removed from the client of that request, whatever failed,      *)
(* waited or was retried in between.                                        *)
SpansEndOnce ==
    /\ TypeOK
    /\ active = {s \in Span : ~Ended(s)}
    /\ \A s \in Span :
          /\ spans[s].ends <= 1
          /\ ~Ended(s) => pc[spans[s].of] # "done" /\ ClientOf[spans[s].of] \in installed

(* An attempt leaves under a span of its own and with the context of that   *)
(* span in its headers, not with those of the attempt it repeats; but for    *)
(* one whose plugin was removed or whose SDK failed.                        *)
AttemptHasSpan ==
    \A r \in Request :
       pc[r] = "sent" /\ ~excused[r] =>
          \E s \in active :
             /\ spans[s].of = r /\ spans[s].attempt = attempt[r]
             /\ spans[s].injected => carrier[r] = s
=============================================================================
