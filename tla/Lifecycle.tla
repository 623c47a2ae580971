----------------------------- MODULE Lifecycle ------------------------------
(***************************************************************************)
(* Pipeline.executeLifecycle for one request: request interceptors and     *)
(* hooks, the retry loop with its transport hooks, adapter call, response  *)
(* hooks and interceptors, error and retry hooks, the failure path, and    *)
(* the settled hooks of the `finally` block.                               *)
(*                                                                         *)
(* Plugins are numbered in hook order (priority, then registration), and a *)
(* plugin has a hook in every stage.  A stage runs over the hooks that     *)
(* were registered when it began (PluginHooks captures the ordered array), *)
(* one hook per action, so that unuse(), use() and the abort signal come   *)
(* between two hooks.  What a hook, an interceptor or the adapter does is  *)
(* chosen among everything it may do.                                      *)
(***************************************************************************)
EXTENDS Integers, FiniteSets

CONSTANTS NumPlugins,    \* plugins that come and go
          MaxAttempts,   \* bound: attempts of the request
          MaxChanges,    \* bound: calls of use() and unuse()
          Fallbacks      \* does a plugin set context.fallbackResponse?

ASSUME LifecycleAssumption ==
    /\ NumPlugins \in Nat
    /\ MaxAttempts \in Nat \ {0}
    /\ MaxChanges \in Nat
    /\ Fallbacks \in BOOLEAN

VARIABLES
    installed,     \* plugins whose hooks are registered now
    changes,       \* calls of use() and unuse() so far
    interceptors,  \* the stages that have interceptors
    totalTimeout,  \* does the request have a totalTimeout?
    aborted,       \* the signal of the request is aborted
    pc,            \* the stage of the body of executeLifecycle
    todo,          \* hooks of that stage still to run
    detached,      \* the body returned a promise: `finally` runs meanwhile
    origin,        \* whose response is being processed
    attempt,       \* context.attempt
    error,         \* context.error is set
    response,      \* context.response: attempt it stems from, or None
    fallback,      \* context.fallbackResponse: likewise
    result,        \* how the body ended
    settle,        \* the `finally` block: "no", "running", "done"
    settleTodo,    \* settled hooks still to run
    seen,          \* history: what the settled hooks took for the outcome
    caller         \* what the promise of execute() has become

registry == <<installed, changes>>
input    == <<interceptors, totalTimeout>>
context  == <<attempt, error, response, fallback>>
ending   == <<settle, settleTodo, seen, caller>>
vars == <<registry, input, aborted, pc, todo, detached, origin, context,
          result, ending>>

Plugin == 1..NumPlugins
None == -1

Stage == {"idle", "direct", "requestInterceptors", "requestHooks",
          "attempt", "transportHooks", "adapter",
          "responseHooks", "responseInterceptors",
          "errorHooks", "retryHooks", "waiting",
          "failHooks", "errorInterceptors", "returned"}

FlagsOK ==
    /\ totalTimeout \in BOOLEAN
    /\ aborted \in BOOLEAN
    /\ detached \in BOOLEAN
    /\ error \in BOOLEAN

ValuesOK ==
    /\ installed \in SUBSET Plugin
    /\ changes \in 0..MaxChanges
    /\ interceptors \in SUBSET {"request", "response", "error"}
    /\ pc \in Stage
    /\ todo \in SUBSET Plugin
    /\ origin \in {"hook", "attempt", "fallback"}
    /\ attempt \in 0..MaxAttempts
    /\ response \in 0..MaxAttempts \union {None}
    /\ fallback \in 0..MaxAttempts \union {None}
    /\ result \in {"none", "response", "error"}
    /\ pc = "returned" <=> result # "none"
    /\ settle \in {"no", "running", "done"}
    /\ settleTodo \in SUBSET Plugin
    /\ seen \in SUBSET {"response", "error"}
    /\ caller \in {"pending", "response", "error"}

TypeOK == FlagsOK /\ ValuesOK

Init ==
    /\ installed \in SUBSET Plugin
    /\ changes = 0
    /\ interceptors \in SUBSET {"request", "response", "error"}
    /\ totalTimeout \in BOOLEAN
    /\ aborted \in BOOLEAN
    /\ pc = "idle"
    /\ todo = {}
    /\ detached = FALSE
    /\ origin = "attempt"
    /\ attempt = 0
    /\ error = FALSE
    /\ response = None
    /\ fallback = None
    /\ result = "none"
    /\ settle = "no"
    /\ settleTodo = {}
    /\ seen = {}
    /\ caller = "pending"
-----------------------------------------------------------------------------
(* Moves of the body. *)

(* Enter a stage and capture the hooks registered now. *)
Capture(stage) == pc' = stage /\ todo' = installed

Goto(stage) == pc' = stage /\ todo' = {}

(* The next captured hook: one plugin, the first in order. *)
NextHook == {p \in todo : \A q \in todo : p <= q}
HookReturns == todo # {} /\ todo' = todo \ NextHook

(* fail(context, error, notify) *)
Fail(notify) == /\ error' = TRUE
                /\ IF notify THEN Capture("failHooks") ELSE Goto("errorInterceptors")

(* Where an error goes that is thrown while a response is processed or an  *)
(* attempt is made: inside the retry loop it is caught by it.              *)
Throw(from) == /\ error' = TRUE
               /\ IF from = "attempt" THEN Capture("errorHooks")
                                      ELSE Capture("failHooks")

(* The end of the body.  fail() may have let `finally` run already.        *)
Return(res) == pc' = "returned" /\ todo' = {} /\ result' = res

frame == <<registry, input, aborted, ending>>
-----------------------------------------------------------------------------
(* The environment. *)

Use(p) == /\ p \notin installed
          /\ changes < MaxChanges
          /\ installed' = installed \union {p}
          /\ changes' = changes + 1
          /\ UNCHANGED <<input, aborted, pc, todo, detached, origin, context,
                         result, ending>>

Unuse(p) == /\ p \in installed
            /\ changes < MaxChanges
            /\ installed' = installed \ {p}
            /\ changes' = changes + 1
            /\ UNCHANGED <<input, aborted, pc, todo, detached, origin, context,
                           result, ending>>

(* The signal fires: the caller's, or that of totalTimeout, which rejects  *)
(* the promise of execute() at once and leaves the body running.           *)
Abort == /\ ~aborted
         /\ aborted' = TRUE
         /\ caller' = IF totalTimeout /\ caller = "pending" /\ pc # "idle"
                      THEN "error" ELSE caller
         /\ UNCHANGED <<registry, input, pc, todo, detached, origin, context,
                        result, settle, settleTodo, seen>>
-----------------------------------------------------------------------------
(* execute: an aborted signal under totalTimeout never starts the body; a  *)
(* client without hooks and interceptors calls the adapter directly.       *)

Refuse == /\ pc = "idle"
          /\ totalTimeout /\ aborted
          /\ caller' = "error"
          /\ settle' = "done"
          /\ Return("error")
          /\ UNCHANGED <<registry, input, aborted, detached, origin, context,
                         settleTodo, seen>>

Lifecycled == installed # {} \/ interceptors # {}

CallDirectly == /\ pc = "idle"
                /\ ~(totalTimeout /\ aborted)
                /\ ~Lifecycled
                /\ Goto("direct")
                /\ UNCHANGED <<frame, detached, origin, context, result>>

(* throwIfAborted before the call, whatever the adapter says after it.     *)
DirectReturns(res) ==
    /\ pc = "direct"
    /\ Return(res)
    /\ response' = IF res = "response" THEN attempt ELSE None
    /\ settle' = "done"
    /\ caller' = IF caller = "pending" THEN res ELSE caller
    /\ UNCHANGED <<registry, input, aborted, detached, origin, attempt, error,
                   fallback, settleTodo, seen>>

Begin == /\ pc = "idle"
         /\ ~(totalTimeout /\ aborted)
         /\ Lifecycled
         /\ IF "request" \in interceptors THEN Goto("requestInterceptors")
                                          ELSE Capture("requestHooks")
         /\ UNCHANGED <<frame, detached, origin, context, result>>

(* A request hook throws; validateRequestConfig rejects the config before  *)
(* the request hooks, after them, or after the transport hooks.            *)
RequestThrows ==
    /\ \/ pc = "requestHooks" /\ Fail(TRUE)
       \/ pc = "transportHooks" /\ todo = {} /\ response = None /\ Throw("attempt")
    /\ UNCHANGED <<frame, detached, origin, attempt, response, fallback, result>>

(* runMaybeAsync with the config checks the signal before the first and    *)
(* after each interceptor, and stops waiting for one when it fires.        *)
RequestInterceptors(throws) ==
    /\ pc = "requestInterceptors"
    /\ aborted => throws
    /\ IF throws THEN Fail(TRUE) ELSE Capture("requestHooks") /\ UNCHANGED error
    /\ UNCHANGED <<frame, detached, origin, attempt, response, fallback, result>>

(* A request hook may set the response, and then no attempt is made.       *)
RequestHook(sets) ==
    /\ pc = "requestHooks"
    /\ HookReturns
    /\ response' = IF sets THEN attempt ELSE response
    /\ UNCHANGED <<frame, pc, detached, origin, attempt, error, fallback, result>>

RequestHooksDone ==
    /\ pc = "requestHooks" /\ todo = {}
    /\ IF response # None
       THEN Capture("responseHooks") /\ origin' = "hook"
       ELSE Goto("attempt") /\ UNCHANGED origin
    /\ UNCHANGED <<frame, detached, context, result>>
-----------------------------------------------------------------------------
(* The retry loop. *)

BeginAttempt ==
    /\ pc = "attempt"
    /\ origin' = "attempt"
    /\ IF aborted THEN Throw("attempt")
                  ELSE Capture("transportHooks") /\ UNCHANGED error
    /\ UNCHANGED <<frame, detached, attempt, response, fallback, result>>

(* The hook that sets the response is the last of its stage. *)
TransportHook(sets) ==
    /\ pc = "transportHooks" /\ todo # {}
    /\ todo' = IF sets THEN {} ELSE todo \ NextHook
    /\ response' = IF sets THEN attempt ELSE response
    /\ UNCHANGED <<frame, pc, detached, origin, attempt, error, fallback, result>>

TransportHookThrows ==
    /\ pc = "transportHooks" /\ todo # {}
    /\ Throw("attempt")
    /\ UNCHANGED <<frame, detached, origin, attempt, response, fallback, result>>

TransportHooksDone ==
    /\ pc = "transportHooks" /\ todo = {}
    /\ \/ response # None /\ Capture("responseHooks") /\ UNCHANGED error
       \/ response = None /\ aborted /\ Throw("attempt")
       \/ response = None /\ ~aborted /\ Goto("adapter") /\ UNCHANGED error
    /\ UNCHANGED <<frame, detached, origin, attempt, response, fallback, result>>

AdapterAnswers ==
    /\ pc = "adapter"
    /\ response' = attempt
    /\ Capture("responseHooks")
    /\ UNCHANGED <<frame, detached, origin, attempt, error, fallback, result>>

AdapterThrows ==
    /\ pc = "adapter"
    /\ Throw("attempt")
    /\ UNCHANGED <<frame, detached, origin, attempt, response, fallback, result>>

(* A response hook may replace the response, by one for this attempt, and  *)
(* may offer a fallback.                                                   *)
ResponseHook(offers) ==
    /\ pc = "responseHooks"
    /\ HookReturns
    /\ offers => Fallbacks
    /\ fallback' = IF offers THEN attempt ELSE fallback
    /\ UNCHANGED <<frame, pc, detached, origin, attempt, error, response, result>>

(* recoverFromError clears the fallback in its own `finally`. *)
FallbackAfter == IF origin = "fallback" THEN None ELSE fallback

ResponseHookThrows ==
    /\ pc = "responseHooks" /\ todo # {}
    /\ Throw(origin)
    /\ fallback' = FallbackAfter
    /\ UNCHANGED <<frame, detached, origin, attempt, response, result>>

(* The response interceptors, a schema counting as one; without them the   *)
(* response is final.                                                      *)
Intercept ==
    IF "response" \in interceptors
    THEN Goto("responseInterceptors") /\ UNCHANGED <<result, fallback>>
    ELSE Return("response") /\ fallback' = FallbackAfter

(* Wrong variant: the signal is not looked at again. *)
ResponseHooksDoneUnchecked ==
    /\ pc = "responseHooks" /\ todo = {}
    /\ Intercept
    /\ UNCHANGED <<frame, detached, origin, attempt, error, response>>

(* processValidatedResponse checks the signal once more. *)
ResponseHooksDone ==
    /\ pc = "responseHooks" /\ todo = {}
    /\ IF aborted
       THEN Throw(origin) /\ fallback' = FallbackAfter /\ UNCHANGED result
       ELSE Intercept /\ UNCHANGED error
    /\ UNCHANGED <<frame, detached, origin, attempt, response>>

(* The signal interrupts them at any await. *)
ResponseInterceptors(throws) ==
    /\ pc = "responseInterceptors"
    /\ aborted => throws
    /\ IF throws THEN Throw(origin) /\ UNCHANGED result
                 ELSE Return("response") /\ UNCHANGED error
    /\ fallback' = FallbackAfter
    /\ UNCHANGED <<frame, detached, origin, attempt, response>>

(* notifyError inside the loop; a hook may offer a fallback. *)
ErrorHook(offers) ==
    /\ pc = "errorHooks"
    /\ HookReturns
    /\ offers => Fallbacks
    /\ fallback' = IF offers THEN attempt ELSE fallback
    /\ UNCHANGED <<frame, pc, detached, origin, attempt, error, response, result>>

ErrorHookThrows ==
    /\ pc = "errorHooks" /\ todo # {}
    /\ Fail(FALSE)
    /\ UNCHANGED <<frame, detached, origin, attempt, response, fallback, result>>

ErrorHooksDone ==
    /\ pc = "errorHooks" /\ todo = {}
    /\ Capture("retryHooks")
    /\ UNCHANGED <<frame, detached, origin, context, result>>

(* resolveRetry: the first hook that decides ends the stage.               *)
RetryHookPasses ==
    /\ pc = "retryHooks"
    /\ HookReturns
    /\ UNCHANGED <<frame, pc, detached, origin, context, result>>

RetryHookThrows ==
    /\ pc = "retryHooks" /\ todo # {}
    /\ Fail(TRUE)
    /\ UNCHANGED <<frame, detached, origin, attempt, response, fallback, result>>

(* Wrong variants: an attempt inherits the fallback or the error.          *)
KeepsFallback == error' = FALSE /\ response' = None /\ UNCHANGED fallback
KeepsError == response' = None /\ fallback' = None /\ UNCHANGED error

(* The context of a new attempt knows nothing of the one that failed.      *)
ClearAttempt == error' = FALSE /\ response' = None /\ fallback' = None

RetryHookRetries ==
    /\ pc = "retryHooks" /\ todo # {}
    /\ attempt < MaxAttempts
    /\ ClearAttempt
    /\ attempt' = attempt + 1
    /\ Goto("waiting")
    /\ UNCHANGED <<frame, detached, origin, result>>

(* No retry: recoverFromError when there is a fallback, fail otherwise.    *)
NoRetry ==
    /\ pc = "retryHooks"
    /\ IF fallback # None
       THEN /\ response' = fallback
            /\ error' = FALSE
            /\ origin' = "fallback"
            /\ Capture("responseHooks")
       ELSE Fail(FALSE) /\ UNCHANGED <<response, origin>>
    /\ UNCHANGED <<frame, detached, attempt, fallback, result>>

(* waitForRetry ends with the delay, or with the signal. *)
RetryWaitEnds ==
    /\ pc = "waiting"
    /\ IF aborted THEN Fail(TRUE) ELSE Goto("attempt") /\ UNCHANGED error
    /\ UNCHANGED <<frame, detached, origin, attempt, response, fallback, result>>
-----------------------------------------------------------------------------
(* fail: the error hooks, then the error interceptors, then the rejection. *)

FailHookReturns ==
    /\ pc = "failHooks" /\ todo # {}
    /\ \/ HookReturns /\ UNCHANGED pc
       \/ Goto("errorInterceptors")        \* the hook throws
    /\ UNCHANGED <<frame, detached, origin, context, result>>

FailHooksDone ==
    /\ pc = "failHooks" /\ todo = {}
    /\ Goto("errorInterceptors")
    /\ UNCHANGED <<frame, detached, origin, context, result>>

(* `return this.fail(...)` and `return this.recoverFromError(...)` do not  *)
(* await the promise they return when a hook or interceptor on the way is  *)
(* asynchronous, and the `finally` block runs before it is resolved.       *)
Detaches ==
    /\ ~detached
    /\ \/ pc = "failHooks" /\ todo # {}
       \/ pc = "errorInterceptors" /\ "error" \in interceptors
       \/ pc = "responseHooks" /\ origin = "fallback" /\ todo # {}
       \/ pc = "responseInterceptors" /\ origin = "fallback"
    /\ detached' = TRUE
    /\ UNCHANGED <<frame, pc, todo, origin, context, result>>

(* The interceptors replace the error or throw another. *)
ErrorInterceptors ==
    /\ pc = "errorInterceptors"
    /\ Return("error")
    /\ UNCHANGED <<frame, detached, origin, context>>
-----------------------------------------------------------------------------
(* The `finally` block and the promise of execute(). *)

(* Wrong variant: no settled hooks for an aborted request. *)
SettleBeginsUnlessAborted ==
    /\ settle = "no"
    /\ ~aborted
    /\ pc = "returned" \/ detached
    /\ settle' = "running"
    /\ settleTodo' = installed
    /\ UNCHANGED <<registry, input, aborted, pc, todo, detached, origin, context,
                   result, seen, caller>>

SettleBegins ==
    /\ settle = "no"
    /\ pc = "returned" \/ detached
    /\ settle' = "running"
    /\ settleTodo' = installed
    /\ UNCHANGED <<registry, input, aborted, pc, todo, detached, origin, context,
                   result, seen, caller>>

(* What a settled hook does or throws is its own affair; the built-in ones *)
(* take a context with a response and no error for a success.              *)
SettledHook(p) ==
    /\ settle = "running"
    /\ p \in settleTodo /\ \A q \in settleTodo : p <= q
    /\ settleTodo' = settleTodo \ {p}
    /\ seen' = seen \union {IF ~error /\ response # None THEN "response" ELSE "error"}
    /\ UNCHANGED <<registry, input, aborted, pc, todo, detached, origin, context,
                   result, settle, caller>>

SettleEnds ==
    /\ settle = "running" /\ settleTodo = {}
    /\ settle' = "done"
    /\ UNCHANGED <<registry, input, aborted, pc, todo, detached, origin, context,
                   result, settleTodo, seen, caller>>

(* The promise of executeLifecycle follows the body and the `finally`.     *)
Deliver ==
    /\ pc = "returned" /\ settle = "done" /\ caller = "pending"
    /\ caller' = result
    /\ UNCHANGED <<registry, input, aborted, pc, todo, detached, origin, context,
                   result, settle, settleTodo, seen>>
-----------------------------------------------------------------------------
Body ==
    \/ Refuse \/ CallDirectly \/ Begin
    \/ \E res \in {"response", "error"} : DirectReturns(res)
    \/ \E throws \in BOOLEAN :
          RequestInterceptors(throws) \/ ResponseInterceptors(throws)
    \/ \E sets \in BOOLEAN : RequestHook(sets) \/ TransportHook(sets)
    \/ \E offers \in BOOLEAN : ResponseHook(offers) \/ ErrorHook(offers)
    \/ RequestThrows \/ RequestHooksDone
    \/ BeginAttempt
    \/ TransportHookThrows \/ TransportHooksDone
    \/ AdapterAnswers \/ AdapterThrows
    \/ ResponseHookThrows \/ ResponseHooksDone
    \/ ErrorHookThrows \/ ErrorHooksDone
    \/ RetryHookPasses \/ RetryHookThrows \/ RetryHookRetries \/ NoRetry
    \/ RetryWaitEnds
    \/ FailHookReturns \/ FailHooksDone \/ ErrorInterceptors

Finally == \/ SettleBegins \/ (\E p \in Plugin : SettledHook(p)) \/ SettleEnds
           \/ Deliver

Next == \/ Body \/ Detaches \/ Finally
        \/ Abort
        \/ \E p \in Plugin : Use(p) \/ Unuse(p)

Spec == Init /\ [][Next]_vars

(* Every hook, interceptor, adapter call and timer ends, and the           *)
(* continuation behind it runs.                                            *)
FairSpec == Spec /\ WF_vars(Body) /\ WF_vars(Finally)
-----------------------------------------------------------------------------
(* Properties. *)

(* A response that reaches the caller stems from the last attempt (or was  *)
(* offered as its fallback): nothing of an abandoned attempt survives the  *)
(* wait before a retry.                                                    *)
ResponseIsFresh == result = "response" => response = attempt

(* After the signal fired, no adapter call is started and no response is   *)
(* returned, at whatever await the lifecycle stood then.                   *)
AbortWins ==
    [][aborted => /\ pc # "adapter" => pc' # "adapter"
                  /\ result = "none" /\ pc # "direct" => result' # "response"]_vars

(* What the settled hooks take for the outcome of the request is what its  *)
(* body ends with, also when they run before the asynchronous error hooks  *)
(* and interceptors have finished.  Excepted is a body that detached while *)
(* recoverFromError was processing a fallback.                             *)
SettledSeesOutcome ==
    result # "none" /\ ~(detached /\ origin = "fallback") => seen \subseteq {result}

(* "The built-in breaker counts the final logical request result in        *)
(* onSettled" (docs/configuration.md 669).  It does not hold with a        *)
(* fallback: its response hooks and interceptors may still fail.           *)
SettledSeesFinalResult == result # "none" => seen \subseteq {result}

(* "The final onSettled hook runs after response/error interceptors and    *)
(* all retry decisions" (docs/architecture.md 82).  It does not hold when  *)
(* they are asynchronous on the failure path.                              *)
SettledIsLast ==
    settleTodo # {} =>
        /\ ~(pc = "errorInterceptors" /\ "error" \in interceptors)
        /\ ~(pc = "responseInterceptors" /\ "response" \in interceptors)

(* Once begun, a request ends: its settled hooks have run and its promise  *)
(* is settled, also when totalTimeout has rejected the promise before.     *)
Ends == pc # "idle" ~> settle = "done" /\ caller # "pending"
=============================================================================
