------------------------------- MODULE Retry -------------------------------
(***************************************************************************)
(* retryPlugin beside another plugin with a retry hook (authPlugin, which   *)
(* sends a request again once and at once).  One request: its attempts fail, *)
(* a hook decides, the pipeline waits and sends again.  shouldRetry, delay  *)
(* and jitter may be asynchronous, so that time passes and the signal is    *)
(* aborted between the steps of a decision; an aborted request is settled   *)
(* at once while the rest of its decision goes on behind it.                *)
(***************************************************************************)
EXTENDS Integers

CONSTANTS
    Defaults,      \* the options of the plugin
    Override,      \* options a request may bring: functions from some of their names
    Delay,         \* what delay(), jitter() and the server may name, in ticks
    MaxDelay,
    MaxTime,       \* bound: ticks
    None

RetryAssumption ==
    /\ DOMAIN Defaults = {"retries", "retryOnTimeout", "respectRetryAfter", "jitter", "maxElapsedTime", "shouldRetry"}
    /\ \A o \in Override : DOMAIN o \subseteq DOMAIN Defaults
    /\ Defaults.retries \in Nat
    /\ \A o \in Override : "retries" \in DOMAIN o => o.retries \in Nat
    /\ Delay \subseteq Int /\ MaxDelay \in Nat /\ MaxTime \in Nat

VARIABLES
    now,
    override,      \* the request's retry extension, None for none
    eligible,      \* its method may be retried and its body is no stream
    attempt, pc, aborted,
    error,         \* what the last attempt failed with
    decision,      \* the decision that is being made
    due,           \* end of the wait
    other,         \* the other plugin: is its hook first, has it retried?
    told           \* the last event of onRetry

vars == <<now, override, eligible, attempt, pc, aborted, error, decision, due, other, told>>

Failure == {"network", "timeout", "retryable", "large", "refused", "foreign"}
NoDecision == [stage |-> "none", base |-> 0]
NoError == [kind |-> None, server |-> None, at |-> 0]

MinOf(a, b) == IF a < b THEN a ELSE b
MaxOf(a, b) == IF a < b THEN b ELSE a

Init ==
    /\ now = 0 /\ attempt = 0 /\ pc = "sending" /\ aborted = FALSE
    /\ override \in Override \cup {None} /\ eligible \in BOOLEAN
    /\ error = NoError /\ decision = NoDecision /\ due = 0 /\ told = None
    /\ other \in [first : BOOLEAN, retried : {FALSE}]

\* resolveRetryOptions: what the request says, else what the plugin was given.
Options ==
    [o \in DOMAIN Defaults |-> IF override # None /\ o \in DOMAIN override THEN override[o] ELSE Defaults[o]]

Tick ==
    /\ now < MaxTime /\ ~(pc = "waiting" /\ due = now)
    /\ now' = now + 1
    /\ UNCHANGED <<override, eligible, attempt, pc, aborted, error, decision, due, other, told>>

----------------------------------------------------------------------------
\* Attempts

Succeed ==
    /\ pc = "sending"
    /\ pc' = "done"
    /\ UNCHANGED <<now, override, eligible, attempt, aborted, error, decision, due, other, told>>

\* The attempt fails; a response may name the moment of the next one.
Fail ==
    /\ pc = "sending"
    /\ \E kind \in Failure, server \in {d \in Delay : d >= 0} \cup {None} :
          /\ server # None => kind \in {"retryable", "large", "refused"}
          /\ error' = [kind |-> kind, server |-> server, at |-> now]
    /\ pc' = "failed"
    /\ UNCHANGED <<now, override, eligible, attempt, aborted, decision, due, other, told>>

GiveUp == pc' = "done" /\ UNCHANGED <<attempt, due>>

\* The pipeline starts the wait; without one the attempt follows.
Retried(delay) ==
    /\ attempt' = attempt + 1 /\ due' = now + delay
    /\ pc' = IF aborted THEN "done" ELSE IF delay = 0 THEN "sending" ELSE "waiting"

\* waitForRetry ends with the delay.
WaitEnds ==
    /\ pc = "waiting" /\ due = now
    /\ pc' = "sending"
    /\ UNCHANGED <<now, override, eligible, attempt, aborted, error, decision, due, other, told>>

\* The signal: the attempt fails with it, a wait ends.
Abort ==
    /\ ~aborted /\ pc # "done"
    /\ aborted' = TRUE
    /\ pc' = IF pc \in {"sending", "failed"} THEN "failed" ELSE "done"
    /\ error' = IF pc = "sending" THEN [kind |-> "foreign", server |-> None, at |-> now] ELSE error
    /\ UNCHANGED <<now, override, eligible, attempt, decision, due, other, told>>

----------------------------------------------------------------------------
\* Decisions

OtherRetries ==
    /\ error.kind = "refused" /\ ~other.retried
    /\ other' = [other EXCEPT !.retried = TRUE] /\ Retried(0)

\* What is left when this plugin does not decide.
Undecided ==
    /\ decision' = NoDecision /\ UNCHANGED told
    /\ \/ ~other.first /\ OtherRetries
       \/ GiveUp /\ UNCHANGED other

RetriesStatus == error.kind \in {"retryable", "large"}

\* defaultShouldRetry
DefaultShouldRetry ==
    \/ error.kind = "network"
    \/ error.kind = "timeout" /\ Options.retryOnTimeout
    \/ RetriesStatus /\ (error.kind = "large" => error.server # None)

AttemptsLeft == attempt < Options.retries

Goes(stage) == decision' = [decision EXCEPT !.stage = stage] /\ UNCHANGED <<attempt, pc, due, other, told>>

\* resolveRetry: the first hook that decides; this one asks shouldRetry.
Hook ==
    /\ pc = "failed"
    /\ \/ other.first /\ OtherRetries /\ UNCHANGED <<decision, told>>
       \/ /\ AttemptsLeft /\ eligible
          /\ pc' = "deciding" /\ decision' = [decision EXCEPT !.stage = "policy"]
          /\ UNCHANGED <<attempt, due, other, told>>
       \/ ~(AttemptsLeft /\ eligible) /\ Undecided
    /\ UNCHANGED <<now, override, eligible, aborted, error>>

\* throwIfAborted: the request ends, or has already.
Silent == decision' = NoDecision /\ GiveUp /\ UNCHANGED <<other, told>>

Policy ==
    /\ decision.stage = "policy"
    /\ IF aborted THEN Silent
       ELSE \E answer \in IF Options.shouldRetry THEN {TRUE, FALSE, DefaultShouldRetry} ELSE {DefaultShouldRetry} :
               IF answer THEN Goes("delay") ELSE Undecided
    /\ UNCHANGED <<now, override, eligible, aborted, error>>

\* normalizeRetryDelay
Bounded(delay) == MinOf(MaxOf(0, delay), MaxDelay)

ServerDelay == IF Options.respectRetryAfter THEN error.server ELSE None

\* The mutant: the time of the decision's start counts.
InTimeWhenAsked(delay) ==
    /\ error.at < Options.maxElapsedTime
    /\ error.at + delay <= Options.maxElapsedTime

InTime(delay) ==
    /\ now < Options.maxElapsedTime
    /\ now + delay <= Options.maxElapsedTime

\* completeRetryDecision
Complete(delay) ==
    IF InTime(delay) THEN /\ decision' = NoDecision /\ UNCHANGED other
                          /\ told' = [at |-> now, delay |-> delay, aborted |-> aborted]
                          /\ Retried(delay)
    ELSE Undecided

\* finalizeRetryDecision: a server that asks for too much is not asked again, and
\* jitter is not applied to what it names.
Finalize ==
    /\ decision.stage = "delay"
    /\ \E delay \in Delay :
          IF aborted THEN Silent
          ELSE IF ServerDelay # None THEN IF ServerDelay > MaxDelay THEN Undecided
                                          ELSE Complete(Bounded(ServerDelay))
          ELSE IF Options.jitter
          THEN decision' = [stage |-> "jitter", base |-> Bounded(delay)] /\ UNCHANGED <<attempt, pc, due, other, told>>
          ELSE Complete(Bounded(delay))
    /\ UNCHANGED <<now, override, eligible, aborted, error>>

Jitter ==
    /\ decision.stage = "jitter"
    /\ \E jittered \in Delay \cup (0..decision.base) :
          IF aborted THEN Silent ELSE Complete(Bounded(jittered))
    /\ UNCHANGED <<now, override, eligible, aborted, error>>

Finished == pc = "done" /\ decision.stage = "none" /\ UNCHANGED vars

Next ==
    \/ Tick \/ Succeed \/ Fail \/ WaitEnds \/ Abort
    \/ Hook \/ Policy \/ Finalize \/ Jitter \/ Finished

Spec == Init /\ [][Next]_vars

----------------------------------------------------------------------------
\* Properties

(* A retry this plugin plans is within the number of attempts and the time  *)
(* the request may take, counted when it is planned and not when the error  *)
(* came, and not before the moment the server named; and no observer hears  *)
(* of a retry of a request that was aborted.                                *)
RetryWithinBudget ==
    told # None =>
       /\ attempt <= Options.retries + 1 /\ (~other.retried => attempt <= Options.retries)
       /\ told.at + told.delay <= Options.maxElapsedTime
       /\ ~told.aborted
       /\ pc = "waiting" => told.delay <= MaxDelay
                            /\ (ServerDelay # None => due >= error.at + ServerDelay)
=============================================================================
