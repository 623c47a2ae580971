---------------------------- MODULE EndingsProofs ----------------------------
(***************************************************************************)
(* Proofs about the two things a caller waits for.                         *)
(* About Lifecycle, for any number of plugins, attempts and calls of use() *)
(* and unuse():                                                            *)
(*   - type correctness, the flags and the other variables apart;          *)
(*   - ResponseIsFresh, by the invariant FreshInv;                         *)
(*   - AbortWins, which needs no invariant;                                *)
(*   - SettledSeesOutcome, by the invariant OutcomeInv, which says where   *)
(*     the body may still be when `finally` has overtaken it.              *)
(* About Sse, as MCEndings instantiates it, for any number of events and   *)
(* attempts:                                                               *)
(*   - StreamKept, by the invariants CursorInv and EndInv.                 *)
(***************************************************************************)
EXTENDS MCEndings, TLAPS

LEMMA TypeInit == Init => TypeOK
<1>1. Init => FlagsOK
  BY DEF Init, FlagsOK
<1>2. Init => ValuesOK
  BY LifecycleAssumption DEF LifecycleAssumption, Init, ValuesOK, Stage, None
<1> QED
  BY <1>1, <1>2 DEF TypeOK

LEMMA FlagsStep == FlagsOK /\ [Next]_vars => FlagsOK'
<1> SUFFICES ASSUME FlagsOK, [Next]_vars PROVE FlagsOK'
  OBVIOUS
<1> USE DEF FlagsOK, Capture, Goto, Return, Fail, Throw, frame, registry, input,
            context, ending
<1>1. CASE UNCHANGED vars
  BY <1>1 DEF vars
<1>2. ASSUME NEW p \in Plugin, Use(p) \/ Unuse(p)
      PROVE  FlagsOK'
  BY <1>2 DEF Use, Unuse
<1>3. CASE Abort \/ Detaches
  BY <1>3 DEF Abort, Detaches
<1>4. CASE Finally
  BY <1>4 DEF Finally, SettleBegins, SettledHook, SettleEnds, Deliver
<1>5. CASE Body
  <2>1. CASE Refuse \/ CallDirectly \/ Begin
    BY <2>1 DEF Refuse, CallDirectly, Begin
  <2>2. ASSUME NEW res \in {"response", "error"}, DirectReturns(res)
        PROVE  FlagsOK'
    BY <2>2 DEF DirectReturns
  <2>3. ASSUME NEW throws \in BOOLEAN,
               RequestInterceptors(throws) \/ ResponseInterceptors(throws)
        PROVE  FlagsOK'
    BY <2>3 DEF RequestInterceptors, ResponseInterceptors
  <2>4. ASSUME NEW sets \in BOOLEAN, RequestHook(sets) \/ TransportHook(sets)
        PROVE  FlagsOK'
    BY <2>4 DEF RequestHook, TransportHook
  <2>5. ASSUME NEW offers \in BOOLEAN, ResponseHook(offers) \/ ErrorHook(offers)
        PROVE  FlagsOK'
    BY <2>5 DEF ResponseHook, ErrorHook
  <2>6. CASE RequestThrows \/ RequestHooksDone \/ BeginAttempt
    BY <2>6 DEF RequestThrows, RequestHooksDone, BeginAttempt
  <2>7. CASE TransportHookThrows \/ TransportHooksDone \/ AdapterAnswers \/ AdapterThrows
    BY <2>7 DEF TransportHookThrows, TransportHooksDone, AdapterAnswers, AdapterThrows
  <2>8. CASE ResponseHookThrows \/ ResponseHooksDone
    BY <2>8 DEF ResponseHookThrows, ResponseHooksDone, Intercept
  <2>9. CASE ErrorHookThrows \/ ErrorHooksDone
    BY <2>9 DEF ErrorHookThrows, ErrorHooksDone
  <2>10. CASE RetryHookPasses \/ RetryHookThrows \/ RetryHookRetries \/ NoRetry \/ RetryWaitEnds
    BY <2>10 DEF RetryHookPasses, RetryHookThrows, RetryHookRetries, NoRetry,
                 RetryWaitEnds, ClearAttempt
  <2>11. CASE FailHookReturns \/ FailHooksDone \/ ErrorInterceptors
    BY <2>11 DEF FailHookReturns, FailHooksDone, ErrorInterceptors
  <2> HIDE DEF FlagsOK
  <2> QED
    BY <1>5, <2>1, <2>2, <2>3, <2>4, <2>5, <2>6, <2>7, <2>8, <2>9, <2>10, <2>11
    DEF Body
<1> HIDE DEF FlagsOK
<1> QED
  BY <1>1, <1>2, <1>3, <1>4, <1>5 DEF Next

LEMMA ValuesStep == ValuesOK /\ [Next]_vars => ValuesOK'
<1> SUFFICES ASSUME ValuesOK, [Next]_vars PROVE ValuesOK'
  OBVIOUS
<1> USE LifecycleAssumption
    DEF LifecycleAssumption, ValuesOK, Stage, None, Capture, Goto, Return, Fail, Throw, frame, registry, input,
            context, ending
<1>1. CASE UNCHANGED vars
  BY <1>1 DEF vars
<1>2. ASSUME NEW p \in Plugin, Use(p) \/ Unuse(p)
      PROVE  ValuesOK'
  <2>1. CASE Use(p)
    BY <2>1 DEF Use
  <2>2. CASE Unuse(p)
    BY <2>2 DEF Unuse
  <2> QED
    BY <1>2, <2>1, <2>2
<1>3. CASE Abort \/ Detaches
  <2>1. CASE Abort
    BY <2>1 DEF Abort
  <2>2. CASE Detaches
    BY <2>2 DEF Detaches
  <2> QED
    BY <1>3, <2>1, <2>2
<1>4. CASE Finally
  <2>1. CASE SettleBegins
    BY <2>1 DEF SettleBegins
  <2>2. ASSUME NEW p \in Plugin, SettledHook(p)
        PROVE  ValuesOK'
    BY <2>2 DEF SettledHook
  <2>3. CASE SettleEnds
    BY <2>3 DEF SettleEnds
  <2>4. CASE Deliver
    BY <2>4 DEF Deliver
  <2> QED
    BY <1>4, <2>1, <2>2, <2>3, <2>4 DEF Finally
<1>5. CASE Body
  <2>1. CASE Refuse \/ CallDirectly \/ Begin
    <3>1. CASE Refuse
      BY <3>1 DEF Refuse
    <3>2. CASE CallDirectly \/ Begin
      BY <3>2 DEF CallDirectly, Begin
    <3> QED
      BY <2>1, <3>1, <3>2
  <2>2. ASSUME NEW res \in {"response", "error"}, DirectReturns(res)
        PROVE  ValuesOK'
    BY <2>2 DEF DirectReturns
  <2>3. ASSUME NEW throws \in BOOLEAN,
               RequestInterceptors(throws) \/ ResponseInterceptors(throws)
        PROVE  ValuesOK'
    BY <2>3 DEF RequestInterceptors, ResponseInterceptors, FallbackAfter
  <2>4. ASSUME NEW sets \in BOOLEAN, RequestHook(sets) \/ TransportHook(sets)
        PROVE  ValuesOK'
    BY <2>4 DEF RequestHook, TransportHook, HookReturns
  <2>5. ASSUME NEW offers \in BOOLEAN, ResponseHook(offers) \/ ErrorHook(offers)
        PROVE  ValuesOK'
    BY <2>5 DEF ResponseHook, ErrorHook, HookReturns
  <2>6. CASE RequestThrows \/ RequestHooksDone \/ BeginAttempt
    BY <2>6 DEF RequestThrows, RequestHooksDone, BeginAttempt
  <2>7. CASE TransportHookThrows \/ TransportHooksDone \/ AdapterAnswers \/ AdapterThrows
    BY <2>7 DEF TransportHookThrows, TransportHooksDone, AdapterAnswers, AdapterThrows
  <2>8. CASE ResponseHookThrows \/ ResponseHooksDone
    BY <2>8 DEF ResponseHookThrows, ResponseHooksDone, Intercept, FallbackAfter
  <2>9. CASE ErrorHookThrows \/ ErrorHooksDone
    BY <2>9 DEF ErrorHookThrows, ErrorHooksDone
  <2>10. CASE RetryHookPasses \/ RetryHookThrows \/ RetryWaitEnds
    BY <2>10 DEF RetryHookPasses, RetryHookThrows, RetryWaitEnds, HookReturns
  <2>12. CASE RetryHookRetries
    BY <2>12 DEF RetryHookRetries, ClearAttempt
  <2>13. CASE NoRetry
    BY <2>13 DEF NoRetry
  <2>11. CASE FailHookReturns \/ FailHooksDone \/ ErrorInterceptors
    BY <2>11 DEF FailHookReturns, FailHooksDone, ErrorInterceptors, HookReturns
  <2> HIDE DEF ValuesOK
  <2> QED
    BY <1>5, <2>1, <2>2, <2>3, <2>4, <2>5, <2>6, <2>7, <2>8, <2>9, <2>10, <2>11,
       <2>12, <2>13
    DEF Body
<1> HIDE DEF ValuesOK
<1> QED
  BY <1>1, <1>2, <1>3, <1>4, <1>5 DEF Next

(* Type correctness of the lifecycle, for any number of plugins, attempts  *)
(* and changes of the registry.                                            *)
THEOREM TypeCorrect == Spec => []TypeOK
<1>1. TypeOK /\ [Next]_vars => TypeOK'
  BY FlagsStep, ValuesStep DEF TypeOK
<1> QED
  BY TypeInit, <1>1, PTL DEF Spec
-----------------------------------------------------------------------------
(* The response and the fallback of the context are those of the present   *)
(* attempt, and a body that ends with a response has one.                  *)
FreshInv ==
    /\ response \in {None, attempt}
    /\ fallback \in {None, attempt}
    /\ pc \in {"responseHooks", "responseInterceptors"} => response # None
    /\ result = "response" => response # None

LEMMA FreshInit == Init => FreshInv
  BY DEF Init, FreshInv

LEMMA FreshStep == ValuesOK /\ FreshInv /\ [Next]_vars => FreshInv'
<1> SUFFICES ASSUME ValuesOK, FreshInv, [Next]_vars PROVE FreshInv'
  OBVIOUS
<1> attempt # None /\ (pc = "returned" <=> result # "none")
  BY LifecycleAssumption DEF ValuesOK, None, LifecycleAssumption
<1> HIDE DEF ValuesOK
<1> USE DEF FreshInv, Capture, Goto, Return, Fail, Throw, frame,
            registry, input, context, ending
<1>1. CASE UNCHANGED vars
  BY <1>1 DEF vars
<1>2. ASSUME NEW p \in Plugin, Use(p) \/ Unuse(p)
      PROVE  FreshInv'
  BY <1>2 DEF Use, Unuse
<1>3. CASE Abort \/ Detaches
  BY <1>3 DEF Abort, Detaches
<1>4. CASE Finally
  BY <1>4 DEF Finally, SettleBegins, SettledHook, SettleEnds, Deliver
<1>5. CASE Body
  <2>1. CASE Refuse \/ CallDirectly \/ Begin
    BY <2>1 DEF Refuse, CallDirectly, Begin
  <2>2. ASSUME NEW res \in {"response", "error"}, DirectReturns(res)
        PROVE  FreshInv'
    BY <2>2 DEF DirectReturns
  <2>3. ASSUME NEW throws \in BOOLEAN, RequestInterceptors(throws)
        PROVE  FreshInv'
    BY <2>3 DEF RequestInterceptors
  <2>4. ASSUME NEW throws \in BOOLEAN, ResponseInterceptors(throws)
        PROVE  FreshInv'
    BY <2>4 DEF ResponseInterceptors, FallbackAfter
  <2>5. ASSUME NEW sets \in BOOLEAN, RequestHook(sets)
        PROVE  FreshInv'
    BY <2>5 DEF RequestHook, HookReturns
  <2>6. ASSUME NEW sets \in BOOLEAN, TransportHook(sets)
        PROVE  FreshInv'
    BY <2>6 DEF TransportHook
  <2>7. ASSUME NEW offers \in BOOLEAN, ResponseHook(offers) \/ ErrorHook(offers)
        PROVE  FreshInv'
    BY <2>7 DEF ResponseHook, ErrorHook, HookReturns
  <2>8. CASE RequestThrows \/ RequestHooksDone \/ BeginAttempt
    BY <2>8 DEF RequestThrows, RequestHooksDone, BeginAttempt
  <2>9. CASE TransportHookThrows \/ TransportHooksDone \/ AdapterAnswers \/ AdapterThrows
    BY <2>9 DEF TransportHookThrows, TransportHooksDone, AdapterAnswers, AdapterThrows
  <2>10. CASE ResponseHookThrows \/ ResponseHooksDone
    BY <2>10 DEF ResponseHookThrows, ResponseHooksDone, Intercept, FallbackAfter
  <2>11. CASE ErrorHookThrows \/ ErrorHooksDone \/ RetryHookPasses \/ RetryHookThrows
    BY <2>11 DEF ErrorHookThrows, ErrorHooksDone, RetryHookPasses, RetryHookThrows,
                 HookReturns
  <2>12. CASE RetryHookRetries
    BY <2>12 DEF RetryHookRetries, ClearAttempt
  <2>13. CASE NoRetry
    BY <2>13 DEF NoRetry
  <2>14. CASE RetryWaitEnds \/ FailHookReturns \/ FailHooksDone \/ ErrorInterceptors
    BY <2>14 DEF RetryWaitEnds, FailHookReturns, FailHooksDone, ErrorInterceptors,
                 HookReturns
  <2> HIDE DEF FreshInv
  <2> QED
    BY <1>5, <2>1, <2>2, <2>3, <2>4, <2>5, <2>6, <2>7, <2>8, <2>9, <2>10, <2>11,
       <2>12, <2>13, <2>14
    DEF Body
<1> HIDE DEF FreshInv
<1> QED
  BY <1>1, <1>2, <1>3, <1>4, <1>5 DEF Next

(* A response that reaches the caller stems from the last attempt: nothing *)
(* of an abandoned attempt survives a retry, with any hooks and changes of *)
(* the registry.                                                           *)
THEOREM Fresh == Spec => []ResponseIsFresh
<1>1. TypeOK /\ FreshInv /\ [Next]_vars => FreshInv'
  BY FreshStep DEF TypeOK
<1>2. FreshInv => ResponseIsFresh
  BY DEF FreshInv, ResponseIsFresh
<1> QED
  BY FreshInit, TypeCorrect, <1>1, <1>2, PTL DEF Spec
-----------------------------------------------------------------------------
LEMMA AbortStep == [Next]_vars =>
    (aborted => /\ pc # "adapter" => pc' # "adapter"
                /\ result = "none" /\ pc # "direct" => result' # "response")
<1> SUFFICES ASSUME [Next]_vars, aborted
             PROVE  /\ pc # "adapter" => pc' # "adapter"
                    /\ result = "none" /\ pc # "direct" => result' # "response"
  OBVIOUS
<1> USE DEF Capture, Goto, Return, Fail, Throw, frame, registry, input,
            context, ending
<1>1. CASE UNCHANGED vars
  BY <1>1 DEF vars
<1>2. ASSUME NEW p \in Plugin, Use(p) \/ Unuse(p)
      PROVE  pc' = pc /\ result' = result
  BY <1>2 DEF Use, Unuse
<1>3. CASE Abort \/ Detaches \/ Finally
  BY <1>3 DEF Abort, Detaches, Finally, SettleBegins, SettledHook, SettleEnds, Deliver
<1>4. CASE Body
  <2>1. CASE Refuse \/ CallDirectly \/ Begin
    BY <2>1 DEF Refuse, CallDirectly, Begin
  <2>2. ASSUME NEW res \in {"response", "error"}, DirectReturns(res)
        PROVE  pc = "direct" /\ pc' # "adapter"
    BY <2>2 DEF DirectReturns
  <2>3. ASSUME NEW throws \in BOOLEAN,
               RequestInterceptors(throws) \/ ResponseInterceptors(throws)
        PROVE  pc' # "adapter" /\ result' = result
    BY <2>3 DEF RequestInterceptors, ResponseInterceptors
  <2>4. ASSUME NEW sets \in BOOLEAN, RequestHook(sets) \/ TransportHook(sets)
        PROVE  pc' = pc /\ result' = result
    BY <2>4 DEF RequestHook, TransportHook, HookReturns
  <2>5. ASSUME NEW offers \in BOOLEAN, ResponseHook(offers) \/ ErrorHook(offers)
        PROVE  pc' = pc /\ result' = result
    BY <2>5 DEF ResponseHook, ErrorHook, HookReturns
  <2>6. CASE RequestThrows \/ RequestHooksDone \/ BeginAttempt
    BY <2>6 DEF RequestThrows, RequestHooksDone, BeginAttempt
  <2>7. CASE TransportHookThrows \/ TransportHooksDone \/ AdapterAnswers \/ AdapterThrows
    BY <2>7 DEF TransportHookThrows, TransportHooksDone, AdapterAnswers, AdapterThrows
  <2>8. CASE ResponseHookThrows \/ ResponseHooksDone
    BY <2>8 DEF ResponseHookThrows, ResponseHooksDone
  <2>9. CASE ErrorHookThrows \/ ErrorHooksDone \/ RetryHookPasses \/ RetryHookThrows
             \/ RetryHookRetries \/ NoRetry \/ RetryWaitEnds
    BY <2>9 DEF ErrorHookThrows, ErrorHooksDone, RetryHookPasses, RetryHookThrows,
                RetryHookRetries, NoRetry, RetryWaitEnds, HookReturns
  <2>10. CASE FailHookReturns \/ FailHooksDone \/ ErrorInterceptors
    BY <2>10 DEF FailHookReturns, FailHooksDone, ErrorInterceptors, HookReturns
  <2> QED
    BY <1>4, <2>1, <2>2, <2>3, <2>4, <2>5, <2>6, <2>7, <2>8, <2>9, <2>10 DEF Body
<1> QED
  BY <1>1, <1>2, <1>3, <1>4 DEF Next

(* Once the signal has fired, no adapter call is started and no response   *)
(* is returned, whatever hooks and interceptors do.                        *)
THEOREM AbortIsFinal == Spec => AbortWins
<1>1. [Next]_vars =>
        [aborted => /\ pc # "adapter" => pc' # "adapter"
                    /\ result = "none" /\ pc # "direct" => result' # "response"]_vars
  BY AbortStep
<1> QED
  BY <1>1, PTL DEF Spec, AbortWins
-----------------------------------------------------------------------------
(* Outside of recoverFromError the body only detaches on its way to a      *)
(* rejection, and `finally` sees an error that can no longer go away, or   *)
(* the end itself; and nothing leads out of recoverFromError but the end.  *)
Early == {"idle", "direct", "requestInterceptors", "requestHooks", "attempt",
          "transportHooks", "adapter", "responseHooks", "responseInterceptors",
          "waiting"}
Failing == {"failHooks", "errorInterceptors"}

Recovering == {"responseHooks", "responseInterceptors"}
DetachedFallback == detached /\ origin = "fallback"

OutcomeInv ==
    /\ origin = "fallback" => pc \in Recovering \union Failing \union {"returned"}
    /\ pc \in Early => ~error
    /\ pc = "idle" => response = None
    /\ pc \in Failing \union {"errorHooks", "retryHooks"} => error
    /\ detached => \/ origin = "fallback"
                   \/ error /\ pc \in Failing \union {"returned"}
    /\ settle # "no" => detached \/ pc = "returned"
    /\ seen # {} => settle # "no"
    /\ pc = "returned" => (result = "response" <=> ~error /\ response # None)
    /\ "response" \in seen => result = "response" \/ DetachedFallback
    /\ "error" \in seen => result # "response" \/ DetachedFallback

LEMMA OutcomeInit == Init => OutcomeInv
  BY DEF Init, OutcomeInv, Early, Failing, Recovering

LEMMA OutcomeStep ==
    ASSUME TypeOK, FreshInv, OutcomeInv, [Next]_vars
    PROVE  OutcomeInv'
<1> pc \in {"responseHooks", "responseInterceptors"} => response # None
  BY DEF FreshInv
<1> /\ pc = "returned" <=> result # "none"
    /\ seen \subseteq {"response", "error"}
    /\ attempt # None
  BY LifecycleAssumption DEF TypeOK, ValuesOK, None, LifecycleAssumption
<1> USE DEF OutcomeInv, DetachedFallback, Early, Failing, Recovering, Capture, Goto, Return, Fail, Throw, frame,
            registry, input, context, ending
<1>1. CASE UNCHANGED vars
  BY <1>1 DEF vars
<1>2. ASSUME NEW p \in Plugin, Use(p) \/ Unuse(p)
      PROVE  OutcomeInv'
  BY <1>2 DEF Use, Unuse
<1>3. CASE Abort \/ Detaches
  BY <1>3 DEF Abort, Detaches
<1>4. CASE Finally
  <2>1. CASE SettleBegins
    BY <2>1 DEF SettleBegins
  <2>2. ASSUME NEW p \in Plugin, SettledHook(p)
        PROVE  OutcomeInv'
    BY <2>2 DEF SettledHook
  <2>3. CASE SettleEnds \/ Deliver
    BY <2>3 DEF SettleEnds, Deliver
  <2> QED
    BY <1>4, <2>1, <2>2, <2>3 DEF Finally
<1>5. CASE Body
  <2>1. CASE Refuse \/ CallDirectly \/ Begin
    BY <2>1 DEF Refuse, CallDirectly, Begin
  <2>2. ASSUME NEW res \in {"response", "error"}, DirectReturns(res)
        PROVE  OutcomeInv'
    BY <2>2 DEF DirectReturns
  <2>3. ASSUME NEW throws \in BOOLEAN, RequestInterceptors(throws)
        PROVE  OutcomeInv'
    BY <2>3 DEF RequestInterceptors
  <2>4. ASSUME NEW throws \in BOOLEAN, ResponseInterceptors(throws)
        PROVE  OutcomeInv'
    BY <2>4 DEF ResponseInterceptors, FallbackAfter
  <2>5. ASSUME NEW sets \in BOOLEAN, RequestHook(sets) \/ TransportHook(sets)
        PROVE  OutcomeInv'
    BY <2>5 DEF RequestHook, TransportHook, HookReturns
  <2>6. ASSUME NEW offers \in BOOLEAN, ResponseHook(offers) \/ ErrorHook(offers)
        PROVE  OutcomeInv'
    BY <2>6 DEF ResponseHook, ErrorHook, HookReturns
  <2>7. CASE RequestThrows \/ RequestHooksDone \/ BeginAttempt
    BY <2>7 DEF RequestThrows, RequestHooksDone, BeginAttempt
  <2>8. CASE TransportHookThrows \/ TransportHooksDone \/ AdapterAnswers \/ AdapterThrows
    BY <2>8 DEF TransportHookThrows, TransportHooksDone, AdapterAnswers, AdapterThrows
  <2>9. CASE ResponseHookThrows \/ ResponseHooksDone
    BY <2>9 DEF ResponseHookThrows, ResponseHooksDone, Intercept, FallbackAfter
  <2>10. CASE ErrorHookThrows \/ ErrorHooksDone \/ RetryHookPasses \/ RetryHookThrows
    BY <2>10 DEF ErrorHookThrows, ErrorHooksDone, RetryHookPasses, RetryHookThrows,
                 HookReturns
  <2>11. CASE RetryHookRetries \/ NoRetry \/ RetryWaitEnds
    BY <2>11 DEF RetryHookRetries, ClearAttempt, NoRetry, RetryWaitEnds
  <2>12. CASE FailHookReturns \/ FailHooksDone \/ ErrorInterceptors
    BY <2>12 DEF FailHookReturns, FailHooksDone, ErrorInterceptors, HookReturns
  <2> HIDE DEF OutcomeInv
  <2> QED
    BY <1>5, <2>1, <2>2, <2>3, <2>4, <2>5, <2>6, <2>7, <2>8, <2>9, <2>10, <2>11, <2>12
    DEF Body
<1> HIDE DEF OutcomeInv
<1> QED
  BY <1>1, <1>2, <1>3, <1>4, <1>5 DEF Next

(* The settled hooks take for the outcome of a request what its body ends  *)
(* with, although they may run before the asynchronous error hooks and     *)
(* interceptors have finished: for any hooks, interceptors and changes of  *)
(* the registry, unless the body detached while recovering a fallback.     *)
THEOREM OutcomeSeen == Spec => []SettledSeesOutcome
<1>1. TypeOK /\ FreshInv /\ [Next]_vars => FreshInv'
  BY FreshStep DEF TypeOK
<1>2. TypeOK /\ FreshInv /\ OutcomeInv /\ [Next]_vars => OutcomeInv'
  BY OutcomeStep
<1>3. TypeOK /\ OutcomeInv => SettledSeesOutcome
  <2>1. ASSUME TypeOK PROVE /\ result \in {"none", "response", "error"}
                           /\ seen \subseteq {"response", "error"}
    BY <2>1 DEF TypeOK, ValuesOK
  <2>2. OutcomeInv => ("response" \in seen => result = "response" \/ DetachedFallback)
    BY DEF OutcomeInv
  <2>3. OutcomeInv => ("error" \in seen => result # "response" \/ DetachedFallback)
    BY DEF OutcomeInv
  <2> QED
    BY <2>1, <2>2, <2>3 DEF SettledSeesOutcome, DetachedFallback
<1> QED
  BY FreshInit, OutcomeInit, TypeCorrect, <1>1, <1>2, <1>3, PTL DEF Spec

-----------------------------------------------------------------------------
(* The stream.  The parser has seen the ids up to lastEventId, each of them *)
(* delivered or cut off, or read and not yet complete: this is what makes   *)
(* the next connection resume after the right event.                        *)
CursorInv ==
    /\ line \in BOOLEAN
    /\ delivered \cup unfinished \subseteq 1..lastEventId
    /\ 1..lastEventId \subseteq delivered \cup unfinished \cup (IF line THEN {lastEventId} ELSE {})
    /\ delivered \cap unfinished = {}
    /\ line => lastEventId \in 1..MaxEvents /\ lastEventId \notin delivered \cup unfinished
    /\ line => stream \in {"reading", "validating", "done"}
    /\ stream = "validating" => line

(* An iteration has ended when it has an outcome, and then its connection   *)
(* is gone and its observer told; an error is told by the end alone.  It    *)
(* waits only for an attempt that is left.                                  *)
EndInv ==
    /\ closing \in BOOLEAN /\ stopped \in BOOLEAN /\ lastError \in BOOLEAN
    /\ stream = "done" <=> outcome # Undefined
    /\ stream = "done" => conn \in {"none", "empty", "stopped"} /\ told \in {"closed", "errored"}
    /\ told = "errored" => outcome = "failed"
    /\ closing => outcome # "failed"
    /\ stream = "waiting" => attempts < Connections

StreamInv == Stream!TypeOK /\ CursorInv /\ EndInv

LEMMA StreamInit == Stream!Init => StreamInv
<1> SUFFICES ASSUME Stream!Init PROVE StreamInv
  OBVIOUS
<1> USE StreamAssumption DEF Stream!SseAssumption, Stream!Init
<1>1. Stream!TypeOK
  BY DEF Stream!TypeOK, Stream!Event, Stream!Suspended, Stream!Running
<1>2. CursorInv
  <2>1. 1..0 = {}
    OBVIOUS
  <2> QED
    BY <2>1 DEF CursorInv
<1>3. EndInv
  BY DEF EndInv
<1> QED
  BY <1>1, <1>2, <1>3 DEF StreamInv

(* What an iteration that ends leaves, and what one leaves that goes on to  *)
(* another attempt.                                                         *)
Ended ==
    /\ stream' = "done" /\ outcome' \in {"finished", "returned", "failed"}
    /\ conn' \in {"none", "empty", "stopped"} /\ told' \in {"closed", "errored"}
    /\ told' = "errored" => outcome' = "failed"
    /\ closing => outcome' # "failed"

Retried ==
    /\ stream' = "waiting" /\ conn' = "none" /\ outcome' = outcome
    /\ told' \in {told, "reconnecting"} /\ attempts < Connections

LEMMA EndsLeave ==
  ASSUME StreamInv, stream # "done", NEW how \in {"finished", "returned", "failed"},
         Stream!Ends(how), closing => how # "failed"
  PROVE  Ended
BY StreamAssumption
DEF StreamInv, Stream!TypeOK, EndInv, Stream!Ends, Stream!Cut, Stream!Tells, Ended, Stream!SseAssumption

LEMMA FinishLeaves ==
  ASSUME StreamInv, stream # "done", Stream!Finish
  PROVE  Ended
BY EndsLeave DEF Stream!Finish

LEMMA FailLeaves ==
  ASSUME StreamInv, stream # "done", Stream!Fail
  PROVE  Ended
BY EndsLeave DEF Stream!Fail

LEMMA AgainLeaves ==
  ASSUME StreamInv, stream # "done", NEW failed \in BOOLEAN, Stream!Again(failed)
  PROVE  (Ended \/ Retried) /\ lastError' \in BOOLEAN
<1>0. lastError \in BOOLEAN
  BY DEF StreamInv, EndInv
<1>1. CASE Stream!Fail
  BY <1>0, <1>1, FailLeaves DEF Stream!Again
<1>2. CASE ~Stream!Fail
  <2>1. /\ ~Stream!Stopped /\ lastError' = failed
        /\ attempts >= Connections => Stream!Finish
        /\ ~(attempts >= Connections) =>
             stream' = "waiting" /\ conn' = "none" /\ Stream!Tells("reconnecting") /\ UNCHANGED outcome
    BY <1>2 DEF Stream!Again
  <2>2. CASE attempts >= Connections
    BY <2>1, <2>2, FinishLeaves
  <2>3. CASE ~(attempts >= Connections)
    <3>1. attempts < Connections
      BY <2>3, StreamAssumption DEF StreamInv, Stream!TypeOK, Stream!SseAssumption
    <3> QED
      BY <2>1, <2>3, <3>1 DEF Retried, Stream!Tells
  <2> QED
    BY <2>2, <2>3
<1> QED
  BY <1>1, <1>2

(* What is lost leaves nothing open behind the cursor. *)
LEMMA LostKept ==
  ASSUME StreamInv, line' = FALSE, unfinished' = Stream!Lost,
         lastEventId' = lastEventId, delivered' = delivered,
         stream' \in Stream!Suspended \cup Stream!Running \cup {"done"}, stream' # "validating"
  PROVE  CursorInv' /\ unfinished' \subseteq Stream!Event
<1>1. CASE line
  <2>1. unfinished' = unfinished \cup {lastEventId} /\ lastEventId \in 1..MaxEvents
    BY <1>1 DEF Stream!Lost, StreamInv, CursorInv
  <2>2. lastEventId \in 1..lastEventId
    BY <2>1
  <2>3. /\ delivered \cup unfinished \subseteq 1..lastEventId
        /\ 1..lastEventId \subseteq delivered \cup unfinished \cup {lastEventId}
        /\ delivered \cap unfinished = {} /\ lastEventId \notin delivered
        /\ unfinished \subseteq Stream!Event
    BY <1>1 DEF StreamInv, CursorInv, Stream!TypeOK
  <2>4. CursorInv'
    BY <2>1, <2>2, <2>3 DEF CursorInv
  <2> QED
    BY <2>1, <2>3, <2>4 DEF Stream!Event
<1>2. CASE ~line
  <2>1. unfinished' = unfinished
    BY <1>2 DEF Stream!Lost
  <2> QED
    BY <1>2, <2>1 DEF StreamInv, CursorInv, Stream!TypeOK, Stream!Event
<1> QED
  BY <1>1, <1>2 DEF StreamInv, CursorInv

(* The ends and retries keep the invariant of the end, and the type. *)
LEMMA EndKept ==
  ASSUME StreamInv, stream # "done", Ended \/ Retried, lastError' \in BOOLEAN,
         UNCHANGED <<attempts, closing, stopped, lastEventId>>,
         delivered' \subseteq Stream!Event, unfinished' \subseteq Stream!Event
  PROVE  EndInv' /\ Stream!TypeOK'
<1> USE StreamAssumption
    DEF StreamInv, EndInv, Stream!TypeOK, Stream!SseAssumption, Stream!Suspended, Stream!Running
<1>1. CASE Ended
  BY <1>1 DEF Ended
<1>2. CASE Retried
  BY <1>2 DEF Retried
<1> QED
  BY <1>1, <1>2

(* And with the cursor as it was: what was read and cut off stays read.     *)
LEMMA CursorKept ==
  ASSUME StreamInv, UNCHANGED <<line, lastEventId, delivered, unfinished>>,
         stream' = "done" \/ (~line /\ stream' # "validating")
  PROVE  CursorInv'
BY DEF StreamInv, CursorInv

LEMMA StreamStep == StreamInv /\ [Stream!Next]_streamvars => StreamInv'
<1> SUFFICES ASSUME StreamInv, [Stream!Next]_streamvars PROVE StreamInv'
  OBVIOUS
<1>0. line \in BOOLEAN /\ lastError \in BOOLEAN
  BY DEF StreamInv, CursorInv, EndInv
<1>1. CASE UNCHANGED streamvars
  BY <1>1 DEF streamvars, StreamInv, Stream!TypeOK, CursorInv, EndInv, Stream!Event,
       Stream!Suspended, Stream!Running
<1>2. CASE Stream!Arrive \/ Stream!Disconnect
  BY <1>2 DEF Stream!Arrive, Stream!Disconnect, StreamInv, Stream!TypeOK, CursorInv, EndInv, Stream!Cursor,
       Stream!Suspended, Stream!Running, Stream!Tells
<1>3. CASE Stream!Take
  <2>1. CASE conn = "empty"
    <3>1. Ended /\ stream # "done" /\ ~line
      BY <1>3, <2>1, FinishLeaves DEF Stream!Take, StreamInv, CursorInv
    <3> QED
      BY <1>0, <1>3, <3>1, EndKept, CursorKept DEF Stream!Take, Stream!Cursor, StreamInv, Stream!TypeOK, Ended
  <2>2. CASE conn # "empty"
    BY <1>3, <2>2 DEF Stream!Take, StreamInv, Stream!TypeOK, CursorInv, EndInv, Stream!Cursor,
       Stream!Suspended, Stream!Running
  <2> QED
    BY <2>1, <2>2
<1>4. CASE Stream!ConnectFails
  <2>0. stream # "done" /\ ~line
    BY <1>4 DEF Stream!ConnectFails, StreamInv, CursorInv
  <2>1. (Ended \/ Retried) /\ lastError' \in BOOLEAN
    BY <1>0, <1>4, <2>0, FailLeaves, AgainLeaves DEF Stream!ConnectFails
  <2>2. stream' # "validating"
    BY <2>1 DEF Ended, Retried
  <2> QED
    BY <1>4, <2>0, <2>1, <2>2, EndKept, CursorKept
    DEF Stream!ConnectFails, Stream!Cursor, StreamInv, Stream!TypeOK
<1>5. CASE Stream!WaitEnds
  <2>0. stream = "waiting" /\ ~line
    BY <1>5 DEF Stream!WaitEnds, StreamInv, CursorInv
  <2>1. CASE Stream!Stopped
    <3>1. Ended
      BY <1>5, <2>0, <2>1, FailLeaves DEF Stream!WaitEnds
    <3> QED
      BY <1>0, <1>5, <2>0, <2>1, <3>1, EndKept, CursorKept
      DEF Stream!WaitEnds, Stream!Cursor, StreamInv, Stream!TypeOK, Ended
  <2>2. CASE ~Stream!Stopped
    <3>1. attempts' \in 0..Connections
      BY <1>5, <2>0, <2>2, StreamAssumption
      DEF Stream!WaitEnds, StreamInv, EndInv, Stream!TypeOK, Stream!SseAssumption
    <3> QED
      BY <1>5, <2>0, <2>2, <3>1
      DEF Stream!WaitEnds, StreamInv, Stream!TypeOK, CursorInv, EndInv, Stream!Cursor,
          Stream!Suspended, Stream!Running
  <2> QED
    BY <2>1, <2>2
<1>6. CASE Stream!ReadId
  <2>1. lastEventId + 1 \in 1..MaxEvents /\ 1..lastEventId' = 1..lastEventId \cup {lastEventId + 1}
        /\ lastEventId + 1 \notin 1..lastEventId
    BY <1>6, StreamAssumption DEF Stream!ReadId, StreamInv, Stream!TypeOK, Stream!Event, Stream!SseAssumption
  <2>2. line' /\ lastEventId' = lastEventId + 1 /\ delivered' = delivered /\ unfinished' = unfinished
        /\ stream' = "reading" /\ ~line
    BY <1>6 DEF Stream!ReadId
  <2>3. CursorInv'
    <3>1. 1..lastEventId \subseteq delivered \cup unfinished /\ delivered \cup unfinished \subseteq 1..lastEventId
      BY <2>2 DEF StreamInv, CursorInv
    <3> QED
      BY <1>6, <2>1, <2>2, <3>1 DEF StreamInv, CursorInv, Stream!ReadId
  <2> QED
    BY <1>6, <2>1, <2>2, <2>3
    DEF Stream!ReadId, StreamInv, Stream!TypeOK, EndInv, Stream!Event, Stream!Suspended, Stream!Running
<1>7. CASE Stream!ReadEvent
  BY <1>7, StreamAssumption
  DEF Stream!ReadEvent, StreamInv, Stream!TypeOK, CursorInv, EndInv, Stream!Event, Stream!Suspended, Stream!Running,
      Stream!SseAssumption
<1>8. CASE Stream!Validate
  <2>1. stream = "validating" /\ line /\ line' = FALSE /\ lastEventId' = lastEventId
        /\ UNCHANGED <<lastEventId, attempts, lastError, closing, stopped>>
    BY <1>8 DEF Stream!Validate, StreamInv, CursorInv
  <2>2. CASE Stream!RejectsItem /\ UNCHANGED delivered
    <3>1. Ended
      BY <2>1, <2>2, FailLeaves DEF Stream!RejectsItem
    <3>2. CursorInv' /\ unfinished' \subseteq Stream!Event
      BY <2>1, <2>2, <3>1, LostKept DEF Stream!RejectsItem, Ended
    <3> QED
      BY <1>0, <2>1, <2>2, <3>1, <3>2, EndKept DEF StreamInv, Stream!TypeOK
  <2>3. CASE /\ stream' = "idle" /\ delivered' = delivered \cup {lastEventId}
             /\ UNCHANGED <<conn, unfinished, told, outcome>>
    <3>1. lastEventId \in 1..MaxEvents /\ lastEventId \in 1..lastEventId /\ lastEventId \notin unfinished
      BY <2>1, StreamAssumption DEF StreamInv, CursorInv, Stream!SseAssumption
    <3>2. /\ delivered \cup unfinished \subseteq 1..lastEventId
          /\ 1..lastEventId \subseteq delivered \cup unfinished \cup {lastEventId}
          /\ delivered \cap unfinished = {}
      BY <2>1 DEF StreamInv, CursorInv
    <3>3. CursorInv'
      BY <2>1, <2>3, <3>1, <3>2 DEF CursorInv
    <3>4. Stream!TypeOK' /\ EndInv'
      BY <2>1, <2>3, <3>1
      DEF StreamInv, Stream!TypeOK, EndInv, Stream!Event, Stream!Suspended, Stream!Running
    <3> QED
      BY <3>3, <3>4 DEF StreamInv
  <2> QED
    BY <1>8, <2>2, <2>3 DEF Stream!Validate
<1>9. CASE Stream!TooLarge
  <2>1. Ended
    BY <1>9, FailLeaves DEF Stream!TooLarge
  <2>2. CursorInv' /\ unfinished' \subseteq Stream!Event
    BY <1>9, <2>1, LostKept DEF Stream!TooLarge, Ended
  <2> QED
    BY <1>0, <1>9, <2>1, <2>2, EndKept DEF Stream!TooLarge, StreamInv, Stream!TypeOK
<1>10. CASE Stream!StreamEnds
  <2>0. stream # "done"
    BY <1>10 DEF Stream!StreamEnds
  <2>1. (Ended \/ Retried) /\ lastError' \in BOOLEAN
    <3>1. CASE conn = "empty"
      BY <1>0, <1>10, <2>0, <3>1, FinishLeaves DEF Stream!StreamEnds
    <3>2. CASE conn # "empty"
      <4>1. PICK failed \in BOOLEAN : failed = (conn = "broken")
        OBVIOUS
      <4> QED
        BY <1>10, <2>0, <3>2, <4>1, AgainLeaves DEF Stream!StreamEnds
    <3> QED
      BY <3>1, <3>2
  <2>2. CursorInv' /\ unfinished' \subseteq Stream!Event
    BY <1>10, <2>1, LostKept DEF Stream!StreamEnds, Ended, Retried, Stream!Running
  <2> QED
    BY <1>10, <2>0, <2>1, <2>2, EndKept DEF Stream!StreamEnds, StreamInv, Stream!TypeOK
<1>11. CASE Stream!NextEvent
  BY <1>11
  DEF Stream!NextEvent, StreamInv, Stream!TypeOK, CursorInv, EndInv, Stream!Cursor, Stream!Suspended, Stream!Running
<1>12. CASE Stream!Return
  <2>1. stream # "done" /\ closing' = TRUE /\ ~closing /\ UNCHANGED <<line, lastEventId, delivered, unfinished, attempts, lastError, stopped>>
    BY <1>12 DEF Stream!Return, Stream!Cursor, Stream!Suspended, Stream!Running
  <2>2. CASE stream \in Stream!Suspended
    BY <1>12, <2>1, <2>2, StreamAssumption
    DEF Stream!SseAssumption, Stream!Return, Stream!CloseConnection, Stream!Ends, Stream!Tells, Stream!Cut, StreamInv, Stream!TypeOK,
        CursorInv, EndInv, Stream!Suspended, Stream!Running
  <2>3. CASE stream \notin Stream!Suspended
    BY <1>12, <2>1, <2>3, StreamAssumption
    DEF Stream!SseAssumption, Stream!Return, Stream!CloseConnection, Stream!Tells, Stream!Cut, StreamInv, Stream!TypeOK,
        CursorInv, EndInv, Stream!Suspended, Stream!Running
  <2> QED
    BY <2>2, <2>3
<1>13. CASE Stream!Abort
  BY <1>13
  DEF Stream!Abort, Stream!Tells, Stream!Cut, StreamInv, Stream!TypeOK, CursorInv, EndInv, Stream!Cursor,
      Stream!Suspended, Stream!Running
<1> QED
  BY <1>1, <1>2, <1>3, <1>4, <1>5, <1>6, <1>7, <1>8, <1>9, <1>10, <1>11, <1>12,
     <1>13 DEF Stream!Next

LEMMA StreamKeeps == StreamInv => StreamKept
  BY StreamAssumption
  DEF StreamInv, StreamKept, Stream!OnlyUnfinishedMissed, Stream!EndsQuietly, Stream!TypeOK,
      CursorInv, EndInv, Stream!SseAssumption, Stream!Event

(* Whatever the consumer got, the events before it came too, but for those  *)
(* cut off between their id and their end; and an iteration that has ended  *)
(* leaves no connection, an observer that was told, and after a close no    *)
(* error.                                                                   *)
THEOREM StreamSafe == MCSpec => []StreamKept
<1>1. MCInit => StreamInv
  BY StreamInit DEF MCInit
<1>2. StreamInv /\ [MCNext]_mcvars => StreamInv'
  <2>1. [MCNext]_mcvars => [Stream!Next]_streamvars
    BY DEF MCNext, mcvars
  <2> QED
    BY <2>1, StreamStep
<1> QED
  BY <1>1, <1>2, StreamKeeps, PTL DEF MCSpec
=============================================================================
