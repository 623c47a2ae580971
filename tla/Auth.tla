-------------------------------- MODULE Auth --------------------------------
(***************************************************************************)
(* authPlugin, installed on several clients.  Requests carry the token     *)
(* they found in storage; one that is refused joins the pending refresh or *)
(* starts one, waits for its token and is sent once more.  Tokens are      *)
(* numbers, newer ones larger, None when there is none; the server refuses *)
(* requests without a token, and those whose token is older than valid.    *)
(***************************************************************************)
EXTENDS Naturals, FiniteSets

CONSTANTS
    Request, Installation,
    Refresh,       \* bound: calls of refreshToken()
    MaxToken,      \* bound: tokens the server issues
    HasPolicy,     \* is there a shouldRefresh?
    Late,          \* may a captured hook run after its plugin was removed?
    None

AuthAssumption ==
    /\ MaxToken \in Nat /\ HasPolicy \in BOOLEAN /\ Late \in BOOLEAN
    /\ None \notin Installation \cup Refresh

VARIABLES
    req,           \* requests
    refresh,       \* calls of refreshToken() and what follows each
    refreshState,
    installed,
    stored,        \* the token in storage
    valid

vars == <<req, refresh, refreshState, installed, stored, valid>>

Token == 0..MaxToken
Pending == {"running", "writing"}
NoRequest == [pc |-> "new", inst |-> None, token |-> None, refreshed |-> FALSE, waits |-> None]
NoRefresh == [state |-> "none", members |-> {}, joined |-> {}, token |-> None, void |-> FALSE]

TypeOK ==
    /\ \A r \in Request :
          /\ req[r].pc \in {"new", "gets", "sent", "refused", "asks", "joins", "reads", "done"}
          /\ req[r].inst \in Installation \cup {None} /\ req[r].token \in Token \cup {None}
          /\ req[r].pc = "joins" => req[r].waits \in Refresh
    /\ \A f \in Refresh :
          /\ refresh[f].state \in {"none", "failed", "settled"} \cup Pending
          /\ refresh[f].members \subseteq refresh[f].joined
    /\ installed \in [Installation -> {"not yet", "on", "off"}]
    /\ stored \in Token \cup {None} /\ valid \in Token

Init ==
    /\ req = [r \in Request |-> NoRequest]
    /\ refresh = [f \in Refresh |-> NoRefresh]
    /\ refreshState = None
    /\ installed = [i \in Installation |-> "not yet"]
    /\ stored \in {0, None} /\ valid = 0

On(i) == installed[i] = "on"

----------------------------------------------------------------------------
\* The server

\* Tokens expire.
Expire == valid < MaxToken /\ valid' = valid + 1 /\ UNCHANGED <<req, refresh, refreshState, installed, stored>>

Answer(r) ==
    /\ req[r].pc = "sent"
    /\ req' = [req EXCEPT ![r].pc = IF req[r].token = None \/ req[r].token < valid THEN "refused" ELSE "done"]
    /\ UNCHANGED <<refresh, refreshState, installed, stored, valid>>

----------------------------------------------------------------------------
\* Requests

\* The request interceptor asks for the token, and goes on with what it gets,
\* without the header if that is none; it does not look at the installation again.
Send(r, i) ==
    /\ req[r].pc = "new" /\ On(i)
    /\ req' = [req EXCEPT ![r].pc = "gets", ![r].inst = i]
    /\ UNCHANGED <<refresh, refreshState, installed, stored, valid>>

GetToken(r) ==
    /\ req[r].pc = "gets"
    /\ req' = [req EXCEPT ![r].pc = "sent", ![r].token = stored]
    /\ UNCHANGED <<refresh, refreshState, installed, stored, valid>>

Gives(r) == req' = [req EXCEPT ![r] = [NoRequest EXCEPT !.pc = "done"]]
GivesUp(r) == Gives(r) /\ UNCHANGED <<refresh, refreshState>>

\* refreshAccessToken: the pending refresh, or a new one; refreshToken() may throw.
JoinRefresh(r) ==
    LET i == req[r].inst
        joins(f) == req' = [req EXCEPT ![r].pc = "joins", ![r].refreshed = TRUE, ![r].waits = f]
    IN  \/ /\ refreshState # None /\ joins(refreshState)
           /\ refresh' = [refresh EXCEPT ![refreshState].members = @ \cup {i}, ![refreshState].joined = @ \cup {i}]
           /\ UNCHANGED refreshState
        \/ /\ refreshState = None
           /\ \E f \in Refresh :
                 /\ refresh[f].state = "none" /\ joins(f)
                 /\ refresh' = [refresh EXCEPT ![f] =
                                   [NoRefresh EXCEPT !.state = "running", !.members = {i}, !.joined = {i}]]
                 /\ refreshState' = f
        \/ refreshState = None /\ GivesUp(r)

\* The onRetry hook: once per request, and after the policy's answer.
Hook(r) ==
    /\ req[r].pc = "refused"
    /\ \/ req[r].refreshed /\ GivesUp(r)
       \/ /\ ~req[r].refreshed /\ (On(req[r].inst) \/ Late)
          /\ IF HasPolicy THEN req' = [req EXCEPT ![r].pc = "asks"] /\ UNCHANGED <<refresh, refreshState>>
             ELSE JoinRefresh(r)
       \/ ~On(req[r].inst) /\ GivesUp(r)
    /\ UNCHANGED <<installed, stored, valid>>

PolicyAnswers(r) ==
    /\ req[r].pc = "asks"
    /\ \/ On(req[r].inst) /\ JoinRefresh(r)
       \/ GivesUp(r)
    /\ UNCHANGED <<installed, stored, valid>>

\* refreshRequest goes on with the token of the refresh, or reads one.
Resume(r) ==
    LET f == refresh[req[r].waits]
    IN  /\ req[r].pc = "joins" /\ f.state \in {"settled", "failed"}
        /\ req' = [req EXCEPT ![r] =
              IF f.state = "failed" \/ ~On(@.inst) \/ (~f.void /\ f.token = None)
              THEN [NoRequest EXCEPT !.pc = "done"]
              ELSE IF f.void THEN [@ EXCEPT !.pc = "reads", !.waits = None]
              ELSE [@ EXCEPT !.pc = "sent", !.token = f.token, !.waits = None]]
        /\ UNCHANGED <<refresh, refreshState, installed, stored, valid>>

ReadToken(r) ==
    /\ req[r].pc = "reads"
    /\ IF On(req[r].inst) /\ stored # None THEN req' = [req EXCEPT ![r].pc = "sent", ![r].token = stored] ELSE Gives(r)
    /\ UNCHANGED <<refresh, refreshState, installed, stored, valid>>

\* The signal of a request that waits; what it waits for goes on.
Abort(r) ==
    /\ req[r].pc \in {"gets", "asks", "joins", "reads"}
    /\ GivesUp(r) /\ UNCHANGED <<installed, stored, valid>>

----------------------------------------------------------------------------
\* A refresh

\* The mutant: a refresh that has ended is remembered as the pending one.
StaysPending(f) == UNCHANGED refreshState

\* finally(): only if the state still is this refresh.
Forgets(f) == refreshState' = IF refreshState = f THEN None ELSE refreshState

Ends(f, r) == refresh' = [refresh EXCEPT ![f] = r]

\* The mutant: who takes part is not asked before the write.
WritesAnyway(f) == TRUE

WritesToken(f) == refresh[f].members # {}

\* refreshToken() returns a token, which is written unless nobody takes part any
\* more; or an empty one; or nothing, having updated the storage or not; or fails.
Finish(f) ==
    /\ refresh[f].state = "running"
    /\ LET got == [refresh[f] EXCEPT !.token = valid]
       IN  \/ WritesToken(f) /\ Ends(f, [got EXCEPT !.state = "writing"]) /\ UNCHANGED <<refreshState, stored>>
           \/ ~WritesToken(f) /\ Ends(f, [got EXCEPT !.state = "settled"]) /\ Forgets(f) /\ UNCHANGED stored
           \/ Ends(f, [got EXCEPT !.state = "settled", !.token = None]) /\ Forgets(f) /\ UNCHANGED stored
           \/ Ends(f, [got EXCEPT !.state = "settled", !.void = TRUE]) /\ Forgets(f) /\ stored' \in {stored, valid}
           \/ Ends(f, [got EXCEPT !.state = "failed"]) /\ Forgets(f) /\ UNCHANGED stored
    /\ UNCHANGED <<req, installed, valid>>

\* storage.set() is done or has failed.
WriteDone(f) ==
    /\ refresh[f].state = "writing"
    /\ Forgets(f)
    /\ \/ stored' = refresh[f].token /\ Ends(f, [refresh[f] EXCEPT !.state = "settled"])
       \/ UNCHANGED stored /\ Ends(f, [refresh[f] EXCEPT !.state = "failed"])
    /\ UNCHANGED <<req, installed, valid>>

----------------------------------------------------------------------------
\* Installations

Install(i) ==
    /\ installed[i] = "not yet"
    /\ installed' = [installed EXCEPT ![i] = "on"]
    /\ UNCHANGED <<req, refresh, refreshState, stored, valid>>

\* The cleanup: the installation leaves the pending refresh, the last one drops it.
Unuse(i) ==
    /\ On(i)
    /\ installed' = [installed EXCEPT ![i] = "off"]
    /\ IF refreshState = None THEN UNCHANGED <<refresh, refreshState>>
       ELSE LET rest == refresh[refreshState].members \ {i}
            IN  /\ refresh' = [refresh EXCEPT ![refreshState].members = rest]
                /\ refreshState' = IF rest = {} THEN None ELSE refreshState
    /\ UNCHANGED <<req, stored, valid>>

Finished ==
    /\ \A r \in Request : req[r].pc \in {"new", "done"}
    /\ UNCHANGED vars

Next ==
    \/ \E r \in Request, i \in Installation : Send(r, i)
    \/ \E r \in Request : \/ GetToken(r) \/ Answer(r) \/ Hook(r) \/ PolicyAnswers(r)
                          \/ Resume(r) \/ ReadToken(r) \/ Abort(r)
    \/ \E f \in Refresh : Finish(f) \/ WriteDone(f)
    \/ \E i \in Installation : Install(i) \/ Unuse(i)
    \/ Expire \/ Finished

Spec == Init /\ [][Next]_vars

----------------------------------------------------------------------------
\* Properties

(* Concurrent refusals share one refresh: of two that are pending, one has  *)
(* been left by every installation that took part, and the one that later   *)
(* requests would join has not ended and has not been left by all.          *)
RefreshShared ==
    /\ TypeOK
    /\ \A f, g \in Refresh :
          f # g /\ refresh[f].state \in Pending /\ refresh[g].state \in Pending
             => refresh[f].members = {} \/ refresh[g].members = {}
    /\ refreshState # None => refresh[refreshState].state \in Pending /\ refresh[refreshState].members # {}

(* A token write starts only while an installation whose request joined the *)
(* refresh is still there, and nobody sends a refreshed token for a removed *)
(* installation; a first request may still be sent with the token its       *)
(* interceptor was waiting for.                                             *)
SilentWhenRemoved ==
    /\ \A f \in Refresh : refresh'[f].state = "writing" /\ refresh[f].state = "running" =>
          \E i \in refresh[f].joined : On(i)
    /\ \A r \in Request : req'[r].pc = "sent" /\ req[r].pc # "sent" /\ req[r].refreshed => On(req'[r].inst)

RemovedStaysSilent == [][SilentWhenRemoved]_vars
=============================================================================
