------------------------------ MODULE Transfer ------------------------------
(***************************************************************************)
(* uploadPlugin and downloadPlugin on one attempt of one request: which of  *)
(* them sends it with XMLHttpRequest, that exchange (xhrRequest), and the    *)
(* body of a download, which the plugin collects into a Blob or hands on as  *)
(* a stream that reports its progress.  Bytes come in chunks; a callback     *)
(* may throw, and the signal may be aborted at any time.                     *)
(***************************************************************************)
EXTENDS Integers

CONSTANTS
    MaxSize,       \* bound: chunks of a body
    Limits,        \* what maxResponseSize may be, None among them
    None

Outcome == {"response", "config", "network", "http", "timeout", "large", "callback", "aborted",
            "cancelled", "parser", "unavailable"}

TransferAssumption ==
    /\ MaxSize \in Nat /\ Limits \subseteq Nat \cup {None}
    /\ None \notin Outcome \cup {"open", "failed", "download"}

VARIABLES
    plan,          \* what request, plugins and runtime ask for and offer
    pc,
    aborted,       \* the signal of the request
    size,          \* chunks of the body
    loaded, told,  \* chunks received, and those the callback was told of
    xhr,           \* the XMLHttpRequest and what is attached to it
    stream,        \* the stream of the body and its reader
    outcome

vars == <<plan, pc, aborted, size, loaded, told, xhr, stream, outcome>>

Plan == [upload : BOOLEAN, download : {None, "blob", "stream"}, progress : BOOLEAN,
         transport : {"auto", "fetch", "xhr"}, streams : BOOLEAN, available : BOOLEAN,
         streamBody : BOOLEAN, valid : BOOLEAN, bodyless : BOOLEAN, limit : Limits]

\* The options of a plugin that is not used do not matter.
Sensible(p) ==
    /\ p.download = None => p.upload /\ ~p.progress /\ p.transport = "auto"
    /\ p.streamBody => p.upload

NoXhr == [state |-> "none", owner |-> None, attached |-> FALSE, seen |-> -1, timer |-> FALSE]
NoStream == [source |-> None, locked |-> FALSE, pulling |-> FALSE]

TypeOK ==
    /\ pc \in {"new", "hooks", "xhr", "fetch", "received", "collecting", "returned", "done"}
    /\ loaded \in 0..size /\ told \in {None} \cup (0..size)
    /\ xhr.state \in {"none", "sent", "loaded", "failed", "aborted"}
    /\ xhr.owner \in {None, "upload", "download"} /\ xhr.seen \in -1..size
    /\ stream.source \in {None, "open", "ended", "failed", "stopped"}
    /\ outcome \in Outcome \cup {None}

Init ==
    /\ plan \in {p \in Plan : Sensible(p)}
    /\ pc = "new" /\ aborted \in BOOLEAN /\ size \in 0..(IF plan.bodyless THEN 0 ELSE MaxSize)
    /\ loaded = 0 /\ told = None
    /\ xhr = NoXhr /\ stream = NoStream /\ outcome = None

----------------------------------------------------------------------------
\* Who sends the request

UsesXhr == plan.transport = "xhr" \/ (plan.transport = "auto" /\ ~plan.streams /\ plan.available)

\* The response is asked for as a stream.
Streamed == plan.download = "stream" \/ (plan.download = "blob" /\ plan.progress /\ ~UsesXhr)

Ends(how) == pc' = "done" /\ outcome' = how
Body == <<size, loaded, told>>

\* The interceptor of the download plugin: a stream needs Fetch.
Intercept ==
    /\ pc = "new"
    /\ IF plan.download = "stream" /\ (plan.transport = "xhr" \/ ~plan.streams) THEN Ends("config")
       ELSE pc' = "hooks" /\ UNCHANGED outcome
    /\ UNCHANGED <<plan, aborted, Body, xhr, stream>>

\* xhrRequest(): what fails before send() leaves nothing attached.
Xhr(owner) ==
    \/ ~plan.available /\ Ends("config") /\ UNCHANGED xhr
    \/ plan.available /\ aborted /\ Ends("aborted") /\ xhr' = [xhr EXCEPT !.owner = owner, !.state = "aborted"]
    \/ plan.available /\ Ends("config") /\ xhr' = [xhr EXCEPT !.owner = owner, !.state = "aborted"]
    \/ /\ plan.available /\ ~aborted /\ ~plan.streamBody
       /\ pc' = "xhr" /\ xhr' = [xhr EXCEPT !.owner = owner, !.state = "sent", !.attached = TRUE]
       /\ UNCHANGED outcome

\* The hooks of onTransport, the one of the upload plugin first.
Transport ==
    /\ pc = "hooks"
    /\ CASE plan.upload -> Xhr("upload")
         [] ~plan.upload /\ plan.download = "blob" /\ plan.progress /\ UsesXhr -> Xhr("download")
         [] OTHER -> pc' = "fetch" /\ UNCHANGED <<xhr, outcome>>
    /\ UNCHANGED <<plan, aborted, Body, stream>>

----------------------------------------------------------------------------
\* xhrRequest()

\* The mutant: an XMLHttpRequest that has been sent keeps its listener.
SettleEarly(how, state) == Ends(how) /\ xhr' = [xhr EXCEPT !.state = state, !.attached = (xhr.state = "sent")]

\* rejectOnce() with cleanup(), and xhr.abort() for one that is under way.
Settles(how, state) == Ends(how) /\ xhr' = [xhr EXCEPT !.state = state, !.attached = FALSE]

Xhring == pc = "xhr" /\ UNCHANGED <<plan, size, stream>>
AbortWith(how) == Settles(how, IF xhr.state = "sent" THEN "aborted" ELSE xhr.state)

\* Is there a handler of download progress?
Watches == (xhr.owner = "download") \/ plan.limit # None

\* createProgressHandler(): the limit, then the callback, which may throw.
Reported(n) ==
    IF plan.limit # None /\ n > plan.limit THEN AbortWith("large") /\ UNCHANGED told
    ELSE \/ xhr.owner = "download" /\ AbortWith("callback") /\ UNCHANGED told
         \/ /\ told' = IF xhr.owner = "download" THEN n ELSE told
            /\ UNCHANGED <<pc, outcome>>

\* Bytes arrive; events are rare, and there may be none for the last of them.
Progress ==
    /\ Xhring /\ xhr.state = "sent" /\ loaded < size
    /\ \E n \in loaded + 1..size :
          /\ loaded' = n
          /\ \/ Watches /\ Reported(n) /\ (outcome' = None => xhr' = [xhr EXCEPT !.seen = n])
             \/ ~Watches /\ UNCHANGED <<pc, outcome, xhr, told>>
    /\ UNCHANGED aborted

\* The body of a response with an error status is given a time of its own to be parsed.
Loaded == xhr' = [xhr EXCEPT !.state = "loaded", !.timer = ~plan.valid] /\ UNCHANGED <<pc, outcome>>

\* onload: the rest is reported before the response is processed.
Loads ==
    IF Watches /\ xhr.seen < size
    THEN Reported(size) /\ (outcome' = None => Loaded)
    ELSE Loaded /\ UNCHANGED told

Load ==
    /\ Xhring /\ xhr.state = "sent"
    /\ loaded' = size /\ Loads
    /\ UNCHANGED aborted

\* onerror, and onabort for what ends it elsewhere.
NetworkFails ==
    /\ Xhring /\ xhr.state = "sent"
    /\ \E how \in {"network", "aborted"} : Settles(how, "failed")
    /\ UNCHANGED <<loaded, told, aborted>>

\* The callback of an upload throws.
UploadFails ==
    /\ Xhring /\ xhr.state = "sent" /\ xhr.owner = "upload"
    /\ AbortWith("callback")
    /\ UNCHANGED <<loaded, told, aborted>>

\* processResponse() returns; resolveOnce() and rejectOnce() do nothing for a request that is settled.
Processed ==
    /\ pc = "xhr" /\ xhr.state = "loaded"
    /\ xhr' = [xhr EXCEPT !.attached = FALSE, !.timer = FALSE]
    /\ IF plan.valid
       THEN \/ pc' = "received" /\ UNCHANGED outcome
            \/ \E how \in {"parser", "network"} : Ends(how)
       ELSE \E how \in {"http", "timeout"} : Ends(how)
    /\ UNCHANGED <<plan, aborted, Body, stream>>

\* withErrorResponseTimeout(): the parser, or its time, ends after the request has.
ErrorBodyEnds ==
    /\ pc = "done" /\ xhr.timer
    /\ xhr' = [xhr EXCEPT !.timer = FALSE]
    /\ UNCHANGED <<plan, pc, aborted, Body, stream, outcome>>

\* onSignalAbort, for the caller's signal and for the timeout; Fetch has the signal itself.
Abort ==
    /\ ~aborted /\ outcome = None
    /\ aborted' = TRUE
    /\ IF pc = "xhr" THEN AbortWith("aborted") ELSE UNCHANGED <<pc, xhr, outcome>>
    /\ UNCHANGED <<plan, Body, stream>>

\* The adapter.
Fetch ==
    /\ pc = "fetch"
    /\ \/ ~aborted /\ plan.valid /\ pc' = "received" /\ UNCHANGED outcome
       \/ Ends(IF aborted THEN "aborted" ELSE IF plan.valid THEN "network" ELSE "http")
    /\ UNCHANGED <<plan, aborted, Body, xhr, stream>>

----------------------------------------------------------------------------
\* The body of a download

Opens(stage, source) ==
    /\ pc' = stage /\ loaded' = 0
    /\ stream' = [NoStream EXCEPT !.source = source, !.locked = TRUE]
    /\ UNCHANGED <<told, outcome>>

Delivers == Ends("response") /\ UNCHANGED <<loaded, told, stream>>

\* onResponse: what an exchange of its own has reported is left alone.
Receive ==
    /\ pc = "received"
    /\ IF xhr.owner = "download" \/ plan.download = None \/ ~plan.progress THEN Delivers
       ELSE IF plan.download = "stream" THEN Opens("returned", "open")
       ELSE IF plan.bodyless THEN \/ Ends("response") /\ told' = 0 /\ UNCHANGED <<loaded, stream>>
                                  \/ Ends("callback") /\ UNCHANGED <<loaded, told, stream>>
       ELSE IF Streamed THEN Opens("collecting", "open")
       ELSE Ends("unavailable") /\ UNCHANGED <<loaded, told, stream>>
    /\ UNCHANGED <<plan, aborted, size, xhr>>

Reading == pc = "collecting" \/ (pc = "returned" /\ stream.pulling)
Streaming == UNCHANGED <<plan, aborted, size, xhr>>

\* The source is cancelled where it has not ended, and its reader released.
StopStream(how, source) == Ends(how) /\ stream' = [NoStream EXCEPT !.source = source]

\* onProgress() throws.
CallbackFails == StopStream("callback", "stopped") /\ UNCHANGED told

Chunk ==
    /\ Reading /\ stream.source = "open" /\ loaded < size
    /\ loaded' = loaded + 1
    /\ \/ told' = loaded' /\ stream' = [stream EXCEPT !.pulling = FALSE] /\ UNCHANGED <<pc, outcome>>
       \/ CallbackFails
    /\ Streaming

\* An empty body is reported too.
BodyEnds ==
    /\ Reading /\ stream.source = "open" /\ loaded = size
    /\ \/ StopStream("response", "ended") /\ told' = loaded
       \/ size = 0 /\ CallbackFails
    /\ UNCHANGED loaded /\ Streaming

SourceFails ==
    /\ pc \in {"collecting", "returned"} /\ stream.source = "open"
    /\ stream' = [stream EXCEPT !.source = "failed"]
    /\ UNCHANGED <<pc, loaded, told, outcome>> /\ Streaming

ReadFails ==
    /\ Reading /\ stream.source = "failed"
    /\ StopStream(IF aborted THEN "aborted" ELSE "network", "failed")
    /\ UNCHANGED <<loaded, told>> /\ Streaming

\* The consumer of a stream; a read that is pending when it cancels ends as an empty body does.
Pull ==
    /\ pc = "returned" /\ ~stream.pulling
    /\ stream' = [stream EXCEPT !.pulling = TRUE]
    /\ UNCHANGED <<pc, loaded, told, outcome>> /\ Streaming

Cancel ==
    /\ pc = "returned"
    /\ StopStream("cancelled", IF stream.source = "open" THEN "stopped" ELSE stream.source)
    /\ told' = IF stream.pulling /\ told = None THEN 0 ELSE told
    /\ UNCHANGED loaded /\ Streaming

Finished == pc = "done" /\ ~xhr.timer /\ UNCHANGED vars

Next ==
    \/ Intercept \/ Transport \/ Progress \/ Load \/ NetworkFails \/ UploadFails \/ Processed
    \/ ErrorBodyEnds \/ Abort \/ Fetch
    \/ Receive \/ Chunk \/ BodyEnds \/ SourceFails \/ ReadFails \/ Pull \/ Cancel
    \/ Finished

Spec == Init /\ [][Next]_vars

----------------------------------------------------------------------------
\* Properties

(* However a transfer ends, nothing of it goes on: no exchange, listener or *)
(* handler, and no stream that is still read or locked.  One that is         *)
(* aborted while XMLHttpRequest has it, also while its response is           *)
(* processed, ends as aborted and at once; the parser of an error body, and  *)
(* the timer it is given, are all that may outlive it, and no other outcome. *)
NothingLeft ==
    /\ TypeOK
    /\ outcome # None => ~xhr.attached /\ xhr.state # "sent" /\ ~stream.locked /\ stream.source # "open"
    /\ pc = "xhr" => ~aborted /\ xhr.attached
    /\ xhr.timer => ~plan.valid /\ xhr.state = "loaded" /\ outcome \in {None, "aborted"}

(* A download that was to report its progress has reported all of it when    *)
(* it is delivered, whoever sent the request and however rare the events     *)
(* were, and one that XMLHttpRequest got is within the limit; but for a      *)
(* request whose upload is watched where downloads need XMLHttpRequest.      *)
DeliveredIsReported ==
    /\ outcome = "response" /\ plan.progress => told = size
    /\ outcome = "response" /\ xhr.owner # None /\ plan.limit # None => size <= plan.limit
    /\ outcome = "unavailable" => plan.upload /\ UsesXhr

(* The response of a transfer is one its response hook can take.             *)
HookCanRead == outcome # "unavailable"
=============================================================================
