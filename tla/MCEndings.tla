----------------------------- MODULE MCEndings ------------------------------
(* The two things a caller waits for, a request and the iteration of a      *)
(* stream: of Lifecycle and of Sse.  A behaviour belongs to one of them,    *)
(* the variables of the other are idle.                                     *)
EXTENDS Lifecycle

CONSTANTS Connections, MaxEvents, Undefined

VARIABLES part, stream, conn, line, lastEventId, attempts, lastError, delivered,
          unfinished, closing, stopped, told, outcome

streamvars == <<stream, conn, line, lastEventId, attempts, lastError, delivered,
                unfinished, closing, stopped, told, outcome>>

Stream == INSTANCE Sse WITH
    MaxAttempts <- Connections, HasSchema <- TRUE, None <- Undefined,
    pc <- stream, aborted <- stopped, state <- told

ASSUME StreamAssumption == Stream!SseAssumption

\* A request that has not begun, of a client without plugins and interceptors.
NoRequest == Init /\ installed = {} /\ interceptors = {} /\ ~totalTimeout /\ ~aborted

MCInit ==
    /\ Stream!Init
    /\ \/ part = "request" /\ Init
       \/ part = "stream" /\ NoRequest

InRequest(step) == part = "request" /\ step /\ UNCHANGED <<part, streamvars>>
InStream(step) == part = "stream" /\ step /\ UNCHANGED <<part, vars>>

MCNext ==
    \/ part = "request" /\ Next /\ UNCHANGED <<part, streamvars>>
    \/ part = "stream" /\ Stream!Next /\ UNCHANGED <<part, vars>>

mcvars == <<part, vars, streamvars>>

MCSpec ==
    /\ MCInit /\ [][MCNext]_mcvars
    /\ WF_mcvars(InRequest(Body)) /\ WF_mcvars(InRequest(Finally))
    /\ WF_mcvars(InStream(Stream!Take)) /\ WF_mcvars(InStream(Stream!WaitEnds))
    /\ WF_mcvars(InStream(Stream!StreamEnds))
    /\ WF_mcvars(InStream(conn = "stopped" /\ Stream!ConnectFails))

\* See Sse: no event is skipped but an unfinished one, and what an iteration
\* that has ended leaves.
StreamKept == Stream!OnlyUnfinishedMissed /\ Stream!EndsQuietly

\* See Sse: return() and the signal end what the iteration waits for.
CloseEnds == Stream!CloseEnds

\* See Sse: every event up to the last one arrives.
EventsResume == Stream!EventsResume
=============================================================================
