-------------------------------- MODULE Sse --------------------------------
(***************************************************************************)
(* client.sse() with reconnection: the observer of its state, the loop that *)
(* connects again, the parser of the stream and the body it reads.  The     *)
(* server numbers its events and resumes after the Last-Event-ID it is       *)
(* sent; a connection may break anywhere, also within an event.  The        *)
(* consumer pulls the events and may close the iterator at any time.        *)
(***************************************************************************)
EXTENDS Naturals, FiniteSets

CONSTANTS
    MaxAttempts,   \* reconnect.maxAttempts
    MaxEvents,     \* bound: events of the server
    HasSchema,     \* is there an itemSchema?
    None

SseAssumption ==
    /\ MaxAttempts \in Nat \ {0} /\ MaxEvents \in Nat /\ HasSchema \in BOOLEAN
    /\ None \notin {"finished", "returned", "failed"}

VARIABLES
    pc,            \* where the iteration is
    conn,          \* the current connection
    line,          \* is the id of an event read, and not yet its end?
    lastEventId,
    attempts, lastError,
    delivered,     \* what the consumer got
    unfinished,    \* events that were cut off after their id
    closing,       \* return() was called
    aborted,       \* the consumer's signal
    state,         \* what the observer was told last
    outcome

vars == <<pc, conn, line, lastEventId, attempts, lastError, delivered, unfinished, closing, aborted, state, outcome>>

Event == 1..MaxEvents
Suspended == {"ready", "idle"}
Running == {"reading", "validating", "waiting", "connecting", "arrived"}

TypeOK ==
    /\ pc \in Suspended \cup Running \cup {"first", "done"}
    /\ conn \in {"none", "pending", "empty", "open", "ended", "broken", "stopped"}
    /\ lastEventId \in Event \cup {0} /\ attempts \in 0..MaxAttempts
    /\ delivered \subseteq Event /\ unfinished \subseteq Event
    /\ state \in {"connecting", "open", "reconnecting", "closed", "errored"}
    /\ outcome \in {None, "finished", "returned", "failed"}

Init ==
    /\ pc = "first" /\ conn = "pending" /\ line = FALSE /\ lastEventId = 0
    /\ attempts = 0 /\ lastError = FALSE /\ delivered = {} /\ unfinished = {}
    /\ closing = FALSE /\ aborted = FALSE /\ state = "connecting" /\ outcome = None

\* The signal of every connection: the consumer's, or interrupt().
Stopped == aborted \/ closing

\* notify(): the first of the terminal states is the last.
Tells(to) == state' = IF state \in {"closed", "errored"} THEN state ELSE to

\* The body is cancelled, whoever reads it.
Cut(c) == IF c \in {"none", "empty"} THEN c ELSE "stopped"

Ends(how) ==
    /\ pc' = "done" /\ outcome' = how /\ conn' = Cut(conn)
    /\ Tells(IF how = "failed" /\ ~aborted THEN "errored" ELSE "closed")

Finish == Ends(IF closing THEN "returned" ELSE "finished")

Fail == IF closing THEN Ends("returned") ELSE Ends("failed")

\* The loop after a connection has ended or could not be made.
Again(failed) ==
    IF Stopped THEN Fail /\ UNCHANGED lastError
    ELSE /\ lastError' = failed
         /\ IF attempts >= MaxAttempts THEN (IF failed THEN Fail ELSE Finish)
            ELSE pc' = "waiting" /\ conn' = "none" /\ Tells("reconnecting") /\ UNCHANGED outcome

----------------------------------------------------------------------------
\* Connections

Cursor == <<line, lastEventId, delivered, unfinished>>

\* The response arrives; one with status 204 has nothing to read.
Arrive ==
    /\ pc \in {"first", "connecting"} /\ conn = "pending" /\ ~Stopped
    /\ conn' \in {"open", "empty"}
    /\ Tells(IF conn' = "empty" THEN "closed" ELSE "open")
    /\ pc' = IF pc = "first" THEN "ready" ELSE "arrived"
    /\ UNCHANGED <<Cursor, attempts, lastError, closing, aborted, outcome>>

\* The loop goes on with it.
Take ==
    /\ pc = "arrived"
    /\ IF conn = "empty" THEN Finish ELSE pc' = "reading" /\ UNCHANGED <<conn, state, outcome>>
    /\ UNCHANGED <<Cursor, attempts, lastError, closing, aborted>>

\* The request fails: with its signal, for good, or as the network does.
ConnectFails ==
    /\ pc \in {"first", "connecting"} /\ conn \in {"pending", "stopped"}
    /\ \/ Fail /\ UNCHANGED lastError
       \/ pc = "connecting" /\ ~Stopped /\ Again(TRUE)
    /\ UNCHANGED <<Cursor, attempts, closing, aborted>>

\* The server ends the response, or the connection fails or is idle too long.
Disconnect ==
    /\ conn = "open"
    /\ conn' \in {"ended", "broken"}
    /\ UNCHANGED <<pc, Cursor, attempts, lastError, closing, aborted, state, outcome>>

\* waitForRetry; the next connection sends the last id.
WaitEnds ==
    /\ pc = "waiting"
    /\ IF Stopped THEN Fail /\ UNCHANGED attempts
       ELSE pc' = "connecting" /\ conn' = "pending" /\ attempts' = attempts + 1 /\ UNCHANGED <<state, outcome>>
    /\ UNCHANGED <<Cursor, lastError, closing, aborted>>

----------------------------------------------------------------------------
\* The stream

Lost == IF line THEN unfinished \cup {lastEventId} ELSE unfinished

\* The id line of the next event: onId().
ReadId ==
    /\ pc = "reading" /\ conn = "open" /\ ~line /\ lastEventId < MaxEvents
    /\ line' = TRUE /\ lastEventId' = lastEventId + 1
    /\ UNCHANGED <<pc, conn, delivered, unfinished, attempts, lastError, closing, aborted, state, outcome>>

\* The empty line that ends it.
ReadEvent ==
    /\ pc = "reading" /\ conn = "open" /\ line
    /\ IF HasSchema THEN pc' = "validating" /\ UNCHANGED <<line, delivered>>
       ELSE pc' = "idle" /\ line' = FALSE /\ delivered' = delivered \cup {lastEventId}
    /\ UNCHANGED <<conn, lastEventId, unfinished, attempts, lastError, closing, aborted, state, outcome>>

\* The mutant: the item is left out.
SkipsItem == pc' = "reading" /\ UNCHANGED <<conn, unfinished, state, outcome>>

\* A SchemaValidationError ends the iteration.
RejectsItem == Fail /\ unfinished' = Lost

\* The validator's answer.
Validate ==
    /\ pc = "validating" /\ ~Stopped
    /\ line' = FALSE
    /\ \/ /\ pc' = "idle" /\ delivered' = delivered \cup {lastEventId}
          /\ UNCHANGED <<conn, unfinished, state, outcome>>
       \/ RejectsItem /\ UNCHANGED delivered
    /\ UNCHANGED <<lastEventId, attempts, lastError, closing, aborted>>

\* More than the limits allow.
TooLarge ==
    /\ pc = "reading" /\ conn = "open" /\ ~Stopped
    /\ Fail /\ line' = FALSE /\ unfinished' = Lost
    /\ UNCHANGED <<lastEventId, delivered, attempts, lastError, closing, aborted>>

\* The read, or the validator its failure interrupts, ends with the connection.
StreamEnds ==
    /\ \/ pc = "reading" /\ conn \in {"ended", "broken", "stopped", "empty"}
       \/ pc = "validating" /\ conn \in {"broken", "stopped"}
    /\ IF conn = "empty" THEN Finish /\ UNCHANGED lastError ELSE Again(conn = "broken")
    /\ line' = FALSE /\ unfinished' = Lost
    /\ UNCHANGED <<lastEventId, delivered, attempts, closing, aborted>>

----------------------------------------------------------------------------
\* The consumer

NextEvent ==
    /\ pc \in Suspended /\ ~closing
    /\ pc' = "reading"
    /\ UNCHANGED <<conn, Cursor, attempts, lastError, closing, aborted, state, outcome>>

\* The mutant: an iteration under way is left to what it waits for.
CloseWhenIdle == IF pc \in Suspended THEN Ends("returned") ELSE UNCHANGED <<pc, conn, outcome>> /\ Tells("closed")

\* close(): the signal of the connection and its body, and the iterator where it waits.
CloseConnection ==
    IF pc \in Suspended THEN Ends("returned")
    ELSE conn' = Cut(conn) /\ Tells("closed") /\ UNCHANGED <<pc, outcome>>

Return ==
    /\ pc \in Suspended \cup Running /\ ~closing
    /\ closing' = TRUE /\ CloseConnection
    /\ UNCHANGED <<Cursor, attempts, lastError, aborted>>

Abort ==
    /\ ~aborted /\ pc # "done"
    /\ aborted' = TRUE /\ conn' = Cut(conn) /\ Tells("closed")
    /\ UNCHANGED <<pc, Cursor, attempts, lastError, closing, outcome>>

Next ==
    \/ Arrive \/ Take \/ ConnectFails \/ Disconnect \/ WaitEnds
    \/ ReadId \/ ReadEvent \/ Validate \/ TooLarge \/ StreamEnds
    \/ NextEvent \/ Return \/ Abort

(* Timers fire, what was cancelled ends and continuations run; nothing is   *)
(* assumed of the server, of a validator or of the consumer.                *)
Fairness ==
    /\ WF_vars(Take) /\ WF_vars(WaitEnds) /\ WF_vars(StreamEnds)
    /\ WF_vars(conn = "stopped" /\ ConnectFails)

Spec == Init /\ [][Next]_vars /\ Fairness

----------------------------------------------------------------------------
\* Properties

(* Whatever was delivered, the events before it were too, but for those     *)
(* whose connection was lost after their id line and before they reached    *)
(* the consumer: across connections none is skipped otherwise.              *)
OnlyUnfinishedMissed ==
    /\ TypeOK
    /\ \A e \in delivered : 1..e \subseteq delivered \cup unfinished
    /\ delivered \cap unfinished = {}

(* A consumer gets every event up to the one it got last.                   *)
EventsResume == \A e \in delivered : 1..e \subseteq delivered

(* An iteration that has ended leaves no connection and an observer that    *)
(* knows how it ended; one the consumer has closed ends without an error,   *)
(* whatever the close interrupted.                                          *)
EndsQuietly ==
    /\ closing => outcome # "failed" /\ state # "errored"
    /\ pc = "done" => conn \in {"none", "empty", "stopped"} /\ state \in {"closed", "errored"}
    /\ state = "errored" => outcome = "failed"

(* return() and the signal end an iteration that waits for the server, for  *)
(* a validator, for a connection or for the next attempt.                   *)
CloseEnds == (closing \/ aborted) ~> (pc \in {"done"} \cup Suspended)
=============================================================================
