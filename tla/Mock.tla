-------------------------------- MODULE Mock --------------------------------
(***************************************************************************)
(* MockAdapter and its MockRecorder.  A request is answered by the first    *)
(* rule that matches it, else by the handler of its URL, else a recorder    *)
(* forwards it and records what comes back; without a recorder it throws.   *)
(* Replies, delays and the forwarded request are awaited: requests overlap  *)
(* and end in any order.                                                    *)
(***************************************************************************)
EXTENDS Naturals, Sequences, FiniteSets, Functions, TLC

CONSTANTS
    Route,         \* method and URL of a request
    Handled,       \* those the adapter is created with a handler for
    Records,       \* has the adapter a recorder?
    MaxRequests,   \* bound: requests made
    MaxRules,      \* bound: rules registered
    MaxClears,     \* bound: calls of clearRecordings()
    MaxEntries,
    None

MockAssumption ==
    /\ Handled \subseteq Route /\ Records \in BOOLEAN
    /\ MaxRequests \in Nat /\ MaxRules \in Nat /\ MaxClears \in Nat /\ MaxEntries \in Nat \ {0}

VARIABLES
    rules,         \* in the order of registration
    registered,    \* how many there have been
    handlers,      \* the routes with a handler now
    req,           \* requests, in the order of their calls
    entries,       \* ids of what was recorded, in the order of completion
    skipped, generation,
    evicted        \* history: entries that made room

vars == <<rules, registered, handlers, req, entries, skipped, evicted, generation>>

Init ==
    /\ rules = <<>> /\ registered = 0 /\ handlers = Handled /\ req = <<>>
    /\ entries = <<>> /\ skipped = 0 /\ evicted = 0 /\ generation = 0

Recorder == <<entries, skipped, evicted, generation>>

Skip == skipped' = skipped + 1 /\ UNCHANGED <<entries, evicted, generation>>

----------------------------------------------------------------------------
\* Rules and handlers

\* registerReply and registerError.
RuleOf(id, route, once) == [id |-> id, route |-> route, once |-> once]

Register(route, once) ==
    /\ registered < MaxRules
    /\ registered' = registered + 1
    /\ rules' = Append(rules, RuleOf(registered, route, once))
    /\ UNCHANGED <<handlers, req, Recorder>>

\* on()
Handle(route) ==
    /\ route \notin handlers
    /\ handlers' = handlers \cup {route} /\ UNCHANGED <<rules, registered, req, Recorder>>

ResetHandlers ==
    /\ rules # <<>> \/ handlers # {}
    /\ rules' = <<>> /\ handlers' = {} /\ UNCHANGED <<registered, req, Recorder>>

----------------------------------------------------------------------------
\* Requests

Matching(route) == {i \in DOMAIN rules : rules[i].route = route}
First(route) == CHOOSE i \in Matching(route) : \A j \in Matching(route) : i <= j

RequestOf(route, pc, rule) ==
    [route |-> route, pc |-> pc, rule |-> rule, id |-> Len(req) + 1, generation |-> generation]

\* splice(i, 1)
Splice(s, i) == SubSeq(s, 1, i - 1) \o SubSeq(s, i + 1, Len(s))

UsedUp(i) == IF rules[i].once THEN Splice(rules, i) ELSE rules

\* request(): the rule, the handler, the recorder or none of them; snapshotMatcher
\* may refuse what is forwarded.
Request(route) ==
    LET calls(pc, rule) == req' = Append(req, RequestOf(route, pc, rule))
    IN  /\ Len(req) < MaxRequests
        /\ IF Matching(route) # {}
           THEN calls("mocked", rules[First(route)]) /\ rules' = UsedUp(First(route)) /\ UNCHANGED Recorder
           ELSE /\ UNCHANGED rules
                /\ IF route \in handlers THEN calls("mocked", None) /\ UNCHANGED Recorder
                   ELSE \/ ~Records /\ calls("failed", None) /\ UNCHANGED Recorder
                        \/ Records /\ calls("forwarded", None) /\ UNCHANGED Recorder
                        \/ Records /\ calls("unrecorded", None) /\ Skip
        /\ UNCHANGED <<registered, handlers>>

Settles(r, pc) == req' = [req EXCEPT ![r].pc = pc]

\* respond(), waitForDelay and validateMockResponse: the answer comes, or an error,
\* the timeout or the signal before it.
Answer(r) ==
    /\ req[r].pc = "mocked"
    /\ \/ Settles(r, "answered")
       \/ Settles(r, "failed")
    /\ UNCHANGED <<rules, registered, handlers, Recorder>>

----------------------------------------------------------------------------
\* The recorder

\* The mutant: the first of the Map's keys, which is the first that completed.
OldestCompletion(ids) == Head(ids)

OldestCapture(ids) == CHOOSE id \in Range(ids) : \A other \in Range(ids) : id <= other

Without(ids, id) == Splice(ids, CHOOSE i \in DOMAIN ids : ids[i] = id)

\* record(), with the oldest call making room.
Record(id) ==
    LET all == Append(entries, id)
    IN  /\ IF Len(all) > MaxEntries
           THEN /\ entries' = Without(all, OldestCapture(all))
                /\ evicted' = evicted + 1
           ELSE entries' = all /\ UNCHANGED evicted
        /\ UNCHANGED <<skipped, generation>>

Cleared ==
    /\ Records /\ generation < MaxClears
    /\ generation' = generation + 1
    /\ entries' = <<>> /\ skipped' = 0 /\ evicted' = 0

Clear == Cleared /\ UNCHANGED <<rules, registered, handlers, req>>

\* The forwarded request comes back with a response, an HTTP_ERROR response or an
\* error without one; what is too large, no JSON or dropped by transform() is
\* skipped too, and transform() may clear the recordings under way.
Return(r) ==
    /\ \/ req[r].pc = "unrecorded" /\ Settles(r, "skipped") /\ UNCHANGED Recorder
       \/ /\ req[r].pc = "forwarded"
          /\ IF req[r].generation # generation THEN Settles(r, "failed") /\ UNCHANGED Recorder
             ELSE \/ Settles(r, "recorded") /\ Record(req[r].id)
                  \/ Settles(r, "skipped") /\ Skip
                  \/ Settles(r, "failed") /\ Cleared
    /\ UNCHANGED <<rules, registered, handlers>>

\* recordings: sorted by invocation.
Recordings == SortSeq(entries, LAMBDA a, b : a < b)

\* exportMocks(), run on this adapter.
Replay ==
    /\ entries # <<>> /\ registered + Len(entries) <= MaxRules
    /\ registered' = registered + Len(entries)
    /\ rules' = rules \o [i \in DOMAIN entries |->
                             RuleOf(registered + i - 1, req[Recordings[i]].route, TRUE)]
    /\ UNCHANGED <<handlers, req, Recorder>>

Finished ==
    /\ Len(req) = MaxRequests /\ \A r \in DOMAIN req : req[r].pc \notin {"mocked", "forwarded", "unrecorded"}
    /\ UNCHANGED vars

Next ==
    \/ \E route \in Route : Request(route) \/ Handle(route) \/ \E once \in BOOLEAN : Register(route, once)
    \/ \E r \in DOMAIN req : Answer(r) \/ Return(r)
    \/ ResetHandlers \/ Clear \/ Replay \/ Finished

Spec == Init /\ [][Next]_vars

----------------------------------------------------------------------------
\* Properties

(* A once rule answers one request however the requests overlap, and the    *)
(* rules of a route are used in the order they were registered in.          *)
OnceAnswersOnce ==
    \A i, j \in DOMAIN req :
       i < j /\ req[i].rule # None /\ req[j].rule # None /\ req[i].route = req[j].route /\ req[i].rule.once =>
          /\ req[i].rule.id < req[j].rule.id
          /\ \A n \in DOMAIN rules : rules[n].id # req[i].rule.id

(* The recorder keeps the newest calls that were recorded since the last    *)
(* clear(), whatever order their responses came in, and its statistics      *)
(* count those that were not kept, neither more nor fewer: nothing of an    *)
(* earlier generation.                                                      *)
RecordsThisGeneration ==
    LET ended(states) == {r \in DOMAIN req : req[r].pc \in states /\ req[r].generation = generation}
        recorded == ended({"recorded"})
        newer(r) == {s \in recorded : s > r}
    IN  /\ Range(entries) = {r \in recorded : Cardinality(newer(r)) < MaxEntries}
        /\ Len(entries) + evicted = Cardinality(recorded)
        /\ skipped = Cardinality(ended({"unrecorded", "skipped"}))

(* No rule answers twice, no call is recorded twice or counted as another.  *)
CallsAccounted == OnceAnswersOnce /\ RecordsThisGeneration
=============================================================================
