----------------------------- MODULE MemoryCache -----------------------------
(***************************************************************************)
(* memoryCachePlugin: a transport hook answers a request from a Map of     *)
(* entries, a response hook stores what came from the network.  Requests   *)
(* overlap, hooks of other plugins may fail in between and have the        *)
(* request repeated with the same context, and time passes.                *)
(***************************************************************************)
EXTENDS Naturals, Sequences

CONSTANTS
    Request, Key,
    Ttl,         \* lifetimes a response may be given; 0 disables storing
    MaxEntries,
    MaxTime,     \* bound of the clock
    None

MemoryCacheAssumption ==
    Ttl \subseteq Nat /\ MaxEntries \in Nat \ {0} /\ MaxTime \in Nat

VARIABLES
    entries,     \* oldest first
    request,     \* pc, options, response and membership in hits
    now

vars == <<entries, request, now>>

\* since: when a network response was stored, None for one from the network.
Response == [since : 0..MaxTime \cup {None}, ttl : Ttl \cup {None}, at : 0..MaxTime]
NewRequest == [pc : {"transport"}, key : Key, raw : BOOLEAN, hit : {FALSE}, response : {None}]

TypeOK ==
    /\ \A r \in Request :
          /\ request[r].pc \in {"transport", "fetches", "responds", "done"}
          /\ request[r].response \in Response \cup {None}
    /\ Len(entries) <= MaxEntries
    /\ \A i, j \in DOMAIN entries : entries[i].key = entries[j].key => i = j

Init ==
    /\ entries = <<>>
    /\ request \in [Request -> NewRequest]
    /\ now = 0

At(k) == {i \in DOMAIN entries : entries[i].key = k}

\* entries.delete(k)
Others(k) ==
    IF At(k) = {} THEN entries
    ELSE LET i == CHOOSE i \in At(k) : TRUE
         IN  [j \in 1..(Len(entries) - 1) |-> entries[IF j < i THEN j ELSE j + 1]]

\* The onTransport hook: the entry of the key, unless it has expired or lacks the
\* raw response this request needs.
Transport(r) ==
    LET k == request[r].key
        found == At(k) # {}
        e == entries[CHOOSE i \in At(k) : TRUE]
        usable == found /\ now < e.expires /\ (request[r].raw => e.raw)
    IN  /\ request[r].pc = "transport"
        /\ entries' = IF ~found THEN entries ELSE IF usable THEN Append(Others(k), e) ELSE Others(k)
        /\ request' = [request EXCEPT ![r] =
              IF usable
              THEN [@ EXCEPT !.pc = "responds", !.hit = TRUE,
                             !.response = [since |-> e.since, ttl |-> e.ttl, at |-> now]]
              ELSE [@ EXCEPT !.pc = "fetches"]]
        /\ UNCHANGED now

Fetch(r) ==
    /\ request[r].pc = "fetches"
    /\ request' = [request EXCEPT ![r].pc = "responds",
                                  ![r].response = [since |-> None, ttl |-> None, at |-> now]]
    /\ UNCHANGED <<entries, now>>

Snapshot(r, ttl) ==
    LET from == request[r].response
    IN  [key |-> request[r].key, raw |-> request[r].raw, expires |-> now + ttl,
         since |-> IF from.since = None THEN now ELSE from.since,
         ttl |-> IF from.ttl = None THEN ttl ELSE from.ttl]

\* The newest entry goes last; one too many drops the oldest.
Kept(e) ==
    LET all == Append(Others(e.key), e)
    IN  IF Len(all) > MaxEntries THEN Tail(all) ELSE all

\* The mutant: what came from the cache is stored like the rest.
StoresAnything(r) == TRUE

\* hits.delete()
Stores(r) == ~request[r].hit

\* The onResponse hook: a hit is left alone, the rest stored if its headers and
\* its lifetime allow.
Respond(r) ==
    /\ request[r].pc = "responds"
    /\ request' = [request EXCEPT ![r].pc = "done", ![r].hit = FALSE, ![r].response = None]
    /\ \/ \E ttl \in Ttl \ {0} : Stores(r) /\ entries' = Kept(Snapshot(r, ttl))
       \/ UNCHANGED entries
    /\ UNCHANGED now

\* A hook of another plugin fails before ours, and the request is repeated.
Repeat(r) ==
    /\ request[r].pc = "responds"
    /\ request' = [request EXCEPT ![r].pc = "transport", ![r].response = None]
    /\ UNCHANGED <<entries, now>>

Clear == entries # <<>> /\ entries' = <<>> /\ UNCHANGED <<request, now>>
Tick == now < MaxTime /\ now' = now + 1 /\ UNCHANGED <<entries, request>>
Finished == (\A r \in Request : request[r].pc = "done") /\ UNCHANGED vars

Next ==
    \/ \E r \in Request : Transport(r) \/ Fetch(r) \/ Respond(r) \/ Repeat(r)
    \/ Clear \/ Tick \/ Finished

Spec == Init /\ [][Next]_vars

(* What the cache answers was stored less than its lifetime ago, however    *)
(* often it was answered, repeated and touched since: a hit renews nothing. *)
ServedWithinTtl ==
    /\ TypeOK
    /\ \A r \in Request :
          LET p == request[r].response
          IN  p # None /\ p.since # None => p.at < p.since + p.ttl
=============================================================================
