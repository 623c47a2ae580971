---------------------------- MODULE CacheProofs ----------------------------
(***************************************************************************)
(* What MCCache checks of requests in flight, of invalidated entries and of *)
(* what later requests are answered, proved for every value of the          *)
(* constants, which a record c holds.                                       *)
(***************************************************************************)
EXTENDS MCCache, TLAPS, FiniteSetTheorems

Possibly(S) == S \cup {None}

RequestRecord(c) ==
    [pc : Caches(c)!PC, inst : Possibly(c.installations), key : Possibly(c.keys), conf : Possibly(c.configs),
     waits : SUBSET c.operations, born : Caches(c)!Stamp, after : SUBSET c.operations,
     token : Possibly(Caches(c)!Caller), joined : Possibly(Caches(c)!Caller), leads : BOOLEAN,
     outcome : {"pending", "record", "nothing", "rejected"},
     completed : Possibly(Caches(c)!Entry), uncacheable : BOOLEAN, rawDemanded : BOOLEAN, forced : BOOLEAN,
     fallback : Possibly(Caches(c)!Entry), cond : Possibly(Caches(c)!Entry),
     lease : {"none", "asked", "held", "void", "returned"}, seen : Possibly(Caches(c)!Entry),
     answer : Possibly(Caches(c)!Entry), error : BOOLEAN]

Operations == {"delete", "set", "update", "tags", "clear"}

\* Only update() reads, and it has a key.
OpRecord(c) ==
    {p \in [pc : {"new", "waits", "runs", "done", "failed"}, kind : Possibly(Operations), key : Possibly(c.keys),
            tags : SUBSET c.tags, at : Caches(c)!Stamp, waits : SUBSET c.operations] :
        p.pc \in {"waits", "runs"} => p.kind \in Operations /\ (p.kind = "update" => p.key \in c.keys)}

CallRecord(c) ==
    {a \in [call : {"get"} \cup Operations, by : Caches(c)!Caller \cup c.operations, key : Possibly(c.keys),
            entry : Possibly(Caches(c)!Entry)] : a.call = "get" => a.key \in c.keys}

LiveRecord(c) ==
    [gen : Possibly(Caches(c)!Caller), flight : Possibly(Caches(c)!Caller), rawFlight : Possibly(Caches(c)!Caller),
     refresh : Possibly(c.refreshes)]

Typed(c) ==
    /\ req \in [Caches(c)!Caller -> RequestRecord(c)]
    /\ token \in [Caches(c)!Caller -> [tags : SUBSET c.tags, active : Int]]
    /\ live \in [c.keys -> LiveRecord(c)]
    /\ op \in [c.operations -> OpRecord(c)]
    /\ keyOp \in [c.keys -> Possibly(c.operations)] /\ tagOp \in [c.tags -> Possibly(c.operations)]
    /\ store \in [c.keys -> Possibly(Caches(c)!Entry)]
    /\ calls \in Seq(CallRecord(c))
    /\ installation \in [c.installations -> {"on", "off"}]

Begun(r) == r.pc \notin {"new", "spawned"}
Bound(c, r) == r.inst \in c.installations /\ r.key \in c.keys /\ r.conf \in c.configs

\* What a request says of itself and of the one it waits for.
Requests(c) == \A x \in Caches(c)!Caller :
    LET r == req[x] IN
    /\ r.pc \notin {"new", "done"} => Bound(c, r)
    /\ ~Begun(r) => r.token = None /\ ~r.leads /\ r.outcome = "pending" /\ r.lease = "none"
    /\ r.pc = "done" => r.token = None /\ ~r.leads
    /\ r.leads => r.token # None /\ Caches(c)!Active(x)
    /\ r.pc # "done" /\ r.outcome # "pending" => r.token # None /\ ~Caches(c)!Active(x)
    /\ r.pc = "joins" => r.joined \in Caches(c)!Caller /\ (req[r.joined].outcome # "pending" \/ req[r.joined].leads)
    /\ r.lease = "held" => Caches(c)!Active(x) /\ r.pc # "done"

Users(c, g) == {x \in Caches(c)!Caller : req[x].token = g}

(* A token named after a request is unused before that request begins; one  *)
(* on the map counts its users, which are requests for its key.             *)
Unused(c, x) ==
    token[x].active = 0 /\ (\A y \in Caches(c)!Caller : req[y].token # x) /\ \A k1 \in c.keys : live[k1].gen # x

Counts(c, k1) == LET g == live[k1].gen IN
    /\ \A x \in Caches(c)!Caller : req[x].token = g => req[x].key = k1 /\ Caches(c)!Active(x)
    /\ token[g].active = Cardinality(Users(c, g)) /\ token[g].active > 0

Tokens(c) ==
    /\ \A x \in Caches(c)!Caller : ~Begun(req[x]) => Unused(c, x)
    /\ \A k1 \in c.keys : live[k1].gen # None => Counts(c, k1)

(* Every client has a scope of its own; the others are shared by clients.   *)
One(c) == \A i, j \in c.installations : i = j

Flies(c, k1, x) == req[x].leads /\ req[x].key = k1 /\ (One(c) => Caches(c)!Current(x))
Flights(c) == \A k1 \in c.keys : \A x \in {live[k1].flight, live[k1].rawFlight} \ {None} : Flies(c, k1, x)

CacheInv(c) == Typed(c) /\ Requests(c) /\ Tokens(c) /\ Flights(c)

----------------------------------------------------------------------------
(* What q, the next record of request x, may be when its record is r: it    *)
(* keeps its token, leads on, and follows only who leads.                   *)
Moves(c, x, r, q) ==
    /\ q \in RequestRecord(c)
    /\ q.pc \notin {"new", "done"} => Bound(c, q)
    /\ ~Begun(q) => ~Begun(r) /\ q.lease = "none"
    /\ Begun(r) => q.inst = r.inst /\ q.key = r.key /\ (q.pc = "done" \/ q.conf = r.conf)
    /\ r.pc = "done" => q.pc = "done"
    /\ q.pc = "done" => r.pc = "done" \/ r.token = None
    /\ q.token = r.token /\ q.outcome = r.outcome
    /\ r.leads => q.leads
    /\ q.leads => r.leads \/ (r.token # None /\ Caches(c)!Active(x))
    /\ q.pc = "joins" => \/ r.pc = "joins" /\ q.joined = r.joined
                         \/ q.joined \in Caches(c)!Caller /\ req[q.joined].leads
    /\ q.lease = "held" => q.pc # "done" /\ Begun(r) /\ Caches(c)!Active(x)

AllMove(c) == \A x \in Caches(c)!Caller : Moves(c, x, req[x], req'[x])

(* The maps lose entries, or get a request that leads under the token on the *)
(* map.                                                                     *)
MapsKeep(c) == \A k1 \in c.keys :
    /\ live'[k1].gen \in {live[k1].gen, None}
    /\ \A x \in {live'[k1].flight, live'[k1].rawFlight} \ {None} :
          \/ x \in {live[k1].flight, live[k1].rawFlight} /\ live'[k1].gen = live[k1].gen
          \/ x \in Caches(c)!Caller /\ req'[x].leads /\ req[x].token = live'[k1].gen /\ req[x].key = k1 /\ Begun(req[x])

LEMMA MovesRefl ==
  ASSUME NEW CONSTANT c, CacheInv(c), NEW x \in Caches(c)!Caller
  PROVE  Moves(c, x, req[x], req[x])
<1>1. req[x] \in RequestRecord(c)
  BY DEF CacheInv, Typed
<1>2. Requests(c)
  BY DEF CacheInv
<1> QED
  BY <1>1, <1>2 DEF Requests, Moves, Begun

LEMMA OneMoves ==
  ASSUME NEW CONSTANT c, CacheInv(c), NEW x \in Caches(c)!Caller, NEW q, Moves(c, x, req[x], q),
         req' = [req EXCEPT ![x] = q]
  PROVE  AllMove(c)
<1>1. req \in [Caches(c)!Caller -> RequestRecord(c)]
  BY DEF CacheInv, Typed
<1>2. ASSUME NEW y \in Caches(c)!Caller
      PROVE  Moves(c, y, req[y], req'[y])
  <2>1. CASE y = x
    BY <1>1, <2>1
  <2>2. CASE y # x
    <3>1. req'[y] = req[y]
      BY <1>1, <2>2
    <3> QED
      BY <3>1, MovesRefl
  <2> QED
    BY <2>1, <2>2
<1> QED
  BY <1>2 DEF AllMove

LEMMA MovesKeepRequests ==
  ASSUME NEW CONSTANT c, CacheInv(c), AllMove(c), installation' = installation
  PROVE  Requests(c)'
<1>1. ASSUME NEW x \in Caches(c)!Caller
      PROVE  LET r == req'[x] IN
             /\ r.pc \notin {"new", "done"} => Bound(c, r)
             /\ ~Begun(r) => r.token = None /\ ~r.leads /\ r.outcome = "pending" /\ r.lease = "none"
             /\ r.pc = "done" => r.token = None /\ ~r.leads
             /\ r.leads => r.token # None /\ Caches(c)!Active(x)'
             /\ r.pc # "done" /\ r.outcome # "pending" => r.token # None /\ ~Caches(c)!Active(x)'
             /\ r.pc = "joins" => r.joined \in Caches(c)!Caller /\ (req'[r.joined].outcome # "pending" \/ req'[r.joined].leads)
             /\ r.lease = "held" => Caches(c)!Active(x)' /\ r.pc # "done"
  <2>1. Moves(c, x, req[x], req'[x])
    BY <1>1 DEF AllMove
  <2>2. Requests(c) /\ req[x] \in RequestRecord(c)
    BY DEF CacheInv, Typed
  <2>3. Begun(req[x]) => (Caches(c)!Active(x)' <=> Caches(c)!Active(x))
    BY <2>1 DEF Moves, Caches!Active
  <2>4. Begun(req[x]) \/ (req[x].token = None /\ ~req[x].leads /\ req[x].outcome = "pending" /\ req[x].lease = "none")
    BY <2>2 DEF Requests
  <2>5. req'[x].pc = "joins" =>
           /\ req'[x].joined \in Caches(c)!Caller
           /\ req[req'[x].joined].outcome # "pending" \/ req[req'[x].joined].leads
    BY <2>1, <2>2 DEF Moves, Requests
  <2>6. \A y \in Caches(c)!Caller : req'[y].outcome = req[y].outcome /\ (req[y].leads => req'[y].leads)
    BY DEF AllMove, Moves
  <2>7. req'[x].pc = "joins" => req'[x].joined \in Caches(c)!Caller
                                /\ (req'[req'[x].joined].outcome # "pending" \/ req'[req'[x].joined].leads)
    BY <2>5, <2>6
  <2>8. /\ req[x].leads => req[x].token # None /\ Caches(c)!Active(x)
        /\ req[x].pc # "done" /\ req[x].outcome # "pending" => req[x].token # None /\ ~Caches(c)!Active(x)
        /\ req[x].pc = "done" => req[x].token = None /\ ~req[x].leads
    BY <2>2 DEF Requests
  <2>9. /\ req'[x].pc \notin {"new", "done"} => Bound(c, req'[x])
        /\ ~Begun(req'[x]) => req'[x].token = None /\ ~req'[x].leads /\ req'[x].outcome = "pending" /\ req'[x].lease = "none"
    BY <2>1, <2>4, <2>8 DEF Moves
  <2>10. req'[x].pc = "done" => req'[x].token = None /\ ~req'[x].leads
    BY <2>1, <2>4, <2>8, <2>2 DEF Moves, RequestRecord
  <2>11. /\ req'[x].leads => req'[x].token # None /\ Caches(c)!Active(x)'
         /\ req'[x].pc # "done" /\ req'[x].outcome # "pending" => req'[x].token # None /\ ~Caches(c)!Active(x)'
         /\ req'[x].lease = "held" => Caches(c)!Active(x)' /\ req'[x].pc # "done"
    BY <2>1, <2>3, <2>4, <2>8 DEF Moves
  <2> QED
    BY <2>7, <2>9, <2>10, <2>11
<1> QED
  BY <1>1 DEF Requests

LEMMA MovesKeepTokens ==
  ASSUME NEW CONSTANT c, Caches(c)!CacheAssumption, CacheInv(c), AllMove(c), MapsKeep(c),
         installation' = installation, token' = token
  PROVE  Tokens(c)'
<1>1. \A x \in Caches(c)!Caller : req'[x].token = req[x].token /\ (~Begun(req'[x]) => ~Begun(req[x]))
  BY DEF AllMove, Moves
<1>2. Tokens(c) /\ Requests(c)
  BY DEF CacheInv
<1>3. \A k1 \in c.keys : live'[k1].gen \in {live[k1].gen, None}
  BY DEF MapsKeep
<1>4. None \notin Caches(c)!Caller
  BY DEF Caches!CacheAssumption
<1>5. ASSUME NEW x \in Caches(c)!Caller, ~Begun(req'[x])
      PROVE  Unused(c, x)'
  <2>1. Unused(c, x)
    BY <1>1, <1>2, <1>5 DEF Tokens
  <2> QED
    BY <1>1, <1>3, <1>4, <2>1 DEF Unused
<1>6. ASSUME NEW k1 \in c.keys, live'[k1].gen # None
      PROVE  Counts(c, k1)'
  <2>1. live'[k1].gen = live[k1].gen /\ Counts(c, k1)
    BY <1>2, <1>3, <1>6 DEF Tokens
  <2>2. ASSUME NEW x \in Caches(c)!Caller, req'[x].token = live'[k1].gen
        PROVE  req'[x].key = k1 /\ Caches(c)!Active(x)'
    <3>1. req[x].token = live[k1].gen /\ req[x].token # None
      BY <1>1, <1>6, <2>1, <2>2
    <3>2. req[x].key = k1 /\ Caches(c)!Active(x) /\ Begun(req[x])
      BY <1>2, <2>1, <3>1 DEF Counts, Requests
    <3>3. Moves(c, x, req[x], req'[x])
      BY DEF AllMove
    <3> QED
      BY <3>2, <3>3 DEF Moves, Caches!Active
  <2>3. Users(c, live[k1].gen)' = Users(c, live[k1].gen)
    BY <1>1, <2>1 DEF Users
  <2> QED
    BY <2>1, <2>2, <2>3 DEF Counts
<1> QED
  BY <1>5, <1>6 DEF Tokens

LEMMA MovesKeepFlights ==
  ASSUME NEW CONSTANT c, CacheInv(c), AllMove(c), MapsKeep(c), installation' = installation
  PROVE  Flights(c)'
<1>1. Flights(c) /\ Requests(c) /\ Typed(c)
  BY DEF CacheInv
<1>2. ASSUME NEW k1 \in c.keys, NEW x, x \in {live'[k1].flight, live'[k1].rawFlight} \ {None}
      PROVE  Flies(c, k1, x)'
  <2>1. CASE x \in {live[k1].flight, live[k1].rawFlight} /\ live'[k1].gen = live[k1].gen
    <3>1. Flies(c, k1, x)
      BY <1>1, <1>2, <2>1 DEF Flights
    <3>2. x \in Caches(c)!Caller
      BY <1>1, <1>2, <2>1 DEF Typed, LiveRecord, Possibly
    <3>3. Begun(req[x]) /\ Moves(c, x, req[x], req'[x]) /\ req[x].key = k1
      BY <1>1, <3>1, <3>2 DEF Flies, Requests, AllMove
    <3> QED
      BY <2>1, <3>1, <3>3 DEF Flies, Moves, Caches!Current
  <2>2. CASE x \in Caches(c)!Caller /\ req'[x].leads /\ req[x].token = live'[k1].gen /\ req[x].key = k1 /\ Begun(req[x])
    <3>1. Moves(c, x, req[x], req'[x])
      BY <2>2 DEF AllMove
    <3>2. req[x].token # None
      BY <1>1, <2>2, <3>1 DEF Moves, Requests
    <3> QED
      BY <2>2, <3>1, <3>2 DEF Flies, Moves, Caches!Current
  <2> QED
    BY <1>2, <2>1, <2>2 DEF MapsKeep
<1> QED
  BY <1>2 DEF Flights

(* A step of one request, or of several, that moves nothing but requests and *)
(* takes from the maps keeps the invariant.                                 *)
LEMMA MovesKeep ==
  ASSUME NEW CONSTANT c, Caches(c)!CacheAssumption, CacheInv(c), AllMove(c), MapsKeep(c),
         installation' = installation, token' = token,
         live' \in [c.keys -> LiveRecord(c)], op' \in [c.operations -> OpRecord(c)],
         keyOp' \in [c.keys -> Possibly(c.operations)], tagOp' \in [c.tags -> Possibly(c.operations)],
         store' \in [c.keys -> Possibly(Caches(c)!Entry)], calls' \in Seq(CallRecord(c)),
         req' = [x \in Caches(c)!Caller |-> req'[x]]
  PROVE  CacheInv(c)'
<1>1. req' \in [Caches(c)!Caller -> RequestRecord(c)]
  BY DEF AllMove, Moves
<1>2. Typed(c)'
  BY <1>1 DEF Typed, CacheInv
<1> QED
  BY <1>2, MovesKeepRequests, MovesKeepTokens, MovesKeepFlights DEF CacheInv

----------------------------------------------------------------------------
Stepped(c) ==
    /\ AllMove(c) /\ MapsKeep(c) /\ req' = [x \in Caches(c)!Caller |-> req'[x]]
    /\ live' \in [c.keys -> LiveRecord(c)] /\ calls' \in Seq(CallRecord(c))

LEMMA SameMaps ==
  ASSUME NEW CONSTANT c, CacheInv(c), live' = live
  PROVE  MapsKeep(c) /\ live' \in [c.keys -> LiveRecord(c)]
BY DEF CacheInv, Typed, MapsKeep

LEMMA OneStepped ==
  ASSUME NEW CONSTANT c, CacheInv(c), NEW x \in Caches(c)!Caller, NEW q, Moves(c, x, req[x], q),
         Caches(c)!Becomes(x, q), live' = live, calls' \in Seq(CallRecord(c))
  PROVE  Stepped(c)
<1>1. req' = [req EXCEPT ![x] = q] /\ req \in [Caches(c)!Caller -> RequestRecord(c)]
  BY DEF Caches!Becomes, CacheInv, Typed
<1>2. req' = [y \in Caches(c)!Caller |-> req'[y]]
  BY <1>1
<1> QED
  BY <1>1, <1>2, OneMoves, SameMaps DEF Stepped

(* r is the record of request x while the answer of the store is handled.   *)
Held(c, x, r) ==
    /\ r \in RequestRecord(c)
    /\ req[x].pc = r.pc /\ r.pc \in {"reads", "asks", "drops"}
    /\ r.inst = req[x].inst /\ r.key = req[x].key /\ r.conf = req[x].conf
    /\ r.token = req[x].token /\ r.outcome = req[x].outcome /\ r.leads = req[x].leads
    /\ r.lease \in {req[x].lease, "void"}

(* What handling it makes of that record.                                   *)
Becoming(c, x, r, q) ==
    /\ q \in RequestRecord(c)
    /\ q.pc \in {"fetches", "joins", "asks", "drops", "ends"}
    /\ q.inst = r.inst /\ q.key = r.key /\ q.conf = r.conf /\ q.token = r.token /\ q.outcome = r.outcome
    /\ r.leads => q.leads
    /\ q.leads => r.leads \/ (r.token # None /\ Caches(c)!Active(x))
    /\ q.lease \in {r.lease, "asked"}
    /\ q.pc = "joins" => q.joined \in Caches(c)!Caller /\ req[q.joined].leads

LEMMA HeldFacts ==
  ASSUME NEW CONSTANT c, CacheInv(c), NEW x \in Caches(c)!Caller, NEW r, Held(c, x, r)
  PROVE  /\ Bound(c, r) /\ r \in RequestRecord(c) /\ Moves(c, x, req[x], r)
         /\ \A q : Becoming(c, x, r, q) => Moves(c, x, req[x], q)
<1>1. Requests(c) /\ req[x] \in RequestRecord(c)
  BY DEF CacheInv, Typed
<1>2. Bound(c, req[x]) /\ Begun(req[x]) /\ (req[x].lease = "held" => Caches(c)!Active(x))
  BY <1>1 DEF Held, Requests, Begun
<1>3. Bound(c, r)
  BY <1>2 DEF Held, Bound
<1>4. Moves(c, x, req[x], r)
  BY <1>2, <1>3, <1>1 DEF Held, Moves, Begun, Requests
<1>5. ASSUME NEW q, Becoming(c, x, r, q) PROVE Moves(c, x, req[x], q)
  <2>1. Bound(c, q)
    BY <1>3, <1>5 DEF Becoming, Bound
  <2> QED
    BY <1>2, <1>5, <2>1 DEF Held, Becoming, Moves, Begun
<1> QED
  BY <1>3, <1>4, <1>5 DEF Held

LEMMA BecomingStepped ==
  ASSUME NEW CONSTANT c, CacheInv(c), NEW x \in Caches(c)!Caller, NEW r, Held(c, x, r), NEW q, Becoming(c, x, r, q),
         Caches(c)!Becomes(x, q), live' = live, calls' \in Seq(CallRecord(c))
  PROVE  Stepped(c)
BY HeldFacts, OneStepped

(* The record of a request that goes to the network.                        *)
LEMMA FetchingFacts ==
  ASSUME NEW CONSTANT c, CacheInv(c), NEW x \in Caches(c)!Caller, NEW r, Held(c, x, r),
         NEW rec \in Possibly(Caches(c)!Entry)
  PROVE  /\ Becoming(c, x, r, Caches(c)!Fetching(r, rec))
         /\ r.token # None /\ Caches(c)!Active(x) => Becoming(c, x, r, [Caches(c)!Fetching(r, rec) EXCEPT !.leads = TRUE])
<1> DEFINE f == IF rec # None /\ rec.policy.etag THEN rec ELSE None
<1>1. f \in Possibly(Caches(c)!Entry)
  BY DEF Possibly
<1> HIDE DEF f
<1>2. Caches(c)!Fetching(r, rec) = [r EXCEPT !.pc = "fetches", !.cond = f]
  BY DEF Caches!Fetching, f
<1>3. r \in RequestRecord(c) /\ "fetches" \in Caches(c)!PC
  BY DEF Held, Caches!PC, Caches!Waiting
<1>4. [r EXCEPT !.pc = "fetches", !.cond = f] \in RequestRecord(c)
  BY <1>1, <1>3 DEF RequestRecord
<1>5. [Caches(c)!Fetching(r, rec) EXCEPT !.leads = TRUE] \in RequestRecord(c)
  BY <1>2, <1>4 DEF RequestRecord
<1> QED
  BY <1>2, <1>3, <1>4, <1>5 DEF Becoming, RequestRecord

LEMMA LeadStepped ==
  ASSUME NEW CONSTANT c, CacheInv(c), NEW x \in Caches(c)!Caller, NEW r, Held(c, x, r),
         NEW rec \in Possibly(Caches(c)!Entry), Caches(c)!Lead(x, r, rec), calls' \in Seq(CallRecord(c))
  PROVE  Stepped(c)
<1> DEFINE led == [Caches(c)!Fetching(r, rec) EXCEPT !.leads = TRUE]
           data == live[r.key].flight
           demanded(y) == [req[y] EXCEPT !.rawDemanded = TRUE]
<1>1. /\ Caches(c)!Active(x) /\ Caches(c)!Current(x)
      /\ req' = [y \in Caches(c)!Caller |-> IF y = x THEN led
                                             ELSE IF r.conf.raw /\ y = data THEN demanded(y) ELSE req[y]]
      /\ live' = IF r.conf.raw THEN [live EXCEPT ![r.key].rawFlight = x] ELSE [live EXCEPT ![r.key].flight = x]
  BY Zenon DEF Caches!Lead
<1>2. Typed(c) /\ Requests(c)
  BY DEF CacheInv
<1>3. r.token # None /\ live[r.key].gen = r.token
  BY <1>1 DEF Caches!Current, Held
<1>4. Becoming(c, x, r, led) /\ led.leads = TRUE
  <2>1. Becoming(c, x, r, led)
    BY <1>1, <1>3, FetchingFacts
  <2> QED
    BY <2>1 DEF Becoming, RequestRecord, Caches!Fetching, Held
<1> HIDE DEF led
<1>5. ASSUME NEW y \in Caches(c)!Caller
      PROVE  Moves(c, y, req[y], req'[y]) 
  <2>1. CASE y = x
    BY <1>1, <1>4, <2>1, HeldFacts
  <2>2. CASE y # x
    <3>1. Moves(c, y, req[y], req[y]) /\ req[y] \in RequestRecord(c)
      BY <1>2, MovesRefl DEF Typed
    <3>2. req'[y] \in {req[y], demanded(y)}
      BY <1>1, <2>2
    <3>3. Moves(c, y, req[y], demanded(y))
      <4>1. demanded(y) \in RequestRecord(c)
        BY <3>1 DEF RequestRecord
      <4> QED
        BY <3>1, <4>1 DEF Moves, RequestRecord, Begun, Bound
    <3> QED
      BY <3>1, <3>2, <3>3
  <2> QED
    BY <2>1, <2>2
<1>6. r.key \in c.keys /\ r.key = req[x].key
  BY HeldFacts DEF Held, Bound
<1>7. live \in [c.keys -> LiveRecord(c)]
  BY <1>2 DEF Typed
<1>8. live' \in [c.keys -> LiveRecord(c)]
  BY SMTT(40), <1>1, <1>6, <1>7 DEF LiveRecord, Possibly
<1>9. req'[x].leads /\ req[x].token = live[req[x].key].gen /\ Begun(req[x])
  BY <1>1, <1>3, <1>4, <1>6 DEF Held, Begun
<1>10. ASSUME NEW k1 \in c.keys
       PROVE  /\ live'[k1].gen = live[k1].gen
              /\ live'[k1].flight = live[k1].flight \/ (live'[k1].flight = x /\ k1 = r.key)
              /\ live'[k1].rawFlight = live[k1].rawFlight \/ (live'[k1].rawFlight = x /\ k1 = r.key)
  BY <1>1, <1>6, <1>7 DEF LiveRecord
<1>11. MapsKeep(c)
  BY <1>6, <1>9, <1>10 DEF MapsKeep
<1> QED
  BY <1>1, <1>5, <1>8, <1>11 DEF Stepped, AllMove

LEMMA JoinStepped ==
  ASSUME NEW CONSTANT c, CacheInv(c), NEW x \in Caches(c)!Caller, NEW r, Held(c, x, r),
         Caches(c)!Join(x, r), calls' \in Seq(CallRecord(c))
  PROVE  Stepped(c)
<1> DEFINE p == Caches(c)!Pending(r)
           q == [r EXCEPT !.pc = "joins", !.joined = p]
<1>1. p # None /\ Caches(c)!Becomes(x, q) /\ live' = live
  BY DEF Caches!Join
<1>2. r \in RequestRecord(c) /\ r.key \in c.keys
  BY HeldFacts DEF Bound
<1>3. p \in Caches(c)!Caller /\ req[p].leads
  <2>1. p \in {live[r.key].flight, live[r.key].rawFlight} \ {None}
    BY <1>1 DEF Caches!Pending
  <2>2. live[r.key] \in LiveRecord(c) /\ Flights(c)
    BY <1>2 DEF CacheInv, Typed
  <2> HIDE DEF p
  <2> QED
    BY <1>2, <2>1, <2>2 DEF Flights, Flies, LiveRecord, Possibly
<1> HIDE DEF p
<1>4. q \in RequestRecord(c)
  <2>1. p \in Possibly(Caches(c)!Caller) /\ "joins" \in Caches(c)!PC
    BY <1>3 DEF Possibly, Caches!PC, Caches!Waiting
  <2> QED
    BY <1>2, <2>1 DEF RequestRecord
<1>5. Becoming(c, x, r, q)
  BY <1>2, <1>3, <1>4 DEF Becoming, RequestRecord
<1> QED
  BY <1>1, <1>5, BecomingStepped

LEMMA MissStepped ==
  ASSUME NEW CONSTANT c, CacheInv(c), NEW x \in Caches(c)!Caller, NEW r, Held(c, x, r),
         NEW rec \in Possibly(Caches(c)!Entry), NEW left \in Seq(CallRecord(c)), Caches(c)!Miss(x, r, rec, left)
  PROVE  Stepped(c)
<1>1. calls' \in Seq(CallRecord(c)) /\ r \in RequestRecord(c)
  BY HeldFacts DEF Caches!Miss
<1>2. CASE Caches(c)!Unshared(x, r)
  <2> DEFINE q == [r EXCEPT !.pc = "fetches"]
  <2>1. q \in RequestRecord(c)
    BY <1>1 DEF RequestRecord, Caches!PC, Caches!Waiting
  <2>2. Becoming(c, x, r, q)
    BY <1>1, <2>1 DEF Becoming, RequestRecord
  <2> QED
    BY <1>1, <1>2, <2>2, BecomingStepped DEF Caches!Unshared
<1>3. CASE Caches(c)!Ask(x, r, rec)
  <2> DEFINE q == [r EXCEPT !.pc = "asks", !.lease = "asked", !.seen = rec]
  <2>1. q \in RequestRecord(c)
    BY <1>1 DEF RequestRecord, Caches!PC, Caches!Waiting
  <2>2. Becoming(c, x, r, q)
    BY <1>1, <2>1 DEF Becoming, RequestRecord
  <2> QED
    BY <1>1, <1>3, <2>2, BecomingStepped DEF Caches!Ask
<1>4. CASE Caches(c)!FetchAlone(x, r, rec)
  BY <1>1, <1>4, FetchingFacts, BecomingStepped DEF Caches!FetchAlone
<1>5. CASE Caches(c)!Join(x, r)
  BY <1>1, <1>5, JoinStepped
<1>6. CASE Caches(c)!Lead(x, r, rec)
  BY <1>1, <1>6, LeadStepped
<1> QED
  BY <1>2, <1>3, <1>4, <1>5, <1>6 DEF Caches!Miss

(* A stale record may be answered with again when the network fails.        *)
LEMMA FallbackHeld ==
  ASSUME NEW CONSTANT c, CacheInv(c), NEW x \in Caches(c)!Caller, NEW r, Held(c, x, r), NEW rec \in Caches(c)!Entry
  PROVE  Held(c, x, Caches(c)!WithFallback(x, r, rec))
<1> DEFINE q == [r EXCEPT !.fallback = rec]
<1>1. r \in RequestRecord(c) /\ rec \in Possibly(Caches(c)!Entry)
  BY DEF Held, Possibly
<1>2. q \in RequestRecord(c)
  BY <1>1 DEF RequestRecord
<1>3. Held(c, x, q)
  BY <1>1, <1>2 DEF Held, RequestRecord
<1> QED
  BY <1>3 DEF Caches!WithFallback

LEMMA HitBecoming ==
  ASSUME NEW CONSTANT c, CacheInv(c), NEW x \in Caches(c)!Caller, NEW r, Held(c, x, r), NEW rec \in Caches(c)!Entry
  PROVE  Becoming(c, x, r, Caches(c)!Hit(r, rec))
<1> DEFINE q == [r EXCEPT !.pc = "ends", !.answer = rec]
<1>1. r \in RequestRecord(c) /\ rec \in Possibly(Caches(c)!Entry) /\ "ends" \in Caches(c)!PC
  BY DEF Held, Possibly, Caches!PC
<1>2. q \in RequestRecord(c)
  BY <1>1 DEF RequestRecord
<1>3. Becoming(c, x, r, q)
  BY <1>1, <1>2 DEF Becoming, RequestRecord
<1> QED
  BY <1>3 DEF Caches!Hit

LEMMA SpawnStepped ==
  ASSUME NEW CONSTANT c, CacheInv(c), NEW x \in Caches(c)!Caller, NEW r, Held(c, x, r), NEW rec \in Caches(c)!Entry,
         Caches(c)!SpawnRefresh(x, r, rec), calls' \in Seq(CallRecord(c))
  PROVE  Stepped(c)
<1> DEFINE h == Caches(c)!Hit(r, rec)
           s(b) == [req[b] EXCEPT !.pc = "spawned", !.inst = r.inst, !.key = r.key, !.conf = r.conf]
<1>1. Becoming(c, x, r, h)
  BY HitBecoming
<1>2. CASE Caches(c)!Becomes(x, h) /\ live' = live
  BY <1>1, <1>2, BecomingStepped
<1> HIDE DEF h
<1>3. ASSUME NEW b \in c.refreshes, req[b].pc = "new",
             req' = [req EXCEPT ![x] = h,
                         ![b] = [@ EXCEPT !.pc = "spawned", !.inst = r.inst, !.key = r.key, !.conf = r.conf]],
             live' = [live EXCEPT ![r.key].refresh = b]
      PROVE  Stepped(c)
  <2>1. Typed(c) /\ Requests(c) /\ b \in Caches(c)!Caller /\ b # x
    BY <1>3 DEF CacheInv, Held, Caches!Caller
  <2>2. req \in [Caches(c)!Caller -> RequestRecord(c)] /\ live \in [c.keys -> LiveRecord(c)]
    BY <2>1 DEF Typed
  <2>3. /\ req'[x] = h /\ req'[b] = s(b) /\ \A y \in Caches(c)!Caller \ {x, b} : req'[y] = req[y]
        /\ req' = [y \in Caches(c)!Caller |-> req'[y]]
    BY <1>3, <2>1, <2>2
  <2>4. Bound(c, r) /\ Moves(c, x, req[x], h) /\ r \in RequestRecord(c)
    BY <1>1, HeldFacts
  <2>5. Moves(c, b, req[b], s(b))
    <3>1. req[b] \in RequestRecord(c) /\ req[b].lease = "none" /\ "spawned" \in Caches(c)!PC
      BY <1>3, <2>1, <2>2 DEF Requests, Begun, Caches!PC
    <3>2. s(b) \in RequestRecord(c)
      BY <2>4, <3>1 DEF RequestRecord
    <3> QED
      BY <1>3, <2>4, <3>1, <3>2 DEF Moves, RequestRecord, Bound, Begun
  <2>6. \A y \in Caches(c)!Caller : Moves(c, y, req[y], req'[y])
    BY <2>3, <2>4, <2>5, MovesRefl
  <2>7. live' \in [c.keys -> LiveRecord(c)]
    BY <1>3, <2>2 DEF LiveRecord, Possibly
  <2>8. MapsKeep(c)
    BY <1>3, <2>2 DEF MapsKeep, LiveRecord
  <2> QED
    BY <2>3, <2>6, <2>7, <2>8 DEF Stepped, AllMove
<1> QED
  BY <1>2, <1>3, Zenon DEF Caches!SpawnRefresh, h

LEMMA HandleStepped ==
  ASSUME NEW CONSTANT c, CacheInv(c), NEW x \in Caches(c)!Caller, NEW r, Held(c, x, r),
         NEW rec \in Possibly(Caches(c)!Entry), NEW left \in Seq(CallRecord(c)), Caches(c)!HandleRecord(x, r, rec, left)
  PROVE  Stepped(c)
<1>1. None \in Possibly(Caches(c)!Entry) /\ r \in RequestRecord(c)
  BY HeldFacts DEF Possibly
<1>2. CASE Caches(c)!NoRecord(x, r, rec, left)
  BY <1>1, <1>2, MissStepped DEF Caches!NoRecord
<1>3. CASE rec # None
  <2>1. rec \in Caches(c)!Entry
    BY <1>3 DEF Possibly
  <2>2. CASE Caches(c)!FreshRecord(x, r, rec, left)
    <3>1. CASE Caches(c)!Becomes(x, Caches(c)!Hit(r, rec)) /\ live' = live /\ calls' = left
      BY <2>1, <3>1, HitBecoming, BecomingStepped
    <3>2. CASE Caches(c)!Miss(x, r, None, left)
      BY <1>1, <3>2, MissStepped
    <3> QED
      BY <2>2, <3>1, <3>2, Zenon DEF Caches!FreshRecord
  <2>3. CASE Caches(c)!StaleRecord(x, r, rec, left)
    BY <2>1, <2>3, SpawnStepped DEF Caches!StaleRecord
  <2> DEFINE w == Caches(c)!WithFallback(x, r, rec)
  <2>4. Held(c, x, w)
    BY <2>1, FallbackHeld
  <2> HIDE DEF w
  <2>5. CASE Caches(c)!Refetch(x, r, rec, left)
    <3> DEFINE again == IF Caches(c)!Revalidates(r, rec) THEN rec ELSE None
    <3>1. again \in Possibly(Caches(c)!Entry) /\ Caches(c)!Miss(x, w, again, left)
      BY <1>1, <2>5 DEF Caches!Refetch, w
    <3> HIDE DEF again
    <3> QED
      BY <2>4, <3>1, MissStepped
  <2>6. CASE Caches(c)!DropRecord(x, r, rec, left)
    <3> DEFINE q == [w EXCEPT !.pc = "drops"]
    <3>1. w \in RequestRecord(c) /\ "drops" \in Caches(c)!PC
      BY <2>4 DEF Held, Caches!PC, Caches!Waiting
    <3>2. q \in RequestRecord(c)
      BY <3>1 DEF RequestRecord
    <3>3. Becoming(c, x, w, q)
      BY <3>1, <3>2 DEF Becoming, RequestRecord
    <3>4. Caches(c)!Becomes(x, q) /\ live' = live /\ calls' = Append(left, Caches(c)!Call("delete", x, r.key, None))
      BY <2>6, Zenon DEF Caches!DropRecord, w
    <3>5. Caches(c)!Call("delete", x, r.key, None) \in CallRecord(c)
      BY <1>1 DEF CallRecord, Caches!Call, Operations, RequestRecord
    <3>6. calls' \in Seq(CallRecord(c))
      <4> DEFINE a == Caches(c)!Call("delete", x, r.key, None)
      <4> HIDE DEF a
      <4> QED
        BY <3>4, <3>5 DEF a
    <3> HIDE DEF q
    <3> QED
      BY <2>4, <3>3, <3>4, <3>6, BecomingStepped
  <2> QED
    BY <1>2, <2>2, <2>3, <2>5, <2>6 DEF Caches!HandleRecord
<1> QED
  BY <1>2, <1>3, Zenon DEF Caches!HandleRecord, Caches!FreshRecord, Caches!StaleRecord, Caches!Refetch, Caches!DropRecord

----------------------------------------------------------------------------
(* The component counts as the library does.                                *)
LEMMA Counted ==
  ASSUME NEW c, NEW S
  PROVE  Caches(c)!Cardinality(S) = Cardinality(S) /\ (Caches(c)!IsFiniteSet(S) <=> IsFiniteSet(S))
<1>1. Caches(c)!Cardinality(S) = Cardinality(S)
  BY DEF Caches!Cardinality, Cardinality
<1>2. Caches(c)!IsFiniteSet(S) <=> IsFiniteSet(S)
  BY DEF Caches!IsFiniteSet, IsFiniteSet
<1> QED
  BY <1>1, <1>2

(* Every operation is issued once, so their number bounds the stamps.       *)
LEMMA StampFacts ==
  ASSUME NEW CONSTANT c, Caches(c)!CacheAssumption
  PROVE  /\ Caches(c)!Epoch \in Caches(c)!Stamp /\ 0 \in Caches(c)!Stamp
         /\ \A o \in c.operations : op[o].pc = "new" => Caches(c)!Epoch + 1 \in Caches(c)!Stamp
<1> DEFINE issued == {x \in c.operations : op[x].pc # "new"}
<1>1. IsFiniteSet(c.operations)
  BY Counted DEF Caches!CacheAssumption
<1>2. /\ Caches(c)!Epoch = Cardinality(issued) /\ Caches(c)!Stamp = 0..Cardinality(c.operations)
  BY Counted, Zenon DEF Caches!Epoch, Caches!Stamp
<1>3. /\ Cardinality(c.operations) \in Nat /\ Cardinality(issued) \in Nat
      /\ Cardinality(issued) <= Cardinality(c.operations)
  BY <1>1, FS_Subset, FS_CardinalityType
<1>4. ASSUME NEW o \in c.operations, op[o].pc = "new" PROVE Cardinality(issued) + 1 <= Cardinality(c.operations)
  <2>1. issued \subseteq c.operations \ {o} /\ IsFiniteSet(c.operations \ {o})
        /\ Cardinality(c.operations \ {o}) = Cardinality(c.operations) - 1
    BY <1>1, <1>4, FS_RemoveElement
  <2>2. Cardinality(issued) <= Cardinality(c.operations \ {o})
    BY <2>1, FS_Subset
  <2> HIDE DEF issued
  <2> QED
    BY <1>3, <2>1, <2>2
<1> HIDE DEF issued
<1> QED
  BY <1>2, <1>3, <1>4

LEMMA CallsAppended ==
  ASSUME NEW c, NEW left \in Seq(CallRecord(c)), NEW name \in {"get"} \cup Operations,
         NEW b \in Caches(c)!Caller \cup c.operations, NEW k1 \in Possibly(c.keys), NEW e \in Possibly(Caches(c)!Entry),
         name = "get" => k1 \in c.keys
  PROVE  /\ Append(left, Caches(c)!Call(name, b, k1, e)) \in Seq(CallRecord(c))
         /\ None \in Possibly(Caches(c)!Entry)
<1>1. Caches(c)!Call(name, b, k1, e) \in CallRecord(c)
  BY DEF CallRecord, Caches!Call
<1> DEFINE a == Caches(c)!Call(name, b, k1, e)
<1> HIDE DEF a
<1>2. Append(left, a) \in Seq(CallRecord(c))
  BY <1>1 DEF a
<1> QED
  BY <1>2 DEF a, Possibly

(* A step of requests that leaves the operations and the store alone.       *)
LEMMA SteppedKeeps ==
  ASSUME NEW CONSTANT c, Caches(c)!CacheAssumption, CacheInv(c), Stepped(c),
         UNCHANGED <<token, op, keyOp, tagOp, store, installation>>
  PROVE  CacheInv(c)'
<1>1. /\ op' \in [c.operations -> OpRecord(c)]
      /\ keyOp' \in [c.keys -> Possibly(c.operations)] /\ tagOp' \in [c.tags -> Possibly(c.operations)]
      /\ store' \in [c.keys -> Possibly(Caches(c)!Entry)]
  BY DEF CacheInv, Typed
<1> QED
  BY <1>1, MovesKeep DEF Stepped

(* A request's own step: its new record q is bound like the one it has.     *)
Stays(c, x, q) ==
    LET r == req[x] IN
    /\ q \in RequestRecord(c) /\ Begun(r) /\ Begun(q) /\ r.pc # "done" /\ q.pc # "done"
    /\ q.inst = r.inst /\ q.key = r.key /\ q.conf = r.conf /\ q.token = r.token /\ q.outcome = r.outcome
    /\ q.leads = r.leads
    /\ q.lease = "held" => r.lease = "held" \/ Caches(c)!Active(x)
    /\ q.pc = "joins" => r.pc = "joins" /\ q.joined = r.joined

LEMMA StaysMoves ==
  ASSUME NEW CONSTANT c, CacheInv(c), NEW x \in Caches(c)!Caller, NEW q, Stays(c, x, q)
  PROVE  Moves(c, x, req[x], q)
<1>1. Requests(c) /\ Begun(req[x]) /\ req[x].pc # "done"
  BY DEF CacheInv, Stays
<1>2. Bound(c, req[x]) /\ (req[x].lease = "held" => Caches(c)!Active(x))
  BY <1>1 DEF Requests, Begun
<1>3. Bound(c, q)
  BY <1>2 DEF Stays, Bound
<1> QED
  BY <1>2, <1>3 DEF Stays, Moves

LEMMA StaysKeeps ==
  ASSUME NEW CONSTANT c, Caches(c)!CacheAssumption, CacheInv(c), NEW x \in Caches(c)!Caller, NEW q, Stays(c, x, q),
         Caches(c)!Becomes(x, q), calls' \in Seq(CallRecord(c)),
         UNCHANGED <<live, token, op, keyOp, tagOp, store, installation>>
  PROVE  CacheInv(c)'
BY StaysMoves, OneStepped, SteppedKeeps

LEMMA TypedFacts ==
  ASSUME NEW CONSTANT c, CacheInv(c)
  PROVE  /\ \A x \in Caches(c)!Caller :
               req[x] \in RequestRecord(c) /\ (req[x].pc \notin {"new", "done"} => Bound(c, req[x]))
         /\ calls \in Seq(CallRecord(c)) /\ Caches(c)!PC = {"new", "spawned", "ends", "done", "waits", "reads", "joins",
                                                           "asks", "drops", "fetches", "writes"}
<1>1. Typed(c) /\ Requests(c)
  BY DEF CacheInv
<1>2. Caches(c)!PC = {"new", "spawned", "ends", "done", "waits", "reads", "joins", "asks", "drops", "fetches", "writes"}
  BY DEF Caches!PC, Caches!Waiting
<1> QED
  BY <1>1, <1>2 DEF Typed, Requests

LEMMA ReadKeeps ==
  ASSUME NEW CONSTANT c, Caches(c)!CacheAssumption, CacheInv(c), NEW x \in Caches(c)!Caller, Caches(c)!Read(x)
  PROVE  CacheInv(c)'
<1> DEFINE q == [req[x] EXCEPT !.pc = "reads"]
<1>1. /\ req[x].pc = "waits" /\ Caches(c)!Becomes(x, q)
      /\ calls' = Append(calls, Caches(c)!Call("get", x, req[x].key, None))
      /\ UNCHANGED <<token, live, op, keyOp, tagOp, store, installation>>
  BY DEF Caches!Read
<1>2. req[x] \in RequestRecord(c) /\ req[x].key \in c.keys /\ calls \in Seq(CallRecord(c)) /\ "reads" \in Caches(c)!PC
  BY <1>1, TypedFacts DEF Bound
<1>3. q \in RequestRecord(c)
  BY <1>2 DEF RequestRecord
<1>4. Stays(c, x, q)
  BY <1>1, <1>2, <1>3 DEF Stays, RequestRecord, Begun
<1>5. calls' \in Seq(CallRecord(c))
  <2>1. "get" \in {"get"} \cup Operations /\ x \in Caches(c)!Caller \cup c.operations
        /\ req[x].key \in Possibly(c.keys) /\ None \in Possibly(Caches(c)!Entry)
    BY <1>2 DEF Possibly
  <2> QED
    BY <1>1, <1>2, <2>1, CallsAppended
<1> HIDE DEF q
<1> QED
  BY <1>1, <1>4, <1>5, StaysKeeps

----------------------------------------------------------------------------
\* Refresh leases, responses and what a request waits for

LEMMA LeaseMoves ==
  ASSUME NEW CONSTANT c, CacheInv(c), NEW x \in Caches(c)!Caller, req[x].lease = "asked",
         NEW l \in {"held", "returned", "void"}, l = "held" => Caches(c)!Active(x) /\ req[x].pc # "done"
  PROVE  Moves(c, x, req[x], [req[x] EXCEPT !.lease = l])
<1> DEFINE q == [req[x] EXCEPT !.lease = l]
<1>1. req[x] \in RequestRecord(c) /\ (req[x].pc \notin {"new", "done"} => Bound(c, req[x]))
  BY TypedFacts
<1>2. Begun(req[x])
  BY DEF CacheInv, Requests
<1>3. q \in RequestRecord(c)
  BY <1>1 DEF RequestRecord
<1>4. req[x].pc = "joins" => Moves(c, x, req[x], req[x])
  BY MovesRefl
<1> QED
  BY <1>1, <1>2, <1>3 DEF Moves, RequestRecord, Begun, Bound

LEMMA LeaseGrantedKeeps ==
  ASSUME NEW CONSTANT c, Caches(c)!CacheAssumption, CacheInv(c), NEW x \in Caches(c)!Caller, Caches(c)!LeaseGranted(x)
  PROVE  CacheInv(c)'
<1> DEFINE l == Caches(c)!Granted(x)
           r == [req[x] EXCEPT !.lease = l]
<1>1. PICK contended \in BOOLEAN :
        IF req[x].pc # "asks" THEN Caches(c)!Becomes(x, r) /\ UNCHANGED calls
        ELSE IF ~Caches(c)!Active(x) THEN Caches(c)!Becomes(x, [r EXCEPT !.pc = "fetches"]) /\ UNCHANGED calls
        ELSE /\ Caches(c)!Becomes(x, [r EXCEPT !.pc = "reads", !.forced = @ /\ ~contended])
             /\ calls' = Append(calls, Caches(c)!Call("get", x, r.key, None))
  BY Zenon DEF Caches!LeaseGranted
<1>2. req[x].lease = "asked" /\ UNCHANGED <<token, live, op, keyOp, tagOp, store, installation>>
  BY DEF Caches!LeaseGranted
<1>3. l \in {"held", "returned", "void"} /\ (l = "held" => Caches(c)!Active(x) /\ req[x].pc = "asks")
  BY DEF Caches!Granted
<1> HIDE DEF l
<1>4. Moves(c, x, req[x], r)
  BY <1>2, <1>3, LeaseMoves
<1>5. /\ req[x] \in RequestRecord(c) /\ calls \in Seq(CallRecord(c)) /\ r \in RequestRecord(c)
      /\ (req[x].pc = "asks" => Bound(c, req[x]))
      /\ "fetches" \in Caches(c)!PC /\ "reads" \in Caches(c)!PC
  BY <1>4, TypedFacts DEF Moves
<1>6. r.key = req[x].key /\ r.forced = req[x].forced /\ r.lease = l
  BY <1>5 DEF RequestRecord
<1>7. CASE req[x].pc # "asks"
  <2>1. Stepped(c)
    BY <1>1, <1>2, <1>4, <1>5, <1>7, OneStepped
  <2> QED
    BY <1>2, <2>1, SteppedKeeps
<1>8. CASE req[x].pc = "asks" /\ ~Caches(c)!Active(x)
  <2> DEFINE q == [r EXCEPT !.pc = "fetches"]
  <2>1. q \in RequestRecord(c)
    BY <1>5 DEF RequestRecord
  <2>2. Stays(c, x, q)
    BY <1>3, <1>5, <1>8, <2>1 DEF Stays, RequestRecord, Begun
  <2> HIDE DEF q
  <2>3. Caches(c)!Becomes(x, q) /\ UNCHANGED calls
    BY <1>1, <1>8 DEF q
  <2> QED
    BY <1>2, <1>5, <2>2, <2>3, StaysKeeps
<1>9. CASE req[x].pc = "asks" /\ Caches(c)!Active(x)
  <2> DEFINE f == r.forced /\ ~contended
             q == [r EXCEPT !.pc = "reads", !.forced = f]
  <2>1. f \in BOOLEAN
    BY <1>1
  <2>2. Caches(c)!Becomes(x, q) /\ calls' = Append(calls, Caches(c)!Call("get", x, r.key, None))
    BY <1>1, <1>9
  <2> HIDE DEF f
  <2>3. q \in RequestRecord(c)
    BY <1>5, <2>1 DEF RequestRecord
  <2>4. Stays(c, x, q)
    BY <1>3, <1>5, <1>9, <2>3 DEF Stays, RequestRecord, Begun
  <2>5. calls' \in Seq(CallRecord(c))
    <3>1. "get" \in {"get"} \cup Operations /\ x \in Caches(c)!Caller \cup c.operations
          /\ r.key \in Possibly(c.keys) /\ None \in Possibly(Caches(c)!Entry) /\ r.key \in c.keys
      BY <1>5, <1>6, <1>9 DEF Possibly, Bound
    <3> QED
      BY <1>5, <2>2, <3>1, CallsAppended
  <2> HIDE DEF q
  <2> QED
    BY <1>2, <2>2, <2>4, <2>5, StaysKeeps
<1> QED
  BY <1>7, <1>8, <1>9

LEMMA LeaseFailedKeeps ==
  ASSUME NEW CONSTANT c, Caches(c)!CacheAssumption, CacheInv(c), NEW x \in Caches(c)!Caller, Caches(c)!LeaseFailed(x)
  PROVE  CacheInv(c)'
<1> DEFINE r == [req[x] EXCEPT !.lease = "void"]
<1>1. IF req[x].pc = "asks" THEN Caches(c)!HandleRecord(x, r, r.seen, calls)
      ELSE Caches(c)!Becomes(x, r) /\ UNCHANGED <<live, calls>>
  BY DEF Caches!LeaseFailed
<1>2. req[x].lease = "asked" /\ UNCHANGED <<token, op, keyOp, tagOp, store, installation>>
  BY DEF Caches!LeaseFailed
<1>3. Moves(c, x, req[x], r)
  BY <1>2, LeaseMoves
<1>4. req[x] \in RequestRecord(c) /\ calls \in Seq(CallRecord(c)) /\ r \in RequestRecord(c)
  BY <1>3, TypedFacts DEF Moves
<1>5. Stepped(c)
  <2>1. CASE req[x].pc = "asks"
    <3>1. Held(c, x, r) /\ r.seen \in Possibly(Caches(c)!Entry)
      BY <1>4, <2>1 DEF Held, RequestRecord
    <3> HIDE DEF r
    <3> QED
      BY <1>1, <1>4, <2>1, <3>1, HandleStepped
  <2>2. CASE req[x].pc # "asks"
    BY <1>1, <1>3, <1>4, <2>2, OneStepped
  <2> QED
    BY <2>1, <2>2
<1> QED
  BY <1>2, <1>5, SteppedKeeps

LEMMA ResponseTyped ==
  ASSUME NEW CONSTANT c, Caches(c)!CacheAssumption, CacheInv(c), NEW x \in Caches(c)!Caller,
         NEW p \in [ttl : BOOLEAN, etag : BOOLEAN, sie : BOOLEAN, swr : BOOLEAN], req[x].pc = "fetches"
  PROVE  Caches(c)!Response(x, p) \in Caches(c)!Entry
<1> DEFINE tags == IF req[x].token # None /\ token[req[x].token].tags # {} THEN token[req[x].token].tags
                   ELSE IF req[x].cond # None THEN req[x].cond.tags ELSE {}
<1>1. req[x] \in RequestRecord(c) /\ Bound(c, req[x]) /\ token \in [Caches(c)!Caller -> [tags : SUBSET c.tags, active : Int]]
  BY TypedFacts DEF CacheInv, Typed
<1>2. tags \in SUBSET c.tags
  <2>1. req[x].token # None => token[req[x].token].tags \in SUBSET c.tags
    BY <1>1 DEF RequestRecord, Possibly
  <2>2. req[x].cond # None => req[x].cond.tags \in SUBSET c.tags
    BY <1>1 DEF RequestRecord, Possibly, Caches!Entry
  <2> QED
    BY <2>1, <2>2
<1>3. req[x].conf.raw \in BOOLEAN /\ req[x].born \in Caches(c)!Stamp
  BY <1>1 DEF Caches!CacheAssumption, Bound, RequestRecord
<1>4. Caches(c)!Response(x, p) = [born |-> req[x].born, age |-> IF p.ttl THEN "fresh" ELSE "stale", raw |-> req[x].conf.raw,
                                  policy |-> p, tags |-> tags]
  BY DEF Caches!Response
<1> HIDE DEF tags
<1> QED
  BY <1>2, <1>3, <1>4 DEF Caches!Entry, Caches!Age

LEMMA RespondKeeps ==
  ASSUME NEW CONSTANT c, Caches(c)!CacheAssumption, CacheInv(c), NEW x \in Caches(c)!Caller, req[x].pc = "fetches",
         NEW e \in Caches(c)!Entry, Caches(c)!Respond(x, e),
         UNCHANGED <<token, live, op, keyOp, tagOp, store, installation>>
  PROVE  CacheInv(c)'
<1> DEFINE kept == IF Caches(c)!Keeps(x) \/ Caches(c)!Persists(e.policy) THEN e ELSE None
           u == ~Caches(c)!Keeps(x) /\ ~Caches(c)!Persists(e.policy)
           r == [req[x] EXCEPT !.answer = e]
           alone == [r EXCEPT !.pc = "ends"]
           writes == [r EXCEPT !.pc = "writes", !.completed = e]
           ends == [r EXCEPT !.pc = "ends", !.completed = kept, !.uncacheable = u]
<1>1. /\ kept \in Possibly(Caches(c)!Entry) /\ u \in BOOLEAN /\ e \in Possibly(Caches(c)!Entry)
      /\ None \in Possibly(Caches(c)!Entry)
  BY DEF Possibly
<1>2. \/ Caches(c)!Becomes(x, alone) /\ calls' = calls
      \/ Caches(c)!Becomes(x, writes) /\ calls' = Append(calls, Caches(c)!Call("set", x, r.key, e))
      \/ Caches(c)!Becomes(x, writes) /\ calls' = Append(calls, Caches(c)!Call("delete", x, r.key, None))
      \/ Caches(c)!Becomes(x, ends) /\ calls' = calls
  BY Zenon DEF Caches!Respond
<1> HIDE DEF kept, u
<1>3. req[x] \in RequestRecord(c) /\ calls \in Seq(CallRecord(c)) /\ "ends" \in Caches(c)!PC /\ "writes" \in Caches(c)!PC
  BY TypedFacts
<1>4. r \in RequestRecord(c) /\ r.key = req[x].key /\ r.key \in Possibly(c.keys)
  BY <1>1, <1>3 DEF RequestRecord
<1>5. alone \in RequestRecord(c) /\ writes \in RequestRecord(c) /\ ends \in RequestRecord(c)
  BY ZenonT(40), <1>1, <1>3, <1>4 DEF RequestRecord
<1>6. Stays(c, x, alone)
  BY <1>3, <1>5 DEF Stays, RequestRecord, Begun
<1>7. Stays(c, x, writes)
  BY <1>3, <1>5 DEF Stays, RequestRecord, Begun
<1>8. Stays(c, x, ends)
  BY <1>3, <1>5 DEF Stays, RequestRecord, Begun
<1>9. calls' \in Seq(CallRecord(c))
  <2>1. {"set", "delete"} \subseteq {"get"} \cup Operations /\ x \in Caches(c)!Caller \cup c.operations
    BY DEF Operations
  <2> HIDE DEF r
  <2> QED
    BY ZenonT(40), <1>1, <1>2, <1>3, <1>4, <2>1, CallsAppended
<1> HIDE DEF alone, writes, ends
<1> QED
  BY <1>2, <1>6, <1>7, <1>8, <1>9, StaysKeeps

LEMMA AnsweredKeeps ==
  ASSUME NEW CONSTANT c, Caches(c)!CacheAssumption, CacheInv(c), NEW x \in Caches(c)!Caller, Caches(c)!Answered(x)
  PROVE  CacheInv(c)'
<1>1. req[x].pc = "fetches" /\ UNCHANGED <<token, live, op, keyOp, tagOp, store, installation>>
  BY DEF Caches!Answered
<1>2. \E p \in [ttl : BOOLEAN, etag : BOOLEAN, sie : BOOLEAN, swr : BOOLEAN] :
         Caches(c)!Respond(x, Caches(c)!Response(x, p))
  <2>1. CASE \E p \in c.policies : Caches(c)!Respond(x, Caches(c)!Response(x, p))
    BY <2>1 DEF Caches!CacheAssumption
  <2>2. CASE req[x].cond # None /\ Caches(c)!Respond(x, Caches(c)!Response(x, req[x].cond.policy))
    <3>1. req[x].cond.policy \in [ttl : BOOLEAN, etag : BOOLEAN, sie : BOOLEAN, swr : BOOLEAN]
      BY <2>2, TypedFacts DEF RequestRecord, Possibly, Caches!Entry
    <3> QED
      BY <2>2, <3>1
  <2> QED
    BY <2>1, <2>2 DEF Caches!Answered
<1> QED
  BY <1>1, <1>2, ResponseTyped, RespondKeeps

LEMMA StreamedKeeps ==
  ASSUME NEW CONSTANT c, Caches(c)!CacheAssumption, CacheInv(c), NEW x \in Caches(c)!Caller, Caches(c)!Streamed(x)
  PROVE  CacheInv(c)'
<1> DEFINE p == [ttl |-> FALSE, etag |-> FALSE, sie |-> FALSE, swr |-> FALSE]
           e == Caches(c)!Response(x, p)
           u == Caches(c)!Active(x)
           r == [req[x] EXCEPT !.answer = e, !.uncacheable = u]
           writes == [r EXCEPT !.pc = "writes"]
           ends == [r EXCEPT !.pc = "ends"]
<1>1. req[x].pc = "fetches" /\ UNCHANGED <<token, live, op, keyOp, tagOp, store, installation>>
  BY DEF Caches!Streamed
<1>2. e \in Possibly(Caches(c)!Entry) /\ u \in BOOLEAN /\ None \in Possibly(Caches(c)!Entry)
  <2>1. p \in [ttl : BOOLEAN, etag : BOOLEAN, sie : BOOLEAN, swr : BOOLEAN]
    OBVIOUS
  <2> HIDE DEF p
  <2>2. e \in Caches(c)!Entry
    BY <1>1, <2>1, ResponseTyped
  <2> QED
    BY <2>2 DEF Possibly, Caches!Active
<1>3. \/ Caches(c)!Becomes(x, writes) /\ calls' = Append(calls, Caches(c)!Call("delete", x, r.key, None))
      \/ Caches(c)!Becomes(x, ends) /\ calls' = calls
  BY Zenon DEF Caches!Streamed
<1> HIDE DEF e, u
<1>4. req[x] \in RequestRecord(c) /\ calls \in Seq(CallRecord(c)) /\ "ends" \in Caches(c)!PC /\ "writes" \in Caches(c)!PC
  BY TypedFacts
<1>5. r \in RequestRecord(c) /\ r.key = req[x].key /\ r.key \in Possibly(c.keys)
  BY <1>2, <1>4 DEF RequestRecord
<1>6. writes \in RequestRecord(c) /\ ends \in RequestRecord(c)
  BY <1>4, <1>5 DEF RequestRecord
<1>7. Stays(c, x, writes)
  BY <1>1, <1>4, <1>6 DEF Stays, RequestRecord, Begun
<1>8. Stays(c, x, ends)
  BY <1>1, <1>4, <1>6 DEF Stays, RequestRecord, Begun
<1>9. calls' \in Seq(CallRecord(c))
  <2>1. "delete" \in {"get"} \cup Operations /\ x \in Caches(c)!Caller \cup c.operations
    BY DEF Operations
  <2> HIDE DEF r
  <2> QED
    BY <1>2, <1>3, <1>4, <1>5, <2>1, CallsAppended
<1> HIDE DEF writes, ends
<1> QED
  BY <1>1, <1>3, <1>7, <1>8, <1>9, StaysKeeps

LEMMA FailedKeeps ==
  ASSUME NEW CONSTANT c, Caches(c)!CacheAssumption, CacheInv(c), NEW x \in Caches(c)!Caller, Caches(c)!Failed(x)
  PROVE  CacheInv(c)'
<1> DEFINE lost == [req[x] EXCEPT !.pc = "ends", !.error = TRUE]
           stale == [req[x] EXCEPT !.pc = "ends", !.answer = req[x].fallback, !.uncacheable = req[x].leads]
<1>1. /\ req[x].pc = "fetches" /\ UNCHANGED <<token, live, op, keyOp, tagOp, store, calls, installation>>
      /\ Caches(c)!Becomes(x, lost) \/ Caches(c)!Becomes(x, stale)
  BY DEF Caches!Failed
<1>2. req[x] \in RequestRecord(c) /\ calls \in Seq(CallRecord(c)) /\ "ends" \in Caches(c)!PC
  BY TypedFacts
<1>3. lost \in RequestRecord(c) /\ stale \in RequestRecord(c)
  BY <1>2 DEF RequestRecord
<1>4. Stays(c, x, lost)
  BY <1>1, <1>2, <1>3 DEF Stays, RequestRecord, Begun
<1>5. Stays(c, x, stale)
  BY <1>1, <1>2, <1>3 DEF Stays, RequestRecord, Begun
<1> HIDE DEF lost, stale
<1> QED
  BY <1>1, <1>2, <1>4, <1>5, StaysKeeps

LEMMA WakeKeeps ==
  ASSUME NEW CONSTANT c, Caches(c)!CacheAssumption, CacheInv(c), NEW x \in Caches(c)!Caller, Caches(c)!Wake(x)
  PROVE  CacheInv(c)'
<1> DEFINE rejected == [req[x] EXCEPT !.pc = "ends", !.error = TRUE]
           nothing == [req[x] EXCEPT !.pc = "fetches"]
           e == req[req[x].joined].completed
           shared == [req[x] EXCEPT !.pc = "ends", !.answer = e]
<1>1. /\ req[x].pc = "joins" /\ UNCHANGED <<token, live, op, keyOp, tagOp, store, calls, installation>>
      /\ Caches(c)!Becomes(x, rejected) \/ Caches(c)!Becomes(x, nothing) \/ Caches(c)!Becomes(x, shared)
  BY Zenon DEF Caches!Wake, Caches!Hit
<1>2. req[x] \in RequestRecord(c) /\ calls \in Seq(CallRecord(c)) /\ "ends" \in Caches(c)!PC /\ "fetches" \in Caches(c)!PC
  BY TypedFacts
<1>3. e \in Possibly(Caches(c)!Entry)
  <2>1. req[x].joined \in Caches(c)!Caller
    BY <1>1 DEF CacheInv, Requests
  <2> QED
    BY <2>1, TypedFacts DEF RequestRecord
<1> HIDE DEF e
<1>4. rejected \in RequestRecord(c) /\ nothing \in RequestRecord(c) /\ shared \in RequestRecord(c)
  BY <1>2, <1>3 DEF RequestRecord
<1>5. Stays(c, x, rejected)
  BY <1>1, <1>2, <1>4 DEF Stays, RequestRecord, Begun
<1>6. Stays(c, x, nothing)
  BY <1>1, <1>2, <1>4 DEF Stays, RequestRecord, Begun
<1>7. Stays(c, x, shared)
  BY <1>1, <1>2, <1>4 DEF Stays, RequestRecord, Begun
<1> HIDE DEF rejected, nothing, shared
<1> QED
  BY <1>1, <1>2, <1>5, <1>6, <1>7, StaysKeeps

(* A request that is stopped, as a refresh is by an invalidation.           *)
LEMMA StoppedMoves ==
  ASSUME NEW CONSTANT c, CacheInv(c), NEW x \in Caches(c)!Caller
  PROVE  Moves(c, x, req[x], Caches(c)!Stopped(req[x]))
<1>1. req[x] \in RequestRecord(c) /\ Requests(c) /\ "done" \in Caches(c)!PC /\ "ends" \in Caches(c)!PC
  BY TypedFacts DEF CacheInv
<1>2. CASE req[x].pc = "spawned"
  <2> DEFINE q == [req[x] EXCEPT !.pc = "done", !.error = TRUE]
  <2>1. q \in RequestRecord(c)
    BY <1>1 DEF RequestRecord
  <2>2. req[x].token = None /\ req[x].lease = "none"
    BY <1>1, <1>2 DEF Requests, Begun
  <2>3. Moves(c, x, req[x], q)
    BY <1>1, <1>2, <2>1, <2>2 DEF Moves, RequestRecord, Begun
  <2> QED
    BY <1>2, <2>3 DEF Caches!Stopped
<1>3. CASE req[x].pc \in Caches(c)!Waiting
  <2> DEFINE q == [req[x] EXCEPT !.pc = "ends", !.error = TRUE]
  <2>1. q \in RequestRecord(c)
    BY <1>1 DEF RequestRecord
  <2>2. Stays(c, x, q)
    BY <1>1, <1>3, <2>1 DEF Stays, RequestRecord, Begun, Caches!Waiting
  <2>3. Caches(c)!Stopped(req[x]) = q
    BY <1>3 DEF Caches!Stopped, Caches!Waiting
  <2> HIDE DEF q
  <2> QED
    BY <2>2, <2>3, StaysMoves
<1>4. CASE Caches(c)!Stopped(req[x]) = req[x]
  BY <1>4, MovesRefl
<1> QED
  BY <1>2, <1>3, <1>4 DEF Caches!Stopped

LEMMA AbortKeeps ==
  ASSUME NEW CONSTANT c, Caches(c)!CacheAssumption, CacheInv(c), NEW x \in Caches(c)!Caller, Caches(c)!Abort(x)
  PROVE  CacheInv(c)'
BY StoppedMoves, OneStepped, SteppedKeeps, TypedFacts DEF Caches!Abort

----------------------------------------------------------------------------
\* The request hook

(* A request that begins under a token, new or its key's present one, adds  *)
(* a user to it.                                                            *)
Begins(c, x, k1, g, q) ==
    /\ ~Begun(req[x]) /\ q \in RequestRecord(c) /\ q.pc \in {"reads", "waits"}
    /\ Bound(c, q) /\ q.key = k1 /\ installation[q.inst] = "on"
    /\ q.token = g /\ q.outcome = req[x].outcome /\ q.leads = req[x].leads /\ q.lease = req[x].lease
    /\ g = IF live[k1].gen = None THEN x ELSE live[k1].gen
    /\ req' = [req EXCEPT ![x] = q]
    /\ live' = [live EXCEPT ![k1].gen = g]
    /\ \A y \in Caches(c)!Caller : token'[y].active = token[y].active + (IF y = g THEN 1 ELSE 0)
    /\ installation' = installation

LEMMA BeginsRequests ==
  ASSUME NEW CONSTANT c, Caches(c)!CacheAssumption, CacheInv(c), NEW x \in Caches(c)!Caller, NEW k1 \in c.keys,
         NEW g \in Caches(c)!Caller, NEW q, Begins(c, x, k1, g, q)
  PROVE  Requests(c)'
<1>1. req \in [Caches(c)!Caller -> RequestRecord(c)] /\ Requests(c) /\ None \notin Caches(c)!Caller \cup c.installations
  BY DEF CacheInv, Typed, Caches!CacheAssumption
<1>2. req'[x] = q /\ \A y \in Caches(c)!Caller : y # x => req'[y] = req[y]
  BY <1>1 DEF Begins
<1>3. ~req[x].leads /\ req[x].outcome = "pending" /\ req[x].lease = "none"
  BY <1>1 DEF Requests, Begins
<1>4. ASSUME NEW y \in Caches(c)!Caller
      PROVE  LET r == req'[y] IN
             /\ r.pc \notin {"new", "done"} => Bound(c, r)
             /\ ~Begun(r) => r.token = None /\ ~r.leads /\ r.outcome = "pending" /\ r.lease = "none"
             /\ r.pc = "done" => r.token = None /\ ~r.leads
             /\ r.leads => r.token # None /\ Caches(c)!Active(y)'
             /\ r.pc # "done" /\ r.outcome # "pending" => r.token # None /\ ~Caches(c)!Active(y)'
             /\ r.pc = "joins" => r.joined \in Caches(c)!Caller /\ (req'[r.joined].outcome # "pending" \/ req'[r.joined].leads)
             /\ r.lease = "held" => Caches(c)!Active(y)' /\ r.pc # "done"
  <2>1. CASE y = x
    BY <1>2, <1>3, <2>1 DEF Begins, Begun
  <2>2. CASE y # x
    <3>1. req'[y] = req[y] /\ (Caches(c)!Active(y)' <=> Caches(c)!Active(y))
      BY <1>2, <2>2 DEF Caches!Active, Begins
    <3>2. req[y].pc = "joins" => req[y].joined \in Caches(c)!Caller /\ req[y].joined # x
                                 /\ (req[req[y].joined].outcome # "pending" \/ req[req[y].joined].leads)
      BY <1>1, <1>3 DEF Requests
    <3>3. req[y].pc = "joins" => req'[req[y].joined] = req[req[y].joined]
      BY <1>2, <3>2
    <3> QED
      BY <1>1, <3>1, <3>2, <3>3 DEF Requests
  <2> QED
    BY <2>1, <2>2
<1> QED
  BY <1>4 DEF Requests

LEMMA BeginsTokens ==
  ASSUME NEW CONSTANT c, Caches(c)!CacheAssumption, CacheInv(c), NEW x \in Caches(c)!Caller, NEW k1 \in c.keys,
         NEW g \in Caches(c)!Caller, NEW q, Begins(c, x, k1, g, q)
  PROVE  Tokens(c)'
<1>1. /\ req \in [Caches(c)!Caller -> RequestRecord(c)] /\ Requests(c) /\ Tokens(c)
      /\ token \in [Caches(c)!Caller -> [tags : SUBSET c.tags, active : Int]]
      /\ live \in [c.keys -> LiveRecord(c)] /\ None \notin Caches(c)!Caller \cup c.installations
  BY DEF CacheInv, Typed, Caches!CacheAssumption
<1>2. req'[x] = q /\ (\A y \in Caches(c)!Caller : y # x => req'[y] = req[y]) /\ q.token = g /\ Begun(q)
  BY <1>1 DEF Begins, Begun
<1>3. req[x].token = None /\ Unused(c, x)
  BY <1>1 DEF Requests, Tokens, Begins
<1>4. \A k2 \in c.keys : live'[k2].gen = IF k2 = k1 THEN g ELSE live[k2].gen
  BY <1>1 DEF Begins, LiveRecord
<1>5. g = (IF live[k1].gen = None THEN x ELSE live[k1].gen)
      /\ \A y \in Caches(c)!Caller : token'[y].active = token[y].active + (IF y = g THEN 1 ELSE 0)
  BY DEF Begins
<1>6. ASSUME NEW y \in Caches(c)!Caller, ~Begun(req'[y]) PROVE Unused(c, y)'
  <2>1. y # x /\ req'[y] = req[y]
    BY <1>2, <1>6
  <2>2. Unused(c, y)
    BY <1>1, <1>6, <2>1 DEF Tokens
  <2>3. y # g
    BY <1>5, <2>1, <2>2 DEF Unused
  <2>4. token'[y].active = 0
    BY <1>1, <1>5, <2>2, <2>3 DEF Unused
  <2> QED
    BY <1>2, <1>4, <2>2, <2>3, <2>4 DEF Unused
<1>7. IsFiniteSet(Users(c, g))
  <2>1. IsFiniteSet(Caches(c)!Caller) /\ Users(c, g) \subseteq Caches(c)!Caller
    BY Counted DEF Users, Caches!CacheAssumption
  <2> QED
    BY <2>1, FS_Subset
<1>8. \A y \in Users(c, g) : req[y].key = k1 /\ Caches(c)!Active(y)
  BY <1>1, <1>3, <1>5 DEF Users, Unused, Tokens, Counts
<1>9. token[g].active = Cardinality(Users(c, g))
  <2>1. CASE live[k1].gen = None
    <3>1. Users(c, g) = {} /\ token[g].active = 0
      BY <1>3, <1>5, <2>1 DEF Unused, Users
    <3> QED
      BY <3>1, FS_EmptySet
  <2>2. CASE live[k1].gen # None
    BY <1>1, <1>5, <2>2 DEF Tokens, Counts
  <2> QED
    BY <2>1, <2>2
<1>10. Users(c, g)' = Users(c, g) \cup {x} /\ x \notin Users(c, g)
  <2>1. ASSUME NEW y PROVE y \in Users(c, g)' <=> y \in Users(c, g) \cup {x}
    BY <1>2, <1>3 DEF Users
  <2>2. x \notin Users(c, g)
    BY <1>1, <1>3 DEF Users
  <2> QED
    BY <2>1, <2>2
<1>11. Cardinality(Users(c, g)') = Cardinality(Users(c, g)) + 1 /\ Cardinality(Users(c, g)) \in Nat
  BY <1>7, <1>10, FS_AddElement, FS_CardinalityType
<1>12. ASSUME NEW k2 \in c.keys, live'[k2].gen # None PROVE Counts(c, k2)'
  <2>1. CASE k2 = k1
    <3>1. live'[k2].gen = g
      BY <1>4, <2>1
    <3>2. token'[g].active = Cardinality(Users(c, g)') /\ token'[g].active > 0
      BY <1>5, <1>9, <1>11
    <3>3. ASSUME NEW y \in Caches(c)!Caller, req'[y].token = g PROVE req'[y].key = k2 /\ Caches(c)!Active(y)'
      <4>1. CASE y = x
        BY <1>1, <1>2, <2>1, <4>1 DEF Begins, Caches!Active, Bound
      <4>2. CASE y # x
        BY <1>2, <1>8, <2>1, <3>3, <4>2 DEF Users, Caches!Active, Begins
      <4> QED
        BY <4>1, <4>2
    <3> QED
      BY <3>1, <3>2, <3>3 DEF Counts, Users
  <2>2. CASE k2 # k1
    <3> DEFINE h == live[k2].gen
    <3>1. live'[k2].gen = h /\ h # None /\ h \in Caches(c)!Caller
      BY <1>1, <1>4, <1>12, <2>2 DEF LiveRecord, Possibly
    <3>2. Counts(c, k2)
      BY <1>1, <3>1 DEF Tokens
    <3>3. h # g
      <4>1. SUFFICES ASSUME h = g PROVE FALSE
        OBVIOUS
      <4>2. h # x
        BY <1>3 DEF Unused
      <4>3. Cardinality(Users(c, g)) > 0
        BY <3>2, <4>1 DEF Counts
      <4>4. Users(c, g) # {}
        BY <4>3, FS_EmptySet
      <4>5. PICK y \in Users(c, g) : TRUE
        BY <4>4
      <4> QED
        BY <1>8, <2>2, <3>2, <4>1, <4>5 DEF Counts, Users
    <3>4. Users(c, h)' = Users(c, h)
      <4>1. ASSUME NEW y PROVE y \in Users(c, h)' <=> y \in Users(c, h)
        BY <1>2, <1>3, <3>1, <3>3 DEF Users
      <4> QED
        BY <4>1
    <3>5. token'[h].active = token[h].active
      BY <1>1, <1>5, <3>1, <3>3
    <3>6. ASSUME NEW y \in Caches(c)!Caller, req'[y].token = h PROVE req'[y].key = k2 /\ Caches(c)!Active(y)'
      BY <1>2, <3>2, <3>3, <3>6 DEF Counts, Caches!Active, Begins
    <3> HIDE DEF h
    <3>7. Users(c, live[k2].gen)' = Users(c, h)'
      BY DEF h
    <3>8. token[h].active = Cardinality(Users(c, h)) /\ token[h].active > 0
      BY <3>2 DEF Counts, h
    <3> QED
      BY <3>1, <3>4, <3>5, <3>6, <3>7, <3>8 DEF Counts
  <2> QED
    BY <2>1, <2>2
<1> QED
  BY <1>6, <1>12 DEF Tokens

LEMMA BeginsFlights ==
  ASSUME NEW CONSTANT c, Caches(c)!CacheAssumption, CacheInv(c), NEW x \in Caches(c)!Caller, NEW k1 \in c.keys,
         NEW g \in Caches(c)!Caller, NEW q, Begins(c, x, k1, g, q)
  PROVE  Flights(c)'
<1>1. /\ req \in [Caches(c)!Caller -> RequestRecord(c)] /\ Requests(c) /\ Flights(c)
      /\ live \in [c.keys -> LiveRecord(c)] 
  BY DEF CacheInv, Typed
<1>2. /\ \A y \in Caches(c)!Caller : y # x => req'[y] = req[y]
      /\ ~req[x].leads
  BY <1>1 DEF Begins, Requests
<1>3. \A k2 \in c.keys : /\ live'[k2].gen = IF k2 = k1 THEN g ELSE live[k2].gen
                         /\ live'[k2].flight = live[k2].flight /\ live'[k2].rawFlight = live[k2].rawFlight
  BY <1>1 DEF Begins, LiveRecord
<1>4. ASSUME NEW k2 \in c.keys, NEW y \in {live'[k2].flight, live'[k2].rawFlight} \ {None}
      PROVE  Flies(c, k2, y)'
  <2>1. Flies(c, k2, y) /\ y \in Caches(c)!Caller
    BY <1>1, <1>3, <1>4 DEF Flights, LiveRecord, Possibly
  <2>2. req'[y] = req[y]
    BY <1>2, <2>1 DEF Flies
  <2>3. Caches(c)!Current(y) => Caches(c)!Current(y)'
    <3>1. req[y].key = k2
      BY <2>1 DEF Flies
    <3> QED
      BY <1>3, <2>2, <3>1 DEF Caches!Current, Begins
  <2> QED
    BY <2>1, <2>2, <2>3 DEF Flies, One
<1> QED
  BY <1>4 DEF Flights

LEMMA BeginKeeps ==
  ASSUME NEW CONSTANT c, Caches(c)!CacheAssumption, CacheInv(c), NEW x \in Caches(c)!Caller, ~Begun(req[x]),
         NEW i \in c.installations, NEW k1 \in c.keys, NEW f \in c.configs, installation[i] = "on",
         Caches(c)!Begin(x, i, k1, f), UNCHANGED <<op, keyOp, tagOp, store, installation>>
  PROVE  CacheInv(c)'
<1> DEFINE g == IF live[k1].gen = None THEN x ELSE live[k1].gen
           w == ({keyOp[k1]} \cup {tagOp[t1] : t1 \in f.tags}) \ {None}
           force == f.forced \/ x \in c.refreshes
           since == {o \in c.operations : Caches(c)!Concerns(o, k1, f.tags)}
           e == Caches(c)!Epoch
           r == [req[x] EXCEPT !.inst = i, !.key = k1, !.conf = f, !.born = e, !.forced = force, !.after = since]
           step == IF w = {} THEN "reads" ELSE "waits"
           alone == [r EXCEPT !.pc = "fetches"]
           q == [r EXCEPT !.pc = step, !.waits = w, !.token = g]
<1>1. \/ ~f.cached /\ Caches(c)!Becomes(x, alone) /\ UNCHANGED <<token, live, calls>>
      \/ /\ f.cached /\ Caches(c)!Becomes(x, q)
         /\ token' = [token EXCEPT ![g].tags = @ \cup f.tags, ![g].active = @ + 1]
         /\ live' = [live EXCEPT ![k1].gen = g]
         /\ calls' = IF w = {} THEN Append(calls, Caches(c)!Call("get", x, k1, None)) ELSE calls
  BY Zenon DEF Caches!Begin
<1>2. Typed(c) /\ Requests(c)
  BY DEF CacheInv
<1>3. /\ req[x] \in RequestRecord(c) /\ calls \in Seq(CallRecord(c))
      /\ {"fetches", "reads", "waits"} \subseteq Caches(c)!PC
  BY TypedFacts
<1>4. g \in Caches(c)!Caller
  BY <1>2 DEF Typed, LiveRecord, Possibly
<1>5. /\ f.tags \subseteq c.tags /\ f.forced \in BOOLEAN /\ f.cached \in BOOLEAN
  BY DEF Caches!CacheAssumption
<1>6. w \in SUBSET c.operations
  BY <1>2, <1>5 DEF Typed, Possibly
<1>7. force \in BOOLEAN /\ since \in SUBSET c.operations /\ e \in Caches(c)!Stamp
  BY <1>5, StampFacts
<1>8. step \in {"reads", "waits"} /\ (w = {} => step = "reads")
  OBVIOUS
<1> HIDE DEF force, since, e, step
<1>9. r \in RequestRecord(c)
  BY ZenonT(40), <1>3, <1>7 DEF RequestRecord, Possibly
<1>10. alone \in RequestRecord(c)
  BY <1>3, <1>9 DEF RequestRecord
<1>11. q \in RequestRecord(c)
  <2>1. g \in Possibly(Caches(c)!Caller) /\ step \in Caches(c)!PC
    BY <1>3, <1>4, <1>8 DEF Possibly
  <2> HIDE DEF g, w, r
  <2> QED
    BY <1>6, <1>9, <2>1 DEF RequestRecord
<1>12. req[x].token = None /\ ~req[x].leads /\ req[x].outcome = "pending" /\ req[x].lease = "none"
       /\ req[x].pc \in {"new", "spawned"}
  BY <1>2 DEF Requests, Begun
<1>13. CASE ~f.cached /\ Caches(c)!Becomes(x, alone) /\ UNCHANGED <<token, live, calls>>
  <2>1. Moves(c, x, req[x], alone)
    BY <1>3, <1>10, <1>12 DEF Moves, RequestRecord, Bound, Begun
  <2> HIDE DEF alone
  <2>2. Stepped(c)
    BY <1>3, <1>13, <2>1, OneStepped
  <2> QED
    BY <1>13, <2>2, SteppedKeeps
<1>14. CASE /\ f.cached /\ Caches(c)!Becomes(x, q)
            /\ token' = [token EXCEPT ![g].tags = @ \cup f.tags, ![g].active = @ + 1]
            /\ live' = [live EXCEPT ![k1].gen = g]
            /\ calls' = IF w = {} THEN Append(calls, Caches(c)!Call("get", x, k1, None)) ELSE calls
  <2>1. calls' \in Seq(CallRecord(c))
    <3>1. "get" \in {"get"} \cup Operations /\ x \in Caches(c)!Caller \cup c.operations
          /\ k1 \in Possibly(c.keys) /\ None \in Possibly(Caches(c)!Entry)
      BY DEF Possibly
    <3>2. Append(calls, Caches(c)!Call("get", x, k1, None)) \in Seq(CallRecord(c))
      BY <1>3, <3>1, CallsAppended
    <3> QED
      BY <1>3, <1>14, <3>2
  <2>2. /\ q.inst = i /\ q.key = k1 /\ q.conf = f /\ q.token = g /\ q.pc = step
        /\ q.outcome = req[x].outcome /\ q.leads = req[x].leads /\ q.lease = req[x].lease
    BY <1>3 DEF RequestRecord
  <2>3. req' = [req EXCEPT ![x] = q]
    BY <1>14 DEF Caches!Becomes
  <2>4. /\ token \in [Caches(c)!Caller -> [tags : SUBSET c.tags, active : Int]]
        /\ live \in [c.keys -> LiveRecord(c)] /\ req \in [Caches(c)!Caller -> RequestRecord(c)]
    BY <1>2 DEF Typed
  <2> HIDE DEF g, q, w
  <2>5. token' \in [Caches(c)!Caller -> [tags : SUBSET c.tags, active : Int]]
        /\ \A y \in Caches(c)!Caller : token'[y].active = token[y].active + (IF y = g THEN 1 ELSE 0)
    BY <1>4, <1>5, <1>14, <2>4
  <2>6. live' \in [c.keys -> LiveRecord(c)]
    BY SMTT(40), <1>4, <1>14, <2>4 DEF LiveRecord, Possibly
  <2>7. req' \in [Caches(c)!Caller -> RequestRecord(c)]
    BY <1>11, <2>3, <2>4
  <2>8. Typed(c)'
    BY <1>2, <2>1, <2>5, <2>6, <2>7 DEF Typed
  <2>9. Begins(c, x, k1, g, q)
    <3>1. Bound(c, q) /\ q.pc \in {"reads", "waits"} /\ installation[q.inst] = "on"
      BY <1>5, <1>8, <1>14, <2>2 DEF Bound
    <3> QED
      BY <1>11, <1>14, <2>2, <2>3, <2>5, <3>1 DEF Begins, g
  <2> QED
    BY <1>4, <2>8, <2>9, BeginsRequests, BeginsTokens, BeginsFlights DEF CacheInv
<1> QED
  BY <1>1, <1>13, <1>14

LEMMA StartKeeps ==
  ASSUME NEW CONSTANT c, Caches(c)!CacheAssumption, CacheInv(c), NEW x \in Caches(c)!Caller, Caches(c)!Start(x)
  PROVE  CacheInv(c)'
BY BeginKeeps DEF Caches!Start, Begun

LEMMA StartRefreshKeeps ==
  ASSUME NEW CONSTANT c, Caches(c)!CacheAssumption, CacheInv(c), NEW x \in Caches(c)!Caller, Caches(c)!StartRefresh(x)
  PROVE  CacheInv(c)'
<1>1. req[x].pc = "spawned" /\ UNCHANGED <<op, keyOp, tagOp, store, installation>> /\ ~Begun(req[x])
  BY DEF Caches!StartRefresh, Begun
<1>2. Bound(c, req[x]) /\ req[x] \in RequestRecord(c) /\ calls \in Seq(CallRecord(c)) /\ "fetches" \in Caches(c)!PC
  BY <1>1, TypedFacts
<1>3. CASE Caches(c)!Active(x)
  BY <1>1, <1>2, <1>3, BeginKeeps DEF Caches!StartRefresh, Caches!Active, Bound
<1>4. CASE ~Caches(c)!Active(x)
  <2> DEFINE q == [req[x] EXCEPT !.pc = "fetches"]
  <2>1. Caches(c)!Becomes(x, q) /\ UNCHANGED <<token, live, calls>>
    BY <1>4 DEF Caches!StartRefresh
  <2>2. q \in RequestRecord(c)
    BY <1>2 DEF RequestRecord
  <2>3. req[x].token = None /\ ~req[x].leads /\ req[x].lease = "none"
    BY <1>1 DEF CacheInv, Requests
  <2>4. Moves(c, x, req[x], q)
    BY <1>1, <1>2, <2>2, <2>3 DEF Moves, RequestRecord, Bound, Begun
  <2> HIDE DEF q
  <2>5. Stepped(c)
    BY <1>2, <2>1, <2>4, OneStepped
  <2> QED
    BY <1>1, <2>1, <2>5, SteppedKeeps
<1> QED
  BY <1>3, <1>4

----------------------------------------------------------------------------
\* Operations

LEMMA IssueTyped ==
  ASSUME NEW CONSTANT c, Caches(c)!CacheAssumption, CacheInv(c), NEW o \in c.operations, op[o].pc = "new",
         NEW kind \in Operations, NEW k1 \in Possibly(c.keys), kind = "update" => k1 \in c.keys,
         NEW tags \in SUBSET c.tags, NEW w \in SUBSET c.operations, Caches(c)!Issue(o, kind, k1, tags, w)
  PROVE  op' \in [c.operations -> OpRecord(c)] /\ calls' \in Seq(CallRecord(c))
<1> DEFINE e == Caches(c)!Epoch + 1
           p == [pc |-> IF w = {} THEN "runs" ELSE "waits", kind |-> kind, key |-> k1, tags |-> tags, at |-> e, waits |-> w]
           first == Caches(c)!FirstCall(kind)
<1>1. /\ op' = [op EXCEPT ![o] = p]
      /\ calls' = IF w = {} THEN Append(calls, Caches(c)!Call(first, o, k1, None)) ELSE calls
  BY Zenon DEF Caches!Issue
<1>2. e \in Caches(c)!Stamp
  BY StampFacts
<1> HIDE DEF e
<1>3. p \in OpRecord(c)
  BY <1>2 DEF OpRecord, Possibly
<1>4. op \in [c.operations -> OpRecord(c)] /\ calls \in Seq(CallRecord(c))
  BY DEF CacheInv, Typed
<1> HIDE DEF p
<1>5. first \in {"get"} \cup Operations /\ (first = "get" => k1 \in c.keys)
  BY DEF Caches!FirstCall, Operations
<1>6. o \in Caches(c)!Caller \cup c.operations /\ None \in Possibly(Caches(c)!Entry)
  BY DEF Possibly
<1> HIDE DEF first
<1>7. Append(calls, Caches(c)!Call(first, o, k1, None)) \in Seq(CallRecord(c))
  BY <1>4, <1>5, <1>6, CallsAppended
<1> QED
  BY <1>1, <1>3, <1>4, <1>7

LEMMA BlankMaps ==
  ASSUME NEW CONSTANT c, CacheInv(c), NEW K, live' = [k1 \in c.keys |-> IF k1 \in K THEN Caches(c)!Blank ELSE live[k1]]
  PROVE  MapsKeep(c) /\ live' \in [c.keys -> LiveRecord(c)]
<1>1. live \in [c.keys -> LiveRecord(c)]
  BY DEF CacheInv, Typed
<1>2. \A k1 \in c.keys : live'[k1] \in {Caches(c)!Blank, live[k1]}
  OBVIOUS
<1>3. Caches(c)!Blank \in LiveRecord(c)
  BY DEF LiveRecord, Caches!Blank, Possibly
<1>4. MapsKeep(c)
  BY <1>2 DEF MapsKeep, Caches!Blank
<1> QED
  BY <1>1, <1>3, <1>4

LEMMA InvalidateStepped ==
  ASSUME NEW CONSTANT c, CacheInv(c), NEW K, Caches(c)!Invalidate(K)
  PROVE  /\ AllMove(c) /\ MapsKeep(c) /\ live' \in [c.keys -> LiveRecord(c)]
         /\ req' = [x \in Caches(c)!Caller |-> req'[x]]
<1> DEFINE refreshes == {live[k1].refresh : k1 \in K}
<1>1. /\ live' = [k1 \in c.keys |-> IF k1 \in K THEN Caches(c)!Blank ELSE live[k1]]
      /\ req' = [x \in Caches(c)!Caller |-> IF x \in refreshes THEN Caches(c)!Stopped(req[x]) ELSE req[x]]
  BY Zenon DEF Caches!Invalidate
<1> HIDE DEF refreshes
<1>2. \A x \in Caches(c)!Caller : req'[x] \in {Caches(c)!Stopped(req[x]), req[x]}
  BY <1>1
<1>3. AllMove(c)
  BY <1>2, StoppedMoves, MovesRefl DEF AllMove
<1> QED
  BY <1>1, <1>3, BlankMaps

LEMMA KeyOperationKeeps ==
  ASSUME NEW CONSTANT c, Caches(c)!CacheAssumption, CacheInv(c), NEW o \in c.operations, Caches(c)!KeyOperation(o)
  PROVE  CacheInv(c)'
<1>1. PICK kind \in c.kinds \cap {"delete", "set", "update"}, k1 \in c.keys :
         \E tags \in IF kind = "set" THEN {f.tags : f \in {g \in c.configs : g.cached}} ELSE {{}} :
         /\ Caches(c)!Issue(o, kind, k1, tags, Caches(c)!WaitsFor(kind, k1, tags))
         /\ Caches(c)!Invalidate({k1})
         /\ keyOp' = [keyOp EXCEPT ![k1] = o]
  BY Zenon DEF Caches!KeyOperation
<1>2. PICK tags \in IF kind = "set" THEN {f.tags : f \in {g \in c.configs : g.cached}} ELSE {{}} :
         /\ Caches(c)!Issue(o, kind, k1, tags, Caches(c)!WaitsFor(kind, k1, tags))
         /\ Caches(c)!Invalidate({k1})
         /\ keyOp' = [keyOp EXCEPT ![k1] = o]
  BY <1>1, Zenon
<1>3. op[o].pc = "new" /\ UNCHANGED <<token, tagOp, store, installation>>
  BY DEF Caches!KeyOperation
<1>4. tags \in SUBSET c.tags
  BY <1>2 DEF Caches!CacheAssumption
<1>5. Typed(c)
  BY DEF CacheInv
<1>6. Caches(c)!WaitsFor(kind, k1, tags) \in SUBSET c.operations
  BY <1>4, <1>5 DEF Caches!WaitsFor, Typed, Possibly
<1>7. op' \in [c.operations -> OpRecord(c)] /\ calls' \in Seq(CallRecord(c))
  <2>1. kind \in Operations /\ k1 \in Possibly(c.keys)
    BY DEF Operations, Possibly
  <2> QED
    BY <1>2, <1>3, <1>4, <1>6, <2>1, IssueTyped
<1>8. /\ keyOp' \in [c.keys -> Possibly(c.operations)] /\ tagOp' \in [c.tags -> Possibly(c.operations)]
      /\ store' \in [c.keys -> Possibly(Caches(c)!Entry)]
  BY <1>2, <1>3, <1>5 DEF Typed, Possibly
<1> QED
  BY <1>2, <1>3, <1>7, <1>8, InvalidateStepped, MovesKeep

LEMMA InvalidateTagsTyped ==
  ASSUME NEW CONSTANT c, Caches(c)!CacheAssumption, CacheInv(c), NEW o \in c.operations, op[o].pc = "new",
         NEW tags \in SUBSET c.tags, Caches(c)!InvalidateTags(o, tags)
  PROVE  /\ op' \in [c.operations -> OpRecord(c)] /\ calls' \in Seq(CallRecord(c))
         /\ tagOp' \in [c.tags -> Possibly(c.operations)]
<1> DEFINE w == ({keyOp[k1] : k1 \in c.keys} \cup {tagOp[t1] : t1 \in tags}) \ {None}
<1>1. Caches(c)!Issue(o, "tags", None, tags, w) /\ tagOp' = [t1 \in c.tags |-> IF t1 \in tags THEN o ELSE tagOp[t1]]
  BY Zenon DEF Caches!InvalidateTags
<1>2. Typed(c)
  BY DEF CacheInv
<1>3. w \in SUBSET c.operations
  BY <1>2 DEF Typed, Possibly
<1> HIDE DEF w
<1>4. "tags" \in Operations /\ None \in Possibly(c.keys)
  BY DEF Operations, Possibly
<1>5. op' \in [c.operations -> OpRecord(c)] /\ calls' \in Seq(CallRecord(c))
  BY <1>1, <1>3, <1>4, IssueTyped
<1> QED
  BY <1>1, <1>2, <1>5 DEF Typed, Possibly

LEMMA TagOperationKeeps ==
  ASSUME NEW CONSTANT c, Caches(c)!CacheAssumption, CacheInv(c), NEW o \in c.operations,
         Caches(c)!TagOperation(o) \/ Caches(c)!Clear(o)
  PROVE  CacheInv(c)'
<1>1. Typed(c)
  BY DEF CacheInv
<1>2. CASE Caches(c)!TagOperation(o)
  <2>1. PICK tags \in SUBSET c.tags : Caches(c)!InvalidateTags(o, tags) /\ Caches(c)!Invalidate(Caches(c)!Tagged(tags))
    BY <1>2, Zenon DEF Caches!TagOperation
  <2>2. op[o].pc = "new" /\ UNCHANGED <<token, keyOp, store, installation>>
    BY <1>2 DEF Caches!TagOperation
  <2>3. keyOp' \in [c.keys -> Possibly(c.operations)] /\ store' \in [c.keys -> Possibly(Caches(c)!Entry)]
    BY <1>1, <2>2 DEF Typed
  <2> QED
    BY <2>1, <2>2, <2>3, InvalidateTagsTyped, InvalidateStepped, MovesKeep
<1>3. CASE Caches(c)!Clear(o)
  <2>1. /\ op[o].pc = "new" /\ UNCHANGED <<token, keyOp, tagOp, store, installation>>
        /\ Caches(c)!Issue(o, "clear", None, {}, {}) /\ Caches(c)!Invalidate(c.keys)
    BY <1>3 DEF Caches!Clear
  <2>2. /\ "clear" \in Operations /\ None \in Possibly(c.keys) /\ {} \in SUBSET c.tags /\ {} \in SUBSET c.operations
        /\ "clear" # "update"
    BY DEF Operations, Possibly
  <2>3. op' \in [c.operations -> OpRecord(c)] /\ calls' \in Seq(CallRecord(c))
    BY <2>1, <2>2, IssueTyped
  <2>4. /\ keyOp' \in [c.keys -> Possibly(c.operations)] /\ tagOp' \in [c.tags -> Possibly(c.operations)]
        /\ store' \in [c.keys -> Possibly(Caches(c)!Entry)]
    BY <1>1, <2>1 DEF Typed
  <2> QED
    BY <2>1, <2>3, <2>4, InvalidateStepped, MovesKeep
<1> QED
  BY <1>2, <1>3

(* What leaves the requests and the maps alone keeps the invariant.         *)
LEMMA OthersKeep ==
  ASSUME NEW CONSTANT c, Caches(c)!CacheAssumption, CacheInv(c), UNCHANGED <<req, live, token, installation>>,
         op' \in [c.operations -> OpRecord(c)],
         keyOp' \in [c.keys -> Possibly(c.operations)], tagOp' \in [c.tags -> Possibly(c.operations)],
         store' \in [c.keys -> Possibly(Caches(c)!Entry)], calls' \in Seq(CallRecord(c))
  PROVE  CacheInv(c)'
<1>1. AllMove(c)
  BY MovesRefl DEF AllMove
<1>2. /\ req' = [x \in Caches(c)!Caller |-> req'[x]] /\ live' \in [c.keys -> LiveRecord(c)]
  BY DEF CacheInv, Typed
<1> QED
  BY <1>1, <1>2, SameMaps, MovesKeep

LEMMA RunOperationKeeps ==
  ASSUME NEW CONSTANT c, Caches(c)!CacheAssumption, CacheInv(c), NEW o \in c.operations, Caches(c)!RunOperation(o)
  PROVE  CacheInv(c)'
<1> DEFINE first == Caches(c)!FirstCall(op[o].kind)
<1>1. /\ op[o].pc = "waits" /\ op' = [op EXCEPT ![o].pc = "runs"]
      /\ calls' = Append(calls, Caches(c)!Call(first, o, op[o].key, None))
      /\ UNCHANGED <<req, token, live, keyOp, tagOp, store, installation>>
  BY DEF Caches!RunOperation
<1>2. Typed(c)
  BY DEF CacheInv
<1>3. op[o] \in OpRecord(c) /\ op \in [c.operations -> OpRecord(c)] /\ calls \in Seq(CallRecord(c))
  BY <1>2 DEF Typed
<1>4. [op[o] EXCEPT !.pc = "runs"] \in OpRecord(c)
  BY <1>1, <1>3 DEF OpRecord
<1>5. op' \in [c.operations -> OpRecord(c)]
  BY <1>1, <1>3, <1>4
<1>6. first \in {"get"} \cup Operations /\ (first = "get" => op[o].key \in c.keys) /\ op[o].key \in Possibly(c.keys)
  BY <1>1, <1>3 DEF Caches!FirstCall, Operations, OpRecord
<1>7. o \in Caches(c)!Caller \cup c.operations /\ None \in Possibly(Caches(c)!Entry)
  BY DEF Possibly
<1> HIDE DEF first
<1>8. calls' \in Seq(CallRecord(c))
  BY <1>1, <1>3, <1>6, <1>7, CallsAppended
<1> QED
  BY <1>1, <1>2, <1>5, <1>8, OthersKeep DEF Typed

----------------------------------------------------------------------------
\* The store

LEMMA OldestTyped ==
  ASSUME NEW CONSTANT c, CacheInv(c), calls # <<>>
  PROVE  Caches(c)!Oldest \in CallRecord(c) /\ Caches(c)!Rest \in Seq(CallRecord(c))
<1>1. calls \in Seq(CallRecord(c)) /\ calls # <<>>
  BY DEF CacheInv, Typed
<1>2. Head(calls) \in CallRecord(c) /\ Tail(calls) \in Seq(CallRecord(c))
  BY <1>1
<1> QED
  BY <1>2 DEF Caches!Oldest, Caches!Rest

LEMMA ReadAppliedKeeps ==
  ASSUME NEW CONSTANT c, Caches(c)!CacheAssumption, CacheInv(c), Caches(c)!ReadApplied
  PROVE  CacheInv(c)'
<1> DEFINE x == Caches(c)!Oldest.by
           left == Caches(c)!Rest
<1>1. /\ calls # <<>> /\ x \in Caches(c)!Caller /\ UNCHANGED <<token, op, keyOp, tagOp, store, installation>>
      /\ IF req[x].pc = "reads"
         THEN \E rec \in {store[req[x].key]} \cup (IF c.failures THEN {None} ELSE {}) :
                 Caches(c)!HandleRecord(x, req[x], rec, left)
         ELSE calls' = left /\ UNCHANGED <<req, live>>
  BY Zenon DEF Caches!ReadApplied
<1>2. left \in Seq(CallRecord(c))
  BY <1>1, OldestTyped
<1> HIDE DEF x, left
<1>3. Typed(c)
  BY DEF CacheInv
<1>4. CASE req[x].pc = "reads"
  <2>1. Bound(c, req[x]) /\ req[x] \in RequestRecord(c)
    BY <1>1, <1>4, TypedFacts
  <2>2. PICK rec \in {store[req[x].key]} \cup (IF c.failures THEN {None} ELSE {}) :
           Caches(c)!HandleRecord(x, req[x], rec, left)
    BY <1>1, <1>4
  <2>3. rec \in Possibly(Caches(c)!Entry)
    BY <1>3, <2>1 DEF Typed, Possibly, Bound
  <2>4. Held(c, x, req[x])
    BY <1>4, <2>1 DEF Held
  <2>5. Stepped(c)
    BY <1>1, <1>2, <2>2, <2>3, <2>4, HandleStepped
  <2> QED
    BY <1>1, <2>5, SteppedKeeps
<1>5. CASE req[x].pc # "reads"
  BY <1>1, <1>2, <1>3, <1>5, OthersKeep DEF Typed
<1> QED
  BY <1>4, <1>5

LEMMA WriteAppliedKeeps ==
  ASSUME NEW CONSTANT c, Caches(c)!CacheAssumption, CacheInv(c), Caches(c)!WriteApplied
  PROVE  CacheInv(c)'
<1> DEFINE x == Caches(c)!Oldest.by
           left == Caches(c)!Rest
           q == IF req[x].pc = "writes" THEN [req[x] EXCEPT !.pc = "ends"] ELSE req[x]
<1>1. /\ calls # <<>> /\ x \in Caches(c)!Caller /\ UNCHANGED <<token, op, keyOp, tagOp, installation>>
      /\ store' = [store EXCEPT ![Caches(c)!Oldest.key] = Caches(c)!Oldest.entry] \/ store' = store
      /\ IF req[x].pc = "drops" THEN Caches(c)!Miss(x, req[x], None, left)
         ELSE Caches(c)!Becomes(x, q) /\ calls' = left /\ UNCHANGED live
  BY Zenon DEF Caches!WriteApplied
<1>2. left \in Seq(CallRecord(c)) /\ Caches(c)!Oldest \in CallRecord(c)
  BY <1>1, OldestTyped
<1>3. Typed(c)
  BY DEF CacheInv
<1>4. /\ op' \in [c.operations -> OpRecord(c)]
      /\ keyOp' \in [c.keys -> Possibly(c.operations)] /\ tagOp' \in [c.tags -> Possibly(c.operations)]
  BY <1>1, <1>3 DEF Typed
<1>5. store' \in [c.keys -> Possibly(Caches(c)!Entry)]
  BY <1>1, <1>2, <1>3 DEF Typed, CallRecord
<1>6. req[x] \in RequestRecord(c) /\ "ends" \in Caches(c)!PC
  BY <1>1, TypedFacts
<1>7. Stepped(c)
  <2>1. CASE req[x].pc = "drops"
    <3>1. Held(c, x, req[x]) /\ None \in Possibly(Caches(c)!Entry)
      BY <1>6, <2>1 DEF Held, Possibly
    <3> HIDE DEF x, left
    <3> QED
      BY <1>1, <1>2, <2>1, <3>1, MissStepped
  <2>2. CASE req[x].pc # "drops"
    <3>1. Moves(c, x, req[x], q)
      <4>1. CASE req[x].pc = "writes"
        <5>1. [req[x] EXCEPT !.pc = "ends"] \in RequestRecord(c)
          BY <1>6 DEF RequestRecord
        <5>2. Stays(c, x, [req[x] EXCEPT !.pc = "ends"])
          BY <1>6, <4>1, <5>1 DEF Stays, RequestRecord, Begun
        <5> QED
          BY <1>1, <4>1, <5>2, StaysMoves
      <4>2. CASE req[x].pc # "writes"
        BY <1>1, <4>2, MovesRefl
      <4> QED
        BY <4>1, <4>2
    <3> HIDE DEF x, left, q
    <3> QED
      BY <1>1, <1>2, <2>2, <3>1, OneStepped
  <2> QED
    BY <2>1, <2>2
<1> QED
  BY <1>1, <1>4, <1>5, <1>7, MovesKeep DEF Stepped

LEMMA FinishedTyped ==
  ASSUME NEW CONSTANT c, CacheInv(c), NEW o \in c.operations, NEW result \in {"done", "failed"},
         Caches(c)!Finished(o, result)
  PROVE  /\ op' \in [c.operations -> OpRecord(c)]
         /\ keyOp' \in [c.keys -> Possibly(c.operations)] /\ tagOp' \in [c.tags -> Possibly(c.operations)]
<1>1. Typed(c)
  BY DEF CacheInv
<1>2. op[o] \in OpRecord(c) /\ op \in [c.operations -> OpRecord(c)]
  BY <1>1 DEF Typed
<1>3. [op[o] EXCEPT !.pc = result] \in OpRecord(c)
  BY <1>2 DEF OpRecord
<1>4. op' \in [c.operations -> OpRecord(c)]
  BY <1>2, <1>3 DEF Caches!Finished
<1> QED
  BY <1>1, <1>4 DEF Caches!Finished, Typed, Possibly

LEMMA UpdateReadKeeps ==
  ASSUME NEW CONSTANT c, Caches(c)!CacheAssumption, CacheInv(c), Caches(c)!UpdateRead
  PROVE  CacheInv(c)'
<1> DEFINE o == Caches(c)!Oldest.by
           k1 == Caches(c)!Oldest.key
           e == store[k1]
           new == [e EXCEPT !.born = op[o].at, !.raw = FALSE]
           left == Caches(c)!Rest
<1>1. /\ calls # <<>> /\ Caches(c)!Oldest.call = "get" /\ o \in c.operations
      /\ UNCHANGED <<req, token, live, store, installation>>
      /\ \/ (Caches(c)!Finished(o, "done") \/ Caches(c)!Finished(o, "failed")) /\ calls' = left
         \/ /\ e # None /\ UNCHANGED <<op, keyOp, tagOp>>
            /\ \/ calls' = Append(left, Caches(c)!Call("set", o, k1, new))
               \/ calls' = Append(left, Caches(c)!Call("delete", o, k1, None))
  BY Zenon DEF Caches!UpdateRead
<1>2. left \in Seq(CallRecord(c)) /\ k1 \in c.keys
  BY <1>1, OldestTyped DEF CallRecord
<1>3. Typed(c)
  BY DEF CacheInv
<1>4. CASE (Caches(c)!Finished(o, "done") \/ Caches(c)!Finished(o, "failed")) /\ calls' = left
  <2>1. store' \in [c.keys -> Possibly(Caches(c)!Entry)]
    BY <1>1, <1>3 DEF Typed
  <2> HIDE DEF o, left
  <2> QED
    BY <1>1, <1>2, <1>4, <2>1, FinishedTyped, OthersKeep
<1>5. CASE /\ e # None /\ UNCHANGED <<op, keyOp, tagOp>>
           /\ \/ calls' = Append(left, Caches(c)!Call("set", o, k1, new))
              \/ calls' = Append(left, Caches(c)!Call("delete", o, k1, None))
  <2>1. e \in Caches(c)!Entry
    BY <1>2, <1>3, <1>5 DEF Typed, Possibly
  <2>2. op[o].at \in Caches(c)!Stamp
    BY <1>1, <1>3 DEF Typed, OpRecord
  <2>3. new \in Possibly(Caches(c)!Entry) /\ None \in Possibly(Caches(c)!Entry) /\ k1 \in Possibly(c.keys)
    <3>1. new \in Caches(c)!Entry
      <4> HIDE DEF e, o
      <4> QED
        BY <2>1, <2>2 DEF Caches!Entry
    <3> HIDE DEF new
    <3> QED
      BY <1>2, <3>1 DEF Possibly
  <2>4. {"set", "delete"} \subseteq {"get"} \cup Operations /\ o \in Caches(c)!Caller \cup c.operations
    BY <1>1 DEF Operations
  <2> HIDE DEF o, k1, new, left
  <2>5. calls' \in Seq(CallRecord(c))
    BY <1>2, <1>5, <2>3, <2>4, CallsAppended
  <2> QED
    BY <1>1, <1>3, <1>5, <2>5, OthersKeep DEF Typed
<1> QED
  BY <1>1, <1>4, <1>5

LEMMA OperationAppliedKeeps ==
  ASSUME NEW CONSTANT c, Caches(c)!CacheAssumption, CacheInv(c), Caches(c)!OperationApplied
  PROVE  CacheInv(c)'
<1> DEFINE o == Caches(c)!Oldest.by
           entry == IF op[o].kind = "set" THEN Caches(c)!Given(o) ELSE Caches(c)!Oldest.entry
<1>1. /\ calls # <<>> /\ o \in c.operations /\ UNCHANGED <<req, token, live, installation>>
      /\ calls' = Caches(c)!Rest
      /\ \/ Caches(c)!Finished(o, "done")
         \/ Caches(c)!Finished(o, "failed")
      /\ store' \in {store, Caches(c)!Purged(o), [store EXCEPT ![Caches(c)!Oldest.key] = entry]}
  BY Zenon DEF Caches!OperationApplied
<1>2. Caches(c)!Rest \in Seq(CallRecord(c)) /\ Caches(c)!Oldest \in CallRecord(c)
  BY <1>1, OldestTyped
<1>3. Typed(c)
  BY DEF CacheInv
<1>4. entry \in Possibly(Caches(c)!Entry)
  <2>1. op[o] \in OpRecord(c)
    BY <1>1, <1>3 DEF Typed
  <2>2. Caches(c)!Given(o) \in Caches(c)!Entry
    <3>1. op[o].at \in Caches(c)!Stamp /\ op[o].tags \in SUBSET c.tags
      BY <2>1 DEF OpRecord
    <3> HIDE DEF o
    <3> QED
      BY <3>1 DEF Caches!Given, Caches!Entry, Caches!Age
  <2>3. Caches(c)!Oldest.entry \in Possibly(Caches(c)!Entry)
    BY <1>2 DEF CallRecord
  <2> QED
    BY <2>2, <2>3 DEF Possibly
<1> HIDE DEF o, entry
<1>5. store' \in [c.keys -> Possibly(Caches(c)!Entry)]
  <2>1. store \in [c.keys -> Possibly(Caches(c)!Entry)]
    BY <1>3 DEF Typed
  <2>2. Caches(c)!Purged(o) \in [c.keys -> Possibly(Caches(c)!Entry)]
    BY <2>1 DEF Caches!Purged, Possibly
  <2> QED
    BY <1>1, <1>4, <2>1, <2>2
<1> QED
  BY <1>1, <1>2, <1>5, FinishedTyped, OthersKeep

LEMMA ExpireKeeps ==
  ASSUME NEW CONSTANT c, Caches(c)!CacheAssumption, CacheInv(c), NEW k1 \in c.keys, Caches(c)!Expire(k1)
  PROVE  CacheInv(c)'
<1> DEFINE age == IF store[k1].age = "fresh" THEN "stale" ELSE "old"
           e == [store[k1] EXCEPT !.age = age]
<1>1. store[k1] # None /\ store' = [store EXCEPT ![k1] = e] /\ UNCHANGED <<req, token, live, op, keyOp, tagOp, calls, installation>>
  BY DEF Caches!Expire
<1>2. Typed(c)
  BY DEF CacheInv
<1>3. store[k1] \in Caches(c)!Entry /\ store \in [c.keys -> Possibly(Caches(c)!Entry)]
  BY <1>1, <1>2 DEF Typed, Possibly
<1>4. age \in Caches(c)!Age
  BY DEF Caches!Age
<1> HIDE DEF age
<1>5. e \in Caches(c)!Entry
  BY <1>3, <1>4 DEF Caches!Entry
<1> HIDE DEF e
<1>6. store' \in [c.keys -> Possibly(Caches(c)!Entry)]
  BY <1>1, <1>3, <1>5 DEF Possibly
<1> QED
  BY <1>1, <1>2, <1>6, OthersKeep DEF Typed

----------------------------------------------------------------------------
\* The settled hook and the removal of an installation

(* The record of a request that is over; who follows it sees the outcome.   *)
LEMMA ForgottenFacts ==
  ASSUME NEW CONSTANT c, Caches(c)!CacheAssumption, CacheInv(c), NEW x \in Caches(c)!Caller,
         NEW out \in {"pending", "record", "nothing", "rejected"}
  PROVE  LET q == Caches(c)!Forgotten(x, out) IN
         /\ q \in RequestRecord(c) /\ q.pc = "done" /\ q.token = None /\ q.leads = FALSE /\ q.outcome = out
         /\ q.inst = req[x].inst /\ q.key = req[x].key /\ q.lease # "held"
<1> DEFINE kept == IF out = "record" THEN req[x].completed ELSE None
           l == IF req[x].lease = "held" THEN "returned" ELSE req[x].lease
           n == Caches(c)!NoRequest
           q == [n EXCEPT !.pc = "done", !.inst = req[x].inst, !.key = req[x].key, !.outcome = out,
                          !.completed = kept, !.lease = l]
<1>1. req[x] \in RequestRecord(c)
  BY TypedFacts
<1>2. kept \in Possibly(Caches(c)!Entry) /\ l \in {"none", "asked", "void", "returned"}
      /\ req[x].inst \in Possibly(c.installations) /\ req[x].key \in Possibly(c.keys)
  BY <1>1 DEF RequestRecord, Possibly
<1>3. n \in RequestRecord(c) /\ n.token = None /\ n.leads = FALSE
  <2>1. 0 \in Caches(c)!Stamp /\ "new" \in Caches(c)!PC
    BY StampFacts, TypedFacts
  <2> QED
    BY <2>1 DEF Caches!NoRequest, RequestRecord, Possibly
<1>4. Caches(c)!Forgotten(x, out) = q
  BY DEF Caches!Forgotten
<1> HIDE DEF kept, l, n
<1>5. "done" \in Caches(c)!PC
  BY TypedFacts
<1>6. q \in RequestRecord(c)
  BY <1>2, <1>3, <1>5 DEF RequestRecord
<1>7. q.pc = "done" /\ q.token = None /\ q.leads = FALSE /\ q.outcome = out
      /\ q.inst = req[x].inst /\ q.key = req[x].key /\ q.lease # "held"
  BY <1>2, <1>3 DEF RequestRecord
<1> QED
  BY <1>4, <1>6, <1>7

(* The last user of a token on the map takes it off, another counts down; a  *)
(* mutation that is over takes more off the maps and stops refreshes.       *)
Ends(c, x, q) ==
    /\ req[x].pc = "ends"
    /\ q \in RequestRecord(c) /\ q.pc = "done" /\ q.token = None /\ q.leads = FALSE /\ q.lease # "held"
    /\ req[x].leads \/ req[x].outcome # "pending" => q.outcome # "pending"
    /\ req'[x] = q /\ \A y \in Caches(c)!Caller \ {x} : req'[y] \in {Caches(c)!Stopped(req[y]), req[y]}
    /\ Caches(c)!CountsDown(x)
    /\ \A k1 \in c.keys :
          \/ /\ live'[k1].gen = IF k1 = req[x].key /\ Caches(c)!Active(x) /\ Caches(c)!LastUser(x) THEN None ELSE live[k1].gen
             /\ live'[k1].flight = Caches(c)!Left(x, live[k1].flight)
             /\ live'[k1].rawFlight = Caches(c)!Left(x, live[k1].rawFlight)
          \/ live'[k1].gen = None /\ live'[k1].flight = None /\ live'[k1].rawFlight = None
    /\ installation' = installation

LEMMA EndsOthers ==
  ASSUME NEW CONSTANT c, CacheInv(c), NEW x \in Caches(c)!Caller, NEW q, Ends(c, x, q),
         NEW y \in Caches(c)!Caller, y # x
  PROVE  Moves(c, y, req[y], req'[y])
BY StoppedMoves, MovesRefl DEF Ends

LEMMA EndsRequests ==
  ASSUME NEW CONSTANT c, CacheInv(c), NEW x \in Caches(c)!Caller, NEW q, Ends(c, x, q)
  PROVE  Requests(c)'
<1>1. req \in [Caches(c)!Caller -> RequestRecord(c)] /\ Requests(c)
  BY DEF CacheInv, Typed
<1>2. req'[x] = q
  BY DEF Ends
<1>3. ASSUME NEW z \in Caches(c)!Caller, req[z].outcome # "pending" \/ req[z].leads
      PROVE  req'[z].outcome # "pending" \/ req'[z].leads
  <2>1. CASE z = x
    BY <1>2, <1>3, <2>1 DEF Ends
  <2>2. CASE z # x
    BY <1>3, <2>2, EndsOthers DEF Moves
  <2> QED
    BY <2>1, <2>2
<1>4. ASSUME NEW y \in Caches(c)!Caller
      PROVE  LET r == req'[y] IN
             /\ r.pc \notin {"new", "done"} => Bound(c, r)
             /\ ~Begun(r) => r.token = None /\ ~r.leads /\ r.outcome = "pending" /\ r.lease = "none"
             /\ r.pc = "done" => r.token = None /\ ~r.leads
             /\ r.leads => r.token # None /\ Caches(c)!Active(y)'
             /\ r.pc # "done" /\ r.outcome # "pending" => r.token # None /\ ~Caches(c)!Active(y)'
             /\ r.pc = "joins" => r.joined \in Caches(c)!Caller /\ (req'[r.joined].outcome # "pending" \/ req'[r.joined].leads)
             /\ r.lease = "held" => Caches(c)!Active(y)' /\ r.pc # "done"
  <2>1. CASE y = x
    BY <1>2, <2>1 DEF Ends, Begun
  <2>2. CASE y # x
    <3>1. Moves(c, y, req[y], req'[y])
      BY <2>2, EndsOthers
    <3>2. Begun(req[y]) => (Caches(c)!Active(y)' <=> Caches(c)!Active(y))
      BY <3>1 DEF Moves, Caches!Active, Ends
    <3>3. /\ Begun(req[y]) \/ (req[y].token = None /\ ~req[y].leads /\ req[y].outcome = "pending" /\ req[y].lease = "none")
          /\ req[y].leads => req[y].token # None /\ Caches(c)!Active(y)
          /\ req[y].pc # "done" /\ req[y].outcome # "pending" => req[y].token # None /\ ~Caches(c)!Active(y)
          /\ req[y].pc = "done" => req[y].token = None /\ ~req[y].leads
      BY <1>1 DEF Requests
    <3>4. req'[y].pc = "joins" =>
             /\ req'[y].joined \in Caches(c)!Caller
             /\ req[req'[y].joined].outcome # "pending" \/ req[req'[y].joined].leads
      BY <1>1, <3>1 DEF Moves, Requests
    <3>5. req'[y].pc = "joins" => req'[y].joined \in Caches(c)!Caller
                                  /\ (req'[req'[y].joined].outcome # "pending" \/ req'[req'[y].joined].leads)
      BY <1>3, <3>4
    <3>6. /\ req'[y].pc \notin {"new", "done"} => Bound(c, req'[y])
          /\ ~Begun(req'[y]) => req'[y].token = None /\ ~req'[y].leads /\ req'[y].outcome = "pending" /\ req'[y].lease = "none"
      BY <3>1, <3>3 DEF Moves
    <3>7. req'[y].pc = "done" => req'[y].token = None /\ ~req'[y].leads
      BY <3>1, <3>3 DEF Moves
    <3>8. /\ req'[y].leads => req'[y].token # None /\ Caches(c)!Active(y)'
          /\ req'[y].pc # "done" /\ req'[y].outcome # "pending" => req'[y].token # None /\ ~Caches(c)!Active(y)'
          /\ req'[y].lease = "held" => Caches(c)!Active(y)' /\ req'[y].pc # "done"
      BY <3>1, <3>2, <3>3 DEF Moves
    <3> QED
      BY <3>5, <3>6, <3>7, <3>8
  <2> QED
    BY <2>1, <2>2
<1> QED
  BY <1>4 DEF Requests

LEMMA UsersFinite ==
  ASSUME NEW CONSTANT c, Caches(c)!CacheAssumption, NEW g
  PROVE  IsFiniteSet(Users(c, g))
<1>1. IsFiniteSet(Caches(c)!Caller) /\ Users(c, g) \subseteq Caches(c)!Caller
  BY Counted DEF Users, Caches!CacheAssumption
<1> QED
  BY <1>1, FS_Subset

LEMMA EndsTokens ==
  ASSUME NEW CONSTANT c, Caches(c)!CacheAssumption, CacheInv(c), NEW x \in Caches(c)!Caller, NEW q, Ends(c, x, q)
  PROVE  Tokens(c)'
<1> DEFINE g == req[x].token
<1>1. /\ req \in [Caches(c)!Caller -> RequestRecord(c)] /\ Requests(c) /\ Tokens(c)
      /\ token \in [Caches(c)!Caller -> [tags : SUBSET c.tags, active : Int]]
      /\ live \in [c.keys -> LiveRecord(c)] /\ None \notin Caches(c)!Caller
  BY DEF CacheInv, Typed, Caches!CacheAssumption
<1>2. /\ req'[x] = q /\ q.token = None /\ Begun(q)
      /\ \A y \in Caches(c)!Caller : y # x =>
            /\ req'[y].token = req[y].token /\ (~Begun(req'[y]) => ~Begun(req[y]))
            /\ Begun(req[y]) => req'[y].inst = req[y].inst /\ req'[y].key = req[y].key
  <2>1. req'[x] = q /\ q.token = None /\ Begun(q)
    BY DEF Ends, Begun
  <2> QED
    BY <2>1, EndsOthers DEF Moves
<1>3. \A y \in Caches(c)!Caller : token'[y].active = IF Caches(c)!Active(x) /\ g # None /\ y = g THEN token[y].active - 1
                                                     ELSE token[y].active
  BY <1>1 DEF Ends, Caches!CountsDown
<1>4. \A k1 \in c.keys :
         /\ live'[k1].gen \in {live[k1].gen, None}
         /\ live'[k1].gen # None => ~(k1 = req[x].key /\ Caches(c)!Active(x) /\ Caches(c)!LastUser(x))
  BY DEF Ends
<1>5. g \in Possibly(Caches(c)!Caller)
  BY <1>1 DEF RequestRecord
<1>6. ASSUME NEW y \in Caches(c)!Caller, ~Begun(req'[y]) PROVE Unused(c, y)'
  <2>1. Unused(c, y)
    BY <1>1, <1>2, <1>6 DEF Tokens
  <2>2. token'[y].active = 0
    BY <1>3, <2>1 DEF Unused
  <2>3. \A z \in Caches(c)!Caller : req'[z].token # y
    BY <1>1, <1>2, <2>1 DEF Unused
  <2>4. \A k1 \in c.keys : live'[k1].gen # y
    BY <1>1, <1>4, <2>1 DEF Unused
  <2> QED
    BY <2>2, <2>3, <2>4 DEF Unused
<1>7. ASSUME NEW k1 \in c.keys, live'[k1].gen # None PROVE Counts(c, k1)'
  <2>1. PICK h : h = live[k1].gen
    OBVIOUS
  <2>2. live'[k1].gen = h /\ h # None /\ h \in Caches(c)!Caller
    BY <1>1, <1>4, <1>7, <2>1 DEF LiveRecord, Possibly
  <2>3. /\ \A y \in Caches(c)!Caller : req[y].token = h => req[y].key = k1 /\ Caches(c)!Active(y)
        /\ token[h].active = Cardinality(Users(c, h)) /\ token[h].active > 0
    BY <1>1, <2>1, <2>2 DEF Tokens, Counts
  <2>4. ASSUME NEW y \in Caches(c)!Caller, req'[y].token = h PROVE req'[y].key = k1 /\ Caches(c)!Active(y)'
    <3>1. y # x /\ req[y].token = h /\ req[y].key = k1 /\ Caches(c)!Active(y)
      BY <1>2, <2>2, <2>3, <2>4
    <3>2. Begun(req[y])
      BY <1>1, <2>2, <3>1 DEF Requests
    <3> QED
      BY <1>2, <3>1, <3>2 DEF Caches!Active, Ends
  <2>5. Users(c, h)' = Users(c, h) \ {x}
    <3>1. \A y : y \in Users(c, h)' <=> y \in Users(c, h) \ {x}
      BY <1>2, <2>2 DEF Users
    <3> QED
      BY <3>1
  <2>6. token'[h].active = Cardinality(Users(c, h) \ {x}) /\ token'[h].active > 0
    <3>1. CASE h = g
      <4>1. x \in Users(c, h) /\ Caches(c)!Active(x) /\ req[x].key = k1
        BY <2>3, <3>1 DEF Users
      <4>2. token'[h].active = token[h].active - 1
        BY <1>3, <2>2, <3>1, <4>1
      <4>3. token[h].active # 1
        <5>1. Caches(c)!Current(x)
          BY <2>1, <2>2, <3>1, <4>1 DEF Caches!Current
        <5>2. ~Caches(c)!LastUser(x)
          BY <1>4, <1>7, <4>1
        <5> QED
          BY <3>1, <5>1, <5>2 DEF Caches!LastUser
      <4>4. Cardinality(Users(c, h) \ {x}) = Cardinality(Users(c, h)) - 1
        BY <4>1, UsersFinite, FS_RemoveElement
      <4>5. token[h].active \in Int
        BY <1>1, <2>2
      <4> QED
        BY <2>3, <4>2, <4>3, <4>4, <4>5
    <3>2. CASE h # g
      <4>1. Users(c, h) \ {x} = Users(c, h)
        BY <3>2 DEF Users
      <4> QED
        BY <1>3, <2>2, <2>3, <3>2, <4>1
    <3> QED
      BY <3>1, <3>2
  <2>7. Users(c, live[k1].gen)' = {y \in Caches(c)!Caller : req'[y].token = h}
    BY <2>2 DEF Users
  <2>8. {y \in Caches(c)!Caller : req'[y].token = h} = Users(c, h) \ {x}
    BY <2>5 DEF Users
  <2> QED
    BY <2>2, <2>4, <2>6, <2>7, <2>8 DEF Counts
<1> QED
  BY <1>6, <1>7 DEF Tokens

LEMMA EndsFlights ==
  ASSUME NEW CONSTANT c, Caches(c)!CacheAssumption, CacheInv(c), NEW x \in Caches(c)!Caller, NEW q, Ends(c, x, q)
  PROVE  Flights(c)'
<1>1. /\ req \in [Caches(c)!Caller -> RequestRecord(c)] /\ Requests(c) /\ Flights(c) /\ Tokens(c)
      /\ live \in [c.keys -> LiveRecord(c)] 
  BY DEF CacheInv, Typed
<1>2. \A y \in Caches(c)!Caller : y # x => Moves(c, y, req[y], req'[y])
  BY EndsOthers
<1>3. ASSUME NEW k1 \in c.keys, NEW y \in {live'[k1].flight, live'[k1].rawFlight} \ {None}
      PROVE  Flies(c, k1, y)'
  <2>1. y \in {live[k1].flight, live[k1].rawFlight} \ {None} /\ y # x
    BY <1>3 DEF Ends, Caches!Left
  <2>2. Flies(c, k1, y) /\ y \in Caches(c)!Caller
    BY <1>1, <2>1 DEF Flights, LiveRecord, Possibly
  <2>3. req'[y].leads /\ req'[y].key = req[y].key /\ req'[y].token = req[y].token
    BY <1>1, <1>2, <2>1, <2>2 DEF Moves, Flies, Requests
  <2>4. ASSUME Caches(c)!Current(y) PROVE Caches(c)!Current(y)'
    <3>1. req[y].token # None /\ live[k1].gen = req[y].token /\ req[y].key = k1
      BY <2>2, <2>4 DEF Caches!Current, Flies
    <3>2. ~(k1 = req[x].key /\ Caches(c)!Active(x) /\ Caches(c)!LastUser(x))
      <4>1. SUFFICES ASSUME k1 = req[x].key, Caches(c)!LastUser(x) PROVE FALSE
        OBVIOUS
      <4>2. req[x].token = live[k1].gen /\ token[live[k1].gen].active = 1
        BY <4>1 DEF Caches!LastUser, Caches!Current
      <4>3. PICK h : h = live[k1].gen
        OBVIOUS
      <4>4. Cardinality(Users(c, h)) = 1 /\ x \in Users(c, h) /\ y \in Users(c, h)
        BY <1>1, <2>2, <3>1, <4>2, <4>3 DEF Tokens, Counts, Users
      <4>5. Cardinality(Users(c, h) \ {x}) = 0 /\ IsFiniteSet(Users(c, h) \ {x})
        BY <4>4, UsersFinite, FS_RemoveElement
      <4>6. Users(c, h) \ {x} = {}
        BY <4>5, FS_EmptySet
      <4> QED
        BY <2>1, <4>4, <4>6
    <3>3. live'[k1].gen = live[k1].gen
      BY <1>3, <3>2 DEF Ends
    <3> QED
      BY <2>3, <3>1, <3>3 DEF Caches!Current
  <2> QED
    BY <2>2, <2>3, <2>4 DEF Flies, One
<1> QED
  BY <1>3 DEF Flights

LEMMA CountedDown ==
  ASSUME NEW CONSTANT c, token \in [Caches(c)!Caller -> [tags : SUBSET c.tags, active : Int]],
         NEW g \in Caches(c)!Caller, token' = [token EXCEPT ![g].active = @ - 1]
  PROVE  token' \in [Caches(c)!Caller -> [tags : SUBSET c.tags, active : Int]]
OBVIOUS

LEMMA CountsDownTyped ==
  ASSUME NEW CONSTANT c, CacheInv(c), NEW x \in Caches(c)!Caller, Caches(c)!CountsDown(x)
  PROVE  token' \in [Caches(c)!Caller -> [tags : SUBSET c.tags, active : Int]]
<1>1. token \in [Caches(c)!Caller -> [tags : SUBSET c.tags, active : Int]] /\ req[x] \in RequestRecord(c)
  BY TypedFacts DEF CacheInv, Typed
<1>2. CASE req[x].token = None \/ ~Caches(c)!Active(x)
  BY <1>1, <1>2 DEF Caches!CountsDown
<1>3. CASE req[x].token # None /\ Caches(c)!Active(x)
  <2>1. req[x].token \in Caches(c)!Caller
    BY <1>1, <1>3 DEF RequestRecord, Possibly
  <2>2. token' = [token EXCEPT ![req[x].token].active = @ - 1]
    BY <1>3 DEF Caches!CountsDown
  <2> QED
    BY <1>1, <2>1, <2>2, CountedDown
<1> QED
  BY <1>2, <1>3

(* The maps without the request.                                            *)
LEMMA ReleasedFacts ==
  ASSUME NEW CONSTANT c, CacheInv(c), NEW x \in Caches(c)!Caller, NEW left, left = Caches(c)!Released(x)
  PROVE  /\ left \in [c.keys -> LiveRecord(c)]
         /\ \A k1 \in c.keys :
              /\ left[k1].gen = IF k1 = req[x].key /\ Caches(c)!Active(x) /\ Caches(c)!LastUser(x) THEN None ELSE live[k1].gen
              /\ left[k1].flight = Caches(c)!Left(x, live[k1].flight)
              /\ left[k1].rawFlight = Caches(c)!Left(x, live[k1].rawFlight)
<1>1. left = [k1 \in c.keys |->
                  [gen |-> IF k1 = req[x].key /\ Caches(c)!Active(x) /\ Caches(c)!LastUser(x) THEN None ELSE live[k1].gen,
                   flight |-> Caches(c)!Left(x, live[k1].flight), rawFlight |-> Caches(c)!Left(x, live[k1].rawFlight),
                   refresh |-> Caches(c)!Left(x, live[k1].refresh)]]
  BY Zenon DEF Caches!Released
<1>2. ASSUME NEW k1 \in c.keys PROVE left[k1] \in LiveRecord(c)
  <2>1. live[k1] \in LiveRecord(c)
    BY DEF CacheInv, Typed
  <2>2. /\ live[k1].gen \in Possibly(Caches(c)!Caller) /\ live[k1].refresh \in Possibly(c.refreshes)
        /\ live[k1].flight \in Possibly(Caches(c)!Caller) /\ live[k1].rawFlight \in Possibly(Caches(c)!Caller)
    BY <2>1 DEF LiveRecord
  <2>3. \A S, y : y \in Possibly(S) => Caches(c)!Left(x, y) \in Possibly(S) /\ None \in Possibly(S)
    BY DEF Possibly, Caches!Left
  <2> QED
    BY <1>1, <2>2, <2>3 DEF LiveRecord
<1>3. left \in [c.keys -> LiveRecord(c)]
  <2>1. DOMAIN left = c.keys /\ left = [k1 \in c.keys |-> left[k1]]
    BY <1>1
  <2> QED
    BY <1>2, <2>1
<1>4. ASSUME NEW k1 \in c.keys
      PROVE  /\ left[k1].gen = IF k1 = req[x].key /\ Caches(c)!Active(x) /\ Caches(c)!LastUser(x) THEN None ELSE live[k1].gen
             /\ left[k1].flight = Caches(c)!Left(x, live[k1].flight)
             /\ left[k1].rawFlight = Caches(c)!Left(x, live[k1].rawFlight)
  <2> DEFINE g == IF k1 = req[x].key /\ Caches(c)!Active(x) /\ Caches(c)!LastUser(x) THEN None ELSE live[k1].gen
             fl == Caches(c)!Left(x, live[k1].flight)
             rf == Caches(c)!Left(x, live[k1].rawFlight)
             rr == Caches(c)!Left(x, live[k1].refresh)
  <2>1. left[k1] = [gen |-> g, flight |-> fl, rawFlight |-> rf, refresh |-> rr]
    BY <1>1, Zenon
  <2> HIDE DEF g, fl, rf, rr
  <2>2. left[k1].gen = g /\ left[k1].flight = fl /\ left[k1].rawFlight = rf
    BY <2>1
  <2> QED
    BY <2>2, Zenon DEF g, fl, rf
<1> QED
  BY <1>3, <1>4

LEMMA SettleKeeps ==
  ASSUME NEW CONSTANT c, Caches(c)!CacheAssumption, CacheInv(c), NEW x \in Caches(c)!Caller, Caches(c)!Settle(x)
  PROVE  CacheInv(c)'
<1> DEFINE out == IF Caches(c)!Active(x) THEN Caches(c)!SettledAs(x) ELSE req[x].outcome
           q == Caches(c)!Forgotten(x, out)
<1>1. /\ req[x].pc = "ends" /\ UNCHANGED <<op, keyOp, tagOp, store, calls, installation>>
      /\ req' = [req EXCEPT ![x] = q] /\ Caches(c)!CountsDown(x) /\ live' = Caches(c)!Released(x)
  BY Zenon DEF Caches!Settle, Caches!Becomes
<1>2. Typed(c) /\ Requests(c)
  BY DEF CacheInv
<1>3. req[x] \in RequestRecord(c)
  BY TypedFacts
<1>4. /\ out \in {"pending", "record", "nothing", "rejected"}
      /\ req[x].leads \/ req[x].outcome # "pending" => out # "pending"
  <2>1. req[x].outcome \in {"pending", "record", "nothing", "rejected"}
    BY <1>3 DEF RequestRecord
  <2>2. (req[x].outcome # "pending" => ~Caches(c)!Active(x)) /\ (req[x].leads => Caches(c)!Active(x))
    BY <1>1, <1>2 DEF Requests
  <2> QED
    BY <2>1, <2>2 DEF Caches!SettledAs, Caches!Outcome
<1> HIDE DEF out
<1>5. q \in RequestRecord(c) /\ q.pc = "done" /\ q.token = None /\ q.leads = FALSE /\ q.outcome = out /\ q.lease # "held"
  BY ZenonT(40), <1>4, ForgottenFacts
<1> HIDE DEF q
<1>6. req \in [Caches(c)!Caller -> RequestRecord(c)]
  BY <1>2 DEF Typed
<1>7. token' \in [Caches(c)!Caller -> [tags : SUBSET c.tags, active : Int]]
  BY <1>1, CountsDownTyped
<1>8. Typed(c)'
  BY <1>1, <1>2, <1>5, <1>6, <1>7, ReleasedFacts DEF Typed
<1>9. req'[x] = q /\ \A y \in Caches(c)!Caller \ {x} : req'[y] = req[y]
  BY <1>1, <1>6
<1>10. Ends(c, x, q)
  BY <1>1, <1>4, <1>5, <1>9, ReleasedFacts DEF Ends
<1> QED
  BY <1>8, <1>10, EndsRequests, EndsTokens, EndsFlights DEF CacheInv

LEMMA SettleMutationKeeps ==
  ASSUME NEW CONSTANT c, Caches(c)!CacheAssumption, CacheInv(c), NEW x \in Caches(c)!Caller, NEW o \in c.operations,
         Caches(c)!SettleMutation(x, o)
  PROVE  CacheInv(c)'
<1> DEFINE tags == req[x].conf.mutates
           left == Caches(c)!Released(x)
           K == {k1 \in Caches(c)!Tagged(tags) : left[k1].gen # None}
           refreshes == {left[k1].refresh : k1 \in K}
           q == Caches(c)!Forgotten(x, Caches(c)!SettledAs(x))
<1>1. /\ req[x].pc = "ends" /\ op[o].pc = "new" /\ Caches(c)!Active(x) /\ UNCHANGED <<keyOp, store, installation>>
      /\ live' = [k1 \in c.keys |-> IF k1 \in K THEN Caches(c)!Blank ELSE left[k1]]
      /\ req' = [y \in Caches(c)!Caller |-> IF y = x THEN q
                                             ELSE IF y \in refreshes THEN Caches(c)!Stopped(req[y]) ELSE req[y]]
      /\ Caches(c)!InvalidateTags(o, tags) /\ Caches(c)!CountsDown(x)
  BY Zenon DEF Caches!SettleMutation, Caches!AutoInvalidates
<1>2. Typed(c) /\ Requests(c) /\ Bound(c, req[x])
  BY <1>1, TypedFacts DEF CacheInv
<1>3. tags \in SUBSET c.tags
  BY <1>2 DEF Bound, Caches!CacheAssumption
<1>4. /\ Caches(c)!SettledAs(x) \in {"pending", "record", "nothing", "rejected"}
      /\ req[x].leads \/ req[x].outcome # "pending" => Caches(c)!SettledAs(x) # "pending"
  BY <1>1, <1>2 DEF Caches!SettledAs, Caches!Outcome, Requests
<1>5. q \in RequestRecord(c) /\ q.pc = "done" /\ q.token = None /\ q.leads = FALSE
      /\ q.outcome = Caches(c)!SettledAs(x) /\ q.lease # "held"
  BY ZenonT(40), <1>4, ForgottenFacts
<1>6. /\ left \in [c.keys -> LiveRecord(c)]
      /\ \A k1 \in c.keys :
           /\ left[k1].gen = IF k1 = req[x].key /\ Caches(c)!Active(x) /\ Caches(c)!LastUser(x) THEN None ELSE live[k1].gen
           /\ left[k1].flight = Caches(c)!Left(x, live[k1].flight)
           /\ left[k1].rawFlight = Caches(c)!Left(x, live[k1].rawFlight)
  BY ReleasedFacts
<1> HIDE DEF K, refreshes, q, tags, left
<1>7. req'[x] = q /\ \A y \in Caches(c)!Caller \ {x} : req'[y] \in {Caches(c)!Stopped(req[y]), req[y]}
  BY <1>1
<1>8. \A k1 \in c.keys : live'[k1] \in {Caches(c)!Blank, left[k1]}
  BY <1>1
<1>9. /\ op' \in [c.operations -> OpRecord(c)] /\ calls' \in Seq(CallRecord(c))
      /\ tagOp' \in [c.tags -> Possibly(c.operations)]
  BY <1>1, <1>3, InvalidateTagsTyped
<1>10. Caches(c)!Blank \in LiveRecord(c)
  BY DEF LiveRecord, Caches!Blank, Possibly
<1>11. live' \in [c.keys -> LiveRecord(c)]
  BY <1>1, <1>6, <1>10
<1>12. Ends(c, x, q)
  <2>1. ASSUME NEW k1 \in c.keys, live'[k1] = Caches(c)!Blank
        PROVE  live'[k1].gen = None /\ live'[k1].flight = None /\ live'[k1].rawFlight = None
    BY <2>1 DEF Caches!Blank
  <2> QED
    BY <1>1, <1>4, <1>5, <1>6, <1>7, <1>8, <2>1 DEF Ends
<1>13. req' \in [Caches(c)!Caller -> RequestRecord(c)]
  <2>1. \A y \in Caches(c)!Caller : req'[y] \in RequestRecord(c)
    BY <1>5, <1>7, <1>12, EndsOthers DEF Moves
  <2> QED
    BY <1>1, <2>1
<1>14. token' \in [Caches(c)!Caller -> [tags : SUBSET c.tags, active : Int]]
  BY <1>1, CountsDownTyped
<1>15. Typed(c)'
  BY <1>1, <1>2, <1>9, <1>11, <1>13, <1>14 DEF Typed
<1> QED
  BY <1>12, <1>15, EndsRequests, EndsTokens, EndsFlights DEF CacheInv

(* What the cleanup of an installation makes of a request's record.         *)
Cleaned(c, i, x, q) ==
    LET r == req[x] IN
    /\ q \in RequestRecord(c)
    /\ q.token = r.token /\ q.key = r.key /\ q.inst = r.inst /\ q.conf = r.conf /\ q.joined = r.joined
    /\ q.pc = r.pc \/ (q.pc = "ends" /\ Begun(r) /\ r.pc # "done") \/ (q.pc = "done" /\ r.pc = "spawned")
    /\ IF r.inst = i /\ r.leads THEN ~q.leads /\ q.outcome = "rejected"
       ELSE q.leads = r.leads /\ q.outcome = r.outcome
    /\ q.lease # "held" \/ (q.lease = r.lease /\ r.inst # i)
    /\ r.lease = "none" => q.lease = "none"

LEMMA CleanedStops ==
  ASSUME NEW CONSTANT c, CacheInv(c), NEW i, NEW x \in Caches(c)!Caller, NEW q, Cleaned(c, i, x, q), q.pc = req[x].pc
  PROVE  Cleaned(c, i, x, Caches(c)!Stopped(q))
<1>1. q \in RequestRecord(c) /\ "ends" \in Caches(c)!PC /\ "done" \in Caches(c)!PC
  BY TypedFacts DEF Cleaned
<1>2. ASSUME NEW p \in Caches(c)!PC, \/ p = "ends" /\ q.pc \in Caches(c)!Waiting
                                     \/ p = "done" /\ q.pc = "spawned"
      PROVE  Cleaned(c, i, x, [q EXCEPT !.pc = p, !.error = TRUE])
  <2>1. [q EXCEPT !.pc = p, !.error = TRUE] \in RequestRecord(c)
    BY <1>1 DEF RequestRecord
  <2>2. PICK s : s = [q EXCEPT !.pc = p, !.error = TRUE]
    OBVIOUS
  <2>3. /\ s.leads = q.leads /\ s.outcome = q.outcome /\ s.lease = q.lease /\ s.pc = p /\ s.token = q.token
        /\ s.key = q.key /\ s.inst = q.inst /\ s.conf = q.conf /\ s.joined = q.joined
    BY <1>1, <2>2 DEF RequestRecord
  <2>4. (p = "ends" /\ Begun(req[x]) /\ req[x].pc # "done") \/ (p = "done" /\ req[x].pc = "spawned")
    BY <1>2 DEF Begun, Caches!Waiting
  <2>5. Cleaned(c, i, x, s)
    BY <2>1, <2>2, <2>3, <2>4 DEF Cleaned
  <2> QED
    BY <2>2, <2>5
<1> QED
  BY <1>1, <1>2 DEF Caches!Stopped

LEMMA CleanedFacts ==
  ASSUME NEW CONSTANT c, CacheInv(c), NEW i \in c.installations, NEW x \in Caches(c)!Caller,
         NEW q, q = [req[x] EXCEPT !.leads = IF req[x].inst = i /\ req[x].leads THEN FALSE ELSE @,
                                   !.outcome = IF req[x].inst = i /\ req[x].leads THEN "rejected" ELSE @,
                                   !.lease = IF req[x].inst = i /\ @ = "held" THEN "returned" ELSE @]
  PROVE  Cleaned(c, i, x, q) /\ Cleaned(c, i, x, Caches(c)!Stopped(q))
<1> DEFINE r == req[x]
           leads == IF r.inst = i /\ r.leads THEN FALSE ELSE r.leads
           out == IF r.inst = i /\ r.leads THEN "rejected" ELSE r.outcome
           l == IF r.inst = i /\ r.lease = "held" THEN "returned" ELSE r.lease
<1>1. r \in RequestRecord(c)
  BY TypedFacts
<1>2. q = [r EXCEPT !.leads = leads, !.outcome = out, !.lease = l]
  OBVIOUS
<1>3. leads \in BOOLEAN /\ out \in {"pending", "record", "nothing", "rejected"}
      /\ l \in {"none", "asked", "held", "void", "returned"}
  BY <1>1 DEF RequestRecord
<1>4. /\ IF r.inst = i /\ r.leads THEN ~leads /\ out = "rejected" ELSE leads = r.leads /\ out = r.outcome
      /\ l # "held" \/ (l = r.lease /\ r.inst # i)
      /\ r.lease = "none" => l = "none"
  OBVIOUS
<1> HIDE DEF leads, out, l, r
<1>5. q \in RequestRecord(c)
  BY ZenonT(40), <1>1, <1>2, <1>3 DEF RequestRecord
<1>6. /\ q.leads = leads /\ q.outcome = out /\ q.lease = l /\ q.pc = r.pc /\ q.token = r.token /\ q.key = r.key
      /\ q.inst = r.inst /\ q.conf = r.conf /\ q.joined = r.joined
  BY <1>1, <1>2 DEF RequestRecord
<1>7. Cleaned(c, i, x, q) /\ q.pc = req[x].pc
  BY <1>4, <1>5, <1>6 DEF Cleaned, r
<1> QED
  BY <1>7, CleanedStops

LEMMA UnuseRequests ==
  ASSUME NEW CONSTANT c, CacheInv(c), NEW i \in c.installations,
         \A y \in Caches(c)!Caller : Cleaned(c, i, y, req'[y]),
         installation' = [installation EXCEPT ![i] = "off"]
  PROVE  Requests(c)' /\ \A y \in Caches(c)!Caller : Caches(c)!Active(y)' => req[y].inst # i
<1>1. Requests(c) /\ installation \in [c.installations -> {"on", "off"}]
  BY DEF CacheInv, Typed
<1>2. ASSUME NEW y \in Caches(c)!Caller
      PROVE  /\ Caches(c)!Active(y)' => req[y].inst # i
             /\ Caches(c)!Active(y) /\ req[y].inst # i => Caches(c)!Active(y)'
             /\ ~Caches(c)!Active(y) => ~Caches(c)!Active(y)'
  <2>1. req'[y].inst = req[y].inst
    BY DEF Cleaned
  <2> QED
    BY <1>1, <2>1 DEF Caches!Active
<1>3. ASSUME NEW y \in Caches(c)!Caller
      PROVE  LET r == req'[y] IN
             /\ r.pc \notin {"new", "done"} => Bound(c, r)
             /\ ~Begun(r) => r.token = None /\ ~r.leads /\ r.outcome = "pending" /\ r.lease = "none"
             /\ r.pc = "done" => r.token = None /\ ~r.leads
             /\ r.leads => r.token # None /\ Caches(c)!Active(y)'
             /\ r.pc # "done" /\ r.outcome # "pending" => r.token # None /\ ~Caches(c)!Active(y)'
             /\ r.pc = "joins" => r.joined \in Caches(c)!Caller /\ (req'[r.joined].outcome # "pending" \/ req'[r.joined].leads)
             /\ r.lease = "held" => Caches(c)!Active(y)' /\ r.pc # "done"
  <2>1. Cleaned(c, i, y, req'[y])
    OBVIOUS
  <2>2. /\ req[y].pc \notin {"new", "done"} => Bound(c, req[y])
        /\ ~Begun(req[y]) => req[y].token = None /\ ~req[y].leads /\ req[y].outcome = "pending" /\ req[y].lease = "none"
        /\ req[y].pc = "done" => req[y].token = None /\ ~req[y].leads
        /\ req[y].leads => req[y].token # None /\ Caches(c)!Active(y)
        /\ req[y].pc # "done" /\ req[y].outcome # "pending" => req[y].token # None /\ ~Caches(c)!Active(y)
        /\ req[y].pc = "joins" => req[y].joined \in Caches(c)!Caller
                                  /\ (req[req[y].joined].outcome # "pending" \/ req[req[y].joined].leads)
        /\ req[y].lease = "held" => Caches(c)!Active(y) /\ req[y].pc # "done"
    BY <1>1 DEF Requests
  <2>3. \A z \in Caches(c)!Caller : req[z].outcome # "pending" \/ req[z].leads => req'[z].outcome # "pending" \/ req'[z].leads
    BY DEF Cleaned
  <2>4. /\ req'[y].pc \notin {"new", "done"} => Bound(c, req'[y])
        /\ ~Begun(req'[y]) => req'[y].token = None /\ ~req'[y].leads /\ req'[y].outcome = "pending" /\ req'[y].lease = "none"
        /\ req'[y].pc = "done" => req'[y].token = None /\ ~req'[y].leads
    BY <2>1, <2>2 DEF Cleaned, Begun, Bound
  <2>5. /\ req'[y].leads => req'[y].token # None /\ Caches(c)!Active(y)'
        /\ req'[y].pc # "done" /\ req'[y].outcome # "pending" => req'[y].token # None /\ ~Caches(c)!Active(y)'
    BY <1>2, <2>1, <2>2 DEF Cleaned, Begun
  <2>6. req'[y].pc = "joins" => /\ req'[y].joined \in Caches(c)!Caller
                                /\ req'[req'[y].joined].outcome # "pending" \/ req'[req'[y].joined].leads
    BY <2>1, <2>2, <2>3 DEF Cleaned
  <2>7. req'[y].lease = "held" => Caches(c)!Active(y)' /\ req'[y].pc # "done"
    BY <1>2, <2>1, <2>2 DEF Cleaned, Begun
  <2> QED
    BY <2>4, <2>5, <2>6, <2>7
<1> QED
  BY <1>2, <1>3 DEF Requests

LEMMA UnuseKeeps ==
  ASSUME NEW CONSTANT c, Caches(c)!CacheAssumption, CacheInv(c), NEW i \in c.installations, Caches(c)!Unuse(i)
  PROVE  CacheInv(c)'
<1> DEFINE leaders == {x \in Caches(c)!Caller : req[x].inst = i /\ req[x].leads}
           cleaned(x) == [req[x] EXCEPT !.leads = IF x \in leaders THEN FALSE ELSE @,
                                        !.outcome = IF x \in leaders THEN "rejected" ELSE @,
                                        !.lease = IF req[x].inst = i /\ @ = "held" THEN "returned" ELSE @]
           refreshes == {live[k1].refresh : k1 \in c.keys}
<1>1. /\ installation' = [installation EXCEPT ![i] = "off"] /\ UNCHANGED <<token, op, keyOp, tagOp, store, calls>>
      /\ req' = [x \in Caches(c)!Caller |-> IF x \in refreshes THEN Caches(c)!Stopped(cleaned(x)) ELSE cleaned(x)]
      /\ live' = [k1 \in c.keys |->
                     [gen |-> None, refresh |-> None,
                      flight |-> IF live[k1].flight \in leaders THEN None ELSE live[k1].flight,
                      rawFlight |-> IF live[k1].rawFlight \in leaders THEN None ELSE live[k1].rawFlight]]
  BY Zenon DEF Caches!Unuse
<1>2. Typed(c) /\ Requests(c) /\ Tokens(c) /\ Flights(c) /\ None \notin Caches(c)!Caller
  BY DEF CacheInv, Caches!CacheAssumption
<1> HIDE DEF refreshes
<1>3. ASSUME NEW x \in Caches(c)!Caller PROVE Cleaned(c, i, x, req'[x])
  <2>1. cleaned(x) = [req[x] EXCEPT !.leads = IF req[x].inst = i /\ req[x].leads THEN FALSE ELSE @,
                                    !.outcome = IF req[x].inst = i /\ req[x].leads THEN "rejected" ELSE @,
                                    !.lease = IF req[x].inst = i /\ @ = "held" THEN "returned" ELSE @]
    OBVIOUS
  <2>2. Cleaned(c, i, x, cleaned(x)) /\ Cleaned(c, i, x, Caches(c)!Stopped(cleaned(x)))
    BY <2>1, CleanedFacts
  <2> HIDE DEF cleaned
  <2>3. req'[x] \in {cleaned(x), Caches(c)!Stopped(cleaned(x))}
    BY <1>1
  <2> QED
    BY <2>2, <2>3
<1> HIDE DEF cleaned
<1>4. Requests(c)' /\ \A y \in Caches(c)!Caller : Caches(c)!Active(y)' => req[y].inst # i
  BY <1>1, <1>3, UnuseRequests
<1>5. \A y \in Caches(c)!Caller : req'[y].token = req[y].token /\ (~Begun(req'[y]) => ~Begun(req[y]))
  BY <1>3 DEF Cleaned, Begun
<1>6. Tokens(c)'
  <2>1. \A k1 \in c.keys : live'[k1].gen = None
    BY <1>1
  <2>2. ASSUME NEW y \in Caches(c)!Caller, ~Begun(req'[y]) PROVE Unused(c, y)'
    <3>1. Unused(c, y)
      BY <1>2, <1>5, <2>2 DEF Tokens
    <3> QED
      BY <1>1, <1>2, <1>5, <2>1, <3>1 DEF Unused
  <2> QED
    BY <2>1, <2>2 DEF Tokens
<1>7. Flights(c)'
  <2>1. ASSUME NEW k1 \in c.keys, NEW y \in {live'[k1].flight, live'[k1].rawFlight} \ {None} PROVE Flies(c, k1, y)'
    <3>1. y \in {live[k1].flight, live[k1].rawFlight} \ {None} /\ y \notin leaders
      BY <1>1
    <3>2. Flies(c, k1, y) /\ y \in Caches(c)!Caller
      BY <1>2, <3>1 DEF Flights, Typed, LiveRecord, Possibly
    <3>3. req[y].leads /\ req[y].key = k1 /\ req[y].inst # i
      BY <3>1, <3>2 DEF Flies
    <3>4. req[y].inst \in c.installations
      BY <1>2, <3>2, <3>3 DEF Requests, Begun, Bound
    <3>5. req'[y].leads /\ req'[y].key = k1
      BY <1>3, <3>2, <3>3 DEF Cleaned
    <3>6. ~One(c)
      BY <3>3, <3>4 DEF One
    <3> QED
      BY <3>5, <3>6 DEF Flies, One
  <2> QED
    BY <2>1 DEF Flights
<1>8. Typed(c)'
  <2>1. req' \in [Caches(c)!Caller -> RequestRecord(c)]
    BY <1>1, <1>3 DEF Cleaned
  <2>2. ASSUME NEW k1 \in c.keys PROVE live'[k1] \in LiveRecord(c)
    <3>1. live[k1].flight \in Possibly(Caches(c)!Caller) /\ live[k1].rawFlight \in Possibly(Caches(c)!Caller)
      BY <1>2 DEF Typed, LiveRecord
    <3> HIDE DEF leaders
    <3> QED
      BY <1>1, <3>1 DEF LiveRecord, Possibly
  <2>3. live' \in [c.keys -> LiveRecord(c)]
    BY <1>1, <2>2
  <2>4. installation' \in [c.installations -> {"on", "off"}]
    BY <1>1, <1>2 DEF Typed
  <2> QED
    BY <1>1, <1>2, <2>1, <2>3, <2>4 DEF Typed
<1> QED
  BY <1>4, <1>6, <1>7, <1>8 DEF CacheInv

----------------------------------------------------------------------------
LEMMA CacheInit ==
  ASSUME NEW CONSTANT c, Caches(c)!CacheAssumption, Caches(c)!Init
  PROVE  CacheInv(c)
<1>1. Caches(c)!NoRequest \in RequestRecord(c)
  <2>1. 0 \in Caches(c)!Stamp /\ "new" \in Caches(c)!PC
    BY StampFacts DEF Caches!PC
  <2> QED
    BY <2>1 DEF Caches!NoRequest, RequestRecord, Possibly
<1>2. Caches(c)!NoOperation \in OpRecord(c) /\ Caches(c)!Blank \in LiveRecord(c)
  <2>1. 0 \in Caches(c)!Stamp
    BY StampFacts
  <2> QED
    BY <2>1 DEF Caches!NoOperation, Caches!Blank, OpRecord, LiveRecord, Possibly
<1>3. /\ req = [x \in Caches(c)!Caller |-> Caches(c)!NoRequest]
      /\ token = [x \in Caches(c)!Caller |-> [tags |-> {}, active |-> 0]]
      /\ live = [k1 \in c.keys |-> Caches(c)!Blank] /\ calls = <<>>
      /\ op = [o \in c.operations |-> Caches(c)!NoOperation]
      /\ keyOp = [k1 \in c.keys |-> None] /\ tagOp = [t1 \in c.tags |-> None] /\ store = [k1 \in c.keys |-> None]
      /\ installation = [i \in c.installations |-> "on"]
  BY DEF Caches!Init
<1>4. Typed(c)
  BY <1>1, <1>2, <1>3 DEF Typed, Possibly
<1>5. None \notin Caches(c)!Caller
  BY DEF Caches!CacheAssumption
<1>6. Requests(c)
  BY <1>3 DEF Requests, Caches!NoRequest, Begun
<1>7. Tokens(c) /\ Flights(c)
  BY <1>3, <1>5 DEF Tokens, Unused, Flights, Caches!NoRequest, Caches!Blank
<1> QED
  BY <1>4, <1>6, <1>7 DEF CacheInv

LEMMA CacheStep ==
  ASSUME NEW CONSTANT c, Caches(c)!CacheAssumption, CacheInv(c), [Caches(c)!Next]_(Caches(c)!vars)
  PROVE  CacheInv(c)'
<1>1. ASSUME NEW x \in Caches(c)!Caller,
             \/ Caches(c)!Start(x) \/ Caches(c)!StartRefresh(x) \/ Caches(c)!Read(x) \/ Caches(c)!LeaseGranted(x)
             \/ Caches(c)!LeaseFailed(x) \/ Caches(c)!Answered(x) \/ Caches(c)!Streamed(x) \/ Caches(c)!Failed(x)
             \/ Caches(c)!Wake(x) \/ Caches(c)!Abort(x) \/ Caches(c)!Settle(x)
             \/ \E o \in c.operations : Caches(c)!SettleMutation(x, o)
      PROVE  CacheInv(c)'
  BY <1>1, StartKeeps, StartRefreshKeeps, ReadKeeps, LeaseGrantedKeeps, LeaseFailedKeeps, AnsweredKeeps, StreamedKeeps,
     FailedKeeps, WakeKeeps, AbortKeeps, SettleKeeps, SettleMutationKeeps
<1>2. ASSUME NEW o \in c.operations,
             Caches(c)!KeyOperation(o) \/ Caches(c)!TagOperation(o) \/ Caches(c)!Clear(o) \/ Caches(c)!RunOperation(o)
      PROVE  CacheInv(c)'
  BY <1>2, KeyOperationKeeps, TagOperationKeeps, RunOperationKeeps
<1>3. CASE Caches(c)!ReadApplied \/ Caches(c)!WriteApplied \/ Caches(c)!UpdateRead \/ Caches(c)!OperationApplied
  BY <1>3, ReadAppliedKeeps, WriteAppliedKeeps, UpdateReadKeeps, OperationAppliedKeeps
<1>4. ASSUME NEW i \in c.installations, Caches(c)!Unuse(i) PROVE CacheInv(c)'
  BY <1>4, UnuseKeeps
<1>5. ASSUME NEW k1 \in c.keys, Caches(c)!Expire(k1) PROVE CacheInv(c)'
  BY <1>5, ExpireKeeps
<1>6. CASE UNCHANGED Caches(c)!vars
  BY <1>6, OthersKeep DEF Caches!vars, CacheInv, Typed
<1> QED
  BY <1>1, <1>2, <1>3, <1>4, <1>5, <1>6 DEF Caches!Next, Caches!AllDone

LEMMA CacheAgrees ==
  ASSUME NEW CONSTANT c, Caches(c)!CacheAssumption, CacheInv(c)
  PROVE  /\ Caches(c)!FollowersAreLed /\ Caches(c)!LeasesReturned
         /\ One(c) => Caches(c)!InFlightAgrees
<1>1. Typed(c) /\ Requests(c) /\ Tokens(c) /\ Flights(c) /\ None \notin Caches(c)!Caller
  BY DEF CacheInv, Caches!CacheAssumption
<1>2. Caches(c)!FollowersAreLed
  <2>1. \A y \in Caches(c)!Caller : req[y].leads => req[y].pc # "done"
    BY <1>1 DEF Requests
  <2>2. \A x \in Caches(c)!Caller : req[x].pc = "joins" =>
           req[x].joined \in Caches(c)!Caller /\ (req[req[x].joined].outcome # "pending" \/ req[req[x].joined].leads)
    BY <1>1 DEF Requests
  <2> QED
    BY <2>1, <2>2 DEF Caches!FollowersAreLed
<1>3. Caches(c)!LeasesReturned
  BY <1>1 DEF Requests, Caches!LeasesReturned
<1>4. Caches(c)!TypeOK
  <2>1. ASSUME NEW x \in Caches(c)!Caller
        PROVE  /\ req[x].pc \in Caches(c)!PC
               /\ req[x].token \in Caches(c)!Optional(Caches(c)!Caller)
               /\ req[x].joined \in Caches(c)!Optional(Caches(c)!Caller)
               /\ \A e \in {req[x].completed, req[x].fallback, req[x].cond, req[x].answer} :
                     e \in Caches(c)!Optional(Caches(c)!Entry)
               /\ req[x].outcome \in {"pending", "record", "nothing", "rejected"}
               /\ req[x].lease \in {"none", "asked", "held", "void", "returned"}
    BY TypedFacts DEF RequestRecord, Possibly, Caches!Optional
  <2>2. live \in [c.keys -> [gen : Caches(c)!Optional(Caches(c)!Caller), flight : Caches(c)!Optional(Caches(c)!Caller),
                             rawFlight : Caches(c)!Optional(Caches(c)!Caller), refresh : Caches(c)!Optional(c.refreshes)]]
    BY <1>1 DEF Typed, LiveRecord, Possibly, Caches!Optional
  <2>3. /\ keyOp \in [c.keys -> Caches(c)!Optional(c.operations)] /\ tagOp \in [c.tags -> Caches(c)!Optional(c.operations)]
        /\ store \in [c.keys -> Caches(c)!Optional(Caches(c)!Entry)]
    BY <1>1 DEF Typed, Possibly, Caches!Optional
  <2> QED
    BY <2>1, <2>2, <2>3 DEF Caches!TypeOK
<1>5. ASSUME One(c), NEW k1 \in c.keys
      PROVE  /\ live[k1].gen # None =>
                  /\ token[live[k1].gen].active > 0
                  /\ token[live[k1].gen].active =
                       Caches(c)!Cardinality({x \in Caches(c)!Caller : req[x].token = live[k1].gen /\ req[x].pc # "done"})
             /\ \A x \in {live[k1].flight, live[k1].rawFlight} \ {None} :
                   req[x].leads /\ req[x].pc # "done" /\ Caches(c)!Current(x)
  <2>1. ASSUME live[k1].gen # None
        PROVE  {x \in Caches(c)!Caller : req[x].token = live[k1].gen /\ req[x].pc # "done"} = Users(c, live[k1].gen)
    BY <1>1, <2>1 DEF Requests, Users
  <2>2. live[k1].gen # None => token[live[k1].gen].active = Cardinality(Users(c, live[k1].gen)) /\ token[live[k1].gen].active > 0
    BY <1>1 DEF Tokens, Counts
  <2>3. \A x \in {live[k1].flight, live[k1].rawFlight} \ {None} : x \in Caches(c)!Caller /\ Flies(c, k1, x)
    BY <1>1 DEF Flights, Typed, LiveRecord, Possibly
  <2>4. \A x \in {live[k1].flight, live[k1].rawFlight} \ {None} : req[x].leads /\ req[x].pc # "done" /\ Caches(c)!Current(x)
    BY <1>1, <1>5, <2>3 DEF Flies, Requests
  <2> QED
    BY <2>1, <2>2, <2>4, Counted
<1> QED
  BY <1>2, <1>3, <1>4, <1>5 DEF Caches!InFlightAgrees, Caches!MapsMatchRequests

(* For every set of requests, keys, tags, options, operations and clients   *)
(* that share the plugin: who waits for a request in flight waits for one   *)
(* that has settled its promise or still will, and only a live request of   *)
(* an installed plugin holds a lease.                                       *)
THEOREM FollowersLedAndLeasesReturned ==
  ASSUME NEW CONSTANT c, Caches(c)!CacheAssumption
  PROVE  Caches(c)!Spec => [](Caches(c)!FollowersAreLed /\ Caches(c)!LeasesReturned)
<1>1. Caches(c)!Init => CacheInv(c)
  BY CacheInit
<1>2. CacheInv(c) /\ [Caches(c)!Next]_(Caches(c)!vars) => CacheInv(c)'
  BY CacheStep
<1>3. CacheInv(c) => Caches(c)!FollowersAreLed /\ Caches(c)!LeasesReturned
  BY CacheAgrees
<1> QED
  BY <1>1, <1>2, <1>3, PTL DEF Caches!Spec

(* With one client the maps agree with the requests too: every token on the *)
(* map counts its unsettled requests, and every record in flight has a      *)
(* leader under the token on the map.                                       *)
THEOREM OneClientAgrees ==
  ASSUME NEW CONSTANT c, Caches(c)!CacheAssumption, \A i, j \in c.installations : i = j
  PROVE  Caches(c)!Spec => []Caches(c)!InFlightAgrees
<1>1. Caches(c)!Init => CacheInv(c)
  BY CacheInit
<1>2. CacheInv(c) /\ [Caches(c)!Next]_(Caches(c)!vars) => CacheInv(c)'
  BY CacheStep
<1>3. CacheInv(c) => Caches(c)!InFlightAgrees
  BY CacheAgrees DEF One
<1> QED
  BY <1>1, <1>2, <1>3, PTL DEF Caches!Spec

LEMMA PartsHaveOne == \A p \in DOMAIN Instances : p # "pair" => One(Instances[p])
BY DEF Instances, One, Keys, Chain, Forms, Tags, Leases, Three, Mixed, Cleared

(* The run's behaviours, but those of two clients.                          *)
THEOREM InFlightAgreesHolds == ASSUME "pair" \notin Parts PROVE MCSpec => []InFlightAgrees
<1> DEFINE Inv == part \in Parts /\ \A p \in Parts : part = p => CacheInv(Instances[p])
<1>1. MCInit => Inv
  BY CacheInit, CachesAssumption DEF MCInit
<1>2. Inv /\ [MCNext]_mcvars => Inv'
  <2> SUFFICES ASSUME Inv, [MCNext]_mcvars PROVE Inv'
    OBVIOUS
  <2>1. part' = part
    BY DEF MCNext, mcvars
  <2>2. ASSUME NEW p \in Parts, part = p PROVE CacheInv(Instances[p])'
    <3>1. CacheInv(Instances[p]) /\ Caches(Instances[p])!CacheAssumption
      BY <2>2, CachesAssumption
    <3>2. [Caches(Instances[p])!Next]_(Caches(Instances[p])!vars)
      BY <2>2 DEF MCNext, mcvars, Caches!vars
    <3> QED
      BY <3>1, <3>2, CacheStep
  <2> QED
    BY <2>1, <2>2
<1>3. Inv => InFlightAgrees
  <2> SUFFICES ASSUME Inv PROVE InFlightAgrees
    OBVIOUS
  <2>1. ASSUME NEW p \in Parts, part = p PROVE Caches(Instances[p])!InFlightAgrees
    <3>1. CacheInv(Instances[p]) /\ Caches(Instances[p])!CacheAssumption /\ One(Instances[p])
      BY <2>1, CachesAssumption, PartsHaveOne
    <3> QED
      BY <3>1, CacheAgrees
  <2> QED
    BY <2>1 DEF InFlightAgrees
<1> QED
  BY <1>1, <1>2, <1>3, PTL DEF MCSpec

----------------------------------------------------------------------------
(* The order of operations.                                                 *)
Uniform(c) == \A f, g \in c.configs : f.cached /\ g.cached => f.tags = g.tags
Ordered(c) == "clear" \in c.kinds => "set" \notin c.kinds /\ "update" \notin c.kinds

Labels(c) == UNION {f.tags : f \in {g \in c.configs : g.cached}}

Issued(o) == op[o].pc # "new"
Open(o) == op[o].pc \in {"waits", "runs"}
KeyKinds == {"delete", "set", "update"}

(* Operations on a key are a lane, and invalidations of a tag.              *)
Lane(c, w) == IF w = "key" THEN c.keys ELSE c.tags
Last(w, z) == IF w = "key" THEN keyOp[z] ELSE tagOp[z]
In(o, w, z) ==
    /\ Issued(o)
    /\ IF w = "key" THEN op[o].kind \in KeyKinds /\ op[o].key = z ELSE op[o].kind = "tags" /\ z \in op[o].tags
Behind(o, w, z) == In(o, w, z) \/ (w = "key" /\ Issued(o) /\ op[o].kind = "tags")

(* Who waits for W waits for the lane up to o at least.                     *)
Blocked(c, o, w, z, W) == \E p \in W \cap c.operations : In(p, w, z) /\ Open(p) /\ op[p].at >= op[o].at

Numbered(c) ==
    /\ \A o \in c.operations : Issued(o) => op[o].at \in 1..Caches(c)!Epoch
    /\ \A o, p \in c.operations : Issued(o) /\ Issued(p) /\ op[o].at = op[p].at => o = p

Chained(c) == \A w \in {"key", "tag"} : \A z \in Lane(c, w) : \A o \in c.operations :
    In(o, w, z) /\ Open(o) =>
        /\ Last(w, z) # None /\ Blocked(c, o, w, z, {Last(w, z)})
        /\ \A p \in c.operations : Behind(p, w, z) /\ op[p].at > op[o].at =>
              op[p].pc = "waits" /\ Blocked(c, o, w, z, op[p].waits)

(* What the kind of an operation says of it.                                *)
Shaped(c) == \A o \in c.operations : Issued(o) =>
    /\ op[o].kind \in (c.kinds \cup {"tags"}) \cap Operations
    /\ op[o].kind \in KeyKinds => op[o].key \in c.keys
    /\ op[o].kind = "set" => op[o].tags = Labels(c)
    /\ op[o].kind = "clear" => op[o].pc # "waits"

(* A running operation has one call in the queue.                           *)
Mine(a, o) ==
    /\ op[o].pc = "runs" /\ a.key = op[o].key
    /\ IF op[o].kind = "update" THEN a.call \in {"get", "set", "delete"} ELSE a.call = op[o].kind
    /\ op[o].kind = "update" /\ a.call = "set" => a.entry.born = op[o].at
    /\ a.call = "delete" => a.entry = None

Queued(c) ==
    /\ \A j \in DOMAIN calls : IF calls[j].by \in c.operations THEN Mine(calls[j], calls[j].by)
                               ELSE /\ calls[j].call = "set" => calls[j].key \in c.keys
                                    /\ calls[j].call # "set" => calls[j].entry = None
    /\ \A i, j \in DOMAIN calls : calls[i].by = calls[j].by /\ calls[i].by \in c.operations => i = j
    /\ \A o \in c.operations : op[o].pc = "runs" => \E j \in DOMAIN calls : calls[j].by = o

(* Does operation o concern the requests for k1?                            *)
Hits(c, o, k1) ==
    /\ Issued(o)
    /\ \/ op[o].kind = "clear" \/ (op[o].kind = "tags" /\ op[o].tags \cap Labels(c) # {})
       \/ op[o].kind \in KeyKinds /\ op[o].key = k1

Labelled(c, e) == e # None => e.tags = Labels(c)
AllLabelled(c) ==
    /\ \A k1 \in c.keys : Labelled(c, store[k1])
    /\ \A j \in DOMAIN calls : Labelled(c, calls[j].entry)
    /\ \A x \in Caches(c)!Caller :
         /\ token[x].tags \subseteq Labels(c)
         /\ Labelled(c, req[x].cond) /\ Labelled(c, req[x].seen)
         /\ req[x].token # None => token[req[x].token].tags = Labels(c) /\ req[x].conf.cached
    /\ \A k1 \in c.keys : live[k1].gen # None => token[live[k1].gen].tags = Labels(c)

(* A request whose token is on the map saw no invalidation since it began.  *)
Unhit(c) == \A x \in Caches(c)!Caller : Caches(c)!Current(x) =>
    \A o \in c.operations : Hits(c, o, req[x].key) => op[o].at <= req[x].born

Stored(c) == \A k1 \in c.keys : store[k1] # None =>
    \A o \in c.operations : Hits(c, o, k1) /\ op[o].pc = "done" => op[o].at <= store[k1].born

(* A response in the queue comes before the calls of later invalidations.   *)
Written(c) == \A j \in DOMAIN calls : calls[j].by \in Caches(c)!Caller /\ calls[j].call = "set" =>
    \A o \in c.operations : Hits(c, o, calls[j].key) /\ op[o].at > calls[j].entry.born =>
        op[o].pc # "done" /\ \A i \in DOMAIN calls : calls[i].by = o => j < i

DataInv(c) ==
    Numbered(c) /\ Shaped(c) /\ Chained(c) /\ Queued(c) /\ AllLabelled(c) /\ Unhit(c) /\ Stored(c) /\ Written(c)

----------------------------------------------------------------------------
(* An operation that was issued stays what it is.                           *)
Kept(o) ==
    /\ op'[o].kind = op[o].kind /\ op'[o].key = op[o].key /\ op'[o].tags = op[o].tags
    /\ op'[o].at = op[o].at /\ op'[o].waits = op[o].waits /\ op'[o].pc # "new"
    /\ op[o].pc \in {"done", "failed"} => op'[o].pc = op[o].pc

(* The queue loses its first d calls and gets n times the call a.           *)
Shift(d, a, n) ==
    /\ Len(calls') = Len(calls) - d + n
    /\ \A j \in DOMAIN calls' : calls'[j] = IF j <= Len(calls) - d THEN calls[j + d] ELSE a

Heads(o, d) == d = 1 /\ calls[1].by = o
Adds(o, a, n) == n = 1 /\ a.by = o

(* What a step does to the operations and to their calls.                   *)
Flow(c, d, a, n) ==
    /\ d \in {0, 1} /\ n \in {0, 1} /\ d <= Len(calls) /\ Shift(d, a, n)
    /\ \A o \in c.operations :
         /\ Issued(o) => Kept(o)
         /\ ~Issued(o) => op'[o].pc \in {"new", "waits", "runs"}
         /\ op'[o].pc \in {"done", "failed"} => op'[o].pc = op[o].pc \/ Heads(o, d)
         /\ Heads(o, d) /\ ~Adds(o, a, n) => op'[o].pc \in {"done", "failed"}
         /\ ~Heads(o, d) /\ op[o].pc = "runs" => op'[o].pc = "runs" /\ ~Adds(o, a, n)
         /\ op'[o].pc = "runs" /\ op[o].pc # "runs" => Adds(o, a, n)
         /\ Adds(o, a, n) => Mine(a, o)' /\ (Issued(o) => op[o].kind # "clear")
    /\ n = 1 /\ a.by \notin c.operations =>
         /\ a.call = "set" => a.key \in c.keys
         /\ a.call # "set" => a.entry = None

LEMMA Shifts ==
  ASSUME NEW S, calls \in Seq(S), NEW a \in S
  PROVE  /\ calls' = calls => Shift(0, a, 0)
         /\ calls' = Append(calls, a) => Shift(0, a, 1)
         /\ calls # <<>> /\ calls' = Tail(calls) => Shift(1, a, 0) /\ 1 <= Len(calls)
         /\ calls # <<>> /\ calls' = Append(Tail(calls), a) => Shift(1, a, 1) /\ 1 <= Len(calls)
<1>1. calls' = calls => Shift(0, a, 0)
  BY DEF Shift
<1>2. ASSUME calls' = Append(calls, a) PROVE Shift(0, a, 1)
  BY <1>2 DEF Shift
<1>3. ASSUME calls # <<>>
      PROVE  /\ Tail(calls) \in Seq(S) /\ Len(Tail(calls)) = Len(calls) - 1 /\ 1 <= Len(calls)
             /\ \A j \in DOMAIN Tail(calls) : Tail(calls)[j] = calls[j + 1]
  BY <1>3
<1>4. ASSUME calls # <<>>, calls' = Tail(calls) PROVE Shift(1, a, 0)
  BY <1>3, <1>4 DEF Shift
<1>5. ASSUME calls # <<>>, calls' = Append(Tail(calls), a) PROVE Shift(1, a, 1)
  <2>1. PICK left : left = Tail(calls)
    OBVIOUS
  <2>2. left \in Seq(S) /\ calls' = Append(left, a) /\ Len(left) = Len(calls) - 1 /\ Len(calls) \in Nat
        /\ \A j \in DOMAIN left : left[j] = calls[j + 1]
    BY <1>3, <1>5, <2>1
  <2>3. Len(calls') = Len(left) + 1 /\ DOMAIN calls' = 1..Len(left) + 1 /\ DOMAIN left = 1..Len(left)
        /\ \A j \in 1..Len(left) + 1 : calls'[j] = IF j <= Len(left) THEN left[j] ELSE a
    BY <2>2
  <2> QED
    BY <2>2, <2>3 DEF Shift
<1> QED
  BY <1>1, <1>2, <1>3, <1>4, <1>5

LEMMA QueueFacts ==
  ASSUME NEW c, CacheInv(c), NEW d \in {0, 1}, NEW n \in {0, 1}, d <= Len(calls), NEW a, Shift(d, a, n),
         calls' \in Seq(CallRecord(c))
  PROVE  /\ Len(calls) \in Nat /\ DOMAIN calls = 1..Len(calls) /\ DOMAIN calls' = 1..(Len(calls) - d + n)
         /\ \A j \in DOMAIN calls' : \/ j \in Nat /\ j + d \in DOMAIN calls /\ calls'[j] = calls[j + d]
                                     \/ n = 1 /\ j = Len(calls) - d + 1 /\ calls'[j] = a
         /\ \A i \in DOMAIN calls : i > d => i \in Nat /\ i - d \in DOMAIN calls' /\ calls'[i - d] = calls[i]
         /\ n = 1 => Len(calls) - d + 1 \in DOMAIN calls' /\ calls'[Len(calls) - d + 1] = a
<1>1. calls \in Seq(CallRecord(c))
  BY TypedFacts
<1>2. Len(calls) \in Nat /\ DOMAIN calls = 1..Len(calls) /\ DOMAIN calls' = 1..Len(calls') /\ Len(calls') \in Nat
  BY <1>1
<1> QED
  BY <1>2 DEF Shift

LEMMA QueuedKept ==
  ASSUME NEW c, CacheInv(c), Queued(c), NEW d, NEW n, NEW a, Flow(c, d, a, n), calls' \in Seq(CallRecord(c))
  PROVE  Queued(c)'
<1>1. /\ Len(calls) \in Nat /\ DOMAIN calls = 1..Len(calls) /\ d \in {0, 1} /\ n \in {0, 1}
      /\ \A j \in DOMAIN calls' : \/ j \in Nat /\ j + d \in DOMAIN calls /\ calls'[j] = calls[j + d]
                                  \/ n = 1 /\ j = Len(calls) - d + 1 /\ calls'[j] = a
      /\ \A i \in DOMAIN calls : i > d => i \in Nat /\ i - d \in DOMAIN calls' /\ calls'[i - d] = calls[i]
      /\ n = 1 => Len(calls) - d + 1 \in DOMAIN calls' /\ calls'[Len(calls) - d + 1] = a
  BY QueueFacts DEF Flow
<1>2. ASSUME NEW j \in DOMAIN calls, j > d, calls[j].by \in c.operations
      PROVE  /\ op[calls[j].by].pc = "runs" /\ ~Heads(calls[j].by, d)
             /\ ~Adds(calls[j].by, a, n) /\ op'[calls[j].by].pc = "runs" /\ Kept(calls[j].by)
  <2>1. op[calls[j].by].pc = "runs"
    BY <1>2 DEF Queued, Mine
  <2>2. ~Heads(calls[j].by, d)
    <3>1. Heads(calls[j].by, d) => 1 \in DOMAIN calls /\ j # 1
      BY <1>1, <1>2 DEF Heads
    <3> QED
      BY <1>2, <3>1 DEF Queued, Heads
  <2> QED
    BY <1>2, <2>1, <2>2 DEF Flow, Issued
<1>3. ASSUME NEW j \in DOMAIN calls', NEW b, b = calls'[j]
      PROVE  IF b.by \in c.operations THEN Mine(b, b.by)'
             ELSE /\ b.call = "set" => b.key \in c.keys
                  /\ b.call # "set" => b.entry = None
  <2>1. CASE j \in Nat /\ j + d \in DOMAIN calls /\ b = calls[j + d]
    <3>1. j + d > d
      BY <1>1, <1>3, QueueFacts DEF Flow
    <3>2. ASSUME b.by \in c.operations PROVE Mine(b, b.by)'
      <4>1. Mine(b, b.by)
        BY <2>1, <3>2 DEF Queued
      <4>2. Kept(b.by) /\ op'[b.by].pc = "runs"
        BY <1>2, <2>1, <3>1, <3>2
      <4> QED
        BY <4>1, <4>2 DEF Mine, Kept
    <3>3. CASE b.by \notin c.operations
      BY <2>1, <3>3 DEF Queued
    <3> QED
      BY <3>2, <3>3
  <2>2. CASE n = 1 /\ b = a
    BY <2>2 DEF Flow, Adds
  <2> QED
    BY <1>1, <1>3, <2>1, <2>2
<1>4. ASSUME NEW i \in DOMAIN calls', NEW j \in DOMAIN calls', calls'[i].by = calls'[j].by, calls'[i].by \in c.operations
      PROVE  i = j
  <2>1. /\ (i \in Nat /\ i + d \in DOMAIN calls /\ calls'[i] = calls[i + d]) \/ (n = 1 /\ i = Len(calls) - d + 1 /\ calls'[i] = a)
        /\ (j \in Nat /\ j + d \in DOMAIN calls /\ calls'[j] = calls[j + d]) \/ (n = 1 /\ j = Len(calls) - d + 1 /\ calls'[j] = a)
    BY <1>1
  <2>2. ASSUME NEW y \in DOMAIN calls', y + d \in DOMAIN calls, calls'[y] = calls[y + d], calls[y + d].by \in c.operations, n = 1
        PROVE  calls[y + d].by # a.by
    <3>1. y + d > d
      BY <1>1, <2>2, QueueFacts DEF Flow
    <3> QED
      BY <1>2, <2>2, <3>1 DEF Adds
  <2>3. i + d = j + d => i = j
    BY <1>1, QueueFacts DEF Flow
  <2> QED
    BY <1>4, <2>1, <2>2, <2>3 DEF Queued
<1>5. ASSUME NEW o \in c.operations, op'[o].pc = "runs" PROVE \E j \in DOMAIN calls' : calls'[j].by = o
  <2>1. CASE Adds(o, a, n)
    BY <1>1, <2>1 DEF Adds
  <2>2. CASE ~Adds(o, a, n)
    <3>1. op[o].pc = "runs" /\ ~Heads(o, d)
      BY <1>5, <2>2 DEF Flow
    <3>2. PICK j \in DOMAIN calls : calls[j].by = o
      BY <3>1 DEF Queued
    <3>3. j > d
      BY <1>1, <3>1, <3>2 DEF Heads
    <3> QED
      BY <1>1, <3>2, <3>3
  <2> QED
    BY <2>1, <2>2
<1> QED
  BY <1>3, <1>4, <1>5 DEF Queued

LEMMA HitsKept ==
  ASSUME NEW c, NEW o, Issued(o), Kept(o), NEW k1
  PROVE  Issued(o)' /\ (Hits(c, o, k1)' <=> Hits(c, o, k1))
BY DEF Kept, Hits, Issued

(* A response may enter the queue when no invalidation came since it was    *)
(* asked for.                                                               *)
LEMMA WrittenKept ==
  ASSUME NEW c, Caches(c)!CacheAssumption, CacheInv(c), Queued(c), Written(c), NEW d, NEW n, NEW a, Flow(c, d, a, n),
         calls' \in Seq(CallRecord(c)), Queued(c)',
         n = 1 /\ a.by \in Caches(c)!Caller /\ a.call = "set" =>
            \A o \in c.operations : Hits(c, o, a.key)' => ~(op'[o].at > a.entry.born)
  PROVE  Written(c)'
<1>1. /\ Len(calls) \in Nat /\ DOMAIN calls = 1..Len(calls) /\ d \in {0, 1} /\ n \in {0, 1}
      /\ DOMAIN calls' = 1..(Len(calls) - d + n)
      /\ \A j \in DOMAIN calls' : \/ j \in Nat /\ j + d \in DOMAIN calls /\ calls'[j] = calls[j + d]
                                  \/ n = 1 /\ j = Len(calls) - d + 1 /\ calls'[j] = a
      /\ \A j \in DOMAIN calls' : j + d > d
  <2>1. d \in {0, 1} /\ n \in {0, 1}
    BY DEF Flow
  <2>2. \A j \in 1..(Len(calls) - d + n) : j + d > d
    BY <2>1
  <2> QED
    BY <2>1, <2>2, QueueFacts DEF Flow
<1>2. Caches(c)!Caller \cap c.operations = {}
  BY DEF Caches!CacheAssumption
<1>3. ASSUME NEW j \in DOMAIN calls', NEW b, b = calls'[j], b.by \in Caches(c)!Caller, b.call = "set",
             NEW o \in c.operations, Hits(c, o, b.key)', op'[o].at > b.entry.born
      PROVE  op'[o].pc # "done" /\ \A i \in DOMAIN calls' : calls'[i].by = o => j < i
  <2>1. j \in Nat /\ j + d \in DOMAIN calls /\ b = calls[j + d]
    BY <1>1, <1>3
  <2>2. CASE ~Issued(o)
    <3>1. op'[o].pc # "done"
      BY <2>2 DEF Flow
    <3>2. ASSUME NEW i \in DOMAIN calls', calls'[i].by = o PROVE j < i
      <4>1. ASSUME i \in Nat, i + d \in DOMAIN calls, calls'[i] = calls[i + d] PROVE FALSE
        <5>1. Mine(calls[i + d], o)
          BY <3>2, <4>1 DEF Queued
        <5> QED
          BY <2>2, <5>1 DEF Mine, Issued
      <4>2. n = 1 /\ i = Len(calls) - d + 1
        BY <1>1, <3>2, <4>1
      <4> QED
        BY <1>1, <2>1, <4>2
    <3> QED
      BY <3>1, <3>2
  <2>3. CASE Issued(o)
    <3>1. Kept(o) /\ Hits(c, o, b.key)
      BY <1>3, <2>3, HitsKept DEF Flow
    <3>2. op[o].pc # "done" /\ \A i \in DOMAIN calls : calls[i].by = o => j + d < i
      BY <1>3, <2>1, <3>1 DEF Written, Kept
    <3>3. ~Heads(o, d)
      <4>1. Heads(o, d) => 1 \in DOMAIN calls /\ d = 1
        BY <1>1, <2>1 DEF Heads
      <4>2. ~(j + d < 1)
        BY <1>1, <2>1
      <4> QED
        BY <3>2, <4>1, <4>2 DEF Heads
    <3>4. op'[o].pc # "done"
      BY <3>2, <3>3 DEF Flow
    <3>5. ASSUME NEW i \in DOMAIN calls', calls'[i].by = o PROVE j < i
      <4>1. CASE i \in Nat /\ i + d \in DOMAIN calls /\ calls'[i] = calls[i + d]
        <5>1. j + d < i + d
          BY <3>2, <3>5, <4>1
        <5> QED
          BY <1>1, <2>1, <4>1, <5>1
      <4>2. CASE n = 1 /\ i = Len(calls) - d + 1
        BY <1>1, <2>1, <4>2
      <4> QED
        BY <1>1, <3>5, <4>1, <4>2
    <3> QED
      BY <3>4, <3>5
  <2> QED
    BY <2>2, <2>3
<1> QED
  BY <1>3 DEF Written

(* What the store may hold after a step.                                    *)
LEMMA StoredKept ==
  ASSUME NEW c, CacheInv(c), Stored(c), NEW d, NEW n, NEW a, Flow(c, d, a, n),
         \A k1 \in c.keys : store'[k1] # None =>
            \/ /\ store[k1] # None /\ store'[k1].born = store[k1].born
               /\ \A o \in c.operations : Heads(o, d) /\ Hits(c, o, k1) /\ op'[o].pc = "done" =>
                     op[o].pc = "done" \/ op[o].at <= store[k1].born
            \/ \A o \in c.operations : Hits(c, o, k1)' /\ op'[o].pc = "done" => op'[o].at <= store'[k1].born
  PROVE  Stored(c)'
<1>1. ASSUME NEW k1 \in c.keys, store'[k1] # None, NEW o \in c.operations, Hits(c, o, k1)', op'[o].pc = "done",
             store[k1] # None, store'[k1].born = store[k1].born,
             Heads(o, d) /\ Hits(c, o, k1) => op[o].pc = "done" \/ op[o].at <= store[k1].born
      PROVE  op'[o].at <= store'[k1].born
  <2>1. Issued(o)
    BY <1>1 DEF Flow
  <2>2. Kept(o) /\ Hits(c, o, k1)
    BY <1>1, <2>1, HitsKept DEF Flow
  <2>3. op[o].pc = "done" \/ Heads(o, d)
    BY <1>1 DEF Flow
  <2> QED
    BY <1>1, <2>2, <2>3 DEF Stored, Kept
<1> QED
  BY <1>1 DEF Stored

(* A new operation takes the tokens of what it hits off the map.            *)
LEMMA UnhitKept ==
  ASSUME NEW c, CacheInv(c), Unhit(c), NEW d, NEW n, NEW a, Flow(c, d, a, n),
         \A x \in Caches(c)!Caller : \A k1 : Caches(c)!Current(x)' /\ k1 = req'[x].key =>
            \/ Caches(c)!Current(x) /\ req'[x].born = req[x].born /\ k1 = req[x].key
            \/ \A o \in c.operations : Hits(c, o, k1)' => op'[o].at <= req'[x].born,
         \A x \in Caches(c)!Caller : \A k1 : k1 = req'[x].key =>
            \A o \in c.operations : ~Issued(o) /\ Hits(c, o, k1)' => ~Caches(c)!Current(x)'
  PROVE  Unhit(c)'
<1>1. ASSUME NEW x \in Caches(c)!Caller, Caches(c)!Current(x)', NEW k1, k1 = req'[x].key,
             NEW o \in c.operations, Hits(c, o, k1)'
      PROVE  op'[o].at <= req'[x].born
  <2>1. Issued(o)
    BY <1>1
  <2>2. Kept(o) /\ (Hits(c, o, k1)' <=> Hits(c, o, k1))
    BY <2>1, HitsKept DEF Flow
  <2> QED
    BY <1>1, <2>2 DEF Unhit, Kept
<1>2. ASSUME NEW x \in Caches(c)!Caller, Caches(c)!Current(x)', NEW o \in c.operations, (Hits(c, o, req[x].key))'
      PROVE  op'[o].at <= req'[x].born
  <2>1. PICK k1 : k1 = req'[x].key
    OBVIOUS
  <2>2. Hits(c, o, k1)'
    BY <1>2, <2>1 DEF Hits
  <2> QED
    BY <1>1, <1>2, <2>1, <2>2
<1> QED
  BY <1>2 DEF Unhit

----------------------------------------------------------------------------
LEMMA SameNumbers ==
  ASSUME NEW c, Numbered(c), \A o \in c.operations : IF Issued(o) THEN Kept(o) ELSE ~Issued(o)'
  PROVE  Numbered(c)'
<1>1. \A o \in c.operations : Issued(o)' <=> Issued(o)
  BY DEF Kept, Issued
<1>2. Caches(c)!Epoch' = Caches(c)!Epoch
  <2>1. {o \in c.operations : op'[o].pc # "new"} = {o \in c.operations : op[o].pc # "new"}
    BY <1>1 DEF Issued
  <2> QED
    BY <2>1, Zenon DEF Caches!Epoch
<1>3. \A o \in c.operations : Issued(o) => op'[o].at = op[o].at
  BY DEF Kept
<1> QED
  BY <1>1, <1>2, <1>3 DEF Numbered

(* Operation o is issued: it waits for the last of the lanes it is behind,  *)
(* and is the last of those it is in.                                       *)
IssueOf(c, o) ==
    /\ ~Issued(o) /\ Issued(o)' /\ op'[o].at = Caches(c)!Epoch + 1
    /\ op'[o].pc = (IF op'[o].waits = {} THEN "runs" ELSE "waits")
    /\ \A p \in c.operations : p # o => op'[p] = op[p]
    /\ \A w \in {"key", "tag"} : \A z \in Lane(c, w) :
         /\ Last(w, z)' = IF In(o, w, z)' THEN o ELSE Last(w, z)
         /\ Behind(o, w, z)' /\ Last(w, z) # None => Last(w, z) \in op'[o].waits

LEMMA NumberedByIssue ==
  ASSUME NEW CONSTANT c, Caches(c)!CacheAssumption, Numbered(c), NEW o \in c.operations, IssueOf(c, o)
  PROVE  Numbered(c)'
<1> DEFINE before == {p \in c.operations : op[p].pc # "new"}
           after == {p \in c.operations : op'[p].pc # "new"}
<1>1. after = before \cup {o} /\ o \notin before /\ before \subseteq c.operations
  BY DEF IssueOf, Issued
<1>2. IsFiniteSet(before)
  BY <1>1, Counted, FS_Subset DEF Caches!CacheAssumption
<1>3. Caches(c)!Epoch = Cardinality(before) /\ Caches(c)!Epoch' = Cardinality(after)
  BY Counted, Zenon DEF Caches!Epoch
<1>4. Cardinality(after) = Cardinality(before) + 1 /\ Cardinality(before) \in Nat
  BY <1>1, <1>2, FS_AddElement, FS_CardinalityType
<1> HIDE DEF before, after
<1>5. Caches(c)!Epoch' = Caches(c)!Epoch + 1 /\ Caches(c)!Epoch \in Nat /\ op'[o].at = Caches(c)!Epoch'
  BY <1>3, <1>4 DEF IssueOf
<1>6. \A p \in c.operations : p # o => op'[p] = op[p]
  BY DEF IssueOf
<1>7. \A p \in c.operations : Issued(p) => op[p].at \in 1..Caches(c)!Epoch
  BY DEF Numbered
<1>8. \A p, q \in c.operations : Issued(p) /\ Issued(q) /\ op[p].at = op[q].at => p = q
  BY DEF Numbered
<1>9. ASSUME NEW p \in c.operations, p # o, Issued(p)'
      PROVE  Issued(p) /\ op'[p].at = op[p].at /\ op'[p].at \in 1..Caches(c)!Epoch /\ op'[p].at # op'[o].at
  BY <1>5, <1>6, <1>7, <1>9 DEF Issued
<1>10. ASSUME NEW p \in c.operations, Issued(p)' PROVE op'[p].at \in 1..Caches(c)!Epoch'
  BY <1>5, <1>9, <1>10
<1>11. ASSUME NEW p \in c.operations, NEW q \in c.operations, Issued(p)', Issued(q)', op'[p].at = op'[q].at
       PROVE  p = q
  BY <1>8, <1>9, <1>11
<1> QED
  BY <1>10, <1>11 DEF Numbered

LEMMA BlockedFacts ==
  ASSUME NEW c, Numbered(c), Chained(c), NEW w \in {"key", "tag"}, NEW z \in Lane(c, w), NEW o \in c.operations,
         In(o, w, z), Open(o)
  PROVE  /\ Last(w, z) # None /\ Last(w, z) \in c.operations /\ In(Last(w, z), w, z) /\ Open(Last(w, z))
         /\ \A W : Blocked(c, o, w, z, W) =>
               \E p \in W \cap c.operations : In(p, w, z) /\ Open(p) /\ op[p].at >= op[o].at /\ (p = o \/ op[p].pc = "waits")
         /\ \A p \in c.operations : In(p, w, z) /\ Open(p) /\ op[p].pc = "runs" => p = o \/ op[p].at < op[o].at
<1>1. Last(w, z) # None /\ Blocked(c, o, w, z, {Last(w, z)})
  BY DEF Chained
<1>2. ASSUME NEW p \in c.operations, In(p, w, z), op[p].at >= op[o].at, p # o PROVE op[p].pc = "waits"
  <2>1. Issued(p) /\ Issued(o)
    BY <1>2 DEF In
  <2>2. op[p].at \in Nat /\ op[o].at \in Nat /\ op[p].at # op[o].at
    BY <1>2, <2>1 DEF Numbered
  <2>3. op[p].at > op[o].at
    BY <1>2, <2>2
  <2> QED
    BY <1>2, <2>3 DEF Chained, Behind
<1>3. \A p \in c.operations : In(p, w, z) => op[p].at \in Nat
  BY DEF Numbered, In
<1> QED
  BY <1>1, <1>2, <1>3 DEF Blocked

LEMMA ChainedByIssue ==
  ASSUME NEW CONSTANT c, Caches(c)!CacheAssumption, Numbered(c), Chained(c), NEW o \in c.operations, IssueOf(c, o)
  PROVE  Chained(c)'
<1>1. Numbered(c)'
  BY NumberedByIssue
<1>2. \A p \in c.operations : p # o => op'[p] = op[p]
  BY DEF IssueOf
<1>3. \A p \in c.operations : Issued(p) => op[p].at < op'[o].at /\ op[p].at \in Nat
  <2>1. Caches(c)!Epoch \in Nat /\ op'[o].at = Caches(c)!Epoch + 1
    <3>1. Caches(c)!Epoch \in 0..Cardinality(c.operations)
      BY StampFacts, Counted, Zenon DEF Caches!Stamp
    <3> QED
      BY <3>1 DEF IssueOf
  <2> QED
    BY <2>1 DEF Numbered
<1>4. ASSUME NEW w \in {"key", "tag"}, NEW z \in Lane(c, w), NEW p \in c.operations, p # o
      PROVE  (In(p, w, z)' <=> In(p, w, z)) /\ (Open(p)' <=> Open(p)) /\ (Behind(p, w, z)' <=> Behind(p, w, z))
  BY <1>2, <1>4 DEF In, Open, Behind, Issued
<1>5. Open(o)' /\ o \in c.operations
  BY DEF IssueOf, Open
<1>6. ASSUME NEW w \in {"key", "tag"}, NEW z \in Lane(c, w), NEW p \in c.operations, In(p, w, z)', Open(p)'
      PROVE  Last(w, z)' # None /\ Blocked(c, p, w, z, {Last(w, z)})'
  <2>1. CASE In(o, w, z)'
    <3>1. Last(w, z)' = o /\ o # None
      BY <2>1 DEF IssueOf, Caches!CacheAssumption
    <3>2. op'[o].at >= op'[p].at
      <4>1. CASE p = o
        <5>1. op'[o].at \in Nat
          BY <1>1, <2>1 DEF Numbered, In
        <5> QED
          BY <4>1, <5>1
      <4>2. CASE p # o
        <5>1. Issued(p)
          BY <1>4, <1>6, <4>2 DEF In
        <5>2. op'[p].at = op[p].at /\ op[p].at \in Nat /\ op[p].at < op'[o].at /\ op'[o].at \in Nat
          BY <1>1, <1>2, <1>3, <2>1, <4>2, <5>1 DEF Numbered, In
        <5> QED
          BY <5>2
      <4> QED
        BY <4>1, <4>2
    <3> QED
      BY <1>5, <2>1, <3>1, <3>2 DEF Blocked
  <2>2. CASE ~In(o, w, z)'
    <3>1. p # o /\ Last(w, z)' = Last(w, z)
      BY <1>6, <2>2 DEF IssueOf
    <3>2. In(p, w, z) /\ Open(p)
      BY <1>4, <1>6, <3>1
    <3>3. Last(w, z) # None /\ Blocked(c, p, w, z, {Last(w, z)})
      BY <3>2 DEF Chained
    <3>4. PICK b \in {Last(w, z)} \cap c.operations : In(b, w, z) /\ Open(b) /\ op[b].at >= op[p].at
      BY <3>3 DEF Blocked
    <3>5. b # o
      BY <3>4 DEF In, IssueOf
    <3>6. In(b, w, z)' /\ Open(b)' /\ op'[b].at >= op'[p].at
      BY <1>2, <1>4, <3>1, <3>4, <3>5
    <3> QED
      BY <3>1, <3>3, <3>4, <3>6 DEF Blocked
  <2> QED
    BY <2>1, <2>2
<1>7. ASSUME NEW w \in {"key", "tag"}, NEW z \in Lane(c, w), NEW p \in c.operations, In(p, w, z)', Open(p)',
             NEW q \in c.operations, Behind(q, w, z)', op'[q].at > op'[p].at
      PROVE  op'[q].pc = "waits" /\ Blocked(c, p, w, z, op[q].waits)'
  <2>1. p # o
    <3>1. SUFFICES ASSUME p = o PROVE FALSE
      OBVIOUS
    <3>2. q # o
      BY <1>1, <1>7, <3>1 DEF Numbered, In
    <3>3. Issued(q) /\ op'[q].at = op[q].at
      BY <1>2, <1>4, <1>7, <3>2 DEF Behind, In
    <3> QED
      BY <1>1, <1>3, <1>7, <3>1, <3>3 DEF Numbered, In
  <2>2. In(p, w, z) /\ Open(p) /\ op'[p] = op[p]
    BY <1>2, <1>4, <1>7, <2>1
  <2>3. CASE q = o
    <3>1. Last(w, z) # None /\ Blocked(c, p, w, z, {Last(w, z)})
      BY <2>2 DEF Chained
    <3>2. PICK b \in {Last(w, z)} \cap c.operations : In(b, w, z) /\ Open(b) /\ op[b].at >= op[p].at
      BY <3>1 DEF Blocked
    <3>3. b \in op'[o].waits
      BY <1>7, <2>3, <3>1, <3>2 DEF IssueOf
    <3>4. b # o
      BY <3>2 DEF In, IssueOf
    <3>5. In(b, w, z)' /\ Open(b)' /\ op'[b].at >= op'[p].at
      BY <1>2, <1>4, <2>2, <3>2, <3>4
    <3>6. op'[o].pc = "waits"
      BY <3>3 DEF IssueOf
    <3> QED
      BY <2>3, <3>3, <3>5, <3>6 DEF Blocked
  <2>4. CASE q # o
    <3>1. Behind(q, w, z) /\ op'[q] = op[q]
      BY <1>2, <1>4, <1>7, <2>4
    <3>2. op[q].pc = "waits" /\ Blocked(c, p, w, z, op[q].waits)
      BY <1>7, <2>2, <3>1 DEF Chained
    <3>3. PICK b \in op[q].waits \cap c.operations : In(b, w, z) /\ Open(b) /\ op[b].at >= op[p].at
      BY <3>2 DEF Blocked
    <3>4. b # o
      BY <3>3 DEF In, IssueOf
    <3>5. In(b, w, z)' /\ Open(b)' /\ op'[b].at >= op'[p].at
      BY <1>2, <1>4, <2>2, <3>3, <3>4
    <3> QED
      BY <3>1, <3>2, <3>3, <3>5 DEF Blocked
  <2> QED
    BY <2>3, <2>4
<1> QED
  BY <1>6, <1>7 DEF Chained, Lane

(* An operation runs once nothing it waits for is open.                     *)
LEMMA ChainedByRun ==
  ASSUME NEW CONSTANT c, CacheInv(c), Numbered(c), Chained(c), NEW o \in c.operations, Caches(c)!RunOperation(o)
  PROVE  /\ Chained(c)' /\ op'[o] = [op[o] EXCEPT !.pc = "runs"]
         /\ \A p \in c.operations : p # o => op'[p] = op[p]
<1>1. /\ op[o].pc = "waits" /\ \A p \in op[o].waits : op[p].pc \in {"done", "failed"}
      /\ op' = [op EXCEPT ![o].pc = "runs"] /\ keyOp' = keyOp /\ tagOp' = tagOp
  BY Zenon DEF Caches!RunOperation
<1>2. op'[o] = [op[o] EXCEPT !.pc = "runs"] /\ \A p \in c.operations : p # o => op'[p] = op[p]
  BY <1>1 DEF CacheInv, Typed
<1>3. op[o] \in OpRecord(c)
  BY DEF CacheInv, Typed
<1>4. /\ op'[o].kind = op[o].kind /\ op'[o].key = op[o].key /\ op'[o].tags = op[o].tags /\ op'[o].at = op[o].at
      /\ op'[o].waits = op[o].waits /\ op'[o].pc = "runs"
  BY <1>2, <1>3 DEF OpRecord
<1>5. ASSUME NEW w \in {"key", "tag"}, NEW z \in Lane(c, w), NEW p \in c.operations
      PROVE  /\ In(p, w, z)' <=> In(p, w, z)
             /\ Open(p)' <=> Open(p)
             /\ Behind(p, w, z)' <=> Behind(p, w, z)
             /\ op'[p].at = op[p].at /\ op'[p].waits = op[p].waits
  <2>1. CASE p = o
    BY <1>1, <1>4, <2>1 DEF In, Open, Behind, Issued
  <2>2. CASE p # o
    BY <1>2, <2>2 DEF In, Open, Behind, Issued
  <2> QED
    BY <2>1, <2>2
<1>6. ASSUME NEW w \in {"key", "tag"}, NEW z \in Lane(c, w), NEW p \in c.operations, In(p, w, z), Open(p)
      PROVE  /\ Last(w, z)' # None /\ Blocked(c, p, w, z, {Last(w, z)})'
             /\ \A q \in c.operations : Behind(q, w, z)' /\ op'[q].at > op'[p].at =>
                   op'[q].pc = "waits" /\ Blocked(c, p, w, z, op[q].waits)'
  <2>1. Last(w, z)' = Last(w, z)
    BY <1>1 DEF Last
  <2>2. Last(w, z) # None /\ Blocked(c, p, w, z, {Last(w, z)})
    BY <1>6 DEF Chained
  <2>4. Blocked(c, p, w, z, {Last(w, z)})'
    BY <2>1, <2>2, <1>5 DEF Blocked
  <2>5. ASSUME NEW q \in c.operations, Behind(q, w, z)', op'[q].at > op'[p].at
        PROVE  op'[q].pc = "waits" /\ Blocked(c, p, w, z, op[q].waits)'
    <3>1. op[q].pc = "waits" /\ Blocked(c, p, w, z, op[q].waits)
      BY <1>5, <1>6, <2>5 DEF Chained
    <3>2. q # o
      BY <1>1, <3>1 DEF Blocked, Open
    <3> QED
      BY <1>2, <1>5, <3>1, <3>2 DEF Blocked
  <2> QED
    BY <2>1, <2>2, <2>4, <2>5
<1>7. Chained(c)'
  BY <1>5, <1>6 DEF Chained, Lane
<1> QED
  BY <1>2, <1>7

(* The running operation of a lane is its first, so whoever waits for the   *)
(* lane still waits for a later one when that settles.                      *)
LEMMA ChainedByFinish ==
  ASSUME NEW CONSTANT c, CacheInv(c), Numbered(c), Chained(c), NEW o \in c.operations, op[o].pc = "runs",
         NEW result \in {"done", "failed"}, Caches(c)!Finished(o, result)
  PROVE  /\ Chained(c)' /\ op'[o].pc = result /\ Kept(o)
         /\ \A p \in c.operations : p # o => op'[p] = op[p]
<1>1. /\ op' = [op EXCEPT ![o].pc = result]
      /\ keyOp' = [k1 \in c.keys |-> IF keyOp[k1] = o THEN None ELSE keyOp[k1]]
      /\ tagOp' = [t1 \in c.tags |-> IF tagOp[t1] = o THEN None ELSE tagOp[t1]]
  BY Zenon DEF Caches!Finished
<1>2. op'[o] = [op[o] EXCEPT !.pc = result] /\ \A p \in c.operations : p # o => op'[p] = op[p]
  BY <1>1 DEF CacheInv, Typed
<1>3. op[o] \in OpRecord(c)
  BY DEF CacheInv, Typed
<1>4. op'[o].pc = result
  BY <1>2, <1>3 DEF OpRecord
<1>5. ASSUME NEW w \in {"key", "tag"}, NEW z \in Lane(c, w), NEW p \in c.operations, p # o
      PROVE  /\ In(p, w, z)' <=> In(p, w, z)
             /\ Open(p)' <=> Open(p)
             /\ Behind(p, w, z)' <=> Behind(p, w, z)
             /\ op'[p] = op[p]
  BY <1>2, <1>5 DEF In, Open, Behind, Issued
<1>6. ASSUME NEW w \in {"key", "tag"}, NEW z \in Lane(c, w), NEW p \in c.operations, In(p, w, z)', Open(p)'
      PROVE  /\ Last(w, z)' # None /\ Blocked(c, p, w, z, {Last(w, z)})'
             /\ \A q \in c.operations : Behind(q, w, z)' /\ op'[q].at > op'[p].at =>
                   op'[q].pc = "waits" /\ Blocked(c, p, w, z, op[q].waits)'
  <2>1. p # o
    BY <1>4, <1>6 DEF Open
  <2>2. In(p, w, z) /\ Open(p) /\ op'[p] = op[p] /\ op[p].at \in Nat
    BY <1>5, <1>6, <2>1 DEF Numbered, In
  <2>3. \A W : Blocked(c, p, w, z, W) =>
           \E b \in W \cap c.operations : In(b, w, z) /\ Open(b) /\ op[b].at >= op[p].at /\ b # o
    <3>1. ASSUME NEW W, Blocked(c, p, w, z, W)
          PROVE  \E b \in W \cap c.operations : In(b, w, z) /\ Open(b) /\ op[b].at >= op[p].at /\ b # o
      <4>1. PICK b \in W \cap c.operations :
               In(b, w, z) /\ Open(b) /\ op[b].at >= op[p].at /\ (b = p \/ op[b].pc = "waits")
        BY <2>2, <3>1, BlockedFacts
      <4> QED
        BY <2>1, <4>1
    <3> QED
      BY <3>1
  <2>4. Last(w, z) # None /\ Blocked(c, p, w, z, {Last(w, z)})
    BY <2>2 DEF Chained
  <2>5. Last(w, z) # o
    BY <2>3, <2>4
  <2>6. Last(w, z)' = Last(w, z)
    <3>1. CASE w = "key"
      BY <1>1, <2>5, <3>1 DEF Last, Lane
    <3>2. CASE w = "tag"
      BY <1>1, <2>5, <3>2 DEF Last, Lane
    <3> QED
      BY <3>1, <3>2
  <2>7. Blocked(c, p, w, z, {Last(w, z)})'
    <3>1. PICK b \in {Last(w, z)} \cap c.operations : In(b, w, z) /\ Open(b) /\ op[b].at >= op[p].at /\ b # o
      BY <2>3, <2>4
    <3> QED
      BY <1>5, <2>2, <2>6, <3>1 DEF Blocked
  <2>8. ASSUME NEW q \in c.operations, Behind(q, w, z)', op'[q].at > op'[p].at
        PROVE  op'[q].pc = "waits" /\ Blocked(c, p, w, z, op[q].waits)'
    <3>1. op'[q].at = op[q].at /\ (Behind(q, w, z)' <=> Behind(q, w, z))
      <4>1. CASE q = o
        <5>1. op'[o].kind = op[o].kind /\ op'[o].key = op[o].key /\ op'[o].tags = op[o].tags /\ op'[o].at = op[o].at
          BY <1>2, <1>3 DEF OpRecord
        <5> QED
          BY <1>4, <4>1, <5>1 DEF Behind, In, Issued
      <4> QED
        BY <1>5, <4>1
    <3>2. op[q].pc = "waits" /\ Blocked(c, p, w, z, op[q].waits)
      BY <2>2, <2>8, <3>1 DEF Chained
    <3>3. q # o
      BY <3>2
    <3>4. PICK b \in op[q].waits \cap c.operations : In(b, w, z) /\ Open(b) /\ op[b].at >= op[p].at /\ b # o
      BY <2>3, <3>2
    <3> QED
      BY <1>5, <2>2, <3>2, <3>3, <3>4 DEF Blocked
  <2> QED
    BY <2>4, <2>6, <2>7, <2>8
<1>7. Chained(c)'
  BY <1>6 DEF Chained, Lane
<1>8. Kept(o)
  <2>1. \A v : [op[o] EXCEPT !.pc = v].kind = op[o].kind /\ [op[o] EXCEPT !.pc = v].key = op[o].key
             /\ [op[o] EXCEPT !.pc = v].tags = op[o].tags /\ [op[o] EXCEPT !.pc = v].at = op[o].at
             /\ [op[o] EXCEPT !.pc = v].waits = op[o].waits
    BY <1>3 DEF OpRecord
  <2> QED
    BY <1>2, <1>4, <2>1 DEF Kept
<1> QED
  BY <1>2, <1>4, <1>7, <1>8

----------------------------------------------------------------------------
(* A call the step of a request adds to the queue.                          *)
Asked(c, a) ==
    /\ a.by \in Caches(c)!Caller /\ Labelled(c, a.entry)
    /\ a.call # "set" => a.entry = None
    /\ a.call = "set" =>
          /\ a.key \in c.keys
          /\ Caches(c)!Current(a.by) /\ a.key = req[a.by].key /\ a.entry.born = req[a.by].born

(* A step of the requests: it takes at most a call of theirs off the queue  *)
(* and adds at most one.                                                    *)
Quiet(c, d, a, n) ==
    /\ op' = op /\ keyOp' = keyOp /\ tagOp' = tagOp
    /\ d \in {0, 1} /\ n \in {0, 1} /\ d <= Len(calls) /\ Shift(d, a, n)
    /\ d = 1 => calls[1].by \in Caches(c)!Caller
    /\ n = 1 => Asked(c, a)

(* What a request with a current token says of its past stays true.         *)
Remains(c) == \A x \in Caches(c)!Caller : \A k1 : Caches(c)!Current(x)' /\ k1 = req'[x].key =>
    \/ Caches(c)!Current(x) /\ req'[x].born = req[x].born /\ k1 = req[x].key
    \/ \A o \in c.operations : Hits(c, o, k1)' => op'[o].at <= req'[x].born

(* An entry the store gets is as new as the operations that are done.       *)
StoreKeeps(c) == \A k1 \in c.keys :
    /\ Labelled(c, store'[k1])
    /\ store'[k1] # None =>
         \/ store[k1] # None /\ store'[k1].born = store[k1].born
         \/ \A o \in c.operations : Hits(c, o, k1) /\ op[o].pc = "done" => op[o].at <= store'[k1].born

LEMMA QuietFlow ==
  ASSUME NEW CONSTANT c, Caches(c)!CacheAssumption, CacheInv(c), Numbered(c), Shaped(c), Chained(c),
         NEW d, NEW a, NEW n, Quiet(c, d, a, n)
  PROVE  Flow(c, d, a, n) /\ Numbered(c)' /\ Shaped(c)' /\ Chained(c)'
<1>1. op' = op /\ keyOp' = keyOp /\ tagOp' = tagOp
  BY DEF Quiet
<1>2. Caches(c)!Caller \cap c.operations = {}
  BY DEF Caches!CacheAssumption
<1>3. \A o \in c.operations : (Issued(o) => Kept(o)) /\ (Issued(o)' <=> Issued(o))
  BY <1>1 DEF Kept, Issued
<1>4. Numbered(c)'
  BY <1>3, SameNumbers
<1>5. Shaped(c)' /\ Chained(c)'
  <2>1. Shaped(c)'
    BY <1>1 DEF Shaped, Issued
  <2>2. \A w \in {"key", "tag"} : \A z \in Lane(c, w) : \A o \in c.operations :
           (In(o, w, z)' <=> In(o, w, z)) /\ (Open(o)' <=> Open(o)) /\ (Behind(o, w, z)' <=> Behind(o, w, z))
           /\ Last(w, z)' = Last(w, z)
    BY <1>1 DEF In, Open, Behind, Issued, Last
  <2>3. ASSUME NEW w \in {"key", "tag"}, NEW z \in Lane(c, w), NEW o \in c.operations, In(o, w, z), Open(o)
        PROVE  /\ Last(w, z)' # None /\ Blocked(c, o, w, z, {Last(w, z)})'
               /\ \A p \in c.operations : Behind(p, w, z)' /\ op'[p].at > op'[o].at =>
                     op'[p].pc = "waits" /\ Blocked(c, o, w, z, op[p].waits)'
    BY <1>1, <2>2, <2>3 DEF Chained, Blocked
  <2> QED
    BY <2>1, <2>2, <2>3 DEF Chained, Lane
<1>6. \A o \in c.operations : ~Heads(o, d) /\ ~Adds(o, a, n)
  BY <1>2 DEF Quiet, Heads, Adds, Asked
<1> QED
  BY <1>1, <1>3, <1>4, <1>5, <1>6 DEF Flow, Quiet, Asked, Issued

LEMMA QuietKeeps ==
  ASSUME NEW CONSTANT c, Caches(c)!CacheAssumption, CacheInv(c), DataInv(c), NEW d, NEW a, NEW n, Quiet(c, d, a, n),
         calls' \in Seq(CallRecord(c)), AllLabelled(c)', Remains(c), StoreKeeps(c)
  PROVE  DataInv(c)'
<1>1. Flow(c, d, a, n) /\ Numbered(c)' /\ Shaped(c)' /\ Chained(c)'
  BY QuietFlow DEF DataInv
<1>2. Queued(c)'
  BY <1>1, QueuedKept DEF DataInv
<1>3. op' = op /\ Caches(c)!Caller \cap c.operations = {}
  BY DEF Quiet, Caches!CacheAssumption
<1>4. \A o \in c.operations : \A k1 : Hits(c, o, k1)' <=> Hits(c, o, k1)
  BY <1>3 DEF Hits, Issued
<1>5. Written(c)'
  <2>1. ASSUME n = 1, a.by \in Caches(c)!Caller, a.call = "set", NEW o \in c.operations, Hits(c, o, a.key)'
        PROVE  ~(op'[o].at > a.entry.born)
    <3>1. Caches(c)!Current(a.by) /\ a.key = req[a.by].key /\ a.entry.born = req[a.by].born
      BY <2>1 DEF Quiet, Asked
    <3>2. op[o].at <= req[a.by].born
      BY <1>4, <2>1, <3>1 DEF DataInv, Unhit
    <3>3. op[o].at \in Int /\ req[a.by].born \in Int
      <4>1. op[o].at \in Nat
        BY <1>4, <2>1 DEF DataInv, Numbered, Hits
      <4>2. req[a.by] \in RequestRecord(c)
        BY <2>1 DEF CacheInv, Typed
      <4>3. Caches(c)!Stamp \subseteq Int
        BY DEF Caches!Stamp
      <4> QED
        BY <4>1, <4>2, <4>3 DEF RequestRecord
    <3> QED
      BY <1>3, <3>1, <3>2, <3>3
  <2> QED
    BY <1>1, <1>2, <2>1, WrittenKept DEF DataInv
<1>6. Stored(c)'
  <2>1. \A o \in c.operations : ~Heads(o, d)
    BY <1>3 DEF Quiet, Heads
  <2> QED
    BY <1>1, <1>3, <1>4, <2>1, StoredKept DEF DataInv, StoreKeeps
<1>7. Unhit(c)'
  <2>1. \A o \in c.operations : \A k1 : ~Issued(o) => ~Hits(c, o, k1)'
    BY <1>4 DEF Hits
  <2> QED
    BY <1>1, <2>1, UnhitKept DEF DataInv, Remains
<1> QED
  BY <1>1, <1>2, <1>5, <1>6, <1>7 DEF DataInv

----------------------------------------------------------------------------
(* A request whose data a step leaves alone.                                *)
Same(c, y, q) ==
    /\ q.born = req[y].born /\ q.after = req[y].after /\ q.waits = req[y].waits /\ q.token = req[y].token
    /\ q.cond = req[y].cond /\ q.seen = req[y].seen /\ q.fallback = req[y].fallback
    /\ q.answer = req[y].answer /\ q.completed = req[y].completed /\ q.joined = req[y].joined
    /\ \/ q.pc = req[y].pc /\ q.key = req[y].key /\ q.conf = req[y].conf
       \/ req[y].pc = "new" /\ q.pc = "spawned"
SameBut(c, x) == \A y \in Caches(c)!Caller \ {x} : Same(c, y, req'[y])

(* What handling rec makes of the record r of request x.                    *)
Drawn(c, x, r, rec, q) ==
    /\ q.born = r.born /\ q.after = r.after /\ q.waits = r.waits /\ q.token = r.token /\ q.completed = r.completed
    /\ q.key = r.key /\ q.conf = r.conf
    /\ q.cond \in {r.cond, rec, None} /\ q.seen \in {r.seen, rec, None}
    /\ q.fallback \in {r.fallback, rec, None} /\ q.answer \in {r.answer, rec, None}
    /\ q.pc \in {"fetches", "joins", "asks", "drops", "ends"}
    /\ q.pc = "joins" => Caches(c)!Current(x) /\ q.joined = Caches(c)!Pending(r) /\ q.joined # None

LEMMA BecomesOne ==
  ASSUME NEW CONSTANT c, CacheInv(c), NEW x \in Caches(c)!Caller, NEW q, Caches(c)!Becomes(x, q)
  PROVE  req'[x] = q /\ \A y \in Caches(c)!Caller \ {x} : req'[y] = req[y]
BY DEF Caches!Becomes, CacheInv, Typed

LEMMA SameRefl ==
  ASSUME NEW CONSTANT c, NEW y PROVE Same(c, y, req[y])
BY DEF Same

LEMMA FetchingDrawn ==
  ASSUME NEW CONSTANT c, NEW x, NEW r \in RequestRecord(c), NEW rec
  PROVE  /\ Drawn(c, x, r, rec, Caches(c)!Fetching(r, rec))
         /\ Drawn(c, x, r, rec, [Caches(c)!Fetching(r, rec) EXCEPT !.leads = TRUE])
<1> DEFINE f == IF rec # None /\ rec.policy.etag THEN rec ELSE None
<1>1. f \in {rec, None}
  OBVIOUS
<1> HIDE DEF f
<1>2. Caches(c)!Fetching(r, rec) = [r EXCEPT !.pc = "fetches", !.cond = f]
  BY DEF Caches!Fetching, f
<1> QED
  BY <1>1, <1>2 DEF Drawn, RequestRecord

LEMMA MissData ==
  ASSUME NEW CONSTANT c, CacheInv(c), NEW x \in Caches(c)!Caller, NEW r, Held(c, x, r),
         NEW rec \in Possibly(Caches(c)!Entry), NEW left, Caches(c)!Miss(x, r, rec, left)
  PROVE  calls' = left /\ Drawn(c, x, r, rec, req'[x]) /\ SameBut(c, x)
<1>1. r \in RequestRecord(c) /\ calls' = left
  BY HeldFacts DEF Caches!Miss
<1>2. ASSUME NEW q, Caches(c)!Becomes(x, q), Drawn(c, x, r, rec, q)
      PROVE  Drawn(c, x, r, rec, req'[x]) /\ SameBut(c, x)
  BY <1>2, BecomesOne, SameRefl DEF SameBut
<1>3. CASE Caches(c)!Unshared(x, r)
  <2>1. Drawn(c, x, r, rec, [r EXCEPT !.pc = "fetches"])
    BY <1>1 DEF Drawn, RequestRecord
  <2> QED
    BY <1>1, <1>2, <1>3, <2>1 DEF Caches!Unshared
<1>4. CASE Caches(c)!Ask(x, r, rec)
  <2>1. Drawn(c, x, r, rec, [r EXCEPT !.pc = "asks", !.lease = "asked", !.seen = rec])
    BY <1>1 DEF Drawn, RequestRecord
  <2> QED
    BY <1>1, <1>2, <1>4, <2>1 DEF Caches!Ask
<1>5. CASE Caches(c)!FetchAlone(x, r, rec)
  BY <1>1, <1>2, <1>5, FetchingDrawn DEF Caches!FetchAlone
<1>6. CASE Caches(c)!Join(x, r)
  <2> DEFINE p == Caches(c)!Pending(r)
  <2>1. Caches(c)!Current(x) /\ p # None /\ Caches(c)!Becomes(x, [r EXCEPT !.pc = "joins", !.joined = p])
    BY <1>6 DEF Caches!Join
  <2> HIDE DEF p
  <2>2. Drawn(c, x, r, rec, [r EXCEPT !.pc = "joins", !.joined = p])
    BY <1>1, <2>1 DEF Drawn, RequestRecord, p
  <2> QED
    BY <1>1, <1>2, <2>1, <2>2
<1>7. CASE Caches(c)!Lead(x, r, rec)
  <2> DEFINE led == [Caches(c)!Fetching(r, rec) EXCEPT !.leads = TRUE]
             data == live[r.key].flight
  <2>1. req' = [y \in Caches(c)!Caller |-> IF y = x THEN led
                                           ELSE IF r.conf.raw /\ y = data THEN [req[y] EXCEPT !.rawDemanded = TRUE]
                                           ELSE req[y]]
    BY <1>7, Zenon DEF Caches!Lead
  <2>2. Drawn(c, x, r, rec, led)
    BY <1>1, FetchingDrawn
  <2> HIDE DEF led, data
  <2>3. ASSUME NEW y \in Caches(c)!Caller \ {x} PROVE Same(c, y, req'[y])
    <3>1. req'[y] \in {req[y], [req[y] EXCEPT !.rawDemanded = TRUE]}
      BY <2>1
    <3>2. req[y] \in RequestRecord(c)
      BY DEF CacheInv, Typed
    <3> QED
      BY <3>1, <3>2 DEF Same, RequestRecord
  <2> QED
    BY <1>1, <2>1, <2>2, <2>3 DEF SameBut
<1> QED
  BY <1>1, <1>3, <1>4, <1>5, <1>6, <1>7 DEF Caches!Miss

LEMMA HandleData ==
  ASSUME NEW CONSTANT c, CacheInv(c), NEW x \in Caches(c)!Caller, NEW r, Held(c, x, r),
         NEW rec \in Possibly(Caches(c)!Entry), NEW left, Caches(c)!HandleRecord(x, r, rec, left)
  PROVE  /\ Drawn(c, x, r, rec, req'[x]) /\ SameBut(c, x)
         /\ calls' = left \/ calls' = Append(left, Caches(c)!Call("delete", x, r.key, None))
<1>1. None \in Possibly(Caches(c)!Entry) /\ r \in RequestRecord(c)
  BY HeldFacts DEF Possibly
<1>2. \A q : Drawn(c, x, r, None, q) => Drawn(c, x, r, rec, q)
  BY DEF Drawn
<1>3. CASE Caches(c)!Miss(x, r, None, left)
  BY <1>1, <1>2, <1>3, MissData
<1>4. ASSUME NEW q, Caches(c)!Becomes(x, q), Drawn(c, x, r, rec, q)
      PROVE  Drawn(c, x, r, rec, req'[x]) /\ SameBut(c, x)
  BY <1>4, BecomesOne, SameRefl DEF SameBut
<1>5. CASE Caches(c)!FreshRecord(x, r, rec, left) \/ Caches(c)!StaleRecord(x, r, rec, left)
  <2> DEFINE h == Caches(c)!Hit(r, rec)
  <2>1. Drawn(c, x, r, rec, h)
    BY <1>1 DEF Drawn, RequestRecord, Caches!Hit
  <2> HIDE DEF h
  <2>2. CASE Caches(c)!Becomes(x, h) /\ calls' = left
    BY <1>4, <2>1, <2>2
  <2>3. ASSUME NEW b \in c.refreshes, req[b].pc = "new", calls' = left,
               req' = [req EXCEPT ![x] = h,
                           ![b] = [@ EXCEPT !.pc = "spawned", !.inst = r.inst, !.key = r.key, !.conf = r.conf]]
        PROVE  Drawn(c, x, r, rec, req'[x]) /\ SameBut(c, x)
    <3>1. b \in Caches(c)!Caller /\ b # x /\ req \in [Caches(c)!Caller -> RequestRecord(c)]
      BY <2>3 DEF CacheInv, Typed, Held, Caches!Caller
    <3>2. /\ req'[x] = h /\ \A y \in Caches(c)!Caller \ {x, b} : req'[y] = req[y]
          /\ req'[b] = [req[b] EXCEPT !.pc = "spawned", !.inst = r.inst, !.key = r.key, !.conf = r.conf]
      BY <2>3, <3>1
    <3>3. Same(c, b, req'[b])
      BY <2>3, <3>1, <3>2 DEF Same, RequestRecord
    <3> QED
      BY <2>1, <3>2, <3>3, SameRefl DEF SameBut
  <2>4. calls' = left \/ Caches(c)!Miss(x, r, None, left)
    BY <1>5, Zenon DEF Caches!FreshRecord, Caches!StaleRecord
  <2>5. \/ Caches(c)!Miss(x, r, None, left) \/ Caches(c)!Becomes(x, h)
        \/ \E b \in c.refreshes : /\ req[b].pc = "new"
              /\ req' = [req EXCEPT ![x] = h,
                           ![b] = [@ EXCEPT !.pc = "spawned", !.inst = r.inst, !.key = r.key, !.conf = r.conf]]
    BY <1>5, Zenon DEF Caches!FreshRecord, Caches!StaleRecord, Caches!SpawnRefresh, h
  <2> QED
    BY <1>3, <2>2, <2>3, <2>4, <2>5
<1>6. CASE rec # None /\ (Caches(c)!Refetch(x, r, rec, left) \/ Caches(c)!DropRecord(x, r, rec, left))
  <2> DEFINE w == Caches(c)!WithFallback(x, r, rec)
  <2>1. Held(c, x, w)
    BY <1>6, FallbackHeld DEF Possibly
  <2>2. w = r \/ w = [r EXCEPT !.fallback = rec]
    BY DEF Caches!WithFallback
  <2> HIDE DEF w
  <2>3. ASSUME NEW again \in {rec, None}, NEW q, Drawn(c, x, w, again, q) PROVE Drawn(c, x, r, rec, q)
    <3>1. w.key = r.key /\ w.conf = r.conf
      BY <1>1, <2>2 DEF RequestRecord
    <3>2. Caches(c)!Pending(w) = Caches(c)!Pending(r)
      BY <3>1 DEF Caches!Pending
    <3> QED
      BY <1>1, <2>2, <2>3, <3>1, <3>2 DEF Drawn, RequestRecord
  <2>4. CASE Caches(c)!Refetch(x, r, rec, left)
    <3>1. PICK again \in {rec, None} : Caches(c)!Miss(x, w, again, left)
      BY <2>4, Zenon DEF Caches!Refetch, w
    <3>2. again \in Possibly(Caches(c)!Entry)
      BY <1>1
    <3> QED
      BY <2>1, <2>3, <3>1, <3>2, MissData
  <2>5. CASE Caches(c)!DropRecord(x, r, rec, left)
    <3> DEFINE q == [w EXCEPT !.pc = "drops"]
    <3>1. w \in RequestRecord(c)
      BY <2>1 DEF Held
    <3>2. Drawn(c, x, w, rec, q)
      BY <3>1 DEF Drawn, RequestRecord
    <3>3. Caches(c)!Becomes(x, q) /\ calls' = Append(left, Caches(c)!Call("delete", x, r.key, None))
      BY <2>5, Zenon DEF Caches!DropRecord, w
    <3> HIDE DEF q
    <3> QED
      BY <1>4, <2>3, <3>2, <3>3
  <2> QED
    BY <1>6, <2>4, <2>5
<1> QED
  <2>1. CASE Caches(c)!NoRecord(x, r, rec, left)
    BY <1>3, <2>1 DEF Caches!NoRecord
  <2> QED
    BY <1>5, <1>6, <2>1, Zenon DEF Caches!HandleRecord, Caches!Refetch, Caches!DropRecord

----------------------------------------------------------------------------
(* What a step of a request may change of its history and of the entries it *)
(* keeps.                                                                   *)
Draws(c, x, q) ==
    /\ q.born = req[x].born /\ q.token = req[x].token /\ Labelled(c, q.cond) /\ Labelled(c, q.seen)
    /\ q.token # None => q.key = req[x].key /\ q.conf = req[x].conf

GenKeeps(c) == \A k1 \in c.keys : live'[k1].gen \in {live[k1].gen, None}

LEMMA SameDraws ==
  ASSUME NEW CONSTANT c, CacheInv(c), AllLabelled(c), NEW x \in Caches(c)!Caller, NEW q, Same(c, x, q)
  PROVE  Draws(c, x, q)
<1>1. req[x].pc = "new" => req[x].token = None
  BY DEF CacheInv, Requests, Begun
<1> QED
  BY <1>1 DEF Same, Draws, AllLabelled

LEMMA QueueLabels ==
  ASSUME NEW CONSTANT c, CacheInv(c), AllLabelled(c), NEW d, NEW a, NEW n, Quiet(c, d, a, n), calls' \in Seq(CallRecord(c))
  PROVE  \A j \in DOMAIN calls' : Labelled(c, calls'[j].entry)
<1>1. \A j \in DOMAIN calls' : \/ j \in Nat /\ j + d \in DOMAIN calls /\ calls'[j] = calls[j + d]
                               \/ n = 1 /\ j = Len(calls) - d + 1 /\ calls'[j] = a
  BY QueueFacts DEF Quiet
<1> QED
  BY <1>1 DEF AllLabelled, Quiet, Asked

LEMMA LabelsKeep ==
  ASSUME NEW CONSTANT c, CacheInv(c), AllLabelled(c), \A x \in Caches(c)!Caller : Draws(c, x, req'[x]), GenKeeps(c),
         token' = token, \A j \in DOMAIN calls' : Labelled(c, calls'[j].entry), \A k1 \in c.keys : Labelled(c, store'[k1])
  PROVE  AllLabelled(c)' /\ Remains(c)
<1>1. ASSUME NEW x \in Caches(c)!Caller, NEW q, q = req'[x]
      PROVE  /\ q.token = req[x].token /\ q.born = req[x].born /\ Labelled(c, q.cond) /\ Labelled(c, q.seen)
             /\ q.token # None => q.key = req[x].key /\ q.conf = req[x].conf
  BY <1>1 DEF Draws
<1>2. AllLabelled(c)'
  <2>1. ASSUME NEW x \in Caches(c)!Caller
        PROVE  /\ token'[x].tags \subseteq Labels(c)
               /\ Labelled(c, req'[x].cond) /\ Labelled(c, req'[x].seen)
               /\ req'[x].token # None => token'[req'[x].token].tags = Labels(c) /\ req'[x].conf.cached
    BY <1>1 DEF AllLabelled
  <2>2. \A k1 \in c.keys : live'[k1].gen # None => token'[live'[k1].gen].tags = Labels(c)
    BY DEF AllLabelled, GenKeeps
  <2> QED
    BY <2>1, <2>2 DEF AllLabelled, Labelled
<1>3. ASSUME NEW x \in Caches(c)!Caller, NEW k1, Caches(c)!Current(x)', k1 = req'[x].key
      PROVE  Caches(c)!Current(x) /\ req'[x].born = req[x].born /\ k1 = req[x].key
  <2>1. req'[x].token # None /\ live'[k1].gen = req'[x].token
    BY <1>3 DEF Caches!Current
  <2>2. req[x].token = req'[x].token /\ req[x].key = k1 /\ req'[x].born = req[x].born
    BY <1>1, <1>3, <2>1
  <2>3. k1 \in c.keys
    BY <2>1, <2>2 DEF CacheInv, Requests, Bound, Begun
  <2>4. live[k1].gen = live'[k1].gen
    BY <2>1, <2>3 DEF GenKeeps
  <2> QED
    BY <2>1, <2>2, <2>4 DEF Caches!Current
<1> QED
  BY <1>2, <1>3 DEF Remains

LEMMA RequestKeepsData ==
  ASSUME NEW CONSTANT c, Caches(c)!CacheAssumption, CacheInv(c), CacheInv(c)', DataInv(c), NEW x \in Caches(c)!Caller,
         SameBut(c, x), Draws(c, x, req'[x]), GenKeeps(c), token' = token, StoreKeeps(c),
         NEW d, NEW a, NEW n, Quiet(c, d, a, n)
  PROVE  DataInv(c)'
<1>1. calls' \in Seq(CallRecord(c))
  BY DEF CacheInv, Typed
<1>2. \A j \in DOMAIN calls' : Labelled(c, calls'[j].entry)
  BY <1>1, QueueLabels DEF DataInv
<1>3. \A y \in Caches(c)!Caller : Draws(c, y, req'[y])
  BY SameDraws DEF SameBut, DataInv
<1>4. AllLabelled(c)' /\ Remains(c)
  BY <1>2, <1>3, LabelsKeep DEF DataInv, StoreKeeps
<1> QED
  BY <1>1, <1>4, QuietKeeps

(* A request that calls the store asks for its key or deletes there.        *)
Calling(c, x, left) ==
    \/ calls' = left
    \/ /\ req[x].key \in c.keys
       /\ \E name \in {"get", "delete"} : calls' = Append(left, Caches(c)!Call(name, x, req[x].key, None))

LEMMA SameStore == ASSUME NEW CONSTANT c, AllLabelled(c), store' = store PROVE StoreKeeps(c)
BY DEF AllLabelled, StoreKeeps

LEMMA SameGen == ASSUME NEW CONSTANT c, live' = live \/ MapsKeep(c) PROVE GenKeeps(c)
BY DEF GenKeeps, MapsKeep

LEMMA CallingQuiet ==
  ASSUME NEW CONSTANT c, CacheInv(c), NEW x \in Caches(c)!Caller,
         op' = op, keyOp' = keyOp, tagOp' = tagOp,
         NEW left, left = calls \/ (calls # <<>> /\ calls[1].by \in Caches(c)!Caller /\ left = Tail(calls)),
         Calling(c, x, left)
  PROVE  \E d, a, n : Quiet(c, d, a, n)
<1>1. calls \in Seq(CallRecord(c))
  BY DEF CacheInv, Typed
<1>5. Len(calls) \in Nat
  BY <1>1
<1>2. CASE calls' = left
  <2>1. CASE left = calls
    <3>1. Quiet(c, 0, None, 0)
      BY <1>1, <1>2, <1>5, <2>1 DEF Quiet, Shift
    <3> QED
      BY <3>1
  <2>2. CASE calls # <<>> /\ calls[1].by \in Caches(c)!Caller /\ left = Tail(calls)
    <3>1. calls[1] \in CallRecord(c)
      BY <1>1, <2>2
    <3>2. 1 <= Len(calls) /\ Shift(1, calls[1], 0)
      BY <1>1, <1>2, <2>2, <3>1, Shifts
    <3>3. Quiet(c, 1, calls[1], 0)
      BY <2>2, <3>2 DEF Quiet
    <3> QED
      BY <3>3
  <2> QED
    BY <2>1, <2>2
<1>3. CASE calls' # left
  <2>1. PICK name \in {"get", "delete"} : calls' = Append(left, Caches(c)!Call(name, x, req[x].key, None))
    BY <1>3 DEF Calling
  <2> DEFINE a == Caches(c)!Call(name, x, req[x].key, None)
  <2>2. a \in CallRecord(c) /\ Asked(c, a) /\ calls' = Append(left, a)
    <3>1. req[x].key \in c.keys
      BY <1>3 DEF Calling
    <3> QED
      BY <2>1, <3>1 DEF CallRecord, Caches!Call, Operations, Possibly, Asked, Labelled
  <2> HIDE DEF a
  <2>3. CASE left = calls
    <3>1. Shift(0, a, 1)
      BY <1>1, <2>2, <2>3, Shifts
    <3>2. Quiet(c, 0, a, 1)
      BY <1>5, <2>2, <3>1 DEF Quiet
    <3> QED
      BY <3>2
  <2>4. CASE calls # <<>> /\ calls[1].by \in Caches(c)!Caller /\ left = Tail(calls)
    <3>1. 1 <= Len(calls) /\ Shift(1, a, 1)
      BY <1>1, <2>2, <2>4, Shifts
    <3>2. Quiet(c, 1, a, 1)
      BY <2>2, <2>4, <3>1 DEF Quiet
    <3> QED
      BY <3>2
  <2> QED
    BY <2>3, <2>4
<1> QED
  BY <1>2, <1>3

LEMMA CallingKeepsData ==
  ASSUME NEW CONSTANT c, Caches(c)!CacheAssumption, CacheInv(c), CacheInv(c)', DataInv(c), NEW x \in Caches(c)!Caller,
         SameBut(c, x), Draws(c, x, req'[x]), live' = live \/ MapsKeep(c), token' = token,
         store' = store, op' = op, keyOp' = keyOp, tagOp' = tagOp,
         NEW left, left = calls \/ (calls # <<>> /\ calls[1].by \in Caches(c)!Caller /\ left = Tail(calls)),
         Calling(c, x, left)
  PROVE  DataInv(c)'
<1>1. PICK d, a, n : Quiet(c, d, a, n)
  BY CallingQuiet
<1>2. StoreKeeps(c) /\ GenKeeps(c)
  BY SameStore, SameGen DEF DataInv
<1> QED
  BY <1>1, <1>2, RequestKeepsData

(* A step of one request that only moves it on, with an answer perhaps.     *)
Onward(c, x, q) ==
    /\ q.born = req[x].born /\ q.after = req[x].after /\ q.waits = req[x].waits /\ q.token = req[x].token
    /\ q.cond = req[x].cond /\ q.seen = req[x].seen /\ q.fallback = req[x].fallback
    /\ q.completed = req[x].completed /\ q.joined = req[x].joined /\ q.key = req[x].key /\ q.conf = req[x].conf

PlainStep(c, x) ==
    /\ Onward(c, x, req'[x]) /\ (\A y \in Caches(c)!Caller \ {x} : req'[y] = req[y]) /\ Calling(c, x, calls)
    /\ token' = token /\ live' = live /\ op' = op /\ keyOp' = keyOp /\ tagOp' = tagOp /\ store' = store
    /\ installation' = installation

LEMMA PlainFacts ==
  ASSUME NEW CONSTANT c, CacheInv(c), NEW x \in Caches(c)!Caller, NEW q, Caches(c)!Becomes(x, q), Onward(c, x, q),
         Calling(c, x, calls), UNCHANGED <<token, live, op, keyOp, tagOp, store, installation>>
  PROVE  PlainStep(c, x) /\ req'[x] = q
BY BecomesOne DEF PlainStep

LEMMA PlainKeepsData ==
  ASSUME NEW CONSTANT c, Caches(c)!CacheAssumption, CacheInv(c), CacheInv(c)', DataInv(c), NEW x \in Caches(c)!Caller,
         PlainStep(c, x)
  PROVE  DataInv(c)'
<1>1. SameBut(c, x)
  BY SameRefl DEF PlainStep, SameBut
<1>2. Draws(c, x, req'[x])
  BY DEF PlainStep, Onward, Draws, DataInv, AllLabelled
<1> QED
  BY <1>1, <1>2, CallingKeepsData DEF PlainStep

LEMMA ReadPlain ==
  ASSUME NEW CONSTANT c, CacheInv(c), NEW x \in Caches(c)!Caller, Caches(c)!Read(x)
  PROVE  /\ PlainStep(c, x) /\ req'[x].pc = "reads" /\ req'[x].answer = req[x].answer
         /\ calls' = Append(calls, Caches(c)!Call("get", x, req[x].key, None))
<1> DEFINE q == [req[x] EXCEPT !.pc = "reads"]
<1>1. /\ req[x].pc = "waits" /\ Caches(c)!Becomes(x, q)
      /\ calls' = Append(calls, Caches(c)!Call("get", x, req[x].key, None))
      /\ UNCHANGED <<token, live, op, keyOp, tagOp, store, installation>>
  BY DEF Caches!Read
<1>2. req[x] \in RequestRecord(c) /\ req[x].key \in c.keys
  BY <1>1, TypedFacts DEF Bound
<1>3. Onward(c, x, q) /\ q.pc = "reads" /\ q.answer = req[x].answer
  BY <1>2 DEF Onward, RequestRecord
<1> HIDE DEF q
<1>4. Calling(c, x, calls)
  BY <1>1, <1>2 DEF Calling
<1> QED
  BY <1>1, <1>3, <1>4, PlainFacts

LEMMA LeaseGrantedPlain ==
  ASSUME NEW CONSTANT c, CacheInv(c), NEW x \in Caches(c)!Caller, Caches(c)!LeaseGranted(x)
  PROVE  /\ PlainStep(c, x) /\ req'[x].answer = req[x].answer
         /\ \/ req'[x].pc = req[x].pc /\ req[x].pc # "asks" /\ calls' = calls
            \/ req'[x].pc = "fetches" /\ calls' = calls /\ req[x].pc = "asks"
            \/ /\ req'[x].pc = "reads" /\ req[x].pc = "asks"
               /\ calls' = Append(calls, Caches(c)!Call("get", x, req[x].key, None))
<1> DEFINE l == Caches(c)!Granted(x)
           r == [req[x] EXCEPT !.lease = l]
<1>1. PICK contended \in BOOLEAN :
        IF req[x].pc # "asks" THEN Caches(c)!Becomes(x, r) /\ UNCHANGED calls
        ELSE IF ~Caches(c)!Active(x) THEN Caches(c)!Becomes(x, [r EXCEPT !.pc = "fetches"]) /\ UNCHANGED calls
        ELSE /\ Caches(c)!Becomes(x, [r EXCEPT !.pc = "reads", !.forced = @ /\ ~contended])
             /\ calls' = Append(calls, Caches(c)!Call("get", x, r.key, None))
  BY Zenon DEF Caches!LeaseGranted
<1>2. UNCHANGED <<token, live, op, keyOp, tagOp, store, installation>>
  BY DEF Caches!LeaseGranted
<1>3. req[x] \in RequestRecord(c) /\ (req[x].pc = "asks" => req[x].key \in c.keys)
  BY TypedFacts DEF Bound
<1> HIDE DEF l
<1>4. CASE req[x].pc # "asks"
  <2>1. Onward(c, x, r) /\ r.answer = req[x].answer /\ r.pc = req[x].pc
    BY <1>3 DEF Onward, RequestRecord
  <2> HIDE DEF r
  <2> QED
    BY <1>1, <1>2, <1>4, <2>1, PlainFacts DEF Calling
<1>5. CASE req[x].pc = "asks" /\ ~Caches(c)!Active(x)
  <2> DEFINE q == [r EXCEPT !.pc = "fetches"]
  <2>1. Onward(c, x, q) /\ q.answer = req[x].answer /\ q.pc = "fetches"
    BY <1>3 DEF Onward, RequestRecord
  <2>2. Caches(c)!Becomes(x, q) /\ calls' = calls
    BY <1>1, <1>5
  <2> HIDE DEF q
  <2> QED
    BY <1>2, <1>5, <2>1, <2>2, PlainFacts DEF Calling
<1>6. CASE req[x].pc = "asks" /\ Caches(c)!Active(x)
  <2> DEFINE q == [r EXCEPT !.pc = "reads", !.forced = @ /\ ~contended]
  <2>1. Onward(c, x, q) /\ q.answer = req[x].answer /\ q.pc = "reads" /\ r.key = req[x].key
    BY <1>3 DEF Onward, RequestRecord
  <2>2. Caches(c)!Becomes(x, q) /\ calls' = Append(calls, Caches(c)!Call("get", x, req[x].key, None))
    BY <1>1, <1>6, <2>1
  <2> HIDE DEF q
  <2>3. Calling(c, x, calls)
    BY <1>3, <1>6, <2>2 DEF Calling
  <2> QED
    BY <1>2, <1>6, <2>1, <2>2, <2>3, PlainFacts
<1> QED
  BY <1>4, <1>5, <1>6

LEMMA StreamedOnward ==
  ASSUME NEW CONSTANT c, CacheInv(c), NEW x \in Caches(c)!Caller, Caches(c)!Streamed(x)
  PROVE  /\ PlainStep(c, x) /\ req[x].pc = "fetches" /\ req'[x].pc \in {"writes", "ends"}
         /\ req'[x].answer.born = req[x].born
         /\ calls' = calls \/ calls' = Append(calls, Caches(c)!Call("delete", x, req[x].key, None))
<1> DEFINE e == Caches(c)!Response(x, [ttl |-> FALSE, etag |-> FALSE, sie |-> FALSE, swr |-> FALSE])
           u == Caches(c)!Active(x)
           r == [req[x] EXCEPT !.answer = e, !.uncacheable = u]
           writes == [r EXCEPT !.pc = "writes"]
           ends == [r EXCEPT !.pc = "ends"]
<1>1. req[x].pc = "fetches" /\ UNCHANGED <<token, live, op, keyOp, tagOp, store, installation>>
  BY DEF Caches!Streamed
<1>2. e.born = req[x].born
  BY DEF Caches!Response
<1>3. \/ Caches(c)!Becomes(x, writes) /\ calls' = Append(calls, Caches(c)!Call("delete", x, r.key, None))
      \/ Caches(c)!Becomes(x, ends) /\ calls' = calls
  BY Zenon DEF Caches!Streamed
<1> HIDE DEF e, u
<1>4. req[x] \in RequestRecord(c) /\ req[x].key \in c.keys
  BY <1>1, TypedFacts DEF Bound
<1>5. Onward(c, x, writes) /\ writes.pc = "writes" /\ writes.answer = e /\ r.key = req[x].key
  BY <1>4 DEF Onward, RequestRecord
<1>6. Onward(c, x, ends) /\ ends.pc = "ends" /\ ends.answer = e
  BY <1>4 DEF Onward, RequestRecord
<1> HIDE DEF writes, ends
<1>7. Calling(c, x, calls)
  BY <1>3, <1>4, <1>5 DEF Calling
<1> QED
  BY <1>1, <1>2, <1>3, <1>5, <1>6, <1>7, PlainFacts

LEMMA FailedOnward ==
  ASSUME NEW CONSTANT c, CacheInv(c), NEW x \in Caches(c)!Caller, Caches(c)!Failed(x)
  PROVE  /\ PlainStep(c, x) /\ req[x].pc = "fetches" /\ req'[x].pc = "ends" /\ calls' = calls
         /\ req'[x].answer \in {req[x].answer, req[x].fallback}
<1> DEFINE lost == [req[x] EXCEPT !.pc = "ends", !.error = TRUE]
           stale == [req[x] EXCEPT !.pc = "ends", !.answer = req[x].fallback, !.uncacheable = req[x].leads]
<1>1. /\ req[x].pc = "fetches" /\ UNCHANGED <<token, live, op, keyOp, tagOp, store, calls, installation>>
      /\ Caches(c)!Becomes(x, lost) \/ Caches(c)!Becomes(x, stale)
  BY DEF Caches!Failed
<1>2. req[x] \in RequestRecord(c)
  BY TypedFacts
<1>3. Onward(c, x, lost) /\ lost.pc = "ends" /\ lost.answer = req[x].answer
  BY <1>2 DEF Onward, RequestRecord
<1>4. Onward(c, x, stale) /\ stale.pc = "ends" /\ stale.answer = req[x].fallback
  BY <1>2 DEF Onward, RequestRecord
<1> HIDE DEF lost, stale
<1> QED
  BY <1>1, <1>3, <1>4, PlainFacts DEF Calling

LEMMA WakeOnward ==
  ASSUME NEW CONSTANT c, CacheInv(c), NEW x \in Caches(c)!Caller, Caches(c)!Wake(x)
  PROVE  /\ PlainStep(c, x) /\ req[x].pc = "joins" /\ req'[x].pc \in {"ends", "fetches"} /\ calls' = calls
         /\ req'[x].answer \in {req[x].answer, req[req[x].joined].completed}
<1> DEFINE rejected == [req[x] EXCEPT !.pc = "ends", !.error = TRUE]
           nothing == [req[x] EXCEPT !.pc = "fetches"]
           e == req[req[x].joined].completed
           shared == [req[x] EXCEPT !.pc = "ends", !.answer = e]
<1>1. /\ req[x].pc = "joins" /\ UNCHANGED <<token, live, op, keyOp, tagOp, store, calls, installation>>
      /\ Caches(c)!Becomes(x, rejected) \/ Caches(c)!Becomes(x, nothing) \/ Caches(c)!Becomes(x, shared)
  BY Zenon DEF Caches!Wake, Caches!Hit
<1>2. req[x] \in RequestRecord(c)
  BY TypedFacts
<1> HIDE DEF e
<1>3. Onward(c, x, rejected) /\ rejected.pc = "ends" /\ rejected.answer = req[x].answer
  BY <1>2 DEF Onward, RequestRecord
<1>4. Onward(c, x, nothing) /\ nothing.pc = "fetches" /\ nothing.answer = req[x].answer
  BY <1>2 DEF Onward, RequestRecord
<1>5. Onward(c, x, shared) /\ shared.pc = "ends" /\ shared.answer = e
  BY <1>2 DEF Onward, RequestRecord
<1> HIDE DEF rejected, nothing, shared
<1>6. PlainStep(c, x) /\ req'[x].pc \in {"ends", "fetches"} /\ req'[x].answer \in {req[x].answer, e}
  BY <1>1, <1>3, <1>4, <1>5, PlainFacts DEF Calling
<1> QED
  BY <1>1, <1>6 DEF e

(* A request that is stopped ends, or is given up before it began.          *)
LEMMA StoppedOnward ==
  ASSUME NEW CONSTANT c, CacheInv(c), NEW x \in Caches(c)!Caller, NEW r \in RequestRecord(c)
  PROVE  LET q == Caches(c)!Stopped(r) IN
         /\ q.born = r.born /\ q.after = r.after /\ q.waits = r.waits /\ q.token = r.token
         /\ q.cond = r.cond /\ q.seen = r.seen /\ q.fallback = r.fallback /\ q.answer = r.answer
         /\ q.completed = r.completed /\ q.joined = r.joined /\ q.key = r.key /\ q.conf = r.conf
         /\ q.pc = r.pc \/ (r.pc = "spawned" /\ q.pc = "done") \/ (r.pc \in Caches(c)!Waiting /\ q.pc = "ends")
BY DEF Caches!Stopped, RequestRecord

LEMMA AbortOnward ==
  ASSUME NEW CONSTANT c, CacheInv(c), NEW x \in Caches(c)!Caller, Caches(c)!Abort(x)
  PROVE  PlainStep(c, x) /\ req'[x].pc = "ends" /\ req'[x].answer = req[x].answer /\ calls' = calls
<1> DEFINE q == Caches(c)!Stopped(req[x])
<1>1. /\ req[x].pc \in Caches(c)!Waiting /\ Caches(c)!Becomes(x, q)
      /\ UNCHANGED <<token, live, op, keyOp, tagOp, store, calls, installation>>
  BY DEF Caches!Abort
<1>2. req[x] \in RequestRecord(c)
  BY TypedFacts
<1>3. Onward(c, x, q) /\ q.answer = req[x].answer
  BY <1>2, StoppedOnward DEF Onward
<1>4. q.pc = "ends"
  BY <1>1, <1>2 DEF Caches!Stopped, Caches!Waiting, RequestRecord
<1> HIDE DEF q
<1> QED
  BY <1>1, <1>3, <1>4, PlainFacts DEF Calling

(* The response of a request enters the queue while its token is current.   *)
LEMMA AnsweredData ==
  ASSUME NEW CONSTANT c, Caches(c)!CacheAssumption, CacheInv(c), NEW x \in Caches(c)!Caller, Caches(c)!Answered(x)
  PROVE  \E e \in Caches(c)!Entry : LET q == req'[x] IN
         /\ e.born = req[x].born
         /\ AllLabelled(c) /\ req[x].token # None => e.tags = Labels(c)
         /\ q.born = req[x].born /\ q.after = req[x].after /\ q.waits = req[x].waits /\ q.token = req[x].token
         /\ q.cond = req[x].cond /\ q.seen = req[x].seen /\ q.fallback = req[x].fallback
         /\ q.joined = req[x].joined /\ q.key = req[x].key /\ q.conf = req[x].conf /\ q.answer = e
         /\ q.completed \in {req[x].completed, e, None} /\ q.pc \in {"writes", "ends"}
         /\ \A y \in Caches(c)!Caller \ {x} : req'[y] = req[y]
         /\ \/ calls' = calls
            \/ calls' = Append(calls, Caches(c)!Call("delete", x, req[x].key, None))
            \/ Caches(c)!Current(x) /\ calls' = Append(calls, Caches(c)!Call("set", x, req[x].key, e))
<1>1. req[x].pc = "fetches"
  BY DEF Caches!Answered
<1>2. req[x] \in RequestRecord(c) /\ req[x].key \in c.keys /\ Bound(c, req[x])
  BY <1>1, TypedFacts DEF Bound
<1>3. PICK p \in [ttl : BOOLEAN, etag : BOOLEAN, sie : BOOLEAN, swr : BOOLEAN] :
         Caches(c)!Respond(x, Caches(c)!Response(x, p))
  <2>1. CASE \E p \in c.policies : Caches(c)!Respond(x, Caches(c)!Response(x, p))
    BY <2>1 DEF Caches!CacheAssumption
  <2>2. CASE req[x].cond # None /\ Caches(c)!Respond(x, Caches(c)!Response(x, req[x].cond.policy))
    <3>1. req[x].cond.policy \in [ttl : BOOLEAN, etag : BOOLEAN, sie : BOOLEAN, swr : BOOLEAN]
      BY <2>2, TypedFacts DEF RequestRecord, Possibly, Caches!Entry
    <3> QED
      BY <2>2, <3>1
  <2> QED
    BY <2>1, <2>2 DEF Caches!Answered
<1> DEFINE e == Caches(c)!Response(x, p)
<1>4. e \in Caches(c)!Entry /\ e.born = req[x].born
  BY <1>1, <1>3, ResponseTyped DEF Caches!Response
<1>5. AllLabelled(c) /\ req[x].token # None => e.tags = Labels(c)
  <2>1. SUFFICES ASSUME AllLabelled(c), req[x].token # None PROVE e.tags = Labels(c)
    OBVIOUS
  <2>2. token[req[x].token].tags = Labels(c) /\ (req[x].cond # None => req[x].cond.tags = Labels(c))
    BY <2>1 DEF AllLabelled, Labelled
  <2>3. e.tags = IF req[x].token # None /\ token[req[x].token].tags # {} THEN token[req[x].token].tags
                 ELSE IF req[x].cond # None THEN req[x].cond.tags ELSE {}
    BY DEF Caches!Response
  <2> HIDE DEF e
  <2> QED
    BY <2>1, <2>2, <2>3
<1> DEFINE kept == IF Caches(c)!Keeps(x) \/ Caches(c)!Persists(e.policy) THEN e ELSE None
           u == ~Caches(c)!Keeps(x) /\ ~Caches(c)!Persists(e.policy)
           r == [req[x] EXCEPT !.answer = e]
           alone == [r EXCEPT !.pc = "ends"]
           writes == [r EXCEPT !.pc = "writes", !.completed = e]
           ends == [r EXCEPT !.pc = "ends", !.completed = kept, !.uncacheable = u]
<1>6. \/ Caches(c)!Becomes(x, alone) /\ calls' = calls
      \/ /\ Caches(c)!Becomes(x, writes) /\ Caches(c)!Current(x)
         /\ calls' = Append(calls, Caches(c)!Call("set", x, r.key, e))
      \/ Caches(c)!Becomes(x, writes) /\ calls' = Append(calls, Caches(c)!Call("delete", x, r.key, None))
      \/ Caches(c)!Becomes(x, ends) /\ calls' = calls
  BY <1>3, Zenon DEF Caches!Respond, Caches!MayWrite
<1>7. kept \in {e, None}
  OBVIOUS
<1> HIDE DEF e, kept, u
<1> DEFINE Gets(q) ==
      /\ q.born = req[x].born /\ q.after = req[x].after /\ q.waits = req[x].waits /\ q.token = req[x].token
      /\ q.cond = req[x].cond /\ q.seen = req[x].seen /\ q.fallback = req[x].fallback
      /\ q.joined = req[x].joined /\ q.key = req[x].key /\ q.conf = req[x].conf /\ q.answer = e
      /\ q.completed \in {req[x].completed, e, None} /\ q.pc \in {"writes", "ends"}
<1>8. Gets(alone) /\ Gets(writes) /\ r.key = req[x].key
  BY <1>2 DEF RequestRecord
<1>9. Gets(ends)
  BY <1>2, <1>7 DEF RequestRecord
<1> HIDE DEF alone, writes, ends, r
<1>10. (req'[x] = alone \/ req'[x] = writes \/ req'[x] = ends) /\ \A y \in Caches(c)!Caller \ {x} : req'[y] = req[y]
  BY <1>6, BecomesOne
<1>11. Gets(req'[x])
  <2> HIDE DEF Gets
  <2> QED
    BY <1>8, <1>9, <1>10
<1> QED
  BY <1>4, <1>5, <1>6, <1>8, <1>10, <1>11

LEMMA AnsweredKeepsData ==
  ASSUME NEW CONSTANT c, Caches(c)!CacheAssumption, CacheInv(c), CacheInv(c)', DataInv(c), NEW x \in Caches(c)!Caller,
         Caches(c)!Answered(x)
  PROVE  DataInv(c)'
<1>1. UNCHANGED <<token, live, op, keyOp, tagOp, store, installation>> /\ req[x].key \in c.keys /\ AllLabelled(c)
  BY TypedFacts DEF Caches!Answered, Bound, DataInv
<1>2. PICK e \in Caches(c)!Entry :
         /\ e.born = req[x].born /\ (req[x].token # None => e.tags = Labels(c))
         /\ Draws(c, x, req'[x]) /\ \A y \in Caches(c)!Caller \ {x} : req'[y] = req[y]
         /\ \/ calls' = calls
            \/ calls' = Append(calls, Caches(c)!Call("delete", x, req[x].key, None))
            \/ Caches(c)!Current(x) /\ calls' = Append(calls, Caches(c)!Call("set", x, req[x].key, e))
  BY <1>1, AnsweredData DEF Draws, AllLabelled
<1>3. SameBut(c, x)
  BY <1>2, SameRefl DEF SameBut
<1>4. CASE Calling(c, x, calls)
  BY <1>1, <1>2, <1>3, <1>4, CallingKeepsData
<1>5. CASE Caches(c)!Current(x) /\ calls' = Append(calls, Caches(c)!Call("set", x, req[x].key, e))
  <2> DEFINE a == Caches(c)!Call("set", x, req[x].key, e)
  <2>1. a \in CallRecord(c)
    BY <1>1 DEF CallRecord, Caches!Call, Operations, Possibly
  <2>2. Asked(c, a)
    <3>1. e.tags = Labels(c)
      BY <1>2, <1>5 DEF Caches!Current
    <3> QED
      BY <1>1, <1>2, <1>5, <3>1 DEF Asked, Caches!Call, Labelled
  <2> HIDE DEF a
  <2>3. calls \in Seq(CallRecord(c)) /\ calls' = Append(calls, a)
    BY <1>5 DEF CacheInv, Typed, a
  <2>4. Shift(0, a, 1)
    BY <2>1, <2>3, Shifts
  <2>5. Quiet(c, 0, a, 1)
    BY <1>1, <2>2, <2>3, <2>4 DEF Quiet
  <2>6. StoreKeeps(c) /\ GenKeeps(c)
    BY <1>1, SameStore, SameGen
  <2> QED
    BY <1>1, <1>2, <1>3, <2>5, <2>6, RequestKeepsData
<1> QED
  BY <1>1, <1>2, <1>4, <1>5 DEF Calling

LEMMA HandleKeepsData ==
  ASSUME NEW CONSTANT c, Caches(c)!CacheAssumption, CacheInv(c), CacheInv(c)', DataInv(c), NEW x \in Caches(c)!Caller,
         NEW r, Held(c, x, r), r.born = req[x].born, r.cond = req[x].cond, r.seen = req[x].seen,
         NEW rec \in Possibly(Caches(c)!Entry), Labelled(c, rec),
         NEW left \in Seq(CallRecord(c)), left = calls \/ (calls # <<>> /\ calls[1].by \in Caches(c)!Caller /\ left = Tail(calls)),
         Caches(c)!HandleRecord(x, r, rec, left), UNCHANGED <<token, op, keyOp, tagOp, store, installation>>
  PROVE  DataInv(c)'
<1>1. Drawn(c, x, r, rec, req'[x]) /\ SameBut(c, x)
  BY HandleData
<1>2. calls' = left \/ calls' = Append(left, Caches(c)!Call("delete", x, r.key, None))
  BY HandleData
<1>3. MapsKeep(c)
  BY HandleStepped DEF Stepped
<1>4. r.key = req[x].key /\ req[x].key \in c.keys /\ r.token = req[x].token /\ r.conf = req[x].conf
  BY HeldFacts DEF Held, Bound
<1>5. Draws(c, x, req'[x])
  <2>1. Labelled(c, req[x].cond) /\ Labelled(c, req[x].seen) /\ Labelled(c, None)
    BY DEF DataInv, AllLabelled, Labelled
  <2> QED
    BY <1>1, <1>4, <2>1 DEF Drawn, Draws
<1>6. Calling(c, x, left)
  BY <1>2, <1>4 DEF Calling
<1> QED
  BY <1>1, <1>3, <1>5, <1>6, CallingKeepsData

LEMMA LeaseFailedData ==
  ASSUME NEW CONSTANT c, CacheInv(c), NEW x \in Caches(c)!Caller, Caches(c)!LeaseFailed(x)
  PROVE  \/ PlainStep(c, x) /\ req'[x].pc = req[x].pc /\ req[x].pc # "asks" /\ req'[x].answer = req[x].answer /\ calls' = calls
         \/ \E r : /\ Held(c, x, r) /\ req[x].pc = "asks"
                   /\ Onward(c, x, r) /\ r.answer = req[x].answer
                   /\ r.seen \in Possibly(Caches(c)!Entry) /\ Caches(c)!HandleRecord(x, r, r.seen, calls)
                   /\ UNCHANGED <<token, op, keyOp, tagOp, store, installation>>
<1> DEFINE r == [req[x] EXCEPT !.lease = "void"]
<1>1. /\ IF req[x].pc = "asks" THEN Caches(c)!HandleRecord(x, r, r.seen, calls)
         ELSE Caches(c)!Becomes(x, r) /\ UNCHANGED <<live, calls>>
      /\ UNCHANGED <<token, op, keyOp, tagOp, store, installation>>
  BY DEF Caches!LeaseFailed
<1>2. req[x] \in RequestRecord(c)
  BY TypedFacts
<1>3. r \in RequestRecord(c) /\ Onward(c, x, r) /\ r.answer = req[x].answer /\ r.pc = req[x].pc
  BY <1>2 DEF RequestRecord, Onward
<1>4. CASE req[x].pc = "asks"
  <2>1. Held(c, x, r) /\ r.seen \in Possibly(Caches(c)!Entry)
    BY <1>2, <1>3, <1>4 DEF Held, RequestRecord
  <2> QED
    BY <1>1, <1>3, <1>4, <2>1
<1>5. CASE req[x].pc # "asks"
  <2> HIDE DEF r
  <2> QED
    BY <1>1, <1>3, <1>5, PlainFacts DEF Calling
<1> QED
  BY <1>4, <1>5

LEMMA LeaseFailedKeepsData ==
  ASSUME NEW CONSTANT c, Caches(c)!CacheAssumption, CacheInv(c), CacheInv(c)', DataInv(c), NEW x \in Caches(c)!Caller,
         Caches(c)!LeaseFailed(x)
  PROVE  DataInv(c)'
<1>1. CASE PlainStep(c, x)
  BY <1>1, PlainKeepsData
<1>2. CASE \E r : /\ Held(c, x, r)
                  /\ Onward(c, x, r)
                  /\ r.seen \in Possibly(Caches(c)!Entry) /\ Caches(c)!HandleRecord(x, r, r.seen, calls)
                  /\ UNCHANGED <<token, op, keyOp, tagOp, store, installation>>
  <2>1. PICK r : /\ Held(c, x, r)
                 /\ Onward(c, x, r)
                 /\ r.seen \in Possibly(Caches(c)!Entry) /\ Caches(c)!HandleRecord(x, r, r.seen, calls)
                 /\ UNCHANGED <<token, op, keyOp, tagOp, store, installation>>
    BY <1>2
  <2>2. r.born = req[x].born /\ r.cond = req[x].cond /\ r.seen = req[x].seen /\ Labelled(c, r.seen)
    BY <2>1 DEF Onward, DataInv, AllLabelled
  <2>3. calls \in Seq(CallRecord(c))
    BY TypedFacts
  <2> QED
    BY <2>1, <2>2, <2>3, HandleKeepsData
<1> QED
  BY <1>1, <1>2, LeaseFailedData

(* What the store answers to the call at the head of the queue.             *)
LEMMA ReadAppliedData ==
  ASSUME NEW CONSTANT c, CacheInv(c), Caches(c)!ReadApplied
  PROVE  /\ calls # <<>> /\ calls[1].call = "get" /\ calls[1].by \in Caches(c)!Caller
         /\ UNCHANGED <<token, op, keyOp, tagOp, store, installation>>
         /\ \/ /\ req[calls[1].by].pc = "reads" /\ Held(c, calls[1].by, req[calls[1].by])
               /\ \E rec \in {store[req[calls[1].by].key], None} :
                     Caches(c)!HandleRecord(calls[1].by, req[calls[1].by], rec, Tail(calls))
            \/ req[calls[1].by].pc # "reads" /\ calls' = Tail(calls) /\ req' = req /\ live' = live
<1>1. /\ calls # <<>> /\ Caches(c)!Oldest = calls[1] /\ Caches(c)!Rest = Tail(calls)
  BY TypedFacts DEF Caches!ReadApplied, Caches!Oldest, Caches!Rest
<1>2. /\ calls[1].call = "get" /\ calls[1].by \in Caches(c)!Caller
      /\ UNCHANGED <<token, op, keyOp, tagOp, store, installation>>
      /\ IF req[calls[1].by].pc = "reads"
         THEN \E rec \in {store[req[calls[1].by].key]} \cup (IF c.failures THEN {None} ELSE {}) :
                 Caches(c)!HandleRecord(calls[1].by, req[calls[1].by], rec, Tail(calls))
         ELSE calls' = Tail(calls) /\ UNCHANGED <<req, live>>
  BY <1>1, Zenon DEF Caches!ReadApplied
<1>3. req[calls[1].by].pc = "reads" => Held(c, calls[1].by, req[calls[1].by])
  BY <1>2, TypedFacts DEF Held
<1> QED
  BY <1>1, <1>2, <1>3

LEMMA ReadAppliedKeepsData ==
  ASSUME NEW CONSTANT c, Caches(c)!CacheAssumption, CacheInv(c), CacheInv(c)', DataInv(c), Caches(c)!ReadApplied
  PROVE  DataInv(c)'
<1> DEFINE x == calls[1].by
           left == Tail(calls)
<1>1. /\ calls # <<>> /\ x \in Caches(c)!Caller /\ UNCHANGED <<token, op, keyOp, tagOp, store, installation>>
      /\ \/ /\ req[x].pc = "reads" /\ Held(c, x, req[x])
            /\ \E rec \in {store[req[x].key], None} : Caches(c)!HandleRecord(x, req[x], rec, left)
         \/ calls' = left /\ req' = req /\ live' = live
  BY ReadAppliedData
<1>2. left \in Seq(CallRecord(c))
  BY <1>1, TypedFacts
<1>3. CASE req[x].pc = "reads" /\ Held(c, x, req[x])
           /\ \E rec \in {store[req[x].key], None} : Caches(c)!HandleRecord(x, req[x], rec, left)
  <2>1. PICK rec \in {store[req[x].key], None} : Caches(c)!HandleRecord(x, req[x], rec, left)
    BY <1>3
  <2>2. req[x].key \in c.keys
    BY <1>1, <1>3, TypedFacts DEF Bound
  <2>3. rec \in Possibly(Caches(c)!Entry) /\ Labelled(c, rec)
    BY <2>1, <2>2 DEF CacheInv, Typed, DataInv, AllLabelled, Labelled, Possibly
  <2> QED
    BY <1>1, <1>2, <1>3, <2>1, <2>3, HandleKeepsData
<1>4. CASE calls' = left /\ req' = req /\ live' = live
  <2>1. SameBut(c, x) /\ Draws(c, x, req'[x])
    BY <1>1, <1>4, SameRefl, SameDraws DEF SameBut, DataInv
  <2>2. Calling(c, x, left)
    BY <1>4 DEF Calling
  <2> QED
    BY <1>1, <1>4, <2>1, <2>2, CallingKeepsData
<1> QED
  BY <1>1, <1>3, <1>4

LEMMA WriteAppliedData ==
  ASSUME NEW CONSTANT c, CacheInv(c), Caches(c)!WriteApplied
  PROVE  /\ calls # <<>> /\ calls[1].call \in {"set", "delete"} /\ calls[1].by \in Caches(c)!Caller
         /\ UNCHANGED <<token, op, keyOp, tagOp, installation>>
         /\ store' = [store EXCEPT ![calls[1].key] = calls[1].entry] \/ store' = store
         /\ \/ /\ req[calls[1].by].pc = "drops" /\ Held(c, calls[1].by, req[calls[1].by])
               /\ Caches(c)!Miss(calls[1].by, req[calls[1].by], None, Tail(calls))
            \/ /\ req[calls[1].by].pc # "drops" /\ calls' = Tail(calls) /\ live' = live
               /\ Onward(c, calls[1].by, req'[calls[1].by]) /\ req'[calls[1].by].answer = req[calls[1].by].answer
               /\ \/ req'[calls[1].by].pc = req[calls[1].by].pc
                  \/ req[calls[1].by].pc = "writes" /\ req'[calls[1].by].pc = "ends"
               /\ \A y \in Caches(c)!Caller \ {calls[1].by} : req'[y] = req[y]
<1> DEFINE x == calls[1].by
           left == Tail(calls)
           q == IF req[x].pc = "writes" THEN [req[x] EXCEPT !.pc = "ends"] ELSE req[x]
<1>1. calls # <<>> /\ Caches(c)!Oldest = calls[1] /\ Caches(c)!Rest = Tail(calls)
  BY TypedFacts DEF Caches!WriteApplied, Caches!Oldest, Caches!Rest
<1>2. /\ calls[1].call \in {"set", "delete"} /\ x \in Caches(c)!Caller
      /\ UNCHANGED <<token, op, keyOp, tagOp, installation>>
      /\ store' = [store EXCEPT ![calls[1].key] = calls[1].entry] \/ store' = store
      /\ IF req[x].pc = "drops" THEN Caches(c)!Miss(x, req[x], None, left)
         ELSE Caches(c)!Becomes(x, q) /\ calls' = left /\ live' = live
  BY <1>1, Zenon DEF Caches!WriteApplied
<1>3. req[x] \in RequestRecord(c)
  BY <1>2, TypedFacts
<1>4. CASE req[x].pc = "drops"
  <2>1. Held(c, x, req[x])
    BY <1>3, <1>4 DEF Held
  <2> QED
    BY <1>1, <1>2, <1>4, <2>1
<1>5. CASE req[x].pc # "drops"
  <2>1. /\ Onward(c, x, q) /\ q.answer = req[x].answer
        /\ q.pc = req[x].pc \/ (req[x].pc = "writes" /\ q.pc = "ends")
    BY <1>3 DEF Onward, RequestRecord
  <2>2. Caches(c)!Becomes(x, q) /\ calls' = left /\ live' = live
    BY <1>2, <1>5
  <2> HIDE DEF q, x, left
  <2>3. req'[x] = q /\ \A y \in Caches(c)!Caller \ {x} : req'[y] = req[y]
    BY <1>2, <2>2, BecomesOne
  <2> USE DEF x, left
  <2> QED
    BY <1>1, <1>2, <1>5, <2>1, <2>2, <2>3
<1> QED
  BY <1>4, <1>5

LEMMA WriteStoreKeeps ==
  ASSUME NEW CONSTANT c, Caches(c)!CacheAssumption, CacheInv(c), DataInv(c), Caches(c)!WriteApplied
  PROVE  StoreKeeps(c)
<1>1. /\ calls # <<>> /\ calls[1].call \in {"set", "delete"} /\ calls[1].by \in Caches(c)!Caller
      /\ store' = [store EXCEPT ![calls[1].key] = calls[1].entry] \/ store' = store
  BY WriteAppliedData
<1> DEFINE b == calls[1]
<1>2. 1 \in DOMAIN calls /\ b \in CallRecord(c) /\ store \in [c.keys -> Possibly(Caches(c)!Entry)]
  BY <1>1, TypedFacts DEF CacheInv, Typed
<1>3. b.by \notin c.operations
  BY <1>1 DEF Caches!CacheAssumption
<1>4. b.call = "delete" => b.entry = None
  BY <1>1, <1>2, <1>3 DEF DataInv, Queued
<1>5. Labelled(c, b.entry)
  BY <1>2 DEF DataInv, AllLabelled
<1>6. ASSUME b.entry # None, NEW o \in c.operations, Hits(c, o, b.key), op[o].pc = "done" PROVE op[o].at <= b.entry.born
  <2>1. b.call = "set"
    BY <1>1, <1>4, <1>6
  <2>2. ~(op[o].at > b.entry.born)
    BY <1>1, <1>2, <1>6, <2>1 DEF DataInv, Written
  <2>3. b.entry \in Caches(c)!Entry /\ op[o].at \in Nat
    BY <1>2, <1>6 DEF CallRecord, Possibly, DataInv, Numbered, Hits
  <2>4. b.entry.born \in Nat
    BY <2>3 DEF Caches!Entry, Caches!Stamp
  <2> QED
    BY <2>2, <2>3, <2>4
<1> HIDE DEF b
<1>7. CASE store' = [store EXCEPT ![b.key] = b.entry]
  <2>1. ASSUME NEW k1 \in c.keys, k1 # b.key
        PROVE  store'[k1] = store[k1] /\ Labelled(c, store[k1])
    BY <1>2, <1>7, <2>1 DEF DataInv, AllLabelled
  <2>2. b.key \in c.keys => store'[b.key] = b.entry
    BY <1>2, <1>7
  <2> QED
    BY <1>5, <1>6, <2>1, <2>2 DEF StoreKeeps
<1> QED
  BY <1>1, <1>7, SameStore DEF b, DataInv

LEMMA WriteAppliedKeepsData ==
  ASSUME NEW CONSTANT c, Caches(c)!CacheAssumption, CacheInv(c), CacheInv(c)', DataInv(c), Caches(c)!WriteApplied
  PROVE  DataInv(c)'
<1> DEFINE x == calls[1].by
           left == Tail(calls)
<1>1. /\ calls # <<>> /\ x \in Caches(c)!Caller /\ UNCHANGED <<token, op, keyOp, tagOp, installation>>
      /\ \/ /\ Held(c, x, req[x]) /\ Caches(c)!Miss(x, req[x], None, left)
         \/ /\ calls' = left /\ live' = live /\ Onward(c, x, req'[x])
            /\ \A y \in Caches(c)!Caller \ {x} : req'[y] = req[y]
  BY WriteAppliedData
<1>2. left \in Seq(CallRecord(c)) /\ None \in Possibly(Caches(c)!Entry) /\ Labelled(c, None)
  BY <1>1, TypedFacts DEF Possibly, Labelled
<1>3. /\ SameBut(c, x) /\ Draws(c, x, req'[x]) /\ (live' = live \/ MapsKeep(c)) /\ Calling(c, x, left)
  <2>1. CASE Held(c, x, req[x]) /\ Caches(c)!Miss(x, req[x], None, left)
    <3>1. calls' = left /\ Drawn(c, x, req[x], None, req'[x]) /\ SameBut(c, x) /\ MapsKeep(c)
      BY <1>1, <1>2, <2>1, MissData, MissStepped DEF Stepped
    <3> HIDE DEF x, left
    <3> QED
      BY <1>1, <1>2, <3>1 DEF Drawn, Draws, Calling, DataInv, AllLabelled
  <2>2. CASE /\ calls' = left /\ live' = live /\ Onward(c, x, req'[x])
             /\ \A y \in Caches(c)!Caller \ {x} : req'[y] = req[y]
    <3> HIDE DEF x, left
    <3> QED
      BY <1>1, <2>2, SameRefl DEF SameBut, Onward, Draws, Calling, DataInv, AllLabelled
  <2> QED
    BY <1>1, <2>1, <2>2
<1>4. PICK d, a, n : Quiet(c, d, a, n)
  BY <1>1, <1>3, CallingQuiet
<1> QED
  BY <1>1, <1>3, <1>4, WriteStoreKeeps, SameGen, RequestKeepsData

LEMMA ExpireKeepsData ==
  ASSUME NEW CONSTANT c, Caches(c)!CacheAssumption, CacheInv(c), CacheInv(c)', DataInv(c), NEW k1 \in c.keys,
         Caches(c)!Expire(k1)
  PROVE  DataInv(c)'
<1> DEFINE age == IF store[k1].age = "fresh" THEN "stale" ELSE "old"
<1>1. /\ store[k1] # None /\ UNCHANGED <<req, token, live, op, keyOp, tagOp, calls, installation>>
      /\ store' = [store EXCEPT ![k1] = [@ EXCEPT !.age = age]]
  BY Zenon DEF Caches!Expire
<1>2. store \in [c.keys -> Possibly(Caches(c)!Entry)] /\ calls \in Seq(CallRecord(c))
  BY DEF CacheInv, Typed
<1> HIDE DEF age
<1>3. \A k2 \in c.keys : store'[k2] = IF k2 = k1 THEN [store[k1] EXCEPT !.age = age] ELSE store[k2]
  BY <1>1, <1>2
<1>4. store[k1] \in Caches(c)!Entry
  BY <1>1, <1>2 DEF Possibly
<1>5. [store[k1] EXCEPT !.age = age].born = store[k1].born /\ [store[k1] EXCEPT !.age = age].tags = store[k1].tags
  BY <1>4 DEF Caches!Entry
<1>6. StoreKeeps(c)
  BY <1>1, <1>3, <1>5 DEF StoreKeeps, DataInv, AllLabelled, Labelled
<1>7. Quiet(c, 0, None, 0)
  BY <1>1, <1>2 DEF Quiet, Shift
<1>8. \A x \in Caches(c)!Caller : Draws(c, x, req'[x])
  BY <1>1, SameRefl, SameDraws DEF DataInv
<1>9. AllLabelled(c)' /\ Remains(c)
  BY <1>1, <1>6, <1>8, LabelsKeep DEF StoreKeeps, GenKeeps, DataInv, AllLabelled
<1> QED
  BY <1>1, <1>2, <1>6, <1>7, <1>9, QuietKeeps

----------------------------------------------------------------------------
(* A begun request: the token taken for it, and what it has to wait for.     *)
Takes(k1, x) == IF live[k1].gen = None THEN x ELSE live[k1].gen
Awaits(k1, f) == ({keyOp[k1]} \cup {tagOp[t1] : t1 \in f.tags}) \ {None}

Opens(c, x, k1, f, g, w) ==
    /\ req'[x].born = Caches(c)!Epoch /\ req'[x].after = {o \in c.operations : Caches(c)!Concerns(o, k1, f.tags)}
    /\ req'[x].key = k1 /\ req'[x].conf = f /\ req'[x].cond = req[x].cond /\ req'[x].seen = req[x].seen
    /\ req'[x].fallback = req[x].fallback /\ req'[x].answer = req[x].answer
    /\ req'[x].completed = req[x].completed /\ req'[x].joined = req[x].joined
    /\ \A y \in Caches(c)!Caller \ {x} : req'[y] = req[y]
    /\ \/ /\ ~f.cached /\ req'[x].pc = "fetches" /\ req'[x].token = None
          /\ token' = token /\ live' = live /\ calls' = calls
       \/ /\ f.cached /\ req'[x].token = g /\ req'[x].waits = w /\ g \in Caches(c)!Caller
          /\ req'[x].pc = IF w = {} THEN "reads" ELSE "waits"
          /\ \A y \in Caches(c)!Caller : token'[y].tags = IF y = g THEN token[y].tags \cup f.tags ELSE token[y].tags
          /\ \A k2 \in c.keys : live'[k2].gen = IF k2 = k1 THEN g ELSE live[k2].gen
          /\ calls' = IF w = {} THEN Append(calls, Caches(c)!Call("get", x, k1, None)) ELSE calls

LEMMA BeginData ==
  ASSUME NEW CONSTANT c, Caches(c)!CacheAssumption, CacheInv(c), NEW x \in Caches(c)!Caller, ~Begun(req[x]),
         NEW i \in c.installations, NEW k1 \in c.keys, NEW f \in c.configs, Caches(c)!Begin(x, i, k1, f)
  PROVE  Opens(c, x, k1, f, Takes(k1, x), Awaits(k1, f))
<1> DEFINE g == IF live[k1].gen = None THEN x ELSE live[k1].gen
           w == ({keyOp[k1]} \cup {tagOp[t1] : t1 \in f.tags}) \ {None}
           force == f.forced \/ x \in c.refreshes
           since == {o \in c.operations : Caches(c)!Concerns(o, k1, f.tags)}
           e == Caches(c)!Epoch
           r == [req[x] EXCEPT !.inst = i, !.key = k1, !.conf = f, !.born = e, !.forced = force, !.after = since]
           step == IF w = {} THEN "reads" ELSE "waits"
           alone == [r EXCEPT !.pc = "fetches"]
           q == [r EXCEPT !.pc = step, !.waits = w, !.token = g]
<1>1. \/ ~f.cached /\ Caches(c)!Becomes(x, alone) /\ UNCHANGED <<token, live, calls>>
      \/ /\ f.cached /\ Caches(c)!Becomes(x, q)
         /\ token' = [token EXCEPT ![g].tags = @ \cup f.tags, ![g].active = @ + 1]
         /\ live' = [live EXCEPT ![k1].gen = g]
         /\ calls' = IF w = {} THEN Append(calls, Caches(c)!Call("get", x, k1, None)) ELSE calls
  BY Zenon DEF Caches!Begin
<1>2. Typed(c) /\ Requests(c)
  BY DEF CacheInv
<1>3. req[x] \in RequestRecord(c) /\ req[x].token = None
  BY <1>2, TypedFacts DEF Requests
<1>4. g \in Caches(c)!Caller
  BY <1>2 DEF Typed, LiveRecord, Possibly
<1>5. /\ token \in [Caches(c)!Caller -> [tags : SUBSET c.tags, active : Int]] /\ live \in [c.keys -> LiveRecord(c)]
  BY <1>2 DEF Typed
<1> HIDE DEF g, w, force, since, e
<1>6. /\ alone.born = e /\ alone.after = since /\ alone.key = k1 /\ alone.conf = f /\ alone.cond = req[x].cond
      /\ alone.seen = req[x].seen /\ alone.fallback = req[x].fallback /\ alone.answer = req[x].answer
      /\ alone.completed = req[x].completed /\ alone.joined = req[x].joined /\ alone.pc = "fetches" /\ alone.token = None
  BY <1>3 DEF RequestRecord
<1>7. /\ q.born = e /\ q.after = since /\ q.key = k1 /\ q.conf = f /\ q.cond = req[x].cond
      /\ q.seen = req[x].seen /\ q.fallback = req[x].fallback /\ q.answer = req[x].answer
      /\ q.completed = req[x].completed /\ q.joined = req[x].joined /\ q.pc = step /\ q.token = g /\ q.waits = w
  BY <1>3 DEF RequestRecord
<1>8. CASE ~f.cached /\ Caches(c)!Becomes(x, alone) /\ UNCHANGED <<token, live, calls>>
  <2> HIDE DEF alone, q, r
  <2>1. req'[x] = alone /\ \A y \in Caches(c)!Caller \ {x} : req'[y] = req[y]
    BY <1>8, BecomesOne
  <2> QED
    BY <1>6, <1>8, <2>1 DEF e, since, Opens
<1>9. CASE /\ f.cached /\ Caches(c)!Becomes(x, q)
           /\ token' = [token EXCEPT ![g].tags = @ \cup f.tags, ![g].active = @ + 1]
           /\ live' = [live EXCEPT ![k1].gen = g]
           /\ calls' = IF w = {} THEN Append(calls, Caches(c)!Call("get", x, k1, None)) ELSE calls
  <2> HIDE DEF alone, q, r
  <2>1. req'[x] = q /\ \A y \in Caches(c)!Caller \ {x} : req'[y] = req[y]
    BY <1>9, BecomesOne
  <2>2. \A y \in Caches(c)!Caller : token'[y].tags = IF y = g THEN token[y].tags \cup f.tags ELSE token[y].tags
    BY <1>5, <1>9
  <2>3. \A k2 \in c.keys : live'[k2].gen = IF k2 = k1 THEN g ELSE live[k2].gen
    BY <1>5, <1>9 DEF LiveRecord
  <2> QED
    BY <1>4, <1>7, <1>9, <2>1, <2>2, <2>3 DEF e, since, g, w, Opens, Takes, Awaits
<1> QED
  BY <1>1, <1>8, <1>9

(* A token gets the labels of every request that takes it.                  *)
LEMMA BeginLabels ==
  ASSUME NEW CONSTANT c, Caches(c)!CacheAssumption, Uniform(c), CacheInv(c), DataInv(c), NEW x \in Caches(c)!Caller,
         ~Begun(req[x]), NEW i \in c.installations, NEW k1 \in c.keys, NEW f \in c.configs, Caches(c)!Begin(x, i, k1, f),
         UNCHANGED <<op, keyOp, tagOp, store>>, \A j \in DOMAIN calls' : Labelled(c, calls'[j].entry)
  PROVE  AllLabelled(c)' /\ Remains(c)
<1> DEFINE g == Takes(k1, x)
<1>1. Opens(c, x, k1, f, g, Awaits(k1, f))
  BY BeginData
<1>1a. /\ req'[x].born = Caches(c)!Epoch /\ req'[x].key = k1 /\ req'[x].conf = f /\ req'[x].cond = req[x].cond
       /\ req'[x].seen = req[x].seen /\ \A y \in Caches(c)!Caller \ {x} : req'[y] = req[y]
       /\ \/ ~f.cached /\ req'[x].token = None /\ token' = token /\ live' = live
          \/ /\ f.cached /\ req'[x].token = g /\ g \in Caches(c)!Caller
             /\ \A y \in Caches(c)!Caller : token'[y].tags = IF y = g THEN token[y].tags \cup f.tags ELSE token[y].tags
             /\ \A k2 \in c.keys : live'[k2].gen = IF k2 = k1 THEN g ELSE live[k2].gen
  BY <1>1 DEF Opens
<1> HIDE DEF g
<1>2. \A y \in Caches(c)!Caller : req[y].token # x /\ \A k2 \in c.keys : live[k2].gen # x
  BY DEF CacheInv, Tokens, Unused
<1>3. AllLabelled(c) /\ Numbered(c)
  BY DEF DataInv
<1>4. f.cached => f.tags = Labels(c)
  BY DEF Uniform, Labels
<1>5. ASSUME NEW y \in Caches(c)!Caller
      PROVE  token'[y].tags \subseteq Labels(c) /\ (token[y].tags = Labels(c) => token'[y].tags = Labels(c))
  <2>1. token[y].tags \subseteq Labels(c)
    BY <1>3 DEF AllLabelled
  <2>2. token'[y].tags = token[y].tags \/ token'[y].tags = token[y].tags \cup Labels(c)
    BY <1>1a, <1>4
  <2> QED
    BY <2>1, <2>2
<1>6. req'[x].token # None => token'[req'[x].token].tags = Labels(c) /\ req'[x].conf.cached
  <2>1. SUFFICES ASSUME req'[x].token # None PROVE token'[g].tags = Labels(c) /\ req'[x].token = g /\ req'[x].conf.cached
    OBVIOUS
  <2>2. f.cached /\ req'[x].token = g /\ g \in Caches(c)!Caller /\ req'[x].conf = f
    BY <1>1a, <2>1
  <2>3. token'[g].tags = token[g].tags \cup Labels(c) /\ token[g].tags \subseteq Labels(c)
    BY <1>1a, <1>3, <1>4, <2>1, <2>2 DEF AllLabelled
  <2> QED
    BY <2>2, <2>3
<1>7. \A y \in Caches(c)!Caller : req[y].token # None => req[y].token \in Caches(c)!Caller
  BY TypedFacts DEF RequestRecord, Possibly
<1>8. \A k2 \in c.keys : live[k2].gen # None => live[k2].gen \in Caches(c)!Caller
  BY DEF CacheInv, Typed, LiveRecord, Possibly
<1>9. ASSUME NEW y \in Caches(c)!Caller
      PROVE  /\ Labelled(c, req'[y].cond) /\ Labelled(c, req'[y].seen)
             /\ req'[y].token # None => token'[req'[y].token].tags = Labels(c) /\ req'[y].conf.cached
  <2>1. CASE y = x
    BY <1>1a, <1>3, <1>6, <2>1 DEF AllLabelled
  <2>2. CASE y # x
    BY <1>1a, <1>3, <1>5, <1>7, <2>2 DEF AllLabelled
  <2> QED
    BY <2>1, <2>2
<1>10. ASSUME NEW k2 \in c.keys, live'[k2].gen # None PROVE token'[live'[k2].gen].tags = Labels(c)
  <2>1. CASE live'[k2].gen = live[k2].gen
    BY <1>3, <1>5, <1>8, <1>10, <2>1 DEF AllLabelled
  <2>2. CASE live'[k2].gen # live[k2].gen
    <3>1. live'[k2].gen = req'[x].token
      BY <1>1a, <2>2
    <3> QED
      BY <1>6, <1>10, <3>1
  <2> QED
    BY <2>1, <2>2
<1>11. AllLabelled(c)'
  BY <1>3, <1>5, <1>9, <1>10 DEF AllLabelled, Labelled
<1>12. \A o \in c.operations : \A k2 : Hits(c, o, k2)' => op'[o].at <= Caches(c)!Epoch
  <2>1. Caches(c)!Epoch \in Nat
    <3>1. Caches(c)!Epoch \in 0..Cardinality(c.operations)
      BY StampFacts, Counted, Zenon DEF Caches!Stamp
    <3> QED
      BY <3>1
  <2> QED
    BY <1>3, <2>1 DEF Hits, Issued, Numbered
<1>13. ASSUME NEW y \in Caches(c)!Caller, y # x, Caches(c)!Current(y)'
       PROVE  Caches(c)!Current(y) /\ req'[y] = req[y]
  <2>1. req'[y] = req[y] /\ req[y].token # None /\ live'[req[y].key].gen = req[y].token
    BY <1>1a, <1>13 DEF Caches!Current
  <2>2. req[y].key \in c.keys
    BY <2>1 DEF CacheInv, Requests, Bound, Begun
  <2>3. live'[req[y].key].gen = live[req[y].key].gen
    BY <1>1a, <1>2, <2>1, <2>2 DEF g, Takes
  <2> QED
    BY <2>1, <2>3 DEF Caches!Current
<1> QED
  BY <1>1a, <1>11, <1>12, <1>13 DEF Remains

LEMMA BeginKeepsData ==
  ASSUME NEW CONSTANT c, Caches(c)!CacheAssumption, Uniform(c), CacheInv(c), CacheInv(c)', DataInv(c),
         NEW x \in Caches(c)!Caller, ~Begun(req[x]), NEW i \in c.installations, NEW k1 \in c.keys, NEW f \in c.configs,
         Caches(c)!Begin(x, i, k1, f), UNCHANGED <<op, keyOp, tagOp, store, installation>>
  PROVE  DataInv(c)'
<1> DEFINE a == Caches(c)!Call("get", x, k1, None)
<1>1. calls' = calls \/ calls' = Append(calls, a)
  BY BeginData DEF Opens
<1>2. a \in CallRecord(c) /\ Asked(c, a)
  BY DEF CallRecord, Caches!Call, Operations, Possibly, Asked, Labelled
<1> HIDE DEF a
<1>3. calls \in Seq(CallRecord(c)) /\ calls' \in Seq(CallRecord(c))
  BY DEF CacheInv, Typed
<1>4. Shift(0, a, 0) \/ Shift(0, a, 1)
  BY <1>1, <1>2, <1>3, Shifts
<1>5. Quiet(c, 0, a, 0) \/ Quiet(c, 0, a, 1)
  BY <1>2, <1>3, <1>4 DEF Quiet
<1>6. PICK n : Quiet(c, 0, a, n)
  BY <1>5
<1>7. \A j \in DOMAIN calls' : Labelled(c, calls'[j].entry)
  BY <1>3, <1>6, QueueLabels DEF DataInv
<1>8. AllLabelled(c)' /\ Remains(c)
  BY <1>7, BeginLabels
<1> QED
  BY <1>3, <1>6, <1>8, QuietKeeps, SameStore DEF DataInv

LEMMA StartKeepsData ==
  ASSUME NEW CONSTANT c, Caches(c)!CacheAssumption, Uniform(c), CacheInv(c), CacheInv(c)', DataInv(c),
         NEW x \in Caches(c)!Caller, Caches(c)!Start(x) \/ Caches(c)!StartRefresh(x)
  PROVE  DataInv(c)'
<1>1. ~Begun(req[x]) /\ UNCHANGED <<op, keyOp, tagOp, store, installation>>
  BY DEF Caches!Start, Caches!StartRefresh, Begun
<1>2. CASE \E i \in c.installations, k1 \in c.keys, f \in c.configs : Caches(c)!Begin(x, i, k1, f)
  BY <1>1, <1>2, BeginKeepsData
<1>3. CASE /\ ~\E i \in c.installations, k1 \in c.keys, f \in c.configs : Caches(c)!Begin(x, i, k1, f)
           /\ Caches(c)!StartRefresh(x)
  <2> DEFINE q == [req[x] EXCEPT !.pc = "fetches"]
  <2>1. Bound(c, req[x]) /\ req[x] \in RequestRecord(c)
    BY <1>3, TypedFacts DEF Caches!StartRefresh
  <2>2. Caches(c)!Becomes(x, q) /\ UNCHANGED <<token, live, calls>>
    BY <1>3, <2>1 DEF Caches!StartRefresh, Bound
  <2>3. Onward(c, x, q)
    BY <2>1 DEF Onward, RequestRecord
  <2> HIDE DEF q
  <2>4. PlainStep(c, x)
    BY <1>1, <2>2, <2>3, PlainFacts DEF Calling
  <2> QED
    BY <2>4, PlainKeepsData
<1> QED
  BY <1>2, <1>3 DEF Caches!Start

----------------------------------------------------------------------------
(* What becomes of the records of requests when some are stopped and others *)
(* are over.                                                                *)
Halts(c, y, q) ==
    /\ Onward(c, y, q) /\ q.answer = req[y].answer
    /\ \/ q.pc = req[y].pc \/ (req[y].pc = "spawned" /\ q.pc = "done")
       \/ req[y].pc \in Caches(c)!Waiting /\ q.pc = "ends"

Gone(x, q) ==
    /\ q.pc = "done" /\ q.born = 0 /\ q.after = {} /\ q.waits = {} /\ q.token = None /\ q.joined = None
    /\ q.cond = None /\ q.seen = None /\ q.fallback = None /\ q.answer = None /\ q.key = req[x].key
    /\ q.completed \in {req[x].completed, None}

Fades(c) == \A x \in Caches(c)!Caller : Draws(c, x, req'[x]) \/ Gone(x, req'[x])
TagsStay(c) == \A x \in Caches(c)!Caller : token'[x].tags = token[x].tags

LEMMA HaltsDraws ==
  ASSUME NEW CONSTANT c, AllLabelled(c), NEW x \in Caches(c)!Caller, NEW q, Halts(c, x, q)
  PROVE  Draws(c, x, q)
BY DEF Halts, Onward, Draws, AllLabelled

LEMMA StoppedHalts ==
  ASSUME NEW CONSTANT c, CacheInv(c), NEW x \in Caches(c)!Caller
  PROVE  Halts(c, x, Caches(c)!Stopped(req[x])) /\ Halts(c, x, req[x])
<1>1. req[x] \in RequestRecord(c)
  BY TypedFacts
<1> QED
  BY <1>1, StoppedOnward DEF Halts, Onward

LEMMA ForgottenGone ==
  ASSUME NEW CONSTANT c, CacheInv(c), NEW x \in Caches(c)!Caller, NEW out
  PROVE  Gone(x, Caches(c)!Forgotten(x, out))
<1> DEFINE kept == IF out = "record" THEN req[x].completed ELSE None
           l == IF req[x].lease = "held" THEN "returned" ELSE req[x].lease
           n == Caches(c)!NoRequest
           q == [n EXCEPT !.pc = "done", !.inst = req[x].inst, !.key = req[x].key, !.outcome = out,
                          !.completed = kept, !.lease = l]
<1>1. Caches(c)!Forgotten(x, out) = q
  BY DEF Caches!Forgotten
<1>2. kept \in {req[x].completed, None}
  OBVIOUS
<1> HIDE DEF kept, l
<1>3. /\ q.pc = "done" /\ q.born = 0 /\ q.after = {} /\ q.waits = {} /\ q.token = None /\ q.joined = None
      /\ q.cond = None /\ q.seen = None /\ q.fallback = None /\ q.answer = None /\ q.key = req[x].key
      /\ q.completed = kept
  BY DEF Caches!NoRequest
<1> HIDE DEF q
<1> QED
  BY <1>1, <1>2, <1>3 DEF Gone

LEMMA FadingLabels ==
  ASSUME NEW CONSTANT c, CacheInv(c), AllLabelled(c), Fades(c), GenKeeps(c), TagsStay(c),
         \A j \in DOMAIN calls' : Labelled(c, calls'[j].entry), \A k1 \in c.keys : Labelled(c, store'[k1])
  PROVE  AllLabelled(c)' /\ Remains(c)
<1>1. ASSUME NEW x \in Caches(c)!Caller, NEW q, q = req'[x]
      PROVE  /\ q.token # None => q.token = req[x].token /\ q.born = req[x].born /\ q.key = req[x].key /\ q.conf = req[x].conf
             /\ Labelled(c, q.cond) /\ Labelled(c, q.seen)
  BY <1>1 DEF Fades, Draws, Gone, Labelled
<1>2. \A x \in Caches(c)!Caller : req[x].token # None => req[x].token \in Caches(c)!Caller
  BY TypedFacts DEF RequestRecord, Possibly
<1>3. \A k1 \in c.keys : live[k1].gen # None => live[k1].gen \in Caches(c)!Caller
  BY DEF CacheInv, Typed, LiveRecord, Possibly
<1>4. AllLabelled(c)'
  <2>1. ASSUME NEW x \in Caches(c)!Caller
        PROVE  /\ token'[x].tags \subseteq Labels(c)
               /\ Labelled(c, req'[x].cond) /\ Labelled(c, req'[x].seen)
               /\ req'[x].token # None => token'[req'[x].token].tags = Labels(c) /\ req'[x].conf.cached
    BY <1>1, <1>2 DEF AllLabelled, TagsStay
  <2>2. \A k1 \in c.keys : live'[k1].gen # None => token'[live'[k1].gen].tags = Labels(c)
    BY <1>3 DEF AllLabelled, GenKeeps, TagsStay
  <2> QED
    BY <2>1, <2>2 DEF AllLabelled, Labelled
<1>5. ASSUME NEW x \in Caches(c)!Caller, NEW k1, Caches(c)!Current(x)', k1 = req'[x].key
      PROVE  Caches(c)!Current(x) /\ req'[x].born = req[x].born /\ k1 = req[x].key
  <2>1. req'[x].token # None /\ live'[k1].gen = req'[x].token
    BY <1>5 DEF Caches!Current
  <2>2. req[x].token = req'[x].token /\ req[x].key = k1 /\ req'[x].born = req[x].born
    BY <1>1, <1>5, <2>1
  <2>3. k1 \in c.keys
    BY <2>1, <2>2 DEF CacheInv, Requests, Bound, Begun
  <2>4. live[k1].gen = live'[k1].gen
    BY <2>1, <2>3 DEF GenKeeps
  <2> QED
    BY <2>1, <2>2, <2>4 DEF Caches!Current
<1> QED
  BY <1>4, <1>5 DEF Remains

LEMMA FadingKeepsData ==
  ASSUME NEW CONSTANT c, Caches(c)!CacheAssumption, CacheInv(c), CacheInv(c)', DataInv(c), Fades(c), GenKeeps(c),
         TagsStay(c), UNCHANGED <<op, keyOp, tagOp, store, calls>>
  PROVE  DataInv(c)'
<1>1. calls \in Seq(CallRecord(c)) /\ calls' \in Seq(CallRecord(c))
  BY DEF CacheInv, Typed
<1>2. Quiet(c, 0, None, 0)
  BY <1>1 DEF Quiet, Shift
<1>3. AllLabelled(c)' /\ Remains(c)
  BY FadingLabels DEF DataInv, AllLabelled
<1> QED
  BY <1>1, <1>2, <1>3, QuietKeeps, SameStore DEF DataInv

LEMMA CountsDownTags ==
  ASSUME NEW CONSTANT c, CacheInv(c), NEW x \in Caches(c)!Caller, Caches(c)!CountsDown(x)
  PROVE  TagsStay(c)
<1>1. token \in [Caches(c)!Caller -> [tags : SUBSET c.tags, active : Int]]
  BY DEF CacheInv, Typed
<1> QED
  BY <1>1 DEF TagsStay, Caches!CountsDown

(* The settled hook forgets its request alone.                              *)
LEMMA SettleData ==
  ASSUME NEW CONSTANT c, CacheInv(c), NEW x \in Caches(c)!Caller, Caches(c)!Settle(x)
  PROVE  /\ req[x].pc = "ends" /\ UNCHANGED <<op, keyOp, tagOp, store, calls, installation>>
         /\ Gone(x, req'[x]) /\ \A y \in Caches(c)!Caller \ {x} : req'[y] = req[y]
         /\ GenKeeps(c) /\ TagsStay(c)
<1> DEFINE out == IF Caches(c)!Active(x) THEN Caches(c)!SettledAs(x) ELSE req[x].outcome
           q == Caches(c)!Forgotten(x, out)
<1>1. /\ req[x].pc = "ends" /\ UNCHANGED <<op, keyOp, tagOp, store, calls, installation>>
      /\ Caches(c)!Becomes(x, q) /\ Caches(c)!CountsDown(x) /\ live' = Caches(c)!Released(x)
  BY Zenon DEF Caches!Settle
<1> HIDE DEF out
<1>2. Gone(x, q)
  BY ForgottenGone
<1> HIDE DEF q
<1>3. req'[x] = q /\ \A y \in Caches(c)!Caller \ {x} : req'[y] = req[y]
  BY <1>1, BecomesOne
<1>4. GenKeeps(c)
  BY <1>1, ReleasedFacts DEF GenKeeps
<1>5. TagsStay(c)
  BY <1>1, CountsDownTags
<1> QED
  BY <1>1, <1>2, <1>3, <1>4, <1>5

LEMMA SettleKeepsData ==
  ASSUME NEW CONSTANT c, Caches(c)!CacheAssumption, CacheInv(c), CacheInv(c)', DataInv(c), NEW x \in Caches(c)!Caller,
         Caches(c)!Settle(x)
  PROVE  DataInv(c)'
<1>1. Fades(c)
  BY SettleData, SameRefl, SameDraws DEF Fades, DataInv
<1> QED
  BY <1>1, SettleData, FadingKeepsData

LEMMA CleanedHalts ==
  ASSUME NEW CONSTANT c, CacheInv(c), NEW x \in Caches(c)!Caller, NEW leads, NEW out, NEW l, NEW q,
         q = [req[x] EXCEPT !.leads = leads, !.outcome = out, !.lease = l]
  PROVE  /\ Onward(c, x, q) /\ q.answer = req[x].answer /\ q.pc = req[x].pc
         /\ Halts(c, x, Caches(c)!Stopped(q)) /\ Halts(c, x, q)
<1>1. req[x] \in RequestRecord(c)
  BY TypedFacts
<1>2. Onward(c, x, q) /\ q.answer = req[x].answer /\ q.pc = req[x].pc
  BY <1>1 DEF Onward, RequestRecord
<1>3. Halts(c, x, q)
  BY <1>2 DEF Halts
<1>4. \A p : [q EXCEPT !.pc = p, !.error = TRUE] =
        [[req[x] EXCEPT !.leads = leads, !.outcome = out, !.lease = l] EXCEPT !.pc = p, !.error = TRUE]
  OBVIOUS
<1>5. ASSUME NEW p, \/ p = "done" /\ req[x].pc = "spawned"
                    \/ p = "ends" /\ req[x].pc \in Caches(c)!Waiting
      PROVE  Halts(c, x, [q EXCEPT !.pc = p, !.error = TRUE])
  <2>1. PICK s : s = [[req[x] EXCEPT !.leads = leads, !.outcome = out, !.lease = l] EXCEPT !.pc = p, !.error = TRUE]
    OBVIOUS
  <2>2. Onward(c, x, s) /\ s.answer = req[x].answer /\ s.pc = p
    BY <1>1, <2>1 DEF Onward, RequestRecord
  <2>3. Halts(c, x, s)
    BY <1>5, <2>2 DEF Halts
  <2> QED
    BY <1>4, <2>1, <2>3
<1> QED
  BY <1>2, <1>3, <1>5 DEF Caches!Stopped

LEMMA UnuseData ==
  ASSUME NEW CONSTANT c, CacheInv(c), NEW i \in c.installations, Caches(c)!Unuse(i)
  PROVE  /\ UNCHANGED <<token, op, keyOp, tagOp, store, calls>>
         /\ \A k1 \in c.keys : live'[k1].gen = None
         /\ \A x \in Caches(c)!Caller : Halts(c, x, req'[x])
<1> DEFINE leaders == {x \in Caches(c)!Caller : req[x].inst = i /\ req[x].leads}
           cleaned(x) == [req[x] EXCEPT !.leads = IF x \in leaders THEN FALSE ELSE @,
                                        !.outcome = IF x \in leaders THEN "rejected" ELSE @,
                                        !.lease = IF req[x].inst = i /\ @ = "held" THEN "returned" ELSE @]
           refreshes == {live[k1].refresh : k1 \in c.keys}
<1>1. /\ installation' = [installation EXCEPT ![i] = "off"] /\ UNCHANGED <<token, op, keyOp, tagOp, store, calls>>
      /\ req' = [x \in Caches(c)!Caller |-> IF x \in refreshes THEN Caches(c)!Stopped(cleaned(x)) ELSE cleaned(x)]
      /\ live' = [k1 \in c.keys |->
                     [gen |-> None, refresh |-> None,
                      flight |-> IF live[k1].flight \in leaders THEN None ELSE live[k1].flight,
                      rawFlight |-> IF live[k1].rawFlight \in leaders THEN None ELSE live[k1].rawFlight]]
  BY Zenon DEF Caches!Unuse
<1> HIDE DEF refreshes, leaders
<1>2. ASSUME NEW x \in Caches(c)!Caller PROVE Halts(c, x, req'[x])
  <2>1. PICK leads, out, l : /\ leads = IF x \in leaders THEN FALSE ELSE req[x].leads
                             /\ out = IF x \in leaders THEN "rejected" ELSE req[x].outcome
                             /\ l = IF req[x].inst = i /\ req[x].lease = "held" THEN "returned" ELSE req[x].lease
    OBVIOUS
  <2>2. cleaned(x) = [req[x] EXCEPT !.leads = leads, !.outcome = out, !.lease = l]
    BY <2>1
  <2> HIDE DEF cleaned
  <2>3. Halts(c, x, cleaned(x)) /\ Halts(c, x, Caches(c)!Stopped(cleaned(x)))
    BY <2>2, CleanedHalts
  <2> QED
    BY <1>1, <2>3
<1> HIDE DEF cleaned
<1>3. \A k1 \in c.keys : live'[k1].gen = None
  BY <1>1
<1> QED
  BY <1>1, <1>2, <1>3

LEMMA UnuseKeepsData ==
  ASSUME NEW CONSTANT c, Caches(c)!CacheAssumption, CacheInv(c), CacheInv(c)', DataInv(c), NEW i \in c.installations,
         Caches(c)!Unuse(i)
  PROVE  DataInv(c)'
<1>1. Fades(c)
  BY UnuseData, HaltsDraws DEF Fades, DataInv
<1>2. GenKeeps(c) /\ TagsStay(c)
  BY UnuseData DEF GenKeeps, TagsStay
<1> QED
  BY <1>1, <1>2, UnuseData, FadingKeepsData

----------------------------------------------------------------------------
(* An operation is issued: it takes the tokens of what it concerns off the  *)
(* map.                                                                     *)
LEMMA InvalidateData ==
  ASSUME NEW CONSTANT c, CacheInv(c), NEW K, Caches(c)!Invalidate(K)
  PROVE  /\ \A x \in Caches(c)!Caller : Halts(c, x, req'[x])
         /\ \A k2 \in c.keys : live'[k2].gen = IF k2 \in K THEN None ELSE live[k2].gen
<1> DEFINE refreshes == {live[k1].refresh : k1 \in K}
<1>1. /\ live' = [k1 \in c.keys |-> IF k1 \in K THEN Caches(c)!Blank ELSE live[k1]]
      /\ req' = [x \in Caches(c)!Caller |-> IF x \in refreshes THEN Caches(c)!Stopped(req[x]) ELSE req[x]]
  BY Zenon DEF Caches!Invalidate
<1> HIDE DEF refreshes
<1>2. \A x \in Caches(c)!Caller : req'[x] \in {Caches(c)!Stopped(req[x]), req[x]}
  BY <1>1
<1>3. \A k2 \in c.keys : live'[k2] = IF k2 \in K THEN Caches(c)!Blank ELSE live[k2]
  BY <1>1
<1> QED
  BY <1>2, <1>3, StoppedHalts DEF Caches!Blank

LEMMA IssueData ==
  ASSUME NEW CONSTANT c, CacheInv(c), NEW o \in c.operations, op[o].pc = "new",
         NEW kind, NEW k1, NEW tags, NEW w, Caches(c)!Issue(o, kind, k1, tags, w)
  PROVE  /\ op'[o].pc = (IF w = {} THEN "runs" ELSE "waits") /\ op'[o].kind = kind /\ op'[o].key = k1
         /\ op'[o].tags = tags /\ op'[o].at = Caches(c)!Epoch + 1 /\ op'[o].waits = w
         /\ \A p \in c.operations : p # o => op'[p] = op[p]
         /\ calls' = IF w = {} THEN Append(calls, Caches(c)!Call(Caches(c)!FirstCall(kind), o, k1, None)) ELSE calls
<1> DEFINE e == Caches(c)!Epoch + 1
           p == [pc |-> IF w = {} THEN "runs" ELSE "waits", kind |-> kind, key |-> k1, tags |-> tags, at |-> e, waits |-> w]
<1>1. /\ op' = [op EXCEPT ![o] = p]
      /\ calls' = IF w = {} THEN Append(calls, Caches(c)!Call(Caches(c)!FirstCall(kind), o, k1, None)) ELSE calls
  BY Zenon DEF Caches!Issue
<1>2. p.pc = (IF w = {} THEN "runs" ELSE "waits") /\ p.kind = kind /\ p.key = k1 /\ p.tags = tags /\ p.at = e /\ p.waits = w
  OBVIOUS
<1> HIDE DEF p
<1>3. op'[o] = p /\ \A q \in c.operations : q # o => op'[q] = op[q]
  BY <1>1 DEF CacheInv, Typed
<1> QED
  BY <1>1, <1>2, <1>3

(* The queue gets at most a, a call of operation o, which starts to run.    *)
LEMMA StartFlow ==
  ASSUME NEW CONSTANT c, Caches(c)!CacheAssumption, CacheInv(c), Queued(c), NEW o \in c.operations,
         op[o].pc \in {"new", "waits"}, op'[o].pc \in {"waits", "runs"}, op[o].pc = "waits" => Kept(o) /\ op[o].kind # "clear",
         \A p \in c.operations : p # o => op'[p] = op[p],
         NEW kind, kind = op'[o].kind, NEW k1, k1 = op'[o].key, kind \in Operations,
         NEW a, a = Caches(c)!Call(Caches(c)!FirstCall(kind), o, k1, None),
         calls' = IF op'[o].pc = "runs" THEN Append(calls, a) ELSE calls, calls' \in Seq(CallRecord(c))
  PROVE  \E n \in {0, 1} : Flow(c, 0, a, n) /\ a.by = o /\ a.entry = None
<1>1. calls \in Seq(CallRecord(c))
  BY DEF CacheInv, Typed
<1>2. a.by = o /\ a.key = k1 /\ a.entry = None /\ a.call = Caches(c)!FirstCall(kind)
  BY DEF Caches!Call
<1>3. IF kind = "update" THEN a.call = "get" ELSE a.call = kind
  BY <1>2 DEF Caches!FirstCall
<1>4. op'[o].pc = "runs" => Mine(a, o)'
  BY <1>2, <1>3 DEF Mine, Operations
<1>5. \A p \in c.operations : ~Heads(p, 0)
  BY DEF Heads
<1>6. \A p \in c.operations : p # o /\ Issued(p) => Kept(p)
  BY DEF Kept, Issued
<1>7. Issued(o) => Kept(o)
  BY DEF Issued
<1>8. ASSUME NEW n \in {0, 1}, n = 1 <=> op'[o].pc = "runs", Shift(0, a, n) PROVE Flow(c, 0, a, n)
  <2>1. \A p \in c.operations : p # o => ~Adds(p, a, n)
    BY <1>2 DEF Adds
  <2>2. Adds(o, a, n) <=> op'[o].pc = "runs"
    BY <1>2, <1>8 DEF Adds
  <2>3. 0 <= Len(calls) /\ a.by \in c.operations
    BY <1>1, <1>2
  <2>4. ASSUME NEW p \in c.operations
        PROVE  /\ Issued(p) => Kept(p)
               /\ ~Issued(p) => op'[p].pc \in {"new", "waits", "runs"}
               /\ op'[p].pc \in {"done", "failed"} => op'[p].pc = op[p].pc
               /\ op[p].pc = "runs" => op'[p].pc = "runs" /\ ~Adds(p, a, n)
               /\ op'[p].pc = "runs" /\ op[p].pc # "runs" => Adds(p, a, n)
               /\ Adds(p, a, n) => (Issued(p) => op[p].kind # "clear")
    BY <1>6, <1>7, <2>1, <2>2 DEF Issued
  <2>5. \A p \in c.operations : Adds(p, a, n) => Mine(a, p)'
    BY <1>4, <2>1, <2>2
  <2> QED
    BY <1>5, <1>8, <2>3, <2>4, <2>5 DEF Flow
<1>9. CASE op'[o].pc = "runs"
  <2>1. a \in CallRecord(c)
    <3>1. Append(calls, a) \in Seq(CallRecord(c))
      BY <1>9
    <3>2. Append(calls, a)[Len(calls) + 1] = a /\ Len(calls) + 1 \in DOMAIN Append(calls, a)
      BY <1>1
    <3> QED
      BY <3>1, <3>2
  <2>2. Shift(0, a, 1)
    BY <1>1, <1>9, <2>1, Shifts
  <2> QED
    BY <1>2, <1>8, <1>9, <2>2
<1>10. CASE op'[o].pc # "runs"
  <2>1. Shift(0, a, 0)
    BY <1>1, <1>10 DEF Shift
  <2> QED
    BY <1>2, <1>8, <1>10, <2>1
<1> QED
  BY <1>9, <1>10

(* What steps of operations leave to show.                                  *)
LEMMA FlowKeepsData ==
  ASSUME NEW CONSTANT c, Caches(c)!CacheAssumption, CacheInv(c), CacheInv(c)', DataInv(c),
         NEW d, NEW a, NEW n, Flow(c, d, a, n), n = 1 => Labelled(c, a.entry) /\ a.by \in c.operations,
         Numbered(c)', Shaped(c)', Chained(c)', Stored(c)', \A k1 \in c.keys : Labelled(c, store'[k1]),
         Fades(c), GenKeeps(c), TagsStay(c),
         \A k1 \in c.keys : \A o \in c.operations : ~Issued(o) /\ Hits(c, o, k1)' => live'[k1].gen = None
  PROVE  DataInv(c)'
<1>1. calls' \in Seq(CallRecord(c)) /\ Queued(c)'
  BY QueuedKept DEF CacheInv, Typed, DataInv
<1>2. Written(c)'
  BY <1>1, WrittenKept DEF DataInv, Caches!CacheAssumption
<1>3. \A j \in DOMAIN calls' : Labelled(c, calls'[j].entry)
  <2>1. d \in {0, 1} /\ n \in {0, 1} /\ d <= Len(calls) /\ Shift(d, a, n)
    BY DEF Flow
  <2>2. \A j \in DOMAIN calls' : \/ j \in Nat /\ j + d \in DOMAIN calls /\ calls'[j] = calls[j + d]
                                 \/ n = 1 /\ j = Len(calls) - d + 1 /\ calls'[j] = a
    BY <1>1, <2>1, QueueFacts
  <2> QED
    BY <2>2 DEF DataInv, AllLabelled
<1>4. AllLabelled(c)' /\ Remains(c)
  BY <1>3, FadingLabels DEF DataInv
<1>5. Unhit(c)'
  <2>1. ASSUME NEW x \in Caches(c)!Caller, NEW k1, k1 = req'[x].key, NEW o \in c.operations, ~Issued(o), Hits(c, o, k1)',
               Caches(c)!Current(x)'
        PROVE  FALSE
    <3>1. req'[x].token # None /\ live'[k1].gen # None
      BY <2>1 DEF Caches!Current
    <3>2. k1 \in c.keys
      BY <2>1, <3>1 DEF CacheInv, Requests, Bound, Begun
    <3> QED
      BY <2>1, <3>1, <3>2
  <2> QED
    BY <1>4, <2>1, UnhitKept DEF DataInv, Remains
<1> QED
  BY <1>1, <1>2, <1>4, <1>5 DEF DataInv

LEMMA IssueKeepsData ==
  ASSUME NEW CONSTANT c, Caches(c)!CacheAssumption, CacheInv(c), CacheInv(c)', DataInv(c), NEW o \in c.operations,
         op[o].pc = "new", NEW kind \in (c.kinds \cup {"tags"}) \cap Operations, NEW k1, NEW tags, NEW w,
         Caches(c)!Issue(o, kind, k1, tags, w), IssueOf(c, o),
         kind \in KeyKinds => k1 \in c.keys, kind = "set" => tags = Labels(c), kind = "clear" => w = {},
         Fades(c), GenKeeps(c), TagsStay(c), store' = store,
         \A k2 \in c.keys : Hits(c, o, k2)' => live'[k2].gen = None
  PROVE  DataInv(c)'
<1>1. /\ op'[o].pc = (IF w = {} THEN "runs" ELSE "waits") /\ op'[o].kind = kind /\ op'[o].key = k1
      /\ op'[o].tags = tags /\ \A p \in c.operations : p # o => op'[p] = op[p]
      /\ calls' = IF w = {} THEN Append(calls, Caches(c)!Call(Caches(c)!FirstCall(kind), o, k1, None)) ELSE calls
  BY IssueData
<1> DEFINE a == Caches(c)!Call(Caches(c)!FirstCall(kind), o, k1, None)
<1>2. PICK n \in {0, 1} : Flow(c, 0, a, n) /\ a.by = o /\ a.entry = None
  <2>1. op'[o].pc \in {"waits", "runs"} /\ calls' = IF op'[o].pc = "runs" THEN Append(calls, a) ELSE calls
    BY <1>1
  <2>2. Queued(c) /\ calls' \in Seq(CallRecord(c)) /\ kind \in Operations
    BY DEF DataInv, CacheInv, Typed
  <2>3. \A p \in c.operations : p # o => op'[p] = op[p]
    BY <1>1
  <2>4. kind = op'[o].kind /\ k1 = op'[o].key
    BY <1>1
  <2>5. a = Caches(c)!Call(Caches(c)!FirstCall(kind), o, k1, None)
    OBVIOUS
  <2> HIDE DEF a
  <2> QED
    BY <2>1, <2>2, <2>3, <2>4, <2>5, StartFlow
<1> HIDE DEF a
<1>3. Numbered(c)' /\ Chained(c)'
  BY NumberedByIssue, ChainedByIssue DEF DataInv
<1>4. Shaped(c)'
  <2>1. ASSUME NEW p \in c.operations, Issued(p)'
        PROVE  /\ op'[p].kind \in (c.kinds \cup {"tags"}) \cap Operations
               /\ op'[p].kind \in KeyKinds => op'[p].key \in c.keys
               /\ op'[p].kind = "set" => op'[p].tags = Labels(c)
               /\ op'[p].kind = "clear" => op'[p].pc # "waits"
    <3>1. CASE p = o
      BY <1>1, <3>1
    <3>2. CASE p # o
      BY <1>1, <2>1, <3>2 DEF DataInv, Shaped, Issued
    <3> QED
      BY <3>1, <3>2
  <2> QED
    BY <2>1 DEF Shaped
<1>5. \A p \in c.operations : ~Heads(p, 0)
  BY DEF Heads
<1>6. Stored(c)'
  BY <1>2, <1>5, StoredKept DEF DataInv
<1>7. \A p \in c.operations : \A k2 : ~Issued(p) /\ Hits(c, p, k2)' => p = o
  BY <1>1 DEF Hits, Issued
<1>8. \A k2 \in c.keys : Labelled(c, store'[k2])
  BY DEF DataInv, AllLabelled
<1>9. \A k2 \in c.keys : \A p \in c.operations : ~Issued(p) /\ Hits(c, p, k2)' => live'[k2].gen = None
  BY <1>7
<1>10. n = 1 => Labelled(c, a.entry) /\ a.by \in c.operations
  BY <1>2 DEF Labelled
<1> QED
  BY <1>2, <1>3, <1>4, <1>6, <1>8, <1>9, <1>10, FlowKeepsData

LEMMA KeyIssueOf ==
  ASSUME NEW CONSTANT c, CacheInv(c), NEW o \in c.operations, op[o].pc = "new", NEW kind \in KeyKinds, NEW k1 \in c.keys,
         NEW tags, NEW w, {keyOp[k1]} \ {None} \subseteq w, Caches(c)!Issue(o, kind, k1, tags, w),
         keyOp' = [keyOp EXCEPT ![k1] = o], tagOp' = tagOp
  PROVE  IssueOf(c, o)
<1>1. /\ op'[o].pc = (IF w = {} THEN "runs" ELSE "waits") /\ op'[o].kind = kind /\ op'[o].key = k1
      /\ op'[o].at = Caches(c)!Epoch + 1 /\ op'[o].waits = w /\ \A p \in c.operations : p # o => op'[p] = op[p]
  BY IssueData
<1>2. \A z \in c.keys : keyOp'[z] = IF z = k1 THEN o ELSE keyOp[z]
  BY DEF CacheInv, Typed
<1>3. kind # "tags"
  BY DEF KeyKinds
<1>4. ASSUME NEW v \in {"key", "tag"}, NEW z \in Lane(c, v)
      PROVE  /\ Last(v, z)' = IF In(o, v, z)' THEN o ELSE Last(v, z)
             /\ Behind(o, v, z)' /\ Last(v, z) # None => Last(v, z) \in op'[o].waits
  <2>1. CASE v = "key"
    <3>1. Last(v, z)' = keyOp'[z] /\ Last(v, z) = keyOp[z] /\ z \in c.keys
      BY <2>1 DEF Last, Lane
    <3>2. (In(o, v, z)' <=> z = k1) /\ (Behind(o, v, z)' <=> z = k1)
      BY <1>1, <1>3, <2>1 DEF In, Behind, Issued
    <3> QED
      BY <1>1, <1>2, <3>1, <3>2
  <2>2. CASE v = "tag"
    <3>1. ~In(o, v, z)' /\ ~Behind(o, v, z)'
      BY <1>1, <1>3, <2>2 DEF In, Behind
    <3>2. Last(v, z)' = tagOp'[z] /\ Last(v, z) = tagOp[z]
      BY <2>2 DEF Last
    <3> QED
      BY <3>1, <3>2
  <2> QED
    BY <2>1, <2>2
<1> QED
  BY <1>1, <1>4 DEF IssueOf, Issued

LEMMA KeyOperationKeepsData ==
  ASSUME NEW CONSTANT c, Caches(c)!CacheAssumption, Uniform(c), CacheInv(c), CacheInv(c)', DataInv(c),
         NEW o \in c.operations, Caches(c)!KeyOperation(o)
  PROVE  DataInv(c)'
<1>1. PICK kind \in c.kinds \cap {"delete", "set", "update"}, k1 \in c.keys :
         \E tags \in IF kind = "set" THEN {f.tags : f \in {g \in c.configs : g.cached}} ELSE {{}} :
         /\ Caches(c)!Issue(o, kind, k1, tags, Caches(c)!WaitsFor(kind, k1, tags))
         /\ Caches(c)!Invalidate({k1})
         /\ keyOp' = [keyOp EXCEPT ![k1] = o]
  BY Zenon DEF Caches!KeyOperation
<1>2. PICK tags \in IF kind = "set" THEN {f.tags : f \in {g \in c.configs : g.cached}} ELSE {{}} :
         /\ Caches(c)!Issue(o, kind, k1, tags, Caches(c)!WaitsFor(kind, k1, tags))
         /\ Caches(c)!Invalidate({k1})
         /\ keyOp' = [keyOp EXCEPT ![k1] = o]
  BY <1>1, Zenon
<1>3. op[o].pc = "new" /\ UNCHANGED <<token, tagOp, store, installation>>
  BY DEF Caches!KeyOperation
<1>4. kind = "set" => tags = Labels(c)
  <2>1. ASSUME NEW f \in c.configs, f.cached PROVE f.tags = Labels(c)
    BY <2>1 DEF Uniform, Labels
  <2> QED
    BY <2>1
<1>5. PICK w : w = Caches(c)!WaitsFor(kind, k1, tags)
  OBVIOUS
<1>6. {keyOp[k1]} \ {None} \subseteq w
  BY <1>5 DEF Caches!WaitsFor
<1>7. Caches(c)!Issue(o, kind, k1, tags, w)
  BY <1>2, <1>5
<1>8. kind \in KeyKinds /\ kind \in (c.kinds \cup {"tags"}) \cap Operations /\ kind # "clear"
  BY DEF KeyKinds, Operations
<1>9. IssueOf(c, o)
  BY <1>2, <1>3, <1>6, <1>7, <1>8, KeyIssueOf
<1>10. Fades(c) /\ GenKeeps(c) /\ live'[k1].gen = None
  BY <1>2, InvalidateData, HaltsDraws DEF Fades, GenKeeps, DataInv
<1>11. \A k2 \in c.keys : Hits(c, o, k2)' => live'[k2].gen = None
  <2>1. op'[o].kind = kind /\ op'[o].key = k1
    BY <1>3, <1>7, IssueData
  <2>2. \A k2 \in c.keys : Hits(c, o, k2)' => k2 = k1
    BY <1>8, <2>1 DEF Hits, KeyKinds
  <2> QED
    BY <1>10, <2>2
<1> QED
  <2>1. TagsStay(c) /\ UNCHANGED <<token, store>>
    BY <1>3 DEF TagsStay
  <2> QED
    BY <1>3, <1>4, <1>7, <1>8, <1>9, <1>10, <1>11, <2>1, IssueKeepsData

LEMMA TagIssueOf ==
  ASSUME NEW CONSTANT c, CacheInv(c), NEW o \in c.operations, op[o].pc = "new", NEW tags, NEW w,
         ({keyOp[k1] : k1 \in c.keys} \cup {tagOp[t1] : t1 \in tags}) \ {None} \subseteq w,
         Caches(c)!Issue(o, "tags", None, tags, w),
         tagOp' = [t1 \in c.tags |-> IF t1 \in tags THEN o ELSE tagOp[t1]], keyOp' = keyOp
  PROVE  IssueOf(c, o)
<1>1. /\ op'[o].pc = (IF w = {} THEN "runs" ELSE "waits") /\ op'[o].kind = "tags" /\ op'[o].tags = tags
      /\ op'[o].at = Caches(c)!Epoch + 1 /\ op'[o].waits = w /\ \A p \in c.operations : p # o => op'[p] = op[p]
  BY IssueData
<1>2. \A z \in c.tags : tagOp'[z] = IF z \in tags THEN o ELSE tagOp[z]
  OBVIOUS
<1>3. ASSUME NEW v \in {"key", "tag"}, NEW z \in Lane(c, v)
      PROVE  /\ Last(v, z)' = IF In(o, v, z)' THEN o ELSE Last(v, z)
             /\ Behind(o, v, z)' /\ Last(v, z) # None => Last(v, z) \in op'[o].waits
  <2>1. CASE v = "key"
    <3>1. Last(v, z)' = keyOp'[z] /\ Last(v, z) = keyOp[z] /\ z \in c.keys
      BY <2>1 DEF Last, Lane
    <3>2. ~In(o, v, z)'
      BY <1>1, <2>1 DEF In, KeyKinds
    <3> QED
      BY <1>1, <3>1, <3>2
  <2>2. CASE v = "tag"
    <3>1. (In(o, v, z)' <=> z \in tags) /\ (Behind(o, v, z)' <=> z \in tags)
      BY <1>1, <2>2 DEF In, Behind, Issued
    <3>2. Last(v, z)' = tagOp'[z] /\ Last(v, z) = tagOp[z] /\ z \in c.tags
      BY <2>2 DEF Last, Lane
    <3> QED
      BY <1>1, <1>2, <3>1, <3>2
  <2> QED
    BY <2>1, <2>2
<1> QED
  BY <1>1, <1>3 DEF IssueOf, Issued

(* The keys whose token carries a label are those of all tokens on the map. *)
LEMMA InvalidateTagsKeepsData ==
  ASSUME NEW CONSTANT c, Caches(c)!CacheAssumption, CacheInv(c), CacheInv(c)', DataInv(c), NEW o \in c.operations,
         op[o].pc = "new", NEW tags, Caches(c)!InvalidateTags(o, tags), Fades(c), TagsStay(c), UNCHANGED <<keyOp, store>>,
         \A k2 \in c.keys : /\ live'[k2].gen \in {live[k2].gen, None}
                            /\ k2 \in Caches(c)!Tagged(tags) => live'[k2].gen = None
  PROVE  DataInv(c)'
<1>1. PICK w : /\ w = ({keyOp[k1] : k1 \in c.keys} \cup {tagOp[t1] : t1 \in tags}) \ {None}
               /\ Caches(c)!Issue(o, "tags", None, tags, w)
               /\ tagOp' = [t1 \in c.tags |-> IF t1 \in tags THEN o ELSE tagOp[t1]]
  BY Zenon DEF Caches!InvalidateTags
<1>2. IssueOf(c, o)
  BY <1>1, TagIssueOf
<1>3. GenKeeps(c)
  BY DEF GenKeeps
<1>4. \A k2 \in c.keys : Hits(c, o, k2)' => live'[k2].gen = None
  <2>1. op'[o].kind = "tags" /\ op'[o].tags = tags
    BY <1>1, IssueData
  <2>2. ASSUME NEW k2 \in c.keys, Hits(c, o, k2)', live[k2].gen # None PROVE k2 \in Caches(c)!Tagged(tags)
    <3>1. tags \cap Labels(c) # {}
      BY <2>1, <2>2 DEF Hits, KeyKinds
    <3>2. token[live[k2].gen].tags = Labels(c)
      BY <2>2 DEF DataInv, AllLabelled
    <3> QED
      BY <2>2, <3>1, <3>2 DEF Caches!Tagged
  <2> QED
    BY <2>2
<1>5. "tags" \in (c.kinds \cup {"tags"}) \cap Operations /\ "tags" \notin KeyKinds
  BY DEF Operations, KeyKinds
<1> QED
  BY <1>1, <1>2, <1>3, <1>4, <1>5, IssueKeepsData

LEMMA TagOperationKeepsData ==
  ASSUME NEW CONSTANT c, Caches(c)!CacheAssumption, CacheInv(c), CacheInv(c)', DataInv(c), NEW o \in c.operations,
         Caches(c)!TagOperation(o)
  PROVE  DataInv(c)'
<1>1. PICK tags \in SUBSET c.tags : Caches(c)!InvalidateTags(o, tags) /\ Caches(c)!Invalidate(Caches(c)!Tagged(tags))
  BY Zenon DEF Caches!TagOperation
<1>2. op[o].pc = "new" /\ UNCHANGED <<token, keyOp, store, installation>>
  BY DEF Caches!TagOperation
<1>3. Fades(c)
  BY <1>1, InvalidateData, HaltsDraws DEF Fades, DataInv
<1>4. \A k2 \in c.keys : live'[k2].gen = IF k2 \in Caches(c)!Tagged(tags) THEN None ELSE live[k2].gen
  BY <1>1, InvalidateData
<1>5. TagsStay(c) /\ UNCHANGED <<keyOp, store>>
  BY <1>2 DEF TagsStay
<1>6. \A k2 \in c.keys : /\ live'[k2].gen \in {live[k2].gen, None}
                         /\ k2 \in Caches(c)!Tagged(tags) => live'[k2].gen = None
  BY <1>4
<1> QED
  BY <1>1, <1>2, <1>3, <1>5, <1>6, InvalidateTagsKeepsData

LEMMA ClearKeepsData ==
  ASSUME NEW CONSTANT c, Caches(c)!CacheAssumption, CacheInv(c), CacheInv(c)', DataInv(c), NEW o \in c.operations,
         Caches(c)!Clear(o)
  PROVE  DataInv(c)'
<1>1. /\ op[o].pc = "new" /\ "clear" \in c.kinds /\ UNCHANGED <<token, keyOp, tagOp, store, installation>>
      /\ Caches(c)!Issue(o, "clear", None, {}, {}) /\ Caches(c)!Invalidate(c.keys)
  BY DEF Caches!Clear
<1>2. Fades(c)
  BY <1>1, InvalidateData, HaltsDraws DEF Fades, DataInv
<1>3. \A k2 \in c.keys : live'[k2].gen = None
  BY <1>1, InvalidateData
<1>4. /\ op'[o].pc = "runs" /\ op'[o].kind = "clear" /\ op'[o].at = Caches(c)!Epoch + 1 /\ op'[o].waits = {}
      /\ \A p \in c.operations : p # o => op'[p] = op[p]
  BY <1>1, IssueData
<1>5. IssueOf(c, o)
  <2>1. \A v \in {"key", "tag"} : \A z \in Lane(c, v) : ~In(o, v, z)' /\ ~Behind(o, v, z)' /\ Last(v, z)' = Last(v, z)
    BY <1>1, <1>4 DEF In, Behind, KeyKinds, Last
  <2> QED
    BY <1>1, <1>4, <2>1 DEF IssueOf, Issued
<1>6. "clear" \in (c.kinds \cup {"tags"}) \cap Operations /\ "clear" \notin KeyKinds
  BY <1>1 DEF Operations, KeyKinds
<1>7. GenKeeps(c) /\ TagsStay(c) /\ UNCHANGED store
  BY <1>1, <1>3 DEF GenKeeps, TagsStay
<1> QED
  BY <1>1, <1>2, <1>3, <1>5, <1>6, <1>7, IssueKeepsData

(* A mutation that is over invalidates its tags.                            *)
LEMMA SettleMutationData ==
  ASSUME NEW CONSTANT c, CacheInv(c), NEW x \in Caches(c)!Caller, NEW o \in c.operations, Caches(c)!SettleMutation(x, o)
  PROVE  /\ req[x].pc = "ends" /\ op[o].pc = "new" /\ TagsStay(c) /\ UNCHANGED <<keyOp, store, installation>>
         /\ Gone(x, req'[x]) /\ \A y \in Caches(c)!Caller \ {x} : Halts(c, y, req'[y])
         /\ Caches(c)!InvalidateTags(o, req[x].conf.mutates)
         /\ \A k2 \in c.keys : /\ live'[k2].gen \in {live[k2].gen, None}
                               /\ k2 \in Caches(c)!Tagged(req[x].conf.mutates) => live'[k2].gen = None
<1> DEFINE tags == req[x].conf.mutates
           left == Caches(c)!Released(x)
           K == {k1 \in Caches(c)!Tagged(tags) : left[k1].gen # None}
           refreshes == {left[k1].refresh : k1 \in K}
           q == Caches(c)!Forgotten(x, Caches(c)!SettledAs(x))
<1>1. /\ req[x].pc = "ends" /\ op[o].pc = "new" /\ UNCHANGED <<keyOp, store, installation>>
      /\ live' = [k1 \in c.keys |-> IF k1 \in K THEN Caches(c)!Blank ELSE left[k1]]
      /\ req' = [y \in Caches(c)!Caller |-> IF y = x THEN q
                                             ELSE IF y \in refreshes THEN Caches(c)!Stopped(req[y]) ELSE req[y]]
      /\ Caches(c)!InvalidateTags(o, tags) /\ Caches(c)!CountsDown(x)
  BY Zenon DEF Caches!SettleMutation
<1>2. Gone(x, q)
  BY ForgottenGone
<1>3. \A k2 \in c.keys : left[k2].gen \in {live[k2].gen, None}
  BY ReleasedFacts
<1> HIDE DEF refreshes, q, left
<1>4. req'[x] = q /\ \A y \in Caches(c)!Caller \ {x} : req'[y] \in {Caches(c)!Stopped(req[y]), req[y]}
  BY <1>1
<1>5. \A k2 \in c.keys : /\ live'[k2].gen \in {live[k2].gen, None}
                         /\ k2 \in Caches(c)!Tagged(tags) => live'[k2].gen = None
  BY <1>1, <1>3 DEF Caches!Blank
<1>6. TagsStay(c)
  BY <1>1, CountsDownTags
<1> QED
  BY <1>1, <1>2, <1>4, <1>5, <1>6, StoppedHalts

LEMMA SettleMutationKeepsData ==
  ASSUME NEW CONSTANT c, Caches(c)!CacheAssumption, CacheInv(c), CacheInv(c)', DataInv(c), NEW x \in Caches(c)!Caller,
         NEW o \in c.operations, Caches(c)!SettleMutation(x, o)
  PROVE  DataInv(c)'
<1>1. Fades(c)
  BY SettleMutationData, HaltsDraws DEF Fades, DataInv
<1> QED
  BY <1>1, SettleMutationData, InvalidateTagsKeepsData

----------------------------------------------------------------------------
(* The steps of an operation under way leave the requests alone.            *)
LEMMA RequestsRest ==
  ASSUME NEW CONSTANT c, CacheInv(c), AllLabelled(c), UNCHANGED <<req, token, live>>
  PROVE  Fades(c) /\ GenKeeps(c) /\ TagsStay(c)
<1>1. Fades(c)
  BY SameRefl, SameDraws DEF Fades
<1> QED
  BY <1>1 DEF GenKeeps, TagsStay

LEMMA RunOperationKeepsData ==
  ASSUME NEW CONSTANT c, Caches(c)!CacheAssumption, CacheInv(c), CacheInv(c)', DataInv(c), NEW o \in c.operations,
         Caches(c)!RunOperation(o)
  PROVE  DataInv(c)'
<1>1. /\ op[o].pc = "waits" /\ UNCHANGED <<req, token, live, keyOp, tagOp, store, installation>>
      /\ calls' = Append(calls, Caches(c)!Call(Caches(c)!FirstCall(op[o].kind), o, op[o].key, None))
  BY Zenon DEF Caches!RunOperation
<1>2. /\ Chained(c)' /\ op'[o] = [op[o] EXCEPT !.pc = "runs"] /\ \A p \in c.operations : p # o => op'[p] = op[p]
  BY ChainedByRun DEF DataInv
<1>3. op[o] \in OpRecord(c)
  BY DEF CacheInv, Typed
<1>4. /\ op'[o].pc = "runs" /\ op'[o].kind = op[o].kind /\ op'[o].key = op[o].key /\ op'[o].tags = op[o].tags
      /\ op'[o].at = op[o].at /\ op'[o].waits = op[o].waits
  BY <1>2, <1>3 DEF OpRecord
<1>5. Kept(o) /\ op[o].kind # "clear" /\ op[o].kind \in Operations
  BY <1>1, <1>4 DEF Kept, DataInv, Shaped, Issued
<1> DEFINE a == Caches(c)!Call(Caches(c)!FirstCall(op[o].kind), o, op[o].key, None)
<1>6. PICK n \in {0, 1} : Flow(c, 0, a, n) /\ a.by = o /\ a.entry = None
  <2>1. calls' = (IF op'[o].pc = "runs" THEN Append(calls, a) ELSE calls) /\ calls' \in Seq(CallRecord(c))
    BY <1>1, <1>4 DEF CacheInv, Typed
  <2>2. PICK kind, k1 : kind = op'[o].kind /\ k1 = op'[o].key
    OBVIOUS
  <2>3. a = Caches(c)!Call(Caches(c)!FirstCall(kind), o, k1, None)
    BY <1>4, <2>2
  <2>4. Queued(c) /\ op[o].pc \in {"new", "waits"} /\ op'[o].pc \in {"waits", "runs"} /\ kind \in Operations
    BY <1>1, <1>4, <1>5, <2>2 DEF DataInv
  <2>5. \A p \in c.operations : p # o => op'[p] = op[p]
    BY <1>2
  <2>6. op[o].pc = "waits" => Kept(o) /\ op[o].kind # "clear"
    BY <1>5
  <2>7. calls' \in Seq(CallRecord(c)) /\ calls' = IF op'[o].pc = "runs" THEN Append(calls, a) ELSE calls
    BY <2>1
  <2> HIDE DEF a
  <2> QED
    BY <2>2, <2>3, <2>4, <2>5, <2>6, <2>7, StartFlow
<1> HIDE DEF a
<1>7. \A p \in c.operations : IF Issued(p) THEN Kept(p) ELSE ~Issued(p)'
  BY <1>1, <1>2, <1>5 DEF Kept, Issued
<1>8. Numbered(c)'
  BY <1>7, SameNumbers DEF DataInv
<1>9. Shaped(c)'
  <2>1. ASSUME NEW p \in c.operations, Issued(p)'
        PROVE  Issued(p) /\ Kept(p) /\ (op'[p].pc = "waits" => op[p].pc = "waits")
    BY <1>1, <1>2, <1>4, <1>5, <2>1 DEF Kept, Issued
  <2> QED
    BY <2>1 DEF DataInv, Shaped, Kept
<1>10. Stored(c)'
  BY <1>1, <1>6, StoredKept DEF DataInv, Heads
<1>11. \A p \in c.operations : \A k1 : ~Issued(p) => ~Hits(c, p, k1)'
  BY <1>7 DEF Hits
<1>12. Fades(c) /\ GenKeeps(c) /\ TagsStay(c) /\ \A k1 \in c.keys : Labelled(c, store'[k1])
  BY <1>1, RequestsRest DEF DataInv, AllLabelled
<1>13. n = 1 => Labelled(c, a.entry) /\ a.by \in c.operations
  BY <1>6 DEF Labelled
<1> QED
  BY <1>2, <1>6, <1>8, <1>9, <1>10, <1>11, <1>12, <1>13, FlowKeepsData

(* The operation whose call is applied.                                     *)
LEMMA HeadFacts ==
  ASSUME NEW CONSTANT c, CacheInv(c), DataInv(c), calls # <<>>, calls[1].by \in c.operations
  PROVE  /\ Caches(c)!Oldest = calls[1] /\ Caches(c)!Rest = Tail(calls) /\ calls[1] \in CallRecord(c)
         /\ Mine(calls[1], calls[1].by) /\ Labelled(c, calls[1].entry) /\ op[calls[1].by] \in OpRecord(c)
         /\ 1 <= Len(calls) /\ calls \in Seq(CallRecord(c))
         /\ op[calls[1].by].kind \in (c.kinds \cup {"tags"}) \cap Operations
         /\ op[calls[1].by].kind \in KeyKinds => op[calls[1].by].key \in c.keys
         /\ op[calls[1].by].kind = "set" => op[calls[1].by].tags = Labels(c)
<1>1. calls \in Seq(CallRecord(c)) /\ op \in [c.operations -> OpRecord(c)]
  BY DEF CacheInv, Typed
<1>2. 1 \in DOMAIN calls /\ Caches(c)!Oldest = calls[1] /\ Caches(c)!Rest = Tail(calls) /\ 1 <= Len(calls)
  BY <1>1 DEF Caches!Oldest, Caches!Rest
<1>3. Mine(calls[1], calls[1].by) /\ Labelled(c, calls[1].entry)
  BY <1>2 DEF DataInv, Queued, AllLabelled
<1>4. Issued(calls[1].by)
  BY <1>3 DEF Mine, Issued
<1> QED
  BY <1>1, <1>2, <1>3, <1>4 DEF DataInv, Shaped

LEMMA FinishKeepsData ==
  ASSUME NEW CONSTANT c, Caches(c)!CacheAssumption, CacheInv(c), CacheInv(c)', DataInv(c), calls # <<>>,
         NEW o \in c.operations, calls[1].by = o, NEW result \in {"done", "failed"}, Caches(c)!Finished(o, result),
         calls' = Tail(calls), UNCHANGED <<req, token, live, installation>>,
         \A k1 \in c.keys : Labelled(c, store'[k1]),
         \A k1 \in c.keys : store'[k1] # None =>
            \/ /\ store[k1] # None /\ store'[k1].born = store[k1].born
               /\ Hits(c, o, k1) /\ result = "done" => op[o].at <= store[k1].born
            \/ \A p \in c.operations : Hits(c, p, k1) /\ (p = o \/ op[p].pc = "done") => op[p].at <= store'[k1].born
  PROVE  DataInv(c)'
<1>1. /\ Mine(calls[1], o) /\ 1 <= Len(calls) /\ calls \in Seq(CallRecord(c)) /\ calls[1] \in CallRecord(c)
      /\ op[o] \in OpRecord(c)
  BY HeadFacts
<1>2. op[o].pc = "runs"
  BY <1>1 DEF Mine
<1>3. Chained(c)' /\ op'[o].pc = result /\ Kept(o) /\ \A p \in c.operations : p # o => op'[p] = op[p]
  <2>1. Numbered(c) /\ Chained(c)
    BY DEF DataInv
  <2> QED
    BY <1>2, <2>1, ChainedByFinish
<1>4. op'[o].pc = result
  BY <1>3
<1>5. \A p \in c.operations : IF Issued(p) THEN Kept(p) ELSE ~Issued(p)' /\ op'[p].pc = "new"
  BY <1>2, <1>3, <1>4 DEF Kept, Issued
<1>6. Shift(1, calls[1], 0)
  BY <1>1, Shifts
<1>7. Flow(c, 1, calls[1], 0)
  <2>1. \A p \in c.operations : (Heads(p, 1) <=> p = o) /\ ~Adds(p, calls[1], 0)
    BY DEF Heads, Adds
  <2>2. \A p \in c.operations : p # o => (op'[p].pc \in {"done", "failed"} => op'[p].pc = op[p].pc)
                                         /\ (op[p].pc = "runs" <=> op'[p].pc = "runs")
    BY <1>3
  <2> QED
    BY <1>1, <1>2, <1>4, <1>5, <1>6, <2>1, <2>2 DEF Flow
<1>8. Numbered(c)'
  BY <1>5, SameNumbers DEF DataInv
<1>9. Shaped(c)'
  <2>1. ASSUME NEW p \in c.operations, Issued(p)'
        PROVE  Issued(p) /\ Kept(p) /\ (op'[p].pc = "waits" => op[p].pc = "waits")
    BY <1>3, <1>4, <1>5, <2>1 DEF Issued
  <2> QED
    BY <2>1 DEF DataInv, Shaped, Kept
<1>10. Stored(c)'
  <2>1. \A p \in c.operations : Heads(p, 1) => p = o
    BY DEF Heads
  <2>2. ASSUME NEW k1 \in c.keys, store'[k1] # None,
               \A p \in c.operations : Hits(c, p, k1) /\ (p = o \/ op[p].pc = "done") => op[p].at <= store'[k1].born,
               NEW p \in c.operations, Hits(c, p, k1)', op'[p].pc = "done"
        PROVE  op'[p].at <= store'[k1].born
    <3>1. Issued(p)'
      BY <2>2 DEF Hits
    <3>2. Issued(p) /\ Kept(p)
      BY <1>5, <3>1
    <3>3. Hits(c, p, k1) /\ op'[p].at = op[p].at
      BY <2>2, <3>2, HitsKept DEF Kept
    <3>4. p = o \/ op[p].pc = "done"
      BY <1>3, <2>2
    <3> QED
      BY <2>2, <3>3, <3>4
  <2> QED
    BY <1>4, <1>7, <2>1, <2>2, StoredKept DEF DataInv
<1>11. \A p \in c.operations : \A k1 : ~Issued(p) => ~Hits(c, p, k1)'
  BY <1>5 DEF Hits
<1>12. Fades(c) /\ GenKeeps(c) /\ TagsStay(c)
  BY RequestsRest DEF DataInv
<1> QED
  BY <1>3, <1>7, <1>8, <1>9, <1>10, <1>11, <1>12, FlowKeepsData

LEMMA UpdateReadData ==
  ASSUME NEW CONSTANT c, CacheInv(c), DataInv(c), Caches(c)!UpdateRead
  PROVE  /\ calls # <<>> /\ calls[1].call = "get" /\ calls[1].by \in c.operations /\ calls[1].key \in c.keys
         /\ UNCHANGED <<req, token, live, store, installation>>
         /\ \/ /\ (store[calls[1].key] = None /\ Caches(c)!Finished(calls[1].by, "done")) \/ Caches(c)!Finished(calls[1].by, "failed")
               /\ calls' = Tail(calls)
            \/ /\ store[calls[1].key] # None /\ UNCHANGED <<op, keyOp, tagOp>>
               /\ \E e \in {[store[calls[1].key] EXCEPT !.born = op[calls[1].by].at, !.raw = FALSE]} :
                     \/ calls' = Append(Tail(calls), Caches(c)!Call("set", calls[1].by, calls[1].key, e))
                     \/ calls' = Append(Tail(calls), Caches(c)!Call("delete", calls[1].by, calls[1].key, None))
<1> DEFINE o == Caches(c)!Oldest.by
           k1 == Caches(c)!Oldest.key
           e == store[k1]
           new == [e EXCEPT !.born = op[o].at, !.raw = FALSE]
           left == Caches(c)!Rest
<1>1. /\ calls # <<>> /\ Caches(c)!Oldest.call = "get" /\ o \in c.operations
      /\ UNCHANGED <<req, token, live, store, installation>>
      /\ \/ ((e = None /\ Caches(c)!Finished(o, "done")) \/ Caches(c)!Finished(o, "failed")) /\ calls' = left
         \/ /\ e # None /\ UNCHANGED <<op, keyOp, tagOp>>
            /\ \/ calls' = Append(left, Caches(c)!Call("set", o, k1, new))
               \/ calls' = Append(left, Caches(c)!Call("delete", o, k1, None))
  BY Zenon DEF Caches!UpdateRead
<1>2. Caches(c)!Oldest = calls[1] /\ left = Tail(calls) /\ k1 \in c.keys
  <2>1. calls \in Seq(CallRecord(c))
    BY DEF CacheInv, Typed
  <2>2. Caches(c)!Oldest = calls[1] /\ calls[1] \in CallRecord(c) /\ left = Tail(calls)
    BY <1>1, <2>1 DEF Caches!Oldest, Caches!Rest
  <2> QED
    BY <1>1, <2>2 DEF CallRecord
<1> QED
  BY <1>1, <1>2, Zenon

LEMMA UpdateReadKeepsData ==
  ASSUME NEW CONSTANT c, Caches(c)!CacheAssumption, CacheInv(c), CacheInv(c)', DataInv(c), Caches(c)!UpdateRead
  PROVE  DataInv(c)'
<1> DEFINE k1 == calls[1].key
           left == Tail(calls)
<1>0. PICK o : o = calls[1].by
  OBVIOUS
<1>1. /\ calls # <<>> /\ calls[1].call = "get" /\ o \in c.operations /\ k1 \in c.keys
      /\ UNCHANGED <<req, token, live, store, installation>>
      /\ \/ ((store[k1] = None /\ Caches(c)!Finished(o, "done")) \/ Caches(c)!Finished(o, "failed")) /\ calls' = left
         \/ /\ store[k1] # None /\ UNCHANGED <<op, keyOp, tagOp>>
            /\ \E e \in {[store[k1] EXCEPT !.born = op[o].at, !.raw = FALSE]} :
                     \/ calls' = Append(left, Caches(c)!Call("set", o, k1, e))
                     \/ calls' = Append(left, Caches(c)!Call("delete", o, k1, None))
  BY <1>0, UpdateReadData, Zenon
<1>2. /\ Mine(calls[1], o) /\ calls \in Seq(CallRecord(c)) /\ 1 <= Len(calls)
  BY <1>0, <1>1, HeadFacts
<1>3. op[o].pc = "runs" /\ op[o].kind = "update" /\ op[o].key = k1 /\ op[o] \in OpRecord(c)
  <2>1. op[o].kind \in Operations /\ op[o] \in OpRecord(c)
    BY <1>0, <1>1, HeadFacts
  <2> QED
    BY <1>1, <1>2, <2>1 DEF Mine, Operations
<1>4. \A k2 \in c.keys : Labelled(c, store[k2])
  BY DEF DataInv, AllLabelled
<1> HIDE DEF k1, left
<1>5. CASE Caches(c)!Finished(o, "failed") /\ calls' = left
  <2>1. /\ \A k2 \in c.keys : Labelled(c, store'[k2])
        /\ \A k2 \in c.keys : store'[k2] # None =>
              store[k2] # None /\ store'[k2].born = store[k2].born /\ "failed" # "done"
    BY <1>1, <1>4
  <2>2. calls[1].by = o /\ calls' = Tail(calls) /\ UNCHANGED <<req, token, live, installation>>
    BY <1>0, <1>1, <1>5 DEF left
  <2> QED
    BY <1>1, <1>5, <2>1, <2>2, FinishKeepsData
<1>6. CASE store[k1] = None /\ Caches(c)!Finished(o, "done") /\ calls' = left
  <2>1. \A k2 \in c.keys : Hits(c, o, k2) => k2 = k1
    BY <1>3 DEF Hits
  <2>2. \A k2 \in c.keys : Labelled(c, store'[k2])
    BY <1>1, <1>4
  <2>3. \A k2 \in c.keys : store'[k2] # None =>
          store[k2] # None /\ store'[k2].born = store[k2].born /\ ~Hits(c, o, k2)
    BY <1>1, <1>6, <2>1
  <2>4. calls[1].by = o /\ calls' = Tail(calls) /\ UNCHANGED <<req, token, live, installation>>
    BY <1>0, <1>1, <1>6 DEF left
  <2> QED
    BY <1>1, <1>6, <2>2, <2>3, <2>4, FinishKeepsData
<1>7. CASE /\ store[k1] # None /\ UNCHANGED <<op, keyOp, tagOp>>
           /\ \E e \in {[store[k1] EXCEPT !.born = op[o].at, !.raw = FALSE]} :
                     \/ calls' = Append(left, Caches(c)!Call("set", o, k1, e))
                     \/ calls' = Append(left, Caches(c)!Call("delete", o, k1, None))
  <2>1. PICK e : e = [store[k1] EXCEPT !.born = op[o].at, !.raw = FALSE]
    OBVIOUS
  <2>2. PICK a : /\ calls' = Append(left, a)
                 /\ \/ a = Caches(c)!Call("set", o, k1, e)
                    \/ a = Caches(c)!Call("delete", o, k1, None)
    BY <1>7, <2>1
  <2>3. store[k1] \in Caches(c)!Entry /\ op[o].at \in Caches(c)!Stamp
    BY <1>1, <1>3, <1>7 DEF CacheInv, Typed, Possibly, OpRecord
  <2>4. e \in Caches(c)!Entry /\ e.born = op[o].at /\ Labelled(c, e)
    BY <1>1, <1>4, <1>7, <2>1, <2>3 DEF Caches!Entry, Labelled
  <2>5. /\ a.by = o /\ a.key = k1 /\ Labelled(c, a.entry)
        /\ \/ a.call = "set" /\ a.entry.born = op[o].at
           \/ a.call = "delete" /\ a.entry = None
    BY <2>2, <2>4 DEF Caches!Call, Labelled
  <2>6. a \in CallRecord(c)
    <3>1. o \in Caches(c)!Caller \cup c.operations /\ k1 \in Possibly(c.keys)
      BY <1>1 DEF Possibly
    <3>2. e \in Possibly(Caches(c)!Entry) /\ None \in Possibly(Caches(c)!Entry)
      BY <2>4 DEF Possibly
    <3> QED
      BY <2>2, <3>1, <3>2 DEF Caches!Call, CallRecord, Operations
  <2>7. Shift(1, a, 1)
    BY <1>1, <1>2, <2>2, <2>6, Shifts DEF left
  <2>8. op' = op /\ keyOp' = keyOp /\ tagOp' = tagOp
    BY <1>7
  <2>9. Mine(a, o)'
    BY <1>3, <2>5, <2>8 DEF Mine
  <2>10. \A p \in c.operations : (Heads(p, 1) <=> p = o) /\ (Adds(p, a, 1) <=> p = o)
    BY <1>0, <2>5 DEF Heads, Adds
  <2>11. \A p \in c.operations : (Issued(p) => Kept(p)) /\ (~Issued(p) => op'[p].pc = "new")
    BY <2>8 DEF Kept, Issued
  <2>12. Flow(c, 1, a, 1)
    BY <1>1, <1>2, <1>3, <2>5, <2>7, <2>8, <2>9, <2>10, <2>11 DEF Flow
  <2>13. \A p \in c.operations : IF Issued(p) THEN Kept(p) ELSE ~Issued(p)'
    BY <2>11 DEF Issued
  <2>14. Numbered(c)' /\ Shaped(c)'
    BY <2>8, <2>13, SameNumbers DEF DataInv, Shaped, Issued
  <2>15. Chained(c)'
    <3>1. \A w \in {"key", "tag"} : \A z \in Lane(c, w) : \A p \in c.operations :
           (In(p, w, z)' <=> In(p, w, z)) /\ (Open(p)' <=> Open(p)) /\ (Behind(p, w, z)' <=> Behind(p, w, z))
           /\ Last(w, z)' = Last(w, z)
      BY <2>8 DEF In, Open, Behind, Issued, Last
    <3>2. ASSUME NEW w \in {"key", "tag"}, NEW z \in Lane(c, w), NEW p \in c.operations, In(p, w, z), Open(p)
          PROVE  /\ Last(w, z)' # None /\ Blocked(c, p, w, z, {Last(w, z)})'
                 /\ \A q \in c.operations : Behind(q, w, z)' /\ op'[q].at > op'[p].at =>
                       op'[q].pc = "waits" /\ Blocked(c, p, w, z, op[q].waits)'
      BY <2>8, <3>1, <3>2 DEF DataInv, Chained, Blocked
    <3> QED
      BY <2>8, <3>1, <3>2 DEF Chained, Lane
  <2>16. Stored(c)'
    <3>1. \A p \in c.operations : Heads(p, 1) => op'[p].pc = "runs"
      BY <1>3, <2>8, <2>10
    <3> QED
      BY <1>1, <2>12, <3>1, StoredKept DEF DataInv
  <2>17. Fades(c) /\ GenKeeps(c) /\ TagsStay(c)
    BY <1>1, RequestsRest DEF DataInv
  <2>18. \A p \in c.operations : \A k2 : ~Issued(p) => ~Hits(c, p, k2)'
    BY <2>13 DEF Hits
  <2>19. \A k2 \in c.keys : Labelled(c, store'[k2])
    BY <1>1, <1>4
  <2> QED
    BY <1>1, <2>5, <2>12, <2>14, <2>15, <2>16, <2>17, <2>18, <2>19, FlowKeepsData
<1> QED
  BY <1>1, <1>5, <1>6, <1>7

(* What a finished operation leaves in the store no later one has dropped.  *)
LEMMA OperationAppliedData ==
  ASSUME NEW CONSTANT c, CacheInv(c), DataInv(c), Caches(c)!OperationApplied
  PROVE  /\ calls # <<>> /\ calls[1].call # "get" /\ calls[1].by \in c.operations
         /\ UNCHANGED <<req, token, live, installation>> /\ calls' = Tail(calls)
         /\ \/ Caches(c)!Finished(calls[1].by, "failed") /\ store' = store
            \/ /\ Caches(c)!Finished(calls[1].by, "done") /\ op[calls[1].by].kind \in {"tags", "clear"}
               /\ store' = Caches(c)!Purged(calls[1].by)
            \/ /\ Caches(c)!Finished(calls[1].by, "done") /\ op[calls[1].by].kind \notin {"tags", "clear"}
               /\ \E e \in {IF op[calls[1].by].kind = "set" THEN Caches(c)!Given(calls[1].by) ELSE calls[1].entry} :
                     store' = [store EXCEPT ![calls[1].key] = e]
<1> DEFINE o == Caches(c)!Oldest.by
           entry == IF op[o].kind = "set" THEN Caches(c)!Given(o) ELSE Caches(c)!Oldest.entry
<1>1. /\ calls # <<>> /\ Caches(c)!Oldest.call # "get" /\ o \in c.operations
      /\ UNCHANGED <<req, token, live, installation>> /\ calls' = Caches(c)!Rest
      /\ \/ Caches(c)!Finished(o, "failed") /\ store' = store
         \/ /\ Caches(c)!Finished(o, "done") /\ op[o].kind \in {"tags", "clear"} /\ store' = Caches(c)!Purged(o)
         \/ /\ Caches(c)!Finished(o, "done") /\ op[o].kind \notin {"tags", "clear"}
            /\ store' = [store EXCEPT ![Caches(c)!Oldest.key] = entry]
  BY Zenon DEF Caches!OperationApplied
<1>2. Caches(c)!Oldest = calls[1] /\ Caches(c)!Rest = Tail(calls)
  BY <1>1 DEF Caches!Oldest, Caches!Rest, CacheInv, Typed
<1> QED
  BY <1>1, <1>2, Zenon

LEMMA OperationAppliedKeepsData ==
  ASSUME NEW CONSTANT c, Caches(c)!CacheAssumption, Ordered(c), CacheInv(c), CacheInv(c)', DataInv(c),
         Caches(c)!OperationApplied
  PROVE  DataInv(c)'
<1>0. PICK o : o = calls[1].by
  OBVIOUS
<1>1. /\ calls # <<>> /\ calls[1].call # "get" /\ o \in c.operations
      /\ UNCHANGED <<req, token, live, installation>> /\ calls' = Tail(calls)
      /\ \/ Caches(c)!Finished(o, "failed") /\ store' = store
         \/ Caches(c)!Finished(o, "done") /\ op[o].kind \in {"tags", "clear"} /\ store' = Caches(c)!Purged(o)
         \/ /\ Caches(c)!Finished(o, "done") /\ op[o].kind \notin {"tags", "clear"}
            /\ \E e \in {IF op[o].kind = "set" THEN Caches(c)!Given(o) ELSE calls[1].entry} :
                  store' = [store EXCEPT ![calls[1].key] = e]
  BY <1>0, OperationAppliedData, Zenon
<1>2. /\ Mine(calls[1], o) /\ Labelled(c, calls[1].entry) /\ op[o] \in OpRecord(c)
      /\ op[o].kind \in (c.kinds \cup {"tags"}) \cap Operations
      /\ op[o].kind \in KeyKinds => op[o].key \in c.keys
      /\ op[o].kind = "set" => op[o].tags = Labels(c)
  BY <1>0, <1>1, HeadFacts
<1>3. op[o].pc = "runs" /\ Issued(o) /\ op[o].at \in Nat
  BY <1>1, <1>2 DEF Mine, Issued, DataInv, Numbered
<1>4. /\ store \in [c.keys -> Possibly(Caches(c)!Entry)] /\ \A k1 \in c.keys : Labelled(c, store[k1])
  BY DEF CacheInv, Typed, DataInv, AllLabelled
<1>5. CASE Caches(c)!Finished(o, "failed") /\ store' = store
  <2>1. /\ \A k1 \in c.keys : Labelled(c, store'[k1])
        /\ \A k1 \in c.keys : store'[k1] # None =>
              store[k1] # None /\ store'[k1].born = store[k1].born /\ "failed" # "done"
    BY <1>4, <1>5
  <2> QED
    BY <1>0, <1>1, <1>5, <2>1, FinishKeepsData
<1>6. CASE Caches(c)!Finished(o, "done") /\ op[o].kind \in {"tags", "clear"} /\ store' = Caches(c)!Purged(o)
  <2>1. ASSUME NEW k1 \in c.keys, store'[k1] # None
        PROVE  store[k1] # None /\ store'[k1] = store[k1] /\ ~Hits(c, o, k1)
    <3>1. store[k1] # None /\ store'[k1] = store[k1] /\ op[o].kind = "tags" /\ store[k1].tags \cap op[o].tags = {}
      BY <1>6, <2>1 DEF Caches!Purged
    <3>2. store[k1].tags = Labels(c)
      BY <1>4, <3>1 DEF Labelled
    <3> QED
      BY <3>1, <3>2 DEF Hits, KeyKinds
  <2>2. \A k1 \in c.keys : Labelled(c, store'[k1])
    BY <1>4, <2>1 DEF Labelled
  <2>3. \A k1 \in c.keys : store'[k1] # None =>
           store[k1] # None /\ store'[k1].born = store[k1].born /\ ~Hits(c, o, k1)
    BY <2>1
  <2> QED
    BY <1>0, <1>1, <1>6, <2>2, <2>3, FinishKeepsData
<1>7. CASE /\ Caches(c)!Finished(o, "done") /\ op[o].kind \notin {"tags", "clear"}
           /\ \E e \in {IF op[o].kind = "set" THEN Caches(c)!Given(o) ELSE calls[1].entry} :
                 store' = [store EXCEPT ![calls[1].key] = e]
  <2>1. PICK e : /\ e = IF op[o].kind = "set" THEN Caches(c)!Given(o) ELSE calls[1].entry
                 /\ store' = [store EXCEPT ![calls[1].key] = e]
    BY <1>7
  <2>2. op[o].kind \in KeyKinds /\ calls[1].key = op[o].key /\ op[o].key \in c.keys
    BY <1>2, <1>7 DEF KeyKinds, Operations, Mine
  <2>3. \A k2 \in c.keys : store'[k2] = IF k2 = op[o].key THEN e ELSE store[k2]
    BY <1>4, <2>1, <2>2
  <2>4. Labelled(c, e) /\ (e # None => e.born = op[o].at /\ op[o].kind \in {"set", "update"})
    <3>1. CASE op[o].kind = "set"
      BY <1>2, <2>1, <3>1 DEF Caches!Given, Labelled
    <3>2. CASE op[o].kind = "update"
      BY <1>1, <1>2, <2>1, <3>2 DEF Mine
    <3>3. CASE op[o].kind = "delete"
      BY <1>2, <2>1, <3>3 DEF Mine
    <3> QED
      BY <2>2, <3>1, <3>2, <3>3 DEF KeyKinds
  <2>5. ASSUME e # None, NEW p \in c.operations, Hits(c, p, op[o].key), p = o \/ op[p].pc = "done"
        PROVE  op[p].at <= op[o].at
    <3>1. CASE p = o
      BY <1>3, <3>1
    <3>2. CASE p # o
      <4>1. op[p].kind \in (c.kinds \cup {"tags"}) \cap Operations /\ Issued(p) /\ op[p].at \in Nat
        BY <2>5 DEF Hits, DataInv, Shaped, Numbered
      <4>2. op[p].kind # "clear"
        BY <1>2, <2>4, <2>5, <4>1 DEF Ordered
      <4>3. Behind(p, "key", op[o].key)
        BY <2>5, <4>1, <4>2 DEF Hits, Behind, In
      <4>4. In(o, "key", op[o].key) /\ Open(o) /\ op[o].key \in Lane(c, "key")
        BY <1>3, <2>2 DEF In, Open, Lane
      <4>5. ~(op[p].at > op[o].at)
        BY <2>5, <3>2, <4>3, <4>4, <1>1 DEF DataInv, Chained
      <4> QED
        BY <1>3, <4>1, <4>5
    <3> QED
      BY <3>1, <3>2
  <2>6. \A k1 \in c.keys : Labelled(c, store'[k1])
    BY <1>4, <2>3, <2>4
  <2>7. ASSUME NEW k1 \in c.keys, store'[k1] # None
        PROVE  \/ store[k1] # None /\ store'[k1].born = store[k1].born /\ ~Hits(c, o, k1)
               \/ \A p \in c.operations : Hits(c, p, k1) /\ (p = o \/ op[p].pc = "done") => op[p].at <= store'[k1].born
    <3>1. CASE k1 = op[o].key
      BY <2>3, <2>4, <2>5, <2>7, <3>1
    <3>2. CASE k1 # op[o].key
      BY <2>2, <2>3, <2>7, <3>2 DEF Hits, KeyKinds
    <3> QED
      BY <3>1, <3>2
  <2>8. \A k1 \in c.keys : store'[k1] # None =>
            \/ /\ store[k1] # None /\ store'[k1].born = store[k1].born
               /\ Hits(c, o, k1) /\ "done" = "done" => op[o].at <= store[k1].born
            \/ \A p \in c.operations : Hits(c, p, k1) /\ (p = o \/ op[p].pc = "done") => op[p].at <= store'[k1].born
    BY <2>7
  <2> QED
    BY <1>0, <1>1, <1>7, <2>6, <2>8, FinishKeepsData
<1> QED
  BY <1>1, <1>5, <1>6, <1>7

----------------------------------------------------------------------------
LEMMA DataInit ==
  ASSUME NEW CONSTANT c, Caches(c)!CacheAssumption, Caches(c)!Init
  PROVE  DataInv(c)
<1>1. /\ req = [x \in Caches(c)!Caller |-> Caches(c)!NoRequest]
      /\ token = [x \in Caches(c)!Caller |-> [tags |-> {}, active |-> 0]]
      /\ live = [k1 \in c.keys |-> Caches(c)!Blank] /\ calls = <<>>
      /\ op = [o \in c.operations |-> Caches(c)!NoOperation]
      /\ store = [k1 \in c.keys |-> None]
  BY DEF Caches!Init
<1>2. \A o \in c.operations : op[o].pc = "new" /\ ~Issued(o)
  BY <1>1 DEF Issued, Caches!NoOperation
<1>3. Numbered(c) /\ Shaped(c) /\ Chained(c)
  BY <1>2 DEF Numbered, Shaped, Chained, In
<1>4. Queued(c) /\ Written(c)
  BY <1>1, <1>2 DEF Queued, Written
<1>5. AllLabelled(c)
  BY <1>1 DEF AllLabelled, Labelled, Caches!NoRequest, Caches!Blank
<1>6. Unhit(c) /\ Stored(c)
  BY <1>1, <1>2 DEF Unhit, Stored, Hits
<1> QED
  BY <1>3, <1>4, <1>5, <1>6 DEF DataInv

LEMMA DataStep ==
  ASSUME NEW CONSTANT c, Caches(c)!CacheAssumption, Uniform(c), Ordered(c), CacheInv(c), DataInv(c),
         [Caches(c)!Next]_(Caches(c)!vars)
  PROVE  CacheInv(c)' /\ DataInv(c)'
<1>1. CacheInv(c)'
  BY CacheStep
<1>2. ASSUME NEW x \in Caches(c)!Caller, PlainStep(c, x) PROVE DataInv(c)'
  BY <1>1, <1>2, PlainKeepsData
<1>3. ASSUME NEW x \in Caches(c)!Caller,
             \/ Caches(c)!Read(x) \/ Caches(c)!LeaseGranted(x) \/ Caches(c)!Streamed(x) \/ Caches(c)!Failed(x)
             \/ Caches(c)!Wake(x) \/ Caches(c)!Abort(x)
      PROVE  PlainStep(c, x)
  BY <1>3, ReadPlain, LeaseGrantedPlain, StreamedOnward, FailedOnward, WakeOnward, AbortOnward
<1>4. ASSUME NEW x \in Caches(c)!Caller,
             \/ Caches(c)!Start(x) \/ Caches(c)!StartRefresh(x) \/ Caches(c)!LeaseFailed(x) \/ Caches(c)!Answered(x)
             \/ Caches(c)!Settle(x) \/ \E o \in c.operations : Caches(c)!SettleMutation(x, o)
      PROVE  DataInv(c)'
  BY <1>1, <1>4, StartKeepsData, LeaseFailedKeepsData, AnsweredKeepsData, SettleKeepsData, SettleMutationKeepsData
<1>5. ASSUME NEW o \in c.operations,
             Caches(c)!KeyOperation(o) \/ Caches(c)!TagOperation(o) \/ Caches(c)!Clear(o) \/ Caches(c)!RunOperation(o)
      PROVE  DataInv(c)'
  BY <1>1, <1>5, KeyOperationKeepsData, TagOperationKeepsData, ClearKeepsData, RunOperationKeepsData
<1>6. CASE Caches(c)!ReadApplied \/ Caches(c)!WriteApplied \/ Caches(c)!UpdateRead \/ Caches(c)!OperationApplied
  BY <1>1, <1>6, ReadAppliedKeepsData, WriteAppliedKeepsData, UpdateReadKeepsData, OperationAppliedKeepsData
<1>7. ASSUME NEW i \in c.installations, Caches(c)!Unuse(i) PROVE DataInv(c)'
  BY <1>1, <1>7, UnuseKeepsData
<1>8. ASSUME NEW k1 \in c.keys, Caches(c)!Expire(k1) PROVE DataInv(c)'
  BY <1>1, <1>8, ExpireKeepsData
<1>9. CASE UNCHANGED Caches(c)!vars
  <2>1. UNCHANGED <<req, token, live, op, keyOp, tagOp, store, calls>>
    BY <1>9 DEF Caches!vars
  <2>2. Fades(c) /\ GenKeeps(c) /\ TagsStay(c)
    BY <2>1, RequestsRest DEF DataInv
  <2> QED
    BY <1>1, <2>1, <2>2, FadingKeepsData
<1> QED
  BY <1>1, <1>2, <1>3, <1>4, <1>5, <1>6, <1>7, <1>8, <1>9 DEF Caches!Next, Caches!AllDone

LEMMA DataStaysOut ==
  ASSUME NEW CONSTANT c, DataInv(c)
  PROVE  Caches(c)!InvalidatedStaysOut
<1>1. ASSUME NEW k1 \in c.keys, NEW o \in c.operations, op[o].pc = "done", store[k1] # None,
             Caches(c)!Covers(o, k1, store[k1])
      PROVE  store[k1].born >= op[o].at
  <2>1. Issued(o) /\ op[o].kind \in Operations /\ store[k1].tags = Labels(c)
    BY <1>1 DEF Issued, DataInv, Shaped, AllLabelled, Labelled
  <2>2. Hits(c, o, k1)
    BY <1>1, <2>1 DEF Hits, Caches!Covers, Operations, KeyKinds
  <2>3. op[o].at <= store[k1].born
    BY <1>1, <2>2 DEF DataInv, Stored
  <2> QED
    BY <2>3
<1> QED
  BY <1>1 DEF Caches!InvalidatedStaysOut

(* For every set of requests, keys, tags, options, clients and operations,  *)
(* where cached requests agree in their labels and clear() does not go with *)
(* set() and update(): once an operation has finished, the store holds      *)
(* nothing it covers that was requested before it was issued.               *)
THEOREM StaysOut ==
  ASSUME NEW CONSTANT c, Caches(c)!CacheAssumption, Uniform(c), Ordered(c)
  PROVE  Caches(c)!Spec => []Caches(c)!InvalidatedStaysOut
<1>1. Caches(c)!Init => CacheInv(c) /\ DataInv(c)
  BY CacheInit, DataInit
<1>2. CacheInv(c) /\ DataInv(c) /\ [Caches(c)!Next]_(Caches(c)!vars) => (CacheInv(c) /\ DataInv(c))'
  BY DataStep
<1>3. DataInv(c) => Caches(c)!InvalidatedStaysOut
  BY DataStaysOut
<1> QED
  BY <1>1, <1>2, <1>3, PTL DEF Caches!Spec

LEMMA PartsOrdered ==
  \A p \in DOMAIN Instances : p \notin {"mixed", "cleared"} => Uniform(Instances[p]) /\ Ordered(Instances[p])
<1>1. /\ Plain.cached /\ Raw.cached /\ Alone.cached /\ Forced.cached /\ ~Mutation.cached /\ CachedMutation.cached
      /\ Plain.tags = {t} /\ Raw.tags = {t} /\ Alone.tags = {t} /\ Forced.tags = {t} /\ CachedMutation.tags = {t}
  BY DEF Plain, Raw, Alone, Forced, Mutation, CachedMutation, Shared
<1> HIDE DEF Plain, Raw, Alone, Forced, Mutation, CachedMutation
<1>2. ASSUME NEW p \in {Keys, Chain, Forms, Tags, Leases, Three, Pair} PROVE Uniform(p)
  <2>1. p.configs \subseteq {Plain, Raw, Alone, Forced, Mutation, CachedMutation}
    BY <1>2 DEF Keys, Chain, Forms, Tags, Leases, Three, Pair
  <2> QED
    BY <1>1, <2>1 DEF Uniform
<1>3. ASSUME NEW p \in {Keys, Chain, Forms, Tags, Leases, Three, Pair} PROVE Ordered(p)
  <2>1. p.kinds = {"tags", "clear"} \/ "clear" \notin p.kinds
    BY <1>3 DEF Keys, Chain, Forms, Tags, Leases, Three, Pair
  <2> QED
    BY <2>1 DEF Ordered
<1>4. \A p \in DOMAIN Instances : p \notin {"mixed", "cleared"} =>
        Instances[p] \in {Keys, Chain, Forms, Tags, Leases, Three, Pair}
  BY DEF Instances
<1> QED
  BY <1>2, <1>3, <1>4

(* The run's behaviours, but those with mixed labels and with clear()       *)
(* beside update().                                                         *)
THEOREM InvalidatedStaysOutHolds ==
  ASSUME "mixed" \notin Parts, "cleared" \notin Parts PROVE MCSpec => []InvalidatedStaysOut
<1> DEFINE Inv == part \in Parts /\ \A p \in Parts : part = p => CacheInv(Instances[p]) /\ DataInv(Instances[p])
<1>1. MCInit => Inv
  BY CacheInit, DataInit, CachesAssumption DEF MCInit
<1>2. Inv /\ [MCNext]_mcvars => Inv'
  <2> SUFFICES ASSUME Inv, [MCNext]_mcvars PROVE Inv'
    OBVIOUS
  <2>1. part' = part
    BY DEF MCNext, mcvars
  <2>2. ASSUME NEW p \in Parts, part = p PROVE CacheInv(Instances[p])' /\ DataInv(Instances[p])'
    <3>1. CacheInv(Instances[p]) /\ DataInv(Instances[p]) /\ Caches(Instances[p])!CacheAssumption
      BY <2>2, CachesAssumption
    <3>2. [Caches(Instances[p])!Next]_(Caches(Instances[p])!vars)
      BY <2>2 DEF MCNext, mcvars, Caches!vars
    <3>3. Uniform(Instances[p]) /\ Ordered(Instances[p])
      BY PartsOrdered, CachesAssumption
    <3> QED
      BY <3>1, <3>2, <3>3, DataStep
  <2> QED
    BY <2>1, <2>2
<1>3. Inv => InvalidatedStaysOut
  BY DataStaysOut DEF InvalidatedStaysOut
<1> QED
  BY <1>1, <1>2, <1>3, PTL DEF MCSpec

----------------------------------------------------------------------------
(* What a request knows of the operations that were issued before it began. *)

(* The operations A are no later than e, or failed.                         *)
Good(A, e) == e # None => \A o \in A : op[o].pc = "failed" \/ op[o].at <= e.born

(* The call of o comes before the reads of x.                               *)
Ahead(x, o) == \A i, j \in DOMAIN calls : calls[i].by = o /\ calls[j].by = x /\ calls[j].call = "get" => i < j

Past(c, q) ==
    /\ q.pc \in {"new", "spawned", "done"} => q.after = {}
    /\ ~Begun(q) => q.answer = None /\ q.fallback = None /\ q.seen = None /\ q.completed = None
    /\ \A o \in q.after : o \in c.operations /\ Issued(o) /\ op[o].at <= q.born /\ (q.token # None => Hits(c, o, q.key))
    /\ q.pc \in {"waits", "reads", "asks", "joins", "drops"} => q.token # None
    /\ Good(q.after, q.answer) /\ Good(q.after, q.fallback) /\ Good(q.after, q.seen)
    /\ q.pc # "done" /\ q.completed # None => q.completed.born = q.born

(* What x waits for, with the record q: those that are still open, until it *)
(* reads, or a leader that began after them.                                *)
Way(c, x, q) ==
    /\ q.pc = "waits" => \A w \in {"key", "tag"} : \A z \in Lane(c, w) :
          (IF w = "key" THEN z = q.key ELSE z \in Labels(c)) =>
             \A o \in q.after : In(o, w, z) /\ Open(o) => Blocked(c, o, w, z, q.waits)
    /\ q.pc \in {"reads", "asks", "drops"} => \A o \in q.after : Open(o) =>
          op[o].kind = "clear" /\ q.pc = "reads" /\ Ahead(x, o)
    /\ q.pc = "joins" =>
         /\ q.joined \in Caches(c)!Caller /\ Begun(req[q.joined])
         /\ Good(q.after, req[q.joined].completed)
         /\ req[q.joined].pc # "done" => \A o \in q.after : op[o].at <= req[q.joined].born

Reading(c) ==
    /\ \A j \in DOMAIN calls : calls[j].by \in Caches(c)!Caller /\ calls[j].call = "get" =>
          req[calls[j].by].pc \in {"reads", "ends", "done"}
    /\ \A i, j \in DOMAIN calls :
          calls[i].by = calls[j].by /\ calls[i].by \in Caches(c)!Caller /\ calls[i].call = "get" /\ calls[j].call = "get" =>
             i = j

Knows(c, x, q) == Past(c, q) /\ Way(c, x, q)
Readers(c) == Reading(c) /\ \A x \in Caches(c)!Caller : Knows(c, x, req[x])

----------------------------------------------------------------------------
(* Steps keep it.                                                           *)
Goes(c) == \A o \in c.operations : Issued(o) =>
    Kept(o) /\ (op[o].pc = "waits" => op'[o].pc \in {"waits", "runs"})

Queues(c, d, a, n) ==
    /\ d \in {0, 1} /\ n \in {0, 1} /\ d <= Len(calls) /\ Shift(d, a, n)
    /\ n = 1 /\ a.by \in c.operations /\ Issued(a.by) => op[a.by].kind # "clear"

(* A request that others may have joined.                                   *)
LedOn(y) == Begun(req[y]) =>
    /\ Begun(req'[y])
    /\ req'[y].completed # None =>
          req'[y].completed = req[y].completed \/ (req[y].pc # "done" /\ req'[y].completed.born = req[y].born)
    /\ req'[y].pc # "done" => req[y].pc # "done" /\ req'[y].born = req[y].born

LEMMA GoodKept ==
  ASSUME NEW c, Goes(c), NEW A, \A o \in A : o \in c.operations /\ Issued(o), NEW e, Good(A, e)
  PROVE  Good(A, e)'
BY DEF Good, Goes, Kept

LEMMA PastKept ==
  ASSUME NEW c, Goes(c), NEW q, Past(c, q)
  PROVE  Past(c, q)'
<1>1. \A o \in q.after : o \in c.operations /\ Issued(o) /\ Kept(o)
  BY DEF Past, Goes
<1>2. \A o \in q.after : Issued(o)' /\ (Hits(c, o, q.key)' <=> Hits(c, o, q.key)) /\ op'[o].at = op[o].at
  BY <1>1, HitsKept DEF Kept
<1>3. Good(q.after, q.answer)' /\ Good(q.after, q.fallback)' /\ Good(q.after, q.seen)'
  BY <1>1, GoodKept DEF Past
<1> QED
  BY <1>1, <1>2, <1>3 DEF Past

LEMMA AheadKept ==
  ASSUME NEW CONSTANT c, Caches(c)!CacheAssumption, CacheInv(c), NEW d, NEW a, NEW n, Queues(c, d, a, n), calls' \in Seq(CallRecord(c)),
         NEW x \in Caches(c)!Caller, NEW o \in c.operations, Issued(o), op[o].kind = "clear", Ahead(x, o)
  PROVE  Ahead(x, o)'
<1>1. /\ Len(calls) \in Nat /\ DOMAIN calls = 1..Len(calls) /\ d \in {0, 1} /\ n \in {0, 1}
      /\ DOMAIN calls' = 1..(Len(calls) - d + n)
      /\ \A j \in DOMAIN calls' : \/ j \in Nat /\ j + d \in DOMAIN calls /\ calls'[j] = calls[j + d]
                                  \/ n = 1 /\ j = Len(calls) - d + 1 /\ calls'[j] = a
  BY QueueFacts DEF Queues
<1>2. ASSUME NEW i \in DOMAIN calls', NEW j \in DOMAIN calls', calls'[i].by = o, calls'[j].by = x, calls'[j].call = "get"
      PROVE  i < j
  <2>1. n = 1 => a.by # o
    BY DEF Queues
  <2>2. i \in Nat /\ i + d \in DOMAIN calls /\ calls'[i] = calls[i + d]
    BY <1>1, <1>2, <2>1
  <2>3. CASE j \in Nat /\ j + d \in DOMAIN calls /\ calls'[j] = calls[j + d]
    <3>1. i + d < j + d
      BY <1>2, <2>2, <2>3 DEF Ahead
    <3> QED
      BY <1>1, <2>2, <2>3, <3>1
  <2>4. CASE n = 1 /\ j = Len(calls) - d + 1
    BY <1>1, <2>2, <2>4
  <2> QED
    BY <1>1, <1>2, <2>3, <2>4
<1> QED
  BY <1>2 DEF Ahead

LEMMA BlockedKept ==
  ASSUME NEW c, Numbered(c), Chained(c), Goes(c), NEW w \in {"key", "tag"}, NEW z \in Lane(c, w), NEW o \in c.operations,
         In(o, w, z), Open(o), Open(o)', NEW W, Blocked(c, o, w, z, W)
  PROVE  Blocked(c, o, w, z, W)'
<1>1. PICK p \in W \cap c.operations : In(p, w, z) /\ Open(p) /\ op[p].at >= op[o].at /\ (p = o \/ op[p].pc = "waits")
  BY BlockedFacts
<1>2. Kept(p) /\ Kept(o) /\ (op[p].pc = "waits" => op'[p].pc \in {"waits", "runs"})
  BY <1>1 DEF Goes, In
<1>3. In(p, w, z)' /\ op'[p].at >= op'[o].at
  BY <1>1, <1>2 DEF In, Kept, Issued
<1>4. Open(p)'
  BY <1>1, <1>2 DEF Open
<1> QED
  BY <1>1, <1>3, <1>4 DEF Blocked

LEMMA WayKept ==
  ASSUME NEW CONSTANT c, Caches(c)!CacheAssumption, CacheInv(c), Numbered(c), Chained(c), Goes(c),
         NEW d, NEW a, NEW n, Queues(c, d, a, n), calls' \in Seq(CallRecord(c)),
         \A y \in Caches(c)!Caller : LedOn(y), NEW x \in Caches(c)!Caller, NEW q, Past(c, q), Way(c, x, q)
  PROVE  Way(c, x, q)'
<1>1. \A o \in q.after : o \in c.operations /\ Issued(o) /\ Kept(o)
  BY DEF Past, Goes
<1>2. \A o \in q.after : Open(o)' => Open(o)
  <2>1. \A o \in c.operations : op[o].pc \in {"new", "waits", "runs", "done", "failed"}
    BY DEF CacheInv, Typed, OpRecord
  <2> QED
    BY <1>1, <2>1 DEF Goes, Kept, Open, Issued
<1>3. ASSUME q.pc = "waits", NEW w \in {"key", "tag"}, NEW z \in Lane(c, w), IF w = "key" THEN z = q.key ELSE z \in Labels(c),
             NEW o \in q.after, In(o, w, z)', Open(o)'
      PROVE  Blocked(c, o, w, z, q.waits)'
  <2>1. In(o, w, z) /\ Open(o) /\ o \in c.operations
    BY <1>1, <1>2, <1>3 DEF In, Kept
  <2>2. Blocked(c, o, w, z, q.waits)
    BY <1>3, <2>1 DEF Way
  <2> QED
    BY <1>3, <2>1, <2>2, BlockedKept
<1>4. ASSUME q.pc \in {"reads", "asks", "drops"}, NEW o \in q.after, Open(o)'
      PROVE  op'[o].kind = "clear" /\ q.pc = "reads" /\ Ahead(x, o)'
  <2>1. op[o].kind = "clear" /\ q.pc = "reads" /\ Ahead(x, o)
    BY <1>2, <1>4 DEF Way
  <2> QED
    BY <1>1, <1>4, <2>1, AheadKept DEF Kept
<1>5. ASSUME q.pc = "joins"
      PROVE  /\ q.joined \in Caches(c)!Caller /\ Begun(req'[q.joined])
             /\ Good(q.after, req[q.joined].completed)'
             /\ req'[q.joined].pc # "done" => \A o \in q.after : op'[o].at <= req'[q.joined].born
  <2>1. /\ q.joined \in Caches(c)!Caller /\ Begun(req[q.joined]) /\ Good(q.after, req[q.joined].completed)
        /\ req[q.joined].pc # "done" => \A o \in q.after : op[o].at <= req[q.joined].born
    BY <1>5 DEF Way
  <2>2. PICK l, m : l = req[q.joined] /\ m = req'[q.joined]
    OBVIOUS
  <2>3. /\ Begun(m) /\ (m.completed # None => m.completed = l.completed \/ (l.pc # "done" /\ m.completed.born = l.born))
        /\ m.pc # "done" => l.pc # "done" /\ m.born = l.born
    BY <2>1, <2>2 DEF LedOn
  <2>4. \A o \in q.after : op'[o].at = op[o].at /\ (op[o].pc = "failed" => op'[o].pc = "failed")
    BY <1>1 DEF Kept
  <2>5. m.completed # None => \A o \in q.after : op'[o].pc = "failed" \/ op'[o].at <= m.completed.born
    BY <2>1, <2>2, <2>3, <2>4 DEF Good
  <2>6. Good(q.after, req[q.joined].completed)'
    BY <2>2, <2>5 DEF Good
  <2> QED
    BY <2>1, <2>2, <2>3, <2>4, <2>6
<1> QED
  BY <1>3, <1>4, <1>5 DEF Way

(* Reads that end leave the queue, and new ones come one at a time.         *)
Readable == {"reads", "ends", "done"}

LEMMA ReadingKept ==
  ASSUME NEW CONSTANT c, Caches(c)!CacheAssumption, CacheInv(c), Reading(c),
         NEW d, NEW a, NEW n, Queues(c, d, a, n), calls' \in Seq(CallRecord(c)),
         \A y \in Caches(c)!Caller : req[y].pc \in Readable =>
            req'[y].pc \in Readable \/ (d = 1 /\ calls[1].by = y /\ calls[1].call = "get"),
         n = 1 /\ a.by \in Caches(c)!Caller /\ a.call = "get" => req[a.by].pc \notin Readable /\ req'[a.by].pc \in Readable
  PROVE  Reading(c)'
<1>1. /\ Len(calls) \in Nat /\ DOMAIN calls = 1..Len(calls) /\ d \in {0, 1} /\ n \in {0, 1}
      /\ DOMAIN calls' = 1..(Len(calls) - d + n)
      /\ \A j \in DOMAIN calls' : \/ j \in Nat /\ j + d \in DOMAIN calls /\ calls'[j] = calls[j + d]
                                  \/ n = 1 /\ j = Len(calls) - d + 1 /\ calls'[j] = a
  BY QueueFacts DEF Queues
<1>2. \A j \in DOMAIN calls' : j + d > d
  <2>1. \A j \in 1..(Len(calls) - d + n) : j + d > d
    BY <1>1
  <2> QED
    BY <1>1, <2>1
<1>3. ASSUME NEW j \in DOMAIN calls', NEW b, b = calls'[j], b.by \in Caches(c)!Caller, b.call = "get"
      PROVE  req'[b.by].pc \in Readable
  <2>1. CASE j \in Nat /\ j + d \in DOMAIN calls /\ b = calls[j + d]
    <3>1. req[b.by].pc \in Readable
      BY <1>3, <2>1 DEF Reading, Readable
    <3>2. ASSUME d = 1, calls[1].by = b.by, calls[1].call = "get" PROVE FALSE
      <4>1. 1 \in DOMAIN calls /\ j + d # 1
        BY <1>1, <1>2, <2>1, <3>2
      <4> QED
        BY <1>3, <2>1, <3>2, <4>1 DEF Reading
    <3> QED
      BY <1>3, <3>1, <3>2
  <2>2. CASE n = 1 /\ b = a
    BY <1>3, <2>2
  <2> QED
    BY <1>1, <1>3, <2>1, <2>2
<1>4. ASSUME NEW y \in DOMAIN calls', y \in Nat, y + d \in DOMAIN calls, calls'[y] = calls[y + d],
             NEW b, b = calls[y + d], b.by \in Caches(c)!Caller, b.call = "get", n = 1, a.call = "get", a.by = b.by
      PROVE  FALSE
  BY <1>4 DEF Reading, Readable
<1>5. ASSUME NEW i \in DOMAIN calls', NEW j \in DOMAIN calls', calls'[i].by = calls'[j].by,
             calls'[i].by \in Caches(c)!Caller, calls'[i].call = "get", calls'[j].call = "get"
      PROVE  i = j
  <2>1. CASE i \in Nat /\ i + d \in DOMAIN calls /\ calls'[i] = calls[i + d]
    <3>1. CASE j \in Nat /\ j + d \in DOMAIN calls /\ calls'[j] = calls[j + d]
      <4>1. i + d = j + d
        BY <1>5, <2>1, <3>1 DEF Reading
      <4> QED
        BY <1>1, <2>1, <3>1, <4>1
    <3>2. CASE n = 1 /\ calls'[j] = a
      BY <1>4, <1>5, <2>1, <3>2
    <3> QED
      BY <1>1, <1>5, <3>1, <3>2
  <2>2. CASE n = 1 /\ i = Len(calls) - d + 1 /\ calls'[i] = a
    <3>1. CASE j \in Nat /\ j + d \in DOMAIN calls /\ calls'[j] = calls[j + d]
      BY <1>4, <1>5, <2>2, <3>1
    <3>2. CASE n = 1 /\ j = Len(calls) - d + 1
      BY <2>2, <3>2
    <3> QED
      BY <1>1, <1>5, <3>1, <3>2
  <2> QED
    BY <1>1, <1>5, <2>1, <2>2
<1> QED
  BY <1>3, <1>5 DEF Reading, Readable

LEMMA ReadersKept ==
  ASSUME NEW CONSTANT c, Caches(c)!CacheAssumption, CacheInv(c), CacheInv(c)', DataInv(c), Readers(c), Goes(c),
         NEW d, NEW a, NEW n, Queues(c, d, a, n),
         \A y \in Caches(c)!Caller : LedOn(y) /\ Knows(c, y, req'[y]),
         \A y \in Caches(c)!Caller : req[y].pc \in Readable =>
            req'[y].pc \in Readable \/ (d = 1 /\ calls[1].by = y /\ calls[1].call = "get"),
         n = 1 /\ a.by \in Caches(c)!Caller /\ a.call = "get" => req[a.by].pc \notin Readable /\ req'[a.by].pc \in Readable
  PROVE  Readers(c)'
<1>1. calls' \in Seq(CallRecord(c))
  BY DEF CacheInv, Typed
<1>2. Reading(c)'
  BY <1>1, ReadingKept DEF Readers
<1>3. ASSUME NEW x \in Caches(c)!Caller, NEW q, q = req'[x] PROVE Knows(c, x, q)'
  <2>1. Past(c, q) /\ Way(c, x, q)
    BY <1>3 DEF Knows
  <2>2. Past(c, q)'
    BY <2>1, PastKept
  <2>3. Way(c, x, q)'
    BY <1>1, <2>1, WayKept DEF DataInv
  <2> QED
    BY <2>2, <2>3 DEF Knows
<1> QED
  BY <1>2, <1>3 DEF Readers

(* Those that do not act.                                                   *)
Bystands(c, x) == Halts(c, x, req'[x]) \/ Same(c, x, req'[x]) \/ Gone(x, req'[x])

LEMMA BystandersKnow ==
  ASSUME NEW CONSTANT c, CacheInv(c), Readers(c), NEW x \in Caches(c)!Caller, NEW q,
         Halts(c, x, q) \/ Same(c, x, q) \/ Gone(x, q)
  PROVE  Knows(c, x, q)
<1>1. Past(c, req[x]) /\ Way(c, x, req[x])
  BY DEF Readers, Knows
<1>2. CASE Gone(x, q)
  BY <1>2 DEF Gone, Knows, Past, Way, Good, Begun
<1>3. CASE Halts(c, x, q)
  <2>1. /\ q.born = req[x].born /\ q.after = req[x].after /\ q.waits = req[x].waits /\ q.token = req[x].token
        /\ q.seen = req[x].seen /\ q.fallback = req[x].fallback /\ q.answer = req[x].answer
        /\ q.completed = req[x].completed /\ q.joined = req[x].joined /\ q.key = req[x].key
        /\ \/ q.pc = req[x].pc \/ (req[x].pc = "spawned" /\ q.pc = "done")
           \/ req[x].pc \notin {"new", "spawned", "done"} /\ q.pc = "ends"
    BY <1>3 DEF Halts, Onward, Caches!Waiting
  <2>2. Past(c, q)
    <3>1. Good(q.after, q.answer) /\ Good(q.after, q.fallback) /\ Good(q.after, q.seen)
      BY <1>1, <2>1 DEF Past
    <3>2. \A o \in q.after : o \in c.operations /\ Issued(o) /\ op[o].at <= q.born /\ (q.token # None => Hits(c, o, q.key))
      BY <1>1, <2>1 DEF Past
    <3> QED
      BY <1>1, <2>1, <3>1, <3>2 DEF Past, Begun
  <2>3. Way(c, x, q)
    BY <1>1, <2>1 DEF Way
  <2> QED
    BY <2>2, <2>3 DEF Knows
<1>4. CASE Same(c, x, q)
  <2>1. /\ q.born = req[x].born /\ q.after = req[x].after /\ q.waits = req[x].waits /\ q.token = req[x].token
        /\ q.seen = req[x].seen /\ q.fallback = req[x].fallback /\ q.answer = req[x].answer
        /\ q.completed = req[x].completed /\ q.joined = req[x].joined
        /\ \/ q.pc = req[x].pc /\ q.key = req[x].key
           \/ req[x].pc = "new" /\ q.pc = "spawned"
    BY <1>4 DEF Same
  <2>2. Past(c, q)
    BY <1>1, <2>1 DEF Past, Begun
  <2>3. Way(c, x, q)
    BY <1>1, <2>1 DEF Way
  <2> QED
    BY <2>2, <2>3 DEF Knows
<1> QED
  BY <1>2, <1>3, <1>4

LEMMA BystandersLead ==
  ASSUME NEW CONSTANT c, NEW x \in Caches(c)!Caller, Bystands(c, x)
  PROVE  LedOn(x) /\ (req[x].pc \in Readable => req'[x].pc \in Readable)
<1>1. CASE Gone(x, req'[x])
  BY <1>1 DEF Gone, LedOn, Begun, Readable
<1>2. CASE Halts(c, x, req'[x])
  BY <1>2 DEF Halts, Onward, LedOn, Begun, Readable, Caches!Waiting
<1>3. CASE Same(c, x, req'[x])
  BY <1>3 DEF Same, LedOn, Begun, Readable
<1> QED
  BY <1>1, <1>2, <1>3 DEF Bystands

(* A step of the request x.                                                 *)
LEMMA ActorKeepsReaders ==
  ASSUME NEW CONSTANT c, Caches(c)!CacheAssumption, CacheInv(c), CacheInv(c)', DataInv(c), Readers(c), Goes(c),
         NEW d, NEW a, NEW n, Queues(c, d, a, n), NEW x \in Caches(c)!Caller,
         \A y \in Caches(c)!Caller \ {x} : Bystands(c, y), LedOn(x), Knows(c, x, req'[x]),
         req[x].pc \in Readable => req'[x].pc \in Readable \/ (d = 1 /\ calls[1].by = x /\ calls[1].call = "get"),
         n = 1 /\ a.by \in Caches(c)!Caller /\ a.call = "get" => req[a.by].pc \notin Readable /\ req'[a.by].pc \in Readable
  PROVE  Readers(c)'
<1>1. \A y \in Caches(c)!Caller : LedOn(y) /\ Knows(c, y, req'[y])
  BY BystandersKnow, BystandersLead DEF Bystands
<1>2. \A y \in Caches(c)!Caller : req[y].pc \in Readable =>
        req'[y].pc \in Readable \/ (d = 1 /\ calls[1].by = y /\ calls[1].call = "get")
  BY BystandersLead
<1> QED
  BY <1>1, <1>2, ReadersKept

(* A step that is not of a request.                                         *)
LEMMA OthersKeepReaders ==
  ASSUME NEW CONSTANT c, Caches(c)!CacheAssumption, CacheInv(c), CacheInv(c)', DataInv(c), Readers(c), Goes(c),
         NEW d, NEW a, NEW n, Queues(c, d, a, n), \A y \in Caches(c)!Caller : Bystands(c, y),
         n = 1 => a.by \notin Caches(c)!Caller
  PROVE  Readers(c)'
<1>1. \A y \in Caches(c)!Caller : LedOn(y) /\ Knows(c, y, req'[y])
  BY BystandersKnow, BystandersLead DEF Bystands
<1>2. \A y \in Caches(c)!Caller : req[y].pc \in Readable =>
        req'[y].pc \in Readable \/ (d = 1 /\ calls[1].by = y /\ calls[1].call = "get")
  BY BystandersLead
<1> QED
  BY <1>1, <1>2, ReadersKept

LEMMA CallTyped ==
  ASSUME NEW CONSTANT c, NEW x \in Caches(c)!Caller \cup c.operations, NEW e \in Possibly(Caches(c)!Entry)
  PROVE  /\ Caches(c)!Call("delete", x, None, None) \in CallRecord(c)
         /\ \A k1 \in c.keys : \A name \in {"get", "delete", "set"} : Caches(c)!Call(name, x, k1, e) \in CallRecord(c)
         /\ \A name, k1 : Caches(c)!Call(name, x, k1, e).by = x /\ Caches(c)!Call(name, x, k1, e).call = name
BY DEF CallRecord, Possibly, Operations, Caches!Call

(* A step of x that leaves the operations alone and makes the call a.       *)
LEMMA QuietActor ==
  ASSUME NEW CONSTANT c, Caches(c)!CacheAssumption, CacheInv(c), CacheInv(c)', DataInv(c), Readers(c), op' = op,
         NEW x \in Caches(c)!Caller, NEW a \in CallRecord(c), a.by = x,
         NEW d \in {0, 1}, d = 1 => calls # <<>>,
         NEW left, left = (IF d = 0 THEN calls ELSE Tail(calls)),
         calls' = left \/ calls' = Append(left, a),
         \A y \in Caches(c)!Caller \ {x} : Bystands(c, y), LedOn(x), Knows(c, x, req'[x]),
         req[x].pc \in Readable => req'[x].pc \in Readable \/ (d = 1 /\ calls[1].by = x /\ calls[1].call = "get"),
         calls' = Append(left, a) /\ a.call = "get" => req[x].pc \notin Readable /\ req'[x].pc \in Readable
  PROVE  Readers(c)'
<1>1. Goes(c)
  <2>1. \A o \in c.operations : Issued(o) => Kept(o)
    BY DEF Kept, Issued
  <2> QED
    BY <2>1 DEF Goes
<1>2. calls \in Seq(CallRecord(c)) /\ x \notin c.operations
  BY DEF CacheInv, Typed, Caches!CacheAssumption
<1>3. CASE calls' = left
  <2>1. Shift(d, a, 0) /\ d <= Len(calls)
    BY <1>2, <1>3, Shifts
  <2>2. Queues(c, d, a, 0)
    BY <2>1 DEF Queues
  <2> QED
    BY <1>1, <2>2, ActorKeepsReaders
<1>4. CASE calls' = Append(left, a)
  <2>1. Shift(d, a, 1) /\ d <= Len(calls)
    BY <1>2, <1>4, Shifts
  <2>2. Queues(c, d, a, 1)
    BY <1>2, <2>1 DEF Queues
  <2> QED
    BY <1>1, <1>4, <2>2, ActorKeepsReaders
<1> QED
  BY <1>3, <1>4

LEMMA SilentActor ==
  ASSUME NEW CONSTANT c, Caches(c)!CacheAssumption, CacheInv(c), CacheInv(c)', DataInv(c), Readers(c), op' = op,
         NEW x \in Caches(c)!Caller, NEW d \in {0, 1}, d = 1 => calls # <<>>,
         calls' = (IF d = 0 THEN calls ELSE Tail(calls)),
         \A y \in Caches(c)!Caller \ {x} : Bystands(c, y), LedOn(x), Knows(c, x, req'[x]),
         req[x].pc \in Readable => req'[x].pc \in Readable \/ (d = 1 /\ calls[1].by = x /\ calls[1].call = "get")
  PROVE  Readers(c)'
<1>1. PICK a : a = Caches(c)!Call("delete", x, None, None)
  OBVIOUS
<1>2. a \in CallRecord(c) /\ a.by = x /\ a.call = "delete"
  BY <1>1, CallTyped DEF Possibly
<1> QED
  BY <1>2, QuietActor

LEMMA PlainActor ==
  ASSUME NEW CONSTANT c, Caches(c)!CacheAssumption, CacheInv(c), CacheInv(c)', DataInv(c), Readers(c),
         NEW x \in Caches(c)!Caller, PlainStep(c, x), Begun(req'[x]), req[x].pc = "done" => req'[x].pc = "done",
         Knows(c, x, req'[x]), req[x].pc \in Readable => req'[x].pc \in Readable,
         \/ calls' = calls
         \/ /\ req[x].key \in c.keys
            /\ \/ calls' = Append(calls, Caches(c)!Call("delete", x, req[x].key, None))
               \/ /\ req[x].pc \notin Readable /\ req'[x].pc \in Readable
                  /\ calls' = Append(calls, Caches(c)!Call("get", x, req[x].key, None))
  PROVE  Readers(c)'
<1>1. \A y \in Caches(c)!Caller \ {x} : Bystands(c, y)
  BY SameRefl DEF PlainStep, Bystands
<1>2. LedOn(x) /\ op' = op
  BY DEF PlainStep, Onward, LedOn
<1>3. ASSUME NEW name \in {"get", "delete"}, req[x].key \in c.keys,
             NEW a, a = Caches(c)!Call(name, x, req[x].key, None), calls' = Append(calls, a),
             name = "get" => req[x].pc \notin Readable /\ req'[x].pc \in Readable
      PROVE  Readers(c)'
  <2>1. PICK k1 \in c.keys : k1 = req[x].key
    BY <1>3
  <2>2. None \in Possibly(Caches(c)!Entry) /\ x \in Caches(c)!Caller \cup c.operations
    BY DEF Possibly
  <2>3. \A other \in {"get", "delete", "set"} : Caches(c)!Call(other, x, k1, None) \in CallRecord(c)
    BY <2>2, CallTyped
  <2>4. name \in {"get", "delete", "set"} /\ a = Caches(c)!Call(name, x, k1, None)
    BY <1>3, <2>1
  <2>5. a \in CallRecord(c) /\ a.by = x /\ a.call = name
    BY <2>3, <2>4 DEF Caches!Call
  <2> QED
    BY <1>1, <1>2, <1>3, <2>5, QuietActor
<1>4. CASE calls' = calls
  BY <1>1, <1>2, <1>4, SilentActor
<1> QED
  BY <1>3, <1>4

----------------------------------------------------------------------------
(* What the acting request knows.                                           *)
LEMMA OnwardPast ==
  ASSUME NEW CONSTANT c, NEW x \in Caches(c)!Caller, Past(c, req[x]), NEW q, Onward(c, x, q), Begun(req[x]), Begun(q),
         q.pc = "done" <=> req[x].pc = "done", Good(req[x].after, q.answer),
         q.pc \in {"waits", "reads", "asks", "joins", "drops"} => req[x].pc \in {"waits", "reads", "asks", "joins", "drops"}
  PROVE  Past(c, q)
<1>1. Good(q.after, q.answer) /\ Good(q.after, q.fallback) /\ Good(q.after, q.seen)
  BY DEF Past, Onward
<1>2. \A o \in q.after : o \in c.operations /\ Issued(o) /\ op[o].at <= q.born /\ (q.token # None => Hits(c, o, q.key))
  BY DEF Past, Onward
<1> QED
  BY <1>1, <1>2 DEF Past, Onward, Begun

LEMMA OffTheWay ==
  ASSUME NEW CONSTANT c, NEW x, NEW q, q.pc \notin {"waits", "reads", "asks", "joins", "drops"}
  PROVE  Way(c, x, q)
BY DEF Way

LEMMA RestKeepsReaders ==
  ASSUME NEW CONSTANT c, Caches(c)!CacheAssumption, CacheInv(c), CacheInv(c)', DataInv(c), Readers(c), op' = op,
         calls' = calls, \A y \in Caches(c)!Caller : Bystands(c, y)
  PROVE  Readers(c)'
<1>1. calls \in Seq(CallRecord(c))
  BY DEF CacheInv, Typed
<1>2. CASE Caches(c)!Caller = {}
  <2>1. \A i \in DOMAIN calls' : calls'[i] = calls[i]
    OBVIOUS
  <2> QED
    BY <1>2 DEF Readers, Reading
<1>3. CASE Caches(c)!Caller # {}
  <2>1. PICK x \in Caches(c)!Caller : TRUE
    BY <1>3
  <2>2. LedOn(x) /\ Knows(c, x, req'[x]) /\ (req[x].pc \in Readable => req'[x].pc \in Readable)
    BY <2>1, BystandersKnow, BystandersLead DEF Bystands
  <2> QED
    BY <2>1, <2>2, SilentActor
<1> QED
  BY <1>2, <1>3

(* Who waited for all that were issued before it has only clear() to wait   *)
(* for, whose call is made at once.                                         *)
LEMMA OnlyClear ==
  ASSUME NEW CONSTANT c, Caches(c)!CacheAssumption, CacheInv(c), DataInv(c), NEW q, q.key \in c.keys, Past(c, q), q.token # None,
         \A w \in {"key", "tag"} : \A z \in Lane(c, w) : (IF w = "key" THEN z = q.key ELSE z \in Labels(c)) =>
            \A o \in q.after : ~(In(o, w, z) /\ Open(o))
  PROVE  \A o \in q.after : Open(o) => op[o].kind = "clear"
<1>1. ASSUME NEW o \in q.after, Open(o), op[o].kind # "clear" PROVE FALSE
  <2>1. o \in c.operations /\ Issued(o) /\ Hits(c, o, q.key)
    BY <1>1 DEF Past
  <2>2. CASE op[o].kind \in KeyKinds /\ op[o].key = q.key
    <3>1. In(o, "key", q.key) /\ q.key \in Lane(c, "key")
      BY <2>1, <2>2 DEF In, Lane
    <3> QED
      BY <1>1, <3>1
  <2>3. CASE op[o].kind = "tags" /\ op[o].tags \cap Labels(c) # {}
    <3>1. PICK z : z \in op[o].tags /\ z \in Labels(c)
      BY <2>3
    <3>2. op[o] \in OpRecord(c)
      BY <2>1 DEF CacheInv, Typed
    <3>3. z \in c.tags
      BY <3>1, <3>2 DEF OpRecord
    <3>4. In(o, "tag", z) /\ z \in Lane(c, "tag")
      BY <2>1, <2>3, <3>1, <3>3 DEF In, Lane
    <3> QED
      BY <1>1, <3>1, <3>4
  <2> QED
    BY <1>1, <2>1, <2>2, <2>3 DEF Hits
<1> QED
  BY <1>1

LEMMA NotReading ==
  ASSUME NEW CONSTANT c, Reading(c), NEW x \in Caches(c)!Caller, req[x].pc \notin Readable, NEW o
  PROVE  Ahead(x, o)
BY DEF Reading, Ahead, Readable

LEMMA ReadKeepsReaders ==
  ASSUME NEW CONSTANT c, Caches(c)!CacheAssumption, CacheInv(c), CacheInv(c)', DataInv(c), Readers(c),
         NEW x \in Caches(c)!Caller, Caches(c)!Read(x)
  PROVE  Readers(c)'
<1>1. /\ PlainStep(c, x) /\ req'[x].pc = "reads" /\ req'[x].answer = req[x].answer
      /\ calls' = Append(calls, Caches(c)!Call("get", x, req[x].key, None))
  BY ReadPlain
<1>2. req[x].pc = "waits" /\ \A o \in req[x].waits : op[o].pc \in {"done", "failed"}
  BY Zenon DEF Caches!Read
<1>3. Past(c, req[x]) /\ Way(c, x, req[x]) /\ Reading(c)
  BY DEF Readers, Knows
<1>4. req[x].key \in c.keys /\ req[x].token # None
  <2>1. Requests(c)
    BY DEF CacheInv
  <2> QED
    BY <1>2, <1>3, <2>1 DEF Requests, Bound, Past
<1>5. PICK q : q = req'[x]
  OBVIOUS
<1>6. Onward(c, x, q)
  BY <1>1, <1>5 DEF PlainStep
<1>7. Past(c, q)
  BY <1>1, <1>2, <1>3, <1>5, <1>6, OnwardPast DEF Begun, Past
<1>8. Way(c, x, q)
  <2>1. ASSUME NEW w \in {"key", "tag"}, NEW z \in Lane(c, w), IF w = "key" THEN z = q.key ELSE z \in Labels(c),
               NEW o \in q.after, In(o, w, z), Open(o)
        PROVE  FALSE
    <3>1. Blocked(c, o, w, z, req[x].waits)
      BY <1>2, <1>3, <1>6, <2>1 DEF Way, Onward
    <3> QED
      BY <1>2, <3>1 DEF Blocked, Open
  <2>2. \A o \in q.after : Open(o) => op[o].kind = "clear"
    <3>1. q.key \in c.keys /\ q.token # None
      BY <1>4, <1>6 DEF Onward
    <3> QED
      BY <1>7, <2>1, <3>1, OnlyClear
  <2>3. \A o : Ahead(x, o)
    BY <1>2, <1>3, NotReading DEF Readable
  <2> QED
    BY <1>1, <1>5, <2>2, <2>3 DEF Way
<1> QED
  BY <1>1, <1>2, <1>3, <1>4, <1>5, <1>7, <1>8, PlainActor DEF Knows, Begun, Readable

LEMMA LeaseGrantedKeepsReaders ==
  ASSUME NEW CONSTANT c, Caches(c)!CacheAssumption, CacheInv(c), CacheInv(c)', DataInv(c), Readers(c),
         NEW x \in Caches(c)!Caller, Caches(c)!LeaseGranted(x)
  PROVE  Readers(c)'
<1>1. /\ PlainStep(c, x) /\ req'[x].answer = req[x].answer
      /\ \/ req'[x].pc = req[x].pc /\ req[x].pc # "asks" /\ calls' = calls
         \/ req'[x].pc = "fetches" /\ calls' = calls /\ req[x].pc = "asks"
         \/ /\ req'[x].pc = "reads" /\ req[x].pc = "asks"
            /\ calls' = Append(calls, Caches(c)!Call("get", x, req[x].key, None))
  BY LeaseGrantedPlain
<1>2. Past(c, req[x]) /\ Way(c, x, req[x])
  BY DEF Readers, Knows
<1>3. CASE req'[x].pc = req[x].pc /\ calls' = calls
  <2>1. op' = op /\ Halts(c, x, req'[x]) /\ \A y \in Caches(c)!Caller \ {x} : Bystands(c, y)
    BY <1>1, <1>3, SameRefl DEF PlainStep, Halts, Bystands
  <2> QED
    BY <1>3, <2>1, RestKeepsReaders DEF Bystands
<1>4. CASE req[x].pc = "asks" /\ req'[x].pc \in {"fetches", "reads"}
  <2>1. PICK q : q = req'[x]
    OBVIOUS
  <2>2. Onward(c, x, q) /\ q.answer = req[x].answer
    BY <1>1, <2>1 DEF PlainStep
  <2>3. Past(c, q)
    BY <1>2, <1>4, <2>1, <2>2, OnwardPast DEF Begun, Past
  <2>4. Way(c, x, q)
    BY <1>2, <1>4, <2>1, <2>2 DEF Way, Onward
  <2>5. req[x].key \in c.keys
    <3>1. Requests(c)
      BY DEF CacheInv
    <3> QED
      BY <1>4, <3>1 DEF Requests, Bound
  <2> QED
    BY <1>1, <1>4, <2>1, <2>3, <2>4, <2>5, PlainActor DEF Knows, Begun, Readable
<1> QED
  BY <1>1, <1>3, <1>4

(* What ends with its own response, its fallback, or what its leader got.   *)
LEMMA StreamedKeepsReaders ==
  ASSUME NEW CONSTANT c, Caches(c)!CacheAssumption, CacheInv(c), CacheInv(c)', DataInv(c), Readers(c),
         NEW x \in Caches(c)!Caller, Caches(c)!Streamed(x) \/ Caches(c)!Failed(x) \/ Caches(c)!Wake(x) \/ Caches(c)!Abort(x)
  PROVE  Readers(c)'
<1>1. Past(c, req[x]) /\ Way(c, x, req[x])
  BY DEF Readers, Knows
<1>2. ASSUME PlainStep(c, x), req[x].pc \in {"fetches", "joins"}, req'[x].pc \in {"writes", "ends", "fetches"},
             Good(req[x].after, req'[x].answer),
             calls' = calls \/ calls' = Append(calls, Caches(c)!Call("delete", x, req[x].key, None))
      PROVE  Readers(c)'
  <2>1. PICK q : q = req'[x]
    OBVIOUS
  <2>2. Onward(c, x, q)
    BY <1>2, <2>1 DEF PlainStep
  <2>3. Good(req[x].after, q.answer)
    BY <1>2, <2>1
  <2>4. Past(c, q)
    BY <1>1, <1>2, <2>1, <2>2, <2>3, OnwardPast DEF Begun
  <2>5. Way(c, x, q)
    BY <1>2, <2>1, OffTheWay
  <2>6. req[x].key \in c.keys
    <3>1. Requests(c)
      BY DEF CacheInv
    <3> QED
      BY <1>2, <3>1 DEF Requests, Bound
  <2> QED
    BY <1>2, <2>1, <2>4, <2>5, <2>6, PlainActor DEF Knows, Begun, Readable
<1>3. CASE Caches(c)!Streamed(x)
  <2>1. /\ PlainStep(c, x) /\ req[x].pc = "fetches" /\ req'[x].pc \in {"writes", "ends"}
        /\ req'[x].answer.born = req[x].born
        /\ calls' = calls \/ calls' = Append(calls, Caches(c)!Call("delete", x, req[x].key, None))
    BY <1>3, StreamedOnward
  <2>2. Good(req[x].after, req'[x].answer)
    BY <1>1, <2>1 DEF Good, Past
  <2> QED
    BY <1>2, <2>1, <2>2
<1>4. CASE Caches(c)!Failed(x)
  <2>1. /\ PlainStep(c, x) /\ req[x].pc = "fetches" /\ req'[x].pc = "ends" /\ calls' = calls
        /\ req'[x].answer \in {req[x].answer, req[x].fallback}
    BY <1>4, FailedOnward
  <2>2. Good(req[x].after, req'[x].answer)
    BY <1>1, <2>1 DEF Past
  <2> QED
    BY <1>2, <2>1, <2>2
<1>5. CASE Caches(c)!Wake(x)
  <2>1. /\ PlainStep(c, x) /\ req[x].pc = "joins" /\ req'[x].pc \in {"ends", "fetches"} /\ calls' = calls
        /\ req'[x].answer \in {req[x].answer, req[req[x].joined].completed}
    BY <1>5, WakeOnward
  <2>2. Good(req[x].after, req'[x].answer)
    BY <1>1, <2>1 DEF Past, Way
  <2> QED
    BY <1>2, <2>1, <2>2
<1>6. CASE Caches(c)!Abort(x)
  <2>1. PlainStep(c, x) /\ req'[x].pc = "ends" /\ req'[x].answer = req[x].answer /\ calls' = calls
    BY <1>6, AbortOnward
  <2>2. req[x].pc \in Caches(c)!Waiting
    BY <1>6 DEF Caches!Abort
  <2>3. op' = op /\ Halts(c, x, req'[x]) /\ \A y \in Caches(c)!Caller \ {x} : Bystands(c, y)
    BY <2>1, <2>2, SameRefl DEF PlainStep, Halts, Bystands
  <2> QED
    BY <2>1, <2>3, RestKeepsReaders DEF Bystands
<1> QED
  BY <1>3, <1>4, <1>5, <1>6

LEMMA AnsweredKeepsReaders ==
  ASSUME NEW CONSTANT c, Caches(c)!CacheAssumption, CacheInv(c), CacheInv(c)', DataInv(c), Readers(c),
         NEW x \in Caches(c)!Caller, Caches(c)!Answered(x)
  PROVE  Readers(c)'
<1>1. PICK e \in Caches(c)!Entry :
         /\ e.born = req[x].born
         /\ req'[x].born = req[x].born /\ req'[x].after = req[x].after /\ req'[x].token = req[x].token
         /\ req'[x].seen = req[x].seen /\ req'[x].fallback = req[x].fallback
         /\ req'[x].key = req[x].key /\ req'[x].answer = e
         /\ req'[x].completed \in {req[x].completed, e, None} /\ req'[x].pc \in {"writes", "ends"}
         /\ \A y \in Caches(c)!Caller \ {x} : req'[y] = req[y]
         /\ \/ calls' = calls
            \/ calls' = Append(calls, Caches(c)!Call("delete", x, req[x].key, None))
            \/ calls' = Append(calls, Caches(c)!Call("set", x, req[x].key, e))
  BY AnsweredData
<1>2. req[x].pc = "fetches" /\ op' = op
  BY Zenon DEF Caches!Answered
<1>3. Past(c, req[x])
  BY DEF Readers, Knows
<1>4. PICK q : q = req'[x]
  OBVIOUS
<1>5. Past(c, q)
  <2>1. Good(q.after, q.answer) /\ Good(q.after, q.fallback) /\ Good(q.after, q.seen)
    BY <1>1, <1>3, <1>4 DEF Past, Good
  <2>2. \A o \in q.after : o \in c.operations /\ Issued(o) /\ op[o].at <= q.born /\ (q.token # None => Hits(c, o, q.key))
    BY <1>1, <1>3, <1>4 DEF Past
  <2> QED
    BY <1>1, <1>2, <1>3, <1>4, <2>1, <2>2 DEF Past, Begun
<1>6. Knows(c, x, req'[x])
  BY <1>1, <1>4, <1>5, OffTheWay DEF Knows
<1>7. LedOn(x)
  BY <1>1, <1>2, <1>3 DEF LedOn, Begun, Past
<1>8. \A y \in Caches(c)!Caller \ {x} : Bystands(c, y)
  BY <1>1, SameRefl DEF Bystands
<1>9. req[x].key \in c.keys
  <2>1. Requests(c)
    BY DEF CacheInv
  <2> QED
    BY <1>2, <2>1 DEF Requests, Bound
<1>10. ASSUME NEW name \in {"delete", "set"}, NEW f \in Possibly(Caches(c)!Entry),
              NEW a, a = Caches(c)!Call(name, x, req[x].key, f), calls' = Append(calls, a)
       PROVE  Readers(c)'
  <2>1. a \in CallRecord(c) /\ a.by = x /\ a.call = name
    BY <1>9, <1>10, CallTyped
  <2> QED
    BY <1>2, <1>6, <1>7, <1>8, <1>10, <2>1, QuietActor DEF Readable
<1>11. CASE calls' = calls
  BY <1>2, <1>6, <1>7, <1>8, <1>11, SilentActor DEF Readable
<1> QED
  BY <1>1, <1>10, <1>11 DEF Possibly

----------------------------------------------------------------------------
(* A request goes on when the store has answered or a lease was refused.    *)

(* A leader under the token on the map began after all that its followers   *)
(* have to see.                                                             *)
LEMMA LeaderKnows ==
  ASSUME NEW CONSTANT c, Caches(c)!CacheAssumption, CacheInv(c), DataInv(c), Readers(c), One(c),
         NEW k1 \in c.keys, NEW l \in {live[k1].flight, live[k1].rawFlight} \ {None},
         NEW A, \A o \in A : o \in c.operations /\ Hits(c, o, k1)
  PROVE  /\ l \in Caches(c)!Caller /\ Begun(req[l]) /\ Good(A, req[l].completed)
         /\ \A o \in A : op[o].at <= req[l].born
<1>1. live[k1] \in LiveRecord(c)
  BY DEF CacheInv, Typed
<1>2. l \in Caches(c)!Caller
  BY <1>1 DEF LiveRecord, Possibly
<1>3. req[l].leads /\ req[l].key = k1 /\ Caches(c)!Current(l)
  BY DEF CacheInv, Flights, Flies
<1>4. Begun(req[l]) /\ req[l].pc # "done"
  <2>1. Requests(c)
    BY DEF CacheInv
  <2> QED
    BY <1>2, <1>3, <2>1 DEF Requests
<1>5. \A o \in A : op[o].at <= req[l].born
  BY <1>2, <1>3 DEF DataInv, Unhit
<1>6. Past(c, req[l])
  BY <1>2 DEF Readers, Knows
<1>7. req[l].completed # None => req[l].completed.born = req[l].born
  BY <1>4, <1>6 DEF Past
<1> QED
  BY <1>2, <1>4, <1>5, <1>7 DEF Good

LEMMA DrawnKnows ==
  ASSUME NEW CONSTANT c, Caches(c)!CacheAssumption, CacheInv(c), DataInv(c), Readers(c), One(c),
         NEW x \in Caches(c)!Caller, NEW r, Held(c, x, r), Past(c, r), \A o \in r.after : ~Open(o),
         NEW rec, Good(r.after, rec), NEW q, Drawn(c, x, r, rec, q)
  PROVE  Knows(c, x, q)
<1>1. /\ q.born = r.born /\ q.after = r.after /\ q.token = r.token /\ q.completed = r.completed /\ q.key = r.key
      /\ q.seen \in {r.seen, rec, None} /\ q.fallback \in {r.fallback, rec, None} /\ q.answer \in {r.answer, rec, None}
      /\ q.pc \in {"fetches", "joins", "asks", "drops", "ends"}
      /\ q.pc = "joins" => q.joined = Caches(c)!Pending(r) /\ q.joined # None
  BY DEF Drawn
<1>2. r.pc \in {"reads", "asks", "drops"} /\ r.token # None
  BY DEF Held, Past
<1>3. Past(c, q)
  <2>1. Good(r.after, r.answer) /\ Good(r.after, r.fallback) /\ Good(r.after, r.seen) /\ Good(r.after, None)
    BY DEF Past, Good
  <2>2. Good(q.after, q.answer) /\ Good(q.after, q.fallback) /\ Good(q.after, q.seen)
    BY <1>1, <2>1
  <2>3. \A o \in q.after : o \in c.operations /\ Issued(o) /\ op[o].at <= q.born /\ (q.token # None => Hits(c, o, q.key))
    BY <1>1 DEF Past
  <2>4. q.completed # None => q.completed.born = q.born
    BY <1>1, <1>2 DEF Past
  <2> QED
    BY <1>1, <1>2, <2>2, <2>3, <2>4 DEF Past, Begun
<1>4. ASSUME q.pc = "joins"
      PROVE  /\ q.joined \in Caches(c)!Caller /\ Begun(req[q.joined]) /\ Good(q.after, req[q.joined].completed)
             /\ \A o \in q.after : op[o].at <= req[q.joined].born
  <2>1. r.key \in c.keys
    BY <1>2, TypedFacts DEF Held, Bound
  <2>2. q.joined \in {live[r.key].flight, live[r.key].rawFlight} \ {None}
    BY <1>1, <1>4 DEF Caches!Pending
  <2>3. \A o \in q.after : o \in c.operations /\ Hits(c, o, r.key)
    BY <1>1, <1>2 DEF Past
  <2> QED
    BY <2>1, <2>2, <2>3, LeaderKnows
<1>5. Way(c, x, q)
  BY <1>1, <1>4 DEF Way
<1> QED
  BY <1>3, <1>5 DEF Knows

LEMMA DrawnKeepsReaders ==
  ASSUME NEW CONSTANT c, Caches(c)!CacheAssumption, CacheInv(c), CacheInv(c)', DataInv(c), Readers(c), One(c),
         NEW x \in Caches(c)!Caller, NEW r, Held(c, x, r), Past(c, r), \A o \in r.after : ~Open(o),
         r.born = req[x].born, r.completed = req[x].completed,
         NEW rec, Good(r.after, rec), Drawn(c, x, r, rec, req'[x]), SameBut(c, x), op' = op,
         NEW d \in {0, 1}, d = 1 => calls # <<>>, NEW left, left = (IF d = 0 THEN calls ELSE Tail(calls)),
         calls' = left \/ calls' = Append(left, Caches(c)!Call("delete", x, r.key, None)),
         req[x].pc \in Readable => d = 1 /\ calls[1].by = x /\ calls[1].call = "get"
  PROVE  Readers(c)'
<1>1. Knows(c, x, req'[x])
  BY DrawnKnows
<1>2. LedOn(x)
  BY DEF Drawn, Held, LedOn, Begun
<1>3. \A y \in Caches(c)!Caller \ {x} : Bystands(c, y)
  BY DEF SameBut, Bystands
<1>4. PICK name \in {"get", "delete", "set"} : name = "delete"
  OBVIOUS
<1>4a. PICK a : a = Caches(c)!Call(name, x, r.key, None)
  OBVIOUS
<1>5. r.key \in c.keys
  BY TypedFacts DEF Held, Bound
<1>6. a \in CallRecord(c) /\ a.by = x /\ a.call = name
  BY <1>4a, <1>5, CallTyped DEF Possibly
<1> QED
  BY <1>1, <1>2, <1>3, <1>4, <1>4a, <1>6, QuietActor

LEMMA LeaseFailedKeepsReaders ==
  ASSUME NEW CONSTANT c, Caches(c)!CacheAssumption, CacheInv(c), CacheInv(c)', DataInv(c), Readers(c), One(c),
         NEW x \in Caches(c)!Caller, Caches(c)!LeaseFailed(x)
  PROVE  Readers(c)'
<1>1. Past(c, req[x]) /\ Way(c, x, req[x])
  BY DEF Readers, Knows
<1>2. CASE PlainStep(c, x) /\ req'[x].pc = req[x].pc /\ req'[x].answer = req[x].answer /\ calls' = calls
  <2>1. op' = op /\ Halts(c, x, req'[x]) /\ \A y \in Caches(c)!Caller \ {x} : Bystands(c, y)
    BY <1>2, SameRefl DEF PlainStep, Halts, Bystands
  <2> QED
    BY <1>2, <2>1, RestKeepsReaders DEF Bystands
<1>3. ASSUME NEW r, Held(c, x, r), req[x].pc = "asks", Onward(c, x, r), r.answer = req[x].answer,
             r.seen \in Possibly(Caches(c)!Entry), Caches(c)!HandleRecord(x, r, r.seen, calls),
             UNCHANGED <<token, op, keyOp, tagOp, store, installation>>
      PROVE  Readers(c)'
  <2>1. Past(c, r)
    BY <1>1, <1>3, OnwardPast DEF Held, Begun, Past
  <2>2. \A o \in r.after : ~Open(o)
    BY <1>1, <1>3 DEF Way, Onward
  <2>3. Good(r.after, r.seen)
    BY <2>1 DEF Past
  <2>4. /\ Drawn(c, x, r, r.seen, req'[x]) /\ SameBut(c, x)
        /\ calls' = calls \/ calls' = Append(calls, Caches(c)!Call("delete", x, r.key, None))
    BY <1>3, HandleData
  <2>5. r.born = req[x].born /\ r.completed = req[x].completed /\ req[x].pc \notin Readable
    BY <1>3 DEF Onward, Readable
  <2> QED
    BY <1>3, <2>1, <2>2, <2>3, <2>4, <2>5, DrawnKeepsReaders
<1> QED
  BY <1>2, <1>3, LeaseFailedData

LEMMA ReadAppliedKeepsReaders ==
  ASSUME NEW CONSTANT c, Caches(c)!CacheAssumption, CacheInv(c), CacheInv(c)', DataInv(c), Readers(c), One(c),
         Caches(c)!ReadApplied
  PROVE  Readers(c)'
<1>1. PICK x \in Caches(c)!Caller : x = calls[1].by
  BY ReadAppliedData
<1>2. /\ calls # <<>> /\ calls[1].call = "get" /\ UNCHANGED <<token, op, keyOp, tagOp, store, installation>>
      /\ \/ /\ req[x].pc = "reads" /\ Held(c, x, req[x])
            /\ \E rec \in {store[req[x].key], None} : Caches(c)!HandleRecord(x, req[x], rec, Tail(calls))
         \/ req[x].pc # "reads" /\ calls' = Tail(calls) /\ req' = req /\ live' = live
  BY <1>1, ReadAppliedData
<1>3. Past(c, req[x]) /\ Way(c, x, req[x])
  BY DEF Readers, Knows
<1>4. ASSUME req[x].pc = "reads", Held(c, x, req[x]), NEW rec, rec \in {store[req[x].key], None},
             Caches(c)!HandleRecord(x, req[x], rec, Tail(calls))
      PROVE  Readers(c)'
  <2>1. req[x].key \in c.keys /\ req[x].token # None
    BY <1>3, <1>4, TypedFacts DEF Bound, Past
  <2>2. rec \in Possibly(Caches(c)!Entry)
    BY <1>4, <2>1 DEF CacheInv, Typed, Possibly
  <2>3. ASSUME NEW o \in req[x].after, Open(o) PROVE FALSE
    <3>1. op[o].kind = "clear" /\ Ahead(x, o)
      BY <1>3, <1>4, <2>3 DEF Way
    <3>2. o \in c.operations /\ Issued(o)
      BY <1>3, <2>3 DEF Past
    <3>3. op[o].pc = "runs"
      BY <2>3, <3>1, <3>2 DEF DataInv, Shaped, Open
    <3>4. PICK j \in DOMAIN calls : calls[j].by = o
      BY <3>2, <3>3 DEF DataInv, Queued
    <3>5. calls \in Seq(CallRecord(c))
      BY TypedFacts
    <3>6. 1 \in DOMAIN calls /\ j \in 1..Len(calls)
      BY <1>2, <3>4, <3>5
    <3>7. j < 1
      BY <1>1, <1>2, <3>1, <3>4, <3>6 DEF Ahead
    <3> QED
      BY <3>6, <3>7
  <2>4. Good(req[x].after, rec)
    <3>1. ASSUME rec # None, NEW o \in req[x].after PROVE op[o].pc = "failed" \/ op[o].at <= rec.born
      <4>1. o \in c.operations /\ Issued(o) /\ Hits(c, o, req[x].key)
        BY <1>3, <2>1, <3>1 DEF Past
      <4>2. op[o].pc \in {"done", "failed"}
        <5>1. op[o].pc \in {"new", "waits", "runs", "done", "failed"}
          BY <4>1 DEF CacheInv, Typed, OpRecord
        <5> QED
          BY <2>3, <3>1, <4>1, <5>1 DEF Open, Issued
      <4>3. rec = store[req[x].key]
        BY <1>4, <3>1
      <4> QED
        BY <2>1, <3>1, <4>1, <4>2, <4>3 DEF DataInv, Stored
    <3> QED
      BY <3>1 DEF Good
  <2>5. /\ Drawn(c, x, req[x], rec, req'[x]) /\ SameBut(c, x)
        /\ calls' = Tail(calls) \/ calls' = Append(Tail(calls), Caches(c)!Call("delete", x, req[x].key, None))
    BY <1>4, <2>2, HandleData
  <2>6. PICK r, left, d : r = req[x] /\ left = Tail(calls) /\ d = 1
    OBVIOUS
  <2>7. /\ Held(c, x, r) /\ Past(c, r) /\ (\A o \in r.after : ~Open(o)) /\ Good(r.after, rec) /\ Drawn(c, x, r, rec, req'[x])
        /\ calls' = left \/ calls' = Append(left, Caches(c)!Call("delete", x, r.key, None))
    BY <1>3, <1>4, <2>3, <2>4, <2>5, <2>6
  <2>8. r.born = req[x].born /\ r.completed = req[x].completed /\ left = (IF d = 0 THEN calls ELSE Tail(calls)) /\ d \in {0, 1}
    BY <2>6
  <2> QED
    BY <1>1, <1>2, <2>5, <2>6, <2>7, <2>8, DrawnKeepsReaders
<1>5. CASE calls' = Tail(calls) /\ req' = req
  <2>1. \A y \in Caches(c)!Caller : Bystands(c, y)
    BY <1>5, SameRefl DEF Bystands
  <2>2. LedOn(x) /\ Knows(c, x, req'[x]) /\ (req[x].pc \in Readable => req'[x].pc \in Readable)
    BY <2>1, BystandersKnow, BystandersLead DEF Bystands
  <2>3. PICK d \in {0, 1} : d = 1
    OBVIOUS
  <2>4. calls' = (IF d = 0 THEN calls ELSE Tail(calls))
    BY <1>5, <2>3
  <2> QED
    BY <1>2, <2>1, <2>2, <2>4, SilentActor
<1> QED
  BY <1>2, <1>4, <1>5

LEMMA WriteAppliedKeepsReaders ==
  ASSUME NEW CONSTANT c, Caches(c)!CacheAssumption, CacheInv(c), CacheInv(c)', DataInv(c), Readers(c), One(c),
         Caches(c)!WriteApplied
  PROVE  Readers(c)'
<1>1. PICK x \in Caches(c)!Caller : x = calls[1].by
  BY WriteAppliedData
<1>2. /\ calls # <<>> /\ UNCHANGED <<token, op, keyOp, tagOp, installation>>
      /\ \/ req[x].pc = "drops" /\ Held(c, x, req[x]) /\ Caches(c)!Miss(x, req[x], None, Tail(calls))
         \/ /\ req[x].pc # "drops" /\ calls' = Tail(calls) /\ Onward(c, x, req'[x]) /\ req'[x].answer = req[x].answer
            /\ req'[x].pc = req[x].pc \/ (req[x].pc = "writes" /\ req'[x].pc = "ends")
            /\ \A y \in Caches(c)!Caller \ {x} : req'[y] = req[y]
  BY <1>1, WriteAppliedData
<1>3. Past(c, req[x]) /\ Way(c, x, req[x])
  BY DEF Readers, Knows
<1>4. PICK left, d : left = Tail(calls) /\ d \in {0, 1} /\ d = 1
  OBVIOUS
<1>5. CASE req[x].pc = "drops" /\ Held(c, x, req[x]) /\ Caches(c)!Miss(x, req[x], None, left)
  <2>1. calls' = left /\ Drawn(c, x, req[x], None, req'[x]) /\ SameBut(c, x)
    BY <1>5, MissData DEF Possibly
  <2>2. PICK r : r = req[x]
    OBVIOUS
  <2>3. /\ Held(c, x, r) /\ Past(c, r) /\ (\A o \in r.after : ~Open(o)) /\ Drawn(c, x, r, None, req'[x])
        /\ r.born = req[x].born /\ r.completed = req[x].completed
    BY <1>3, <1>5, <2>1, <2>2 DEF Way
  <2>4. Good(r.after, None) /\ left = (IF d = 0 THEN calls ELSE Tail(calls))
    BY <1>4 DEF Good
  <2> QED
    BY <1>2, <1>4, <1>5, <2>1, <2>3, <2>4, DrawnKeepsReaders DEF Readable
<1>6. CASE /\ calls' = Tail(calls) /\ Onward(c, x, req'[x]) /\ req'[x].answer = req[x].answer
           /\ req'[x].pc = req[x].pc \/ (req[x].pc = "writes" /\ req'[x].pc = "ends")
           /\ \A y \in Caches(c)!Caller \ {x} : req'[y] = req[y]
  <2>1. Halts(c, x, req'[x])
    BY <1>6 DEF Halts, Caches!Waiting
  <2>2. \A y \in Caches(c)!Caller : Bystands(c, y)
    BY <1>6, <2>1, SameRefl DEF Bystands
  <2>3. LedOn(x) /\ Knows(c, x, req'[x]) /\ (req[x].pc \in Readable => req'[x].pc \in Readable)
    BY <2>1, <2>2, BystandersKnow, BystandersLead
  <2>4. calls' = (IF d = 0 THEN calls ELSE Tail(calls))
    BY <1>4, <1>6
  <2> QED
    BY <1>2, <1>4, <2>2, <2>3, <2>4, SilentActor
<1> QED
  BY <1>2, <1>4, <1>5, <1>6


(* Steps of operations: none of them asks the store for a request.          *)
LEMMA FlowKeepsReaders ==
  ASSUME NEW CONSTANT c, Caches(c)!CacheAssumption, CacheInv(c), CacheInv(c)', DataInv(c), Readers(c),
         NEW d, NEW a, NEW n, Flow(c, d, a, n), n = 1 => a.by \notin Caches(c)!Caller,
         \A y \in Caches(c)!Caller : Bystands(c, y)
  PROVE  Readers(c)'
<1>1. Queues(c, d, a, n)
  BY DEF Flow, Queues, Adds
<1>2. ASSUME NEW o \in c.operations, op[o].pc = "waits", Kept(o) PROVE op'[o].pc \in {"waits", "runs"}
  <2>1. op'[o].pc \in {"waits", "runs", "done", "failed"}
    BY <1>2 DEF CacheInv, Typed, OpRecord, Kept
  <2>2. ~Heads(o, d)
    <3>1. ASSUME Heads(o, d) PROVE FALSE
      <4>1. calls \in Seq(CallRecord(c)) /\ 1 <= Len(calls) /\ calls[1].by = o
        BY <3>1 DEF Heads, Flow, CacheInv, Typed
      <4>2. 1 \in DOMAIN calls
        BY <4>1
      <4>3. Mine(calls[1], o)
        BY <4>1, <4>2 DEF DataInv, Queued
      <4> QED
        BY <1>2, <4>3 DEF Mine
    <3> QED
      BY <3>1
  <2> QED
    BY <1>2, <2>1, <2>2 DEF Flow
<1>3. Goes(c)
  BY <1>2 DEF Goes, Flow
<1> QED
  BY <1>1, <1>3, OthersKeepReaders

LEMMA IssueKeepsReaders ==
  ASSUME NEW CONSTANT c, Caches(c)!CacheAssumption, CacheInv(c), CacheInv(c)', DataInv(c), Readers(c),
         NEW o \in c.operations, op[o].pc = "new", NEW kind \in Operations, NEW k1, NEW tags, NEW w,
         Caches(c)!Issue(o, kind, k1, tags, w), \A y \in Caches(c)!Caller : Bystands(c, y)
  PROVE  Readers(c)'
<1>1. /\ op'[o].pc = (IF w = {} THEN "runs" ELSE "waits") /\ op'[o].kind = kind /\ op'[o].key = k1
      /\ op'[o].tags = tags /\ \A p \in c.operations : p # o => op'[p] = op[p]
      /\ calls' = IF w = {} THEN Append(calls, Caches(c)!Call(Caches(c)!FirstCall(kind), o, k1, None)) ELSE calls
  BY IssueData
<1> DEFINE a == Caches(c)!Call(Caches(c)!FirstCall(kind), o, k1, None)
<1>2. PICK n \in {0, 1} : Flow(c, 0, a, n) /\ a.by = o /\ a.entry = None
  <2>1. op'[o].pc \in {"waits", "runs"} /\ calls' = IF op'[o].pc = "runs" THEN Append(calls, a) ELSE calls
    BY <1>1
  <2>2. Queued(c) /\ calls' \in Seq(CallRecord(c))
    BY DEF DataInv, CacheInv, Typed
  <2>3. \A p \in c.operations : p # o => op'[p] = op[p]
    BY <1>1
  <2>4. kind = op'[o].kind /\ k1 = op'[o].key
    BY <1>1
  <2>5. a = Caches(c)!Call(Caches(c)!FirstCall(kind), o, k1, None)
    OBVIOUS
  <2> HIDE DEF a
  <2> QED
    BY <2>1, <2>2, <2>3, <2>4, <2>5, StartFlow
<1> HIDE DEF a
<1>3. a.by \notin Caches(c)!Caller
  BY <1>2 DEF Caches!CacheAssumption
<1> QED
  BY <1>2, <1>3, FlowKeepsReaders

LEMMA OperationKeepsReaders ==
  ASSUME NEW CONSTANT c, Caches(c)!CacheAssumption, CacheInv(c), CacheInv(c)', DataInv(c), Readers(c),
         NEW o \in c.operations, Caches(c)!KeyOperation(o) \/ Caches(c)!TagOperation(o) \/ Caches(c)!Clear(o)
  PROVE  Readers(c)'
<1>1. op[o].pc = "new"
  BY Zenon DEF Caches!KeyOperation, Caches!TagOperation, Caches!Clear
<1>2. ASSUME NEW K, Caches(c)!Invalidate(K) PROVE \A y \in Caches(c)!Caller : Bystands(c, y)
  BY <1>2, InvalidateData DEF Bystands
<1>3. CASE Caches(c)!KeyOperation(o)
  <2>1. PICK kind \in c.kinds \cap {"delete", "set", "update"}, k1 \in c.keys :
         \E tags \in IF kind = "set" THEN {f.tags : f \in {g \in c.configs : g.cached}} ELSE {{}} :
         /\ Caches(c)!Issue(o, kind, k1, tags, Caches(c)!WaitsFor(kind, k1, tags))
         /\ Caches(c)!Invalidate({k1})
    BY <1>3, Zenon DEF Caches!KeyOperation
  <2>2. kind \in Operations
    BY DEF Operations
  <2> QED
    BY <1>1, <1>2, <2>1, <2>2, IssueKeepsReaders
<1>4. CASE Caches(c)!TagOperation(o)
  <2>1. PICK tags \in SUBSET c.tags : Caches(c)!InvalidateTags(o, tags) /\ Caches(c)!Invalidate(Caches(c)!Tagged(tags))
    BY <1>4, Zenon DEF Caches!TagOperation
  <2>2. Caches(c)!Issue(o, "tags", None, tags,
             ({keyOp[k1] : k1 \in c.keys} \cup {tagOp[t1] : t1 \in tags}) \ {None})
    BY <2>1, Zenon DEF Caches!InvalidateTags
  <2>3. PICK kind \in Operations : kind = "tags"
    BY DEF Operations
  <2> QED
    BY <1>1, <1>2, <2>1, <2>2, <2>3, IssueKeepsReaders
<1>5. CASE Caches(c)!Clear(o)
  <2>1. Caches(c)!Issue(o, "clear", None, {}, {}) /\ Caches(c)!Invalidate(c.keys)
    BY <1>5, Zenon DEF Caches!Clear
  <2>2. PICK kind \in Operations : kind = "clear"
    BY DEF Operations
  <2> QED
    BY <1>1, <1>2, <2>1, <2>2, IssueKeepsReaders
<1> QED
  BY <1>3, <1>4, <1>5

LEMMA SettleMutationKeepsReaders ==
  ASSUME NEW CONSTANT c, Caches(c)!CacheAssumption, CacheInv(c), CacheInv(c)', DataInv(c), Readers(c),
         NEW x \in Caches(c)!Caller, NEW o \in c.operations, Caches(c)!SettleMutation(x, o)
  PROVE  Readers(c)'
<1>1. /\ op[o].pc = "new" /\ Caches(c)!InvalidateTags(o, req[x].conf.mutates)
      /\ Gone(x, req'[x]) /\ \A y \in Caches(c)!Caller \ {x} : Halts(c, y, req'[y])
  BY SettleMutationData
<1>2. PICK tags : tags = req[x].conf.mutates
  OBVIOUS
<1>3. Caches(c)!Issue(o, "tags", None, tags,
             ({keyOp[k1] : k1 \in c.keys} \cup {tagOp[t1] : t1 \in tags}) \ {None})
  BY <1>1, <1>2, Zenon DEF Caches!InvalidateTags
<1>4. PICK kind \in Operations : kind = "tags"
  BY DEF Operations
<1>5. \A y \in Caches(c)!Caller : Bystands(c, y)
  BY <1>1 DEF Bystands
<1> QED
  BY <1>1, <1>3, <1>4, <1>5, IssueKeepsReaders

LEMMA ResterBystand ==
  ASSUME NEW CONSTANT c, CacheInv(c), req' = req
  PROVE  \A y \in Caches(c)!Caller : Bystands(c, y)
BY StoppedHalts DEF Bystands

LEMMA RunOperationKeepsReaders ==
  ASSUME NEW CONSTANT c, Caches(c)!CacheAssumption, CacheInv(c), CacheInv(c)', DataInv(c), Readers(c),
         NEW o \in c.operations, Caches(c)!RunOperation(o)
  PROVE  Readers(c)'
<1>1. /\ op[o].pc = "waits" /\ UNCHANGED <<req, token, live, keyOp, tagOp, store, installation>>
      /\ calls' = Append(calls, Caches(c)!Call(Caches(c)!FirstCall(op[o].kind), o, op[o].key, None))
  BY Zenon DEF Caches!RunOperation
<1>2. op'[o] = [op[o] EXCEPT !.pc = "runs"] /\ \A p \in c.operations : p # o => op'[p] = op[p]
  BY ChainedByRun DEF DataInv
<1>3. op[o] \in OpRecord(c)
  BY DEF CacheInv, Typed
<1>4. /\ op'[o].pc = "runs" /\ op'[o].kind = op[o].kind /\ op'[o].key = op[o].key /\ op'[o].tags = op[o].tags
      /\ op'[o].at = op[o].at /\ op'[o].waits = op[o].waits
  BY <1>2, <1>3 DEF OpRecord
<1>5. Kept(o) /\ op[o].kind # "clear" /\ op[o].kind \in Operations
  BY <1>1, <1>4 DEF Kept, DataInv, Shaped, Issued
<1> DEFINE a == Caches(c)!Call(Caches(c)!FirstCall(op[o].kind), o, op[o].key, None)
<1>6. PICK n \in {0, 1} : Flow(c, 0, a, n) /\ a.by = o /\ a.entry = None
  <2>1. calls' = (IF op'[o].pc = "runs" THEN Append(calls, a) ELSE calls) /\ calls' \in Seq(CallRecord(c))
    BY <1>1, <1>4 DEF CacheInv, Typed
  <2>2. PICK kind, k1 : kind = op'[o].kind /\ k1 = op'[o].key
    OBVIOUS
  <2>3. a = Caches(c)!Call(Caches(c)!FirstCall(kind), o, k1, None)
    BY <1>4, <2>2
  <2>4. Queued(c) /\ op[o].pc \in {"new", "waits"} /\ op'[o].pc \in {"waits", "runs"} /\ kind \in Operations
    BY <1>1, <1>4, <1>5, <2>2 DEF DataInv
  <2>5. \A p \in c.operations : p # o => op'[p] = op[p]
    BY <1>2
  <2>6. op[o].pc = "waits" => Kept(o) /\ op[o].kind # "clear"
    BY <1>5
  <2>7. calls' \in Seq(CallRecord(c)) /\ calls' = IF op'[o].pc = "runs" THEN Append(calls, a) ELSE calls
    BY <2>1
  <2> HIDE DEF a
  <2> QED
    BY <2>2, <2>3, <2>4, <2>5, <2>6, <2>7, StartFlow
<1> HIDE DEF a
<1>7. a.by \notin Caches(c)!Caller
  BY <1>6 DEF Caches!CacheAssumption
<1>8. \A y \in Caches(c)!Caller : Bystands(c, y)
  BY <1>1, ResterBystand
<1> QED
  BY <1>6, <1>7, <1>8, FlowKeepsReaders

LEMMA FinishKeepsReaders ==
  ASSUME NEW CONSTANT c, Caches(c)!CacheAssumption, CacheInv(c), CacheInv(c)', DataInv(c), Readers(c), calls # <<>>,
         NEW o \in c.operations, calls[1].by = o, NEW result \in {"done", "failed"}, Caches(c)!Finished(o, result),
         calls' = Tail(calls), req' = req
  PROVE  Readers(c)'
<1>1. /\ Mine(calls[1], o) /\ 1 <= Len(calls) /\ calls \in Seq(CallRecord(c)) /\ calls[1] \in CallRecord(c)
      /\ op[o] \in OpRecord(c)
  BY HeadFacts
<1>2. op[o].pc = "runs"
  BY <1>1 DEF Mine
<1>3. Kept(o) /\ \A p \in c.operations : p # o => op'[p] = op[p]
  <2>1. Numbered(c) /\ Chained(c)
    BY DEF DataInv
  <2> QED
    BY <1>2, <2>1, ChainedByFinish
<1>4. Goes(c)
  BY <1>2, <1>3 DEF Goes, Kept, Issued
<1>5. Queues(c, 1, calls[1], 0)
  BY <1>1, Shifts DEF Queues
<1>6. \A y \in Caches(c)!Caller : Bystands(c, y)
  BY ResterBystand
<1> QED
  BY <1>4, <1>5, <1>6, OthersKeepReaders

LEMMA UpdateReadKeepsReaders ==
  ASSUME NEW CONSTANT c, Caches(c)!CacheAssumption, CacheInv(c), CacheInv(c)', DataInv(c), Readers(c), Caches(c)!UpdateRead
  PROVE  Readers(c)'
<1>0. PICK o, k1, left : o = calls[1].by /\ k1 = calls[1].key /\ left = Tail(calls)
  OBVIOUS
<1>1. /\ calls # <<>> /\ calls[1].call = "get" /\ o \in c.operations /\ k1 \in c.keys /\ req' = req
      /\ \/ (Caches(c)!Finished(o, "done") \/ Caches(c)!Finished(o, "failed")) /\ calls' = left
         \/ /\ store[k1] # None /\ op' = op
            /\ \E e \in {[store[k1] EXCEPT !.born = op[o].at, !.raw = FALSE]} :
                     \/ calls' = Append(left, Caches(c)!Call("set", o, k1, e))
                     \/ calls' = Append(left, Caches(c)!Call("delete", o, k1, None))
  BY <1>0, UpdateReadData, Zenon
<1>2. CASE (Caches(c)!Finished(o, "done") \/ Caches(c)!Finished(o, "failed")) /\ calls' = left
  BY <1>0, <1>1, <1>2, FinishKeepsReaders
<1>3. CASE /\ store[k1] # None /\ op' = op
           /\ \E e \in {[store[k1] EXCEPT !.born = op[o].at, !.raw = FALSE]} :
                     \/ calls' = Append(left, Caches(c)!Call("set", o, k1, e))
                     \/ calls' = Append(left, Caches(c)!Call("delete", o, k1, None))
  <2>1. PICK e : e = [store[k1] EXCEPT !.born = op[o].at, !.raw = FALSE]
    OBVIOUS
  <2>2. PICK name \in {"set", "delete"}, f \in {e, None} : calls' = Append(left, Caches(c)!Call(name, o, k1, f))
    BY <1>3, <2>1
  <2>3. /\ op[o] \in OpRecord(c) /\ op[o].kind \in Operations /\ Mine(calls[1], o)
        /\ calls \in Seq(CallRecord(c)) /\ 1 <= Len(calls)
    BY <1>0, <1>1, HeadFacts
  <2>4. op[o].kind = "update"
    BY <1>1, <2>3 DEF Mine, Operations
  <2>5. store[k1] \in Caches(c)!Entry /\ op[o].at \in Caches(c)!Stamp
    BY <1>1, <1>3, <2>3 DEF CacheInv, Typed, Possibly, OpRecord
  <2>6. e \in Caches(c)!Entry
    BY <2>1, <2>5 DEF Caches!Entry
  <2>7. PICK a : a = Caches(c)!Call(name, o, k1, f)
    OBVIOUS
  <2>8. a \in CallRecord(c) /\ a.by = o
    <3>1. f \in Possibly(Caches(c)!Entry) /\ o \in Caches(c)!Caller \cup c.operations
      BY <1>1, <2>6 DEF Possibly
    <3>2. \A name1 \in {"get", "delete", "set"} : Caches(c)!Call(name1, o, k1, f) \in CallRecord(c)
      BY <1>1, <3>1, CallTyped
    <3>3. name \in {"get", "delete", "set"}
      OBVIOUS
    <3> QED
      BY <2>7, <3>2, <3>3 DEF Caches!Call
  <2>9. Shift(1, a, 1)
    BY <1>0, <1>1, <2>2, <2>3, <2>7, <2>8, Shifts
  <2>10. Queues(c, 1, a, 1)
    BY <2>3, <2>4, <2>8, <2>9 DEF Queues
  <2>11. Goes(c)
    <3>1. \A p \in c.operations : op[p].pc \in {"new", "waits", "runs", "done", "failed"}
      BY DEF CacheInv, Typed, OpRecord
    <3> QED
      BY <1>3, <3>1 DEF Goes, Kept, Issued
  <2>12. a.by \notin Caches(c)!Caller /\ \A y \in Caches(c)!Caller : Bystands(c, y)
    BY <1>1, <2>8, ResterBystand DEF Caches!CacheAssumption
  <2> QED
    BY <2>10, <2>11, <2>12, OthersKeepReaders
<1> QED
  BY <1>1, <1>2, <1>3

LEMMA OperationAppliedKeepsReaders ==
  ASSUME NEW CONSTANT c, Caches(c)!CacheAssumption, CacheInv(c), CacheInv(c)', DataInv(c), Readers(c),
         Caches(c)!OperationApplied
  PROVE  Readers(c)'
<1>0. PICK o : o = calls[1].by
  OBVIOUS
<1>1. /\ calls # <<>> /\ o \in c.operations /\ req' = req /\ calls' = Tail(calls)
      /\ \E result \in {"done", "failed"} : Caches(c)!Finished(o, result)
  BY <1>0, OperationAppliedData, Zenon
<1> QED
  BY <1>0, <1>1, FinishKeepsReaders

(* The settled hook, the removal of an installation and the time that       *)
(* passes for an entry.                                                     *)
LEMMA SettleKeepsReaders ==
  ASSUME NEW CONSTANT c, Caches(c)!CacheAssumption, CacheInv(c), CacheInv(c)', DataInv(c), Readers(c),
         NEW x \in Caches(c)!Caller, Caches(c)!Settle(x)
  PROVE  Readers(c)'
<1>1. /\ op' = op /\ calls' = calls /\ Gone(x, req'[x]) /\ \A y \in Caches(c)!Caller \ {x} : req'[y] = req[y]
  BY SettleData
<1>2. \A y \in Caches(c)!Caller : Bystands(c, y)
  BY <1>1, StoppedHalts DEF Bystands
<1> QED
  BY <1>1, <1>2, RestKeepsReaders

LEMMA UnuseKeepsReaders ==
  ASSUME NEW CONSTANT c, Caches(c)!CacheAssumption, CacheInv(c), CacheInv(c)', DataInv(c), Readers(c),
         NEW i \in c.installations, Caches(c)!Unuse(i)
  PROVE  Readers(c)'
<1>1. op' = op /\ calls' = calls /\ \A y \in Caches(c)!Caller : Halts(c, y, req'[y])
  BY UnuseData
<1> QED
  BY <1>1, RestKeepsReaders DEF Bystands

LEMMA StillKeepsReaders ==
  ASSUME NEW CONSTANT c, Caches(c)!CacheAssumption, CacheInv(c), CacheInv(c)', DataInv(c), Readers(c),
         UNCHANGED <<req, op, calls>>
  PROVE  Readers(c)'
BY ResterBystand, RestKeepsReaders

----------------------------------------------------------------------------
(* A request begins: it waits for the last operation of its key and of each *)
(* of its tags, and so for all of them.                                     *)
LEMMA BeginKnows ==
  ASSUME NEW CONSTANT c, Caches(c)!CacheAssumption, Uniform(c), CacheInv(c), DataInv(c), Readers(c),
         NEW x \in Caches(c)!Caller, ~Begun(req[x]), NEW k1 \in c.keys, NEW f \in c.configs,
         NEW g, NEW w, w = Awaits(k1, f), Opens(c, x, k1, f, g, w)
  PROVE  Knows(c, x, req'[x])
<1>1. PICK q : q = req'[x]
  OBVIOUS
<1>2. /\ q.born = Caches(c)!Epoch /\ q.after = {o \in c.operations : Caches(c)!Concerns(o, k1, f.tags)}
      /\ q.key = k1 /\ q.seen = req[x].seen /\ q.fallback = req[x].fallback /\ q.answer = req[x].answer
      /\ q.completed = req[x].completed
      /\ \/ ~f.cached /\ q.pc = "fetches" /\ q.token = None
         \/ f.cached /\ q.token \in Caches(c)!Caller /\ q.waits = w /\ q.pc = IF w = {} THEN "reads" ELSE "waits"
  BY <1>1 DEF Opens
<1>3. q.seen = None /\ q.fallback = None /\ q.answer = None /\ q.completed = None
  BY <1>2 DEF Readers, Knows, Past
<1>4. ASSUME NEW o \in q.after
      PROVE  o \in c.operations /\ Issued(o) /\ op[o].at <= q.born /\ (q.token # None => Hits(c, o, q.key))
  <2>1. o \in c.operations /\ Caches(c)!Concerns(o, k1, f.tags) /\ Issued(o)
    BY <1>2 DEF Caches!Concerns, Issued
  <2>2. op[o].at <= q.born
    BY <1>2, <2>1 DEF DataInv, Numbered
  <2>3. ASSUME q.token # None PROVE Hits(c, o, k1)
    <3>1. f.tags = Labels(c)
      BY <1>2, <2>3 DEF Uniform, Labels
    <3>2. op[o].kind \in Operations
      BY <2>1 DEF DataInv, Shaped
    <3> QED
      BY <2>1, <3>1, <3>2 DEF Caches!Concerns, Hits, KeyKinds, Operations
  <2> QED
    BY <1>2, <2>1, <2>2, <2>3
<1>5. Past(c, q)
  BY <1>2, <1>3, <1>4 DEF Past, Good, Begun, Caches!CacheAssumption
<1>6. ASSUME f.cached, NEW v \in {"key", "tag"}, NEW z \in Lane(c, v), IF v = "key" THEN z = q.key ELSE z \in Labels(c),
             NEW o \in q.after, In(o, v, z), Open(o)
      PROVE  Blocked(c, o, v, z, w)
  <2>1. Last(v, z) # None /\ Blocked(c, o, v, z, {Last(v, z)})
    BY <1>4, <1>6 DEF DataInv, Chained
  <2>2. f.tags = Labels(c)
    BY <1>6 DEF Uniform, Labels
  <2>3. Last(v, z) \in w
    BY <1>2, <1>6, <2>1, <2>2 DEF Last, Awaits
  <2> QED
    BY <2>1, <2>3 DEF Blocked
<1>7. Way(c, x, q)
  <2>1. CASE q.pc = "fetches"
    BY <2>1 DEF Way
  <2>2. CASE q.pc = "waits" /\ f.cached /\ q.waits = w
    BY <1>6, <2>2 DEF Way
  <2>3. CASE q.pc = "reads" /\ f.cached /\ w = {} /\ q.token \in Caches(c)!Caller
    <3>1. \A v \in {"key", "tag"} : \A z \in Lane(c, v) : (IF v = "key" THEN z = q.key ELSE z \in Labels(c)) =>
            \A o \in q.after : ~(In(o, v, z) /\ Open(o))
      BY <1>6, <2>3 DEF Blocked
    <3>2. q.token # None /\ q.key \in c.keys
      BY <1>2, <2>3 DEF Caches!CacheAssumption
    <3>3. \A o \in q.after : Open(o) => op[o].kind = "clear"
      BY <1>5, <3>1, <3>2, OnlyClear
    <3>4. \A o \in q.after : Ahead(x, o)
      BY NotReading DEF Readers, Begun, Readable
    <3> QED
      BY <2>3, <3>3, <3>4 DEF Way
  <2> QED
    BY <1>2, <2>1, <2>2, <2>3
<1> QED
  BY <1>1, <1>5, <1>7 DEF Knows

LEMMA BeginKeepsReaders ==
  ASSUME NEW CONSTANT c, Caches(c)!CacheAssumption, Uniform(c), CacheInv(c), CacheInv(c)', DataInv(c), Readers(c),
         NEW x \in Caches(c)!Caller, ~Begun(req[x]), op' = op,
         NEW i \in c.installations, NEW k1 \in c.keys, NEW f \in c.configs, Caches(c)!Begin(x, i, k1, f)
  PROVE  Readers(c)'
<1>1. PICK g, w : w = Awaits(k1, f) /\ Opens(c, x, k1, f, g, w)
  BY BeginData
<1>2. Knows(c, x, req'[x])
  BY <1>1, BeginKnows
<1>3. /\ \A y \in Caches(c)!Caller \ {x} : req'[y] = req[y]
      /\ \/ calls' = calls
         \/ req'[x].pc = "reads" /\ calls' = Append(calls, Caches(c)!Call("get", x, k1, None))
  BY <1>1 DEF Opens
<1>4. \A y \in Caches(c)!Caller \ {x} : Bystands(c, y)
  BY <1>3, StoppedHalts DEF Bystands
<1>5. LedOn(x) /\ req[x].pc \notin Readable
  BY DEF LedOn, Begun, Readable
<1>6. PICK a : a = Caches(c)!Call("get", x, k1, None)
  OBVIOUS
<1>7. a \in CallRecord(c) /\ a.by = x
  BY <1>6, CallTyped DEF Possibly
<1>8. calls' = calls \/ (calls' = Append(calls, a) /\ req'[x].pc \in Readable)
  BY <1>3, <1>6 DEF Readable
<1>9. CASE calls' = calls
  BY <1>2, <1>4, <1>5, <1>9, SilentActor
<1>10. CASE calls' = Append(calls, a) /\ req'[x].pc \in Readable
  BY <1>2, <1>4, <1>5, <1>7, <1>10, QuietActor
<1> QED
  BY <1>8, <1>9, <1>10

LEMMA StartKeepsReaders ==
  ASSUME NEW CONSTANT c, Caches(c)!CacheAssumption, Uniform(c), CacheInv(c), CacheInv(c)', DataInv(c), Readers(c),
         NEW x \in Caches(c)!Caller, Caches(c)!Start(x) \/ Caches(c)!StartRefresh(x)
  PROVE  Readers(c)'
<1>1. ~Begun(req[x]) /\ op' = op
  BY DEF Caches!Start, Caches!StartRefresh, Begun
<1>2. CASE \E i \in c.installations, k1 \in c.keys, f \in c.configs : Caches(c)!Begin(x, i, k1, f)
  BY <1>1, <1>2, BeginKeepsReaders
<1>3. CASE /\ ~\E i \in c.installations, k1 \in c.keys, f \in c.configs : Caches(c)!Begin(x, i, k1, f)
           /\ Caches(c)!StartRefresh(x)
  <2> DEFINE r == [req[x] EXCEPT !.pc = "fetches"]
  <2>1. Bound(c, req[x]) /\ req[x] \in RequestRecord(c) /\ req[x].pc = "spawned"
    BY <1>3, TypedFacts DEF Caches!StartRefresh
  <2>2. Caches(c)!Becomes(x, r) /\ calls' = calls
    BY <1>3, <2>1 DEF Caches!StartRefresh, Bound
  <2>3. /\ r.pc = "fetches" /\ r.after = req[x].after /\ r.answer = req[x].answer /\ r.fallback = req[x].fallback
        /\ r.seen = req[x].seen /\ r.completed = req[x].completed
    BY <2>1 DEF RequestRecord
  <2> HIDE DEF r
  <2>4. req'[x] = r /\ \A y \in Caches(c)!Caller \ {x} : req'[y] = req[y]
    BY <2>2, BecomesOne
  <2>5. Knows(c, x, r)
    <3>1. r.after = {} /\ r.answer = None /\ r.fallback = None /\ r.seen = None /\ r.completed = None
      BY <1>1, <2>1, <2>3 DEF Readers, Knows, Past
    <3> QED
      BY <2>3, <3>1 DEF Knows, Past, Way, Good, Begun
  <2>6. LedOn(x) /\ req[x].pc \notin Readable
    BY <2>1 DEF LedOn, Begun, Readable
  <2>7. \A y \in Caches(c)!Caller \ {x} : Bystands(c, y)
    BY <2>4, StoppedHalts DEF Bystands
  <2> QED
    BY <1>1, <2>2, <2>4, <2>5, <2>6, <2>7, SilentActor
<1> QED
  BY <1>2, <1>3 DEF Caches!Start

----------------------------------------------------------------------------
LEMMA ReadersInit ==
  ASSUME NEW CONSTANT c, Caches(c)!Init
  PROVE  Readers(c)
<1>1. req = [x \in Caches(c)!Caller |-> Caches(c)!NoRequest] /\ calls = <<>>
  BY DEF Caches!Init
<1>2. Reading(c)
  BY <1>1 DEF Reading
<1>3. ASSUME NEW x \in Caches(c)!Caller PROVE Knows(c, x, req[x])
  <2>1. /\ req[x].pc = "new" /\ req[x].after = {} /\ req[x].answer = None /\ req[x].fallback = None
        /\ req[x].seen = None /\ req[x].completed = None
    BY <1>1 DEF Caches!NoRequest
  <2> QED
    BY <2>1 DEF Knows, Past, Way, Good, Begun
<1> QED
  BY <1>2, <1>3 DEF Readers

LEMMA ReadersStep ==
  ASSUME NEW CONSTANT c, Caches(c)!CacheAssumption, Uniform(c), One(c), CacheInv(c), CacheInv(c)', DataInv(c), Readers(c),
         [Caches(c)!Next]_(Caches(c)!vars)
  PROVE  Readers(c)'
<1>1. ASSUME NEW x \in Caches(c)!Caller,
             \/ Caches(c)!Start(x) \/ Caches(c)!StartRefresh(x) \/ Caches(c)!Read(x) \/ Caches(c)!LeaseGranted(x)
             \/ Caches(c)!LeaseFailed(x) \/ Caches(c)!Answered(x) \/ Caches(c)!Streamed(x) \/ Caches(c)!Failed(x)
             \/ Caches(c)!Wake(x) \/ Caches(c)!Abort(x) \/ Caches(c)!Settle(x)
             \/ \E o \in c.operations : Caches(c)!SettleMutation(x, o)
      PROVE  Readers(c)'
  BY <1>1, StartKeepsReaders, ReadKeepsReaders, LeaseGrantedKeepsReaders, LeaseFailedKeepsReaders, AnsweredKeepsReaders,
     StreamedKeepsReaders, SettleKeepsReaders, SettleMutationKeepsReaders
<1>2. ASSUME NEW o \in c.operations,
             Caches(c)!KeyOperation(o) \/ Caches(c)!TagOperation(o) \/ Caches(c)!Clear(o) \/ Caches(c)!RunOperation(o)
      PROVE  Readers(c)'
  BY <1>2, OperationKeepsReaders, RunOperationKeepsReaders
<1>3. CASE Caches(c)!ReadApplied \/ Caches(c)!WriteApplied \/ Caches(c)!UpdateRead \/ Caches(c)!OperationApplied
  BY <1>3, ReadAppliedKeepsReaders, WriteAppliedKeepsReaders, UpdateReadKeepsReaders, OperationAppliedKeepsReaders
<1>4. ASSUME NEW i \in c.installations, Caches(c)!Unuse(i) PROVE Readers(c)'
  BY <1>4, UnuseKeepsReaders
<1>5. ASSUME NEW k1 \in c.keys, Caches(c)!Expire(k1) PROVE Readers(c)'
  <2>1. UNCHANGED <<req, op, calls>>
    BY <1>5, Zenon DEF Caches!Expire
  <2> QED
    BY <2>1, StillKeepsReaders
<1>6. CASE UNCHANGED Caches(c)!vars
  <2>1. UNCHANGED <<req, op, calls>>
    BY <1>6 DEF Caches!vars
  <2> QED
    BY <2>1, StillKeepsReaders
<1> QED
  BY <1>1, <1>2, <1>3, <1>4, <1>5, <1>6 DEF Caches!Next, Caches!AllDone

LEMMA ReadersSee ==
  ASSUME NEW CONSTANT c, DataInv(c), Readers(c)
  PROVE  Caches(c)!ReadsSeeInvalidations
<1>1. ASSUME NEW x \in Caches(c)!Caller, req[x].answer # None, NEW o \in req[x].after, op[o].pc # "failed"
      PROVE  req[x].answer.born >= op[o].at
  <2>1. op[o].at <= req[x].answer.born
    BY <1>1 DEF Readers, Knows, Past, Good
  <2> QED
    BY <2>1
<1> QED
  BY <1>1 DEF Caches!ReadsSeeInvalidations

(* For every set of requests, keys, tags, options and operations of one     *)
(* client, where cached requests agree in their labels and clear() does not *)
(* go with set() and update(): a request that began after an operation on   *)
(* its key or its tags was issued is never answered with older data, by the *)
(* store or by a request in flight.                                         *)
THEOREM LaterReadsAreNew ==
  ASSUME NEW CONSTANT c, Caches(c)!CacheAssumption, Uniform(c), Ordered(c), \A i, j \in c.installations : i = j
  PROVE  Caches(c)!Spec => []Caches(c)!ReadsSeeInvalidations
<1>1. Caches(c)!Init => CacheInv(c) /\ DataInv(c) /\ Readers(c)
  BY CacheInit, DataInit, ReadersInit
<1>2. CacheInv(c) /\ DataInv(c) /\ Readers(c) /\ [Caches(c)!Next]_(Caches(c)!vars)
        => (CacheInv(c) /\ DataInv(c) /\ Readers(c))'
  BY DataStep, ReadersStep DEF One
<1>3. DataInv(c) /\ Readers(c) => Caches(c)!ReadsSeeInvalidations
  BY ReadersSee
<1> QED
  BY <1>1, <1>2, <1>3, PTL DEF Caches!Spec

(* The run's behaviours, but those of two clients, of mixed labels and of   *)
(* clear() beside update().                                                 *)
THEOREM ReadsSeeInvalidationsHolds ==
  ASSUME "mixed" \notin Parts, "cleared" \notin Parts, "pair" \notin Parts
  PROVE  MCSpec => []ReadsSeeInvalidations
<1> DEFINE Inv == part \in Parts /\ \A p \in Parts : part = p =>
                     CacheInv(Instances[p]) /\ DataInv(Instances[p]) /\ Readers(Instances[p])
<1>1. MCInit => Inv
  BY CacheInit, DataInit, ReadersInit, CachesAssumption DEF MCInit
<1>2. Inv /\ [MCNext]_mcvars => Inv'
  <2> SUFFICES ASSUME Inv, [MCNext]_mcvars PROVE Inv'
    OBVIOUS
  <2>1. part' = part
    BY DEF MCNext, mcvars
  <2>2. ASSUME NEW p \in Parts, part = p
        PROVE  CacheInv(Instances[p])' /\ DataInv(Instances[p])' /\ Readers(Instances[p])'
    <3>1. /\ CacheInv(Instances[p]) /\ DataInv(Instances[p]) /\ Readers(Instances[p])
          /\ Caches(Instances[p])!CacheAssumption
      BY <2>2, CachesAssumption
    <3>2. [Caches(Instances[p])!Next]_(Caches(Instances[p])!vars)
      BY <2>2 DEF MCNext, mcvars, Caches!vars
    <3>3. Uniform(Instances[p]) /\ Ordered(Instances[p]) /\ One(Instances[p])
      BY PartsOrdered, PartsHaveOne, CachesAssumption
    <3>4. CacheInv(Instances[p])' /\ DataInv(Instances[p])'
      BY <3>1, <3>2, <3>3, DataStep
    <3> QED
      BY <3>1, <3>2, <3>3, <3>4, ReadersStep
  <2> QED
    BY <2>1, <2>2
<1>3. Inv => ReadsSeeInvalidations
  BY ReadersSee DEF ReadsSeeInvalidations
<1> QED
  BY <1>1, <1>2, <1>3, PTL DEF MCSpec
=============================================================================
