------------------------------ MODULE MCCache ------------------------------
(* Small menus of cache options and response policies for Cache, and its    *)
(* instances: a behaviour belongs to one of them.                           *)
EXTENDS Naturals, Sequences, FiniteSets, TLC

CONSTANTS None, k, t, r1, r2, r3, b1, o1, o2, i1, i2, Parts

VARIABLES part, req, token, live, op, keyOp, tagOp, store, calls, installation

Shared(tags) == [cached |-> TRUE, dedupe |-> TRUE, forced |-> FALSE, raw |-> FALSE, tags |-> tags, mutates |-> {}]
Plain == Shared({t})
Forced == [Plain EXCEPT !.forced = TRUE]
Raw == [Plain EXCEPT !.raw = TRUE]
Alone == [Plain EXCEPT !.dedupe = FALSE]
Mutation == [Shared({}) EXCEPT !.cached = FALSE, !.mutates = {t}]
CachedMutation == [Plain EXCEPT !.mutates = {t}]

NotStored == [ttl |-> FALSE, etag |-> FALSE, sie |-> FALSE, swr |-> FALSE]
Fresh == [NotStored EXCEPT !.ttl = TRUE]
StaleServed == [NotStored EXCEPT !.swr = TRUE]
Validated == [NotStored EXCEPT !.etag = TRUE, !.sie = TRUE]

\* The component for the constants in a record, and the records.
Caches(c) == INSTANCE Cache WITH
    Key <- c.keys, Tag <- c.tags, Request <- c.requests, Refresh <- c.refreshes,
    Operation <- c.operations, Installation <- c.installations, Kind <- c.kinds,
    HasLeases <- c.leases, MayFail <- c.failures, Config <- c.configs, Policy <- c.policies

\* Updates and tags beside two requests.
Keys ==
    [keys |-> {k}, tags |-> {t}, requests |-> {r1, r2}, refreshes |-> {},
     operations |-> {o1, o2}, installations |-> {i1}, kinds |-> {"update", "tags"},
     leases |-> FALSE, failures |-> FALSE, configs |-> {Plain}, policies |-> {Fresh}]

\* All operations on the key, chained behind each other, beside one request.
Chain ==
    [keys |-> {k}, tags |-> {t}, requests |-> {r1}, refreshes |-> {},
     operations |-> {o1, o2}, installations |-> {i1}, kinds |-> {"delete", "set", "update", "tags"},
     leases |-> FALSE, failures |-> FALSE, configs |-> {Plain}, policies |-> {Fresh}]

\* A stored entry for requests of both forms.
Forms ==
    [keys |-> {k}, tags |-> {t}, requests |-> {r1, r2}, refreshes |-> {},
     operations |-> {o1}, installations |-> {i1}, kinds |-> {"set"},
     leases |-> FALSE, failures |-> FALSE, configs |-> {Plain, Raw}, policies |-> {Fresh}]

\* Tags, clear(), mutations and background refreshes.
Tags ==
    [keys |-> {k}, tags |-> {t}, requests |-> {r1, r2}, refreshes |-> {b1},
     operations |-> {o1, o2}, installations |-> {i1}, kinds |-> {"tags", "clear"},
     leases |-> FALSE, failures |-> FALSE, configs |-> {Plain, Mutation, CachedMutation}, policies |-> {StaleServed, Validated}]

\* Leases and a store whose calls fail.
Leases ==
    [keys |-> {k}, tags |-> {t}, requests |-> {r1, r2}, refreshes |-> {},
     operations |-> {o1}, installations |-> {i1}, kinds |-> {"delete"},
     leases |-> TRUE, failures |-> TRUE, configs |-> {Alone, Forced}, policies |-> {Fresh}]

\* Three requests, some for the raw response, that cannot be stored.
Three ==
    [keys |-> {k}, tags |-> {t}, requests |-> {r1, r2, r3}, refreshes |-> {},
     operations |-> {}, installations |-> {i1}, kinds |-> {},
     leases |-> FALSE, failures |-> FALSE, configs |-> {Plain, Raw}, policies |-> {NotStored}]

\* Requests for one key that differ in their tags.
Mixed ==
    [keys |-> {k}, tags |-> {t}, requests |-> {r1, r2}, refreshes |-> {},
     operations |-> {o1}, installations |-> {i1}, kinds |-> {"tags"},
     leases |-> FALSE, failures |-> FALSE, configs |-> {Plain, Shared({})}, policies |-> {Validated}]

\* clear() beside a pending update().
Cleared ==
    [keys |-> {k}, tags |-> {t}, requests |-> {r1}, refreshes |-> {},
     operations |-> {o1, o2}, installations |-> {i1}, kinds |-> {"update", "clear"},
     leases |-> FALSE, failures |-> FALSE, configs |-> {Plain}, policies |-> {Fresh}]

\* Two installations share the plugin.
Pair ==
    [keys |-> {k}, tags |-> {t}, requests |-> {r1, r2}, refreshes |-> {},
     operations |-> {o1}, installations |-> {i1, i2}, kinds |-> {"tags"},
     leases |-> FALSE, failures |-> FALSE, configs |-> {Plain}, policies |-> {Fresh}]

Instances ==
    [keys |-> Keys, chain |-> Chain, forms |-> Forms, tags |-> Tags, leases |-> Leases, three |-> Three,
     mixed |-> Mixed, cleared |-> Cleared, pair |-> Pair]

ASSUME CachesAssumption ==
    Parts \subseteq DOMAIN Instances /\ \A i \in DOMAIN Instances : Caches(Instances[i])!CacheAssumption

----------------------------------------------------------------------------
mcvars == <<part, req, token, live, op, keyOp, tagOp, store, calls, installation>>

MCInit == \E i \in Parts : part = i /\ Caches(Instances[i])!Init
MCNext == \E i \in Parts : part = i /\ Caches(Instances[i])!Next /\ UNCHANGED part
MCSpec == MCInit /\ [][MCNext]_mcvars

Symmetry == Permutations({r1, r2, r3}) \cup Permutations({o1, o2})

\* See Cache: the store and finished invalidations.
InvalidatedStaysOut == \A i \in Parts : part = i => Caches(Instances[i])!InvalidatedStaysOut

\* See Cache: what a request that began later is answered.
ReadsSeeInvalidations == \A i \in Parts : part = i => Caches(Instances[i])!ReadsSeeInvalidations

\* See Cache: who waits for a request in flight, leases, and the maps beside the requests.
InFlightAgrees == \A i \in Parts : part = i => Caches(Instances[i])!InFlightAgrees
=============================================================================
