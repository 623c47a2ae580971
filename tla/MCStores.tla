------------------------------ MODULE MCStores ------------------------------
(* Small instances of the stores: of Tiered, of IndexedDB and of MemoryCache. *)
(* A behaviour belongs to one of them, the variables of the others are idle.  *)
(* The same model values name contexts, connections, operations and requests, *)
(* so that one symmetry serves all of them.                                   *)
EXTENDS Naturals, Sequences, FiniteSets, TLC

CONSTANTS None, c1, c2, k1, k2, o1, o2, o3, Parts

VARIABLES part,
    secondary, calls, primary, tracked, inbox, listens, locks, raced, \* Tiered
    op,                                                               \* Tiered, IndexedDB
    db, memo, conn,                                                   \* IndexedDB
    now,                                                              \* IndexedDB, MemoryCache
    entries, request                                                  \* MemoryCache

tiered == <<secondary, calls, primary, tracked, inbox, listens, locks, raced>>
indexed == <<db, memo, conn>>
memory == <<entries, request>>

----------------------------------------------------------------------------
Tiers(c) == INSTANCE Tiered WITH
    Context <- c.contexts, Key <- c.keys, Operation <- c.operations, Kind <- c.kinds,
    Fingerprint <- c.prints, MaxEntries <- c.entries, MaxTracked <- c.tracks, MayFail <- c.failures

\* Two contexts and one key, with calls that fail.
Failing ==
    [contexts |-> {c1, c2}, keys |-> {k1}, operations |-> {o1, o2, o3},
     kinds |-> {"get", "set", "delete", "tags", "clear"}, prints |-> [k \in {k1} |-> k],
     entries |-> 1, tracks |-> 1, failures |-> TRUE]

\* More keys than are tracked.
Untracked ==
    [contexts |-> {c1, c2}, keys |-> {k1, k2}, operations |-> {o1, o2, o3},
     kinds |-> {"get", "set", "delete"}, prints |-> [k \in {k1, k2} |-> k],
     entries |-> 2, tracks |-> 1, failures |-> FALSE]

\* Refresh leases.
Leased ==
    [contexts |-> {c1, c2}, keys |-> {k1}, operations |-> {o1, o2, o3},
     kinds |-> {"get", "set", "lease"}, prints |-> [k \in {k1} |-> k],
     entries |-> 1, tracks |-> 1, failures |-> FALSE]

\* Keys that share a fingerprint.
Colliding == [Untracked EXCEPT !.prints = [k \in {k1, k2} |-> "one"]]

----------------------------------------------------------------------------
Databases(c) == INSTANCE IndexedDB WITH
    Store <- c.stores, VersionOf <- c.versions, Key <- c.keys, Operation <- c.operations,
    Kind <- c.kinds, Connection <- c.connections, MaxEntries <- c.entries, MaxBytes <- c.bytes,
    Size <- c.sizes, MaxRemovals <- c.removals, HasPolicy <- c.policy, QuotaRecovery <- c.recovery,
    MayFail <- c.failures, MaxTime <- c.time

Memories(c) == INSTANCE MemoryCache WITH
    Request <- c.requests, Key <- c.keys, Ttl <- c.ttls, MaxEntries <- c.entries, MaxTime <- c.time

\* Stores of two schema versions.
Versions ==
    [stores |-> {"older", "newer"}, versions |-> ("older" :> 1) @@ ("newer" :> 2), keys |-> {1},
     operations |-> {k1, k2}, kinds |-> {"get", "set", "delete", "tags", "clear", "compact"},
     connections |-> {c1, c2}, entries |-> 2, bytes |-> 3, sizes |-> {1}, removals |-> 1,
     recovery |-> TRUE, policy |-> FALSE, failures |-> FALSE, time |-> 0]

\* Records that do not all fit.
Limits ==
    [stores |-> {"store"}, versions |-> ("store" :> 2), keys |-> {1, 2, 3}, operations |-> {k1, k2},
     kinds |-> {"get", "set"}, connections |-> {k1}, entries |-> 2, bytes |-> 3, sizes |-> {1, 2, 4},
     removals |-> 1, recovery |-> TRUE, policy |-> FALSE, failures |-> FALSE, time |-> 1]

\* Connections and transactions that fail, quota recovery, close().
Faults ==
    [stores |-> {"store"}, versions |-> ("store" :> 2), keys |-> {1, 2}, operations |-> {o1, o2, o3},
     kinds |-> {"get", "set", "close"}, connections |-> {c1, c2}, entries |-> 2, bytes |-> 2,
     sizes |-> {1}, removals |-> 1, recovery |-> TRUE, policy |-> FALSE, failures |-> TRUE, time |-> 0]

\* One write that waits for shouldPersist.
Policy ==
    [stores |-> {"store"}, versions |-> ("store" :> 2), keys |-> {1}, operations |-> {k1},
     kinds |-> {"set"}, connections |-> {c1, c2}, entries |-> 2, bytes |-> 2, sizes |-> {1},
     removals |-> 1, recovery |-> TRUE, policy |-> TRUE, failures |-> TRUE, time |-> 0]

\* A removal beside such a write.
Admission ==
    [stores |-> {"store"}, versions |-> ("store" :> 2), keys |-> {1}, operations |-> {k1, k2},
     kinds |-> {"set", "delete"}, connections |-> {k1}, entries |-> 2, bytes |-> 2, sizes |-> {1},
     removals |-> 1, recovery |-> TRUE, policy |-> TRUE, failures |-> FALSE, time |-> 0]

InMemory == [requests |-> {o1, o2, o3}, keys |-> {k1, k2}, ttls |-> {0, 1, 2}, entries |-> 1, time |-> 3]

ASSUME StoresAssumption ==
    /\ \A c \in {Failing, Untracked, Leased, Colliding} : Tiers(c)!TieredAssumption
    /\ \A c \in {Versions, Limits, Faults, Policy, Admission} : Databases(c)!IndexedDBAssumption
    /\ Memories(InMemory)!MemoryCacheAssumption

----------------------------------------------------------------------------
TieredPart == {"failing", "untracked", "leased", "colliding"}
IndexedPart == {"versions", "limits", "faults", "policy", "admission"}

InTiered(failing, untracked, leased, colliding) ==
    CASE part = "failing" -> failing [] part = "untracked" -> untracked
      [] part = "leased" -> leased [] part = "colliding" -> colliding

InIndexed(versions, limits, faults, policy, admission) ==
    CASE part = "versions" -> versions [] part = "limits" -> limits [] part = "faults" -> faults
      [] part = "policy" -> policy [] part = "admission" -> admission

MCInit ==
    /\ part \in Parts
    /\ \/ /\ part \in TieredPart
          /\ InTiered(Tiers(Failing)!Init, Tiers(Untracked)!Init, Tiers(Leased)!Init, Tiers(Colliding)!Init)
          /\ db = None /\ memo = None /\ conn = None /\ now = None
          /\ entries = None /\ request = None
       \/ /\ \/ /\ part \in IndexedPart
                /\ InIndexed(Databases(Versions)!Init, Databases(Limits)!Init, Databases(Faults)!Init,
                             Databases(Policy)!Init, Databases(Admission)!Init)
                /\ entries = None /\ request = None
             \/ /\ part = "memory" /\ Memories(InMemory)!Init
                /\ op = None /\ db = None /\ memo = None /\ conn = None
          /\ secondary = None /\ calls = None /\ primary = None /\ tracked = None
          /\ inbox = None /\ listens = None /\ locks = None /\ raced = None

MCNext ==
    /\ \/ /\ \/ part = "failing" /\ Tiers(Failing)!Next
             \/ part = "untracked" /\ Tiers(Untracked)!Next
             \/ part = "leased" /\ Tiers(Leased)!Next
             \/ part = "colliding" /\ Tiers(Colliding)!Next
          /\ UNCHANGED <<indexed, now, memory>>
       \/ /\ \/ part = "versions" /\ Databases(Versions)!Next
             \/ part = "limits" /\ Databases(Limits)!Next
             \/ part = "faults" /\ Databases(Faults)!Next
             \/ part = "policy" /\ Databases(Policy)!Next
             \/ part = "admission" /\ Databases(Admission)!Next
          /\ UNCHANGED <<tiered, memory>>
       \/ part = "memory" /\ Memories(InMemory)!Next /\ UNCHANGED <<tiered, op, indexed>>
    /\ UNCHANGED part

mcvars == <<part, tiered, op, indexed, now, memory>>

MCSpec == MCInit /\ [][MCNext]_mcvars

Symmetry == Permutations({c1, c2}) \cup Permutations({o1, o2, o3})

\* See Tiered: removed entries.
RemovedStaysOut ==
    part \in TieredPart =>
       InTiered(Tiers(Failing)!RemovedStaysOut, Tiers(Untracked)!RemovedStaysOut, Tiers(Leased)!RemovedStaysOut,
                Tiers(Colliding)!RemovedStaysOut)

\* See Tiered: what the bounds of the primary tier go by.
RecencyIsExact ==
    part \in TieredPart =>
       InTiered(Tiers(Failing)!RecencyIsExact, Tiers(Untracked)!RecencyIsExact, Tiers(Leased)!RecencyIsExact,
                Tiers(Colliding)!RecencyIsExact)

\* See Tiered: primary stores and the shared store, and what bounds them.
PrimaryAgrees ==
    /\ RecencyIsExact
    /\ part \in TieredPart =>
          InTiered(Tiers(Failing)!PrimaryAgrees, Tiers(Untracked)!PrimaryAgrees, Tiers(Leased)!PrimaryAgrees,
                   Tiers(Colliding)!PrimaryAgrees)

\* See IndexedDB: what a write leaves, and records of a newer schema version.
PruningExact ==
    [][(part \in IndexedPart) =>
          InIndexed(Databases(Versions)!PruningStep, Databases(Limits)!PruningStep,
                    Databases(Faults)!PruningStep, Databases(Policy)!PruningStep,
                    Databases(Admission)!PruningStep)]_mcvars

\* See IndexedDB: the order of a write and a removal.
RemovalWins ==
    part \in IndexedPart =>
       InIndexed(Databases(Versions)!RemovalWins, Databases(Limits)!RemovalWins,
                 Databases(Faults)!RemovalWins, Databases(Policy)!RemovalWins,
                 Databases(Admission)!RemovalWins)

\* See MemoryCache: how old an answer from the cache may be.
ServedWithinTtl == part = "memory" => Memories(InMemory)!ServedWithinTtl
=============================================================================
