------------------------------ MODULE IndexedDB ------------------------------
(***************************************************************************)
(* IndexedDBCacheStore: stores of several schema versions over one         *)
(* database and one namespace.  A call waits for the store's connection,   *)
(* and calls that wait for the same one go on in the order they were made; *)
(* set() may then wait for the admission policy.  The transactions of the  *)
(* object store run one after the other in the order of their creation, so *)
(* each is one step.  Limits are finite: with both infinite a write prunes *)
(* nothing.                                                                *)
(***************************************************************************)
EXTENDS Naturals, Sequences, FiniteSets

CONSTANTS
    Store,          \* store objects
    VersionOf,      \* [Store -> Nat], schemaVersion
    Key,            \* naturals: their order stands for localeCompare
    Operation,
    Kind,           \* operations that may occur
    Connection,     \* bound: connections opened
    MaxEntries, MaxBytes, Size,
    MaxRemovals,    \* of compact()
    HasPolicy,      \* is there a shouldPersist?
    QuotaRecovery,
    MayFail,        \* may opening a connection and transactions fail?
    MaxTime,        \* bound of the clock
    None

VARIABLES
    db,       \* the object store, by version and key
    memo,     \* this.database
    conn,     \* connections
    op,       \* calls
    now       \* Date.now()

vars == <<db, memo, conn, op, now>>

Version == {VersionOf[s] : s \in Store}
Slot == Version \X Key
Number == 0..Cardinality(Operation)

\* version: schemaVersion, if it is one; valid: the rest of the record is, too.
Record == [by : Operation \cup {None}, size : Size \cup {1}, at : 0..MaxTime,
           sort : {"plain", "tagged", "expired"}, version : Version \cup {None}, valid : BOOLEAN]

IndexedDBAssumption ==
    /\ VersionOf \in [Store -> Nat] /\ IsFiniteSet(Store) /\ IsFiniteSet(Operation)
    /\ IsFiniteSet(Key) /\ Key \subseteq Nat /\ MaxEntries \in Nat /\ MaxBytes \in Nat /\ Size \subseteq Nat
    /\ MaxRemovals \in Nat \ {0} /\ MaxTime \in Nat
    /\ {HasPolicy, QuotaRecovery, MayFail} \subseteq BOOLEAN /\ None \notin Record /\ None \notin Nat

NoOperation == [pc |-> "new", kind |-> None, store |-> None, slot |-> None, record |-> None,
                conn |-> None, no |-> 0]
PC == {"new", "waits", "admits", "recovers", "rewrites", "done", "failed"}

TypeOK ==
    /\ \A s \in Slot : db[s] = None \/ db[s] \in Record
    /\ memo \in [Store -> Connection \cup {None}]
    /\ \A c \in Connection :
          /\ conn[c].state \in {"none", "opening", "open", "failed", "closed"}
          /\ \A i \in DOMAIN conn[c].queue : op[conn[c].queue[i]].pc = "waits"
    /\ \A o \in Operation : op[o].pc \in PC /\ op[o].no \in Number

Left(v) == [by |-> None, size |-> 1, at |-> 0, sort |-> "plain", version |-> v, valid |-> TRUE]

\* What earlier sessions left: some of it damaged, some of another version than
\* its key says, for a key of version 1 may read like one of a later version.
Leftover == {Left(v) : v \in Version \cup {None}} \cup {[Left(v) EXCEPT !.valid = FALSE] : v \in Version}

Init ==
    /\ db \in [Slot -> Leftover \cup {None}]
    /\ memo = [s \in Store |-> None]
    /\ conn = [c \in Connection |-> [state |-> "none", of |-> None, queue |-> <<>>]]
    /\ op = [o \in Operation |-> NoOperation]
    /\ now = 0

----------------------------------------------------------------------------
\* Records

\* The mutant: any other version is taken for an outdated one.
DispositionByInequality(v, d, s) ==
    IF d[s].version = None THEN "malformed"
    ELSE IF d[s].version # v THEN "schema-version"
    ELSE IF ~d[s].valid THEN "malformed" ELSE "current"

\* classifyIndexedDBRecord
Disposition(v, d, s) ==
    IF d[s].version = None THEN "malformed"
    ELSE IF d[s].version > v THEN "future"
    ELSE IF d[s].version < v THEN "schema-version"
    ELSE IF ~d[s].valid THEN "malformed" ELSE "current"

Stored(d) == {s \in Slot : d[s] # None}
Current(v, d) == {s \in Stored(d) : Disposition(v, d, s) = "current"}
Outdated(v, d) == {s \in Stored(d) : Disposition(v, d, s) \in {"malformed", "schema-version"}}
Future(v, d) == {s \in Stored(d) : Disposition(v, d, s) = "future"}
Minus(d, gone) == [s \in Slot |-> IF s \in gone THEN None ELSE d[s]]

\* The bytes of the records in S, each by the number it has in its record.
Bytes(d, S) == UNION {{s} \X (1..d[s].size) : s \in S}
Fits(d, S) == Cardinality(S) <= MaxEntries /\ Cardinality(Bytes(d, S)) <= MaxBytes

\* Least recently used first; ties go by the storage keys, in an order of them.
Older(d, s, t) ==
    \/ d[s].at < d[t].at
    \/ d[s].at = d[t].at /\ (s[2] < t[2] \/ (s[2] = t[2] /\ s[1] < t[1]))

\* Oldest first, until the rest fits; the written record would go last.
Evicted(d, S, kept) ==
    {s \in S \ {kept} : ~Fits(d, {s, kept} \cup {t \in S : Older(d, s, t)})}

\* writeRecord: the record, the clean-up, the evictions; nothing if the key is
\* taken by a record of a later version.
Written(v, d, s, r) ==
    LET put == [d EXCEPT ![s] = r]
        kept == Minus(put, Outdated(v, put))
    IN  IF s \in Future(v, d) THEN d ELSE Minus(kept, Evicted(kept, Current(v, kept), s))

\* recoverQuota: the older half, and what is outdated.
OldHalf(d, S) == {s \in S : 2 * Cardinality({t \in S : Older(d, t, s)}) < Cardinality(S)}
Recovered(v, d) == Minus(d, Outdated(v, d) \cup OldHalf(d, Current(v, d)))

----------------------------------------------------------------------------
\* Connections

\* getDatabase(): the memoized connection, whatever became of it, or a new one;
\* q holds the connections, r what operation o keeps while it waits.
Await(o, r, q) ==
    LET waits(c) == op' = [op EXCEPT ![o] = [r EXCEPT !.pc = "waits", !.conn = c]]
    IN  IF memo[r.store] # None
        THEN /\ waits(memo[r.store])
             /\ conn' = [q EXCEPT ![memo[r.store]].queue = Append(@, o)]
             /\ UNCHANGED memo
        ELSE \E c \in Connection :
                /\ q[c].state = "none" /\ waits(c)
                /\ conn' = [q EXCEPT ![c] = [state |-> "opening", of |-> r.store, queue |-> <<o>>]]
                /\ memo' = [memo EXCEPT ![r.store] = c]

\* The database opens, and pruneOlderSchemaRecords runs before a call goes on.
Open(c) ==
    /\ conn[c].state = "opening"
    /\ \/ /\ conn' = [conn EXCEPT ![c].state = "open"]
          /\ db' = Minus(db, Outdated(VersionOf[conn[c].of], db))
       \/ /\ MayFail /\ UNCHANGED db
          /\ conn' = [conn EXCEPT ![c].state = "failed"]
    /\ UNCHANGED <<memo, op, now>>

\* onversionchange: the connection is closed behind the store's back.
VersionChange(c) ==
    /\ MayFail /\ conn[c].state = "open"
    /\ conn' = [conn EXCEPT ![c].state = "closed"]
    /\ UNCHANGED <<db, memo, op, now>>

----------------------------------------------------------------------------
\* Calls

Asked == {o \in Operation : op[o].pc # "new"}
Asks(kind, s, k) ==
    [NoOperation EXCEPT !.store = s, !.slot = <<VersionOf[s], k>>, !.no = Cardinality(Asked) + 1,
        !.kind = IF kind \in {"get", "set"} /\ 0 \in {MaxEntries, MaxBytes} THEN "delete" ELSE kind]

Call(o, kind, s, k) ==
    /\ op[o].pc = "new" /\ kind \notin {"set", "close"}
    /\ Await(o, Asks(kind, s, k), conn)
    /\ UNCHANGED <<db, now>>

Set(o, s, k) ==
    /\ op[o].pc = "new" /\ "set" \in Kind
    /\ \E size \in Size, sort \in {"plain", "tagged", "expired"} :
          Await(o, [Asks("set", s, k) EXCEPT !.record =
                       [Left(VersionOf[s]) EXCEPT !.by = o, !.size = size, !.sort = sort]], conn)
    /\ UNCHANGED <<db, now>>

\* close(): the connection is forgotten at once, and closed after the calls that
\* waited for it before.
Close(o, s) ==
    /\ op[o].pc = "new" /\ "close" \in Kind /\ memo[s] # None
    /\ op' = [op EXCEPT ![o] = [NoOperation EXCEPT !.pc = "waits", !.kind = "close", !.conn = memo[s]]]
    /\ conn' = [conn EXCEPT ![memo[s]].queue = Append(@, o)]
    /\ memo' = [memo EXCEPT ![s] = None]
    /\ UNCHANGED <<db, now>>

Ends(o, pc) == op' = [op EXCEPT ![o] = [@ EXCEPT !.pc = pc, !.record = None]]
Fails(o) == Ends(o, "failed") /\ UNCHANGED db
Usable(o) == conn[op[o].conn].state = "open"

\* A transaction of o leaves d, or fails and leaves nothing.
Transaction(o, d) ==
    \/ Usable(o) /\ db' = d /\ Ends(o, "done")
    \/ (~Usable(o) \/ MayFail) /\ Fails(o)

----------------------------------------------------------------------------
\* Once the connection is there

V(o) == VersionOf[op[o].store]

\* get(): a valid record is marked as used now, an outdated one dropped.
Touched(o) ==
    LET s == op[o].slot
    IN  IF s \in Current(V(o), db) THEN [db EXCEPT ![s].at = now]
        ELSE Minus(db, {s} \cap Outdated(V(o), db))

\* delete()
Deleted(o) == Minus(db, {op[o].slot} \ Future(V(o), db))

\* visitNamespace of invalidateTags() and clear().
Visited(o) ==
    Minus(db, Outdated(V(o), db) \cup
              {s \in Current(V(o), db) : op[o].kind = "clear" \/ db[s].sort = "tagged"})

\* compact(): up to MaxRemovals outdated and expired records.
Compact(o) ==
    LET due == Outdated(V(o), db) \cup {s \in Current(V(o), db) : db[s].sort = "expired"}
        removed == IF Cardinality(due) < MaxRemovals THEN Cardinality(due) ELSE MaxRemovals
    IN  \E gone \in SUBSET due : Cardinality(gone) = removed /\ Transaction(o, Minus(db, gone))

\* The mutant: the write waits for a microtask more.
AdmitsAlways(o, r) == op' = [op EXCEPT ![o] = [r EXCEPT !.pc = "admits"]] /\ UNCHANGED db

\* writeRecord, and what a quota error leads to.
Write(o, r) ==
    \/ Usable(o) /\ db' = Written(V(o), db, r.slot, r.record) /\ Ends(o, "done")
    \/ /\ Usable(o) /\ MayFail /\ QuotaRecovery /\ op[o].pc # "rewrites"
       /\ op' = [op EXCEPT ![o] = [r EXCEPT !.pc = "recovers"]] /\ UNCHANGED db
    \/ (~Usable(o) \/ MayFail) /\ Fails(o)

\* shouldPersist, if there is one, is awaited.
Admission(o, r) ==
    IF HasPolicy THEN op' = [op EXCEPT ![o] = [r EXCEPT !.pc = "admits"]] /\ UNCHANGED db
    ELSE Write(o, r)

Rejected(r) == [r EXCEPT !.kind = "delete", !.record = None]

Proceed(c) ==
    /\ conn[c].queue # <<>> /\ conn[c].state \in {"open", "failed", "closed"}
    /\ LET o == Head(conn[c].queue)
           q == [conn EXCEPT ![c].queue = Tail(@)]
           r == [op[o] EXCEPT !.record = IF @ = None THEN None ELSE [@ EXCEPT !.at = now]]
       IN  CASE op[o].kind = "close" ->
                  /\ conn' = [q EXCEPT ![c].state = IF @ = "failed" THEN @ ELSE "closed"]
                  /\ Ends(o, "done") /\ UNCHANGED <<db, memo>>
             [] op[o].kind # "close" /\ conn[c].state = "failed" ->
                  Fails(o) /\ conn' = q /\ UNCHANGED memo
             [] op[o].kind = "set" /\ conn[c].state # "failed" ->
                  IF r.record.size > MaxBytes THEN Await(o, Rejected(r), q) /\ UNCHANGED db
                  ELSE Admission(o, r) /\ conn' = q /\ UNCHANGED memo
             [] OTHER ->
                  /\ conn' = q /\ UNCHANGED memo
                  /\ \/ op[o].kind = "get" /\ Transaction(o, Touched(o))
                     \/ op[o].kind = "delete" /\ Transaction(o, Deleted(o))
                     \/ op[o].kind \in {"tags", "clear"} /\ Transaction(o, Visited(o))
                     \/ op[o].kind = "compact" /\ Compact(o)
    /\ UNCHANGED now

\* shouldPersist answers, or throws.
Admit(o) ==
    /\ op[o].pc = "admits"
    /\ \/ Write(o, op[o]) /\ UNCHANGED <<conn, memo>>
       \/ Await(o, Rejected(op[o]), conn) /\ UNCHANGED db
       \/ Fails(o) /\ UNCHANGED <<conn, memo>>
    /\ UNCHANGED now

\* recoverQuota(), and the one retry if it removed something.
Recover(o) ==
    /\ op[o].pc = "recovers"
    /\ LET d == Recovered(V(o), db)
       IN  \/ /\ Usable(o) /\ db' = d
              /\ IF d = db THEN Ends(o, "failed") ELSE op' = [op EXCEPT ![o].pc = "rewrites"]
           \/ Fails(o)
    /\ UNCHANGED <<conn, memo, now>>

Rewrite(o) ==
    /\ op[o].pc = "rewrites"
    /\ Write(o, op[o])
    /\ UNCHANGED <<conn, memo, now>>

Tick == now < MaxTime /\ now' = now + 1 /\ UNCHANGED <<db, memo, conn, op>>

Finished ==
    /\ \A o \in Operation : op[o].pc \in {"new", "done", "failed"}
    /\ UNCHANGED vars

Next ==
    \/ \E o \in Operation, s \in Store, k \in Key :
          \/ \E kind \in Kind : Call(o, kind, s, k)
          \/ Set(o, s, k)
    \/ \E o \in Operation, s \in Store : Close(o, s)
    \/ \E c \in Connection : Open(c) \/ VersionChange(c) \/ Proceed(c)
    \/ \E o \in Operation : Admit(o) \/ Recover(o) \/ Rewrite(o)
    \/ Tick
    \/ Finished

Spec == Init /\ [][Next]_vars

----------------------------------------------------------------------------
\* Properties

Wrote(o) == op[o].kind = "set" /\ op[o].pc # "done" /\ op'[o].pc = "done" /\ op'[o].kind = "set"

(* A write that succeeds leaves its own record in place and the records of  *)
(* its version inside both limits, and evicts none that was used later than *)
(* one it keeps, whatever was left by other stores and earlier sessions; it *)
(* changes nothing if a record of a later version is in its place.          *)
FittingWrites ==
    \A o \in Operation : Wrote(o) =>
       LET kept == Current(V(o), db')
           others == kept \ {op[o].slot}
       IN  \/ op[o].slot \in Future(V(o), db) /\ db' = db
           \/ /\ db'[op[o].slot] # None /\ db'[op[o].slot].by = o
              /\ Fits(db', kept)
              /\ \A s \in Current(V(o), db) \ (kept \cup {op[o].slot}), t \in others : Older(db, s, t)

Acts(s) ==
    \/ \E o \in Operation : op'[o] # op[o] /\ op[o].store = s
    \/ \E c \in Connection : conn'[c] # conn[c] /\ conn[c].of = s

(* Nothing a store of an older version does (pruning, reading, writing,      *)
(* clearing, compacting, recovering quota) touches a record of a newer one. *)
KeepsNewer ==
    \A s \in Slot : db[s] # None /\ db[s].version # None /\ db'[s] # db[s] =>
       \E x \in Store : VersionOf[x] >= db[s].version /\ Acts(x)

(* What is dropped to make room is enough, the oldest and of no newer store.*)
PruningStep == FittingWrites /\ KeepsNewer

PruningExact == [][PruningStep]_vars

Removes(o, s) ==
    /\ op[o].pc = "done"
    /\ \/ op[o].kind = "delete" /\ op[o].slot = s
       \/ op[o].kind = "clear" /\ VersionOf[op[o].store] = s[1]
       \/ op[o].kind = "tags" /\ VersionOf[op[o].store] = s[1] /\ db[s].sort = "tagged"

(* A record does not survive a removal that the same connection carried out *)
(* for a call made after the one that wrote it.                             *)
RemovalWins ==
    /\ TypeOK
    /\ \A s \in Slot, o \in Operation :
          db[s] # None /\ db[s].by # None /\ Removes(o, s) /\ op[o].conn = op[db[s].by].conn
             => op[o].no < op[db[s].by].no
=============================================================================
