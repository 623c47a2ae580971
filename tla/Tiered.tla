------------------------------- MODULE Tiered -------------------------------
(***************************************************************************)
(* TieredCacheStore in several contexts (tabs, workers): each has its own  *)
(* primary store, a MemoryCacheStore, above one secondary store they       *)
(* share, a channel that tells the others what to drop, and Web Locks for  *)
(* refreshes.                                                              *)
(*                                                                         *)
(* The calls one context makes on the secondary store are applied in their *)
(* order (Apply) and answered in that order (Settle); in between, other    *)
(* contexts act, and their messages arrive.  An entry is named after the   *)
(* operation that wrote it.                                                *)
(***************************************************************************)
EXTENDS Naturals, Sequences, FiniteSets

CONSTANTS
    Context, Key, Operation,
    Kind,          \* operations that may occur
    Fingerprint,   \* of each key; keys may collide
    MaxEntries,    \* of a primary store
    MaxTracked,    \* maxTrackedKeys
    MayFail,       \* may a call of the secondary store fail, a primary write throw?
    None

TieredAssumption ==
    /\ Kind \subseteq {"get", "set", "delete", "tags", "clear", "lease"}
    /\ None \notin Key /\ DOMAIN Fingerprint = Key
    /\ MaxEntries \in Nat /\ MaxTracked \in Nat \ {0} /\ MayFail \in BOOLEAN

VARIABLES
    op,        \* the operations
    secondary, \* the entry of each key
    calls,     \* per context: operations with an unanswered call, oldest first
    primary,
    tracked,   \* per context: trackedKeys, oldest first, and trackedKeyCount
    inbox,     \* per context: messages under way to it
    listens,   \* not disposed
    locks,     \* per fingerprint: holder and waiters of the Web Lock
    raced      \* history: primary entries written while the key was changing

vars == <<op, secondary, calls, primary, tracked, inbox, listens, locks, raced>>

Memory == INSTANCE MemoryStore

Removal == {"delete", "tags", "clear"}
Fingerprints == {Fingerprint[k] : k \in Key}
Entry == [by : Operation, tagged : BOOLEAN]
NoOperation == [pc |-> "new", kind |-> None, ctx |-> None, key |-> None, entry |-> None]
PC == {"new", "called", "applied", "failed", "refused", "queued", "holds", "done"}

TypeOK ==
    /\ \A o \in Operation :
          /\ op[o].pc \in PC /\ op[o].kind \in Kind \cup {None}
          /\ op[o].ctx \in Context \cup {None} /\ op[o].key \in Key \cup {None}
          /\ op[o].entry \in Entry \cup {None}
    /\ secondary \in [Key -> Entry \cup {None}]
    /\ \A c \in Context :
          /\ Len(primary[c].entries) <= MaxEntries /\ tracked[c].count \in Nat
          /\ \A o \in Operation :
                (\E i \in DOMAIN calls[c] : calls[c][i] = o)
                  <=> op[o].ctx = c /\ op[o].pc \in {"called", "applied", "failed"}
    /\ listens \in [Context -> BOOLEAN]
    /\ raced \subseteq Context \X Key

Init ==
    /\ op = [o \in Operation |-> NoOperation]
    /\ secondary = [k \in Key |-> None]
    /\ calls = [c \in Context |-> <<>>]
    /\ primary = [c \in Context |-> Memory!Empty]
    /\ tracked = [c \in Context |-> [order |-> <<>>, count |-> 0]]
    /\ inbox = [c \in Context |-> <<>>]
    /\ listens = [c \in Context |-> TRUE]
    /\ locks = [f \in Fingerprints |-> <<>>]
    /\ raced = {}

----------------------------------------------------------------------------
\* Tracked keys: sets of keys by fingerprint, the set used last at the end.

NothingTracked == [order |-> <<>>, count |-> 0]

KeysOf(t, f) == UNION {t.order[i].keys : i \in {j \in DOMAIN t.order : t.order[j].print = f}}
IsTracked(t, f) == \E i \in DOMAIN t.order : t.order[i].print = f
Without(t, f) == Memory!Select(t.order, {i \in DOMAIN t.order : t.order[i].print # f})
Last(t, f, keys) == Append(Without(t, f), [print |-> f, keys |-> keys])

\* The shortest prefix whose removal brings the count below the limit.  A key
\* is in one set only, that of its fingerprint.
Evictions(t) ==
    LET size(n) == Cardinality(UNION {t.order[i].keys : i \in 1..n})
        enough == {n \in 0..Len(t.order) : t.count - size(n) < MaxTracked}
        n == IF enough = {} THEN Len(t.order) ELSE CHOOSE m \in enough : \A o \in enough : m <= o
    IN  [order |-> SubSeq(t.order, n + 1, Len(t.order)), count |-> t.count - size(n)]

\* trackKey.  The set of the key's own fingerprint is looked up before the
\* evictions and put back after them.
Track(t, k) ==
    LET f == Fingerprint[k]
        keys == KeysOf(t, f)
        rest == Evictions(t)
    IN  IF k \in keys THEN [t EXCEPT !.order = Last(t, f, keys)]
        ELSE [order |-> Last(rest, f, keys \cup {k}), count |-> rest.count + 1]

\* untrackKey
Untrack(t, k) ==
    LET f == Fingerprint[k]
        keys == KeysOf(t, f) \ {k}
        put(x) == IF x.print = f THEN [x EXCEPT !.keys = keys] ELSE x
    IN  IF k \notin KeysOf(t, f) THEN t
        ELSE [order |-> IF keys = {} THEN Without(t, f) ELSE [i \in DOMAIN t.order |-> put(t.order[i])],
              count |-> t.count - 1]

----------------------------------------------------------------------------
\* The channel

\* postMessage: every other context that listens will get it.
Post(c, m) ==
    inbox' = [d \in Context |-> IF d # c /\ listens[d] THEN Append(inbox[d], m) ELSE inbox[d]]

DropKey(k) == [action |-> "delete", print |-> Fingerprint[k]]
DropAll == [action |-> "clear", print |-> None]

\* What a message leaves of the primary store: clearPrimary, or the deletes.
AfterMessage(c, m) ==
    IF m.action = "clear" \/ ~IsTracked(tracked[c], m.print) THEN Memory!Empty
    ELSE Memory!Without(primary[c], KeysOf(tracked[c], m.print))

\* handleMessage
Receive(c) ==
    /\ inbox[c] # <<>>
    /\ LET m == Head(inbox[c])
           keys == KeysOf(tracked[c], m.print)
       IN  /\ primary' = [primary EXCEPT ![c] = AfterMessage(c, m)]
           /\ tracked' = [tracked EXCEPT ![c] =
                IF m.action = "clear" \/ keys = {} THEN NothingTracked
                ELSE [order |-> Without(@, m.print), count |-> @.count - Cardinality(keys)]]
    /\ inbox' = [inbox EXCEPT ![c] = Tail(@)]
    /\ UNCHANGED <<op, secondary, calls, listens, locks, raced>>

\* dispose(): the listener goes, and the leases held so far are released.
Dispose(c) ==
    /\ listens[c]
    /\ listens' = [listens EXCEPT ![c] = FALSE]
    /\ inbox' = [inbox EXCEPT ![c] = <<>>]
    /\ tracked' = [tracked EXCEPT ![c] = NothingTracked]
    /\ LET mine == {o \in Operation : op[o].ctx = c /\ op[o].pc = "holds"}
       IN  /\ locks' = [f \in Fingerprints |-> SelectSeq(locks[f], LAMBDA o : o \notin mine)]
           /\ op' = [o \in Operation |-> IF o \in mine THEN [op[o] EXCEPT !.pc = "done"] ELSE op[o]]
    /\ UNCHANGED <<secondary, calls, primary, raced>>

----------------------------------------------------------------------------
\* Calls

Fresh(o, kind, c, k, e) ==
    [pc |-> "called", kind |-> kind, ctx |-> c, key |-> k, entry |-> e]

Calls(o, kind, c, k, e) ==
    /\ op' = [op EXCEPT ![o] = Fresh(o, kind, c, k, e)]
    /\ calls' = [calls EXCEPT ![c] = Append(@, o)]

\* get(): a primary hit answers at once, a miss reads the secondary store.
Get(o, c, k) ==
    /\ IF Memory!Holds(primary[c], k)
       THEN /\ op' = [op EXCEPT ![o].pc = "done"]
            /\ primary' = [primary EXCEPT ![c] = Memory!Touched(@, k)]
            /\ tracked' = [tracked EXCEPT ![c] = Track(@, k)]
            /\ UNCHANGED calls
       ELSE /\ Calls(o, "get", c, k, None)
            /\ UNCHANGED <<primary, tracked>>
    /\ UNCHANGED <<secondary, inbox, listens, locks, raced>>

\* set(): the secondary store first.
Set(o, c, k) ==
    \E tagged \in BOOLEAN :
       /\ Calls(o, "set", c, k, [by |-> o, tagged |-> tagged])
       /\ UNCHANGED <<secondary, primary, tracked, inbox, listens, locks, raced>>

\* delete(), invalidateTags() and clear() reach the primary store at once.
Remove(o, kind, c, k) ==
    /\ Calls(o, kind, c, k, None)
    /\ primary' = [primary EXCEPT ![c] =
          CASE kind = "delete" -> Memory!Deleted(@, k)
            [] kind = "tags"   -> Memory!Without(@, Memory!Tagged(@))
            [] kind = "clear"  -> Memory!Empty]
    /\ UNCHANGED <<secondary, tracked, inbox, listens, locks, raced>>

Call(o) ==
    /\ op[o].pc = "new"
    /\ \E c \in Context, k \in Key, kind \in Kind :
          \/ kind = "get" /\ Get(o, c, k)
          \/ kind = "set" /\ Set(o, c, k)
          \/ kind \in Removal /\ Remove(o, kind, c, k)

\* The secondary store carries out the oldest call of a context, or fails.
Apply(c) ==
    \E i \in DOMAIN calls[c] :
       LET o == calls[c][i]
           answers(pc, e) == op' = [op EXCEPT ![o].pc = pc, ![o].entry = e]
       IN  /\ op[o].pc = "called"
           /\ \A j \in 1..(i - 1) : op[calls[c][j]].pc # "called"
           /\ \/ /\ MayFail
                 /\ answers("failed", op[o].entry)
                 /\ UNCHANGED secondary
              \/ /\ answers("applied", IF op[o].kind = "get" THEN secondary[op[o].key] ELSE op[o].entry)
                 /\ secondary' =
                      CASE op[o].kind = "get"    -> secondary
                        [] op[o].kind = "set"    -> [secondary EXCEPT ![op[o].key] = op[o].entry]
                        [] op[o].kind = "delete" -> [secondary EXCEPT ![op[o].key] = None]
                        [] op[o].kind = "clear"  -> [k \in Key |-> None]
                        [] op[o].kind = "tags"   ->
                             [k \in Key |-> IF secondary[k] # None /\ secondary[k].tagged
                                            THEN None ELSE secondary[k]]
           /\ UNCHANGED <<calls, primary, tracked, inbox, listens, locks, raced>>

----------------------------------------------------------------------------
\* Answers

Removing(c, k, e) ==
    \E o \in Operation :
       /\ op[o].ctx = c /\ op[o].pc \in {"called", "applied", "failed"}
       /\ \/ op[o].kind = "delete" /\ op[o].key = k
          \/ op[o].kind = "tags" /\ e.tagged
          \/ op[o].kind = "clear"

\* History: the key is being removed here, or the shared entry is another one.
Marked(c, k, e) ==
    raced' = IF secondary[k] # e \/ Removing(c, k, e) THEN raced \cup {<<c, k>>} ELSE raced \ {<<c, k>>}

WritePrimary(c, k, e) ==
    /\ primary' = [primary EXCEPT ![c] = Memory!Stored(@, k, e)]
    /\ Marked(c, k, e)

\* readSecondary's promotion; a failed one keeps the entry that was read.
Promote(o, c, k) ==
    /\ IF op[o].pc = "failed" \/ op[o].entry = None
       THEN UNCHANGED <<primary, tracked, raced>>
       ELSE /\ \/ WritePrimary(c, k, op[o].entry)
               \/ MayFail /\ UNCHANGED <<primary, raced>>
            /\ tracked' = [tracked EXCEPT ![c] = Track(@, k)]
    /\ UNCHANGED inbox

\* The mutant: other contexts are told about removals only.
SetSilently(o, c, k) ==
    /\ IF op[o].pc = "failed" THEN UNCHANGED <<primary, tracked, raced>>
       ELSE /\ WritePrimary(c, k, op[o].entry)
            /\ tracked' = [tracked EXCEPT ![c] = Track(@, k)]
    /\ UNCHANGED inbox

\* The secondary write is done: the primary one, or recoverPrimaryWrite.
FinishSet(o, c, k) ==
    \/ /\ op[o].pc = "failed" /\ UNCHANGED <<primary, tracked, inbox, raced>>
    \/ /\ op[o].pc = "applied"
       /\ WritePrimary(c, k, op[o].entry)
       /\ tracked' = [tracked EXCEPT ![c] = Track(@, k)]
       /\ Post(c, DropKey(k))
    \/ /\ op[o].pc = "applied" /\ MayFail
       /\ primary' = [primary EXCEPT ![c] = Memory!Deleted(@, k)]
       /\ tracked' = [tracked EXCEPT ![c] = Untrack(@, k)]
       /\ Post(c, DropKey(k)) /\ UNCHANGED raced

\* afterSettled of the removals: whether or not they failed.
FinishRemoval(o, c, k) ==
    /\ IF op[o].kind = "delete"
       THEN tracked' = [tracked EXCEPT ![c] = Untrack(@, k)] /\ Post(c, DropKey(k))
       ELSE tracked' = [tracked EXCEPT ![c] = NothingTracked] /\ Post(c, DropAll)
    /\ UNCHANGED <<primary, raced>>

Settle(c) ==
    /\ calls[c] # <<>>
    /\ LET o == Head(calls[c])
           k == op[o].key
       IN  /\ op[o].pc \in {"applied", "failed"}
           /\ CASE op[o].kind = "get" -> Promote(o, c, k)
                [] op[o].kind = "set" -> FinishSet(o, c, k)
                [] OTHER              -> FinishRemoval(o, c, k)
           /\ op' = [op EXCEPT ![o] = [NoOperation EXCEPT !.pc = "done"]]
    /\ calls' = [calls EXCEPT ![c] = Tail(@)]
    /\ UNCHANGED <<secondary, listens, locks>>

----------------------------------------------------------------------------
\* Refresh leases: a Web Lock per fingerprint

\* acquireCoordinatedLease: the lock at once (ifAvailable), or a refusal.
AskLease(o, c, k) ==
    LET f == Fingerprint[k]
        gets(pc) == op' = [op EXCEPT ![o] = [Fresh(o, "lease", c, k, None) EXCEPT !.pc = pc]]
    IN  /\ op[o].pc = "new" /\ "lease" \in Kind
        /\ \/ locks[f] = <<>> /\ gets("holds") /\ locks' = [locks EXCEPT ![f] = <<o>>]
           \/ locks[f] # <<>> /\ gets("refused") /\ UNCHANGED locks
        /\ UNCHANGED <<secondary, calls, primary, tracked, inbox, listens, raced>>

\* Its second request waits in the queue of the lock, which may be free by now.
QueueLease(o) ==
    /\ op[o].pc = "refused"
    /\ op' = [op EXCEPT ![o].pc = "queued"]
    /\ locks' = [locks EXCEPT ![Fingerprint[op[o].key]] = Append(@, o)]
    /\ UNCHANGED <<secondary, calls, primary, tracked, inbox, listens, raced>>

\* A waiter is granted the lock and evicts its entry before it reads again.
GrantLease(o) ==
    LET f == Fingerprint[op[o].key]
    IN  /\ op[o].pc = "queued" /\ Head(locks[f]) = o
        /\ op' = [op EXCEPT ![o].pc = "holds"]
        /\ primary' = [primary EXCEPT ![op[o].ctx] = Memory!Deleted(@, op[o].key)]
        /\ UNCHANGED <<secondary, calls, tracked, inbox, listens, locks, raced>>

\* release(), or the signal of a request that waits for the lock.
EndLease(o) ==
    /\ op[o].pc \in {"refused", "queued", "holds"}
    /\ op' = [op EXCEPT ![o] = [NoOperation EXCEPT !.pc = "done"]]
    /\ locks' = [f \in Fingerprints |-> SelectSeq(locks[f], LAMBDA x : x # o)]
    /\ UNCHANGED <<secondary, calls, primary, tracked, inbox, listens, raced>>

Finished ==
    /\ \A o \in Operation : op[o].pc = "done"
    /\ \A c \in Context : inbox[c] = <<>>
    /\ UNCHANGED vars

Next ==
    \/ \E o \in Operation : Call(o)
    \/ \E c \in Context : Apply(c) \/ Settle(c) \/ Receive(c) \/ Dispose(c)
    \/ \E o \in Operation, c \in Context, k \in Key : AskLease(o, c, k)
    \/ \E o \in Operation : QueueLease(o) \/ GrantLease(o) \/ EndLease(o)
    \/ Finished

Spec == Init /\ [][Next]_vars

----------------------------------------------------------------------------
\* Properties

Quiet(c) == calls[c] = <<>> /\ inbox[c] = <<>> /\ \A d \in Context : calls[d] = <<>>
InPrimary(c, k) == Memory!Found(primary[c], k)

(* Once every operation has been answered and every message has arrived, a  *)
(* context that listens holds the shared entry of a key or none, whichever  *)
(* contexts wrote and removed it, whichever calls failed and whatever was   *)
(* forgotten to keep trackedKeys small; except an entry that was put into   *)
(* the primary store while the key was being removed or replaced.           *)
PrimaryAgrees ==
    /\ TypeOK
    /\ \A c \in Context, k \in Key :
          Quiet(c) /\ listens[c] /\ <<c, k>> \notin raced => InPrimary(c, k) \in {None, secondary[k]}

(* The same of every entry: a read that overlaps a removal of its key must  *)
(* not leave the removed entry in the primary store.                        *)
RemovedStaysOut ==
    \A c \in Context, k \in Key :
       Quiet(c) /\ listens[c] => InPrimary(c, k) \in {None, secondary[k]}

(* The count that triggers evictions is the number of tracked keys, and the *)
(* most recently used entry of a primary store is the last to be evicted.   *)
RecencyIsExact ==
    \A c \in Context :
       /\ tracked[c].count = Cardinality(UNION {KeysOf(tracked[c], f) : f \in Fingerprints})
       /\ Memory!NewestIsLast(primary[c])
=============================================================================
