------------------------------ MODULE Registry ------------------------------
(***************************************************************************)
(* What a client has registered: installed plugins with what they require  *)
(* and exclude, the hooks and interceptors their scopes registered, and    *)
(* the requests that walk these lists while they change.                   *)
(*                                                                         *)
(* install() runs synchronously, so use() is one step whatever install()   *)
(* registers and whether it returns or throws.  A plugin keeps its context *)
(* and may register more later, even after its removal.  The response      *)
(* hooks stand for the six hook registries and the request interceptors    *)
(* for the three managers, which share their code.                         *)
(***************************************************************************)
EXTENDS Integers, Sequences, FiniteSets

CONSTANTS
    Plugin,
    Requires,   \* [Plugin -> SUBSET Plugin]
    Conflicts,  \* [Plugin -> SUBSET Plugin]
    Request,
    Priority,   \* priorities registrations may have
    Silent,     \* bound: plugins that register nothing
    MaxIds      \* bound: registrations of one behaviour

RegistryAssumption ==
    /\ Requires \in [Plugin -> SUBSET Plugin] /\ Conflicts \in [Plugin -> SUBSET Plugin]
    /\ Priority \subseteq Int /\ 0 \in Priority /\ MaxIds \in Nat

VARIABLES
    installed,        \* names in installedPlugins
    interceptors,     \* entries of the InterceptorManager
    hooks,            \* entries of the HookRegistry
    rawResponseHooks, \* the count PluginHooks keeps of hooks that read raw
    nextId,
    contexts,         \* plugins whose install() has seen a context
    scope,            \* ids of what the last scope of a plugin will clean up
    walk              \* each request's way through the lists

vars == <<installed, interceptors, hooks, rawResponseHooks, nextId, contexts, scope, walk>>

----------------------------------------------------------------------------

Entry == [id : 0..MaxIds, plugin : Plugin, priority : Priority, raw : BOOLEAN, late : BOOLEAN]

\* refreshOrder: higher priorities first, registration order among equals.
Precedes(a, b) == a.priority > b.priority \/ (a.priority = b.priority /\ a.id < b.id)

\* The index of e in the ordered list of S.
Place(S, e) == Cardinality({x \in S : Precedes(x, e)})

Raw(S) == Cardinality({e \in S : e.raw})
Ids(S) == {e.id : e \in S}

Walk ==
    [pc : {"new", "walk", "fetch", "hooks", "done"},
     index : Nat,           \* position in the live list
     called : Seq(0..MaxIds),
     list : SUBSET Entry,   \* hooks captured when their stage began, that are still to run
     keepRaw : BOOLEAN,     \* context.preserveRaw
     since : 0..MaxIds,     \* history: the first id registered after the start
     start : SUBSET (0..MaxIds), \* history: interceptors at the start
     ejects : BOOLEAN, adds : BOOLEAN] \* history: changes during the walk

NoWalk == [pc |-> "new", index |-> 0, called |-> <<>>, list |-> {}, keepRaw |-> FALSE,
           since |-> 0, start |-> {}, ejects |-> FALSE, adds |-> FALSE]

TypeOK ==
    /\ installed \subseteq Plugin
    /\ interceptors \subseteq Entry /\ hooks \subseteq Entry
    /\ rawResponseHooks \in Nat
    /\ nextId \in 0..MaxIds
    /\ contexts \subseteq Plugin
    /\ scope \in [Plugin -> SUBSET (0..MaxIds)]
    /\ walk \in [Request -> Walk]

Init ==
    /\ installed = {} /\ interceptors = {} /\ hooks = {}
    /\ rawResponseHooks = 0 /\ nextId = 0
    /\ contexts = {} /\ scope = [p \in Plugin |-> {}]
    /\ walk = [r \in Request |-> NoWalk]

----------------------------------------------------------------------------
\* Client.use and Client.unuse

\* validatePlugin: requirements are there, and neither side excludes the other.
MayInstall(p) ==
    /\ Requires[p] \subseteq installed
    /\ Conflicts[p] \cap installed = {}
    /\ \A q \in installed : p \notin Conflicts[q]

\* findDependent
HasDependent(p) == \E q \in installed : p \in Requires[q]

\* Requests on their way through the interceptors remember that the list changed.
Noticed(ejects, adds) ==
    walk' = [r \in Request |->
                IF walk[r].pc # "walk" THEN walk[r]
                ELSE [walk[r] EXCEPT !.ejects = @ \/ ejects, !.adds = @ \/ adds]]

\* An entry p registers with the given id.
NewEntries(p, late, id, priorities, raws) ==
    {{[id |-> id, plugin |-> p, priority |-> k, raw |-> r, late |-> late]} :
        k \in priorities, r \in raws}

\* Registrations p makes in one go: at most one interceptor and one hook (of any
\* one priority: a stage runs the hooks it captured, in an order that decides
\* nothing here).
Registrations(p, late) ==
    IF p \in Silent THEN {[interceptors |-> {}, hooks |-> {}]}
    ELSE
    UNION {{[interceptors |-> i, hooks |-> h] :
               h \in {{}} \cup NewEntries(p, late, nextId + Cardinality(i), {0}, BOOLEAN)} :
           i \in {{}} \cup NewEntries(p, late, nextId, Priority, {FALSE})}

\* The mutant: an error of the plugin's cleanup ends the loop.
CleanedUpUntilError(p, throws) == IF throws THEN {} ELSE scope[p]

\* scope.cleanup: every cleanup runs, in reverse order, whichever of them throws
\* (the plugin's own is the first to run).
CleanedUp(p, throws) == scope[p]

\* The hook leaves the registry and, once, the count.
Removed(ids) ==
    /\ interceptors' = {e \in interceptors : e.id \notin ids}
    /\ hooks' = {h \in hooks : h.id \notin ids}
    /\ rawResponseHooks' = rawResponseHooks - Raw({h \in hooks : h.id \in ids})
    /\ Noticed(interceptors' # interceptors, FALSE)

\* Ids a failed installation cleans up again.
RolledBack(reg) == Ids(reg.interceptors \cup reg.hooks)

\* Both lists and the count with the new entries, without those in gone.
Registered(reg, gone) ==
    /\ nextId + Cardinality(reg.interceptors) + Cardinality(reg.hooks) <= MaxIds
    /\ nextId' = nextId + Cardinality(reg.interceptors) + Cardinality(reg.hooks)
    /\ interceptors' = {e \in interceptors \cup reg.interceptors : e.id \notin gone}
    /\ hooks' = {e \in hooks \cup reg.hooks : e.id \notin gone}
    /\ rawResponseHooks' = rawResponseHooks + Raw(reg.hooks)
                             - Raw({e \in reg.hooks : e.id \in gone})
    /\ Noticed(FALSE, interceptors' # interceptors)

\* install() may throw after it has registered: its scope is cleaned up and the
\* plugin is not installed.
Use(p) ==
    /\ p \notin installed /\ MayInstall(p)
    /\ \E reg \in Registrations(p, FALSE) :
         \/ /\ Registered(reg, {})
            /\ scope' = [scope EXCEPT ![p] = Ids(reg.interceptors \cup reg.hooks)]
            /\ installed' = installed \cup {p}
         \/ /\ Registered(reg, RolledBack(reg))
            /\ scope' = [scope EXCEPT ![p] = {}]
            /\ UNCHANGED installed
    /\ contexts' = contexts \cup {p}

Unuse(p) ==
    /\ p \in installed /\ ~HasDependent(p)
    /\ \E throws \in BOOLEAN : Removed(CleanedUp(p, throws))
    /\ scope' = [scope EXCEPT ![p] = {}]
    /\ installed' = installed \ {p}
    /\ UNCHANGED <<nextId, contexts>>

\* A handler of the plugin registers more through the context it kept.
RegisterLater(p) ==
    /\ p \in contexts
    /\ \E reg \in Registrations(p, p \notin installed) :
         /\ reg.interceptors \cup reg.hooks # {}
         /\ Registered(reg, {})
         /\ scope' = [scope EXCEPT ![p] = @ \cup Ids(reg.interceptors \cup reg.hooks)]
    /\ UNCHANGED <<installed, contexts>>

\* The plugin ejects an interceptor or calls the disposer of a hook, at any
\* time; the disposer of what is gone already does nothing.
Dispose(p) ==
    /\ \E e \in interceptors \cup hooks :
         /\ e.plugin = p /\ Removed({e.id})
         /\ scope' = [scope EXCEPT ![p] = @ \ {e.id}]
    /\ UNCHANGED <<installed, nextId, contexts>>

----------------------------------------------------------------------------
\* Requests

\* executeConfigured: nothing registered, straight to the adapter; otherwise the
\* lifecycle decides now whether the raw response will be kept.
StartRequest(r) ==
    /\ walk[r].pc = "new"
    /\ walk' = [walk EXCEPT ![r] =
         [NoWalk EXCEPT
            !.pc = IF interceptors \cup hooks = {} THEN "done" ELSE "walk",
            !.keepRaw = rawResponseHooks > 0,
            !.since = nextId, !.start = Ids(interceptors)]]
    /\ UNCHANGED <<installed, interceptors, hooks, rawResponseHooks, nextId, contexts, scope>>

\* The mutant: the continuation counts the awaited interceptor twice.
NextIndexSkips(i) == i + 2

\* runMaybeAsync goes on at the next index of the list as it is now.
NextIndex(i) == i + 1

CallInterceptor(r) ==
    /\ walk[r].pc = "walk"
    /\ \E e \in interceptors :
         /\ Place(interceptors, e) = walk[r].index
         /\ walk' = [walk EXCEPT ![r].called = Append(@, e.id), ![r].index = NextIndex(@)]
    /\ UNCHANGED <<installed, interceptors, hooks, rawResponseHooks, nextId, contexts, scope>>

InterceptorsDone(r) ==
    /\ walk[r].pc = "walk" /\ walk[r].index >= Cardinality(interceptors)
    /\ walk' = [walk EXCEPT ![r].pc = "fetch"]
    /\ UNCHANGED <<installed, interceptors, hooks, rawResponseHooks, nextId, contexts, scope>>

\* The adapter has answered: the response hooks are those registered now.
RunResponse(r) ==
    /\ walk[r].pc = "fetch"
    /\ walk' = [walk EXCEPT ![r] =
         [NoWalk EXCEPT !.pc = "hooks", !.list = hooks,
                        !.keepRaw = walk[r].keepRaw, !.since = walk[r].since]]
    /\ UNCHANGED <<installed, interceptors, hooks, rawResponseHooks, nextId, contexts, scope>>

CallHook(r) ==
    /\ walk[r].pc = "hooks"
    /\ LET rest == {h \in walk[r].list : Place(walk[r].list, h) > 0}
       IN  walk' = [walk EXCEPT ![r] = IF rest # {} THEN [@ EXCEPT !.list = rest]
                                       ELSE [NoWalk EXCEPT !.pc = "done"]]
    /\ UNCHANGED <<installed, interceptors, hooks, rawResponseHooks, nextId, contexts, scope>>

Next ==
    \/ \E p \in Plugin : Use(p) \/ Unuse(p) \/ RegisterLater(p) \/ Dispose(p)
    \/ \E r \in Request : StartRequest(r) \/ CallInterceptor(r) \/ InterceptorsDone(r)
                            \/ RunResponse(r) \/ CallHook(r)

Spec == Init /\ [][Next]_vars

----------------------------------------------------------------------------

\* After unuse() or a failed use() nothing of the plugin is left in any list,
\* whichever of its cleanups threw; only what it registers after its removal stays.
NothingLeftBehind ==
    \A e \in interceptors \cup hooks : e.plugin \in installed \/ e.late

\* Installed plugins have what they require and tolerate one another, in whatever
\* order they came and went.
PluginsCompatible ==
    \A p \in installed : Requires[p] \subseteq installed /\ Conflicts[p] \cap installed \subseteq {p}

\* The count of hooks that read the raw response is right after any mixture of
\* disposers and cleanups, so a request keeps the raw response for every such hook
\* that was there when it started.
RawKeptForHooks ==
    /\ rawResponseHooks = Raw(hooks)
    /\ \A r \in Request : \A h \in walk[r].list :
         h.raw /\ h.id < walk[r].since => walk[r].keepRaw

\* Hooks, interceptors and dependencies agree with the plugins installed.
RegistryAgrees == TypeOK /\ NothingLeftBehind /\ PluginsCompatible /\ RawKeptForHooks

\* A request that walks the live list of interceptors across awaits leaves none out
\* unless one was ejected meanwhile, and calls none twice unless one was added.
WalkIsExact ==
    \A r \in Request :
        /\ walk[r].pc = "fetch" /\ ~walk[r].ejects =>
             \A i \in walk[r].start : \E k \in DOMAIN walk[r].called : walk[r].called[k] = i
        /\ ~walk[r].adds => \A j, k \in DOMAIN walk[r].called :
                                walk[r].called[j] = walk[r].called[k] => j = k
=============================================================================
