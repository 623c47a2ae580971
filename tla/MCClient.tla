------------------------------ MODULE MCClient ------------------------------
(* The two parts of a client that keep state between requests, the registry *)
(* of plugins and the layered defaults.  They share no variable, so a        *)
(* behaviour takes the steps of one of them: the product would show no more. *)
EXTENDS MCConfigMerge

CONSTANTS Plugin, Requires, Conflicts, base, user, rival, Request, Priority, Silent, MaxIds

VARIABLES part, installed, interceptors, hooks, rawResponseHooks, nextId, contexts, scope, walk

\* One plugin needs another, and a third excludes it.
MCRequires == [p \in Plugin |-> IF p = user THEN {base} ELSE {}]
MCConflicts == [p \in Plugin |-> IF p = rival THEN {base} ELSE {}]

Registry == INSTANCE Registry

ASSUME ClientAssumption == Registry!RegistryAssumption

MCInit ==
    /\ part \in {"registry", "config"}
    /\ Registry!Init
    /\ Init /\ (part = "registry" => layers = <<Empty>>)

MCNext ==
    \/ part = "registry" /\ Registry!Next /\ UNCHANGED <<part, layers, defaults, sent>>
    \/ part = "config" /\ Next
         /\ UNCHANGED <<part, installed, interceptors, hooks, rawResponseHooks, nextId, contexts, scope, walk>>

MCSpec == MCInit /\ [][MCNext]_<<part, vars, Registry!vars>>

\* See Registry: what removal and rollback leave.
RegistryAgrees == Registry!RegistryAgrees

\* See Registry: the walk over the live interceptors.
WalkIsExact == Registry!WalkIsExact
=============================================================================
