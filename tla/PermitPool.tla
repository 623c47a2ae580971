----------------------------- MODULE PermitPool -----------------------------
(***************************************************************************)
(* What the concurrency limiter promises for one isolation key, without    *)
(* records, installations, promises or timers: a pool of Permits permits,  *)
(* a line of waiters in order of arrival, a permit that is given back goes *)
(* to the first of the line, and nobody waits while a permit is free.      *)
(***************************************************************************)
EXTENDS Integers, FiniteSets

CONSTANTS User,      \* who may ask for a permit
          Permits    \* how many permits there are

VARIABLES holders,   \* the users with a permit
          waiting,   \* the users in the line
          ahead      \* ahead[u] : who stands in the line before u

vars == <<holders, waiting, ahead>>

Init == /\ holders = {}
        /\ waiting = {}
        /\ ahead = [u \in User |-> {}]

(* u takes a free permit; that is possible only when nobody waits. *)
Take(u) == /\ u \notin holders \union waiting
           /\ Cardinality(holders) < Permits
           /\ waiting = {}
           /\ holders' = holders \union {u}
           /\ UNCHANGED <<waiting, ahead>>

(* u joins the end of the line. *)
Join(u) == /\ u \notin holders \union waiting
           /\ Cardinality(holders) >= Permits
           /\ waiting' = waiting \union {u}
           /\ ahead' = [ahead EXCEPT ![u] = waiting]
           /\ UNCHANGED holders

(* The first n of a line. *)
IsFront(P, line, before, n) ==
    /\ P \subseteq line
    /\ Cardinality(P) = IF n < Cardinality(line) THEN n ELSE Cardinality(line)
    /\ \A u \in P : before[u] \intersect line \subseteq P

(* The users in S leave, holders or waiters alike, and the permits they   *)
(* give back go to the front of what is left of the line.                 *)
Leave(S) ==
    /\ S \subseteq holders \union waiting
    /\ S # {}
    /\ \E P \in SUBSET waiting :
          /\ IsFront(P, waiting \ S, ahead, Cardinality(holders \intersect S))
          /\ holders' = (holders \ S) \union P
          /\ waiting' = waiting \ (S \union P)
          /\ ahead' = [u \in User |-> IF u \in S \union P
                                      THEN {} ELSE ahead[u] \ (S \union P)]

Next == \/ \E u \in User : Take(u) \/ Join(u)
        \/ \E S \in SUBSET User : Leave(S)

Spec == Init /\ [][Next]_vars
=============================================================================
