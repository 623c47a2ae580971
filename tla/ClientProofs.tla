---------------------------- MODULE ClientProofs ----------------------------
(***************************************************************************)
(* What MCClient checks of the registry of plugins, proved for any set of  *)
(* plugins with any requirements and conflicts, any requests, priorities   *)
(* and number of registrations; and of the layered configs, for any menu   *)
(* of configs and any number of layers.                                    *)
(***************************************************************************)
EXTENDS MCClient, TLAPS, FiniteSetTheorems, WellFoundedInduction

-----------------------------------------------------------------------------
(* The lists: their entries have ids that were given out, and those of an   *)
(* installed plugin's own are in its scope, so that its removal finds them. *)
ListsInv ==
    /\ IsFiniteSet(interceptors) /\ IsFiniteSet(hooks)
    /\ \A e \in interceptors \cup hooks : e.id < nextId
    /\ \A d, e \in interceptors : d.id = e.id => d = e
    /\ \A e \in interceptors \cup hooks : ~e.late => e.plugin \in installed /\ e.id \in scope[e.plugin]
    /\ Registry!PluginsCompatible
    /\ rawResponseHooks = Registry!Raw(hooks)

Called(w, i) == \E k \in DOMAIN w.called : w.called[k] = i
Before(e) == Registry!Place(interceptors, e)

(* Unless one was ejected, the entries of the start that stand before the   *)
(* index have been called; unless one was added, no other has.              *)
WalkInv(w) ==
    /\ w.since <= nextId /\ \A i \in w.start : i < w.since
    /\ w.pc \in {"walk", "fetch"} => \A h \in hooks : h.raw /\ h.id < w.since => w.keepRaw
    /\ \A h \in w.list : h.raw /\ h.id < w.since => w.keepRaw
    /\ w.pc = "walk" /\ ~w.ejects =>
          /\ \A i \in w.start : \E e \in interceptors : e.id = i
          /\ \A e \in interceptors : e.id \in w.start /\ Before(e) < w.index => Called(w, e.id)
    /\ w.pc = "walk" /\ ~w.adds => \A e \in interceptors : Called(w, e.id) => Before(e) < w.index
    /\ w.pc = "fetch" /\ ~w.ejects => \A i \in w.start : Called(w, i)
    /\ ~w.adds => \A j, k \in DOMAIN w.called : w.called[j] = w.called[k] => j = k

RegistryInv == Registry!TypeOK /\ ListsInv /\ \A r \in Request : WalkInv(walk[r])

-----------------------------------------------------------------------------
(* The component counts as this module does. *)
LEMMA RegistryCounts ==
  ASSUME NEW S
  PROVE  Registry!Cardinality(S) = Cardinality(S)
BY DEF Registry!Cardinality, Cardinality

(* An entry has a number for its id and one for its priority. *)
LEMMA EntriesAreTyped ==
  ASSUME NEW e \in Registry!Entry
  PROVE  e.id \in Nat /\ e.id <= MaxIds /\ e.priority \in Int /\ e.plugin \in Plugin
         /\ e.raw \in BOOLEAN /\ e.late \in BOOLEAN
<1>1. Priority \subseteq Int /\ MaxIds \in Nat
  BY ClientAssumption DEF ClientAssumption, Registry!RegistryAssumption
<1>2. /\ e.id \in 0..MaxIds /\ e.priority \in Priority
      /\ e.plugin \in Plugin /\ e.raw \in BOOLEAN /\ e.late \in BOOLEAN
  BY DEF Registry!Entry
<1>3. e.id \in Nat /\ e.id <= MaxIds
  BY <1>1, <1>2
<1> QED
  BY <1>1, <1>2, <1>3

(* The place of an entry is below the length of the list, no two share one, *)
(* and it does not move down when entries are added.                        *)
LEMMA Places ==
  ASSUME NEW S \in SUBSET Registry!Entry, IsFiniteSet(S), \A d, e \in S : d.id = e.id => d = e
  PROVE  /\ Cardinality(S) \in Nat
         /\ \A e \in S : Registry!Place(S, e) \in Nat /\ Registry!Place(S, e) < Cardinality(S)
         /\ \A d, e \in S : Registry!Place(S, d) = Registry!Place(S, e) => d = e
         /\ \A T \in SUBSET S : \A e \in S : Registry!Place(T, e) <= Registry!Place(S, e)
<1> DEFINE P(T, e) == {x \in T : Registry!Precedes(x, e)}
<1>0. \A T, e : Registry!Place(T, e) = Cardinality(P(T, e))
  BY RegistryCounts DEF Registry!Place
<1>1. Cardinality(S) \in Nat
  BY FS_CardinalityType
<1>2. ASSUME NEW T \in SUBSET S, NEW e \in S
      PROVE  IsFiniteSet(P(T, e)) /\ Cardinality(P(T, e)) \in Nat
  <2>1. P(T, e) \subseteq S
    OBVIOUS
  <2> QED
    BY <2>1, FS_Subset, FS_CardinalityType
<1>3. ASSUME NEW e \in S
      PROVE  Cardinality(P(S, e)) < Cardinality(S)
  <2>1. e \notin P(S, e)
    BY EntriesAreTyped DEF Registry!Precedes
  <2>2. P(S, e) \subseteq S /\ P(S, e) # S
    BY <2>1
  <2>3. Cardinality(P(S, e)) \in Nat
    BY <1>2
  <2> HIDE DEF P
  <2>4. Cardinality(P(S, e)) <= Cardinality(S) /\ (Cardinality(P(S, e)) = Cardinality(S) => P(S, e) = S)
    BY <2>2, FS_Subset
  <2> QED
    BY <1>1, <2>2, <2>3, <2>4
<1>4. ASSUME NEW d \in S, NEW e \in S, Registry!Precedes(d, e)
      PROVE  Cardinality(P(S, d)) < Cardinality(P(S, e))
  <2>1. ASSUME NEW x \in S, Registry!Precedes(x, d)
        PROVE  Registry!Precedes(x, e)
    BY <1>4, <2>1, EntriesAreTyped DEF Registry!Precedes
  <2>2. d \notin P(S, d) /\ d \in P(S, e)
    BY <1>4, EntriesAreTyped DEF Registry!Precedes
  <2>3. P(S, d) \subseteq P(S, e) /\ P(S, d) # P(S, e)
    BY <2>1, <2>2
  <2>5. IsFiniteSet(P(S, e)) /\ Cardinality(P(S, d)) \in Nat /\ Cardinality(P(S, e)) \in Nat
    BY <1>2
  <2> HIDE DEF P
  <2>4. Cardinality(P(S, d)) <= Cardinality(P(S, e))
        /\ (Cardinality(P(S, d)) = Cardinality(P(S, e)) => P(S, d) = P(S, e))
    BY <2>5, <2>3, FS_Subset
  <2> QED
    BY <2>5, <2>3, <2>4
<1>5. ASSUME NEW d \in S, NEW e \in S, Cardinality(P(S, d)) = Cardinality(P(S, e))
      PROVE  d = e
  <2>0. Cardinality(P(S, d)) \in Nat /\ Cardinality(P(S, e)) \in Nat
    BY <1>2
  <2>3. ASSUME Registry!Precedes(d, e) PROVE FALSE
    <3>1. Cardinality(P(S, d)) < Cardinality(P(S, e))
      BY <1>4, <2>3
    <3> QED
      BY <1>5, <2>0, <3>1
  <2>4. ASSUME Registry!Precedes(e, d) PROVE FALSE
    <3>1. Cardinality(P(S, e)) < Cardinality(P(S, d))
      BY <1>4, <2>4
    <3> QED
      BY <1>5, <2>0, <3>1
  <2>1. ~Registry!Precedes(d, e) /\ ~Registry!Precedes(e, d)
    BY <2>3, <2>4
  <2>2. d.id = e.id
    BY <2>1, EntriesAreTyped DEF Registry!Precedes
  <2> QED
    BY <2>2
<1>6. ASSUME NEW T \in SUBSET S, NEW e \in S
      PROVE  Cardinality(P(T, e)) <= Cardinality(P(S, e))
  <2>1. P(T, e) \subseteq P(S, e)
    OBVIOUS
  <2> QED
    BY <1>2, <2>1, FS_Subset
<1> HIDE DEF P
<1> QED
  BY <1>0, <1>1, <1>2, <1>3, <1>5, <1>6

(* The count of raw readers adds up over disjoint sets of hooks, and is      *)
(* positive when there is one.                                              *)
LEMMA RawAdds ==
  ASSUME NEW S, NEW T, IsFiniteSet(S), IsFiniteSet(T), S \cap T = {}
  PROVE  /\ Registry!Raw(S) \in Nat /\ Registry!Raw(T) \in Nat
         /\ Registry!Raw(S \cup T) = Registry!Raw(S) + Registry!Raw(T)
<1> DEFINE R(D) == {e \in D : e.raw}
<1>1. \A D : Registry!Raw(D) = Cardinality(R(D))
  BY RegistryCounts DEF Registry!Raw
<1>2. R(S) \subseteq S /\ R(T) \subseteq T /\ R(S \cup T) = R(S) \cup R(T) /\ R(S) \cap R(T) = {}
  OBVIOUS
<1>3. IsFiniteSet(R(S)) /\ IsFiniteSet(R(T))
  BY <1>2, FS_Subset
<1> HIDE DEF R
<1>4. Cardinality(R(S)) \in Nat /\ Cardinality(R(T)) \in Nat
  BY <1>3, FS_CardinalityType
<1>5. Cardinality(R(S) \cup R(T)) = Cardinality(R(S)) + Cardinality(R(T)) - Cardinality(R(S) \cap R(T))
  BY <1>3, FS_Union
<1>6. Cardinality(R(S) \cap R(T)) = 0
  BY <1>2, FS_EmptySet
<1>7. Registry!Raw(S) = Cardinality(R(S)) /\ Registry!Raw(T) = Cardinality(R(T))
      /\ Registry!Raw(S \cup T) = Cardinality(R(S) \cup R(T))
  BY <1>1, <1>2
<1> QED
  BY <1>4, <1>5, <1>6, <1>7

(* A hook that reads raw is counted. *)
LEMMA RawCounted ==
  ASSUME NEW S, IsFiniteSet(S), NEW h \in S, h.raw
  PROVE  Registry!Raw(S) \in Nat /\ Registry!Raw(S) > 0
<1> DEFINE R == {e \in S : e.raw}
<1>1. Registry!Raw(S) = Cardinality(R)
  BY RegistryCounts DEF Registry!Raw
<1>2. R \subseteq S /\ R # {}
  OBVIOUS
<1>3. IsFiniteSet(R)
  BY <1>2, FS_Subset
<1> HIDE DEF R
<1> QED
  BY <1>1, <1>2, <1>3, FS_CardinalityType, FS_EmptySet

(* What a plugin registers in one go: entries of its own, whose ids are the  *)
(* next ones and differ.                                                    *)
LEMMA NewFacts ==
  ASSUME nextId \in 0..MaxIds, NEW p \in Plugin, NEW late \in BOOLEAN,
         NEW reg \in Registry!Registrations(p, late),
         nextId + Cardinality(reg.interceptors) + Cardinality(reg.hooks) <= MaxIds
  PROVE  /\ reg.interceptors \subseteq Registry!Entry /\ reg.hooks \subseteq Registry!Entry
         /\ IsFiniteSet(reg.interceptors) /\ IsFiniteSet(reg.hooks)
         /\ Cardinality(reg.interceptors) \in Nat /\ Cardinality(reg.hooks) \in Nat
         /\ \A e \in reg.interceptors \cup reg.hooks :
               /\ e.plugin = p /\ e.late = late
               /\ nextId <= e.id /\ e.id < nextId + Cardinality(reg.interceptors) + Cardinality(reg.hooks)
         /\ \A d, e \in reg.interceptors : d = e
<1>1. Priority \subseteq Int /\ 0 \in Priority /\ MaxIds \in Nat
  BY ClientAssumption DEF ClientAssumption, Registry!RegistryAssumption
<1>2. Cardinality({}) = 0 /\ IsFiniteSet({}) /\ \A x : IsFiniteSet({x}) /\ Cardinality({x}) = 1
  BY FS_EmptySet, FS_Singleton
<1>7. \/ reg = [interceptors |-> {}, hooks |-> {}]
      \/ \E i \in {{}} \cup Registry!NewEntries(p, late, nextId, Priority, {FALSE}) :
            \E h \in {{}} \cup Registry!NewEntries(p, late, nextId + Cardinality(i), {0}, BOOLEAN) :
               reg = [interceptors |-> i, hooks |-> h]
  <2>1. CASE p \in Silent
    BY <2>1 DEF Registry!Registrations
  <2>2. CASE p \notin Silent
    <3>1. PICK i \in {{}} \cup Registry!NewEntries(p, late, nextId, Priority, {FALSE}) :
            \E h \in {{}} \cup Registry!NewEntries(p, late, nextId + Registry!Cardinality(i), {0}, BOOLEAN) :
               reg = [interceptors |-> i, hooks |-> h]
      BY <2>2 DEF Registry!Registrations
    <3> QED
      BY <3>1, RegistryCounts
  <2> QED
    BY <2>1, <2>2
<1>3. /\ \/ reg.interceptors = {}
         \/ \E k \in Priority : reg.interceptors =
              {[id |-> nextId, plugin |-> p, priority |-> k, raw |-> FALSE, late |-> late]}
      /\ \/ reg.hooks = {}
         \/ \E b \in BOOLEAN : reg.hooks =
              {[id |-> nextId + Cardinality(reg.interceptors), plugin |-> p, priority |-> 0,
                raw |-> b, late |-> late]}
  BY <1>7 DEF Registry!NewEntries
<1>4. Cardinality(reg.interceptors) \in {0, 1} /\ Cardinality(reg.hooks) \in {0, 1}
      /\ IsFiniteSet(reg.interceptors) /\ IsFiniteSet(reg.hooks)
  BY <1>2, <1>3
<1>5. \A d, e \in reg.interceptors : d = e
  BY <1>3
<1>6. ASSUME NEW e \in reg.interceptors
      PROVE  e \in Registry!Entry /\ e.plugin = p /\ e.late = late /\ nextId <= e.id
             /\ e.id < nextId + Cardinality(reg.interceptors) + Cardinality(reg.hooks)
  <2>1. PICK k \in Priority : reg.interceptors =
              {[id |-> nextId, plugin |-> p, priority |-> k, raw |-> FALSE, late |-> late]}
    BY <1>3
  <2>2. e = [id |-> nextId, plugin |-> p, priority |-> k, raw |-> FALSE, late |-> late]
    BY <2>1
  <2>3. e \in Registry!Entry
    BY <2>2, <2>1 DEF Registry!Entry
  <2>4. Cardinality(reg.interceptors) = 1
    BY <1>2, <2>1
  <2>5. e.id = nextId /\ e.plugin = p /\ e.late = late
    BY <2>2
  <2> QED
    BY <1>4, <2>3, <2>4, <2>5
<1>8. ASSUME NEW e \in reg.hooks
      PROVE  e \in Registry!Entry /\ e.plugin = p /\ e.late = late /\ nextId <= e.id
             /\ e.id < nextId + Cardinality(reg.interceptors) + Cardinality(reg.hooks)
  <2>1. PICK b \in BOOLEAN : reg.hooks =
              {[id |-> nextId + Cardinality(reg.interceptors), plugin |-> p, priority |-> 0,
                raw |-> b, late |-> late]}
    BY <1>3
  <2>2. e = [id |-> nextId + Cardinality(reg.interceptors), plugin |-> p, priority |-> 0,
             raw |-> b, late |-> late]
    BY <2>1
  <2>4. Cardinality(reg.hooks) = 1
    BY <1>2, <2>1
  <2>5. e.id = nextId + Cardinality(reg.interceptors) /\ e.plugin = p /\ e.late = late
    BY <2>2
  <2>6. nextId + Cardinality(reg.interceptors) \in 0..MaxIds
    BY <1>1, <1>4, <2>4
  <2>3. e \in Registry!Entry
    BY <1>1, <2>1, <2>2, <2>6 DEF Registry!Entry
  <2> QED
    BY <1>4, <2>3, <2>4, <2>5
<1> QED
  BY <1>4, <1>5, <1>6, <1>8

-----------------------------------------------------------------------------
(* The lists change *)

(* What the steps of plugins have in common for the requests on their way:   *)
(* new entries have new ids, an entry leaves only where the walks notice it  *)
(* and one comes only where they do.                                        *)
LEMMA WalksKept ==
  ASSUME RegistryInv, NEW ejects \in BOOLEAN, NEW adds \in BOOLEAN,
         Registry!Noticed(ejects, adds),
         interceptors' \subseteq Registry!Entry, IsFiniteSet(interceptors'),
         \A d, e \in interceptors' : d.id = e.id => d = e,
         nextId' \in Nat, nextId <= nextId',
         \A e \in interceptors' : e \in interceptors \/ nextId <= e.id,
         \A h \in hooks' : h \in Registry!Entry /\ (h \in hooks \/ nextId <= h.id),
         ejects \/ interceptors \subseteq interceptors',
         adds \/ interceptors' \subseteq interceptors
  PROVE  /\ walk' \in [Request -> Registry!Walk]
         /\ \A r \in Request : WalkInv(walk[r])'
<1>1. walk \in [Request -> Registry!Walk] /\ nextId \in Nat
      /\ interceptors \subseteq Registry!Entry /\ hooks \subseteq Registry!Entry
      /\ IsFiniteSet(interceptors) /\ \A d, e \in interceptors : d.id = e.id => d = e
  BY ClientAssumption
     DEF RegistryInv, ListsInv, Registry!TypeOK, ClientAssumption, Registry!RegistryAssumption
<1>2. \A e \in interceptors' : e.id \in Nat
  BY EntriesAreTyped
<1>3. \A h \in hooks' : h.id \in Nat
  BY EntriesAreTyped
<1>4. ASSUME ~ejects, NEW e \in interceptors
      PROVE  e \in interceptors' /\ Before(e) \in Nat /\ Before(e)' \in Nat /\ Before(e) <= Before(e)'
  <2>1. interceptors \subseteq interceptors'
    BY <1>4
  <2> QED
    BY <1>1, <1>4, <2>1, Places DEF Before
<1>5. ASSUME ~adds, NEW e \in interceptors'
      PROVE  e \in interceptors /\ Before(e) \in Nat /\ Before(e)' \in Nat /\ Before(e)' <= Before(e)
  <2>1. interceptors' \subseteq interceptors
    BY <1>5
  <2> QED
    BY <1>1, <1>5, <2>1, Places DEF Before
<1>6. ASSUME NEW r \in Request
      PROVE  walk'[r] \in Registry!Walk /\ WalkInv(walk[r])'
  <2> DEFINE w == walk[r]
             v == walk'[r]
  <2>1. v = IF w.pc # "walk" THEN w
            ELSE [w EXCEPT !.ejects = @ \/ ejects, !.adds = @ \/ adds]
    BY DEF Registry!Noticed
  <2>2. w \in Registry!Walk /\ WalkInv(w)
    BY <1>1 DEF RegistryInv
  <2>3. v \in Registry!Walk
    BY <2>1, <2>2 DEF Registry!Walk
  <2>4. /\ v.pc = w.pc /\ v.index = w.index /\ v.called = w.called /\ v.list = w.list
        /\ v.keepRaw = w.keepRaw /\ v.since = w.since /\ v.start = w.start
    BY <2>1, <2>2 DEF Registry!Walk
  <2>5. /\ w.index \in Nat /\ w.since \in Nat /\ w.start \subseteq Nat
        /\ w.ejects \in BOOLEAN /\ w.adds \in BOOLEAN
    BY <2>2, ClientAssumption DEF Registry!Walk, ClientAssumption, Registry!RegistryAssumption
  <2>6. w.pc = "walk" => (v.ejects <=> w.ejects \/ ejects) /\ (v.adds <=> w.adds \/ adds)
    BY <2>1, <2>2 DEF Registry!Walk
  <2>7. w.pc # "walk" => v = w
    BY <2>1
  <2> HIDE DEF w, v
  <2>8. v.since <= nextId' /\ \A i \in v.start : i < v.since
    BY <1>1, <2>2, <2>4, <2>5 DEF WalkInv
  <2>9. ASSUME v.pc \in {"walk", "fetch"}, NEW h \in hooks', h.raw, h.id < v.since
        PROVE  v.keepRaw
    BY <1>1, <1>3, <2>2, <2>4, <2>5, <2>9 DEF WalkInv
  <2>10. \A h \in v.list : h.raw /\ h.id < v.since => v.keepRaw
    BY <2>2, <2>4 DEF WalkInv
  <2>11. ASSUME v.pc = "walk", ~v.ejects
         PROVE  /\ \A i \in v.start : \E e \in interceptors' : e.id = i
                /\ \A e \in interceptors' : e.id \in v.start /\ Before(e)' < v.index => Called(v, e.id)
    <3>1. ~w.ejects /\ ~ejects /\ w.pc = "walk"
      BY <2>4, <2>6, <2>11
    <3>2. \A i \in v.start : \E e \in interceptors' : e.id = i
      BY <1>4, <2>2, <2>4, <3>1 DEF WalkInv
    <3>3. ASSUME NEW e \in interceptors', e.id \in v.start, Before(e)' < v.index
          PROVE  Called(v, e.id)
      <4>1. e \in interceptors
        BY <1>1, <1>2, <2>2, <2>4, <2>5, <3>3 DEF WalkInv
      <4>2. Before(e) < w.index
        BY <1>4, <2>4, <2>5, <3>1, <3>3, <4>1
      <4> QED
        BY <2>2, <2>4, <3>1, <3>3, <4>1, <4>2 DEF WalkInv, Called
    <3> QED
      BY <3>2, <3>3
  <2>12. ASSUME v.pc = "walk", ~v.adds, NEW e \in interceptors', Called(v, e.id)
         PROVE  Before(e)' < v.index
    <3>1. ~w.adds /\ ~adds /\ w.pc = "walk"
      BY <2>4, <2>6, <2>12
    <3>2. e \in interceptors /\ Called(w, e.id)
      BY <1>5, <2>4, <2>12, <3>1 DEF Called
    <3>3. Before(e) < w.index
      BY <2>2, <3>1, <3>2 DEF WalkInv
    <3> QED
      BY <1>5, <2>4, <2>5, <3>1, <3>2, <3>3
  <2>13. v.pc = "fetch" /\ ~v.ejects => \A i \in v.start : Called(v, i)
    BY <2>2, <2>4, <2>7 DEF WalkInv
  <2>14. ~v.adds => \A j, k \in DOMAIN v.called : v.called[j] = v.called[k] => j = k
    BY <2>2, <2>4, <2>6, <2>7 DEF WalkInv
  <2>15. WalkInv(walk[r])'
    BY <2>8, <2>9, <2>10, <2>11, <2>12, <2>13, <2>14 DEF WalkInv, v
  <2> QED
    BY <2>3, <2>15 DEF v
<1>7. walk' = [r \in Request |-> walk'[r]]
  BY DEF Registry!Noticed
<1> QED
  BY <1>6, <1>7

(* An installation that throws leaves the lists and the count as they were.  *)
LEMMA RolledBackKeeps ==
  ASSUME RegistryInv, NEW p \in Plugin, NEW late \in BOOLEAN,
         NEW reg \in Registry!Registrations(p, late),
         Registry!Registered(reg, Registry!RolledBack(reg))
  PROVE  /\ interceptors' = interceptors /\ hooks' = hooks /\ rawResponseHooks' = rawResponseHooks
         /\ nextId' \in 0..MaxIds /\ nextId <= nextId'
         /\ walk' \in [Request -> Registry!Walk] /\ \A r \in Request : WalkInv(walk[r])'
<1>1. /\ nextId \in 0..MaxIds /\ MaxIds \in Nat /\ rawResponseHooks \in Nat
      /\ interceptors \subseteq Registry!Entry /\ hooks \subseteq Registry!Entry
      /\ \A e \in interceptors \cup hooks : e.id < nextId
  BY ClientAssumption
     DEF RegistryInv, ListsInv, Registry!TypeOK, ClientAssumption, Registry!RegistryAssumption
<1> DEFINE n == Cardinality(reg.interceptors)
           m == Cardinality(reg.hooks)
<1>2. /\ nextId + n + m <= MaxIds /\ nextId' = nextId + n + m
      /\ Registry!Noticed(FALSE, interceptors' # interceptors)
  BY RegistryCounts DEF Registry!Registered
<1>3. /\ n \in Nat /\ m \in Nat
      /\ \A e \in reg.interceptors \cup reg.hooks : nextId <= e.id
      /\ reg.interceptors \subseteq Registry!Entry /\ reg.hooks \subseteq Registry!Entry
      /\ IsFiniteSet(reg.hooks)
  BY <1>1, <1>2, NewFacts
<1> HIDE DEF n, m
<1>4. \A e \in interceptors \cup hooks \cup reg.interceptors \cup reg.hooks : e.id \in Nat
  BY <1>1, <1>3, EntriesAreTyped
<1>5. \A e \in interceptors \cup hooks : e.id \notin Registry!RolledBack(reg)
  <2> SUFFICES ASSUME NEW e \in interceptors \cup hooks,
                      NEW d \in reg.interceptors \cup reg.hooks, d.id = e.id
               PROVE  FALSE
    BY DEF Registry!RolledBack, Registry!Ids
  <2> QED
    BY <1>1, <1>3, <1>4
<1>6. \A e \in reg.interceptors \cup reg.hooks : e.id \in Registry!RolledBack(reg)
  BY DEF Registry!RolledBack, Registry!Ids
<1>7. interceptors' = interceptors /\ hooks' = hooks
  BY <1>5, <1>6 DEF Registry!Registered
<1>8. rawResponseHooks' = rawResponseHooks
  <2>1. {e \in reg.hooks : e.id \in Registry!RolledBack(reg)} = reg.hooks
    BY <1>6
  <2>2. Registry!Raw(reg.hooks) \in Nat
    BY <1>3, RawAdds, FS_EmptySet
  <2>3. rawResponseHooks' = rawResponseHooks + Registry!Raw(reg.hooks) - Registry!Raw(reg.hooks)
    BY <2>1 DEF Registry!Registered
  <2> QED
    BY <1>1, <2>2, <2>3
<1>9. nextId' \in 0..MaxIds /\ nextId' \in Nat /\ nextId <= nextId'
  BY <1>1, <1>2, <1>3
<1>10. IsFiniteSet(interceptors) /\ \A d, e \in interceptors : d.id = e.id => d = e
  BY DEF RegistryInv, ListsInv
<1>11. walk' \in [Request -> Registry!Walk] /\ \A r \in Request : WalkInv(walk[r])'
  BY <1>1, <1>2, <1>7, <1>9, <1>10, WalksKept
<1> QED
  BY <1>7, <1>8, <1>9, <1>11

(* What a plugin registers is added to the lists and counted. *)
LEMMA RegisteredKeeps ==
  ASSUME RegistryInv, NEW p \in Plugin, NEW late \in BOOLEAN,
         NEW reg \in Registry!Registrations(p, late),
         Registry!Registered(reg, {})
  PROVE  /\ interceptors' = interceptors \cup reg.interceptors /\ hooks' = hooks \cup reg.hooks
         /\ interceptors' \subseteq Registry!Entry /\ hooks' \subseteq Registry!Entry
         /\ IsFiniteSet(interceptors') /\ IsFiniteSet(hooks')
         /\ \A e \in reg.interceptors \cup reg.hooks :
               e.plugin = p /\ e.late = late /\ e.id \in 0..MaxIds
         /\ \A e \in interceptors' \cup hooks' : e.id < nextId'
         /\ \A d, e \in interceptors' : d.id = e.id => d = e
         /\ rawResponseHooks' \in Nat /\ rawResponseHooks' = Registry!Raw(hooks')
         /\ nextId' \in 0..MaxIds
         /\ walk' \in [Request -> Registry!Walk] /\ \A r \in Request : WalkInv(walk[r])'
<1>1. /\ nextId \in 0..MaxIds /\ MaxIds \in Nat /\ rawResponseHooks \in Nat
      /\ interceptors \subseteq Registry!Entry /\ hooks \subseteq Registry!Entry
      /\ \A e \in interceptors \cup hooks : e.id < nextId
      /\ IsFiniteSet(interceptors) /\ IsFiniteSet(hooks)
      /\ \A d, e \in interceptors : d.id = e.id => d = e
      /\ rawResponseHooks = Registry!Raw(hooks)
  BY ClientAssumption
     DEF RegistryInv, ListsInv, Registry!TypeOK, ClientAssumption, Registry!RegistryAssumption
<1> DEFINE n == Cardinality(reg.interceptors)
           m == Cardinality(reg.hooks)
<1>2. /\ nextId + n + m <= MaxIds /\ nextId' = nextId + n + m
      /\ Registry!Noticed(FALSE, interceptors' # interceptors)
  BY RegistryCounts DEF Registry!Registered
<1>3. /\ n \in Nat /\ m \in Nat
      /\ \A e \in reg.interceptors \cup reg.hooks :
            e.plugin = p /\ e.late = late /\ nextId <= e.id /\ e.id < nextId + n + m
      /\ reg.interceptors \subseteq Registry!Entry /\ reg.hooks \subseteq Registry!Entry
      /\ IsFiniteSet(reg.interceptors) /\ IsFiniteSet(reg.hooks)
      /\ \A d, e \in reg.interceptors : d = e
  BY <1>1, <1>2, NewFacts
<1> HIDE DEF n, m
<1>4. interceptors' = interceptors \cup reg.interceptors /\ hooks' = hooks \cup reg.hooks
  BY DEF Registry!Registered
<1>5. \A e \in interceptors' \cup hooks' : e \in Registry!Entry /\ e.id \in Nat /\ e.id \in 0..MaxIds
  <2>1. \A e \in interceptors' \cup hooks' : e \in Registry!Entry
    BY <1>1, <1>3, <1>4
  <2> QED
    BY <1>1, <2>1, EntriesAreTyped
<1>6. nextId' \in 0..MaxIds /\ nextId' \in Nat /\ nextId <= nextId'
  BY <1>1, <1>2, <1>3
<1>7. \A e \in interceptors' \cup hooks' : e.id < nextId'
  BY <1>1, <1>2, <1>3, <1>4, <1>5
<1>8. \A d, e \in interceptors' : d.id = e.id => d = e
  <2> SUFFICES ASSUME NEW d \in interceptors', NEW e \in interceptors', d.id = e.id
               PROVE  d = e
    OBVIOUS
  <2>1. d.id \in Nat /\ e.id \in Nat /\ nextId \in Nat
    BY <1>1, <1>5
  <2>2. CASE d \in interceptors /\ e \in interceptors
    BY <1>1, <2>2
  <2>3. CASE d \in reg.interceptors /\ e \in reg.interceptors
    BY <1>3, <2>3
  <2>4. ~(d \in interceptors /\ e \in reg.interceptors)
    BY <1>1, <1>3, <2>1
  <2>5. ~(e \in interceptors /\ d \in reg.interceptors)
    BY <1>1, <1>3, <2>1
  <2> QED
    BY <1>4, <2>2, <2>3, <2>4, <2>5
<1>9. IsFiniteSet(interceptors') /\ IsFiniteSet(hooks')
  BY <1>1, <1>3, <1>4, FS_Union
<1>10. rawResponseHooks' \in Nat /\ rawResponseHooks' = Registry!Raw(hooks')
  <2>1. \A h \in hooks : h \notin reg.hooks
    <3> SUFFICES ASSUME NEW h \in hooks, h \in reg.hooks PROVE FALSE
      OBVIOUS
    <3>1. h.id \in Nat /\ nextId \in Nat /\ h.id < nextId /\ nextId <= h.id
      BY <1>1, <1>3, <1>4, <1>5
    <3> QED
      BY <3>1
  <2>2. hooks \cap reg.hooks = {}
    BY <2>1
  <2>3. /\ Registry!Raw(hooks) \in Nat /\ Registry!Raw(reg.hooks) \in Nat
        /\ Registry!Raw(hooks \cup reg.hooks) = Registry!Raw(hooks) + Registry!Raw(reg.hooks)
    BY <1>1, <1>3, <2>2, RawAdds
  <2>4. {e \in reg.hooks : e.id \in {}} = {}
    OBVIOUS
  <2>5. Registry!Raw({}) = 0
    <3>1. {e \in {} : e.raw} = {}
      OBVIOUS
    <3> QED
      BY <3>1, RegistryCounts, FS_EmptySet DEF Registry!Raw
  <2>6. rawResponseHooks' = rawResponseHooks + Registry!Raw(reg.hooks) - 0
    BY <2>4, <2>5 DEF Registry!Registered
  <2> QED
    BY <1>1, <1>4, <2>3, <2>6
<1>11. walk' \in [Request -> Registry!Walk] /\ \A r \in Request : WalkInv(walk[r])'
  <2>1. \A e \in interceptors' : e \in interceptors \/ nextId <= e.id
    BY <1>3, <1>4
  <2>2. \A h \in hooks' : h \in Registry!Entry /\ (h \in hooks \/ nextId <= h.id)
    BY <1>3, <1>4, <1>5
  <2>3. interceptors \subseteq interceptors' /\ interceptors' \subseteq Registry!Entry
        /\ (interceptors' # interceptors \/ interceptors' \subseteq interceptors)
    BY <1>4, <1>5
  <2> QED
    BY <1>2, <1>6, <1>8, <1>9, <2>1, <2>2, <2>3, WalksKept
<1> QED
  BY <1>3, <1>4, <1>5, <1>6, <1>7, <1>8, <1>9, <1>10, <1>11

(* What is cleaned up or disposed leaves both lists and, once, the count. *)
LEMMA RemovedKeeps ==
  ASSUME RegistryInv, NEW ids, Registry!Removed(ids), nextId' = nextId
  PROVE  /\ interceptors' = {e \in interceptors : e.id \notin ids}
         /\ hooks' = {h \in hooks : h.id \notin ids}
         /\ IsFiniteSet(interceptors') /\ IsFiniteSet(hooks')
         /\ rawResponseHooks' \in Nat /\ rawResponseHooks' = Registry!Raw(hooks')
         /\ walk' \in [Request -> Registry!Walk] /\ \A r \in Request : WalkInv(walk[r])'
<1>1. /\ nextId \in Nat /\ rawResponseHooks = Registry!Raw(hooks)
      /\ interceptors \subseteq Registry!Entry /\ hooks \subseteq Registry!Entry
      /\ IsFiniteSet(interceptors) /\ IsFiniteSet(hooks)
      /\ \A d, e \in interceptors : d.id = e.id => d = e
  BY ClientAssumption
     DEF RegistryInv, ListsInv, Registry!TypeOK, ClientAssumption, Registry!RegistryAssumption
<1>2. /\ interceptors' = {e \in interceptors : e.id \notin ids}
      /\ hooks' = {h \in hooks : h.id \notin ids}
      /\ rawResponseHooks' = rawResponseHooks - Registry!Raw({h \in hooks : h.id \in ids})
      /\ Registry!Noticed(interceptors' # interceptors, FALSE)
  BY DEF Registry!Removed
<1>3. interceptors' \subseteq interceptors /\ hooks' \subseteq hooks
  BY <1>2
<1>4. IsFiniteSet(interceptors') /\ IsFiniteSet(hooks')
  BY <1>1, <1>3, FS_Subset
<1>5. rawResponseHooks' \in Nat /\ rawResponseHooks' = Registry!Raw(hooks')
  <2> DEFINE gone == {h \in hooks : h.id \in ids}
  <2>1. gone \subseteq hooks /\ hooks = hooks' \cup gone /\ hooks' \cap gone = {}
    BY <1>2
  <2>2. rawResponseHooks' = rawResponseHooks - Registry!Raw(gone)
    BY <1>2
  <2> HIDE DEF gone
  <2>3. IsFiniteSet(gone)
    BY <1>1, <2>1, FS_Subset
  <2>4. /\ Registry!Raw(hooks') \in Nat /\ Registry!Raw(gone) \in Nat
        /\ Registry!Raw(hooks) = Registry!Raw(hooks') + Registry!Raw(gone)
    BY <1>4, <2>1, <2>3, RawAdds
  <2> QED
    BY <1>1, <2>2, <2>4
<1>6. walk' \in [Request -> Registry!Walk] /\ \A r \in Request : WalkInv(walk[r])'
  <2>1. nextId' \in Nat /\ nextId <= nextId'
    BY <1>1
  <2>2. interceptors' \subseteq Registry!Entry /\ \A d, e \in interceptors' : d.id = e.id => d = e
    BY <1>1, <1>3
  <2>3. \A h \in hooks' : h \in Registry!Entry /\ (h \in hooks \/ nextId <= h.id)
    BY <1>1, <1>3
  <2>4. \A e \in interceptors' : e \in interceptors \/ nextId <= e.id
    BY <1>3
  <2>5. (interceptors' # interceptors \/ interceptors \subseteq interceptors')
        /\ (FALSE \/ interceptors' \subseteq interceptors)
        /\ (interceptors' # interceptors) \in BOOLEAN
    BY <1>3
  <2> QED
    BY <1>2, <1>4, <2>1, <2>2, <2>3, <2>4, <2>5, WalksKept
<1> QED
  BY <1>2, <1>4, <1>5, <1>6

-----------------------------------------------------------------------------
(* Steps of plugins *)

(* What each of the steps below starts from. *)
LEMMA ListsFacts ==
  ASSUME RegistryInv
  PROVE  /\ installed \subseteq Plugin /\ contexts \subseteq Plugin
         /\ scope \in [Plugin -> SUBSET (0..MaxIds)]
         /\ interceptors \subseteq Registry!Entry /\ hooks \subseteq Registry!Entry
         /\ nextId \in 0..MaxIds /\ MaxIds \in Nat /\ rawResponseHooks \in Nat
         /\ IsFiniteSet(interceptors) /\ IsFiniteSet(hooks)
         /\ \A e \in interceptors \cup hooks :
               e.id < nextId /\ e.id \in Nat /\ e.plugin \in Plugin /\ e.late \in BOOLEAN
         /\ \A d, e \in interceptors : d.id = e.id => d = e
         /\ \A e \in interceptors \cup hooks : ~e.late => e.plugin \in installed /\ e.id \in scope[e.plugin]
         /\ \A p \in installed : Requires[p] \subseteq installed /\ Conflicts[p] \cap installed \subseteq {p}
         /\ rawResponseHooks = Registry!Raw(hooks)
         /\ walk \in [Request -> Registry!Walk] /\ \A r \in Request : WalkInv(walk[r])
<1>1. /\ Registry!TypeOK /\ MaxIds \in Nat /\ Registry!PluginsCompatible
  BY ClientAssumption DEF RegistryInv, ListsInv, ClientAssumption, Registry!RegistryAssumption
<1>2. \A e \in interceptors \cup hooks :
         e.id < nextId /\ e.id \in Nat /\ e.plugin \in Plugin /\ e.late \in BOOLEAN
  BY <1>1, EntriesAreTyped DEF RegistryInv, ListsInv, Registry!TypeOK
<1> QED
  BY <1>1, <1>2 DEF RegistryInv, ListsInv, Registry!TypeOK, Registry!PluginsCompatible

(* use(): checks what is installed, then installs or rolls back. *)
LEMMA UseKeeps ==
  ASSUME RegistryInv, NEW p \in Plugin, Registry!Use(p)
  PROVE  RegistryInv'
<1>0. /\ p \notin installed /\ Requires[p] \subseteq installed /\ Conflicts[p] \cap installed = {}
      /\ \A q \in installed : p \notin Conflicts[q]
      /\ contexts' = contexts \cup {p}
  BY DEF Registry!Use, Registry!MayInstall
<1>1. PICK reg \in Registry!Registrations(p, FALSE) :
         \/ /\ Registry!Registered(reg, {})
            /\ scope' = [scope EXCEPT ![p] = Registry!Ids(reg.interceptors \cup reg.hooks)]
            /\ installed' = installed \cup {p}
         \/ /\ Registry!Registered(reg, Registry!RolledBack(reg))
            /\ scope' = [scope EXCEPT ![p] = {}]
            /\ UNCHANGED installed
  BY DEF Registry!Use
<1>2. contexts' \subseteq Plugin
  BY <1>0, ListsFacts
<1>3. CASE /\ Registry!Registered(reg, {})
           /\ scope' = [scope EXCEPT ![p] = Registry!Ids(reg.interceptors \cup reg.hooks)]
           /\ installed' = installed \cup {p}
  <2>1. /\ interceptors' = interceptors \cup reg.interceptors /\ hooks' = hooks \cup reg.hooks
        /\ interceptors' \subseteq Registry!Entry /\ hooks' \subseteq Registry!Entry
        /\ IsFiniteSet(interceptors') /\ IsFiniteSet(hooks')
        /\ \A e \in reg.interceptors \cup reg.hooks :
              e.plugin = p /\ e.late = FALSE /\ e.id \in 0..MaxIds
        /\ \A e \in interceptors' \cup hooks' : e.id < nextId'
        /\ \A d, e \in interceptors' : d.id = e.id => d = e
        /\ rawResponseHooks' \in Nat /\ rawResponseHooks' = Registry!Raw(hooks')
        /\ nextId' \in 0..MaxIds
        /\ walk' \in [Request -> Registry!Walk] /\ \A r \in Request : WalkInv(walk[r])'
    BY <1>3, RegisteredKeeps
  <2>2. installed' \subseteq Plugin /\ scope' \in [Plugin -> SUBSET (0..MaxIds)]
    BY <1>3, <2>1, ListsFacts DEF Registry!Ids
  <2>3. ASSUME NEW e \in interceptors' \cup hooks', ~e.late
        PROVE  e.plugin \in installed' /\ e.id \in scope'[e.plugin]
    <3>1. CASE e \in interceptors \cup hooks
      BY <1>0, <1>3, <2>3, <3>1, ListsFacts
    <3>2. CASE e \in reg.interceptors \cup reg.hooks
      BY <1>3, <2>1, <3>2, ListsFacts DEF Registry!Ids
    <3> QED
      BY <2>1, <3>1, <3>2
  <2>4. Registry!PluginsCompatible'
    BY <1>0, <1>3, ListsFacts DEF Registry!PluginsCompatible
  <2>5. Registry!TypeOK'
    BY <1>2, <2>1, <2>2 DEF Registry!TypeOK
  <2>6. ListsInv'
    BY <2>1, <2>3, <2>4 DEF ListsInv
  <2> QED
    BY <2>1, <2>5, <2>6 DEF RegistryInv
<1>4. CASE /\ Registry!Registered(reg, Registry!RolledBack(reg))
           /\ scope' = [scope EXCEPT ![p] = {}]
           /\ UNCHANGED installed
  <2>1. /\ interceptors' = interceptors /\ hooks' = hooks /\ rawResponseHooks' = rawResponseHooks
        /\ nextId' \in 0..MaxIds /\ nextId <= nextId'
        /\ walk' \in [Request -> Registry!Walk] /\ \A r \in Request : WalkInv(walk[r])'
    BY <1>4, RolledBackKeeps
  <2>2. scope' \in [Plugin -> SUBSET (0..MaxIds)]
    BY <1>4, ListsFacts
  <2>3. ASSUME NEW e \in interceptors \cup hooks, ~e.late
        PROVE  e.plugin \in installed /\ e.id \in scope'[e.plugin]
    BY <1>0, <1>4, <2>3, ListsFacts
  <2>4. \A e \in interceptors \cup hooks : e.id < nextId'
    BY <2>1, ListsFacts
  <2>5. Registry!TypeOK'
    BY <1>2, <1>4, <2>1, <2>2, ListsFacts DEF Registry!TypeOK
  <2>6. Registry!PluginsCompatible'
    BY <1>4, ListsFacts DEF Registry!PluginsCompatible
  <2>7. ListsInv'
    BY <1>4, <2>1, <2>3, <2>4, <2>6, ListsFacts DEF ListsInv
  <2> QED
    BY <2>1, <2>5, <2>7 DEF RegistryInv
<1> QED
  BY <1>1, <1>3, <1>4

(* A plugin that is gone may register too: its entries are then late ones. *)
LEMMA RegisterLaterKeeps ==
  ASSUME RegistryInv, NEW p \in Plugin, Registry!RegisterLater(p)
  PROVE  RegistryInv'
<1>0. PICK late \in BOOLEAN : late = (p \notin installed)
  OBVIOUS
<1>1. PICK reg \in Registry!Registrations(p, late) :
         /\ Registry!Registered(reg, {})
         /\ scope' = [scope EXCEPT ![p] = @ \cup Registry!Ids(reg.interceptors \cup reg.hooks)]
  BY <1>0, Zenon DEF Registry!RegisterLater
<1>2. installed' = installed /\ contexts' = contexts
  BY DEF Registry!RegisterLater
<1>3. /\ interceptors' = interceptors \cup reg.interceptors /\ hooks' = hooks \cup reg.hooks
      /\ interceptors' \subseteq Registry!Entry /\ hooks' \subseteq Registry!Entry
      /\ IsFiniteSet(interceptors') /\ IsFiniteSet(hooks')
      /\ \A e \in reg.interceptors \cup reg.hooks :
            e.plugin = p /\ e.late = late /\ e.id \in 0..MaxIds
      /\ \A e \in interceptors' \cup hooks' : e.id < nextId'
      /\ \A d, e \in interceptors' : d.id = e.id => d = e
      /\ rawResponseHooks' \in Nat /\ rawResponseHooks' = Registry!Raw(hooks')
      /\ nextId' \in 0..MaxIds
      /\ walk' \in [Request -> Registry!Walk] /\ \A r \in Request : WalkInv(walk[r])'
  BY <1>1, RegisteredKeeps
<1>4. scope' \in [Plugin -> SUBSET (0..MaxIds)]
  BY <1>1, <1>3, ListsFacts DEF Registry!Ids
<1>5. ASSUME NEW e \in interceptors' \cup hooks', ~e.late
      PROVE  e.plugin \in installed' /\ e.id \in scope'[e.plugin]
  <2>1. CASE e \in interceptors \cup hooks
    BY <1>1, <1>2, <1>5, <2>1, ListsFacts
  <2>2. CASE e \in reg.interceptors \cup reg.hooks
    <3>1. p \in installed
      BY <1>0, <1>3, <1>5, <2>2
    <3> QED
      BY <1>1, <1>2, <1>3, <2>2, <3>1, ListsFacts DEF Registry!Ids
  <2> QED
    BY <1>3, <2>1, <2>2
<1>6. Registry!PluginsCompatible'
  BY <1>2, ListsFacts DEF Registry!PluginsCompatible
<1>7. Registry!TypeOK'
  BY <1>2, <1>3, <1>4, ListsFacts DEF Registry!TypeOK
<1>8. ListsInv'
  BY <1>3, <1>5, <1>6 DEF ListsInv
<1> QED
  BY <1>3, <1>7, <1>8 DEF RegistryInv

(* What is left of the lists after a removal. *)
LEMMA LeftAfter ==
  ASSUME RegistryInv, NEW ids, Registry!Removed(ids), nextId' = nextId, contexts' = contexts,
         installed' \subseteq Plugin, scope' \in [Plugin -> SUBSET (0..MaxIds)],
         \A e \in interceptors \cup hooks : e.id \notin ids /\ ~e.late =>
            e.plugin \in installed' /\ e.id \in scope'[e.plugin],
         Registry!PluginsCompatible'
  PROVE  RegistryInv'
<1>1. /\ interceptors' = {e \in interceptors : e.id \notin ids}
      /\ hooks' = {h \in hooks : h.id \notin ids}
      /\ IsFiniteSet(interceptors') /\ IsFiniteSet(hooks')
      /\ rawResponseHooks' \in Nat /\ rawResponseHooks' = Registry!Raw(hooks')
      /\ walk' \in [Request -> Registry!Walk] /\ \A r \in Request : WalkInv(walk[r])'
  BY RemovedKeeps
<1>2. Registry!TypeOK'
  BY <1>1, ListsFacts DEF Registry!TypeOK
<1>3. ListsInv'
  <2>1. \A e \in interceptors' \cup hooks' : e.id < nextId'
    BY <1>1, ListsFacts
  <2>2. \A d, e \in interceptors' : d.id = e.id => d = e
    BY <1>1, ListsFacts
  <2>3. \A e \in interceptors' \cup hooks' : ~e.late => e.plugin \in installed' /\ e.id \in scope'[e.plugin]
    BY <1>1
  <2> QED
    BY <1>1, <2>1, <2>2, <2>3 DEF ListsInv
<1> QED
  BY <1>1, <1>2, <1>3 DEF RegistryInv

(* unuse(): the scope knows every entry of the plugin but the late ones. *)
LEMMA UnuseKeeps ==
  ASSUME RegistryInv, NEW p \in Plugin, Registry!Unuse(p)
  PROVE  RegistryInv'
<1>1. /\ p \in installed /\ \A q \in installed : p \notin Requires[q]
      /\ Registry!Removed(scope[p])
      /\ scope' = [scope EXCEPT ![p] = {}] /\ installed' = installed \ {p}
      /\ nextId' = nextId /\ contexts' = contexts
  BY DEF Registry!Unuse, Registry!HasDependent, Registry!CleanedUp
<1>2. installed' \subseteq Plugin /\ scope' \in [Plugin -> SUBSET (0..MaxIds)]
  BY <1>1, ListsFacts
<1>3. ASSUME NEW e \in interceptors \cup hooks, e.id \notin scope[p], ~e.late
      PROVE  e.plugin \in installed' /\ e.id \in scope'[e.plugin]
  <2>1. e.plugin \in installed /\ e.id \in scope[e.plugin] /\ e.plugin \in Plugin
    BY <1>3, ListsFacts
  <2>2. e.plugin # p
    BY <1>3, <2>1
  <2> QED
    BY <1>1, <2>1, <2>2, ListsFacts
<1>4. Registry!PluginsCompatible'
  BY <1>1, ListsFacts DEF Registry!PluginsCompatible
<1> QED
  BY <1>1, <1>2, <1>3, <1>4, LeftAfter

(* A disposer takes the entry out of the scope as well. *)
LEMMA DisposeKeeps ==
  ASSUME RegistryInv, NEW p \in Plugin, Registry!Dispose(p)
  PROVE  RegistryInv'
<1>1. PICK x \in interceptors \cup hooks :
         x.plugin = p /\ Registry!Removed({x.id}) /\ scope' = [scope EXCEPT ![p] = @ \ {x.id}]
  BY DEF Registry!Dispose
<1>2. installed' = installed /\ contexts' = contexts /\ nextId' = nextId
  BY DEF Registry!Dispose
<1>3. installed' \subseteq Plugin /\ scope' \in [Plugin -> SUBSET (0..MaxIds)]
  BY <1>1, <1>2, ListsFacts
<1>4. ASSUME NEW e \in interceptors \cup hooks, e.id \notin {x.id}, ~e.late
      PROVE  e.plugin \in installed' /\ e.id \in scope'[e.plugin]
  BY <1>1, <1>2, <1>4, ListsFacts
<1>5. Registry!PluginsCompatible'
  BY <1>2, ListsFacts DEF Registry!PluginsCompatible
<1> QED
  BY <1>1, <1>2, <1>3, <1>4, <1>5, LeftAfter

-----------------------------------------------------------------------------
(* Steps of requests *)

(* A request's step changes nothing but its own walk. *)
LEMMA OneWalkMoves ==
  ASSUME RegistryInv, NEW r \in Request, NEW v \in Registry!Walk, WalkInv(v),
         walk' = [walk EXCEPT ![r] = v],
         UNCHANGED <<installed, interceptors, hooks, rawResponseHooks, nextId, contexts, scope>>
  PROVE  RegistryInv'
<1>1. Registry!TypeOK'
  BY DEF RegistryInv, Registry!TypeOK
<1>2. ListsInv'
  <2>1. ListsInv /\ Registry!PluginsCompatible' /\ Registry!Raw(hooks)' = Registry!Raw(hooks)
    BY DEF RegistryInv, ListsInv, Registry!PluginsCompatible
  <2> QED
    BY <2>1 DEF ListsInv
<1>3. ASSUME NEW q \in Request
      PROVE  WalkInv(walk[q])'
  <2>1. walk'[q] = IF q = r THEN v ELSE walk[q]
    BY ListsFacts
  <2>2. WalkInv(walk'[q])
    BY <2>1, ListsFacts
  <2>3. \A e \in interceptors : Before(e)' = Before(e)
    BY DEF Before
  <2> QED
    BY <2>2, <2>3 DEF WalkInv
<1> QED
  BY <1>1, <1>2, <1>3 DEF RegistryInv

(* A request starts before the first interceptor; the count tells it whether *)
(* a hook will read raw.                                                     *)
LEMMA StartKeeps ==
  ASSUME RegistryInv, NEW r \in Request, Registry!StartRequest(r)
  PROVE  RegistryInv'
<1> DEFINE v == [Registry!NoWalk EXCEPT
                    !.pc = IF interceptors \cup hooks = {} THEN "done" ELSE "walk",
                    !.keepRaw = rawResponseHooks > 0,
                    !.since = nextId, !.start = Registry!Ids(interceptors)]
<1>1. /\ walk' = [walk EXCEPT ![r] = v]
      /\ UNCHANGED <<installed, interceptors, hooks, rawResponseHooks, nextId, contexts, scope>>
  BY DEF Registry!StartRequest
<1>2. /\ v.pc \in {"done", "walk"} /\ v.index = 0 /\ v.called = <<>> /\ v.list = {}
      /\ v.keepRaw = (rawResponseHooks > 0) /\ v.since = nextId
      /\ v.start = Registry!Ids(interceptors) /\ v.ejects = FALSE /\ v.adds = FALSE
  BY DEF Registry!NoWalk
<1>3. \A i \in Registry!Ids(interceptors) : i \in 0..MaxIds /\ i < nextId /\ \E e \in interceptors : e.id = i
  BY ListsFacts DEF Registry!Ids
<1>4. v \in Registry!Walk
  <2>1. Registry!NoWalk \in Registry!Walk
    <3>1. 0 \in 0..MaxIds /\ 0 \in Nat /\ <<>> \in Seq(0..MaxIds)
      BY ListsFacts
    <3> QED
      BY <3>1 DEF Registry!NoWalk, Registry!Walk
  <2>2. nextId \in 0..MaxIds /\ Registry!Ids(interceptors) \subseteq 0..MaxIds
    BY <1>3, ListsFacts
  <2>3. (rawResponseHooks > 0) \in BOOLEAN
    <3>1. rawResponseHooks \in Nat
      BY ListsFacts
    <3> QED
      BY <3>1
  <2>4. (IF interceptors \cup hooks = {} THEN "done" ELSE "walk")
           \in {"new", "walk", "fetch", "hooks", "done"}
    OBVIOUS
  <2> QED
    BY <2>1, <2>2, <2>3, <2>4 DEF Registry!Walk
<1> HIDE DEF v
<1>5. ASSUME NEW h \in hooks, h.raw
      PROVE  v.keepRaw
  BY <1>2, <1>5, RawCounted, ListsFacts
<1>6. \A e \in interceptors : Before(e) \in Nat
  BY ListsFacts, Places DEF Before
<1>7. \A i : ~Called(v, i)
  BY <1>2 DEF Called
<1>8. WalkInv(v)
  <2>1. v.since <= nextId /\ \A i \in v.start : i < v.since
    BY <1>2, <1>3, ListsFacts
  <2>2. \A e \in interceptors : ~(Before(e) < v.index)
    BY <1>2, <1>6
  <2> QED
    BY <1>2, <1>3, <1>5, <1>7, <2>1, <2>2 DEF WalkInv
<1> QED
  BY <1>1, <1>4, <1>8, OneWalkMoves

(* Calling the entry at the index moves exactly that one before the index. *)
LEMMA CallKeeps ==
  ASSUME RegistryInv, NEW r \in Request, Registry!CallInterceptor(r)
  PROVE  RegistryInv'
<1> DEFINE w == walk[r]
<1>1. /\ w.pc = "walk" /\ w \in Registry!Walk /\ WalkInv(w)
      /\ UNCHANGED <<installed, interceptors, hooks, rawResponseHooks, nextId, contexts, scope>>
  BY ListsFacts DEF Registry!CallInterceptor
<1>2. PICK x \in interceptors :
         /\ Before(x) = w.index
         /\ walk' = [walk EXCEPT ![r].called = Append(@, x.id), ![r].index = Registry!NextIndex(@)]
  BY DEF Registry!CallInterceptor, Before
<1> DEFINE v == [w EXCEPT !.called = Append(@, x.id), !.index = Registry!NextIndex(@)]
<1>3. walk' = [walk EXCEPT ![r] = v]
  BY <1>2, ListsFacts
<1>4. /\ w.index \in Nat /\ w.called \in Seq(0..MaxIds) /\ x.id \in 0..MaxIds
      /\ \A e \in interceptors : Before(e) \in Nat
      /\ \A d, e \in interceptors : Before(d) = Before(e) => d = e
  <2>1. x.id \in 0..MaxIds
    BY <1>2, ListsFacts DEF Registry!Entry
  <2>2. /\ \A e \in interceptors : Before(e) \in Nat
        /\ \A d, e \in interceptors : Before(d) = Before(e) => d = e
    BY ListsFacts, Places DEF Before
  <2> QED
    BY <1>1, <2>1, <2>2 DEF Registry!Walk
<1>5. /\ v.pc = w.pc /\ v.index = w.index + 1 /\ v.called = Append(w.called, x.id) /\ v.list = w.list
      /\ v.keepRaw = w.keepRaw /\ v.since = w.since /\ v.start = w.start
      /\ v.ejects = w.ejects /\ v.adds = w.adds
  BY <1>1 DEF Registry!Walk, Registry!NextIndex
<1>6. v \in Registry!Walk
  <2>1. Append(w.called, x.id) \in Seq(0..MaxIds) /\ Registry!NextIndex(w.index) \in Nat
    BY <1>4 DEF Registry!NextIndex
  <2> QED
    BY <1>1, <2>1 DEF Registry!Walk
<1> HIDE DEF w, v
<1>7. \A i : Called(v, i) <=> Called(w, i) \/ i = x.id
  <2>1. /\ DOMAIN v.called = 1..(Len(w.called) + 1) /\ DOMAIN w.called = 1..Len(w.called)
        /\ Len(w.called) \in Nat
        /\ \A k \in 1..Len(w.called) : v.called[k] = w.called[k]
        /\ v.called[Len(w.called) + 1] = x.id
    BY <1>4, <1>5
  <2>2. \A k : k \in 1..(Len(w.called) + 1) <=> k \in 1..Len(w.called) \/ k = Len(w.called) + 1
    BY <2>1
  <2> QED
    BY <2>1, <2>2 DEF Called
<1>8. w.adds \/ ~Called(w, x.id)
  BY <1>1, <1>2, <1>4 DEF WalkInv
<1>9. ~v.adds => \A j, k \in DOMAIN v.called : v.called[j] = v.called[k] => j = k
  <2> SUFFICES ASSUME ~v.adds, NEW j \in DOMAIN v.called, NEW k \in DOMAIN v.called,
                      v.called[j] = v.called[k]
               PROVE  j = k
    OBVIOUS
  <2>1. /\ DOMAIN v.called = 1..(Len(w.called) + 1) /\ DOMAIN w.called = 1..Len(w.called)
        /\ Len(w.called) \in Nat
        /\ \A n \in 1..Len(w.called) : v.called[n] = w.called[n]
        /\ v.called[Len(w.called) + 1] = x.id
    BY <1>4, <1>5
  <2>2. \A n \in 1..Len(w.called) : w.called[n] # x.id
    BY <1>5, <1>8, <2>1 DEF Called
  <2>3. \A m, n \in 1..Len(w.called) : w.called[m] = w.called[n] => m = n
    BY <1>1, <1>5, <2>1 DEF WalkInv
  <2>4. /\ j \in 1..Len(w.called) \/ j = Len(w.called) + 1
        /\ k \in 1..Len(w.called) \/ k = Len(w.called) + 1
    BY <2>1
  <2> QED
    BY <2>1, <2>2, <2>3, <2>4
<1>10. ASSUME NEW e \in interceptors, e.id \in v.start, Before(e) < v.index, ~v.ejects
       PROVE  Called(v, e.id)
  <2>1. CASE Before(e) < w.index
    BY <1>1, <1>5, <1>7, <1>10, <2>1 DEF WalkInv
  <2>2. CASE Before(e) = w.index
    BY <1>2, <1>4, <1>7, <2>2
  <2> QED
    BY <1>4, <1>5, <1>10, <2>1, <2>2
<1>11. ASSUME NEW e \in interceptors, Called(v, e.id), ~v.adds
       PROVE  Before(e) < v.index
  <2>1. CASE Called(w, e.id)
    <3>1. Before(e) < w.index
      BY <1>1, <1>5, <1>11, <2>1 DEF WalkInv
    <3> QED
      BY <1>4, <1>5, <3>1
  <2>2. CASE e.id = x.id
    <3>1. e = x
      BY <1>2, <2>2, ListsFacts
    <3> QED
      BY <1>2, <1>4, <1>5, <3>1
  <2> QED
    BY <1>7, <1>11, <2>1, <2>2
<1>12. WalkInv(v)
  BY <1>1, <1>5, <1>9, <1>10, <1>11 DEF WalkInv
<1> QED
  BY <1>1, <1>3, <1>6, <1>12, OneWalkMoves

(* At the end of the list every entry stands before the index. *)
LEMMA InterceptorsDoneKeeps ==
  ASSUME RegistryInv, NEW r \in Request, Registry!InterceptorsDone(r)
  PROVE  RegistryInv'
<1> DEFINE w == walk[r]
           v == [w EXCEPT !.pc = "fetch"]
<1>1. /\ w.pc = "walk" /\ w.index >= Cardinality(interceptors)
      /\ w \in Registry!Walk /\ WalkInv(w) /\ w.index \in Nat
      /\ UNCHANGED <<installed, interceptors, hooks, rawResponseHooks, nextId, contexts, scope>>
  <2>1. w.index >= Cardinality(interceptors)
    BY RegistryCounts DEF Registry!InterceptorsDone
  <2> QED
    BY <2>1, ListsFacts DEF Registry!InterceptorsDone, Registry!Walk
<1>2. walk' = [walk EXCEPT ![r] = v]
  BY ListsFacts DEF Registry!InterceptorsDone
<1>3. /\ v.pc = "fetch" /\ v.called = w.called /\ v.list = w.list
      /\ v.keepRaw = w.keepRaw /\ v.since = w.since /\ v.start = w.start
      /\ v.ejects = w.ejects /\ v.adds = w.adds
  BY <1>1 DEF Registry!Walk
<1>4. v \in Registry!Walk
  BY <1>1 DEF Registry!Walk
<1> HIDE DEF w, v
<1>5. \A e \in interceptors : Before(e) < w.index
  <2>1. /\ Cardinality(interceptors) \in Nat
        /\ \A e \in interceptors : Before(e) \in Nat /\ Before(e) < Cardinality(interceptors)
    BY ListsFacts, Places DEF Before
  <2> QED
    BY <1>1, <2>1
<1>6. ASSUME ~v.ejects, NEW i \in v.start
      PROVE  Called(v, i)
  <2>1. PICK e \in interceptors : e.id = i
    BY <1>1, <1>3, <1>6 DEF WalkInv
  <2>2. Called(w, e.id)
    BY <1>1, <1>3, <1>5, <1>6, <2>1 DEF WalkInv
  <2> QED
    BY <1>3, <2>1, <2>2 DEF Called
<1>7. WalkInv(v)
  BY <1>1, <1>3, <1>6 DEF WalkInv
<1> QED
  BY <1>1, <1>2, <1>4, <1>7, OneWalkMoves

(* A walk over nothing fits any lists. *)
LEMMA EmptyWalk ==
  ASSUME RegistryInv, NEW v \in Registry!Walk, v.pc \notin {"walk", "fetch"},
         v.called = <<>>, v.start = {}, v.since <= nextId,
         \A h \in v.list : h.raw /\ h.id < v.since => v.keepRaw
  PROVE  WalkInv(v)
BY DEF WalkInv

(* The hooks captured are those the request has kept the raw response for. *)
LEMMA RunResponseKeeps ==
  ASSUME RegistryInv, NEW r \in Request, Registry!RunResponse(r)
  PROVE  RegistryInv'
<1> DEFINE w == walk[r]
           v == [Registry!NoWalk EXCEPT !.pc = "hooks", !.list = hooks,
                                        !.keepRaw = w.keepRaw, !.since = w.since]
<1>1. /\ w.pc = "fetch" /\ w \in Registry!Walk /\ WalkInv(w)
      /\ walk' = [walk EXCEPT ![r] = v]
      /\ UNCHANGED <<installed, interceptors, hooks, rawResponseHooks, nextId, contexts, scope>>
  BY ListsFacts DEF Registry!RunResponse
<1>2. /\ v.pc = "hooks" /\ v.called = <<>> /\ v.list = hooks /\ v.keepRaw = w.keepRaw
      /\ v.since = w.since /\ v.start = {}
  BY DEF Registry!NoWalk
<1>3. v \in Registry!Walk
  <2>1. 0 \in Nat /\ <<>> \in Seq(0..MaxIds) /\ hooks \subseteq Registry!Entry
    BY ListsFacts
  <2>2. w.keepRaw \in BOOLEAN /\ w.since \in 0..MaxIds
    BY <1>1 DEF Registry!Walk
  <2> QED
    BY <2>1, <2>2 DEF Registry!NoWalk, Registry!Walk
<1> HIDE DEF w, v
<1>4. WalkInv(v)
  <2>1. v.since <= nextId /\ \A h \in v.list : h.raw /\ h.id < v.since => v.keepRaw
    BY <1>1, <1>2 DEF WalkInv
  <2> QED
    BY <1>2, <1>3, <2>1, EmptyWalk
<1> QED
  BY <1>1, <1>3, <1>4, OneWalkMoves

(* A hook that has run leaves the captured list. *)
LEMMA CallHookKeeps ==
  ASSUME RegistryInv, NEW r \in Request, Registry!CallHook(r)
  PROVE  RegistryInv'
<1> DEFINE w == walk[r]
           rest == {h \in w.list : Registry!Place(w.list, h) > 0}
           v == [w EXCEPT !.list = rest]
           z == [Registry!NoWalk EXCEPT !.pc = "done"]
<1>1. /\ w.pc = "hooks" /\ w \in Registry!Walk /\ WalkInv(w)
      /\ UNCHANGED <<installed, interceptors, hooks, rawResponseHooks, nextId, contexts, scope>>
  BY ListsFacts DEF Registry!CallHook
<1>2. walk' = [walk EXCEPT ![r] = IF rest # {} THEN v ELSE z]
  BY ListsFacts DEF Registry!CallHook
<1>3. rest \subseteq w.list
  OBVIOUS
<1> HIDE DEF rest
<1>4. v \in Registry!Walk /\ WalkInv(v)
  <2>1. /\ v.pc = w.pc /\ v.index = w.index /\ v.called = w.called /\ v.list = rest
        /\ v.keepRaw = w.keepRaw /\ v.since = w.since /\ v.start = w.start
        /\ v.ejects = w.ejects /\ v.adds = w.adds
    BY <1>1 DEF Registry!Walk
  <2>2. v \in Registry!Walk
    BY <1>1, <1>3 DEF Registry!Walk
  <2> HIDE DEF w, v
  <2>3. WalkInv(v)
    BY <1>1, <1>3, <2>1 DEF WalkInv, Called
  <2> QED
    BY <2>2, <2>3
<1>5. z \in Registry!Walk /\ WalkInv(z)
  <2>1. /\ z.pc = "done" /\ z.called = <<>> /\ z.list = {} /\ z.since = 0 /\ z.start = {}
    BY DEF Registry!NoWalk
  <2>2. 0 \in Nat /\ 0 \in 0..MaxIds /\ <<>> \in Seq(0..MaxIds) /\ 0 <= nextId
    BY ListsFacts
  <2>3. z \in Registry!Walk
    BY <2>2 DEF Registry!NoWalk, Registry!Walk
  <2> HIDE DEF z
  <2> QED
    BY <2>1, <2>2, <2>3, EmptyWalk
<1> HIDE DEF v, z
<1>6. CASE rest # {}
  BY <1>1, <1>2, <1>4, <1>6, OneWalkMoves
<1>7. CASE rest = {}
  BY <1>1, <1>2, <1>5, <1>7, OneWalkMoves
<1> QED
  BY <1>6, <1>7

-----------------------------------------------------------------------------
(* The registry *)

(* A client begins with nothing registered and no request. *)
LEMMA RegistryInit ==
  ASSUME Registry!Init
  PROVE  RegistryInv
<1>1. MaxIds \in Nat
  BY ClientAssumption DEF ClientAssumption, Registry!RegistryAssumption
<1>2. 0 \in Nat /\ 0 \in 0..MaxIds /\ <<>> \in Seq(0..MaxIds)
  BY <1>1
<1>3. Registry!NoWalk \in Registry!Walk
  BY <1>2 DEF Registry!NoWalk, Registry!Walk
<1>4. Registry!TypeOK
  BY <1>2, <1>3 DEF Registry!Init, Registry!TypeOK
<1>5. Registry!Raw({}) = 0
  <2>1. {e \in {} : e.raw} = {}
    OBVIOUS
  <2> QED
    BY <2>1, RegistryCounts, FS_EmptySet DEF Registry!Raw
<1>6. ListsInv
  BY <1>5, FS_EmptySet DEF Registry!Init, ListsInv, Registry!PluginsCompatible
<1>7. ASSUME NEW r \in Request
      PROVE  WalkInv(walk[r])
  <2>1. walk[r] = Registry!NoWalk /\ nextId = 0 /\ interceptors = {} /\ hooks = {}
    BY DEF Registry!Init
  <2>2. /\ Registry!NoWalk.pc = "new" /\ Registry!NoWalk.called = <<>> /\ Registry!NoWalk.list = {}
        /\ Registry!NoWalk.since = 0 /\ Registry!NoWalk.start = {}
    BY DEF Registry!NoWalk
  <2> QED
    BY <2>1, <2>2 DEF WalkInv
<1> QED
  BY <1>4, <1>6, <1>7 DEF RegistryInv

(* One step per operation of the registry. *)
LEMMA RegistryStep ==
  ASSUME RegistryInv, Registry!Next
  PROVE  RegistryInv'
<1>1. ASSUME NEW p \in Plugin, Registry!Use(p) PROVE RegistryInv'
  BY <1>1, UseKeeps
<1>2. ASSUME NEW p \in Plugin, Registry!Unuse(p) PROVE RegistryInv'
  BY <1>2, UnuseKeeps
<1>3. ASSUME NEW p \in Plugin, Registry!RegisterLater(p) PROVE RegistryInv'
  BY <1>3, RegisterLaterKeeps
<1>4. ASSUME NEW p \in Plugin, Registry!Dispose(p) PROVE RegistryInv'
  BY <1>4, DisposeKeeps
<1>5. ASSUME NEW r \in Request, Registry!StartRequest(r) PROVE RegistryInv'
  BY <1>5, StartKeeps
<1>6. ASSUME NEW r \in Request, Registry!CallInterceptor(r) PROVE RegistryInv'
  BY <1>6, CallKeeps
<1>7. ASSUME NEW r \in Request, Registry!InterceptorsDone(r) PROVE RegistryInv'
  BY <1>7, InterceptorsDoneKeeps
<1>8. ASSUME NEW r \in Request, Registry!RunResponse(r) PROVE RegistryInv'
  BY <1>8, RunResponseKeeps
<1>9. ASSUME NEW r \in Request, Registry!CallHook(r) PROVE RegistryInv'
  BY <1>9, CallHookKeeps
<1> QED
  BY <1>1, <1>2, <1>3, <1>4, <1>5, <1>6, <1>7, <1>8, <1>9 DEF Registry!Next

(* Steps that leave the registry alone, those of the defaults among them. *)
LEMMA RegistryStutter ==
  ASSUME RegistryInv, UNCHANGED Registry!vars
  PROVE  RegistryInv'
<1>1. UNCHANGED <<installed, interceptors, hooks, rawResponseHooks, nextId, contexts, scope, walk>>
  BY DEF Registry!vars
<1>2. Registry!TypeOK'
  BY <1>1 DEF RegistryInv, Registry!TypeOK
<1>3. ListsInv'
  <2>1. ListsInv /\ Registry!PluginsCompatible' /\ Registry!Raw(hooks)' = Registry!Raw(hooks)
    BY <1>1 DEF RegistryInv, ListsInv, Registry!PluginsCompatible
  <2> QED
    BY <1>1, <2>1 DEF ListsInv
<1>4. ASSUME NEW q \in Request
      PROVE  WalkInv(walk[q])'
  <2>1. WalkInv(walk[q]) /\ walk'[q] = walk[q]
    BY <1>1, ListsFacts
  <2>2. \A e \in interceptors : Before(e)' = Before(e)
    BY <1>1 DEF Before
  <2> QED
    BY <1>1, <2>1, <2>2 DEF WalkInv
<1> QED
  BY <1>2, <1>3, <1>4 DEF RegistryInv

(* The inductive invariant holds of the client's registry. *)
LEMMA RegistryHolds == MCSpec => []RegistryInv
<1>1. MCInit => RegistryInv
  BY RegistryInit DEF MCInit
<1>2. RegistryInv /\ [MCNext]_<<part, vars, Registry!vars>> => RegistryInv'
  <2> SUFFICES ASSUME RegistryInv, [MCNext]_<<part, vars, Registry!vars>>
               PROVE  RegistryInv'
    OBVIOUS
  <2>1. CASE Registry!Next
    BY <2>1, RegistryStep
  <2>2. CASE UNCHANGED Registry!vars
    BY <2>2, RegistryStutter
  <2>3. Registry!Next \/ UNCHANGED Registry!vars
    BY DEF MCNext, Registry!vars
  <2> QED
    BY <2>1, <2>2, <2>3
<1> QED
  BY <1>1, <1>2, PTL DEF MCSpec

(* Hooks, interceptors, the count of raw readers and dependencies agree with *)
(* the plugins installed, after any sequence of use(), failed use(), unuse(), *)
(* late registrations and disposers (Client.use, unuse and createPluginScope). *)
THEOREM RegistryAgreesHolds == MCSpec => []RegistryAgrees
<1>1. ASSUME RegistryInv
      PROVE  RegistryAgrees
  <2>1. Registry!NothingLeftBehind
    BY <1>1, ListsFacts DEF Registry!NothingLeftBehind
  <2>2. Registry!RawKeptForHooks
    BY <1>1 DEF RegistryInv, ListsInv, WalkInv, Registry!RawKeptForHooks
  <2> QED
    BY <1>1, <2>1, <2>2 DEF RegistryInv, ListsInv, RegistryAgrees, Registry!RegistryAgrees
<1> QED
  BY <1>1, RegistryHolds, PTL

(* The walk over the live list of interceptors leaves none out unless one is *)
(* ejected meanwhile and calls none twice unless one is added                *)
(* (InterceptorManager.runMaybeAsync).                                       *)
THEOREM WalkIsExactHolds == MCSpec => []WalkIsExact
<1>1. ASSUME RegistryInv
      PROVE  WalkIsExact
  BY <1>1 DEF RegistryInv, WalkInv, Called, WalkIsExact, Registry!WalkIsExact
<1> QED
  BY <1>1, RegistryHolds, PTL

-----------------------------------------------------------------------------
\* The configs

Option == {"timeout", "validateStatus", "throwHttpErrors", "headers", "removeHeaders", "query",
           "searchParams", "extensions", "body", "json"}
Shape(c) == c = [f \in Option |-> c[f]]

(* The values that stand for no object are no functions. *)
ValuesApart == \A f : IsFunction(f) => f \notin {Absent, Undef, Off}

(* The options of the model. *)
LEMMA OptionsAre == DOMAIN Empty = Option
BY DEF Empty, Option

(* A config has its options. *)
LEMMA ConfigsHaveShape ==
  ASSUME NEW c, IsConfig(c)
  PROVE  Shape(c)
BY OptionsAre DEF IsConfig, Shape

(* MergeStatus sets the other of the two options. *)
LEMMA StatusMerged ==
  ASSUME NEW r, Shape(r), NEW c, NEW m, m = MergeStatus(r, c)
  PROVE      /\ Shape(m)
             /\ m.validateStatus = IF Own(c.throwHttpErrors) /\ ~Own(c.validateStatus) THEN Undef ELSE r.validateStatus
             /\ m.throwHttpErrors = IF Own(c.validateStatus) /\ ~Own(c.throwHttpErrors) THEN Undef ELSE r.throwHttpErrors
             /\ \A f \in Option \ {"validateStatus", "throwHttpErrors"} : m[f] = r[f]
<1>1. CASE Own(c.validateStatus) /\ ~Own(c.throwHttpErrors)
  <2>1. m = [r EXCEPT !.throwHttpErrors = Undef]
    BY <1>1 DEF MergeStatus
  <2> QED
    BY <1>1, <2>1 DEF Shape, Option
<1>2. CASE Own(c.throwHttpErrors) /\ ~Own(c.validateStatus)
  <2>1. m = [r EXCEPT !.validateStatus = Undef]
    BY <1>2 DEF MergeStatus
  <2> QED
    BY <1>2, <2>1 DEF Shape, Option
<1>3. CASE Own(c.throwHttpErrors) <=> Own(c.validateStatus)
  <2>1. m = r
    BY <1>3 DEF MergeStatus
  <2> QED
    BY <1>3, <2>1
<1> QED
  BY <1>1, <1>2, <1>3

(* MergeHeaders changes no other option. *)
LEMMA HeadersMerged ==
  ASSUME NEW r, Shape(r), NEW d, NEW c, NEW m, m = MergeHeaders(r, d, c)
  PROVE  Shape(m) /\ \A f \in Option \ {"headers"} : m[f] = r[f]
<1>1. m = r \/ m = [r EXCEPT !.headers = MergedHeaders(d, c)]
  BY DEF MergeHeaders
<1> QED
  BY <1>1 DEF Shape, Option

(* The query and the search params after a merge, q and p, from those before. *)
NoQuery(r) == ~Given(r.query) /\ ~Given(r.searchParams)
QueryBase(d) == IF Given(d.searchParams) THEN <<>> ELSE Object(d.query)

QueryRule(q, p, r, d, c) ==
    /\ NoQuery(r) => q = r.query /\ p = r.searchParams
    /\ ~NoQuery(r) /\ Given(c.searchParams) => q = Value(c.query) /\ p = c.searchParams
    /\ ~NoQuery(r) /\ ~Given(c.searchParams) /\ Given(c.query) => q = Joined(QueryBase(d), c.query) /\ p = Undef
    /\ ~NoQuery(r) /\ ~Given(c.searchParams) /\ ~Given(c.query) => q = Value(d.query) /\ p = Value(d.searchParams)

(* What MergeQuery makes of query and searchParams. *)
LEMMA QueryMerged ==
  ASSUME NEW r, Shape(r), NEW d, NEW c, NEW m, m = MergeQuery(r, d, c)
  PROVE  /\ Shape(m) /\ QueryRule(m.query, m.searchParams, r, d, c)
         /\ \A f \in Option \ {"query", "searchParams"} : m[f] = r[f]
<1>1. ASSUME NEW q, NEW s, m = [r EXCEPT !.query = q, !.searchParams = s]
      PROVE  Shape(m) /\ m.query = q /\ m.searchParams = s /\ \A f \in Option \ {"query", "searchParams"} : m[f] = r[f]
  BY <1>1 DEF Shape, Option
<1>2. CASE NoQuery(r)
  <2>1. m = r
    BY <1>2 DEF MergeQuery, NoQuery
  <2> QED
    BY <1>2, <2>1 DEF QueryRule
<1>3. CASE ~NoQuery(r) /\ Given(c.searchParams)
  <2>1. m = [r EXCEPT !.query = Value(c.query), !.searchParams = c.searchParams]
    BY <1>3, Zenon DEF MergeQuery, Value, NoQuery
  <2> QED
    BY <1>1, <1>3, <2>1 DEF QueryRule
<1>4. CASE ~NoQuery(r) /\ ~Given(c.searchParams) /\ Given(c.query)
  <2>1. m = [r EXCEPT !.query = Joined(QueryBase(d), c.query), !.searchParams = Undef]
    BY <1>4, Zenon DEF MergeQuery, NoQuery, QueryBase
  <2> QED
    BY <1>1, <1>4, <2>1 DEF QueryRule
<1>5. CASE ~NoQuery(r) /\ ~Given(c.searchParams) /\ ~Given(c.query)
  <2>1. m = [r EXCEPT !.query = Value(d.query), !.searchParams = Value(d.searchParams)]
    BY <1>5, Zenon DEF MergeQuery, Value, NoQuery
  <2> QED
    BY <1>1, <1>5, <2>1 DEF QueryRule
<1> QED
  BY <1>2, <1>3, <1>4, <1>5

(* The options of a plugin after a merge. *)
PluginMerged(x, y, p) ==
    IF p \notin DOMAIN y THEN x[p] ELSE IF p \notin DOMAIN x THEN y[p] ELSE MergedOptions(x[p], y[p])

PluginsMerged(x, y) == [p \in DOMAIN x \cup DOMAIN y |-> PluginMerged(x, y, p)]

(* What MergeExtensions makes of the plugins' options. *)
LEMMA ExtensionsMerged ==
  ASSUME NEW r, Shape(r), NEW d, NEW c, NEW m, m = MergeExtensions(r, d, c)
  PROVE  /\ Shape(m) /\ \A f \in Option \ {"extensions"} : m[f] = r[f]
         /\ m.extensions = IF Given(r.extensions) THEN PluginsMerged(Object(d.extensions), Object(c.extensions))
                           ELSE r.extensions
<1> DEFINE all == PluginsMerged(Object(d.extensions), Object(c.extensions))
<1>1. CASE ~Given(r.extensions)
  <2>1. m = r
    BY <1>1 DEF MergeExtensions
  <2> QED
    BY <1>1, <2>1
<1>2. CASE Given(r.extensions)
  <2>1. m = [r EXCEPT !.extensions = all]
    BY <1>2, Zenon DEF MergeExtensions, PluginMerged, PluginsMerged
  <2> QED
    BY <1>2, <2>1 DEF Shape, Option
<1> QED
  BY <1>1, <1>2

Resets(r, d, c) == (HasBodyConfig(d) \/ HasBodyValue(r)) /\ HasBodyConfig(c)

(* What MergeBody makes of the body's shortcuts. *)
LEMMA BodyMerged ==
  ASSUME NEW r, Shape(r), NEW d, NEW c, NEW m, m = MergeBody(r, d, c)
  PROVE  /\ Shape(m) /\ \A f \in Option \ {"body", "json"} : m[f] = r[f]
         /\ m.body = IF Resets(r, d, c) THEN Value(c.body) ELSE r.body
         /\ m.json = IF Resets(r, d, c) THEN Value(c.json) ELSE r.json
<1>1. CASE Resets(r, d, c)
  <2>1. m = [r EXCEPT !.body = Value(c.body), !.json = Value(c.json)]
    BY <1>1 DEF MergeBody, Resets
  <2> QED
    BY <1>1, <2>1 DEF Shape, Option
<1>2. CASE ~Resets(r, d, c)
  <2>1. m = r
    BY <1>2 DEF MergeBody, Resets
  <2> QED
    BY <1>2, <2>1
<1> QED
  BY <1>1, <1>2

(* What a merge makes of every option but the headers. *)
SpreadOf(d, c) == [f \in Option |-> Over(d[f], c[f])]

MergeRule(x, d, c) ==
    /\ x.timeout = Over(d.timeout, c.timeout)
    /\ x.validateStatus =
          IF Own(c.throwHttpErrors) /\ ~Own(c.validateStatus) THEN Undef ELSE Over(d.validateStatus, c.validateStatus)
    /\ x.throwHttpErrors =
          IF Own(c.validateStatus) /\ ~Own(c.throwHttpErrors) THEN Undef ELSE Over(d.throwHttpErrors, c.throwHttpErrors)
    /\ QueryRule(x.query, x.searchParams, SpreadOf(d, c), d, c)
    /\ x.extensions =
          IF Given(Over(d.extensions, c.extensions))
          THEN PluginsMerged(Object(d.extensions), Object(c.extensions)) ELSE Over(d.extensions, c.extensions)
    /\ x.body = IF Resets(SpreadOf(d, c), d, c) THEN Value(c.body) ELSE Over(d.body, c.body)
    /\ x.json = IF Resets(SpreadOf(d, c), d, c) THEN Value(c.json) ELSE Over(d.json, c.json)

LEMMA MergeFacts ==
  ASSUME NEW d, Shape(d), NEW c, Shape(c)
  PROVE  Shape(Merge(d, c)) /\ MergeRule(Merge(d, c), d, c)
<1> DEFINE r0 == SpreadOf(d, c)
           r1 == MergeStatus(r0, c)
           r2 == MergeHeaders(r1, d, c)
           r3 == MergeQuery(r2, d, c)
           r4 == MergeExtensions(r3, d, c)
           r5 == MergeBody(r4, d, c)
<1>1. Merge(d, c) = r5
  <2>1. DOMAIN d = Option
    BY DEF Shape
  <2> QED
    BY <2>1, Zenon DEF Merge, SpreadOf
<1>2. Shape(r0) /\ \A f \in Option : r0[f] = Over(d[f], c[f])
  BY DEF Shape, SpreadOf
<1> HIDE DEF r0
<1>3. /\ Shape(r1)
      /\ r1.validateStatus = IF Own(c.throwHttpErrors) /\ ~Own(c.validateStatus) THEN Undef ELSE r0.validateStatus
      /\ r1.throwHttpErrors = IF Own(c.validateStatus) /\ ~Own(c.throwHttpErrors) THEN Undef ELSE r0.throwHttpErrors
      /\ \A f \in Option \ {"validateStatus", "throwHttpErrors"} : r1[f] = r0[f]
  BY <1>2, StatusMerged
<1> HIDE DEF r1
<1>4. Shape(r2) /\ \A f \in Option \ {"headers"} : r2[f] = r1[f]
  BY <1>3, HeadersMerged
<1> HIDE DEF r2
<1>5. /\ Shape(r3) /\ QueryRule(r3.query, r3.searchParams, r2, d, c)
      /\ \A f \in Option \ {"query", "searchParams"} : r3[f] = r2[f]
  BY <1>4, QueryMerged
<1> HIDE DEF r3
<1>6. /\ Shape(r4) /\ \A f \in Option \ {"extensions"} : r4[f] = r3[f]
      /\ r4.extensions = IF Given(r3.extensions) THEN PluginsMerged(Object(d.extensions), Object(c.extensions))
                         ELSE r3.extensions
  BY <1>5, ExtensionsMerged
<1> HIDE DEF r4
<1>7. /\ Shape(r5) /\ \A f \in Option \ {"body", "json"} : r5[f] = r4[f]
      /\ r5.body = IF Resets(r4, d, c) THEN Value(c.body) ELSE r4.body
      /\ r5.json = IF Resets(r4, d, c) THEN Value(c.json) ELSE r4.json
  BY <1>6, BodyMerged
<1> HIDE DEF r5
<1>8. r5.timeout = r0.timeout /\ r5.validateStatus = r1.validateStatus /\ r5.throwHttpErrors = r1.throwHttpErrors
      /\ r5.query = r3.query /\ r5.searchParams = r3.searchParams /\ r5.extensions = r4.extensions
      /\ r4.body = r0.body /\ r4.json = r0.json /\ r3.extensions = r0.extensions
      /\ r2.query = r0.query /\ r2.searchParams = r0.searchParams
  BY <1>3, <1>4, <1>5, <1>6, <1>7 DEF Option
<1>9. Resets(r4, d, c) = Resets(r0, d, c) /\ NoQuery(r2) = NoQuery(r0)
  BY <1>8 DEF Resets, NoQuery, HasBodyValue
<1>10. QueryRule(r5.query, r5.searchParams, r0, d, c)
  BY <1>5, <1>8, <1>9 DEF QueryRule
<1>11. \A f \in Option : r0[f] = Over(d[f], c[f])
  BY <1>2
<1>12. MergeRule(r5, d, c)
  <2>1. /\ r0.timeout = Over(d.timeout, c.timeout) /\ r0.validateStatus = Over(d.validateStatus, c.validateStatus)
        /\ r0.throwHttpErrors = Over(d.throwHttpErrors, c.throwHttpErrors)
        /\ r0.extensions = Over(d.extensions, c.extensions)
        /\ r0.body = Over(d.body, c.body) /\ r0.json = Over(d.json, c.json)
    BY <1>11 DEF Option
  <2> HIDE DEF Over
  <2>2. r0 = SpreadOf(d, c)
    BY DEF r0
  <2> QED
    BY <1>3, <1>6, <1>7, <1>8, <1>9, <1>10, <2>1, <2>2 DEF MergeRule
<1> QED
  BY <1>1, <1>7, <1>12


-----------------------------------------------------------------------------
\* What the layers say, of any sequence of layers.

Layer == Menu \cup NativeMenu \cup {Empty}

LastAt(S) == IF S = {} THEN 0 ELSE CHOOSE i \in S : \A j \in S : j <= i
SaysAt(ls, i, f) == IF i = 0 THEN Undef ELSE Value(ls[i][f])

Timeouts(ls) == {i \in 1..Len(ls) : Own(ls[i].timeout)}
Statuses(ls) == {i \in 1..Len(ls) : Own(ls[i].validateStatus) \/ Own(ls[i].throwHttpErrors)}
Searches(ls) == {i \in 1..Len(ls) : Given(ls[i].searchParams)}
Queries(ls) == {i \in 1..Len(ls) : Given(ls[i].query)}
Bodies(ls) == {i \in 1..Len(ls) : HasBodyConfig(ls[i])}

Naming(ls, n) == {i \in 1..Len(ls) : n \in DOMAIN Object(ls[i].query)}
QueryNames(ls, k) == UNION {DOMAIN Object(ls[i].query) : i \in (k + 1)..Len(ls)}
MergedAfter(ls, k) == [n \in QueryNames(ls, k) |-> ls[LastAt(Naming(ls, n))].query[n]]

Has(l, p) == p \in DOMAIN Object(l.extensions)
Switches(ls, p) == {i \in 1..Len(ls) : Has(ls[i], p) /\ ls[i].extensions[p] = Off}
Since(ls, p) == {i \in (LastAt(Switches(ls, p)) + 1)..Len(ls) : Has(ls[i], p)}
Giving(ls, p, n) == {i \in 1..Len(ls) : Has(ls[i], p) /\ ls[i].extensions[p] # Off /\ n \in DOMAIN ls[i].extensions[p]}
OptionNames(ls, p) == UNION {DOMAIN ls[i].extensions[p] : i \in Since(ls, p)}
OptionsOf(ls, p) ==
    IF Since(ls, p) = {} THEN Off
    ELSE [n \in OptionNames(ls, p) |-> ls[LastAt(Giving(ls, p, n))].extensions[p][n]]

StatusFits(ls, x) ==
    /\ Value(x.validateStatus) = SaysAt(ls, LastAt(Statuses(ls)), "validateStatus")
    /\ Value(x.throwHttpErrors) = SaysAt(ls, LastAt(Statuses(ls)), "throwHttpErrors")
QueryFits(ls, x) ==
    IF LastAt(Queries(ls)) > LastAt(Searches(ls))
    THEN Object(x.query) = MergedAfter(ls, LastAt(Searches(ls))) /\ ~Given(x.searchParams)
    ELSE /\ Value(x.searchParams) = SaysAt(ls, LastAt(Searches(ls)), "searchParams")
         /\ Value(x.query) = SaysAt(ls, LastAt(Searches(ls)), "query")
BodyFits(ls, x) ==
    /\ Value(x.body) = SaysAt(ls, LastAt(Bodies(ls)), "body")
    /\ Value(x.json) = SaysAt(ls, LastAt(Bodies(ls)), "json")
ExtensionsFit(ls, x) ==
    /\ DOMAIN Object(x.extensions) = UNION {DOMAIN Object(ls[i].extensions) : i \in 1..Len(ls)}
    /\ \A p \in DOMAIN Object(x.extensions) : x.extensions[p] = OptionsOf(ls, p)

(* A config that says what the layers say. *)
Fits(ls, x) ==
    /\ Shape(x) /\ (Given(x.query) => IsFunction(x.query))
    /\ Value(x.timeout) = SaysAt(ls, LastAt(Timeouts(ls)), "timeout")
    /\ StatusFits(ls, x) /\ QueryFits(ls, x) /\ BodyFits(ls, x) /\ ExtensionsFit(ls, x)

(* Every set of numbers has a least element. *)
LEMMA LeastNumber ==
  ASSUME NEW T \in SUBSET Nat, T # {}
  PROVE  \E m \in T : \A n \in T : m <= n
<1>1. PICK m \in T : \A n \in T : <<n, m>> \notin OpToRel(<, Nat)
  BY NatLessThanWellFounded, WFMin, Zenon
<1>2. \A n \in T : ~(n < m)
  BY <1>1 DEF OpToRel
<1> QED
  BY <1>2

(* The last of some layers. *)
LEMMA LastFacts ==
  ASSUME NEW n \in Nat, NEW S \in SUBSET (1..n)
  PROVE  /\ LastAt(S) \in 0..n /\ (S = {} <=> LastAt(S) = 0)
         /\ S # {} => LastAt(S) \in S
         /\ \A j \in S : j <= LastAt(S)
<1>1. CASE S = {}
  BY <1>1 DEF LastAt
<1>2. CASE S # {}
  <2> DEFINE T == {m \in Nat : \A j \in S : j <= m}
  <2>1. n \in T
    OBVIOUS
  <2>2. PICK m \in T : \A u \in T : m <= u
    <3> HIDE DEF T
    <3> QED
      BY <2>1, LeastNumber DEF T
  <2>3. m \in S
    <3>1. SUFFICES ASSUME m \notin S PROVE FALSE
      OBVIOUS
    <3>2. PICK j \in S : TRUE
      BY <1>2
    <3>3. m >= 1 /\ m - 1 \in Nat
      BY <3>2
    <3>4. \A i \in S : i <= m - 1
      BY <3>1
    <3>5. m - 1 \in T
      BY <3>3, <3>4
    <3> QED
      BY <2>2, <3>5
  <2>4. \E i \in S : \A j \in S : j <= i
    BY <2>2, <2>3
  <2> HIDE DEF T
  <2>5. LastAt(S) \in S /\ \A j \in S : j <= LastAt(S)
    BY <1>2, <2>4 DEF LastAt
  <2>6. LastAt(S) \in 1..n
    BY <2>5
  <2>7. LastAt(S) \in 0..n /\ LastAt(S) # 0
    BY <2>6
  <2> QED
    BY <1>2, <2>5, <2>7
<1> QED
  BY <1>1, <1>2

(* The last of the layers when one more is one of them. *)
LEMMA LastJoins ==
  ASSUME NEW n \in Nat, NEW S \in SUBSET (1..n)
  PROVE  LastAt(S \cup {n + 1}) = n + 1
<1>1. S \cup {n + 1} \in SUBSET (1..(n + 1)) /\ n + 1 \in Nat
  OBVIOUS
<1> QED
  BY <1>1, LastFacts

(* A function is determined by its values. *)
LEMMA SameFunction ==
  ASSUME NEW f, NEW g, IsFunction(f), IsFunction(g), DOMAIN f = DOMAIN g, \A x \in DOMAIN f : f[x] = g[x]
  PROVE  f = g
BY DEF IsFunction

(* What nobody gives spreads as an object without names. *)
LEMMA Objects ==
  ASSUME NEW x
  PROVE  /\ Object(Value(x)) = Object(x) /\ (Given(x) => Object(x) = x)
         /\ (~Given(x) => DOMAIN Object(x) = {} /\ Value(x) = Undef) /\ (Given(x) <=> Given(Value(x)))
         /\ (Given(x) => Value(x) = x)
<1>1. DOMAIN <<>> = {}
  OBVIOUS
<1> QED
  BY <1>1 DEF Object, Value, Given

(* The layers with one more. *)
LEMMA LayersJoin ==
  ASSUME NEW ls \in Seq(Layer), NEW c \in Layer
  PROVE  /\ Append(ls, c) \in Seq(Layer) /\ Len(ls) \in Nat /\ Len(Append(ls, c)) = Len(ls) + 1
         /\ \A i \in 1..Len(ls) : Append(ls, c)[i] = ls[i] /\ ls[i] \in Layer
         /\ Append(ls, c)[Len(ls) + 1] = c
OBVIOUS

(* The layers are configs. *)
LEMMA LayersAreConfigs == \A c \in Layer : IsConfig(c) /\ Shape(c)
<1>1. IsConfig(Empty)
  <2>1. Empty = [f \in DOMAIN Empty |-> Empty[f]]
    BY DEF Empty
  <2>2. ~Own(Empty.query) /\ ~Own(Empty.extensions) /\ Empty.searchParams = Absent
    BY DEF Empty, Own
  <2> QED
    BY <2>1, <2>2, ConfigAssumption DEF ConfigAssumption, IsConfig
<1> QED
  BY <1>1, ConfigsHaveShape, ConfigAssumption DEF ConfigAssumption, Layer

(* The timeout is that of the last layer that has one. *)
LEMMA TimeoutStep ==
  ASSUME NEW ls \in Seq(Layer), NEW c \in Layer, NEW d, Fits(ls, d), NEW x, MergeRule(x, d, c), NEW l, l = Append(ls, c)
  PROVE  Value(x.timeout) = SaysAt(l, LastAt(Timeouts(l)), "timeout")
<1> DEFINE n == Len(ls)
<1>1. /\ n \in Nat /\ Len(l) = n + 1 /\ l[n + 1] = c
      /\ \A i \in 1..n : l[i] = ls[i]
  BY LayersJoin
<1>2. Timeouts(ls) \in SUBSET (1..n)
  BY DEF Timeouts
<1>3. x.timeout = Over(d.timeout, c.timeout)
  BY DEF MergeRule
<1>4. Value(d.timeout) = SaysAt(ls, LastAt(Timeouts(ls)), "timeout")
  BY DEF Fits
<1> HIDE DEF n
<1>5. CASE Own(c.timeout)
  <2>1. Timeouts(l) = Timeouts(ls) \cup {n + 1}
    BY <1>1, <1>5 DEF Timeouts, n
  <2>2. LastAt(Timeouts(l)) = n + 1
    BY <1>1, <1>2, <2>1, LastJoins
  <2> QED
    BY <1>1, <1>3, <1>5, <2>2 DEF SaysAt, Over
<1>6. CASE ~Own(c.timeout)
  <2>1. Timeouts(l) = Timeouts(ls)
    BY <1>1, <1>6 DEF Timeouts, n
  <2>2. LastAt(Timeouts(ls)) \in 0..n
    BY <1>1, <1>2, LastFacts
  <2>3. SaysAt(l, LastAt(Timeouts(ls)), "timeout") = SaysAt(ls, LastAt(Timeouts(ls)), "timeout")
    BY <1>1, <2>2 DEF SaysAt
  <2> QED
    BY <1>3, <1>4, <1>6, <2>1, <2>3 DEF Over
<1> QED
  BY <1>5, <1>6

(* The status policy is that of the last layer that has one of its options. *)
LEMMA StatusStep ==
  ASSUME NEW ls \in Seq(Layer), NEW c \in Layer, NEW d, Fits(ls, d), NEW x, MergeRule(x, d, c), NEW l, l = Append(ls, c)
  PROVE  StatusFits(l, x)
<1> DEFINE n == Len(ls)
<1>1. /\ n \in Nat /\ Len(l) = n + 1 /\ l[n + 1] = c
      /\ \A i \in 1..n : l[i] = ls[i]
  BY LayersJoin
<1>2. Statuses(ls) \in SUBSET (1..n)
  BY DEF Statuses
<1>3. /\ x.validateStatus =
          IF Own(c.throwHttpErrors) /\ ~Own(c.validateStatus) THEN Undef ELSE Over(d.validateStatus, c.validateStatus)
      /\ x.throwHttpErrors =
          IF Own(c.validateStatus) /\ ~Own(c.throwHttpErrors) THEN Undef ELSE Over(d.throwHttpErrors, c.throwHttpErrors)
  BY DEF MergeRule
<1>4. StatusFits(ls, d)
  BY DEF Fits
<1> HIDE DEF n
<1>5. CASE Own(c.validateStatus) \/ Own(c.throwHttpErrors)
  <2>1. Statuses(l) = Statuses(ls) \cup {n + 1}
    BY <1>1, <1>5 DEF Statuses, n
  <2>2. LastAt(Statuses(l)) = n + 1
    BY <1>1, <1>2, <2>1, LastJoins
  <2>3. /\ SaysAt(l, n + 1, "validateStatus") = Value(c.validateStatus)
        /\ SaysAt(l, n + 1, "throwHttpErrors") = Value(c.throwHttpErrors)
    BY <1>1 DEF SaysAt
  <2> QED
    BY <1>3, <1>5, <2>2, <2>3 DEF StatusFits, Over, Value, Given, Own
<1>6. CASE ~(Own(c.validateStatus) \/ Own(c.throwHttpErrors))
  <2>1. Statuses(l) = Statuses(ls)
    BY <1>1, <1>6 DEF Statuses, n
  <2>2. LastAt(Statuses(ls)) \in 0..n
    BY <1>1, <1>2, LastFacts
  <2>3. \A f : SaysAt(l, LastAt(Statuses(ls)), f) = SaysAt(ls, LastAt(Statuses(ls)), f)
    BY <1>1, <2>2 DEF SaysAt
  <2> QED
    BY <1>3, <1>4, <1>6, <2>1, <2>3 DEF StatusFits, Over
<1> QED
  BY <1>5, <1>6

(* The body is that of the last layer that has one of its shortcuts. *)
LEMMA BodyStep ==
  ASSUME NEW ls \in Seq(Layer), NEW c \in Layer, NEW d, Fits(ls, d), NEW x, MergeRule(x, d, c), NEW l, l = Append(ls, c)
  PROVE  BodyFits(l, x)
<1> DEFINE n == Len(ls)
           r == SpreadOf(d, c)
<1>1. /\ n \in Nat /\ Len(l) = n + 1 /\ l[n + 1] = c
      /\ \A i \in 1..n : l[i] = ls[i]
  BY LayersJoin
<1>2. Bodies(ls) \in SUBSET (1..n)
  BY DEF Bodies
<1>3. /\ x.body = IF Resets(r, d, c) THEN Value(c.body) ELSE Over(d.body, c.body)
      /\ x.json = IF Resets(r, d, c) THEN Value(c.json) ELSE Over(d.json, c.json)
      /\ r.body = Over(d.body, c.body) /\ r.json = Over(d.json, c.json)
  BY DEF MergeRule, SpreadOf, Option
<1>4. BodyFits(ls, d)
  BY DEF Fits
<1> HIDE DEF n, r
<1>5. CASE HasBodyConfig(c)
  <2>1. Bodies(l) = Bodies(ls) \cup {n + 1}
    BY <1>1, <1>5 DEF Bodies, n
  <2>2. LastAt(Bodies(l)) = n + 1
    BY <1>1, <1>2, <2>1, LastJoins
  <2>3. SaysAt(l, n + 1, "body") = Value(c.body) /\ SaysAt(l, n + 1, "json") = Value(c.json)
    BY <1>1 DEF SaysAt
  <2>4. Value(x.body) = Value(c.body) /\ Value(x.json) = Value(c.json)
    <3>1. CASE Resets(r, d, c)
      BY <1>3, <3>1 DEF Value, Given
    <3>2. CASE ~Resets(r, d, c)
      <4>1. d.body = Absent /\ d.json = Absent /\ ~Given(r.body) /\ ~Given(r.json)
        BY <1>5, <3>2 DEF Resets, HasBodyConfig, HasBodyValue, Own
      <4> QED
        BY <1>3, <3>2, <4>1 DEF Value, Given, Over, Own
    <3> QED
      BY <3>1, <3>2
  <2> QED
    BY <2>2, <2>3, <2>4 DEF BodyFits
<1>6. CASE ~HasBodyConfig(c)
  <2>1. Bodies(l) = Bodies(ls)
    BY <1>1, <1>6 DEF Bodies, n
  <2>2. LastAt(Bodies(ls)) \in 0..n
    BY <1>1, <1>2, LastFacts
  <2>3. \A f : SaysAt(l, LastAt(Bodies(ls)), f) = SaysAt(ls, LastAt(Bodies(ls)), f)
    BY <1>1, <2>2 DEF SaysAt
  <2>4. x.body = d.body /\ x.json = d.json
    BY <1>3, <1>6 DEF HasBodyConfig, Resets, Over
  <2> QED
    BY <1>4, <2>1, <2>3, <2>4 DEF BodyFits
<1> QED
  BY <1>5, <1>6

(* A function with the values of o, and those of old where o has none. *)
Extends(new, old, o) ==
    /\ IsFunction(new) /\ IsFunction(old) /\ DOMAIN new = DOMAIN o \cup DOMAIN old
    /\ \A m \in DOMAIN o : new[m] = o[m]
    /\ \A m \in DOMAIN old \ DOMAIN o : new[m] = old[m]

(* The merged queries of the layers after the k-th, with one more layer. *)
LEMMA MergedJoins ==
  ASSUME NEW ls \in Seq(Layer), NEW c \in Layer, NEW l, l = Append(ls, c), NEW k \in 0..Len(ls)
  PROVE  Extends(MergedAfter(l, k), MergedAfter(ls, k), Object(c.query))
<1> DEFINE n == Len(ls)
<1>1. /\ n \in Nat /\ Len(l) = n + 1 /\ l[n + 1] = c
      /\ \A i \in 1..n : l[i] = ls[i]
  BY LayersJoin
<1>2. QueryNames(l, k) = DOMAIN Object(c.query) \cup QueryNames(ls, k)
  <2>1. (k + 1)..(n + 1) = ((k + 1)..n) \cup {n + 1} /\ (k + 1)..n \subseteq 1..n
    BY <1>1
  <2> QED
    BY <1>1, <2>1 DEF QueryNames
<1> HIDE DEF n
<1>3. ASSUME NEW m \in DOMAIN Object(c.query)
      PROVE  l[LastAt(Naming(l, m))].query[m] = Object(c.query)[m]
  <2>1. Naming(l, m) = Naming(ls, m) \cup {n + 1} /\ Naming(ls, m) \in SUBSET (1..n)
    BY <1>1, <1>3 DEF Naming, n
  <2>2. LastAt(Naming(l, m)) = n + 1
    BY <1>1, <2>1, LastJoins
  <2>3. Object(c.query) = c.query
    BY <1>3, Objects
  <2> QED
    BY <1>1, <2>2, <2>3
<1>4. ASSUME NEW m \in QueryNames(ls, k), m \notin DOMAIN Object(c.query)
      PROVE  l[LastAt(Naming(l, m))].query[m] = ls[LastAt(Naming(ls, m))].query[m]
  <2>1. Naming(l, m) = Naming(ls, m) /\ Naming(ls, m) \in SUBSET (1..n)
    BY <1>1, <1>4 DEF Naming, n
  <2>2. Naming(ls, m) # {}
    BY <1>1, <1>4 DEF QueryNames, Naming, n
  <2>3. LastAt(Naming(ls, m)) \in 1..n
    BY <1>1, <2>1, <2>2, LastFacts
  <2> QED
    BY <1>1, <2>1, <2>3
<1> QED
  BY <1>2, <1>3, <1>4 DEF MergedAfter, IsFunction, Extends

(* Search params replace what stands before them, later queries merge. *)
LEMMA QueryStep ==
  ASSUME ValuesApart,
         NEW ls \in Seq(Layer), NEW c \in Layer, NEW d, Fits(ls, d), NEW x, MergeRule(x, d, c), NEW l, l = Append(ls, c)
  PROVE  QueryFits(l, x) /\ (Given(x.query) => IsFunction(x.query))
<1> DEFINE n == Len(ls)
           r == SpreadOf(d, c)
           K == LastAt(Searches(ls))
           Q == LastAt(Queries(ls))
<1>1. /\ n \in Nat /\ Len(l) = n + 1 /\ l[n + 1] = c
      /\ \A i \in 1..n : l[i] = ls[i]
  BY LayersJoin
<1>2. Searches(ls) \in SUBSET (1..n) /\ Queries(ls) \in SUBSET (1..n)
  BY DEF Searches, Queries
<1>3. /\ QueryRule(x.query, x.searchParams, r, d, c)
      /\ r.query = Over(d.query, c.query) /\ r.searchParams = Over(d.searchParams, c.searchParams)
  BY DEF MergeRule, SpreadOf, Option
<1>4. /\ QueryFits(ls, d) /\ (Given(d.query) => IsFunction(d.query))
      /\ Q > K => Object(d.query) = MergedAfter(ls, K) /\ ~Given(d.searchParams)
      /\ ~(Q > K) => Value(d.searchParams) = SaysAt(ls, K, "searchParams") /\ Value(d.query) = SaysAt(ls, K, "query")
  BY Zenon DEF Fits, QueryFits
<1>5. /\ Own(c.query) => c.query # Undef /\ IsFunction(c.query)
      /\ c.searchParams # Undef
  BY LayersAreConfigs DEF IsConfig
<1>6. /\ K \in 0..n /\ (K # 0 => K \in Searches(ls)) /\ Q \in 0..n /\ \A j \in Queries(ls) : j <= Q
  <2> HIDE DEF n
  <2> QED
    BY <1>1, <1>2, LastFacts
<1>7. K \in 0..Len(ls)
  BY <1>6
<1>8. /\ Given(c.query) => Own(c.query) /\ r.query = c.query
      /\ Given(c.searchParams) => r.searchParams = c.searchParams
      /\ ~Given(c.query) => r.query = d.query
      /\ ~Given(c.searchParams) => r.searchParams = d.searchParams
  BY <1>3, <1>5 DEF Given, Over, Own
<1> HIDE DEF r
<1>9. CASE Given(c.searchParams)
  <2>1. x.query = Value(c.query) /\ x.searchParams = c.searchParams
    BY <1>3, <1>8, <1>9 DEF QueryRule, NoQuery
  <2>2. Searches(l) = Searches(ls) \cup {n + 1}
    BY <1>1, <1>9 DEF Searches
  <2>3. Queries(l) \in SUBSET (1..(n + 1))
    BY <1>1 DEF Queries
  <2> HIDE DEF n
  <2>4. LastAt(Searches(l)) = n + 1
    BY <1>1, <1>2, <2>2, LastJoins
  <2>5. LastAt(Queries(l)) \in 0..(n + 1)
    BY <1>1, <2>3, LastFacts
  <2>6. ~(LastAt(Queries(l)) > LastAt(Searches(l)))
    BY <1>1, <2>4, <2>5
  <2>7. /\ SaysAt(l, n + 1, "searchParams") = Value(c.searchParams)
        /\ SaysAt(l, n + 1, "query") = Value(c.query)
    BY <1>1 DEF SaysAt
  <2>8. Value(x.query) = Value(c.query) /\ Value(x.searchParams) = Value(c.searchParams)
    BY <2>1 DEF Value, Given
  <2>9. Given(x.query) => IsFunction(x.query)
    BY <1>5, <2>1 DEF Value, Given, Own
  <2> QED
    BY <2>4, <2>6, <2>7, <2>8, <2>9 DEF QueryFits
<1>10. CASE ~Given(c.searchParams) /\ Given(c.query)
  <2>1. x.query = Joined(QueryBase(d), c.query) /\ x.searchParams = Undef
    BY <1>3, <1>8, <1>10 DEF QueryRule, NoQuery
  <2>2. Searches(l) = Searches(ls) /\ Queries(l) = Queries(ls) \cup {n + 1}
    BY <1>1, <1>10 DEF Searches, Queries
  <2>3. LastAt(Queries(l)) = n + 1
    <3> HIDE DEF n
    <3> QED
      BY <1>1, <1>2, <2>2, LastJoins
  <2> DEFINE under == QueryBase(d)
             after == MergedAfter(ls, K)
  <2>4. DOMAIN under = DOMAIN after /\ \A m \in DOMAIN after : under[m] = after[m]
    <3>1. CASE Q > K
      BY <1>4, <3>1 DEF QueryFits, QueryBase
    <3>2. CASE ~(Q > K)
      <4>1. Value(d.searchParams) = SaysAt(ls, K, "searchParams") /\ Value(d.query) = SaysAt(ls, K, "query")
        BY <1>4, <3>2, Zenon
      <4>2. \A i \in (K + 1)..n : ~Given(ls[i].query)
        <5>1. SUFFICES ASSUME NEW i \in (K + 1)..n, Given(ls[i].query) PROVE FALSE
          OBVIOUS
        <5> HIDE DEF K, Q
        <5>2. K \in Nat /\ Q \in Nat /\ i \in Int /\ K + 1 <= i /\ i <= n
          BY <1>1, <1>6
        <5>3. i \in 1..n
          BY <1>1, <5>2
        <5>4. i \in Queries(ls)
          BY <5>1, <5>3 DEF Queries
        <5> QED
          BY <1>6, <3>2, <5>2, <5>4
      <4>3. \A i \in (K + 1)..n : DOMAIN Object(ls[i].query) = {}
        BY <4>2, Objects
      <4>4. DOMAIN after = {}
        BY <4>3 DEF MergedAfter, QueryNames
      <4>5. CASE Given(d.searchParams)
        BY <4>4, <4>5 DEF QueryBase
      <4>6. CASE ~Given(d.searchParams)
        <5>1. Value(d.searchParams) = Undef
          BY <4>6 DEF Value
        <5>2. K = 0
          BY <1>6, <4>1, <5>1 DEF SaysAt, Searches, Value, Given
        <5>3. ~Given(d.query)
          BY <4>1, <5>2 DEF SaysAt, Value, Given
        <5> QED
          BY <4>4, <4>6, <5>3, Objects DEF QueryBase
      <4> QED
        BY <4>5, <4>6
    <3> QED
      BY <3>1, <3>2
  <2> HIDE DEF under, after
  <2>6. Joined(QueryBase(d), c.query) = [m \in DOMAIN c.query \cup DOMAIN under |-> IF m \in DOMAIN c.query THEN c.query[m] ELSE under[m]]
    BY DEF Joined, under
  <2>7. IsFunction(Joined(QueryBase(d), c.query))
    BY <2>6 DEF IsFunction
  <2>8. Given(Joined(QueryBase(d), c.query))
    BY <2>7 DEF ValuesApart, Given
  <2>9. Object(c.query) = c.query /\ Object(x.query) = Joined(QueryBase(d), c.query)
    BY <1>10, <2>1, <2>8, Objects
  <2>10. Joined(QueryBase(d), c.query) = MergedAfter(l, K)
    <3>1. /\ DOMAIN MergedAfter(l, K) = DOMAIN c.query \cup DOMAIN after
          /\ \A m \in DOMAIN c.query : MergedAfter(l, K)[m] = c.query[m]
          /\ \A m \in DOMAIN after \ DOMAIN c.query : MergedAfter(l, K)[m] = after[m]
          /\ IsFunction(MergedAfter(l, K))
      <4> HIDE DEF K
      <4>1. Extends(MergedAfter(l, K), MergedAfter(ls, K), Object(c.query))
        BY <1>7, MergedJoins
      <4> QED
        BY <2>9, <4>1 DEF after, Extends
    <3>2. /\ DOMAIN Joined(QueryBase(d), c.query) = DOMAIN c.query \cup DOMAIN under
          /\ \A m \in DOMAIN c.query \cup DOMAIN under :
                Joined(QueryBase(d), c.query)[m] = IF m \in DOMAIN c.query THEN c.query[m] ELSE under[m]
      BY <2>6
    <3>3. \A m \in DOMAIN Joined(QueryBase(d), c.query) : Joined(QueryBase(d), c.query)[m] = MergedAfter(l, K)[m]
      BY <2>4, <3>1, <3>2
    <3> QED
      BY <2>4, <2>7, <3>1, <3>2, <3>3, SameFunction
  <2>11. ~Given(x.searchParams) /\ n + 1 > K
    BY <1>1, <1>6, <2>1 DEF Given
  <2> HIDE DEF n
  <2> QED
    BY <2>1, <2>2, <2>3, <2>7, <2>9, <2>10, <2>11 DEF QueryFits
<1>11. CASE ~Given(c.searchParams) /\ ~Given(c.query)
  <2>1. (x.query = d.query \/ x.query = Value(d.query)) /\ (x.searchParams = d.searchParams \/ x.searchParams = Value(d.searchParams))
    BY <1>3, <1>8, <1>11 DEF QueryRule
  <2>2. Object(x.query) = Object(d.query) /\ Value(x.query) = Value(d.query) /\ Value(x.searchParams) = Value(d.searchParams)
        /\ (Given(x.query) <=> Given(d.query)) /\ (Given(x.searchParams) <=> Given(d.searchParams))
        /\ (Given(x.query) => x.query = d.query)
    BY <2>1 DEF Object, Value, Given
  <2>3. Searches(l) = Searches(ls) /\ Queries(l) = Queries(ls)
    BY <1>1, <1>11 DEF Searches, Queries
  <2>4. MergedAfter(l, K) = MergedAfter(ls, K)
    <3>1. DOMAIN Object(c.query) = {}
      BY <1>11, Objects
    <3> HIDE DEF K
    <3>2. Extends(MergedAfter(l, K), MergedAfter(ls, K), Object(c.query))
      BY <1>7, MergedJoins
    <3> QED
      BY <3>1, <3>2, SameFunction DEF Extends
  <2>5. \A f : SaysAt(l, K, f) = SaysAt(ls, K, f)
    BY <1>1, <1>6 DEF SaysAt
  <2> HIDE DEF n
  <2> QED
    BY <1>4, <2>2, <2>3, <2>4, <2>5 DEF QueryFits
<1> QED
  BY <1>9, <1>10, <1>11

SameOptions(ls, l, p) == OptionsOf(l, p) = OptionsOf(ls, p)

(* A layer that says nothing of a plugin. *)
LEMMA PluginUnnamed ==
  ASSUME NEW ls \in Seq(Layer), NEW c \in Layer, NEW l, l = Append(ls, c), NEW p, ~Has(c, p)
  PROVE  SameOptions(ls, l, p)
<1> DEFINE n == Len(ls)
<1>1. /\ n \in Nat /\ Len(l) = n + 1 /\ l[n + 1] = c
      /\ \A i \in 1..n : l[i] = ls[i]
  BY LayersJoin
<1>2. Switches(l, p) = Switches(ls, p) /\ Switches(ls, p) \in SUBSET (1..n)
  BY <1>1 DEF Switches
<1>3. LastAt(Switches(ls, p)) \in 0..n
  <2> HIDE DEF n
  <2> QED
    BY <1>1, <1>2, LastFacts
<1>4. Since(l, p) = Since(ls, p) /\ Since(ls, p) \subseteq 1..n
  <2> DEFINE s == LastAt(Switches(ls, p))
  <2> HIDE DEF s, n
  <2>1. s \in 0..n
    BY <1>3 DEF s
  <2>2. (s + 1)..(n + 1) = ((s + 1)..n) \cup {n + 1} /\ (s + 1)..n \subseteq 1..n
    BY <1>1, <2>1
  <2>3. Since(l, p) = {i \in (s + 1)..(n + 1) : Has(l[i], p)} /\ Since(ls, p) = {i \in (s + 1)..n : Has(ls[i], p)}
    BY <1>1, <1>2 DEF Since, s, n
  <2> QED
    BY <1>1, <2>2, <2>3
<1>5. OptionNames(l, p) = OptionNames(ls, p)
  BY <1>1, <1>4 DEF OptionNames
<1>6. \A m : Giving(l, p, m) = Giving(ls, p, m)
  BY <1>1 DEF Giving
<1>7. ASSUME NEW m \in OptionNames(ls, p), Since(ls, p) # {}
      PROVE  l[LastAt(Giving(l, p, m))] = ls[LastAt(Giving(ls, p, m))]
  <2>1. PICK i \in Since(ls, p) : m \in DOMAIN ls[i].extensions[p]
    BY <1>7 DEF OptionNames
  <2>2. i \in 1..n /\ Has(ls[i], p) /\ i > LastAt(Switches(ls, p))
    BY <1>3, <1>4 DEF Since
  <2>3. i \notin Switches(ls, p)
    <3> HIDE DEF n
    <3>1. \A j \in Switches(ls, p) : j <= LastAt(Switches(ls, p))
      BY <1>1, <1>2, LastFacts
    <3>2. i \in Nat /\ LastAt(Switches(ls, p)) \in Nat
      BY <1>1, <1>3, <2>2
    <3> QED
      BY <2>2, <3>1, <3>2
  <2>4. i \in Giving(ls, p, m)
    BY <2>1, <2>2, <2>3 DEF Switches, Giving
  <2>5. Giving(ls, p, m) \in SUBSET (1..n)
    BY DEF Giving
  <2> HIDE DEF n
  <2>6. LastAt(Giving(ls, p, m)) \in 1..n
    BY <1>1, <2>4, <2>5, LastFacts
  <2> QED
    BY <1>1, <1>6, <2>6
<1> QED
  BY <1>4, <1>5, <1>7 DEF OptionsOf, SameOptions

(* Options o switch a plugin off, start anew or merge. *)
NamedRule(ls, l, p, o) ==
    /\ o = Off => OptionsOf(l, p) = Off
    /\ o # Off /\ Since(ls, p) = {} => OptionsOf(l, p) = o
    /\ o # Off /\ Since(ls, p) # {} => OptionsOf(l, p) = Joined(OptionsOf(ls, p), o)

(* A layer that gives a plugin options. *)
LEMMA PluginNamed ==
  ASSUME NEW ls \in Seq(Layer), NEW c \in Layer, NEW l, l = Append(ls, c), NEW p, Has(c, p)
  PROVE  NamedRule(ls, l, p, c.extensions[p])
<1> DEFINE n == Len(ls)
           o == c.extensions[p]
<1>1. /\ n \in Nat /\ Len(l) = n + 1 /\ l[n + 1] = c
      /\ \A i \in 1..n : l[i] = ls[i]
  BY LayersJoin
<1>2. Switches(ls, p) \in SUBSET (1..n)
  BY DEF Switches
<1>3. LastAt(Switches(ls, p)) \in 0..n
  <2> HIDE DEF n
  <2> QED
    BY <1>1, <1>2, LastFacts
<1>4. ASSUME o = Off
      PROVE  OptionsOf(l, p) = Off
  <2>1. Switches(l, p) = Switches(ls, p) \cup {n + 1}
    BY <1>1, <1>4 DEF Switches
  <2>2. LastAt(Switches(l, p)) = n + 1
    <3> HIDE DEF n
    <3> QED
      BY <1>1, <1>2, <2>1, LastJoins
  <2>3. Since(l, p) = {}
    BY <1>1, <2>2 DEF Since
  <2> QED
    BY <2>3 DEF OptionsOf
<1>5. ASSUME o # Off
      PROVE  /\ Since(ls, p) = {} => OptionsOf(l, p) = o
             /\ Since(ls, p) # {} => OptionsOf(l, p) = Joined(OptionsOf(ls, p), o)
  <2>1. Switches(l, p) = Switches(ls, p)
    BY <1>1, <1>5 DEF Switches
  <2>2. Since(l, p) = Since(ls, p) \cup {n + 1} /\ Since(ls, p) \subseteq 1..n
    <3> DEFINE s == LastAt(Switches(ls, p))
    <3> HIDE DEF s, n
    <3>1. s \in 0..n
      BY <1>3 DEF s
    <3>2. (s + 1)..(n + 1) = ((s + 1)..n) \cup {n + 1} /\ (s + 1)..n \subseteq 1..n
      BY <1>1, <3>1
    <3>3. Since(l, p) = {i \in (s + 1)..(n + 1) : Has(l[i], p)} /\ Since(ls, p) = {i \in (s + 1)..n : Has(ls[i], p)}
      BY <1>1, <2>1 DEF Since, s, n
    <3> QED
      BY <1>1, <3>2, <3>3
  <2>3. OptionNames(l, p) = OptionNames(ls, p) \cup DOMAIN o
    BY <1>1, <2>2 DEF OptionNames
  <2>4. ASSUME NEW m \in DOMAIN o
        PROVE  l[LastAt(Giving(l, p, m))].extensions[p][m] = o[m]
    <3>1. Giving(l, p, m) = Giving(ls, p, m) \cup {n + 1} /\ Giving(ls, p, m) \in SUBSET (1..n)
      BY <1>1, <1>5, <2>4 DEF Giving
    <3>2. LastAt(Giving(l, p, m)) = n + 1
      <4> HIDE DEF n
      <4> QED
        BY <1>1, <3>1, LastJoins
    <3> QED
      BY <1>1, <3>2
  <2>5. ASSUME NEW m \in OptionNames(ls, p), m \notin DOMAIN o
        PROVE  l[LastAt(Giving(l, p, m))] = ls[LastAt(Giving(ls, p, m))]
    <3>1. Giving(l, p, m) = Giving(ls, p, m) /\ Giving(ls, p, m) \in SUBSET (1..n)
      BY <1>1, <2>5 DEF Giving
    <3>2. PICK i \in Since(ls, p) : m \in DOMAIN ls[i].extensions[p]
      BY <2>5 DEF OptionNames
    <3>3. i \in 1..n /\ Has(ls[i], p) /\ i > LastAt(Switches(ls, p))
      BY <1>3, <2>2 DEF Since
    <3>4. i \notin Switches(ls, p)
      <4> HIDE DEF n
      <4>1. \A j \in Switches(ls, p) : j <= LastAt(Switches(ls, p))
        BY <1>1, <1>2, LastFacts
      <4>2. i \in Nat /\ LastAt(Switches(ls, p)) \in Nat
        BY <1>1, <1>3, <3>3
      <4> QED
        BY <3>3, <4>1, <4>2
    <3>5. i \in Giving(ls, p, m)
      BY <3>2, <3>3, <3>4 DEF Switches, Giving
    <3> HIDE DEF n
    <3>6. LastAt(Giving(ls, p, m)) \in 1..n
      BY <1>1, <3>1, <3>5, LastFacts
    <3> QED
      BY <1>1, <3>1, <3>6
  <2>6. OptionsOf(l, p) = [m \in OptionNames(ls, p) \cup DOMAIN o |-> l[LastAt(Giving(l, p, m))].extensions[p][m]]
    BY <2>2, <2>3 DEF OptionsOf
  <2>7. IsFunction(o)
    BY <1>5, LayersAreConfigs, Objects DEF IsConfig, Has, Given, Own
  <2> HIDE DEF o
  <2>8. CASE Since(ls, p) = {}
    <3>1. OptionNames(ls, p) = {}
      BY <2>8 DEF OptionNames
    <3>2. OptionsOf(l, p) = [m \in DOMAIN o |-> o[m]]
      BY <2>4, <2>6, <3>1
    <3> QED
      BY <2>7, <2>8, <3>2 DEF IsFunction
  <2>9. CASE Since(ls, p) # {}
    <3>1. OptionsOf(ls, p) = [m \in OptionNames(ls, p) |-> ls[LastAt(Giving(ls, p, m))].extensions[p][m]]
      BY <2>9 DEF OptionsOf
    <3>2. Joined(OptionsOf(ls, p), o) = [m \in OptionNames(ls, p) \cup DOMAIN o |->
              IF m \in DOMAIN o THEN o[m] ELSE ls[LastAt(Giving(ls, p, m))].extensions[p][m]]
      BY <3>1 DEF Joined
    <3> QED
      BY <2>4, <2>5, <2>6, <2>9, <3>2
  <2> QED
    BY <2>8, <2>9
<1> HIDE DEF o
<1>6. NamedRule(ls, l, p, o)
  BY <1>4, <1>5 DEF NamedRule
<1> QED
  BY <1>6 DEF o

(* The options of a plugin are those merged since it was switched off. *)
LEMMA ExtensionsStep ==
  ASSUME ValuesApart,
         NEW ls \in Seq(Layer), NEW c \in Layer, NEW d, Fits(ls, d), NEW x, MergeRule(x, d, c), NEW l, l = Append(ls, c)
  PROVE  ExtensionsFit(l, x)
<1> DEFINE n == Len(ls)
           lower == Object(d.extensions)
           upper == Object(c.extensions)
           over == Over(d.extensions, c.extensions)
<1>1. /\ n \in Nat /\ Len(l) = n + 1 /\ l[n + 1] = c
      /\ \A i \in 1..n : l[i] = ls[i]
  BY LayersJoin
<1>2. x.extensions = IF Given(over) THEN PluginsMerged(lower, upper) ELSE over
  BY DEF MergeRule
<1>3. DOMAIN lower = UNION {DOMAIN Object(ls[i].extensions) : i \in 1..n}
      /\ \A p \in DOMAIN lower : d.extensions[p] = OptionsOf(ls, p)
  BY DEF Fits, ExtensionsFit
<1>4. \A p \in DOMAIN lower : lower[p] = OptionsOf(ls, p)
  BY <1>3, Objects
<1>5. DOMAIN Object(x.extensions) = DOMAIN lower \cup DOMAIN upper
      /\ \A p \in DOMAIN lower \cup DOMAIN upper : x.extensions[p] = PluginMerged(lower, upper, p)
  <2>1. CASE Given(over)
    <3> HIDE DEF lower, upper
    <3>1. IsFunction(PluginsMerged(lower, upper)) /\ DOMAIN PluginsMerged(lower, upper) = DOMAIN lower \cup DOMAIN upper
          /\ \A p \in DOMAIN lower \cup DOMAIN upper : PluginsMerged(lower, upper)[p] = PluginMerged(lower, upper, p)
      BY DEF PluginsMerged, IsFunction
    <3>2. Given(PluginsMerged(lower, upper))
      BY <3>1 DEF ValuesApart, Given
    <3> QED
      BY <1>2, <2>1, <3>1, <3>2, Objects
  <2>2. CASE ~Given(over)
    <3>1. Own(c.extensions) => c.extensions # Undef
      BY LayersAreConfigs DEF IsConfig
    <3>2. ~Given(c.extensions) /\ ~Given(d.extensions)
      BY <2>2, <3>1 DEF Given, Own, Over
    <3>3. DOMAIN lower = {} /\ DOMAIN upper = {}
      BY <3>2, Objects
    <3>4. DOMAIN Object(x.extensions) = {}
      BY <1>2, <2>2, Objects
    <3> QED
      BY <3>3, <3>4
  <2> QED
    BY <2>1, <2>2
<1>6. UNION {DOMAIN Object(l[i].extensions) : i \in 1..(n + 1)} = DOMAIN lower \cup DOMAIN upper
  <2>1. 1..(n + 1) = (1..n) \cup {n + 1}
    BY <1>1
  <2> QED
    BY <1>1, <1>3, <2>1
<1>7. ASSUME NEW p \in DOMAIN lower \cup DOMAIN upper
      PROVE  PluginMerged(lower, upper, p) = OptionsOf(l, p)
  <2>1. CASE p \notin DOMAIN upper
    <3>1. p \in DOMAIN lower
      BY <1>7, <2>1
    <3>2. OptionsOf(l, p) = OptionsOf(ls, p)
      <4>1. ~Has(c, p)
        BY <2>1 DEF Has
      <4>2. SameOptions(ls, l, p)
        BY <4>1, PluginUnnamed
      <4> QED
        BY <4>2 DEF SameOptions
    <3>3. PluginMerged(lower, upper, p) = lower[p]
      BY <2>1, Zenon DEF PluginMerged
    <3>4. lower[p] = OptionsOf(ls, p)
      BY <1>4, <3>1
    <3> QED
      BY <3>2, <3>3, <3>4
  <2>2. CASE p \in DOMAIN upper
    <3>1. Has(c, p) /\ upper[p] = c.extensions[p]
      BY <2>2, Objects DEF Has
    <3>2. /\ upper[p] = Off => OptionsOf(l, p) = Off
          /\ upper[p] # Off /\ Since(ls, p) = {} => OptionsOf(l, p) = upper[p]
          /\ upper[p] # Off /\ Since(ls, p) # {} => OptionsOf(l, p) = Joined(OptionsOf(ls, p), upper[p])
      <4>1. NamedRule(ls, l, p, c.extensions[p])
        BY <3>1, PluginNamed
      <4> HIDE DEF upper
      <4>2. NamedRule(ls, l, p, upper[p])
        BY <3>1, <4>1
      <4> QED
        BY <4>2 DEF NamedRule
    <3>3. CASE p \notin DOMAIN lower
      <4>1. Since(ls, p) = {}
        <5>1. Switches(ls, p) \in SUBSET (1..n)
          BY DEF Switches
        <5>2. LastAt(Switches(ls, p)) \in 0..n
          <6> HIDE DEF n
          <6> QED
            BY <1>1, <5>1, LastFacts
        <5>3. \A i \in (LastAt(Switches(ls, p)) + 1)..n : i \in 1..n
          BY <1>1, <5>2
        <5> QED
          BY <1>3, <3>3, <5>3 DEF Since, Has
      <4> QED
        BY <2>2, <3>2, <3>3, <4>1 DEF PluginMerged
    <3>4. CASE p \in DOMAIN lower
      <4>1. PluginMerged(lower, upper, p) = MergedOptions(lower[p], upper[p]) /\ lower[p] = OptionsOf(ls, p)
        BY <1>4, <2>2, <3>4 DEF PluginMerged
      <4>2. OptionsOf(ls, p) = Off <=> Since(ls, p) = {}
        <5>1. Since(ls, p) # {} => IsFunction(OptionsOf(ls, p))
          BY DEF OptionsOf, IsFunction
        <5> QED
          BY <5>1 DEF OptionsOf, ValuesApart
      <4> HIDE DEF lower, upper
      <4> QED
        BY <3>2, <4>1, <4>2 DEF MergedOptions
    <3> QED
      BY <3>3, <3>4
  <2> QED
    BY <2>1, <2>2
<1> HIDE DEF lower, upper
<1>8. DOMAIN Object(x.extensions) = UNION {DOMAIN Object(l[i].extensions) : i \in 1..Len(l)}
  BY <1>1, <1>5, <1>6
<1> QED
  BY <1>5, <1>7, <1>8 DEF ExtensionsFit

(* One more layer. *)
LEMMA FitsJoins ==
  ASSUME ValuesApart, NEW ls \in Seq(Layer), NEW c \in Layer, NEW d, Fits(ls, d)
  PROVE  Fits(Append(ls, c), Merge(d, c))
<1> DEFINE x == Merge(d, c)
           l == Append(ls, c)
<1>1. Shape(x) /\ MergeRule(x, d, c)
  BY MergeFacts, LayersAreConfigs DEF Fits
<1> HIDE DEF x, l
<1>2. l = Append(ls, c)
  BY DEF l
<1>3. Value(x.timeout) = SaysAt(l, LastAt(Timeouts(l)), "timeout")
  BY <1>1, <1>2, TimeoutStep
<1>4. StatusFits(l, x) /\ BodyFits(l, x)
  BY <1>1, <1>2, StatusStep, BodyStep
<1>5. QueryFits(l, x) /\ (Given(x.query) => IsFunction(x.query))
  BY <1>1, <1>2, QueryStep
<1>6. ExtensionsFit(l, x)
  BY <1>1, <1>2, ExtensionsStep
<1>7. Fits(l, x)
  BY <1>1, <1>3, <1>4, <1>5, <1>6 DEF Fits
<1> QED
  BY <1>7 DEF l, x

(* Configs a reader cannot tell apart. *)
Same(x, y) ==
    /\ Shape(y) /\ (Given(y.query) => IsFunction(y.query))
    /\ Value(x.timeout) = Value(y.timeout)
    /\ Value(x.validateStatus) = Value(y.validateStatus) /\ Value(x.throwHttpErrors) = Value(y.throwHttpErrors)
    /\ Value(x.query) = Value(y.query) /\ Value(x.searchParams) = Value(y.searchParams)
    /\ Value(x.body) = Value(y.body) /\ Value(x.json) = Value(y.json)
    /\ DOMAIN Object(x.extensions) = DOMAIN Object(y.extensions)
    /\ \A p \in DOMAIN Object(x.extensions) : x.extensions[p] = y.extensions[p]

LEMMA SameFits ==
  ASSUME NEW ls, NEW x, NEW y, Fits(ls, x), Same(x, y)
  PROVE  Fits(ls, y)
<1>1. Object(x.query) = Object(y.query) /\ (Given(x.searchParams) <=> Given(y.searchParams))
  BY Objects DEF Same
<1>2. Shape(y) /\ (Given(y.query) => IsFunction(y.query))
      /\ Value(y.timeout) = SaysAt(ls, LastAt(Timeouts(ls)), "timeout")
  BY DEF Same, Fits
<1>3. StatusFits(ls, y)
  BY DEF Same, Fits, StatusFits
<1>4. QueryFits(ls, y)
  <2>1. QueryFits(ls, x) /\ Value(x.query) = Value(y.query) /\ Value(x.searchParams) = Value(y.searchParams)
    BY DEF Same, Fits
  <2> QED
    BY <1>1, <2>1 DEF QueryFits
<1>5. BodyFits(ls, y)
  BY DEF Same, Fits, BodyFits
<1>6. ExtensionsFit(ls, y)
  BY DEF Same, Fits, ExtensionsFit
<1> QED
  BY <1>2, <1>3, <1>4, <1>5, <1>6 DEF Fits

(* What the empty config has. *)
LEMMA EmptyHasNothing == Shape(Empty) /\ \A f \in Option : Empty[f] = Absent /\ ~Own(Empty[f]) /\ ~Given(Empty[f])
BY DEF Shape, Option, Empty, Own, Given

(* A client's constructor merges its options over the empty config. *)
LEMMA ConstructKeeps ==
  ASSUME ValuesApart, NEW x, Shape(x), Given(x.query) => IsFunction(x.query)
  PROVE  Same(x, Merge(Empty, x))
<1> DEFINE y == Merge(Empty, x)
           r == SpreadOf(Empty, x)
<1>1. Shape(y) /\ MergeRule(y, Empty, x)
  BY MergeFacts, EmptyHasNothing
<1>2. \A f \in Option : Over(Empty[f], x[f]) = x[f]
  BY EmptyHasNothing DEF Over, Own
<1>3. /\ r.query = x.query /\ r.searchParams = x.searchParams
      /\ Over(Empty.timeout, x.timeout) = x.timeout
      /\ Over(Empty.validateStatus, x.validateStatus) = x.validateStatus
      /\ Over(Empty.throwHttpErrors, x.throwHttpErrors) = x.throwHttpErrors
      /\ Over(Empty.extensions, x.extensions) = x.extensions
      /\ Over(Empty.body, x.body) = x.body /\ Over(Empty.json, x.json) = x.json
  BY <1>2 DEF Option, SpreadOf
<1>4. ~Given(Empty.searchParams) /\ ~Given(Empty.query) /\ ~Given(Empty.extensions)
  BY EmptyHasNothing DEF Option
<1> HIDE DEF y, r
<1>5. Value(x.timeout) = Value(y.timeout) /\ Value(x.body) = Value(y.body) /\ Value(x.json) = Value(y.json)
  BY <1>1, <1>3 DEF MergeRule, Value, Given
<1>6. Value(x.validateStatus) = Value(y.validateStatus) /\ Value(x.throwHttpErrors) = Value(y.throwHttpErrors)
  BY <1>1, <1>3 DEF MergeRule, Value, Given, Own
<1>7. Value(x.query) = Value(y.query) /\ Value(x.searchParams) = Value(y.searchParams)
      /\ (Given(y.query) => IsFunction(y.query))
  <2>1. QueryRule(y.query, y.searchParams, r, Empty, x)
    BY <1>1 DEF MergeRule, r
  <2>2. Given(x.query) => Joined(QueryBase(Empty), x.query) = x.query
    <3>1. QueryBase(Empty) = <<>> /\ DOMAIN <<>> = {}
      BY <1>4 DEF QueryBase, Object
    <3> QED
      BY <3>1 DEF Joined, IsFunction
  <2>3. Given(Undef) = FALSE
    BY DEF Given
  <2> QED
    BY <1>3, <2>1, <2>2, <2>3 DEF QueryRule, NoQuery, Value
<1>8. DOMAIN Object(x.extensions) = DOMAIN Object(y.extensions)
      /\ \A p \in DOMAIN Object(x.extensions) : x.extensions[p] = y.extensions[p]
  <2>1. y.extensions = IF Given(x.extensions) THEN PluginsMerged(Object(Empty.extensions), Object(x.extensions)) ELSE x.extensions
    BY <1>1, <1>3 DEF MergeRule
  <2>2. CASE ~Given(x.extensions)
    BY <2>1, <2>2
  <2>3. CASE Given(x.extensions)
    <3>1. DOMAIN Object(Empty.extensions) = {} /\ Object(x.extensions) = x.extensions
      BY <1>4, <2>3, Objects
    <3>2. /\ DOMAIN y.extensions = DOMAIN x.extensions
          /\ \A p \in DOMAIN x.extensions : y.extensions[p] = x.extensions[p]
      BY <2>1, <2>3, <3>1 DEF PluginsMerged, PluginMerged
    <3>3. IsFunction(y.extensions)
      BY <2>1, <2>3 DEF PluginsMerged, IsFunction
    <3>4. Object(y.extensions) = y.extensions
      BY <3>3, Objects DEF ValuesApart, Given
    <3> QED
      BY <3>1, <3>2, <3>4
  <2> QED
    BY <2>2, <2>3
<1>9. Same(x, y)
  BY <1>1, <1>5, <1>6, <1>7, <1>8 DEF Same
<1> QED
  BY <1>9 DEF y

(* The empty config changes nothing. *)
LEMMA EmptyKeeps ==
  ASSUME ValuesApart, NEW x, Shape(x), Given(x.query) => IsFunction(x.query)
  PROVE  Same(x, Merge(x, Empty))
<1> DEFINE y == Merge(x, Empty)
           r == SpreadOf(x, Empty)
<1>1. Shape(y) /\ MergeRule(y, x, Empty)
  BY MergeFacts, EmptyHasNothing
<1>2. \A f \in Option : Over(x[f], Empty[f]) = x[f]
  BY EmptyHasNothing DEF Over, Own
<1>3. /\ r.query = x.query /\ r.searchParams = x.searchParams
      /\ Over(x.timeout, Empty.timeout) = x.timeout
      /\ Over(x.validateStatus, Empty.validateStatus) = x.validateStatus
      /\ Over(x.throwHttpErrors, Empty.throwHttpErrors) = x.throwHttpErrors
      /\ Over(x.extensions, Empty.extensions) = x.extensions
      /\ Over(x.body, Empty.body) = x.body /\ Over(x.json, Empty.json) = x.json
  BY <1>2 DEF Option, SpreadOf
<1>4. /\ ~Given(Empty.searchParams) /\ ~Given(Empty.query) /\ ~Given(Empty.extensions)
      /\ ~Own(Empty.body) /\ ~Own(Empty.json) /\ ~Own(Empty.validateStatus) /\ ~Own(Empty.throwHttpErrors)
  BY EmptyHasNothing DEF Option
<1> HIDE DEF y, r
<1>5. Value(x.timeout) = Value(y.timeout) /\ Value(x.body) = Value(y.body) /\ Value(x.json) = Value(y.json)
  BY <1>1, <1>3, <1>4 DEF MergeRule, Resets, HasBodyConfig
<1>6. Value(x.validateStatus) = Value(y.validateStatus) /\ Value(x.throwHttpErrors) = Value(y.throwHttpErrors)
  BY <1>1, <1>3, <1>4 DEF MergeRule
<1>7. Value(x.query) = Value(y.query) /\ Value(x.searchParams) = Value(y.searchParams)
      /\ (Given(y.query) => IsFunction(y.query))
  <2>1. QueryRule(y.query, y.searchParams, r, x, Empty)
    BY <1>1 DEF MergeRule, r
  <2>2. (y.query = x.query \/ y.query = Value(x.query)) /\ (y.searchParams = x.searchParams \/ y.searchParams = Value(x.searchParams))
    BY <1>3, <1>4, <2>1 DEF QueryRule
  <2> QED
    BY <2>2 DEF Value, Given
<1>8. DOMAIN Object(x.extensions) = DOMAIN Object(y.extensions)
      /\ \A p \in DOMAIN Object(x.extensions) : x.extensions[p] = y.extensions[p]
  <2>1. y.extensions = IF Given(x.extensions) THEN PluginsMerged(Object(x.extensions), Object(Empty.extensions)) ELSE x.extensions
    BY <1>1, <1>3 DEF MergeRule
  <2>2. CASE ~Given(x.extensions)
    BY <2>1, <2>2
  <2>3. CASE Given(x.extensions)
    <3>1. DOMAIN Object(Empty.extensions) = {} /\ Object(x.extensions) = x.extensions
      BY <1>4, <2>3, Objects
    <3>2. /\ DOMAIN y.extensions = DOMAIN x.extensions
          /\ \A p \in DOMAIN x.extensions : y.extensions[p] = x.extensions[p]
      BY <2>1, <2>3, <3>1 DEF PluginsMerged, PluginMerged
    <3>3. IsFunction(y.extensions)
      BY <2>1, <2>3 DEF PluginsMerged, IsFunction
    <3>4. Object(y.extensions) = y.extensions
      BY <3>3, Objects DEF ValuesApart, Given
    <3> QED
      BY <3>1, <3>2, <3>4
  <2> QED
    BY <2>2, <2>3
<1>9. Same(x, y)
  BY <1>1, <1>5, <1>6, <1>7, <1>8 DEF Same
<1> QED
  BY <1>9 DEF y

-----------------------------------------------------------------------------
(* The defaults say what the layers say, and so does what is sent. *)
ConfigInv ==
    /\ layers \in Seq(Layer)
    /\ sent = Absent => Fits(layers, defaults)
    /\ sent # Absent => Fits(layers, sent)

(* A merged config is not nothing. *)
LEMMA MergedIsThere ==
  ASSUME ValuesApart, NEW x, Shape(x)
  PROVE  x # Absent
<1>1. IsFunction(x)
  BY DEF Shape, IsFunction
<1> QED
  BY <1>1 DEF ValuesApart

(* The first client. *)
LEMMA ConfigInit == ASSUME ValuesApart, Init PROVE ConfigInv
<1>1. PICK c \in Menu : layers = <<c>> /\ defaults = Merge(Empty, c)
  BY DEF Init
<1>2. c \in Layer /\ Empty \in Layer /\ <<>> \in Seq(Layer) /\ Append(<<>>, c) = <<c>>
  BY DEF Layer
<1>3. Fits(<<>>, Empty)
  <2>2. Len(<<>>) = 0 /\ 1..0 = {} /\ DOMAIN Object(Empty.extensions) = {}
    BY EmptyHasNothing, Objects DEF Option
  <2>3. Timeouts(<<>>) = {} /\ Statuses(<<>>) = {} /\ Searches(<<>>) = {} /\ Queries(<<>>) = {} /\ Bodies(<<>>) = {}
    BY <2>2 DEF Timeouts, Statuses, Searches, Queries, Bodies
  <2>4. LastAt({}) = 0
    BY DEF LastAt
  <2>5. \A f \in Option : Value(Empty[f]) = Undef /\ ~Given(Empty[f])
    BY EmptyHasNothing DEF Value
  <2>6. /\ Value(Empty.timeout) = Undef /\ Value(Empty.validateStatus) = Undef /\ Value(Empty.throwHttpErrors) = Undef
        /\ Value(Empty.query) = Undef /\ Value(Empty.searchParams) = Undef /\ ~Given(Empty.query)
        /\ Value(Empty.body) = Undef /\ Value(Empty.json) = Undef
    BY <2>5 DEF Option
  <2>7. ExtensionsFit(<<>>, Empty)
    BY <2>2 DEF ExtensionsFit
  <2>8. StatusFits(<<>>, Empty) /\ BodyFits(<<>>, Empty)
    BY <2>3, <2>4, <2>6 DEF StatusFits, BodyFits, SaysAt
  <2>9. QueryFits(<<>>, Empty)
    <3>1. LastAt(Queries(<<>>)) = 0 /\ LastAt(Searches(<<>>)) = 0
      BY <2>3, <2>4, Zenon
    <3>2. ~(LastAt(Queries(<<>>)) > LastAt(Searches(<<>>)))
      BY <3>1
    <3>3. \A f : SaysAt(<<>>, LastAt(Searches(<<>>)), f) = Undef
      BY <3>1 DEF SaysAt
    <3> QED
      BY <2>6, <3>2, <3>3, Zenon DEF QueryFits
  <2> QED
    BY <2>3, <2>4, <2>6, <2>7, <2>8, <2>9, EmptyHasNothing DEF Fits, SaysAt
<1>4. Fits(layers, defaults)
  BY <1>1, <1>2, <1>3, FitsJoins
<1> QED
  BY <1>1, <1>2, <1>4 DEF ConfigInv, Init

(* extend() and the ways to make a request. *)
LEMMA ConfigStep == ASSUME ValuesApart, ConfigInv, Next PROVE ConfigInv'
<1>1. /\ Menu \subseteq Layer /\ NativeMenu \subseteq Layer /\ Empty \in Layer /\ sent = Absent
      /\ layers \in Seq(Layer) /\ Fits(layers, defaults)
  BY DEF Layer, ConfigInv, Next, Extend, RequestConfig, RequestNative
<1>2. CASE Extend
  <2>1. PICK c \in Menu : layers' = Append(layers, c) /\ defaults' = Merge(Empty, Merge(defaults, c)) /\ sent' = sent
    BY <1>2 DEF Extend, Construct
  <2>2. Fits(layers', Merge(defaults, c))
    BY <1>1, <2>1, FitsJoins
  <2>3. Shape(Merge(defaults, c)) /\ (Given(Merge(defaults, c).query) => IsFunction(Merge(defaults, c).query))
    BY <2>2 DEF Fits
  <2>4. Fits(layers', defaults')
    BY <2>1, <2>2, <2>3, ConstructKeeps, SameFits
  <2> QED
    BY <1>1, <2>1, <2>4 DEF ConfigInv
<1>3. CASE RequestConfig
  <2>1. PICK c \in Menu : layers' = Append(layers, c) /\ sent' = Merge(defaults, c)
    BY <1>3 DEF RequestConfig
  <2>2. Fits(layers', sent')
    BY <1>1, <2>1, FitsJoins
  <2>3. sent' # Absent
    BY <2>2, MergedIsThere DEF Fits
  <2> QED
    BY <1>1, <2>1, <2>2, <2>3 DEF ConfigInv
<1>4. CASE RequestNative
  <2>1. PICK n \in NativeMenu, o \in Menu :
          /\ layers' = layers \o <<n, o>>
          /\ sent' = IF o = Empty THEN Merge(defaults, n) ELSE Merge(Merge(defaults, n), o)
    BY <1>4 DEF RequestNative
  <2> DEFINE l == Append(layers, n)
             x == Merge(defaults, n)
  <2>2. l \in Seq(Layer) /\ layers' = Append(l, o) /\ layers' \in Seq(Layer)
    BY <1>1, <2>1
  <2>3. Fits(l, x)
    BY <1>1, FitsJoins
  <2> HIDE DEF l, x
  <2>4. Fits(Append(l, o), Merge(x, o))
    BY <1>1, <2>2, <2>3, FitsJoins
  <2>5. CASE o # Empty
    <3>1. sent' = Merge(x, o)
      BY <2>1, <2>5 DEF x
    <3> QED
      BY <2>2, <2>4, <3>1, MergedIsThere DEF ConfigInv, Fits
  <2>6. CASE o = Empty
    <3>1. Shape(x) /\ (Given(x.query) => IsFunction(x.query))
      BY <2>3 DEF Fits
    <3>2. Same(x, Merge(x, o))
      BY <2>6, <3>1, EmptyKeeps
    <3>3. Same(Merge(x, o), x)
      BY <3>1, <3>2 DEF Same
    <3>4. sent' = x
      BY <2>1, <2>6 DEF x
    <3> QED
      BY <2>2, <2>4, <3>1, <3>3, <3>4, SameFits, MergedIsThere DEF ConfigInv
  <2> QED
    BY <2>5, <2>6
<1> QED
  BY <1>2, <1>3, <1>4 DEF Next

(* What the run checks, from the invariant. *)
LEMMA LayersDo == ASSUME ConfigInv PROVE LayersDecide
<1>1. SUFFICES ASSUME sent # Absent PROVE LayersDecide
  BY DEF LayersDecide
<1>2. Fits(layers, sent)
  BY <1>1 DEF ConfigInv
<1>3. Value(sent.timeout) = Says(LastOf(LAMBDA l : Own(l.timeout)), "timeout")
  BY <1>2 DEF Fits, Says, SaysAt, LastOf, LastAt, Timeouts
<1>4. StatusExpected
  BY <1>2 DEF Fits, StatusFits, StatusExpected, Says, SaysAt, LastOf, LastAt, Statuses
<1>5. BodyExpected
  BY <1>2 DEF Fits, BodyFits, BodyExpected, Says, SaysAt, LastOf, LastAt, Bodies
<1>6. QueryExpected
  <2>1. \A k : Merged(k, "query") = MergedAfter(layers, k)
    BY Zenon DEF Merged, MergedAfter, QueryNames, Naming, LastOf, LastAt
  <2>2. LastOf(LAMBDA l : Given(l.searchParams)) = LastAt(Searches(layers))
        /\ LastOf(LAMBDA l : Given(l.query)) = LastAt(Queries(layers))
    BY Zenon DEF LastOf, LastAt, Searches, Queries
  <2>3. \A i, f : Says(i, f) = SaysAt(layers, i, f)
    BY DEF Says, SaysAt
  <2>4. QueryFits(layers, sent)
    BY <1>2 DEF Fits
  <2> QED
    BY <2>1, <2>2, <2>3, <2>4, Zenon DEF QueryFits, QueryExpected
<1>7. ExtensionsExpected
  <2>1. \A p : Options(p) = OptionsOf(layers, p)
    BY Zenon DEF Options, OptionsOf, Since, OptionNames, Giving, Switches, Has, LastOf, LastAt
  <2> QED
    BY <1>2, <2>1 DEF Fits, ExtensionsFit, ExtensionsExpected
<1> QED
  BY <1>3, <1>4, <1>5, <1>6, <1>7 DEF LayersDecide

(* Every option of a request is what the last layer that says something of it *)
(* says, and merged where the code merges, for any chain of clients and       *)
(* requests and any configs (mergeConfig, Client.extend and Client.request).  *)
THEOREM LayersDecideHolds == ASSUME ValuesApart PROVE MCSpec => []LayersDecide
<1>1. MCInit => ConfigInv
  BY ConfigInit DEF MCInit
<1>2. ConfigInv /\ [MCNext]_<<part, vars, Registry!vars>> => ConfigInv'
  <2> SUFFICES ASSUME ConfigInv, [MCNext]_<<part, vars, Registry!vars>>
               PROVE  ConfigInv'
    OBVIOUS
  <2>1. CASE Next
    BY <2>1, ConfigStep
  <2>2. CASE UNCHANGED vars
    BY <2>2 DEF ConfigInv, vars
  <2>3. Next \/ UNCHANGED vars
    BY DEF MCNext, vars
  <2> QED
    BY <2>1, <2>2, <2>3
<1>3. ConfigInv => LayersDecide
  BY LayersDo
<1> QED
  BY <1>1, <1>2, <1>3, PTL DEF MCSpec
=============================================================================
