-------------------------- MODULE RateLimitProofs ---------------------------
(***************************************************************************)
(* Proofs about RateLimit, for any clients, keys, attempts, limits, delays *)
(* and clock: type correctness, the rolling window, the order of grants,   *)
(* and, without late hooks, that no waiter is left without a timer.        *)
(***************************************************************************)
EXTENDS RateLimit, FiniteSetTheorems, WellFoundedInduction, TLAPS

(* Sets of attempts are finite. *)
LEMMA AttemptsFinite ==
    ASSUME NEW S \in SUBSET Request
    PROVE  IsFiniteSet(S) /\ Cardinality(S) \in Nat
  BY RateLimitAssumption, FS_Subset, FS_CardinalityType DEF RateLimitAssumption

LEMMA FewerAttempts ==
    ASSUME NEW S \in SUBSET Request, NEW T \in SUBSET S
    PROVE  Cardinality(T) <= Cardinality(S)
  BY AttemptsFinite, FS_Subset

(* A set of natural numbers has a least element. *)
LEMMA LeastElement ==
    ASSUME NEW T \in SUBSET Nat, T # {}
    PROVE  \E m \in T : \A n \in T : m <= n
<1>1. PICK m \in T : \A n \in T : <<n, m>> \notin OpToRel(<, Nat)
  BY NatLessThanWellFounded, WFMin, Zenon
<1>2. \A n \in T : ~(n < m)
  BY <1>1 DEF OpToRel
<1> QED
  BY <1>2

(* The window has room again one interval after its oldest grant. *)
LEMMA ResetAtOldest ==
    ASSUME NEW window, window # {}, NEW when, \A r \in window : when[r] \in Nat
    PROVE  \E r \in window : ResetAt(window, when) = Interval + when[r]
<1> DEFINE times == {when[r] : r \in window}
           oldest == CHOOSE t \in times : \A r \in window : t <= when[r]
<1>1. times \in SUBSET Nat /\ times # {}
  OBVIOUS
<1>2. \E t \in times : \A r \in window : t <= when[r]
  <2>1. PICK t \in times : \A n \in times : t <= n
    BY <1>1, LeastElement
  <2> QED
    BY <2>1
<1>3. oldest \in times
  BY <1>2
<1> QED
  BY <1>3 DEF ResetAt
-----------------------------------------------------------------------------
(* What holds of queues, grants and windows between any two callbacks.     *)
(* stamps records every grant that is still inside the window, so that its *)
(* recent part is the whole window that ends now; the bound of a window in *)
(* the past stays what it was when that time was now.                      *)
Window(k, t) == {s \in Request : /\ key(s) = k /\ at[s] # Never
                                 /\ t - Interval < at[s] /\ at[s] <= t}

EntriesPlaced == \A k \in Key : \A r \in queue[k] : key(r) = k /\ pc[r] = "queued"

GrantsPlaced == \A r \in Request :
    /\ at[r] <= now
    /\ pc[r] \in {"idle", "hooks", "queued"} => at[r] = Never

StampsTimed == \A k \in Key : \A r \in stamps[k] : key(r) = k /\ at[r] # Never

StampsKept == \A r \in Request :
    at[r] # Never /\ ~Expired(at[r]) => r \in stamps[key(r)]

WindowsBounded == \A k \in Key : \A t \in 0..now :
    Cardinality(Window(k, t)) <= MaxRequests

WindowInv ==
    /\ EntriesPlaced
    /\ GrantsPlaced
    /\ StampsTimed
    /\ StampsKept
    /\ WindowsBounded

LEMMA WindowInit == Init => TypeOK /\ WindowInv
<1> SUFFICES ASSUME Init PROVE TypeOK /\ WindowInv
  OBVIOUS
<1>1. TypeOK
  BY RateLimitAssumption, FS_EmptySet DEF RateLimitAssumption, Init, TypeOK, PC, Off, Never
<1>2. WindowsBounded
  <2>1. \A k \in Key : \A t \in 0..now : Window(k, t) = {}
    BY DEF Init, Window
  <2> QED
    BY <2>1, FS_EmptySet, RateLimitAssumption DEF WindowsBounded, RateLimitAssumption
<1>3. EntriesPlaced /\ GrantsPlaced /\ StampsTimed /\ StampsKept
  BY DEF Init, EntriesPlaced, GrantsPlaced, StampsTimed, StampsKept, Never
<1> QED
  BY <1>1, <1>2, <1>3 DEF WindowInv

(* The recent stamps of a key are the window that ends now. *)
LEMMA RecentIsWindow ==
    ASSUME TypeOK, WindowInv, NEW k \in Key
    PROVE  /\ Recent(k) = Window(k, now)
           /\ Recent(k) \in SUBSET Request /\ Recent(k) \subseteq stamps[k]
           /\ Cardinality(Recent(k)) \in Nat
           /\ Cardinality(Recent(k)) <= MaxRequests
<1>1. /\ stamps[k] \in SUBSET Request /\ now \in Nat /\ Interval \in Nat
      /\ \A r \in Request : at[r] \in Int
  BY RateLimitAssumption DEF TypeOK, RateLimitAssumption, Never
<1>2. Recent(k) \subseteq Window(k, now)
  BY <1>1 DEF Recent, Window, Expired, WindowInv, StampsTimed, GrantsPlaced
<1>3. Window(k, now) \subseteq Recent(k)
  BY <1>1 DEF Recent, Window, Expired, WindowInv, StampsKept
<1>4. Recent(k) \in SUBSET Request /\ Recent(k) \subseteq stamps[k]
  BY <1>1 DEF Recent
<1>5. Cardinality(Window(k, now)) <= MaxRequests
  BY <1>1 DEF WindowInv, WindowsBounded
<1>6. Recent(k) = Window(k, now) /\ Cardinality(Recent(k)) \in Nat
  BY <1>2, <1>3, <1>4, AttemptsFinite
<1> QED
  BY <1>4, <1>5, <1>6

(* The attempts in granted, all of the key k, get their permit now.        *)
LEMMA GrantedWindow ==
    ASSUME TypeOK, WindowInv, UNCHANGED <<now, config>>, NEW k \in Key,
           NEW granted \in SUBSET Request,
           \A r \in granted : key(r) = k /\ at[r] = Never,
           at' = [r \in Request |-> IF r \in granted THEN now ELSE at[r]],
           granted \subseteq stamps'[k],
           \A l \in Key : /\ Recent(l) \subseteq stamps'[l]
                          /\ stamps'[l] \subseteq
                                stamps[l] \union {r \in granted : key(r) = l},
           Cardinality(Recent(k) \union granted) <= MaxRequests
    PROVE  /\ \A r \in Request : at'[r] <= now'
           /\ StampsTimed' /\ StampsKept' /\ WindowsBounded'
           /\ at' \in [Request -> 0..MaxTime \union {Never}]
<1>1. /\ now \in 0..MaxTime /\ \A l \in Key : stamps[l] \in SUBSET Request
      /\ \A r \in Request : at[r] \in Nat \union {Never} /\ at[r] <= now
                            /\ key(r) \in Key
      /\ Interval \in Nat \ {0} /\ MaxTime \in Nat
  BY RateLimitAssumption
  DEF TypeOK, RateLimitAssumption, WindowInv, GrantsPlaced, key
<1>2. \A r \in Request : at'[r] <= now'
  BY <1>1
<1>3. StampsTimed'
  <2> SUFFICES ASSUME NEW l \in Key, NEW r \in stamps'[l]
               PROVE  key(r)' = l /\ at'[r] # Never
    BY DEF StampsTimed
  <2>1. CASE r \in granted /\ key(r) = l
    BY <1>1, <2>1 DEF key, Never
  <2>2. CASE r \in stamps[l]
    BY <1>1, <2>2 DEF key, Never, WindowInv, StampsTimed
  <2> QED
    BY <2>1, <2>2
<1>4. StampsKept'
  <2> SUFFICES ASSUME NEW r \in Request, at'[r] # Never, ~Expired(at[r])'
               PROVE  r \in stamps'[key(r)']
    BY DEF StampsKept
  <2>1. key(r)' = key(r) /\ ~Expired(at'[r])
    BY DEF key, Expired
  <2>2. CASE r \in granted
    BY <2>1, <2>2
  <2>3. CASE r \notin granted
    <3>1. r \in stamps[key(r)] /\ ~Expired(at[r])
      BY <2>1, <2>3 DEF WindowInv, StampsKept
    <3>2. r \in Recent(key(r))
      BY <3>1 DEF Recent
    <3> QED
      BY <1>1, <2>1, <3>2
  <2> QED
    BY <2>2, <2>3
<1>5. WindowsBounded'
  <2> SUFFICES ASSUME NEW l \in Key, NEW t \in 0..now
               PROVE  Cardinality(Window(l, t)') <= MaxRequests
    BY DEF WindowsBounded
  <2>1. CASE t # now \/ l # k
    <3>1. Window(l, t)' = Window(l, t)
      BY <1>1, <2>1 DEF Window, key, Never
    <3> QED
      BY <3>1 DEF WindowInv, WindowsBounded
  <2>2. CASE t = now /\ l = k
    <3>1. Window(l, t)' \subseteq Window(k, now) \union granted
      BY <1>1, <2>2 DEF Window, key, Never
    <3>2. Window(l, t)' \subseteq Recent(k) \union granted
          /\ Recent(k) \union granted \in SUBSET Request
      BY <3>1, RecentIsWindow
    <3>3. Cardinality(Window(l, t)') <= Cardinality(Recent(k) \union granted)
      BY <3>2, FewerAttempts
    <3>4. Cardinality(Window(l, t)') \in Nat /\ Cardinality(Recent(k) \union granted) \in Nat
      BY <3>2, AttemptsFinite
    <3> QED
      BY <3>3, <3>4, RateLimitAssumption DEF RateLimitAssumption
  <2> QED
    BY <2>1, <2>2
<1>6. at' \in [Request -> 0..MaxTime \union {Never}]
  BY <1>1 DEF TypeOK
<1> QED
  BY <1>2, <1>3, <1>4, <1>5, <1>6
-----------------------------------------------------------------------------
(* The window. *)

(* What Schedule does when the queue q it is given is well placed: whom it *)
(* resolves, and what that does to the window and to the timer.            *)
Resolves(heirs, k, q, before, until, pcs) ==
    /\ queue' = [queue EXCEPT ![k] = q \ heirs]
    /\ ahead' = [r \in Request |-> IF r \in heirs THEN {} ELSE before[r] \ heirs]
    /\ pc' = [r \in Request |-> IF r \in heirs THEN "granted" ELSE pcs[r]]
    /\ at' = [r \in Request |-> IF r \in heirs THEN now ELSE at[r]]
    /\ heirs # {} => until <= now
    /\ \A r \in heirs : before[r] \intersect q \subseteq heirs
    /\ stamps' = [stamps EXCEPT ![k] = Recent(k) \union heirs]
    /\ Cardinality(Recent(k) \union heirs) <= MaxRequests
    /\ cooldown' = [cooldown EXCEPT ![k] = IF q = {} \/ until > now THEN until ELSE 0]

(* The timer it arms. *)
Arms(due, heirs, k, q, until) ==
    /\ timer' = [timer EXCEPT ![k] = due]
    /\ q \ heirs = {} => due = Off
    /\ q \ heirs # {} =>
          /\ due # Off
          /\ \/ due = until /\ until > now
             \/ \E r \in Recent(k) \union heirs : due = at'[r] + Interval

LEMMA Scheduled ==
    ASSUME TypeOK, WindowInv, UNCHANGED <<now, config>>, NEW k \in Key,
           NEW q \in SUBSET Request, NEW before \in [Request -> SUBSET Request],
           NEW until \in 0..now + MaxRetryAfter, NEW pcs \in [Request -> PC],
           Schedule(k, q, before, until, pcs),
           \A r \in q : key(r) = k /\ at[r] = Never
    PROVE  \E heirs \in SUBSET q, due \in Nat \union {Off} :
              /\ Resolves(heirs, k, q, before, until, pcs)
              /\ Arms(due, heirs, k, q, until)
<1>1. PICK heirs \in IF q = {} \/ until > now THEN {{}}
                     ELSE Front(q, before, MaxRequests - Cardinality(Recent(k))) :
         LET window == Recent(k) \union heirs
             when == [r \in Request |-> IF r \in heirs THEN now ELSE at[r]]
         IN
         /\ queue' = [queue EXCEPT ![k] = q \ heirs]
         /\ ahead' = [r \in Request |-> IF r \in heirs THEN {} ELSE before[r] \ heirs]
         /\ stamps' = [stamps EXCEPT ![k] = window]
         /\ at' = when
         /\ pc' = [r \in Request |-> IF r \in heirs THEN "granted" ELSE pcs[r]]
         /\ cooldown' = [cooldown EXCEPT ![k] =
                            IF q = {} \/ until > now THEN until ELSE 0]
         /\ timer' = [timer EXCEPT ![k] = IF q = heirs THEN Off
                                          ELSE IF until > now THEN until
                                          ELSE ResetAt(window, when)]
  BY DEF Schedule
<1> DEFINE window == Recent(k) \union heirs
           when == [r \in Request |-> IF r \in heirs THEN now ELSE at[r]]
           n == Cardinality(Recent(k))
<1>2. /\ Recent(k) \in SUBSET Request /\ Recent(k) \subseteq stamps[k]
      /\ n \in Nat /\ n <= MaxRequests
  BY RecentIsWindow
<1>3. /\ now \in Nat /\ MaxRequests \in Nat \ {0} /\ Interval \in Nat
      /\ MaxRetryAfter \in Nat
      /\ \A r \in Request : at[r] \in Nat \union {Never}
  BY RateLimitAssumption DEF TypeOK, RateLimitAssumption
<1>4. heirs \in SUBSET q /\ (q = {} \/ until > now => heirs = {})
  BY <1>1 DEF Front
<1>5. ~(q = {} \/ until > now) =>
         /\ Cardinality(heirs) = Least(MaxRequests - n, Cardinality(q))
         /\ \A r \in heirs : before[r] \intersect q \subseteq heirs
  BY <1>1 DEF Front
<1>6. Recent(k) \intersect heirs = {}
  BY <1>2, <1>4 DEF WindowInv, StampsTimed
<1>7. /\ IsFiniteSet(heirs) /\ Cardinality(heirs) \in Nat /\ Cardinality(q) \in Nat
      /\ IsFiniteSet(q) /\ IsFiniteSet(Recent(k))
  BY <1>2, <1>4, AttemptsFinite
<1>8. Cardinality(window) = n + Cardinality(heirs)
  <2>1. Cardinality(window) = n + Cardinality(heirs) - Cardinality(Recent(k) \intersect heirs)
    BY <1>7, FS_Union
  <2>2. Cardinality(Recent(k) \intersect heirs) = 0
    BY <1>6, FS_EmptySet
  <2> QED
    BY <1>2, <1>7, <2>1, <2>2
<1>9. Cardinality(window) <= MaxRequests
  <2>1. CASE q = {} \/ until > now
    <3>1. Cardinality(heirs) = 0
      BY <1>4, <2>1, FS_EmptySet
    <3> QED
      BY <1>2, <1>8, <3>1
  <2>2. CASE ~(q = {} \/ until > now)
    <3> HIDE DEF n, window
    <3> QED
      BY <1>2, <1>3, <1>5, <1>7, <1>8, <2>2 DEF Least
  <2> QED
    BY <2>1, <2>2
<1>10. \E due \in Nat \union {Off} : Arms(due, heirs, k, q, until)
  <2>1. CASE q = heirs
    <3>1. timer' = [timer EXCEPT ![k] = Off]
      BY <1>1, <2>1
    <3> QED
      BY <2>1, <3>1 DEF Arms
  <2>2. CASE q # heirs /\ until > now
    <3>1. until \in Nat /\ until # Off
      BY <1>3 DEF Off
    <3>2. timer' = [timer EXCEPT ![k] = until]
      BY <1>1, <2>2
    <3>3. q \ heirs # {}
      BY <1>4, <2>2
    <3> QED
      BY <2>2, <3>1, <3>2, <3>3 DEF Arms
  <2>3. CASE q # heirs /\ ~(until > now)
    <3>1. timer' = [timer EXCEPT ![k] = ResetAt(window, when)] /\ at' = when
      BY <1>1, <2>3
    <3>2. q \ heirs # {} /\ q # {}
      BY <1>4, <2>3
    <3>3. window # {}
      <4>1. Cardinality(heirs) = Least(MaxRequests - n, Cardinality(q))
        BY <1>5, <2>3, <3>2
      <4>2. Cardinality(heirs) # Cardinality(q)
        BY <1>4, <1>7, <2>3, FS_Subset
      <4>3. n + Cardinality(heirs) = MaxRequests
        BY <1>2, <1>3, <1>7, <4>1, <4>2 DEF Least
      <4>4. window = {} => Cardinality(window) = 0
        BY FS_EmptySet
      <4> QED
        BY <1>3, <1>8, <4>3, <4>4
    <3>4. \A r \in window : when[r] \in Nat
      <4>1. \A r \in Recent(k) : r \in Request /\ at[r] # Never
        BY <1>2 DEF WindowInv, StampsTimed
      <4> QED
        BY <1>3, <1>4, <4>1
    <3>5. PICK r \in window : ResetAt(window, when) = Interval + when[r]
      BY <3>3, <3>4, ResetAtOldest
    <3> DEFINE due == ResetAt(window, when)
    <3>6. due \in Nat /\ due # Off /\ due = at'[r] + Interval
      <4>1. when[r] \in Nat /\ at'[r] = when[r] /\ due = Interval + when[r]
        BY <3>1, <3>4, <3>5
      <4> HIDE DEF when, due
      <4> QED
        BY <1>3, <4>1 DEF Off
    <3> HIDE DEF due
    <3> QED
      BY <3>1, <3>2, <3>5, <3>6 DEF due, Arms
  <2> QED
    BY <2>1, <2>2, <2>3
<1>11. heirs # {} => until <= now
  BY <1>3, <1>4
<1>12. \A r \in heirs : before[r] \intersect q \subseteq heirs
  BY <1>4, <1>5
<1>13. Resolves(heirs, k, q, before, until, pcs)
  BY <1>1, <1>9, <1>11, <1>12 DEF Resolves
<1> QED
  BY <1>4, <1>10, <1>13

LEMMA ScheduleWindow ==
    ASSUME TypeOK, WindowInv,
           UNCHANGED <<now, config, born, aborted, live, epoch, records>>, NEW k \in Key,
           NEW q \in SUBSET Request, NEW before \in [Request -> SUBSET Request],
           NEW until \in 0..now + MaxRetryAfter, NEW pcs \in [Request -> PC],
           Schedule(k, q, before, until, pcs),
           \A r \in q : key(r) = k /\ at[r] = Never /\ pcs[r] = "queued",
           Cardinality(q) <= MaxQueue,
           \A r \in Request : pcs[r] \in {"idle", "hooks", "queued"} => at[r] = Never,
           \A l \in Key \ {k} : \A r \in queue[l] : pcs[r] = "queued"
    PROVE  TypeOK' /\ WindowInv'
<1>0. PICK heirs \in SUBSET q, due \in Nat \union {Off} :
         Resolves(heirs, k, q, before, until, pcs) /\ Arms(due, heirs, k, q, until)
  BY Scheduled
<1>1. /\ queue' = [queue EXCEPT ![k] = q \ heirs]
      /\ ahead' \in [Request -> SUBSET Request]
      /\ pc' = [r \in Request |-> IF r \in heirs THEN "granted" ELSE pcs[r]]
      /\ at' = [r \in Request |-> IF r \in heirs THEN now ELSE at[r]]
      /\ stamps' = [stamps EXCEPT ![k] = Recent(k) \union heirs]
      /\ Cardinality(Recent(k) \union heirs) <= MaxRequests
      /\ cooldown' = [cooldown EXCEPT ![k] = IF q = {} \/ until > now THEN until ELSE 0]
      /\ timer' = [timer EXCEPT ![k] = due]
  BY <1>0 DEF Resolves, Arms
<1>2. /\ Recent(k) \in SUBSET Request /\ Recent(k) \subseteq stamps[k]
      /\ \A l \in Key : Recent(l) \subseteq stamps[l]
      /\ stamps \in [Key -> SUBSET Request]
  BY RecentIsWindow DEF TypeOK
<1>3. /\ \A r \in Request : at'[r] <= now'
      /\ StampsTimed' /\ StampsKept' /\ WindowsBounded'
      /\ at' \in [Request -> 0..MaxTime \union {Never}]
  <2>1. heirs \in SUBSET Request /\ \A r \in heirs : key(r) = k /\ at[r] = Never
    OBVIOUS
  <2>2. heirs \subseteq stamps'[k]
    BY <1>1, <1>2
  <2>3. \A l \in Key : /\ Recent(l) \subseteq stamps'[l]
                       /\ stamps'[l] \subseteq stamps[l] \union {r \in heirs : key(r) = l}
    BY <1>1, <1>2, <2>1
  <2> QED
    BY <1>1, <2>1, <2>2, <2>3, GrantedWindow
<1>4. EntriesPlaced'
  <2> SUFFICES ASSUME NEW l \in Key, NEW r \in queue'[l]
               PROVE  key(r)' = l /\ pc'[r] = "queued"
    BY DEF EntriesPlaced
  <2>1. CASE l = k
    <3>1. r \in q \ heirs
      BY <1>1, <2>1 DEF TypeOK
    <3> QED
      BY <1>1, <2>1, <3>1 DEF key
  <2>2. CASE l # k
    <3>1. r \in queue[l] /\ r \in Request
      BY <1>1, <2>2 DEF TypeOK
    <3>2. key(r) = l /\ pcs[r] = "queued" /\ r \notin heirs
      BY <1>1, <2>2, <3>1 DEF WindowInv, EntriesPlaced
    <3> QED
      BY <1>1, <3>1, <3>2 DEF key
  <2> QED
    BY <2>1, <2>2
<1>5. GrantsPlaced'
  BY <1>1, <1>3 DEF GrantsPlaced
<1>6. TypeOK'
  <2>1. /\ queue' \in [Key -> SUBSET Request]
        /\ stamps' \in [Key -> SUBSET Request]
        /\ timer' \in [Key -> Nat \union {Off}]
        /\ pc' \in [Request -> PC]
    BY <1>1, <1>2 DEF TypeOK, PC
  <2>2. cooldown' \in [Key -> 0..now' + MaxRetryAfter]
    <3>1. 0 \in 0..now + MaxRetryAfter
      BY RateLimitAssumption DEF TypeOK, RateLimitAssumption
    <3> QED
      BY <1>1, <3>1 DEF TypeOK
  <2>3. \A l \in Key : Cardinality(queue'[l]) <= MaxQueue
    <3> SUFFICES ASSUME NEW l \in Key PROVE Cardinality(queue'[l]) <= MaxQueue
      OBVIOUS
    <3>1. CASE l = k
      <4>1. queue'[l] \in SUBSET q
        BY <1>1, <3>1 DEF TypeOK
      <4> QED
        BY <4>1, FewerAttempts, AttemptsFinite, RateLimitAssumption DEF RateLimitAssumption
    <3>2. CASE l # k
      BY <1>1, <3>2 DEF TypeOK
    <3> QED
      BY <3>1, <3>2
  <2> QED
    BY <1>1, <1>3, <2>1, <2>2, <2>3 DEF TypeOK
<1> QED
  BY <1>3, <1>4, <1>5, <1>6 DEF WindowInv

(* The three callers of Schedule. *)
LEMMA TimerFiresWindow ==
    ASSUME TypeOK, WindowInv, NEW k \in Key, TimerFires(k)
    PROVE  TypeOK' /\ WindowInv'
<1>1. PICK q, before, until, pcs :
         q = queue[k] /\ before = ahead /\ until = cooldown[k] /\ pcs = pc
  OBVIOUS
<1>2. Schedule(k, q, before, until, pcs)
  BY <1>1 DEF TimerFires
<1>3. UNCHANGED <<now, config, born, aborted, live, epoch, records>>
  BY DEF TimerFires, installVars
<1>4. /\ q \in SUBSET Request /\ before \in [Request -> SUBSET Request]
      /\ until \in 0..now + MaxRetryAfter /\ pcs \in [Request -> PC]
      /\ Cardinality(q) <= MaxQueue
  BY <1>1 DEF TypeOK
<1>5. /\ \A r \in Request : pcs[r] \in {"idle", "hooks", "queued"} => at[r] = Never
      /\ \A l \in Key : \A r \in queue[l] : key(r) = l /\ pcs[r] = "queued"
      /\ \A r \in q : key(r) = k /\ at[r] = Never /\ pcs[r] = "queued"
  BY <1>1, <1>4 DEF WindowInv, EntriesPlaced, GrantsPlaced
<1> QED
  BY <1>2, <1>3, <1>4, <1>5, ScheduleWindow

(* A step without a grant that drops no recent stamp. *)
LEMMA KeptWindow ==
    ASSUME TypeOK, WindowInv, UNCHANGED <<now, config, at>>,
           \A l \in Key : Recent(l) \subseteq stamps'[l] /\ stamps'[l] \subseteq stamps[l],
           \A l \in Key : \A r \in queue'[l] : key(r) = l /\ pc'[r] = "queued",
           \A r \in Request : pc'[r] \in {"idle", "hooks", "queued"} => at[r] = Never
    PROVE  WindowInv'
<1>1. \A r \in Request : key(r)' = key(r) /\ key(r) \in Key
  BY DEF key, TypeOK
<1>2. EntriesPlaced' /\ GrantsPlaced'
  BY DEF WindowInv, EntriesPlaced, GrantsPlaced, key
<1>3. StampsTimed'
  BY DEF WindowInv, StampsTimed, key
<1>4. StampsKept'
  BY <1>1 DEF WindowInv, StampsKept, Recent, Expired
<1>5. WindowsBounded'
  <2> SUFFICES ASSUME NEW k \in Key, NEW t \in 0..now
               PROVE  Cardinality(Window(k, t)') <= MaxRequests
    BY DEF WindowsBounded
  <2>1. Window(k, t)' = Window(k, t)
    BY <1>1 DEF Window
  <2> QED
    BY <2>1 DEF WindowInv, WindowsBounded
<1> QED
  BY <1>2, <1>3, <1>4, <1>5 DEF WindowInv

LEMMA EnqueueWindow ==
    ASSUME TypeOK, WindowInv, NEW r \in Request, Enqueue(r)
    PROVE  TypeOK' /\ WindowInv'
<1>1. PICK k, q, before, until, pcs :
         /\ k = key(r) /\ q = queue[key(r)] \union {r}
         /\ before = [ahead EXCEPT ![r] = queue[key(r)]]
         /\ until = cooldown[key(r)] /\ pcs = [pc EXCEPT ![r] = "queued"]
  OBVIOUS
<1>2. /\ UNCHANGED <<now, config, born, aborted, live, epoch, records>>
      /\ pc[r] = "hooks"
  BY DEF Enqueue, installVars
<1>3. k \in Key
  BY <1>1 DEF TypeOK, key
<1>4. /\ q \in SUBSET Request /\ before \in [Request -> SUBSET Request]
      /\ until \in 0..now + MaxRetryAfter /\ pcs \in [Request -> PC]
  BY <1>1, <1>3 DEF TypeOK, PC
<1>5. Cardinality(q) <= MaxQueue
  <2>1. ~(Cardinality(queue[k]) >= MaxQueue)
    BY <1>1 DEF Enqueue, MustRefuse, IsFull
  <2>2. queue[k] \in SUBSET Request
    BY <1>3 DEF TypeOK
  <2>3. Cardinality(queue[k] \union {r}) =
           IF r \in queue[k] THEN Cardinality(queue[k]) ELSE Cardinality(queue[k]) + 1
    BY <2>2, AttemptsFinite, FS_AddElement
  <2> QED
    BY <1>1, <2>1, <2>2, <2>3, AttemptsFinite, RateLimitAssumption DEF RateLimitAssumption
<1>6. /\ \A s \in Request : pcs[s] \in {"idle", "hooks", "queued"} => at[s] = Never
      /\ \A l \in Key : \A s \in queue[l] : key(s) = l /\ pcs[s] = "queued"
      /\ \A s \in q : key(s) = k /\ at[s] = Never /\ pcs[s] = "queued"
  BY <1>1, <1>2, <1>3, <1>4 DEF WindowInv, EntriesPlaced, GrantsPlaced, TypeOK
<1>7. CASE Installed(r) /\ timer[k] = Off
  <2>1. Schedule(k, q, before, until, pcs)
    BY <1>1, <1>7 DEF Enqueue
  <2> QED
    BY <1>2, <1>3, <1>4, <1>5, <1>6, <2>1, ScheduleWindow
<1>8. CASE ~(Installed(r) /\ timer[k] = Off)
  <2>1. /\ queue' = [queue EXCEPT ![k] = q]
        /\ ahead' = before
        /\ stamps' = [stamps EXCEPT ![k] = Recent(k)]
        /\ pc' = pcs
        /\ UNCHANGED <<at, cooldown, timer>>
    BY <1>1, <1>8 DEF Enqueue
  <2>2. \A l \in Key : Recent(l) \subseteq stamps'[l] /\ stamps'[l] \subseteq stamps[l]
    BY <1>3, <2>1 DEF Recent, TypeOK
  <2>3. \A l \in Key : \A s \in queue'[l] : key(s) = l /\ pc'[s] = "queued"
    BY <1>3, <1>6, <2>1 DEF TypeOK
  <2>4. WindowInv'
    BY <1>2, <1>6, <2>1, <2>2, <2>3, KeptWindow
  <2>5. \A l \in Key : Cardinality(queue'[l]) <= MaxQueue
    BY <1>3, <1>5, <2>1 DEF TypeOK
  <2>6. /\ queue' \in [Key -> SUBSET Request]
        /\ stamps' \in [Key -> SUBSET Request]
    BY <1>3, <1>4, <2>1 DEF TypeOK, Recent
  <2> QED
    BY <1>2, <1>4, <2>1, <2>4, <2>5, <2>6 DEF TypeOK
<1> QED
  BY <1>7, <1>8

(* What getRecord drops to make room for the record of k. *)
LEMMA DroppedIdle ==
    ASSUME TypeOK, NEW k \in Key, NEW gone \in Dropped(k)
    PROVE  /\ gone \subseteq records /\ k \notin gone
           /\ \A l \in gone : queue[l] = {} /\ Recent(l) = {} /\ ~Cooling(l)
  BY DEF Dropped, Trimmed, Idle

LEMMA GrantWindow ==
    ASSUME TypeOK, WindowInv, NEW r \in Request, Grant(r)
    PROVE  TypeOK' /\ WindowInv'
<1> DEFINE k == key(r)
<1>1. /\ k \in Key /\ pc[r] = "hooks" /\ at[r] = Never
      /\ queue[k] = {} /\ Cardinality(Recent(k)) < MaxRequests
  BY DEF Grant, FreeToGo, HasRoom, TypeOK, key, WindowInv, GrantsPlaced
<1>2. PICK gone \in Dropped(k) :
         /\ records' = (records \ gone) \union {k}
         /\ stamps' = [Emptied(stamps, gone, {}) EXCEPT ![k] = Recent(k) \union {r}]
         /\ cooldown' = Emptied(cooldown, gone, 0)
  BY DEF Grant
<1>3. /\ at' = [at EXCEPT ![r] = now]
      /\ pc' = [pc EXCEPT ![r] = "running"]
      /\ UNCHANGED <<now, config, born, aborted, live, epoch, timer, queue, ahead>>
  BY DEF Grant, installVars
<1>4. /\ gone \subseteq records
      /\ \A l \in gone : Recent(l) = {}
  BY <1>1, <1>2, DroppedIdle
<1>5. \A l \in Key : stamps'[l] = IF l = k THEN Recent(l) \union {r}
                                  ELSE IF l \in gone THEN {} ELSE stamps[l]
  BY <1>1, <1>2 DEF Emptied
<1>6. \A l \in Key : Recent(l) \subseteq stamps[l]
  BY DEF Recent
<1>7. /\ \A s \in Request : at'[s] <= now'
      /\ StampsTimed' /\ StampsKept' /\ WindowsBounded'
      /\ at' \in [Request -> 0..MaxTime \union {Never}]
  <2>1. /\ {r} \in SUBSET Request
        /\ \A s \in {r} : key(s) = k /\ at[s] = Never
        /\ at' = [s \in Request |-> IF s \in {r} THEN now ELSE at[s]]
        /\ {r} \subseteq stamps'[k]
    BY <1>1, <1>3, <1>5 DEF TypeOK
  <2>2. \A l \in Key : /\ Recent(l) \subseteq stamps'[l]
                       /\ stamps'[l] \subseteq stamps[l] \union {s \in {r} : key(s) = l}
    BY <1>4, <1>5, <1>6
  <2>3. Cardinality(Recent(k) \union {r}) <= MaxRequests
    <3>1. /\ IsFiniteSet(Recent(k)) /\ Cardinality(Recent(k)) \in Nat
      BY <1>1, RecentIsWindow, AttemptsFinite
    <3>2. Cardinality(Recent(k) \union {r}) =
             IF r \in Recent(k) THEN Cardinality(Recent(k)) ELSE Cardinality(Recent(k)) + 1
      BY <3>1, FS_AddElement
    <3> QED
      BY <1>1, <3>1, <3>2, RateLimitAssumption DEF RateLimitAssumption
  <2> QED
    BY <1>1, <1>3, <2>1, <2>2, <2>3, GrantedWindow
<1>8. EntriesPlaced' /\ GrantsPlaced'
  <2>1. \A l \in Key : \A s \in queue[l] : s \in Request /\ s # r
    BY <1>1 DEF TypeOK, WindowInv, EntriesPlaced
  <2> QED
    BY <1>3, <1>7, <2>1 DEF WindowInv, EntriesPlaced, GrantsPlaced, TypeOK, key
<1>9. TypeOK'
  <2>1. /\ records' \in SUBSET Key
        /\ stamps' \in [Key -> SUBSET Request]
        /\ cooldown' \in [Key -> 0..now' + MaxRetryAfter]
    BY <1>1, <1>2, <1>3, RateLimitAssumption
    DEF TypeOK, Emptied, Recent, RateLimitAssumption
  <2> QED
    BY <1>3, <1>7, <2>1 DEF TypeOK, PC
<1> QED
  BY <1>7, <1>8, <1>9 DEF WindowInv

LEMMA ObserveWindow ==
    ASSUME TypeOK, WindowInv, NEW r \in Request, NEW delay \in Delays, Observe(r, delay)
    PROVE  TypeOK' /\ WindowInv'
<1>1. PICK k, q, before, until, pcs :
         /\ k = key(r) /\ q = queue[key(r)] /\ before = ahead
         /\ until = CooldownEnd(delay) /\ pcs = [pc EXCEPT ![r] = "done"]
  OBVIOUS
<1>2. /\ UNCHANGED <<now, config, born, aborted, live, epoch>>
      /\ pc[r] = "observing"
  BY DEF Observe, installVars
<1>3. k \in Key
  BY <1>1 DEF TypeOK, key
<1>4. until \in 0..now + MaxRetryAfter
  BY <1>1, RateLimitAssumption DEF CooldownEnd, Least, TypeOK, RateLimitAssumption
<1>5. /\ q \in SUBSET Request /\ before \in [Request -> SUBSET Request]
      /\ pcs \in [Request -> PC] /\ Cardinality(q) <= MaxQueue
  BY <1>1, <1>3 DEF TypeOK, PC
<1>6. /\ \A s \in Request : pcs[s] \in {"idle", "hooks", "queued"} => at[s] = Never
      /\ \A l \in Key : \A s \in queue[l] : key(s) = l /\ pcs[s] = "queued"
      /\ \A s \in q : key(s) = k /\ at[s] = Never /\ pcs[s] = "queued"
  BY <1>1, <1>2, <1>3, <1>5 DEF WindowInv, EntriesPlaced, GrantsPlaced, TypeOK
<1>7. CASE k \in records /\ Extends(k, until) /\ Installed(r)
  <2>1. Schedule(k, q, before, until, pcs) /\ UNCHANGED records
    BY <1>1, <1>7 DEF Observe
  <2> QED
    BY <1>2, <1>3, <1>4, <1>5, <1>6, <2>1, ScheduleWindow
<1>8. CASE ~(k \in records /\ Extends(k, until) /\ Installed(r))
  <2>1. PICK gone \in Dropped(k) :
           /\ records' = (records \ gone) \union {k}
           /\ stamps' = Emptied(stamps, gone, {})
           /\ cooldown' = [Emptied(cooldown, gone, 0) EXCEPT
                              ![k] = IF Extends(k, until) THEN until ELSE @]
           /\ timer' = [timer EXCEPT ![k] = IF Extends(k, until) THEN Off ELSE @]
           /\ pc' = pcs
           /\ UNCHANGED <<at, queue, ahead>>
    BY <1>1, <1>8 DEF Observe
  <2>2. \A l \in gone : Recent(l) = {}
    BY <1>3, <2>1, DroppedIdle
  <2>3. \A l \in Key : Recent(l) \subseteq stamps'[l] /\ stamps'[l] \subseteq stamps[l]
    BY <2>1, <2>2 DEF Recent, Emptied
  <2>4. WindowInv'
    BY <1>2, <1>6, <2>1, <2>3, KeptWindow
  <2>5. /\ records' \in SUBSET Key
        /\ stamps' \in [Key -> SUBSET Request]
        /\ timer' \in [Key -> Nat \union {Off}]
    BY <1>3, <2>1, <2>3, DroppedIdle DEF TypeOK, Emptied
  <2>6. cooldown' \in [Key -> 0..now' + MaxRetryAfter]
    BY <1>2, <1>3, <1>4, <2>1, RateLimitAssumption DEF TypeOK, Emptied, RateLimitAssumption
  <2> QED
    BY <1>2, <1>5, <2>1, <2>4, <2>5, <2>6 DEF TypeOK
<1> QED
  BY <1>7, <1>8

(* A step that leaves the grants and the recent stamps alone. *)
LEMMA QuietWindow ==
    ASSUME TypeOK, WindowInv, UNCHANGED <<now, config, at, stamps>>,
           \A l \in Key : queue'[l] \subseteq queue[l],
           \A l \in Key : \A r \in queue'[l] : pc'[r] = "queued",
           \A r \in Request : pc'[r] \in {"idle", "hooks", "queued"} => at[r] = Never
    PROVE  WindowInv'
<1>1. \A l \in Key : Recent(l) \subseteq stamps'[l] /\ stamps'[l] \subseteq stamps[l]
  BY DEF Recent
<1>2. \A l \in Key : \A r \in queue'[l] : key(r) = l /\ pc'[r] = "queued"
  BY DEF WindowInv, EntriesPlaced
<1> QED
  BY <1>1, <1>2, KeptWindow

LEMMA TickWindow ==
    ASSUME TypeOK, WindowInv, Tick
    PROVE  TypeOK' /\ WindowInv'
<1>1. /\ now \in Nat /\ now' = now + 1 /\ now' \in 0..MaxTime
      /\ Interval \in Nat \ {0} /\ MaxRetryAfter \in Nat /\ MaxRequests \in Nat
      /\ \A r \in Request : at[r] \in Nat \union {Never} /\ at[r] <= now
      /\ UNCHANGED <<config, pc, born, aborted, at, live, epoch, records, stamps,
                     cooldown, timer, queue, ahead>>
  BY RateLimitAssumption
  DEF Tick, TypeOK, RateLimitAssumption, WindowInv, GrantsPlaced,
      requestVars, installVars, recordVars
<1>2. TypeOK'
  <2>1. cooldown' \in [Key -> 0..now' + MaxRetryAfter]
    <3>1. 0..now + MaxRetryAfter \subseteq 0..now' + MaxRetryAfter
      BY <1>1
    <3> QED
      BY <1>1, <3>1 DEF TypeOK
  <2> QED
    BY <1>1, <2>1 DEF TypeOK
<1>3. EntriesPlaced' /\ GrantsPlaced' /\ StampsTimed'
  BY <1>1 DEF WindowInv, EntriesPlaced, GrantsPlaced, StampsTimed, key, Never
<1>4. StampsKept'
  BY <1>1 DEF WindowInv, StampsKept, Expired, key, Never
<1>5. WindowsBounded'
  <2> SUFFICES ASSUME NEW k \in Key, NEW t \in 0..now'
               PROVE  Cardinality(Window(k, t)') <= MaxRequests
    BY DEF WindowsBounded
  <2>1. Window(k, t)' = Window(k, t) /\ Window(k, t) \in SUBSET Request
    BY <1>1 DEF Window, key
  <2>2. CASE t \in 0..now
    BY <2>1, <2>2 DEF WindowInv, WindowsBounded
  <2>3. CASE t = now'
    <3>1. Window(k, t) \subseteq Window(k, now) /\ Window(k, now) \in SUBSET Request
      BY <1>1, <2>3 DEF Window, Never
    <3>2. Cardinality(Window(k, now)) <= MaxRequests
      BY <1>1 DEF WindowInv, WindowsBounded
    <3>3. Cardinality(Window(k, t)) <= Cardinality(Window(k, now))
      BY <3>1, FewerAttempts
    <3>4. Cardinality(Window(k, t)) \in Nat /\ Cardinality(Window(k, now)) \in Nat
      BY <2>1, <3>1, AttemptsFinite
    <3> QED
      BY <1>1, <2>1, <3>2, <3>3, <3>4
  <2> QED
    BY <1>1, <2>2, <2>3
<1> QED
  BY <1>2, <1>3, <1>4, <1>5 DEF WindowInv

LEMMA InstallWindow ==
    ASSUME TypeOK, WindowInv, NEW c \in Client, Install(c)
    PROVE  TypeOK' /\ WindowInv'
<1>1. /\ live' = [live EXCEPT ![c] = TRUE] /\ epoch' = [epoch EXCEPT ![c] = @ + 1]
      /\ UNCHANGED <<now, config, pc, born, aborted, at, records, stamps,
                     cooldown, timer, queue, ahead>>
  BY DEF Install, requestVars, recordVars
<1>2. TypeOK'
  <2>1. live' \in [Client -> BOOLEAN] /\ epoch' \in [Client -> Nat]
    BY <1>1 DEF TypeOK
  <2> QED
    BY <1>1, <2>1 DEF TypeOK
<1>3. WindowInv'
  BY <1>1, QuietWindow DEF WindowInv, EntriesPlaced, GrantsPlaced
<1> QED
  BY <1>2, <1>3

(* Start, AbortEarly, Bypass, Resume, Answer, AnswerPlainly and            *)
(* ObserveBypassed only move one attempt, which is not queued.             *)
LEMMA MoveWindow ==
    ASSUME TypeOK, WindowInv, NEW r \in Request, NEW step \in PC,
           pc[r] # "queued", step # "queued",
           step \in {"idle", "hooks"} => at[r] = Never,
           pc' = [pc EXCEPT ![r] = step],
           born' \in [Request -> Nat], aborted' \in SUBSET Request,
           UNCHANGED <<now, config, at, live, epoch, records, stamps,
                       cooldown, timer, queue, ahead>>
    PROVE  TypeOK' /\ WindowInv'
<1>1. pc' \in [Request -> PC]
  BY DEF TypeOK
<1>2. TypeOK'
  BY <1>1 DEF TypeOK
<1>3. \A l \in Key : \A s \in queue'[l] : pc'[s] = "queued"
  BY DEF TypeOK, WindowInv, EntriesPlaced
<1>4. \A s \in Request : pc'[s] \in {"idle", "hooks", "queued"} => at[s] = Never
  BY DEF TypeOK, WindowInv, GrantsPlaced
<1>5. WindowInv'
  BY <1>3, <1>4, QuietWindow
<1> QED
  BY <1>2, <1>5

LEMMA MovesWindow ==
    ASSUME TypeOK, WindowInv, NEW r \in Request,
           \/ Start(r) \/ AbortEarly(r) \/ Bypass(r) \/ Resume(r)
           \/ Answer(r) \/ AnswerPlainly(r) \/ ObserveBypassed(r)
    PROVE  TypeOK' /\ WindowInv'
<1> USE DEF installVars, recordVars, PC
<1>1. CASE Start(r)
  <2>1. born' \in [Request -> Nat]
    BY <1>1 DEF Start, TypeOK, client
  <2> QED
    BY <1>1, <2>1, MoveWindow DEF Start, TypeOK, WindowInv, GrantsPlaced
<1>2. CASE AbortEarly(r)
  <2>1. pc' = [pc EXCEPT ![r] = "hooks"] /\ at[r] = Never
    BY <1>2 DEF AbortEarly, TypeOK, WindowInv, GrantsPlaced
  <2> QED
    BY <1>2, <2>1, MoveWindow DEF AbortEarly, TypeOK
<1>3. CASE Bypass(r)
  BY <1>3, MoveWindow DEF Bypass, TypeOK
<1>4. CASE Resume(r)
  BY <1>4, MoveWindow DEF Resume, TypeOK
<1>5. CASE Answer(r)
  BY <1>5, MoveWindow DEF Answer, TypeOK
<1>6. CASE AnswerPlainly(r)
  BY <1>6, MoveWindow DEF AnswerPlainly, TypeOK
<1>7. CASE ObserveBypassed(r)
  BY <1>7, MoveWindow DEF ObserveBypassed, TypeOK
<1> QED
  BY <1>1, <1>2, <1>3, <1>4, <1>5, <1>6, <1>7

LEMMA RefuseWindow ==
    ASSUME TypeOK, WindowInv, NEW r \in Request, Refuse(r)
    PROVE  TypeOK' /\ WindowInv'
<1> DEFINE k == key(r)
<1>1. /\ k \in Key /\ pc[r] = "hooks"
      /\ stamps' = [stamps EXCEPT ![k] = Recent(k)]
      /\ pc' = [pc EXCEPT ![r] = "failed"]
      /\ UNCHANGED <<now, config, born, aborted, at, live, epoch,
                     records, cooldown, timer, queue, ahead>>
  BY DEF Refuse, installVars, TypeOK, key
<1>2. \A l \in Key : Recent(l) \subseteq stamps'[l] /\ stamps'[l] \subseteq stamps[l]
  BY <1>1 DEF Recent, TypeOK
<1>3. \A l \in Key : \A s \in queue'[l] : key(s) = l /\ pc'[s] = "queued"
  BY <1>1 DEF WindowInv, EntriesPlaced, TypeOK
<1>4. \A s \in Request : pc'[s] \in {"idle", "hooks", "queued"} => at[s] = Never
  BY <1>1 DEF WindowInv, GrantsPlaced, TypeOK
<1>5. WindowInv'
  BY <1>1, <1>2, <1>3, <1>4, KeptWindow
<1>6. stamps' \in [Key -> SUBSET Request] /\ pc' \in [Request -> PC]
  BY <1>1 DEF TypeOK, Recent, PC
<1>7. TypeOK'
  BY <1>1, <1>6 DEF TypeOK
<1> QED
  BY <1>5, <1>7

(* Some attempts leave their queues, and nothing else happens to a window. *)
LEMMA UnlinkedWindow ==
    ASSUME TypeOK, WindowInv, NEW S \in SUBSET Request,
           UNCHANGED <<now, config, born, at, epoch, records, stamps, cooldown>>,
           live' \in [Client -> BOOLEAN], aborted' \in SUBSET Request,
           queue' = UnlinkedQueue(S), ahead' = UnlinkedAhead(S),
           timer' = TimerFor(queue'),
           pc' = [r \in Request |-> IF r \in S THEN "failed" ELSE pc[r]]
    PROVE  TypeOK' /\ WindowInv'
<1>1. \A l \in Key : /\ queue'[l] = queue[l] \ S
                     /\ queue'[l] \in SUBSET queue[l] /\ queue[l] \in SUBSET Request
  BY DEF UnlinkedQueue, TypeOK
<1>2. \A l \in Key : \A r \in queue'[l] : pc'[r] = "queued"
  BY <1>1 DEF WindowInv, EntriesPlaced
<1>3. \A r \in Request : pc'[r] \in {"idle", "hooks", "queued"} => at[r] = Never
  BY DEF WindowInv, GrantsPlaced
<1>4. WindowInv'
  BY <1>1, <1>2, <1>3, QuietWindow
<1>5. \A l \in Key : Cardinality(queue'[l]) <= MaxQueue
  <2> SUFFICES ASSUME NEW l \in Key PROVE Cardinality(queue'[l]) <= MaxQueue
    OBVIOUS
  <2>1. /\ Cardinality(queue'[l]) <= Cardinality(queue[l])
        /\ Cardinality(queue'[l]) \in Nat /\ Cardinality(queue[l]) \in Nat
    BY <1>1, FewerAttempts, AttemptsFinite
  <2> QED
    BY <2>1, RateLimitAssumption DEF TypeOK, RateLimitAssumption
<1>6. /\ pc' \in [Request -> PC] /\ timer' \in [Key -> Nat \union {Off}]
      /\ queue' \in [Key -> SUBSET Request] /\ ahead' \in [Request -> SUBSET Request]
  BY DEF TypeOK, PC, TimerFor, UnlinkedQueue, UnlinkedAhead
<1>7. TypeOK'
  BY <1>5, <1>6 DEF TypeOK
<1> QED
  BY <1>4, <1>7

LEMMA LeaveWindow ==
    ASSUME TypeOK, WindowInv, NEW r \in Request, AbortQueued(r) \/ QueueTimeout(r)
    PROVE  TypeOK' /\ WindowInv'
<1>1. LeaveQueue(r) /\ aborted' \in SUBSET Request
  BY DEF AbortQueued, QueueTimeout, TypeOK
<1>2. pc' = [s \in Request |-> IF s \in {r} THEN "failed" ELSE pc[s]]
  BY <1>1 DEF LeaveQueue, TypeOK
<1>3. /\ UNCHANGED <<now, config, born, at, live, epoch, records, stamps, cooldown>>
      /\ queue' = UnlinkedQueue({r}) /\ ahead' = UnlinkedAhead({r})
      /\ timer' = TimerFor(queue')
  BY <1>1 DEF LeaveQueue, installVars
<1>4. live' \in [Client -> BOOLEAN] /\ {r} \in SUBSET Request
  BY <1>3 DEF TypeOK
<1> QED
  BY <1>1, <1>2, <1>3, <1>4, UnlinkedWindow

LEMMA UnuseWindow ==
    ASSUME TypeOK, WindowInv, NEW c \in Client, Unuse(c)
    PROVE  TypeOK' /\ WindowInv'
<1>1. PICK own : own = Mine(c) \intersect UNION {queue[k] : k \in Key}
  OBVIOUS
<1>2. /\ own \in SUBSET Request
      /\ live' = [live EXCEPT ![c] = FALSE]
      /\ pc' = [r \in Request |-> IF r \in own THEN "failed" ELSE pc[r]]
      /\ UNCHANGED <<now, config, born, aborted, epoch>>
  BY <1>1 DEF Unuse, Mine
<1>3. live' \in [Client -> BOOLEAN] /\ pc' \in [Request -> PC]
  BY <1>2 DEF TypeOK, PC
<1>4. CASE \A d \in Client \ {c} : ~live[d]
  <2>1. /\ records' = {}
        /\ stamps' = [k \in Key |-> {}]
        /\ cooldown' = [k \in Key |-> 0]
        /\ timer' = [k \in Key |-> Off]
        /\ queue' = [k \in Key |-> {}]
        /\ ahead' = [r \in Request |-> {}]
        /\ at' = [r \in Request |-> Never]
    BY <1>4 DEF Unuse
  <2>2. TypeOK'
    <3>1. cooldown' \in [Key -> 0..now' + MaxRetryAfter]
      BY <1>2, <2>1, RateLimitAssumption DEF TypeOK, RateLimitAssumption
    <3>2. \A l \in Key : Cardinality(queue'[l]) <= MaxQueue
      BY <2>1, FS_EmptySet, RateLimitAssumption DEF RateLimitAssumption
    <3> QED
      BY <1>2, <1>3, <2>1, <3>1, <3>2 DEF TypeOK
  <2>3. EntriesPlaced' /\ StampsTimed' /\ StampsKept'
    BY <2>1 DEF EntriesPlaced, StampsTimed, StampsKept
  <2>4. GrantsPlaced'
    BY <1>2, <2>1 DEF GrantsPlaced, TypeOK, Never
  <2>5. WindowsBounded'
    <3>1. \A k \in Key : \A t \in 0..now' : Window(k, t)' = {}
      BY <2>1 DEF Window
    <3> QED
      BY <3>1, FS_EmptySet, RateLimitAssumption DEF WindowsBounded, RateLimitAssumption
  <2> QED
    BY <2>2, <2>3, <2>4, <2>5 DEF WindowInv
<1>5. CASE ~(\A d \in Client \ {c} : ~live[d])
  <2>1. /\ queue' = UnlinkedQueue(own) /\ ahead' = UnlinkedAhead(own)
        /\ timer' = TimerFor(queue')
        /\ UNCHANGED <<records, stamps, cooldown, at>>
    BY <1>1, <1>5 DEF Unuse
  <2>2. aborted' \in SUBSET Request
    BY <1>2 DEF TypeOK
  <2> QED
    BY <1>2, <1>3, <2>1, <2>2, UnlinkedWindow
<1> QED
  BY <1>4, <1>5

LEMMA WindowStep ==
    ASSUME TypeOK, WindowInv, [Next]_vars
    PROVE  TypeOK' /\ WindowInv'
<1>1. CASE UNCHANGED vars
  <2>1. UNCHANGED <<now, config, pc, born, aborted, at, live, epoch, records, stamps,
                    cooldown, timer, queue, ahead>>
    BY <1>1 DEF vars, requestVars, installVars, recordVars
  <2>2. TypeOK'
    BY <2>1 DEF TypeOK
  <2>3. WindowInv'
    BY <2>1, QuietWindow DEF WindowInv, EntriesPlaced, GrantsPlaced
  <2> QED
    BY <2>2, <2>3
<1>2. CASE Next
  <2>1. CASE \E r \in Request : OnTransport(r)
    BY <2>1, MovesWindow, GrantWindow, RefuseWindow, EnqueueWindow DEF OnTransport
  <2> QED
    BY <1>2, <2>1, TickWindow, InstallWindow, UnuseWindow, TimerFiresWindow,
       MovesWindow, LeaveWindow, ObserveWindow DEF Next
<1> QED
  BY <1>1, <1>2

(* Every reachable state is well typed, and no queue is longer than        *)
(* maxQueue (normalizeOptions, enqueue).                                   *)
THEOREM TypeCorrect == Spec => []TypeOK
  BY WindowInit, WindowStep, PTL DEF Spec

(* Any window of the interval that ends at a grant holds at most           *)
(* maxRequests grants of the key, whichever path granted them.             *)
THEOREM WindowsHold == Spec => []WindowBounded
<1>1. TypeOK /\ WindowInv => WindowBounded
  <2> SUFFICES ASSUME TypeOK, WindowInv, NEW r \in Request, at[r] # Never
               PROVE  Cardinality({s \in Request :
                         key(s) = key(r) /\ at[s] # Never
                         /\ at[r] - Interval < at[s] /\ at[s] <= at[r]}) <= MaxRequests
    BY DEF WindowBounded
  <2>1. key(r) \in Key /\ at[r] \in 0..now
    BY DEF TypeOK, key, WindowInv, GrantsPlaced
  <2> QED
    BY <2>1 DEF WindowInv, WindowsBounded, Window
<1> QED
  BY <1>1, WindowInit, WindowStep, PTL DEF Spec
-----------------------------------------------------------------------------
(* Who gets a permit in a step, and past whom. *)
InOrder(r) ==
    /\ ~Cooling(key(r))
    /\ (IF r \in queue[key(r)] THEN ahead[r] ELSE queue[key(r)])
          \intersect queue'[key(r)] = {}

Granted(r) == at'[r] # at[r] /\ at'[r] # Never

LEMMA ScheduleOrder ==
    ASSUME TypeOK, WindowInv, UNCHANGED <<now, config>>, NEW k \in Key,
           NEW q \in SUBSET Request, NEW before \in [Request -> SUBSET Request],
           NEW until \in 0..now + MaxRetryAfter, NEW pcs \in [Request -> PC],
           Schedule(k, q, before, until, pcs),
           \A s \in q : key(s) = k /\ at[s] = Never,
           cooldown[k] <= until,
           \A s \in q : (IF s \in queue[k] THEN ahead[s] ELSE queue[k]) \subseteq before[s],
           NEW r \in Request, Granted(r)
    PROVE  InOrder(r)
<1>1. PICK heirs \in SUBSET q, due \in Nat \union {Off} :
         Resolves(heirs, k, q, before, until, pcs) /\ Arms(due, heirs, k, q, until)
  BY Scheduled
<1>2. r \in heirs
  BY <1>1 DEF Resolves, Granted
<1>3. key(r) = k /\ until <= now
  BY <1>1, <1>2 DEF Resolves
<1>4. ~Cooling(k)
  BY <1>3, RateLimitAssumption DEF Cooling, TypeOK, RateLimitAssumption
<1>5. before[r] \intersect q \subseteq heirs /\ queue'[k] = q \ heirs
  BY <1>1, <1>2 DEF Resolves, TypeOK
<1> QED
  BY <1>2, <1>3, <1>4, <1>5 DEF InOrder

LEMMA TimerFiresOrder ==
    ASSUME TypeOK, WindowInv, NEW k \in Key, TimerFires(k), NEW r \in Request, Granted(r)
    PROVE  InOrder(r)
<1>1. PICK q, before, until, pcs :
         q = queue[k] /\ before = ahead /\ until = cooldown[k] /\ pcs = pc
  OBVIOUS
<1>2. Schedule(k, q, before, until, pcs) /\ UNCHANGED <<now, config>>
  BY <1>1 DEF TimerFires
<1>3. /\ q \in SUBSET Request /\ before \in [Request -> SUBSET Request]
      /\ until \in 0..now + MaxRetryAfter /\ pcs \in [Request -> PC]
  BY <1>1 DEF TypeOK
<1>4. \A s \in q : key(s) = k /\ at[s] = Never
  BY <1>1, <1>3 DEF WindowInv, EntriesPlaced, GrantsPlaced
<1>5. cooldown[k] <= until
  BY <1>1, RateLimitAssumption DEF TypeOK, RateLimitAssumption
<1>6. \A s \in q : (IF s \in queue[k] THEN ahead[s] ELSE queue[k]) \subseteq before[s]
  BY <1>1
<1> QED
  BY <1>1, <1>2, <1>3, <1>4, <1>5, <1>6, ScheduleOrder

LEMMA EnqueueOrder ==
    ASSUME TypeOK, WindowInv, NEW s \in Request, Enqueue(s), NEW r \in Request, Granted(r)
    PROVE  InOrder(r)
<1>1. PICK k, q, before, until, pcs :
         /\ k = key(s) /\ q = queue[key(s)] \union {s}
         /\ before = [ahead EXCEPT ![s] = queue[key(s)]]
         /\ until = cooldown[key(s)] /\ pcs = [pc EXCEPT ![s] = "queued"]
  OBVIOUS
<1>2. UNCHANGED <<now, config>> /\ pc[s] = "hooks"
  BY DEF Enqueue
<1>3. k \in Key
  BY <1>1 DEF TypeOK, key
<1>4. CASE Installed(s) /\ timer[k] = Off
  <2>1. Schedule(k, q, before, until, pcs)
    BY <1>1, <1>4 DEF Enqueue
  <2>2. /\ q \in SUBSET Request /\ before \in [Request -> SUBSET Request]
        /\ until \in 0..now + MaxRetryAfter /\ pcs \in [Request -> PC]
    BY <1>1, <1>3 DEF TypeOK, PC
  <2>3. \A u \in q : key(u) = k /\ at[u] = Never
    BY <1>1, <1>2, <1>3, <2>2 DEF WindowInv, EntriesPlaced, GrantsPlaced
  <2>4. cooldown[k] <= until
    BY <1>1, <1>3, RateLimitAssumption DEF TypeOK, RateLimitAssumption
  <2>5. s \notin queue[k]
    BY <1>2, <1>3 DEF WindowInv, EntriesPlaced
  <2>6. \A u \in q : (IF u \in queue[k] THEN ahead[u] ELSE queue[k]) \subseteq before[u]
    <3>1. before[s] = queue[k] /\ \A u \in Request \ {s} : before[u] = ahead[u]
      BY <1>1 DEF TypeOK
    <3>2. \A u \in q \ {s} : u \in queue[k] /\ u \in Request
      BY <1>1, <2>2
    <3> TAKE u \in q
    <3>3. CASE u = s
      BY <2>5, <3>1, <3>3
    <3>4. CASE u # s
      BY <3>1, <3>2, <3>4
    <3> QED
      BY <3>3, <3>4
  <2> QED
    BY <1>2, <1>3, <2>1, <2>2, <2>3, <2>4, <2>6, ScheduleOrder
<1>5. CASE ~(Installed(s) /\ timer[k] = Off)
  BY <1>1, <1>5 DEF Enqueue, Granted
<1> QED
  BY <1>4, <1>5

LEMMA ObserveOrder ==
    ASSUME TypeOK, WindowInv, NEW s \in Request, NEW delay \in Delays, Observe(s, delay),
           NEW r \in Request, Granted(r)
    PROVE  InOrder(r)
<1>1. PICK k, q, before, until, pcs :
         /\ k = key(s) /\ q = queue[key(s)] /\ before = ahead
         /\ until = CooldownEnd(delay) /\ pcs = [pc EXCEPT ![s] = "done"]
  OBVIOUS
<1>2. UNCHANGED <<now, config>>
  BY DEF Observe
<1>3. k \in Key
  BY <1>1 DEF TypeOK, key
<1>4. CASE k \in records /\ Extends(k, until) /\ Installed(s)
  <2>1. Schedule(k, q, before, until, pcs)
    BY <1>1, <1>4 DEF Observe
  <2>2. /\ q \in SUBSET Request /\ before \in [Request -> SUBSET Request]
        /\ pcs \in [Request -> PC]
    BY <1>1, <1>3 DEF TypeOK, PC
  <2>3. until \in 0..now + MaxRetryAfter
    BY <1>1, RateLimitAssumption DEF CooldownEnd, Least, TypeOK, RateLimitAssumption
  <2>4. \A u \in q : key(u) = k /\ at[u] = Never
    BY <1>1, <1>3, <2>2 DEF WindowInv, EntriesPlaced, GrantsPlaced
  <2>5. cooldown[k] <= until
    BY <1>3, <1>4, <2>3, RateLimitAssumption DEF Extends, TypeOK, RateLimitAssumption
  <2>6. \A u \in q : (IF u \in queue[k] THEN ahead[u] ELSE queue[k]) \subseteq before[u]
    BY <1>1
  <2> QED
    BY <1>1, <1>2, <1>3, <2>1, <2>2, <2>3, <2>4, <2>5, <2>6, ScheduleOrder
<1>5. CASE ~(k \in records /\ Extends(k, until) /\ Installed(s))
  BY <1>1, <1>5 DEF Observe, Granted
<1> QED
  BY <1>4, <1>5

LEMMA GrantOrder ==
    ASSUME TypeOK, NEW s \in Request, Grant(s), NEW r \in Request, Granted(r)
    PROVE  InOrder(r)
<1>1. r = s /\ FreeToGo(key(s))
  BY DEF Grant, Granted, TypeOK
<1> QED
  BY <1>1 DEF FreeToGo, InOrder

LEMMA OrderStep ==
    ASSUME TypeOK, WindowInv, [Next]_vars, NEW r \in Request, Granted(r)
    PROVE  InOrder(r)
<1>1. at' # at
  BY DEF Granted
<1>2. Next
  BY <1>1 DEF vars, requestVars
<1>3. ~Tick /\ \A c \in Client : ~Install(c)
  BY <1>1 DEF Tick, Install, requestVars
<1>4. \A c \in Client : ~Unuse(c)
  <2> SUFFICES ASSUME NEW c \in Client, Unuse(c) PROVE FALSE
    OBVIOUS
  <2>1. at' = [s \in Request |-> Never] \/ at' = at
    BY DEF Unuse
  <2> QED
    BY <2>1 DEF Granted
<1>5. \A s \in Request :
         /\ ~Start(s) /\ ~AbortEarly(s) /\ ~Bypass(s) /\ ~Refuse(s)
         /\ ~AbortQueued(s) /\ ~QueueTimeout(s) /\ ~Resume(s)
         /\ ~Answer(s) /\ ~AnswerPlainly(s) /\ ~ObserveBypassed(s)
  BY <1>1 DEF Start, AbortEarly, Bypass, Refuse, AbortQueued, QueueTimeout, LeaveQueue,
              Resume, Answer, AnswerPlainly, ObserveBypassed
<1>6. \/ \E k \in Key : TimerFires(k)
      \/ \E s \in Request : \/ Grant(s)
                            \/ Enqueue(s)
                            \/ \E delay \in Delays : Observe(s, delay)
  BY <1>2, <1>3, <1>4, <1>5 DEF Next, OnTransport
<1> QED
  BY <1>6, TimerFiresOrder, GrantOrder, EnqueueOrder, ObserveOrder

(* No permit is given while the key cools down, and none past a waiter of  *)
(* the key that stood before the new holder (schedule, drain, the hook).   *)
THEOREM GrantsOrdered == Spec => GrantsInOrder
<1>1. TypeOK /\ WindowInv /\ [Next]_vars =>
         [\A r \in Request : at'[r] # at[r] /\ at'[r] # Never =>
             /\ ~Cooling(key(r))
             /\ (IF r \in queue[key(r)] THEN ahead[r] ELSE queue[key(r)])
                   \intersect queue'[key(r)] = {}]_vars
  BY OrderStep DEF Granted, InOrder
<1> QED
  BY <1>1, WindowInit, WindowStep, PTL DEF Spec, GrantsInOrder
-----------------------------------------------------------------------------
(* What makes sure of a timer: nobody queues on a key without a record,    *)
(* the hooks and the entries belong to an installation that is still       *)
(* active, and a timer is due when the cooldown or a grant in the window   *)
(* runs out.                                                               *)
TimersNeeded == \A k \in Key : queue[k] = {} => timer[k] = Off

Unrecorded == \A k \in Key \ records :
    queue[k] = {} /\ stamps[k] = {} /\ cooldown[k] = 0

HooksInstalled ==
    /\ \A r \in Request : pc[r] \in {"hooks", "observing"} => Installed(r)
    /\ \A k \in Key : \A r \in queue[k] : Installed(r)

DueInTime(k) == /\ timer[k] # Off
                /\ \/ timer[k] <= now
                   \/ timer[k] <= cooldown[k]
                   \/ \E r \in stamps[k] : timer[k] <= at[r] + Interval

TimersDue == \A k \in Key : queue[k] # {} => DueInTime(k)

TimerInv ==
    /\ TimersNeeded
    /\ Unrecorded
    /\ HooksInstalled
    /\ TimersDue

LEMMA TimerInit == Init => TimerInv
  BY DEF Init, TimerInv, TimersNeeded, Unrecorded, HooksInstalled, TimersDue

(* A timer that stays due in time stays so while stamps expire.            *)
LEMMA DueKept ==
    ASSUME TypeOK, NEW k \in Key, DueInTime(k), now' \in Nat, now <= now',
           \A r \in stamps[k] : at'[r] = at[r],
           timer'[k] = timer[k], cooldown'[k] = cooldown[k],
           Recent(k) \subseteq stamps'[k]
    PROVE  DueInTime(k)'
<1>1. /\ now \in Nat /\ Interval \in Nat /\ timer[k] \in Nat \union {Off}
      /\ stamps[k] \in SUBSET Request
      /\ \A r \in Request : at[r] \in Nat \union {Never}
  BY RateLimitAssumption DEF TypeOK, RateLimitAssumption
<1>2. CASE timer[k] <= now \/ timer[k] <= cooldown[k]
  BY <1>1, <1>2 DEF DueInTime, Off
<1>3. CASE \E r \in stamps[k] : timer[k] <= at[r] + Interval
  <2>1. PICK r \in stamps[k] : timer[k] <= at[r] + Interval
    BY <1>3
  <2>2. CASE Expired(at[r])
    BY <1>1, <2>1, <2>2 DEF DueInTime, Expired, Off, Never
  <2>3. CASE ~Expired(at[r])
    BY <2>1, <2>3 DEF DueInTime, Recent
  <2> QED
    BY <2>2, <2>3
<1> QED
  BY <1>2, <1>3 DEF DueInTime

(* A step that lets queues shrink and stamps expire, and hands out no      *)
(* permit and no new hook list.                                            *)
LEMMA QuietTimers ==
    ASSUME TypeOK, TimerInv, now' \in Nat, now <= now',
           UNCHANGED <<at, cooldown, records>>,
           \A k \in Key : /\ queue'[k] \subseteq queue[k]
                          /\ Recent(k) \subseteq stamps'[k] /\ stamps'[k] \subseteq stamps[k]
                          /\ timer'[k] = IF queue'[k] = {} THEN Off ELSE timer[k],
           HooksInstalled'
    PROVE  TimerInv'
<1>1. TimersNeeded' /\ Unrecorded'
  BY DEF TimerInv, TimersNeeded, Unrecorded
<1>2. TimersDue'
  <2> SUFFICES ASSUME NEW k \in Key, queue'[k] # {} PROVE DueInTime(k)'
    BY DEF TimersDue
  <2>1. DueInTime(k) /\ timer'[k] = timer[k]
    BY DEF TimerInv, TimersDue
  <2> QED
    BY <2>1, DueKept
<1> QED
  BY <1>1, <1>2 DEF TimerInv

LEMMA HooksKept ==
    ASSUME UNCHANGED <<config, born, live, epoch>>,
           \A r \in Request : pc'[r] \in {"hooks", "observing"} => Installed(r),
           \A k \in Key : \A r \in queue'[k] : Installed(r)
    PROVE  HooksInstalled'
  BY DEF HooksInstalled, Installed, client

LEMMA ScheduleTimers ==
    ASSUME TypeOK, WindowInv, TimerInv,
           UNCHANGED <<now, config, born, live, epoch, records>>, NEW k \in records,
           NEW q \in SUBSET Request, NEW before \in [Request -> SUBSET Request],
           NEW until \in 0..now + MaxRetryAfter, NEW pcs \in [Request -> PC],
           Schedule(k, q, before, until, pcs),
           \A r \in q : key(r) = k /\ at[r] = Never /\ Installed(r),
           \A r \in Request : pcs[r] \in {"hooks", "observing"} => Installed(r)
    PROVE  TimerInv'
<1>1. k \in Key
  BY DEF TypeOK
<1>2. PICK heirs \in SUBSET q, due \in Nat \union {Off} :
         Resolves(heirs, k, q, before, until, pcs) /\ Arms(due, heirs, k, q, until)
  BY <1>1, Scheduled
<1>3. /\ queue' = [queue EXCEPT ![k] = q \ heirs]
      /\ pc' = [r \in Request |-> IF r \in heirs THEN "granted" ELSE pcs[r]]
      /\ at' = [r \in Request |-> IF r \in heirs THEN now ELSE at[r]]
      /\ stamps' = [stamps EXCEPT ![k] = Recent(k) \union heirs]
      /\ cooldown' = [cooldown EXCEPT ![k] = IF q = {} \/ until > now THEN until ELSE 0]
      /\ timer' = [timer EXCEPT ![k] = due]
      /\ q \ heirs = {} => due = Off
      /\ q \ heirs # {} => /\ due # Off
                           /\ \/ due = until /\ until > now
                              \/ \E r \in Recent(k) \union heirs : due = at'[r] + Interval
  BY <1>2 DEF Resolves, Arms
<1>4. /\ queue'[k] = q \ heirs /\ timer'[k] = due
      /\ stamps'[k] = Recent(k) \union heirs
      /\ until > now => cooldown'[k] = until
      /\ \A l \in Key \ {k} : /\ queue'[l] = queue[l] /\ timer'[l] = timer[l]
                              /\ stamps'[l] = stamps[l] /\ cooldown'[l] = cooldown[l]
  BY <1>1, <1>3 DEF TypeOK
<1>5. TimersNeeded'
  BY <1>3, <1>4 DEF TimerInv, TimersNeeded
<1>6. Unrecorded'
  BY <1>1, <1>4 DEF TimerInv, Unrecorded
<1>7. HooksInstalled'
  <2>1. \A l \in Key : \A r \in queue'[l] : Installed(r)
    BY <1>4 DEF TimerInv, HooksInstalled
  <2>2. \A r \in Request : pc'[r] \in {"hooks", "observing"} => Installed(r)
    BY <1>3
  <2> QED
    BY <2>1, <2>2, HooksKept
<1>8. TimersDue'
  <2> SUFFICES ASSUME NEW l \in Key, queue'[l] # {} PROVE DueInTime(l)'
    BY DEF TimersDue
  <2>1. /\ now \in Nat /\ Interval \in Nat /\ until \in Nat
        /\ \A r \in stamps[l] : r \in Request
    BY RateLimitAssumption DEF TypeOK, RateLimitAssumption
  <2>2. CASE l = k
    <3>1. due # Off /\ q \ heirs # {}
      BY <1>3, <1>4, <2>2
    <3>2. due \in Nat
      BY <3>1
    <3>3. CASE due = until /\ until > now
      BY <1>4, <2>1, <2>2, <3>1, <3>3 DEF DueInTime
    <3>4. CASE \E r \in Recent(k) \union heirs : due = at'[r] + Interval
      <4>1. PICK r \in Recent(k) \union heirs : due = at'[r] + Interval
        BY <3>4
      <4>2. r \in stamps'[k] /\ timer'[k] <= at'[r] + Interval
        BY <1>4, <3>2, <4>1
      <4> QED
        BY <1>4, <2>2, <3>1, <4>2 DEF DueInTime
    <3> QED
      BY <1>3, <3>1, <3>3, <3>4
  <2>3. CASE l # k
    <3>1. DueInTime(l) /\ timer'[l] = timer[l] /\ cooldown'[l] = cooldown[l]
          /\ stamps'[l] = stamps[l]
      BY <1>4, <2>3 DEF TimerInv, TimersDue
    <3>2. \A r \in stamps[l] : at'[r] = at[r]
      BY <1>3, <2>1 DEF WindowInv, StampsTimed
    <3>3. Recent(l) \subseteq stamps'[l]
      BY <3>1 DEF Recent
    <3> QED
      BY <2>1, <3>1, <3>2, <3>3, DueKept
  <2> QED
    BY <2>2, <2>3
<1> QED
  BY <1>5, <1>6, <1>7, <1>8 DEF TimerInv

LEMMA TimerFiresTimers ==
    ASSUME TypeOK, WindowInv, TimerInv, NEW k \in Key, TimerFires(k)
    PROVE  TimerInv'
<1>1. PICK q, before, until, pcs :
         q = queue[k] /\ before = ahead /\ until = cooldown[k] /\ pcs = pc
  OBVIOUS
<1>2. Schedule(k, q, before, until, pcs)
  BY <1>1 DEF TimerFires
<1>3. UNCHANGED <<now, config, born, live, epoch, records>>
  BY DEF TimerFires, installVars
<1>4. k \in records
  BY DEF TimerFires, TimerInv, TimersNeeded, Unrecorded
<1>5. /\ q \in SUBSET Request /\ before \in [Request -> SUBSET Request]
      /\ until \in 0..now + MaxRetryAfter /\ pcs \in [Request -> PC]
  BY <1>1 DEF TypeOK
<1>6. /\ \A r \in q : key(r) = k /\ at[r] = Never /\ Installed(r)
      /\ \A r \in Request : pcs[r] \in {"hooks", "observing"} => Installed(r)
  BY <1>1, <1>5 DEF WindowInv, EntriesPlaced, GrantsPlaced, TimerInv, HooksInstalled
<1> QED
  BY <1>2, <1>3, <1>4, <1>5, <1>6, ScheduleTimers

LEMMA EnqueueTimers ==
    ASSUME TypeOK, WindowInv, TimerInv, NEW r \in Request, Enqueue(r)
    PROVE  TimerInv'
<1>1. PICK k, q, before, until, pcs :
         /\ k = key(r) /\ q = queue[key(r)] \union {r}
         /\ before = [ahead EXCEPT ![r] = queue[key(r)]]
         /\ until = cooldown[key(r)] /\ pcs = [pc EXCEPT ![r] = "queued"]
  OBVIOUS
<1>2. /\ UNCHANGED <<now, config, born, live, epoch, records>>
      /\ pc[r] = "hooks" /\ ~FreeToGo(k)
  BY <1>1 DEF Enqueue, installVars
<1>3. k \in Key /\ Installed(r)
  BY <1>1, <1>2 DEF TypeOK, key, TimerInv, HooksInstalled
<1>4. k \in records
  <2> SUFFICES ASSUME k \notin records PROVE FreeToGo(k)
    BY <1>2
  <2>1. queue[k] = {} /\ stamps[k] = {} /\ cooldown[k] = 0
    BY <1>3 DEF TimerInv, Unrecorded
  <2>2. Cardinality(Recent(k)) = 0
    <3>1. Recent(k) = {}
      BY <2>1 DEF Recent
    <3> QED
      BY <3>1, FS_EmptySet
  <2> QED
    BY <2>1, <2>2, RateLimitAssumption
    DEF FreeToGo, HasRoom, Cooling, TypeOK, RateLimitAssumption
<1>5. /\ q \in SUBSET Request /\ before \in [Request -> SUBSET Request]
      /\ until \in 0..now + MaxRetryAfter /\ pcs \in [Request -> PC]
  BY <1>1, <1>3 DEF TypeOK, PC
<1>6. /\ \A s \in q : key(s) = k /\ at[s] = Never /\ Installed(s)
      /\ \A s \in Request : pcs[s] \in {"hooks", "observing"} => Installed(s)
  BY <1>1, <1>2, <1>3, <1>5
  DEF WindowInv, EntriesPlaced, GrantsPlaced, TimerInv, HooksInstalled, TypeOK
<1>7. CASE timer[k] = Off
  <2>1. Schedule(k, q, before, until, pcs)
    BY <1>1, <1>3, <1>7 DEF Enqueue
  <2> QED
    BY <1>2, <1>4, <1>5, <1>6, <2>1, ScheduleTimers
<1>8. CASE timer[k] # Off
  <2>1. /\ queue' = [queue EXCEPT ![k] = q]
        /\ stamps' = [stamps EXCEPT ![k] = Recent(k)]
        /\ pc' = pcs
        /\ UNCHANGED <<at, cooldown, timer>>
    BY <1>1, <1>8 DEF Enqueue
  <2>2. \A l \in Key : /\ queue[l] \subseteq queue'[l]
                       /\ l # k => queue'[l] = queue[l] /\ stamps'[l] = stamps[l]
                       /\ Recent(l) \subseteq stamps'[l] /\ stamps'[l] \subseteq stamps[l]
    BY <1>1, <1>3, <2>1 DEF Recent, TypeOK
  <2>3. TimersNeeded' /\ Unrecorded'
    BY <1>2, <1>4, <2>1, <2>2 DEF TimerInv, TimersNeeded, Unrecorded
  <2>4. HooksInstalled'
    <3>1. \A l \in Key : \A s \in queue'[l] : Installed(s)
      BY <1>3, <1>6, <2>1, <2>2 DEF TimerInv, HooksInstalled, TypeOK
    <3> QED
      BY <1>2, <1>6, <2>1, <3>1, HooksKept
  <2>5. TimersDue'
    <3> SUFFICES ASSUME NEW l \in Key, queue'[l] # {} PROVE DueInTime(l)'
      BY DEF TimersDue
    <3>1. queue[l] # {}
      BY <1>8, <2>2 DEF TimerInv, TimersNeeded
    <3>2. DueInTime(l)
      BY <3>1 DEF TimerInv, TimersDue
    <3>3. now \in Nat /\ now' = now /\ now <= now'
      BY <1>2 DEF TypeOK
    <3> QED
      BY <2>1, <2>2, <3>2, <3>3, DueKept
  <2> QED
    BY <2>3, <2>4, <2>5 DEF TimerInv
<1> QED
  BY <1>7, <1>8

LEMMA GrantTimers ==
    ASSUME TypeOK, WindowInv, TimerInv, NEW r \in Request, Grant(r)
    PROVE  TimerInv'
<1> DEFINE k == key(r)
<1>1. /\ k \in Key /\ pc[r] = "hooks" /\ at[r] = Never /\ queue[k] = {}
  BY DEF Grant, FreeToGo, TypeOK, key, WindowInv, GrantsPlaced
<1>2. PICK gone \in Dropped(k) :
         /\ records' = (records \ gone) \union {k}
         /\ stamps' = [Emptied(stamps, gone, {}) EXCEPT ![k] = Recent(k) \union {r}]
         /\ cooldown' = Emptied(cooldown, gone, 0)
  BY DEF Grant
<1>3. /\ at' = [at EXCEPT ![r] = now]
      /\ pc' = [pc EXCEPT ![r] = "running"]
      /\ UNCHANGED <<now, config, born, live, epoch, timer, queue>>
  BY DEF Grant, installVars
<1>4. k \notin gone /\ \A l \in gone : queue[l] = {}
  BY <1>1, <1>2, DroppedIdle
<1>5. \A l \in Key \ {k} : /\ stamps'[l] = IF l \in gone THEN {} ELSE stamps[l]
                           /\ cooldown'[l] = IF l \in gone THEN 0 ELSE cooldown[l]
  BY <1>1, <1>2 DEF Emptied
<1>6. TimersNeeded'
  BY <1>3 DEF TimerInv, TimersNeeded
<1>7. Unrecorded'
  BY <1>2, <1>3, <1>4, <1>5 DEF TimerInv, Unrecorded
<1>8. HooksInstalled'
  <2>1. \A s \in Request : pc'[s] \in {"hooks", "observing"} => Installed(s)
    BY <1>3 DEF TimerInv, HooksInstalled, TypeOK
  <2>2. \A l \in Key : \A s \in queue'[l] : Installed(s)
    BY <1>3 DEF TimerInv, HooksInstalled
  <2> QED
    BY <1>3, <2>1, <2>2, HooksKept
<1>9. TimersDue'
  <2> SUFFICES ASSUME NEW l \in Key, queue'[l] # {} PROVE DueInTime(l)'
    BY DEF TimersDue
  <2>1. /\ l # k /\ l \notin gone /\ DueInTime(l)
        /\ now \in Nat /\ now' = now /\ now <= now'
    BY <1>1, <1>3, <1>4 DEF TimerInv, TimersDue, TypeOK
  <2>2. stamps'[l] = stamps[l] /\ cooldown'[l] = cooldown[l] /\ timer'[l] = timer[l]
    BY <1>3, <1>5, <2>1
  <2>3. \A s \in stamps[l] : at'[s] = at[s]
    BY <1>1, <1>3 DEF TypeOK, WindowInv, StampsTimed
  <2>4. Recent(l) \subseteq stamps'[l]
    BY <2>2 DEF Recent
  <2> QED
    BY <2>1, <2>2, <2>3, <2>4, DueKept
<1> QED
  BY <1>6, <1>7, <1>8, <1>9 DEF TimerInv

LEMMA ObserveTimers ==
    ASSUME TypeOK, WindowInv, TimerInv,
           NEW r \in Request, NEW delay \in Delays, Observe(r, delay)
    PROVE  TimerInv'
<1>1. PICK k, q, before, until, pcs :
         /\ k = key(r) /\ q = queue[key(r)] /\ before = ahead
         /\ until = CooldownEnd(delay) /\ pcs = [pc EXCEPT ![r] = "done"]
  OBVIOUS
<1>2. UNCHANGED <<now, config, born, live, epoch>> /\ pc[r] = "observing"
  BY DEF Observe, installVars
<1>3. k \in Key /\ Installed(r)
  BY <1>1, <1>2 DEF TypeOK, key, TimerInv, HooksInstalled
<1>4. /\ q \in SUBSET Request /\ before \in [Request -> SUBSET Request]
      /\ pcs \in [Request -> PC]
  BY <1>1, <1>3 DEF TypeOK, PC
<1>5. until \in 0..now + MaxRetryAfter
  BY <1>1, RateLimitAssumption DEF CooldownEnd, Least, TypeOK, RateLimitAssumption
<1>6. /\ \A s \in q : key(s) = k /\ at[s] = Never /\ Installed(s)
      /\ \A s \in Request : pcs[s] \in {"hooks", "observing"} => Installed(s)
  BY <1>1, <1>3, <1>4
  DEF WindowInv, EntriesPlaced, GrantsPlaced, TimerInv, HooksInstalled, TypeOK
<1>7. CASE k \in records /\ Extends(k, until)
  <2>1. Schedule(k, q, before, until, pcs) /\ UNCHANGED records
    BY <1>1, <1>3, <1>7 DEF Observe
  <2> QED
    BY <1>2, <1>4, <1>5, <1>6, <1>7, <2>1, ScheduleTimers
<1>8. CASE ~(k \in records /\ Extends(k, until))
  <2>1. PICK gone \in Dropped(k) :
           /\ records' = (records \ gone) \union {k}
           /\ stamps' = Emptied(stamps, gone, {})
           /\ cooldown' = [Emptied(cooldown, gone, 0) EXCEPT
                              ![k] = IF Extends(k, until) THEN until ELSE @]
           /\ timer' = [timer EXCEPT ![k] = IF Extends(k, until) THEN Off ELSE @]
           /\ pc' = pcs
           /\ UNCHANGED <<at, queue, ahead>>
    BY <1>1, <1>8 DEF Observe
  <2>2. k \notin gone /\ \A l \in gone : queue[l] = {}
    BY <1>3, <2>1, DroppedIdle
  <2>3. \A l \in Key \ {k} :
           /\ stamps'[l] = IF l \in gone THEN {} ELSE stamps[l]
           /\ cooldown'[l] = IF l \in gone THEN 0 ELSE cooldown[l]
           /\ timer'[l] = timer[l]
    BY <1>3, <2>1 DEF Emptied, TypeOK
  <2>4. /\ stamps'[k] = stamps[k]
        /\ ~Extends(k, until) => cooldown'[k] = cooldown[k] /\ timer'[k] = timer[k]
        /\ Extends(k, until) => timer'[k] = Off /\ queue[k] = {}
    BY <1>3, <1>8, <2>1, <2>2 DEF Emptied, TypeOK, TimerInv, Unrecorded
  <2>5. TimersNeeded'
    BY <2>1, <2>3, <2>4 DEF TimerInv, TimersNeeded
  <2>6. Unrecorded'
    BY <2>1, <2>2, <2>3 DEF TimerInv, Unrecorded
  <2>7. HooksInstalled'
    <3>1. \A l \in Key : \A s \in queue'[l] : Installed(s)
      BY <2>1 DEF TimerInv, HooksInstalled
    <3> QED
      BY <1>2, <1>6, <2>1, <3>1, HooksKept
  <2>8. TimersDue'
    <3> SUFFICES ASSUME NEW l \in Key, queue'[l] # {} PROVE DueInTime(l)'
      BY DEF TimersDue
    <3>1. /\ l \notin gone /\ DueInTime(l) /\ now \in Nat /\ now' = now /\ now <= now'
      BY <1>2, <2>1, <2>2 DEF TimerInv, TimersDue, TypeOK
    <3>2. stamps'[l] = stamps[l] /\ cooldown'[l] = cooldown[l] /\ timer'[l] = timer[l]
      BY <2>1, <2>3, <2>4, <3>1
    <3>3. Recent(l) \subseteq stamps'[l] /\ \A s \in stamps[l] : at'[s] = at[s]
      BY <2>1, <3>2 DEF Recent
    <3> QED
      BY <3>1, <3>2, <3>3, DueKept
  <2> QED
    BY <2>5, <2>6, <2>7, <2>8 DEF TimerInv
<1> QED
  BY <1>7, <1>8

(* Steps that touch neither a record nor a queue. *)
LEMMA MovesTimers ==
    ASSUME TypeOK, TimerInv, now' \in Nat, now <= now',
           UNCHANGED <<at, records, stamps, cooldown, timer, queue>>,
           HooksInstalled'
    PROVE  TimerInv'
<1>1. \A k \in Key : /\ queue'[k] \subseteq queue[k]
                     /\ Recent(k) \subseteq stamps'[k] /\ stamps'[k] \subseteq stamps[k]
                     /\ timer'[k] = IF queue'[k] = {} THEN Off ELSE timer[k]
  BY DEF Recent, TimerInv, TimersNeeded
<1> QED
  BY <1>1, QuietTimers

LEMMA InstallTimers ==
    ASSUME TypeOK, TimerInv, NEW c \in Client, Install(c)
    PROVE  TimerInv'
<1>1. /\ ~live[c] /\ live' = [live EXCEPT ![c] = TRUE]
      /\ epoch' = [epoch EXCEPT ![c] = @ + 1]
      /\ UNCHANGED <<now, config, pc, born, at, records, stamps, cooldown, timer, queue>>
  BY DEF Install, requestVars, recordVars
<1>2. \A r \in Request : Installed(r) => Installed(r)'
  BY <1>1 DEF Installed, client, TypeOK
<1>3. HooksInstalled'
  BY <1>1, <1>2 DEF TimerInv, HooksInstalled, TypeOK
<1>4. now' \in Nat /\ now <= now'
  BY <1>1 DEF TypeOK
<1> QED
  BY <1>1, <1>3, <1>4, MovesTimers

LEMMA StartTimers ==
    ASSUME TypeOK, WindowInv, TimerInv, NEW r \in Request, Start(r)
    PROVE  TimerInv'
<1>1. /\ pc[r] = "idle" /\ live[client(r)]
      /\ pc' = [pc EXCEPT ![r] = "hooks"]
      /\ born' = [born EXCEPT ![r] = epoch[client(r)]]
      /\ UNCHANGED <<now, config, at, live, epoch, records, stamps, cooldown, timer, queue>>
  BY DEF Start, installVars, recordVars
<1>2. \A s \in Request : Installed(s) \/ s = r => Installed(s)'
  BY <1>1 DEF Installed, client, TypeOK
<1>3. \A k \in Key : \A s \in queue[k] : s \in Request
  BY DEF TypeOK
<1>4. HooksInstalled'
  BY <1>1, <1>2, <1>3 DEF TimerInv, HooksInstalled, TypeOK
<1>5. now' \in Nat /\ now <= now'
  BY <1>1 DEF TypeOK
<1> QED
  BY <1>1, <1>4, <1>5, MovesTimers

(* One attempt moves on, with hooks that are installed if it captured any. *)
LEMMA OneMovesTimers ==
    ASSUME TypeOK, TimerInv, NEW r \in Request, NEW step,
           pc' = [pc EXCEPT ![r] = step],
           step \in {"hooks", "observing"} => Installed(r),
           UNCHANGED <<now, config, born, at, live, epoch, records, stamps,
                       cooldown, timer, queue>>
    PROVE  TimerInv'
<1>1. \A s \in Request : pc'[s] \in {"hooks", "observing"} => Installed(s)
  BY DEF TimerInv, HooksInstalled, TypeOK
<1>2. \A l \in Key : \A s \in queue'[l] : Installed(s)
  BY DEF TimerInv, HooksInstalled
<1>3. HooksInstalled'
  BY <1>1, <1>2, HooksKept
<1>4. now' \in Nat /\ now <= now'
  BY DEF TypeOK
<1> QED
  BY <1>3, <1>4, MovesTimers

LEMMA SingleTimers ==
    ASSUME TypeOK, TimerInv, NEW r \in Request,
           \/ AbortEarly(r) \/ Bypass(r) \/ Resume(r)
           \/ Answer(r) \/ AnswerPlainly(r) \/ ObserveBypassed(r)
    PROVE  TimerInv'
<1> USE DEF installVars, recordVars
<1>1. CASE AbortEarly(r)
  <2>1. pc' = [pc EXCEPT ![r] = "hooks"] /\ Installed(r)
    BY <1>1 DEF AbortEarly, TypeOK, TimerInv, HooksInstalled
  <2> QED
    BY <1>1, <2>1, OneMovesTimers DEF AbortEarly
<1>2. CASE Bypass(r)
  BY <1>2, OneMovesTimers DEF Bypass
<1>3. CASE Resume(r)
  BY <1>3, OneMovesTimers DEF Resume
<1>4. CASE Answer(r)
  BY <1>4, OneMovesTimers DEF Answer
<1>5. CASE AnswerPlainly(r)
  BY <1>5, OneMovesTimers DEF AnswerPlainly
<1>6. CASE ObserveBypassed(r)
  BY <1>6, OneMovesTimers DEF ObserveBypassed
<1> QED
  BY <1>1, <1>2, <1>3, <1>4, <1>5, <1>6

LEMMA TickTimers ==
    ASSUME TypeOK, TimerInv, Tick
    PROVE  TimerInv'
<1>1. /\ now' \in Nat /\ now <= now'
      /\ UNCHANGED <<config, pc, born, at, live, epoch, records, stamps,
                     cooldown, timer, queue>>
  BY DEF Tick, TypeOK, requestVars, installVars, recordVars
<1>2. HooksInstalled'
  BY <1>1, HooksKept DEF TimerInv, HooksInstalled
<1> QED
  BY <1>1, <1>2, MovesTimers

LEMMA RefuseTimers ==
    ASSUME TypeOK, TimerInv, NEW r \in Request, Refuse(r)
    PROVE  TimerInv'
<1>1. /\ key(r) \in Key
      /\ stamps' = [stamps EXCEPT ![key(r)] = Recent(key(r))]
      /\ pc' = [pc EXCEPT ![r] = "failed"]
      /\ UNCHANGED <<now, config, born, at, live, epoch, records, cooldown, timer, queue>>
  BY DEF Refuse, installVars, TypeOK, key
<1>2. \A k \in Key : /\ queue'[k] \subseteq queue[k]
                     /\ Recent(k) \subseteq stamps'[k] /\ stamps'[k] \subseteq stamps[k]
                     /\ timer'[k] = IF queue'[k] = {} THEN Off ELSE timer[k]
  BY <1>1 DEF Recent, TypeOK, TimerInv, TimersNeeded
<1>3. \A s \in Request : pc'[s] \in {"hooks", "observing"} => Installed(s)
  BY <1>1 DEF TimerInv, HooksInstalled, TypeOK
<1>4. HooksInstalled'
  BY <1>1, <1>3, HooksKept DEF TimerInv, HooksInstalled
<1>5. now' \in Nat /\ now <= now'
  BY <1>1 DEF TypeOK
<1> QED
  BY <1>1, <1>2, <1>4, <1>5, QuietTimers

LEMMA LeaveTimers ==
    ASSUME TypeOK, TimerInv, NEW r \in Request, LeaveQueue(r)
    PROVE  TimerInv'
<1>1. /\ queue' = UnlinkedQueue({r})
      /\ timer' = TimerFor(queue')
      /\ pc' = [pc EXCEPT ![r] = "failed"]
      /\ UNCHANGED <<now, config, born, at, live, epoch, records, stamps, cooldown>>
  BY DEF LeaveQueue, installVars
<1>2. \A k \in Key : /\ queue'[k] \subseteq queue[k]
                     /\ Recent(k) \subseteq stamps'[k] /\ stamps'[k] \subseteq stamps[k]
                     /\ timer'[k] = IF queue'[k] = {} THEN Off ELSE timer[k]
  BY <1>1 DEF Recent, UnlinkedQueue, TimerFor
<1>3. \A s \in Request : pc'[s] \in {"hooks", "observing"} => Installed(s)
  BY <1>1 DEF TimerInv, HooksInstalled, TypeOK
<1>4. HooksInstalled'
  BY <1>1, <1>2, <1>3, HooksKept DEF TimerInv, HooksInstalled
<1>5. now' \in Nat /\ now <= now'
  BY <1>1 DEF TypeOK
<1> QED
  BY <1>1, <1>2, <1>4, <1>5, QuietTimers

(* No hook list is captured when unuse() runs: an entry that stays queued  *)
(* is another installation's.                                              *)
LEMMA UnuseTimers ==
    ASSUME TypeOK, WindowInv, TimerInv, ~LateHooks, NEW c \in Client, Unuse(c)
    PROVE  TimerInv'
<1>1. PICK own : own = Mine(c) \intersect UNION {queue[k] : k \in Key}
  OBVIOUS
<1>2. /\ live' = [live EXCEPT ![c] = FALSE]
      /\ \A r \in Mine(c) : pc[r] \notin {"hooks", "observing"}
      /\ pc' = [r \in Request |-> IF r \in own THEN "failed" ELSE pc[r]]
      /\ UNCHANGED <<now, config, born, epoch>>
  BY <1>1 DEF Unuse
<1>3. \A r \in Request \ Mine(c) : Installed(r) => Installed(r)'
  BY <1>2 DEF Installed, Mine, client, TypeOK
<1>4. \A r \in Request : pc'[r] \in {"hooks", "observing"} => Installed(r)'
  BY <1>2, <1>3 DEF TimerInv, HooksInstalled
<1>5. CASE \A d \in Client \ {c} : ~live[d]
  <2>1. /\ records' = {}
        /\ stamps' = [k \in Key |-> {}]
        /\ cooldown' = [k \in Key |-> 0]
        /\ timer' = [k \in Key |-> Off]
        /\ queue' = [k \in Key |-> {}]
    BY <1>5 DEF Unuse
  <2> QED
    BY <1>4, <2>1 DEF TimerInv, TimersNeeded, Unrecorded, HooksInstalled, TimersDue
<1>6. CASE ~(\A d \in Client \ {c} : ~live[d])
  <2>1. /\ queue' = UnlinkedQueue(own) /\ timer' = TimerFor(queue')
        /\ UNCHANGED <<records, stamps, cooldown, at>>
    BY <1>1, <1>6 DEF Unuse
  <2>2. \A k \in Key : /\ queue'[k] = queue[k] \ own
                       /\ queue'[k] \subseteq queue[k]
                       /\ Recent(k) \subseteq stamps'[k] /\ stamps'[k] \subseteq stamps[k]
                       /\ timer'[k] = IF queue'[k] = {} THEN Off ELSE timer[k]
    BY <2>1 DEF Recent, UnlinkedQueue, TimerFor
  <2>3. \A k \in Key : \A r \in queue'[k] : r \in Request \ Mine(c) /\ r \in queue[k]
    BY <1>1, <2>2 DEF TypeOK
  <2>4. HooksInstalled'
    BY <1>3, <1>4, <2>3 DEF TimerInv, HooksInstalled
  <2>5. now' \in Nat /\ now <= now'
    BY <1>2 DEF TypeOK
  <2> QED
    BY <2>1, <2>2, <2>4, <2>5, QuietTimers
<1> QED
  BY <1>5, <1>6

LEMMA TimerStep ==
    ASSUME TypeOK, WindowInv, TimerInv, ~LateHooks, [Next]_vars
    PROVE  TimerInv'
<1>1. CASE UNCHANGED vars
  <2>1. UNCHANGED <<now, config, pc, born, at, live, epoch, records, stamps,
                    cooldown, timer, queue>>
    BY <1>1 DEF vars, requestVars, installVars, recordVars
  <2>2. HooksInstalled' /\ now' \in Nat /\ now <= now'
    BY <2>1, HooksKept DEF TimerInv, HooksInstalled, TypeOK
  <2> QED
    BY <2>1, <2>2, MovesTimers
<1>2. CASE Next
  <2>1. CASE \E r \in Request : OnTransport(r)
    BY <2>1, SingleTimers, GrantTimers, RefuseTimers, EnqueueTimers DEF OnTransport
  <2>2. CASE \E r \in Request : AbortQueued(r) \/ QueueTimeout(r)
    BY <2>2, LeaveTimers DEF AbortQueued, QueueTimeout
  <2> QED
    BY <1>2, <2>1, <2>2, TickTimers, InstallTimers, UnuseTimers, TimerFiresTimers,
       StartTimers, SingleTimers, ObserveTimers DEF Next
<1> QED
  BY <1>1, <1>2

(* Nobody is stranded: where unuse() does not run between the capture of a *)
(* hook list and the plugin's hook, a key with a waiter has a timer, due   *)
(* no later than its cooldown or its window requires.                      *)
THEOREM WaitersHaveTimers ==
    ASSUME ~LateHooks
    PROVE  Spec => []WaiterHasTimer
<1>1. TimerInv => WaiterHasTimer
  BY DEF TimerInv, TimersDue, DueInTime, WaiterHasTimer
<1>2. Init => TypeOK /\ WindowInv /\ TimerInv
  BY WindowInit, TimerInit
<1>3. TypeOK /\ WindowInv /\ TimerInv /\ [Next]_vars
         => (TypeOK /\ WindowInv /\ TimerInv)'
  BY WindowStep, TimerStep
<1> QED
  BY <1>1, <1>2, <1>3, PTL DEF Spec
=============================================================================
