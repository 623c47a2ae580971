---------------------------- MODULE SessionProofs ----------------------------
(***************************************************************************)
(* What MCSession checks of the plugins, proved for every value of the      *)
(* constants: each component has an invariant of its own, over a record c   *)
(* of its constants, that holds initially and that every step keeps; the    *)
(* theorems about MCSpec take the component's invariant for its part.       *)
(***************************************************************************)
EXTENDS MCSession, TLAPS, FiniteSetTheorems, SequenceTheorems, WellFoundedInduction

----------------------------------------------------------------------------
\* Retry

(* A decision under way has an attempt left unless the request was aborted, *)
(* and jitter is drawn only where the server has named no moment.           *)
RetryInv(c) ==
    /\ now \in Nat /\ attempt \in Nat /\ aborted \in BOOLEAN /\ override \in c.overrides \cup {None}
    /\ other \in [first : BOOLEAN, retried : BOOLEAN]
    /\ error.at \in Nat /\ error.at <= now
    /\ error.server # None => error.server \in Nat
    /\ decision.stage \in {"none", "policy", "delay", "jitter"}
    /\ decision.stage = "jitter" => Retries(c)!ServerDelay = None
    /\ pc \in {"sending", "failed", "deciding", "waiting", "done"}
    /\ decision.stage # "none" => pc \in {"deciding", "done"}
    /\ pc = "deciding" /\ ~aborted => Retries(c)!AttemptsLeft
    /\ pc = "done" /\ decision.stage # "none" => aborted
    /\ Retries(c)!RetryWithinBudget

(* The retries in force, the request's own or the plugin's, are a number. *)
LEMMA RetriesAreNumbers ==
  ASSUME NEW CONSTANT c, Retries(c)!RetryAssumption, override \in c.overrides \cup {None}
  PROVE  Retries(c)!Options.retries \in Nat
<1>1. "retries" \in DOMAIN c.defaults
  BY DEF Retries!RetryAssumption
<1> QED
  BY <1>1 DEF Retries!RetryAssumption, Retries!Options

(* Before the request there is no attempt, and no decision. *)
LEMMA RetryInit ==
  ASSUME NEW CONSTANT c, Retries(c)!RetryAssumption, Retries(c)!Init
  PROVE  RetryInv(c)
<1>1. other \in [first : BOOLEAN, retried : BOOLEAN]
  BY DEF Retries!Init
<1>2. now = 0 /\ attempt = 0 /\ aborted \in BOOLEAN /\ override \in c.overrides \cup {None} /\ pc = "sending" /\ told = None
  BY DEF Retries!Init
<1>3. error.server = None /\ error.at = 0 /\ decision.stage = "none"
  BY DEF Retries!Init, Retries!NoError, Retries!NoDecision
<1>4. Retries(c)!RetryWithinBudget
  BY <1>2 DEF Retries!RetryWithinBudget
<1> QED
  BY <1>1, <1>2, <1>3, <1>4 DEF RetryInv

(* What the other plugin does to the number of attempts. *)
LEMMA OtherKeepsBudget ==
  ASSUME NEW CONSTANT c, Retries(c)!RetryAssumption, RetryInv(c), pc # "waiting",
         Retries(c)!OtherRetries, UNCHANGED <<now, override, eligible, aborted, error, told>>,
         decision'.stage = "none"
  PROVE  RetryInv(c)'
<1> DEFINE max == Retries(c)!Options.retries
<1>1. max \in Nat /\ max' = max /\ Retries(c)!Options' = Retries(c)!Options
  BY RetriesAreNumbers DEF RetryInv, Retries!Options
<1>2. /\ other'.retried /\ other' \in [first : BOOLEAN, retried : BOOLEAN] /\ ~other.retried
      /\ attempt' = attempt + 1 /\ pc' \in {"done", "sending"}
  BY DEF Retries!OtherRetries, Retries!Retried, RetryInv
<1>3. Retries(c)!RetryWithinBudget'
  <2>1. told # None => attempt <= max
    BY <1>2 DEF RetryInv, Retries!RetryWithinBudget
  <2> QED
    BY <1>1, <1>2, <2>1 DEF RetryInv, Retries!RetryWithinBudget
<1> QED
  BY <1>1, <1>2, <1>3 DEF RetryInv, Retries!ServerDelay

(* A request not yet decided upon has tries left, or ends here. *)
LEMMA UndecidedKeepsBudget ==
  ASSUME NEW CONSTANT c, Retries(c)!RetryAssumption, RetryInv(c), pc # "waiting",
         Retries(c)!Undecided, UNCHANGED <<now, override, eligible, aborted, error>>
  PROVE  RetryInv(c)'
<1>1. CASE Retries(c)!OtherRetries
  BY <1>1, OtherKeepsBudget DEF Retries!Undecided, Retries!NoDecision
<1>2. CASE Retries(c)!GiveUp /\ UNCHANGED other
  BY <1>2 DEF Retries!Undecided, Retries!GiveUp, Retries!NoDecision, RetryInv, Retries!RetryWithinBudget,
     Retries!Options, Retries!ServerDelay
<1> QED
  BY <1>1, <1>2 DEF Retries!Undecided

(* onResponse and onError decide once, within the budget. *)
LEMMA CompleteKeepsBudget ==
  ASSUME NEW CONSTANT c, Retries(c)!RetryAssumption, RetryInv(c), pc = "deciding", ~aborted,
         NEW delay \in 0..c.longest, Retries(c)!ServerDelay # None => delay = Retries(c)!ServerDelay,
         Retries(c)!Complete(delay), UNCHANGED <<now, override, eligible, aborted, error>>
  PROVE  RetryInv(c)'
<1> DEFINE max == Retries(c)!Options.retries
<1>1. max \in Nat /\ Retries(c)!Options' = Retries(c)!Options
      /\ Retries(c)!ServerDelay' = Retries(c)!ServerDelay /\ c.longest \in Nat
  BY RetriesAreNumbers DEF RetryInv, Retries!Options, Retries!ServerDelay, Retries!RetryAssumption
<1>2. CASE ~Retries(c)!InTime(delay)
  BY <1>2, UndecidedKeepsBudget DEF Retries!Complete
<1>3. CASE Retries(c)!InTime(delay)
  <2>1. /\ decision' = Retries(c)!NoDecision /\ other' = other
        /\ told' = [at |-> now, delay |-> delay, aborted |-> aborted]
        /\ attempt' = attempt + 1 /\ due' = now + delay /\ pc' \in {"sending", "waiting"}
    BY <1>3 DEF Retries!Complete, Retries!Retried
  <2>2. attempt' \in Nat /\ attempt' <= max
    BY <1>1, <2>1 DEF RetryInv, Retries!AttemptsLeft
  <2>3. Retries(c)!RetryWithinBudget'
    <3>1. told'.at + told'.delay <= Retries(c)!Options.maxElapsedTime /\ ~told'.aborted
      BY <1>3, <2>1 DEF Retries!InTime
    <3>2. Retries(c)!ServerDelay # None => due' >= error.at + Retries(c)!ServerDelay
      BY <2>1 DEF RetryInv
    <3> QED
      BY <1>1, <2>1, <2>2, <3>1, <3>2 DEF Retries!RetryWithinBudget
  <2> QED
    BY <1>1, <2>1, <2>2, <2>3 DEF RetryInv, Retries!NoDecision
<1> QED
  BY <1>2, <1>3

(* Each of the retry plugin's steps keeps the budget. *)
LEMMA RetryStep ==
  ASSUME NEW CONSTANT c, Retries(c)!RetryAssumption, RetryInv(c),
         [Retries(c)!Next]_(Retries(c)!vars)
  PROVE  RetryInv(c)'
<1>1. CASE UNCHANGED Retries(c)!vars
  BY <1>1 DEF Retries!vars, RetryInv, Retries!RetryWithinBudget, Retries!Options, Retries!ServerDelay, Retries!AttemptsLeft
<1>2. CASE Retries(c)!Tick \/ Retries(c)!Succeed \/ Retries(c)!WaitEnds
  BY <1>2 DEF Retries!Tick, Retries!Succeed, Retries!WaitEnds, RetryInv, Retries!RetryWithinBudget,
     Retries!Options, Retries!ServerDelay, Retries!AttemptsLeft
<1>3. CASE Retries(c)!Fail
  <2>1. error'.at = now /\ (error'.server # None => error'.server \in Nat)
    BY <1>3 DEF Retries!Fail, Retries!RetryAssumption
  <2>2. pc = "sending" /\ pc' = "failed"
        /\ UNCHANGED <<now, override, eligible, attempt, aborted, decision, due, other, told>>
    BY <1>3 DEF Retries!Fail
  <2>3. Retries(c)!Options' = Retries(c)!Options /\ decision.stage = "none"
    BY <2>2 DEF Retries!Options, RetryInv
  <2>4. Retries(c)!RetryWithinBudget'
    BY <2>2, <2>3 DEF RetryInv, Retries!RetryWithinBudget
  <2> QED
    BY <2>1, <2>2, <2>3, <2>4 DEF RetryInv
<1>4. CASE Retries(c)!Abort
  <2>1. /\ aborted' = TRUE /\ pc' \in {"failed", "done"} /\ pc # "done"
        /\ pc = "deciding" => pc' = "done"
        /\ UNCHANGED <<now, override, eligible, attempt, decision, due, other, told>>
    BY <1>4 DEF Retries!Abort, RetryInv
  <2>2. /\ error'.at \in Nat /\ error'.at <= now
        /\ error'.server # None => error'.server \in Nat
        /\ pc # "sending" => error' = error
    BY <1>4 DEF Retries!Abort, RetryInv
  <2>3. Retries(c)!Options' = Retries(c)!Options
    BY <2>1 DEF Retries!Options
  <2>4. Retries(c)!RetryWithinBudget'
    BY <2>1, <2>3 DEF RetryInv, Retries!RetryWithinBudget
  <2>5. decision.stage = "jitter" => Retries(c)!ServerDelay' = Retries(c)!ServerDelay
    BY <2>1, <2>2, <2>3 DEF RetryInv, Retries!ServerDelay
  <2> QED
    BY <2>1, <2>2, <2>4, <2>5 DEF RetryInv
<1>5. CASE Retries(c)!Hook
  <2>1. pc = "failed" /\ decision.stage = "none" /\ UNCHANGED <<now, override, eligible, aborted, error>>
    BY <1>5 DEF Retries!Hook, RetryInv
  <2>2. CASE Retries(c)!OtherRetries /\ UNCHANGED <<decision, told>>
    BY <2>1, <2>2, OtherKeepsBudget
  <2>3. CASE /\ Retries(c)!AttemptsLeft
             /\ pc' = "deciding" /\ decision' = [decision EXCEPT !.stage = "policy"]
             /\ UNCHANGED <<attempt, due, other, told>>
    <3>1. decision'.stage \in {"none", "policy"}
      BY <2>1, <2>3
    <3> QED
      BY <2>1, <2>3, <3>1 DEF RetryInv, Retries!RetryWithinBudget, Retries!Options, Retries!ServerDelay, Retries!AttemptsLeft
  <2>4. CASE Retries(c)!Undecided
    BY <2>1, <2>4, UndecidedKeepsBudget
  <2> QED
    BY <1>5, <2>2, <2>3, <2>4 DEF Retries!Hook
<1>6. ASSUME decision.stage # "none", Retries(c)!Silent, aborted, UNCHANGED <<now, override, eligible, aborted, error>>
      PROVE  RetryInv(c)'
  BY <1>6 DEF Retries!Silent, Retries!GiveUp, Retries!NoDecision, RetryInv, Retries!RetryWithinBudget,
     Retries!Options, Retries!ServerDelay
<1>7. CASE Retries(c)!Policy
  <2>1. decision.stage = "policy" /\ UNCHANGED <<now, override, eligible, aborted, error>>
    BY <1>7 DEF Retries!Policy
  <2>2. CASE aborted
    BY <1>6, <1>7, <2>1, <2>2 DEF Retries!Policy
  <2>3. CASE ~aborted
    <3>1. pc = "deciding"
      BY <2>1, <2>3 DEF RetryInv
    <3>2. CASE Retries(c)!Undecided
      BY <2>1, <3>1, <3>2, UndecidedKeepsBudget
    <3>3. CASE Retries(c)!Goes("delay")
      <4>1. decision'.stage \in {"delay", "policy"} /\ UNCHANGED <<attempt, pc, due, other, told>>
        BY <2>1, <3>3 DEF Retries!Goes
      <4> QED
        BY <2>1, <3>1, <4>1 DEF RetryInv, Retries!RetryWithinBudget, Retries!Options, Retries!ServerDelay, Retries!AttemptsLeft
    <3> QED
      BY <1>7, <2>3, <3>2, <3>3 DEF Retries!Policy
  <2> QED
    BY <2>2, <2>3
<1>8. CASE Retries(c)!Finalize
  <2>1. decision.stage = "delay" /\ UNCHANGED <<now, override, eligible, aborted, error>>
    BY <1>8 DEF Retries!Finalize
  <2>2. CASE aborted
    BY <1>6, <1>8, <2>1, <2>2 DEF Retries!Finalize
  <2>3. CASE ~aborted
    <3>0. pc = "deciding"
      BY <2>1, <2>3 DEF RetryInv
    <3>1. CASE Retries(c)!Undecided
      BY <2>1, <3>0, <3>1, UndecidedKeepsBudget
    <3>2. CASE /\ Retries(c)!ServerDelay # None /\ ~(Retries(c)!ServerDelay > c.longest)
               /\ Retries(c)!Complete(Retries(c)!Bounded(Retries(c)!ServerDelay))
      <4>1. Retries(c)!ServerDelay \in Nat
        BY <3>2 DEF RetryInv, Retries!ServerDelay
      <4>2. PICK delay \in 0..c.longest : delay = Retries(c)!ServerDelay
                                 /\ delay = Retries(c)!Bounded(Retries(c)!ServerDelay)
        BY <3>2, <4>1 DEF Retries!Bounded, Retries!MinOf, Retries!MaxOf, Retries!RetryAssumption
      <4> QED
        BY <2>1, <2>3, <3>0, <3>2, <4>2, CompleteKeepsBudget
    <3>3. CASE /\ ~(Retries(c)!ServerDelay # None)
               /\ \E delay \in c.delays :
                     decision' = [stage |-> "jitter", base |-> Retries(c)!Bounded(delay)]
                     /\ UNCHANGED <<attempt, pc, due, other, told>>
      BY <2>1, <3>0, <3>3 DEF RetryInv, Retries!RetryWithinBudget, Retries!Options, Retries!ServerDelay, Retries!AttemptsLeft
    <3>4. CASE /\ ~(Retries(c)!ServerDelay # None)
               /\ \E delay \in c.delays : Retries(c)!Complete(Retries(c)!Bounded(delay))
      <4>1. PICK given \in c.delays : Retries(c)!Complete(Retries(c)!Bounded(given))
        BY <3>4
      <4>2. PICK delay \in 0..c.longest : delay = Retries(c)!Bounded(given)
        BY DEF Retries!Bounded, Retries!MinOf, Retries!MaxOf, Retries!RetryAssumption
      <4> QED
        BY <2>1, <2>3, <3>0, <3>4, <4>1, <4>2, CompleteKeepsBudget
    <3> QED
      BY <1>8, <2>3, <3>1, <3>2, <3>3, <3>4 DEF Retries!Finalize
  <2> QED
    BY <2>2, <2>3
<1>9. CASE Retries(c)!Jitter
  <2>1. decision.stage = "jitter" /\ UNCHANGED <<now, override, eligible, aborted, error>>
    BY <1>9 DEF Retries!Jitter
  <2>2. CASE aborted
    BY <1>6, <1>9, <2>1, <2>2 DEF Retries!Jitter
  <2>3. CASE ~aborted
    <3>0. pc = "deciding" /\ Retries(c)!ServerDelay = None
      BY <2>1, <2>3 DEF RetryInv
    <3>1. PICK given \in c.delays \cup (0..decision.base) : Retries(c)!Complete(Retries(c)!Bounded(given))
      BY <1>9, <2>3 DEF Retries!Jitter
    <3>2. given \in Int
      BY DEF Retries!RetryAssumption
    <3>3. PICK delay \in 0..c.longest : delay = Retries(c)!Bounded(given)
      BY <3>2 DEF Retries!Bounded, Retries!MinOf, Retries!MaxOf, Retries!RetryAssumption
    <3> QED
      BY <2>1, <2>3, <3>0, <3>1, <3>3, CompleteKeepsBudget
  <2> QED
    BY <2>2, <2>3
<1>10. CASE Retries(c)!Finished
  BY <1>1, <1>10 DEF Retries!Finished
<1> QED
  BY <1>1, <1>2, <1>3, <1>4, <1>5, <1>7, <1>8, <1>9, <1>10 DEF Retries!Next

----------------------------------------------------------------------------
\* Auth

ReqType(c) == [pc : {"new", "gets", "sent", "refused", "asks", "joins", "reads", "done"}, inst : c.clients \cup {None},
            token : Auths(c)!Token \cup {None}, refreshed : BOOLEAN, waits : c.refreshes \cup {None}]
RefreshType(c) == [state : {"none", "failed", "settled"} \cup Auths(c)!Pending, members : SUBSET c.clients,
                joined : SUBSET c.clients, token : Auths(c)!Token \cup {None}, void : BOOLEAN]

AuthShape(c) ==
    /\ req \in [c.requests -> ReqType(c)] /\ refresh \in [c.refreshes -> RefreshType(c)]
    /\ refreshState \in c.refreshes \cup {None}
    /\ installed \in [c.clients -> {"not yet", "on", "off"}]
    /\ stored \in Auths(c)!Token \cup {None} /\ valid \in Auths(c)!Token

Sound(c, q) ==
    /\ q \in ReqType(c)
    /\ q.pc \in {"gets", "sent", "refused", "asks", "joins", "reads"} => q.inst \in c.clients
    /\ q.pc = "joins" => q.waits \in c.refreshes
    /\ q.pc \in {"new", "gets"} => ~q.refreshed

(* A refresh that is pending and is not the one that is joined has been left by all. *)
RefreshesInv(c) ==
    /\ \A f \in c.refreshes :
          /\ refresh[f].members \subseteq refresh[f].joined
          /\ refresh[f].state = "writing" => refresh[f].token \in Auths(c)!Token
          /\ refresh[f].state \in Auths(c)!Pending /\ f # refreshState => refresh[f].members = {}
    /\ refreshState # None =>
          /\ refresh[refreshState].state \in Auths(c)!Pending /\ refresh[refreshState].members # {}
          /\ ~c.late => \A i \in refresh[refreshState].members : Auths(c)!On(i)

AuthInv(c) == AuthShape(c) /\ (\A r \in c.requests : Sound(c, req[r])) /\ RefreshesInv(c)

(* What the runs check of the refreshes follows from the invariant. *)
LEMMA AuthIsShared ==
  ASSUME NEW CONSTANT c, Auths(c)!AuthAssumption, AuthInv(c)
  PROVE  Auths(c)!RefreshShared
<1>1. Auths(c)!TypeOK
  BY DEF AuthInv, AuthShape, RefreshesInv, Sound, ReqType, RefreshType, Auths!TypeOK
<1>2. \A f, g \in c.refreshes :
          f # g /\ refresh[f].state \in Auths(c)!Pending /\ refresh[g].state \in Auths(c)!Pending
             => refresh[f].members = {} \/ refresh[g].members = {}
  BY DEF AuthInv, RefreshesInv
<1> QED
  BY <1>1, <1>2 DEF Auths!RefreshShared, AuthInv, RefreshesInv

(* No refresh is pending at first. *)
LEMMA AuthInit ==
  ASSUME NEW CONSTANT c, Auths(c)!AuthAssumption, Auths(c)!Init
  PROVE  AuthInv(c)
<1>1. 0 \in Auths(c)!Token
  BY DEF Auths!AuthAssumption, Auths!Token
<1>2. Auths(c)!NoRequest \in ReqType(c) /\ Auths(c)!NoRefresh \in RefreshType(c) /\ Sound(c, Auths(c)!NoRequest)
  BY <1>1 DEF Auths!NoRequest, Auths!NoRefresh, ReqType, RefreshType, Sound
<1>3. AuthShape(c)
  BY <1>1, <1>2 DEF AuthShape, Auths!Init
<1>4. RefreshesInv(c)
  BY DEF RefreshesInv, Auths!Init, Auths!NoRefresh, Auths!Pending
<1> QED
  BY <1>2, <1>3, <1>4 DEF AuthInv, Auths!Init

(* A step of one request, the refreshes aside. *)
LEMMA RequestKeeps ==
  ASSUME NEW CONSTANT c, Auths(c)!AuthAssumption, AuthInv(c), NEW r \in c.requests, NEW q, Sound(c, q),
         req' = [req EXCEPT ![r] = q],
         UNCHANGED <<refresh, refreshState, installed, stored, valid>>
  PROVE  AuthInv(c)'
<1>1. AuthShape(c)'
  BY DEF AuthInv, AuthShape, Sound
<1>2. \A x \in c.requests : Sound(c, req'[x])
  BY DEF AuthInv, AuthShape
<1>3. RefreshesInv(c)'
  BY DEF AuthInv, RefreshesInv, Auths!On
<1> QED
  BY <1>1, <1>2, <1>3 DEF AuthInv, Sound

(* A request that gives its place in the refresh up. *)
LEMMA GivesKeeps ==
  ASSUME NEW CONSTANT c, Auths(c)!AuthAssumption, AuthInv(c), NEW r \in c.requests, Auths(c)!Gives(r),
         UNCHANGED <<refresh, refreshState, installed, stored, valid>>
  PROVE  AuthInv(c)'
<1>1. 0 \in Auths(c)!Token
  BY DEF Auths!AuthAssumption, Auths!Token
<1>2. Sound(c, [Auths(c)!NoRequest EXCEPT !.pc = "done"])
  BY <1>1 DEF Auths!NoRequest, ReqType, Sound
<1> QED
  BY <1>2, RequestKeeps DEF Auths!Gives

(* Joining the pending refresh, or starting one. *)
LEMMA JoinKeeps ==
  ASSUME NEW CONSTANT c, Auths(c)!AuthAssumption, AuthInv(c), NEW r \in c.requests, req[r].inst \in c.clients,
         ~c.late => Auths(c)!On(req[r].inst),
         Auths(c)!JoinRefresh(r), UNCHANGED <<installed, stored, valid>>
  PROVE  AuthInv(c)'
<1> DEFINE i == req[r].inst
           joined(f) == [req[r] EXCEPT !.pc = "joins", !.refreshed = TRUE, !.waits = f]
           more == [refresh[refreshState] EXCEPT !.members = @ \cup {i}, !.joined = @ \cup {i}]
           first == [Auths(c)!NoRefresh EXCEPT !.state = "running", !.members = {i}, !.joined = {i}]
<1>0. AuthShape(c) /\ RefreshesInv(c) /\ Sound(c, req[r])
  BY DEF AuthInv
<1>1. ASSUME NEW f \in c.refreshes, NEW n \in RefreshType(c), req' = [req EXCEPT ![r] = joined(f)],
             refresh' = [refresh EXCEPT ![f] = n], refreshState' = f, refreshState \in {None, f},
             n.state \in Auths(c)!Pending, n.members \subseteq n.joined, n.members # {}, n.state = "writing" => n.token \in Auths(c)!Token,
             ~c.late => \A x \in n.members : Auths(c)!On(x)
      PROVE  AuthInv(c)'
  <2>1. Sound(c, joined(f))
    BY <1>0 DEF Sound, ReqType
  <2>2. AuthShape(c)'
    BY <1>0, <1>1, <2>1 DEF AuthShape, Sound
  <2>3. \A x \in c.requests : Sound(c, req'[x])
    BY <1>0, <1>1, <2>1 DEF AuthShape, AuthInv
  <2>4. RefreshesInv(c)'
    BY <1>0, <1>1 DEF AuthShape, RefreshesInv, Auths!Pending, Auths!On, Auths!AuthAssumption
  <2> QED
    BY <2>2, <2>3, <2>4 DEF AuthInv, Sound
<1>2. CASE /\ refreshState # None /\ UNCHANGED refreshState
           /\ req' = [req EXCEPT ![r] = joined(refreshState)]
           /\ refresh' = [refresh EXCEPT ![refreshState] = more]
  <2>1. refreshState \in c.refreshes /\ more \in RefreshType(c)
    BY <1>0, <1>2 DEF AuthShape, RefreshType
  <2>2. /\ more.state \in Auths(c)!Pending /\ more.members \subseteq more.joined /\ more.members # {}
        /\ more.state = "writing" => more.token \in Auths(c)!Token
        /\ ~c.late => \A x \in more.members : Auths(c)!On(x)
    BY <1>0, <1>2, <2>1 DEF AuthShape, RefreshType, RefreshesInv
  <2> QED
    BY <1>1, <1>2, <2>1, <2>2
<1>3. ASSUME NEW f \in c.refreshes, refreshState = None, req' = [req EXCEPT ![r] = joined(f)],
             refresh' = [refresh EXCEPT ![f] = first], refreshState' = f
      PROVE  AuthInv(c)'
  <2>1. first \in RefreshType(c) /\ first.state = "running" /\ first.members = {i} /\ first.joined = {i}
    BY DEF Auths!NoRefresh, RefreshType, Auths!Pending
  <2> QED
    BY <1>1, <1>3, <2>1 DEF Auths!Pending
<1>4. CASE refreshState = None /\ Auths(c)!GivesUp(r)
  BY <1>4, GivesKeeps DEF Auths!GivesUp
<1>5. \/ /\ refreshState # None /\ UNCHANGED refreshState
         /\ req' = [req EXCEPT ![r] = joined(refreshState)]
         /\ refresh' = [refresh EXCEPT ![refreshState] = more]
      \/ \E f \in c.refreshes :
            /\ refreshState = None /\ req' = [req EXCEPT ![r] = joined(f)]
            /\ refresh' = [refresh EXCEPT ![f] = first] /\ refreshState' = f
      \/ refreshState = None /\ Auths(c)!GivesUp(r)
  <2>1. \A f : [req EXCEPT ![r].pc = "joins", ![r].refreshed = TRUE, ![r].waits = f] = [req EXCEPT ![r] = joined(f)]
    BY <1>0 DEF AuthShape, ReqType
  <2>2. refreshState # None =>
           [refresh EXCEPT ![refreshState].members = @ \cup {i}, ![refreshState].joined = @ \cup {i}]
              = [refresh EXCEPT ![refreshState] = more]
    BY <1>0 DEF AuthShape, RefreshType
  <2> QED
    BY <2>1, <2>2 DEF Auths!JoinRefresh
<1> QED
  BY <1>2, <1>3, <1>4, <1>5

(* The end of a refresh. *)
LEMMA RefreshKeeps ==
  ASSUME NEW CONSTANT c, Auths(c)!AuthAssumption, AuthInv(c), NEW f \in c.refreshes, NEW n \in RefreshType(c),
         Auths(c)!Ends(f, n),
         refresh[f].state \in Auths(c)!Pending, n.members = refresh[f].members, n.joined = refresh[f].joined,
         n.state = "writing" => n.token \in Auths(c)!Token,
         \/ n.state \in Auths(c)!Pending /\ UNCHANGED refreshState
         \/ n.state \notin Auths(c)!Pending /\ Auths(c)!Forgets(f),
         UNCHANGED <<req, installed, valid>>, stored' \in Auths(c)!Token \cup {None}
  PROVE  AuthInv(c)'
<1>1. AuthShape(c)'
  BY DEF AuthInv, AuthShape, Auths!Ends, Auths!Forgets
<1>2. RefreshesInv(c)'
  BY DEF AuthInv, AuthShape, RefreshesInv, Auths!Ends, Auths!Forgets, Auths!On
<1> QED
  BY <1>1, <1>2 DEF AuthInv, Sound

(* Each of the auth plugin's steps keeps its invariant. *)
LEMMA AuthStep ==
  ASSUME NEW CONSTANT c, Auths(c)!AuthAssumption, AuthInv(c), [Auths(c)!Next]_(Auths(c)!vars)
  PROVE  AuthInv(c)'
<1>0. AuthShape(c) /\ RefreshesInv(c) /\ \A r \in c.requests : Sound(c, req[r])
  BY DEF AuthInv
<1>1. CASE UNCHANGED Auths(c)!vars
  BY <1>1 DEF Auths!vars, AuthInv, AuthShape, RefreshesInv, Sound, Auths!On
<1>2. ASSUME NEW r \in c.requests, NEW i \in c.clients, Auths(c)!Send(r, i)
      PROVE  AuthInv(c)'
  <2>1. Sound(c, [req[r] EXCEPT !.pc = "gets", !.inst = i])
    BY <1>0, <1>2 DEF Auths!Send, Sound, ReqType
  <2> QED
    BY <1>2, <2>1, RequestKeeps DEF Auths!Send
<1>15. ASSUME NEW r \in c.requests, Auths(c)!GetToken(r)
       PROVE  AuthInv(c)'
  <2>1. Sound(c, [req[r] EXCEPT !.pc = "sent", !.token = stored])
    BY <1>0, <1>15 DEF Auths!GetToken, AuthShape, Sound, ReqType
  <2> QED
    BY <1>15, <2>1, RequestKeeps DEF Auths!GetToken
<1>3. ASSUME NEW r \in c.requests, Auths(c)!Answer(r)
      PROVE  AuthInv(c)'
  <2>1. PICK next \in {"refused", "done"} : req' = [req EXCEPT ![r] = [req[r] EXCEPT !.pc = next]]
    BY <1>3 DEF Auths!Answer
  <2>2. Sound(c, [req[r] EXCEPT !.pc = next])
    BY <1>0, <1>3 DEF Auths!Answer, Sound, ReqType
  <2> QED
    BY <1>3, <2>1, <2>2, RequestKeeps DEF Auths!Answer
<1>4. ASSUME NEW r \in c.requests, Auths(c)!Hook(r)
      PROVE  AuthInv(c)'
  <2>1. CASE Auths(c)!GivesUp(r)
    BY <1>4, <2>1, GivesKeeps DEF Auths!Hook, Auths!GivesUp
  <2>2. CASE req' = [req EXCEPT ![r].pc = "asks"] /\ UNCHANGED <<refresh, refreshState>>
    <3>1. Sound(c, [req[r] EXCEPT !.pc = "asks"])
      BY <1>0, <1>4 DEF Auths!Hook, Sound, ReqType
    <3> QED
      BY <1>4, <2>2, <3>1, RequestKeeps DEF Auths!Hook
  <2>3. CASE Auths(c)!JoinRefresh(r) /\ (Auths(c)!On(req[r].inst) \/ c.late)
    <3>1. req[r].inst \in c.clients
      BY <1>0, <1>4 DEF Auths!Hook, Sound
    <3> QED
      BY <1>4, <2>3, <3>1, JoinKeeps DEF Auths!Hook
  <2> QED
    BY <1>4, <2>1, <2>2, <2>3 DEF Auths!Hook
<1>5. ASSUME NEW r \in c.requests, Auths(c)!PolicyAnswers(r)
      PROVE  AuthInv(c)'
  <2>1. CASE Auths(c)!GivesUp(r)
    BY <1>5, <2>1, GivesKeeps DEF Auths!PolicyAnswers, Auths!GivesUp
  <2>2. CASE Auths(c)!JoinRefresh(r) /\ Auths(c)!On(req[r].inst)
    <3>1. req[r].inst \in c.clients
      BY <1>0, <1>5 DEF Auths!PolicyAnswers, Sound
    <3> QED
      BY <1>5, <2>2, <3>1, JoinKeeps DEF Auths!PolicyAnswers
  <2> QED
    BY <1>5, <2>1, <2>2 DEF Auths!PolicyAnswers
<1>6. ASSUME NEW r \in c.requests, Auths(c)!Resume(r)
      PROVE  AuthInv(c)'
  <2> DEFINE f == refresh[req[r].waits]
  <2>1. /\ req[r].pc = "joins" /\ req[r].waits \in c.refreshes /\ req[r] \in ReqType(c) /\ req[r].inst \in c.clients
        /\ f.state \in {"settled", "failed"} /\ f.token \in Auths(c)!Token \cup {None}
        /\ UNCHANGED <<refresh, refreshState, installed, stored, valid>>
    BY <1>0, <1>6 DEF Auths!Resume, Sound, AuthShape, RefreshType
  <2> DEFINE stops == f.state = "failed" \/ ~Auths(c)!On(req[r].inst) \/ (~f.void /\ f.token = None)
  <2>2. CASE stops
    <3>1. Auths(c)!Gives(r)
      BY <1>6, <2>2 DEF Auths!Resume, Auths!Gives
    <3> QED
      BY <2>1, <3>1, GivesKeeps
  <2>3. CASE ~stops
    <3>1. PICK q \in {[req[r] EXCEPT !.pc = "reads", !.waits = None],
                      [req[r] EXCEPT !.pc = "sent", !.token = f.token, !.waits = None]} : req' = [req EXCEPT ![r] = q]
      BY <1>6, <2>3 DEF Auths!Resume
    <3>2. Sound(c, q)
      BY <2>1, <2>3 DEF Sound, ReqType
    <3> QED
      BY <2>1, <3>1, <3>2, RequestKeeps
  <2> QED
    BY <2>2, <2>3
<1>7. ASSUME NEW r \in c.requests, Auths(c)!ReadToken(r)
      PROVE  AuthInv(c)'
  <2>1. CASE Auths(c)!Gives(r)
    BY <1>7, <2>1, GivesKeeps DEF Auths!ReadToken
  <2>2. CASE req' = [req EXCEPT ![r].pc = "sent", ![r].token = stored]
    <3>1. Sound(c, [req[r] EXCEPT !.pc = "sent", !.token = stored])
      BY <1>0, <1>7 DEF Auths!ReadToken, AuthShape, Sound, ReqType
    <3> QED
      BY <1>7, <2>2, <3>1, RequestKeeps DEF Auths!ReadToken
  <2> QED
    BY <1>7, <2>1, <2>2 DEF Auths!ReadToken
<1>8. ASSUME NEW r \in c.requests, Auths(c)!Abort(r)
      PROVE  AuthInv(c)'
  BY <1>8, GivesKeeps DEF Auths!Abort, Auths!GivesUp
<1>9. ASSUME NEW f \in c.refreshes, Auths(c)!Finish(f)
      PROVE  AuthInv(c)'
  <2> DEFINE got == [refresh[f] EXCEPT !.token = valid]
  <2>1. /\ refresh[f] \in RefreshType(c) /\ refresh[f].state = "running" /\ valid \in Auths(c)!Token /\ stored \in Auths(c)!Token \cup {None}
        /\ UNCHANGED <<req, installed, valid>>
    BY <1>0, <1>9 DEF Auths!Finish, AuthShape
  <2>2. PICK n \in {[got EXCEPT !.state = "writing"], [got EXCEPT !.state = "settled"],
                    [got EXCEPT !.state = "settled", !.token = None],
                    [got EXCEPT !.state = "settled", !.void = TRUE], [got EXCEPT !.state = "failed"]} :
           /\ Auths(c)!Ends(f, n) /\ stored' \in Auths(c)!Token \cup {None}
           /\ IF n.state = "writing" THEN UNCHANGED refreshState ELSE Auths(c)!Forgets(f)
    BY <1>9, <2>1 DEF Auths!Finish, RefreshType
  <2>3. /\ n \in RefreshType(c) /\ n.members = refresh[f].members /\ n.joined = refresh[f].joined
        /\ (n.state = "writing" => n.token \in Auths(c)!Token) /\ n.state \in {"writing", "settled", "failed"}
    <3>1. got \in RefreshType(c) /\ got.token = valid /\ got.members = refresh[f].members /\ got.joined = refresh[f].joined
      BY <2>1 DEF RefreshType
    <3> HIDE DEF got
    <3> QED
      BY <2>1, <2>2, <3>1 DEF RefreshType, Auths!Pending
  <2> QED
    BY <2>1, <2>2, <2>3, RefreshKeeps DEF Auths!Pending
<1>10. ASSUME NEW f \in c.refreshes, Auths(c)!WriteDone(f)
       PROVE  AuthInv(c)'
  <2>1. /\ refresh[f] \in RefreshType(c) /\ refresh[f].state = "writing" /\ refresh[f].token \in Auths(c)!Token /\ stored \in Auths(c)!Token \cup {None}
        /\ UNCHANGED <<req, installed, valid>> /\ Auths(c)!Forgets(f)
    BY <1>0, <1>10 DEF Auths!WriteDone, AuthShape, RefreshesInv
  <2>2. PICK how \in {"settled", "failed"} : Auths(c)!Ends(f, [refresh[f] EXCEPT !.state = how]) /\ stored' \in Auths(c)!Token \cup {None}
    BY <1>10, <2>1 DEF Auths!WriteDone
  <2>3. [refresh[f] EXCEPT !.state = how] \in RefreshType(c)
    BY <2>1 DEF RefreshType
  <2> QED
    BY <2>1, <2>2, <2>3, RefreshKeeps DEF Auths!Pending, RefreshType
<1>11. ASSUME NEW i \in c.clients, Auths(c)!Install(i)
       PROVE  AuthInv(c)'
  <2>1. AuthShape(c)'
    BY <1>0, <1>11 DEF Auths!Install, AuthShape
  <2>2. RefreshesInv(c)'
    BY <1>0, <1>11 DEF Auths!Install, AuthShape, RefreshesInv, Auths!On, RefreshType
  <2> QED
    BY <1>0, <1>11, <2>1, <2>2 DEF Auths!Install, AuthInv, Sound
<1>12. ASSUME NEW i \in c.clients, Auths(c)!Unuse(i)
       PROVE  AuthInv(c)'
  <2>1. CASE refreshState = None
    <3>1. AuthShape(c)'
      BY <1>0, <1>12, <2>1 DEF Auths!Unuse, AuthShape
    <3>2. RefreshesInv(c)'
      BY <1>0, <1>12, <2>1 DEF Auths!Unuse, RefreshesInv
    <3> QED
      BY <1>0, <1>12, <3>1, <3>2 DEF Auths!Unuse, AuthInv, Sound
  <2>2. CASE refreshState # None
    <3> DEFINE rest == refresh[refreshState].members \ {i}
               left == [refresh[refreshState] EXCEPT !.members = rest]
    <3>1. refreshState \in c.refreshes /\ left \in RefreshType(c) /\ refresh[refreshState] \in RefreshType(c)
      BY <1>0, <2>2 DEF AuthShape, RefreshType
    <3>2. /\ refresh' = [refresh EXCEPT ![refreshState] = left] /\ UNCHANGED <<req, stored, valid>>
          /\ refreshState' = IF rest = {} THEN None ELSE refreshState
          /\ installed' = [installed EXCEPT ![i] = "off"]
      BY <1>12, <2>2 DEF Auths!Unuse
    <3>3. /\ left.members = rest /\ left.joined = refresh[refreshState].joined
          /\ left.state = refresh[refreshState].state /\ left.token = refresh[refreshState].token
      BY <3>1 DEF RefreshType
    <3>4. AuthShape(c)'
      BY <1>0, <3>1, <3>2 DEF AuthShape
    <3>5. \A f \in c.refreshes : f # refreshState => refresh'[f] = refresh[f]
      BY <1>0, <3>2 DEF AuthShape
    <3>6. refresh'[refreshState] = left
      BY <1>0, <3>1, <3>2 DEF AuthShape
    <3>7. ~c.late => \A x \in rest : Auths(c)!On(x)'
      BY <1>0, <2>2, <3>1, <3>2 DEF Auths!On, AuthShape, RefreshesInv, RefreshType
    <3>8. RefreshesInv(c)'
      <4>1. \A f \in c.refreshes :
               /\ refresh'[f].members \subseteq refresh'[f].joined
               /\ refresh'[f].state = "writing" => refresh'[f].token \in Auths(c)!Token
        <5>1. /\ left.members \subseteq left.joined
              /\ left.state = "writing" => left.token \in Auths(c)!Token
          BY <1>0, <3>1, <3>3 DEF RefreshesInv
        <5>2. ASSUME NEW f \in c.refreshes, f # refreshState
              PROVE  /\ refresh'[f].members \subseteq refresh'[f].joined
                     /\ refresh'[f].state = "writing" => refresh'[f].token \in Auths(c)!Token
          BY <1>0, <3>5, <5>2 DEF RefreshesInv
        <5> QED
          BY <3>6, <5>1, <5>2
      <4>2. \A f \in c.refreshes : refresh'[f].state \in Auths(c)!Pending /\ f # refreshState' => refresh'[f].members = {}
        <5>1. refreshState' # refreshState => refresh'[refreshState].members = {}
          BY <3>2, <3>3, <3>6
        <5>2. ASSUME NEW f \in c.refreshes, f # refreshState, refresh'[f].state \in Auths(c)!Pending
              PROVE  refresh'[f].members = {}
          BY <1>0, <3>5, <5>2 DEF RefreshesInv
        <5> QED
          BY <5>1, <5>2
      <4>3. refreshState' # None =>
               /\ refreshState' = refreshState /\ refresh'[refreshState'] = left
               /\ left.state \in Auths(c)!Pending /\ left.members # {}
        BY <1>0, <2>2, <3>2, <3>3, <3>6 DEF RefreshesInv
      <4> QED
        BY <3>1, <3>3, <3>7, <4>1, <4>2, <4>3 DEF RefreshesInv, Auths!Pending, Auths!Token
    <3> QED
      BY <1>0, <3>2, <3>4, <3>8 DEF AuthInv, Sound
  <2> QED
    BY <2>1, <2>2
<1>13. CASE Auths(c)!Expire
  <2>0. valid' \in Auths(c)!Token
    <3>1. valid \in Auths(c)!Token /\ valid < c.tokens /\ valid' = valid + 1
      BY <1>0, <1>13 DEF Auths!Expire, AuthShape
    <3> QED
      BY <3>1 DEF Auths!Token, Auths!AuthAssumption
  <2>1. AuthShape(c)'
    BY <1>0, <1>13, <2>0 DEF Auths!Expire, AuthShape
  <2> QED
    BY <1>0, <1>13, <2>1 DEF Auths!Expire, AuthInv, RefreshesInv, Sound, Auths!On
<1>14. CASE Auths(c)!Finished
  BY <1>1, <1>14 DEF Auths!Finished
<1> QED
  BY <1>1, <1>2, <1>3, <1>4, <1>5, <1>6, <1>7, <1>8, <1>9, <1>10, <1>11, <1>12, <1>13, <1>14, <1>15 DEF Auths!Next

(* No step of a removed plugin asks for a new refresh. *)
LEMMA AuthSilent ==
  ASSUME NEW CONSTANT c, Auths(c)!AuthAssumption, ~c.late, AuthInv(c), [Auths(c)!Next]_(Auths(c)!vars)
  PROVE  Auths(c)!SilentWhenRemoved
<1>1. ASSUME NEW f \in c.refreshes, refresh'[f].state = "writing", refresh[f].state = "running"
      PROVE  \E i \in refresh[f].joined : Auths(c)!On(i)
  <2>0. refresh \in [c.refreshes -> RefreshType(c)] /\ refresh[f] \in RefreshType(c) /\ refreshState \in c.refreshes \cup {None}
    BY DEF AuthInv, AuthShape
  <2>1. refresh[f].members # {}
    <3>1. CASE \E g \in c.refreshes : Auths(c)!Finish(g)
      <4>1. PICK g \in c.refreshes : Auths(c)!Finish(g)
        BY <3>1
      <4>2. g = f
        BY <1>1, <4>1 DEF Auths!Finish, Auths!Ends, AuthInv, AuthShape
      <4>3. ASSUME ~Auths(c)!WritesToken(f)
            PROVE  FALSE
        <5>1. PICK n \in {[refresh[f] EXCEPT !.token = valid, !.state = "settled"],
                          [[refresh[f] EXCEPT !.token = valid] EXCEPT !.state = "settled", !.token = None],
                          [refresh[f] EXCEPT !.token = valid, !.state = "settled", !.void = TRUE],
                          [refresh[f] EXCEPT !.token = valid, !.state = "failed"]} : Auths(c)!Ends(f, n)
          BY <4>1, <4>2, <4>3 DEF Auths!Finish
        <5>2. n.state # "writing"
          BY <2>0, <5>1 DEF RefreshType
        <5> QED
          BY <1>1, <2>0, <5>1, <5>2 DEF Auths!Ends
      <4> QED
        BY <4>3 DEF Auths!WritesToken
    <3>2. CASE \E g \in c.refreshes : Auths(c)!WriteDone(g)
      BY <1>1, <3>2 DEF Auths!WriteDone, Auths!Ends, AuthInv, AuthShape, RefreshType
    <3>3. CASE \E r \in c.requests : Auths(c)!JoinRefresh(r) /\ ~Auths(c)!GivesUp(r)
      <4>1. PICK r \in c.requests : Auths(c)!JoinRefresh(r) /\ ~Auths(c)!GivesUp(r)
        BY <3>3
      <4> DEFINE i == req[r].inst
                 more == [refresh[refreshState] EXCEPT !.members = @ \cup {i}, !.joined = @ \cup {i}]
                 first == [Auths(c)!NoRefresh EXCEPT !.state = "running", !.members = {i}, !.joined = {i}]
      <4>2. CASE refreshState # None
        <5>1. refreshState \in c.refreshes /\ refresh[refreshState] \in RefreshType(c)
          BY <2>0, <4>2
        <5>2. refresh' = [refresh EXCEPT ![refreshState] = more]
          BY <4>1, <4>2, <5>1 DEF Auths!JoinRefresh, RefreshType
        <5>3. more.state = refresh[refreshState].state
          BY <5>1 DEF RefreshType
        <5> QED
          BY <1>1, <2>0, <5>1, <5>2, <5>3
      <4>3. CASE refreshState = None
        <5>1. PICK g \in c.refreshes : refresh' = [refresh EXCEPT ![g] = first]
          BY <4>1, <4>3 DEF Auths!JoinRefresh
        <5>2. first.state = "running"
          BY DEF Auths!NoRefresh
        <5> QED
          BY <1>1, <2>0, <5>1, <5>2
      <4> QED
        BY <4>2, <4>3
    <3>4. CASE \E i \in c.clients : Auths(c)!Unuse(i) /\ refreshState # None
      <4>1. PICK rest : refresh' = [refresh EXCEPT ![refreshState] = [refresh[refreshState] EXCEPT !.members = rest]]
        BY <3>4 DEF Auths!Unuse
      <4>2. refreshState \in c.refreshes /\ refresh[refreshState] \in RefreshType(c)
        BY <2>0, <3>4
      <4> QED
        BY <1>1, <2>0, <4>1, <4>2 DEF RefreshType
    <3>5. CASE refresh' = refresh
      BY <1>1, <3>5
    <3>6. \A i \in c.clients : Auths(c)!Unuse(i) /\ refreshState = None => refresh' = refresh
      BY DEF Auths!Unuse
    <3>7. \A r \in c.requests : Auths(c)!Hook(r) \/ Auths(c)!PolicyAnswers(r) => (Auths(c)!JoinRefresh(r) /\ ~Auths(c)!GivesUp(r)) \/ refresh' = refresh
      BY DEF Auths!Hook, Auths!PolicyAnswers, Auths!GivesUp
    <3> QED
      BY <3>1, <3>2, <3>3, <3>4, <3>5, <3>6, <3>7 DEF Auths!Next, Auths!vars, Auths!Send, Auths!GetToken, Auths!Answer,
         Auths!Resume, Auths!ReadToken, Auths!Abort, Auths!GivesUp, Auths!Install, Auths!Expire, Auths!Finished
  <2>2. f = refreshState
    BY <1>1, <2>1 DEF AuthInv, RefreshesInv, Auths!Pending
  <2> QED
    BY <2>1, <2>2 DEF AuthInv, RefreshesInv, Auths!AuthAssumption
<1>2. ASSUME NEW r \in c.requests, req'[r].pc = "sent", req[r].pc # "sent", req[r].refreshed
      PROVE  Auths(c)!On(req'[r].inst)
  <2>0. req \in [c.requests -> ReqType(c)]
    BY DEF AuthInv, AuthShape
  <2>1. CASE req' = req
    BY <1>2, <2>1
  <2>2. CASE \E x \in c.requests : Auths(c)!Gives(x)
    BY <1>2, <2>0, <2>2 DEF Auths!Gives, Auths!NoRequest
  <2>3. CASE \E x \in c.requests, i \in c.clients : Auths(c)!Send(x, i)
    BY <1>2, <2>0, <2>3 DEF Auths!Send, Auths!On, ReqType
  <2>9. CASE \E x \in c.requests : Auths(c)!GetToken(x)
    BY <1>2, <2>0, <2>9 DEF Auths!GetToken, AuthInv, Sound
  <2>4. CASE \E x \in c.requests : Auths(c)!Answer(x)
    BY <1>2, <2>0, <2>4 DEF Auths!Answer, ReqType
  <2>5. CASE \E x \in c.requests : Auths(c)!Resume(x)
    BY <1>2, <2>0, <2>5 DEF Auths!Resume, Auths!On, ReqType, Auths!NoRequest
  <2>6. CASE \E x \in c.requests : Auths(c)!ReadToken(x)
    BY <1>2, <2>0, <2>6 DEF Auths!ReadToken, Auths!On, Auths!Gives, ReqType, Auths!NoRequest
  <2>7. CASE \E x \in c.requests : Auths(c)!JoinRefresh(x)
    BY <1>2, <2>0, <2>7 DEF Auths!JoinRefresh, Auths!GivesUp, Auths!Gives, ReqType, Auths!NoRequest
  <2>8. CASE \E x \in c.requests : req' = [req EXCEPT ![x].pc = "asks"]
    BY <1>2, <2>0, <2>8 DEF ReqType
  <2> QED
    BY <2>1, <2>2, <2>3, <2>4, <2>5, <2>6, <2>7, <2>8, <2>9
    DEF Auths!Next, Auths!vars, Auths!Hook, Auths!PolicyAnswers, Auths!Abort, Auths!GivesUp, Auths!Finish,
        Auths!WriteDone, Auths!Install, Auths!Unuse, Auths!Expire, Auths!Finished
<1> QED
  BY <1>1, <1>2 DEF Auths!SilentWhenRemoved

----------------------------------------------------------------------------
\* Transfer

TransferShape(c) ==
    /\ plan \in Transfers(c)!Plan /\ Transfers(c)!Sensible(plan) /\ size \in 0..c.size /\ aborted \in BOOLEAN
    /\ xhr \in [state : {"none", "sent", "loaded", "failed", "aborted"}, owner : {None, "upload", "download"},
                attached : BOOLEAN, seen : -1..size, timer : BOOLEAN]
    /\ stream \in [source : {None, "open", "ended", "failed", "stopped"}, locked : BOOLEAN, pulling : BOOLEAN]
    /\ plan.bodyless => size = 0

(* Where an exchange and a stream may be, and what is attached to them.     *)
PlaceInv(c) ==
    /\ pc = "done" <=> outcome # None
    /\ pc = "xhr" <=> xhr.attached
    /\ pc = "xhr" => ~aborted /\ xhr.state \in {"sent", "loaded"}
    /\ xhr.state = "sent" => pc = "xhr"
    /\ stream.locked \/ stream.source = "open" => pc \in {"collecting", "returned"}
    /\ pc \in {"new", "hooks", "fetch"} => xhr = Transfers(c)!NoXhr
    /\ pc \in {"received", "collecting", "returned"} /\ xhr.owner # None => xhr.state = "loaded"
    /\ xhr.timer => pc \in {"xhr", "done"} /\ ~plan.valid /\ xhr.state = "loaded" /\ outcome \in {None, "aborted"}
    /\ pc \in {"collecting", "returned"} => xhr.owner # "download" /\ stream.source # None

(* What was reported of an exchange is what was seen of it, and once it is  *)
(* loaded all of it, within the limit.                                      *)
ReportInv(c) ==
    /\ xhr.state = "sent" /\ xhr.owner = "download" /\ xhr.seen # -1 => told = xhr.seen
    /\ xhr.seen # -1 /\ plan.limit # None => xhr.seen <= plan.limit
    /\ xhr.state = "loaded" /\ plan.limit # None => size <= plan.limit
    /\ xhr.state = "loaded" /\ xhr.owner = "download" => told = size
    /\ pc \in {"xhr", "fetch", "received", "collecting", "returned"} =>
          (~plan.upload /\ plan.download = "blob" /\ plan.progress /\ Transfers(c)!UsesXhr => xhr.owner = "download")
    /\ Transfers(c)!DeliveredIsReported

TransferInv(c) == Transfers(c)!TypeOK /\ TransferShape(c) /\ PlaceInv(c) /\ ReportInv(c)

(* A transfer that has not begun holds nothing. *)
LEMMA TransferInit ==
  ASSUME NEW CONSTANT c, Transfers(c)!TransferAssumption, Transfers(c)!Init
  PROVE  TransferInv(c)
<1>1. /\ plan \in Transfers(c)!Plan /\ Transfers(c)!Sensible(plan) /\ aborted \in BOOLEAN
      /\ size \in 0..(IF plan.bodyless THEN 0 ELSE c.size)
  BY DEF Transfers!Init
<1>2. size \in 0..c.size /\ (plan.bodyless => size = 0)
  BY <1>1 DEF Transfers!TransferAssumption
<1>3. /\ pc = "new" /\ loaded = 0 /\ told = None /\ outcome = None
      /\ xhr = Transfers(c)!NoXhr /\ stream = Transfers(c)!NoStream
  BY DEF Transfers!Init
<1>4. Transfers(c)!TypeOK
  BY <1>2, <1>3 DEF Transfers!TypeOK, Transfers!NoXhr, Transfers!NoStream
<1>5. TransferShape(c)
  BY <1>1, <1>2, <1>3 DEF TransferShape, Transfers!NoXhr, Transfers!NoStream
<1>6. PlaceInv(c)
  BY <1>3 DEF PlaceInv, Transfers!NoXhr, Transfers!NoStream, Transfers!TransferAssumption
<1>7. ReportInv(c)
  BY <1>3 DEF ReportInv, Transfers!NoXhr, Transfers!DeliveredIsReported, Transfers!TransferAssumption, Transfers!Outcome
<1> QED
  BY <1>4, <1>5, <1>6, <1>7 DEF TransferInv

(* What the runs check of a transfer follows. *)
LEMMA TransferHolds ==
  ASSUME NEW CONSTANT c, TransferInv(c)
  PROVE  Transfers(c)!NothingLeft /\ Transfers(c)!DeliveredIsReported
BY DEF TransferInv, TransferShape, PlaceInv, ReportInv, Transfers!NothingLeft

XhrShape == [state : {"none", "sent", "loaded", "failed", "aborted"}, owner : {None, "upload", "download"},
                attached : BOOLEAN, seen : -1..size, timer : BOOLEAN]
StreamShape == [source : {None, "open", "ended", "failed", "stopped"}, locked : BOOLEAN, pulling : BOOLEAN]

(* A step that ends the transfer. *)
LEMMA EndKeeps ==
  ASSUME NEW CONSTANT c, Transfers(c)!TransferAssumption, TransferInv(c), pc # "done", pc' = "done",
         outcome' \in Transfers(c)!Outcome,
         UNCHANGED <<plan, size>>, aborted' \in BOOLEAN, loaded' \in 0..size, told' \in {None} \cup (0..size),
         xhr' \in XhrShape, ~xhr'.attached, xhr'.state # "sent", xhr'.seen = xhr.seen,
         xhr'.timer => xhr.timer /\ xhr'.state = "loaded" /\ outcome' = "aborted",
         xhr'.state = "loaded" => xhr.state = "loaded" /\ (xhr'.owner = "download" => told' = size),
         stream' \in StreamShape, ~stream'.locked, stream'.source # "open",
         Transfers(c)!DeliveredIsReported'
  PROVE  TransferInv(c)'
<1>1. outcome' # None
  BY DEF Transfers!TransferAssumption
<1>2. Transfers(c)!TypeOK'
  BY DEF Transfers!TypeOK, XhrShape, StreamShape
<1>3. TransferShape(c)'
  BY DEF TransferInv, TransferShape, XhrShape, StreamShape
<1>4. PlaceInv(c)'
  BY <1>1 DEF TransferInv, PlaceInv
<1>5. ReportInv(c)'
  BY DEF TransferInv, ReportInv
<1> QED
  BY <1>2, <1>3, <1>4, <1>5 DEF TransferInv

(* One that ends it without its response. *)
LEMMA FailKeeps ==
  ASSUME NEW CONSTANT c, Transfers(c)!TransferAssumption, TransferInv(c), pc # "done",
         NEW how \in Transfers(c)!Outcome \ {"response", "unavailable"},
         Transfers(c)!Ends(how), UNCHANGED <<plan, size, stream>>, pc \notin {"collecting", "returned"},
         aborted' \in BOOLEAN, loaded' \in 0..size, told' \in {None} \cup (0..size),
         xhr' \in XhrShape, ~xhr'.attached, xhr'.state # "sent", xhr'.seen = xhr.seen,
         xhr'.timer => xhr.timer /\ xhr'.state = "loaded" /\ how = "aborted",
         xhr'.state = "loaded" => xhr.state = "loaded" /\ xhr'.owner = xhr.owner /\ told' = told
  PROVE  TransferInv(c)'
<1>1. pc' = "done" /\ outcome' = how
  BY DEF Transfers!Ends
<1>2. Transfers(c)!DeliveredIsReported'
  BY <1>1 DEF Transfers!DeliveredIsReported
<1>3. stream' \in StreamShape /\ ~stream'.locked /\ stream'.source # "open"
  BY DEF TransferInv, TransferShape, StreamShape, PlaceInv
<1>4. xhr'.state = "loaded" /\ xhr'.owner = "download" => told' = size
  BY DEF TransferInv, ReportInv
<1> QED
  BY <1>1, <1>2, <1>3, <1>4, EndKeeps

(* The transfer ends without its response: its request is aborted. *)
LEMMA AbortKeeps ==
  ASSUME NEW CONSTANT c, Transfers(c)!TransferAssumption, TransferInv(c), pc = "xhr",
         NEW how \in Transfers(c)!Outcome \ {"response", "unavailable"}, how = "aborted" \/ xhr.state = "sent",
         Transfers(c)!AbortWith(how), UNCHANGED <<plan, size, stream, told>>, aborted' \in BOOLEAN, loaded' \in 0..size
  PROVE  TransferInv(c)'
<1>1. told \in {None} \cup (0..size) /\ xhr \in XhrShape /\ xhr.state \in {"sent", "loaded"}
  BY DEF TransferInv, Transfers!TypeOK, TransferShape, XhrShape, PlaceInv
<1>2. Transfers(c)!Ends(how) /\ xhr' = [xhr EXCEPT !.state = IF xhr.state = "sent" THEN "aborted" ELSE xhr.state, !.attached = FALSE]
  BY DEF Transfers!AbortWith, Transfers!Settles
<1>3. /\ xhr' \in XhrShape /\ ~xhr'.attached /\ xhr'.state # "sent" /\ xhr'.seen = xhr.seen /\ xhr'.timer = xhr.timer
      /\ xhr'.owner = xhr.owner /\ (xhr'.state = "loaded" <=> xhr.state = "loaded")
  BY <1>1, <1>2 DEF XhrShape
<1>4. xhr.timer => xhr.state = "loaded"
  BY DEF TransferInv, PlaceInv
<1> QED
  BY <1>1, <1>2, <1>3, <1>4, FailKeeps

(* Bytes that arrive are reported, or are too many, or the callback throws. *)
LEMMA ReportKeeps ==
  ASSUME NEW CONSTANT c, Transfers(c)!TransferAssumption, TransferInv(c), pc = "xhr", xhr.state = "sent",
         NEW n \in 0..size, Transfers(c)!Reported(n), outcome' # None, UNCHANGED <<plan, size, stream, aborted>>, loaded' \in 0..size
  PROVE  TransferInv(c)'
<1>0. outcome = None /\ aborted \in BOOLEAN
  BY DEF TransferInv, PlaceInv, TransferShape
<1>1. CASE plan.limit # None /\ n > plan.limit
  BY <1>0, <1>1, AbortKeeps DEF Transfers!Reported, Transfers!Outcome
<1>2. CASE ~(plan.limit # None /\ n > plan.limit)
  BY <1>0, <1>2, AbortKeeps DEF Transfers!Reported, Transfers!Outcome
<1> QED
  BY <1>1, <1>2

(* Each step of a transfer keeps its invariant. *)
LEMMA TransferStep ==
  ASSUME NEW CONSTANT c, Transfers(c)!TransferAssumption, TransferInv(c), [Transfers(c)!Next]_(Transfers(c)!vars)
  PROVE  TransferInv(c)'
<1>limit. plan.limit # None => plan.limit \in Nat
  <2>1. plan.limit \in c.limits
    BY DEF TransferInv, TransferShape, Transfers!Plan
  <2> QED
    BY <2>1 DEF Transfers!TransferAssumption
<1>none. ASSUME xhr = Transfers(c)!NoXhr
         PROVE  xhr.state = "none" /\ xhr.owner = None /\ ~xhr.attached /\ xhr.seen = -1 /\ ~xhr.timer
  BY <1>none DEF Transfers!NoXhr
<1>0. /\ plan \in Transfers(c)!Plan /\ Transfers(c)!Sensible(plan) /\ size \in 0..c.size /\ size \in Nat /\ aborted \in BOOLEAN
      /\ xhr \in XhrShape /\ stream \in StreamShape /\ loaded \in 0..size /\ told \in {None} \cup (0..size)
  BY DEF TransferInv, TransferShape, Transfers!TypeOK, XhrShape, StreamShape, Transfers!TransferAssumption
<1>1. CASE UNCHANGED Transfers(c)!vars
  BY <1>1 DEF Transfers!vars, TransferInv, Transfers!TypeOK, TransferShape, PlaceInv, ReportInv,
     Transfers!DeliveredIsReported, Transfers!UsesXhr
<1>2. CASE Transfers(c)!Intercept
  <2>0. pc = "new" /\ xhr = Transfers(c)!NoXhr /\ outcome = None /\ ~stream.locked /\ stream.source # "open"
        /\ UNCHANGED <<plan, aborted, size, loaded, told, xhr, stream>>
    BY <1>2 DEF Transfers!Intercept, Transfers!Body, TransferInv, PlaceInv
  <2>uses. Transfers(c)!UsesXhr' = Transfers(c)!UsesXhr
    BY <2>0 DEF Transfers!UsesXhr
  <2>1. CASE Transfers(c)!Ends("config")
    BY <1>0, <2>0, <2>1, FailKeeps DEF Transfers!Outcome, Transfers!NoXhr
  <2>2. CASE pc' = "hooks" /\ outcome' = outcome
    BY <1>0, <1>none, <2>0, <2>2, <2>uses
    DEF TransferInv, Transfers!TypeOK, TransferShape, PlaceInv, ReportInv, Transfers!DeliveredIsReported,
        Transfers!TransferAssumption, Transfers!Outcome
  <2> QED
    BY <1>2, <2>1, <2>2 DEF Transfers!Intercept
<1>3. CASE Transfers(c)!Transport
  <2>0. pc = "hooks" /\ xhr = Transfers(c)!NoXhr /\ outcome = None /\ ~stream.locked /\ stream.source # "open"
        /\ UNCHANGED <<plan, aborted, size, loaded, told, stream>>
    BY <1>3 DEF Transfers!Transport, Transfers!Body, TransferInv, PlaceInv
  <2>uses. Transfers(c)!UsesXhr' = Transfers(c)!UsesXhr
    BY <2>0 DEF Transfers!UsesXhr
  <2>1. ASSUME NEW owner \in {"upload", "download"}, Transfers(c)!Xhr(owner), plan.upload \/ owner = "download"
        PROVE  TransferInv(c)'
    <3>1. CASE Transfers(c)!Ends("config") /\ UNCHANGED xhr
      BY <1>0, <2>0, <3>1, FailKeeps DEF Transfers!Outcome, Transfers!NoXhr
    <3>2. ASSUME NEW how \in {"aborted", "config"}, Transfers(c)!Ends(how),
                 xhr' = [xhr EXCEPT !.owner = owner, !.state = "aborted"]
          PROVE  TransferInv(c)'
      <4>1. xhr' \in XhrShape /\ ~xhr'.attached /\ xhr'.state = "aborted" /\ xhr'.seen = xhr.seen /\ ~xhr'.timer
        BY <1>0, <2>0, <3>2 DEF XhrShape, Transfers!NoXhr
      <4> QED
        BY <1>0, <2>0, <3>2, <4>1, FailKeeps DEF Transfers!Outcome
    <3>3. CASE ~aborted /\ pc' = "xhr" /\ xhr' = [xhr EXCEPT !.owner = owner, !.state = "sent", !.attached = TRUE] /\ UNCHANGED outcome
      <4>1. /\ xhr' \in XhrShape /\ xhr'.attached /\ xhr'.state = "sent" /\ xhr'.seen = -1 /\ ~xhr'.timer
            /\ xhr'.owner = owner
        BY <1>0, <2>0, <3>3 DEF XhrShape, Transfers!NoXhr
      <4>2. Transfers(c)!TypeOK' /\ TransferShape(c)'
        BY <1>0, <2>0, <3>3, <4>1 DEF TransferInv, Transfers!TypeOK, TransferShape, XhrShape
      <4>3. PlaceInv(c)'
        BY <2>0, <3>3, <4>1 DEF TransferInv, PlaceInv
      <4>4. ReportInv(c)'
        BY <2>0, <2>1, <2>uses, <3>3, <4>1 DEF TransferInv, ReportInv, Transfers!DeliveredIsReported,
           Transfers!TransferAssumption, Transfers!Outcome
      <4> QED
        BY <4>2, <4>3, <4>4 DEF TransferInv
    <3> QED
      BY <2>1, <3>1, <3>2, <3>3 DEF Transfers!Xhr
  <2>2. CASE pc' = "fetch" /\ UNCHANGED <<xhr, outcome>> /\ ~(~plan.upload /\ plan.download = "blob" /\ plan.progress /\ Transfers(c)!UsesXhr)
    BY <1>0, <1>none, <2>0, <2>2, <2>uses
    DEF TransferInv, Transfers!TypeOK, TransferShape, PlaceInv, ReportInv, Transfers!DeliveredIsReported,
        Transfers!TransferAssumption, Transfers!Outcome
  <2>3. CASE plan.upload
    BY <1>3, <2>1, <2>3 DEF Transfers!Transport
  <2>4. CASE ~plan.upload /\ plan.download = "blob" /\ plan.progress /\ Transfers(c)!UsesXhr
    BY <1>3, <2>1, <2>4 DEF Transfers!Transport
  <2>5. CASE ~plan.upload /\ ~(plan.download = "blob" /\ plan.progress /\ Transfers(c)!UsesXhr)
    BY <1>3, <2>2, <2>5 DEF Transfers!Transport
  <2> QED
    BY <2>3, <2>4, <2>5
<1>4. CASE Transfers(c)!Progress
  <2>0. /\ pc = "xhr" /\ xhr.state = "sent" /\ outcome = None /\ ~stream.locked /\ stream.source # "open"
        /\ UNCHANGED <<plan, aborted, size, stream>>
    BY <1>4 DEF Transfers!Progress, Transfers!Xhring, TransferInv, PlaceInv
  <2>1. PICK n \in loaded + 1..size :
          /\ loaded' = n
          /\ \/ Transfers(c)!Watches /\ Transfers(c)!Reported(n) /\ (outcome' = None => xhr' = [xhr EXCEPT !.seen = n])
             \/ ~Transfers(c)!Watches /\ UNCHANGED <<pc, outcome, xhr, told>>
    BY <1>4 DEF Transfers!Progress
  <2>2. n \in 0..size /\ loaded' \in 0..size
    BY <1>0, <2>1
  <2>3. CASE ~Transfers(c)!Watches /\ UNCHANGED <<pc, outcome, xhr, told>>
    BY <1>0, <2>0, <2>2, <2>3 DEF TransferInv, Transfers!TypeOK, TransferShape, PlaceInv, ReportInv,
       Transfers!DeliveredIsReported, Transfers!UsesXhr
  <2>4. CASE Transfers(c)!Reported(n) /\ outcome' # None
    BY <2>0, <2>2, <2>4, ReportKeeps
  <2>5. CASE Transfers(c)!Reported(n) /\ outcome' = None /\ xhr' = [xhr EXCEPT !.seen = n]
    <3>1. /\ ~(plan.limit # None /\ n > plan.limit) /\ UNCHANGED pc
          /\ told' = IF xhr.owner = "download" THEN n ELSE told
      BY <2>5 DEF Transfers!Reported, Transfers!AbortWith, Transfers!Settles, Transfers!Ends,
         Transfers!TransferAssumption, Transfers!Outcome
    <3>2. /\ xhr' \in XhrShape /\ xhr'.attached = xhr.attached /\ xhr'.state = "sent" /\ xhr'.seen = n
          /\ xhr'.timer = xhr.timer /\ xhr'.owner = xhr.owner
      BY <1>0, <2>0, <2>2, <2>5 DEF XhrShape
    <3>3. Transfers(c)!TypeOK' /\ TransferShape(c)'
      BY <1>0, <2>0, <2>2, <2>5, <3>1, <3>2 DEF TransferInv, Transfers!TypeOK, TransferShape, XhrShape
    <3>4. PlaceInv(c)'
      BY <2>0, <2>5, <3>1, <3>2 DEF TransferInv, PlaceInv
    <3>5. plan.limit # None => n <= plan.limit
      BY <1>0, <1>limit, <2>2, <3>1
    <3>6. ReportInv(c)'
      BY <2>0, <2>5, <3>1, <3>2, <3>5 DEF TransferInv, ReportInv, Transfers!DeliveredIsReported,
         Transfers!TransferAssumption, Transfers!Outcome, Transfers!UsesXhr
    <3> QED
      BY <3>3, <3>4, <3>6 DEF TransferInv
  <2> QED
    BY <2>1, <2>3, <2>4, <2>5
<1>5. CASE Transfers(c)!Load
  <2>0. /\ pc = "xhr" /\ xhr.state = "sent" /\ outcome = None /\ ~stream.locked /\ stream.source # "open"
        /\ UNCHANGED <<plan, aborted, size, stream>> /\ loaded' = size /\ Transfers(c)!Loads /\ ~xhr.timer
    BY <1>5 DEF Transfers!Load, Transfers!Xhring, TransferInv, PlaceInv
  <2>1. ASSUME Transfers(c)!Loaded, plan.limit # None => size <= plan.limit, xhr.owner = "download" => told' = size,
               told' \in {None} \cup (0..size)
        PROVE  TransferInv(c)'
    <3>1. /\ xhr' \in XhrShape /\ xhr'.attached = xhr.attached /\ xhr'.state = "loaded" /\ xhr'.seen = xhr.seen
          /\ xhr'.timer = ~plan.valid /\ xhr'.owner = xhr.owner /\ UNCHANGED <<pc, outcome>>
      BY <1>0, <2>1 DEF Transfers!Loaded, XhrShape, Transfers!Plan
    <3>2. Transfers(c)!TypeOK' /\ TransferShape(c)'
      BY <1>0, <2>0, <2>1, <3>1 DEF TransferInv, Transfers!TypeOK, TransferShape, XhrShape
    <3>3. PlaceInv(c)'
      BY <2>0, <3>1 DEF TransferInv, PlaceInv
    <3>4. ReportInv(c)'
      BY <2>0, <2>1, <3>1 DEF TransferInv, ReportInv, Transfers!DeliveredIsReported, Transfers!TransferAssumption,
         Transfers!Outcome, Transfers!UsesXhr
    <3> QED
      BY <3>2, <3>3, <3>4 DEF TransferInv
  <2>2. CASE Transfers(c)!Watches /\ xhr.seen < size
    <3>1. Transfers(c)!Reported(size) /\ (outcome' = None => Transfers(c)!Loaded)
      BY <2>0, <2>2 DEF Transfers!Loads
    <3>2. CASE outcome' # None
      BY <1>0, <2>0, <3>1, <3>2, ReportKeeps
    <3>3. CASE outcome' = None
      <4>1. /\ ~(plan.limit # None /\ size > plan.limit)
            /\ told' = IF xhr.owner = "download" THEN size ELSE told
        BY <3>1, <3>3 DEF Transfers!Reported, Transfers!AbortWith, Transfers!Settles, Transfers!Ends,
           Transfers!TransferAssumption, Transfers!Outcome
      <4>2. plan.limit # None => size <= plan.limit
        BY <1>0, <1>limit, <4>1
      <4> QED
        BY <1>0, <2>1, <3>1, <3>3, <4>1, <4>2
    <3> QED
      BY <3>2, <3>3
  <2>3. CASE ~(Transfers(c)!Watches /\ xhr.seen < size)
    <3>1. Transfers(c)!Loaded /\ told' = told
      BY <2>0, <2>3 DEF Transfers!Loads
    <3>2. Transfers(c)!Watches => xhr.seen = size /\ xhr.seen # -1
      BY <1>0, <2>3 DEF XhrShape
    <3>3. plan.limit # None => size <= plan.limit
      BY <3>2 DEF Transfers!Watches, TransferInv, ReportInv
    <3>4. xhr.owner = "download" => told = size
      BY <2>0, <3>2 DEF Transfers!Watches, TransferInv, ReportInv
    <3> QED
      BY <1>0, <2>1, <3>1, <3>3, <3>4
  <2> QED
    BY <2>2, <2>3
<1>6. CASE Transfers(c)!NetworkFails
  <2>0. pc = "xhr" /\ xhr.state = "sent" /\ UNCHANGED <<plan, aborted, size, stream, loaded, told>> /\ ~xhr.timer
    BY <1>6 DEF Transfers!NetworkFails, Transfers!Xhring, TransferInv, PlaceInv
  <2>1. PICK how \in {"network", "aborted"} : Transfers(c)!Settles(how, "failed")
    BY <1>6 DEF Transfers!NetworkFails
  <2>2. /\ Transfers(c)!Ends(how) /\ xhr' \in XhrShape /\ ~xhr'.attached /\ xhr'.state = "failed" /\ xhr'.seen = xhr.seen
        /\ xhr'.timer = xhr.timer
    BY <1>0, <2>1 DEF Transfers!Settles, XhrShape
  <2> QED
    BY <1>0, <2>0, <2>2, FailKeeps DEF Transfers!Outcome
<1>7. CASE Transfers(c)!UploadFails
  BY <1>0, <1>7, AbortKeeps DEF Transfers!UploadFails, Transfers!Xhring, Transfers!Outcome
<1>8. CASE Transfers(c)!Processed
  <2>0. /\ pc = "xhr" /\ xhr.state = "loaded" /\ UNCHANGED <<plan, aborted, size, stream, loaded, told>>
        /\ ~stream.locked /\ stream.source # "open" /\ outcome = None
    BY <1>8 DEF Transfers!Processed, Transfers!Body, TransferInv, PlaceInv
  <2>1. /\ xhr' \in XhrShape /\ ~xhr'.attached /\ xhr'.state = "loaded" /\ xhr'.seen = xhr.seen
        /\ ~xhr'.timer /\ xhr'.owner = xhr.owner
    BY <1>0, <1>8 DEF Transfers!Processed, XhrShape
  <2>2. CASE pc' = "received" /\ UNCHANGED outcome
    <3>1. Transfers(c)!TypeOK' /\ TransferShape(c)'
      BY <1>0, <2>0, <2>1, <2>2 DEF TransferInv, Transfers!TypeOK, TransferShape, XhrShape
    <3>2. PlaceInv(c)'
      BY <2>0, <2>1, <2>2 DEF TransferInv, PlaceInv
    <3>3. ReportInv(c)'
      BY <2>0, <2>1, <2>2 DEF TransferInv, ReportInv, Transfers!DeliveredIsReported, Transfers!TransferAssumption,
         Transfers!Outcome, Transfers!UsesXhr
    <3> QED
      BY <3>1, <3>2, <3>3 DEF TransferInv
  <2>3. ASSUME NEW how \in {"parser", "network", "http", "timeout"}, Transfers(c)!Ends(how)
        PROVE  TransferInv(c)'
    BY <1>0, <2>0, <2>1, <2>3, FailKeeps DEF Transfers!Outcome
  <2> QED
    BY <1>8, <2>2, <2>3 DEF Transfers!Processed
<1>9. CASE Transfers(c)!ErrorBodyEnds
  <2>0. /\ pc = "done" /\ UNCHANGED <<plan, pc, aborted, size, stream, loaded, told, outcome>>
        /\ xhr' = [xhr EXCEPT !.timer = FALSE]
    BY <1>9 DEF Transfers!ErrorBodyEnds, Transfers!Body
  <2>1. /\ xhr' \in XhrShape /\ xhr'.attached = xhr.attached /\ xhr'.state = xhr.state /\ xhr'.seen = xhr.seen
        /\ ~xhr'.timer /\ xhr'.owner = xhr.owner
    BY <1>0, <2>0 DEF XhrShape
  <2> QED
    BY <2>0, <2>1 DEF TransferInv, Transfers!TypeOK, TransferShape, PlaceInv, ReportInv,
       Transfers!DeliveredIsReported, XhrShape, Transfers!UsesXhr
<1>10. CASE Transfers(c)!Abort
  <2>0. outcome = None /\ aborted' = TRUE /\ ~aborted /\ UNCHANGED <<plan, size, stream, loaded, told>>
    BY <1>10 DEF Transfers!Abort, Transfers!Body
  <2>1. CASE pc = "xhr"
    BY <1>0, <1>10, <2>0, <2>1, AbortKeeps DEF Transfers!Abort, Transfers!Outcome
  <2>2. CASE pc # "xhr"
    BY <1>0, <1>10, <2>0, <2>2 DEF Transfers!Abort, TransferInv, Transfers!TypeOK, TransferShape, PlaceInv,
       ReportInv, Transfers!DeliveredIsReported, Transfers!UsesXhr
  <2> QED
    BY <2>1, <2>2
<1>11. CASE Transfers(c)!Fetch
  <2>0. /\ pc = "fetch" /\ UNCHANGED <<plan, aborted, size, xhr, stream, loaded, told>> /\ xhr = Transfers(c)!NoXhr
        /\ ~stream.locked /\ stream.source # "open" /\ outcome = None
    BY <1>11 DEF Transfers!Fetch, Transfers!Body, TransferInv, PlaceInv
  <2>1. CASE pc' = "received" /\ UNCHANGED outcome
    BY <1>0, <2>0, <2>1 DEF TransferInv, Transfers!TypeOK, TransferShape, PlaceInv, ReportInv,
       Transfers!DeliveredIsReported, Transfers!NoXhr, Transfers!UsesXhr
  <2>2. ASSUME NEW how \in {"aborted", "network", "http"}, Transfers(c)!Ends(how)
        PROVE  TransferInv(c)'
    BY <1>0, <2>0, <2>2, FailKeeps DEF Transfers!Outcome, Transfers!NoXhr
  <2> QED
    BY <1>11, <2>1, <2>2 DEF Transfers!Fetch
<1>12. CASE Transfers(c)!Receive
  <2>0. /\ pc = "received" /\ UNCHANGED <<plan, aborted, size, xhr>>
        /\ ~stream.locked /\ stream.source # "open" /\ outcome = None
        /\ ~xhr.attached /\ xhr.state # "sent" /\ ~xhr.timer
        /\ xhr.owner # None => xhr.state = "loaded"
    BY <1>12 DEF Transfers!Receive, TransferInv, PlaceInv
  <2>1. ASSUME Transfers(c)!Ends("response"), loaded' = loaded, stream' = stream, plan.progress => told' = size,
               told' = told \/ (told' = 0 /\ xhr.owner # "download")
        PROVE  TransferInv(c)'
    <3>1. Transfers(c)!DeliveredIsReported'
      BY <2>0, <2>1 DEF Transfers!Ends, Transfers!DeliveredIsReported, TransferInv, ReportInv
    <3>2. xhr.state = "loaded" /\ xhr.owner = "download" => told' = size
      BY <2>1 DEF TransferInv, ReportInv
    <3>3. told' \in {None} \cup (0..size)
      BY <1>0, <2>1
    <3> QED
      BY <1>0, <2>0, <2>1, <3>1, <3>2, <3>3, EndKeeps DEF Transfers!Ends, Transfers!Outcome
  <2>2. ASSUME NEW stage \in {"collecting", "returned"}, Transfers(c)!Opens(stage, "open"), xhr.owner # "download"
        PROVE  TransferInv(c)'
    <3>1. /\ stream' \in StreamShape /\ stream'.source # None /\ pc' = stage /\ loaded' = 0 /\ UNCHANGED <<told, outcome>>
      BY <2>2 DEF Transfers!Opens, Transfers!NoStream, StreamShape, Transfers!TransferAssumption
    <3>2. Transfers(c)!TypeOK' /\ TransferShape(c)'
      BY <1>0, <2>0, <3>1 DEF TransferInv, Transfers!TypeOK, TransferShape, XhrShape, StreamShape
    <3>3. PlaceInv(c)'
      BY <2>0, <2>2, <3>1 DEF TransferInv, PlaceInv
    <3>4. ReportInv(c)'
      BY <2>0, <2>2, <3>1 DEF TransferInv, ReportInv, Transfers!DeliveredIsReported, Transfers!TransferAssumption,
         Transfers!Outcome, Transfers!UsesXhr
    <3> QED
      BY <3>2, <3>3, <3>4 DEF TransferInv
  <2>3. CASE xhr.owner = "download" \/ plan.download = None \/ ~plan.progress
    <3>1. plan.progress => told = size
      <4>1. plan.download = None => ~plan.progress
        BY <1>0 DEF Transfers!Sensible
      <4>2. xhr.owner = "download" => told = size
        BY <2>0 DEF TransferInv, ReportInv, Transfers!TransferAssumption
      <4> QED
        BY <2>3, <4>1, <4>2
    <3>2. Transfers(c)!Delivers
      BY <1>12, <2>3 DEF Transfers!Receive
    <3>3. Transfers(c)!Ends("response") /\ loaded' = loaded /\ told' = told /\ stream' = stream
      BY <3>2 DEF Transfers!Delivers
    <3>4. plan.progress => told' = size
      BY <2>0, <3>1, <3>3
    <3> QED
      BY <2>1, <3>3, <3>4
  <2>4. CASE ~(xhr.owner = "download" \/ plan.download = None \/ ~plan.progress) /\ plan.download = "stream"
    BY <1>12, <2>2, <2>4 DEF Transfers!Receive
  <2>5. CASE /\ ~(xhr.owner = "download" \/ plan.download = None \/ ~plan.progress) /\ plan.download # "stream"
             /\ plan.bodyless
    <3>1. size = 0
      BY <2>5 DEF TransferInv, TransferShape
    <3>2. CASE Transfers(c)!Ends("response") /\ told' = 0 /\ UNCHANGED <<loaded, stream>>
      BY <2>1, <2>5, <3>1, <3>2
    <3>3. CASE Transfers(c)!Ends("callback") /\ UNCHANGED <<loaded, told, stream>>
      BY <1>0, <2>0, <3>3, FailKeeps DEF Transfers!Outcome
    <3> QED
      BY <1>12, <2>5, <3>2, <3>3 DEF Transfers!Receive
  <2>6. CASE /\ ~(xhr.owner = "download" \/ plan.download = None \/ ~plan.progress) /\ plan.download # "stream"
             /\ ~plan.bodyless
    <3>0. plan.download = "blob" /\ xhr.owner # "download" /\ plan.progress
      BY <1>0, <2>6 DEF Transfers!Plan
    <3>1. CASE Transfers(c)!Streamed
      BY <1>12, <2>2, <2>6, <3>1 DEF Transfers!Receive
    <3>2. CASE ~Transfers(c)!Streamed
      <4>1. Transfers(c)!Ends("unavailable") /\ UNCHANGED <<loaded, told, stream>>
        BY <1>12, <2>6, <3>2 DEF Transfers!Receive
      <4>2. Transfers(c)!UsesXhr /\ plan.upload
        BY <2>0, <3>0, <3>2 DEF Transfers!Streamed, TransferInv, ReportInv
      <4>3. Transfers(c)!DeliveredIsReported'
        BY <2>0, <4>1, <4>2 DEF Transfers!Ends, Transfers!DeliveredIsReported, Transfers!UsesXhr
      <4> QED
        BY <1>0, <2>0, <3>0, <4>1, <4>3, EndKeeps DEF Transfers!Ends, Transfers!Outcome
    <3> QED
      BY <3>1, <3>2
  <2> QED
    BY <2>3, <2>4, <2>5, <2>6
<1>13. ASSUME pc \in {"collecting", "returned"}, NEW how \in Transfers(c)!Outcome \ {"unavailable"},
              NEW source \in {"ended", "failed", "stopped"}, Transfers(c)!StopStream(how, source), Transfers(c)!Streaming,
              loaded' \in 0..size, told' \in {None} \cup (0..size), how = "response" => told' = size
       PROVE  TransferInv(c)'
  <2>0. /\ pc' = "done" /\ outcome' = how /\ stream' = [Transfers(c)!NoStream EXCEPT !.source = source]
        /\ UNCHANGED <<plan, aborted, size, xhr>>
    BY <1>13 DEF Transfers!StopStream, Transfers!Ends, Transfers!Streaming
  <2>1. stream' \in StreamShape /\ ~stream'.locked /\ stream'.source # "open"
    BY <2>0 DEF StreamShape, Transfers!NoStream
  <2>2. /\ ~xhr.attached /\ xhr.state # "sent" /\ ~xhr.timer /\ xhr.owner # "download"
        /\ xhr.owner # None => xhr.state = "loaded"
    BY <1>13 DEF TransferInv, PlaceInv
  <2>3. Transfers(c)!DeliveredIsReported'
    BY <1>13, <2>0, <2>2 DEF Transfers!DeliveredIsReported, TransferInv, ReportInv
  <2> QED
    BY <1>0, <1>13, <2>0, <2>1, <2>2, <2>3, EndKeeps
<1>14. ASSUME pc \in {"collecting", "returned"}, UNCHANGED <<pc, outcome>>, Transfers(c)!Streaming,
              loaded' \in 0..size, told' \in {None} \cup (0..size), stream' \in StreamShape, stream'.source # None
       PROVE  TransferInv(c)'
  <2>0. /\ UNCHANGED <<plan, aborted, size, xhr>> /\ outcome = None
        /\ xhr.owner # "download"
    BY <1>14 DEF Transfers!Streaming, TransferInv, PlaceInv
  <2> QED
    BY <1>0, <1>14, <2>0
    DEF TransferInv, Transfers!TypeOK, TransferShape, PlaceInv, ReportInv, Transfers!DeliveredIsReported,
        StreamShape, Transfers!UsesXhr,
        Transfers!TransferAssumption, Transfers!Outcome
<1>15. Transfers(c)!Reading => pc \in {"collecting", "returned"}
  BY DEF Transfers!Reading
<1>16. CASE Transfers(c)!Chunk
  <2>0. loaded' = loaded + 1 /\ loaded' \in 0..size /\ Transfers(c)!Streaming
    BY <1>0, <1>16 DEF Transfers!Chunk
  <2>1. CASE told' = loaded' /\ stream' = [stream EXCEPT !.pulling = FALSE] /\ UNCHANGED <<pc, outcome>>
    <3>1. stream' \in StreamShape /\ stream'.source # None
      BY <1>0, <1>16, <2>1 DEF Transfers!Chunk, StreamShape, Transfers!TransferAssumption
    <3> QED
      BY <1>14, <1>15, <1>16, <2>0, <2>1, <3>1 DEF Transfers!Chunk
  <2>2. CASE Transfers(c)!CallbackFails
    BY <1>0, <1>13, <1>15, <1>16, <2>0, <2>2 DEF Transfers!Chunk, Transfers!CallbackFails, Transfers!Outcome
  <2> QED
    BY <1>16, <2>1, <2>2 DEF Transfers!Chunk
<1>17. CASE Transfers(c)!BodyEnds
  <2>0. loaded = size /\ loaded' = loaded /\ Transfers(c)!Streaming /\ pc \in {"collecting", "returned"}
    BY <1>15, <1>17 DEF Transfers!BodyEnds
  <2>1. CASE Transfers(c)!StopStream("response", "ended") /\ told' = loaded
    BY <1>0, <1>13, <2>0, <2>1 DEF Transfers!Outcome
  <2>2. CASE Transfers(c)!CallbackFails
    BY <1>0, <1>13, <2>0, <2>2 DEF Transfers!CallbackFails, Transfers!Outcome
  <2> QED
    BY <1>17, <2>1, <2>2 DEF Transfers!BodyEnds
<1>18. CASE Transfers(c)!SourceFails
  <2>1. stream' \in StreamShape /\ stream'.source # None
    BY <1>0, <1>18 DEF Transfers!SourceFails, StreamShape, Transfers!TransferAssumption
  <2> QED
    BY <1>0, <1>14, <1>18, <2>1 DEF Transfers!SourceFails
<1>19. CASE Transfers(c)!ReadFails
  <2>1. PICK how \in {"aborted", "network"} : Transfers(c)!StopStream(how, "failed")
    BY <1>19 DEF Transfers!ReadFails
  <2> QED
    BY <1>0, <1>13, <1>15, <1>19, <2>1 DEF Transfers!ReadFails, Transfers!Outcome
<1>20. CASE Transfers(c)!Pull
  <2>0. stream.source # None
    BY <1>20 DEF Transfers!Pull, TransferInv, PlaceInv
  <2>1. stream' \in StreamShape /\ stream'.source # None
    BY <1>0, <1>20, <2>0 DEF Transfers!Pull, StreamShape
  <2> QED
    BY <1>0, <1>14, <1>20, <2>1 DEF Transfers!Pull
<1>21. CASE Transfers(c)!Cancel
  <2>0. pc = "returned" /\ Transfers(c)!Streaming /\ loaded' = loaded /\ told' \in {None} \cup (0..size)
    BY <1>0, <1>21 DEF Transfers!Cancel
  <2>1. stream.source # None
    BY <2>0 DEF TransferInv, PlaceInv
  <2> QED
    <3>1. PICK source \in {"ended", "failed", "stopped"} : Transfers(c)!StopStream("cancelled", source)
      BY <1>0, <1>21, <2>1 DEF Transfers!Cancel, StreamShape
    <3> QED
      BY <1>0, <1>13, <2>0, <3>1 DEF Transfers!Outcome
<1>22. CASE Transfers(c)!Finished
  BY <1>1, <1>22 DEF Transfers!Finished
<1> QED
  BY <1>1, <1>2, <1>3, <1>4, <1>5, <1>6, <1>7, <1>8, <1>9, <1>10, <1>11, <1>12, <1>16, <1>17, <1>18, <1>19, <1>20,
     <1>21, <1>22 DEF Transfers!Next

----------------------------------------------------------------------------
\* Tracing

SpanType(c) == [of : c.requests, attempt : 0..c.retries, ends : Nat, injected : BOOLEAN]
TraceHooks == {"start", "error", "settled"}

TracingShape(c) ==
    /\ installed \subseteq c.clients /\ changes \in 0..c.changes
    /\ pc \in [c.requests -> Traces(c)!Stage] /\ attempt \in [c.requests -> 0..c.retries]
    /\ todo \in [c.requests -> SUBSET TraceHooks] /\ excused \in [c.requests -> BOOLEAN]
    /\ spans \in Seq(SpanType(c))
    /\ current \in [c.requests -> Nat \cup {None}] /\ carrier \in [c.requests -> Nat \cup {None}]
    /\ \A r \in c.requests : {current[r], carrier[r]} \subseteq Traces(c)!Span \cup {None}

Open(c, r) == current[r] # None /\ ~Traces(c)!Ended(current[r])

(* In stage p with the hooks t to run, the plugin being on or not, and a    *)
(* span being open or not.                                                  *)
Placed(c, p, t, on, open, e) ==
    /\ "start" \in t => p \in {"request", "transport"} /\ on
    /\ "error" \in t => p \in {"error", "ending"}
    /\ "settled" \in t => p = "ending"
    /\ open => /\ p \notin {"idle", "waiting", "done"} /\ on
               /\ p = "error" => "error" \in t
               /\ p = "ending" => "settled" \in t
    /\ ~c.uploads /\ ~e /\ (p = "sent" \/ (p = "transport" /\ "start" \notin t)) => open

(* The open span of a request is that of its attempt. *)
Carried(c, r) ==
    Open(c, r) => /\ spans[current[r]].of = r /\ spans[current[r]].attempt = attempt[r]
                  /\ spans[current[r]].injected => carrier[r] = current[r]

SpansInv(c) ==
    /\ active = {s \in Traces(c)!Span : ~Traces(c)!Ended(s)}
    /\ \A s \in Traces(c)!Span : spans[s].ends <= 1 /\ (~Traces(c)!Ended(s) => current[spans[s].of] = s)

TracingInv(c) ==
    /\ TracingShape(c) /\ SpansInv(c)
    /\ \A r \in c.requests : Placed(c, pc[r], todo[r], c.clientOf[r] \in installed, Open(c, r), excused[r]) /\ Carried(c, r)

(* The spans are those started so far, and each is a span record. *)
LEMMA SpansAreTyped ==
  ASSUME NEW CONSTANT c, TracingInv(c)
  PROVE  Traces(c)!Span = 1..Len(spans) /\ \A s \in Traces(c)!Span : spans[s] \in SpanType(c)
BY DEF TracingInv, TracingShape, Traces!Span

(* What the runs check of the spans follows from the invariant. *)
LEMMA TracingAgrees ==
  ASSUME NEW CONSTANT c, Traces(c)!TracingAssumption, TracingInv(c)
  PROVE  Traces(c)!SpansEndOnce /\ (~c.uploads => Traces(c)!AttemptHasSpan)
<1>1. Traces(c)!TypeOK
  BY SpansAreTyped DEF TracingInv, TracingShape, SpansInv, Traces!TypeOK, SpanType, TraceHooks
<1>2. ASSUME NEW s \in Traces(c)!Span, ~Traces(c)!Ended(s)
      PROVE  pc[spans[s].of] # "done" /\ c.clientOf[spans[s].of] \in installed
  <2>1. spans[s].of \in c.requests /\ current[spans[s].of] = s /\ s # None
    <3>1. spans[s] \in SpanType(c) /\ s \in Nat
      <4>1. Traces(c)!Span = 1..Len(spans) /\ \A x \in Traces(c)!Span : spans[x] \in SpanType(c)
        BY SpansAreTyped
      <4>2. Len(spans) \in Nat
        BY DEF TracingInv, TracingShape
      <4> QED
        BY <4>1, <4>2
    <3> QED
      BY <1>2, <3>1 DEF TracingInv, SpansInv, SpanType, Traces!TracingAssumption
  <2>2. Open(c, spans[s].of)
    BY <1>2, <2>1 DEF Open
  <2> QED
    BY <2>1, <2>2 DEF TracingInv, Placed
<1>3. Traces(c)!SpansEndOnce
  BY <1>1, <1>2 DEF Traces!SpansEndOnce, TracingInv, SpansInv
<1>4. ASSUME ~c.uploads, NEW r \in c.requests, pc[r] = "sent", ~excused[r]
      PROVE  \E s \in active : spans[s].of = r /\ spans[s].attempt = attempt[r] /\ (spans[s].injected => carrier[r] = s)
  <2>1. Open(c, r) /\ Carried(c, r)
    BY <1>4 DEF TracingInv, Placed
  <2>2. current[r] \in active
    BY <2>1 DEF Open, TracingInv, TracingShape, SpansInv
  <2> QED
    BY <2>1, <2>2 DEF Carried
<1> QED
  BY <1>3, <1>4 DEF Traces!AttemptHasSpan

(* No span is open at first. *)
LEMMA TracingInit ==
  ASSUME NEW CONSTANT c, Traces(c)!TracingAssumption, Traces(c)!Init
  PROVE  TracingInv(c)
<1>1. TracingShape(c)
  BY DEF Traces!Init, TracingShape, Traces!TracingAssumption, Traces!Stage, TraceHooks, Traces!Span
<1>2. Traces(c)!Span = {}
  BY DEF Traces!Init, Traces!Span
<1>3. \A r \in c.requests : ~Open(c, r)
  BY DEF Traces!Init, Open
<1> QED
  BY <1>1, <1>2, <1>3 DEF Traces!Init, TracingInv, SpansInv, Placed, Carried

(* A request enters a stage; no span changes. *)
LEMMA TraceEnters ==
  ASSUME NEW CONSTANT c, Traces(c)!TracingAssumption, TracingInv(c), NEW r \in c.requests,
         NEW p \in Traces(c)!Stage, NEW runs \in SUBSET TraceHooks,
         NEW a \in 0..c.retries, NEW e \in BOOLEAN,
         Traces(c)!Enter(r, p, runs), attempt' = [attempt EXCEPT ![r] = a], excused' = [excused EXCEPT ![r] = e],
         Open(c, r) => a = attempt[r],
         Placed(c, p, IF c.clientOf[r] \in installed THEN runs ELSE {}, c.clientOf[r] \in installed, Open(c, r), e)
  PROVE  TracingInv(c)'
<1> DEFINE t == IF c.clientOf[r] \in installed THEN runs ELSE {}
<1>1. /\ UNCHANGED <<installed, changes, current, carrier, spans, active>>
      /\ pc' = [pc EXCEPT ![r] = p] /\ todo' = [todo EXCEPT ![r] = t] /\ t \in SUBSET TraceHooks
  BY DEF Traces!Enter, Traces!registry, Traces!tracing
<1>2. TracingShape(c)'
  BY <1>1 DEF TracingInv, TracingShape, Traces!Span
<1>3. SpansInv(c)'
  BY <1>1 DEF TracingInv, SpansInv, Traces!Span, Traces!Ended
<1>4. ASSUME NEW x \in c.requests
      PROVE  Placed(c, pc'[x], todo'[x], c.clientOf[x] \in installed', Open(c, x)', excused'[x]) /\ Carried(c, x)'
  <2>1. Open(c, x)' = Open(c, x)
    BY <1>1 DEF Open, Traces!Ended
  <2>2. CASE x = r
    <3>1. pc'[x] = p /\ todo'[x] = t /\ attempt'[x] = a /\ excused'[x] = e
      BY <1>1, <2>2 DEF TracingInv, TracingShape
    <3>2. Placed(c, pc'[x], todo'[x], c.clientOf[x] \in installed', Open(c, x)', excused'[x])
      BY <1>1, <2>1, <2>2, <3>1
    <3>3. Carried(c, x)'
      BY <1>1, <2>1, <2>2, <3>1 DEF Carried, TracingInv
    <3> QED
      BY <3>2, <3>3
  <2>3. CASE x # r
    <3>1. pc'[x] = pc[x] /\ todo'[x] = todo[x] /\ attempt'[x] = attempt[x] /\ excused'[x] = excused[x]
      BY <1>1, <2>3 DEF TracingInv, TracingShape
    <3> QED
      BY <1>1, <2>1, <3>1 DEF Carried, TracingInv
  <2> QED
    BY <2>2, <2>3
<1> QED
  BY <1>2, <1>3, <1>4 DEF TracingInv

(* The spans S end, each of which is open. *)
LEMMA Endings ==
  ASSUME NEW CONSTANT c, Traces(c)!TracingAssumption, TracingInv(c), NEW S \in SUBSET active, Traces(c)!EndSpans(S)
  PROVE  /\ spans' \in Seq(SpanType(c)) /\ Traces(c)!Span' = Traces(c)!Span
         /\ \A s \in Traces(c)!Span : /\ Traces(c)!Ended(s)' = (Traces(c)!Ended(s) \/ s \in S) /\ spans'[s].ends <= 1
                                      /\ spans'[s].of = spans[s].of /\ spans'[s].attempt = spans[s].attempt
                                      /\ spans'[s].injected = spans[s].injected
         /\ active' = {s \in Traces(c)!Span' : ~Traces(c)!Ended(s)'}
<1>0. spans \in Seq(SpanType(c)) /\ Traces(c)!Span = 1..Len(spans) /\ Len(spans) \in Nat
  BY DEF TracingInv, TracingShape, Traces!Span
<1>1. spans' = [s \in Traces(c)!Span |-> IF s \in S THEN [spans[s] EXCEPT !.ends = @ + 1] ELSE spans[s]]
  BY DEF Traces!EndSpans
<1>2. ASSUME NEW s \in Traces(c)!Span
      PROVE  /\ spans'[s] \in SpanType(c) /\ Traces(c)!Ended(s)' = (Traces(c)!Ended(s) \/ s \in S) /\ spans'[s].ends <= 1
             /\ spans'[s].of = spans[s].of /\ spans'[s].attempt = spans[s].attempt
             /\ spans'[s].injected = spans[s].injected
  <2>0. spans[s] \in SpanType(c) /\ spans[s].ends \in Nat /\ spans[s].ends <= 1
    <3>1. spans[s] \in SpanType(c)
      BY SpansAreTyped
    <3> QED
      BY <3>1 DEF SpanType, TracingInv, SpansInv
  <2>1. CASE s \in S
    <3>1. spans'[s] = [spans[s] EXCEPT !.ends = @ + 1]
      BY <1>1, <2>1
    <3>2. spans[s].ends = 0
      BY <2>0, <2>1 DEF TracingInv, SpansInv, Traces!Ended
    <3> QED
      BY <2>0, <2>1, <3>1, <3>2 DEF SpanType, Traces!Ended
  <2>2. CASE s \notin S
    <3>1. spans'[s] = spans[s]
      BY <1>1, <2>2
    <3> QED
      BY <2>0, <2>2, <3>1 DEF Traces!Ended
  <2> QED
    BY <2>1, <2>2
<1>3. spans' \in Seq(SpanType(c)) /\ Traces(c)!Span' = Traces(c)!Span
  <2>1. spans' \in [1..Len(spans) -> SpanType(c)]
    BY <1>0, <1>1, <1>2
  <2> QED
    BY <1>0, <2>1 DEF Traces!Span
<1>4. active' = {s \in Traces(c)!Span' : ~Traces(c)!Ended(s)'}
  <2>1. active' = active \ S /\ active = {s \in Traces(c)!Span : ~Traces(c)!Ended(s)}
    BY DEF Traces!EndSpans, TracingInv, SpansInv
  <2>2. \A s \in Traces(c)!Span : (~Traces(c)!Ended(s))' <=> (~Traces(c)!Ended(s) /\ s \notin S)
    BY <1>2
  <2>3. \A s : s \in active' <=> s \in Traces(c)!Span' /\ ~Traces(c)!Ended(s)'
    BY <1>3, <2>1, <2>2
  <2> QED
    BY <1>3, <2>3
<1> QED
  BY <1>2, <1>3, <1>4

(* The hooks that end the span of their request. *)
LEMMA EndKeepsTracing ==
  ASSUME NEW CONSTANT c, Traces(c)!TracingAssumption, TracingInv(c), NEW r \in c.requests, NEW hook \in {"error", "settled"},
         hook \in todo[r], Traces(c)!EndSpan(r), todo' = [todo EXCEPT ![r] = @ \ {hook}],
         UNCHANGED <<Traces(c)!registry, pc, attempt, excused>>
  PROVE  TracingInv(c)'
<1>1. Traces(c)!OpenSpan(r) \in SUBSET active /\ Traces(c)!EndSpans(Traces(c)!OpenSpan(r))
  BY DEF Traces!OpenSpan, TracingInv, SpansInv, Traces!EndSpan
<1>2. /\ spans' \in Seq(SpanType(c)) /\ Traces(c)!Span' = Traces(c)!Span
      /\ \A s \in Traces(c)!Span : /\ Traces(c)!Ended(s)' = (Traces(c)!Ended(s) \/ s \in Traces(c)!OpenSpan(r)) /\ spans'[s].ends <= 1
                                   /\ spans'[s].of = spans[s].of /\ spans'[s].attempt = spans[s].attempt
                                   /\ spans'[s].injected = spans[s].injected
      /\ active' = {s \in Traces(c)!Span' : ~Traces(c)!Ended(s)'}
  BY <1>1, Endings
<1>3. /\ current' = [current EXCEPT ![r] = None] /\ UNCHANGED <<carrier, installed, changes, pc, attempt, excused>>
      /\ todo' = [todo EXCEPT ![r] = todo[r] \ {hook}]
  BY DEF Traces!EndSpan, Traces!registry
<1>4. TracingShape(c)'
  BY <1>2, <1>3 DEF TracingInv, TracingShape
<1>5. SpansInv(c)'
  <2>1. ASSUME NEW s \in Traces(c)!Span', ~Traces(c)!Ended(s)'
        PROVE  current'[spans'[s].of] = s
    <3>1. s \in Traces(c)!Span /\ ~Traces(c)!Ended(s) /\ s \notin Traces(c)!OpenSpan(r) /\ spans'[s].of = spans[s].of /\ current[spans[s].of] = s
      BY <1>2, <2>1 DEF TracingInv, SpansInv
    <3>2. spans[s].of # r
      BY <3>1 DEF Traces!OpenSpan
    <3>3. spans[s].of \in c.requests
      BY <3>1, SpansAreTyped DEF SpanType
    <3> QED
      BY <1>3, <3>1, <3>2, <3>3 DEF TracingInv, TracingShape
  <2> QED
    BY <1>2, <2>1 DEF SpansInv
<1>6. ASSUME NEW x \in c.requests
      PROVE  Placed(c, pc'[x], todo'[x], c.clientOf[x] \in installed', Open(c, x)', excused'[x]) /\ Carried(c, x)'
  <2>0. Placed(c, pc[x], todo[x], c.clientOf[x] \in installed, Open(c, x), excused[x]) /\ Carried(c, x)
    BY DEF TracingInv
  <2>1. CASE x = r
    <3>1. ~Open(c, x)' /\ pc'[x] = pc[x] /\ todo'[x] = todo[x] \ {hook} /\ pc[x] \in {"error", "ending"}
      BY <1>3, <2>0, <2>1 DEF Open, Placed, TracingInv, TracingShape
    <3> QED
      BY <1>3, <2>0, <3>1 DEF Placed, Carried
  <2>2. CASE x # r
    <3>1. pc'[x] = pc[x] /\ todo'[x] = todo[x] /\ current'[x] = current[x] /\ installed' = installed
          /\ carrier' = carrier /\ attempt' = attempt /\ excused' = excused
      BY <1>3, <2>2 DEF TracingInv, TracingShape
    <3>2. CASE ~Open(c, x)
      <4>1. ~Open(c, x)'
        BY <1>2, <3>1, <3>2 DEF Open, TracingInv, TracingShape
      <4> QED
        BY <2>0, <3>1, <3>2, <4>1 DEF Carried, Placed
    <3>3. CASE Open(c, x)
      <4>1. current[x] \in Traces(c)!Span /\ spans[current[x]].of = x
        BY <2>0, <3>3 DEF Open, Carried, TracingInv, TracingShape
      <4>2. current[x] \notin Traces(c)!OpenSpan(r)
        <5>1. current[r] = current[x] => Open(c, r)
          BY <3>3 DEF Open
        <5>2. Open(c, r) => spans[current[r]].of = r
          BY DEF TracingInv, Carried
        <5> QED
          BY <2>2, <4>1, <5>1, <5>2 DEF Traces!OpenSpan
      <4>3. Open(c, x)'
        BY <1>2, <3>1, <3>3, <4>1, <4>2 DEF Open
      <4>4. spans'[current[x]].of = x /\ spans'[current[x]].attempt = spans[current[x]].attempt
            /\ spans'[current[x]].injected = spans[current[x]].injected
        BY <1>2, <4>1
      <4> QED
        BY <2>0, <3>1, <3>3, <4>3, <4>4 DEF Carried
    <3> QED
      BY <3>2, <3>3
  <2> QED
    BY <2>1, <2>2
<1> QED
  BY <1>4, <1>5, <1>6 DEF TracingInv

(* A span is started where none is open. *)
LEMMA StartKeepsTracing ==
  ASSUME NEW CONSTANT c, Traces(c)!TracingAssumption, TracingInv(c), NEW r \in c.requests, Traces(c)!RunStart(r)
  PROVE  TracingInv(c)'
<1>0. /\ "start" \in todo[r] /\ pc[r] \in {"request", "transport"} /\ c.clientOf[r] \in installed
      /\ todo' = [todo EXCEPT ![r] = todo[r] \ {"start"}] /\ UNCHANGED <<installed, changes, pc, attempt>>
      /\ current[r] \in Traces(c)!Span \cup {None} /\ spans \in Seq(SpanType(c)) /\ Traces(c)!Span = 1..Len(spans) /\ Len(spans) \in Nat
  BY DEF Traces!RunStart, Traces!registry, TracingInv, TracingShape, Placed, Traces!Span
<1>1. Open(c, r) <=> Traces(c)!OpenSpan(r) # {}
  BY <1>0 DEF Open, Traces!OpenSpan, Traces!TracingAssumption
<1>2. ASSUME UNCHANGED Traces(c)!tracing, NEW e \in BOOLEAN, excused' = [excused EXCEPT ![r] = e], Open(c, r) \/ e
      PROVE  TracingInv(c)'
  <2>1. UNCHANGED <<current, carrier, spans, active>>
    BY <1>2 DEF Traces!tracing
  <2>2. TracingShape(c)'
    BY <1>0, <1>2, <2>1 DEF TracingInv, TracingShape, Traces!Span
  <2>3. SpansInv(c)'
    BY <2>1 DEF TracingInv, SpansInv, Traces!Span, Traces!Ended
  <2>4. ASSUME NEW x \in c.requests
        PROVE  Placed(c, pc'[x], todo'[x], c.clientOf[x] \in installed', Open(c, x)', excused'[x]) /\ Carried(c, x)'
    <3>1. Open(c, x)' = Open(c, x)
      BY <2>1 DEF Open, Traces!Ended
    <3>2. Placed(c, pc[x], todo[x], c.clientOf[x] \in installed, Open(c, x), excused[x]) /\ Carried(c, x)
      BY DEF TracingInv
    <3>3. Carried(c, x)'
      BY <1>0, <2>1, <3>1, <3>2 DEF Carried
    <3>4. CASE x = r
      <4>1. pc'[x] = pc[x] /\ todo'[x] = todo[x] \ {"start"} /\ excused'[x] = e
        BY <1>0, <1>2, <3>4 DEF TracingInv, TracingShape
      <4> QED
        BY <1>0, <1>2, <3>1, <3>2, <3>3, <3>4, <4>1 DEF Placed
    <3>5. CASE x # r
      <4>1. pc'[x] = pc[x] /\ todo'[x] = todo[x] /\ excused'[x] = excused[x]
        BY <1>0, <1>2, <3>5 DEF TracingInv, TracingShape
      <4> QED
        BY <1>0, <3>1, <3>2, <3>3, <4>1
    <3> QED
      BY <3>4, <3>5
  <2> QED
    BY <2>2, <2>3, <2>4 DEF TracingInv
<1>3. CASE Open(c, r)
  <2>1. UNCHANGED <<Traces(c)!tracing, excused>>
    BY <1>1, <1>3 DEF Traces!RunStart, Traces!Start
  <2>2. excused' = [excused EXCEPT ![r] = excused[r]] /\ excused[r] \in BOOLEAN
    BY <2>1 DEF TracingInv, TracingShape
  <2> QED
    BY <1>2, <1>3, <2>1, <2>2
<1>4. CASE ~Open(c, r) /\ excused' = [excused EXCEPT ![r] = TRUE] /\ UNCHANGED Traces(c)!tracing
  BY <1>2, <1>4
<1>5. ASSUME ~Open(c, r), NEW injected \in BOOLEAN, UNCHANGED excused,
             spans' = Append(spans, [of |-> r, attempt |-> attempt[r], ends |-> 0, injected |-> injected]),
             carrier' = IF injected THEN [carrier EXCEPT ![r] = Len(spans) + 1] ELSE carrier,
             current' = [current EXCEPT ![r] = Len(spans) + 1], active' = active \cup {Len(spans) + 1}
      PROVE  TracingInv(c)'
  <2>0. PICK new \in Nat : new = Len(spans) + 1
    BY <1>0
  <2> DEFINE span == [of |-> r, attempt |-> attempt[r], ends |-> 0, injected |-> injected]
  <2>1. span \in SpanType(c)
    BY DEF SpanType, TracingInv, TracingShape
  <2>2. spans' \in Seq(SpanType(c)) /\ Traces(c)!Span' = Traces(c)!Span \cup {new} /\ new \notin Traces(c)!Span /\ new \in Nat /\ spans'[new] = span
        /\ \A s \in Traces(c)!Span : spans'[s] = spans[s]
    BY <1>0, <1>5, <2>0, <2>1 DEF Traces!Span
  <2>3. ~Traces(c)!Ended(new)' /\ (\A s \in Traces(c)!Span : Traces(c)!Ended(s)' = Traces(c)!Ended(s))
    BY <2>2 DEF Traces!Ended
  <2>4. TracingShape(c)'
    <3>1. current' \in [c.requests -> Nat \cup {None}] /\ carrier' \in [c.requests -> Nat \cup {None}]
      BY <1>5, <2>0, <2>2 DEF TracingInv, TracingShape
    <3>2. \A x \in c.requests : {current'[x], carrier'[x]} \subseteq Traces(c)!Span' \cup {None}
      BY <1>5, <2>0, <2>2 DEF TracingInv, TracingShape
    <3>3. todo' \in [c.requests -> SUBSET TraceHooks]
      BY <1>0 DEF TracingInv, TracingShape
    <3> QED
      BY <1>0, <1>5, <2>2, <3>1, <3>2, <3>3 DEF TracingInv, TracingShape
  <2>5. SpansInv(c)'
    <3>1. active' = {s \in Traces(c)!Span' : ~Traces(c)!Ended(s)'}
      BY <1>5, <2>0, <2>2, <2>3 DEF TracingInv, SpansInv
    <3>2. ASSUME NEW s \in Traces(c)!Span
          PROVE  spans'[s].ends <= 1 /\ (~Traces(c)!Ended(s)' => current'[spans'[s].of] = s)
      <4>1. spans'[s].ends <= 1 /\ spans[s].of \in c.requests /\ spans'[s].of = spans[s].of
        BY <1>0, <2>2, SpansAreTyped DEF TracingInv, SpansInv, SpanType
      <4>2. ~Traces(c)!Ended(s) => current[spans[s].of] = s /\ spans[s].of # r
        BY <1>0, <1>5 DEF TracingInv, SpansInv, Open, Traces!TracingAssumption
      <4> QED
        BY <1>5, <2>3, <4>1, <4>2 DEF TracingInv, TracingShape
    <3>3. spans'[new].ends <= 1 /\ current'[spans'[new].of] = new
      BY <1>5, <2>0, <2>2 DEF TracingInv, TracingShape
    <3> QED
      BY <2>2, <3>1, <3>2, <3>3 DEF SpansInv
  <2>6. ASSUME NEW x \in c.requests
        PROVE  Placed(c, pc'[x], todo'[x], c.clientOf[x] \in installed', Open(c, x)', excused'[x]) /\ Carried(c, x)'
    <3>0. Placed(c, pc[x], todo[x], c.clientOf[x] \in installed, Open(c, x), excused[x]) /\ Carried(c, x)
      BY DEF TracingInv
    <3>1. CASE x = r
      <4>1. pc'[x] = pc[x] /\ todo'[x] = todo[x] \ {"start"} /\ current'[x] = new /\ attempt' = attempt
            /\ (injected => carrier'[x] = new)
        BY <1>0, <1>5, <2>0, <3>1 DEF TracingInv, TracingShape
      <4>2. Open(c, x)'
        BY <2>2, <2>3, <4>1 DEF Open, Traces!TracingAssumption
      <4>3. Carried(c, x)'
        BY <2>2, <3>1, <4>1 DEF Carried
      <4> QED
        BY <1>0, <3>0, <3>1, <4>1, <4>2, <4>3 DEF Placed
    <3>2. CASE x # r
      <4>1. pc'[x] = pc[x] /\ todo'[x] = todo[x] /\ current'[x] = current[x] /\ attempt' = attempt
            /\ carrier'[x] = carrier[x] /\ installed' = installed /\ excused' = excused
        BY <1>0, <1>5, <3>2 DEF TracingInv, TracingShape
      <4>2. current[x] # None => current[x] \in Traces(c)!Span /\ spans'[current[x]] = spans[current[x]]
        BY <2>2 DEF TracingInv, TracingShape
      <4>3. Open(c, x)' = Open(c, x)
        BY <2>3, <4>1, <4>2 DEF Open
      <4>4. Carried(c, x)'
        BY <3>0, <4>1, <4>2, <4>3 DEF Carried, Open
      <4> QED
        BY <3>0, <4>1, <4>3, <4>4
    <3> QED
      BY <3>1, <3>2
  <2> QED
    BY <2>4, <2>5, <2>6 DEF TracingInv
<1> QED
  BY <1>1, <1>3, <1>4, <1>5 DEF Traces!RunStart, Traces!Start, Traces!StartSpan

(* Each of the tracing plugin's steps keeps its invariant. *)
LEMMA TracingStep ==
  ASSUME NEW CONSTANT c, Traces(c)!TracingAssumption, ~c.late, TracingInv(c), [Traces(c)!Next]_(Traces(c)!vars)
  PROVE  TracingInv(c)'
<1>0. TracingShape(c) /\ \A r \in c.requests : /\ Placed(c, pc[r], todo[r], c.clientOf[r] \in installed, Open(c, r), excused[r])
                                               /\ Carried(c, r) /\ attempt[r] \in 0..c.retries /\ excused[r] \in BOOLEAN
  BY DEF TracingInv, TracingShape
<1>1. CASE UNCHANGED Traces(c)!vars
  BY <1>1 DEF Traces!vars, TracingInv, TracingShape, SpansInv, Traces!Span, Traces!Ended, Open, Carried
<1>2. ASSUME NEW r \in c.requests, Traces(c)!RunStart(r)
      PROVE  TracingInv(c)'
  BY <1>2, StartKeepsTracing
<1>3. ASSUME NEW r \in c.requests, Traces(c)!RunError(r) \/ Traces(c)!RunSettled(r)
      PROVE  TracingInv(c)'
  BY <1>3, EndKeepsTracing DEF Traces!RunError, Traces!RunSettled
<1>4. ASSUME NEW r \in c.requests, NEW p \in Traces(c)!Stage, NEW runs \in SUBSET TraceHooks,
             Traces(c)!Enter(r, p, runs), Traces(c)!Unmoved,
             Placed(c, p, IF c.clientOf[r] \in installed THEN runs ELSE {}, c.clientOf[r] \in installed, Open(c, r), excused[r])
      PROVE  TracingInv(c)'
  <2>1. attempt' = [attempt EXCEPT ![r] = attempt[r]] /\ excused' = [excused EXCEPT ![r] = excused[r]]
    BY <1>0, <1>4 DEF Traces!Unmoved, TracingShape
  <2> QED
    BY <1>0, <1>4, <2>1, TraceEnters
<1>5. \A p \in {"request", "answered", "transport", "sent", "response", "error", "waiting", "ending", "done"} : p \in Traces(c)!Stage
  BY DEF Traces!Stage
<1>6. {} \in SUBSET TraceHooks /\ {"start"} \in SUBSET TraceHooks /\ {"error"} \in SUBSET TraceHooks
      /\ {"settled"} \in SUBSET TraceHooks /\ {"error", "settled"} \in SUBSET TraceHooks
  BY DEF TraceHooks
<1>7. ASSUME NEW r \in c.requests, Traces(c)!Begin(r)
      PROVE  TracingInv(c)'
  <2>1. Placed(c, "request", IF c.clientOf[r] \in installed THEN {"start"} ELSE {}, c.clientOf[r] \in installed, Open(c, r), excused[r])
    BY <1>0, <1>7 DEF Traces!Begin, Placed
  <2> QED
    BY <1>4, <1>5, <1>6, <1>7, <2>1 DEF Traces!Begin
<1>8. ASSUME NEW r \in c.requests, Traces(c)!Answered(r)
      PROVE  TracingInv(c)'
  <2>1. PICK p \in {"answered", "response"} : Traces(c)!Enter(r, p, {}) /\ pc[r] \in {"request", "transport"}
    BY <1>8 DEF Traces!Answered
  <2>2. Placed(c, p, IF c.clientOf[r] \in installed THEN {} ELSE {}, c.clientOf[r] \in installed, Open(c, r), excused[r])
    BY <1>0, <2>1 DEF Placed
  <2> QED
    BY <1>4, <1>5, <1>6, <1>8, <2>1, <2>2 DEF Traces!Answered
<1>9. ASSUME NEW r \in c.requests, Traces(c)!Admitted(r) \/ Traces(c)!WaitEnds(r)
      PROVE  TracingInv(c)'
  <2>1. /\ pc[r] \in {"request", "waiting"} /\ Traces(c)!Enter(r, "transport", {"start"}) /\ UNCHANGED attempt
        /\ excused' = [excused EXCEPT ![r] = c.clientOf[r] \notin installed]
    BY <1>9 DEF Traces!Admitted, Traces!WaitEnds, Traces!Untraced
  <2>2. PICK e \in BOOLEAN : e = (c.clientOf[r] \notin installed)
    OBVIOUS
  <2>3. attempt' = [attempt EXCEPT ![r] = attempt[r]]
    BY <1>0, <2>1 DEF TracingShape
  <2>4. Placed(c, "transport", IF c.clientOf[r] \in installed THEN {"start"} ELSE {}, c.clientOf[r] \in installed, Open(c, r), e)
    BY <1>0, <2>1, <2>2 DEF Placed
  <2> QED
    BY <1>0, <1>5, <1>6, <2>1, <2>2, <2>3, <2>4, TraceEnters
<1>10. ASSUME NEW r \in c.requests, Traces(c)!Dispatch(r)
       PROVE  TracingInv(c)'
  <2>1. Placed(c, "sent", IF c.clientOf[r] \in installed THEN {} ELSE {}, c.clientOf[r] \in installed, Open(c, r), excused[r])
    BY <1>0, <1>10 DEF Traces!Dispatch, Placed
  <2> QED
    BY <1>4, <1>5, <1>6, <1>10, <2>1 DEF Traces!Dispatch
<1>11. ASSUME NEW r \in c.requests, Traces(c)!Respond(r)
       PROVE  TracingInv(c)'
  <2>1. Placed(c, "response", IF c.clientOf[r] \in installed THEN {} ELSE {}, c.clientOf[r] \in installed, Open(c, r), excused[r])
    BY <1>0, <1>11 DEF Traces!Respond, Placed
  <2> QED
    BY <1>4, <1>5, <1>6, <1>11, <2>1 DEF Traces!Respond
<1>12. ASSUME NEW r \in c.requests, Traces(c)!Finish(r)
       PROVE  TracingInv(c)'
  <2>1. PICK runs \in {{"settled"}, {"error", "settled"}} : Traces(c)!Enter(r, "ending", runs)
    BY <1>12 DEF Traces!Finish
  <2>2. Placed(c, "ending", IF c.clientOf[r] \in installed THEN runs ELSE {}, c.clientOf[r] \in installed, Open(c, r), excused[r])
    BY <1>0, <1>12, <2>1 DEF Traces!Finish, Placed
  <2> QED
    BY <1>4, <1>5, <1>6, <1>12, <2>1, <2>2 DEF Traces!Finish
<1>13. ASSUME NEW r \in c.requests, Traces(c)!Throw(r)
       PROVE  TracingInv(c)'
  <2>1. Placed(c, "error", IF c.clientOf[r] \in installed THEN {"error"} ELSE {}, c.clientOf[r] \in installed, Open(c, r), excused[r])
    BY <1>0, <1>13 DEF Traces!Throw, Placed
  <2> QED
    BY <1>4, <1>5, <1>6, <1>13, <2>1 DEF Traces!Throw
<1>14. ASSUME NEW r \in c.requests, Traces(c)!GiveUp(r)
       PROVE  TracingInv(c)'
  <2>1. Placed(c, "ending", IF c.clientOf[r] \in installed THEN {"settled"} ELSE {}, c.clientOf[r] \in installed, Open(c, r), excused[r])
    BY <1>0, <1>14 DEF Traces!GiveUp, Placed
  <2> QED
    BY <1>4, <1>5, <1>6, <1>14, <2>1 DEF Traces!GiveUp
<1>15. ASSUME NEW r \in c.requests, Traces(c)!Retry(r)
       PROVE  TracingInv(c)'
  <2>1. ~Open(c, r)
    BY <1>0, <1>15 DEF Traces!Retry, Placed
  <2>2. attempt[r] + 1 \in 0..c.retries /\ attempt' = [attempt EXCEPT ![r] = attempt[r] + 1]
        /\ excused' = [excused EXCEPT ![r] = excused[r]]
    BY <1>0, <1>15 DEF Traces!Retry, TracingShape, Traces!TracingAssumption
  <2>3. Placed(c, "waiting", IF c.clientOf[r] \in installed THEN {} ELSE {}, c.clientOf[r] \in installed, Open(c, r), excused[r])
    BY <2>1 DEF Placed
  <2> QED
    BY <1>0, <1>5, <1>6, <1>15, <2>1, <2>2, <2>3, TraceEnters DEF Traces!Retry
<1>16. ASSUME NEW r \in c.requests, Traces(c)!Settle(r)
       PROVE  TracingInv(c)'
  <2>1. Placed(c, "done", IF c.clientOf[r] \in installed THEN {} ELSE {}, c.clientOf[r] \in installed, Open(c, r), excused[r])
    BY <1>0, <1>16 DEF Traces!Settle, Placed
  <2> QED
    BY <1>4, <1>5, <1>6, <1>16, <2>1 DEF Traces!Settle
<1>17. ASSUME NEW owner \in c.clients, Traces(c)!Use(owner)
       PROVE  TracingInv(c)'
  <2>0. /\ installed' = installed \cup {owner} /\ UNCHANGED <<pc, todo, attempt, current, carrier, spans, active, excused>>
        /\ changes' = changes + 1 /\ changes < c.changes
    BY <1>17 DEF Traces!Use, Traces!tracing
  <2>1. changes' \in 0..c.changes
    <3>1. changes \in 0..c.changes
      BY <1>0 DEF TracingShape
    <3> QED
      BY <2>0, <3>1 DEF Traces!TracingAssumption
  <2>2. TracingShape(c)' /\ SpansInv(c)'
    BY <2>0, <2>1 DEF TracingInv, TracingShape, SpansInv, Traces!Span, Traces!Ended
  <2>3. ASSUME NEW x \in c.requests
        PROVE  Placed(c, pc'[x], todo'[x], c.clientOf[x] \in installed', Open(c, x)', excused'[x]) /\ Carried(c, x)'
    <3>1. Open(c, x)' = Open(c, x)
      BY <2>0 DEF Open, Traces!Ended
    <3>2. c.clientOf[x] \in installed => c.clientOf[x] \in installed'
      BY <2>0
    <3>3. Placed(c, pc'[x], todo'[x], c.clientOf[x] \in installed', Open(c, x)', excused'[x])
      BY <1>0, <2>0, <3>1, <3>2 DEF Placed
    <3> QED
      BY <1>0, <2>0, <3>1, <3>3 DEF Carried
  <2> QED
    BY <2>2, <2>3 DEF TracingInv
<1>18. ASSUME NEW owner \in c.clients, Traces(c)!Unuse(owner)
       PROVE  TracingInv(c)'
  <2>0. /\ installed' = installed \ {owner} /\ UNCHANGED <<pc, todo, attempt, current, carrier>>
        /\ changes' = changes + 1 /\ changes < c.changes /\ excused' = [r \in c.requests |-> TRUE] /\ Traces(c)!EndSpans(active)
        /\ \A r \in c.requests : c.clientOf[r] = owner => "start" \notin todo[r]
    BY <1>18 DEF Traces!Unuse, Traces!EndAll
  <2>1. changes' \in 0..c.changes
    <3>1. changes \in 0..c.changes
      BY <1>0 DEF TracingShape
    <3> QED
      BY <2>0, <3>1 DEF Traces!TracingAssumption
  <2>2. /\ spans' \in Seq(SpanType(c)) /\ Traces(c)!Span' = Traces(c)!Span
        /\ \A s \in Traces(c)!Span : Traces(c)!Ended(s)' /\ spans'[s].ends <= 1
        /\ active' = {s \in Traces(c)!Span' : ~Traces(c)!Ended(s)'}
    <3>1. /\ spans' \in Seq(SpanType(c)) /\ Traces(c)!Span' = Traces(c)!Span
          /\ \A s \in Traces(c)!Span : Traces(c)!Ended(s)' = (Traces(c)!Ended(s) \/ s \in active) /\ spans'[s].ends <= 1
          /\ active' = {s \in Traces(c)!Span' : ~Traces(c)!Ended(s)'}
      BY <2>0, Endings
    <3> QED
      BY <3>1 DEF TracingInv, SpansInv
  <2>3. TracingShape(c)'
    BY <2>0, <2>1, <2>2 DEF TracingInv, TracingShape
  <2>4. SpansInv(c)'
    BY <2>2 DEF SpansInv
  <2>5. ASSUME NEW x \in c.requests
        PROVE  Placed(c, pc'[x], todo'[x], c.clientOf[x] \in installed', Open(c, x)', excused'[x]) /\ Carried(c, x)'
    <3>1. ~Open(c, x)'
      BY <2>0, <2>2 DEF Open, TracingInv, TracingShape
    <3>2. "start" \in todo[x] => c.clientOf[x] \in installed'
      BY <1>0, <2>0 DEF Placed
    <3>3. excused'[x] = TRUE
      BY <2>0
    <3>4. Placed(c, pc'[x], todo'[x], c.clientOf[x] \in installed', Open(c, x)', excused'[x])
      BY <1>0, <2>0, <3>1, <3>2, <3>3 DEF Placed
    <3> QED
      BY <3>1, <3>4 DEF Carried
  <2> QED
    BY <2>3, <2>4, <2>5 DEF TracingInv
<1>19. CASE Traces(c)!Finished
  BY <1>1, <1>19 DEF Traces!Finished
<1> QED
  BY <1>1, <1>2, <1>3, <1>7, <1>8, <1>9, <1>10, <1>11, <1>12, <1>13, <1>14, <1>15, <1>16, <1>17, <1>18, <1>19 DEF Traces!Next

----------------------------------------------------------------------------
\* Metrics

Meter == [measured : BOOLEAN, active : BOOLEAN, timed : BOOLEAN, sent : Nat, recorded : Nat]
Hooks == {"transport", "record", "settled"}
Wrapper == [kind : {None, "bytes", "items"}, source : {"open", "ended", "failed", "stopped"},
            reader : {None, "fresh", "ready", "reading", "over"}, closed : BOOLEAN, counted : BOOLEAN,
            outcome : {None, "complete", "cancelled", "error", "removed"}]

MetricsShape(c) ==
    /\ installed \subseteq c.clients /\ changes \in 0..c.changes
    /\ pc \in [c.requests -> Measures(c)!Stage] /\ attempt \in [c.requests -> 0..c.retries]
    /\ todo \in [c.requests -> SUBSET Hooks] /\ state \in [c.requests -> Meter] /\ stream \in [c.requests -> Wrapper]
    /\ excused \in [c.requests -> BOOLEAN] /\ meter \in [requests : Int, streams : Int]

One(b) == IF b THEN 1 ELSE 0

(* Of one request, in stage p with the hooks t to run, in attempt a. *)
Measured(c, s, p, t, a, e) ==
    /\ s.active => s.measured /\ p \notin {"idle", "done"} /\ (p = "ending" => "settled" \in t)
    /\ "transport" \in t => p = "transport"
    /\ "record" \in t => p \in {"answered", "response", "error", "ending"}
    /\ "settled" \in t => p = "ending"
    /\ ~c.uploads /\ ~e =>
          /\ p \notin {"idle", "ending", "done"} => s.measured
          /\ s.sent <= s.recorded + One(s.timed)
          /\ p = "transport" => s.sent <= s.recorded /\ (s.timed \/ "transport" \in t)
          /\ s.timed => p \in {"transport", "sent"} \/ "record" \in t
    /\ s.recorded + One(s.timed) <= a + 1
    /\ p \in {"idle", "request", "waiting"} \/ "transport" \in t => s.recorded + One(s.timed) <= a
    /\ p \in {"idle", "request"} => ~s.timed /\ s.sent = 0

(* Of one stream. *)
Consumed(c, w) ==
    /\ w.kind = None => w = Measures(c)!NoStream
    /\ w.kind # None =>
          /\ w.reader # None
          /\ w.counted <=> w.outcome = None
          /\ w.counted => w.reader # "over" \/ (w.kind = "items" /\ w.closed)
          /\ w.outcome = "complete" => w.source = "ended" \/ (w.kind = "bytes" /\ w.closed)
          /\ w.outcome = "cancelled" => w.closed
          /\ w.outcome = "error" => w.source = "failed"
          /\ w.outcome \in {"complete", "error"} => w.reader = "over"

MetricsInv(c) ==
    /\ MetricsShape(c)
    /\ meter.requests = Cardinality({r \in c.requests : state[r].active})
    /\ meter.streams = Cardinality({r \in c.requests : stream[r].counted})
    /\ \A r \in c.requests :
          /\ Measured(c, state[r], pc[r], todo[r], attempt[r], excused[r])
          /\ state[r].active => c.clientOf[r] \in installed
          /\ Consumed(c, stream[r])
          /\ state[r].measured \/ pc[r] = "idle" => stream[r] = Measures(c)!NoStream

(* The component counts as this module does. *)
LEMMA MeasuresCount ==
  ASSUME NEW CONSTANT c, NEW S
  PROVE  Measures(c)!Cardinality(S) = Cardinality(S) /\ (Measures(c)!IsFiniteSet(S) <=> IsFiniteSet(S))
<1>1. Measures(c)!Cardinality(S) = Cardinality(S)
  BY DEF Measures!Cardinality, Cardinality
<1>2. Measures(c)!IsFiniteSet(S) <=> IsFiniteSet(S)
  BY DEF Measures!IsFiniteSet, IsFiniteSet
<1> QED
  BY <1>1, <1>2

(* There are finitely many requests, so they can be counted. *)
LEMMA RequestsAreFinite ==
  ASSUME NEW CONSTANT c, Measures(c)!MetricsAssumption
  PROVE  IsFiniteSet(c.requests)
BY MeasuresCount DEF Measures!MetricsAssumption

(* What the runs check of the meters follows from the invariant. *)
LEMMA MeasuresAgree ==
  ASSUME NEW CONSTANT c, Measures(c)!MetricsAssumption, ~c.uploads, MetricsInv(c)
  PROVE  Measures(c)!RequestsMeasured /\ Measures(c)!StreamsMeasured
<1>1. Measures(c)!TypeOK
  BY DEF MetricsInv, MetricsShape, Measures!TypeOK, Wrapper, Hooks
<1>2. Measures(c)!RequestsMeasured
  <2>1. ASSUME NEW r \in c.requests
        PROVE  /\ state[r].active => pc[r] \notin {"idle", "done"} /\ c.clientOf[r] \in installed
               /\ pc[r] = "done" /\ ~excused[r] => state[r].sent <= state[r].recorded
               /\ state[r].recorded <= attempt[r] + 1
    <3>1. state[r] \in Meter /\ attempt[r] \in Nat /\ Measured(c, state[r], pc[r], todo[r], attempt[r], excused[r])
      BY DEF MetricsInv, MetricsShape, Measures!MetricsAssumption
    <3> QED
      BY <3>1 DEF Meter, Measured, One, MetricsInv
  <2> QED
    BY <2>1, MeasuresCount DEF MetricsInv, Measures!RequestsMeasured
<1>3. Measures(c)!StreamsMeasured
  BY <1>1, MeasuresCount DEF MetricsInv, Measures!StreamsMeasured, Consumed
<1> QED
  BY <1>2, <1>3

(* Every meter is at zero, and nothing is measured. *)
LEMMA MetricsInit ==
  ASSUME NEW CONSTANT c, Measures(c)!MetricsAssumption, Measures(c)!Init
  PROVE  MetricsInv(c)
<1>1. Measures(c)!NoState \in Meter /\ Measures(c)!NoStream \in Wrapper /\ 0 \in 0..c.retries /\ 0 \in 0..c.changes
  BY DEF Measures!NoState, Measures!NoStream, Meter, Wrapper, Measures!MetricsAssumption
<1>2. MetricsShape(c)
  BY <1>1 DEF Measures!Init, MetricsShape, Measures!Stage, Hooks
<1>3. {r \in c.requests : state[r].active} = {} /\ {r \in c.requests : stream[r].counted} = {}
  BY DEF Measures!Init, Measures!NoState, Measures!NoStream
<1>4. \A r \in c.requests : Measured(c, state[r], pc[r], todo[r], attempt[r], excused[r])
  BY DEF Measures!Init, Measures!NoState, Measured, One
<1> QED
  BY <1>2, <1>3, <1>4, FS_EmptySet DEF Measures!Init, MetricsInv, Measures!NoState, Measures!NoStream, Consumed

(* What a change of one element does to a count. *)
LEMMA CountChanges ==
  ASSUME NEW S, IsFiniteSet(S), NEW P \in [S -> BOOLEAN], NEW x \in S, NEW b \in BOOLEAN
  PROVE  Cardinality({y \in S : [P EXCEPT ![x] = b][y]}) = Cardinality({y \in S : P[y]}) - One(P[x]) + One(b)
<1> DEFINE T == {y \in S : P[y]}
           U == {y \in S : [P EXCEPT ![x] = b][y]}
<1> SUFFICES Cardinality(U) = Cardinality(T) - One(P[x]) + One(b)
  OBVIOUS
<1>1. IsFiniteSet(T) /\ IsFiniteSet(U) /\ Cardinality(T) \in Nat /\ Cardinality(U) \in Nat
  BY FS_Subset, FS_CardinalityType
<1>2. CASE P[x] = b
  <2>1. U = T
    BY <1>2
  <2>2. One(P[x]) = One(b) /\ One(b) \in Int
    BY <1>2 DEF One
  <2> HIDE DEF T, U
  <2> QED
    BY <1>1, <2>1, <2>2
<1>3. CASE P[x] /\ ~b
  <2>1. U = T \ {x}
    BY <1>3
  <2>2. x \in T
    BY <1>3
  <2> QED
    <3>1. One(P[x]) = 1 /\ One(b) = 0
      BY <1>3 DEF One
    <3> HIDE DEF T, U
    <3>2. Cardinality(U) = Cardinality(T) - 1
      BY <1>1, <2>1, <2>2, FS_RemoveElement
    <3> QED
      BY <1>1, <3>1, <3>2
<1>4. CASE ~P[x] /\ b
  <2>1. U = T \cup {x}
    BY <1>4
  <2>2. x \notin T
    BY <1>4
  <2> QED
    <3>1. One(P[x]) = 0 /\ One(b) = 1
      BY <1>4 DEF One
    <3> HIDE DEF T, U
    <3>2. Cardinality(U) = Cardinality(T) + 1
      BY <1>1, <2>1, <2>2, FS_AddElement
    <3> QED
      BY <1>1, <3>1, <3>2
<1> QED
  BY <1>2, <1>3, <1>4

Moves(c, r, s, p, t, a, e, w) ==
    /\ s \in Meter /\ p \in Measures(c)!Stage /\ t \in SUBSET Hooks /\ a \in 0..c.retries /\ e \in BOOLEAN /\ w \in Wrapper
    /\ UNCHANGED <<installed, changes>>
    /\ state' = [state EXCEPT ![r] = s] /\ pc' = [pc EXCEPT ![r] = p] /\ todo' = [todo EXCEPT ![r] = t]
    /\ attempt' = [attempt EXCEPT ![r] = a] /\ excused' = [excused EXCEPT ![r] = e] /\ stream' = [stream EXCEPT ![r] = w]
    /\ meter' \in [requests : Int, streams : Int]
    /\ meter'.requests = meter.requests - One(state[r].active) + One(s.active)
    /\ meter'.streams = meter.streams - One(stream[r].counted) + One(w.counted)
    /\ Measured(c, s, p, t, a, e) /\ (s.active => c.clientOf[r] \in installed)
    /\ Consumed(c, w) /\ (s.measured \/ p = "idle" => w = Measures(c)!NoStream)

(* One request that changes its stage moves the meters by one. *)
LEMMA OneMoves ==
  ASSUME NEW CONSTANT c, Measures(c)!MetricsAssumption, MetricsInv(c), NEW r \in c.requests, NEW s, NEW p, NEW t,
         NEW a, NEW e, NEW w,
         Moves(c, r, s, p, t, a, e, w)
  PROVE  MetricsInv(c)'
<1>0. MetricsShape(c)
  BY DEF MetricsInv
<1>1. MetricsShape(c)'
  BY <1>0 DEF MetricsShape, Moves
<1>2. meter'.requests = Cardinality({x \in c.requests : state'[x].active})
  <2> DEFINE P == [x \in c.requests |-> state[x].active]
  <2>1. P \in [c.requests -> BOOLEAN] /\ s.active \in BOOLEAN
    BY <1>0 DEF MetricsShape, Meter, Moves
  <2>2. {x \in c.requests : P[x]} = {x \in c.requests : state[x].active}
    OBVIOUS
  <2>3. {x \in c.requests : [P EXCEPT ![r] = s.active][x]} = {x \in c.requests : state'[x].active}
    BY <1>0 DEF MetricsShape, Moves
  <2>4. Cardinality({x \in c.requests : [P EXCEPT ![r] = s.active][x]})
          = Cardinality({x \in c.requests : P[x]}) - One(P[r]) + One(s.active)
    <3> HIDE DEF P
    <3> QED
      BY <2>1, CountChanges, RequestsAreFinite
  <2>5. P[r] = state[r].active
    OBVIOUS
  <2> QED
    BY <2>2, <2>3, <2>4, <2>5 DEF MetricsInv, Moves
<1>3. meter'.streams = Cardinality({x \in c.requests : stream'[x].counted})
  <2> DEFINE P == [x \in c.requests |-> stream[x].counted]
  <2>1. P \in [c.requests -> BOOLEAN] /\ w.counted \in BOOLEAN
    BY <1>0 DEF MetricsShape, Wrapper, Moves
  <2>2. {x \in c.requests : P[x]} = {x \in c.requests : stream[x].counted}
    OBVIOUS
  <2>3. {x \in c.requests : [P EXCEPT ![r] = w.counted][x]} = {x \in c.requests : stream'[x].counted}
    BY <1>0 DEF MetricsShape, Moves
  <2>4. Cardinality({x \in c.requests : [P EXCEPT ![r] = w.counted][x]})
          = Cardinality({x \in c.requests : P[x]}) - One(P[r]) + One(w.counted)
    <3> HIDE DEF P
    <3> QED
      BY <2>1, CountChanges, RequestsAreFinite
  <2>5. P[r] = stream[r].counted
    OBVIOUS
  <2> QED
    BY <2>2, <2>3, <2>4, <2>5 DEF MetricsInv, Moves
<1>4. ASSUME NEW x \in c.requests
      PROVE  /\ Measured(c, state'[x], pc'[x], todo'[x], attempt'[x], excused'[x])
             /\ state'[x].active => c.clientOf[x] \in installed'
             /\ Consumed(c, stream'[x])
             /\ state'[x].measured \/ pc'[x] = "idle" => stream'[x] = Measures(c)!NoStream
  <2>1. CASE x = r
    BY <1>0, <2>1 DEF MetricsShape, Moves
  <2>2. CASE x # r
    <3>1. /\ state'[x] = state[x] /\ pc'[x] = pc[x] /\ todo'[x] = todo[x] /\ attempt'[x] = attempt[x]
          /\ excused'[x] = excused[x] /\ stream'[x] = stream[x]
      BY <1>0, <2>2 DEF MetricsShape, Moves
    <3> QED
      BY <3>1 DEF MetricsInv, Moves
  <2> QED
    BY <2>1, <2>2
<1> QED
  BY <1>1, <1>2, <1>3, <1>4 DEF MetricsInv, Measured, Consumed

(* A request enters a stage, nothing else of it changes. *)
LEMMA Enters ==
  ASSUME NEW CONSTANT c, Measures(c)!MetricsAssumption, MetricsInv(c), NEW r \in c.requests,
         NEW p \in Measures(c)!Stage \ {"idle"}, NEW runs \in SUBSET Hooks,
         NEW a \in 0..c.retries, attempt' = [attempt EXCEPT ![r] = a],
         Measures(c)!Enter(r, p, runs), UNCHANGED <<state, meter>>,
         Measured(c, state[r], p, IF c.clientOf[r] \in installed THEN runs ELSE {}, a,
                  excused[r] \/ (runs # {} /\ c.clientOf[r] \notin installed))
  PROVE  MetricsInv(c)'
<1> DEFINE t == IF c.clientOf[r] \in installed THEN runs ELSE {}
           e == excused[r] \/ (runs # {} /\ c.clientOf[r] \notin installed)
<1>0. MetricsShape(c)
  BY DEF MetricsInv
<1>1. state[r] \in Meter /\ stream[r] \in Wrapper /\ t \in SUBSET Hooks /\ e \in BOOLEAN
  BY <1>0 DEF MetricsShape
<1>2. /\ pc' = [pc EXCEPT ![r] = p] /\ todo' = [todo EXCEPT ![r] = t] /\ excused' = [excused EXCEPT ![r] = e]
      /\ UNCHANGED <<installed, changes, stream>>
  BY <1>0 DEF Measures!Enter, Measures!registry, MetricsShape
<1>3. state' = [state EXCEPT ![r] = state[r]] /\ stream' = [stream EXCEPT ![r] = stream[r]]
  BY <1>0, <1>2 DEF MetricsShape
<1>4. /\ meter' \in [requests : Int, streams : Int] /\ meter.requests \in Int /\ meter.streams \in Int
      /\ meter'.requests = meter.requests /\ meter'.streams = meter.streams
  BY <1>0 DEF MetricsShape
<1>5. /\ meter'.requests = meter.requests - One(state[r].active) + One(state[r].active)
      /\ meter'.streams = meter.streams - One(stream[r].counted) + One(stream[r].counted)
  BY <1>4 DEF One
<1>6. /\ state[r].active => c.clientOf[r] \in installed
      /\ Consumed(c, stream[r]) /\ (state[r].measured \/ p = "idle" => stream[r] = Measures(c)!NoStream)
  BY DEF MetricsInv
<1> HIDE DEF t, e
<1>7. Measured(c, state[r], p, t, a, e)
  BY DEF t, e
<1>8. Moves(c, r, state[r], p, t, a, e, stream[r])
  BY <1>1, <1>2, <1>3, <1>4, <1>5, <1>6, <1>7 DEF Moves
<1> QED
  BY <1>8, OneMoves

(* A stream moves on, its request does not. *)
LEMMA StreamMoves ==
  ASSUME NEW CONSTANT c, Measures(c)!MetricsAssumption, MetricsInv(c), NEW r \in c.requests, NEW w \in Wrapper,
         Measures(c)!Rest, stream[r].kind # None,
         stream' = [stream EXCEPT ![r] = w], Consumed(c, w),
         meter' = [meter EXCEPT !.streams = @ - One(stream[r].counted) + One(w.counted)]
  PROVE  MetricsInv(c)'
<1>0. MetricsShape(c)
  BY DEF MetricsInv
<1>1. /\ state[r] \in Meter /\ stream[r] \in Wrapper /\ pc[r] \in Measures(c)!Stage /\ todo[r] \in SUBSET Hooks
      /\ attempt[r] \in 0..c.retries /\ excused[r] \in BOOLEAN /\ w.counted \in BOOLEAN
  BY <1>0 DEF MetricsShape, Wrapper
<1>2. /\ state' = [state EXCEPT ![r] = state[r]] /\ pc' = [pc EXCEPT ![r] = pc[r]]
      /\ todo' = [todo EXCEPT ![r] = todo[r]] /\ attempt' = [attempt EXCEPT ![r] = attempt[r]]
      /\ excused' = [excused EXCEPT ![r] = excused[r]] /\ UNCHANGED <<installed, changes>>
  BY <1>0 DEF Measures!Rest, Measures!registry, MetricsShape
<1>3. /\ One(stream[r].counted) \in Int /\ One(w.counted) \in Int /\ One(state[r].active) \in Int
      /\ meter.requests \in Int /\ meter.streams \in Int
  BY <1>0 DEF One, MetricsShape
<1>4. /\ meter' \in [requests : Int, streams : Int]
      /\ meter'.requests = meter.requests - One(state[r].active) + One(state[r].active)
      /\ meter'.streams = meter.streams - One(stream[r].counted) + One(w.counted)
  BY <1>0, <1>3 DEF MetricsShape
<1>5. /\ Measured(c, state[r], pc[r], todo[r], attempt[r], excused[r])
      /\ state[r].active => c.clientOf[r] \in installed
      /\ ~(state[r].measured \/ pc[r] = "idle")
  BY DEF MetricsInv, Measures!NoStream
<1>6. Moves(c, r, state[r], pc[r], todo[r], attempt[r], excused[r], w)
  BY <1>1, <1>2, <1>4, <1>5 DEF Moves
<1> QED
  BY <1>6, OneMoves

(* finish() takes a stream that is counted off once, with its outcome. *)
LEMMA SettlesKeeps ==
  ASSUME NEW CONSTANT c, Measures(c)!MetricsAssumption, MetricsInv(c), NEW r \in c.requests, NEW w \in Wrapper,
         NEW ending \in {"complete", "cancelled", "error"}, Measures(c)!Rest, stream[r].kind # None, stream[r].reader # "over",
         Measures(c)!Settles(r, w, ending), w.kind = stream[r].kind, w.outcome = stream[r].outcome,
         stream[r].closed => w.closed,
         ending = "complete" => w.source = "ended" \/ (w.kind = "bytes" /\ w.closed),
         ending = "cancelled" => w.closed, ending = "error" => w.source = "failed"
  PROVE  MetricsInv(c)'
<1> DEFINE v == [w EXCEPT !.reader = "over", !.counted = FALSE,
                          !.outcome = IF stream[r].counted THEN ending ELSE @]
<1>0. MetricsShape(c) /\ stream[r] \in Wrapper /\ Consumed(c, stream[r])
  BY DEF MetricsInv, MetricsShape
<1>1. v \in Wrapper /\ v.counted = FALSE
  BY DEF Wrapper
<1>2. Consumed(c, v)
  BY <1>0 DEF Consumed, Wrapper, Measures!MetricsAssumption
<1>3. stream' = [stream EXCEPT ![r] = v]
  BY DEF Measures!Settles
<1>4. meter' = [meter EXCEPT !.streams = @ - One(stream[r].counted) + One(v.counted)]
  <2>1. One(v.counted) = 0 /\ One(stream[r].counted) = (IF stream[r].counted THEN 1 ELSE 0)
    BY <1>1 DEF One
  <2>2. One(stream[r].counted) \in Int /\ meter.streams \in Int
    BY <1>0 DEF One, MetricsShape
  <2> HIDE DEF v
  <2>3. meter.streams - One(stream[r].counted) + One(v.counted) = meter.streams - (IF stream[r].counted THEN 1 ELSE 0)
    BY <2>1, <2>2
  <2>4. meter' = [meter EXCEPT !.streams = meter.streams - (IF stream[r].counted THEN 1 ELSE 0)]
    BY DEF Measures!Settles
  <2> QED
    BY <2>3, <2>4
<1> QED
  BY <1>1, <1>2, <1>3, <1>4, StreamMoves

(* The steps of a measured body stream keep the meters. *)
LEMMA StreamStep ==
  ASSUME NEW CONSTANT c, Measures(c)!MetricsAssumption, MetricsInv(c), NEW r \in c.requests,
         Measures(c)!SourceEnds(r) \/ Measures(c)!Deliver(r) \/ Measures(c)!ReadEnds(r) \/ Measures(c)!Read(r) \/ Measures(c)!Close(r)
  PROVE  MetricsInv(c)'
<1>0. MetricsShape(c) /\ stream[r] \in Wrapper /\ Consumed(c, stream[r]) /\ meter \in [requests : Int, streams : Int]
  BY DEF MetricsInv, MetricsShape
<1>1. ASSUME NEW w \in Wrapper, Measures(c)!Rest, stream[r].kind # None, stream' = [stream EXCEPT ![r] = w], Consumed(c, w),
             w.counted = stream[r].counted, UNCHANGED meter
      PROVE  MetricsInv(c)'
  <2>1. meter' = [meter EXCEPT !.streams = @ - One(stream[r].counted) + One(w.counted)]
    BY <1>0, <1>1 DEF One
  <2> QED
    BY <1>1, <2>1, StreamMoves
<1>4. CASE Measures(c)!SourceEnds(r)
  <2>1. PICK how \in {"ended", "failed"} : stream' = [stream EXCEPT ![r].source = how]
    BY <1>4 DEF Measures!SourceEnds
  <2>2. /\ [stream[r] EXCEPT !.source = how] \in Wrapper
        /\ [stream[r] EXCEPT !.source = how].counted = stream[r].counted
    BY <1>0 DEF Wrapper
  <2>3. Consumed(c, [stream[r] EXCEPT !.source = how])
    BY <1>0, <1>4 DEF Measures!SourceEnds, Consumed, Wrapper, Measures!MetricsAssumption
  <2> QED
    BY <1>1, <1>4, <2>1, <2>2, <2>3 DEF Measures!SourceEnds
<1>5. Measures(c)!Stopped(r) \in Wrapper /\ Measures(c)!Stopped(r).closed /\ Measures(c)!Stopped(r).kind = stream[r].kind /\ Measures(c)!Stopped(r).outcome = stream[r].outcome
  BY <1>0 DEF Measures!Stopped, Wrapper
<1>2. Measures(c)!Stopped(r).source = "failed" <=> stream[r].source = "failed"
  BY <1>0 DEF Measures!Stopped, Wrapper
<1>3. ASSUME Measures(c)!Stops(r), Measures(c)!Rest, stream[r].kind # None, stream[r].reader # "over"
      PROVE  MetricsInv(c)'
  <2>1. CASE Measures(c)!Settles(r, Measures(c)!Stopped(r), "cancelled")
    BY <1>0, <1>3, <1>5, <2>1, SettlesKeeps
  <2>2. CASE Measures(c)!Settles(r, [Measures(c)!Stopped(r) EXCEPT !.source = "failed"], "error")
    <3> DEFINE w == [Measures(c)!Stopped(r) EXCEPT !.source = "failed"]
    <3>1. w \in Wrapper /\ w.closed /\ w.kind = stream[r].kind /\ w.outcome = stream[r].outcome /\ w.source = "failed"
      BY <1>5 DEF Wrapper
    <3> HIDE DEF w
    <3>2. Measures(c)!Settles(r, w, "error")
      BY <2>2 DEF w
    <3> QED
      BY <1>3, <3>1, <3>2, SettlesKeeps
  <2> QED
    BY <1>3, <2>1, <2>2 DEF Measures!Stops
<1>6. CASE Measures(c)!Deliver(r)
  <2>0. Measures(c)!Rest /\ stream[r].reader = "reading" /\ stream[r].kind # None
    BY <1>0, <1>6 DEF Measures!Deliver, Consumed, Measures!NoStream, Measures!MetricsAssumption
  <2>1. CASE Measures(c)!Stops(r)
    BY <1>3, <2>0, <2>1
  <2>2. CASE stream' = [stream EXCEPT ![r].reader = "ready"] /\ UNCHANGED meter
    <3>1. /\ [stream[r] EXCEPT !.reader = "ready"] \in Wrapper
          /\ [stream[r] EXCEPT !.reader = "ready"].counted = stream[r].counted
      BY <1>0 DEF Wrapper
    <3>2. Consumed(c, [stream[r] EXCEPT !.reader = "ready"])
      BY <1>0, <2>0 DEF Consumed, Wrapper, Measures!MetricsAssumption
    <3> QED
      BY <1>1, <2>0, <2>2, <3>1, <3>2
  <2> QED
    BY <1>6, <2>1, <2>2 DEF Measures!Deliver
<1>7. CASE Measures(c)!ReadEnds(r)
  <2>0. Measures(c)!Rest /\ stream[r].reader = "reading" /\ stream[r].kind # None
    BY <1>0, <1>7 DEF Measures!ReadEnds, Consumed, Measures!NoStream, Measures!MetricsAssumption
  <2>1. CASE stream[r].source = "ended"
    BY <1>0, <1>7, <2>0, <2>1, SettlesKeeps DEF Measures!ReadEnds
  <2>2. CASE stream[r].source = "failed"
    BY <1>0, <1>7, <2>0, <2>2, SettlesKeeps DEF Measures!ReadEnds
  <2> QED
    BY <1>7, <2>1, <2>2 DEF Measures!ReadEnds
<1>8. CASE Measures(c)!Read(r)
  <2>1. /\ [stream[r] EXCEPT !.reader = "reading"] \in Wrapper
        /\ [stream[r] EXCEPT !.reader = "reading"].counted = stream[r].counted
    BY <1>0 DEF Wrapper
  <2>2. Consumed(c, [stream[r] EXCEPT !.reader = "reading"])
    BY <1>0, <1>8 DEF Measures!Read, Measures!Returned, Consumed, Wrapper, Measures!MetricsAssumption
  <2> QED
    BY <1>1, <1>8, <2>1, <2>2 DEF Measures!Read, Measures!Returned
<1>9. CASE Measures(c)!Close(r)
  <2>0. Measures(c)!Rest /\ stream[r].reader # "over" /\ stream[r].kind # None /\ ~stream[r].closed
    BY <1>9 DEF Measures!Close, Measures!Returned
  <2>1. CASE stream[r].kind = "bytes"
    <3>1. Measures(c)!Cancel(r)
      BY <1>9, <2>1 DEF Measures!Close
    <3>2. PICK ending \in {"complete", "cancelled", "error"} :
             Measures(c)!Settles(r, Measures(c)!Stopped(r), ending) /\ (ending = "error" => stream[r].source = "failed")
      BY <3>1 DEF Measures!Cancel
    <3> QED
      BY <1>2, <1>5, <2>0, <2>1, <3>2, SettlesKeeps
  <2>2. CASE stream[r].kind # "bytes"
    <3>0. Measures(c)!Return(r) /\ stream[r].kind = "items"
      BY <1>0, <1>9, <2>0, <2>2 DEF Measures!Close, Wrapper
    <3>1. CASE stream[r].reader = "ready"
      <4>1. Measures(c)!Stops(r)
        BY <3>0, <3>1 DEF Measures!Return
      <4> QED
        BY <1>3, <2>0, <4>1
    <3>2. CASE stream[r].reader = "reading"
      <4>1. /\ [stream[r] EXCEPT !.closed = TRUE] \in Wrapper
            /\ [stream[r] EXCEPT !.closed = TRUE].counted = stream[r].counted
        BY <1>0 DEF Wrapper
      <4>2. Consumed(c, [stream[r] EXCEPT !.closed = TRUE])
        BY <1>0, <2>0 DEF Consumed, Wrapper, Measures!MetricsAssumption
      <4>3. stream' = [stream EXCEPT ![r].closed = TRUE] /\ UNCHANGED meter
        BY <3>0, <3>2 DEF Measures!Return
      <4> QED
        BY <1>1, <2>0, <4>1, <4>2, <4>3
    <3>3. CASE stream[r].reader = "fresh"
      <4>1. /\ [stream[r] EXCEPT !.closed = TRUE, !.reader = "over"] \in Wrapper
            /\ [stream[r] EXCEPT !.closed = TRUE, !.reader = "over"].counted = stream[r].counted
        BY <1>0 DEF Wrapper
      <4>2. Consumed(c, [stream[r] EXCEPT !.closed = TRUE, !.reader = "over"])
        BY <1>0, <2>0, <3>0 DEF Consumed, Wrapper, Measures!MetricsAssumption
      <4>3. stream' = [stream EXCEPT ![r].closed = TRUE, ![r].reader = "over"] /\ UNCHANGED meter
        BY <3>0, <3>3 DEF Measures!Return
      <4>4. stream' = [stream EXCEPT ![r] = [stream[r] EXCEPT !.closed = TRUE, !.reader = "over"]]
        BY <1>0, <4>3 DEF MetricsShape
      <4> QED
        BY <1>1, <2>0, <4>1, <4>2, <4>3, <4>4
    <3> QED
      BY <1>0, <2>0, <3>0, <3>1, <3>2, <3>3 DEF Consumed, Wrapper, Measures!Return
  <2> QED
    BY <2>1, <2>2
<1> QED
  BY <1>4, <1>6, <1>7, <1>8, <1>9

(* A hook that has run changes what was measured of its request. *)
LEMMA HookKeeps ==
  ASSUME NEW CONSTANT c, Measures(c)!MetricsAssumption, MetricsInv(c), NEW r \in c.requests,
         Measures(c)!RunTransport(r) \/ Measures(c)!RunRecord(r) \/ Measures(c)!RunSettled(r)
  PROVE  MetricsInv(c)'
<1>0. /\ MetricsShape(c) /\ state[r] \in Meter /\ stream[r] \in Wrapper /\ pc[r] \in Measures(c)!Stage /\ todo[r] \in SUBSET Hooks
      /\ attempt[r] \in 0..c.retries /\ attempt[r] \in Nat /\ excused[r] \in BOOLEAN
      /\ Measured(c, state[r], pc[r], todo[r], attempt[r], excused[r]) /\ Consumed(c, stream[r])
      /\ meter \in [requests : Int, streams : Int] /\ (state[r].active => c.clientOf[r] \in installed)
      /\ state[r].measured \/ pc[r] = "idle" => stream[r] = Measures(c)!NoStream
  BY DEF MetricsInv, MetricsShape, Measures!MetricsAssumption
<1>1. ASSUME NEW hook \in Hooks, Measures(c)!Ran(r, hook), NEW s \in Meter, state' = [state EXCEPT ![r] = s],
             s.active => state[r].active, s.measured => state[r].measured, NEW w \in Wrapper, stream' = [stream EXCEPT ![r] = w],
             meter' \in [requests : Int, streams : Int],
             meter'.requests = meter.requests - One(state[r].active) + One(s.active),
             meter'.streams = meter.streams - One(stream[r].counted) + One(w.counted),
             Consumed(c, w), s.measured => w = Measures(c)!NoStream, pc[r] # "idle",
             Measured(c, s, pc[r], todo[r] \ {hook}, attempt[r], excused[r])
      PROVE  MetricsInv(c)'
  <2>1. /\ UNCHANGED <<installed, changes>> /\ pc' = [pc EXCEPT ![r] = pc[r]]
        /\ todo' = [todo EXCEPT ![r] = todo[r] \ {hook}]
        /\ attempt' = [attempt EXCEPT ![r] = attempt[r]] /\ excused' = [excused EXCEPT ![r] = excused[r]]
    BY <1>0, <1>1 DEF Measures!Ran, Measures!registry, MetricsShape
  <2>2. todo[r] \ {hook} \in SUBSET Hooks
    BY <1>0
  <2>3. s.active => c.clientOf[r] \in installed
    BY <1>0, <1>1
  <2>4. Moves(c, r, s, pc[r], todo[r] \ {hook}, attempt[r], excused[r], w)
    BY <1>0, <1>1, <2>1, <2>2, <2>3 DEF Moves
  <2> QED
    BY <2>4, OneMoves
<1>2. ASSUME NEW hook \in {"transport", "record"}, Measures(c)!Ran(r, hook), NEW s \in Meter, state' = [state EXCEPT ![r] = s],
             s.active = state[r].active, s.measured = state[r].measured, UNCHANGED <<stream, meter>>,
             Measured(c, s, pc[r], todo[r] \ {hook}, attempt[r], excused[r])
      PROVE  MetricsInv(c)'
  <2>1. pc[r] # "idle"
    BY <1>0, <1>2 DEF Measures!Ran, Measured
  <2>2. stream' = [stream EXCEPT ![r] = stream[r]]
    BY <1>0, <1>2 DEF MetricsShape
  <2>3. /\ meter'.requests = meter.requests - One(state[r].active) + One(s.active)
        /\ meter'.streams = meter.streams - One(stream[r].counted) + One(stream[r].counted)
    BY <1>0, <1>2 DEF One
  <2> QED
    BY <1>0, <1>1, <1>2, <2>1, <2>2, <2>3 DEF Hooks
<1>3. CASE Measures(c)!RunTransport(r)
  <2> DEFINE s == [state[r] EXCEPT !.timed = state[r].measured]
  <2>1. s \in Meter /\ s.active = state[r].active /\ s.measured = state[r].measured
    BY <1>0 DEF Meter
  <2>2. Measured(c, s, pc[r], todo[r] \ {"transport"}, attempt[r], excused[r])
    BY <1>0, <1>3 DEF Measures!RunTransport, Measures!Ran, Measured, Meter, One
  <2> QED
    BY <1>2, <1>3, <2>1, <2>2 DEF Measures!RunTransport
<1>4. CASE Measures(c)!RunRecord(r)
  <2> DEFINE s == [state[r] EXCEPT !.timed = FALSE, !.recorded = @ + (IF state[r].timed THEN 1 ELSE 0)]
  <2>0. state[r].recorded + (IF state[r].timed THEN 1 ELSE 0) \in Nat
    BY <1>0 DEF Meter
  <2>1. s \in Meter /\ s.active = state[r].active /\ s.measured = state[r].measured
    BY <1>0, <2>0 DEF Meter
  <2>2. Measured(c, s, pc[r], todo[r] \ {"record"}, attempt[r], excused[r])
    BY <1>0, <1>4 DEF Measures!RunRecord, Measures!Ran, Measured, Meter, One
  <2>3. state' = [state EXCEPT ![r] = s]
    BY <1>0, <1>4 DEF Measures!RunRecord, Measures!Record, MetricsShape, Meter
  <2> QED
    BY <1>2, <1>4, <2>1, <2>2, <2>3 DEF Measures!RunRecord
<1>5. CASE Measures(c)!RunSettled(r) /\ ~state[r].measured
  <2>1. /\ Measures(c)!Ran(r, "settled") /\ UNCHANGED Measures(c)!metrics /\ ~state[r].active /\ pc[r] # "idle"
    BY <1>0, <1>5 DEF Measures!RunSettled, Measures!Ran, Measured
  <2>2. state' = [state EXCEPT ![r] = state[r]] /\ stream' = [stream EXCEPT ![r] = stream[r]] /\ meter' = meter
    BY <1>0, <2>1 DEF Measures!metrics, MetricsShape
  <2>3. /\ meter'.requests = meter.requests - One(state[r].active) + One(state[r].active)
        /\ meter'.streams = meter.streams - One(stream[r].counted) + One(stream[r].counted)
    BY <1>0, <2>2 DEF One
  <2>4. Measured(c, state[r], pc[r], todo[r] \ {"settled"}, attempt[r], excused[r])
    BY <1>0, <2>1 DEF Measured, Measures!Ran
  <2> QED
    BY <1>0, <1>1, <1>5, <2>1, <2>2, <2>3, <2>4 DEF Hooks
<1>6. CASE Measures(c)!RunSettled(r) /\ state[r].measured
  <2> DEFINE s == [state[r] EXCEPT !.active = FALSE, !.measured = FALSE]
  <2>0. PICK kind \in {None, "bytes", "items"} :
               /\ stream' = [stream EXCEPT ![r] = Measures(c)!Instrumented(r, kind)]
               /\ meter' = [requests |-> meter.requests - (IF state[r].active THEN 1 ELSE 0),
                            streams |-> meter.streams + (IF kind = None THEN 0 ELSE 1)]
               /\ state' = [state EXCEPT ![r].active = FALSE, ![r].measured = FALSE]
    BY <1>6 DEF Measures!RunSettled
  <2>1. Measures(c)!Ran(r, "settled") /\ stream[r] = Measures(c)!NoStream /\ pc[r] = "ending"
    BY <1>0, <1>6 DEF Measures!RunSettled, Measures!Ran, Measured
  <2>2. s \in Meter /\ ~s.active /\ ~s.measured /\ state' = [state EXCEPT ![r] = s]
    BY <1>0, <2>0 DEF Meter, MetricsShape
  <2>3. /\ Measures(c)!Instrumented(r, kind) \in Wrapper /\ Consumed(c, Measures(c)!Instrumented(r, kind))
        /\ Measures(c)!Instrumented(r, kind).counted = (kind # None)
    BY DEF Measures!Instrumented, Measures!NoStream, Wrapper, Consumed, Measures!MetricsAssumption
  <2>4. meter.requests \in Int /\ meter.streams \in Int
    BY <1>0
  <2>5. /\ meter'.requests = meter.requests - One(state[r].active) + One(s.active)
        /\ meter'.streams = meter.streams - One(stream[r].counted) + One(Measures(c)!Instrumented(r, kind).counted)
        /\ meter' \in [requests : Int, streams : Int]
    <3>1. One(s.active) = 0 /\ One(stream[r].counted) = 0
      BY <2>1, <2>2 DEF One, Measures!NoStream
    <3>2. One(Measures(c)!Instrumented(r, kind).counted) = (IF kind = None THEN 0 ELSE 1)
      BY <2>3 DEF One
    <3>3. One(state[r].active) = (IF state[r].active THEN 1 ELSE 0)
      BY DEF One
    <3> HIDE DEF s
    <3> QED
      BY <2>0, <2>4, <3>1, <3>2, <3>3
  <2>6. Measured(c, s, pc[r], todo[r] \ {"settled"}, attempt[r], excused[r])
    BY <1>0, <2>1, <2>2 DEF Measured, Measures!Ran, Meter, One
  <2> HIDE DEF s
  <2> QED
    BY <1>0, <1>1, <2>0, <2>1, <2>2, <2>3, <2>5, <2>6 DEF Hooks
<1> QED
  BY <1>3, <1>4, <1>5, <1>6

(* The hooks of a request's life keep the meters. *)
LEMMA LifecycleKeeps ==
  ASSUME NEW CONSTANT c, Measures(c)!MetricsAssumption, MetricsInv(c), NEW r \in c.requests, Measures(c)!Lifecycle(r)
  PROVE  MetricsInv(c)'
<1>0. /\ MetricsShape(c) /\ state[r] \in Meter /\ stream[r] \in Wrapper /\ pc[r] \in Measures(c)!Stage /\ todo[r] \in SUBSET Hooks
      /\ attempt[r] \in 0..c.retries /\ attempt[r] \in Nat /\ excused[r] \in BOOLEAN
      /\ Measured(c, state[r], pc[r], todo[r], attempt[r], excused[r]) /\ Consumed(c, stream[r])
      /\ meter \in [requests : Int, streams : Int] /\ (state[r].active => c.clientOf[r] \in installed)
      /\ state[r].measured \/ pc[r] = "idle" => stream[r] = Measures(c)!NoStream
  BY DEF MetricsInv, MetricsShape, Measures!MetricsAssumption
<1>1. CASE Measures(c)!RunTransport(r) \/ Measures(c)!RunRecord(r) \/ Measures(c)!RunSettled(r)
  BY <1>1, HookKeeps
<1>2. CASE Measures(c)!Begin(r)
  <2>0. PICK measured \in BOOLEAN :
            /\ measured => c.clientOf[r] \in installed
            /\ state' = [state EXCEPT ![r].measured = measured, ![r].active = measured]
            /\ meter' = [meter EXCEPT !.requests = @ + (IF measured THEN 1 ELSE 0)]
            /\ excused' = [excused EXCEPT ![r] = ~measured]
    BY <1>2 DEF Measures!Begin
  <2> DEFINE s == [state[r] EXCEPT !.measured = measured, !.active = measured]
  <2>1. /\ pc[r] = "idle" /\ pc' = [pc EXCEPT ![r] = "request"] /\ stream[r] = Measures(c)!NoStream
        /\ UNCHANGED <<installed, changes, todo, attempt, stream>>
    BY <1>0, <1>2 DEF Measures!Begin, Measures!registry
  <2>2. measured \in BOOLEAN /\ (measured => c.clientOf[r] \in installed) /\ ~state[r].active
    <3>2. ~state[r].active
      BY <1>0, <2>1 DEF Measured
    <3> QED
      BY <2>0, <3>2
  <2>3. /\ s \in Meter /\ s.active = measured /\ s.measured = measured /\ state' = [state EXCEPT ![r] = s]
        /\ s.timed = state[r].timed /\ s.sent = state[r].sent /\ s.recorded = state[r].recorded
    BY <1>0, <2>0, <2>2 DEF Meter, MetricsShape
  <2>4. /\ todo' = [todo EXCEPT ![r] = todo[r]] /\ attempt' = [attempt EXCEPT ![r] = attempt[r]]
        /\ stream' = [stream EXCEPT ![r] = stream[r]]
    BY <1>0, <2>1 DEF MetricsShape
  <2>5. meter.requests \in Int /\ meter.streams \in Int /\ meter' \in [requests : Int, streams : Int]
        /\ meter'.requests = meter.requests + (IF measured THEN 1 ELSE 0) /\ meter'.streams = meter.streams
    BY <1>0, <2>0
  <2>6. /\ meter'.requests = meter.requests - One(state[r].active) + One(s.active)
        /\ meter'.streams = meter.streams - One(stream[r].counted) + One(stream[r].counted)
    BY <2>2, <2>3, <2>5 DEF One
  <2>8. Measured(c, s, "request", todo[r], attempt[r], ~measured)
    BY <1>0, <2>1, <2>2, <2>3 DEF Measured, One, Meter
  <2> HIDE DEF s
  <2>9. Moves(c, r, s, "request", todo[r], attempt[r], ~measured, stream[r])
    BY <1>0, <2>0, <2>1, <2>2, <2>3, <2>4, <2>5, <2>6, <2>8 DEF Moves, Measures!Stage
  <2> QED
    BY <2>9, OneMoves
<1>3. ASSUME NEW p \in Measures(c)!Stage \ {"idle"}, NEW runs \in SUBSET Hooks, Measures(c)!Enter(r, p, runs),
             UNCHANGED <<state, meter, attempt>>,
             Measured(c, state[r], p, IF c.clientOf[r] \in installed THEN runs ELSE {}, attempt[r],
                      excused[r] \/ (runs # {} /\ c.clientOf[r] \notin installed))
      PROVE  MetricsInv(c)'
  <2>1. attempt' = [attempt EXCEPT ![r] = attempt[r]]
    BY <1>0, <1>3 DEF MetricsShape
  <2> QED
    BY <1>0, <1>3, <2>1, Enters
<1>4. {} \in SUBSET Hooks /\ {"record"} \in SUBSET Hooks /\ {"transport"} \in SUBSET Hooks
      /\ {"settled"} \in SUBSET Hooks /\ {"record", "settled"} \in SUBSET Hooks
  BY DEF Hooks
<1>5. /\ Measures(c)!Stage \ {"idle"} = {"request", "answered", "transport", "sent", "response", "error", "waiting", "ending", "done"}
  BY DEF Measures!Stage
<1>6. CASE Measures(c)!Answered(r)
  <2>1. PICK p \in {"answered", "response"} : Measures(c)!Enter(r, p, {"record"}) /\ pc[r] \in {"request", "transport"}
    BY <1>6 DEF Measures!Answered
  <2>2. Measured(c, state[r], p, IF c.clientOf[r] \in installed THEN {"record"} ELSE {}, attempt[r],
                 excused[r] \/ ({"record"} # {} /\ c.clientOf[r] \notin installed))
    BY <1>0, <2>1 DEF Measured, One, Meter
  <2> QED
    BY <1>3, <1>4, <1>5, <1>6, <2>1, <2>2 DEF Measures!Answered, Measures!Unmeasured
<1>7. CASE Measures(c)!Admitted(r) \/ Measures(c)!WaitEnds(r)
  <2>1. Measures(c)!Enter(r, "transport", {"transport"}) /\ pc[r] \in {"request", "waiting"} /\ UNCHANGED <<state, meter, attempt>>
    BY <1>7 DEF Measures!Admitted, Measures!WaitEnds, Measures!Unmoved, Measures!Unmeasured
  <2>2. Measured(c, state[r], "transport", IF c.clientOf[r] \in installed THEN {"transport"} ELSE {}, attempt[r],
                 excused[r] \/ ({"transport"} # {} /\ c.clientOf[r] \notin installed))
    BY <1>0, <2>1 DEF Measured, One, Meter
  <2> QED
    BY <1>3, <1>4, <1>5, <2>1, <2>2
<1>8. CASE Measures(c)!Dispatch(r)
  <2> DEFINE s == [state[r] EXCEPT !.sent = @ + 1]
  <2>1. /\ pc[r] = "transport" /\ ("transport" \notin todo[r] \/ c.uploads) /\ Measures(c)!Enter(r, "sent", {})
        /\ state' = [state EXCEPT ![r].sent = @ + 1] /\ UNCHANGED <<attempt, meter>>
    BY <1>8 DEF Measures!Dispatch
  <2>2. /\ s \in Meter /\ s.active = state[r].active /\ s.measured = state[r].measured /\ state' = [state EXCEPT ![r] = s]
        /\ s.timed = state[r].timed /\ s.sent = state[r].sent + 1 /\ s.recorded = state[r].recorded
    BY <1>0, <2>1 DEF Meter
  <2>3. /\ todo' = [todo EXCEPT ![r] = {}] /\ attempt' = [attempt EXCEPT ![r] = attempt[r]]
        /\ stream' = [stream EXCEPT ![r] = stream[r]] /\ pc' = [pc EXCEPT ![r] = "sent"]
        /\ excused' = [excused EXCEPT ![r] = excused[r]] /\ UNCHANGED <<installed, changes>>
    BY <1>0, <2>1 DEF MetricsShape, Measures!Enter, Measures!registry
  <2>4. /\ meter.requests \in Int /\ meter.streams \in Int /\ meter' \in [requests : Int, streams : Int]
    BY <1>0, <2>1
  <2>5. /\ meter'.requests = meter.requests - One(state[r].active) + One(s.active)
        /\ meter'.streams = meter.streams - One(stream[r].counted) + One(stream[r].counted)
    BY <2>1, <2>2, <2>4 DEF One
  <2>6. Measured(c, s, "sent", {}, attempt[r], excused[r])
    BY <1>0, <2>1, <2>2 DEF Measured, One, Meter
  <2> HIDE DEF s
  <2>7. Moves(c, r, s, "sent", {}, attempt[r], excused[r], stream[r])
    BY <1>0, <2>2, <2>3, <2>4, <2>5, <2>6 DEF Moves, Measures!Stage
  <2> QED
    BY <2>7, OneMoves
<1>9. CASE Measures(c)!Respond(r)
  <2>1. Measured(c, state[r], "response", IF c.clientOf[r] \in installed THEN {"record"} ELSE {}, attempt[r],
                 excused[r] \/ ({"record"} # {} /\ c.clientOf[r] \notin installed))
    BY <1>0, <1>9 DEF Measures!Respond, Measured, One, Meter
  <2> QED
    BY <1>3, <1>4, <1>5, <1>9, <2>1 DEF Measures!Respond, Measures!Unmeasured
<1>10. CASE Measures(c)!Finish(r)
  <2>1. CASE pc[r] \in {"answered", "response"} /\ "record" \notin todo[r] /\ Measures(c)!Enter(r, "ending", {"settled"})
    <3>1. Measured(c, state[r], "ending", IF c.clientOf[r] \in installed THEN {"settled"} ELSE {}, attempt[r],
                   excused[r] \/ ({"settled"} # {} /\ c.clientOf[r] \notin installed))
      BY <1>0, <2>1 DEF Measured, One, Meter
    <3> QED
      BY <1>3, <1>4, <1>5, <1>10, <2>1, <3>1 DEF Measures!Finish, Measures!Unmeasured
  <2>2. CASE pc[r] \in {"request", "answered", "waiting"} /\ Measures(c)!Enter(r, "ending", {"record", "settled"})
    <3>1. Measured(c, state[r], "ending", IF c.clientOf[r] \in installed THEN {"record", "settled"} ELSE {}, attempt[r],
                   excused[r] \/ ({"record", "settled"} # {} /\ c.clientOf[r] \notin installed))
      BY <1>0, <2>2 DEF Measured, One, Meter
    <3> QED
      BY <1>3, <1>4, <1>5, <1>10, <2>2, <3>1 DEF Measures!Finish, Measures!Unmeasured
  <2> QED
    BY <1>10, <2>1, <2>2 DEF Measures!Finish
<1>11. CASE Measures(c)!Throw(r)
  <2>1. Measured(c, state[r], "error", IF c.clientOf[r] \in installed THEN {"record"} ELSE {}, attempt[r],
                 excused[r] \/ ({"record"} # {} /\ c.clientOf[r] \notin installed))
    BY <1>0, <1>11 DEF Measures!Throw, Measured, One, Meter
  <2> QED
    BY <1>3, <1>4, <1>5, <1>11, <2>1 DEF Measures!Throw, Measures!Unmeasured
<1>12. CASE Measures(c)!GiveUp(r)
  <2> DEFINE t == IF c.clientOf[r] \in installed THEN {"settled"} ELSE {}
             e == excused[r] \/ "record" \in todo[r]
  <2>1. /\ pc[r] = "error" /\ pc' = [pc EXCEPT ![r] = "ending"] /\ todo' = [todo EXCEPT ![r] = t]
        /\ excused' = [excused EXCEPT ![r] = e] /\ UNCHANGED <<state, meter, attempt, installed, changes, stream>>
    BY <1>0, <1>12 DEF Measures!GiveUp, Measures!Unmoved, Measures!Unmeasured, Measures!registry, MetricsShape
  <2>2. /\ attempt' = [attempt EXCEPT ![r] = attempt[r]] /\ state' = [state EXCEPT ![r] = state[r]]
        /\ stream' = [stream EXCEPT ![r] = stream[r]]
    BY <1>0, <2>1 DEF MetricsShape
  <2>3. t \in SUBSET Hooks /\ e \in BOOLEAN
    BY <1>0, <1>4
  <2>4. meter.requests \in Int /\ meter.streams \in Int /\ meter' \in [requests : Int, streams : Int]
    BY <1>0, <2>1
  <2>5. /\ meter'.requests = meter.requests - One(state[r].active) + One(state[r].active)
        /\ meter'.streams = meter.streams - One(stream[r].counted) + One(stream[r].counted)
    BY <2>1, <2>4 DEF One
  <2>6. Measured(c, state[r], "ending", t, attempt[r], e)
    BY <1>0, <2>1 DEF Measured, One, Meter
  <2> HIDE DEF t, e
  <2>7. Moves(c, r, state[r], "ending", t, attempt[r], e, stream[r])
    BY <1>0, <2>1, <2>2, <2>3, <2>4, <2>5, <2>6 DEF Moves, Measures!Stage
  <2> QED
    BY <2>7, OneMoves
<1>13. CASE Measures(c)!Recover(r)
  <2>1. Measured(c, state[r], "answered", IF c.clientOf[r] \in installed THEN {"record"} ELSE {}, attempt[r],
                 excused[r] \/ ({"record"} # {} /\ c.clientOf[r] \notin installed))
    BY <1>0, <1>13 DEF Measures!Recover, Measured, One, Meter
  <2> QED
    BY <1>3, <1>4, <1>5, <1>13, <2>1 DEF Measures!Recover, Measures!Unmeasured
<1>14. CASE Measures(c)!Retry(r)
  <2>1. attempt[r] + 1 \in 0..c.retries /\ attempt' = [attempt EXCEPT ![r] = attempt[r] + 1]
    BY <1>0, <1>14 DEF Measures!Retry, Measures!MetricsAssumption
  <2>2. Measured(c, state[r], "waiting", IF c.clientOf[r] \in installed THEN {} ELSE {}, attempt[r] + 1,
                 excused[r] \/ ({} # {} /\ c.clientOf[r] \notin installed))
    BY <1>0, <1>14 DEF Measures!Retry, Measured, One, Meter
  <2> QED
    BY <1>4, <1>5, <1>14, <2>1, <2>2, Enters DEF Measures!Retry, Measures!Unmeasured
<1>15. CASE Measures(c)!Settle(r)
  <2>1. Measured(c, state[r], "done", IF c.clientOf[r] \in installed THEN {} ELSE {}, attempt[r],
                 excused[r] \/ ({} # {} /\ c.clientOf[r] \notin installed))
    BY <1>0, <1>15 DEF Measures!Settle, Measured, One, Meter
  <2> QED
    BY <1>3, <1>4, <1>5, <1>15, <2>1 DEF Measures!Settle, Measures!Unmoved, Measures!Unmeasured
<1> QED
  BY <1>1, <1>2, <1>6, <1>7, <1>8, <1>9, <1>10, <1>11, <1>12, <1>13, <1>14, <1>15 DEF Measures!Lifecycle

(* Each of the metrics plugin's steps keeps its invariant. *)
LEMMA MetricsStep ==
  ASSUME NEW CONSTANT c, Measures(c)!MetricsAssumption, MetricsInv(c), [Measures(c)!Next]_(Measures(c)!vars)
  PROVE  MetricsInv(c)'
<1>0. MetricsShape(c)
  BY DEF MetricsInv
<1>1. CASE UNCHANGED Measures(c)!vars
  BY <1>1 DEF Measures!vars, MetricsInv, MetricsShape
<1>2. ASSUME NEW r \in c.requests, Measures(c)!Lifecycle(r)
      PROVE  MetricsInv(c)'
  BY <1>2, LifecycleKeeps
<1>3. ASSUME NEW r \in c.requests,
             Measures(c)!SourceEnds(r) \/ Measures(c)!Deliver(r) \/ Measures(c)!ReadEnds(r) \/ Measures(c)!Read(r) \/ Measures(c)!Close(r)
      PROVE  MetricsInv(c)'
  BY <1>3, StreamStep
<1>4. ASSUME NEW owner \in c.clients, Measures(c)!Use(owner)
      PROVE  MetricsInv(c)'
  <2>1. changes' \in 0..c.changes
    BY <1>0, <1>4 DEF Measures!Use, MetricsShape, Measures!MetricsAssumption
  <2> QED
    BY <1>4, <2>1 DEF Measures!Use, Measures!metrics, MetricsInv, MetricsShape
<1>5. ASSUME NEW owner \in c.clients, Measures(c)!Unuse(owner)
      PROVE  MetricsInv(c)'
  <2>0. /\ state' = [r \in c.requests |-> [state[r] EXCEPT !.active = FALSE]]
        /\ stream' = [r \in c.requests |-> IF stream[r].counted
                                    THEN [stream[r] EXCEPT !.counted = FALSE, !.outcome = "removed"] ELSE stream[r]]
        /\ installed' = installed \ {owner} /\ changes' = changes + 1 /\ changes < c.changes
        /\ UNCHANGED <<pc, todo, attempt, excused>>
    BY <1>5 DEF Measures!Unuse
  <2>1. changes' \in 0..c.changes /\ installed' \subseteq c.clients
    <3>1. changes \in 0..c.changes /\ installed \subseteq c.clients
      BY <1>0 DEF MetricsShape
    <3>2. changes + 1 \in 0..c.changes

      <4>1. changes < c.changes
        BY <2>0
      <4> QED
        BY <3>1, <4>1 DEF Measures!MetricsAssumption
    <3> QED
      BY <2>0, <3>1, <3>2
  <2>2. ASSUME NEW r \in c.requests
        PROVE  /\ state'[r] \in Meter /\ ~state'[r].active /\ stream'[r] \in Wrapper /\ ~stream'[r].counted
               /\ Measured(c, state'[r], pc'[r], todo'[r], attempt'[r], excused'[r])
               /\ Consumed(c, stream'[r]) /\ (state'[r].measured \/ pc'[r] = "idle" => stream'[r] = Measures(c)!NoStream)
    <3>0. /\ state[r] \in Meter /\ stream[r] \in Wrapper /\ Measured(c, state[r], pc[r], todo[r], attempt[r], excused[r])
          /\ Consumed(c, stream[r]) /\ (state[r].measured \/ pc[r] = "idle" => stream[r] = Measures(c)!NoStream)
      BY <1>0 DEF MetricsInv, MetricsShape
    <3>1. state'[r] = [state[r] EXCEPT !.active = FALSE]
      BY <2>0
    <3>2. Measured(c, state'[r], pc'[r], todo'[r], attempt'[r], excused'[r]) /\ state'[r] \in Meter /\ ~state'[r].active
      BY <2>0, <3>0, <3>1 DEF Measured, Meter
    <3>3. CASE stream[r].counted
      <4>0. ~Measures(c)!NoStream.counted
        BY DEF Measures!NoStream
      <4>1. stream'[r] = [stream[r] EXCEPT !.counted = FALSE, !.outcome = "removed"] /\ stream[r] # Measures(c)!NoStream
        BY <2>0, <3>3, <4>0
      <4>2. stream'[r] \in Wrapper /\ ~stream'[r].counted /\ Consumed(c, stream'[r])
        BY <3>0, <3>3, <4>1 DEF Consumed, Wrapper, Measures!MetricsAssumption
      <4> QED
        BY <2>0, <3>0, <3>1, <3>2, <4>1, <4>2 DEF Meter
    <3>4. CASE ~stream[r].counted
      <4>1. stream'[r] = stream[r]
        BY <2>0, <3>4
      <4> QED
        BY <2>0, <3>0, <3>1, <3>2, <3>4, <4>1 DEF Meter
    <3> QED
      BY <3>3, <3>4
  <2>3. state' \in [c.requests -> Meter] /\ stream' \in [c.requests -> Wrapper]
    <3>1. state' = [r \in c.requests |-> state'[r]] /\ stream' = [r \in c.requests |-> stream'[r]]
      BY <2>0
    <3> QED
      BY <2>2, <3>1
  <2>4. /\ IsFiniteSet({r \in c.requests : state[r].active}) /\ IsFiniteSet({r \in c.requests : stream[r].counted})
    BY FS_Subset, RequestsAreFinite
  <2>5. meter' = [requests |-> 0, streams |-> 0]
    <3>1. /\ Cardinality({r \in c.requests : state[r].active}) \in Nat
          /\ Cardinality({r \in c.requests : stream[r].counted}) \in Nat
      BY <2>4, FS_CardinalityType
    <3>2. /\ meter.requests = Cardinality({r \in c.requests : state[r].active})
          /\ meter.streams = Cardinality({r \in c.requests : stream[r].counted})
      BY DEF MetricsInv
    <3>3. meter' = [requests |-> meter.requests - Cardinality({r \in c.requests : state[r].active}),
                    streams |-> meter.streams - Cardinality({r \in c.requests : stream[r].counted})]
      BY <1>5, MeasuresCount DEF Measures!Unuse
    <3> QED
      BY <3>1, <3>2, <3>3
  <2>6. {r \in c.requests : state'[r].active} = {} /\ {r \in c.requests : stream'[r].counted} = {}
    BY <2>2
  <2>7. MetricsShape(c)'
    <3>1. meter' \in [requests : Int, streams : Int]
      BY <2>5
    <3>2. pc' \in [c.requests -> Measures(c)!Stage] /\ attempt' \in [c.requests -> 0..c.retries] /\ todo' \in [c.requests -> SUBSET Hooks]
          /\ excused' \in [c.requests -> BOOLEAN]
      BY <1>0, <2>0 DEF MetricsShape
    <3> QED
      BY <2>1, <2>3, <3>1, <3>2 DEF MetricsShape
  <2> QED
    BY <2>2, <2>5, <2>6, <2>7, FS_EmptySet DEF MetricsInv
<1>6. CASE Measures(c)!Finished
  BY <1>1, <1>6 DEF Measures!Finished
<1> QED
  BY <1>1, <1>2, <1>3, <1>4, <1>5, <1>6 DEF Measures!Next

----------------------------------------------------------------------------
\* Mock

(* The elements of a sequence to which another is appended. *)
LEMMA Joined ==
  ASSUME NEW A, NEW s \in Seq(A), NEW t \in Seq(A)
  PROVE  /\ s \o t \in Seq(A) /\ Len(s \o t) = Len(s) + Len(t)
         /\ \A n \in 1..Len(s) : (s \o t)[n] = s[n]
         /\ \A n \in 1..Len(t) : (s \o t)[Len(s) + n] = t[n]
OBVIOUS

(* A sequence without one of its elements. *)
Cut(s, i) == SubSeq(s, 1, i - 1) \o SubSeq(s, i + 1, Len(s))

(* What splice(i, 1) leaves of a sequence: its length and its elements. *)
LEMMA SpliceFacts ==
  ASSUME NEW S, NEW s \in Seq(S), NEW i \in 1..Len(s)
  PROVE  /\ Cut(s, i) \in Seq(S) /\ Len(Cut(s, i)) = Len(s) - 1
         /\ \A j \in 1..Len(s) - 1 : Cut(s, i)[j] = IF j < i THEN s[j] ELSE s[j + 1]
<1> DEFINE a == SubSeq(s, 1, i - 1)
           b == SubSeq(s, i + 1, Len(s))
<1>0. Len(s) \in Nat /\ i \in Nat
  OBVIOUS
<1>1. a \in Seq(S) /\ Len(a) = i - 1
  OBVIOUS
<1>2. b \in Seq(S) /\ Len(b) = Len(s) - i
  OBVIOUS
<1>3. \A j \in 1..i - 1 : a[j] = s[j]
  OBVIOUS
<1>4. \A j \in 1..Len(s) - i : b[j] = s[j + i]
  OBVIOUS
<1>5. Cut(s, i) = a \o b
  BY DEF Cut
<1> HIDE DEF a, b
<1>6. a \o b \in Seq(S) /\ Len(a \o b) = Len(s) - 1
  <2>1. a \o b \in Seq(S) /\ Len(a \o b) = Len(a) + Len(b)
    BY <1>1, <1>2, Joined
  <2> QED
    BY <1>0, <1>1, <1>2, <2>1
<1>7. ASSUME NEW j \in 1..Len(s) - 1, j < i
      PROVE  (a \o b)[j] = s[j]
  <2>1. j \in 1..i - 1
    BY <1>0, <1>7
  <2> QED
    BY <1>1, <1>2, <1>3, <2>1
<1>8. ASSUME NEW j \in 1..Len(s) - 1, ~(j < i)
      PROVE  (a \o b)[j] = s[j + 1]
  <2>1. /\ j - (i - 1) \in 1..Len(s) - i /\ (j - (i - 1)) + i = j + 1
        /\ j > Len(a) /\ j \in 1..Len(a) + Len(b)
    BY <1>0, <1>1, <1>2, <1>8
  <2>2. (a \o b)[j] = b[j - (i - 1)]
    BY <1>1, <1>2, <2>1
  <2>3. b[j - (i - 1)] = s[(j - (i - 1)) + i]
    BY <1>4, <2>1
  <2> QED
    BY <2>1, <2>2, <2>3
<1> QED
  BY <1>5, <1>6, <1>7, <1>8

(* A set of naturals with an element has a least one. *)
LEMMA LeastElement ==
  ASSUME NEW T \in SUBSET Nat, T # {}
  PROVE  \E m \in T : \A n \in T : m <= n
<1>1. PICK m \in T : \A n \in T : <<n, m>> \notin OpToRel(<, Nat)
  BY NatLessThanWellFounded, WFMin, Zenon
<1>2. \A n \in T : ~(n < m)
  BY <1>1 DEF OpToRel
<1> QED
  BY <1>2

RuleType(S) == [id : Nat, route : S, once : BOOLEAN]
CallType(c, S) == [route : c.routes, pc : {"mocked", "forwarded", "unrecorded", "answered", "failed", "recorded", "skipped"},
                rule : {None} \cup RuleType(S), id : Nat, generation : Nat]

CountsTyped ==
    registered \in Nat /\ skipped \in Nat /\ evicted \in Nat /\ generation \in Nat /\ entries \in Seq(Nat)

Recorded == {r \in DOMAIN req : req[r].pc = "recorded" /\ req[r].generation = generation}
Counted == {r \in DOMAIN req : req[r].pc \in {"unrecorded", "skipped"} /\ req[r].generation = generation}

RulesInv(c) ==
    /\ \A m, n \in DOMAIN rules : m < n => rules[m].id < rules[n].id
    /\ \A n \in DOMAIN rules : rules[n].id < registered
    /\ \A i \in DOMAIN req : req[i].rule # None =>
          /\ req[i].rule.id < registered
          /\ \A n \in DOMAIN rules :
                /\ rules[n].route = req[i].route => req[i].rule.id <= rules[n].id
                /\ req[i].rule.once => rules[n].id # req[i].rule.id
    /\ Mocks(c)!OnceAnswersOnce

RecorderInv(c) ==
    /\ \A i \in DOMAIN req : req[i].id = i /\ req[i].generation <= generation
    /\ Mocks(c)!Range(entries) \subseteq Recorded
    /\ \A i, j \in DOMAIN entries : entries[i] = entries[j] => i = j
    /\ Cardinality(Mocks(c)!Range(entries)) = Len(entries) /\ Len(entries) <= c.entries
    /\ Len(entries) < c.entries => Mocks(c)!Range(entries) = Recorded
    /\ \A r \in Recorded \ Mocks(c)!Range(entries) : \A e \in Mocks(c)!Range(entries) : r < e
    /\ Len(entries) + evicted = Cardinality(Recorded)
    /\ skipped = Cardinality(Counted)

MockInv(c) ==
    /\ CountsTyped /\ RulesInv(c) /\ RecorderInv(c)
    /\ \E S : rules \in Seq(RuleType(S)) /\ req \in Seq(CallType(c, S))

(* The component counts as this module does. *)
LEMMA MocksCount ==
  ASSUME NEW CONSTANT c, NEW S
  PROVE  Mocks(c)!Cardinality(S) = Cardinality(S)
BY DEF Mocks!Cardinality, Cardinality

(* What the runs check of the recorder follows from its invariant. *)
LEMMA RecorderAgrees ==
  ASSUME NEW CONSTANT c, Mocks(c)!MockAssumption, CountsTyped, RecorderInv(c), NEW S, req \in Seq(CallType(c, S))
  PROVE  Mocks(c)!RecordsThisGeneration
<1> DEFINE newer(r) == {s \in Recorded : s > r}
           E == Mocks(c)!Range(entries)
<1>0. /\ DOMAIN req = 1..Len(req) /\ Len(req) \in Nat /\ c.entries \in Nat /\ Len(entries) \in Nat
      /\ Recorded \subseteq DOMAIN req /\ Counted \subseteq DOMAIN req /\ E \subseteq Recorded
  BY DEF CountsTyped, Recorded, Counted, RecorderInv, Mocks!MockAssumption
<1>1. IsFiniteSet(DOMAIN req) /\ IsFiniteSet(Recorded) /\ IsFiniteSet(E)
  <2>1. IsFiniteSet(DOMAIN req)
    BY <1>0, FS_Interval
  <2>2. IsFiniteSet(Recorded)
    BY <1>0, <2>1, FS_Subset
  <2> QED
    BY <1>0, <2>1, <2>2, FS_Subset
<1>2. ASSUME NEW r \in E
      PROVE  Cardinality(newer(r)) < c.entries
  <2>1. newer(r) \subseteq E
    BY <1>0, <1>2 DEF RecorderInv
  <2>2. newer(r) \subseteq E \ {r}
    BY <1>0, <1>2, <2>1
  <2>3. IsFiniteSet(E \ {r}) /\ Cardinality(E \ {r}) = Cardinality(E) - 1
    BY <1>1, <1>2, FS_RemoveElement
  <2>4. Cardinality(newer(r)) <= Cardinality(E) - 1 /\ Cardinality(newer(r)) \in Nat
    <3>1. Cardinality(newer(r)) <= Cardinality(E \ {r}) /\ IsFiniteSet(newer(r))
      BY <2>2, <2>3, FS_Subset
    <3> QED
      BY <2>3, <3>1, FS_CardinalityType
  <2> HIDE DEF newer
  <2>5. Cardinality(E) = Len(entries) /\ Len(entries) <= c.entries
    BY DEF RecorderInv
  <2> HIDE DEF E
  <2> QED
    BY <1>0, <2>4, <2>5
<1>3. ASSUME NEW r \in Recorded, r \notin E
      PROVE  ~(Cardinality(newer(r)) < c.entries)
  <2>1. E \subseteq newer(r)
    BY <1>0, <1>3 DEF RecorderInv
  <2>2. Len(entries) = c.entries /\ Cardinality(E) = Len(entries)
    BY <1>0, <1>3 DEF RecorderInv
  <2>3. IsFiniteSet(newer(r))
    BY <1>1, FS_Subset
  <2>4. Cardinality(E) <= Cardinality(newer(r)) /\ Cardinality(newer(r)) \in Nat
    BY <2>1, <2>3, FS_Subset, FS_CardinalityType
  <2> HIDE DEF newer, E
  <2> QED
    BY <1>0, <2>2, <2>4
<1>4. E = {r \in Recorded : Cardinality(newer(r)) < c.entries}
  <2> HIDE DEF newer
  <2> QED
    BY <1>0, <1>2, <1>3
<1>5. skipped = Cardinality(Counted) /\ Len(entries) + evicted = Cardinality(Recorded)
  BY DEF RecorderInv
<1>6. /\ Recorded = {r \in DOMAIN req : req[r].pc \in {"recorded"} /\ req[r].generation = generation}
      /\ Counted = {r \in DOMAIN req : req[r].pc \in {"unrecorded", "skipped"} /\ req[r].generation = generation}
  BY DEF Recorded, Counted
<1> HIDE DEF E
<1> QED
  BY <1>4, <1>5, <1>6, MocksCount DEF Mocks!RecordsThisGeneration, E

(* What the runs check of the adapter follows from the invariant. *)
LEMMA MockAgrees ==
  ASSUME NEW CONSTANT c, Mocks(c)!MockAssumption, MockInv(c)
  PROVE  Mocks(c)!CallsAccounted
BY RecorderAgrees DEF MockInv, RulesInv, Mocks!CallsAccounted

(* No rule is registered and no call recorded. *)
LEMMA MockInit ==
  ASSUME NEW CONSTANT c, Mocks(c)!MockAssumption, Mocks(c)!Init
  PROVE  MockInv(c)
<1>1. rules \in Seq(RuleType({})) /\ req \in Seq(CallType(c, {}))
  BY DEF Mocks!Init
<1>2. CountsTyped
  BY DEF Mocks!Init, CountsTyped
<1>3. DOMAIN req = {} /\ DOMAIN rules = {} /\ Mocks(c)!Range(entries) = {} /\ Len(entries) = 0
  BY DEF Mocks!Init, Mocks!Range
<1>4. Recorded = {} /\ Counted = {}
  BY <1>3 DEF Recorded, Counted
<1>5. RecorderInv(c)
  <2>1. Cardinality({}) = 0
    BY FS_EmptySet
  <2>2. entries = <<>> /\ skipped = 0 /\ evicted = 0 /\ c.entries \in Nat
    BY DEF Mocks!Init, Mocks!MockAssumption
  <2>3. DOMAIN entries = {} /\ Len(entries) + evicted = 0
    BY <1>3, <2>2
  <2> QED
    BY <1>3, <1>4, <2>1, <2>2, <2>3 DEF RecorderInv
<1>6. RulesInv(c)
  BY <1>3 DEF RulesInv, Mocks!OnceAnswersOnce
<1> QED
  BY <1>1, <1>2, <1>5, <1>6 DEF MockInv

(* A request is made. *)
LEMMA RecorderAppends ==
  ASSUME NEW CONSTANT c, Mocks(c)!MockAssumption, CountsTyped, RecorderInv(c), NEW S, req \in Seq(CallType(c, S)),
         NEW q \in CallType(c, S),
         req' = Append(req, q), q.id = Len(req) + 1, q.generation = generation, q.pc \in {"mocked", "forwarded", "unrecorded", "failed"},
         UNCHANGED registered,
         \/ q.pc # "unrecorded" /\ UNCHANGED Mocks(c)!Recorder
         \/ q.pc = "unrecorded" /\ Mocks(c)!Skip
  PROVE  RecorderInv(c)' /\ CountsTyped'
<1> DEFINE n == Len(req) + 1
<1>0. /\ DOMAIN req = 1..Len(req) /\ Len(req) \in Nat /\ DOMAIN req' = DOMAIN req \cup {n} /\ n \notin DOMAIN req
      /\ req'[n] = q /\ (\A i \in DOMAIN req : req'[i] = req[i]) /\ UNCHANGED <<entries, evicted, generation>>
      /\ skipped' \in {skipped, skipped + 1} /\ Len(entries) \in Nat
  BY DEF Mocks!Recorder, Mocks!Skip, CountsTyped
<1>1. Recorded' = Recorded
  BY <1>0 DEF Recorded
<1>2. q.pc # "unrecorded" => skipped' = skipped /\ Counted' = Counted
  BY <1>0 DEF Counted, Mocks!Recorder
<1>3. q.pc = "unrecorded" => skipped' = skipped + 1 /\ Counted' = Counted \cup {n}
  BY <1>0 DEF Counted, Mocks!Skip
<1>4. IsFiniteSet(Counted) /\ Cardinality(Counted) \in Nat /\ n \notin Counted
  <2>1. IsFiniteSet(DOMAIN req) /\ Counted \subseteq DOMAIN req
    BY <1>0, FS_Interval DEF Counted
  <2> QED
    BY <1>0, <2>1, FS_Subset, FS_CardinalityType
<1>5. Counted' = Counted \cup {n} => Cardinality(Counted') = Cardinality(Counted) + 1
  BY <1>4, FS_AddElement
<1>6. CountsTyped'
  BY <1>0 DEF CountsTyped
<1>7. skipped' = Cardinality(Counted')
  BY <1>2, <1>3, <1>5 DEF RecorderInv
<1>8. \A i \in DOMAIN req' : req'[i].id = i /\ req'[i].generation <= generation'
  BY <1>0 DEF RecorderInv, CountsTyped
<1> QED
  BY <1>0, <1>1, <1>6, <1>7, <1>8 DEF RecorderInv

(* clear(), also in the middle of a call that ends. *)
LEMMA RecorderClears ==
  ASSUME NEW CONSTANT c, Mocks(c)!MockAssumption, CountsTyped, RecorderInv(c), NEW S, req \in Seq(CallType(c, S)),
         Mocks(c)!Cleared, registered' \in Nat,
         DOMAIN req' = DOMAIN req,
         \A i \in DOMAIN req : req'[i].id = req[i].id /\ req'[i].generation = req[i].generation
  PROVE  RecorderInv(c)' /\ CountsTyped'
<1>0. generation' = generation + 1 /\ entries' = <<>> /\ skipped' = 0 /\ evicted' = 0 /\ registered \in Nat
  BY DEF Mocks!Cleared, CountsTyped
<1>1. \A i \in DOMAIN req : req[i].generation \in Nat /\ req[i].generation <= generation /\ req[i].id = i
  <2>1. ASSUME NEW i \in DOMAIN req
        PROVE  req[i].generation \in Nat
    <3>1. req[i] \in CallType(c, S)
      OBVIOUS
    <3> QED
      BY <3>1 DEF CallType
  <2> QED
    BY <2>1 DEF RecorderInv
<1>2. \A i \in DOMAIN req' : req'[i].generation < generation' /\ req'[i].id = i
  <2>1. \A i \in DOMAIN req : req'[i].generation = req[i].generation /\ req'[i].id = i
    BY <1>1
  <2>2. generation \in Nat
    BY DEF CountsTyped
  <2>3. ASSUME NEW i \in DOMAIN req
        PROVE  req[i].generation < generation'
    BY <1>0, <1>1, <2>2, <2>3
  <2> QED
    BY <2>1, <2>3
<1>3. Recorded' = {} /\ Counted' = {}
  BY <1>0, <1>2 DEF Recorded, Counted, CountsTyped
<1>4. Mocks(c)!Range(entries') = {} /\ Len(entries') = 0 /\ DOMAIN entries' = {}
  BY <1>0 DEF Mocks!Range
<1>5. generation' \in Nat /\ entries' \in Seq(Nat)
  BY <1>0 DEF CountsTyped
<1>6. \A i \in DOMAIN req' : req'[i].generation <= generation'
  BY <1>0, <1>1 DEF CountsTyped
<1>7. RecorderInv(c)'
  <2>1. Cardinality({}) = 0
    BY FS_EmptySet
  <2>2. Cardinality(Mocks(c)!Range(entries')) = 0 /\ Cardinality(Recorded') = 0 /\ Cardinality(Counted') = 0
    <3>1. Cardinality(Mocks(c)!Range(entries')) = 0
      BY <1>4, <2>1, Zenon
    <3>2. Cardinality(Recorded') = 0 /\ Cardinality(Counted') = 0
      BY <1>3, <2>1, Zenon
    <3> QED
      BY <3>1, <3>2
  <2>4. Len(entries') + evicted' = 0 /\ skipped' = 0
    <3>1. evicted' = 0 /\ skipped' = 0 /\ Len(entries') = 0
      BY <1>0, <1>4
    <3> QED
      BY <3>1
  <2>3. c.entries \in Nat
    BY DEF Mocks!MockAssumption
  <2> QED
    BY <1>2, <1>3, <1>4, <1>6, <2>2, <2>3, <2>4 DEF RecorderInv
<1> QED
  BY <1>0, <1>5, <1>7 DEF CountsTyped

(* Range, element by element. *)
LEMMA InRange ==
  ASSUME NEW CONSTANT c, NEW f
  PROVE  \A x : x \in Mocks(c)!Range(f) <=> \E i \in DOMAIN f : f[i] = x
BY DEF Mocks!Range

(* What a call that settles leaves of the requests. *)
Settled(r, p) ==
    /\ DOMAIN req' = DOMAIN req /\ req'[r].pc = p
    /\ \A i \in DOMAIN req : i # r => req'[i] = req[i]
    /\ \A i \in DOMAIN req :
          /\ req'[i].id = req[i].id /\ req'[i].generation = req[i].generation
          /\ req'[i].rule = req[i].rule /\ req'[i].route = req[i].route

(* A call that ends leaves the calls that are open, once. *)
LEMMA SettlesOne ==
  ASSUME NEW CONSTANT c, NEW S, req \in Seq(CallType(c, S)), NEW r \in DOMAIN req,
         NEW p \in {"answered", "failed", "recorded", "skipped"}, Mocks(c)!Settles(r, p)
  PROVE  Settled(r, p) /\ req' \in Seq(CallType(c, S))
<1> DEFINE q == [req[r] EXCEPT !.pc = p]
<1>1. req[r] \in CallType(c, S) /\ req \in [1..Len(req) -> CallType(c, S)] /\ DOMAIN req = 1..Len(req) /\ Len(req) \in Nat
  OBVIOUS
<1>2. q \in CallType(c, S) /\ q.pc = p
  BY <1>1 DEF CallType
<1>3. q.id = req[r].id /\ q.generation = req[r].generation /\ q.rule = req[r].rule /\ q.route = req[r].route
  BY <1>1 DEF CallType
<1>4. req' = [req EXCEPT ![r] = q]
  BY DEF Mocks!Settles
<1> HIDE DEF q
<1>5. DOMAIN req' = DOMAIN req /\ req'[r] = q /\ \A i \in DOMAIN req : i # r => req'[i] = req[i]
  BY <1>4
<1>6. req' \in [1..Len(req) -> CallType(c, S)]
  BY <1>1, <1>2, <1>4
<1>7. req' \in Seq(CallType(c, S))
  BY <1>1, <1>6, SeqDef
<1> QED
  BY <1>2, <1>3, <1>5, <1>7 DEF Settled

(* The oldest capture makes room: the ids stay distinct, and it is the     *)
(* only one that goes.                                                     *)
LEMMA OldestGoes ==
  ASSUME NEW CONSTANT c, NEW all \in Seq(Nat), Len(all) > 0, \A i, j \in DOMAIN all : all[i] = all[j] => i = j
  PROVE  LET m == Mocks(c)!OldestCapture(all)
             rest == Mocks(c)!Without(all, m)
         IN  /\ m \in Mocks(c)!Range(all) /\ \A kept \in Mocks(c)!Range(all) : m <= kept
             /\ rest \in Seq(Nat) /\ Len(rest) = Len(all) - 1 /\ Mocks(c)!Range(rest) = Mocks(c)!Range(all) \ {m}
             /\ \A i, j \in DOMAIN rest : rest[i] = rest[j] => i = j
<1> DEFINE m == Mocks(c)!OldestCapture(all)
           rest == Mocks(c)!Without(all, m)
<1>0. DOMAIN all = 1..Len(all) /\ Len(all) \in Nat /\ \A i \in 1..Len(all) : all[i] \in Nat
  OBVIOUS
<1>1. Mocks(c)!Range(all) \in SUBSET Nat /\ Mocks(c)!Range(all) # {}
  <2>1. \A x \in Mocks(c)!Range(all) : x \in Nat
    BY <1>0, InRange
  <2>2. all[1] \in Mocks(c)!Range(all)
    BY <1>0, InRange
  <2> QED
    BY <2>1, <2>2
<1>2. \E x \in Mocks(c)!Range(all) : \A kept \in Mocks(c)!Range(all) : x <= kept
  BY <1>1, LeastElement
<1>3. m \in Mocks(c)!Range(all) /\ \A kept \in Mocks(c)!Range(all) : m <= kept
  BY <1>2 DEF Mocks!OldestCapture
<1> HIDE DEF m
<1>4. \E i \in DOMAIN all : all[i] = m
  BY <1>3, InRange
<1>5. PICK k \in 1..Len(all) : all[k] = m /\ rest = Cut(all, k)
  BY <1>0, <1>4 DEF Mocks!Without, Mocks!Splice, Cut
<1> HIDE DEF rest
<1>7. /\ rest \in Seq(Nat) /\ Len(rest) = Len(all) - 1
      /\ \A j \in 1..Len(all) - 1 : rest[j] = IF j < k THEN all[j] ELSE all[j + 1]
  BY <1>5, SpliceFacts
<1> DEFINE up(j) == IF j < k THEN j ELSE j + 1
<1>8. DOMAIN rest = 1..Len(all) - 1
  BY <1>0, <1>7
<1>9. \A j \in DOMAIN rest : up(j) \in DOMAIN all /\ up(j) # k /\ rest[j] = all[up(j)]
  <2>1. \A j \in DOMAIN rest : up(j) \in DOMAIN all /\ up(j) # k
    BY <1>0, <1>8
  <2>2. \A j \in DOMAIN rest : rest[j] = all[up(j)]
    BY <1>7, <1>8
  <2> QED
    BY <2>1, <2>2
<1>10. \A i, j \in DOMAIN rest : up(i) = up(j) => i = j
  BY <1>0, <1>8
<1>11. \A i \in DOMAIN all : i # k => \E j \in DOMAIN rest : up(j) = i
  <2>1. ASSUME NEW i \in 1..Len(all), i < k
        PROVE  i \in DOMAIN rest /\ up(i) = i
    BY <1>0, <1>8, <2>1
  <2>2. ASSUME NEW i \in 1..Len(all), i > k
        PROVE  i - 1 \in DOMAIN rest /\ up(i - 1) = i
    BY <1>0, <1>8, <2>2
  <2> QED
    BY <1>0, <2>1, <2>2
<1> HIDE DEF up
<1>12. \A i, j \in DOMAIN rest : rest[i] = rest[j] => i = j
  BY <1>9, <1>10
<1>13. \A x : x \in Mocks(c)!Range(rest) <=> x \in Mocks(c)!Range(all) \ {m}
  <2>1. \A x : x \in Mocks(c)!Range(rest) <=> \E i \in DOMAIN rest : rest[i] = x
    BY InRange
  <2>2. \A x : x \in Mocks(c)!Range(all) <=> \E i \in DOMAIN all : all[i] = x
    BY InRange
  <2>3. \A i \in DOMAIN all : all[i] = m <=> i = k
    BY <1>0, <1>5
  <2> QED
    BY <1>9, <1>11, <2>1, <2>2, <2>3
<1> QED
  BY <1>3, <1>7, <1>12, <1>13 DEF rest, m

(* A call that is recorded. *)
LEMMA RecorderRecords ==
  ASSUME NEW CONSTANT c, Mocks(c)!MockAssumption, CountsTyped, RecorderInv(c), NEW S, req \in Seq(CallType(c, S)),
         NEW r \in DOMAIN req,
         req[r].pc = "forwarded", req[r].generation = generation,
         Settled(r, "recorded"), Mocks(c)!Record(req[r].id), UNCHANGED registered
  PROVE  RecorderInv(c)' /\ CountsTyped'
<1> DEFINE E == Mocks(c)!Range(entries)
           all == Append(entries, r)
<1>0. /\ DOMAIN req = 1..Len(req) /\ Len(req) \in Nat /\ c.entries \in Nat \ {0} /\ Len(entries) \in Nat
      /\ entries \in Seq(Nat) /\ E \subseteq Recorded /\ evicted \in Nat /\ skipped \in Nat /\ req[r].id = r /\ r \in Nat
      /\ DOMAIN entries = 1..Len(entries)
  BY DEF CountsTyped, RecorderInv, Mocks!MockAssumption
<1>1. /\ DOMAIN req' = DOMAIN req /\ req'[r].pc = "recorded" /\ \A i \in DOMAIN req : i # r => req'[i] = req[i]
  BY DEF Settled
<1>2. \A i \in DOMAIN req : req'[i].id = req[i].id /\ req'[i].generation = req[i].generation
  BY DEF Settled
<1>3. UNCHANGED <<skipped, generation>>
  BY DEF Mocks!Record
<1>4. r \notin Recorded /\ r \notin Counted
  BY DEF Recorded, Counted
<1>5. Recorded' = Recorded \cup {r} /\ Counted' = Counted
  BY <1>1, <1>2, <1>3 DEF Recorded, Counted
<1>6. IsFiniteSet(Recorded) /\ IsFiniteSet(Counted) /\ IsFiniteSet(E)
  <2>1. IsFiniteSet(DOMAIN req)
    BY <1>0, FS_Interval
  <2>2. Recorded \subseteq DOMAIN req /\ Counted \subseteq DOMAIN req
    BY DEF Recorded, Counted
  <2>3. IsFiniteSet(Recorded) /\ IsFiniteSet(Counted)
    BY <2>1, <2>2, FS_Subset
  <2> QED
    BY <1>0, <2>3, FS_Subset
<1>7. /\ Cardinality(Recorded') = Cardinality(Recorded) + 1 /\ Cardinality(Recorded) \in Nat
      /\ Cardinality(Counted') = Cardinality(Counted)
  BY <1>4, <1>5, <1>6, FS_AddElement, FS_CardinalityType
<1>8. r \notin E
  BY <1>0, <1>4
<1>9. all \in Seq(Nat) /\ Len(all) = Len(entries) + 1 /\ DOMAIN all = 1..Len(entries) + 1
  BY <1>0
<1>10. all[Len(entries) + 1] = r /\ \A i \in 1..Len(entries) : all[i] = entries[i] /\ all[i] # r
  BY <1>0, <1>8, InRange
<1>11. \A i, j \in DOMAIN all : all[i] = all[j] => i = j
  <2>1. \A i, j \in 1..Len(entries) : entries[i] = entries[j] => i = j
    BY <1>0 DEF RecorderInv
  <2> QED
    BY <1>0, <1>9, <1>10, <2>1
<1>12. Mocks(c)!Range(all) = E \cup {r}
  <2>1. ASSUME NEW i \in DOMAIN all
        PROVE  all[i] \in E \cup {r}
    <3>1. CASE i = Len(entries) + 1
      BY <1>10, <3>1
    <3>2. CASE i \in 1..Len(entries)
      BY <1>0, <1>10, <3>2, InRange
    <3> QED
      BY <1>0, <1>9, <3>1, <3>2
  <2>2. ASSUME NEW x \in E \cup {r}
        PROVE  \E i \in DOMAIN all : all[i] = x
    <3>1. CASE x = r
      <4>1. Len(entries) + 1 \in DOMAIN all
        BY <1>0, <1>9
      <4> QED
        BY <1>10, <3>1, <4>1
    <3>2. CASE x \in E
      <4>1. PICK i \in 1..Len(entries) : entries[i] = x
        BY <1>0, <3>2, InRange
      <4>2. i \in DOMAIN all
        BY <1>0, <1>9
      <4> QED
        BY <1>10, <4>1, <4>2
    <3> QED
      BY <3>1, <3>2
  <2>3. \A x : x \in Mocks(c)!Range(all) <=> x \in E \cup {r}
    <3> HIDE DEF all, E
    <3>1. \A x : x \in Mocks(c)!Range(all) <=> \E i \in DOMAIN all : all[i] = x
      BY InRange
    <3> QED
      BY <2>1, <2>2, <3>1
  <2> QED
    BY <2>3
<1>13. Cardinality(Mocks(c)!Range(all)) = Len(all) /\ IsFiniteSet(Mocks(c)!Range(all))
  <2>1. Cardinality(E) = Len(entries)
    BY DEF RecorderInv
  <2> HIDE DEF E, all
  <2> QED
    BY <1>6, <1>8, <1>9, <1>12, <2>1, FS_AddElement
<1>14. \A i \in DOMAIN req' : req'[i].id = i /\ req'[i].generation <= generation'
  BY <1>1, <1>2, <1>3 DEF RecorderInv
<1>15. /\ Len(entries) <= c.entries /\ (Len(entries) < c.entries => E = Recorded)
       /\ (\A s \in Recorded \ E : \A e \in E : s < e)
       /\ Len(entries) + evicted = Cardinality(Recorded) /\ skipped = Cardinality(Counted)
  BY DEF RecorderInv
<1>16. Mocks(c)!Record(r)
  BY <1>0
<1>17. CASE Len(entries) < c.entries
  <2>1. entries' = all /\ evicted' = evicted
    BY <1>0, <1>9, <1>16, <1>17 DEF Mocks!Record
  <2>2. Mocks(c)!Range(entries') = Recorded'
    BY <1>5, <1>12, <1>15, <1>17, <2>1
  <2>3. Mocks(c)!Range(entries') = Mocks(c)!Range(all) /\ DOMAIN entries' = DOMAIN all /\ Len(entries') = Len(entries) + 1
    BY <1>9, <2>1
  <2> HIDE DEF all, E
  <2>4. /\ Len(entries') <= c.entries /\ Len(entries') + evicted' = Cardinality(Recorded')
        /\ skipped' = Cardinality(Counted')
    BY <1>0, <1>3, <1>7, <1>15, <1>17, <2>1, <2>3
  <2>5. \A i, j \in DOMAIN entries' : entries'[i] = entries'[j] => i = j
    BY <1>11, <2>1
  <2>6. Cardinality(Mocks(c)!Range(entries')) = Len(entries')
    BY <1>13, <2>1
  <2>7. RecorderInv(c)'
    BY <1>14, <2>2, <2>4, <2>5, <2>6 DEF RecorderInv
  <2>8. CountsTyped'
    BY <1>3, <1>9, <2>1 DEF CountsTyped
  <2> QED
    BY <2>7, <2>8
<1>18. CASE Len(entries) = c.entries
  <2> DEFINE m == Mocks(c)!OldestCapture(all)
             rest == Mocks(c)!Without(all, m)
  <2>1. entries' = rest /\ evicted' = evicted + 1
    BY <1>0, <1>9, <1>16, <1>18 DEF Mocks!Record
  <2> HIDE DEF all, E
  <2>2. /\ m \in Mocks(c)!Range(all) /\ (\A kept \in Mocks(c)!Range(all) : m <= kept)
        /\ rest \in Seq(Nat) /\ Len(rest) = Len(all) - 1 /\ Mocks(c)!Range(rest) = Mocks(c)!Range(all) \ {m}
        /\ \A i, j \in DOMAIN rest : rest[i] = rest[j] => i = j
    <3>1. Len(all) > 0
      BY <1>0, <1>9
    <3> QED
      BY <1>9, <1>11, <3>1, OldestGoes
  <2> HIDE DEF m, rest
  <2>3. Cardinality(Mocks(c)!Range(rest)) = Len(rest)
    BY <1>9, <1>13, <2>2, FS_RemoveElement
  <2>4. Len(entries') = c.entries
    BY <1>0, <1>9, <1>18, <2>1, <2>2
  <2>5. Mocks(c)!Range(entries') \subseteq Recorded'
    BY <1>0, <1>5, <1>12, <2>1, <2>2 DEF E
  <2>6. ASSUME NEW s \in Recorded' \ Mocks(c)!Range(entries'), NEW e \in Mocks(c)!Range(entries')
        PROVE  s < e
    <3>0. e \in Mocks(c)!Range(all) /\ e # m /\ Recorded \subseteq Nat /\ m <= e /\ e \in Nat /\ m \in Nat /\ s \in Nat
      <4>1. Recorded \subseteq Nat /\ E \subseteq Nat
        BY <1>0 DEF Recorded, E
      <4> QED
        BY <1>0, <1>5, <1>12, <2>1, <2>2, <4>1
    <3>1. CASE s = m
      BY <3>0, <3>1
    <3>2. CASE s # m
      <4>1. s \in Recorded \ E
        BY <1>5, <1>12, <2>1, <2>2, <3>2
      <4>2. CASE e \in E
        BY <1>15, <4>1, <4>2
      <4>3. CASE e = r
        <5>1. m \in E
          BY <1>12, <2>2, <3>0, <4>3
        <5>2. s < m
          BY <1>15, <4>1, <5>1
        <5> QED
          BY <3>0, <5>2
      <4> QED
        BY <1>12, <3>0, <4>2, <4>3
    <3> QED
      BY <3>1, <3>2
  <2>7. /\ Len(entries') + evicted' = Cardinality(Recorded')
        /\ skipped' = Cardinality(Counted')
    <3>1. Len(entries) + evicted = Cardinality(Recorded) /\ skipped = Cardinality(Counted)
      BY <1>15
    <3>2. Len(entries') = Len(entries) /\ evicted' = evicted + 1 /\ skipped' = skipped
      BY <1>3, <1>18, <2>1, <2>4
    <3> QED
      BY <1>0, <1>7, <3>1, <3>2
  <2>8. \A i, j \in DOMAIN entries' : entries'[i] = entries'[j] => i = j
    BY <2>1, <2>2
  <2>9. Cardinality(Mocks(c)!Range(entries')) = Len(entries') /\ Len(entries') <= c.entries /\ ~(Len(entries') < c.entries)
    BY <1>0, <2>1, <2>3, <2>4
  <2>10. RecorderInv(c)'
    <3>1. \A s \in Recorded' \ Mocks(c)!Range(entries') : \A e \in Mocks(c)!Range(entries') : s < e
      BY <2>6
    <3>2. Len(entries') < c.entries => Mocks(c)!Range(entries') = Recorded'
      BY <2>9
    <3> QED
      BY <1>14, <2>5, <2>7, <2>8, <2>9, <3>1, <3>2 DEF RecorderInv
  <2>11. CountsTyped'
    BY <1>0, <1>3, <2>1, <2>2 DEF CountsTyped
  <2> QED
    BY <2>10, <2>11
<1> QED
  <2>1. Len(entries) <= c.entries /\ Len(entries) \in Nat /\ c.entries \in Nat
    BY <1>0, <1>15
  <2> QED
    BY <1>17, <1>18, <2>1

(* What the rules and the calls hold, field by field. *)
LEMMA RulesAreTyped ==
  ASSUME NEW CONSTANT c, NEW S, rules \in Seq(RuleType(S)), req \in Seq(CallType(c, S))
  PROVE  /\ DOMAIN rules = 1..Len(rules) /\ Len(rules) \in Nat /\ DOMAIN req = 1..Len(req) /\ Len(req) \in Nat
         /\ \A n \in DOMAIN rules : rules[n].id \in Nat
         /\ \A i \in DOMAIN req : req[i].rule # None => req[i].rule.id \in Nat
<1>1. DOMAIN rules = 1..Len(rules) /\ Len(rules) \in Nat /\ DOMAIN req = 1..Len(req) /\ Len(req) \in Nat
  OBVIOUS
<1>2. ASSUME NEW n \in DOMAIN rules
      PROVE  rules[n].id \in Nat
  <2>1. rules[n] \in RuleType(S)
    OBVIOUS
  <2> QED
    BY <2>1 DEF RuleType
<1>3. ASSUME NEW i \in DOMAIN req, req[i].rule # None
      PROVE  req[i].rule.id \in Nat
  <2>1. req[i] \in CallType(c, S)
    OBVIOUS
  <2>2. req[i].rule \in RuleType(S)
    BY <1>3, <2>1 DEF CallType
  <2> QED
    BY <2>2 DEF RuleType
<1> QED
  BY <1>1, <1>2, <1>3

(* The routes of the rules may grow. *)
LEMMA TypesGrow ==
  ASSUME NEW CONSTANT c, NEW S, NEW T, S \subseteq T
  PROVE  Seq(RuleType(S)) \subseteq Seq(RuleType(T)) /\ Seq(CallType(c, S)) \subseteq Seq(CallType(c, T))
<1>1. RuleType(S) \subseteq RuleType(T) /\ CallType(c, S) \subseteq CallType(c, T)
  BY DEF RuleType, CallType
<1>2. ASSUME NEW A, NEW B, A \subseteq B, NEW s \in Seq(A)
      PROVE  s \in Seq(B)
  <2>1. Len(s) \in Nat /\ s \in [1..Len(s) -> B]
    BY <1>2
  <2> QED
    BY <2>1, SeqDef
<1> QED
  BY <1>1, <1>2

(* A call that settles without being recorded, and without being counted. *)
LEMMA RecorderKept ==
  ASSUME NEW CONSTANT c, CountsTyped, RecorderInv(c), UNCHANGED <<Mocks(c)!Recorder, registered>>, NEW r \in DOMAIN req,
         \/ req[r].pc \in {"mocked", "forwarded"} /\ (Settled(r, "answered") \/ Settled(r, "failed"))
         \/ req[r].pc = "unrecorded" /\ Settled(r, "skipped")
  PROVE  RecorderInv(c)' /\ CountsTyped'
<1>1. UNCHANGED <<entries, skipped, evicted, generation, registered>>
  BY DEF Mocks!Recorder
<1>2. /\ req[r].pc # "recorded" /\ req'[r].pc # "recorded"
      /\ (req[r].pc \in {"unrecorded", "skipped"} <=> req'[r].pc \in {"unrecorded", "skipped"})
  BY DEF Settled
<1>3. /\ DOMAIN req' = DOMAIN req /\ (\A i \in DOMAIN req : i # r => req'[i] = req[i])
      /\ \A i \in DOMAIN req : req'[i].id = req[i].id /\ req'[i].generation = req[i].generation
  BY DEF Settled
<1>4. Recorded' = Recorded
  BY <1>1, <1>2, <1>3 DEF Recorded
<1>5. Counted' = Counted
  BY <1>1, <1>2, <1>3 DEF Counted
<1>6. CountsTyped'
  BY <1>1 DEF CountsTyped
<1>7. \A i \in DOMAIN req' : req'[i].id = i /\ req'[i].generation <= generation'
  BY <1>1, <1>3 DEF RecorderInv
<1> QED
  BY <1>1, <1>4, <1>5, <1>6, <1>7 DEF RecorderInv

(* A call that is skipped. *)
LEMMA RecorderSkips ==
  ASSUME NEW CONSTANT c, CountsTyped, RecorderInv(c), Mocks(c)!Skip, UNCHANGED registered, NEW S,
         req \in Seq(CallType(c, S)), NEW r \in DOMAIN req,
         Settled(r, "skipped"), req[r].pc = "forwarded", req[r].generation = generation
  PROVE  RecorderInv(c)' /\ CountsTyped'
<1>1. UNCHANGED <<entries, evicted, generation, registered>> /\ skipped' = skipped + 1
  BY DEF Mocks!Skip
<1>2. req[r].pc # "recorded" /\ req'[r].pc = "skipped"
  BY DEF Settled
<1>3. /\ DOMAIN req' = DOMAIN req /\ (\A i \in DOMAIN req : i # r => req'[i] = req[i])
      /\ \A i \in DOMAIN req : req'[i].id = req[i].id /\ req'[i].generation = req[i].generation
  BY DEF Settled
<1>4. Recorded' = Recorded
  BY <1>1, <1>2, <1>3 DEF Recorded
<1>5. Counted' = Counted \cup {r} /\ r \notin Counted
  BY <1>1, <1>2, <1>3 DEF Counted
<1>6. Cardinality(Counted') = Cardinality(Counted) + 1 /\ Cardinality(Counted) \in Nat
  <2>1. DOMAIN req = 1..Len(req) /\ Len(req) \in Nat /\ Counted \subseteq DOMAIN req
    BY DEF Counted
  <2>2. IsFiniteSet(1..Len(req))
    BY <2>1, FS_Interval
  <2>3. IsFiniteSet(Counted)
    BY <2>1, <2>2, FS_Subset
  <2> QED
    BY <1>5, <2>3, FS_AddElement, FS_CardinalityType
<1>7. CountsTyped'
  BY <1>1 DEF CountsTyped
<1>8. \A i \in DOMAIN req' : req'[i].id = i /\ req'[i].generation <= generation'
  BY <1>1, <1>3 DEF RecorderInv
<1>9. skipped' = Cardinality(Counted')
  BY <1>1, <1>6 DEF RecorderInv
<1> QED
  BY <1>1, <1>4, <1>7, <1>8, <1>9 DEF RecorderInv

(* respond() and the forwarded request that comes back. *)
LEMMA RecorderSettles ==
  ASSUME NEW CONSTANT c, Mocks(c)!MockAssumption, CountsTyped, RecorderInv(c), NEW S, req \in Seq(CallType(c, S)),
         NEW r \in DOMAIN req,
         Mocks(c)!Answer(r) \/ Mocks(c)!Return(r)
  PROVE  /\ RecorderInv(c)' /\ CountsTyped' /\ req' \in Seq(CallType(c, S)) /\ UNCHANGED <<rules, registered>>
         /\ \E p \in {"answered", "failed", "recorded", "skipped"} : Settled(r, p)
<1>0. UNCHANGED <<rules, registered>> /\ req[r].id = r /\ registered \in Nat
  BY DEF Mocks!Answer, Mocks!Return, RecorderInv, CountsTyped
<1>1. CASE Mocks(c)!Answer(r)
  <2>1. PICK p \in {"answered", "failed"} : Mocks(c)!Settles(r, p) /\ UNCHANGED Mocks(c)!Recorder /\ req[r].pc = "mocked"
    BY <1>1 DEF Mocks!Answer
  <2>2. Settled(r, p) /\ req' \in Seq(CallType(c, S))
    BY <2>1, SettlesOne
  <2>3. RecorderInv(c)' /\ CountsTyped'
    BY <1>0, <2>1, <2>2, RecorderKept
  <2> QED
    BY <1>0, <2>2, <2>3
<1>4. CASE Mocks(c)!Return(r) /\ req[r].pc = "unrecorded"
  <2>1. Mocks(c)!Settles(r, "skipped") /\ UNCHANGED Mocks(c)!Recorder
    BY <1>4 DEF Mocks!Return
  <2>2. Settled(r, "skipped") /\ req' \in Seq(CallType(c, S))
    BY <2>1, SettlesOne
  <2>3. RecorderInv(c)' /\ CountsTyped'
    BY <1>0, <1>4, <2>1, <2>2, RecorderKept
  <2> QED
    BY <1>0, <2>2, <2>3
<1>2. CASE Mocks(c)!Return(r) /\ req[r].pc = "forwarded" /\ req[r].generation # generation
  <2>1. Mocks(c)!Settles(r, "failed") /\ UNCHANGED Mocks(c)!Recorder /\ req[r].pc = "forwarded"
    BY <1>2 DEF Mocks!Return
  <2>2. Settled(r, "failed") /\ req' \in Seq(CallType(c, S))
    BY <2>1, SettlesOne
  <2>3. RecorderInv(c)' /\ CountsTyped'
    BY <1>0, <1>2, <2>1, <2>2, RecorderKept
  <2> QED
    BY <1>0, <2>2, <2>3
<1>3. CASE Mocks(c)!Return(r) /\ req[r].pc = "forwarded" /\ req[r].generation = generation
  <2>0. /\ req[r].pc = "forwarded"
        /\ \/ Mocks(c)!Settles(r, "recorded") /\ Mocks(c)!Record(req[r].id)
           \/ Mocks(c)!Settles(r, "skipped") /\ Mocks(c)!Skip
           \/ Mocks(c)!Settles(r, "failed") /\ Mocks(c)!Cleared
    BY <1>3 DEF Mocks!Return
  <2>1. CASE Mocks(c)!Settles(r, "recorded") /\ Mocks(c)!Record(req[r].id)
    <3>1. Settled(r, "recorded") /\ req' \in Seq(CallType(c, S))
      BY <2>1, SettlesOne
    <3>2. RecorderInv(c)' /\ CountsTyped'
      BY <1>0, <1>3, <2>0, <2>1, <3>1, RecorderRecords
    <3> QED
      BY <1>0, <3>1, <3>2
  <2>2. CASE Mocks(c)!Settles(r, "skipped") /\ Mocks(c)!Skip
    <3>1. Settled(r, "skipped") /\ req' \in Seq(CallType(c, S))
      BY <2>2, SettlesOne
    <3>2. RecorderInv(c)' /\ CountsTyped'
      BY <1>0, <1>3, <2>0, <2>2, <3>1, RecorderSkips
    <3> QED
      BY <1>0, <3>1, <3>2
  <2>3. CASE Mocks(c)!Settles(r, "failed") /\ Mocks(c)!Cleared
    <3>1. Settled(r, "failed") /\ req' \in Seq(CallType(c, S))
      BY <2>3, SettlesOne
    <3>2. DOMAIN req' = DOMAIN req /\ \A i \in DOMAIN req : req'[i].id = req[i].id /\ req'[i].generation = req[i].generation
      BY <3>1 DEF Settled
    <3>3. registered' \in Nat
      BY <1>0
    <3>4. RecorderInv(c)' /\ CountsTyped'
      BY <2>3, <3>2, <3>3, RecorderClears
    <3> QED
      BY <1>0, <3>1, <3>4
  <2> QED
    BY <2>0, <2>1, <2>2, <2>3
<1>5. Mocks(c)!Return(r) => req[r].pc \in {"unrecorded", "forwarded"}
  BY DEF Mocks!Return
<1> QED
  BY <1>1, <1>2, <1>3, <1>4, <1>5

(* Rules are added behind the ones there are, with ids never given before. *)
RulesGrow(k) ==
    /\ Len(rules') = Len(rules) + k /\ DOMAIN rules' = 1..Len(rules) + k
    /\ \A n \in 1..Len(rules) : rules'[n] = rules[n]
    /\ \A n \in 1..k : rules'[Len(rules) + n].id = registered + n - 1

(* A rule is registered after those that are there. *)
LEMMA RulesAppended ==
  ASSUME NEW CONSTANT c, CountsTyped, RulesInv(c), NEW S, rules \in Seq(RuleType(S)), req \in Seq(CallType(c, S)),
         NEW k \in Nat, RulesGrow(k), registered' = registered + k, UNCHANGED req
  PROVE  RulesInv(c)'
<1>0. /\ DOMAIN rules = 1..Len(rules) /\ Len(rules) \in Nat /\ registered \in Nat
      /\ \A n \in DOMAIN rules : rules[n].id \in Nat
      /\ \A i \in DOMAIN req : req[i].rule # None => req[i].rule.id \in Nat
  BY RulesAreTyped DEF CountsTyped
<1>1. /\ DOMAIN rules' = 1..Len(rules) + k
      /\ \A n \in 1..Len(rules) : rules'[n] = rules[n]
  BY DEF RulesGrow
<1>2. ASSUME NEW n \in DOMAIN rules', n > Len(rules)
      PROVE  rules'[n].id = registered + (n - Len(rules)) - 1
  <2>1. n - Len(rules) \in 1..k /\ Len(rules) + (n - Len(rules)) = n
    BY <1>0, <1>1, <1>2
  <2> QED
    BY <2>1 DEF RulesGrow
<1>3. /\ \A m, n \in DOMAIN rules : m < n => rules[m].id < rules[n].id
      /\ \A n \in DOMAIN rules : rules[n].id < registered
  BY DEF RulesInv
<1>4. \A n \in DOMAIN rules' : n \in DOMAIN rules \/ n > Len(rules)
  BY <1>0, <1>1
<1>5. ASSUME NEW m \in DOMAIN rules', NEW n \in DOMAIN rules', m < n
      PROVE  rules'[m].id < rules'[n].id
  <2>1. CASE n \in DOMAIN rules
    <3>1. m \in DOMAIN rules
      BY <1>0, <1>1, <1>5, <2>1
    <3> QED
      BY <1>0, <1>1, <1>3, <1>5, <2>1, <3>1
  <2>2. CASE n > Len(rules) /\ m \in DOMAIN rules
    <3>1. rules'[m].id = rules[m].id /\ rules[m].id \in Nat /\ rules[m].id < registered
      BY <1>0, <1>1, <1>3, <2>2
    <3>2. rules'[n].id = registered + (n - Len(rules)) - 1 /\ n \in Nat
      BY <1>0, <1>1, <1>2, <2>2
    <3> QED
      BY <1>0, <2>2, <3>1, <3>2
  <2>3. CASE n > Len(rules) /\ m > Len(rules)
    <3>1. /\ rules'[n].id = registered + (n - Len(rules)) - 1 /\ n \in Nat
          /\ rules'[m].id = registered + (m - Len(rules)) - 1 /\ m \in Nat
      BY <1>0, <1>1, <1>2, <2>3
    <3> QED
      BY <1>0, <1>5, <3>1
  <2> QED
    BY <1>4, <2>1, <2>2, <2>3
<1>6. ASSUME NEW n \in DOMAIN rules'
      PROVE  rules'[n].id < registered' /\ (n \notin DOMAIN rules => rules'[n].id >= registered /\ rules'[n].id \in Nat)
  <2>1. CASE n \in DOMAIN rules
    <3>1. rules'[n].id = rules[n].id /\ rules[n].id \in Nat /\ rules[n].id < registered
      BY <1>0, <1>1, <1>3, <2>1
    <3> QED
      BY <1>0, <2>1, <3>1
  <2>2. CASE n > Len(rules)
    <3>1. rules'[n].id = registered + (n - Len(rules)) - 1 /\ n \in Nat /\ n <= Len(rules) + k
      BY <1>0, <1>1, <1>2, <2>2
    <3> QED
      BY <1>0, <2>2, <3>1
  <2> QED
    BY <1>4, <2>1, <2>2
<1>7. ASSUME NEW i \in DOMAIN req', req'[i].rule # None
      PROVE  /\ req'[i].rule.id < registered'
             /\ \A n \in DOMAIN rules' :
                   /\ rules'[n].route = req'[i].route => req'[i].rule.id <= rules'[n].id
                   /\ req'[i].rule.once => rules'[n].id # req'[i].rule.id
  <2>1. /\ req'[i] = req[i] /\ i \in DOMAIN req /\ req[i].rule.id \in Nat /\ req[i].rule.id < registered
        /\ \A n \in DOMAIN rules :
              /\ rules[n].route = req[i].route => req[i].rule.id <= rules[n].id
              /\ req[i].rule.once => rules[n].id # req[i].rule.id
    BY <1>0, <1>7 DEF RulesInv
  <2>2. ASSUME NEW n \in DOMAIN rules'
        PROVE  /\ rules'[n].route = req'[i].route => req'[i].rule.id <= rules'[n].id
               /\ req'[i].rule.once => rules'[n].id # req'[i].rule.id
    <3>1. CASE n \in DOMAIN rules
      BY <1>0, <1>1, <2>1, <3>1
    <3>2. CASE n \notin DOMAIN rules
      BY <1>0, <1>6, <2>1, <3>2
    <3> QED
      BY <3>1, <3>2
  <2>3. req'[i].rule.id < registered'
    BY <1>0, <2>1
  <2> QED
    BY <2>2, <2>3
<1>8. Mocks(c)!OnceAnswersOnce'
  <2>1. Mocks(c)!OnceAnswersOnce /\ UNCHANGED req
    BY DEF RulesInv
  <2> QED
    BY <1>7, <2>1 DEF Mocks!OnceAnswersOnce
<1> QED
  BY <1>5, <1>6, <1>7, <1>8 DEF RulesInv

(* Rules are taken away, or calls settle: nothing new to compare. *)
LEMMA RulesShrink ==
  ASSUME NEW CONSTANT c, RulesInv(c), UNCHANGED registered, DOMAIN req' = DOMAIN req,
         \A i \in DOMAIN req : req'[i].rule = req[i].rule /\ req'[i].route = req[i].route,
         UNCHANGED rules \/ DOMAIN rules' = {}
  PROVE  RulesInv(c)'
<1>1. CASE UNCHANGED rules
  <2>1. Mocks(c)!OnceAnswersOnce'
    BY <1>1 DEF RulesInv, Mocks!OnceAnswersOnce
  <2> QED
    BY <1>1, <2>1 DEF RulesInv
<1>2. CASE DOMAIN rules' = {}
  <2>1. Mocks(c)!OnceAnswersOnce'
    BY <1>2 DEF RulesInv, Mocks!OnceAnswersOnce
  <2> QED
    BY <1>2, <2>1 DEF RulesInv
<1> QED
  BY <1>1, <1>2

(* A call that no rule answers. *)
LEMMA RulesPass ==
  ASSUME NEW CONSTANT c, RulesInv(c), NEW S, req \in Seq(CallType(c, S)), UNCHANGED <<rules, registered>>,
         NEW q, req' = Append(req, q), q.rule = None
  PROVE  RulesInv(c)'
<1> DEFINE n == Len(req) + 1
<1>0. /\ DOMAIN req = 1..Len(req) /\ Len(req) \in Nat /\ DOMAIN req' = DOMAIN req \cup {n} /\ n \notin DOMAIN req
      /\ req'[n] = q /\ \A i \in DOMAIN req : req'[i] = req[i]
  OBVIOUS
<1> HIDE DEF n
<1>1. \A i \in DOMAIN req' : req'[i].rule # None => i \in DOMAIN req /\ req'[i] = req[i]
  BY <1>0
<1>2. Mocks(c)!OnceAnswersOnce'
  <2>1. Mocks(c)!OnceAnswersOnce
    BY DEF RulesInv
  <2> QED
    BY <1>1, <2>1 DEF Mocks!OnceAnswersOnce
<1> QED
  BY <1>1, <1>2 DEF RulesInv

(* A rule that is used up leaves the others in their order. *)
LEMMA OthersRemain ==
  ASSUME NEW CONSTANT c, RulesInv(c), NEW S, rules \in Seq(RuleType(S)), NEW f \in DOMAIN rules, rules' = Mocks(c)!UsedUp(f)
  PROVE  /\ rules' \in Seq(RuleType(S))
         /\ \A m, n \in DOMAIN rules' : m < n => rules'[m].id < rules'[n].id
         /\ \A n \in DOMAIN rules' : \E i \in DOMAIN rules : rules'[n] = rules[i] /\ (rules[f].once => i # f)
<1>0. DOMAIN rules = 1..Len(rules) /\ Len(rules) \in Nat /\ f \in 1..Len(rules)
  OBVIOUS
<1>1. \A m, n \in DOMAIN rules : m < n => rules[m].id < rules[n].id
  BY DEF RulesInv
<1>2. CASE ~rules[f].once
  <2>1. rules' = rules
    BY <1>2 DEF Mocks!UsedUp
  <2> QED
    BY <1>1, <1>2, <2>1
<1>3. CASE rules[f].once
  <2>0. rules' = Cut(rules, f)
    BY <1>3 DEF Mocks!UsedUp, Mocks!Splice, Cut
  <2>1. /\ rules' \in Seq(RuleType(S)) /\ Len(rules') = Len(rules) - 1
        /\ \A j \in 1..Len(rules) - 1 : rules'[j] = IF j < f THEN rules[j] ELSE rules[j + 1]
    BY <1>0, <2>0, SpliceFacts
  <2>2. DOMAIN rules' = 1..Len(rules) - 1
    BY <1>0, <2>1
  <2> DEFINE up(j) == IF j < f THEN j ELSE j + 1
  <2>3. \A j \in DOMAIN rules' : up(j) \in DOMAIN rules /\ up(j) # f /\ rules'[j] = rules[up(j)]
    BY <1>0, <2>1, <2>2
  <2>4. \A m, n \in DOMAIN rules' : m < n => up(m) < up(n)
    BY <1>0, <2>2
  <2> HIDE DEF up
  <2> QED
    BY <1>1, <2>1, <2>3, <2>4
<1> QED
  BY <1>2, <1>3

(* A call that a rule answers. *)
LEMMA RulesAnswer ==
  ASSUME NEW CONSTANT c, CountsTyped, RulesInv(c), NEW S, rules \in Seq(RuleType(S)), req \in Seq(CallType(c, S)),
         UNCHANGED registered,
         NEW route, Mocks(c)!Matching(route) # {}, rules' = Mocks(c)!UsedUp(Mocks(c)!First(route)),
         NEW q, req' = Append(req, q), q.rule = rules[Mocks(c)!First(route)], q.route = route
  PROVE  RulesInv(c)'
<1> DEFINE n == Len(req) + 1
           f == Mocks(c)!First(route)
<1>0. /\ DOMAIN req = 1..Len(req) /\ Len(req) \in Nat /\ DOMAIN req' = DOMAIN req \cup {n} /\ n \notin DOMAIN req
      /\ req'[n] = q /\ (\A i \in DOMAIN req : req'[i] = req[i] /\ i < n) /\ n \in Nat /\ DOMAIN req \subseteq Nat
  OBVIOUS
<1>1. /\ DOMAIN rules = 1..Len(rules) /\ Len(rules) \in Nat /\ registered \in Nat
      /\ \A m \in DOMAIN rules : rules[m].id \in Nat
      /\ \A i \in DOMAIN req : req[i].rule # None => req[i].rule.id \in Nat
  BY RulesAreTyped DEF CountsTyped
<1>2. \E x \in Mocks(c)!Matching(route) : \A y \in Mocks(c)!Matching(route) : x <= y
  <2>1. Mocks(c)!Matching(route) \in SUBSET Nat
    BY <1>1 DEF Mocks!Matching
  <2> QED
    BY <2>1, LeastElement
<1>3. f \in Mocks(c)!Matching(route) /\ \A y \in Mocks(c)!Matching(route) : f <= y
  BY <1>2 DEF Mocks!First
<1>4. f \in DOMAIN rules /\ rules[f].route = route
  BY <1>3 DEF Mocks!Matching
<1> HIDE DEF f, n
<1>5. ASSUME NEW m \in DOMAIN rules, rules[m].route = route
      PROVE  rules[f].id <= rules[m].id
  <2>1. f <= m
    BY <1>3, <1>5 DEF Mocks!Matching
  <2>2. f = m \/ f < m
    BY <1>1, <1>4, <2>1
  <2>3. f < m => rules[f].id < rules[m].id
    BY <1>4 DEF RulesInv
  <2> QED
    BY <1>1, <1>4, <2>2, <2>3
<1>6. /\ \A m, k \in DOMAIN rules' : m < k => rules'[m].id < rules'[k].id
      /\ \A m \in DOMAIN rules' : \E i \in DOMAIN rules : rules'[m] = rules[i] /\ (rules[f].once => i # f)
  BY <1>4, OthersRemain DEF f
<1>7. \A i \in DOMAIN rules : i # f => rules[i].id # rules[f].id
  <2>1. ASSUME NEW i \in DOMAIN rules, i # f
        PROVE  rules[i].id # rules[f].id
    <3>1. i < f \/ f < i
      BY <1>1, <1>4, <2>1
    <3>2. (i < f => rules[i].id < rules[f].id) /\ (f < i => rules[f].id < rules[i].id)
      BY <1>4 DEF RulesInv
    <3> QED
      BY <1>1, <1>4, <3>1, <3>2
  <2> QED
    BY <2>1
<1>8. \A m \in DOMAIN rules : rules[m].id < registered
  BY DEF RulesInv
<1>9. q.rule = rules[f] /\ q.route = route
  BY DEF f
<1>10. ASSUME NEW m \in DOMAIN rules'
       PROVE  /\ rules'[m].route = route => rules[f].id <= rules'[m].id
              /\ rules[f].once => rules'[m].id # rules[f].id
  <2>1. PICK i \in DOMAIN rules : rules'[m] = rules[i] /\ (rules[f].once => i # f)
    BY <1>6
  <2> QED
    BY <1>5, <1>7, <2>1
<1>11. ASSUME NEW i \in DOMAIN req, req[i].rule # None
       PROVE  /\ req[i].rule.id < registered
              /\ \A m \in DOMAIN rules :
                    /\ rules[m].route = req[i].route => req[i].rule.id <= rules[m].id
                    /\ req[i].rule.once => rules[m].id # req[i].rule.id
  BY <1>11 DEF RulesInv
<1>12. ASSUME NEW i \in DOMAIN req, req[i].rule # None, NEW m \in DOMAIN rules'
       PROVE  /\ rules'[m].route = req[i].route => req[i].rule.id <= rules'[m].id
              /\ req[i].rule.once => rules'[m].id # req[i].rule.id
  <2>1. PICK j \in DOMAIN rules : rules'[m] = rules[j]
    BY <1>6
  <2> QED
    BY <1>11, <1>12, <2>1
<1>13. ASSUME NEW i \in DOMAIN req'
       PROVE  (i \in DOMAIN req /\ req'[i] = req[i]) \/ (i = n /\ req'[i] = q)
  <2>1. CASE i \in DOMAIN req
    BY <1>0, <2>1
  <2>2. CASE i \notin DOMAIN req
    <3>1. i = n
      BY <1>0, <2>2
    <3> QED
      BY <1>0, <3>1
  <2> QED
    BY <2>1, <2>2
<1>14. ASSUME NEW i \in DOMAIN req', req'[i].rule # None
       PROVE  /\ req'[i].rule.id < registered'
              /\ \A m \in DOMAIN rules' :
                    /\ rules'[m].route = req'[i].route => req'[i].rule.id <= rules'[m].id
                    /\ req'[i].rule.once => rules'[m].id # req'[i].rule.id
  <2>1. CASE i \in DOMAIN req /\ req'[i] = req[i]
    BY <1>11, <1>12, <1>14, <2>1
  <2>2. CASE i = n /\ req'[i] = q
    BY <1>4, <1>8, <1>9, <1>10, <2>2
  <2> QED
    BY <1>13, <2>1, <2>2
<1>15. Mocks(c)!OnceAnswersOnce'
  <2>1. SUFFICES ASSUME NEW i \in DOMAIN req', NEW j \in DOMAIN req', i < j, req'[i].rule # None, req'[j].rule # None,
                        req'[i].route = req'[j].route, req'[i].rule.once
                 PROVE  /\ req'[i].rule.id < req'[j].rule.id
                        /\ \A m \in DOMAIN rules' : rules'[m].id # req'[i].rule.id
    BY DEF Mocks!OnceAnswersOnce
  <2>2. \A m \in DOMAIN rules' : rules'[m].id # req'[i].rule.id
    BY <1>14, <2>1
  <2>3. i \in DOMAIN req /\ req'[i] = req[i]
    BY <1>0, <1>13, <2>1
  <2>4. CASE j \in DOMAIN req /\ req'[j] = req[j]
    BY <2>1, <2>2, <2>3, <2>4 DEF RulesInv, Mocks!OnceAnswersOnce
  <2>5. CASE j = n /\ req'[j] = q
    <3>1. req[i].rule.id <= rules[f].id /\ rules[f].id # req[i].rule.id
      BY <1>4, <1>9, <1>11, <2>1, <2>3, <2>5
    <3>2. req[i].rule.id \in Nat /\ rules[f].id \in Nat
      BY <1>1, <1>4, <2>1, <2>3
    <3> QED
      BY <1>9, <2>2, <2>3, <2>5, <3>1, <3>2
  <2> QED
    BY <1>13, <2>4, <2>5
<1>16. \A m \in DOMAIN rules' : rules'[m].id < registered'
  BY <1>6, <1>8
<1> QED
  BY <1>6, <1>14, <1>15, <1>16 DEF RulesInv

(* A request: its rule, its handler, or the recorder. *)
LEMMA RequestKeepsMock ==
  ASSUME NEW CONSTANT c, Mocks(c)!MockAssumption, MockInv(c), NEW route \in c.routes, Mocks(c)!Request(route)
  PROVE  MockInv(c)'
<1>0. PICK S : rules \in Seq(RuleType(S)) /\ req \in Seq(CallType(c, S))
  BY DEF MockInv
<1>1. CountsTyped /\ RulesInv(c) /\ RecorderInv(c) /\ generation \in Nat /\ Len(req) \in Nat
  BY <1>0 DEF MockInv, CountsTyped
<1>2. ASSUME NEW place \in {"mocked", "forwarded", "unrecorded", "failed"}, NEW rule \in {None} \cup RuleType(S)
      PROVE  LET q == Mocks(c)!RequestOf(route, place, rule)
             IN  /\ q \in CallType(c, S) /\ q.id = Len(req) + 1 /\ q.generation = generation /\ q.pc = place
                 /\ q.rule = rule /\ q.route = route
  BY <1>1 DEF Mocks!RequestOf, CallType
<1>3. CASE Mocks(c)!Matching(route) # {}
  <2> DEFINE q == Mocks(c)!RequestOf(route, "mocked", rules[Mocks(c)!First(route)])
  <2>1. req' = Append(req, q) /\ rules' = Mocks(c)!UsedUp(Mocks(c)!First(route)) /\ UNCHANGED <<registered, Mocks(c)!Recorder>>
    BY <1>3 DEF Mocks!Request
  <2>2. Mocks(c)!First(route) \in DOMAIN rules
    <3>1. Mocks(c)!Matching(route) \in SUBSET Nat
      BY <1>0 DEF Mocks!Matching
    <3>2. \E x \in Mocks(c)!Matching(route) : \A y \in Mocks(c)!Matching(route) : x <= y
      BY <1>3, <3>1, LeastElement
    <3>3. Mocks(c)!First(route) \in Mocks(c)!Matching(route)
      BY <3>2 DEF Mocks!First
    <3> QED
      BY <3>3 DEF Mocks!Matching
  <2>3. rules[Mocks(c)!First(route)] \in RuleType(S)
    BY <1>0, <2>2
  <2>4. /\ q \in CallType(c, S) /\ q.id = Len(req) + 1 /\ q.generation = generation /\ q.pc = "mocked"
        /\ q.rule = rules[Mocks(c)!First(route)] /\ q.route = route
    BY <1>2, <2>3
  <2> HIDE DEF q
  <2>5. RecorderInv(c)' /\ CountsTyped'
    BY <1>0, <1>1, <2>1, <2>4, RecorderAppends
  <2>6. RulesInv(c)'
    BY <1>0, <1>1, <1>3, <2>1, <2>4, RulesAnswer
  <2>7. rules' \in Seq(RuleType(S))
    BY <1>0, <1>1, <2>1, <2>2, OthersRemain
  <2>8. req' \in Seq(CallType(c, S))
    BY <1>0, <2>1, <2>4
  <2> QED
    BY <2>5, <2>6, <2>7, <2>8 DEF MockInv
<1>4. CASE Mocks(c)!Matching(route) = {}
  <2> DEFINE made(place) == Mocks(c)!RequestOf(route, place, None)
  <2>0. PICK place \in {"mocked", "forwarded", "unrecorded", "failed"} :
           /\ req' = Append(req, made(place)) /\ UNCHANGED <<rules, registered>>
           /\ \/ place # "unrecorded" /\ UNCHANGED Mocks(c)!Recorder
              \/ place = "unrecorded" /\ Mocks(c)!Skip
    BY <1>4 DEF Mocks!Request
  <2>1. PICK q : /\ q \in CallType(c, S) /\ q.id = Len(req) + 1 /\ q.generation = generation
                 /\ q.pc \in {"mocked", "forwarded", "unrecorded", "failed"}
                 /\ q.rule = None /\ req' = Append(req, q) /\ UNCHANGED <<rules, registered>>
                 /\ \/ q.pc # "unrecorded" /\ UNCHANGED Mocks(c)!Recorder
                    \/ q.pc = "unrecorded" /\ Mocks(c)!Skip
    BY <1>2, <2>0
  <2>2. RecorderInv(c)' /\ CountsTyped'
    BY <1>0, <1>1, <2>1, RecorderAppends
  <2>3. RulesInv(c)'
    BY <1>0, <1>1, <2>1, RulesPass
  <2>4. rules' \in Seq(RuleType(S)) /\ req' \in Seq(CallType(c, S))
    BY <1>0, <2>1
  <2> QED
    BY <2>2, <2>3, <2>4 DEF MockInv
<1> QED
  BY <1>3, <1>4

(* The rules that are registered: one, or one for each recording. *)
LEMMA RegisterKeepsMock ==
  ASSUME NEW CONSTANT c, Mocks(c)!MockAssumption, MockInv(c), NEW k \in Nat, NEW S, rules' \in Seq(RuleType(S)), RulesGrow(k),
         registered' = registered + k, UNCHANGED <<req, Mocks(c)!Recorder>>
  PROVE  MockInv(c)'
<1>0. PICK T : rules \in Seq(RuleType(T)) /\ req \in Seq(CallType(c, T))
  BY DEF MockInv
<1>1. CountsTyped /\ RulesInv(c) /\ RecorderInv(c) /\ UNCHANGED <<req, entries, skipped, evicted, generation>>
  BY DEF MockInv, Mocks!Recorder
<1>2. RulesInv(c)'
  BY <1>0, <1>1, RulesAppended
<1>3. CountsTyped'
  BY <1>1 DEF CountsTyped
<1>4. RecorderInv(c)'
  BY <1>1 DEF RecorderInv, Recorded, Counted
<1>5. rules' \in Seq(RuleType(S \cup T)) /\ req' \in Seq(CallType(c, S \cup T))
  <2>1. Seq(RuleType(S)) \subseteq Seq(RuleType(S \cup T)) /\ Seq(CallType(c, T)) \subseteq Seq(CallType(c, S \cup T))
    BY TypesGrow
  <2> QED
    BY <1>0, <1>1, <2>1
<1> QED
  BY <1>2, <1>3, <1>4, <1>5 DEF MockInv

(* Each step of the adapter and its recorder keeps the invariant. *)
LEMMA MockStep ==
  ASSUME NEW CONSTANT c, Mocks(c)!MockAssumption, MockInv(c), [Mocks(c)!Next]_(Mocks(c)!vars)
  PROVE  MockInv(c)'
<1>0. PICK S : rules \in Seq(RuleType(S)) /\ req \in Seq(CallType(c, S))
  BY DEF MockInv
<1>1. CountsTyped /\ RulesInv(c) /\ RecorderInv(c) /\ registered \in Nat /\ Len(rules) \in Nat /\ DOMAIN rules = 1..Len(rules)
  BY <1>0 DEF MockInv, CountsTyped
<1>2. CASE \E route \in c.routes : Mocks(c)!Request(route)
  BY <1>2, RequestKeepsMock
<1>3. ASSUME NEW route \in c.routes, NEW once \in BOOLEAN, Mocks(c)!Register(route, once)
      PROVE  MockInv(c)'
  <2> DEFINE new == Mocks(c)!RuleOf(registered, route, once)
  <2>1. registered' = registered + 1 /\ rules' = Append(rules, new) /\ UNCHANGED <<req, Mocks(c)!Recorder>>
    BY <1>3 DEF Mocks!Register
  <2>2. new \in RuleType(S \cup c.routes) /\ new.id = registered
    BY <1>1 DEF Mocks!RuleOf, RuleType
  <2> HIDE DEF new
  <2>3. rules' \in Seq(RuleType(S \cup c.routes))
    <3>1. Seq(RuleType(S)) \subseteq Seq(RuleType(S \cup c.routes))
      BY TypesGrow
    <3>2. rules \in Seq(RuleType(S \cup c.routes))
      BY <1>0, <3>1, Zenon
    <3> QED
      BY <2>1, <2>2, <3>2
  <2>4. RulesGrow(1)
    <3>1. /\ Len(rules') = Len(rules) + 1 /\ DOMAIN rules' = 1..Len(rules) + 1
          /\ (\A n \in 1..Len(rules) : rules'[n] = rules[n]) /\ rules'[Len(rules) + 1] = new
      BY <1>0, <1>1, <2>1
    <3>2. \A n \in 1..1 : n = 1 /\ registered + n - 1 = registered
      BY <1>1
    <3> QED
      BY <2>2, <3>1, <3>2 DEF RulesGrow
  <2> QED
    BY <2>1, <2>3, <2>4, RegisterKeepsMock
<1>4. ASSUME NEW r \in DOMAIN req, Mocks(c)!Answer(r) \/ Mocks(c)!Return(r)
      PROVE  MockInv(c)'
  <2>1. /\ RecorderInv(c)' /\ CountsTyped' /\ req' \in Seq(CallType(c, S)) /\ UNCHANGED <<rules, registered>>
        /\ \E p \in {"answered", "failed", "recorded", "skipped"} : Settled(r, p)
    BY <1>0, <1>1, <1>4, RecorderSettles
  <2>2. DOMAIN req' = DOMAIN req /\ \A i \in DOMAIN req : req'[i].rule = req[i].rule /\ req'[i].route = req[i].route
    BY <2>1 DEF Settled
  <2>3. RulesInv(c)'
    BY <1>1, <2>1, <2>2, RulesShrink
  <2>4. rules' \in Seq(RuleType(S))
    BY <1>0, <2>1
  <2> QED
    BY <2>1, <2>3, <2>4 DEF MockInv
<1>5. CASE Mocks(c)!ResetHandlers
  <2>1. rules' = <<>> /\ UNCHANGED <<registered, req, entries, skipped, evicted, generation>>
    BY <1>5 DEF Mocks!ResetHandlers, Mocks!Recorder
  <2>2. RulesInv(c)'
    BY <1>1, <2>1, RulesShrink
  <2>3. RecorderInv(c)' /\ CountsTyped'
    BY <1>1, <2>1 DEF RecorderInv, CountsTyped, Recorded, Counted
  <2>4. rules' \in Seq(RuleType(S)) /\ req' \in Seq(CallType(c, S))
    BY <1>0, <2>1
  <2> QED
    BY <2>2, <2>3, <2>4 DEF MockInv
<1>6. CASE Mocks(c)!Clear
  <2>1. Mocks(c)!Cleared /\ UNCHANGED <<rules, registered, req>>
    BY <1>6 DEF Mocks!Clear
  <2>2. registered' \in Nat
    BY <1>1, <2>1
  <2>3. RecorderInv(c)' /\ CountsTyped'
    BY <1>0, <1>1, <2>1, <2>2, RecorderClears
  <2>4. RulesInv(c)'
    BY <1>1, <2>1, RulesShrink
  <2> QED
    BY <1>0, <2>1, <2>3, <2>4 DEF MockInv
<1>7. CASE Mocks(c)!Replay
  <2> DEFINE routes == [i \in DOMAIN entries |-> req[Mocks(c)!Recordings[i]].route]
             new == [i \in DOMAIN entries |-> Mocks(c)!RuleOf(registered + i - 1, req[Mocks(c)!Recordings[i]].route, TRUE)]
             k == Len(entries)
             T == {routes[i] : i \in 1..k} \cup S
  <2>1. registered' = registered + k /\ rules' = rules \o new /\ UNCHANGED <<req, Mocks(c)!Recorder>>
    BY <1>7 DEF Mocks!Replay
  <2>2. entries \in Seq(Nat) /\ k \in Nat /\ DOMAIN entries = 1..k
    BY <1>1 DEF CountsTyped
  <2>3. DOMAIN new = 1..k /\ \A i \in 1..k : new[i] = [id |-> registered + i - 1, route |-> routes[i], once |-> TRUE]
    BY <2>2 DEF Mocks!RuleOf
  <2> HIDE DEF routes, new
  <2>4. \A i \in 1..k : new[i] \in RuleType(T)
    <3>1. ASSUME NEW i \in 1..k
          PROVE  new[i] \in RuleType(T)
      <4>2. routes[i] \in T
        OBVIOUS
      <4> HIDE DEF T, k
      <4>1. registered + i - 1 \in Nat
        <5>1. i \in Nat /\ i >= 1
          BY <2>2
        <5> QED
          BY <1>1, <5>1
      <4>3. new[i] = [id |-> registered + i - 1, route |-> routes[i], once |-> TRUE]
        BY <2>3
      <4> QED
        BY <4>1, <4>2, <4>3 DEF RuleType
    <3> QED
      BY <3>1
  <2> HIDE DEF k, T
  <2>5. new \in Seq(RuleType(T)) /\ Len(new) = k
    <3>1. new \in [1..k -> RuleType(T)]
      BY <2>2, <2>3, <2>4, new = [i \in DOMAIN entries |-> Mocks(c)!RuleOf(registered + i - 1,
         req[Mocks(c)!Recordings[i]].route, TRUE)] DEF new
    <3> HIDE DEF new
    <3> QED
      BY <2>2, <3>1, SeqDef
  <2> HIDE DEF new
  <2>6. rules \in Seq(RuleType(T))
    <3>1. Seq(RuleType(S)) \subseteq Seq(RuleType(T))
      BY TypesGrow DEF T
    <3> QED
      BY <1>0, <3>1, Zenon
  <2>7. rules' \in Seq(RuleType(T)) /\ Len(rules') = Len(rules) + k /\ DOMAIN rules' = 1..Len(rules) + k
    <3>1. rules' = rules \o new
      BY <2>1
    <3>2. rules' \in Seq(RuleType(T)) /\ Len(rules') = Len(rules) + Len(new)
      BY <2>5, <2>6, <3>1, Joined
    <3>3. DOMAIN rules' = 1..Len(rules')
      BY <3>2
    <3> QED
      BY <2>5, <3>2, <3>3
  <2>8. /\ \A n \in 1..Len(rules) : rules'[n] = rules[n]
        /\ \A n \in 1..k : rules'[Len(rules) + n] = new[n]
    BY <2>1, <2>5, <2>6, Joined
  <2>9. RulesGrow(k)
    BY <2>3, <2>7, <2>8 DEF RulesGrow
  <2> QED
    BY <2>1, <2>2, <2>7, <2>9, RegisterKeepsMock
<1>9. ASSUME NEW route \in c.routes, Mocks(c)!Handle(route)
      PROVE  MockInv(c)'
  <2>1. UNCHANGED <<rules, registered, req, entries, skipped, evicted, generation>>
    BY <1>9 DEF Mocks!Handle, Mocks!Recorder
  <2>2. RulesInv(c)'
    BY <1>1, <2>1, RulesShrink
  <2>3. RecorderInv(c)' /\ CountsTyped'
    BY <1>1, <2>1 DEF RecorderInv, CountsTyped, Recorded, Counted
  <2> QED
    BY <1>0, <2>1, <2>2, <2>3 DEF MockInv
<1>8. CASE Mocks(c)!Finished \/ UNCHANGED Mocks(c)!vars
  <2>1. UNCHANGED <<rules, registered, req, entries, skipped, evicted, generation>>
    BY <1>8 DEF Mocks!Finished, Mocks!vars
  <2>2. RulesInv(c)'
    BY <1>1, <2>1, RulesShrink
  <2>3. RecorderInv(c)' /\ CountsTyped'
    BY <1>1, <2>1 DEF RecorderInv, CountsTyped, Recorded, Counted
  <2> QED
    BY <1>0, <2>1, <2>2, <2>3 DEF MockInv
<1> QED
  BY <1>2, <1>3, <1>4, <1>5, <1>6, <1>7, <1>8, <1>9 DEF Mocks!Next

----------------------------------------------------------------------------
\* The components, for every value of their constants.

(* Whatever options, overrides, delays and bounds retryPlugin is given: a   *)
(* retry that was planned kept to the attempts, to the time of the request  *)
(* and to what the server asked for.                                        *)
THEOREM RetriesKeepBudget ==
  ASSUME NEW CONSTANT c, Retries(c)!RetryAssumption
  PROVE  Retries(c)!Spec => []Retries(c)!RetryWithinBudget
<1>1. Retries(c)!Init => RetryInv(c)
  BY RetryInit
<1>2. RetryInv(c) /\ [Retries(c)!Next]_(Retries(c)!vars) => RetryInv(c)'
  BY RetryStep
<1>3. RetryInv(c) => Retries(c)!RetryWithinBudget
  BY DEF RetryInv
<1> QED
  BY <1>1, <1>2, <1>3, PTL DEF Retries!Spec

(* For any requests, clients and refreshes of authPlugin, with or without a *)
(* policy, and with hooks that run late: one refresh has members.           *)
THEOREM OneRefreshForAll ==
  ASSUME NEW CONSTANT c, Auths(c)!AuthAssumption
  PROVE  Auths(c)!Spec => []Auths(c)!RefreshShared
<1>1. Auths(c)!Init => AuthInv(c)
  BY AuthInit
<1>2. AuthInv(c) /\ [Auths(c)!Next]_(Auths(c)!vars) => AuthInv(c)'
  BY AuthStep
<1>3. AuthInv(c) => Auths(c)!RefreshShared
  BY AuthIsShared
<1> QED
  BY <1>1, <1>2, <1>3, PTL DEF Auths!Spec

(* Unless a hook captured before a removal still runs, authPlugin writes no *)
(* token and sends no request of its own for an installation removed.       *)
THEOREM RemovedIsSilent ==
  ASSUME NEW CONSTANT c, Auths(c)!AuthAssumption, ~c.late
  PROVE  Auths(c)!Spec => Auths(c)!RemovedStaysSilent
<1>1. Auths(c)!Init => AuthInv(c)
  BY AuthInit
<1>2. AuthInv(c) /\ [Auths(c)!Next]_(Auths(c)!vars) => AuthInv(c)'
  BY AuthStep
<1>3. AuthInv(c) /\ [Auths(c)!Next]_(Auths(c)!vars) => [Auths(c)!SilentWhenRemoved]_(Auths(c)!vars)
  BY AuthSilent
<1> QED
  BY <1>1, <1>2, <1>3, PTL DEF Auths!Spec, Auths!RemovedStaysSilent

(* For bodies of any size and any limits: a transfer that is over has no    *)
(* exchange, listener or stream any more (an aborted one may have the       *)
(* parser of an error body and its timer), and a download that is delivered *)
(* was reported in full.                                                    *)
THEOREM TransferLeavesNothing ==
  ASSUME NEW CONSTANT c, Transfers(c)!TransferAssumption
  PROVE  Transfers(c)!Spec => [](Transfers(c)!NothingLeft /\ Transfers(c)!DeliveredIsReported)
<1>1. Transfers(c)!Init => TransferInv(c)
  BY TransferInit
<1>2. TransferInv(c) /\ [Transfers(c)!Next]_(Transfers(c)!vars) => TransferInv(c)'
  BY TransferStep
<1>3. TransferInv(c) => Transfers(c)!NothingLeft /\ Transfers(c)!DeliveredIsReported
  BY TransferHolds
<1> QED
  BY <1>1, <1>2, <1>3, PTL DEF Transfers!Spec

(* For any requests, clients, attempts and removals, unless a captured hook *)
(* runs late: every span of openTelemetryPlugin ends once, no later than    *)
(* its request and its plugin.                                              *)
THEOREM SpansEnd ==
  ASSUME NEW CONSTANT c, Traces(c)!TracingAssumption, ~c.late
  PROVE  Traces(c)!Spec => []Traces(c)!SpansEndOnce
<1>1. Traces(c)!Init => TracingInv(c)
  BY TracingInit
<1>2. TracingInv(c) /\ [Traces(c)!Next]_(Traces(c)!vars) => TracingInv(c)'
  BY TracingStep
<1>3. TracingInv(c) => Traces(c)!SpansEndOnce
  BY TracingAgrees
<1> QED
  BY <1>1, <1>2, <1>3, PTL DEF Traces!Spec

(* For any requests, clients, attempts and removals of                      *)
(* openTelemetryMetricsPlugin, unless a transport hook that runs earlier    *)
(* sends the request: requests and streams are counted up and down alike.   *)
THEOREM MetricsBalance ==
  ASSUME NEW CONSTANT c, Measures(c)!MetricsAssumption, ~c.uploads
  PROVE  Measures(c)!Spec => [](Measures(c)!RequestsMeasured /\ Measures(c)!StreamsMeasured)
<1>1. Measures(c)!Init => MetricsInv(c)
  BY MetricsInit
<1>2. MetricsInv(c) /\ [Measures(c)!Next]_(Measures(c)!vars) => MetricsInv(c)'
  BY MetricsStep
<1>3. MetricsInv(c) => Measures(c)!RequestsMeasured /\ Measures(c)!StreamsMeasured
  BY MeasuresAgree
<1> QED
  BY <1>1, <1>2, <1>3, PTL DEF Measures!Spec

(* For any routes, handlers and rules of MockAdapter and any size of its    *)
(* recorder: a once rule answers one request, and the recorder holds the    *)
(* newest calls of its generation and counts exactly the others.            *)
THEOREM MockAccounts ==
  ASSUME NEW CONSTANT c, Mocks(c)!MockAssumption
  PROVE  Mocks(c)!Spec => []Mocks(c)!CallsAccounted
<1>1. Mocks(c)!Init => MockInv(c)
  BY MockInit
<1>2. MockInv(c) /\ [Mocks(c)!Next]_(Mocks(c)!vars) => MockInv(c)'
  BY MockStep
<1>3. MockInv(c) => Mocks(c)!CallsAccounted
  BY MockAgrees
<1> QED
  BY <1>1, <1>2, <1>3, PTL DEF Mocks!Spec

----------------------------------------------------------------------------
\* The instances of MCSession, as its run checks them.

(* retryPlugin in MCSession: a planned retry keeps to its budget. *)
THEOREM SessionRetries == MCSpec => []RetryWithinBudget
<1> DEFINE Inv == part = "attempts" => RetryInv(Attempts)
<1>0. Retries(Attempts)!RetryAssumption
  BY SessionAssumption
<1>1. MCInit => Inv
  <2>1. MCInit /\ part = "attempts" => Retries(Attempts)!Init
    BY DEF MCInit, AuthPart, MockPart, TracePart
  <2> QED
    BY <1>0, <2>1, RetryInit
<1>2. Inv /\ [MCNext]_mcvars => Inv'
  <2>1. [MCNext]_mcvars /\ part' = "attempts" => part = "attempts" /\ [Retries(Attempts)!Next]_(Retries(Attempts)!vars)
    BY DEF MCNext, mcvars, hooks, retry, Retries!vars
  <2> QED
    BY <1>0, <2>1, RetryStep
<1>3. Inv => RetryWithinBudget
  BY DEF RetryWithinBudget, RetryInv
<1> QED
  BY <1>1, <1>2, <1>3, PTL DEF MCSpec

(* The transfers of MCSession: once one has an outcome, no exchange,        *)
(* listener or stream of it is left, only an aborted one leaves the parser  *)
(* of an error body with its timer, and what is delivered was reported.     *)
THEOREM SessionTransfers == MCSpec => []TransferKept
<1> DEFINE Inv == part = "transfers" => TransferInv(Bodies)
<1>0. Transfers(Bodies)!TransferAssumption
  BY SessionAssumption
<1>1. MCInit => Inv
  <2>1. MCInit /\ part = "transfers" => Transfers(Bodies)!Init
    BY DEF MCInit, AuthPart, MockPart, TracePart
  <2> QED
    BY <1>0, <2>1, TransferInit
<1>2. Inv /\ [MCNext]_mcvars => Inv'
  <2>1. [MCNext]_mcvars /\ part' = "transfers"
          => part = "transfers" /\ [Transfers(Bodies)!Next]_(Transfers(Bodies)!vars)
    BY DEF MCNext, mcvars, transfer, Transfers!vars
  <2> QED
    BY <1>0, <2>1, TransferStep
<1>3. Inv => TransferKept
  BY TransferHolds DEF TransferKept
<1> QED
  BY <1>1, <1>2, <1>3, PTL DEF MCSpec

(* openTelemetryMetricsPlugin in MCSession: its counters agree with the     *)
(* requests and the streams.                                                *)
THEOREM SessionMetrics == MCSpec => []MetricsAgree
<1> DEFINE Inv == part = "measures" => MetricsInv(Streams)
<1>0. Measures(Streams)!MetricsAssumption /\ ~Streams.uploads
  BY SessionAssumption DEF Streams, Shared
<1>1. MCInit => Inv
  <2>1. MCInit /\ part = "measures" => Measures(Streams)!Init
    BY DEF MCInit, AuthPart, MockPart, TracePart
  <2> QED
    BY <1>0, <2>1, MetricsInit
<1>2. Inv /\ [MCNext]_mcvars => Inv'
  <2>1. [MCNext]_mcvars /\ part' = "measures" => part = "measures" /\ [Measures(Streams)!Next]_(Measures(Streams)!vars)
    BY DEF MCNext, mcvars, hooks, metrics, Measures!vars
  <2> QED
    BY <1>0, <2>1, MetricsStep
<1>3. Inv => MetricsAgree
  BY <1>0, MeasuresAgree DEF MetricsAgree
<1> QED
  BY <1>1, <1>2, <1>3, PTL DEF MCSpec

(* The invariant of authPlugin in its three instances. *)
AuthsInv ==
    /\ part = "refusals" => AuthInv(Refusals)
    /\ part = "policy" => AuthInv(Policy)
    /\ part = "late" => AuthInv(LateHooks)

(* The invariant of each installed auth plugin. *)
LEMMA AuthsHold ==
  /\ MCInit => AuthsInv
  /\ AuthsInv /\ [MCNext]_mcvars => AuthsInv'
<1>0. Auths(Refusals)!AuthAssumption /\ Auths(Policy)!AuthAssumption /\ Auths(LateHooks)!AuthAssumption
  BY SessionAssumption
<1>1. MCInit => AuthsInv
  <2>1. MCInit => /\ part = "refusals" => Auths(Refusals)!Init
                  /\ part = "policy" => Auths(Policy)!Init
                  /\ part = "late" => Auths(LateHooks)!Init
    BY DEF MCInit, AuthPart, MockPart, TracePart, InAuth
  <2> QED
    BY <1>0, <2>1, AuthInit DEF AuthsInv
<1>2. AuthsInv /\ [MCNext]_mcvars => AuthsInv'
  <2>1. [MCNext]_mcvars => /\ part' = part
                           /\ part = "refusals" => [Auths(Refusals)!Next]_(Auths(Refusals)!vars)
                           /\ part = "policy" => [Auths(Policy)!Next]_(Auths(Policy)!vars)
                           /\ part = "late" => [Auths(LateHooks)!Next]_(Auths(LateHooks)!vars)
    BY DEF MCNext, mcvars, auth, hooks, Auths!vars
  <2> QED
    BY <1>0, <2>1, AuthStep DEF AuthsInv
<1> QED
  BY <1>1, <1>2

(* authPlugin in MCSession: of the pending refreshes one has participants,  *)
(* and only that one is remembered.                                         *)
THEOREM SessionRefreshes == MCSpec => []RefreshShared
<1>1. AuthsInv => RefreshShared
  <2>1. Auths(Refusals)!AuthAssumption /\ Auths(Policy)!AuthAssumption /\ Auths(LateHooks)!AuthAssumption
    BY SessionAssumption
  <2> QED
    BY <2>1, AuthIsShared DEF AuthsInv, RefreshShared, AuthPart, InAuth
<1> QED
  BY <1>1, AuthsHold, PTL DEF MCSpec

(* authPlugin in MCSession, but for the part whose captured hooks run late: *)
(* nothing is done for an installation that was removed.                    *)
THEOREM SessionSilent ==
  ASSUME "late" \notin Parts
  PROVE  MCSpec => RemovedStaysSilent
<1> DEFINE Silent == part \in AuthPart => InAuth(Auths(Refusals)!SilentWhenRemoved, Auths(Policy)!SilentWhenRemoved,
                                                 Auths(LateHooks)!SilentWhenRemoved)
           Inv == AuthsInv /\ part \in Parts
<1>1. MCInit => Inv
  BY AuthsHold DEF MCInit
<1>2. Inv /\ [MCNext]_mcvars => Inv'
  <2>1. [MCNext]_mcvars => part' = part
    BY DEF MCNext, mcvars
  <2> QED
    BY <2>1, AuthsHold
<1>3. Inv /\ [MCNext]_mcvars => [Silent]_mcvars
  <2>0. Auths(Refusals)!AuthAssumption /\ Auths(Policy)!AuthAssumption /\ ~Refusals.late /\ ~Policy.late
    BY SessionAssumption DEF Refusals, Policy
  <2>1. MCNext => /\ part = "refusals" => [Auths(Refusals)!Next]_(Auths(Refusals)!vars)
                  /\ part = "policy" => [Auths(Policy)!Next]_(Auths(Policy)!vars)
    BY DEF MCNext
  <2>2. Inv /\ MCNext => /\ part = "refusals" => Auths(Refusals)!SilentWhenRemoved
                         /\ part = "policy" => Auths(Policy)!SilentWhenRemoved
                         /\ part # "late"
    BY <2>0, <2>1, AuthSilent DEF AuthsInv
  <2> QED
    BY <2>2 DEF AuthPart, InAuth
<1> QED
  BY <1>1, <1>2, <1>3, PTL DEF MCSpec, RemovedStaysSilent

(* openTelemetryPlugin in MCSession, but for the parts with late hooks and  *)
(* with watched uploads: spans end once, and every attempt has its own.     *)
THEOREM SessionSpans ==
  ASSUME "late traces" \notin Parts, "uploads" \notin Parts
  PROVE  MCSpec => []SpansAgree
<1> DEFINE Inv == part \in Parts /\ (part = "traces" => TracingInv(Shared))
<1>0. Traces(Shared)!TracingAssumption /\ ~Shared.late /\ ~Shared.uploads
  BY SessionAssumption DEF Shared
<1>1. MCInit => Inv
  <2>1. MCInit => part \in Parts /\ (part = "traces" => Traces(Shared)!Init)
    BY DEF MCInit, AuthPart, MockPart, TracePart, InTracing
  <2> QED
    BY <1>0, <2>1, TracingInit
<1>2. Inv /\ [MCNext]_mcvars => Inv'
  <2>1. [MCNext]_mcvars => part' = part /\ (part = "traces" => [Traces(Shared)!Next]_(Traces(Shared)!vars))
    BY DEF MCNext, mcvars, hooks, tracing, Traces!vars
  <2> QED
    BY <1>0, <2>1, TracingStep
<1>3. Inv => SpansAgree
  BY <1>0, TracingAgrees DEF SpansAgree, SpansEndOnce, AttemptHasSpan, TracePart, InTracing
<1> QED
  BY <1>1, <1>2, <1>3, PTL DEF MCSpec

(* MockAdapter in MCSession: rules answer once, and the recorder holds the  *)
(* newest calls and counts the others.                                      *)
THEOREM SessionMocks == MCSpec => []CallsAccounted
<1> DEFINE Inv == /\ part = "routes" => MockInv(Routes)
                  /\ part = "recordings" => MockInv(Recordings)
                  /\ part = "replays" => MockInv(Replays)
<1>0. Mocks(Routes)!MockAssumption /\ Mocks(Recordings)!MockAssumption /\ Mocks(Replays)!MockAssumption
  BY SessionAssumption
<1>1. MCInit => Inv
  <2>1. MCInit => /\ part = "routes" => Mocks(Routes)!Init
                  /\ part = "recordings" => Mocks(Recordings)!Init
                  /\ part = "replays" => Mocks(Replays)!Init
    BY DEF MCInit, AuthPart, MockPart, TracePart, InMock
  <2> QED
    BY <1>0, <2>1, MockInit
<1>2. Inv /\ [MCNext]_mcvars => Inv'
  <2>1. [MCNext]_mcvars => /\ part' = part
                           /\ part = "routes" => [Mocks(Routes)!Next]_(Mocks(Routes)!vars)
                           /\ part = "recordings" => [Mocks(Recordings)!Next]_(Mocks(Recordings)!vars)
                           /\ part = "replays" => [Mocks(Replays)!Next]_(Mocks(Replays)!vars)
    BY DEF MCNext, mcvars, mock, Mocks!vars
  <2> QED
    BY <1>0, <2>1, MockStep
<1>3. Inv => CallsAccounted
  BY <1>0, MockAgrees DEF CallsAccounted, MockPart, InMock
<1> QED
  BY <1>1, <1>2, <1>3, PTL DEF MCSpec
=============================================================================
