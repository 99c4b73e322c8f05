---------------------------- MODULE AccountsProofs ----------------------------
(***************************************************************************)
(* Proofs about accounts: AuthSessions, one account, for any number of     *)
(* requests, sessions, links and passwords and any threshold; and, at the  *)
(* end, Tenancy, the accounts of all tenants, for any number of requests,  *)
(* e-mails, numbers and tenants.                                           *)
(***************************************************************************)
EXTENDS AuthSessions, Tenancy, FiniteSetTheorems, TLAPS

-------------------------------------------------------------------------------
(* Types *)

(* The initial state is typed. *)
LEMMA InitTyped == Init => TypeOK
<1> SUFFICES ASSUME Init
             PROVE  TypeOK
  OBVIOUS
<1>1. password \in Passwords /\ legacy \in BOOLEAN /\ active \in BOOLEAN /\ open \in BOOLEAN
      /\ locked \in BOOLEAN
  BY DEF Init
<1>2. /\ session \in [Sessions -> SessionStates] /\ link \in [Links -> LinkStates]
      /\ heirs \in [Sessions -> Nat] /\ uses \in [Links -> Nat]
  BY DEF Init, SessionStates, LinkStates
<1>3. /\ pc \in [Requests -> Places] /\ token \in [Requests -> Nat]
      /\ rehash \in [Requests -> SUBSET Passwords]
  BY DEF Init, Places
<1> QED
  BY <1>1, <1>2, <1>3 DEF Init, TypeOK

(* A session that is opened, and what is recorded of it. *)
LEMMA OpenSessionTyped ==
  ASSUME TypeOK, NEW n \in Sessions, NEW r, NEW parents \in SUBSET Sessions,
         OpenSession(n, r, parents)
  PROVE  /\ session' \in [Sessions -> SessionStates]
         /\ heirs' \in [Sessions -> Nat]
         /\ cut' \subseteq Sessions /\ lateBorn' \subseteq Sessions
  BY DEF TypeOK, OpenSession, SessionStates

(* So are the links when one is issued, *)
LEMMA StoreLinkTyped ==
  ASSUME TypeOK, NEW l \in Links, StoreLink(l)
  PROVE  link' \in [Links -> LinkStates]
  BY DEF TypeOK, StoreLink, LinkStates

(* the requests when one is over, *)
LEMMA EndTyped ==
  ASSUME TypeOK, NEW r \in Requests, End(r)
  PROVE  /\ pc' \in [Requests -> Places]
         /\ token' \in [Requests -> Nat]
         /\ rehash' \in [Requests -> SUBSET Passwords]
  BY DEF TypeOK, End, Places

(* or takes a step. *)
LEMMA GoTyped ==
  ASSUME TypeOK, NEW r \in Requests, NEW where \in Places, Go(r, where)
  PROVE  pc' \in [Requests -> Places]
  BY DEF TypeOK, Go

(* Log-in, *)
LEMMA LoginTyped ==
  ASSUME TypeOK, NEW r \in Requests, Login(r)
  PROVE  TypeOK'
<1> USE AccountAssumption DEF TypeOK, user, redis, request, locks, chains
<1>1. CASE LoginAsks(r)
  BY <1>1, GoTyped DEF LoginAsks, Places
<1>2. CASE LoginVerifies(r)
  <2>1. CASE active /\ open
    <3>1. pc' \in [Requests -> Places]
      BY <1>2, <2>1, GoTyped DEF LoginVerifies, Places, Trusting
    <3>2. rehash' \in [Requests -> SUBSET Passwords]
      <4> DEFINE old == IF legacy THEN {password} ELSE {}
      <4>1. old \in SUBSET Passwords
        OBVIOUS
      <4>2. rehash' = [rehash EXCEPT ![r] = old]
        BY <1>2, <2>1 DEF LoginVerifies
      <4> QED
        BY <4>1, <4>2
    <3>3. locked' = FALSE /\ attempts' = 0 /\ guesses' = 0
      BY <1>2, <2>1 DEF LoginVerifies
    <3>4. UNCHANGED <<token, password, legacy, active, open>>
      BY <1>2, <2>1 DEF LoginVerifies
    <3>5. UNCHANGED <<session, link, writer, doomed, heirs, cut, lateBorn, uses, late>>
      BY <1>2, <2>1 DEF LoginVerifies
    <3> QED
      BY <3>1, <3>2, <3>3, <3>4, <3>5
  <2>2. CASE ~(active /\ open)
    BY <1>2, <2>2, EndTyped DEF LoginVerifies
  <2> QED
    BY <2>1, <2>2
<1>3. CASE CountAttempt(r)
  BY <1>3, GoTyped, EndTyped DEF CountAttempt, Places
<1>4. CASE SetLockout(r)
  BY <1>4, GoTyped DEF SetLockout, Places
<1>5. ASSUME NEW l \in Links, RefuseWithLink(r, l)
      PROVE  TypeOK'
  BY <1>5, StoreLinkTyped, EndTyped DEF RefuseWithLink
<1>6. ASSUME NEW n \in Sessions, CommitLogin(r, n)
      PROVE  TypeOK'
  <2>1. OpenSession(n, r, {}) /\ End(r)
    BY <1>6 DEF CommitLogin
  <2>2. password' \in Passwords /\ legacy' \in BOOLEAN
    BY <1>6 DEF CommitLogin
  <2>3. late' \subseteq Requests
    BY <1>6 DEF CommitLogin, Outdates
  <2>4. /\ session' \in [Sessions -> SessionStates] /\ heirs' \in [Sessions -> Nat]
        /\ cut' \subseteq Sessions /\ lateBorn' \subseteq Sessions
    BY <2>1, OpenSessionTyped
  <2>5. /\ pc' \in [Requests -> Places] /\ token' \in [Requests -> Nat]
        /\ rehash' \in [Requests -> SUBSET Passwords]
    BY <2>1, EndTyped
  <2>6. UNCHANGED <<active, open, link, attempts, locked, writer, doomed, uses, guesses>>
    BY <1>6 DEF CommitLogin
  <2> QED
    BY <2>2, <2>3, <2>4, <2>5, <2>6
<1> QED
  BY <1>1, <1>2, <1>3, <1>4, <1>5, <1>6 DEF Login

(* refresh, *)
LEMMA RefreshTyped ==
  ASSUME TypeOK, NEW r \in Requests, Refresh(r)
  PROVE  TypeOK'
<1> USE AccountAssumption DEF TypeOK, user, redis, request, locks, chains
<1>1. ASSUME NEW s \in Sessions, RefreshReads(r, s)
      PROVE  TypeOK'
  <2>1. s \in Nat
    BY DEF Sessions
  <2> QED
    BY <1>1, <2>1, GoTyped DEF RefreshReads, Places, Trusting
<1>2. ASSUME NEW s \in Sessions, NEW n \in Sessions, CommitRefresh(r, s, n)
      PROVE  TypeOK'
  <2>1. OpenSession(n, r, {s}) /\ End(r)
    BY <1>2 DEF CommitRefresh
  <2> QED
    BY <1>2, <2>1, OpenSessionTyped, EndTyped DEF CommitRefresh, Outdates, Holding
<1> QED
  BY <1>1, <1>2 DEF Refresh

(* reset, *)
LEMMA ResetTyped ==
  ASSUME TypeOK, NEW r \in Requests, Reset(r)
  PROVE  TypeOK'
<1> USE AccountAssumption DEF TypeOK, user, redis, request, locks, chains
<1>1. ASSUME NEW l \in Links, ResetReads(r, l)
      PROVE  TypeOK'
  BY <1>1, GoTyped DEF ResetReads, Places, Trusting, Links
<1>2. CASE ResetWrites(r)
  BY <1>2, GoTyped DEF ResetWrites, Places, Trusting
<1>3. CASE DeleteLink(r)
  BY <1>3, GoTyped DEF DeleteLink, Places, Trusting, LinkStates
<1>4. ASSUME NEW p \in Passwords, CommitReset(r, p)
      PROVE  TypeOK'
  <2>1. password' \in Passwords /\ legacy' \in BOOLEAN
    BY <1>4 DEF CommitReset
  <2>2. session' \in [Sessions -> SessionStates] /\ uses' \in [Links -> Nat]
    BY <1>4 DEF CommitReset, SessionStates
  <2>3. cut' \subseteq Sessions /\ late' \subseteq Requests /\ writer' = {} /\ doomed' = {}
    BY <1>4 DEF CommitReset, Existing, Outdates
  <2>4. /\ pc' \in [Requests -> Places] /\ token' \in [Requests -> Nat]
        /\ rehash' \in [Requests -> SUBSET Passwords]
    BY <1>4, EndTyped DEF CommitReset
  <2>5. UNCHANGED <<active, open, link, attempts, locked, heirs, lateBorn, guesses>>
    BY <1>4 DEF CommitReset
  <2> QED
    BY <2>1, <2>2, <2>3, <2>4, <2>5
<1> QED
  BY <1>1, <1>2, <1>3, <1>4 DEF Reset

(* and all that is left. *)
LEMMA OthersTyped ==
  ASSUME TypeOK, NEW r \in Requests, Change(r) \/ Abort(r) \/ Environment
  PROVE  TypeOK'
<1> USE AccountAssumption DEF TypeOK, user, redis, request, locks, chains
<1>1. CASE ChangeVerifies(r)
  BY <1>1, GoTyped DEF ChangeVerifies, Places, Trusting
<1>2. ASSUME NEW p \in Passwords, CommitChange(r, p)
      PROVE  TypeOK'
  BY <1>2, EndTyped DEF CommitChange, Outdates
<1>3. CASE Abort(r)
  BY <1>3, EndTyped DEF Abort
<1>4. CASE LogoutAll
  BY <1>4 DEF LogoutAll, Existing, SessionStates
<1>5. CASE ExpireAttempts
  BY <1>5 DEF ExpireAttempts
<1>6. CASE ExpireLockout
  BY <1>6 DEF ExpireLockout
<1>7. ASSUME NEW s \in Sessions, Logout(s) \/ ExpireSession(s)
      PROVE  TypeOK'
  BY <1>7 DEF Logout, ExpireSession, Holding, SessionStates
<1>8. ASSUME NEW l \in Links, ForgotPassword(l) \/ ExpireLink(l)
      PROVE  TypeOK'
  BY <1>8, StoreLinkTyped DEF ForgotPassword, ExpireLink, LinkStates
<1>9. ASSUME NEW b \in BOOLEAN, SetActive(b) \/ SetOpen(b)
      PROVE  TypeOK'
  BY <1>9 DEF SetActive, SetOpen
<1> QED
  BY <1>1, <1>2, <1>3, <1>4, <1>5, <1>6, <1>7, <1>8, <1>9 DEF Change, Environment

(* The typed part of a step, for any request. *)
LEMMA StepTyped == TypeOK /\ [Next]_vars => TypeOK'
<1> SUFFICES ASSUME TypeOK, [Next]_vars
             PROVE  TypeOK'
  OBVIOUS
<1>1. CASE UNCHANGED vars
  BY <1>1 DEF vars, TypeOK
<1>2. PICK r \in Requests : TRUE
  BY AccountAssumption
<1> QED
  BY <1>1, <1>2, LoginTyped, RefreshTyped, ResetTyped, OthersTyped DEF Next

(* Every variable keeps its type. *)
THEOREM TypeCorrect == Spec => []TypeOK
  BY InitTyped, StepTyped, PTL DEF Spec

-------------------------------------------------------------------------------
(* Sessions, links and passwords *)

Resetting == {"linked", "written", "forgotten"}

(* The token of a request names what its handler found with it, and the    *)
(* row lock is held by the one reset that has written.                     *)
TokensNamed ==
  \A r \in Requests :
    /\ pc[r] = "holding" => token[r] \in Sessions
    /\ pc[r] \in Resetting => token[r] \in Links
    /\ r \in writer <=> pc[r] \in {"written", "forgotten"}

OneWriter == \A q, r \in writer : q = r

(* What a check found stays so until the request is recorded as late.      *)
ChecksHold ==
  \A r \in Requests \ late :
    /\ pc[r] = "holding" => session[token[r]] = "live"
    /\ pc[r] \in Resetting => uses[token[r]] = 0
    /\ pc[r] = "cleared" => rehash[r] \in {{}, {password}}

(* What was used cannot be found again. *)
UsedIsOver ==
  /\ \A s \in Sessions : heirs[s] > 0 => session[s] = "over"
  /\ \A l \in Links : uses[l] > 0 => link[l] = "gone"
  /\ \A r \in Requests : pc[r] = "forgotten" => link[token[r]] = "gone"

(* While a reset is to commit, every session it will leave alive was       *)
(* opened by a request that overlaps a cut, or refreshed from such a one.  *)
ResetDoomsAll ==
  /\ cut \subseteq Existing
  /\ writer # {} =>
       \A s \in Sessions : session[s] = "live" => s \in doomed \/ s \in lateBorn

SessionInv ==
  /\ TypeOK
  /\ TokensNamed /\ OneWriter /\ ChecksHold /\ UsedIsOver /\ ResetDoomsAll
  /\ TokensUsedOnce /\ CutEndsSessions

(* A log-in opens a session that no cut has seen. *)
LEMMA CommitLoginKeeps ==
  ASSUME SessionInv, TypeOK', NEW r \in Requests, NEW n \in Sessions, CommitLogin(r, n)
  PROVE  SessionInv'
<1> USE DEF SessionInv, TypeOK, CommitLogin, OpenSession, End, Outdates, redis, locks
<1>1. TokensNamed' /\ OneWriter'
  BY DEF TokensNamed, OneWriter, Resetting
<1>2. ChecksHold'
  BY DEF ChecksHold, TokensNamed, Resetting, Trusting
<1>3. UsedIsOver' /\ TokensUsedOnce'
  BY DEF UsedIsOver, TokensUsedOnce
<1>4. ResetDoomsAll' /\ CutEndsSessions'
  BY DEF ResetDoomsAll, CutEndsSessions, Existing
<1> QED
  BY <1>1, <1>2, <1>3, <1>4

(* A refresh ends the session it came with; the one it opens inherits what
   is recorded of that one. *)
LEMMA CommitRefreshKeeps ==
  ASSUME SessionInv, TypeOK', NEW r \in Requests, NEW s \in Sessions, NEW n \in Sessions,
         CommitRefresh(r, s, n)
  PROVE  SessionInv'
<1> USE DEF SessionInv, TypeOK, CommitRefresh, OpenSession, End, Outdates, redis, locks, user
<1>1. TokensNamed' /\ OneWriter'
  BY DEF TokensNamed, OneWriter, Resetting
<1>2. ChecksHold'
  BY DEF ChecksHold, TokensNamed, Resetting, Trusting, Holding
<1>3. UsedIsOver' /\ TokensUsedOnce'
  BY DEF UsedIsOver, TokensUsedOnce, ChecksHold
<1>4. ResetDoomsAll' /\ CutEndsSessions'
  BY DEF ResetDoomsAll, CutEndsSessions, Existing, ChecksHold
<1> QED
  BY <1>1, <1>2, <1>3, <1>4

(* A reset ends what it has doomed, and only what was born late survives. *)
LEMMA CommitResetKeeps ==
  ASSUME SessionInv, TypeOK', NEW r \in Requests, NEW p \in Passwords, CommitReset(r, p)
  PROVE  SessionInv'
<1> USE DEF SessionInv, TypeOK, CommitReset, End, Outdates, redis
<1>1. TokensNamed' /\ OneWriter'
  BY DEF TokensNamed, OneWriter, Resetting
<1>2. ChecksHold'
  BY DEF ChecksHold, TokensNamed, Resetting, Trusting
<1>3. UsedIsOver' /\ TokensUsedOnce'
  BY DEF UsedIsOver, TokensUsedOnce, ChecksHold, Resetting
<1>4. ResetDoomsAll' /\ CutEndsSessions'
  BY DEF ResetDoomsAll, CutEndsSessions, Existing, TokensNamed
<1> QED
  BY <1>1, <1>2, <1>3, <1>4

(* Steps of a request that write no row. *)
LEMMA ReadsKeep ==
  ASSUME SessionInv, TypeOK', NEW r \in Requests,
         \/ LoginAsks(r) \/ CountAttempt(r) \/ SetLockout(r) \/ LoginVerifies(r)
         \/ \E l \in Links : RefuseWithLink(r, l) \/ ResetReads(r, l)
         \/ \E s \in Sessions : RefreshReads(r, s)
         \/ ChangeVerifies(r)
  PROVE  SessionInv'
<1> USE DEF SessionInv, TypeOK, user, redis, request, locks, chains, Go, End
<1>1. CASE LoginAsks(r) \/ SetLockout(r) \/ ChangeVerifies(r)
  BY <1>1 DEF LoginAsks, SetLockout, ChangeVerifies, TokensNamed, OneWriter, ChecksHold, UsedIsOver,
              ResetDoomsAll, TokensUsedOnce, CutEndsSessions, Existing, Resetting
<1>2. CASE CountAttempt(r)
  BY <1>2 DEF CountAttempt, TokensNamed, OneWriter, ChecksHold, UsedIsOver,
              ResetDoomsAll, TokensUsedOnce, CutEndsSessions, Existing, Resetting
<1>3. CASE LoginVerifies(r)
  BY <1>3 DEF LoginVerifies, TokensNamed, OneWriter, ChecksHold, UsedIsOver,
              ResetDoomsAll, TokensUsedOnce, CutEndsSessions, Existing, Resetting
<1>4. ASSUME NEW l \in Links, RefuseWithLink(r, l)
      PROVE  SessionInv'
  BY <1>4 DEF RefuseWithLink, StoreLink, TokensNamed, OneWriter, ChecksHold, UsedIsOver,
              ResetDoomsAll, TokensUsedOnce, CutEndsSessions, Existing, Resetting
<1>5. ASSUME NEW l \in Links, ResetReads(r, l)
      PROVE  SessionInv'
  BY <1>5 DEF ResetReads, TokensNamed, OneWriter, ChecksHold, UsedIsOver,
              ResetDoomsAll, TokensUsedOnce, CutEndsSessions, Existing, Resetting
<1>6. ASSUME NEW s \in Sessions, RefreshReads(r, s)
      PROVE  SessionInv'
  BY <1>6 DEF RefreshReads, TokensNamed, OneWriter, ChecksHold, UsedIsOver,
              ResetDoomsAll, TokensUsedOnce, CutEndsSessions, Existing, Resetting
<1> QED
  BY <1>1, <1>2, <1>3, <1>4, <1>5, <1>6

(* A change of the password, what a reset does before its commit, and a
   request that fails. *)
LEMMA WritesKeep ==
  ASSUME SessionInv, TypeOK', NEW r \in Requests,
         \/ ResetWrites(r) \/ DeleteLink(r) \/ Abort(r)
         \/ \E p \in Passwords : CommitChange(r, p)
  PROVE  SessionInv'
<1> USE DEF SessionInv, TypeOK, user, redis, request, locks, chains, Go, End
<1>1. CASE ResetWrites(r)
  BY <1>1 DEF ResetWrites, TokensNamed, OneWriter, ChecksHold, UsedIsOver,
              ResetDoomsAll, TokensUsedOnce, CutEndsSessions, Existing, Resetting
<1>2. CASE DeleteLink(r)
  BY <1>2 DEF DeleteLink, TokensNamed, OneWriter, ChecksHold, UsedIsOver,
              ResetDoomsAll, TokensUsedOnce, CutEndsSessions, Existing, Resetting
<1>3. CASE Abort(r)
  BY <1>3 DEF Abort, TokensNamed, OneWriter, ChecksHold, UsedIsOver,
              ResetDoomsAll, TokensUsedOnce, CutEndsSessions, Existing, Resetting
<1>4. ASSUME NEW p \in Passwords, CommitChange(r, p)
      PROVE  SessionInv'
  BY <1>4 DEF CommitChange, Outdates, Trusting, TokensNamed, OneWriter, ChecksHold, UsedIsOver,
              ResetDoomsAll, TokensUsedOnce, CutEndsSessions, Existing, Resetting
<1> QED
  BY <1>1, <1>2, <1>3, <1>4

(* Log-outs, managers and time. *)
LEMMA EnvironmentKeeps ==
  ASSUME SessionInv, TypeOK', Environment
  PROVE  SessionInv'
<1> USE DEF SessionInv, TypeOK, user, redis, request, locks, chains
<1>1. CASE LogoutAll
  BY <1>1 DEF LogoutAll, Trusting, TokensNamed, OneWriter, ChecksHold, UsedIsOver,
              ResetDoomsAll, TokensUsedOnce, CutEndsSessions, Existing, Resetting
<1>2. CASE ExpireAttempts \/ ExpireLockout
  BY <1>2 DEF ExpireAttempts, ExpireLockout, TokensNamed, OneWriter, ChecksHold, UsedIsOver,
              ResetDoomsAll, TokensUsedOnce, CutEndsSessions, Existing, Resetting
<1>3. ASSUME NEW s \in Sessions, Logout(s) \/ ExpireSession(s)
      PROVE  SessionInv'
  BY <1>3 DEF Logout, ExpireSession, Holding, TokensNamed, OneWriter, ChecksHold, UsedIsOver,
              ResetDoomsAll, TokensUsedOnce, CutEndsSessions, Existing, Resetting
<1>4. ASSUME NEW l \in Links, ForgotPassword(l) \/ ExpireLink(l)
      PROVE  SessionInv'
  BY <1>4 DEF ForgotPassword, ExpireLink, StoreLink, TokensNamed, OneWriter, ChecksHold, UsedIsOver,
              ResetDoomsAll, TokensUsedOnce, CutEndsSessions, Existing, Resetting
<1>5. ASSUME NEW b \in BOOLEAN, SetActive(b) \/ SetOpen(b)
      PROVE  SessionInv'
  BY <1>5 DEF SetActive, SetOpen, Trusting, TokensNamed, OneWriter, ChecksHold, UsedIsOver,
              ResetDoomsAll, TokensUsedOnce, CutEndsSessions, Existing, Resetting
<1> QED
  BY <1>1, <1>2, <1>3, <1>4, <1>5 DEF Environment

(* The parts are preserved together: each needs some of the others. *)
LEMMA SessionInvInductive == SessionInv /\ [Next]_vars => SessionInv'
<1> SUFFICES ASSUME SessionInv, [Next]_vars
             PROVE  SessionInv'
  OBVIOUS
<1>1. TypeOK'
  BY StepTyped DEF SessionInv
<1>2. CASE UNCHANGED vars
  BY <1>2 DEF vars, SessionInv, TypeOK, TokensNamed, OneWriter, ChecksHold, UsedIsOver,
              ResetDoomsAll, TokensUsedOnce, CutEndsSessions, Existing
<1>3. ASSUME NEW r \in Requests, Login(r) \/ Refresh(r) \/ Reset(r) \/ Change(r) \/ Abort(r)
      PROVE  SessionInv'
  BY <1>1, <1>3, CommitLoginKeeps, CommitRefreshKeeps, CommitResetKeeps, ReadsKeep, WritesKeep
     DEF Login, Refresh, Reset, Change
<1> QED
  BY <1>1, <1>2, <1>3, EnvironmentKeeps DEF Next

(* So they hold throughout. *)
LEMMA SessionInvHolds == Spec => []SessionInv
<1>1. Init => SessionInv
  BY InitTyped DEF Init, SessionInv, TokensNamed, OneWriter, ChecksHold, UsedIsOver,
                   ResetDoomsAll, TokensUsedOnce, CutEndsSessions, Existing, Resetting
<1> QED
  BY <1>1, SessionInvInductive, PTL DEF Spec

(* Of two uses of a refresh token or of a reset link, at most one is by a
   request that no other use overlapped: what a later one would have to find
   live or stored, the first has ended by its commit.  Requests that overlap
   may both succeed. *)
THEOREM TokensAreUsedOnce == Spec => []TokensUsedOnce
  BY SessionInvHolds, PTL DEF SessionInv

(* A reset of the password and a log-out of all sessions end every session
   that no request overlapping them has opened. *)
THEOREM CutsEndSessions == Spec => []CutEndsSessions
  BY SessionInvHolds, PTL DEF SessionInv

(* A log-in, which may rehash the password, never changes which password
   is right while what it verified is still so. *)
THEOREM LoginsKeepPassword == Spec => LoginKeepsPassword
<1>1. SessionInv /\ [Next]_vars
        => [\A r \in Requests \ late :
              pc[r] = "cleared" /\ pc'[r] = "idle" => password' = password]_vars
  <2> SUFFICES ASSUME SessionInv, Next, NEW r \in Requests \ late,
                      pc[r] = "cleared", pc'[r] = "idle", password' # password
               PROVE  FALSE
    OBVIOUS
  <2> USE DEF SessionInv, TypeOK, user, Go, End
  <2>1. Environment => password' = password
    BY DEF Environment, LogoutAll, ExpireAttempts, ExpireLockout, Logout, ExpireSession,
           ForgotPassword, ExpireLink, SetActive, SetOpen
  <2>2. PICK q \in Requests : Login(q) \/ Reset(q) \/ Change(q)
    BY <2>1 DEF Next, Refresh, RefreshReads, CommitRefresh, Abort
  <2>3. CASE Login(q)
    <3>1. PICK n \in Sessions : CommitLogin(q, n)
      BY <2>3 DEF Login, LoginAsks, LoginVerifies, CountAttempt, SetLockout, RefuseWithLink
    <3>2. q = r
      BY <3>1 DEF CommitLogin
    <3> QED
      BY <3>1, <3>2 DEF CommitLogin, ChecksHold
  <2>4. CASE Reset(q)
    <3>1. PICK p \in Passwords : CommitReset(q, p)
      BY <2>4 DEF Reset, ResetReads, ResetWrites, DeleteLink
    <3> QED
      BY <3>1 DEF CommitReset
  <2>5. CASE Change(q)
    <3>1. PICK p \in Passwords : CommitChange(q, p)
      BY <2>5 DEF Change, ChangeVerifies
    <3> QED
      BY <3>1 DEF CommitChange
  <2> QED
    BY <2>2, <2>3, <2>4, <2>5
<1> QED
  BY <1>1, SessionInvHolds, PTL DEF Spec, LoginKeepsPassword

-------------------------------------------------------------------------------
(* Wrong passwords *)

Locking  == {r \in Requests : pc[r] = "locking"}
Guessing == {r \in Requests : pc[r] \in {"asked", "counted", "locking"}}

(* Wrong passwords the count has room for before one must lock. *)
Room == IF attempts < Threshold THEN Threshold - 1 - attempts ELSE 0

GuessInv ==
  /\ locked => guesses + Cardinality(Guessing) < Cardinality(Requests) * (Threshold + 1)
  /\ ~locked =>
       /\ Cardinality(Locking) < Cardinality(Requests)
       /\ guesses + Room + Cardinality(Locking) * Threshold < Cardinality(Requests) * Threshold

(* Each request that may still set the lockout keeps a whole threshold in
   reserve, for the count it deletes when it does. *)
LEMMA Reserves ==
  ASSUME NEW N \in Nat, NEW T \in Nat, NEW k \in Nat
  PROVE  /\ k < N => k * T + T <= N * T
         /\ k > 0 => (k - 1) * T = k * T - T
         /\ \A j \in Nat : j <= k => j * T <= k * T
         /\ k * T \in Nat
         /\ N * (T + 1) = N * T + N
<1>1. ASSUME NEW j \in Nat, j <= k
      PROVE  j * T <= k * T
  BY <1>1
<1>2. k < N => k * T + T <= N * T
  <2> SUFFICES ASSUME k < N PROVE (k + 1) * T <= N * T
    OBVIOUS
  <2> QED
    OBVIOUS
<1> QED
  BY <1>1, <1>2

(* The sets that are counted are finite. *)
LEMMA Counts ==
  ASSUME TypeOK
  PROVE  /\ IsFiniteSet(Locking) /\ IsFiniteSet(Guessing)
         /\ Cardinality(Locking) \in Nat /\ Cardinality(Guessing) \in Nat
         /\ Cardinality(Guessing) <= Cardinality(Requests)
         /\ Cardinality(Requests) \in Nat /\ Cardinality(Requests) > 0
<1>1. Locking \in SUBSET Requests /\ Guessing \in SUBSET Requests
  BY DEF Locking, Guessing
<1>2. Cardinality(Requests) # 0
  BY AccountAssumption, FS_EmptySet
<1>3. Cardinality(Requests) \in Nat
  BY AccountAssumption, FS_CardinalityType
<1>4. IsFiniteSet(Locking) /\ IsFiniteSet(Guessing)
  BY <1>1, AccountAssumption, FS_Subset
<1> QED
  BY <1>1, <1>2, <1>3, <1>4, AccountAssumption, FS_Subset, FS_CardinalityType

(* At first nobody has guessed. *)
LEMMA InitGuesses == Init => GuessInv
<1> SUFFICES ASSUME Init
             PROVE  GuessInv
  OBVIOUS
<1>1. Locking = {}
  BY DEF Init, Locking
<1>2. Cardinality(Locking) = 0
  BY <1>1, FS_EmptySet
<1>3. Cardinality(Requests) \in Nat /\ Cardinality(Requests) > 0
  BY InitTyped, Counts
<1>4. 0 * Threshold + Threshold <= Cardinality(Requests) * Threshold
  BY <1>3, Reserves, AccountAssumption
<1> QED
  BY <1>2, <1>3, <1>4, AccountAssumption DEF Init, GuessInv, Room

(* A step that answers no wrong password and lets requests only leave. *)
LEMMA LeavingKeeps ==
  ASSUME TypeOK, TypeOK', GuessInv, UNCHANGED <<attempts, locked, guesses>>,
         Locking' \subseteq Locking, ~locked \/ Guessing' \subseteq Guessing
  PROVE  GuessInv'
<1>1. Cardinality(Locking') <= Cardinality(Locking)
  BY Counts, FS_Subset
<1>2. Cardinality(Locking') \in Nat
  <2>1. IsFiniteSet(Locking')
    BY Counts, FS_Subset
  <2> QED
    BY <2>1, FS_CardinalityType
<1>3. Cardinality(Locking') * Threshold <= Cardinality(Locking) * Threshold
  BY <1>1, <1>2, Counts, Reserves, AccountAssumption
<1>4. /\ Cardinality(Locking') * Threshold \in Nat /\ Cardinality(Locking) * Threshold \in Nat
      /\ Cardinality(Requests) * Threshold \in Nat
  BY <1>2, Counts, Reserves, AccountAssumption
<1>5. CASE locked
  <2>1. Cardinality(Guessing') <= Cardinality(Guessing) /\ Cardinality(Guessing') \in Nat
    BY <1>5, Counts, FS_Subset, FS_CardinalityType
  <2>2. Cardinality(Requests) * (Threshold + 1) \in Nat
    BY Counts, AccountAssumption
  <2> QED
    BY <1>5, <2>1, <2>2, Counts DEF GuessInv, TypeOK
<1>6. CASE ~locked
  BY <1>1, <1>2, <1>3, <1>4, <1>6, Counts, AccountAssumption DEF GuessInv, Room, TypeOK
<1> QED
  BY <1>5, <1>6

(* A new count: no failed log-in counted, no wrong password answered since,
   and no lockout. *)
LEMMA FreshCount ==
  ASSUME TypeOK, attempts' = 0, guesses' = 0, ~locked',
         Cardinality(Locking') < Cardinality(Requests), Cardinality(Locking') \in Nat
  PROVE  GuessInv'
<1>1. /\ Cardinality(Requests) \in Nat /\ Cardinality(Requests) * Threshold \in Nat
      /\ Cardinality(Locking') * Threshold + Threshold <= Cardinality(Requests) * Threshold
      /\ Cardinality(Locking') * Threshold \in Nat
  BY Counts, Reserves, AccountAssumption
<1> QED
  BY <1>1, AccountAssumption DEF GuessInv, Room

(* A failed log-in uses up the room of the count, or waits to lock. *)
LEMMA CountAttemptKeeps ==
  ASSUME TypeOK, TypeOK', GuessInv, NEW r \in Requests, CountAttempt(r)
  PROVE  GuessInv'
<1> USE DEF TypeOK, CountAttempt
<1>1. /\ Cardinality(Requests) * (Threshold + 1) \in Nat
      /\ Cardinality(Requests) * Threshold \in Nat
      /\ Cardinality(Locking) * Threshold \in Nat
  BY Counts, Reserves, AccountAssumption
<1>2. Locking' = Locking
  BY DEF Locking, End, Go
<1>3. CASE attempts + 1 < Threshold
  <2>1. Guessing' = Guessing \ {r} /\ r \in Guessing
    BY <1>3 DEF Guessing, End
  <2>2. Cardinality(Guessing') = Cardinality(Guessing) - 1
    BY <2>1, Counts, FS_RemoveElement
  <2> QED
    BY <1>1, <1>2, <1>3, <2>2, Counts, AccountAssumption DEF GuessInv, Room
<1>4. CASE ~(attempts + 1 < Threshold)
  <2>1. Guessing' = Guessing
    BY <1>4 DEF Guessing, Go
  <2> QED
    BY <1>1, <1>2, <1>4, <2>1, Counts, AccountAssumption DEF GuessInv, Room
<1> QED
  BY <1>3, <1>4

(* Once the lockout is set, each request under way can answer once more. *)
LEMMA SetLockoutKeeps ==
  ASSUME TypeOK, TypeOK', GuessInv, NEW r \in Requests, SetLockout(r)
  PROVE  GuessInv'
<1> USE DEF TypeOK, SetLockout
<1>1. Guessing' = Guessing
  BY DEF Guessing, Go
<1>2. /\ Cardinality(Requests) * Threshold \in Nat
      /\ Cardinality(Locking) * Threshold \in Nat
      /\ Cardinality(Requests) * (Threshold + 1)
           = Cardinality(Requests) * Threshold + Cardinality(Requests)
  BY Counts, Reserves, AccountAssumption
<1>3. locked' /\ guesses' = guesses
  OBVIOUS
<1>4. CASE locked
  BY <1>1, <1>2, <1>3, <1>4 DEF GuessInv
<1>5. CASE ~locked
  <2>1. guesses < Cardinality(Requests) * Threshold
    BY <1>2, <1>5, AccountAssumption DEF GuessInv, Room
  <2> QED
    BY <1>1, <1>2, <1>3, <2>1, Counts DEF GuessInv
<1> QED
  BY <1>4, <1>5

(* A count that is deleted, late or not, is paid for by the reserve. *)
LEMMA RefuseWithLinkKeeps ==
  ASSUME TypeOK, TypeOK', GuessInv, NEW r \in Requests, NEW l \in Links, RefuseWithLink(r, l)
  PROVE  GuessInv'
<1> USE DEF TypeOK, RefuseWithLink
<1>1. /\ Locking' = Locking \ {r} /\ r \in Locking
      /\ Guessing' = Guessing \ {r} /\ r \in Guessing
  BY DEF Locking, Guessing, End
<1>2. /\ Cardinality(Locking') = Cardinality(Locking) - 1
      /\ Cardinality(Guessing') = Cardinality(Guessing) - 1
  BY <1>1, Counts, FS_RemoveElement
<1>3. Cardinality(Locking) > 0
  BY <1>1, Counts, FS_EmptySet
<1>4. /\ Cardinality(Requests) * (Threshold + 1) \in Nat
      /\ Cardinality(Requests) * Threshold \in Nat
      /\ Cardinality(Locking) * Threshold \in Nat
      /\ Cardinality(Locking') * Threshold = Cardinality(Locking) * Threshold - Threshold
  BY <1>2, <1>3, Counts, Reserves, AccountAssumption
<1> QED
  BY <1>2, <1>3, <1>4, Counts, AccountAssumption DEF GuessInv, Room

(* A log-in deletes both keys; it is itself not among those that lock. *)
LEMMA LoginVerifiesKeeps ==
  ASSUME TypeOK, TypeOK', GuessInv, NEW r \in Requests, LoginVerifies(r)
  PROVE  GuessInv'
<1> USE DEF TypeOK, LoginVerifies
<1>1. Locking' = Locking /\ r \notin Locking /\ Locking \in SUBSET Requests
      /\ Guessing' \subseteq Guessing
  BY DEF Locking, Guessing, Go, End
<1>2. CASE active /\ open
  <2>1. Cardinality(Locking) < Cardinality(Requests)
    BY <1>1, Counts, FS_Subset, AccountAssumption, FS_CardinalityType
  <2>2. attempts' = 0 /\ guesses' = 0 /\ ~locked'
    BY <1>2
  <2> QED
    BY <1>1, <2>1, <2>2, Counts, FreshCount
<1>3. CASE ~(active /\ open)
  BY <1>1, <1>3, LeavingKeeps
<1> QED
  BY <1>2, <1>3

(* The steps that know nothing of the count. *)
LEMMA OtherRequestsKeep ==
  ASSUME TypeOK, TypeOK', GuessInv, NEW r \in Requests,
         \/ Refresh(r) \/ Reset(r) \/ Change(r) \/ Abort(r)
         \/ \E n \in Sessions : CommitLogin(r, n)
  PROVE  GuessInv'
<1> USE DEF TypeOK, Go, End, redis, Locking, Guessing
<1>1. CASE Refresh(r)
  <2>1. UNCHANGED <<attempts, locked, guesses>> /\ Locking' \subseteq Locking
        /\ Guessing' \subseteq Guessing
    BY <1>1 DEF Refresh, RefreshReads, CommitRefresh
  <2> QED
    BY <2>1, LeavingKeeps
<1>2. CASE Reset(r)
  <2>1. UNCHANGED <<attempts, locked, guesses>> /\ Locking' \subseteq Locking
        /\ Guessing' \subseteq Guessing
    BY <1>2 DEF Reset, ResetReads, ResetWrites, DeleteLink, CommitReset
  <2> QED
    BY <2>1, LeavingKeeps
<1>3. CASE Change(r)
  <2>1. UNCHANGED <<attempts, locked, guesses>> /\ Locking' \subseteq Locking
        /\ Guessing' \subseteq Guessing
    BY <1>3 DEF Change, ChangeVerifies, CommitChange
  <2> QED
    BY <2>1, LeavingKeeps
<1>4. CASE Abort(r)
  <2>1. UNCHANGED <<attempts, locked, guesses>> /\ Locking' \subseteq Locking
        /\ Guessing' \subseteq Guessing
    BY <1>4 DEF Abort
  <2> QED
    BY <2>1, LeavingKeeps
<1>5. ASSUME NEW n \in Sessions, CommitLogin(r, n)
      PROVE  GuessInv'
  <2>1. UNCHANGED <<attempts, locked, guesses>> /\ Locking' \subseteq Locking
        /\ Guessing' \subseteq Guessing
    BY <1>5 DEF CommitLogin
  <2> QED
    BY <2>1, LeavingKeeps
<1> QED
  BY <1>1, <1>2, <1>3, <1>4, <1>5

(* The keys expire: the count begins anew. *)
LEMMA TimeKeeps ==
  ASSUME TypeOK, TypeOK', GuessInv, Environment
  PROVE  GuessInv'
<1>1. pc' = pc
  BY DEF Environment, LogoutAll, ExpireAttempts, ExpireLockout, Logout, ExpireSession,
         ForgotPassword, ExpireLink, SetActive, SetOpen
<1>2. Locking' = Locking /\ Guessing' = Guessing
  BY <1>1 DEF Locking, Guessing
<1>3. CASE ExpireAttempts
  <2>1. ~locked => Cardinality(Locking) < Cardinality(Requests)
    BY DEF GuessInv
  <2>2. CASE ~locked
    BY <1>2, <1>3, <2>1, <2>2, Counts, FreshCount DEF ExpireAttempts
  <2>3. CASE locked
    <3>1. Cardinality(Requests) * (Threshold + 1) \in Nat
      BY Counts, AccountAssumption
    <3> QED
      BY <1>2, <1>3, <2>3, <3>1, Counts DEF ExpireAttempts, GuessInv, TypeOK
  <2> QED
    BY <2>2, <2>3
<1>4. CASE ExpireLockout
  <2>1. Locking' = {}
    BY <1>2, <1>4 DEF ExpireLockout, Locking
  <2>2. Cardinality(Locking') = 0
    BY <2>1, FS_EmptySet
  <2>3. /\ Cardinality(Requests) \in Nat /\ Cardinality(Requests) * Threshold \in Nat
        /\ 0 * Threshold + Threshold <= Cardinality(Requests) * Threshold
    BY Counts, Reserves, AccountAssumption
  <2> QED
    BY <1>4, <2>2, <2>3, Counts, AccountAssumption DEF ExpireLockout, GuessInv, Room, TypeOK
<1>5. CASE ~ExpireAttempts /\ ~ExpireLockout
  <2>1. UNCHANGED <<attempts, locked, guesses>>
    BY <1>5 DEF Environment, LogoutAll, Logout, ExpireSession, ForgotPassword, ExpireLink,
                SetActive, SetOpen, redis
  <2> QED
    BY <1>2, <2>1, LeavingKeeps
<1> QED
  BY <1>3, <1>4, <1>5

(* Between log-ins and expiries, each of the requests that run at the same
   time adds at most the threshold of wrong passwords and one more. *)
THEOREM GuessesAreBounded == Spec => []GuessesBounded
<1>1. TypeOK /\ GuessInv /\ [Next]_vars => GuessInv'
  <2> SUFFICES ASSUME TypeOK, GuessInv, [Next]_vars
               PROVE  GuessInv'
    OBVIOUS
  <2>1. TypeOK'
    BY StepTyped
  <2>2. CASE UNCHANGED vars
    <3>1. Locking' = Locking /\ Guessing' = Guessing /\ UNCHANGED <<attempts, locked, guesses>>
      BY <2>2 DEF vars, Locking, Guessing
    <3> QED
      BY <2>1, <3>1, LeavingKeeps
  <2>3. ASSUME NEW r \in Requests, LoginAsks(r)
        PROVE  GuessInv'
    <3>1. Locking' \subseteq Locking /\ ~locked /\ UNCHANGED <<attempts, locked, guesses>>
      BY <2>3 DEF LoginAsks, Go, Locking, TypeOK, redis
    <3> QED
      BY <2>1, <3>1, LeavingKeeps
  <2> QED
    BY <2>1, <2>2, <2>3, CountAttemptKeeps, SetLockoutKeeps, RefuseWithLinkKeeps,
       LoginVerifiesKeeps, OtherRequestsKeep, TimeKeeps DEF Next, Login
<1>2. TypeOK /\ GuessInv => GuessesBounded
  <2> SUFFICES ASSUME TypeOK, GuessInv
               PROVE  GuessesBounded
    OBVIOUS
  <2>1. /\ Cardinality(Requests) * Threshold \in Nat
        /\ Cardinality(Locking) * Threshold \in Nat
        /\ Cardinality(Requests) * (Threshold + 1)
             = Cardinality(Requests) * Threshold + Cardinality(Requests)
    BY Counts, Reserves, AccountAssumption
  <2> QED
    BY <2>1, Counts, AccountAssumption DEF GuessInv, Room, TypeOK, GuessesBounded
<1> QED
  BY <1>1, <1>2, InitTyped, InitGuesses, TypeCorrect, PTL DEF Spec
-------------------------------------------------------------------------------
(* All accounts: tenants, users and phone numbers *)

(* What a request is about to insert is of the kind its place says.        *)
DraftsFollowPlace ==
  \A r \in Handlers :
    /\ place[r] \in {"probing", "free"} => draft[r] \in Registering
    /\ place[r] = "creating" => draft[r] \in Creating
    /\ place[r] = "provisioning" => draft[r] \in Provisioning

(* A registration looks for the first slug that is not taken.              *)
SlugsTried ==
  \A r \in Handlers : place[r] = "probing" =>
    \A s \in Slugs : s < draft[r].slug => s \in Taken

TenancyTypes == TenancyTypeOK /\ DraftsFollowPlace /\ SlugsTried

(* There are more slugs than tenants, so that a slug is always found.      *)
LEMMA SlugIsLeft ==
  ASSUME TenancyTypeOK, \A s \in Slugs : s < MaxTenants => s \in Taken
  PROVE  MaxTenants \notin Taken
<1> USE TenancyAssumption
<1> SUFFICES ASSUME MaxTenants \in Taken
             PROVE  FALSE
  OBVIOUS
<1>1. slug \in [1..MaxTenants -> (0..MaxTenants) \cup {-1}]
  BY DEF TenancyTypeOK, Tenants, Slugs
<1>2. \A s \in 0..MaxTenants : \E t \in 1..MaxTenants : slug[t] = s
  BY DEF Slugs, Taken, Tenants
<1> DEFINE owner == [s \in 0..MaxTenants |-> CHOOSE t \in 1..MaxTenants : slug[t] = s]
<1>3. \A s \in 0..MaxTenants : owner[s] \in 1..MaxTenants /\ slug[owner[s]] = s
  BY <1>2
<1>4. owner \in [0..MaxTenants -> 1..MaxTenants]
  BY <1>3
<1> HIDE DEF owner
<1>5. /\ IsFiniteSet(0..MaxTenants) /\ Cardinality(0..MaxTenants) = MaxTenants + 1
      /\ IsFiniteSet(1..MaxTenants) /\ Cardinality(1..MaxTenants) = MaxTenants
  <2>1. /\ IsFiniteSet(0..MaxTenants)
        /\ Cardinality(0..MaxTenants) = IF 0 > MaxTenants THEN 0 ELSE MaxTenants - 0 + 1
    BY FS_Interval
  <2>2. /\ IsFiniteSet(1..MaxTenants)
        /\ Cardinality(1..MaxTenants) = IF 1 > MaxTenants THEN 0 ELSE MaxTenants - 1 + 1
    BY FS_Interval
  <2> QED
    BY <2>1, <2>2
<1>6. \E s, q \in 0..MaxTenants : s # q /\ owner[s] = owner[q]
  <2>1. Cardinality(1..MaxTenants) < Cardinality(0..MaxTenants)
    BY <1>5
  <2> DEFINE S == 0..MaxTenants
  <2> DEFINE P == 1..MaxTenants
  <2>2. IsFiniteSet(S) /\ IsFiniteSet(P) /\ Cardinality(P) < Cardinality(S) /\ owner \in [S -> P]
    BY <1>4, <1>5, <2>1
  <2> HIDE DEF S, P
  <2>3. \E s, q \in S : s # q /\ owner[s] = owner[q]
    BY <2>2, FS_PigeonHole
  <2> QED
    BY <2>3 DEF S
<1> QED
  BY <1>3, <1>6

(* A request that begins and one that ends.                                *)
LEMMA TenancyBeginTyped ==
  ASSUME TenancyTypes, NEW r \in Handlers, NEW p, NEW d, Begin(r, p, d),
         \/ p = "probing" /\ d \in Registering /\ d.slug = 0
         \/ p = "creating" /\ d \in Creating
         \/ p = "provisioning" /\ d \in Provisioning,
         UNCHANGED <<slug, openTenants, role, activeUsers, number, overtaken, twins>>
  PROVE  TenancyTypes'
<1>1. /\ place' = [place EXCEPT ![r] = p] /\ draft' = [draft EXCEPT ![r] = d]
      /\ place \in [Handlers -> {"idle", "probing", "free", "creating", "provisioning"}]
      /\ draft \in [Handlers -> Registering \cup Creating \cup Provisioning \cup {NoDraft}]
  BY DEF Begin, TenancyTypes, TenancyTypeOK
<1>2. TenancyTypeOK'
  BY <1>1 DEF TenancyTypes, TenancyTypeOK, Rows
<1>3. DraftsFollowPlace'
  BY <1>1 DEF TenancyTypes, DraftsFollowPlace
<1>4. SlugsTried'
  <2>1. Taken' = Taken
    BY DEF Taken
  <2>2. \A s \in Slugs : ~(s < 0)
    BY DEF Slugs
  <2>3. ASSUME NEW q \in Handlers, place'[q] = "probing", NEW s \in Slugs, s < draft'[q].slug
        PROVE  s \in Taken
    <3>1. CASE q = r
      BY <1>1, <2>2, <2>3, <3>1
    <3>2. CASE q # r
      BY <1>1, <2>3, <3>2 DEF TenancyTypes, SlugsTried
    <3> QED
      BY <3>1, <3>2
  <2> QED
    BY <2>1, <2>3 DEF SlugsTried, Slugs
<1> QED
  BY <1>2, <1>3, <1>4 DEF TenancyTypes

(* A request that ends, whatever rows it leaves behind. *)
LEMMA TenancyEndTyped ==
  ASSUME TenancyTypes, NEW r \in Handlers, Finish(r),
         slug' \in [Tenants -> Slugs \cup {-1}], Taken \subseteq Taken', openTenants' \subseteq Tenants,
         role' \in [Users -> Storable \cup {"none"}], activeUsers' \subseteq Rows',
         number' \in [Numbers -> Number \cup {NoRow}],
         overtaken' \subseteq Handlers, twins' \subseteq Users
  PROVE  TenancyTypes'
<1>1. /\ place' = [place EXCEPT ![r] = "idle"] /\ draft' = [draft EXCEPT ![r] = NoDraft]
      /\ place \in [Handlers -> {"idle", "probing", "free", "creating", "provisioning"}]
      /\ draft \in [Handlers -> Registering \cup Creating \cup Provisioning \cup {NoDraft}]
  BY DEF Finish, TenancyTypes, TenancyTypeOK
<1>2. TenancyTypeOK'
  BY <1>1 DEF TenancyTypeOK
<1>3. DraftsFollowPlace'
  BY <1>1 DEF TenancyTypes, DraftsFollowPlace
<1>4. SlugsTried'
  BY <1>1 DEF TenancyTypes, SlugsTried
<1> QED
  BY <1>2, <1>3, <1>4 DEF TenancyTypes

(* A manager's step changes rows, of users, numbers or tenants, and no     *)
(* request.                                                                *)
LEMMA TenancyRowsTyped ==
  ASSUME TenancyTypes, UNCHANGED <<slug, place, draft, overtaken, twins>>, openTenants' \subseteq Tenants,
         role' \in [Users -> Storable \cup {"none"}], activeUsers' \subseteq Rows',
         number' \in [Numbers -> Number \cup {NoRow}]
  PROVE  TenancyTypes'
<1>1. TenancyTypeOK'
  BY DEF TenancyTypes, TenancyTypeOK
<1>2. DraftsFollowPlace' /\ SlugsTried'
  BY DEF TenancyTypes, DraftsFollowPlace, SlugsTried, Taken
<1> QED
  BY <1>1, <1>2 DEF TenancyTypes

(* A user that is inserted.                                                *)
LEMMA TenancyInsertTyped ==
  ASSUME TenancyTypes, NEW r, NEW u \in Users, NEW x \in Storable, InsertUser(r, u, x)
  PROVE  /\ role' \in [Users -> Storable \cup {"none"}]
         /\ activeUsers' \subseteq Rows' /\ twins' \subseteq Users
<1>1. /\ role' = [role EXCEPT ![u] = x] /\ activeUsers' = activeUsers \cup {u}
      /\ twins' \subseteq twins \cup {u}
      /\ role \in [Users -> Storable \cup {"none"}] /\ activeUsers \subseteq Rows
      /\ twins \subseteq Users
  BY DEF InsertUser, TenancyTypes, TenancyTypeOK
<1>2. x # "none"
  BY DEF Storable, Roles
<1> QED
  BY <1>1, <1>2 DEF Rows

(* Every step keeps the types, and the slug that is looked for is there. *)
LEMMA TenancyTyped ==
  ASSUME TenancyTypes, [TenancyNext]_tenancyVars
  PROVE  TenancyTypes'
<1> USE TenancyAssumption DEF tenants, users, requests
<1>a. TenancyTypeOK /\ activeUsers \subseteq Rows
  BY DEF TenancyTypes, TenancyTypeOK
<1>b. /\ slug \in [Tenants -> Slugs \cup {-1}] /\ openTenants \subseteq Tenants
      /\ role \in [Users -> Storable \cup {"none"}] /\ activeUsers \subseteq Rows
      /\ number \in [Numbers -> Number \cup {NoRow}]
      /\ overtaken \subseteq Handlers /\ twins \subseteq Users
  BY DEF TenancyTypes, TenancyTypeOK
<1>1. CASE UNCHANGED tenancyVars
  BY <1>1, <1>b, TenancyRowsTyped DEF tenancyVars, Rows
<1>2. ASSUME NEW r \in Handlers, NEW e \in Emails, AskEmail(r, e)
      PROVE  TenancyTypes'
  <2>1. [email |-> e, slug |-> 0] \in Registering
    BY DEF Registering, Slugs
  <2> QED
    BY <1>2, <2>1, TenancyBeginTyped DEF AskEmail
<1>3. ASSUME NEW r \in Handlers, ProbeSlug(r)
      PROVE  TenancyTypes'
  <2>1. /\ place[r] = "probing" /\ draft[r] \in Registering
        /\ \A s \in Slugs : s < draft[r].slug => s \in Taken
        /\ UNCHANGED <<slug, openTenants, role, activeUsers, twins, number, overtaken>>
    BY <1>3 DEF ProbeSlug, TenancyTypes, DraftsFollowPlace, SlugsTried
  <2>2. Taken' = Taken /\ Rows' = Rows
    BY <2>1 DEF Taken, Rows
  <2>3. /\ place \in [Handlers -> {"idle", "probing", "free", "creating", "provisioning"}]
        /\ draft \in [Handlers -> Registering \cup Creating \cup Provisioning \cup {NoDraft}]
    BY <1>a DEF TenancyTypeOK
  <2>4. CASE draft[r].slug \in Taken
    <3>1. draft' = [draft EXCEPT ![r].slug = @ + 1] /\ place' = place
      BY <1>3, <2>4 DEF ProbeSlug
    <3>2. draft[r].slug \in Slugs /\ draft[r].slug # MaxTenants
      <4>1. draft[r].slug \in Slugs
        BY <2>1 DEF Registering
      <4> QED
        BY <1>a, <2>1, <2>4, <4>1, SlugIsLeft
    <3>3. draft[r].slug + 1 \in Slugs
      BY <3>2 DEF Slugs
    <3>4. draft'[r] \in Registering /\ draft'[r].slug = draft[r].slug + 1
          /\ \A q \in Handlers : q # r => draft'[q] = draft[q]
      BY <2>1, <2>3, <3>1, <3>3 DEF Registering
    <3>5. draft' \in [Handlers -> Registering \cup Creating \cup Provisioning \cup {NoDraft}]
      BY <2>3, <3>1, <3>4
    <3>6. TenancyTypeOK'
      BY <1>b, <2>1, <2>2, <2>3, <3>1, <3>5 DEF TenancyTypeOK
    <3>7. DraftsFollowPlace'
      BY <2>1, <3>1, <3>4 DEF TenancyTypes, DraftsFollowPlace
    <3>8. SlugsTried'
      <4>1. ASSUME NEW q \in Handlers, place[q] = "probing", NEW s \in Slugs, s < draft'[q].slug
            PROVE  s \in Taken
        <5>1. CASE q = r
          <6>1. s < draft[r].slug \/ s = draft[r].slug
            BY <3>2, <3>4, <4>1, <5>1 DEF Slugs
          <6> QED
            BY <2>1, <2>4, <6>1
        <5>2. CASE q # r
          BY <3>4, <4>1, <5>2 DEF TenancyTypes, SlugsTried
        <5> QED
          BY <5>1, <5>2
      <4> QED
        BY <2>2, <3>1, <4>1 DEF SlugsTried, Slugs
    <3> QED
      BY <3>6, <3>7, <3>8 DEF TenancyTypes
  <2>5. CASE draft[r].slug \notin Taken
    <3>1. place' = [place EXCEPT ![r] = "free"] /\ draft' = draft
      BY <1>3, <2>5 DEF ProbeSlug
    <3>2. TenancyTypeOK'
      BY <1>b, <2>1, <2>2, <2>3, <3>1 DEF TenancyTypeOK
    <3>3. DraftsFollowPlace'
      BY <2>1, <2>3, <3>1 DEF TenancyTypes, DraftsFollowPlace
    <3>4. SlugsTried'
      BY <2>2, <2>3, <3>1 DEF TenancyTypes, SlugsTried, Slugs
    <3> QED
      BY <3>2, <3>3, <3>4 DEF TenancyTypes
  <2> QED
    BY <2>4, <2>5
<1>4. ASSUME NEW r \in Handlers, CommitRegister(r)
      PROVE  TenancyTypes'
  <2>1. draft[r] \in Registering
    BY <1>4 DEF CommitRegister, TenancyTypes, DraftsFollowPlace
  <2>2. PICK t \in Tenants :
          /\ slug[t] = -1 /\ slug' = [slug EXCEPT ![t] = draft[r].slug]
          /\ openTenants' = openTenants \cup {t} /\ InsertUser(r, <<t, draft[r].email>>, "owner")
    BY <1>4 DEF CommitRegister
  <2>3. draft[r].slug \in Slugs /\ <<t, draft[r].email>> \in Users /\ "owner" \in Storable
    BY <2>1 DEF Registering, Users, Storable, Roles
  <2>4. slug' \in [Tenants -> Slugs \cup {-1}] /\ Taken \subseteq Taken'
    BY <1>b, <2>2, <2>3 DEF Taken
  <2>5. Finish(r) /\ overtaken' \subseteq Handlers /\ number' = number
    BY <1>4, <1>b DEF CommitRegister, EndInserting
  <2>6. /\ role' \in [Users -> Storable \cup {"none"}]
        /\ activeUsers' \subseteq Rows' /\ twins' \subseteq Users
    BY <2>2, <2>3, TenancyInsertTyped
  <2> QED
    BY <1>b, <2>2, <2>4, <2>5, <2>6, TenancyEndTyped
<1>5. ASSUME NEW r \in Handlers, SlugClash(r) \/ UserClash(r) \/ NumberClash(r) \/ RollBack(r)
      PROVE  TenancyTypes'
  <2>1. Finish(r) /\ overtaken' \subseteq Handlers /\ UNCHANGED <<slug, openTenants, role, activeUsers, twins, number>>
    BY <1>5, <1>b DEF SlugClash, UserClash, NumberClash, RollBack
  <2> QED
    BY <1>b, <2>1, TenancyEndTyped DEF Taken, Rows
<1>6. ASSUME NEW r \in Handlers, NEW u \in Users, NEW e \in Emails, NEW x \in Roles,
             AskEmailGlobally(r, u, e, x)
      PROVE  TenancyTypes'
  <2>1. [tenant |-> u[1], email |-> e, role |-> x] \in Creating
    BY DEF Creating, Users
  <2> QED
    BY <1>6, <2>1, TenancyBeginTyped DEF AskEmailGlobally
<1>7. ASSUME NEW r \in Handlers, CommitCreateUser(r)
      PROVE  TenancyTypes'
  <2>1. draft[r] \in Creating
    BY <1>7 DEF CommitCreateUser, TenancyTypes, DraftsFollowPlace
  <2>2. /\ <<draft[r].tenant, draft[r].email>> \in Users /\ draft[r].role \in Storable
        /\ InsertUser(r, <<draft[r].tenant, draft[r].email>>, draft[r].role)
        /\ Finish(r) /\ overtaken' \subseteq Handlers /\ UNCHANGED <<slug, openTenants, number>>
    BY <1>7, <1>b, <2>1 DEF CommitCreateUser, EndInserting, Creating, Users
  <2>3. /\ role' \in [Users -> Storable \cup {"none"}]
        /\ activeUsers' \subseteq Rows' /\ twins' \subseteq Users
    BY <2>2, TenancyInsertTyped
  <2> QED
    BY <1>b, <2>2, <2>3, TenancyEndTyped DEF Taken
<1>8. ASSUME NEW r \in Handlers, NEW u \in Users, NEW n \in Numbers, NEW a \in Agents \cup {0},
             AskNumber(r, u, n, a)
      PROVE  TenancyTypes'
  <2>1. [tenant |-> u[1], number |-> n, agent |-> a] \in Provisioning
    BY DEF Provisioning, Users
  <2> QED
    BY <1>8, <2>1, TenancyBeginTyped DEF AskNumber
<1>9. ASSUME NEW r \in Handlers, CommitProvision(r)
      PROVE  TenancyTypes'
  <2>1. draft[r] \in Provisioning
    BY <1>9 DEF CommitProvision, TenancyTypes, DraftsFollowPlace
  <2>2. [tenant |-> draft[r].tenant, agent |-> draft[r].agent, inUse |-> TRUE] \in Number
    BY <2>1 DEF Provisioning, Number
  <2>3. /\ number' = [number EXCEPT ![draft[r].number] =
                        [tenant |-> draft[r].tenant, agent |-> draft[r].agent, inUse |-> TRUE]]
        /\ Finish(r) /\ overtaken' \subseteq Handlers /\ UNCHANGED <<slug, openTenants, role, activeUsers, twins>>
    BY <1>9, <1>b DEF CommitProvision
  <2>4. number' \in [Numbers -> Number \cup {NoRow}]
    BY <1>b, <2>2, <2>3
  <2> QED
    BY <1>b, <2>3, <2>4, TenancyEndTyped DEF Taken, Rows
<1>10. ASSUME NEW u \in Users, NEW v \in Users, NEW x \in Roles, ChangeRole(u, v, x)
       PROVE  TenancyTypes'
  <2>1. /\ x \in Storable /\ role' = [role EXCEPT ![v] = x] /\ v \in Rows
        /\ UNCHANGED <<slug, openTenants, activeUsers, twins, number, place, draft, overtaken>>
    BY <1>10 DEF ChangeRole
  <2>2. x # "none"
    BY <2>1 DEF Storable, Roles
  <2>3. Rows' = Rows
    BY <1>b, <2>1, <2>2 DEF Rows
  <2> QED
    BY <1>b, <2>1, <2>3, TenancyRowsTyped
<1>11. ASSUME NEW u \in Users, NEW v \in Users, NEW b \in BOOLEAN, SetUserActive(u, v, b)
       PROVE  TenancyTypes'
  <2>1. /\ v \in Rows /\ activeUsers' \subseteq activeUsers \cup {v}
        /\ UNCHANGED <<slug, openTenants, role, twins, number, place, draft, overtaken>>
    BY <1>11 DEF SetUserActive
  <2>2. Rows' = Rows
    BY <2>1 DEF Rows
  <2> QED
    BY <1>b, <2>1, <2>2, TenancyRowsTyped
<1>12. ASSUME NEW t \in Tenants, NEW b \in BOOLEAN, SetTenantOpen(t, b)
       PROVE  TenancyTypes'
  <2>1. /\ openTenants' \subseteq openTenants \cup {t}
        /\ UNCHANGED <<slug, role, activeUsers, twins, number, place, draft, overtaken>>
    BY <1>12 DEF SetTenantOpen
  <2> QED
    BY <1>b, <2>1, TenancyRowsTyped DEF Rows
<1>13. ASSUME NEW u \in Users, NEW n \in Numbers,
              ReleaseNumber(u, n) \/ \E a \in Agents \cup {0} : AssignAgent(u, n, a)
       PROVE  TenancyTypes'
  <2>1. /\ number[n].tenant \in Tenants
        /\ UNCHANGED <<slug, openTenants, role, activeUsers, twins, place, draft, overtaken>>
        /\ \/ number' = [number EXCEPT ![n].inUse = FALSE, ![n].agent = 0]
           \/ \E a \in Agents \cup {0} : number' = [number EXCEPT ![n].agent = a]
    BY <1>13 DEF ReleaseNumber, AssignAgent, Users
  <2>2. number[n] \in Number
    BY <1>b, <2>1 DEF NoRow, Tenants
  <2>3. /\ \A a \in Agents \cup {0} : [number[n] EXCEPT !.agent = a] \in Number
        /\ [number[n] EXCEPT !.inUse = FALSE, !.agent = 0] \in Number
    BY <2>2 DEF Number
  <2>4. \/ number' = [number EXCEPT ![n] = [number[n] EXCEPT !.inUse = FALSE, !.agent = 0]]
        \/ \E a \in Agents \cup {0} : number' = [number EXCEPT ![n] = [number[n] EXCEPT !.agent = a]]
    BY <1>b, <2>1, <2>2
  <2>5. number' \in [Numbers -> Number \cup {NoRow}]
    BY <1>b, <2>3, <2>4
  <2> QED
    BY <1>b, <2>1, <2>5, TenancyRowsTyped DEF Rows
<1> QED
  BY <1>1, <1>2, <1>3, <1>4, <1>5, <1>6, <1>7, <1>8, <1>9, <1>10, <1>11, <1>12, <1>13
  DEF TenancyNext, Register, CreateUser, ProvisionNumber, ManageUsers, ManageNumbers, ManageTenants

(* Unless it was overtaken, what a request asked still has the answer it   *)
(* had, for the e-mail over all tenants.                                   *)
QuestionsHold ==
  \A r \in Handlers \ overtaken :
    /\ place[r] \in {"probing", "free", "creating"} => OfEmail(draft[r].email) = {}
    /\ place[r] = "free" => draft[r].slug \notin Taken
    /\ place[r] = "provisioning" => number[draft[r].number].tenant # draft[r].tenant

EmailsApart == \A e \in Emails : \A u, v \in OfEmail(e) \ twins : u = v

(* Who is not overtaken by an INSERT of e-mail e and slug s asked for      *)
(* others, or asked nothing.                                               *)
LEMMA InsertOvertakes ==
  ASSUME TenancyTypes, NEW r \in Handlers, NEW e, NEW s, EndInserting(r, e, s)
  PROVE  /\ place'[r] = "idle"
         /\ \A q \in Handlers : q # r => place'[q] = place[q] /\ draft'[q] = draft[q]
         /\ \A q \in Handlers \ overtaken' : q # r =>
              /\ q \notin overtaken
              /\ place[q] \in {"probing", "free", "creating"} => draft[q].email # e
              /\ place[q] = "free" => draft[q].slug # s
<1>1. /\ place' = [place EXCEPT ![r] = "idle"] /\ draft' = [draft EXCEPT ![r] = NoDraft]
      /\ overtaken' = (overtaken \cup {q \in Handlers :
                         \/ place[q] \in {"probing", "free", "creating"} /\ draft[q].email = e
                         \/ place[q] = "free" /\ draft[q].slug = s}) \ {r}
      /\ place \in [Handlers -> {"idle", "probing", "free", "creating", "provisioning"}]
      /\ draft \in [Handlers -> Registering \cup Creating \cup Provisioning \cup {NoDraft}]
  BY DEF EndInserting, Finish, TenancyTypes, TenancyTypeOK
<1> QED
  BY <1>1

(* A user inserted is of its e-mail, the only one if nobody overtook.      *)
LEMMA InsertedApart ==
  ASSUME TenancyTypes, QuestionsHold, EmailsApart, NEW r \in Handlers, NEW u \in Users,
         NEW x \in Storable, InsertUser(r, u, x),
         place[r] \in {"free", "creating"}, u[2] = draft[r].email
  PROVE  /\ EmailsApart'
         /\ \A e : e # u[2] => OfEmail(e)' = OfEmail(e)
<1>1. /\ role' = [role EXCEPT ![u] = x] /\ role \in [Users -> Storable \cup {"none"}]
      /\ twins' = IF r \in overtaken THEN twins \cup {u} ELSE twins
  BY DEF InsertUser, TenancyTypes, TenancyTypeOK
<1>2. x # "none"
  BY DEF Storable, Roles
<1>3. Rows' = Rows \cup {u}
  BY <1>1, <1>2 DEF Rows
<1>4. \A e : OfEmail(e)' = IF e = u[2] THEN OfEmail(e) \cup {u} ELSE OfEmail(e)
  BY <1>3 DEF OfEmail
<1>5. r \notin overtaken => OfEmail(u[2]) = {}
  BY DEF QuestionsHold
<1>6. EmailsApart'
  <2> SUFFICES ASSUME NEW e \in Emails, NEW v \in OfEmail(e)' \ twins',
                      NEW w \in OfEmail(e)' \ twins'
               PROVE  v = w
    BY DEF EmailsApart
  <2>1. CASE e # u[2]
    BY <1>1, <1>4, <2>1 DEF EmailsApart
  <2>2. CASE e = u[2] /\ r \in overtaken
    BY <1>1, <1>4, <2>2 DEF EmailsApart
  <2>3. CASE e = u[2] /\ r \notin overtaken
    BY <1>4, <1>5, <2>3
  <2> QED
    BY <2>1, <2>2, <2>3
<1> QED
  BY <1>4, <1>6

(* A step that inserts nothing and begins nothing.                         *)
LEMMA QuestionsKept ==
  ASSUME QuestionsHold, EmailsApart, Rows' = Rows, Taken' = Taken, twins' = twins,
         \A n \in Numbers : number'[n].tenant = number[n].tenant,
         DraftsFollowPlace,
         \A q \in Handlers : q \notin overtaken' =>
           \/ place'[q] = "idle"
           \/ place'[q] = place[q] /\ draft'[q] = draft[q] /\ q \notin overtaken
  PROVE  QuestionsHold' /\ EmailsApart'
<1>1. \A e : OfEmail(e)' = OfEmail(e)
  BY DEF OfEmail
<1>2. EmailsApart'
  BY <1>1 DEF EmailsApart
<1>3. QuestionsHold'
  <2> SUFFICES ASSUME NEW q \in Handlers, q \notin overtaken', place'[q] # "idle"
               PROVE  /\ place'[q] \in {"probing", "free", "creating"} =>
                           \A u \in Rows' : u[2] # draft'[q].email
                      /\ place'[q] = "free" => draft'[q].slug \notin Taken'
                      /\ place'[q] = "provisioning" =>
                           number'[draft'[q].number].tenant # draft'[q].tenant
    BY DEF QuestionsHold, OfEmail
  <2>1. place'[q] = place[q] /\ draft'[q] = draft[q] /\ q \notin overtaken
    OBVIOUS
  <2>2. place[q] \in {"probing", "free", "creating"} => \A u \in Rows : u[2] # draft[q].email
    BY <2>1 DEF QuestionsHold, OfEmail
  <2>3. place[q] = "provisioning" => draft[q].number \in Numbers
    BY DEF DraftsFollowPlace, Provisioning
  <2> QED
    BY <2>1, <2>2, <2>3 DEF QuestionsHold
<1> QED
  BY <1>2, <1>3

(* Every step keeps what was read true until it is overtaken. *)
LEMMA QuestionsInductive ==
  ASSUME TenancyTypes, QuestionsHold, EmailsApart, [TenancyNext]_tenancyVars
  PROVE  QuestionsHold' /\ EmailsApart'
<1> USE TenancyAssumption DEF tenants, users, requests
<1>a. /\ slug \in [Tenants -> Slugs \cup {-1}] /\ DraftsFollowPlace
      /\ role \in [Users -> Storable \cup {"none"}]
      /\ number \in [Numbers -> Number \cup {NoRow}]
      /\ place \in [Handlers -> {"idle", "probing", "free", "creating", "provisioning"}]
      /\ draft \in [Handlers -> Registering \cup Creating \cup Provisioning \cup {NoDraft}]
  BY DEF TenancyTypes, TenancyTypeOK
<1>b. ASSUME NEW r \in Handlers, NEW p, NEW d, Begin(r, p, d),
             UNCHANGED <<slug, role, number, overtaken, twins>>,
             \/ p \in {"probing", "creating"} /\ OfEmail(d.email) = {}
             \/ p = "provisioning" /\ number[d.number].tenant # d.tenant
      PROVE  QuestionsHold' /\ EmailsApart'
  <2>1. Rows' = Rows /\ Taken' = Taken
    BY <1>b DEF Rows, Taken
  <2>2. \A e : OfEmail(e)' = OfEmail(e)
    BY <2>1 DEF OfEmail
  <2>3. /\ place'[r] = p /\ draft'[r] = d
        /\ \A q \in Handlers : q # r => place'[q] = place[q] /\ draft'[q] = draft[q]
    BY <1>a, <1>b DEF Begin
  <2>4. EmailsApart'
    BY <1>b, <2>2 DEF EmailsApart
  <2>5. ASSUME NEW q \in Handlers \ overtaken
        PROVE  /\ place'[q] \in {"probing", "free", "creating"} =>
                    \A u \in Rows : u[2] # draft'[q].email
               /\ place'[q] = "free" => draft'[q].slug \notin Taken
               /\ place'[q] = "provisioning" => number[draft'[q].number].tenant # draft'[q].tenant
    <3>1. CASE q = r
      BY <1>b, <2>3, <3>1 DEF OfEmail
    <3>2. CASE q # r
      BY <2>3, <3>2 DEF QuestionsHold, OfEmail
    <3> QED
      BY <3>1, <3>2
  <2>6. QuestionsHold'
    BY <1>b, <2>1, <2>5 DEF QuestionsHold, OfEmail
  <2> QED
    BY <2>4, <2>6
<1>c. ASSUME NEW r \in Handlers, Finish(r), overtaken' = overtaken \ {r},
             UNCHANGED <<slug, role, number, twins>>
      PROVE  QuestionsHold' /\ EmailsApart'
  <2>1. Rows' = Rows /\ Taken' = Taken
    BY <1>c DEF Rows, Taken
  <2>2. \A q \in Handlers : q \notin overtaken' =>
          place'[q] = "idle" \/ (place'[q] = place[q] /\ draft'[q] = draft[q] /\ q \notin overtaken)
    BY <1>a, <1>c DEF Finish
  <2> QED
    BY <1>a, <1>c, <2>1, <2>2, QuestionsKept
<1>d. ASSUME UNCHANGED <<slug, place, draft, overtaken, twins>>, Rows' = Rows,
             \A n \in Numbers : number'[n].tenant = number[n].tenant
      PROVE  QuestionsHold' /\ EmailsApart'
  <2>1. Taken' = Taken
    BY <1>d DEF Taken
  <2> QED
    BY <1>a, <1>d, <2>1, QuestionsKept
<1>1. CASE UNCHANGED tenancyVars
  BY <1>1, <1>d DEF tenancyVars, Rows
<1>2. ASSUME NEW r \in Handlers, NEW e \in Emails, AskEmail(r, e)
      PROVE  QuestionsHold' /\ EmailsApart'
  BY <1>2, <1>b DEF AskEmail
<1>3. ASSUME NEW r \in Handlers, ProbeSlug(r)
      PROVE  QuestionsHold' /\ EmailsApart'
  <2>1. /\ place[r] = "probing" /\ draft[r] \in Registering
        /\ UNCHANGED <<slug, role, number, overtaken, twins>>
    BY <1>a, <1>3 DEF ProbeSlug, DraftsFollowPlace
  <2>2. /\ \A q \in Handlers : q # r => place'[q] = place[q] /\ draft'[q] = draft[q]
        /\ draft'[r].email = draft[r].email /\ place'[r] \in {"probing", "free"}
        /\ place'[r] = "free" => draft'[r].slug \notin Taken
    BY <1>a, <1>3, <2>1 DEF ProbeSlug, Registering
  <2>3. Rows' = Rows /\ Taken' = Taken
    BY <2>1 DEF Rows, Taken
  <2>4. EmailsApart'
    BY <2>1, <2>3 DEF EmailsApart, OfEmail
  <2>5. ASSUME NEW q \in Handlers \ overtaken
        PROVE  /\ place'[q] \in {"probing", "free", "creating"} =>
                    \A u \in Rows : u[2] # draft'[q].email
               /\ place'[q] = "free" => draft'[q].slug \notin Taken
               /\ place'[q] = "provisioning" => number[draft'[q].number].tenant # draft'[q].tenant
    <3>1. CASE q = r
      BY <2>1, <2>2, <3>1 DEF QuestionsHold, OfEmail
    <3>2. CASE q # r
      BY <2>2, <3>2 DEF QuestionsHold, OfEmail
    <3> QED
      BY <3>1, <3>2
  <2>6. QuestionsHold'
    BY <2>1, <2>3, <2>5 DEF QuestionsHold, OfEmail
  <2> QED
    BY <2>4, <2>6
<1>e. ASSUME NEW r \in Handlers, NEW u \in Users, NEW x \in Storable, NEW s,
             InsertUser(r, u, x), place[r] \in {"free", "creating"}, u[2] = draft[r].email,
             EndInserting(r, u[2], s), Taken' \subseteq Taken \cup {s}, number' = number
      PROVE  QuestionsHold' /\ EmailsApart'
  <2>1. EmailsApart' /\ \A e : e # u[2] => OfEmail(e)' = OfEmail(e)
    BY <1>e, InsertedApart
  <2>2. ASSUME NEW q \in Handlers, q \notin overtaken'
        PROVE  /\ place'[q] \in {"probing", "free", "creating"} =>
                    \A v \in Rows' : v[2] # draft'[q].email
               /\ place'[q] = "free" => draft'[q].slug \notin Taken'
               /\ place'[q] = "provisioning" => number'[draft'[q].number].tenant # draft'[q].tenant
    <3>1. CASE q = r
      BY <1>e, <3>1, InsertOvertakes
    <3>2. CASE q # r
      <4>1. /\ place'[q] = place[q] /\ draft'[q] = draft[q] /\ q \notin overtaken
            /\ place[q] \in {"probing", "free", "creating"} => draft[q].email # u[2]
            /\ place[q] = "free" => draft[q].slug # s
        BY <1>e, <2>2, <3>2, InsertOvertakes
      <4>2. place[q] \in {"probing", "free", "creating"} => OfEmail(draft[q].email)' = {}
        BY <2>1, <4>1 DEF QuestionsHold
      <4>3. place[q] \in {"probing", "free", "creating"} => \A v \in Rows' : v[2] # draft[q].email
        BY <2>1, <4>1 DEF QuestionsHold, OfEmail
      <4> QED
        BY <1>e, <4>1, <4>3 DEF QuestionsHold
    <3> QED
      BY <3>1, <3>2
  <2>3. QuestionsHold'
    BY <2>2 DEF QuestionsHold, OfEmail
  <2> QED
    BY <2>1, <2>3
<1>4. ASSUME NEW r \in Handlers, CommitRegister(r)
      PROVE  QuestionsHold' /\ EmailsApart'
  <2>1. /\ place[r] = "free" /\ draft[r] \in Registering /\ number' = number
        /\ EndInserting(r, draft[r].email, draft[r].slug)
    BY <1>a, <1>4 DEF CommitRegister, DraftsFollowPlace
  <2>2. PICK t \in Tenants :
          /\ slug' = [slug EXCEPT ![t] = draft[r].slug]
          /\ InsertUser(r, <<t, draft[r].email>>, "owner")
    BY <1>4 DEF CommitRegister
  <2>3. Taken' \subseteq Taken \cup {draft[r].slug}
    BY <1>a, <2>2 DEF Taken
  <2>4. <<t, draft[r].email>> \in Users /\ "owner" \in Storable
    BY <2>1 DEF Registering, Users, Storable, Roles
  <2> QED
    BY <2>1, <2>2, <2>3, <2>4, <1>e
<1>5. ASSUME NEW r \in Handlers, SlugClash(r) \/ UserClash(r) \/ NumberClash(r) \/ RollBack(r)
      PROVE  QuestionsHold' /\ EmailsApart'
  BY <1>5, <1>c DEF SlugClash, UserClash, NumberClash, RollBack
<1>6. ASSUME NEW r \in Handlers, NEW u \in Users, NEW e \in Emails, NEW x \in Roles,
             AskEmailGlobally(r, u, e, x)
      PROVE  QuestionsHold' /\ EmailsApart'
  BY <1>6, <1>b DEF AskEmailGlobally
<1>7. ASSUME NEW r \in Handlers, CommitCreateUser(r)
      PROVE  QuestionsHold' /\ EmailsApart'
  <2>1. /\ place[r] = "creating" /\ draft[r] \in Creating /\ number' = number
        /\ EndInserting(r, draft[r].email, -1) /\ draft[r].role \in Storable
        /\ InsertUser(r, <<draft[r].tenant, draft[r].email>>, draft[r].role)
        /\ Taken' = Taken
    BY <1>a, <1>7 DEF CommitCreateUser, DraftsFollowPlace, Taken
  <2>2. <<draft[r].tenant, draft[r].email>> \in Users
    BY <2>1 DEF Creating, Users
  <2> QED
    BY <2>1, <2>2, <1>e
<1>8. ASSUME NEW r \in Handlers, NEW u \in Users, NEW n \in Numbers, NEW a \in Agents \cup {0},
             AskNumber(r, u, n, a)
      PROVE  QuestionsHold' /\ EmailsApart'
  BY <1>8, <1>b DEF AskNumber
<1>9. ASSUME NEW r \in Handlers, CommitProvision(r)
      PROVE  QuestionsHold' /\ EmailsApart'
  <2> DEFINE d == draft[r]
  <2>1. /\ place[r] = "provisioning" /\ d \in Provisioning /\ Finish(r)
        /\ number' = [number EXCEPT ![d.number] =
                        [tenant |-> d.tenant, agent |-> d.agent, inUse |-> TRUE]]
        /\ overtaken' = (overtaken \cup {q \in Handlers :
                           /\ place[q] = "provisioning" /\ draft[q].number = d.number
                           /\ draft[q].tenant = d.tenant}) \ {r}
        /\ UNCHANGED <<slug, role, twins>>
    BY <1>a, <1>9 DEF CommitProvision, DraftsFollowPlace
  <2>2. Rows' = Rows /\ Taken' = Taken
    BY <2>1 DEF Rows, Taken
  <2>3. /\ place'[r] = "idle"
        /\ \A q \in Handlers : q # r => place'[q] = place[q] /\ draft'[q] = draft[q]
    BY <1>a, <2>1 DEF Finish
  <2>4. d.number \in Numbers
    BY <2>1 DEF Provisioning
  <2>5. /\ number'[d.number].tenant = d.tenant
        /\ \A n \in Numbers : n # d.number => number'[n] = number[n]
    BY <1>a, <2>1, <2>4
  <2>6. EmailsApart'
    BY <2>1, <2>2 DEF EmailsApart, OfEmail
  <2> HIDE DEF d
  <2>7. ASSUME NEW q \in Handlers, q \notin overtaken'
        PROVE  /\ place'[q] \in {"probing", "free", "creating"} =>
                    \A u \in Rows : u[2] # draft'[q].email
               /\ place'[q] = "free" => draft'[q].slug \notin Taken
               /\ place'[q] = "provisioning" => number'[draft'[q].number].tenant # draft'[q].tenant
    <3>1. CASE q = r
      BY <2>3, <3>1
    <3>2. CASE q # r
      <4>1. /\ place'[q] = place[q] /\ draft'[q] = draft[q] /\ q \notin overtaken
            /\ place[q] = "provisioning" =>
                 draft[q] \in Provisioning /\ ~(draft[q].number = d.number /\ draft[q].tenant = d.tenant)
        BY <1>a, <2>1, <2>3, <2>7, <3>2 DEF DraftsFollowPlace
      <4>2. place[q] = "provisioning" => draft[q].number \in Numbers
        BY <4>1 DEF Provisioning
      <4>3. place[q] = "provisioning" => number'[draft[q].number].tenant # draft[q].tenant
        BY <2>5, <4>1, <4>2 DEF QuestionsHold
      <4> QED
        BY <4>1, <4>3 DEF QuestionsHold, OfEmail
    <3> QED
      BY <3>1, <3>2
  <2>8. QuestionsHold'
    BY <2>2, <2>7 DEF QuestionsHold, OfEmail
  <2> QED
    BY <2>6, <2>8
<1>10. ASSUME NEW u \in Users, NEW v \in Users, NEW x \in Roles, ChangeRole(u, v, x)
       PROVE  QuestionsHold' /\ EmailsApart'
  <2>1. /\ x \in Storable /\ role' = [role EXCEPT ![v] = x] /\ v \in Rows
        /\ UNCHANGED <<slug, twins, number, place, draft, overtaken>>
    BY <1>10 DEF ChangeRole
  <2>2. x # "none"
    BY <2>1 DEF Storable, Roles
  <2>3. Rows' = Rows
    BY <1>a, <2>1, <2>2 DEF Rows
  <2> QED
    BY <2>1, <2>3, <1>d
<1>11. ASSUME NEW u \in Users, NEW v \in Users, NEW b \in BOOLEAN, SetUserActive(u, v, b)
       PROVE  QuestionsHold' /\ EmailsApart'
  BY <1>11, <1>d DEF SetUserActive, Rows
<1>12. ASSUME NEW t \in Tenants, NEW b \in BOOLEAN, SetTenantOpen(t, b)
       PROVE  QuestionsHold' /\ EmailsApart'
  BY <1>12, <1>d DEF SetTenantOpen, Rows
<1>13. ASSUME NEW u \in Users, NEW n \in Numbers,
              ReleaseNumber(u, n) \/ \E a \in Agents \cup {0} : AssignAgent(u, n, a)
       PROVE  QuestionsHold' /\ EmailsApart'
  <2>1. /\ UNCHANGED <<slug, role, twins, place, draft, overtaken>>
        /\ \/ number' = [number EXCEPT ![n].inUse = FALSE, ![n].agent = 0]
           \/ \E a \in Agents \cup {0} : number' = [number EXCEPT ![n].agent = a]
    BY <1>13 DEF ReleaseNumber, AssignAgent
  <2>2. number[n].tenant \in Tenants
    BY <1>13 DEF ReleaseNumber, AssignAgent, Users
  <2>3. number[n] \in Number
    BY <1>a, <2>2 DEF NoRow, Tenants
  <2>4. \A m \in Numbers : number'[m].tenant = number[m].tenant
    BY <1>a, <2>1, <2>3 DEF Number
  <2> QED
    BY <2>1, <2>4, <1>d DEF Rows
<1> QED
  BY <1>1, <1>2, <1>3, <1>4, <1>5, <1>6, <1>7, <1>8, <1>9, <1>10, <1>11, <1>12, <1>13
  DEF TenancyNext, Register, CreateUser, ProvisionNumber, ManageUsers, ManageNumbers, ManageTenants

TenancyInv == TenancyTypes /\ QuestionsHold /\ EmailsApart

(* So all of it holds in every state of every run. *)
LEMMA TenancyInvariant == TenancySpec => []TenancyInv
<1>1. TenancyInit => TenancyInv
  <2> SUFFICES ASSUME TenancyInit
               PROVE  TenancyInv
    OBVIOUS
  <2>1. \A r \in Handlers : place[r] = "idle"
    BY DEF TenancyInit
  <2>2. Rows = {} /\ TenancyTypeOK
    BY TenancyAssumption DEF TenancyInit, TenancyTypeOK, Rows, Slugs, Tenants
  <2>3. TenancyTypes
    BY <2>1, <2>2 DEF TenancyTypes, DraftsFollowPlace, SlugsTried
  <2> QED
    BY <2>1, <2>2, <2>3 DEF TenancyInv, QuestionsHold, EmailsApart, OfEmail
<1>2. TenancyInv /\ [TenancyNext]_tenancyVars => TenancyInv'
  BY TenancyTyped, QuestionsInductive DEF TenancyInv
<1> QED
  BY <1>1, <1>2, PTL DEF TenancySpec

(* Every variable of Tenancy keeps its type, the counter of a slug among   *)
(* them: a free slug is always found.                                      *)
THEOREM TenancyTypeCorrect == TenancySpec => []TenancyTypeOK
<1>1. TenancyInv => TenancyTypeOK
  BY DEF TenancyInv, TenancyTypes
<1> QED
  BY <1>1, TenancyInvariant, PTL

(* Of two accounts of one e-mail, one was inserted by an overtaken request.*)
THEOREM EmailsNameOneAccount == TenancySpec => []EmailNamesOneAccount
<1>1. TenancyInv => EmailNamesOneAccount
  <2> SUFFICES ASSUME TenancyInv, NEW e \in Emails
               PROVE  Cardinality(OfEmail(e) \ twins) <= 1
    BY DEF EmailNamesOneAccount
  <2> DEFINE A == OfEmail(e) \ twins
  <2>1. \A u, v \in A : u = v
    BY DEF TenancyInv, EmailsApart
  <2>2. Cardinality(A) <= 1
    <3>1. CASE A = {}
      BY <3>1, FS_EmptySet
    <3>2. CASE A # {}
      <4>1. PICK u \in A : A = {u}
        BY <2>1, <3>2
      <4>2. Cardinality({u}) = 1
        BY FS_Singleton
      <4> QED
        BY <4>1, <4>2
    <3> QED
      BY <3>1, <3>2
  <2> QED
    BY <2>2
<1> QED
  BY <1>1, TenancyInvariant, PTL

(* A request that was not overtaken meets no constraint but for its role   *)
(* or a number of another tenant's.                                        *)
THEOREM RequestsSucceed == TenancySpec => []FreshRequestsSucceed
<1>1. TenancyInv => FreshRequestsSucceed
  <2> SUFFICES ASSUME TenancyInv, NEW r \in Handlers \ overtaken
               PROVE  /\ place[r] = "free" => draft[r].slug \notin Taken
                      /\ place[r] = "creating" => role[<<draft[r].tenant, draft[r].email>>] = "none"
                      /\ place[r] = "provisioning" =>
                           number[draft[r].number].tenant # draft[r].tenant
    BY DEF FreshRequestsSucceed
  <2>1. place[r] = "creating" =>
          <<draft[r].tenant, draft[r].email>> \in Users /\ OfEmail(draft[r].email) = {}
    BY DEF TenancyInv, TenancyTypes, DraftsFollowPlace, QuestionsHold, Creating, Users
  <2>2. place[r] = "creating" => role[<<draft[r].tenant, draft[r].email>>] = "none"
    BY <2>1 DEF OfEmail, Rows
  <2> QED
    BY <2>2 DEF TenancyInv, QuestionsHold
<1> QED
  BY <1>1, TenancyInvariant, PTL
===============================================================================
