---------------------------- MODULE AuthSessions ----------------------------
(***************************************************************************)
(* One account: log-in with its lockout, refresh tokens, log-out, change   *)
(* and reset of the password, deactivation and suspension (routers/auth.py,*)
(* services/auth_service.py, user_service.py, tenant_service.py).          *)
(*                                                                         *)
(* A request is a READ COMMITTED transaction.  What it writes is visible   *)
(* from its commit on; the row locks it takes until then are modelled by   *)
(* `writer' and `doomed'.  Redis commands take effect at once and are not  *)
(* undone when the request fails.                                          *)
(***************************************************************************)
EXTENDS Naturals, FiniteSets

CONSTANTS
  Requests,     \* handlers that may run at the same time
  Passwords,
  Threshold,    \* failed log-ins that lock the account (5 in the code)
  MaxSessions,  \* bound on the sessions ever opened
  MaxLinks,     \* bound on the reset links ever issued
  MaxAttempts,  \* bound on the count of failed log-ins
  Faults        \* {"abort"} or {}

ASSUME AccountAssumption ==
  /\ IsFiniteSet(Requests) /\ Requests # {}
  /\ Threshold \in Nat \ {0}
  /\ MaxSessions \in Nat \ {0} /\ MaxLinks \in Nat /\ MaxAttempts \in Nat
  /\ Faults \subseteq {"abort"}

Sessions == 1..MaxSessions
Links    == 1..MaxLinks

VARIABLES
  password,  \* committed users.password_hash, as the password it is of
  legacy,    \* that hash is of the deprecated scheme
  active,    \* users.is_active
  open,      \* the tenant's status is active
  session,   \* rows of user_sessions
  link,      \* pwd_reset:* keys in Redis
  attempts,  \* auth:attempts
  locked,    \* auth:lockout exists
  pc,        \* where a request is
  token,     \* the session, or the link, it brought
  rehash,    \* password whose legacy hash it verified: a set of at most one
  writer,    \* request that holds the lock of the user's row: at most one
  doomed,    \* sessions a reset has revoked, not yet committed
  heirs,     \* sessions opened for a refresh token, overlaps aside (history)
  uses,      \* resets made with a link, overlaps aside (history)
  cut,       \* sessions opened before the last reset or log-out of all,
             \* and those refreshed from them (history)
  late,      \* requests whose checks are outdated (history)
  lateBorn,  \* sessions opened by those, or refreshed from such a one (history)
  guesses    \* wrong passwords answered since a log-in or an expiry (history)

vars == <<password, legacy, active, open, session, link, attempts, locked, pc, token,
          rehash, writer, doomed, heirs, uses, cut, late, lateBorn, guesses>>

user     == <<password, legacy, active>>
redis    == <<link, attempts, locked>>
request  == <<token, rehash>>
locks    == <<writer, doomed>>
chains   == <<heirs, cut, lateBorn>>

(* A row is refused in the same way after revoked_at and after expires_at. *)
SessionStates == {"none", "live", "over"}
LinkStates    == {"none", "stored", "gone"}

(* Places where the credentials have been checked and are relied upon. *)
Trusting == {"cleared", "holding", "changing", "linked", "written", "forgotten"}
Places   == Trusting \cup {"idle", "asked", "counted", "locking"}

Init ==
  /\ password \in Passwords /\ legacy \in BOOLEAN
  /\ active = TRUE /\ open = TRUE
  /\ session = [s \in Sessions |-> IF s = 1 THEN "live" ELSE "none"]
  /\ link = [l \in Links |-> "none"]
  /\ attempts = 0 /\ locked = FALSE
  /\ pc = [r \in Requests |-> "idle"]
  /\ token = [r \in Requests |-> 0]
  /\ rehash = [r \in Requests |-> {}]
  /\ writer = {} /\ doomed = {}
  /\ heirs = [s \in Sessions |-> 0]
  /\ uses = [l \in Links |-> 0]
  /\ cut = {} /\ late = {} /\ lateBorn = {}
  /\ guesses = 0

Existing == {s \in Sessions : session[s] # "none"}

Go(r, place) == pc' = [pc EXCEPT ![r] = place]

(* The request is over. *)
End(r) ==
  /\ pc' = [pc EXCEPT ![r] = "idle"]
  /\ token' = [token EXCEPT ![r] = 0]
  /\ rehash' = [rehash EXCEPT ![r] = {}]

(* Requests R have relied on what is no longer so; r itself is over. *)
Outdates(R, r) == late' = (late \cup {q \in R : pc[q] \in Trusting}) \ {r}
Holding(s)     == {r \in Requests : pc[r] = "holding" /\ token[r] = s}

(* The row of a new session n, refreshed from those in parents, with       *)
(* random tokens.                                                          *)
OpenSession(n, r, parents) ==
  /\ session[n] = "none"
  /\ \A m \in Sessions : m < n => session[m] # "none"
  /\ session' = [s \in Sessions |->
                   IF s = n THEN "live" ELSE IF s \in parents THEN "over" ELSE session[s]]
  /\ heirs' = [s \in Sessions |-> IF s \in parents /\ r \notin late THEN heirs[s] + 1 ELSE heirs[s]]
  /\ cut' = IF parents \cap cut # {} THEN cut \cup {n} ELSE cut
  /\ lateBorn' = IF r \in late \/ parents \cap lateBorn # {} THEN lateBorn \cup {n} ELSE lateBorn

(* A new key pwd_reset:<hash> of a random token, sent to the user.  Those  *)
(* beyond MaxLinks expire at once.                                         *)
StoreLink(l) ==
  /\ \A m \in Links : m < l => link[m] # "none"
  /\ \/ link[l] = "none" /\ link' = [link EXCEPT ![l] = "stored"]
     \/ l = MaxLinks /\ link[l] # "none" /\ UNCHANGED link

-------------------------------------------------------------------------------
(* Faulty variants of actions below: each must break a property. *)

(* A revoked session can be refreshed. *)
RefreshReadsRevokedToo(r, s) ==
  /\ pc[r] = "idle" /\ session[s] # "none" /\ active
  /\ Go(r, "holding")
  /\ token' = [token EXCEPT ![r] = s]
  /\ UNCHANGED <<user, open, session, redis, rehash, locks, chains, uses, late, guesses>>

(* A reset leaves the sessions alone. *)
ResetWritesPasswordOnly(r) ==
  /\ pc[r] = "linked" /\ writer = {}
  /\ writer' = {r}
  /\ Go(r, "written")
  /\ UNCHANGED <<user, open, session, redis, request, doomed, chains, uses, late, guesses>>

(* The lockout is set, but the next log-in does not ask for it. *)
LoginIgnoresLockout(r) ==
  /\ pc[r] = "idle"
  /\ Go(r, "asked")
  /\ UNCHANGED <<user, open, session, redis, request, locks, chains, uses, late, guesses>>

(* What was typed is hashed anew before it is verified. *)
LoginRehashesFirst(r) ==
  /\ pc[r] = "asked" /\ active /\ open
  /\ attempts' = 0 /\ locked' = FALSE /\ guesses' = 0
  /\ Go(r, "cleared")
  /\ \E p \in Passwords : rehash' = [rehash EXCEPT ![r] = IF legacy THEN {p} ELSE {}]
  /\ UNCHANGED <<token, user, open, session, link, locks, chains, uses, late>>

(* A log-out writes a state the code does not know. *)
LogoutMisspelt(s) ==
  /\ session[s] = "live" /\ s \notin doomed
  /\ session' = [session EXCEPT ![s] = "revokd"]
  /\ late' = late \cup Holding(s)
  /\ UNCHANGED <<user, open, redis, pc, request, locks, chains, uses, guesses>>

-------------------------------------------------------------------------------
(* POST /auth/login *)

(* The lockout key is read: a locked account gets the generic error. *)
LoginAsks(r) ==
  /\ pc[r] = "idle" /\ ~locked
  /\ Go(r, "asked")
  /\ UNCHANGED <<user, open, session, redis, request, locks, chains, uses, late, guesses>>

(* The password is wrong: INCR, and EXPIRE for the first, so that the key  *)
(* may vanish from here on.  Below the threshold that is the answer.       *)
CountAttempt(r) ==
  /\ pc[r] = "asked" /\ attempts < MaxAttempts
  /\ attempts' = attempts + 1
  /\ IF attempts + 1 < Threshold
       THEN End(r) /\ guesses' = guesses + 1
       ELSE Go(r, "counted") /\ UNCHANGED <<request, guesses>>
  /\ UNCHANGED <<user, open, session, link, locked, locks, chains, uses, late>>

SetLockout(r) ==
  /\ pc[r] = "counted"
  /\ locked' = TRUE
  /\ Go(r, "locking")
  /\ UNCHANGED <<user, open, session, link, attempts, request, locks, chains, uses, late, guesses>>

(* The count is deleted, the owner is sent a reset link, and the wrong     *)
(* password is answered.                                                   *)
RefuseWithLink(r, l) ==
  /\ pc[r] = "locking"
  /\ attempts' = 0
  /\ StoreLink(l)
  /\ guesses' = guesses + 1
  /\ End(r)
  /\ UNCHANGED <<user, open, session, locked, locks, chains, uses, late>>

(* The password is right.  The user and the tenant must be active, else    *)
(* the generic error is answered; the two keys are deleted.  What changes  *)
(* between these steps may as well change between them and the commit.     *)
LoginVerifies(r) ==
  /\ pc[r] = "asked"
  /\ IF active /\ open
       THEN /\ attempts' = 0 /\ locked' = FALSE /\ guesses' = 0
            /\ Go(r, "cleared")
            /\ rehash' = [rehash EXCEPT ![r] = IF legacy THEN {password} ELSE {}]
            /\ UNCHANGED token
       ELSE End(r) /\ UNCHANGED <<attempts, locked, guesses>>
  /\ UNCHANGED <<user, open, session, link, locks, chains, uses, late>>

(* A legacy hash is replaced by a new one of the password that was         *)
(* verified, last_login_at is set, the session inserted and all committed. *)
CommitLogin(r, n) ==
  /\ pc[r] = "cleared" /\ writer = {}
  /\ OpenSession(n, r, {})
  /\ IF rehash[r] # {}
       THEN password' \in rehash[r] /\ legacy' = FALSE
       ELSE UNCHANGED <<password, legacy>>
  /\ Outdates(IF password' = password THEN {} ELSE Requests, r)
  /\ End(r)
  /\ UNCHANGED <<active, open, redis, locks, uses, guesses>>

-------------------------------------------------------------------------------
(* POST /auth/refresh, /logout, /logout-all *)

(* The session is read and must be neither revoked nor expired, the user   *)
(* active.                                                                 *)
RefreshReads(r, s) ==
  /\ pc[r] = "idle" /\ session[s] = "live" /\ active
  /\ Go(r, "holding")
  /\ token' = [token EXCEPT ![r] = s]
  /\ UNCHANGED <<user, open, session, redis, rehash, locks, chains, uses, late, guesses>>

(* The session is revoked, revoked already or not, and one opened. *)
CommitRefresh(r, s, n) ==
  /\ pc[r] = "holding" /\ token[r] = s /\ s \notin doomed
  /\ OpenSession(n, r, {s})
  /\ Outdates(Holding(s), r)
  /\ End(r)
  /\ UNCHANGED <<user, open, redis, locks, uses, guesses>>

Logout(s) ==
  /\ session[s] = "live" /\ s \notin doomed
  /\ session' = [session EXCEPT ![s] = "over"]
  /\ late' = late \cup Holding(s)
  /\ UNCHANGED <<user, open, redis, pc, request, locks, chains, uses, guesses>>

(* Needs an access token of an active user; its UPDATE waits for the rows  *)
(* a reset has locked.                                                     *)
LogoutAll ==
  /\ active /\ open /\ doomed = {}
  /\ session' = [s \in Sessions |-> IF s \in Existing THEN "over" ELSE "none"]
  /\ cut' = Existing
  /\ late' = late \cup {r \in Requests : pc[r] \in Trusting}
  /\ UNCHANGED <<user, open, redis, pc, request, locks, heirs, lateBorn, uses, guesses>>

-------------------------------------------------------------------------------
(* POST /auth/change-password, /forgot-password, /reset-password *)

(* The user's row is read by get_current_user, and the current password    *)
(* verified against it.                                                    *)
ChangeVerifies(r) ==
  /\ pc[r] = "idle" /\ active /\ open
  /\ Go(r, "changing")
  /\ UNCHANGED <<user, open, session, redis, request, locks, chains, uses, late, guesses>>

(* No session is revoked. *)
CommitChange(r, p) ==
  /\ pc[r] = "changing" /\ writer = {}
  /\ password' = p /\ legacy' = FALSE
  /\ Outdates(Requests, r)
  /\ End(r)
  /\ UNCHANGED <<active, open, session, redis, locks, chains, uses, guesses>>

ForgotPassword(l) ==
  /\ active
  /\ StoreLink(l)
  /\ UNCHANGED <<user, open, session, attempts, locked, pc, request, locks, chains, uses, late,
                 guesses>>

(* The key is read, then the user, who must be active. *)
ResetReads(r, l) ==
  /\ pc[r] = "idle" /\ link[l] = "stored" /\ active
  /\ Go(r, "linked")
  /\ token' = [token EXCEPT ![r] = l]
  /\ UNCHANGED <<user, open, session, redis, rehash, locks, chains, uses, late, guesses>>

(* The password is written, which locks the user's row, and all live       *)
(* sessions are revoked, which locks theirs.                               *)
ResetWrites(r) ==
  /\ pc[r] = "linked" /\ writer = {}
  /\ writer' = {r}
  /\ doomed' = {s \in Sessions : session[s] = "live"}
  /\ Go(r, "written")
  /\ UNCHANGED <<user, open, session, redis, request, chains, uses, late, guesses>>

DeleteLink(r) ==
  /\ pc[r] = "written"
  /\ link' = [l \in Links |-> IF l = token[r] THEN "gone" ELSE link[l]]
  /\ Go(r, "forgotten")
  /\ UNCHANGED <<user, open, session, attempts, locked, request, locks, chains, uses, late,
                 guesses>>

CommitReset(r, p) ==
  /\ pc[r] = "forgotten"
  /\ password' = p /\ legacy' = FALSE
  /\ session' = [s \in Sessions |-> IF s \in doomed THEN "over" ELSE session[s]]
  /\ writer' = {} /\ doomed' = {}
  /\ cut' = Existing
  /\ uses' = [l \in Links |-> IF l = token[r] /\ r \notin late THEN uses[l] + 1 ELSE uses[l]]
  /\ Outdates(Requests, r)
  /\ End(r)
  /\ UNCHANGED <<active, open, redis, heirs, lateBorn, guesses>>

-------------------------------------------------------------------------------
(* Managers, the platform's admins, time, and failures *)

(* DELETE /users/{id} and PUT /users/{id}: no session is touched. *)
SetActive(b) ==
  /\ writer = {} /\ active # b
  /\ active' = b
  /\ late' = late \cup {r \in Requests : ~b /\ pc[r] \in Trusting}
  /\ UNCHANGED <<password, legacy, open, session, redis, pc, request, locks, chains, uses,
                 guesses>>

(* POST /tenants/{id}/suspend and /reactivate. *)
SetOpen(b) ==
  /\ open # b
  /\ open' = b
  /\ UNCHANGED <<user, session, redis, pc, request, locks, chains, uses, late, guesses>>

(* Redis drops keys whose 15 minutes are over. *)
ExpireLink(l) ==
  /\ link[l] = "stored"
  /\ link' = [link EXCEPT ![l] = "gone"]
  /\ UNCHANGED <<user, open, session, attempts, locked, pc, request, locks, chains, uses, late,
                 guesses>>

ExpireAttempts ==
  /\ attempts > 0
  /\ attempts' = 0 /\ guesses' = 0
  /\ UNCHANGED <<user, open, session, link, locked, pc, request, locks, chains, uses, late>>

(* The request that set the lockout is over by then. *)
ExpireLockout ==
  /\ locked /\ \A r \in Requests : pc[r] # "locking"
  /\ locked' = FALSE /\ guesses' = 0
  /\ UNCHANGED <<user, open, session, link, attempts, pc, request, locks, chains, uses, late>>

(* expires_at passes: no row changes, but the token is refused from now on. *)
ExpireSession(s) ==
  /\ session[s] = "live"
  /\ session' = [session EXCEPT ![s] = "over"]
  /\ late' = late \cup Holding(s)
  /\ UNCHANGED <<user, open, redis, pc, request, locks, chains, uses, guesses>>

(* The process dies, or Redis, the mail server, a statement or the commit  *)
(* fails: the transaction is rolled back, Redis keeps what it was told.    *)
Abort(r) ==
  /\ "abort" \in Faults
  /\ pc[r] # "idle"
  /\ writer' = writer \ {r}
  /\ doomed' = IF r \in writer THEN {} ELSE doomed
  /\ late' = late \ {r}
  /\ End(r)
  /\ UNCHANGED <<user, open, session, redis, chains, uses, guesses>>

-------------------------------------------------------------------------------

Login(r) ==
  \/ LoginAsks(r) \/ LoginVerifies(r) \/ CountAttempt(r) \/ SetLockout(r)
  \/ \E l \in Links : RefuseWithLink(r, l)
  \/ \E n \in Sessions : CommitLogin(r, n)

Refresh(r) ==
  \E s \in Sessions : RefreshReads(r, s) \/ \E n \in Sessions : CommitRefresh(r, s, n)

Reset(r) ==
  \/ \E l \in Links : ResetReads(r, l)
  \/ ResetWrites(r) \/ DeleteLink(r)
  \/ \E p \in Passwords : CommitReset(r, p)

Change(r) == ChangeVerifies(r) \/ \E p \in Passwords : CommitChange(r, p)

Environment ==
  \/ LogoutAll \/ ExpireAttempts \/ ExpireLockout
  \/ \E s \in Sessions : Logout(s) \/ ExpireSession(s)
  \/ \E l \in Links : ForgotPassword(l) \/ ExpireLink(l)
  \/ \E b \in BOOLEAN : SetActive(b) \/ SetOpen(b)

Next ==
  \/ \E r \in Requests : Login(r) \/ Refresh(r) \/ Reset(r) \/ Change(r) \/ Abort(r)
  \/ Environment

Spec == Init /\ [][Next]_vars

-------------------------------------------------------------------------------

(* Every variable has its type. *)
TypeOK ==
  /\ password \in Passwords /\ legacy \in BOOLEAN
  /\ active \in BOOLEAN /\ open \in BOOLEAN
  /\ session \in [Sessions -> SessionStates]
  /\ link \in [Links -> LinkStates]
  /\ attempts \in Nat /\ locked \in BOOLEAN
  /\ pc \in [Requests -> Places]
  /\ token \in [Requests -> Nat]
  /\ rehash \in [Requests -> SUBSET Passwords]
  /\ writer \subseteq Requests /\ doomed \subseteq Sessions
  /\ heirs \in [Sessions -> Nat] /\ uses \in [Links -> Nat]
  /\ cut \subseteq Sessions /\ lateBorn \subseteq Sessions
  /\ late \subseteq Requests
  /\ guesses \in Nat

(* A reset of the password and a log-out of all sessions end every         *)
(* session: one that is live descends, over any number of refreshes, from  *)
(* a log-in after the last of them, unless on the way a request overlapped *)
(* one.                                                                    *)
CutEndsSessions ==
  \A s \in Sessions : session[s] = "live" /\ s \in cut => s \in lateBorn

(* A refresh token and a reset link are good for one use each: of two      *)
(* sessions opened for one token, one was opened by a request that         *)
(* overlapped the other, and two resets of one link overlapped.            *)
TokensUsedOnce ==
  /\ \A s \in Sessions : heirs[s] <= 1
  /\ \A l \in Links : uses[l] <= 1

(* Between log-ins and expiries, each of the requests that run at the same *)
(* time adds at most the threshold of wrong passwords and one more: the    *)
(* lockout is asked once, and a count deleted late begins anew.            *)
GuessesBounded == guesses < Cardinality(Requests) * (Threshold + 1)

(* A log-in, which may rehash the password, never changes which password   *)
(* is right, unless the credentials were changed since it verified them.   *)
LoginKeepsPassword ==
  [][\A r \in Requests \ late :
       pc[r] = "cleared" /\ pc'[r] = "idle" => password' = password]_vars
===============================================================================
