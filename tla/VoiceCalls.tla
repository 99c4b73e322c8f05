------------------------------ MODULE VoiceCalls ------------------------------
(***************************************************************************)
(* The life of a voice call, from the provider's webhook to the persisted  *)
(* call log: routers/voice.py (webhook, media-stream handler, status       *)
(* callback, outbound API), realtime/voice_bridge.py (bridge and cleanup)  *)
(* and realtime/session_manager.py (the Redis keys they share).            *)
(*                                                                         *)
(* One element of Calls is one phone leg.  Each leg is served by its own   *)
(* coroutine, pc[c] naming the last step it completed; the coroutines of   *)
(* all API replicas interleave at every await.  Redis holds the keys       *)
(* pending_session:<id>, call_session:<id> and tenant_sessions:<tenant>.   *)
(***************************************************************************)
EXTENDS Naturals, FiniteSets

CONSTANTS
  Calls,            \* phone legs
  Tenants,          \* tenants
  TenantOf,         \* the tenant a leg belongs to
  Limit,            \* settings.call_max_concurrent_per_tenant
  MaxAdmitting,     \* environment bound: handlers of one tenant that are at
                    \* the same time between the count and the registration
  Faults,           \* the faults the environment may cause
  CallsOutliveTTL   \* may a call last longer than SESSION_TTL?

FaultKinds == {"crash", "redis", "db", "openai", "provider", "webhook"}

ASSUME ConstantsAssumption ==
  /\ TenantOf \in [Calls -> Tenants]
  /\ Limit \in Nat
  /\ MaxAdmitting \in Nat \ {0}
  /\ Faults \subseteq FaultKinds
  /\ CallsOutliveTTL \in BOOLEAN

VARIABLES
  pc,        \* the last step of the leg's handler that completed
  origin,    \* who placed the leg: the caller, or the outbound API
  pending,   \* ids with a pending_session key
  session,   \* the call_session hash of an id
  members,   \* the tenant_sessions set of a tenant
  streams,   \* the bridge's loops that still run
  logs,      \* the direction the call log of a leg records, if it has one
  billed,    \* legs with a usage record
  notified,  \* legs whose "call.completed" webhook was dispatched
  queued,    \* legs whose post-call task was enqueued
  reported,  \* outbound legs whose terminal status the provider posted
  registered, \* legs that were ever added to their tenant's set (history)
  cause      \* what went wrong while serving a leg (history)

vars == <<pc, origin, pending, session, members, streams, logs, billed,
          notified, queued, reported, registered, cause>>

-------------------------------------------------------------------------------
(* The outbound API draws one uuid for the call it places and the webhook  *)
(* of the answered leg draws another: a leg has two ids.                   *)
ApiId(c) == <<c, "api">>
LegId(c) == <<c, "leg">>
CallIds  == Calls \X {"api", "leg"}

NoSession == [state |-> "none", ttl |-> FALSE]
Sessions  == [state : {"none", "connecting", "active", "completed"},
              ttl   : BOOLEAN]
Exists(s) == s.state # "none"

(* redis HSET of the state field: creates the hash, without TTL, if the    *)
(* key is gone.                                                            *)
UpdateSession(id, state) ==
  session' = [session EXCEPT ![id].state = state]

Admitting == {"counted", "metered", "hashed", "keyed"}
Bridged   == {"listed", "bridging", "talking", "closing", "marked"}
Handling  == {"verified"} \cup Admitting \cup Bridged
               \cup {"unlisted", "persisting", "logged", "notifying"}
Over      == {"done", "refused", "broken", "crashed"}
PCs       == {"idle", "dialing", "ringing"} \cup Handling \cup Over

Members(c) == members[TenantOf[c]]
Window(t)  == {c \in Calls : TenantOf[c] = t /\ pc[c] \in Admitting}

Goto(c, from, to) ==
  /\ pc[c] = from
  /\ pc' = [pc EXCEPT ![c] = to]

Blame(c, fault) ==
  /\ fault \in Faults
  /\ cause' = [cause EXCEPT ![c] = @ \cup {fault}]

Init ==
  /\ pc       = [c \in Calls |-> "idle"]
  /\ origin   = [c \in Calls |-> "inbound"]
  /\ pending  = {}
  /\ session  = [i \in CallIds |-> NoSession]
  /\ members  = [t \in Tenants |-> {}]
  /\ streams  = [c \in Calls |-> {}]
  /\ logs     = [c \in Calls |-> "none"]
  /\ billed   = {}
  /\ notified = {}
  /\ queued   = {}
  /\ reported = {}
  /\ registered = {}
  /\ cause    = [c \in Calls |-> {}]

slots   == <<members, registered>>
redis   == <<pending, session, slots>>
records == <<logs, billed, notified, queued>>

-------------------------------------------------------------------------------
(* Faulty variants of actions below: each must break a property. *)

(* The count admits one call too many. *)
CheckConcurrencyOffByOne(c) ==
  /\ \/ /\ Cardinality(Members(c)) <= Limit
        /\ Cardinality(Window(TenantOf[c])) < MaxAdmitting
        /\ Goto(c, "verified", "counted")
     \/ Cardinality(Members(c)) > Limit /\ Goto(c, "verified", "refused")
  /\ UNCHANGED <<origin, redis, streams, records, reported, cause>>

(* The tenant's set is written instead of added to. *)
SaddMemberOverwrites(c) ==
  /\ Goto(c, "keyed", "listed")
  /\ members' = [members EXCEPT ![TenantOf[c]] = {c}]
  /\ registered' = registered \cup {c}
  /\ UNCHANGED <<origin, pending, session, streams, records, reported, cause>>

(* An unknown state is written to the session. *)
MarkCompletedMisspelt(c) ==
  /\ Goto(c, "closing", "marked")
  /\ UpdateSession(LegId(c), "complete")
  /\ UNCHANGED <<origin, pending, slots, streams, records, reported, cause>>

(* delete_session is called without its optional tenant_id. *)
SremMemberWithoutTenant(c) ==
  /\ Goto(c, "marked", "unlisted")
  /\ UNCHANGED <<origin, redis, streams, records, reported, cause>>

(* The post-call task is enqueued before the call log is committed. *)
DeleteKeyAndEnqueue(c) ==
  /\ Goto(c, "unlisted", "persisting")
  /\ session' = [session EXCEPT ![LegId(c)] = NoSession]
  /\ queued' = queued \cup {c}
  /\ UNCHANGED <<origin, pending, slots, streams, logs, billed, notified,
                 reported, cause>>

(* One try block around the Redis and the database part of the cleanup. *)
CleanupErrorSkipsLog(c) ==
  /\ pc[c] \in {"closing", "marked", "unlisted"}
  /\ pc' = [pc EXCEPT ![c] = "notifying"]
  /\ Blame(c, "redis")
  /\ UNCHANGED <<origin, redis, streams, records, reported>>

-------------------------------------------------------------------------------
(* Placing and answering a call *)

(* POST /voice/outbound: the count is read, a pending session is stored    *)
(* under the API's id, and the provider is asked to dial.  A provider      *)
(* error (502) leaves the pending session behind.  Requests refused before *)
(* that (agent, 429, DNC) change nothing.                                  *)
InitiateOutboundCall(c) ==
  /\ pc[c] = "idle"
  /\ Cardinality(Members(c)) < Limit
  /\ pending' = pending \cup {ApiId(c)}
  /\ origin' = [origin EXCEPT ![c] = "outbound"]
  /\ \/ Goto(c, "idle", "dialing") /\ UNCHANGED cause
     \/ Goto(c, "idle", "refused") /\ Blame(c, "provider")
  /\ UNCHANGED <<session, slots, streams, records, reported>>

(* POST /voice/inbound/{agent}: called by the provider for incoming legs   *)
(* and for answered outbound legs alike; draws a new call id.              *)
InboundCallWebhook(c) ==
  /\ pc[c] \in {"idle", "dialing"}
  /\ \/ /\ pc' = [pc EXCEPT ![c] = "ringing"]
        /\ pending' = pending \cup {LegId(c)}
     \/ /\ pc' = [pc EXCEPT ![c] = "refused"]    \* agent not accepting calls
        /\ UNCHANGED pending
  /\ UNCHANGED <<origin, session, slots, streams, records, reported, cause>>

(* POST /voice/status/{call_id}: the callback URL was built by the         *)
(* outbound API, so it carries the API's id.                               *)
CallStatusCallback(c) ==
  /\ origin[c] = "outbound" /\ "provider" \notin cause[c] /\ c \notin reported
  /\ reported' = reported \cup {c}
  /\ IF Exists(session[ApiId(c)])
       THEN UpdateSession(ApiId(c), "completed")
       ELSE UNCHANGED session
  /\ UNCHANGED <<pc, origin, pending, slots, streams, records, cause>>

-------------------------------------------------------------------------------
(* Admission: voice_stream_websocket up to bridge.start() *)

(* 'start' event: the pending session must still be there; it is consumed. *)
OpenStream(c) ==
  /\ pc[c] = "ringing"
  /\ IF LegId(c) \in pending
       THEN Goto(c, "ringing", "verified")
       ELSE Goto(c, "ringing", "refused")
  /\ pending' = pending \ {LegId(c)}
  /\ UNCHANGED <<origin, session, slots, streams, records, reported, cause>>

(* The agent's published version is loaded, then the tenant's set counted. *)
CheckConcurrency(c) ==
  /\ pc[c] = "verified"
  /\ \/ /\ Cardinality(Members(c)) < Limit
        /\ Cardinality(Window(TenantOf[c])) < MaxAdmitting
        /\ Goto(c, "verified", "counted")
     \/ Cardinality(Members(c)) >= Limit /\ Goto(c, "verified", "refused")
     \/ Goto(c, "verified", "refused")           \* no published version
  /\ UNCHANGED <<origin, redis, streams, records, reported, cause>>

(* BillingService.check_usage_limit: a database round trip; its verdict    *)
(* depends on the billing records, which this module abstracts.            *)
CheckUsageLimit(c) ==
  /\ \/ Goto(c, "counted", "metered")
     \/ Goto(c, "counted", "refused")
  /\ UNCHANGED <<origin, redis, streams, records, reported, cause>>

(* create_session, one action per awaited Redis command: HSET, EXPIRE,     *)
(* then SADD with the EXPIRE that follows it.                              *)
HsetSession(c) ==
  /\ Goto(c, "metered", "hashed")
  /\ UpdateSession(LegId(c), "connecting")
  /\ UNCHANGED <<origin, pending, slots, streams, records, reported, cause>>

ExpireSession(c) ==
  /\ Goto(c, "hashed", "keyed")
  /\ session' = [session EXCEPT ![LegId(c)].ttl = TRUE]
  /\ UNCHANGED <<origin, pending, slots, streams, records, reported, cause>>

SaddMember(c) ==
  /\ Goto(c, "keyed", "listed")
  /\ members' = [members EXCEPT ![TenantOf[c]] = @ \cup {c}]
  /\ registered' = registered \cup {c}
  /\ UNCHANGED <<origin, pending, session, streams, records, reported, cause>>

(* An exception before bridge.start(): the handler only logs it.           *)
AdmissionError(c) ==
  /\ pc' = [pc EXCEPT ![c] = "broken"]
  /\ \/ pc[c] \in {"verified", "listed"} \cup Admitting /\ Blame(c, "redis")
     \/ pc[c] \in {"verified", "counted"} /\ Blame(c, "db")
  /\ UNCHANGED <<origin, redis, streams, records, reported>>

-------------------------------------------------------------------------------
(* The bridge *)

StartBridge(c) ==
  /\ Goto(c, "listed", "bridging")
  /\ UNCHANGED <<origin, redis, streams, records, reported, cause>>

(* connect, greeting, update_session(state="active"), then both loops.     *)
ConnectOpenAI(c) ==
  /\ \/ /\ Goto(c, "bridging", "talking")
        /\ UpdateSession(LegId(c), "active")
        /\ streams' = [streams EXCEPT ![c] = {"twilio", "openai"}]
        /\ UNCHANGED cause
     \/ /\ Goto(c, "bridging", "closing")        \* fallback message
        /\ Blame(c, "openai") \/ Blame(c, "redis")
        /\ UNCHANGED <<session, streams>>
  /\ UNCHANGED <<origin, pending, slots, records, reported>>

(* _handle_twilio_messages returns: stop event, disconnect, an error while *)
(* forwarding a frame, or is_active cleared by the end-call tool.          *)
TwilioStops(c) ==
  /\ pc[c] = "talking" /\ "twilio" \in streams[c]
  /\ streams' = [streams EXCEPT ![c] = @ \ {"twilio"}]
  /\ UNCHANGED <<pc, origin, redis, records, reported, cause>>

(* receive_events returns: only when OpenAI closes the connection.         *)
OpenAICloses(c) ==
  /\ pc[c] = "talking" /\ "openai" \in streams[c]
  /\ streams' = [streams EXCEPT ![c] = @ \ {"openai"}]
  /\ UNCHANGED <<pc, origin, redis, records, reported, cause>>

(* asyncio.gather returns when both loops have.                            *)
BridgeEnds(c) ==
  /\ streams[c] = {} /\ Goto(c, "talking", "closing")
  /\ UNCHANGED <<origin, redis, streams, records, reported, cause>>

-------------------------------------------------------------------------------
(* _cleanup *)

MarkCompleted(c) ==
  /\ Goto(c, "closing", "marked")
  /\ UpdateSession(LegId(c), "completed")
  /\ UNCHANGED <<origin, pending, slots, streams, records, reported, cause>>

(* delete_session: SREM, then DEL.                                         *)
SremMember(c) ==
  /\ Goto(c, "marked", "unlisted")
  /\ members' = [members EXCEPT ![TenantOf[c]] = @ \ {c}]
  /\ UNCHANGED <<origin, pending, session, registered, streams, records, reported, cause>>

DeleteKey(c) ==
  /\ Goto(c, "unlisted", "persisting")
  /\ session' = [session EXCEPT ![LegId(c)] = NoSession]
  /\ UNCHANGED <<origin, pending, slots, streams, records, reported, cause>>

(* An exception in the Redis block skips the rest of the block.            *)
CleanupError(c) ==
  /\ pc[c] \in {"closing", "marked", "unlisted"}
  /\ pc' = [pc EXCEPT ![c] = "persisting"]
  /\ Blame(c, "redis")
  /\ UNCHANGED <<origin, redis, streams, records, reported>>

(* One transaction: CallLog and UsageRecord.  The direction is the custom  *)
(* parameter the inbound webhook put into the stream's XML.                *)
PersistCall(c) ==
  /\ \/ /\ Goto(c, "persisting", "logged")
        /\ logs' = [logs EXCEPT ![c] = "inbound"]
        /\ billed' = billed \cup {c}
        /\ UNCHANGED cause
     \/ /\ Goto(c, "persisting", "notifying")    \* exception: only logged
        /\ Blame(c, "db")
        /\ UNCHANGED <<logs, billed>>
  /\ UNCHANGED <<origin, redis, streams, notified, queued, reported>>

DispatchWebhook(c) ==
  /\ Goto(c, "logged", "notifying")
  /\ \/ notified' = notified \cup {c} /\ UNCHANGED cause
     \/ Blame(c, "webhook") /\ UNCHANGED notified
  /\ UNCHANGED <<origin, redis, streams, logs, billed, queued, reported>>

(* post_call_processing_task.delay: publishes to the broker, also Redis.   *)
EnqueuePostCall(c) ==
  /\ Goto(c, "notifying", "done")
  /\ \/ queued' = queued \cup {c} /\ UNCHANGED cause
     \/ Blame(c, "redis") /\ UNCHANGED queued
  /\ UNCHANGED <<origin, redis, streams, logs, billed, notified, reported>>

-------------------------------------------------------------------------------
(* The environment *)

(* The API process serving the leg dies: its coroutine is gone, Redis and  *)
(* the database stay.                                                      *)
Crash(c) ==
  /\ pc[c] \in Handling
  /\ pc' = [pc EXCEPT ![c] = "crashed"]
  /\ streams' = [streams EXCEPT ![c] = {}]
  /\ Blame(c, "crash")
  /\ UNCHANGED <<origin, redis, records, reported>>

PendingExpires(id) ==
  /\ id \in pending
  /\ pending' = pending \ {id}
  /\ UNCHANGED <<pc, origin, session, slots, streams, records, reported, cause>>

(* A call_session key expires SESSION_TTL after it was created.            *)
KeyExpires(c) ==
  /\ session[LegId(c)].ttl
  /\ CallsOutliveTTL \/ pc[c] \in Over
  /\ session' = [session EXCEPT ![LegId(c)] = NoSession]
  /\ UNCHANGED <<pc, origin, pending, slots, streams, records, reported, cause>>

(* A tenant's set expires SESSION_TTL after the last registration in it,   *)
(* with every member it still has.                                         *)
SetExpires(t) ==
  /\ members[t] # {}
  /\ CallsOutliveTTL \/ \A c \in members[t] : pc[c] \in Over
  /\ members' = [members EXCEPT ![t] = {}]
  /\ UNCHANGED <<pc, origin, pending, session, registered, streams, records, reported, cause>>

-------------------------------------------------------------------------------
Admit(c) ==
  OpenStream(c) \/ CheckConcurrency(c) \/ CheckUsageLimit(c) \/ HsetSession(c)
    \/ ExpireSession(c) \/ SaddMember(c) \/ StartBridge(c)

Cleanup(c) ==
  MarkCompleted(c) \/ SremMember(c) \/ DeleteKey(c) \/ PersistCall(c)
    \/ DispatchWebhook(c) \/ EnqueuePostCall(c)

Serve(c) == Admit(c) \/ ConnectOpenAI(c) \/ BridgeEnds(c) \/ Cleanup(c)

Environment(c) ==
  InitiateOutboundCall(c) \/ InboundCallWebhook(c) \/ CallStatusCallback(c)
    \/ TwilioStops(c) \/ OpenAICloses(c) \/ AdmissionError(c)
    \/ CleanupError(c) \/ Crash(c) \/ KeyExpires(c)

Next ==
  \/ \E c \in Calls : Serve(c) \/ Environment(c)
  \/ \E id \in CallIds : PendingExpires(id)
  \/ \E t \in Tenants : SetExpires(t)

Spec == Init /\ [][Next]_vars

(* The event loop resumes every handler whose await has completed, and a   *)
(* media stream ends: callers hang up.  Nothing here makes OpenAI close.   *)
Fairness ==
  \A c \in Calls : WF_vars(Serve(c)) /\ WF_vars(TwilioStops(c))

FairSpec == Spec /\ Fairness

(* As above, and OpenAI ends every session (its own session limit).        *)
FairSpecOpenAI == FairSpec /\ \A c \in Calls : WF_vars(OpenAICloses(c))

-------------------------------------------------------------------------------
(* Properties *)

TypeOK ==
  /\ pc \in [Calls -> PCs]
  /\ origin \in [Calls -> {"inbound", "outbound"}]
  /\ pending \subseteq CallIds
  /\ session \in [CallIds -> Sessions]
  /\ members \in [Tenants -> SUBSET Calls]
  /\ streams \in [Calls -> SUBSET {"twilio", "openai"}]
  /\ logs \in [Calls -> {"none", "inbound", "outbound"}]
  /\ billed \subseteq Calls
  /\ notified \subseteq Calls
  /\ queued \subseteq Calls
  /\ reported \subseteq Calls
  /\ registered \subseteq Calls
  /\ cause \in [Calls -> SUBSET FaultKinds]

(* The count is read two awaits before the call is registered, so the      *)
(* limit can be exceeded; it is exceeded by at most the number of other    *)
(* handlers that were between their count and their registration.          *)
OvershootBounded ==
  \A t \in Tenants : Cardinality(members[t]) <= Limit + MaxAdmitting - 1

(* While a call is bridged its slot is counted, whatever other calls of    *)
(* the tenant start, end, crash or expire meanwhile.                       *)
LiveCallHoldsSlot ==
  \A c \in Calls : pc[c] \in Bridged => c \in Members(c)

(* A slot that outlives its handler was left by a crash or a Redis error,  *)
(* never by an ordinary way of ending or refusing a call.                  *)
LeakHasCause ==
  \A t \in Tenants : \A c \in members[t] :
    pc[c] \notin Bridged => cause[c] \cap {"crash", "redis"} # {}

(* A refused call leaves no slot, no session key, no bill and no task.     *)
RefusedCallLeavesNothing ==
  \A c \in Calls : pc[c] = "refused" =>
    /\ c \notin Members(c) /\ ~Exists(session[LegId(c)])
    /\ c \notin billed \cup queued

(* A call that was bridged and whose handler finished has its call log and *)
(* its usage record, also when the cleanup of Redis failed before.         *)
FinishedCallBilled ==
  \A c \in Calls : pc[c] = "done" /\ "db" \notin cause[c] =>
    c \in billed /\ logs[c] # "none"

(* When the worker takes the post-call task of a call, the row it looks up *)
(* is committed, unless the commit failed; so is it for the tenant's       *)
(* webhook.                                                                *)
TaskFindsItsLog ==
  /\ \A c \in queued : logs[c] # "none" \/ "db" \in cause[c]
  /\ \A c \in notified : logs[c] # "none"

(* What the cleanup leaves behind is complete, in every order of failures. *)
RecordsComplete == FinishedCallBilled /\ TaskFindsItsLog

(* GET /voice/calls/active lists only calls some handler is serving, or    *)
(* that a crash or a Redis error left behind.                              *)
ListedCallIsLive ==
  \A c \in Calls : session[LegId(c)].state \in {"connecting", "active"} =>
    pc[c] \in Handling \/ cause[c] \cap {"crash", "redis"} # {}

(* The tenant's set behaves as a pool of slots whose capacity is the limit *)
(* plus the handlers that may pass the count together.                     *)
Pool == INSTANCE SlotPool WITH
          held <- members, served <- registered, billed <- billed,
          Capacity <- Limit + MaxAdmitting - 1
PoolSpecHolds == Pool!PoolSpec

(***************************************************************************)
(* The inductive strengthening of the invariants above: what is true of a  *)
(* call at every step of its handler.                                      *)
(***************************************************************************)
Unregistered == {"idle", "dialing", "ringing", "verified", "refused"} \cup Admitting
Registered   == Bridged \cup {"unlisted", "persisting", "logged", "notifying", "done"}
Wound        == {"marked", "unlisted", "persisting", "logged", "notifying", "done"}

Slots(t) == members[t] \cup Window(t)

(* Handlers past the count are counted with the calls already registered.  *)
WindowBounded ==
  \A t \in Tenants :
    IsFiniteSet(Slots(t)) /\ Cardinality(Slots(t)) <= Limit + MaxAdmitting - 1

(* A handler registers its call once, between the two groups of steps.     *)
RegistrationFollowsPc ==
  /\ \A t \in Tenants : \A c \in members[t] : TenantOf[c] = t /\ c \in registered
  /\ \A c \in Calls :
       /\ pc[c] \in Unregistered => c \notin registered
       /\ pc[c] \in Registered => c \in registered

(* Nothing is recorded before the call log is written, all of it after.    *)
RecordsFollowPc ==
  \A c \in Calls :
    /\ c \in billed \cup queued => pc[c] \in {"logged", "notifying", "done", "crashed"}
    /\ pc[c] = "logged" => c \in billed /\ logs[c] # "none"
    /\ pc[c] \in {"notifying", "done"} /\ "db" \notin cause[c] =>
         c \in billed /\ logs[c] # "none"

(* The session key exists from HSET on; the cleanup leaves no live state.  *)
SessionFollowsPc ==
  \A c \in Calls :
    /\ pc[c] \in {"idle", "dialing", "ringing", "verified", "counted", "metered", "refused"} =>
         ~Exists(session[LegId(c)])
    /\ pc[c] \in Wound /\ session[LegId(c)].state \in {"connecting", "active"} =>
         cause[c] \cap {"crash", "redis"} # {}

CallInv ==
  /\ TypeOK /\ WindowBounded
  /\ RegistrationFollowsPc /\ RecordsFollowPc /\ SessionFollowsPc

(* Every call that takes a slot gives it back and its cleanup runs to the  *)
(* end, whichever of the two sockets closes first, unless the process dies *)
(* or Redis fails under it.                                                *)
SlotEventuallyReleased ==
  \A c \in Calls :
    c \in Members(c) ~> \/ c \notin Members(c) /\ pc[c] = "done"
                       \/ cause[c] \cap {"crash", "redis"} # {}

===============================================================================
