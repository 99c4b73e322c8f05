------------------------------- MODULE PostCall --------------------------------
(***************************************************************************)
(* After a call: the cleanup's webhook "call.completed" and the task it    *)
(* enqueues (realtime/voice_bridge.py), the Celery task that analyses the  *)
(* call, stores the analysis and sends "call.analyzed" (worker/tasks.py),  *)
(* and the delivery of an event to the tenant's endpoints (services/       *)
(* webhook_service.py).                                                    *)
(*                                                                         *)
(* Of a call's analysis only the attempt that made it matters: 0 stands    *)
(* for the summary and the sentiment the bridge wrote into the log.  The   *)
(* endpoints are other people's servers; a POST that is not answered in    *)
(* ten seconds is given up, and may arrive later or never.                 *)
(***************************************************************************)
EXTENDS Naturals, FiniteSets, Sequences

CONSTANTS
  Calls,       \* calls of one tenant
  Endpoints,   \* webhook endpoints the tenant may create
  MaxRetries,  \* max_retries of the task
  Faults       \* the faults the environment may cause

FaultKinds == {"db", "openai", "post", "slow", "crash", "redis"}

ASSUME PostCallAssumption ==
  /\ MaxRetries \in Nat
  /\ Faults \subseteq FaultKinds

VARIABLES
  events,    \* the events of an endpoint's row; {} for no row
  logged,    \* calls whose log is committed
  summary,   \* the summary in the log: the attempt that made it
  pc,        \* where the call's cleanup or task is
  tries,     \* retries so far
  view,      \* the summary the attempt holds: its row, or a new answer
  todo,      \* endpoints the dispatch has read and not finished with
  slow,      \* POSTs given up that may still arrive
  received,  \* what an endpoint received about a call
  missed,    \* <<endpoint, call>>: created after the dispatch had read, or
             \* its POST failed (history)
  late,      \* <<endpoint, call>>: a POST was given up (history)
  repeated   \* calls of which an attempt failed after its dispatch (history)

vars == <<events, logged, summary, pc, tries, view, todo, slow, received, missed, late, repeated>>

row     == <<logged, summary>>
network == <<slow, received, missed, late>>
attempt == <<tries, view, repeated>>

Events   == {"call.completed", "call.analyzed"}
Attempts == 0..MaxRetries + 1
Message  == [event : Events, summary : Attempts]

Worker == {"loading", "asking", "saving", "broken", "reading", "analyzed", "closing"}
PCs    == {"persisting", "persisted", "completed", "enqueuing", "queued",
           "done", "dropped", "lost"} \cup Worker

Init ==
  /\ events = [e \in Endpoints |-> {}]
  /\ logged = {} /\ summary = [c \in Calls |-> 0]
  /\ pc = [c \in Calls |-> "persisting"] /\ tries = [c \in Calls |-> 0]
  /\ view = [c \in Calls |-> 0] /\ todo = [c \in Calls |-> {}]
  /\ slow = {} /\ received = [e \in Endpoints |-> [c \in Calls |-> <<>>]]
  /\ missed = {} /\ late = {} /\ repeated = {}

Goto(c, from, to) ==
  /\ pc[c] = from
  /\ pc' = [pc EXCEPT ![c] = to]

(* The event a call's dispatch sends; its body is made once. *)
Body(c) ==
  IF pc[c] = "completed"
    THEN [event |-> "call.completed", summary |-> 0]
    ELSE [event |-> "call.analyzed", summary |-> view[c]]

Subscribed(event) == {e \in Endpoints : event \in events[e]}

Receive(e, c, m) == received' = [received EXCEPT ![e][c] = Append(@, m)]

-------------------------------------------------------------------------------
(* Faulty variants of actions below: each must break a property. *)

(* The bridge does not wait for the webhook before it enqueues. *)
SentUnawaited(c) ==
  /\ \/ Goto(c, "completed", "enqueuing")
     \/ todo[c] = {} /\ Goto(c, "analyzed", "closing")
  /\ UNCHANGED <<events, row, attempt, todo, network>>

(* A POST that fails ends the gathering: the others are cancelled. *)
PostFailsAll(c, e) ==
  /\ "post" \in Faults /\ e \in todo[c]
  /\ todo' = [todo EXCEPT ![c] = {}]
  /\ missed' = missed \cup {<<e, c>>}
  /\ UNCHANGED <<events, row, pc, attempt, slow, received, late>>

(* When the analysis cannot be stored it is sent nevertheless. *)
SaveFailsUnnoticed(c) ==
  /\ "db" \in Faults
  /\ Goto(c, "saving", "reading")
  /\ UNCHANGED <<events, row, attempt, todo, network>>

(* An endpoint is stored with an event nobody sends. *)
CreateEndpointUnknown(e, es) ==
  /\ events[e] = {} /\ \A c \in Calls : received[e][c] = <<>>
  /\ events' = [events EXCEPT ![e] = es \cup {"call.*"}]
  /\ UNCHANGED <<row, pc, attempt, todo, network>>

-------------------------------------------------------------------------------
(* The tenant's endpoints *)

(* POST /webhooks: an address is used once.  {"*"} stands for all events.  *)
CreateEndpoint(e, es) ==
  /\ events[e] = {} /\ \A c \in Calls : received[e][c] = <<>>
  /\ events' = [events EXCEPT ![e] = es]
  /\ missed' = missed \cup {<<e, c>> : c \in
       {d \in Calls : pc[d] \in {"analyzed", "closing", "done", "dropped", "lost"}}}
  /\ UNCHANGED <<row, pc, attempt, todo, slow, received, late>>

DeleteEndpoint(e) ==
  /\ events[e] # {}
  /\ events' = [events EXCEPT ![e] = {}]
  /\ UNCHANGED <<row, pc, attempt, todo, network>>

-------------------------------------------------------------------------------
(* dispatch_event *)

(* The endpoints are read, and the body built, before the first POST. *)
ReadEndpoints(c) ==
  /\ \/ /\ Goto(c, "persisted", "completed")
        /\ todo' = [todo EXCEPT ![c] = Subscribed("call.completed")]
     \/ /\ Goto(c, "reading", "analyzed")
        /\ todo' = [todo EXCEPT ![c] = Subscribed("call.analyzed")]
  /\ UNCHANGED <<events, row, attempt, network>>

(* Answered, with whatever status. *)
PostAnswered(c, e) ==
  /\ e \in todo[c]
  /\ todo' = [todo EXCEPT ![c] = @ \ {e}]
  /\ Receive(e, c, Body(c))
  /\ UNCHANGED <<events, row, pc, attempt, slow, missed, late>>

PostFails(c, e) ==
  /\ "post" \in Faults /\ e \in todo[c]
  /\ todo' = [todo EXCEPT ![c] = @ \ {e}]
  /\ missed' = missed \cup {<<e, c>>}
  /\ UNCHANGED <<events, row, pc, attempt, slow, received, late>>

PostGivenUp(c, e) ==
  /\ "slow" \in Faults /\ e \in todo[c]
  /\ todo' = [todo EXCEPT ![c] = @ \ {e}]
  /\ slow' = slow \cup {<<e, c, Body(c)>>}
  /\ late' = late \cup {<<e, c>>}
  /\ UNCHANGED <<events, row, pc, attempt, received, missed>>

SlowPostEnds(x) ==
  /\ x \in slow
  /\ slow' = slow \ {x}
  /\ Receive(x[1], x[2], x[3]) \/ UNCHANGED received
  /\ UNCHANGED <<events, row, pc, attempt, todo, missed, late>>

(* gather returns when every POST has ended. *)
EventSent(c) ==
  /\ todo[c] = {}
  /\ Goto(c, "completed", "enqueuing") \/ Goto(c, "analyzed", "closing")
  /\ UNCHANGED <<events, row, attempt, todo, network>>

-------------------------------------------------------------------------------
(* The bridge's cleanup *)

PersistLog(c) ==
  /\ \/ Goto(c, "persisting", "persisted") /\ logged' = logged \cup {c}
     \/ /\ "db" \in Faults         \* or the endpoints cannot be read
        /\ Goto(c, "persisting", "enqueuing") \/ Goto(c, "persisted", "enqueuing")
        /\ UNCHANGED logged
  /\ UNCHANGED <<events, summary, attempt, todo, network>>

Enqueue(c) ==
  /\ \/ Goto(c, "enqueuing", "queued")
     \/ "redis" \in Faults /\ Goto(c, "enqueuing", "lost")
  /\ UNCHANGED <<events, row, attempt, todo, network>>

-------------------------------------------------------------------------------
(* post_call_processing_task *)

(* The message is acknowledged when a worker takes it. *)
TakeTask(c) ==
  /\ Goto(c, "queued", "loading")
  /\ UNCHANGED <<events, row, attempt, todo, network>>

(* Without transcript or API key there is nothing to ask. *)
LoadLog(c) ==
  /\ \/ c \notin logged /\ Goto(c, "loading", "done")
     \/ c \in logged /\ Goto(c, "loading", "asking")
     \/ c \in logged /\ Goto(c, "loading", "reading")
  /\ view' = [view EXCEPT ![c] = summary[c]]
  /\ UNCHANGED <<events, row, tries, repeated, todo, network>>

(* A failure of the request is logged and the stored summary sent.         *)
AskOpenAI(c) ==
  /\ \/ Goto(c, "asking", "saving") /\ view' = [view EXCEPT ![c] = tries[c] + 1]
     \/ "openai" \in Faults /\ Goto(c, "asking", "reading") /\ UNCHANGED view
  /\ UNCHANGED <<events, row, tries, repeated, todo, network>>

SaveAnalysis(c) ==
  /\ Goto(c, "saving", "reading")
  /\ summary' = [summary EXCEPT ![c] = view[c]]
  /\ UNCHANGED <<events, logged, attempt, todo, network>>

(* The same try block catches a failed UPDATE or commit, but its session   *)
(* is unusable: the dispatch cannot read the endpoints.                    *)
SaveFails(c) ==
  /\ "db" \in Faults
  /\ Goto(c, "saving", "broken")
  /\ UNCHANGED <<events, row, attempt, todo, network>>

CloseSession(c) ==
  /\ Goto(c, "closing", "done")
  /\ UNCHANGED <<events, row, attempt, todo, network>>

(* Any other exception: the task is put back, at most MaxRetries times. *)
Retry(c) ==
  /\ \/ pc[c] = "broken"
     \/ "db" \in Faults /\ pc[c] \in {"loading", "reading", "closing"}
  /\ IF tries[c] < MaxRetries
       THEN /\ pc' = [pc EXCEPT ![c] = "queued"]
            /\ tries' = [tries EXCEPT ![c] = @ + 1]
       ELSE pc' = [pc EXCEPT ![c] = "dropped"] /\ UNCHANGED tries
  /\ repeated' = repeated \cup {d \in {c} : pc[d] = "closing"}
  /\ UNCHANGED <<events, row, view, todo, network>>

(* The process dies: nobody delivers the task again. *)
Crash(c) ==
  /\ "crash" \in Faults
  /\ pc[c] \in {"persisting", "persisted", "completed", "enqueuing"} \cup Worker
  /\ pc' = [pc EXCEPT ![c] = "lost"]
  /\ todo' = [todo EXCEPT ![c] = {}]
  /\ UNCHANGED <<events, row, attempt, network>>

-------------------------------------------------------------------------------

Dispatch(c) ==
  \/ ReadEndpoints(c) \/ EventSent(c)
  \/ \E e \in Endpoints : PostAnswered(c, e) \/ PostFails(c, e) \/ PostGivenUp(c, e)

Task(c) ==
  LoadLog(c) \/ AskOpenAI(c) \/ SaveAnalysis(c) \/ SaveFails(c) \/ CloseSession(c)
    \/ Retry(c)

Run(c) == PersistLog(c) \/ Enqueue(c) \/ TakeTask(c) \/ Dispatch(c) \/ Task(c)

Next ==
  \/ \E c \in Calls : Run(c) \/ Crash(c)
  \/ \E e \in Endpoints : DeleteEndpoint(e) \/ \E es \in SUBSET Events \ {{}} : CreateEndpoint(e, es)
  \/ \E x \in slow : SlowPostEnds(x)

Spec == Init /\ [][Next]_vars

-------------------------------------------------------------------------------

(* Every variable has its type. *)
TypeOK ==
  /\ events \in [Endpoints -> SUBSET Events]
  /\ logged \subseteq Calls /\ summary \in [Calls -> Attempts]
  /\ pc \in [Calls -> PCs] /\ tries \in [Calls -> 0..MaxRetries]
  /\ view \in [Calls -> Attempts] /\ todo \in [Calls -> SUBSET Endpoints]
  /\ slow \subseteq Endpoints \X Calls \X Message
  /\ received \in [Endpoints -> [Calls -> Seq(Message)]]
  /\ missed \cup late \subseteq Endpoints \X Calls /\ repeated \subseteq Calls

Analyses(e, c) ==
  {n \in DOMAIN received[e][c] : received[e][c][n].event = "call.analyzed"}

(* An endpoint hears of a call's analysis once and last, after which it    *)
(* hears nothing more of the call, and what it was told is what the log    *)
(* says now, unless a POST to it was given up or an attempt failed after   *)
(* it had sent.                                                            *)
AnalysisToldOnceAndLast ==
  \A e \in Endpoints, c \in Calls : <<e, c>> \notin late /\ c \notin repeated =>
    /\ Cardinality(Analyses(e, c)) <= 1
    /\ Analyses(e, c) \subseteq {Len(received[e][c])}
    /\ \A n \in Analyses(e, c) : received[e][c][n].summary = summary[c]

(* No endpoint is told an analysis that the log never held, and the one it *)
(* is told last is never older than what it was told before.               *)
ToldIsStored ==
  \A e \in Endpoints, c \in Calls : \A n \in Analyses(e, c) :
    /\ c \in logged
    /\ received[e][c][n].summary <= summary[c]
    /\ <<e, c>> \notin late =>
         \A m \in Analyses(e, c) : m < n => received[e][c][m].summary <= received[e][c][n].summary

(* A finished task has told every endpoint that subscribed in time and is  *)
(* still there, also those next to one that failed.                        *)
FailureStaysWithItsEndpoint ==
  \A c \in logged, e \in Subscribed("call.analyzed") :
    pc[c] = "done" /\ <<e, c>> \notin missed \cup late => Analyses(e, c) # {}

(* What endpoints receive is what they are promised of a tenant's calls:   *)
(* the completion first, then what the log says, once unless excused.      *)
Feed == INSTANCE WebhookFeed WITH
          analysis <- summary, pending <- slow, delayed <- late
FeedSpecHolds == Feed!FeedSpec
===============================================================================
