------------------------------ MODULE WebhookFeed ------------------------------
(***************************************************************************)
(* What a tenant's endpoints are promised about calls: the completion of a *)
(* call comes first and once, when the log is stored; an analysis is what  *)
(* the log says at that moment, and later ones replace earlier ones; it    *)
(* comes once.  Two things excuse a second one: that the work on the call  *)
(* was repeated, or that a message to this endpoint was delayed.  A        *)
(* delayed message may arrive whenever it likes, once, or never.           *)
(***************************************************************************)
EXTENDS Naturals, Sequences

CONSTANTS Calls, Endpoints, Attempts

VARIABLES
  logged,    \* the calls whose log is stored
  analysis,  \* the attempt whose analysis the log has, 0 for the bridge's own
  pending,   \* the messages delayed: <<endpoint, call, message>>
  received,  \* what an endpoint has received about a call
  delayed,   \* <<endpoint, call>>: a message was delayed
  repeated   \* the calls whose work was repeated after a dispatch

feedVars == <<logged, analysis, pending, received, delayed, repeated>>

Completion == [event |-> "call.completed", summary |-> 0]
Analysis(n) == [event |-> "call.analyzed", summary |-> n]

KnowsAnalysis(e, c) ==
  \E i \in DOMAIN received[e][c] : received[e][c][i].event = "call.analyzed"

(* Endpoint e may be sent m about call c now. *)
Due(e, c, m) ==
  /\ c \in logged
  /\ \/ /\ m = Completion
        /\ received[e][c] = <<>>
        /\ \A x \in pending : ~(x[1] = e /\ x[2] = c)
     \/ /\ m = Analysis(analysis[c])
        /\ KnowsAnalysis(e, c) => c \in repeated \/ <<e, c>> \in delayed

FeedInit ==
  /\ logged = {} /\ analysis = [c \in Calls |-> 0]
  /\ pending = {} /\ received = [e \in Endpoints |-> [c \in Calls |-> <<>>]]
  /\ delayed = {} /\ repeated = {}

StoreLog(c) ==
  /\ logged' = logged \cup {c}
  /\ UNCHANGED <<analysis, pending, received, delayed, repeated>>

StoreAnalysis(c, n) ==
  /\ c \in logged /\ analysis[c] < n
  /\ analysis' = [analysis EXCEPT ![c] = n]
  /\ UNCHANGED <<logged, pending, received, delayed, repeated>>

Repeat(c) ==
  /\ c \in logged
  /\ repeated' = repeated \cup {c}
  /\ UNCHANGED <<logged, analysis, pending, received, delayed>>

Deliver(e, c) ==
  /\ \E m \in {Completion, Analysis(analysis[c])} :
       Due(e, c, m) /\ received' = [received EXCEPT ![e][c] = Append(@, m)]
  /\ UNCHANGED <<logged, analysis, pending, delayed, repeated>>

Delay(e, c) ==
  /\ \E m \in {Completion, Analysis(analysis[c])} :
       Due(e, c, m) /\ pending' = pending \cup {<<e, c, m>>}
  /\ delayed' = delayed \cup {<<e, c>>}
  /\ UNCHANGED <<logged, analysis, received, repeated>>

Settle(x) ==
  /\ x \in pending
  /\ pending' = pending \ {x}
  /\ \/ received' = [received EXCEPT ![x[1]][x[2]] = Append(@, x[3])]
     \/ UNCHANGED received
  /\ UNCHANGED <<logged, analysis, delayed, repeated>>

FeedNext ==
  \/ \E c \in Calls : StoreLog(c) \/ Repeat(c) \/ \E n \in Attempts : StoreAnalysis(c, n)
  \/ \E c \in Calls, e \in Endpoints : Deliver(e, c) \/ Delay(e, c)
  \/ \E x \in pending : Settle(x)

FeedSpec == FeedInit /\ [][FeedNext]_feedVars
===============================================================================
